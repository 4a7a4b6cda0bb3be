---------------------------- MODULE StoreContract ----------------------------
(***************************************************************************)
(* What a mail store promises its callers.  A call is answered, refused or *)
(* lost; success means its operation is in the database, an error or a     *)
(* refusal that it never will be because of this call.  A lost call is in  *)
(* doubt for a while, in which it may still take effect; nobody is served  *)
(* a database while calls to it are in doubt.  An operation is named by    *)
(* its key, so that repeating a lost call is safe.                         *)
(***************************************************************************)
CONSTANTS Calls, Operations, Databases, None

VARIABLES
  call,     \* what has become of each call, and what it asks of which database
  rows,     \* per database: the operations in it
  effect,   \* the calls that put one there
  served    \* the databases somebody has open in a working store

vars == <<call, rows, effect, served>>

Phases == {"none", "pending", "ok", "error", "refused", "doubtful", "over"}

TypeOK ==
  /\ call \in [Calls -> [phase : Phases, operation : Operations \cup {None},
                         db : Databases \cup {None}]]
  /\ rows \in [Databases -> SUBSET Operations]
  /\ effect \subseteq Calls /\ served \subseteq Databases

Init ==
  /\ call = [q \in Calls |-> [phase |-> "none", operation |-> None, db |-> None]]
  /\ rows = [d \in Databases |-> {}]
  /\ effect = {} /\ served = {}

Asked(q, operation, d, phase) ==
  /\ call[q].phase = "none"
  /\ call' = [call EXCEPT ![q] = [phase |-> phase, operation |-> operation, db |-> d]]
  /\ UNCHANGED <<rows, effect, served>>

Ask(q, operation, d) == Asked(q, operation, d, "pending")
Refuse(q, operation, d) == Asked(q, operation, d, "refused")

Execute(q) ==
  LET d == call[q].db IN
  /\ call[q].phase \in {"pending", "doubtful"}
  /\ rows' = [rows EXCEPT ![d] = @ \cup {call[q].operation}]
  /\ effect' = IF call[q].operation \in rows[d] THEN effect ELSE effect \cup {q}
  /\ call' = IF call[q].phase = "doubtful" THEN [call EXCEPT ![q].phase = "over"] ELSE call
  /\ UNCHANGED served

Succeed(q) ==
  /\ call[q].phase = "pending"
  /\ call[q].operation \in rows[call[q].db]
  /\ call' = [call EXCEPT ![q].phase = "ok"]
  /\ UNCHANGED <<rows, effect, served>>

Fail(q) ==
  /\ call[q].phase = "pending"
  /\ q \notin effect
  /\ call' = [call EXCEPT ![q].phase = "error"]
  /\ UNCHANGED <<rows, effect, served>>

(* Stores end, calls to them are lost, and what was in doubt is over.      *)
Break(lost, settled, ended) ==
  /\ served' = served \ ended
  /\ \A q \in lost : call[q].phase = "pending" /\ call[q].db \notin served'
  /\ \A q \in settled : call[q].phase \in {"pending", "doubtful"}
  /\ call' = [q \in Calls |-> IF q \in lost THEN [call[q] EXCEPT !.phase = "doubtful"]
                              ELSE IF q \in settled THEN [call[q] EXCEPT !.phase = "over"]
                              ELSE call[q]]
  /\ UNCHANGED <<rows, effect>>

Serve(d) ==
  /\ \A q \in Calls : call[q].db = d => call[q].phase # "doubtful"
  /\ served' = served \cup {d}
  /\ UNCHANGED <<call, rows, effect>>

Next ==
  \/ \E q \in Calls, operation \in Operations, d \in Databases :
       Ask(q, operation, d) \/ Refuse(q, operation, d)
  \/ \E q \in Calls : Execute(q) \/ Succeed(q) \/ Fail(q)
  \/ \E lost, settled \in SUBSET Calls, ended \in SUBSET Databases : Break(lost, settled, ended)
  \/ \E d \in Databases : Serve(d)

Spec == Init /\ [][Next]_vars
=============================================================================
