---------------------------- MODULE SendContract ----------------------------
(***************************************************************************)
(* What the outbox promises for each message: nothing reaches the provider *)
(* before a person approved it, one approval buys one attempt, a doubtful  *)
(* attempt is settled by evidence or by a person, and only a person who    *)
(* was asked can have the message sent again, as a new message that needs  *)
(* an approval of its own.                                                 *)
(***************************************************************************)
CONSTANTS Messages, None

VARIABLES
  phase,    \* what is known of each message
  held,     \* the messages the provider has
  origin    \* the message each message resends, or None

vars == <<phase, held, origin>>

Phases == {"none", "asking", "authorised", "withdrawn", "attempted", "unsure",
           "asked", "delivered", "presumed", "refused", "resent"}

TypeOK ==
  /\ phase \in [Messages -> Phases]
  /\ held \subseteq Messages
  /\ origin \in [Messages -> Messages \cup {None}]

Init ==
  /\ phase = [m \in Messages |-> "none"]
  /\ held = {}
  /\ origin = [m \in Messages |-> None]

Move(m, from, to) ==
  /\ phase[m] \in from
  /\ phase' = [phase EXCEPT ![m] = to]

MoveAll(S, from, to) ==
  /\ \A m \in S : phase[m] \in from
  /\ phase' = [m \in Messages |-> IF m \in S THEN to ELSE phase[m]]

Ask(m) == Move(m, {"none"}, "asking") /\ UNCHANGED <<held, origin>>
Authorise(m) == Move(m, {"asking"}, "authorised") /\ UNCHANGED <<held, origin>>
Withdraw(S) == MoveAll(S, {"asking", "authorised"}, "withdrawn") /\ UNCHANGED <<held, origin>>
Attempt(m) == Move(m, {"authorised"}, "attempted") /\ UNCHANGED <<held, origin>>

\* The one attempt succeeds, perhaps long after everyone gave up on it.
Arrive(m) ==
  /\ m \notin held
  /\ phase[m] \in {"attempted", "unsure", "asked", "presumed", "resent"}
  /\ held' = held \cup {m}
  /\ UNCHANGED <<phase, origin>>

Confirm(m) ==
  /\ m \in held
  /\ Move(m, {"attempted", "unsure", "asked"}, "delivered")
  /\ UNCHANGED <<held, origin>>
Refuse(m) ==
  /\ m \notin held
  /\ Move(m, {"attempted"}, "refused")
  /\ UNCHANGED <<held, origin>>
Doubt(S) == MoveAll(S, {"attempted"}, "unsure") /\ UNCHANGED <<held, origin>>
AskHuman(m) == Move(m, {"unsure"}, "asked") /\ UNCHANGED <<held, origin>>
Wait(m) == Move(m, {"asked"}, "unsure") /\ UNCHANGED <<held, origin>>
Presume(m) == Move(m, {"asked"}, "presumed") /\ UNCHANGED <<held, origin>>
Resend(m, n) ==
  /\ phase[m] = "asked" /\ phase[n] = "none"
  /\ phase' = [phase EXCEPT ![m] = "resent", ![n] = "asking"]
  /\ origin' = [origin EXCEPT ![n] = m]
  /\ UNCHANGED held

Next ==
  \/ \E m \in Messages :
       \/ Ask(m) \/ Authorise(m) \/ Attempt(m) \/ Arrive(m) \/ Confirm(m)
       \/ Refuse(m) \/ AskHuman(m) \/ Wait(m) \/ Presume(m)
  \/ \E S \in SUBSET Messages : Withdraw(S) \/ Doubt(S)
  \/ \E m, n \in Messages : Resend(m, n)

Spec == Init /\ [][Next]_vars
=============================================================================
