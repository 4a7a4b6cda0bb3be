--------------------------- MODULE MailStoreProofs ---------------------------
(***************************************************************************)
(* One owner per database, the registry as a barrier, and exact reference  *)
(* counts, for any number of hosts, clients, paths, databases, entries and *)
(* calls.                                                                  *)
(*                                                                         *)
(* Three layers, each inductive on its own or with those before it: the    *)
(* types; the locks (LockInv), which ask of the registry only that an      *)
(* entry is not reused while its process lives; the entries, the registry  *)
(* and the clients (OwnerInv).                                             *)
(***************************************************************************)
EXTENDS MailStoreRpc, SequenceTheorems, FiniteSetTheorems, TLAPS

(* Types, but for the bound of the reference counts and for the rows, which *)
(* need facts of their own.                                                *)
Object ==
  [host : Hosts \cup {None}, path : Paths \cup {None}, db : Databases \cup {None},
   state : {"absent", "starting", "ready", "closing", "dead", "orphan"}, references : Int,
   disposal : {"none", "shutdown", "terminate", "done"},
   ready : {"pending", "resolved", "rejected"}, stopped : BOOLEAN, failing : BOOLEAN]

Typed ==
  /\ file \in [Paths -> Databases \cup {None}]
  /\ registry \in [Hosts -> [Paths -> Entries \cup {None}]]
  /\ entry \in [Entries -> Object] /\ storage \in [Entries -> Storage]
  /\ inbox \in [Entries -> Seq(Calls \cup {"close"})] /\ outbox \in [Entries -> Seq(Message)]
  /\ client \in [Clients -> Client]
  /\ call \in [Calls -> Call]
  /\ rows \in [Databases -> SUBSET (Operations \cup {None})] /\ effect \subseteq Calls

(* A client beyond "idle" has a path, one beyond "looking" an entry.       *)
Placed(c) ==
  /\ client[c].phase # "idle" => client[c].path \in Paths
  /\ client[c].phase \in {"awaitsDisposal", "awaitsReady", "open"} => client[c].entry \in Entries
  /\ client[c].phase \in {"idle", "looking"} => client[c].entry = None

Shaped == Typed /\ \A c \in Clients : Placed(c)

-----------------------------------------------------------------------------
(* What the operations make of one entry.                                  *)

Failed(s) == [s EXCEPT !.stopped = TRUE, !.failing = TRUE,
                       !.ready = IF @ = "pending" THEN "rejected" ELSE @,
                       !.disposal = IF @ = "shutdown" THEN "terminate" ELSE @]
Noticed(s) == Disposed([s EXCEPT !.failing = FALSE])
Ended(s) == [s EXCEPT !.state = "dead", !.disposal = "done"]
Joined(s) == [s EXCEPT !.references = @ + 1]
Answering(s) == [s EXCEPT !.ready = "resolved"]
Readied(s) == [s EXCEPT !.state = "ready"]
ShutDown(s) == [s EXCEPT !.references = 0, !.state = "closing", !.disposal = "shutdown"]
Abandoned(s) == Stopped([s EXCEPT !.references = 0])
Created(h, p, d) == [NoEntry EXCEPT !.host = h, !.path = p, !.db = d,
                                    !.state = "starting", !.references = 1]
Stillborn(h, p, d) == [NoEntry EXCEPT !.host = h, !.path = p, !.db = d,
                                      !.state = "dead", !.stopped = TRUE]
Orphaned(s) == [NoEntry EXCEPT !.path = s.path, !.db = s.db, !.state = "orphan", !.stopped = TRUE]

(* Nothing but what is named changes.                                      *)
SamePlace(r, s) == r.host = s.host /\ r.path = s.path /\ r.db = s.db

LEMMA FailedIs ==
  ASSUME NEW s \in Object
  PROVE  /\ Failed(s) \in Object /\ SamePlace(Failed(s), s)
         /\ Failed(s).state = s.state /\ Failed(s).references = s.references
         /\ Failed(s).stopped /\ Failed(s).failing
         /\ Failed(s).ready = IF s.ready = "pending" THEN "rejected" ELSE s.ready
         /\ Failed(s).disposal = IF s.disposal = "shutdown" THEN "terminate" ELSE s.disposal
<1>1. /\ Failed(s).stopped /\ Failed(s).failing
      /\ Failed(s).ready = IF s.ready = "pending" THEN "rejected" ELSE s.ready
      /\ Failed(s).disposal = IF s.disposal = "shutdown" THEN "terminate" ELSE s.disposal
      /\ Failed(s).state = s.state /\ Failed(s).references = s.references
      /\ SamePlace(Failed(s), s)
  BY DEF Failed, Object, SamePlace
<1>2. Failed(s) \in Object
  BY DEF Failed, Object
<1> QED BY <1>1, <1>2

LEMMA DisposedIs ==
  ASSUME NEW s \in Object
  PROVE  /\ Disposed(s) \in Object /\ SamePlace(Disposed(s), s)
         /\ Disposed(s).state = IF s.disposal = "none" THEN "closing" ELSE s.state
         /\ Disposed(s).disposal = IF s.disposal = "none" THEN "terminate" ELSE s.disposal
         /\ Disposed(s).references = s.references /\ Disposed(s).ready = s.ready
         /\ Disposed(s).stopped = s.stopped /\ Disposed(s).failing = s.failing
<1>1. CASE s.disposal = "none"
  <2>1. Disposed(s) = [s EXCEPT !.state = "closing", !.disposal = "terminate"]
    BY <1>1 DEF Disposed
  <2> QED BY <1>1, <2>1 DEF Object, SamePlace
<1>2. CASE s.disposal # "none"
  BY <1>2 DEF Disposed, SamePlace
<1> QED BY <1>1, <1>2

LEMMA NoticedIs ==
  ASSUME NEW s \in Object
  PROVE  /\ Noticed(s) \in Object /\ SamePlace(Noticed(s), s)
         /\ Noticed(s).state = IF s.disposal = "none" THEN "closing" ELSE s.state
         /\ Noticed(s).disposal = IF s.disposal = "none" THEN "terminate" ELSE s.disposal
         /\ Noticed(s).references = s.references /\ Noticed(s).ready = s.ready
         /\ Noticed(s).stopped = s.stopped /\ ~Noticed(s).failing
<1> DEFINE r == [s EXCEPT !.failing = FALSE]
<1>1. /\ r \in Object /\ SamePlace(r, s) /\ r.state = s.state /\ r.disposal = s.disposal
      /\ r.references = s.references /\ r.ready = s.ready /\ r.stopped = s.stopped /\ ~r.failing
  BY DEF Object, SamePlace
<1>2. Noticed(s) = Disposed(r)
  BY DEF Noticed
<1> HIDE DEF r
<1> QED BY <1>1, <1>2, DisposedIs DEF SamePlace

LEMMA EndedIs ==
  ASSUME NEW s \in Object
  PROVE  /\ Ended(s) \in Object /\ SamePlace(Ended(s), s)
         /\ Ended(s).state = "dead" /\ Ended(s).disposal = "done"
         /\ Ended(s).references = s.references /\ Ended(s).ready = s.ready
         /\ Ended(s).stopped = s.stopped /\ Ended(s).failing = s.failing
BY DEF Ended, Object, SamePlace

LEMMA CountedIs ==
  ASSUME NEW s \in Object, NEW r \in {Left(s), Joined(s)}
  PROVE  /\ r \in Object /\ SamePlace(r, s) /\ r.state = s.state /\ r.disposal = s.disposal
         /\ r.ready = s.ready /\ r.stopped = s.stopped /\ r.failing = s.failing
         /\ r = Left(s) => r.references = s.references - 1
         /\ r = Joined(s) => r.references = s.references + 1
BY DEF Left, Joined, Object, SamePlace

LEMMA ReadyIs ==
  ASSUME NEW s \in Object, NEW r \in {Answering(s), Readied(s)}
  PROVE  /\ r \in Object /\ SamePlace(r, s) /\ r.disposal = s.disposal
         /\ r.references = s.references /\ r.stopped = s.stopped /\ r.failing = s.failing
         /\ r = Answering(s) => r.state = s.state /\ r.ready = "resolved"
         /\ r = Readied(s) => r.state = "ready" /\ r.ready = s.ready
BY DEF Answering, Readied, Object, SamePlace

LEMMA StoppedIs ==
  ASSUME NEW s \in Object
  PROVE  /\ Stopped(s) \in Object /\ SamePlace(Stopped(s), s)
         /\ Stopped(s).state = "closing" /\ Stopped(s).disposal = "terminate" /\ Stopped(s).stopped
         /\ Stopped(s).references = s.references /\ Stopped(s).ready = s.ready
         /\ Stopped(s).failing = s.failing
BY DEF Stopped, Object, SamePlace

LEMMA ClosedIs ==
  ASSUME NEW s \in Object, NEW r \in {ShutDown(s), Abandoned(s)}
  PROVE  /\ r \in Object /\ SamePlace(r, s) /\ r.state = "closing" /\ r.references = 0
         /\ r.ready = s.ready /\ r.failing = s.failing
         /\ r = ShutDown(s) => r.disposal = "shutdown" /\ r.stopped = s.stopped
         /\ r = Abandoned(s) => r.disposal = "terminate" /\ r.stopped
<1>1. /\ ShutDown(s) \in Object /\ SamePlace(ShutDown(s), s)
      /\ ShutDown(s).state = "closing" /\ ShutDown(s).disposal = "shutdown"
      /\ ShutDown(s).references = 0 /\ ShutDown(s).ready = s.ready
      /\ ShutDown(s).stopped = s.stopped /\ ShutDown(s).failing = s.failing
  <2> DEFINE o == [s EXCEPT !.references = 0]
             r1 == [o EXCEPT !.state = "closing", !.disposal = "shutdown"]
  <2>1. /\ o \in Object /\ SamePlace(o, s) /\ o.references = 0 /\ o.ready = s.ready
        /\ o.failing = s.failing /\ o.stopped = s.stopped
    BY DEF Object, SamePlace
  <2>2. ShutDown(s) = r1
    BY DEF ShutDown
  <2> HIDE DEF o
  <2>3. /\ r1 \in Object /\ SamePlace(r1, o) /\ r1.state = "closing" /\ r1.disposal = "shutdown"
        /\ r1.references = o.references /\ r1.ready = o.ready /\ r1.failing = o.failing
        /\ r1.stopped = o.stopped
    BY <2>1 DEF Object, SamePlace
  <2> HIDE DEF r1
  <2> QED BY <2>1, <2>2, <2>3 DEF SamePlace
<1>2. /\ Abandoned(s) \in Object /\ SamePlace(Abandoned(s), s)
      /\ Abandoned(s).state = "closing" /\ Abandoned(s).disposal = "terminate" /\ Abandoned(s).stopped
      /\ Abandoned(s).references = 0 /\ Abandoned(s).ready = s.ready
      /\ Abandoned(s).failing = s.failing
  <2> DEFINE o == [s EXCEPT !.references = 0]
  <2>1. /\ o \in Object /\ SamePlace(o, s) /\ o.references = 0 /\ o.ready = s.ready
        /\ o.failing = s.failing
    BY DEF Object, SamePlace
  <2>2. Abandoned(s) = Stopped(o)
    BY DEF Abandoned
  <2> HIDE DEF o
  <2> QED BY <2>1, <2>2, StoppedIs DEF SamePlace
<1> QED BY <1>1, <1>2

LEMMA NewIs ==
  ASSUME NEW h \in Hosts, NEW p \in Paths, NEW d \in Databases,
         NEW r \in {Created(h, p, d), Stillborn(h, p, d)}
  PROVE  /\ r \in Object /\ r.host = h /\ r.path = p /\ r.db = d
         /\ r.disposal = "none" /\ r.ready = "pending" /\ ~r.failing
         /\ r = Created(h, p, d) => r.state = "starting" /\ r.references = 1 /\ ~r.stopped
         /\ r = Stillborn(h, p, d) => r.state = "dead" /\ r.references = 0 /\ r.stopped
<1>1. NoEntry \in Object /\ NoEntry.disposal = "none" /\ NoEntry.ready = "pending"
      /\ ~NoEntry.failing /\ ~NoEntry.stopped /\ NoEntry.references = 0
  BY DEF NoEntry, Object
<1> DEFINE o == [NoEntry EXCEPT !.host = h, !.path = p]
           q == [o EXCEPT !.db = d]
<1>2. q \in Object /\ q.host = h /\ q.path = p /\ q.db = d /\ q.disposal = "none"
      /\ q.ready = "pending" /\ ~q.failing /\ ~q.stopped /\ q.references = 0
  <2>1. /\ o \in Object /\ o.host = h /\ o.path = p /\ o.disposal = "none" /\ o.ready = "pending"
        /\ ~o.failing /\ ~o.stopped /\ o.references = 0
    BY <1>1 DEF Object
  <2> HIDE DEF o
  <2> QED BY <2>1 DEF Object
<1>3. /\ Created(h, p, d) = [q EXCEPT !.state = "starting", !.references = 1]
      /\ Stillborn(h, p, d) = [q EXCEPT !.state = "dead", !.stopped = TRUE]
  BY DEF Created, Stillborn
<1> HIDE DEF q
<1>4. CASE r = Created(h, p, d)
  <2>1. r = [q EXCEPT !.state = "starting", !.references = 1]
    BY <1>3, <1>4
  <2>2. r \in Object /\ r.host = h /\ r.path = p /\ r.db = d /\ r.disposal = "none"
    <3>1. PICK n \in Int : n = 1
      OBVIOUS
    <3>2. r = [q EXCEPT !.state = "starting", !.references = n] /\ q \in Object
      BY <2>1, <3>1, <1>2
    <3>3. r \in Object
      BY <3>2 DEF Object
    <3>4. r.host = q.host /\ r.path = q.path /\ r.db = q.db /\ r.disposal = q.disposal
      BY <3>2 DEF Object
    <3> QED BY <3>3, <3>4, <1>2
  <2>3. r.ready = "pending" /\ ~r.failing /\ r.state = "starting" /\ r.references = 1 /\ ~r.stopped
    BY <1>2, <2>1 DEF Object
  <2>4. r # Stillborn(h, p, d)
    <3>1. Stillborn(h, p, d).state = "dead"
      BY <1>2, <1>3 DEF Object
    <3> QED BY <2>3, <3>1
  <2> QED BY <2>2, <2>3, <2>4
<1>5. CASE r = Stillborn(h, p, d)
  BY <1>2, <1>3, <1>5 DEF Object
<1> QED BY <1>4, <1>5

LEMMA OrphanedIs ==
  ASSUME NEW s \in Object
  PROVE  /\ Orphaned(s) \in Object /\ Orphaned(s).host = None
         /\ Orphaned(s).path = s.path /\ Orphaned(s).db = s.db
         /\ Orphaned(s).state = "orphan" /\ Orphaned(s).references = 0
         /\ Orphaned(s).disposal = "none" /\ Orphaned(s).ready = "pending"
         /\ Orphaned(s).stopped /\ ~Orphaned(s).failing
<1> DEFINE o == [NoEntry EXCEPT !.path = s.path, !.db = s.db]
<1>1. /\ NoEntry \in Object /\ NoEntry.disposal = "none" /\ NoEntry.ready = "pending"
      /\ ~NoEntry.failing /\ NoEntry.references = 0 /\ NoEntry.host = None
  BY DEF NoEntry, Object
<1>2. /\ o \in Object /\ o.path = s.path /\ o.db = s.db /\ o.disposal = "none"
      /\ o.ready = "pending" /\ ~o.failing /\ o.references = 0 /\ o.host = None
  BY <1>1 DEF Object
<1>3. Orphaned(s) = [o EXCEPT !.state = "orphan", !.stopped = TRUE]
  BY DEF Orphaned
<1> HIDE DEF o
<1> QED BY <1>2, <1>3 DEF Object

LEMMA SignalledIs ==
  ASSUME NEW s \in Storage, NEW signal \in {"term", "kill"}
  PROVE  /\ Signalled(s, signal) \in Storage /\ Signalled(s, signal).phase = s.phase
         /\ Signalled(s, signal).held = s.held /\ Signalled(s, signal).signal # "none"
BY DEF Signalled, Storage

(* One entry becomes another object, the rest stay.                        *)
LEMMA Becomes ==
  ASSUME Typed, NEW e \in Entries, NEW o \in Object, entry' = [entry EXCEPT ![e] = o]
  PROVE  /\ entry' \in [Entries -> Object] /\ entry'[e] = o
         /\ \A f \in Entries \ {e} : entry'[f] = entry[f]
BY DEF Typed

-----------------------------------------------------------------------------
(* The steps, by what they make of entries and processes.                  *)

EntryBecomes(e, o) == entry' = [entry EXCEPT ![e] = o]

(* Processes and locks stay; a signal once sent is sent.                   *)
LocksKept ==
  /\ storage' \in [Entries -> Storage]
  /\ \A f \in Entries : /\ storage'[f].phase = storage[f].phase /\ storage'[f].held = storage[f].held
                        /\ storage[f].signal # "none" => storage'[f].signal # "none"

LEMMA SignalKeepsLocks ==
  ASSUME Typed, NEW e \in Entries, NEW s \in {storage[e], Signalled(storage[e], "term"), Signalled(storage[e], "kill")},
         storage' = [storage EXCEPT ![e] = s]
  PROVE  LocksKept
<1>1. /\ s \in Storage /\ s.phase = storage[e].phase /\ s.held = storage[e].held
      /\ storage[e].signal # "none" => s.signal # "none"
  BY SignalledIs DEF Typed
<1> QED BY <1>1 DEF LocksKept, Typed

LEMMA UnchangedKeepsLocks == ASSUME Typed, storage' = storage PROVE LocksKept
BY DEF LocksKept, Typed

LEMMA FailsMoves ==
  ASSUME Typed, NEW e \in Entries, NEW timedOut \in BOOLEAN, Fails(e, timedOut)
  PROVE  /\ EntryBecomes(e, Failed(entry[e])) /\ LocksKept
         /\ call' = Lost(e) /\ outbox' = [outbox EXCEPT ![e] = <<>>]
         /\ UNCHANGED <<registry, inbox, client, data>>
<1>1. EntryBecomes(e, Failed(entry[e]))
  BY DEF Fails, Failed, EntryBecomes, Typed
<1>2. LocksKept
  <2>1. PICK s \in {storage[e], Signalled(storage[e], "term"), Signalled(storage[e], "kill")} :
          storage' = [storage EXCEPT ![e] = s]
    BY DEF Fails
  <2> QED BY <2>1, SignalKeepsLocks
<1> QED BY <1>1, <1>2 DEF Fails

LEMMA NoticedMoves ==
  ASSUME Typed, NEW e \in Entries, FailureDisposes(e)
  PROVE  EntryBecomes(e, Noticed(entry[e])) /\ LocksKept
<1>1. EntryBecomes(e, Noticed(entry[e]))
  BY DEF FailureDisposes, Noticed, EntryBecomes
<1>2. LocksKept
  <2>1. PICK s \in {storage[e], Signalled(storage[e], "term"), Signalled(storage[e], "kill")} :
          storage' = [storage EXCEPT ![e] = s]
    BY DEF FailureDisposes, DisposalSignal
  <2> QED BY <2>1, SignalKeepsLocks
<1> QED BY <1>1, <1>2

LEMMA OpenFailsMoves ==
  ASSUME Typed, NEW c \in Clients, NEW e \in Entries, e = client[c].entry, OpenFails(c)
  PROVE  EntryBecomes(e, Disposed(Left(entry[e]))) /\ LocksKept
<1>1. EntryBecomes(e, Disposed(Left(entry[e])))
  BY DEF OpenFails, EntryBecomes
<1>2. LocksKept
  <2>1. PICK s \in {storage[e], Signalled(storage[e], "term"), Signalled(storage[e], "kill")} :
          storage' = [storage EXCEPT ![e] = s]
    BY DEF OpenFails, DisposalSignal
  <2> QED BY <2>1, SignalKeepsLocks
<1> QED BY <1>1, <1>2

LEMMA CloseRefusedMoves ==
  ASSUME Typed, NEW c \in Clients, NEW e \in Entries, e = client[c].entry, CloseRefused(c)
  PROVE  EntryBecomes(e, Abandoned(entry[e])) /\ LocksKept
<1>1. EntryBecomes(e, Abandoned(entry[e]))
  BY DEF CloseRefused, Abandoned, EntryBecomes
<1>2. LocksKept
  BY SignalKeepsLocks DEF CloseRefused
<1> QED BY <1>1, <1>2

LEMMA CloseAnsweredMoves ==
  ASSUME Typed, NEW e \in Entries, CloseAnswered(e)
  PROVE  EntryBecomes(e, Stopped(entry[e])) /\ LocksKept
<1>1. LocksKept
  BY SignalKeepsLocks DEF CloseAnswered
<1> QED BY <1>1 DEF CloseAnswered, EntryBecomes

LEMMA EndsMoves ==
  ASSUME Typed, NEW e \in Entries, DisposalEnds(e)
  PROVE  EntryBecomes(e, Ended(entry[e])) /\ LocksKept
BY UnchangedKeepsLocks DEF DisposalEnds, Ended, EntryBecomes, Typed

LEMMA ReadyMoves ==
  ASSUME Typed, NEW e \in Entries, BecomesReady(e)
  PROVE  EntryBecomes(e, Answering(entry[e])) /\ LocksKept
BY UnchangedKeepsLocks DEF BecomesReady, Answering, EntryBecomes, Typed

LEMMA JoinMoves ==
  ASSUME Typed, NEW c \in Clients, NEW e \in Entries, e = Registered(c), JoinEntry(c)
  PROVE  EntryBecomes(e, Joined(entry[e])) /\ LocksKept
<1>1. entry' = [entry EXCEPT ![e].references = @ + 1] /\ storage' = storage
  BY DEF JoinEntry
<1> QED BY <1>1, UnchangedKeepsLocks DEF Joined, EntryBecomes, Typed

LEMMA OpensMoves ==
  ASSUME Typed, NEW c \in Clients, NEW e \in Entries, e = client[c].entry, Opens(c)
  PROVE  EntryBecomes(e, Readied(entry[e])) /\ LocksKept
<1>1. entry' = [entry EXCEPT ![e].state = "ready"] /\ storage' = storage
  BY DEF Opens
<1> QED BY <1>1, UnchangedKeepsLocks DEF Readied, EntryBecomes, Typed

LEMMA LeaveMoves ==
  ASSUME Typed, NEW c \in Clients, NEW e \in Entries, e = client[c].entry, CloseReference(c)
  PROVE  EntryBecomes(e, Left(entry[e])) /\ LocksKept
<1>1. EntryBecomes(e, Left(entry[e])) /\ storage' = storage
  BY DEF CloseReference, EntryBecomes
<1> QED BY <1>1, UnchangedKeepsLocks

LEMMA CloseSendsMoves ==
  ASSUME Typed, NEW c \in Clients, NEW e \in Entries, e = client[c].entry, CloseSends(c)
  PROVE  EntryBecomes(e, ShutDown(entry[e])) /\ LocksKept
<1>1. /\ entry' = [entry EXCEPT ![e].references = 0, ![e].state = "closing", ![e].disposal = "shutdown"]
      /\ storage' = storage
  BY DEF CloseSends
<1> QED BY <1>1, UnchangedKeepsLocks DEF ShutDown, EntryBecomes, Typed

-----------------------------------------------------------------------------
(* Types.                                                                  *)

LEMMA SendsTyped ==
  ASSUME Typed, NEW e \in Entries, NEW m \in Message, Sends(e, m)
  PROVE  outbox' \in [Entries -> Seq(Message)]
<1>1. Append(outbox[e], m) \in Seq(Message)
  BY AppendProperties DEF Typed
<1> QED BY <1>1 DEF Sends, Typed

LEMMA NoticesAreMessages ==
  \A kind \in {"ready", "failed", "closed"} : Notice(kind) \in Message
BY DEF Notice, Message

LEMMA ClearedTyped ==
  ASSUME Typed, NEW e \in Entries
  PROVE  /\ [outbox EXCEPT ![e] = <<>>] \in [Entries -> Seq(Message)]
         /\ [inbox EXCEPT ![e] = <<>>] \in [Entries -> Seq(Calls \cup {"close"})]
<1>1. <<>> \in Seq(Message) /\ <<>> \in Seq(Calls \cup {"close"})
  OBVIOUS
<1> QED BY <1>1 DEF Typed

LEMMA ReadTyped ==
  ASSUME Typed, NEW e \in Entries
  PROVE  /\ outbox[e] # <<>> => [outbox EXCEPT ![e] = Tail(@)] \in [Entries -> Seq(Message)]
         /\ inbox[e] # <<>> => [inbox EXCEPT ![e] = Tail(@)] \in [Entries -> Seq(Calls \cup {"close"})]
<1>1. /\ outbox[e] # <<>> => Tail(outbox[e]) \in Seq(Message)
      /\ inbox[e] # <<>> => Tail(inbox[e]) \in Seq(Calls \cup {"close"})
  BY HeadTailProperties DEF Typed
<1> QED BY <1>1 DEF Typed

LEMMA QueuedTyped ==
  ASSUME Typed, NEW e \in Entries, NEW q \in Calls \cup {"close"}
  PROVE  [inbox EXCEPT ![e] = Append(@, q)] \in [Entries -> Seq(Calls \cup {"close"})]
<1>1. Append(inbox[e], q) \in Seq(Calls \cup {"close"})
  BY AppendProperties DEF Typed
<1> QED BY <1>1 DEF Typed

LEMMA LostTyped ==
  ASSUME Typed, NEW e \in Entries, call' = Lost(e)
  PROVE  /\ call' \in [Calls -> Call]
         /\ \A q \in Calls : /\ call'[q].operation = call[q].operation /\ call'[q].db = call[q].db
                             /\ q \in Pending(e) => call'[q].phase = "lost" /\ call'[q].entry = None
                             /\ q \notin Pending(e) => call'[q] = call[q]
<1>1. ASSUME NEW q \in Calls
      PROVE  /\ call'[q] \in Call
             /\ call'[q].operation = call[q].operation /\ call'[q].db = call[q].db
             /\ q \in Pending(e) => call'[q].phase = "lost" /\ call'[q].entry = None
             /\ q \notin Pending(e) => call'[q] = call[q]
  <2>1. call[q] \in Call
    BY DEF Typed
  <2>2. call'[q] = IF q \in Pending(e) THEN [call[q] EXCEPT !.phase = "lost", !.entry = None] ELSE call[q]
    BY DEF Lost
  <2>3. CASE q \in Pending(e)
    BY <2>1, <2>2, <2>3 DEF Call
  <2>4. CASE q \notin Pending(e)
    BY <2>1, <2>2, <2>4
  <2> QED BY <2>3, <2>4
<1>2. call' = [q \in Calls |-> call'[q]]
  BY DEF Lost
<1> QED BY <1>1, <1>2

LEMMA ProcessTyped ==
  ASSUME Typed, NEW e \in Entries, Process(e)
  PROVE  Typed' /\ UNCHANGED <<file, registry, entry, client, call>>
<1>1. CASE TakesLock(e) \/ Exits(e)
  <2>1. storage' \in [Entries -> Storage]
    <3>1. storage[e] \in Storage /\ {"directory", "database"} = {"directory"} \cup {"database"}
      BY DEF Typed
    <3>2. storage[e].held \cup {NextLock(e)} \in SUBSET {"directory", "database"}
      BY <3>1 DEF NextLock, Storage
    <3>3. PICK s \in Storage : storage' = [storage EXCEPT ![e] = s]
      <4>1. CASE TakesLock(e)
        <5>1. [storage[e] EXCEPT !.held = @ \cup {NextLock(e)}] \in Storage
          BY <3>1, <3>2 DEF Storage
        <5> QED BY <4>1, <5>1 DEF TakesLock
      <4>2. CASE Exits(e)
        <5>1. [storage[e] EXCEPT !.phase = "exited", !.held = {}] \in Storage
          BY <3>1 DEF Storage
        <5>2. storage' = [storage EXCEPT ![e] = [storage[e] EXCEPT !.phase = "exited", !.held = {}]]
          BY <4>2 DEF Exits, Typed
        <5> QED BY <5>1, <5>2
      <4> QED BY <1>1, <4>1, <4>2
    <3> QED BY <3>3 DEF Typed
  <2>2. inbox' = inbox \/ inbox' = [inbox EXCEPT ![e] = <<>>]
    BY <1>1 DEF TakesLock, Exits
  <2>3. inbox' \in [Entries -> Seq(Calls \cup {"close"})]
    BY <2>2, ClearedTyped DEF Typed
  <2>4. UNCHANGED <<registry, entry, outbox, client, call, data>>
    BY <1>1 DEF TakesLock, Exits
  <2> QED BY <2>1, <2>3, <2>4 DEF Typed, data
<1>2. CASE Loads(e) \/ LoadFails(e)
  <2>1. storage' \in [Entries -> Storage]
    <3>1. PICK phase \in {"serving", "closed"} : storage' = [storage EXCEPT ![e].phase = phase]
      BY <1>2 DEF Loads, LoadFails
    <3>2. [storage[e] EXCEPT !.phase = phase] \in Storage
      BY DEF Storage, Typed
    <3> QED BY <3>1, <3>2 DEF Typed
  <2>2. outbox' \in [Entries -> Seq(Message)]
    BY <1>2, NoticesAreMessages, SendsTyped DEF Loads, LoadFails
  <2> QED BY <1>2, <2>1, <2>2 DEF Loads, LoadFails, Typed, data
<1>3. CASE HandlesClose(e)
  <2>1. storage' \in [Entries -> Storage]
    <3>1. [storage[e] EXCEPT !.phase = "closed"] \in Storage
      BY DEF Storage, Typed
    <3> QED BY <1>3, <3>1 DEF HandlesClose, Typed
  <2>2. outbox' \in [Entries -> Seq(Message)]
    BY <1>3, NoticesAreMessages, SendsTyped DEF HandlesClose
  <2> QED BY <1>3, <2>1, <2>2, ReadTyped DEF HandlesClose, Typed, data
<1>4. ASSUME NEW ok \in BOOLEAN, Handles(e, ok) PROVE Typed' /\ UNCHANGED <<file, registry, entry, client, call>>
  <2> DEFINE q == Head(inbox[e])
  <2>1. q \in Calls
    BY <1>4, HeadTailProperties DEF Handles, Typed
  <2>2. [kind |-> "answer", call |-> q, ok |-> ok] \in Message
    BY <2>1 DEF Message
  <2>3. outbox' \in [Entries -> Seq(Message)]
    BY <1>4, <2>2, SendsTyped DEF Handles
  <2>4. rows' \in [Databases -> SUBSET (Operations \cup {None})]
    <3>1. call[q].operation \in Operations \cup {None}
      BY <2>1 DEF Typed, Call
    <3> QED BY <1>4, <3>1 DEF Handles, Typed
  <2> QED BY <1>4, <2>1, <2>3, <2>4, ReadTyped DEF Handles, Typed
<1> QED BY <1>1, <1>2, <1>3, <1>4 DEF Process

LEMMA FailsTyped ==
  ASSUME Typed, NEW e \in Entries, NEW timedOut \in BOOLEAN, Fails(e, timedOut)
  PROVE  Typed' /\ UNCHANGED <<file, registry, client>>
<1>1. entry' \in [Entries -> Object] /\ storage' \in [Entries -> Storage]
  BY FailsMoves, FailedIs, Becomes DEF EntryBecomes, LocksKept, Typed
<1>2. /\ call' = Lost(e) /\ outbox' = [outbox EXCEPT ![e] = <<>>]
      /\ UNCHANGED <<registry, inbox, client, data>>
  BY FailsMoves
<1>3. call' \in [Calls -> Call]
  BY <1>2, LostTyped
<1>4. outbox' \in [Entries -> Seq(Message)]
  BY <1>2, ClearedTyped
<1> QED BY <1>1, <1>2, <1>3, <1>4 DEF Typed, data

LEMMA EventsTyped ==
  ASSUME Typed, NEW e \in Entries, Events(e) \/ FailureDisposes(e)
  PROVE  Typed' /\ UNCHANGED <<file, client>>
<1>1. CASE StartupFails(e) \/ StartupTimesOut(e) \/ RequestTimesOut(e) \/ ExitSeen(e) \/ SendFails(e)
  <2>1. Fails(e, TRUE) \/ Fails(e, FALSE)
    BY <1>1 DEF StartupFails, StartupTimesOut, RequestTimesOut, ExitSeen, SendFails
  <2> QED BY <2>1, FailsTyped
<1>2. CASE BecomesReady(e)
  <2>1. entry' \in [Entries -> Object] /\ storage' \in [Entries -> Storage]
    BY <1>2, ReadyMoves, ReadyIs, Becomes DEF EntryBecomes, LocksKept, Typed
  <2>2. /\ outbox[e] # <<>> /\ outbox' = [outbox EXCEPT ![e] = Tail(@)]
        /\ UNCHANGED <<registry, inbox, client, call, data>>
    BY <1>2 DEF BecomesReady, Arrives
  <2>3. outbox' \in [Entries -> Seq(Message)]
    BY <2>2, ReadTyped
  <2> QED BY <2>1, <2>2, <2>3 DEF Typed, data
<1>3. CASE Answered(e)
  <2> DEFINE m == Head(outbox[e])
             a == [call[m.call] EXCEPT !.phase = IF m.ok THEN "ok" ELSE "error", !.entry = None]
  <2>1. /\ outbox[e] # <<>> /\ outbox' = [outbox EXCEPT ![e] = Tail(@)]
        /\ call' = [call EXCEPT ![m.call] = a]
        /\ UNCHANGED <<registry, entry, storage, inbox, client, data>>
    BY <1>3 DEF Answered, Arrives
  <2>2. outbox' \in [Entries -> Seq(Message)]
    BY <2>1, ReadTyped
  <2>3. call' \in [Calls -> Call]
    <3>1. CASE m.call \in Calls
      <4>1. a \in Call
        <5>1. PICK phase \in {"ok", "error"} : phase = IF m.ok THEN "ok" ELSE "error"
          OBVIOUS
        <5>2. call[m.call] \in Call /\ a = [call[m.call] EXCEPT !.phase = phase, !.entry = None]
          BY <3>1, <5>1 DEF Typed
        <5> QED BY <5>2 DEF Call
      <4> QED BY <2>1, <4>1 DEF Typed
    <3>2. CASE m.call \notin Calls
      BY <2>1, <3>2 DEF Typed
    <3> QED BY <3>1, <3>2
  <2> QED BY <2>1, <2>2, <2>3 DEF Typed, data
<1>4. CASE CloseAnswered(e)
  <2>1. entry' \in [Entries -> Object] /\ storage' \in [Entries -> Storage]
    BY <1>4, CloseAnsweredMoves, StoppedIs, Becomes DEF EntryBecomes, LocksKept, Typed
  <2>2. /\ call' = Lost(e) /\ outbox' = [outbox EXCEPT ![e] = <<>>]
        /\ UNCHANGED <<registry, inbox, client, data>>
    BY <1>4 DEF CloseAnswered
  <2>3. call' \in [Calls -> Call] /\ outbox' \in [Entries -> Seq(Message)]
    BY <2>2, LostTyped, ClearedTyped
  <2> QED BY <2>1, <2>2, <2>3 DEF Typed, data
<1>5. CASE ForceKill(e)
  <2>1. storage' \in [Entries -> Storage]
    <3>1. [storage[e] EXCEPT !.signal = "kill"] \in Storage
      BY DEF Storage, Typed
    <3> QED BY <1>5, <3>1 DEF ForceKill, Typed
  <2> QED BY <1>5, <2>1 DEF ForceKill, Typed, data
<1>6. CASE DisposalEnds(e)
  <2>1. entry' \in [Entries -> Object] /\ storage' \in [Entries -> Storage]
    BY <1>6, EndsMoves, EndedIs, Becomes DEF EntryBecomes, LocksKept, Typed
  <2>2. registry' \in [Hosts -> [Paths -> Entries \cup {None}]]
    <3>1. registry' = [registry EXCEPT ![entry[e].host][entry[e].path] = IF @ = e THEN None ELSE @]
      BY <1>6 DEF DisposalEnds
    <3>2. registry \in [Hosts -> [Paths -> Entries \cup {None}]]
      BY DEF Typed
    <3> QED BY <3>1, <3>2
  <2>3. UNCHANGED <<inbox, outbox, client, call, data>>
    BY <1>6 DEF DisposalEnds
  <2> QED BY <2>1, <2>2, <2>3 DEF Typed, data
<1>7. CASE FailureDisposes(e)
  <2>1. entry' \in [Entries -> Object] /\ storage' \in [Entries -> Storage]
    BY <1>7, NoticedMoves, NoticedIs, Becomes DEF EntryBecomes, LocksKept, Typed
  <2> QED BY <1>7, <2>1 DEF FailureDisposes, Typed, data
<1> QED BY <1>1, <1>2, <1>3, <1>4, <1>5, <1>6, <1>7 DEF Events

(* Clients keep their places.                                              *)
LEMMA OneClient ==
  ASSUME Shaped, NEW c \in Clients, NEW r \in Client, client' = [client EXCEPT ![c] = r],
         r.phase # "idle" => r.path \in Paths,
         r.phase \in {"awaitsDisposal", "awaitsReady", "open"} => r.entry \in Entries,
         r.phase \in {"idle", "looking"} => r.entry = None
  PROVE  /\ client' \in [Clients -> Client] /\ client'[c] = r
         /\ \A b \in Clients \ {c} : client'[b] = client[b]
         /\ \A b \in Clients : Placed(b)'
<1>1. /\ client' \in [Clients -> Client] /\ client'[c] = r
      /\ \A b \in Clients \ {c} : client'[b] = client[b]
  BY DEF Shaped, Typed
<1> QED BY <1>1 DEF Shaped, Placed

LEMMA IdleIs == Idle \in Client /\ Idle.phase = "idle" /\ Idle.entry = None
BY DEF Idle, Client

(* What a step makes of one client.                                        *)
Becoming(c, phase, path, e) ==
  /\ client'[c].phase = phase /\ client'[c].entry = e
  /\ phase # "idle" => client'[c].path = path
  /\ client' \in [Clients -> Client]
  /\ \A b \in Clients \ {c} : client'[b] = client[b]
  /\ \A b \in Clients : Placed(b)'

LEMMA GoesIdle ==
  ASSUME Shaped, NEW c \in Clients, client' = [client EXCEPT ![c] = Idle]
  PROVE  Becoming(c, "idle", None, None)
BY IdleIs, OneClient DEF Becoming

LEMMA GoesOn ==
  ASSUME Shaped, NEW c \in Clients, NEW e \in Entries \cup {None},
         NEW phase \in {"looking", "awaitsDisposal", "awaitsReady", "open"},
         client[c].phase # "idle", phase = "looking" <=> e = None,
         client' = [client EXCEPT ![c].phase = phase, ![c].entry = e]
  PROVE  Becoming(c, phase, client[c].path, e)
<1> DEFINE r == [client[c] EXCEPT !.phase = phase, !.entry = e]
<1>1. client[c] \in Client /\ client[c].path \in Paths
  BY DEF Shaped, Typed, Placed
<1>2. r \in Client /\ r.phase = phase /\ r.entry = e /\ r.path = client[c].path
  BY <1>1 DEF Client
<1>3. client' = [client EXCEPT ![c] = r]
  BY DEF Shaped, Typed
<1> HIDE DEF r
<1>4. e \in Entries \/ phase = "looking"
  OBVIOUS
<1> QED BY <1>1, <1>2, <1>3, <1>4, OneClient DEF Becoming

LEMMA OpenTyped ==
  ASSUME Shaped, NEW c \in Clients, NEW p \in Paths, Open(c, p)
  PROVE  Shaped' /\ Becoming(c, "looking", p, None)
<1> DEFINE r == [Idle EXCEPT !.phase = "looking", !.path = p]
<1>1. r \in Client /\ r.phase = "looking" /\ r.path = p /\ r.entry = None
  BY DEF Idle, Client
<1>2. client' = [client EXCEPT ![c] = r]
  BY DEF Open
<1> HIDE DEF r
<1>3. Becoming(c, "looking", p, None)
  BY <1>1, <1>2, OneClient DEF Becoming
<1> QED BY <1>3 DEF Open, Shaped, Typed, Becoming, data

LEMMA SpawnsTyped ==
  ASSUME Typed, NEW h \in Hosts, NEW p \in Paths, NEW d \in Databases, NEW e \in Entries,
         Spawns(h, p, d, e)
  PROVE  /\ file' \in [Paths -> Databases \cup {None}]
         /\ inbox' \in [Entries -> Seq(Calls \cup {"close"})] /\ outbox' \in [Entries -> Seq(Message)]
         /\ UNCHANGED <<call, rows, effect>>
<1>1. inbox' = [inbox EXCEPT ![e] = <<>>] /\ outbox' = [outbox EXCEPT ![e] = <<>>]
  BY DEF Spawns
<1>2. inbox' \in [Entries -> Seq(Calls \cup {"close"})] /\ outbox' \in [Entries -> Seq(Message)]
  BY <1>1, ClearedTyped
<1> QED BY <1>2 DEF Spawns, Typed

(* A new storage process holds nothing.                                    *)
LEMMA NewStorageIs ==
  ASSUME NEW s \in {[NoStorage EXCEPT !.phase = "locking"],
                    [NoStorage EXCEPT !.phase = "locking", !.signal = "term"]}
  PROVE  /\ s \in Storage /\ s.phase = "locking" /\ s.held = {}
         /\ s = [NoStorage EXCEPT !.phase = "locking", !.signal = "term"] => s.signal = "term"
BY DEF NoStorage, Storage

LEMMA CreateTyped ==
  ASSUME Shaped, NEW c \in Clients, NEW e \in Entries, NEW d \in Databases, CreateEntry(c, e, d)
  PROVE  /\ Shaped'
         /\ EntryBecomes(e, Created(Host[c], client[c].path, d)) /\ client[c].path \in Paths
         /\ Host[c] \in Hosts
         /\ Becoming(c, "awaitsReady", client[c].path, e)
         /\ storage'[e].phase = "locking" /\ storage'[e].held = {}
         /\ \A f \in Entries \ {e} : storage'[f] = storage[f]
<1>1. client[c].path \in Paths /\ Host[c] \in Hosts
  BY ClientsHaveHosts DEF CreateEntry, Looks, Shaped, Placed
<1>2. Spawns(Host[c], client[c].path, d, e)
  BY DEF CreateEntry
<1>3. EntryBecomes(e, Created(Host[c], client[c].path, d))
  BY DEF CreateEntry, Created, EntryBecomes
<1>4. entry' \in [Entries -> Object]
  <2>1. Created(Host[c], client[c].path, d) \in Object
    BY <1>1, NewIs
  <2> QED BY <1>3, <2>1, Becomes DEF EntryBecomes, Shaped
<1>5. Becoming(c, "awaitsReady", client[c].path, e)
  <2>1. client' = [client EXCEPT ![c].phase = "awaitsReady", ![c].entry = e]
        /\ client[c].phase = "looking" /\ e # None
    BY NoneIsNothing DEF CreateEntry, Looks
  <2> QED BY <2>1, GoesOn
<1>6. /\ storage' \in [Entries -> Storage] /\ storage'[e].phase = "locking" /\ storage'[e].held = {}
      /\ \A f \in Entries \ {e} : storage'[f] = storage[f]
  <2>1. PICK s \in Storage : storage' = [storage EXCEPT ![e] = s] /\ s.phase = "locking" /\ s.held = {}
    BY NewStorageIs DEF CreateEntry
  <2> QED BY <2>1 DEF Shaped, Typed
<1>7. registry' \in [Hosts -> [Paths -> Entries \cup {None}]]
  BY DEF CreateEntry, Shaped, Typed
<1>8. Typed'
  BY <1>1, <1>2, <1>4, <1>5, <1>6, <1>7, SpawnsTyped DEF Shaped, Typed, Becoming
<1> QED BY <1>1, <1>3, <1>5, <1>6, <1>8 DEF Shaped, Becoming

LEMMA IdentityFailsTyped ==
  ASSUME Shaped, NEW c \in Clients, NEW e \in Entries, NEW d \in Databases, IdentityFails(c, e, d)
  PROVE  /\ Shaped'
         /\ EntryBecomes(e, Stillborn(Host[c], client[c].path, d)) /\ client[c].path \in Paths
         /\ Host[c] \in Hosts
         /\ Becoming(c, "idle", None, None)
         /\ storage'[e].phase = "locking" /\ storage'[e].held = {} /\ storage'[e].signal = "term"
         /\ \A f \in Entries \ {e} : storage'[f] = storage[f]
<1>1. client[c].path \in Paths /\ Host[c] \in Hosts
  BY ClientsHaveHosts DEF IdentityFails, Looks, Shaped, Placed
<1>2. Spawns(Host[c], client[c].path, d, e) /\ registry' = registry
  BY DEF IdentityFails
<1>3. EntryBecomes(e, Stillborn(Host[c], client[c].path, d))
  BY DEF IdentityFails, Stillborn, EntryBecomes
<1>4. entry' \in [Entries -> Object]
  <2>1. Stillborn(Host[c], client[c].path, d) \in Object
    BY <1>1, NewIs
  <2> QED BY <1>3, <2>1, Becomes DEF EntryBecomes, Shaped
<1>5. Becoming(c, "idle", None, None)
  BY GoesIdle DEF IdentityFails
<1>6. /\ storage' \in [Entries -> Storage] /\ storage'[e].phase = "locking" /\ storage'[e].held = {}
      /\ storage'[e].signal = "term"
      /\ \A f \in Entries \ {e} : storage'[f] = storage[f]
  <2>1. PICK s \in Storage : /\ storage' = [storage EXCEPT ![e] = s]
                             /\ s.phase = "locking" /\ s.held = {} /\ s.signal = "term"
    BY NewStorageIs DEF IdentityFails
  <2> QED BY <2>1 DEF Shaped, Typed
<1>8. Typed'
  BY <1>1, <1>2, <1>4, <1>5, <1>6, SpawnsTyped DEF Shaped, Typed, Becoming
<1> QED BY <1>1, <1>3, <1>5, <1>6, <1>8 DEF Shaped, Becoming

LEMMA RegisteredIs ==
  ASSUME Shaped, NEW c \in Clients, client[c].phase = "looking", Registered(c) # None
  PROVE  Registered(c) \in Entries /\ Host[c] \in Hosts /\ client[c].path \in Paths
<1>1. Host[c] \in Hosts /\ client[c].path \in Paths
  BY ClientsHaveHosts DEF Shaped, Placed
<1>2. registry[Host[c]] \in [Paths -> Entries \cup {None}]
  BY <1>1 DEF Shaped, Typed
<1> QED BY <1>1, <1>2 DEF Registered

LEMMA WaitsTyped ==
  ASSUME Shaped, NEW c \in Clients,
         CreateFails(c) \/ RefusesMoved(c) \/ AwaitsDisposal(c) \/ LooksAgain(c)
  PROVE  /\ Shaped' /\ UNCHANGED <<registry, entry, storage, inbox, outbox, call, data>>
         /\ \/ Becoming(c, "idle", None, None)
            \/ AwaitsDisposal(c) /\ Becoming(c, "awaitsDisposal", client[c].path, Registered(c))
            \/ LooksAgain(c) /\ Becoming(c, "looking", client[c].path, None)
<1>1. CASE CreateFails(c) \/ RefusesMoved(c)
  <2>1. client' = [client EXCEPT ![c] = Idle]
    BY <1>1 DEF CreateFails, RefusesMoved
  <2>2. Becoming(c, "idle", None, None)
    BY <2>1, GoesIdle
  <2> QED BY <1>1, <2>2 DEF CreateFails, RefusesMoved, Shaped, Typed, Becoming, data
<1>2. CASE AwaitsDisposal(c)
  <2>1. client[c].phase = "looking" /\ Registered(c) \in Entries /\ Registered(c) # None
    BY <1>2, RegisteredIs DEF AwaitsDisposal, Looks
  <2>2. Becoming(c, "awaitsDisposal", client[c].path, Registered(c))
    BY <1>2, <2>1, GoesOn DEF AwaitsDisposal
  <2> QED BY <1>2, <2>2 DEF AwaitsDisposal, Shaped, Typed, Becoming, data
<1>3. CASE LooksAgain(c)
  <2>1. Becoming(c, "looking", client[c].path, None)
    BY <1>3, GoesOn DEF LooksAgain
  <2> QED BY <1>3, <2>1 DEF LooksAgain, Shaped, Typed, Becoming, data
<1> QED BY <1>1, <1>2, <1>3

LEMMA JoinTyped ==
  ASSUME Shaped, NEW c \in Clients, JoinEntry(c)
  PROVE  /\ Shaped' /\ Registered(c) \in Entries
         /\ EntryBecomes(Registered(c), Joined(entry[Registered(c)]))
         /\ Becoming(c, "awaitsReady", client[c].path, Registered(c))
         /\ LocksKept
<1>1. client[c].phase = "looking" /\ Registered(c) \in Entries /\ Registered(c) # None
  BY RegisteredIs DEF JoinEntry, Looks
<1>2. EntryBecomes(Registered(c), Joined(entry[Registered(c)])) /\ LocksKept
  BY <1>1, JoinMoves DEF Shaped
<1>3. Becoming(c, "awaitsReady", client[c].path, Registered(c))
  BY <1>1, GoesOn DEF JoinEntry
<1>4. entry' \in [Entries -> Object]
  BY <1>1, <1>2, CountedIs, Becomes DEF EntryBecomes, Shaped, Typed
<1>5. storage' \in [Entries -> Storage]
  BY <1>2 DEF LocksKept
<1>6. Typed'
  BY <1>3, <1>4, <1>5 DEF JoinEntry, Shaped, Typed, Becoming, data
<1> QED BY <1>1, <1>2, <1>3, <1>6 DEF Shaped, Becoming

(* A client that opens, fails to open or leaves, and its entry.            *)
LEMMA LeaverTyped ==
  ASSUME Shaped, NEW c \in Clients, NEW e, e = client[c].entry,
         Opens(c) \/ OpenFails(c) \/ CloseReference(c) \/ CloseSends(c) \/ CloseRefused(c)
  PROVE  /\ Shaped' /\ e \in Entries /\ LocksKept
         /\ Opens(c) => /\ EntryBecomes(e, Readied(entry[e]))
                        /\ Becoming(c, "open", client[c].path, e)
         /\ OpenFails(c) => EntryBecomes(e, Disposed(Left(entry[e]))) /\ Becoming(c, "idle", None, None)
         /\ CloseReference(c) => EntryBecomes(e, Left(entry[e])) /\ Becoming(c, "idle", None, None)
         /\ CloseSends(c) => EntryBecomes(e, ShutDown(entry[e])) /\ Becoming(c, "idle", None, None)
         /\ CloseRefused(c) => EntryBecomes(e, Abandoned(entry[e])) /\ Becoming(c, "idle", None, None)
<1>1. e \in Entries /\ entry[e] \in Object /\ Typed
  BY DEF Opens, OpenFails, CloseReference, CloseSends, CloseRefused, ClosesLast, Shaped, Typed, Placed
<1>2. CASE Opens(c)
  <2>1. EntryBecomes(e, Readied(entry[e])) /\ LocksKept
    BY <1>1, <1>2, OpensMoves
  <2>2. Becoming(c, "open", client[c].path, e)
    <3>1. client' = [client EXCEPT ![c].phase = "open", ![c].entry = e] /\ client[c].phase # "idle" /\ e # None
      BY <1>1, <1>2, NoneIsNothing DEF Opens, Shaped, Typed, Client
    <3> QED BY <3>1, <1>1, GoesOn
  <2>3. entry' \in [Entries -> Object]
    BY <2>1, <1>1, ReadyIs, Becomes DEF EntryBecomes
  <2>4. Typed'
    BY <1>2, <2>1, <2>2, <2>3 DEF Opens, Shaped, Typed, Becoming, LocksKept, data
  <2>5. ~OpenFails(c) /\ ~CloseReference(c) /\ ~CloseSends(c) /\ ~CloseRefused(c)
    BY <1>2 DEF Opens, OpenFails, CloseReference, CloseSends, CloseRefused, ClosesLast
  <2> QED BY <1>1, <2>1, <2>2, <2>4, <2>5 DEF Shaped, Becoming
<1>3. CASE OpenFails(c) \/ CloseReference(c) \/ CloseSends(c) \/ CloseRefused(c)
  <2>1. client' = [client EXCEPT ![c] = Idle]
    BY <1>3 DEF OpenFails, CloseReference, CloseSends, CloseRefused, ClosesLast
  <2>2. Becoming(c, "idle", None, None)
    BY <2>1, GoesIdle
  <2>3. Left(entry[e]) \in Object
    BY <1>1, CountedIs
  <2>4. /\ OpenFails(c) => EntryBecomes(e, Disposed(Left(entry[e]))) /\ LocksKept
        /\ CloseReference(c) => EntryBecomes(e, Left(entry[e])) /\ LocksKept
        /\ CloseSends(c) => EntryBecomes(e, ShutDown(entry[e])) /\ LocksKept
        /\ CloseRefused(c) => EntryBecomes(e, Abandoned(entry[e])) /\ LocksKept
    BY <1>1, OpenFailsMoves, LeaveMoves, CloseSendsMoves, CloseRefusedMoves
  <2>5. \E o \in Object : EntryBecomes(e, o)
    BY <1>1, <1>3, <2>3, <2>4, DisposedIs, ClosedIs
  <2>6. entry' \in [Entries -> Object] /\ LocksKept
    BY <1>1, <1>3, <2>4, <2>5, Becomes DEF EntryBecomes
  <2>7. inbox' \in [Entries -> Seq(Calls \cup {"close"})]
    <3>1. [inbox EXCEPT ![e] = Append(@, "close")] \in [Entries -> Seq(Calls \cup {"close"})]
      BY <1>1, QueuedTyped
    <3>2. inbox' \in {inbox, [inbox EXCEPT ![e] = Append(@, "close")]}
      BY <1>3 DEF OpenFails, CloseReference, CloseSends, CloseRefused
    <3> QED BY <1>1, <3>1, <3>2 DEF Typed
  <2>8. outbox' \in [Entries -> Seq(Message)] /\ call' \in [Calls -> Call]
    <3>1. CASE CloseRefused(c)
      <4>1. call' = Lost(e) /\ outbox' = [outbox EXCEPT ![e] = <<>>]
        BY <3>1 DEF CloseRefused
      <4> QED BY <4>1, <1>1, LostTyped, ClearedTyped
    <3>2. CASE OpenFails(c) \/ CloseReference(c) \/ CloseSends(c)
      BY <3>2 DEF OpenFails, CloseReference, CloseSends, Shaped, Typed
    <3> QED BY <1>3, <3>1, <3>2
  <2>9. UNCHANGED <<registry, data>>
    BY <1>3 DEF OpenFails, CloseReference, CloseSends, CloseRefused
  <2>10. Typed'
    BY <2>2, <2>6, <2>7, <2>8, <2>9 DEF Shaped, Typed, Becoming, LocksKept, data
  <2>11. ~Opens(c)
    BY <1>3 DEF Opens, OpenFails, CloseReference, CloseSends, CloseRefused, ClosesLast
  <2> QED BY <1>1, <2>2, <2>4, <2>6, <2>10, <2>11 DEF Shaped, Becoming
<1> QED BY <1>2, <1>3

LEMMA CallTyped ==
  ASSUME Shaped, NEW c \in Clients, NEW q \in Calls, NEW operation \in Operations,
         CallSent(c, q, operation) \/ CallRefused(c, q, operation)
  PROVE  /\ Shaped' /\ client[c].entry \in Entries
         /\ UNCHANGED <<file, registry, entry, storage, outbox, client, rows, effect>>
<1> DEFINE e == client[c].entry
<1>1. e \in Entries /\ entry[e] \in Object /\ Host[c] \in Hosts
  BY ClientsHaveHosts DEF CallSent, CallRefused, Shaped, Typed, Placed
<1>2. \A phase \in {"pending", "refused"} : Asked(c, operation, phase) \in Call
  BY <1>1 DEF Asked, Call, Object
<1>3. call' \in [Calls -> Call]
  <2>1. PICK phase \in {"pending", "refused"} : call' = [call EXCEPT ![q] = Asked(c, operation, phase)]
    BY DEF CallSent, CallRefused
  <2> QED BY <1>2, <2>1 DEF Shaped, Typed
<1>4. inbox' \in [Entries -> Seq(Calls \cup {"close"})]
  <2>1. [inbox EXCEPT ![e] = Append(@, q)] \in [Entries -> Seq(Calls \cup {"close"})]
    BY <1>1, QueuedTyped DEF Shaped
  <2>2. inbox' \in {inbox, [inbox EXCEPT ![e] = Append(@, q)]}
    BY DEF CallSent, CallRefused
  <2> QED BY <2>1, <2>2 DEF Shaped, Typed
<1> QED BY <1>1, <1>3, <1>4 DEF CallSent, CallRefused, Shaped, Typed, Placed, data

LEMMA CrashTyped ==
  ASSUME Shaped, NEW h \in Hosts, HostCrashes(h)
  PROVE  /\ Shaped'
         /\ \A e \in Entries : entry'[e] = IF entry[e].host = h THEN Orphaned(entry[e]) ELSE entry[e]
         /\ \A c \in Clients : client'[c] = IF Host[c] = h THEN Idle ELSE client[c]
         /\ \A q \in Calls :
              /\ call'[q].operation = call[q].operation /\ call'[q].db = call[q].db
              /\ call[q].phase = "pending" /\ call[q].host = h =>
                   call'[q].phase = "lost" /\ call'[q].entry = None
              /\ ~(call[q].phase = "pending" /\ call[q].host = h) => call'[q] = call[q]
<1>1. \A e \in Entries : entry'[e] = IF entry[e].host = h THEN Orphaned(entry[e]) ELSE entry[e]
  BY DEF HostCrashes, Orphaned
<1>2. entry' \in [Entries -> Object]
  <2>1. \A e \in Entries : entry'[e] \in Object
    BY <1>1, OrphanedIs DEF Shaped, Typed
  <2>2. entry' = [e \in Entries |-> entry'[e]]
    BY DEF HostCrashes
  <2> QED BY <2>1, <2>2
<1>3. \A c \in Clients : client'[c] = IF Host[c] = h THEN Idle ELSE client[c]
  BY DEF HostCrashes
<1>4. client' \in [Clients -> Client] /\ \A c \in Clients : Placed(c)'
  <2>1. client' \in [Clients -> Client]
    BY IdleIs DEF HostCrashes, Shaped, Typed
  <2>2. \A c \in Clients : Placed(c)'
    BY <1>3, IdleIs DEF Shaped, Placed
  <2> QED BY <2>1, <2>2
<1>5. ASSUME NEW q \in Calls
      PROVE  /\ call'[q] \in Call
             /\ call'[q].operation = call[q].operation /\ call'[q].db = call[q].db
             /\ call[q].phase = "pending" /\ call[q].host = h =>
                   call'[q].phase = "lost" /\ call'[q].entry = None
             /\ ~(call[q].phase = "pending" /\ call[q].host = h) => call'[q] = call[q]
  <2>1. call[q] \in Call
    BY DEF Shaped, Typed
  <2>2. call'[q] = IF call[q].phase = "pending" /\ call[q].host = h
                   THEN [call[q] EXCEPT !.phase = "lost", !.entry = None] ELSE call[q]
    BY DEF HostCrashes
  <2>3. CASE call[q].phase = "pending" /\ call[q].host = h
    BY <2>1, <2>2, <2>3 DEF Call
  <2>4. CASE ~(call[q].phase = "pending" /\ call[q].host = h)
    BY <2>1, <2>2, <2>4
  <2> QED BY <2>3, <2>4
<1>6. call' \in [Calls -> Call]
  <2>1. call' = [q \in Calls |-> call'[q]]
    BY DEF HostCrashes
  <2> QED BY <2>1, <1>5
<1>7. registry' \in [Hosts -> [Paths -> Entries \cup {None}]] /\ outbox' \in [Entries -> Seq(Message)]
  <2>1. <<>> \in Seq(Message)
    OBVIOUS
  <2> QED BY <2>1 DEF HostCrashes, Shaped, Typed
<1>8. UNCHANGED <<storage, inbox, data>>
  BY DEF HostCrashes
<1> QED BY <1>1, <1>2, <1>3, <1>4, <1>5, <1>6, <1>7, <1>8 DEF Shaped, Typed, data

LEMMA RenamedTyped ==
  ASSUME Shaped, NEW p \in Paths, NEW q \in Paths, Renamed(p, q)
  PROVE  Shaped' /\ UNCHANGED <<registry, entry, storage, inbox, outbox, client, call, rows, effect>>
BY DEF Renamed, Shaped, Typed, Placed

LEMMA ShapedNext == ASSUME Shaped, [Next]_vars PROVE Shaped'
<1>1. ASSUME NEW e \in Entries, Process(e) PROVE Shaped'
  BY <1>1, ProcessTyped DEF Shaped, Placed
<1>2. ASSUME NEW e \in Entries, Events(e) \/ FailureDisposes(e) PROVE Shaped'
  BY <1>2, EventsTyped DEF Shaped, Placed
<1>3. ASSUME NEW c \in Clients, Continues(c) PROVE Shaped'
  BY <1>3, CreateTyped, IdentityFailsTyped, WaitsTyped, JoinTyped, LeaverTyped DEF Continues
<1>4. ASSUME NEW c \in Clients, Uses(c) PROVE Shaped'
  BY <1>4, OpenTyped, CallTyped, LeaverTyped DEF Uses
<1>5. CASE UNCHANGED vars
  BY <1>5 DEF vars, data, Shaped, Typed, Placed
<1> QED BY <1>1, <1>2, <1>3, <1>4, <1>5, CrashTyped, RenamedTyped DEF Next

LEMMA ShapedInit == ASSUME Init PROVE Shaped
<1>1. NoEntry \in Object /\ NoStorage \in Storage /\ NoCall \in Call
  BY DEF NoEntry, Object, NoStorage, Storage, NoCall, Call
<1>2. <<>> \in Seq(Message) /\ <<>> \in Seq(Calls \cup {"close"})
  OBVIOUS
<1>3. Typed
  BY <1>1, <1>2, IdleIs DEF Init, Typed
<1> QED BY <1>3, IdleIs DEF Init, Shaped, Placed

-----------------------------------------------------------------------------
(* Locks.                                                                  *)

LockFact(e) ==
  /\ storage[e].held # {} => Alive(e)
  /\ storage[e].phase \in {"serving", "closed"} => storage[e].held = {"directory", "database"}

Exclusive ==
  \A e, f \in Entries : \A lock \in storage[e].held \cap storage[f].held : Same(e, f, lock) => e = f

LockInv == Exclusive /\ \A e \in Entries : LockFact(e)

(* No process moves and no entry is given to another database.             *)
SamePlaces == \A e \in Entries : entry'[e].path = entry[e].path /\ entry'[e].db = entry[e].db

LEMMA LocksStay ==
  ASSUME LockInv, LocksKept, SamePlaces
  PROVE  LockInv'
BY DEF LockInv, Exclusive, LockFact, Alive, LocksKept, SamePlaces, Same

LEMMA PlacesStay ==
  ASSUME Typed, NEW e \in Entries, NEW o \in Object, EntryBecomes(e, o), SamePlace(o, entry[e])
  PROVE  SamePlaces
BY Becomes DEF EntryBecomes, SamePlace, SamePlaces

LEMMA ProcessLocks ==
  ASSUME Shaped, LockInv, NEW e \in Entries, Process(e)
  PROVE  LockInv'
<1>1. entry' = entry
  BY ProcessTyped DEF Shaped
<1>2. CASE TakesLock(e)
  <2>1. /\ storage[e].phase = "locking" /\ ~Locked(e, NextLock(e))
        /\ storage' = [storage EXCEPT ![e].held = @ \cup {NextLock(e)}]
    BY <1>2 DEF TakesLock
  <2>2. /\ storage'[e].phase = "locking" /\ storage'[e].held = storage[e].held \cup {NextLock(e)}
        /\ \A f \in Entries \ {e} : storage'[f] = storage[f]
    BY <2>1 DEF Shaped, Typed, Storage
  <2>3. \A f \in Entries : LockFact(f)'
    BY <2>2 DEF LockInv, LockFact, Alive
  <2>4. \A f \in Entries : NextLock(e) \in storage[f].held => ~Same(e, f, NextLock(e))
    BY <2>1 DEF Locked
  <2>5. Exclusive'
    BY <1>1, <2>2, <2>4 DEF LockInv, Exclusive, Same
  <2> QED BY <2>3, <2>5 DEF LockInv
<1>3. CASE Loads(e) \/ LoadFails(e) \/ HandlesClose(e)
  <2>1. /\ storage[e].held = {"directory", "database"}
        /\ storage'[e].held = storage[e].held /\ storage'[e].phase \in {"serving", "closed"}
        /\ \A f \in Entries \ {e} : storage'[f] = storage[f]
    BY <1>3 DEF Loads, LoadFails, HandlesClose, LockInv, LockFact, Shaped, Typed, Storage
  <2> QED BY <1>1, <2>1 DEF LockInv, Exclusive, LockFact, Alive, Same
<1>4. CASE Exits(e)
  <2>1. /\ storage'[e].held = {} /\ storage'[e].phase = "exited"
        /\ \A f \in Entries \ {e} : storage'[f] = storage[f]
    BY <1>4 DEF Exits, Shaped, Typed, Storage
  <2> QED BY <1>1, <2>1 DEF LockInv, Exclusive, LockFact, Alive, Same
<1>5. ASSUME NEW ok \in BOOLEAN, Handles(e, ok) PROVE LockInv'
  BY <1>5 DEF Handles, LockInv, Exclusive, LockFact, Alive, Same
<1> QED BY <1>2, <1>3, <1>4, <1>5 DEF Process

LEMMA EventLocks ==
  ASSUME Shaped, LockInv, NEW e \in Entries, Events(e) \/ FailureDisposes(e)
  PROVE  LockInv'
<1>1. Typed /\ entry[e] \in Object
  BY DEF Shaped, Typed
<1>2. CASE StartupFails(e) \/ StartupTimesOut(e) \/ RequestTimesOut(e) \/ ExitSeen(e) \/ SendFails(e)
  <2>1. Fails(e, TRUE) \/ Fails(e, FALSE)
    BY <1>2 DEF StartupFails, StartupTimesOut, RequestTimesOut, ExitSeen, SendFails
  <2> QED BY <1>1, <2>1, FailsMoves, FailedIs, PlacesStay, LocksStay
<1>3. CASE BecomesReady(e)
  BY <1>1, <1>3, ReadyMoves, ReadyIs, PlacesStay, LocksStay
<1>4. CASE Answered(e)
  BY <1>4 DEF Answered, LockInv, Exclusive, LockFact, Alive, Same
<1>5. CASE CloseAnswered(e)
  BY <1>1, <1>5, CloseAnsweredMoves, StoppedIs, PlacesStay, LocksStay
<1>6. CASE ForceKill(e)
  <2>1. LocksKept /\ SamePlaces
    BY <1>6 DEF ForceKill, LocksKept, SamePlaces, Shaped, Typed, Storage
  <2> QED BY <2>1, LocksStay
<1>7. CASE DisposalEnds(e)
  BY <1>1, <1>7, EndsMoves, EndedIs, PlacesStay, LocksStay
<1>8. CASE FailureDisposes(e)
  BY <1>1, <1>8, NoticedMoves, NoticedIs, PlacesStay, LocksStay
<1> QED BY <1>2, <1>3, <1>4, <1>5, <1>6, <1>7, <1>8 DEF Events

(* An entry is reused only when its process is gone, and with it its       *)
(* locks.                                                                  *)
LEMMA SpawnLocks ==
  ASSUME Shaped, LockInv, NEW e \in Entries, ~Alive(e), NEW o \in Object, EntryBecomes(e, o),
         storage'[e].phase = "locking", storage'[e].held = {},
         \A f \in Entries \ {e} : storage'[f] = storage[f]
  PROVE  LockInv'
<1>1. \A f \in Entries \ {e} : entry'[f] = entry[f]
  BY Becomes DEF EntryBecomes, Shaped
<1> QED BY <1>1 DEF LockInv, Exclusive, LockFact, Alive, Same

LEMMA ClientLocks ==
  ASSUME Shaped, LockInv, NEW c \in Clients, Continues(c) \/ Uses(c)
  PROVE  LockInv'
<1>1. ASSUME NEW e \in Entries, NEW d \in Databases, CreateEntry(c, e, d) \/ IdentityFails(c, e, d)
      PROVE  LockInv'
  <2>1. ~Alive(e)
    BY <1>1 DEF CreateEntry, IdentityFails, Spawns, Unused
  <2>2. PICK o \in Object : EntryBecomes(e, o)
    BY <1>1, CreateTyped, IdentityFailsTyped, NewIs
  <2> QED BY <1>1, <2>1, <2>2, CreateTyped, IdentityFailsTyped, SpawnLocks
<1>2. CASE CreateFails(c) \/ RefusesMoved(c) \/ AwaitsDisposal(c) \/ LooksAgain(c)
  BY <1>2, WaitsTyped DEF LockInv, Exclusive, LockFact, Alive, Same
<1>3. CASE JoinEntry(c)
  <2>1. Registered(c) \in Entries /\ entry[Registered(c)] \in Object /\ Typed
    BY <1>3, JoinTyped DEF Shaped, Typed
  <2> QED BY <1>3, <2>1, JoinTyped, CountedIs, PlacesStay, LocksStay
<1>4. CASE Opens(c) \/ OpenFails(c) \/ CloseReference(c) \/ CloseSends(c) \/ CloseRefused(c)
  <2> DEFINE e == client[c].entry
  <2>1. e \in Entries /\ entry[e] \in Object /\ Typed /\ LocksKept
    BY <1>4, LeaverTyped DEF Shaped, Typed
  <2>2. \E o \in Object : EntryBecomes(e, o) /\ SamePlace(o, entry[e])
    <3>1. CASE Opens(c)
      BY <2>1, <3>1, LeaverTyped, ReadyIs
    <3>2. CASE OpenFails(c)
      <4>1. Left(entry[e]) \in Object /\ SamePlace(Left(entry[e]), entry[e])
        BY <2>1, CountedIs
      <4> QED BY <3>2, <4>1, LeaverTyped, DisposedIs DEF SamePlace
    <3>3. CASE CloseReference(c)
      BY <2>1, <3>3, LeaverTyped, CountedIs
    <3>4. CASE CloseSends(c) \/ CloseRefused(c)
      BY <2>1, <3>4, LeaverTyped, ClosedIs
    <3> QED BY <1>4, <3>1, <3>2, <3>3, <3>4
  <2> QED BY <2>1, <2>2, PlacesStay, LocksStay
<1>5. ASSUME NEW p \in Paths, Open(c, p) PROVE LockInv'
  BY <1>5 DEF Open, LockInv, Exclusive, LockFact, Alive, Same
<1>6. ASSUME NEW q \in Calls, NEW operation \in Operations,
             CallSent(c, q, operation) \/ CallRefused(c, q, operation)
      PROVE  LockInv'
  BY <1>6, CallTyped DEF LockInv, Exclusive, LockFact, Alive, Same
<1> QED BY <1>1, <1>2, <1>3, <1>4, <1>5, <1>6 DEF Continues, Uses

LEMMA LocksNext == ASSUME Shaped, LockInv, [Next]_vars PROVE LockInv'
<1>1. ASSUME NEW h \in Hosts, HostCrashes(h) PROVE LockInv'
  <2>1. storage' = storage
    BY <1>1 DEF HostCrashes
  <2>2. SamePlaces
    <3>1. ASSUME NEW e \in Entries
          PROVE  entry'[e].path = entry[e].path /\ entry'[e].db = entry[e].db
      <4>1. entry[e] \in Object
        BY DEF Shaped, Typed
      <4>2. entry'[e] = IF entry[e].host = h THEN Orphaned(entry[e]) ELSE entry[e]
        BY <1>1, CrashTyped
      <4> QED BY <4>1, <4>2, OrphanedIs
    <3> QED BY <3>1 DEF SamePlaces
  <2> QED BY <2>1, <2>2, UnchangedKeepsLocks, LocksStay DEF Shaped
<1>2. ASSUME NEW p \in Paths, NEW q \in Paths, Renamed(p, q) PROVE LockInv'
  BY <1>2, RenamedTyped DEF LockInv, Exclusive, LockFact, Alive, Same
<1>3. CASE UNCHANGED vars
  BY <1>3 DEF vars, LockInv, Exclusive, LockFact, Alive, Same
<1> QED BY <1>1, <1>2, <1>3, ProcessLocks, EventLocks, ClientLocks DEF Next

LEMMA LocksInit == ASSUME Init PROVE LockInv
BY DEF Init, NoStorage, LockInv, Exclusive, LockFact

(* Locked before it is opened, a database is owned once.                   *)
LEMMA OwnedOnce == ASSUME LockInv PROVE OneOwner
<1> SUFFICES ASSUME NEW e \in Entries, NEW f \in Entries,
                    storage[e].phase = "serving", storage[f].phase = "serving", entry[e].db = entry[f].db
             PROVE  e = f
  BY DEF OneOwner
<1>1. "database" \in storage[e].held /\ "database" \in storage[f].held
  BY DEF LockInv, LockFact
<1>2. Same(e, f, "database")
  BY DEF Same
<1> QED BY <1>1, <1>2 DEF LockInv, Exclusive

-----------------------------------------------------------------------------
(* Entries, the registry and the clients.                                  *)

Good == {"starting", "ready"}
Live == Good \cup {"closing"}
Users(e) == {c \in Clients : client[c].entry = e /\ client[c].phase \in {"awaitsReady", "open"}}

(* The life of an entry: it is good until its disposal begins, and a       *)
(* failure disposes it before anything but a continuation runs.            *)
EntryFact(e) ==
  /\ entry[e].state \in Good => entry[e].disposal = "none"
  /\ entry[e].state = "closing" <=> entry[e].disposal \in {"shutdown", "terminate"}
  /\ entry[e].disposal = "done" => entry[e].state = "dead" /\ ~Alive(e)
  /\ entry[e].state = "dead" /\ Alive(e) => storage[e].signal # "none"
  /\ entry[e].host # None /\ ~entry[e].stopped => entry[e].state \in Live
  /\ entry[e].ready = "rejected" => entry[e].stopped
  /\ entry[e].failing => entry[e].stopped /\ entry[e].state \in Live
  /\ entry[e].disposal \in {"terminate", "done"} => entry[e].stopped
  /\ entry[e].stopped /\ entry[e].state \in Good => entry[e].failing

RegistryFact ==
  /\ \A h \in Hosts, p \in Paths :
       registry[h][p] # None => /\ entry[registry[h][p]].state \in Live
                                /\ entry[registry[h][p]].host = h /\ entry[registry[h][p]].path = p
  /\ \A e \in Entries :
       entry[e].state \in Live => /\ entry[e].host \in Hosts /\ entry[e].path \in Paths
                                  /\ registry[entry[e].host][entry[e].path] = e

CountFact(e) ==
  /\ entry[e].references = Cardinality(Users(e))
  /\ entry[e].state \in Good => Users(e) # {}

(* A client waits for, or uses, an entry of its own host that is good or   *)
(* is being disposed of; and none is about to look for an entry while one  *)
(* of its host fails.                                                      *)
ClientFact(c) ==
  LET e == client[c].entry
      failing == \E f \in Entries : entry[f].host = Host[c] /\ entry[f].failing
  IN
  /\ client[c].phase \in {"awaitsDisposal", "awaitsReady", "open"} =>
       /\ entry[e].host = Host[c]
       /\ entry[e].state \in Good \/ entry[e].disposal # "none"
  /\ client[c].phase = "awaitsDisposal" => entry[e].disposal # "none"
  /\ client[c].phase = "open" => entry[e].ready = "resolved"
  /\ client[c].phase = "awaitsReady" /\ entry[e].failing => entry[e].ready = "rejected"
  /\ client[c].phase = "looking" => ~failing
  /\ client[c].phase = "awaitsDisposal" /\ entry[e].disposal = "done" => ~failing

OwnerInv ==
  /\ RegistryFact
  /\ \A e \in Entries : EntryFact(e) /\ CountFact(e)
  /\ \A c \in Clients : ClientFact(c)

(* Processes may end but not begin, and a signal is not taken back.        *)
Fading ==
  \A f \in Entries : /\ Alive(f)' => Alive(f)
                     /\ storage[f].signal # "none" => storage'[f].signal # "none"

LEMMA KeptFades == ASSUME LocksKept PROVE Fading
BY DEF LocksKept, Fading, Alive

(* One entry moves, and the clients of the others stay.                    *)
LEMMA EntryMoves ==
  ASSUME Shaped, OwnerInv, NEW e \in Entries, NEW o \in Object, EntryBecomes(e, o),
         SamePlace(o, entry[e]), registry' = registry, Fading,
         o.state \in Live <=> entry[e].state \in Live,
         EntryFact(e)', CountFact(e)',
         \A f \in Entries \ {e} : Users(f)' = Users(f),
         \A c \in Clients : ClientFact(c)'
  PROVE  OwnerInv'
<1>1. /\ entry'[e] = o /\ \A f \in Entries \ {e} : entry'[f] = entry[f]
  BY Becomes DEF EntryBecomes, Shaped
<1>2. \A f \in Entries : /\ entry'[f].host = entry[f].host /\ entry'[f].path = entry[f].path
                         /\ entry'[f].state \in Live <=> entry[f].state \in Live
  BY <1>1 DEF SamePlace
<1>3. RegistryFact'
  <2>1. \A h \in Hosts, p \in Paths : registry[h][p] # None => registry[h][p] \in Entries
    BY DEF Shaped, Typed
  <2> QED BY <1>2, <2>1 DEF OwnerInv, RegistryFact
<1>4. ASSUME NEW f \in Entries \ {e} PROVE EntryFact(f)' /\ CountFact(f)'
  <2>1. entry'[f] = entry[f] /\ Users(f)' = Users(f)
    BY <1>1
  <2>2. EntryFact(f) /\ CountFact(f)
    BY DEF OwnerInv
  <2>3. EntryFact(f)'
    BY <2>1, <2>2 DEF EntryFact, Fading
  <2>4. CountFact(f)'
    BY <2>1, <2>2 DEF CountFact
  <2> QED BY <2>3, <2>4
<1> QED BY <1>3, <1>4 DEF OwnerInv

(* The same with no client moving.                                         *)
LEMMA OnlyEntryMoves ==
  ASSUME Shaped, OwnerInv, NEW e \in Entries, NEW o \in Object, EntryBecomes(e, o),
         SamePlace(o, entry[e]), registry' = registry, client' = client, Fading,
         o.state \in Live <=> entry[e].state \in Live, o.references = entry[e].references,
         o.state \in Good => entry[e].state \in Good,
         EntryFact(e)', \A c \in Clients : ClientFact(c)'
  PROVE  OwnerInv'
<1>1. entry'[e] = o
  BY Becomes DEF EntryBecomes, Shaped
<1>2. \A f \in Entries : Users(f)' = Users(f)
  BY DEF Users
<1>3. CountFact(e)'
  BY <1>1, <1>2 DEF OwnerInv, CountFact
<1> QED BY <1>2, <1>3, EntryMoves

(* Nothing moves but processes, messages and calls.                        *)
LEMMA OwnersStay ==
  ASSUME OwnerInv, entry' = entry, registry' = registry, client' = client, Fading
  PROVE  OwnerInv'
<1>1. \A e \in Entries : Users(e)' = Users(e)
  BY DEF Users
<1>2. \A e \in Entries : EntryFact(e)' /\ CountFact(e)'
  BY <1>1 DEF OwnerInv, EntryFact, CountFact, Fading
<1>3. \A c \in Clients : ClientFact(c)'
  BY DEF OwnerInv, ClientFact
<1> QED BY <1>2, <1>3 DEF OwnerInv, RegistryFact

(* What an event of an entry may take for granted.                         *)
LEMMA QuietMeans ==
  ASSUME Shaped, NEW e \in Entries, entry[e].host # None, Quiet(entry[e].host)
  PROVE  /\ \A f \in Entries : entry[f].host = entry[e].host => ~entry[f].failing
         /\ \A c \in Clients : Host[c] = entry[e].host =>
              /\ client[c].phase # "looking"
              /\ client[c].phase = "awaitsReady" => entry[client[c].entry].ready = "pending"
              /\ client[c].phase = "awaitsDisposal" => entry[client[c].entry].disposal # "done"
BY DEF Quiet, Runnable

LEMMA FailsOwned ==
  ASSUME Shaped, OwnerInv, NEW e \in Entries, NEW timedOut \in BOOLEAN,
         Event(e), Fails(e, timedOut)
  PROVE  OwnerInv'
<1> DEFINE o == Failed(entry[e])
<1>1. entry[e] \in Object /\ EntryFact(e) /\ ~entry[e].stopped /\ entry[e].host # None /\ Typed
  BY DEF OwnerInv, Event, Shaped, Typed
<1>2. /\ o \in Object /\ SamePlace(o, entry[e]) /\ o.state = entry[e].state
      /\ o.references = entry[e].references /\ o.stopped /\ o.failing
      /\ o.ready = IF entry[e].ready = "pending" THEN "rejected" ELSE entry[e].ready
      /\ o.disposal = IF entry[e].disposal = "shutdown" THEN "terminate" ELSE entry[e].disposal
  BY <1>1, FailedIs
<1>3. EntryBecomes(e, o) /\ LocksKept /\ registry' = registry /\ client' = client
  BY <1>1, FailsMoves
<1> HIDE DEF o
<1>4. entry'[e] = o /\ \A f \in Entries \ {e} : entry'[f] = entry[f]
  BY <1>2, <1>3, Becomes DEF EntryBecomes, Shaped
<1>5. Fading
  BY <1>3, KeptFades
<1>6. EntryFact(e)'
  BY <1>1, <1>2, <1>4, <1>5 DEF EntryFact, Fading, Good, Live
<1>7. ASSUME NEW c \in Clients PROVE ClientFact(c)'
  <2>1. ClientFact(c) /\ Placed(c)
    BY DEF OwnerInv, Shaped
  <2>2. CASE Host[c] = entry[e].host
    <3>1. /\ client[c].phase # "looking"
          /\ client[c].phase = "awaitsReady" => entry[client[c].entry].ready = "pending"
          /\ client[c].phase = "awaitsDisposal" => entry[client[c].entry].disposal # "done"
      BY <1>1, <2>2, QuietMeans DEF Event
    <3> QED BY <1>2, <1>3, <1>4, <2>1, <3>1 DEF ClientFact, Placed, SamePlace, Good
  <2>3. CASE Host[c] # entry[e].host
    BY <1>2, <1>3, <1>4, <2>1, <2>3 DEF ClientFact, Placed, SamePlace
  <2> QED BY <2>2, <2>3
<1> QED BY <1>2, <1>3, <1>5, <1>6, <1>7, OnlyEntryMoves

LEMMA NoticedOwned ==
  ASSUME Shaped, OwnerInv, NEW e \in Entries, FailureDisposes(e)
  PROVE  OwnerInv'
<1> DEFINE o == Noticed(entry[e])
<1>1. entry[e] \in Object /\ EntryFact(e) /\ entry[e].failing /\ Typed
  BY DEF OwnerInv, FailureDisposes, Shaped, Typed
<1>2. /\ o \in Object /\ SamePlace(o, entry[e])
      /\ o.state = IF entry[e].disposal = "none" THEN "closing" ELSE entry[e].state
      /\ o.disposal = IF entry[e].disposal = "none" THEN "terminate" ELSE entry[e].disposal
      /\ o.references = entry[e].references /\ o.ready = entry[e].ready
      /\ o.stopped = entry[e].stopped /\ ~o.failing
  BY <1>1, NoticedIs
<1>3. EntryBecomes(e, o) /\ LocksKept /\ registry' = registry /\ client' = client
  BY <1>1, NoticedMoves DEF FailureDisposes
<1> HIDE DEF o
<1>4. entry'[e] = o /\ \A f \in Entries \ {e} : entry'[f] = entry[f]
  BY <1>2, <1>3, Becomes DEF EntryBecomes, Shaped
<1>5. Fading
  BY <1>3, KeptFades
<1>6. EntryFact(e)'
  BY <1>1, <1>2, <1>4, <1>5 DEF EntryFact, Fading, Good, Live
<1>7. ASSUME NEW c \in Clients PROVE ClientFact(c)'
  <2>1. ClientFact(c) /\ Placed(c)
    BY DEF OwnerInv, Shaped
  <2> QED BY <1>2, <1>3, <1>4, <2>1 DEF ClientFact, Placed, SamePlace, Good
<1>8. (o.state \in Live <=> entry[e].state \in Live) /\ (o.state \in Good => entry[e].state \in Good)
  BY <1>1, <1>2 DEF EntryFact, Good, Live
<1> QED BY <1>2, <1>3, <1>5, <1>6, <1>7, <1>8, OnlyEntryMoves

LEMMA ReadyOwned ==
  ASSUME Shaped, OwnerInv, NEW e \in Entries, BecomesReady(e)
  PROVE  OwnerInv'
<1> DEFINE o == Answering(entry[e])
<1>1. entry[e] \in Object /\ EntryFact(e) /\ ~entry[e].stopped /\ Typed
  BY DEF OwnerInv, BecomesReady, Arrives, Event, Shaped, Typed
<1>2. /\ o \in Object /\ SamePlace(o, entry[e]) /\ o.state = entry[e].state
      /\ o.disposal = entry[e].disposal /\ o.references = entry[e].references
      /\ o.ready = "resolved" /\ o.stopped = entry[e].stopped /\ o.failing = entry[e].failing
  BY <1>1, ReadyIs
<1>3. EntryBecomes(e, o) /\ LocksKept /\ registry' = registry /\ client' = client
  BY <1>1, ReadyMoves DEF BecomesReady
<1> HIDE DEF o
<1>4. entry'[e] = o /\ \A f \in Entries \ {e} : entry'[f] = entry[f]
  BY <1>2, <1>3, Becomes DEF EntryBecomes, Shaped
<1>5. Fading
  BY <1>3, KeptFades
<1>6. EntryFact(e)'
  BY <1>1, <1>2, <1>4, <1>5 DEF EntryFact, Fading, SamePlace, Good, Live
<1>7. ASSUME NEW c \in Clients PROVE ClientFact(c)'
  <2>1. ClientFact(c) /\ Placed(c) /\ ~entry[e].failing
    BY <1>1 DEF OwnerInv, Shaped, EntryFact
  <2> QED BY <1>2, <1>3, <1>4, <2>1 DEF ClientFact, Placed, SamePlace, Good
<1> QED BY <1>2, <1>3, <1>5, <1>6, <1>7, OnlyEntryMoves

LEMMA CloseAnsweredOwned ==
  ASSUME Shaped, OwnerInv, NEW e \in Entries, CloseAnswered(e)
  PROVE  OwnerInv'
<1> DEFINE o == Stopped(entry[e])
<1>1. /\ entry[e] \in Object /\ EntryFact(e) /\ ~entry[e].stopped /\ entry[e].host # None /\ Typed
  BY DEF OwnerInv, CloseAnswered, Arrives, Event, Shaped, Typed
<1>2. /\ o \in Object /\ SamePlace(o, entry[e]) /\ o.state = "closing" /\ o.disposal = "terminate"
      /\ o.references = entry[e].references /\ o.stopped /\ o.ready = entry[e].ready
      /\ o.failing = entry[e].failing
  BY <1>1, StoppedIs
<1>3. EntryBecomes(e, o) /\ LocksKept /\ registry' = registry /\ client' = client
  BY <1>1, CloseAnsweredMoves DEF CloseAnswered
<1> HIDE DEF o
<1>4. entry'[e] = o /\ \A f \in Entries \ {e} : entry'[f] = entry[f]
  BY <1>2, <1>3, Becomes DEF EntryBecomes, Shaped
<1>5. Fading
  BY <1>3, KeptFades
<1>6. EntryFact(e)' /\ entry[e].state \in Live
  BY <1>1, <1>2, <1>4, <1>5 DEF EntryFact, Fading, Good, Live
<1>7. ASSUME NEW c \in Clients PROVE ClientFact(c)'
  <2>1. ClientFact(c) /\ Placed(c) /\ ~entry[e].failing /\ entry[e].disposal # "done"
    BY <1>1 DEF OwnerInv, Shaped, EntryFact
  <2> QED BY <1>2, <1>3, <1>4, <2>1 DEF ClientFact, Placed, SamePlace, Good
<1>8. (o.state \in Live <=> entry[e].state \in Live) /\ o.state \notin Good
  BY <1>2, <1>6 DEF Good, Live
<1> QED BY <1>2, <1>3, <1>5, <1>6, <1>7, <1>8, OnlyEntryMoves

(* The entry leaves the registry with its process.                         *)
LEMMA EndsOwned ==
  ASSUME Shaped, OwnerInv, NEW e \in Entries, DisposalEnds(e)
  PROVE  OwnerInv'
<1> DEFINE o == Ended(entry[e])
           h == entry[e].host
           p == entry[e].path
<1>1. /\ entry[e] \in Object /\ EntryFact(e) /\ entry[e].disposal = "terminate"
      /\ h # None /\ Quiet(h) /\ ~Alive(e) /\ Typed
  BY DEF OwnerInv, DisposalEnds, Shaped, Typed, Alive
<1>2. /\ o \in Object /\ SamePlace(o, entry[e]) /\ o.state = "dead" /\ o.disposal = "done"
      /\ o.references = entry[e].references /\ o.ready = entry[e].ready
      /\ o.stopped = entry[e].stopped /\ o.failing = entry[e].failing
  BY <1>1, EndedIs
<1>3. EntryBecomes(e, o) /\ LocksKept /\ client' = client
  BY <1>1, EndsMoves DEF DisposalEnds
<1>4. entry[e].state = "closing" /\ entry[e].stopped /\ ~entry[e].failing
  BY <1>1, QuietMeans DEF EntryFact
<1>5. h \in Hosts /\ p \in Paths /\ registry[h][p] = e
  BY <1>4 DEF OwnerInv, RegistryFact, Live
<1>6. registry' = [registry EXCEPT ![h][p] = None]
  BY <1>5 DEF DisposalEnds
<1> HIDE DEF o
<1>7. entry'[e] = o /\ \A f \in Entries \ {e} : entry'[f] = entry[f]
  BY <1>2, <1>3, Becomes DEF EntryBecomes, Shaped
<1>8. Fading
  BY <1>3, KeptFades
<1>9. EntryFact(e)'
  BY <1>1, <1>2, <1>4, <1>7, <1>8 DEF EntryFact, Fading, Good, Live
<1>10. \A f \in Entries : Users(f)' = Users(f)
  BY <1>3 DEF Users
<1>11. \A f \in Entries : CountFact(f)'
  BY <1>2, <1>7, <1>10 DEF OwnerInv, CountFact, Good
<1>12. \A f \in Entries \ {e} : EntryFact(f)'
  BY <1>7, <1>8 DEF OwnerInv, EntryFact, Fading
<1>13. RegistryFact'
  <2>1. /\ registry'[h][p] = None
        /\ \A g \in Hosts, r \in Paths : g # h \/ r # p => registry'[g][r] = registry[g][r]
    BY <1>5, <1>6 DEF Shaped, Typed
  <2>2. \A g \in Hosts, r \in Paths : registry[g][r] # None => registry[g][r] \in Entries
    BY DEF Shaped, Typed
  <2>3. ASSUME NEW g \in Hosts, NEW r \in Paths, registry'[g][r] # None
        PROVE  /\ entry'[registry'[g][r]].state \in Live
               /\ entry'[registry'[g][r]].host = g /\ entry'[registry'[g][r]].path = r
    <3>1. registry'[g][r] = registry[g][r] /\ (g # h \/ r # p)
      BY <2>1, <2>3
    <3>2. registry[g][r] \in Entries /\ registry[g][r] # e
      BY <2>2, <2>3, <3>1 DEF OwnerInv, RegistryFact
    <3> QED BY <1>7, <2>3, <3>1, <3>2 DEF OwnerInv, RegistryFact
  <2>4. ASSUME NEW f \in Entries, entry'[f].state \in Live
        PROVE  /\ entry'[f].host \in Hosts /\ entry'[f].path \in Paths
               /\ registry'[entry'[f].host][entry'[f].path] = f
    <3>1. f # e
      BY <1>2, <1>7, <2>4 DEF Live, Good
    <3>2. entry'[f] = entry[f] /\ entry[f].host \in Hosts /\ entry[f].path \in Paths
          /\ registry[entry[f].host][entry[f].path] = f
      BY <1>7, <2>4, <3>1 DEF OwnerInv, RegistryFact
    <3> QED BY <1>5, <2>1, <3>1, <3>2
  <2> QED BY <2>3, <2>4 DEF RegistryFact
<1>14. ASSUME NEW c \in Clients PROVE ClientFact(c)'
  <2>1. ClientFact(c) /\ Placed(c)
    BY DEF OwnerInv, Shaped
  <2>2. CASE Host[c] = h
    <3>1. \A f \in Entries : entry[f].host = h => ~entry[f].failing
      BY <1>1, QuietMeans
    <3> QED BY <1>2, <1>3, <1>4, <1>7, <2>1, <2>2, <3>1 DEF ClientFact, Placed, SamePlace, Good
  <2>3. CASE Host[c] # h
    BY <1>2, <1>3, <1>4, <1>7, <2>1, <2>3 DEF ClientFact, Placed, SamePlace, Good
  <2> QED BY <2>2, <2>3
<1> QED BY <1>9, <1>11, <1>12, <1>13, <1>14 DEF OwnerInv

LEMMA EventsOwned ==
  ASSUME Shaped, OwnerInv, NEW e \in Entries, Events(e) \/ FailureDisposes(e)
  PROVE  OwnerInv'
<1>1. CASE StartupFails(e) \/ StartupTimesOut(e) \/ RequestTimesOut(e) \/ ExitSeen(e) \/ SendFails(e)
  <2>1. Event(e) /\ \E timedOut \in BOOLEAN : Fails(e, timedOut)
    BY <1>1 DEF StartupFails, Arrives, StartupTimesOut, RequestTimesOut, ExitSeen, SendFails
  <2> QED BY <2>1, FailsOwned
<1>2. CASE Answered(e)
  BY <1>2, OwnersStay DEF Answered, Fading, Alive
<1>3. CASE ForceKill(e)
  <2>1. storage' = [storage EXCEPT ![e].signal = "kill"]
    BY <1>3 DEF ForceKill
  <2>2. Fading
    BY <2>1 DEF Shaped, Typed, Storage, Fading, Alive
  <2> QED BY <1>3, <2>2, OwnersStay DEF ForceKill
<1> QED BY <1>1, <1>2, <1>3, ReadyOwned, CloseAnsweredOwned, EndsOwned, NoticedOwned DEF Events

LEMMA ProcessOwned == ASSUME Shaped, OwnerInv, NEW e \in Entries, Process(e) PROVE OwnerInv'
<1>1. Fading
  <2>1. CASE TakesLock(e) \/ Loads(e) \/ LoadFails(e) \/ HandlesClose(e) \/ Exits(e)
    <3>1. storage \in [Entries -> Storage] /\ Alive(e)
      BY <2>1 DEF Shaped, Typed, Alive, TakesLock, Loads, LoadFails, HandlesClose, Exits
    <3>2. \E s \in Storage : storage' = [storage EXCEPT ![e] = s] /\ s.signal = storage[e].signal
      <4>1. storage[e] \in Storage
        BY <3>1
      <4>2. CASE TakesLock(e)
        <5> DEFINE s == [storage[e] EXCEPT !.held = @ \cup {NextLock(e)}]
        <5>1. s \in Storage /\ s.signal = storage[e].signal
          BY <4>1 DEF Storage, NextLock
        <5>2. storage' = [storage EXCEPT ![e] = s]
          BY <4>2, <3>1 DEF TakesLock
        <5> QED BY <5>1, <5>2
      <4>3. CASE Loads(e) \/ LoadFails(e) \/ HandlesClose(e)
        <5>1. PICK phase \in {"serving", "closed"} : storage' = [storage EXCEPT ![e].phase = phase]
          BY <4>3 DEF Loads, LoadFails, HandlesClose
        <5> DEFINE s == [storage[e] EXCEPT !.phase = phase]
        <5>2. s \in Storage /\ s.signal = storage[e].signal
          BY <4>1 DEF Storage
        <5>3. storage' = [storage EXCEPT ![e] = s]
          BY <5>1, <3>1
        <5> QED BY <5>2, <5>3
      <4>4. CASE Exits(e)
        <5> DEFINE s == [storage[e] EXCEPT !.phase = "exited", !.held = {}]
        <5>1. s \in Storage /\ s.signal = storage[e].signal
          BY <4>1 DEF Storage
        <5>2. storage' = [storage EXCEPT ![e] = s]
          BY <4>4, <3>1 DEF Exits
        <5> QED BY <5>1, <5>2
      <4> QED BY <2>1, <4>2, <4>3, <4>4
    <3> QED BY <3>1, <3>2 DEF Fading, Alive
  <2>2. ASSUME NEW ok \in BOOLEAN, Handles(e, ok) PROVE Fading
    BY <2>2 DEF Handles, Fading, Alive
  <2> QED BY <2>1, <2>2 DEF Process
<1>2. UNCHANGED <<entry, registry, client>>
  BY DEF Process, TakesLock, Loads, LoadFails, HandlesClose, Exits, Handles
<1> QED BY <1>1, <1>2, OwnersStay

-----------------------------------------------------------------------------
(* Clients come and go.                                                    *)

Holding == {"awaitsReady", "open"}

LEMMA UsersAre ==
  ASSUME NEW c \in Clients, NEW phase, NEW path, NEW x, Becoming(c, phase, path, x), NEW f
  PROVE  /\ Users(f)' \ {c} = Users(f) \ {c}
         /\ c \in Users(f)' <=> phase \in Holding /\ x = f
BY DEF Users, Becoming, Holding

LEMMA UsersStay ==
  ASSUME NEW c \in Clients, NEW phase, NEW path, NEW x, Becoming(c, phase, path, x), NEW f,
         c \in Users(f) <=> phase \in Holding /\ x = f
  PROVE  Users(f)' = Users(f)
BY UsersAre

LEMMA UsersCounted ==
  ASSUME NEW c \in Clients, NEW phase, NEW path, NEW x, Becoming(c, phase, path, x), NEW e \in Entries
  PROVE  /\ IsFiniteSet(Users(e)) /\ Cardinality(Users(e)) \in Nat
         /\ c \notin Users(e) /\ c \in Users(e)' => Cardinality(Users(e)') = Cardinality(Users(e)) + 1
         /\ c \in Users(e) /\ c \notin Users(e)' => Cardinality(Users(e)') = Cardinality(Users(e)) - 1
         /\ (Cardinality(Users(e)') = 0 <=> Users(e)' = {})
<1>1. Users(e) \subseteq Clients /\ Users(e)' \subseteq Clients
  BY DEF Users
<1>2. IsFiniteSet(Users(e)) /\ IsFiniteSet(Users(e)')
  BY <1>1, ClientsAreFinite, FS_Subset
<1>3. Cardinality(Users(e)) \in Nat /\ (Cardinality(Users(e)') = 0 <=> Users(e)' = {})
  BY <1>2, FS_CardinalityType, FS_EmptySet
<1>4. CASE c \notin Users(e) /\ c \in Users(e)'
  <2>1. Users(e)' = Users(e) \cup {c}
    BY <1>4, UsersAre
  <2>2. Cardinality(Users(e) \cup {c}) = Cardinality(Users(e)) + 1
    BY <1>2, <1>4, FS_AddElement
  <2> QED BY <1>2, <1>3, <1>4, <2>1, <2>2
<1>5. CASE c \in Users(e) /\ c \notin Users(e)'
  <2>1. Users(e)' = Users(e) \ {c}
    BY <1>5, UsersAre
  <2>2. Cardinality(Users(e) \ {c}) = Cardinality(Users(e)) - 1
    BY <1>2, <1>5, FS_RemoveElement
  <2> QED BY <1>2, <1>3, <1>5, <2>1, <2>2
<1> QED BY <1>2, <1>3, <1>4, <1>5

(* No client holds an entry that is neither good nor in disposal.          *)
LEMMA UnusedMeans ==
  ASSUME Shaped, NEW e \in Entries, Unused(e)
  PROVE  Users(e) = {} /\ entry[e].state \notin Live /\ ~Alive(e)
BY DEF Unused, Users, Live, Good

LEMMA CreateOwned ==
  ASSUME Shaped, OwnerInv, NEW c \in Clients, NEW e \in Entries, NEW d \in Databases,
         CreateEntry(c, e, d)
  PROVE  OwnerInv'
<1> DEFINE h == Host[c]
           p == client[c].path
           o == Created(h, p, d)
<1>1. /\ Shaped' /\ EntryBecomes(e, o) /\ p \in Paths /\ h \in Hosts
      /\ Becoming(c, "awaitsReady", p, e)
      /\ storage'[e].phase = "locking"
      /\ \A f \in Entries \ {e} : storage'[f] = storage[f]
  BY CreateTyped
<1>2. /\ o \in Object /\ o.host = h /\ o.path = p /\ o.disposal = "none" /\ o.ready = "pending"
      /\ ~o.failing /\ o.state = "starting" /\ o.references = 1 /\ ~o.stopped
  BY <1>1, NewIs
<1>3. /\ client[c].phase = "looking" /\ registry[h][p] = None /\ Unused(e)
      /\ registry' = [registry EXCEPT ![h][p] = e]
  BY DEF CreateEntry, Looks, Spawns
<1>4. /\ Users(e) = {} /\ entry[e].state \notin Live
      /\ \A b \in Clients : client[b].entry # e
  BY <1>3, UnusedMeans DEF Unused
<1> HIDE DEF o
<1>5. entry'[e] = o /\ \A f \in Entries \ {e} : entry'[f] = entry[f]
  BY <1>1, <1>2, Becomes DEF EntryBecomes, Shaped
<1>6. EntryFact(e)'
  BY <1>2, <1>5 DEF EntryFact, Good, Live
<1>7. \A f \in Entries \ {e} : EntryFact(f)'
  BY <1>1, <1>5 DEF OwnerInv, EntryFact, Alive
<1>8. CountFact(e)'
  <2>1. Users(e)' = {c}
    BY <1>1, <1>4, UsersAre DEF Holding
  <2>2. Cardinality({c}) = 1
    BY FS_Singleton
  <2> QED BY <1>2, <1>5, <2>1, <2>2 DEF CountFact
<1>9. ASSUME NEW f \in Entries \ {e} PROVE CountFact(f)'
  <2>1. Users(f)' = Users(f)
    <3>1. c \notin Users(f)
      BY <1>3 DEF Users
    <3> QED BY <1>1, <3>1, UsersStay
  <2>2. CountFact(f)
    BY DEF OwnerInv
  <2> QED BY <1>5, <2>1, <2>2 DEF CountFact
<1>10. RegistryFact'
  <2>1. /\ registry'[h][p] = e
        /\ \A g \in Hosts, r \in Paths : g # h \/ r # p => registry'[g][r] = registry[g][r]
    BY <1>1, <1>3 DEF Shaped, Typed
  <2>2. \A g \in Hosts, r \in Paths : registry[g][r] # None => registry[g][r] \in Entries
    BY DEF Shaped, Typed
  <2>3. ASSUME NEW g \in Hosts, NEW r \in Paths, registry'[g][r] # None
        PROVE  /\ entry'[registry'[g][r]].state \in Live
               /\ entry'[registry'[g][r]].host = g /\ entry'[registry'[g][r]].path = r
    <3>1. CASE g = h /\ r = p
      BY <1>2, <1>5, <2>1, <3>1 DEF Live, Good
    <3>2. CASE g # h \/ r # p
      <4>1. registry'[g][r] = registry[g][r]
        BY <2>1, <3>2
      <4>2. registry[g][r] \in Entries /\ registry[g][r] # e
        BY <1>4, <2>2, <2>3, <4>1 DEF OwnerInv, RegistryFact
      <4> QED BY <1>5, <2>3, <4>1, <4>2 DEF OwnerInv, RegistryFact
    <3> QED BY <3>1, <3>2
  <2>4. ASSUME NEW f \in Entries, entry'[f].state \in Live
        PROVE  /\ entry'[f].host \in Hosts /\ entry'[f].path \in Paths
               /\ registry'[entry'[f].host][entry'[f].path] = f
    <3>1. CASE f = e
      BY <1>1, <1>2, <1>5, <2>1, <3>1
    <3>2. CASE f # e
      <4>1. entry'[f] = entry[f] /\ entry[f].host \in Hosts /\ entry[f].path \in Paths
            /\ registry[entry[f].host][entry[f].path] = f
        BY <1>5, <2>4, <3>2 DEF OwnerInv, RegistryFact
      <4>2. f # None
        BY NoneIsNothing
      <4> QED BY <1>3, <2>1, <4>1, <4>2
    <3> QED BY <3>1, <3>2
  <2> QED BY <2>3, <2>4 DEF RegistryFact
<1>11. ASSUME NEW b \in Clients PROVE ClientFact(b)'
  <2>1. ClientFact(b) /\ Placed(b)
    BY DEF OwnerInv, Shaped
  <2>2. \A f \in Entries : entry'[f].failing => entry[f].failing /\ entry'[f] = entry[f]
    BY <1>2, <1>5
  <2>3. CASE b = c
    BY <1>1, <1>2, <1>5, <2>3 DEF ClientFact, Becoming, Good
  <2>4. CASE b # c
    <3>1. client'[b] = client[b] /\ client[b].entry # e
      BY <1>1, <1>4, <2>4 DEF Becoming
    <3> QED BY <1>5, <2>1, <2>2, <3>1 DEF ClientFact, Placed
  <2> QED BY <2>3, <2>4
<1> QED BY <1>6, <1>7, <1>8, <1>9, <1>10, <1>11 DEF OwnerInv

LEMMA IdentityFailsOwned ==
  ASSUME Shaped, OwnerInv, NEW c \in Clients, NEW e \in Entries, NEW d \in Databases,
         IdentityFails(c, e, d)
  PROVE  OwnerInv'
<1> DEFINE o == Stillborn(Host[c], client[c].path, d)
<1>1. /\ EntryBecomes(e, o) /\ client[c].path \in Paths /\ Host[c] \in Hosts
      /\ Becoming(c, "idle", None, None)
      /\ storage'[e].signal = "term"
      /\ \A f \in Entries \ {e} : storage'[f] = storage[f]
  BY IdentityFailsTyped
<1>2. /\ o \in Object /\ o.disposal = "none" /\ o.ready = "pending"
      /\ ~o.failing /\ o.state = "dead" /\ o.references = 0 /\ o.stopped
  BY <1>1, NewIs
<1>3. client[c].phase = "looking" /\ Unused(e) /\ registry' = registry
  BY DEF IdentityFails, Looks, Spawns
<1>4. /\ Users(e) = {} /\ entry[e].state \notin Live
      /\ \A b \in Clients : client[b].entry # e
  BY <1>3, UnusedMeans DEF Unused
<1> HIDE DEF o
<1>5. entry'[e] = o /\ \A f \in Entries \ {e} : entry'[f] = entry[f]
  BY <1>1, <1>2, Becomes DEF EntryBecomes, Shaped
<1>6. EntryFact(e)'
  BY <1>1, <1>2, <1>5 DEF EntryFact, Good, Live
<1>7. \A f \in Entries \ {e} : EntryFact(f)'
  BY <1>1, <1>5 DEF OwnerInv, EntryFact, Alive
<1>8. ASSUME NEW f \in Entries PROVE Users(f)' = Users(f)
  <2>1. c \notin Users(f)
    BY <1>3 DEF Users
  <2> QED BY <1>1, <2>1, UsersStay DEF Holding
<1>9. ASSUME NEW f \in Entries PROVE CountFact(f)'
  <2>1. CASE f = e
    <3>1. Cardinality({}) = 0
      BY FS_EmptySet
    <3> QED BY <1>2, <1>4, <1>5, <1>8, <2>1, <3>1 DEF CountFact, Good
  <2>2. CASE f # e
    BY <1>5, <1>8, <2>2 DEF OwnerInv, CountFact
  <2> QED BY <2>1, <2>2
<1>10. RegistryFact'
  <2>1. \A g \in Hosts, r \in Paths : registry[g][r] # None => registry[g][r] \in Entries
    BY DEF Shaped, Typed
  <2>2. ASSUME NEW g \in Hosts, NEW r \in Paths, registry[g][r] # None
        PROVE  registry[g][r] \in Entries \ {e}
    BY <1>4, <2>1, <2>2 DEF OwnerInv, RegistryFact
  <2>3. o.state \notin Live
    BY <1>2 DEF Live, Good
  <2> QED BY <1>3, <1>5, <2>2, <2>3 DEF OwnerInv, RegistryFact
<1>11. ASSUME NEW b \in Clients PROVE ClientFact(b)'
  <2>1. ClientFact(b) /\ Placed(b)
    BY DEF OwnerInv, Shaped
  <2>2. \A f \in Entries : entry'[f].failing => entry[f].failing /\ entry'[f] = entry[f]
    BY <1>2, <1>5
  <2>3. CASE b = c
    BY <1>1, <2>3 DEF ClientFact, Becoming
  <2>4. CASE b # c
    <3>1. client'[b] = client[b] /\ client[b].entry # e
      BY <1>1, <1>4, <2>4 DEF Becoming
    <3> QED BY <1>5, <2>1, <2>2, <3>1 DEF ClientFact, Placed
  <2> QED BY <2>3, <2>4
<1> QED BY <1>6, <1>7, <1>9, <1>10, <1>11 DEF OwnerInv

(* A client without a reference moves, and no entry does.                  *)
LEMMA WaitsOwned ==
  ASSUME Shaped, OwnerInv, NEW c \in Clients, NEW phase, NEW path, NEW x,
         Becoming(c, phase, path, x), phase \notin Holding, client[c].phase \notin Holding,
         UNCHANGED <<registry, entry, storage>>, ClientFact(c)'
  PROVE  OwnerInv'
<1>1. ASSUME NEW f \in Entries PROVE EntryFact(f)' /\ CountFact(f)'
  <2>1. Users(f)' = Users(f)
    <3>1. c \notin Users(f)
      BY DEF Users, Holding
    <3> QED BY <3>1, UsersStay
  <2> QED BY <2>1 DEF OwnerInv, EntryFact, CountFact, Alive
<1>2. ASSUME NEW b \in Clients \ {c} PROVE ClientFact(b)'
  <2>1. client'[b] = client[b]
    BY DEF Becoming
  <2> QED BY <2>1 DEF OwnerInv, ClientFact
<1> QED BY <1>1, <1>2 DEF OwnerInv, RegistryFact

LEMMA LookersOwned ==
  ASSUME Shaped, OwnerInv, NEW c \in Clients,
         CreateFails(c) \/ RefusesMoved(c) \/ AwaitsDisposal(c) \/ LooksAgain(c)
  PROVE  OwnerInv'
<1>1. UNCHANGED <<registry, entry, storage>> /\ client[c].phase \in {"looking", "awaitsDisposal"}
  BY DEF CreateFails, RefusesMoved, AwaitsDisposal, LooksAgain, Looks
<1>2. CASE Becoming(c, "idle", None, None)
  <2>1. ClientFact(c)'
    BY <1>2 DEF ClientFact, Becoming
  <2> QED BY <1>1, <1>2, <2>1, WaitsOwned DEF Holding
<1>3. CASE AwaitsDisposal(c) /\ Becoming(c, "awaitsDisposal", client[c].path, Registered(c))
  <2>1. /\ client[c].phase = "looking" /\ Registered(c) # None
        /\ entry[Registered(c)].state \in {"closing", "dead"}
    BY <1>3 DEF AwaitsDisposal, Looks
  <2>2. Registered(c) \in Entries /\ Host[c] \in Hosts /\ client[c].path \in Paths
    BY <2>1, RegisteredIs
  <2>3. entry[Registered(c)].state = "closing" /\ entry[Registered(c)].host = Host[c]
    <3>1. entry[Registered(c)].state \in Live /\ entry[Registered(c)].host = Host[c]
      <4>1. registry[Host[c]][client[c].path] # None
        BY <2>1 DEF Registered
      <4> QED BY <2>2, <4>1 DEF OwnerInv, RegistryFact, Registered
    <3> QED BY <2>1, <3>1 DEF Live, Good
  <2>4. entry[Registered(c)].disposal \in {"shutdown", "terminate"}
    BY <2>2, <2>3 DEF OwnerInv, EntryFact
  <2>5. ClientFact(c)'
    BY <1>1, <1>3, <2>3, <2>4 DEF ClientFact, Becoming
  <2> QED BY <1>1, <1>3, <2>5, WaitsOwned DEF Holding
<1>4. CASE LooksAgain(c) /\ Becoming(c, "looking", client[c].path, None)
  <2>1. client[c].phase = "awaitsDisposal" /\ entry[client[c].entry].disposal = "done" /\ ClientFact(c)
    BY <1>4 DEF LooksAgain, OwnerInv
  <2>2. ClientFact(c)'
    BY <1>1, <1>4, <2>1 DEF ClientFact, Becoming
  <2> QED BY <1>1, <1>4, <2>2, WaitsOwned DEF Holding
<1> QED BY <1>2, <1>3, <1>4, WaitsTyped

LEMMA OpenOwned ==
  ASSUME Shaped, OwnerInv, NEW c \in Clients, NEW p \in Paths, Open(c, p)
  PROVE  OwnerInv'
<1>1. /\ client[c].phase = "idle" /\ Called(c)
      /\ UNCHANGED <<registry, entry, storage>>
  BY DEF Open
<1>2. \A f \in Entries : entry[f].host = Host[c] => ~entry[f].failing
  BY <1>1 DEF Called, Quiet
<1>3. Becoming(c, "looking", p, None)
  BY OpenTyped
<1>4. ClientFact(c)'
  BY <1>1, <1>2, <1>3 DEF ClientFact, Becoming
<1> QED BY <1>1, <1>3, <1>4, WaitsOwned DEF Holding

(* A client and its entry move together.                                   *)
LEMMA BothMove ==
  ASSUME Shaped, OwnerInv, NEW c \in Clients, NEW phase, NEW path, NEW x, NEW e \in Entries,
         Becoming(c, phase, path, x), client[c].phase \in Holding => client[c].entry = e,
         phase \in Holding => x = e,
         NEW o \in Object, EntryBecomes(e, o), SamePlace(o, entry[e]), registry' = registry, LocksKept,
         o.state \in Live <=> entry[e].state \in Live,
         o.failing => entry[e].failing, o.ready = entry[e].ready,
         o.state \in Good \/ o.disposal # "none",
         entry[e].disposal # "none" => o.disposal = entry[e].disposal,
         o.disposal # "done" \/ entry[e].disposal = "done",
         EntryFact(e)', CountFact(e)', ClientFact(c)'
  PROVE  OwnerInv'
<1>1. entry'[e] = o /\ \A f \in Entries \ {e} : entry'[f] = entry[f]
  BY Becomes DEF EntryBecomes, Shaped
<1>2. ASSUME NEW f \in Entries \ {e} PROVE Users(f)' = Users(f)
  <2>1. c \notin Users(f) /\ ~(phase \in Holding /\ x = f)
    BY DEF Users, Holding
  <2> QED BY <2>1, UsersStay
<1>3. ASSUME NEW b \in Clients PROVE ClientFact(b)'
  <2>1. CASE b # c
    <3>1. client'[b] = client[b] /\ ClientFact(b) /\ Placed(b)
      BY <2>1 DEF Becoming, OwnerInv, Shaped
    <3>2. \A f \in Entries : /\ entry'[f].failing => entry[f].failing
                             /\ entry'[f].host = entry[f].host /\ entry'[f].ready = entry[f].ready
      BY <1>1 DEF SamePlace
    <3>3. client[b].phase \in {"awaitsDisposal", "awaitsReady", "open"} => client[b].entry \in Entries
      BY <3>1 DEF Placed
    <3>4. (\E f \in Entries : entry'[f].host = Host[b] /\ entry'[f].failing)
          => \E f \in Entries : entry[f].host = Host[b] /\ entry[f].failing
      BY <3>2
    <3>5. ASSUME client[b].phase \in {"awaitsDisposal", "awaitsReady", "open"}
          PROVE  ClientFact(b)'
      <4>1. client[b].entry \in Entries
        BY <3>3, <3>5
      <4>2. CASE client[b].entry = e
        BY <1>1, <3>1, <3>2, <3>4, <4>2 DEF ClientFact
      <4>3. CASE client[b].entry # e
        <5>1. entry'[client[b].entry] = entry[client[b].entry]
          BY <1>1, <4>1, <4>3
        <5> QED BY <3>1, <3>4, <5>1 DEF ClientFact
      <4> QED BY <4>2, <4>3
    <3>6. ASSUME client[b].phase \notin {"awaitsDisposal", "awaitsReady", "open"}
          PROVE  ClientFact(b)'
      BY <3>1, <3>4, <3>6 DEF ClientFact
    <3> QED BY <3>5, <3>6
  <2> QED BY <2>1
<1> QED BY <1>2, <1>3, EntryMoves, KeptFades

LEMMA JoinOwned ==
  ASSUME Shaped, OwnerInv, NEW c \in Clients, JoinEntry(c)
  PROVE  OwnerInv'
<1>0. PICK e \in Entries : e = Registered(c)
  BY JoinTyped
<1> DEFINE o == Joined(entry[e])
<1>1. /\ EntryBecomes(e, o) /\ LocksKept
      /\ Becoming(c, "awaitsReady", client[c].path, e)
  BY <1>0, JoinTyped
<1>2. /\ client[c].phase = "looking" /\ registry' = registry /\ Registered(c) # None
      /\ entry[e].state \in Good
  BY <1>0 DEF JoinEntry, Looks, Good
<1>3. entry[e] \in Object /\ EntryFact(e) /\ CountFact(e) /\ ClientFact(c)
  BY DEF OwnerInv, Shaped, Typed
<1>4. entry[e].host = Host[c]
  <2>1. Host[c] \in Hosts /\ client[c].path \in Paths
    BY <1>2, RegisteredIs
  <2> QED BY <1>0, <1>2, <2>1 DEF OwnerInv, RegistryFact, Registered
<1>5. /\ o \in Object /\ SamePlace(o, entry[e]) /\ o.state = entry[e].state /\ o.disposal = entry[e].disposal
      /\ o.ready = entry[e].ready /\ o.stopped = entry[e].stopped /\ o.failing = entry[e].failing
      /\ o.references = entry[e].references + 1
  BY <1>3, CountedIs
<1> HIDE DEF o
<1>6. entry'[e] = o
  BY <1>1, <1>5, Becomes DEF EntryBecomes, Shaped
<1>7. EntryFact(e)'
  BY <1>1, <1>3, <1>5, <1>6, KeptFades DEF EntryFact, Fading, SamePlace
<1>8. CountFact(e)'
  <2>1. c \notin Users(e) /\ c \in Users(e)'
    BY <1>1, <1>2, UsersAre DEF Users, Holding
  <2>2. Cardinality(Users(e)') = Cardinality(Users(e)) + 1
    BY <1>1, <2>1, UsersCounted
  <2> QED BY <1>3, <1>5, <1>6, <2>1, <2>2 DEF CountFact
<1>9. ClientFact(c)'
  <2>1. ~entry[e].failing
    BY <1>1, <1>2, <1>3, <1>4 DEF ClientFact
  <2> QED BY <1>1, <1>2, <1>4, <1>5, <1>6, <2>1 DEF ClientFact, Becoming, SamePlace
<1>10. client[c].phase \notin Holding
  BY <1>2 DEF Holding
<1> QED BY <1>1, <1>2, <1>4, <1>5, <1>7, <1>8, <1>9, <1>10, BothMove

LEMMA OpensOwned ==
  ASSUME Shaped, OwnerInv, NEW c \in Clients, NEW e \in Entries, e = client[c].entry, Opens(c)
  PROVE  OwnerInv'
<1> DEFINE o == Readied(entry[e])
<1>1. EntryBecomes(e, o) /\ LocksKept /\ Becoming(c, "open", client[c].path, e)
  BY LeaverTyped
<1>2. /\ client[c].phase = "awaitsReady" /\ registry' = registry
      /\ entry[e].state \in Good /\ entry[e].ready = "resolved"
  BY DEF Opens, Good
<1>3. entry[e] \in Object /\ EntryFact(e) /\ CountFact(e) /\ ClientFact(c)
  BY DEF OwnerInv, Shaped, Typed
<1>4. /\ o \in Object /\ SamePlace(o, entry[e]) /\ o.state = "ready" /\ o.disposal = entry[e].disposal
      /\ o.ready = entry[e].ready /\ o.stopped = entry[e].stopped /\ o.failing = entry[e].failing
      /\ o.references = entry[e].references
  BY <1>3, ReadyIs
<1> HIDE DEF o
<1>5. entry'[e] = o
  BY <1>1, <1>4, Becomes DEF EntryBecomes, Shaped
<1>6. EntryFact(e)'
  BY <1>1, <1>2, <1>3, <1>4, <1>5, KeptFades DEF EntryFact, Fading, SamePlace, Good, Live
<1>7. CountFact(e)'
  <2>1. c \in Users(e)
    BY <1>2 DEF Users
  <2>2. Users(e)' = Users(e)
    BY <1>1, <2>1, UsersStay DEF Holding
  <2> QED BY <1>3, <1>4, <1>5, <2>1, <2>2 DEF CountFact
<1>8. ClientFact(c)'
  BY <1>1, <1>2, <1>3, <1>4, <1>5 DEF ClientFact, Becoming, SamePlace, Good
<1>9. o.state \in Good /\ (o.state \in Live <=> entry[e].state \in Live)
  BY <1>2, <1>4 DEF Good, Live
<1> QED BY <1>1, <1>2, <1>4, <1>6, <1>7, <1>8, <1>9, BothMove

(* A client lets go of its entry.                                          *)
LEMMA LeavesOwned ==
  ASSUME Shaped, OwnerInv, NEW c \in Clients, NEW e \in Entries, e = client[c].entry,
         client[c].phase \in Holding, Becoming(c, "idle", None, None),
         NEW o \in Object, EntryBecomes(e, o), LocksKept, registry' = registry,
         SamePlace(o, entry[e]), o.references = entry[e].references - 1,
         o.ready = entry[e].ready, o.failing = entry[e].failing,
         entry[e].stopped => o.stopped,
         \/ /\ o.state = entry[e].state /\ o.disposal = entry[e].disposal
            /\ o.stopped = entry[e].stopped
         \/ /\ entry[e].disposal = "none" /\ o.state = "closing"
            /\ o.disposal = "shutdown" \/ (o.disposal = "terminate" /\ o.stopped),
         o.state \in Good => entry[e].references > 1
  PROVE  OwnerInv'
<1>1. EntryFact(e) /\ CountFact(e) /\ ClientFact(c) /\ entry[e].references \in Int
  BY DEF OwnerInv, Shaped, Typed, Object
<1>2. entry'[e] = o
  BY Becomes DEF EntryBecomes, Shaped
<1>3. /\ entry[e].state \in Good \/ entry[e].disposal # "none"
      /\ entry[e].disposal = "none" => entry[e].state \in Live
  BY <1>1 DEF ClientFact, Holding, Live
<1>4. /\ EntryFact(e)'
      /\ o.state \in Live <=> entry[e].state \in Live
  <2>1. Fading
    BY KeptFades
  <2>2. CASE /\ o.state = entry[e].state /\ o.disposal = entry[e].disposal
             /\ o.stopped = entry[e].stopped
    BY <1>1, <1>2, <2>1, <2>2 DEF EntryFact, Fading, SamePlace
  <2>3. CASE /\ entry[e].disposal = "none" /\ o.state = "closing"
             /\ o.disposal = "shutdown" \/ (o.disposal = "terminate" /\ o.stopped)
    <3>1. o.state \in Live /\ o.state \notin Good
      BY <2>3 DEF Live, Good
    <3>2. entry[e].failing => o.stopped
      BY <1>1 DEF EntryFact
    <3>3. entry[e].ready = "rejected" => o.stopped
      BY <1>1 DEF EntryFact
    <3>4. EntryFact(e)'
      BY <1>2, <2>3, <3>1, <3>2, <3>3 DEF EntryFact
    <3> QED BY <1>3, <2>3, <3>1, <3>4
  <2> QED BY <2>2, <2>3
<1>5. CountFact(e)'
  <2>1. c \in Users(e) /\ c \notin Users(e)'
    BY UsersAre DEF Users, Holding
  <2>2. Cardinality(Users(e)') = Cardinality(Users(e)) - 1 /\ (Cardinality(Users(e)') = 0 <=> Users(e)' = {})
    BY <2>1, UsersCounted
  <2>3. o.references = Cardinality(Users(e)')
    BY <1>1, <2>2 DEF CountFact
  <2>4. o.state \in Good => o.references # 0
    BY <1>1
  <2> QED BY <1>2, <2>2, <2>3, <2>4 DEF CountFact
<1>6. ClientFact(c)'
  BY DEF ClientFact, Becoming
<1>7. /\ "idle" \notin Holding
      /\ o.state \in Good \/ o.disposal # "none"
      /\ entry[e].disposal # "none" => o.disposal = entry[e].disposal
      /\ o.disposal # "done" \/ entry[e].disposal = "done"
  BY <1>3 DEF Holding
<1> QED BY <1>4, <1>5, <1>6, <1>7, BothMove

LEMMA LeaversOwned ==
  ASSUME Shaped, OwnerInv, NEW c \in Clients,
         OpenFails(c) \/ CloseReference(c) \/ CloseSends(c) \/ CloseRefused(c)
  PROVE  OwnerInv'
<1>1. PICK e \in Entries : e = client[c].entry
  BY LeaverTyped
<1>2. /\ entry[e] \in Object /\ EntryFact(e) /\ ClientFact(c) /\ entry[e].references \in Int
      /\ client[c].phase \in Holding /\ registry' = registry
  BY <1>1 DEF OwnerInv, Shaped, Typed, Object, Holding, OpenFails, CloseReference, CloseSends,
              CloseRefused, ClosesLast
<1>3. CASE OpenFails(c)
  <2> DEFINE l == Left(entry[e])
             o == Disposed(l)
  <2>1. EntryBecomes(e, o) /\ LocksKept /\ Becoming(c, "idle", None, None)
    BY <1>1, <1>3, LeaverTyped
  <2>2. /\ l \in Object /\ SamePlace(l, entry[e]) /\ l.state = entry[e].state /\ l.disposal = entry[e].disposal
        /\ l.ready = entry[e].ready /\ l.stopped = entry[e].stopped /\ l.failing = entry[e].failing
        /\ l.references = entry[e].references - 1
    BY <1>2, CountedIs
  <2> HIDE DEF l
  <2>3. /\ o \in Object /\ SamePlace(o, l)
        /\ o.state = IF l.disposal = "none" THEN "closing" ELSE l.state
        /\ o.disposal = IF l.disposal = "none" THEN "terminate" ELSE l.disposal
        /\ o.references = l.references /\ o.ready = l.ready
        /\ o.stopped = l.stopped /\ o.failing = l.failing
    BY <2>2, DisposedIs
  <2> HIDE DEF o
  <2>4. SamePlace(o, entry[e])
    BY <2>2, <2>3 DEF SamePlace
  <2>5. entry[e].disposal = "none" => entry[e].stopped
    <3>1. SUFFICES ASSUME entry[e].disposal = "none" PROVE entry[e].stopped
      OBVIOUS
    <3>2. entry[e].state \in Good
      BY <1>1, <1>2, <3>1 DEF ClientFact, Holding
    <3>3. entry[e].ready # "pending" /\ entry[e].ready # "resolved"
      BY <1>1, <1>3, <3>2 DEF OpenFails, Good
    <3> QED BY <1>2, <3>3 DEF EntryFact, Object
  <2>6. o.state \notin Good
    BY <1>2, <2>2, <2>3 DEF EntryFact, Good
  <2> QED BY <1>1, <1>2, <2>1, <2>2, <2>3, <2>4, <2>5, <2>6, LeavesOwned
<1>4. CASE CloseReference(c)
  <2> DEFINE o == Left(entry[e])
  <2>1. EntryBecomes(e, o) /\ LocksKept /\ Becoming(c, "idle", None, None)
    BY <1>1, <1>4, LeaverTyped
  <2>2. /\ o \in Object /\ SamePlace(o, entry[e]) /\ o.state = entry[e].state /\ o.disposal = entry[e].disposal
        /\ o.ready = entry[e].ready /\ o.stopped = entry[e].stopped /\ o.failing = entry[e].failing
        /\ o.references = entry[e].references - 1
    BY <1>2, CountedIs
  <2> HIDE DEF o
  <2>3. o.state \in Good => entry[e].references > 1
    BY <1>1, <1>2, <1>4, <2>2 DEF CloseReference, EntryFact
  <2> QED BY <1>1, <1>2, <2>1, <2>2, <2>3, LeavesOwned
<1>5. CASE CloseSends(c) \/ CloseRefused(c)
  <2>1. entry[e].references = 1 /\ entry[e].disposal = "none"
    BY <1>1, <1>5 DEF CloseSends, CloseRefused, ClosesLast
  <2>2. PICK o \in {ShutDown(entry[e]), Abandoned(entry[e])} :
          EntryBecomes(e, o) /\ LocksKept /\ Becoming(c, "idle", None, None)
    BY <1>1, <1>5, LeaverTyped
  <2>3. /\ o \in Object /\ SamePlace(o, entry[e]) /\ o.state = "closing" /\ o.references = 0
        /\ o.ready = entry[e].ready /\ o.failing = entry[e].failing
        /\ \/ o.disposal = "shutdown" /\ o.stopped = entry[e].stopped
           \/ o.disposal = "terminate" /\ o.stopped
    BY <1>2, <2>2, ClosedIs
  <2>4. o.state \notin Good
    BY <2>3 DEF Good
  <2> QED BY <1>1, <1>2, <2>1, <2>2, <2>3, <2>4, LeavesOwned
<1> QED BY <1>3, <1>4, <1>5

(* A host takes its registry, its clients and its entries with it.         *)
LEMMA CrashOwned ==
  ASSUME Shaped, OwnerInv, NEW h \in Hosts, HostCrashes(h)
  PROVE  OwnerInv'
<1>1. /\ registry' = [registry EXCEPT ![h] = [p \in Paths |-> None]]
      /\ storage' = storage
      /\ \A c \in Clients : client'[c] = IF Host[c] = h THEN Idle ELSE client[c]
  <2>1. /\ registry' = [registry EXCEPT ![h] = [p \in Paths |-> None]]
        /\ storage' = storage
    BY DEF HostCrashes
  <2> QED BY <2>1, CrashTyped
<1>2. \A e \in Entries : entry'[e] = IF entry[e].host = h THEN Orphaned(entry[e]) ELSE entry[e]
  BY CrashTyped
<1>3. ASSUME NEW e \in Entries, entry[e].host = h
      PROVE  /\ entry'[e].host = None /\ entry'[e].state = "orphan" /\ entry'[e].references = 0
             /\ entry'[e].disposal = "none" /\ entry'[e].ready = "pending"
             /\ entry'[e].stopped /\ ~entry'[e].failing
  <2>1. entry[e] \in Object
    BY DEF Shaped, Typed
  <2> QED BY <1>2, <1>3, <2>1, OrphanedIs
<1>4. ASSUME NEW e \in Entries PROVE EntryFact(e)' /\ CountFact(e)'
  <2>1. CASE entry[e].host = h
    <3>1. Users(e)' = {}
      <4>1. SUFFICES ASSUME NEW c \in Clients, client'[c].entry = e, client'[c].phase \in Holding
                     PROVE  FALSE
        BY DEF Users, Holding
      <4>2. Host[c] # h /\ client'[c] = client[c]
        BY <1>1, <4>1, IdleIs DEF Holding
      <4>3. entry[e].host = Host[c]
        BY <4>1, <4>2 DEF OwnerInv, ClientFact, Holding
      <4> QED BY <2>1, <4>2, <4>3
    <3>2. Cardinality({}) = 0
      BY FS_EmptySet
    <3> QED BY <1>3, <2>1, <3>1, <3>2 DEF EntryFact, CountFact, Good, Live
  <2>2. CASE entry[e].host # h
    <3>1. entry'[e] = entry[e] /\ EntryFact(e) /\ CountFact(e)
      BY <1>2, <2>2 DEF OwnerInv
    <3>2. Users(e)' = Users(e)
      <4>1. ASSUME NEW c \in Clients
            PROVE  /\ client'[c].entry = e /\ client'[c].phase \in Holding
                      <=> client[c].entry = e /\ client[c].phase \in Holding
        <5>1. CASE Host[c] = h
          <6>1. client'[c].phase \notin Holding
            BY <1>1, <5>1, IdleIs DEF Holding
          <6>2. ~(client[c].entry = e /\ client[c].phase \in Holding)
            BY <2>2, <5>1 DEF OwnerInv, ClientFact, Holding
          <6> QED BY <6>1, <6>2
        <5>2. CASE Host[c] # h
          BY <1>1, <5>2
        <5> QED BY <5>1, <5>2
      <4> QED BY <4>1 DEF Users, Holding
    <3> QED BY <1>1, <3>1, <3>2 DEF EntryFact, CountFact, Alive
  <2> QED BY <2>1, <2>2
<1>5. ASSUME NEW c \in Clients PROVE ClientFact(c)'
  <2>1. CASE Host[c] = h
    BY <1>1, <2>1, IdleIs DEF ClientFact
  <2>2. CASE Host[c] # h
    <3>1. client'[c] = client[c] /\ ClientFact(c) /\ Placed(c)
      BY <1>1, <2>2 DEF OwnerInv, Shaped
    <3>2. \A f \in Entries : entry'[f].failing => entry'[f] = entry[f]
      BY <1>2, <1>3
    <3>3. \A f \in Entries : entry[f].host = Host[c] => entry'[f] = entry[f]
      BY <1>2, <2>2
    <3> QED BY <3>1, <3>2, <3>3 DEF ClientFact, Placed
  <2> QED BY <2>1, <2>2
<1>6. RegistryFact'
  <2>1. /\ \A p \in Paths : registry'[h][p] = None
        /\ \A g \in Hosts \ {h} : registry'[g] = registry[g]
    BY <1>1 DEF Shaped, Typed
  <2>2. \A g \in Hosts, r \in Paths : registry[g][r] # None => registry[g][r] \in Entries
    BY DEF Shaped, Typed
  <2>3. ASSUME NEW g \in Hosts, NEW r \in Paths, registry'[g][r] # None
        PROVE  /\ entry'[registry'[g][r]].state \in Live
               /\ entry'[registry'[g][r]].host = g /\ entry'[registry'[g][r]].path = r
    <3>1. g # h /\ registry'[g][r] = registry[g][r] /\ registry[g][r] \in Entries
      BY <2>1, <2>2, <2>3
    <3>2. /\ entry[registry[g][r]].state \in Live
          /\ entry[registry[g][r]].host = g /\ entry[registry[g][r]].path = r
      BY <2>3, <3>1 DEF OwnerInv, RegistryFact
    <3> QED BY <1>2, <3>1, <3>2
  <2>4. ASSUME NEW f \in Entries, entry'[f].state \in Live
        PROVE  /\ entry'[f].host \in Hosts /\ entry'[f].path \in Paths
               /\ registry'[entry'[f].host][entry'[f].path] = f
    <3>1. entry[f].host # h
      BY <1>3, <2>4 DEF Live, Good
    <3>2. entry'[f] = entry[f]
      BY <1>2, <3>1
    <3> QED BY <2>1, <2>4, <3>1, <3>2 DEF OwnerInv, RegistryFact
  <2> QED BY <2>3, <2>4 DEF RegistryFact
<1> QED BY <1>4, <1>5, <1>6 DEF OwnerInv

LEMMA OwnersNext == ASSUME Shaped, OwnerInv, [Next]_vars PROVE OwnerInv'
<1>1. ASSUME NEW c \in Clients, Continues(c) \/ Uses(c) PROVE OwnerInv'
  <2>1. ASSUME NEW e \in Entries, NEW d \in Databases, CreateEntry(c, e, d) \/ IdentityFails(c, e, d)
        PROVE  OwnerInv'
    BY <2>1, CreateOwned, IdentityFailsOwned
  <2>2. CASE Opens(c)
    <3>1. PICK e \in Entries : e = client[c].entry
      BY <2>2, LeaverTyped
    <3> QED BY <2>2, <3>1, OpensOwned
  <2>3. ASSUME NEW p \in Paths, Open(c, p) PROVE OwnerInv'
    BY <2>3, OpenOwned
  <2>4. ASSUME NEW q \in Calls, NEW operation \in Operations,
               CallSent(c, q, operation) \/ CallRefused(c, q, operation)
        PROVE  OwnerInv'
    BY <2>4, OwnersStay DEF CallSent, CallRefused, Fading, Alive
  <2>5. CASE CreateFails(c) \/ RefusesMoved(c) \/ AwaitsDisposal(c) \/ LooksAgain(c)
    BY <2>5, LookersOwned
  <2>6. CASE OpenFails(c) \/ CloseReference(c) \/ CloseSends(c) \/ CloseRefused(c)
    BY <2>6, LeaversOwned
  <2>7. CASE JoinEntry(c)
    BY <2>7, JoinOwned
  <2> QED BY <1>1, <2>1, <2>2, <2>3, <2>4, <2>5, <2>6, <2>7 DEF Continues, Uses
<1>2. ASSUME NEW p \in Paths, NEW q \in Paths, Renamed(p, q) PROVE OwnerInv'
  BY <1>2, OwnersStay DEF Renamed, Fading, Alive
<1>3. CASE UNCHANGED vars
  BY <1>3, OwnersStay DEF vars, Fading, Alive
<1> QED BY <1>1, <1>2, <1>3, ProcessOwned, EventsOwned, CrashOwned DEF Next

LEMMA OwnersInit == ASSUME Init PROVE OwnerInv
<1>1. /\ \A e \in Entries : entry[e] = NoEntry
      /\ \A c \in Clients : client[c] = Idle
      /\ \A h \in Hosts, p \in Paths : registry[h][p] = None
  BY DEF Init
<1>2. \A e \in Entries : EntryFact(e)
  BY <1>1 DEF NoEntry, EntryFact, Good, Live
<1>3. ASSUME NEW e \in Entries PROVE CountFact(e)
  <2>1. Users(e) = {}
    BY <1>1, IdleIs DEF Users
  <2>2. Cardinality({}) = 0
    BY FS_EmptySet
  <2> QED BY <1>1, <2>1, <2>2 DEF CountFact, NoEntry, Good
<1>4. \A c \in Clients : ClientFact(c)
  BY <1>1, IdleIs DEF ClientFact
<1> QED BY <1>1, <1>2, <1>3, <1>4 DEF OwnerInv, RegistryFact, NoEntry, Live, Good

-----------------------------------------------------------------------------
(* The theorems.                                                           *)

IInv == Shaped /\ LockInv /\ OwnerInv

(* The inductive invariant of the registry, the locks and the reference    *)
(* counts.                                                                 *)
THEOREM Invariant == Spec => []IInv
<1>1. Init => IInv
  BY ShapedInit, LocksInit, OwnersInit DEF IInv
<1>2. IInv /\ [Next]_vars => IInv'
  BY ShapedNext, LocksNext, OwnersNext DEF IInv
<1> QED BY <1>1, <1>2, PTL DEF Spec

(* No database is ever open in two processes, whatever hosts crash,        *)
(* processes hang or files are renamed (the flock wrapper of               *)
(* MailStore.ts, D8).                                                      *)
THEOREM AlwaysOneOwner == Spec => []OneOwner
<1>1. IInv => OneOwner
  BY OwnedOnce DEF IInv
<1> QED BY <1>1, Invariant, PTL

(* An entry is registered exactly while its process may live and has to    *)
(* be waited for (beginDisposal of MailStore.ts).                          *)
THEOREM DisposalAlwaysABarrier == Spec => []DisposalIsABarrier
<1>1. IInv => DisposalIsABarrier
  <2>1. SUFFICES ASSUME IInv, NEW e \in Entries
                 PROVE  /\ entry[e].state \in {"starting", "ready", "closing"} <=>
                             \E h \in Hosts, p \in Paths : registry[h][p] = e
                        /\ entry[e].disposal = "done" => ~Alive(e)
                        /\ Alive(e) /\ entry[e].state = "dead" => storage[e].signal # "none"
    BY DEF DisposalIsABarrier
  <2>2. EntryFact(e) /\ RegistryFact /\ e # None
    BY <2>1, NoneIsNothing DEF IInv, OwnerInv
  <2>3. entry[e].state \in {"starting", "ready", "closing"} <=> entry[e].state \in Live
    BY DEF Live, Good
  <2>4. entry[e].state \in Live <=> \E h \in Hosts, p \in Paths : registry[h][p] = e
    BY <2>2 DEF RegistryFact
  <2> QED BY <2>2, <2>3, <2>4 DEF EntryFact
<1> QED BY <1>1, Invariant, PTL

(* The references of an entry are its users, and a good entry has one      *)
(* (the reservation in openMailStore, the releases in close).              *)
THEOREM ReferencesAlwaysCounted == Spec => []ReferencesAreCounted
<1>1. IInv => ReferencesAreCounted
  BY DEF IInv, OwnerInv, CountFact, Users, Good, ReferencesAreCounted
<1> QED BY <1>1, Invariant, PTL

(* A store that openMailStore returns has not failed.                      *)
THEOREM OpenedStoresAlwaysWork == Spec => OpenedStoresWork
<1>1. ASSUME IInv, [Next]_vars, NEW c \in Clients, client'[c].phase = "open", client[c].phase # "open"
      PROVE  ~entry'[client'[c].entry].stopped
  <2>1. Opens(c)
    <3>1. ASSUME NEW b \in Clients, NEW phase \in {"idle", "looking", "awaitsDisposal", "awaitsReady"},
                 NEW path, NEW x, Becoming(b, phase, path, x)
          PROVE  FALSE
      BY <1>1, <3>1 DEF Becoming
    <3>2. ASSUME NEW b \in Clients, Continues(b) \/ Uses(b) PROVE Opens(c)
      <4>1. ASSUME NEW e \in Entries, NEW d \in Databases, CreateEntry(b, e, d) \/ IdentityFails(b, e, d)
            PROVE  FALSE
        BY <1>1, <3>1, <4>1, CreateTyped, IdentityFailsTyped DEF IInv
      <4>2. CASE CreateFails(b) \/ RefusesMoved(b) \/ AwaitsDisposal(b) \/ LooksAgain(b)
        BY <1>1, <3>1, <4>2, WaitsTyped DEF IInv
      <4>3. CASE JoinEntry(b)
        BY <1>1, <3>1, <4>3, JoinTyped DEF IInv
      <4>4. CASE OpenFails(b) \/ CloseReference(b) \/ CloseSends(b) \/ CloseRefused(b)
        BY <1>1, <3>1, <4>4, LeaverTyped DEF IInv
      <4>5. ASSUME NEW p \in Paths, Open(b, p) PROVE FALSE
        BY <1>1, <3>1, <4>5, OpenTyped DEF IInv
      <4>6. ASSUME NEW q \in Calls, NEW operation \in Operations,
                   CallSent(b, q, operation) \/ CallRefused(b, q, operation)
            PROVE  FALSE
        BY <1>1, <4>6 DEF CallSent, CallRefused
      <4>7. CASE Opens(b)
        <5>1. PICK e \in Entries : e = client[b].entry
          BY <1>1, <4>7, LeaverTyped DEF IInv
        <5>2. Becoming(b, "open", client[b].path, e)
          BY <1>1, <4>7, <5>1, LeaverTyped DEF IInv
        <5>3. b = c
          BY <1>1, <5>2 DEF Becoming
        <5> QED BY <4>7, <5>3
      <4> QED BY <3>2, <4>1, <4>2, <4>3, <4>4, <4>5, <4>6, <4>7 DEF Continues, Uses
    <3>3. ASSUME NEW e \in Entries, Process(e) \/ Events(e) \/ FailureDisposes(e) PROVE FALSE
      <4>1. client' = client
        BY <3>3 DEF Process, TakesLock, Loads, LoadFails, HandlesClose, Exits, Handles, Events,
           BecomesReady, StartupFails, Answered, CloseAnswered, StartupTimesOut, RequestTimesOut,
           ExitSeen, SendFails, Fails, ForceKill, DisposalEnds, FailureDisposes
      <4> QED BY <1>1, <4>1
    <3>4. ASSUME NEW h \in Hosts, HostCrashes(h) PROVE FALSE
      <4>1. client'[c] = IF Host[c] = h THEN Idle ELSE client[c]
        BY <1>1, <3>4, CrashTyped DEF IInv
      <4> QED BY <1>1, <4>1, IdleIs
    <3>5. ASSUME NEW p \in Paths, NEW q \in Paths, Renamed(p, q) PROVE FALSE
      BY <1>1, <3>5 DEF Renamed
    <3>6. CASE UNCHANGED vars
      BY <1>1, <3>6 DEF vars
    <3> QED BY <1>1, <3>2, <3>3, <3>4, <3>5, <3>6 DEF Next
  <2>2. PICK e \in Entries : e = client[c].entry
    BY <1>1, <2>1, LeaverTyped DEF IInv
  <2>3. /\ EntryBecomes(e, Readied(entry[e])) /\ client'[c].entry = e
        /\ entry[e] \in Object /\ Typed /\ EntryFact(e) /\ ClientFact(c)
    BY <1>1, <2>1, <2>2, LeaverTyped DEF IInv, OwnerInv, Shaped, Typed, Becoming
  <2>4. Readied(entry[e]) \in Object /\ Readied(entry[e]).stopped = entry[e].stopped
    BY <2>3, ReadyIs
  <2>5. entry'[e].stopped = entry[e].stopped
    BY <2>3, <2>4, Becomes DEF EntryBecomes
  <2>6. /\ client[c].phase = "awaitsReady" /\ entry[e].ready = "resolved" /\ entry[e].state \in Good
    BY <2>1, <2>2 DEF Opens, Good
  <2>7. ~entry[e].stopped
    BY <2>2, <2>3, <2>6 DEF EntryFact, ClientFact
  <2> QED BY <2>3, <2>5, <2>7
<1>2. IInv /\ [Next]_vars =>
        [\A c \in Clients : client'[c].phase = "open" /\ client[c].phase # "open"
                            => ~entry'[client'[c].entry].stopped]_vars
  BY <1>1
<1> QED BY <1>2, Invariant, PTL DEF Spec, OpenedStoresWork
=============================================================================
