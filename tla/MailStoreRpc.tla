----------------------------- MODULE MailStoreRpc -----------------------------
(***************************************************************************)
(* The mail store as its clients see it: a registry per host process that  *)
(* shares one storage process per data directory, the RPC client in front  *)
(* of it, and the storage process itself, which owns SQLite under two      *)
(* flocks that live exactly as long as it does.                            *)
(*                                                                         *)
(* A host runs JavaScript: code between two awaits runs alone, and events  *)
(* (messages, exits, timers) come only when no continuation is runnable    *)
(* (Quiet).  Clients may call from within continuations (EagerClients).    *)
(* The storage process runs on its own and may hang at any point: it owes  *)
(* nobody a step.  Durations are left out: a timer that is armed may fire  *)
(* at any time.                                                            *)
(*                                                                         *)
(* External: flock, signals, files being renamed, crashes.  An open with   *)
(* other settings than the entry's is refused and is no step.              *)
(***************************************************************************)
EXTENDS Naturals, Sequences, FiniteSets

CONSTANTS
  Hosts, Clients, Host,  \* Host[c] is the host process client c lives in
  Paths,                 \* data directories, with one product database each
  Databases,             \* database inodes
  Entries,               \* registry entries with their storage processes, reused
  Calls, Operations,     \* calls clients make; what they ask for, by operation key
  MaxPendingRequests,
  EagerClients,          \* whether open, calls and close may come from a continuation
  None

ASSUME ClientsHaveHosts == Host \in [Clients -> Hosts]
ASSUME ClientsAreFinite == IsFiniteSet(Clients)
ASSUME CapIsPositive == MaxPendingRequests \in Nat \ {0}
ASSUME OptionIsBoolean == EagerClients \in BOOLEAN
ASSUME NoneIsNothing == None \notin Entries \cup Databases \cup Hosts \cup Paths \cup Operations
ASSUME CloseIsNoCall == "close" \notin Calls

VARIABLES
  file,      \* external: the database inode at each path
  registry,  \* per host and path
  entry,     \* RegistryEntry and its RpcClient
  storage,   \* the storage process of an entry
  inbox,     \* requests on their way to it, in order
  outbox,    \* its answers on their way back, in order
  client,    \* openWithFactory and the facade it returned
  call,      \* RPC calls
  rows,      \* per database: the operations that took effect
  effect     \* history: calls whose handler made a row

vars == <<file, registry, entry, storage, inbox, outbox, client, call, rows, effect>>
data == <<file, rows, effect>>

Entry == [host : Hosts \cup {None}, path : Paths \cup {None}, db : Databases \cup {None},
          state : {"absent", "starting", "ready", "closing", "dead", "orphan"},
          references : 0 .. Cardinality(Clients),
          disposal : {"none", "shutdown", "terminate", "done"},
          ready : {"pending", "resolved", "rejected"}, stopped : BOOLEAN, failing : BOOLEAN]
NoEntry == [host |-> None, path |-> None, db |-> None, state |-> "absent", references |-> 0,
            disposal |-> "none", ready |-> "pending", stopped |-> FALSE, failing |-> FALSE]
Storage == [phase : {"none", "locking", "serving", "closed", "exited"},
            held : SUBSET {"directory", "database"}, signal : {"none", "term", "kill"}]
NoStorage == [phase |-> "none", held |-> {}, signal |-> "none"]
Message == [kind : {"ready", "failed", "closed", "answer"}, call : Calls \cup {None}, ok : BOOLEAN]
Client == [phase : {"idle", "looking", "awaitsDisposal", "awaitsReady", "open"},
           path : Paths \cup {None}, entry : Entries \cup {None}]
Idle == [phase |-> "idle", path |-> None, entry |-> None]
Call == [phase : {"none", "pending", "ok", "error", "lost", "refused"}, host : Hosts \cup {None},
         operation : Operations \cup {None}, db : Databases \cup {None}, entry : Entries \cup {None}]
NoCall == [phase |-> "none", host |-> None, operation |-> None, db |-> None, entry |-> None]

TypeOK ==
  /\ file \in [Paths -> Databases \cup {None}]
  /\ registry \in [Hosts -> [Paths -> Entries \cup {None}]]
  /\ entry \in [Entries -> Entry] /\ storage \in [Entries -> Storage]
  /\ inbox \in [Entries -> Seq(Calls \cup {"close"})] /\ outbox \in [Entries -> Seq(Message)]
  /\ client \in [Clients -> Client]
  /\ call \in [Calls -> Call]
  /\ rows \in [Databases -> SUBSET Operations] /\ effect \subseteq Calls

Init ==
  /\ file = [p \in Paths |-> None]
  /\ registry = [h \in Hosts |-> [p \in Paths |-> None]]
  /\ entry = [e \in Entries |-> NoEntry] /\ storage = [e \in Entries |-> NoStorage]
  /\ inbox = [e \in Entries |-> <<>>] /\ outbox = [e \in Entries |-> <<>>]
  /\ client = [c \in Clients |-> Idle]
  /\ call = [q \in Calls |-> NoCall]
  /\ rows = [d \in Databases |-> {}] /\ effect = {}

Alive(e) == storage[e].phase \in {"locking", "serving", "closed"}
Registered(c) == registry[Host[c]][client[c].path]

\* No continuation of host h is runnable.
Runnable(c) ==
  \/ client[c].phase = "looking"
  \/ client[c].phase = "awaitsReady" /\ entry[client[c].entry].ready # "pending"
  \/ client[c].phase = "awaitsDisposal" /\ entry[client[c].entry].disposal = "done"
Quiet(h) ==
  /\ \A c \in Clients : Host[c] = h => ~Runnable(c)
  /\ \A e \in Entries : entry[e].host = h => ~entry[e].failing
\* #fail queues its microtask before any code of a client can learn of it.
Called(c) == \/ Quiet(Host[c])
             \/ EagerClients /\ \A e \in Entries : entry[e].host = Host[c] => ~entry[e].failing

-----------------------------------------------------------------------------
(* The storage process.                                                    *)

\* A message to a client that has stopped is ignored there.
Sends(e, message) ==
  outbox' = IF entry[e].stopped THEN outbox ELSE [outbox EXCEPT ![e] = Append(@, message)]
Notice(kind) == [kind |-> kind, call |-> None, ok |-> kind # "failed"]

\* The shell locks the directory, then the database, on inherited descriptors
\* that the exec'd process keeps: the locks end with the process.
NextLock(e) == IF storage[e].held = {} THEN "directory" ELSE "database"
Same(e, f, lock) == IF lock = "directory" THEN entry[e].path = entry[f].path
                                          ELSE entry[e].db = entry[f].db
Locked(e, lock) == \E f \in Entries : lock \in storage[f].held /\ Same(e, f, lock)

TakesLockBlindly(e) ==
  /\ storage[e].phase = "locking"
  /\ storage[e].held # {"directory", "database"}
  /\ storage' = [storage EXCEPT ![e].held = @ \cup {NextLock(e)}]
  /\ UNCHANGED <<registry, entry, inbox, outbox, client, call, data>>
TakesLock(e) ==
  /\ storage[e].phase = "locking"
  /\ storage[e].held # {"directory", "database"}
  /\ ~Locked(e, NextLock(e))
  /\ storage' = [storage EXCEPT ![e].held = @ \cup {NextLock(e)}]
  /\ UNCHANGED <<registry, entry, inbox, outbox, client, call, data>>

\* Node verifies the locked inodes against the path, opens SQLite, verifies
\* again and announces itself.
LoadsUnderDirectoryLock(e) ==
  /\ storage[e].phase = "locking"
  /\ "directory" \in storage[e].held
  /\ file[entry[e].path] = entry[e].db
  /\ storage' = [storage EXCEPT ![e].phase = "serving"]
  /\ Sends(e, Notice("ready"))
  /\ UNCHANGED <<registry, entry, inbox, client, call, data>>
Loads(e) ==
  /\ storage[e].phase = "locking"
  /\ storage[e].held = {"directory", "database"}
  /\ file[entry[e].path] = entry[e].db
  /\ storage' = [storage EXCEPT ![e].phase = "serving"]
  /\ Sends(e, Notice("ready"))
  /\ UNCHANGED <<registry, entry, inbox, client, call, data>>

LoadFails(e) ==
  /\ storage[e].phase = "locking"
  /\ storage[e].held = {"directory", "database"}
  /\ storage' = [storage EXCEPT ![e].phase = "closed"]
  /\ Sends(e, Notice("failed"))
  /\ UNCHANGED <<registry, entry, inbox, client, call, data>>

\* One request at a time, in order.  An operation key that already made a row
\* answers with it; a handler that throws has rolled back.
HandlesAfresh(e, ok) ==
  LET q == Head(inbox[e])
      d == entry[e].db
  IN
  /\ storage[e].phase \in {"serving", "closed"}
  /\ inbox[e] # <<>> /\ q # "close"
  /\ storage[e].phase = "closed" => ~ok
  /\ inbox' = [inbox EXCEPT ![e] = Tail(@)]
  /\ rows' = IF ok THEN [rows EXCEPT ![d] = @ \cup {call[q].operation}] ELSE rows
  /\ effect' = IF ok THEN effect \cup {q} ELSE effect
  /\ Sends(e, [kind |-> "answer", call |-> q, ok |-> ok])
  /\ UNCHANGED <<file, registry, entry, storage, client, call>>
Handles(e, ok) ==
  LET q == Head(inbox[e])
      d == entry[e].db
  IN
  /\ storage[e].phase \in {"serving", "closed"}
  /\ inbox[e] # <<>> /\ q # "close"
  /\ storage[e].phase = "closed" => ~ok
  /\ inbox' = [inbox EXCEPT ![e] = Tail(@)]
  /\ rows' = IF ok THEN [rows EXCEPT ![d] = @ \cup {call[q].operation}] ELSE rows
  /\ effect' = IF ok /\ call[q].operation \notin rows[d] THEN effect \cup {q} ELSE effect
  /\ Sends(e, [kind |-> "answer", call |-> q, ok |-> ok])
  /\ UNCHANGED <<file, registry, entry, storage, client, call>>

HandlesClose(e) ==
  /\ storage[e].phase = "serving"
  /\ inbox[e] # <<>> /\ Head(inbox[e]) = "close"
  /\ inbox' = [inbox EXCEPT ![e] = Tail(@)]
  /\ storage' = [storage EXCEPT ![e].phase = "closed"]
  /\ Sends(e, Notice("closed"))
  /\ UNCHANGED <<registry, entry, client, call, data>>

\* A lock conflict, SIGTERM between two requests, SIGKILL anywhere, the end of
\* the IPC channel, or a crash.
Exits(e) ==
  /\ Alive(e)
  /\ storage' = [storage EXCEPT ![e].phase = "exited", ![e].held = {}]
  /\ inbox' = [inbox EXCEPT ![e] = <<>>]
  /\ UNCHANGED <<registry, entry, outbox, client, call, data>>

-----------------------------------------------------------------------------
(* RpcClient.                                                              *)

Pending(e) == {q \in Calls : call[q].phase = "pending" /\ call[q].entry = e}
Lost(e) == [q \in Calls |-> IF q \in Pending(e)
                            THEN [call[q] EXCEPT !.phase = "lost", !.entry = None] ELSE call[q]]

\* The close request of a shutdown is a pending call as well.
AtCap(e) == Cardinality(Pending(e)) + (IF entry[e].disposal = "shutdown" THEN 1 ELSE 0)
            >= MaxPendingRequests

\* terminate(): the first termination decides how.
Signalled(s, signal) == [s EXCEPT !.signal = IF @ = "none" THEN signal ELSE @]

\* #fail: every pending call, a shutdown's close among them, is rejected; a
\* timeout kills the process at once; the disposal is queued as a microtask.
FailsInPlace(e, timedOut) ==
  /\ entry' = [entry EXCEPT ![e].stopped = TRUE,
                            ![e].ready = IF @ = "pending" THEN "rejected" ELSE @,
                            ![e].disposal = IF @ = "shutdown" THEN "terminate" ELSE @]
  /\ storage' = [storage EXCEPT ![e] =
       IF timedOut THEN Signalled(@, "kill")
       ELSE IF entry[e].disposal = "shutdown" THEN Signalled(@, "term") ELSE @]
  /\ call' = Lost(e)
  /\ outbox' = [outbox EXCEPT ![e] = <<>>]
  /\ UNCHANGED <<registry, inbox, client, data>>
Fails(e, timedOut) ==
  /\ entry' = [entry EXCEPT ![e].stopped = TRUE, ![e].failing = TRUE,
                            ![e].ready = IF @ = "pending" THEN "rejected" ELSE @,
                            ![e].disposal = IF @ = "shutdown" THEN "terminate" ELSE @]
  /\ storage' = [storage EXCEPT ![e] =
       IF timedOut THEN Signalled(@, "kill")
       ELSE IF entry[e].disposal = "shutdown" THEN Signalled(@, "term") ELSE @]
  /\ call' = Lost(e)
  /\ outbox' = [outbox EXCEPT ![e] = <<>>]
  /\ UNCHANGED <<registry, inbox, client, data>>

\* An event of a client that has not stopped.
Event(e) == ~entry[e].stopped /\ entry[e].host # None /\ Quiet(entry[e].host)
Arrives(e, kind) == Event(e) /\ outbox[e] # <<>> /\ Head(outbox[e]).kind = kind

BecomesReady(e) ==
  /\ Arrives(e, "ready")
  /\ entry' = [entry EXCEPT ![e].ready = "resolved"]
  /\ outbox' = [outbox EXCEPT ![e] = Tail(@)]
  /\ UNCHANGED <<registry, storage, inbox, client, call, data>>

StartupFails(e) == Arrives(e, "failed") /\ Fails(e, FALSE)

Answered(e) ==
  LET m == Head(outbox[e]) IN
  /\ Arrives(e, "answer")
  /\ call' = [call EXCEPT ![m.call] = [@ EXCEPT !.phase = IF m.ok THEN "ok" ELSE "error",
                                                !.entry = None]]
  /\ outbox' = [outbox EXCEPT ![e] = Tail(@)]
  /\ UNCHANGED <<registry, entry, storage, inbox, client, data>>

\* The finally of shutdown(): whatever is pending is rejected, then terminate().
Stopped(s) == [s EXCEPT !.state = "closing", !.disposal = "terminate", !.stopped = TRUE]
CloseAnswered(e) ==
  /\ Arrives(e, "closed")
  /\ entry' = [entry EXCEPT ![e] = Stopped(@)]
  /\ storage' = [storage EXCEPT ![e] = Signalled(@, "term")]
  /\ call' = Lost(e)
  /\ outbox' = [outbox EXCEPT ![e] = <<>>]
  /\ UNCHANGED <<registry, inbox, client, data>>

StartupTimesOut(e) ==
  /\ Event(e) /\ entry[e].ready = "pending"
  /\ Fails(e, TRUE)

CloseTimesOut(e) ==
  /\ Event(e) /\ entry[e].disposal = "shutdown"
  /\ Fails(e, TRUE)
RequestTimesOut(e) ==
  /\ Event(e) /\ (Pending(e) # {} \/ entry[e].disposal = "shutdown")
  /\ Fails(e, TRUE)

\* The process exited: answers that have not been read are not waited for.
ExitSeen(e) == Event(e) /\ storage[e].phase = "exited" /\ Fails(e, FALSE)

\* A request could not be written to the process, which may be well.
SendFails(e) ==
  /\ Event(e) /\ (Pending(e) # {} \/ entry[e].disposal = "shutdown")
  /\ Fails(e, FALSE)

-----------------------------------------------------------------------------
(* Disposal: the entry stays registered until its process is gone.         *)

\* beginDisposal without grace, unless it began before.
Disposed(s) == IF s.disposal # "none" THEN s
               ELSE [s EXCEPT !.state = "closing", !.disposal = "terminate"]
DisposalSignal(e) == IF entry[e].disposal # "none" THEN storage[e] ELSE Signalled(storage[e], "term")

FailureDisposes(e) ==
  /\ entry[e].failing
  /\ entry' = [entry EXCEPT ![e] = Disposed([@ EXCEPT !.failing = FALSE])]
  /\ storage' = [storage EXCEPT ![e] = DisposalSignal(e)]
  /\ UNCHANGED <<registry, inbox, outbox, client, call, data>>

\* The grace after SIGTERM is over.
GraceNeverEnds(e) ==
  /\ entry[e].host # None /\ Quiet(entry[e].host)
  /\ Alive(e) /\ storage[e].signal = "term"
  /\ UNCHANGED vars
ForceKill(e) ==
  /\ entry[e].host # None /\ Quiet(entry[e].host)
  /\ Alive(e) /\ storage[e].signal = "term"
  /\ storage' = [storage EXCEPT ![e].signal = "kill"]
  /\ UNCHANGED <<registry, entry, inbox, outbox, client, call, data>>

EndsAtOnce(e) ==
  /\ entry[e].host # None /\ Quiet(entry[e].host)
  /\ entry[e].disposal = "terminate"
  /\ entry' = [entry EXCEPT ![e].state = "dead", ![e].disposal = "done"]
  /\ registry' = [registry EXCEPT ![entry[e].host][entry[e].path] = IF @ = e THEN None ELSE @]
  /\ UNCHANGED <<storage, inbox, outbox, client, call, data>>
DisposalEnds(e) ==
  /\ entry[e].host # None /\ Quiet(entry[e].host)
  /\ entry[e].disposal = "terminate"
  /\ storage[e].phase = "exited"
  /\ entry' = [entry EXCEPT ![e].state = "dead", ![e].disposal = "done"]
  /\ registry' = [registry EXCEPT ![entry[e].host][entry[e].path] = IF @ = e THEN None ELSE @]
  /\ UNCHANGED <<storage, inbox, outbox, client, call, data>>

-----------------------------------------------------------------------------
(* openMailStore.                                                          *)

Open(c, p) ==
  /\ Called(c)
  /\ client[c].phase = "idle"
  /\ client' = [client EXCEPT ![c] = [Idle EXCEPT !.phase = "looking", !.path = p]]
  /\ UNCHANGED <<registry, entry, storage, inbox, outbox, call, data>>

Looks(c) == client[c].phase = "looking"

Unused(e) ==
  /\ entry[e].state \in {"absent", "dead", "orphan"} /\ ~Alive(e)
  /\ \A c \in Clients : client[c].entry # e

\* The inode at path p, or the one that O_CREAT makes.
Opened(p, d) ==
  IF file[p] # None THEN d = file[p]
  ELSE rows[d] = {} /\ (\A q \in Paths : file[q] # d) /\ (\A e \in Entries : Alive(e) => entry[e].db # d)

\* A storage process is spawned with both descriptors.
Spawns(h, p, d, e) ==
  /\ registry[h][p] = None
  /\ Unused(e) /\ Opened(p, d)
  /\ file' = [file EXCEPT ![p] = d]
  /\ inbox' = [inbox EXCEPT ![e] = <<>>] /\ outbox' = [outbox EXCEPT ![e] = <<>>]
  /\ UNCHANGED <<call, rows, effect>>

CreateEntry(c, e, d) ==
  LET h == Host[c]
      p == client[c].path
  IN
  /\ Looks(c)
  /\ Spawns(h, p, d, e)
  /\ storage' = [storage EXCEPT ![e] = [NoStorage EXCEPT !.phase = "locking"]]
  /\ entry' = [entry EXCEPT ![e] = [NoEntry EXCEPT !.host = h, !.path = p, !.db = d,
                                                   !.state = "starting", !.references = 1]]
  /\ registry' = [registry EXCEPT ![h][p] = e]
  /\ client' = [client EXCEPT ![c].phase = "awaitsReady", ![c].entry = e]

\* storageIdentity throws: the process is terminated and never registered.
IdentityFails(c, e, d) ==
  LET h == Host[c]
      p == client[c].path
  IN
  /\ Looks(c)
  /\ Spawns(h, p, d, e)
  /\ storage' = [storage EXCEPT ![e] = [NoStorage EXCEPT !.phase = "locking", !.signal = "term"]]
  /\ entry' = [entry EXCEPT ![e] = [NoEntry EXCEPT !.host = h, !.path = p, !.db = d,
                                                   !.state = "dead", !.stopped = TRUE]]
  /\ client' = [client EXCEPT ![c] = Idle]
  /\ UNCHANGED registry

\* The transport cannot be made.
CreateFails(c) ==
  /\ Looks(c) /\ Registered(c) = None
  /\ client' = [client EXCEPT ![c] = Idle]
  /\ UNCHANGED <<registry, entry, storage, inbox, outbox, call, data>>

\* The reference is reserved before the startup is awaited.
JoinsWithoutReference(c) ==
  LET e == Registered(c) IN
  /\ Looks(c) /\ e # None
  /\ entry[e].state \in {"starting", "ready"}
  /\ file[client[c].path] = entry[e].db
  /\ client' = [client EXCEPT ![c].phase = "awaitsReady", ![c].entry = e]
  /\ UNCHANGED <<registry, entry, storage, inbox, outbox, call, data>>
JoinEntry(c) ==
  LET e == Registered(c) IN
  /\ Looks(c) /\ e # None
  /\ entry[e].state \in {"starting", "ready"}
  /\ file[client[c].path] = entry[e].db
  /\ entry' = [entry EXCEPT ![e].references = @ + 1]
  /\ client' = [client EXCEPT ![c].phase = "awaitsReady", ![c].entry = e]
  /\ UNCHANGED <<registry, storage, inbox, outbox, call, data>>

\* The path names another inode than the one the entry opened.
RefusesMoved(c) ==
  LET e == Registered(c) IN
  /\ Looks(c) /\ e # None
  /\ entry[e].state \in {"starting", "ready"}
  /\ file[client[c].path] # entry[e].db
  /\ client' = [client EXCEPT ![c] = Idle]
  /\ UNCHANGED <<registry, entry, storage, inbox, outbox, call, data>>

AwaitsDisposal(c) ==
  LET e == Registered(c) IN
  /\ Looks(c) /\ e # None
  /\ entry[e].state \in {"closing", "dead"}
  /\ client' = [client EXCEPT ![c].phase = "awaitsDisposal", ![c].entry = e]
  /\ UNCHANGED <<registry, entry, storage, inbox, outbox, call, data>>

LooksAgain(c) ==
  /\ client[c].phase = "awaitsDisposal" /\ entry[client[c].entry].disposal = "done"
  /\ client' = [client EXCEPT ![c].phase = "looking", ![c].entry = None]
  /\ UNCHANGED <<registry, entry, storage, inbox, outbox, call, data>>

\* ready resolved, and the entry is still good.
Opens(c) ==
  LET e == client[c].entry IN
  /\ client[c].phase = "awaitsReady"
  /\ entry[e].ready = "resolved" /\ entry[e].state \in {"starting", "ready"}
  /\ entry' = [entry EXCEPT ![e].state = "ready"]
  /\ client' = [client EXCEPT ![c].phase = "open"]
  /\ UNCHANGED <<registry, storage, inbox, outbox, call, data>>

\* A reference is given back.
Left(s) == [s EXCEPT !.references = @ - 1]

\* ready rejected, or the entry went bad meanwhile.
OpenFails(c) ==
  LET e == client[c].entry IN
  /\ client[c].phase = "awaitsReady"
  /\ entry[e].ready # "pending"
  /\ ~(entry[e].ready = "resolved" /\ entry[e].state \in {"starting", "ready"})
  /\ entry' = [entry EXCEPT ![e] = Disposed(Left(@))]
  /\ storage' = [storage EXCEPT ![e] = DisposalSignal(e)]
  /\ client' = [client EXCEPT ![c] = Idle]
  /\ UNCHANGED <<registry, inbox, outbox, call, data>>

-----------------------------------------------------------------------------
(* The facade: calls and close().                                          *)

\* stopped, over the cap, or a closed IPC channel: thrown before it is sent.
Refuses(e) == entry[e].stopped \/ AtCap(e) \/ storage[e].phase = "exited"

Asked(c, operation, phase) ==
  [phase |-> phase, host |-> Host[c], operation |-> operation, db |-> entry[client[c].entry].db,
   entry |-> IF phase = "pending" THEN client[c].entry ELSE None]

\* Sent, perhaps to a process that has just exited.
CallSent(c, q, operation) ==
  LET e == client[c].entry IN
  /\ Called(c)
  /\ client[c].phase = "open"
  /\ call[q].phase = "none"
  /\ ~entry[e].stopped /\ ~AtCap(e)
  /\ call' = [call EXCEPT ![q] = Asked(c, operation, "pending")]
  /\ inbox' = IF Alive(e) THEN [inbox EXCEPT ![e] = Append(@, q)] ELSE inbox
  /\ UNCHANGED <<registry, entry, storage, outbox, client, data>>

CallRefused(c, q, operation) ==
  /\ Called(c)
  /\ client[c].phase = "open"
  /\ call[q].phase = "none"
  /\ Refuses(client[c].entry)
  /\ call' = [call EXCEPT ![q] = Asked(c, operation, "refused")]
  /\ UNCHANGED <<registry, entry, storage, inbox, outbox, client, data>>

\* Others hold references, or the entry failed and is disposed of already.
CloseReference(c) ==
  LET e == client[c].entry IN
  /\ Called(c)
  /\ client[c].phase = "open"
  /\ entry[e].references > 1 \/ entry[e].disposal # "none"
  /\ entry' = [entry EXCEPT ![e] = Left(@)]
  /\ client' = [client EXCEPT ![c] = Idle]
  /\ UNCHANGED <<registry, storage, inbox, outbox, call, data>>

ClosesLast(c) ==
  /\ Called(c)
  /\ client[c].phase = "open"
  /\ entry[client[c].entry].references = 1 /\ entry[client[c].entry].disposal = "none"
  /\ client' = [client EXCEPT ![c] = Idle]

\* shutdown() sends "close" behind the calls in flight.
CloseSends(c) ==
  LET e == client[c].entry IN
  /\ ClosesLast(c)
  /\ ~entry[e].stopped /\ ~AtCap(e)
  /\ entry' = [entry EXCEPT ![e].references = 0, ![e].state = "closing", ![e].disposal = "shutdown"]
  /\ inbox' = IF Alive(e) THEN [inbox EXCEPT ![e] = Append(@, "close")] ELSE inbox
  /\ UNCHANGED <<registry, storage, outbox, call, data>>

\* The close is refused as any call: what is in flight is rejected instead.
CloseRefused(c) ==
  LET e == client[c].entry IN
  /\ ClosesLast(c)
  /\ Refuses(e)
  /\ entry' = [entry EXCEPT ![e] = Stopped([@ EXCEPT !.references = 0])]
  /\ storage' = [storage EXCEPT ![e] = Signalled(@, "term")]
  /\ call' = Lost(e)
  /\ outbox' = [outbox EXCEPT ![e] = <<>>]
  /\ UNCHANGED <<registry, inbox, data>>

-----------------------------------------------------------------------------
(* The environment.                                                        *)

\* The host dies: its storage processes lose their IPC channel.
HostCrashes(h) ==
  LET mine == {e \in Entries : entry[e].host = h} IN
  /\ mine # {}
  /\ registry' = [registry EXCEPT ![h] = [p \in Paths |-> None]]
  /\ entry' = [e \in Entries |-> IF e \in mine
       THEN [NoEntry EXCEPT !.path = entry[e].path, !.db = entry[e].db, !.state = "orphan", !.stopped = TRUE]
       ELSE entry[e]]
  /\ outbox' = [e \in Entries |-> IF e \in mine THEN <<>> ELSE outbox[e]]
  /\ client' = [c \in Clients |-> IF Host[c] = h THEN Idle ELSE client[c]]
  /\ call' = [q \in Calls |-> IF call[q].phase = "pending" /\ call[q].host = h
                              THEN [call[q] EXCEPT !.phase = "lost", !.entry = None] ELSE call[q]]
  /\ UNCHANGED <<storage, inbox, data>>

\* Somebody renames the databases.
Renamed(p, q) ==
  /\ file[p] # file[q]
  /\ file' = [file EXCEPT ![p] = file[q], ![q] = file[p]]
  /\ UNCHANGED <<registry, entry, storage, inbox, outbox, client, call, rows, effect>>

-----------------------------------------------------------------------------
Process(e) ==
  \/ TakesLock(e) \/ Loads(e) \/ LoadFails(e) \/ HandlesClose(e) \/ Exits(e)
  \/ \E ok \in BOOLEAN : Handles(e, ok)
Events(e) ==
  \/ BecomesReady(e) \/ StartupFails(e) \/ Answered(e) \/ CloseAnswered(e)
  \/ StartupTimesOut(e) \/ RequestTimesOut(e) \/ ExitSeen(e) \/ SendFails(e)
  \/ ForceKill(e) \/ DisposalEnds(e)
Continues(c) ==
  \/ \E e \in Entries, d \in Databases : CreateEntry(c, e, d) \/ IdentityFails(c, e, d)
  \/ CreateFails(c) \/ JoinEntry(c) \/ RefusesMoved(c) \/ AwaitsDisposal(c) \/ LooksAgain(c)
  \/ Opens(c) \/ OpenFails(c)
Uses(c) ==
  \/ \E p \in Paths : Open(c, p)
  \/ \E q \in Calls, operation \in Operations : CallSent(c, q, operation) \/ CallRefused(c, q, operation)
  \/ CloseReference(c) \/ CloseSends(c) \/ CloseRefused(c)

Next ==
  \/ \E e \in Entries : Process(e) \/ Events(e) \/ FailureDisposes(e)
  \/ \E c \in Clients : Continues(c) \/ Uses(c)
  \/ \E h \in Hosts : HostCrashes(h)
  \/ \E p, q \in Paths : Renamed(p, q)

\* Continuations run (weak); timers fire and exits are noticed between other
\* events (strong); SIGKILL works.  The storage process owes nothing else, and
\* nobody has to open, call or close.
Fairness ==
  /\ \A c \in Clients : WF_vars(Continues(c))
  /\ \A e \in Entries :
       /\ WF_vars(FailureDisposes(e))
       /\ SF_vars(StartupTimesOut(e)) /\ SF_vars(RequestTimesOut(e))
       /\ SF_vars(ForceKill(e)) /\ SF_vars(DisposalEnds(e))
       /\ WF_vars(storage[e].signal = "kill" /\ Exits(e))

Spec == Init /\ [][Next]_vars
FairSpec == Spec /\ Fairness

-----------------------------------------------------------------------------
(* Properties.                                                             *)

(* D8, one storage owner: no two processes ever have the same database     *)
(* open, whatever hosts crash, processes hang or files are renamed.        *)
OneOwner ==
  \A e, f \in Entries :
    storage[e].phase = "serving" /\ storage[f].phase = "serving" /\ entry[e].db = entry[f].db => e = f

(* An entry is a barrier: it leaves the registry only when its process is  *)
(* gone, so a reopen never meets the process it replaces; and whatever a   *)
(* host still runs is registered or already being terminated.              *)
DisposalIsABarrier ==
  \A e \in Entries :
    /\ entry[e].state \in {"starting", "ready", "closing"} <=>
         \E h \in Hosts, p \in Paths : registry[h][p] = e
    /\ entry[e].disposal = "done" => ~Alive(e)
    /\ Alive(e) /\ entry[e].state = "dead" => storage[e].signal # "none"

(* The references of an entry are the facades and openers that have it,    *)
(* and an entry that nobody refers to is being disposed of.                *)
ReferencesAreCounted ==
  \A e \in Entries :
    LET users == {c \in Clients : client[c].entry = e /\ client[c].phase \in {"awaitsReady", "open"}} IN
    /\ entry[e].references = Cardinality(users)
    /\ entry[e].state \in {"starting", "ready"} => users # {}

(* What a caller is told is true: success means the operation is in the    *)
(* database, an error or a refusal that this call changed nothing; and a   *)
(* lost call that is repeated with its key takes effect at most once.      *)
AnswersAreTrue ==
  \A q \in Calls :
    /\ call[q].phase = "ok" => call[q].operation \in rows[call[q].db]
    /\ call[q].phase \in {"error", "refused"} => q \notin effect
    /\ \A r \in effect \ {q} : q \in effect =>
         call[q].operation # call[r].operation \/ call[q].db # call[r].db

(* A call that was lost takes effect, if ever, before anybody has the      *)
(* database open again in a process that lives: what a reader finds there  *)
(* is final, and a retry with the same key cannot be overtaken by its      *)
(* first attempt.                                                          *)
LateEffectsPrecedeReopen ==
  [][\A q \in effect' \ effect, c \in Clients :
       LET e == client[c].entry IN
       client[c].phase = "open" /\ Alive(e) /\ entry[e].db = call[q].db
       => \E i \in DOMAIN inbox[e] : inbox[e][i] = q]_vars

(* openMailStore never returns a store that has already failed, although   *)
(* its entry may be registered, and ready, until the failure disposes it.  *)
OpenedStoresWork ==
  [][\A c \in Clients : client'[c].phase = "open" /\ client[c].phase # "open"
                        => ~entry'[client'[c].entry].stopped]_vars

(* Every call is settled, even if the storage process hangs.               *)
CallsSettle == \A q \in Calls : call[q].phase = "pending" ~> call[q].phase # "pending"

(* Opening succeeds or fails, however many disposals it has to wait for:   *)
(* each of them ends, even if the storage process hangs.                   *)
OpensSettle == \A c \in Clients : client[c].phase \notin {"idle", "open"} ~> client[c].phase \in {"idle", "open"}
=============================================================================
