----------------------------- MODULE SyncRuntime -----------------------------
(***************************************************************************)
(* Who may write the msgvault archive.  Each process keeps a registry with *)
(* at most one runtime entry for the archive, shared by its lease holders. *)
(* An entry owns four flocks through open file descriptions (OFDs) that    *)
(* the process, the flock holder it spawned and every msgvault child have  *)
(* open: the locks last until the last of them is gone.  Syncs go through  *)
(* one FIFO.  The supervisor appears as what the entry uses of it: start,  *)
(* runs asked for, and a stop that drains them.                            *)
(*                                                                         *)
(* External: flock, the processes the entry spawns, and another msgvault   *)
(* (a daemon or a command line) that takes msgvault's own two locks.       *)
(***************************************************************************)
EXTENDS Naturals, Sequences, FiniteSets

CONSTANTS
  Processes, Callers, Host,  \* Host[c] is the process caller c lives in
  Configs,                   \* fingerprints of a runtime configuration
  Wanted,                    \* the configurations each caller may ask for
  Accounts,
  Entries,                   \* entry objects, reused once nothing refers to them
  None

ASSUME CallersAreFinite == IsFiniteSet(Callers)
ASSUME CallersHaveHosts == Host \in [Callers -> Processes]
ASSUME WantedIsTyped == Wanted \in [Callers -> SUBSET Configs]
ASSUME AccountsAreNoPrograms == Accounts \cap {"process", "holder", "probe"} = {}
ASSUME NoneIsNoEntry == None \notin Entries \cup Configs

VARIABLES
  registry,  \* per process: the registered entry
  entry,     \* entry objects: the work on them and the promises others await
  sup,       \* per entry: the supervisor
  queue,     \* per entry: the FIFO of serializeMsgvaultSyncRunner, head running
  locked,    \* per entry: the flocks taken on its OFDs
  open,      \* per entry: who has its OFDs open
  daemon,    \* external: another msgvault holds its two locks and may write
  caller     \* per caller: where it is in acquireMsgvaultSyncRuntime

vars == <<registry, entry, sup, queue, locked, open, daemon, caller>>
archive == <<locked, open, daemon>>

\* In the order the holder takes them.
Locks == <<"directory", "database", "daemon.lock", "db.write.lock">>
LockSet == {Locks[i] : i \in DOMAIN Locks}
MsgvaultLocks == {"daemon.lock", "db.write.lock"}
Openers == {"process", "holder", "probe"} \cup Accounts \* msgvault children by account

Phases == {"absent", "locking", "probing", "starting", "up", "unwinding", "closing",
           "releasing", "down", "crashed"}
Entry == [host : Processes \cup {None}, config : Configs \cup {None}, phase : Phases,
          refs : 0 .. Cardinality(Callers), owns : BOOLEAN,
          ready : {"pending", "resolved", "rejected"},
          closing : {"no", "pending", "resolved", "rejected"}]
NoEntry == [host |-> None, config |-> None, phase |-> "absent", refs |-> 0, owns |-> FALSE,
            ready |-> "pending", closing |-> "no"]
Caller == [phase : {"idle", "looking", "awaitsReady", "awaitsClosing", "held"},
           config : Configs \cup {None}, entry : Entries \cup {None}]
Idle == [phase |-> "idle", config |-> None, entry |-> None]

TypeOK ==
  /\ registry \in [Processes -> Entries \cup {None}]
  /\ entry \in [Entries -> Entry]
  /\ sup \in [Entries -> {"none", "running", "stopping", "stopped"}]
  /\ queue \in [Entries -> Seq(Accounts)]
  /\ locked \in [Entries -> SUBSET LockSet]
  /\ open \in [Entries -> SUBSET Openers]
  /\ daemon \in BOOLEAN
  /\ caller \in [Callers -> Caller]

Init ==
  /\ registry = [p \in Processes |-> None]
  /\ entry = [e \in Entries |-> NoEntry]
  /\ sup = [e \in Entries |-> "none"]
  /\ queue = [e \in Entries |-> <<>>]
  /\ locked = [e \in Entries |-> {}]
  /\ open = [e \in Entries |-> {}]
  /\ daemon = FALSE
  /\ caller = [c \in Callers |-> Idle]

-----------------------------------------------------------------------------
(* Locks.                                                                  *)

\* flock belongs to the OFD: it is gone when the last opener has closed it.
Holds(e, lock) == lock \in locked[e] /\ open[e] # {}
Owned(lock) == (\E e \in Entries : Holds(e, lock)) \/ (daemon /\ lock \in MsgvaultLocks)

\* An opener closes: with the last one the locks are gone.
Closed(e, openers) ==
  /\ open' = [open EXCEPT ![e] = @ \ openers]
  /\ locked' = IF open[e] \subseteq openers THEN [locked EXCEPT ![e] = {}] ELSE locked

NextLock(e) == Locks[Cardinality(locked[e]) + 1]

\* The holder takes one more lock; the process goes on with the config
\* snapshot only when it has all four.
TakesUnavailable(e) ==
  /\ entry[e].phase = "locking"
  /\ locked[e] # LockSet
  /\ locked' = [locked EXCEPT ![e] = @ \cup {NextLock(e)}]
  /\ UNCHANGED <<registry, entry, sup, queue, open, daemon, caller>>
TakeLock(e) ==
  /\ entry[e].phase = "locking"
  /\ locked[e] # LockSet
  /\ ~Owned(NextLock(e))
  /\ locked' = [locked EXCEPT ![e] = @ \cup {NextLock(e)}]
  /\ UNCHANGED <<registry, entry, sup, queue, open, daemon, caller>>

\* Config snapshot taken: the entry owns the archive and probes msgvault.
AcquiredTooEarly(e) ==
  /\ entry[e].phase = "locking"
  /\ {"directory", "database"} \subseteq locked[e]
  /\ entry' = [entry EXCEPT ![e].phase = "probing", ![e].owns = TRUE]
  /\ open' = [open EXCEPT ![e] = @ \cup {"probe"}]
  /\ UNCHANGED <<registry, sup, queue, locked, daemon, caller>>
Acquired(e) ==
  /\ entry[e].phase = "locking"
  /\ locked[e] = LockSet
  /\ entry' = [entry EXCEPT ![e].phase = "probing", ![e].owns = TRUE]
  /\ open' = [open EXCEPT ![e] = @ \cup {"probe"}]
  /\ UNCHANGED <<registry, sup, queue, locked, daemon, caller>>

\* A lock is taken, flock times out, or the config cannot be captured: the
\* holder ends, then the descriptors are closed and the acquisition rejects.
CannotAcquire(e) ==
  /\ entry[e].phase = "locking"
  /\ Closed(e, {"process", "holder"})
  /\ entry' = [entry EXCEPT ![e].phase = "down", ![e].ready = "rejected"]
  /\ UNCHANGED <<registry, sup, queue, daemon, caller>>

-----------------------------------------------------------------------------
(* Startup of an entry, after its locks.                                   *)

ProbeSucceeds(e) ==
  /\ entry[e].phase = "probing"
  /\ Closed(e, {"probe"})
  /\ entry' = [entry EXCEPT ![e].phase = "starting"]
  /\ UNCHANGED <<registry, sup, queue, daemon, caller>>

\* A timed-out probe is killed but may still have the OFDs open for a while.
ProbeFails(e, lingers) ==
  /\ entry[e].phase = "probing"
  /\ IF lingers THEN UNCHANGED <<open, locked>> ELSE Closed(e, {"probe"})
  /\ entry' = [entry EXCEPT ![e].phase = "releasing"]
  /\ UNCHANGED <<registry, sup, queue, daemon, caller>>

StartSucceeds(e) ==
  /\ entry[e].phase = "starting"
  /\ entry' = [entry EXCEPT ![e].phase = "up", ![e].ready = "resolved"]
  /\ sup' = [sup EXCEPT ![e] = "running"]
  /\ UNCHANGED <<registry, queue, archive, caller>>

StartFails(e) ==
  /\ entry[e].phase = "starting"
  /\ entry' = [entry EXCEPT ![e].phase = "unwinding"]
  /\ sup' = [sup EXCEPT ![e] = "stopping"]
  /\ UNCHANGED <<registry, queue, archive, caller>>

-----------------------------------------------------------------------------
(* Runs.                                                                   *)

InQueue(e) == {queue[e][i] : i \in DOMAIN queue[e]}

\* The supervisor asks for a sync; it has one run per account at a time.
AskForSync(e, a) ==
  /\ sup[e] = "running"
  /\ a \notin InQueue(e)
  /\ queue' = [queue EXCEPT ![e] = Append(@, a)]
  /\ UNCHANGED <<registry, entry, sup, archive, caller>>

\* The syncs of an entry whose msgvault is running.
Children(e) == open[e] \cap Accounts

\* A spawned msgvault has the OFDs open too; without ownership there is none to spawn.
Spawned(e, a) ==
  /\ entry[e].owns
  /\ open' = [open EXCEPT ![e] = @ \cup {a}]
  /\ UNCHANGED <<registry, entry, sup, queue, locked, daemon, caller>>

\* Only the head of the FIFO runs, after the end of the one before it.
SpawnsAny(e, a) ==
  /\ a \in InQueue(e) \ Children(e)
  /\ Spawned(e, a)
SpawnSync(e, a) ==
  /\ Children(e) = {}
  /\ queue[e] # <<>> /\ a = Head(queue[e])
  /\ Spawned(e, a)

\* spawnContext throws (the archive or the executable was replaced), or the
\* child cannot be spawned.
SpawnFails(e) ==
  /\ Children(e) = {}
  /\ queue[e] # <<>>
  /\ queue' = [queue EXCEPT ![e] = Tail(@)]
  /\ UNCHANGED <<registry, entry, sup, archive, caller>>

\* The child ends, orphaned or not; the next in the FIFO may run.  An orphan was
\* in the FIFO of a process that is gone.
NeverLeavesTheQueue(e, a) ==
  /\ a \in Children(e)
  /\ Closed(e, {a})
  /\ UNCHANGED <<registry, entry, sup, queue, daemon, caller>>
SyncEnds(e, a) ==
  /\ a \in Children(e)
  /\ Closed(e, {a})
  /\ queue' = IF queue[e] = <<>> THEN queue ELSE [queue EXCEPT ![e] = Tail(@)]
  /\ UNCHANGED <<registry, entry, sup, daemon, caller>>

-----------------------------------------------------------------------------
(* Shutdown of an entry.                                                   *)

\* stop() resolves when the FIFO has drained; then the ownership is released.
Stopped(e) ==
  /\ sup[e] = "stopping"
  /\ queue[e] = <<>>
  /\ sup' = [sup EXCEPT ![e] = "stopped"]
  /\ entry' = [entry EXCEPT ![e].phase = "releasing"]
  /\ UNCHANGED <<registry, queue, archive, caller>>

\* The holder ends, the descriptors are closed, and whoever waits is told: the
\* callers of a failed startup, or those that wait for the close, for whom the
\* entry leaves the registry first.  If a close fails the entry is kept, with
\* its ownership, and its promise rejects.
Ended(s, failed) ==
  [s EXCEPT !.phase = "down", !.owns = failed,
            !.ready = IF @ = "pending" THEN "rejected" ELSE @,
            !.closing = CASE @ = "no" -> "no" [] failed -> "rejected" [] OTHER -> "resolved"]
Release(e, failed) ==
  /\ entry[e].phase = "releasing"
  /\ Closed(e, {"process", "holder"})
  /\ entry' = [entry EXCEPT ![e] = Ended(@, failed)]
  /\ registry' = IF entry[e].closing = "pending" /\ ~failed
                    /\ registry[entry[e].host] = e
                 THEN [registry EXCEPT ![entry[e].host] = None] ELSE registry
  /\ UNCHANGED <<sup, queue, daemon, caller>>

\* A lingering probe dies.
ProbeDies(e) ==
  /\ "probe" \in open[e]
  /\ entry[e].phase # "probing"
  /\ Closed(e, {"probe"})
  /\ UNCHANGED <<registry, entry, sup, queue, daemon, caller>>

-----------------------------------------------------------------------------
(* acquireMsgvaultSyncRuntime and the lease.                               *)

Acquire(c, config) ==
  /\ caller[c].phase = "idle"
  /\ caller' = [caller EXCEPT ![c] = [phase |-> "looking", config |-> config, entry |-> None]]
  /\ UNCHANGED <<registry, entry, sup, queue, archive>>

\* An entry object nothing refers to.
Unused(e) ==
  /\ entry[e].phase \in {"absent", "down", "crashed"}
  /\ open[e] = {}
  /\ \A p \in Processes : registry[p] # e
  /\ \A c \in Callers : caller[c].entry # e

\* The top of the loop, with nothing registered: create and start an entry.
CreateEntry(c, e) ==
  /\ caller[c].phase = "looking"
  /\ registry[Host[c]] = None
  /\ Unused(e)
  /\ registry' = [registry EXCEPT ![Host[c]] = e]
  /\ entry' = [entry EXCEPT ![e] = [NoEntry EXCEPT !.host = Host[c], !.config = caller[c].config,
                                                   !.phase = "locking"]]
  /\ sup' = [sup EXCEPT ![e] = "none"]
  /\ queue' = [queue EXCEPT ![e] = <<>>]
  /\ open' = [open EXCEPT ![e] = {"process", "holder"}]
  /\ caller' = [caller EXCEPT ![c].phase = "awaitsReady", ![c].entry = e]
  /\ UNCHANGED <<locked, daemon>>

\* The top of the loop, with an entry: wait for it, wait until it has closed,
\* or refuse a conflicting configuration.
JoinsAnyConfig(c) ==
  LET e == registry[Host[c]] IN
  /\ caller[c].phase = "looking"
  /\ e # None
  /\ caller' = [caller EXCEPT ![c] =
       IF entry[e].closing # "no" THEN [@ EXCEPT !.phase = "awaitsClosing", !.entry = e]
       ELSE [@ EXCEPT !.phase = "awaitsReady", !.entry = e]]
  /\ UNCHANGED <<registry, entry, sup, queue, archive>>
JoinEntry(c) ==
  LET e == registry[Host[c]] IN
  /\ caller[c].phase = "looking"
  /\ e # None
  /\ caller' = [caller EXCEPT ![c] =
       IF entry[e].closing # "no" THEN [@ EXCEPT !.phase = "awaitsClosing", !.entry = e]
       ELSE IF entry[e].config # @.config THEN Idle
       ELSE [@ EXCEPT !.phase = "awaitsReady", !.entry = e]]
  /\ UNCHANGED <<registry, entry, sup, queue, archive>>

EntryClosed(c) ==
  /\ caller[c].phase = "awaitsClosing"
  /\ entry[caller[c].entry].closing \in {"resolved", "rejected"}
  /\ caller' = [caller EXCEPT ![c] =
       IF entry[caller[c].entry].closing = "rejected" THEN Idle
       ELSE [@ EXCEPT !.phase = "looking", !.entry = None]]
  /\ UNCHANGED <<registry, entry, sup, queue, archive>>

\* The startup failed: the first to see it forgets the entry, unless the entry
\* could not give up its ownership.
ForgetsAnyFailure(c) ==
  LET e == caller[c].entry IN
  /\ caller[c].phase = "awaitsReady"
  /\ entry[e].ready = "rejected"
  /\ registry' = IF registry[Host[c]] = e THEN [registry EXCEPT ![Host[c]] = None] ELSE registry
  /\ caller' = [caller EXCEPT ![c] = Idle]
  /\ UNCHANGED <<entry, sup, queue, archive>>
EntryFailed(c) ==
  LET e == caller[c].entry IN
  /\ caller[c].phase = "awaitsReady"
  /\ entry[e].ready = "rejected"
  /\ registry' = IF registry[Host[c]] = e /\ ~entry[e].owns
                 THEN [registry EXCEPT ![Host[c]] = None] ELSE registry
  /\ caller' = [caller EXCEPT ![c] = Idle]
  /\ UNCHANGED <<entry, sup, queue, archive>>

\* The entry is up, unless its last lease was released in the meantime.
LeasesClosing(c) ==
  LET e == caller[c].entry IN
  /\ caller[c].phase = "awaitsReady"
  /\ entry[e].ready = "resolved"
  /\ entry' = [entry EXCEPT ![e].refs = @ + 1]
  /\ caller' = [caller EXCEPT ![c].phase = "held"]
  /\ UNCHANGED <<registry, sup, queue, archive>>
CountsOnce(c) ==
  LET e == caller[c].entry IN
  /\ caller[c].phase = "awaitsReady"
  /\ entry[e].ready = "resolved"
  /\ IF entry[e].closing # "no"
     THEN caller' = [caller EXCEPT ![c].phase = "awaitsClosing"] /\ UNCHANGED entry
     ELSE /\ caller' = [caller EXCEPT ![c].phase = "held"]
          /\ entry' = [entry EXCEPT ![e].refs = 1]
  /\ UNCHANGED <<registry, sup, queue, archive>>
TakeLease(c) ==
  LET e == caller[c].entry IN
  /\ caller[c].phase = "awaitsReady"
  /\ entry[e].ready = "resolved"
  /\ IF entry[e].closing # "no"
     THEN caller' = [caller EXCEPT ![c].phase = "awaitsClosing"] /\ UNCHANGED entry
     ELSE /\ caller' = [caller EXCEPT ![c].phase = "held"]
          /\ entry' = [entry EXCEPT ![e].refs = @ + 1]
  /\ UNCHANGED <<registry, sup, queue, archive>>

\* release(), once per lease; the last one closes the entry.
ClosesAlways(c) ==
  LET e == caller[c].entry IN
  /\ caller[c].phase = "held"
  /\ caller' = [caller EXCEPT ![c] = Idle]
  /\ entry' = [entry EXCEPT ![e].refs = @ - 1, ![e].closing = "pending", ![e].phase = "closing"]
  /\ sup' = [sup EXCEPT ![e] = "stopping"]
  /\ UNCHANGED <<registry, queue, archive>>
ReleaseLease(c) ==
  LET e == caller[c].entry
      last == entry[e].refs = 1
  IN
  /\ caller[c].phase = "held"
  /\ caller' = [caller EXCEPT ![c] = Idle]
  /\ entry' = IF last
              THEN [entry EXCEPT ![e].refs = 0, ![e].closing = "pending", ![e].phase = "closing"]
              ELSE [entry EXCEPT ![e].refs = @ - 1]
  /\ sup' = IF last THEN [sup EXCEPT ![e] = "stopping"] ELSE sup
  /\ UNCHANGED <<registry, queue, archive>>

-----------------------------------------------------------------------------
(* Crashes and other programs.                                             *)

\* The process dies: its descriptors close, its children live on.
Crash(p) ==
  LET mine == {e \in Entries : entry[e].host = p} IN
  /\ mine # {}
  /\ registry' = [registry EXCEPT ![p] = None]
  /\ entry' = [e \in Entries |-> IF e \in mine THEN [NoEntry EXCEPT !.phase = "crashed"] ELSE entry[e]]
  /\ sup' = [e \in Entries |-> IF e \in mine THEN "none" ELSE sup[e]]
  /\ queue' = [e \in Entries |-> IF e \in mine THEN <<>> ELSE queue[e]]
  /\ open' = [e \in Entries |-> IF e \in mine THEN open[e] \ {"process"} ELSE open[e]]
  /\ locked' = [e \in Entries |-> IF open'[e] = {} THEN {} ELSE locked[e]]
  /\ caller' = [c \in Callers |-> IF Host[c] = p THEN Idle ELSE caller[c]]
  /\ UNCHANGED daemon

\* The holder's standard input is gone.
HolderExits(e) ==
  /\ "holder" \in open[e] /\ "process" \notin open[e]
  /\ Closed(e, {"holder"})
  /\ UNCHANGED <<registry, entry, sup, queue, daemon, caller>>

DaemonStarts ==
  /\ \A lock \in MsgvaultLocks : ~Owned(lock)
  /\ daemon' = TRUE
  /\ UNCHANGED <<registry, entry, sup, queue, locked, open, caller>>
DaemonStops ==
  /\ daemon
  /\ daemon' = FALSE
  /\ UNCHANGED <<registry, entry, sup, queue, locked, open, caller>>

-----------------------------------------------------------------------------
Progress(e) ==
  \/ TakeLock(e) \/ Acquired(e) \/ CannotAcquire(e) \/ ProbeSucceeds(e)
  \/ \E lingers \in BOOLEAN : ProbeFails(e, lingers)
  \/ StartSucceeds(e) \/ StartFails(e)
  \/ Stopped(e)
  \/ \E failed \in BOOLEAN : Release(e, failed)
Programs(e) ==
  \/ \E a \in Accounts : SpawnSync(e, a) \/ SyncEnds(e, a)
  \/ SpawnFails(e) \/ ProbeDies(e) \/ HolderExits(e)
Resumes(c) == JoinEntry(c) \/ EntryClosed(c) \/ EntryFailed(c) \/ TakeLease(c)
              \/ \E e \in Entries : CreateEntry(c, e)

Next ==
  \/ \E e \in Entries : Progress(e) \/ Programs(e)
  \/ \E e \in Entries, a \in Accounts : AskForSync(e, a)
  \/ \E c \in Callers : Resumes(c) \/ ReleaseLease(c)
  \/ \E c \in Callers : \E config \in Wanted[c] : Acquire(c, config)
  \/ \E p \in Processes : Crash(p)
  \/ DaemonStarts \/ DaemonStops

\* Spawned programs end and awaited steps run.  Nobody has to acquire, release
\* or crash, and the other msgvault may run forever.
Fairness ==
  /\ \A e \in Entries : WF_vars(Progress(e)) /\ WF_vars(Programs(e))
  /\ \A c \in Callers : WF_vars(Resumes(c))

Spec == Init /\ [][Next]_vars
FairSpec == Spec /\ Fairness

-----------------------------------------------------------------------------
(* Properties.                                                             *)

Writing == {child \in Entries \X Accounts : child[2] \in open[child[1]]}

(* The archive has one writer at a time: no sync child, an orphan of a     *)
(* crashed process included, overlaps another or another msgvault.         *)
OneWriter == Cardinality(Writing) + (IF daemon THEN 1 ELSE 0) <= 1

(* A sync child holds all four locks for as long as it lives, whatever     *)
(* becomes of the process that started it.                                 *)
WritersHoldTheLocks == \A child \in Writing : locked[child[1]] = LockSet

(* Whoever holds a lease has a running supervisor that owns the archive,   *)
(* registered and not about to close, with the configuration asked for.    *)
LeasesAreLive ==
  \A c \in Callers : caller[c].phase = "held" =>
    LET e == caller[c].entry IN
    /\ registry[Host[c]] = e
    /\ entry[e].phase = "up" /\ entry[e].owns /\ entry[e].closing = "no"
    /\ sup[e] = "running"
    /\ entry[e].config = caller[c].config

(* Whatever owns the archive in a process is what its next acquisition     *)
(* finds there: an entry that starts, serves or closes, and one kept       *)
(* because its descriptors could not be closed.  So a process never has    *)
(* two owners, whichever of them failed and whoever sees it fail.          *)
OwnersAreRegistered ==
  \A e \in Entries : entry[e].owns => registry[entry[e].host] = e

(* The reference count of an entry is the number of its leases, whichever  *)
(* callers waited for the same startup or released in between; and an      *)
(* entry that is up has one, or a caller about to take one: nobody else    *)
(* would ever release its locks.                                           *)
LeasesAreCounted ==
  \A e \in Entries :
    LET users(phases) == {c \in Callers : caller[c].phase \in phases /\ caller[c].entry = e} IN
    /\ entry[e].refs = Cardinality(users({"held"}))
    /\ entry[e].phase = "up" => users({"held", "awaitsReady"}) # {}

(* Closing an entry and waiting for a crashed one both come to an end, so  *)
(* the archive can be acquired again.                                      *)
OwnershipEnds ==
  \A e \in Entries : entry[e].phase \in {"closing", "unwinding", "releasing", "crashed"} ~> open[e] = {}
=============================================================================
