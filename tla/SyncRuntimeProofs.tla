------------------------- MODULE SyncRuntimeProofs -------------------------
(***************************************************************************)
(* One writer of the archive, and leases that are live and counted, for    *)
(* any number of processes, callers, entries and accounts.  The locks of   *)
(* two entries are disjoint, an entry at work has all four and its process *)
(* keeps them open, and a sync child belongs to an entry at work or to one *)
(* that crashed: it keeps the locks open itself then.  And of what a child *)
(* writes, the detector of item errors reports what the expression finds.  *)
(***************************************************************************)
EXTENDS SyncRuntime, SyncOutput, FiniteSetTheorems, WellFoundedInduction, TLAPS

Working == {"probing", "starting", "up", "unwinding", "closing", "releasing"}
Running == {"up", "unwinding", "closing"}

(* Types, but for the bound of the reference counts.                       *)
Object ==
  [host : Processes \cup {None}, config : Configs \cup {None}, phase : Phases,
   refs : Int, owns : BOOLEAN, ready : {"pending", "resolved", "rejected"},
   closing : {"no", "pending", "resolved", "rejected"}]

Typed ==
  /\ registry \in [Processes -> Entries \cup {None}]
  /\ entry \in [Entries -> Object]
  /\ sup \in [Entries -> {"none", "running", "stopping", "stopped"}]
  /\ queue \in [Entries -> Seq(Accounts)]
  /\ locked \in [Entries -> SUBSET LockSet]
  /\ open \in [Entries -> SUBSET Openers]
  /\ daemon \in BOOLEAN
  /\ caller \in [Callers -> Caller]

LockFact(e) ==
  /\ open[e] = {} => locked[e] = {}
  /\ entry[e].phase \in Working \cup {"locking"} => "process" \in open[e]
  /\ entry[e].phase \in Working => locked[e] = LockSet /\ entry[e].owns
  /\ entry[e].phase = "locking" => ~entry[e].owns
  /\ Children(e) # {} => /\ locked[e] = LockSet
                         /\ entry[e].phase = "crashed" \/ queue[e] # <<>>
  /\ \A a, b \in Children(e) : a = b
  /\ queue[e] # <<>> => entry[e].phase \in Running
  /\ sup[e] = "running" <=> entry[e].phase = "up"
  /\ sup[e] = "stopping" <=> entry[e].phase \in {"unwinding", "closing"}

(* No two entries share a lock, nor does an entry share one of its own two *)
(* with another msgvault.                                                  *)
Disjoint ==
  /\ \A e, f \in Entries : e # f => locked[e] \cap locked[f] = {}
  /\ daemon => \A e \in Entries : locked[e] \cap MsgvaultLocks = {}

LockInv == Typed /\ Disjoint /\ \A e \in Entries : LockFact(e)

(* Nothing about entry f changes that its locks depend on.                 *)
Same(f) ==
  /\ open'[f] = open[f] /\ locked'[f] = locked[f] /\ queue'[f] = queue[f] /\ sup'[f] = sup[f]
  /\ entry'[f].phase = entry[f].phase /\ entry'[f].owns = entry[f].owns

(* Three locks or fewer leave a next one.                                  *)
LEMMA NextLockExists ==
  ASSUME NEW e \in Entries, locked[e] \in SUBSET LockSet, locked[e] # LockSet
  PROVE  NextLock(e) \in LockSet
<1>1. /\ Locks[1] = "directory" /\ Locks[2] = "database" /\ Locks[3] = "daemon.lock"
      /\ Locks[4] = "db.write.lock" /\ DOMAIN Locks = 1 .. 4
  BY DEF Locks
<1>2. LockSet = {"directory", "database", "daemon.lock"} \cup {"db.write.lock"}
  <2>1. LockSet = {Locks[1], Locks[2], Locks[3], Locks[4]}
    BY <1>1 DEF LockSet
  <2> QED BY <1>1, <2>1
<1>3. IsFiniteSet(LockSet) /\ Cardinality(LockSet) = 4
  <2>1. IsFiniteSet({"directory"}) /\ Cardinality({"directory"}) = 1
    BY FS_Singleton
  <2>2. /\ IsFiniteSet({"directory"} \cup {"database"})
        /\ Cardinality({"directory"} \cup {"database"}) = 2
    BY <2>1, FS_AddElement
  <2>3. /\ IsFiniteSet(({"directory"} \cup {"database"}) \cup {"daemon.lock"})
        /\ Cardinality(({"directory"} \cup {"database"}) \cup {"daemon.lock"}) = 3
    BY <2>2, FS_AddElement
  <2>4. ({"directory"} \cup {"database"}) \cup {"daemon.lock"} = {"directory", "database", "daemon.lock"}
    OBVIOUS
  <2>5. "db.write.lock" \notin {"directory", "database", "daemon.lock"}
    OBVIOUS
  <2>6. /\ IsFiniteSet({"directory", "database", "daemon.lock"})
        /\ Cardinality({"directory", "database", "daemon.lock"}) = 3
    BY <2>3, <2>4
  <2>7. /\ IsFiniteSet({"directory", "database", "daemon.lock"} \cup {"db.write.lock"})
        /\ Cardinality({"directory", "database", "daemon.lock"} \cup {"db.write.lock"}) = 3 + 1
    BY <2>5, <2>6, FS_AddElement
  <2> QED BY <1>2, <2>7
<1>4. Cardinality(locked[e]) \in 0 .. 3
  <2>1. IsFiniteSet(locked[e]) /\ Cardinality(locked[e]) <= 4 /\ Cardinality(locked[e]) # 4
    BY <1>3, FS_Subset
  <2> QED BY <2>1, FS_CardinalityType
<1> QED BY <1>1, <1>4 DEF NextLock, LockSet

(* Replacing one entry object replaces that one.                           *)
LEMMA Becomes ==
  ASSUME Typed, NEW e \in Entries, NEW o \in Object, entry' = [entry EXCEPT ![e] = o]
  PROVE  /\ entry' \in [Entries -> Object] /\ entry'[e] = o
         /\ \A f \in Entries \ {e} : entry'[f] = entry[f]
BY DEF Typed

(* An entry that is the same keeps its facts.                              *)
LEMMA SameKeeps ==
  ASSUME NEW f \in Entries, LockFact(f), Same(f)
  PROVE  LockFact(f)'
BY DEF LockFact, Same, Children

(* A step that moves one entry only.                                       *)
LEMMA OneEntry ==
  ASSUME LockInv, NEW e \in Entries, Typed', Disjoint', LockFact(e)',
         \A f \in Entries \ {e} : Same(f)
  PROVE  LockInv'
BY SameKeeps DEF LockInv

(* Locks that are given up, or a daemon that ends, keep all disjoint.      *)
LEMMA FewerLocks ==
  ASSUME Disjoint, \A e \in Entries : locked'[e] \subseteq locked[e], daemon' => daemon
  PROVE  Disjoint'
BY DEF Disjoint

(* What is left when some openers of an entry are gone.                    *)
LEMMA ClosedLeaves ==
  ASSUME Typed, NEW e \in Entries, NEW openers, Closed(e, openers)
  PROVE  /\ open' \in [Entries -> SUBSET Openers] /\ locked' \in [Entries -> SUBSET LockSet]
         /\ open'[e] = open[e] \ openers
         /\ locked'[e] = IF open[e] \subseteq openers THEN {} ELSE locked[e]
         /\ \A f \in Entries \ {e} : open'[f] = open[f] /\ locked'[f] = locked[f]
BY DEF Typed, Closed

LEMMA ClosedIsFewer ==
  ASSUME Typed, Disjoint, NEW e \in Entries, NEW openers, Closed(e, openers), daemon' = daemon
  PROVE  Disjoint'
<1>1. \A f \in Entries : locked'[f] \subseteq locked[f]
  BY ClosedLeaves
<1> QED BY <1>1, FewerLocks

-----------------------------------------------------------------------------
(* Acquisition.                                                            *)

(* A lock is taken that nobody else holds.                                 *)
LEMMA TakeLockStep ==
  ASSUME LockInv, NEW e \in Entries, TakeLock(e)
  PROVE  LockInv'
<1>1. /\ Typed /\ Disjoint /\ \A f \in Entries : LockFact(f)
  BY DEF LockInv
<1>2. PICK lock : lock = NextLock(e)
  OBVIOUS
<1>3. lock \in LockSet /\ ~Owned(lock)
  BY <1>1, <1>2, NextLockExists DEF Typed, TakeLock
<1>4. /\ locked'[e] = locked[e] \cup {lock} /\ \A f \in Entries \ {e} : locked'[f] = locked[f]
      /\ locked' \in [Entries -> SUBSET LockSet]
  BY <1>1, <1>2, <1>3 DEF TakeLock, Typed
<1>5. \A f \in Entries : lock \notin locked[f]
  BY <1>1, <1>3 DEF Owned, Holds, LockFact
<1>6. daemon => lock \notin MsgvaultLocks
  BY <1>3 DEF Owned
<1>7. Disjoint'
  BY <1>1, <1>4, <1>5, <1>6 DEF Disjoint, TakeLock
<1>8. Typed'
  BY <1>1, <1>4 DEF Typed, TakeLock
<1>9. LockFact(e)'
  <2>1. LockFact(e) /\ entry[e].phase = "locking"
    BY <1>1 DEF TakeLock
  <2> QED BY <1>4, <2>1 DEF LockFact, TakeLock, Children, Working, Running
<1> QED BY <1>4, <1>7, <1>8, <1>9, OneEntry DEF Same, TakeLock

LEMMA AcquiredStep ==
  ASSUME LockInv, NEW e \in Entries, Acquired(e)
  PROVE  LockInv'
<1>1. /\ Typed /\ Disjoint /\ \A f \in Entries : LockFact(f)
  BY DEF LockInv
<1>2. /\ entry'[e].phase = "probing" /\ entry'[e].owns
      /\ open'[e] = open[e] \cup {"probe"}
      /\ \A f \in Entries \ {e} : entry'[f] = entry[f] /\ open'[f] = open[f]
  BY <1>1 DEF Acquired, Typed
<1>3. Typed'
  <2>1. entry[e] \in Object
    BY <1>1 DEF Typed
  <2>2. [entry[e] EXCEPT !.phase = "probing", !.owns = TRUE] \in Object
    BY <2>1 DEF Object, Phases
  <2>3. entry' = [entry EXCEPT ![e] = [entry[e] EXCEPT !.phase = "probing", !.owns = TRUE]]
    BY <1>1, <2>1 DEF Acquired, Typed, Object
  <2>4. entry' \in [Entries -> Object]
    BY <1>1, <2>2, <2>3, Becomes
  <2> QED BY <1>1, <2>4 DEF Acquired, Typed, Openers
<1>4. Disjoint'
  BY <1>1 DEF Acquired, Disjoint
<1>5. LockFact(e)'
  BY <1>1, <1>2, AccountsAreNoPrograms DEF LockFact, Acquired, Children, Working, Running
<1> QED BY <1>2, <1>3, <1>4, <1>5, OneEntry DEF Same, Acquired

LEMMA CannotAcquireStep ==
  ASSUME LockInv, NEW e \in Entries, CannotAcquire(e)
  PROVE  LockInv'
<1>1. /\ Typed /\ Disjoint /\ \A f \in Entries : LockFact(f)
  BY DEF LockInv
<1>2. /\ entry'[e].phase = "down" /\ entry'[e].owns = entry[e].owns
      /\ \A f \in Entries \ {e} : entry'[f] = entry[f]
  BY <1>1 DEF CannotAcquire, Typed
<1>3. /\ open' \in [Entries -> SUBSET Openers] /\ locked' \in [Entries -> SUBSET LockSet]
      /\ open'[e] = open[e] \ {"process", "holder"}
      /\ locked'[e] = IF open[e] \subseteq {"process", "holder"} THEN {} ELSE locked[e]
      /\ \A f \in Entries \ {e} : open'[f] = open[f] /\ locked'[f] = locked[f]
  BY <1>1, ClosedLeaves DEF CannotAcquire
<1>4. Typed'
  <2>1. entry[e] \in Object
    BY <1>1 DEF Typed
  <2>2. [entry[e] EXCEPT !.phase = "down", !.ready = "rejected"] \in Object
    BY <2>1 DEF Object, Phases
  <2>3. entry' = [entry EXCEPT ![e] = [entry[e] EXCEPT !.phase = "down", !.ready = "rejected"]]
    BY <1>1, <2>1 DEF CannotAcquire, Typed, Object
  <2>4. entry' \in [Entries -> Object]
    BY <1>1, <2>2, <2>3, Becomes
  <2> QED BY <1>1, <1>3, <2>4 DEF CannotAcquire, Typed
<1>5. Disjoint'
  BY <1>1, ClosedIsFewer DEF CannotAcquire
<1>6. LockFact(e)'
  BY <1>1, <1>2, <1>3 DEF LockFact, CannotAcquire, Children, Working, Running
<1> QED BY <1>2, <1>3, <1>4, <1>5, <1>6, OneEntry DEF Same, CannotAcquire

-----------------------------------------------------------------------------
(* Startup.                                                                *)

LEMMA ProbeSucceedsStep ==
  ASSUME LockInv, NEW e \in Entries, ProbeSucceeds(e)
  PROVE  LockInv'
<1>1. /\ Typed /\ Disjoint /\ \A f \in Entries : LockFact(f)
  BY DEF LockInv
<1>2. /\ entry'[e].phase = "starting" /\ entry'[e].owns = entry[e].owns
      /\ \A f \in Entries \ {e} : entry'[f] = entry[f]
  BY <1>1 DEF ProbeSucceeds, Typed
<1>3. /\ open' \in [Entries -> SUBSET Openers] /\ locked' \in [Entries -> SUBSET LockSet]
      /\ open'[e] = open[e] \ {"probe"}
      /\ locked'[e] = IF open[e] \subseteq {"probe"} THEN {} ELSE locked[e]
      /\ \A f \in Entries \ {e} : open'[f] = open[f] /\ locked'[f] = locked[f]
  BY <1>1, ClosedLeaves DEF ProbeSucceeds
<1>4. Typed'
  <2>1. entry[e] \in Object
    BY <1>1 DEF Typed
  <2>2. [entry[e] EXCEPT !.phase = "starting"] \in Object
    BY <2>1 DEF Object, Phases
  <2>3. entry' = [entry EXCEPT ![e] = [entry[e] EXCEPT !.phase = "starting"]]
    BY <1>1, <2>1 DEF ProbeSucceeds, Typed, Object
  <2>4. entry' \in [Entries -> Object]
    BY <1>1, <2>2, <2>3, Becomes
  <2> QED BY <1>1, <1>3, <2>4 DEF ProbeSucceeds, Typed
<1>5. Disjoint'
  BY <1>1, ClosedIsFewer DEF ProbeSucceeds
<1>6. LockFact(e)'
  BY <1>1, <1>2, <1>3 DEF LockFact, ProbeSucceeds, Children, Working, Running
<1> QED BY <1>2, <1>3, <1>4, <1>5, <1>6, OneEntry DEF Same, ProbeSucceeds

(* A probe that lingers has the locks open, like the process.              *)
LEMMA ProbeFailsStep ==
  ASSUME LockInv, NEW e \in Entries, NEW lingers \in BOOLEAN, ProbeFails(e, lingers)
  PROVE  LockInv'
<1>1. /\ Typed /\ Disjoint /\ \A f \in Entries : LockFact(f)
  BY DEF LockInv
<1>2. /\ entry'[e].phase = "releasing" /\ entry'[e].owns = entry[e].owns
      /\ \A f \in Entries \ {e} : entry'[f] = entry[f]
  BY <1>1 DEF ProbeFails, Typed
<1>3. "process" \in open[e] /\ LockFact(e)
  BY <1>1 DEF LockFact, ProbeFails, Working
<1>4. /\ open' \in [Entries -> SUBSET Openers] /\ locked' \in [Entries -> SUBSET LockSet]
      /\ open'[e] \in {open[e], open[e] \ {"probe"}}
      /\ locked'[e] = locked[e]
      /\ \A f \in Entries \ {e} : open'[f] = open[f] /\ locked'[f] = locked[f]
  <2>1. CASE lingers
    BY <1>1, <2>1 DEF ProbeFails, Typed
  <2>2. CASE ~lingers
    <3>1. Closed(e, {"probe"})
      BY <2>2 DEF ProbeFails
    <3> QED BY <1>1, <1>3, <3>1, ClosedLeaves
  <2> QED BY <2>1, <2>2
<1>5. Typed'
  <2>1. entry[e] \in Object
    BY <1>1 DEF Typed
  <2>2. [entry[e] EXCEPT !.phase = "releasing"] \in Object
    BY <2>1 DEF Object, Phases
  <2>3. entry' = [entry EXCEPT ![e] = [entry[e] EXCEPT !.phase = "releasing"]]
    BY <1>1, <2>1 DEF ProbeFails, Typed, Object
  <2>4. entry' \in [Entries -> Object]
    BY <1>1, <2>2, <2>3, Becomes
  <2> QED BY <1>1, <1>4, <2>4 DEF ProbeFails, Typed
<1>6. Disjoint'
  <2>1. \A f \in Entries : locked'[f] \subseteq locked[f]
    BY <1>4
  <2> QED BY <1>1, <2>1, FewerLocks DEF ProbeFails
<1>7. LockFact(e)'
  BY <1>2, <1>3, <1>4 DEF LockFact, ProbeFails, Children, Working, Running
<1> QED BY <1>2, <1>4, <1>5, <1>6, <1>7, OneEntry DEF Same, ProbeFails

LEMMA StartSucceedsStep ==
  ASSUME LockInv, NEW e \in Entries, StartSucceeds(e)
  PROVE  LockInv'
<1>1. /\ Typed /\ Disjoint /\ \A f \in Entries : LockFact(f)
  BY DEF LockInv
<1>2. PICK o : o = [entry[e] EXCEPT !.phase = "up", !.ready = "resolved"]
  OBVIOUS
<1>3. /\ o \in Object /\ o.phase = "up" /\ o.owns = entry[e].owns
      /\ entry' = [entry EXCEPT ![e] = o]
  <2>1. entry[e] \in Object
    BY <1>1 DEF Typed
  <2> QED BY <1>1, <1>2, <2>1 DEF StartSucceeds, Typed, Object, Phases
<1>4. /\ entry' \in [Entries -> Object] /\ entry'[e] = o
      /\ \A f \in Entries \ {e} : entry'[f] = entry[f]
  BY <1>1, <1>3, Becomes
<1>5. /\ sup' \in [Entries -> {"none", "running", "stopping", "stopped"}] /\ sup'[e] = "running"
      /\ \A f \in Entries \ {e} : sup'[f] = sup[f]
  BY <1>1 DEF StartSucceeds, Typed
<1>6. Typed'
  BY <1>1, <1>4, <1>5 DEF StartSucceeds, Typed, archive
<1>7. Disjoint'
  BY <1>1 DEF StartSucceeds, Disjoint, archive
<1>8. LockFact(e)'
  BY <1>1, <1>3, <1>4, <1>5 DEF LockFact, StartSucceeds, archive, Children, Working, Running
<1> QED BY <1>4, <1>5, <1>6, <1>7, <1>8, OneEntry DEF Same, StartSucceeds, archive

LEMMA StartFailsStep ==
  ASSUME LockInv, NEW e \in Entries, StartFails(e)
  PROVE  LockInv'
<1>1. /\ Typed /\ Disjoint /\ \A f \in Entries : LockFact(f)
  BY DEF LockInv
<1>2. PICK o : o = [entry[e] EXCEPT !.phase = "unwinding"]
  OBVIOUS
<1>3. /\ o \in Object /\ o.phase = "unwinding" /\ o.owns = entry[e].owns
      /\ entry' = [entry EXCEPT ![e] = o]
  <2>1. entry[e] \in Object
    BY <1>1 DEF Typed
  <2> QED BY <1>1, <1>2, <2>1 DEF StartFails, Typed, Object, Phases
<1>4. /\ entry' \in [Entries -> Object] /\ entry'[e] = o
      /\ \A f \in Entries \ {e} : entry'[f] = entry[f]
  BY <1>1, <1>3, Becomes
<1>5. /\ sup' \in [Entries -> {"none", "running", "stopping", "stopped"}] /\ sup'[e] = "stopping"
      /\ \A f \in Entries \ {e} : sup'[f] = sup[f]
  BY <1>1 DEF StartFails, Typed
<1>6. Typed'
  BY <1>1, <1>4, <1>5 DEF StartFails, Typed, archive
<1>7. Disjoint'
  BY <1>1 DEF StartFails, Disjoint, archive
<1>8. LockFact(e)'
  BY <1>1, <1>3, <1>4, <1>5 DEF LockFact, StartFails, archive, Children, Working, Running
<1> QED BY <1>4, <1>5, <1>6, <1>7, <1>8, OneEntry DEF Same, StartFails, archive

-----------------------------------------------------------------------------
(* Runs.                                                                   *)

LEMMA AskForSyncStep ==
  ASSUME LockInv, NEW e \in Entries, NEW a \in Accounts, AskForSync(e, a)
  PROVE  LockInv'
<1>1. /\ Typed /\ Disjoint /\ \A f \in Entries : LockFact(f)
  BY DEF LockInv
<1>2. /\ queue' \in [Entries -> Seq(Accounts)] /\ queue'[e] = Append(queue[e], a)
      /\ \A f \in Entries \ {e} : queue'[f] = queue[f]
  BY <1>1 DEF AskForSync, Typed
<1>3. queue'[e] # <<>>
  BY <1>1, <1>2 DEF Typed
<1>4. Typed'
  BY <1>1, <1>2 DEF AskForSync, Typed, archive
<1>5. Disjoint'
  BY <1>1 DEF AskForSync, Disjoint, archive
<1>6. LockFact(e)'
  BY <1>1, <1>2, <1>3 DEF LockFact, AskForSync, archive, Children, Working, Running
<1> QED BY <1>2, <1>4, <1>5, <1>6, OneEntry DEF Same, AskForSync, archive

(* A child is spawned only where nothing else runs, at the head of a FIFO  *)
(* that only an entry at work has.                                         *)
LEMMA SpawnSyncStep ==
  ASSUME LockInv, NEW e \in Entries, NEW a \in Accounts, SpawnSync(e, a)
  PROVE  LockInv'
<1>1. /\ Typed /\ Disjoint /\ \A f \in Entries : LockFact(f)
  BY DEF LockInv
<1>2. /\ open' \in [Entries -> SUBSET Openers] /\ open'[e] = open[e] \cup {a}
      /\ \A f \in Entries \ {e} : open'[f] = open[f]
  BY <1>1 DEF SpawnSync, Spawned, Typed, Openers
<1>3. (open[e] \cup {a}) \cap Accounts = {a}
  BY DEF SpawnSync, Children
<1>4. Typed'
  BY <1>1, <1>2 DEF SpawnSync, Spawned, Typed
<1>5. Disjoint'
  BY <1>1 DEF SpawnSync, Spawned, Disjoint
<1>6. LockFact(e)'
  BY <1>1, <1>2, <1>3 DEF LockFact, SpawnSync, Spawned, Children, Working, Running
<1> QED BY <1>2, <1>4, <1>5, <1>6, OneEntry DEF Same, SpawnSync, Spawned

LEMMA SpawnFailsStep ==
  ASSUME LockInv, NEW e \in Entries, SpawnFails(e)
  PROVE  LockInv'
<1>1. /\ Typed /\ Disjoint /\ \A f \in Entries : LockFact(f)
  BY DEF LockInv
<1>2. /\ queue' \in [Entries -> Seq(Accounts)]
      /\ \A f \in Entries \ {e} : queue'[f] = queue[f]
  BY <1>1 DEF SpawnFails, Typed
<1>3. Typed'
  BY <1>1, <1>2 DEF SpawnFails, Typed, archive
<1>4. Disjoint'
  BY <1>1 DEF SpawnFails, Disjoint, archive
<1>5. LockFact(e)'
  BY <1>1, <1>2 DEF LockFact, SpawnFails, archive, Children, Working, Running
<1> QED BY <1>2, <1>3, <1>4, <1>5, OneEntry DEF Same, SpawnFails, archive

(* The last of the openers takes the locks with it, also an orphan.        *)
LEMMA SyncEndsStep ==
  ASSUME LockInv, NEW e \in Entries, NEW a \in Accounts, SyncEnds(e, a)
  PROVE  LockInv'
<1>1. /\ Typed /\ Disjoint /\ \A f \in Entries : LockFact(f)
  BY DEF LockInv
<1>2. /\ open' \in [Entries -> SUBSET Openers] /\ locked' \in [Entries -> SUBSET LockSet]
      /\ open'[e] = open[e] \ {a}
      /\ locked'[e] = IF open[e] \subseteq {a} THEN {} ELSE locked[e]
      /\ \A f \in Entries \ {e} : open'[f] = open[f] /\ locked'[f] = locked[f]
  BY <1>1, ClosedLeaves DEF SyncEnds
<1>3. /\ queue' \in [Entries -> Seq(Accounts)] /\ queue'[e] # <<>> => queue[e] # <<>>
      /\ \A f \in Entries \ {e} : queue'[f] = queue[f]
  BY <1>1 DEF SyncEnds, Typed
<1>4. (open[e] \ {a}) \cap Accounts = {} /\ a # "process"
  BY <1>1, AccountsAreNoPrograms DEF SyncEnds, LockFact, Children
<1>5. Typed'
  BY <1>1, <1>2, <1>3 DEF SyncEnds, Typed
<1>6. Disjoint'
  BY <1>1, ClosedIsFewer DEF SyncEnds
<1>7. LockFact(e)'
  BY <1>1, <1>2, <1>3, <1>4 DEF LockFact, SyncEnds, Children, Working, Running
<1> QED BY <1>2, <1>3, <1>5, <1>6, <1>7, OneEntry DEF Same, SyncEnds

-----------------------------------------------------------------------------
(* Shutdown.                                                               *)

(* With the FIFO drained no child is left.                                 *)
LEMMA StoppedStep ==
  ASSUME LockInv, NEW e \in Entries, Stopped(e)
  PROVE  LockInv'
<1>1. /\ Typed /\ Disjoint /\ \A f \in Entries : LockFact(f)
  BY DEF LockInv
<1>2. PICK o : o = [entry[e] EXCEPT !.phase = "releasing"]
  OBVIOUS
<1>3. /\ o \in Object /\ o.phase = "releasing" /\ o.owns = entry[e].owns
      /\ entry' = [entry EXCEPT ![e] = o]
  <2>1. entry[e] \in Object
    BY <1>1 DEF Typed
  <2> QED BY <1>1, <1>2, <2>1 DEF Stopped, Typed, Object, Phases
<1>4. /\ entry' \in [Entries -> Object] /\ entry'[e] = o
      /\ \A f \in Entries \ {e} : entry'[f] = entry[f]
  BY <1>1, <1>3, Becomes
<1>5. /\ sup' \in [Entries -> {"none", "running", "stopping", "stopped"}] /\ sup'[e] = "stopped"
      /\ \A f \in Entries \ {e} : sup'[f] = sup[f]
  BY <1>1 DEF Stopped, Typed
<1>6. Typed'
  BY <1>1, <1>4, <1>5 DEF Stopped, Typed, archive
<1>7. Disjoint'
  BY <1>1 DEF Stopped, Disjoint, archive
<1>8. LockFact(e)'
  BY <1>1, <1>3, <1>4, <1>5 DEF LockFact, Stopped, archive, Children, Working, Running
<1> QED BY <1>4, <1>5, <1>6, <1>7, <1>8, OneEntry DEF Same, Stopped, archive

LEMMA ReleaseStep ==
  ASSUME LockInv, NEW e \in Entries, NEW failed \in BOOLEAN, Release(e, failed)
  PROVE  LockInv'
<1>1. /\ Typed /\ Disjoint /\ \A f \in Entries : LockFact(f)
  BY DEF LockInv
<1>2. entry[e] \in Object /\ entry[e].phase = "releasing" /\ LockFact(e)
  BY <1>1 DEF Typed, Release
<1>3. PICK o : o = Ended(entry[e], failed)
  OBVIOUS
<1>4. o \in Object /\ o.phase = "down"
  <2>1. o = [host |-> entry[e].host, config |-> entry[e].config, phase |-> "down",
             refs |-> entry[e].refs, owns |-> failed,
             ready |-> IF entry[e].ready = "pending" THEN "rejected" ELSE entry[e].ready,
             closing |-> CASE entry[e].closing = "no" -> "no" [] failed -> "rejected"
                           [] OTHER -> "resolved"]
    BY <1>2, <1>3 DEF Ended, Object
  <2> QED BY <1>2, <2>1 DEF Object, Phases
<1>5. /\ entry' \in [Entries -> Object] /\ entry'[e] = o
      /\ \A f \in Entries \ {e} : entry'[f] = entry[f]
  <2>1. entry' = [entry EXCEPT ![e] = o]
    BY <1>3 DEF Release
  <2> QED BY <1>1, <1>4, <2>1, Becomes
<1>6. /\ open' \in [Entries -> SUBSET Openers] /\ locked' \in [Entries -> SUBSET LockSet]
      /\ open'[e] = open[e] \ {"process", "holder"}
      /\ locked'[e] = IF open[e] \subseteq {"process", "holder"} THEN {} ELSE locked[e]
      /\ \A f \in Entries \ {e} : open'[f] = open[f] /\ locked'[f] = locked[f]
  BY <1>1, ClosedLeaves DEF Release
<1>7. registry' \in [Processes -> Entries \cup {None}]
  BY <1>1 DEF Release, Typed
<1>8. Typed'
  BY <1>1, <1>5, <1>6, <1>7 DEF Release, Typed
<1>9. Disjoint'
  BY <1>1, ClosedIsFewer DEF Release
<1>10. LockFact(e)'
  BY <1>2, <1>4, <1>5, <1>6 DEF LockFact, Release, Children, Working, Running
<1> QED BY <1>5, <1>6, <1>8, <1>9, <1>10, OneEntry DEF Same, Release

(* A probe that lingered, or the holder of a dead process, is gone.        *)
LEMMA OpenerGone ==
  ASSUME LockInv, NEW e \in Entries, ProbeDies(e) \/ HolderExits(e)
  PROVE  LockInv'
<1>1. /\ Typed /\ Disjoint /\ \A f \in Entries : LockFact(f)
  BY DEF LockInv
<1>2. PICK x \in {"probe", "holder"} :
        Closed(e, {x}) /\ UNCHANGED <<registry, entry, sup, queue, daemon, caller>>
  BY DEF ProbeDies, HolderExits
<1>3. /\ open' \in [Entries -> SUBSET Openers] /\ locked' \in [Entries -> SUBSET LockSet]
      /\ open'[e] = open[e] \ {x} /\ locked'[e] = IF open[e] \subseteq {x} THEN {} ELSE locked[e]
      /\ \A f \in Entries \ {e} : open'[f] = open[f] /\ locked'[f] = locked[f]
  BY <1>1, <1>2, ClosedLeaves
<1>4. Typed'
  BY <1>1, <1>2, <1>3 DEF Typed
<1>5. Disjoint'
  BY <1>1, <1>2, ClosedIsFewer
<1>6. x \notin Accounts
  BY AccountsAreNoPrograms
<1>7. LockFact(e)'
  BY <1>1, <1>2, <1>3, <1>6 DEF LockFact, Children, Working, Running
<1> QED BY <1>2, <1>3, <1>4, <1>5, <1>7, OneEntry DEF Same

-----------------------------------------------------------------------------
(* Callers.                                                                *)

(* A step of a caller that touches no entry.                               *)
LEMMA CallersOnly ==
  ASSUME LockInv, Typed', UNCHANGED <<entry, sup, queue, locked, open, daemon>>
  PROVE  LockInv'
<1>1. \A e \in Entries : LockFact(e) /\ Same(e)
  BY DEF LockInv, Same
<1>2. Disjoint'
  BY DEF LockInv, Disjoint
<1> QED BY <1>1, <1>2, SameKeeps DEF LockInv

LEMMA WaitingStep ==
  ASSUME LockInv, NEW c \in Callers,
         \/ JoinEntry(c) \/ EntryClosed(c) \/ EntryFailed(c)
         \/ \E config \in Wanted[c] : Acquire(c, config)
  PROVE  LockInv'
<1>1. Typed /\ Host[c] \in Processes /\ Wanted[c] \subseteq Configs
  BY CallersHaveHosts, WantedIsTyped DEF LockInv
<1>2. caller[c] \in Caller /\ registry[Host[c]] \in Entries \cup {None} /\ Idle \in Caller
  BY <1>1 DEF Typed, Idle, Caller
<1>3. UNCHANGED <<entry, sup, queue, locked, open, daemon>>
  BY DEF JoinEntry, EntryClosed, EntryFailed, Acquire, archive
<1>4. CASE JoinEntry(c)
  <2>1. PICK who \in Caller : caller' = [caller EXCEPT ![c] = who]
    BY <1>2, <1>4 DEF JoinEntry, Caller
  <2>2. Typed'
    BY <1>1, <1>3, <1>4, <2>1 DEF JoinEntry, Typed
  <2> QED BY <1>3, <2>2, CallersOnly
<1>5. CASE EntryClosed(c)
  <2>1. PICK who \in Caller : caller' = [caller EXCEPT ![c] = who]
    BY <1>2, <1>5 DEF EntryClosed, Caller
  <2>2. Typed'
    BY <1>1, <1>3, <1>5, <2>1 DEF EntryClosed, Typed
  <2> QED BY <1>3, <2>2, CallersOnly
<1>6. CASE EntryFailed(c)
  <2>1. caller' \in [Callers -> Caller] /\ registry' \in [Processes -> Entries \cup {None}]
    BY <1>1, <1>2, <1>6 DEF EntryFailed, Typed
  <2>2. Typed'
    BY <1>1, <1>3, <2>1 DEF Typed
  <2> QED BY <1>3, <2>2, CallersOnly
<1>7. ASSUME NEW config \in Wanted[c], Acquire(c, config) PROVE LockInv'
  <2>1. [phase |-> "looking", config |-> config, entry |-> None] \in Caller
    BY <1>1 DEF Caller
  <2>2. Typed'
    BY <1>1, <1>3, <1>7, <2>1 DEF Acquire, Typed
  <2> QED BY <1>3, <2>2, CallersOnly
<1> QED BY <1>4, <1>5, <1>6, <1>7

(* A new entry has its descriptors open and no lock yet.                   *)
LEMMA CreateEntryStep ==
  ASSUME LockInv, NEW c \in Callers, NEW e \in Entries, CreateEntry(c, e)
  PROVE  LockInv'
<1>1. /\ Typed /\ Disjoint /\ (\A f \in Entries : LockFact(f)) /\ Host[c] \in Processes
  BY CallersHaveHosts DEF LockInv
<1>2. PICK o : o = [NoEntry EXCEPT !.host = Host[c], !.config = caller[c].config,
                                   !.phase = "locking"]
  OBVIOUS
<1>3. caller[c] \in Caller
  BY <1>1 DEF Typed
<1>4. o \in Object /\ o.phase = "locking" /\ ~o.owns
  <2>1. o = [host |-> Host[c], config |-> caller[c].config, phase |-> "locking", refs |-> 0,
             owns |-> FALSE, ready |-> "pending", closing |-> "no"]
    BY <1>2 DEF NoEntry
  <2> QED BY <1>1, <1>3, <2>1 DEF Object, Phases, Caller
<1>5. /\ entry' \in [Entries -> Object] /\ entry'[e] = o
      /\ \A f \in Entries \ {e} : entry'[f] = entry[f]
  <2>1. entry' = [entry EXCEPT ![e] = o]
    BY <1>2 DEF CreateEntry
  <2> QED BY <1>1, <1>4, <2>1, Becomes
<1>6. /\ open'[e] = {"process", "holder"} /\ queue'[e] = <<>> /\ sup'[e] = "none"
      /\ \A f \in Entries \ {e} : open'[f] = open[f] /\ queue'[f] = queue[f] /\ sup'[f] = sup[f]
      /\ open' \in [Entries -> SUBSET Openers] /\ queue' \in [Entries -> Seq(Accounts)]
      /\ sup' \in [Entries -> {"none", "running", "stopping", "stopped"}]
  BY <1>1 DEF CreateEntry, Typed, Openers
<1>7. registry' \in [Processes -> Entries \cup {None}] /\ caller' \in [Callers -> Caller]
  BY <1>1, <1>3 DEF CreateEntry, Typed, Caller
<1>8. Typed'
  BY <1>1, <1>5, <1>6, <1>7 DEF CreateEntry, Typed
<1>9. Disjoint'
  BY <1>1 DEF CreateEntry, Disjoint
<1>10. LockFact(e)'
  <2>1. {"process", "holder"} \cap Accounts = {}
    BY AccountsAreNoPrograms
  <2> QED BY <1>4, <1>5, <1>6, <2>1 DEF LockFact, CreateEntry, Children, Working, Running
<1> QED BY <1>5, <1>6, <1>8, <1>9, <1>10, OneEntry DEF Same, CreateEntry

LEMMA TakeLeaseStep ==
  ASSUME LockInv, NEW c \in Callers, caller[c].entry \in Entries, TakeLease(c)
  PROVE  LockInv'
<1>1. /\ Typed /\ Disjoint /\ \A f \in Entries : LockFact(f)
  BY DEF LockInv
<1>2. PICK e \in Entries : e = caller[c].entry
  OBVIOUS
<1>3. caller' \in [Callers -> Caller]
  <2>1. caller[c] \in Caller
    BY <1>1 DEF Typed
  <2>2. PICK who \in Caller : caller' = [caller EXCEPT ![c] = who]
    <3>1. CASE caller' = [caller EXCEPT ![c].phase = "held"]
      BY <2>1, <3>1 DEF Caller
    <3>2. CASE caller' = [caller EXCEPT ![c].phase = "awaitsClosing"]
      BY <2>1, <3>2 DEF Caller
    <3> QED BY <3>1, <3>2 DEF TakeLease
  <2> QED BY <1>1, <2>2 DEF Typed
<1>4. entry[e] \in Object
  BY <1>1 DEF Typed
<1>5. /\ entry' \in [Entries -> Object]
      /\ \A f \in Entries : entry'[f].phase = entry[f].phase /\ entry'[f].owns = entry[f].owns
  <2>1. CASE entry' = entry
    BY <1>1, <2>1 DEF Typed
  <2>2. CASE entry' # entry
    <3>1. PICK o : o = [entry[e] EXCEPT !.refs = @ + 1]
      OBVIOUS
    <3>2. o \in Object /\ o.phase = entry[e].phase /\ o.owns = entry[e].owns
      BY <1>4, <3>1 DEF Object
    <3>3. entry' = [entry EXCEPT ![e] = o]
      BY <1>1, <1>2, <1>4, <2>2, <3>1 DEF TakeLease, Typed, Object
    <3> QED BY <1>1, <3>2, <3>3, Becomes
  <2> QED BY <2>1, <2>2
<1>6. Typed'
  BY <1>1, <1>3, <1>5 DEF TakeLease, Typed, archive
<1>7. \A f \in Entries : Same(f)
  BY <1>5 DEF TakeLease, Same, archive
<1>8. Disjoint'
  BY <1>1 DEF TakeLease, Disjoint, archive
<1> QED BY <1>1, <1>6, <1>7, <1>8, SameKeeps DEF LockInv

(* The last lease closes an entry that is up.                              *)
LEMMA ReleaseLeaseStep ==
  ASSUME LockInv, NEW c \in Callers, NEW e \in Entries, e = caller[c].entry,
         entry[e].phase = "up", ReleaseLease(c)
  PROVE  LockInv'
<1>1. /\ Typed /\ Disjoint /\ (\A f \in Entries : LockFact(f)) /\ entry[e] \in Object
  BY DEF LockInv, Typed
<1>2. caller' \in [Callers -> Caller]
  BY <1>1 DEF ReleaseLease, Typed, Caller, Idle
<1>3. CASE entry[e].refs = 1
  <2>1. PICK o : o = [entry[e] EXCEPT !.refs = 0, !.closing = "pending", !.phase = "closing"]
    OBVIOUS
  <2>2. /\ o \in Object /\ o.phase = "closing" /\ o.owns = entry[e].owns
        /\ entry' = [entry EXCEPT ![e] = o]
    <3>1. o \in Object /\ o.phase = "closing" /\ o.owns = entry[e].owns
      <4>1. o = [host |-> entry[e].host, config |-> entry[e].config, phase |-> "closing", refs |-> 0,
                 owns |-> entry[e].owns, ready |-> entry[e].ready, closing |-> "pending"]
        BY <1>1, <2>1 DEF Object
      <4> QED BY <1>1, <4>1 DEF Object, Phases
    <3>2. entry' = [entry EXCEPT ![e].refs = 0, ![e].closing = "pending", ![e].phase = "closing"]
      BY <1>3 DEF ReleaseLease
    <3> QED BY <1>1, <2>1, <3>1, <3>2 DEF Typed, Object
  <2>3. /\ entry' \in [Entries -> Object] /\ entry'[e] = o
        /\ \A f \in Entries \ {e} : entry'[f] = entry[f]
    BY <1>1, <2>2, Becomes
  <2>4. /\ sup' \in [Entries -> {"none", "running", "stopping", "stopped"}] /\ sup'[e] = "stopping"
        /\ \A f \in Entries \ {e} : sup'[f] = sup[f]
    BY <1>1, <1>3 DEF ReleaseLease, Typed
  <2>5. Typed'
    BY <1>1, <1>2, <2>3, <2>4 DEF ReleaseLease, Typed, archive
  <2>6. Disjoint'
    BY <1>1 DEF ReleaseLease, Disjoint, archive
  <2>7. LockFact(e)'
    <3>1. LockFact(e) /\ entry[e].phase = "up"
      BY <1>1
    <3>2. entry'[e].phase = "closing" /\ sup'[e] = "stopping" /\ UNCHANGED <<open, locked, queue>>
      BY <2>2, <2>3, <2>4 DEF ReleaseLease, archive
    <3>3. Children(e)' = Children(e) /\ entry'[e].owns = entry[e].owns
      BY <2>2, <2>3, <3>2 DEF Children
    <3>4. /\ "process" \in open[e] /\ locked[e] = LockSet /\ entry[e].owns
          /\ open[e] # {}
          /\ Children(e) # {} => queue[e] # <<>>
          /\ \A a, b \in Children(e) : a = b
      BY <3>1, Zenon DEF LockFact, Working, Running
    <3> QED BY <3>2, <3>3, <3>4 DEF LockFact, Working, Running
  <2> QED BY <2>3, <2>4, <2>5, <2>6, <2>7, OneEntry DEF Same, ReleaseLease, archive
<1>4. CASE entry[e].refs # 1
  <2>1. PICK o : o = [entry[e] EXCEPT !.refs = @ - 1]
    OBVIOUS
  <2>2. /\ o \in Object /\ o.phase = entry[e].phase /\ o.owns = entry[e].owns
        /\ entry' = [entry EXCEPT ![e] = o] /\ sup' = sup
    <3>1. o \in Object /\ o.phase = entry[e].phase /\ o.owns = entry[e].owns
      BY <1>1, <2>1 DEF Object
    <3>2. entry' = [entry EXCEPT ![e].refs = @ - 1] /\ sup' = sup
      BY <1>4 DEF ReleaseLease
    <3> QED BY <1>1, <2>1, <3>1, <3>2 DEF Typed, Object
  <2>3. /\ entry' \in [Entries -> Object] /\ entry'[e] = o
        /\ \A f \in Entries \ {e} : entry'[f] = entry[f]
    BY <1>1, <2>2, Becomes
  <2>4. Typed'
    BY <1>1, <1>2, <2>2, <2>3 DEF ReleaseLease, Typed, archive
  <2>5. \A f \in Entries : Same(f)
    BY <2>2, <2>3 DEF ReleaseLease, Same, archive
  <2>6. Disjoint'
    BY <1>1 DEF ReleaseLease, Disjoint, archive
  <2> QED BY <1>1, <2>4, <2>5, <2>6, SameKeeps DEF LockInv
<1> QED BY <1>3, <1>4

-----------------------------------------------------------------------------
(* Crashes and other programs.                                             *)

(* The children of a process that dies keep its locks.                     *)
LEMMA CrashStep ==
  ASSUME LockInv, NEW p \in Processes, Crash(p)
  PROVE  LockInv'
<1> DEFINE mine == {e \in Entries : entry[e].host = p}
<1>1. /\ Typed /\ Disjoint /\ \A f \in Entries : LockFact(f)
  BY DEF LockInv
<1>2. PICK crashed : crashed = [NoEntry EXCEPT !.phase = "crashed"]
  OBVIOUS
<1>3. /\ entry' = [e \in Entries |-> IF e \in mine THEN crashed ELSE entry[e]]
      /\ sup' = [e \in Entries |-> IF e \in mine THEN "none" ELSE sup[e]]
      /\ queue' = [e \in Entries |-> IF e \in mine THEN <<>> ELSE queue[e]]
      /\ open' = [e \in Entries |-> IF e \in mine THEN open[e] \ {"process"} ELSE open[e]]
      /\ locked' = [e \in Entries |-> IF open'[e] = {} THEN {} ELSE locked[e]]
      /\ registry' = [registry EXCEPT ![p] = None]
      /\ caller' = [c \in Callers |-> IF Host[c] = p THEN Idle ELSE caller[c]]
      /\ daemon' = daemon
  BY <1>2 DEF Crash
<1> HIDE DEF mine
<1>4. crashed \in Object /\ crashed.phase = "crashed" /\ ~crashed.owns
  <2>1. crashed = [host |-> None, config |-> None, phase |-> "crashed", refs |-> 0, owns |-> FALSE,
                   ready |-> "pending", closing |-> "no"]
    BY <1>2 DEF NoEntry
  <2> QED BY <2>1 DEF Object, Phases
<1>5. Typed'
  <2>1. entry' \in [Entries -> Object]
    BY <1>1, <1>3, <1>4 DEF Typed
  <2>2. sup' \in [Entries -> {"none", "running", "stopping", "stopped"}]
    BY <1>1, <1>3 DEF Typed
  <2>3. queue' \in [Entries -> Seq(Accounts)]
    BY <1>1, <1>3 DEF Typed
  <2>4. open' \in [Entries -> SUBSET Openers] /\ locked' \in [Entries -> SUBSET LockSet]
    BY <1>1, <1>3 DEF Typed
  <2>5. registry' \in [Processes -> Entries \cup {None}] /\ caller' \in [Callers -> Caller]
    BY <1>1, <1>3 DEF Typed, Idle, Caller
  <2> QED BY <1>1, <1>3, <2>1, <2>2, <2>3, <2>4, <2>5 DEF Typed
<1>6. Disjoint'
  <2>1. \A e \in Entries : locked'[e] \subseteq locked[e]
    BY <1>3
  <2> QED BY <1>1, <1>3, <2>1, FewerLocks
<1>7. ASSUME NEW e \in Entries PROVE LockFact(e)'
  <2>1. CASE e \in mine
    <3>1. /\ entry'[e].phase = "crashed" /\ ~entry'[e].owns /\ sup'[e] = "none" /\ queue'[e] = <<>>
          /\ open'[e] = open[e] \ {"process"}
          /\ locked'[e] = IF open'[e] = {} THEN {} ELSE locked[e]
      BY <1>3, <1>4, <2>1
    <3>2. open'[e] \cap Accounts = open[e] \cap Accounts
      BY <3>1, AccountsAreNoPrograms
    <3> QED BY <1>1, <3>1, <3>2 DEF LockFact, Children, Working, Running
  <2>2. CASE e \notin mine
    <3>1. Same(e)
      BY <1>1, <1>3, <2>2 DEF Same, LockFact
    <3> QED BY <1>1, <3>1, SameKeeps
  <2> QED BY <2>1, <2>2
<1> QED BY <1>5, <1>6, <1>7 DEF LockInv

(* Another msgvault starts only where both of its locks are free.          *)
LEMMA DaemonStep ==
  ASSUME LockInv, DaemonStarts \/ DaemonStops
  PROVE  LockInv'
<1>1. /\ Typed /\ Disjoint /\ (\A f \in Entries : LockFact(f)) /\ daemon' \in BOOLEAN
      /\ UNCHANGED <<registry, entry, sup, queue, locked, open, caller>>
  BY DEF LockInv, DaemonStarts, DaemonStops
<1>2. Typed'
  BY <1>1 DEF Typed
<1>3. daemon' => \A e \in Entries : locked[e] \cap MsgvaultLocks = {}
  BY <1>1 DEF DaemonStarts, DaemonStops, Owned, Holds, LockFact
<1>4. Disjoint'
  BY <1>1, <1>3 DEF Disjoint
<1>5. \A e \in Entries : Same(e)
  BY <1>1 DEF Same
<1> QED BY <1>1, <1>2, <1>4, <1>5, SameKeeps DEF LockInv

-----------------------------------------------------------------------------
(* What the locks are for.                                                 *)

LEMMA WritersHold ==
  ASSUME LockInv
  PROVE  WritersHoldTheLocks
BY DEF LockInv, LockFact, WritersHoldTheLocks, Writing, Children

LEMMA OneWrites ==
  ASSUME LockInv
  PROVE  OneWriter
<1>1. "db.write.lock" \in LockSet \cap MsgvaultLocks
  <2>1. 4 \in DOMAIN Locks /\ Locks[4] = "db.write.lock"
    BY DEF Locks
  <2> QED BY <2>1 DEF LockSet, MsgvaultLocks
<1>2. ASSUME NEW v \in Writing PROVE locked[v[1]] = LockSet /\ ~daemon
  BY <1>1, <1>2 DEF LockInv, Disjoint, LockFact, Writing, Children
<1>3. ASSUME NEW v \in Writing, NEW w \in Writing PROVE v = w
  <2>1. v[1] \in Entries /\ w[1] \in Entries /\ v[2] \in Accounts /\ w[2] \in Accounts
        /\ v = <<v[1], v[2]>> /\ w = <<w[1], w[2]>>
    BY DEF Writing
  <2>2. v[1] = w[1]
    BY <1>1, <1>2, <2>1 DEF LockInv, Disjoint
  <2>3. v[2] \in Children(v[1]) /\ w[2] \in Children(v[1])
    BY <2>1, <2>2 DEF Writing, Children
  <2>4. v[2] = w[2]
    BY <2>1, <2>3 DEF LockInv, LockFact
  <2> QED BY <2>1, <2>2, <2>4
<1>4. CASE Writing = {}
  BY <1>4, FS_EmptySet DEF OneWriter
<1>5. CASE Writing # {}
  <2>1. PICK v : Writing = {v}
    BY <1>3, <1>5
  <2>2. Cardinality(Writing) = 1
    BY <2>1, FS_Singleton
  <2> QED BY <1>2, <2>1, <2>2 DEF OneWriter
<1> QED BY <1>4, <1>5

-----------------------------------------------------------------------------
(* Leases of the archive are live and counted.  An entry that serves is    *)
(* registered for its process and somebody holds or awaits it, its promise *)
(* says what it has come to, and its count is that of its holders: so only *)
(* the last of them closes it.                                             *)

Serving == {"locking", "probing", "starting", "up"}
Users(e, phases) == {c \in Callers : caller[c].phase \in phases /\ caller[c].entry = e}

(* The promises of an entry say what has become of it.                     *)
PromiseFact(o) ==
  /\ o.phase \in Serving => o.closing = "no"
  /\ o.phase \in Serving \ {"up"} => o.ready = "pending"
  /\ o.phase = "up" => o.ready = "resolved"
  /\ o.ready = "resolved" /\ o.closing = "no" => o.phase = "up"
  /\ o.ready = "rejected" => o.phase = "down"

EntryFact(e) ==
  /\ PromiseFact(entry[e])
  /\ entry[e].phase \in Serving => /\ entry[e].host \in Processes
                                   /\ registry[entry[e].host] = e
                                   /\ Users(e, {"held", "awaitsReady"}) # {}
  /\ entry[e].refs = Cardinality(Users(e, {"held"}))

CallerFact(c) ==
  /\ caller[c].phase \in {"idle", "looking"} <=> caller[c].entry = None
  /\ caller[c].entry # None => entry[caller[c].entry].host = Host[c]
  /\ caller[c].phase \in {"awaitsReady", "held"}
       => entry[caller[c].entry].config = caller[c].config
  /\ caller[c].phase = "held" => entry[caller[c].entry].phase = "up"

RegistryFact == \A p \in Processes : registry[p] # None => entry[registry[p]].host = p

LeaseInv ==
  /\ \A e \in Entries : EntryFact(e)
  /\ \A c \in Callers : CallerFact(c)
  /\ RegistryFact

LEMMA UsersAreFinite ==
  ASSUME NEW e, NEW phases
  PROVE  IsFiniteSet(Users(e, phases)) /\ Cardinality(Users(e, phases)) \in Nat
<1>1. Users(e, phases) \in SUBSET Callers
  BY DEF Users
<1> QED BY <1>1, CallersAreFinite, FS_Subset, FS_CardinalityType

(* What the leases of an entry depend on does not change.                  *)
LEMMA EntryKept ==
  ASSUME NEW f \in Entries, EntryFact(f), entry'[f] = entry[f],
         Users(f, {"held"})' = Users(f, {"held"}),
         entry[f].phase \in Serving =>
           /\ Users(f, {"held", "awaitsReady"})' # {}
           /\ registry'[entry[f].host] = f
  PROVE  EntryFact(f)'
BY DEF EntryFact, PromiseFact

(* Callers stay where they are: they use what they used.                   *)
LEMMA UsersKept ==
  ASSUME UNCHANGED caller, NEW f
  PROVE  /\ Users(f, {"held"})' = Users(f, {"held"})
         /\ Users(f, {"held", "awaitsReady"})' = Users(f, {"held", "awaitsReady"})
BY DEF Users

LEMMA NothingLeased ==
  ASSUME LeaseInv, UNCHANGED <<registry, entry, caller>>
  PROVE  LeaseInv'
<1>1. ASSUME NEW f \in Entries PROVE EntryFact(f)'
  BY UsersKept, EntryKept DEF LeaseInv, EntryFact
<1>2. \A c \in Callers : CallerFact(c)'
  BY DEF LeaseInv, CallerFact
<1> QED BY <1>1, <1>2 DEF LeaseInv, RegistryFact

(* One entry moves on, as its promises say, and nobody's lease ends.       *)
LEMMA Progressed ==
  ASSUME LockInv, LeaseInv, NEW e \in Entries, NEW o, entry' = [entry EXCEPT ![e] = o],
         UNCHANGED <<registry, caller>>,
         o.host = entry[e].host, o.config = entry[e].config, o.refs = entry[e].refs,
         PromiseFact(o), o.phase \in Serving => entry[e].phase \in Serving,
         entry[e].phase # "up"
  PROVE  LeaseInv'
<1>1. /\ entry'[e] = o /\ \A f \in Entries \ {e} : entry'[f] = entry[f]
  BY DEF LockInv, Typed
<1>2. ASSUME NEW f \in Entries \ {e} PROVE EntryFact(f)'
  BY <1>1, UsersKept, EntryKept DEF LeaseInv, EntryFact
<1>3. EntryFact(e)'
  <2>1. EntryFact(e) /\ PromiseFact(entry[e])'
    BY <1>1 DEF LeaseInv, PromiseFact
  <2> QED BY <1>1, <2>1, UsersKept DEF EntryFact
<1>4. ASSUME NEW c \in Callers PROVE CallerFact(c)'
  <2>1. CallerFact(c) /\ caller[c] \in Caller
    BY DEF LeaseInv, LockInv, Typed
  <2>2. caller[c].entry # None => caller[c].entry \in Entries
    BY <2>1 DEF Caller
  <2> QED BY <1>1, <2>1, <2>2 DEF CallerFact
<1>5. RegistryFact'
  <2>1. registry \in [Processes -> Entries \cup {None}]
    BY DEF LockInv, Typed
  <2> QED BY <1>1, <2>1 DEF LeaseInv, RegistryFact
<1> QED BY <1>2, <1>3, <1>4, <1>5 DEF LeaseInv

(* The steps of an entry but its end.                                      *)
LEMMA EntryProgress ==
  ASSUME LockInv, LeaseInv, NEW e \in Entries,
         \/ Acquired(e) \/ CannotAcquire(e) \/ ProbeSucceeds(e)
         \/ \E lingers \in BOOLEAN : ProbeFails(e, lingers)
         \/ StartSucceeds(e) \/ StartFails(e) \/ Stopped(e)
  PROVE  LeaseInv'
<1>1. entry \in [Entries -> Object] /\ entry[e] \in Object /\ PromiseFact(entry[e]) /\ LockFact(e)
  BY DEF LockInv, Typed, LeaseInv, EntryFact
<1>2. UNCHANGED <<registry, caller>>
  BY DEF Acquired, CannotAcquire, ProbeSucceeds, ProbeFails, StartSucceeds, StartFails, Stopped
<1>3. CASE Acquired(e)
  <2>1. PICK o : o = [entry[e] EXCEPT !.phase = "probing", !.owns = TRUE]
    OBVIOUS
  <2>2. entry' = [entry EXCEPT ![e] = o]
    BY <1>1, <1>3, <2>1 DEF Acquired, Object
  <2>3. /\ o.phase = "probing" /\ o.ready = entry[e].ready /\ o.closing = entry[e].closing
        /\ o.host = entry[e].host /\ o.config = entry[e].config /\ o.refs = entry[e].refs
        /\ entry[e].phase = "locking"
    BY <1>1, <1>3, <2>1 DEF Acquired, Object
  <2>4. PromiseFact(o) /\ entry[e].phase \in Serving /\ entry[e].phase # "up"
    BY <1>1, <2>3 DEF PromiseFact, Serving
  <2> QED BY <1>2, <2>2, <2>3, <2>4, Progressed
<1>4. CASE CannotAcquire(e)
  <2>1. PICK o : o = [entry[e] EXCEPT !.phase = "down", !.ready = "rejected"]
    OBVIOUS
  <2>2. entry' = [entry EXCEPT ![e] = o]
    BY <1>1, <1>4, <2>1 DEF CannotAcquire, Object
  <2> QED BY <1>1, <1>2, <1>4, <2>1, <2>2, Progressed DEF CannotAcquire, PromiseFact, Object, Serving
<1>5. CASE ProbeSucceeds(e)
  <2>1. PICK o : o = [entry[e] EXCEPT !.phase = "starting"]
    OBVIOUS
  <2>2. entry' = [entry EXCEPT ![e] = o]
    BY <1>1, <1>5, <2>1 DEF ProbeSucceeds, Object
  <2>3. /\ o.phase = "starting" /\ o.ready = entry[e].ready /\ o.closing = entry[e].closing
        /\ o.host = entry[e].host /\ o.config = entry[e].config /\ o.refs = entry[e].refs
        /\ entry[e].phase = "probing"
    BY <1>1, <1>5, <2>1 DEF ProbeSucceeds, Object
  <2>4. PromiseFact(o) /\ entry[e].phase \in Serving /\ entry[e].phase # "up"
    BY <1>1, <2>3 DEF PromiseFact, Serving
  <2> QED BY <1>2, <2>2, <2>3, <2>4, Progressed
<1>6. ASSUME NEW lingers \in BOOLEAN, ProbeFails(e, lingers) PROVE LeaseInv'
  <2>1. PICK o : o = [entry[e] EXCEPT !.phase = "releasing"]
    OBVIOUS
  <2>2. entry' = [entry EXCEPT ![e] = o] /\ entry[e].phase = "probing"
    BY <1>1, <1>6, <2>1 DEF ProbeFails, Object
  <2> QED BY <1>1, <1>2, <2>1, <2>2, Progressed DEF PromiseFact, Object, Serving
<1>7. CASE StartSucceeds(e)
  <2>1. PICK o : o = [entry[e] EXCEPT !.phase = "up", !.ready = "resolved"]
    OBVIOUS
  <2>2. entry' = [entry EXCEPT ![e] = o]
    BY <1>1, <1>7, <2>1 DEF StartSucceeds, Object
  <2> QED BY <1>1, <1>2, <1>7, <2>1, <2>2, Progressed DEF StartSucceeds, PromiseFact, Object, Serving
<1>8. CASE StartFails(e)
  <2>1. PICK o : o = [entry[e] EXCEPT !.phase = "unwinding"]
    OBVIOUS
  <2>2. entry' = [entry EXCEPT ![e] = o]
    BY <1>1, <1>8, <2>1 DEF StartFails, Object
  <2>3. /\ o.phase = "unwinding" /\ o.ready = entry[e].ready /\ o.closing = entry[e].closing
        /\ o.host = entry[e].host /\ o.config = entry[e].config /\ o.refs = entry[e].refs
        /\ entry[e].phase = "starting"
    BY <1>1, <1>8, <2>1 DEF StartFails, Object
  <2>4. PromiseFact(o) /\ entry[e].phase \in Serving /\ entry[e].phase # "up"
    BY <1>1, <2>3 DEF PromiseFact, Serving
  <2> QED BY <1>2, <2>2, <2>3, <2>4, Progressed
<1>9. CASE Stopped(e)
  <2>1. PICK o : o = [entry[e] EXCEPT !.phase = "releasing"]
    OBVIOUS
  <2>2. entry' = [entry EXCEPT ![e] = o] /\ entry[e].phase \in {"unwinding", "closing"}
    BY <1>1, <1>9, <2>1 DEF Stopped, Object, LockFact
  <2> QED BY <1>1, <1>2, <2>1, <2>2, Progressed DEF PromiseFact, Object, Serving
<1> QED BY <1>3, <1>4, <1>5, <1>6, <1>7, <1>8, <1>9

(* The end of an entry: if it was waited for, its place is free again.     *)
LEMMA EntryEnds ==
  ASSUME LockInv, LeaseInv, NEW e \in Entries, NEW failed \in BOOLEAN, Release(e, failed)
  PROVE  LeaseInv'
<1>1. /\ entry \in [Entries -> Object] /\ entry[e] \in Object /\ PromiseFact(entry[e])
      /\ registry \in [Processes -> Entries \cup {None}] /\ entry[e].phase = "releasing"
  BY DEF LockInv, Typed, LeaseInv, EntryFact, Release
<1>2. PICK o : o = Ended(entry[e], failed)
  OBVIOUS
<1>3. /\ o.phase = "down" /\ o.host = entry[e].host /\ o.config = entry[e].config
      /\ o.refs = entry[e].refs
      /\ o.ready = IF entry[e].ready = "pending" THEN "rejected" ELSE entry[e].ready
      /\ o.closing = "no" => entry[e].closing = "no"
  BY <1>1, <1>2 DEF Ended, Object
<1>4. PromiseFact(o)
  BY <1>1, <1>3 DEF PromiseFact, Serving, Object
<1>5. /\ entry'[e] = o /\ (\A f \in Entries \ {e} : entry'[f] = entry[f]) /\ caller' = caller
  BY <1>1, <1>2 DEF Release
<1>6. ASSUME NEW p \in Processes, registry'[p] # registry[p]
      PROVE  registry'[p] = None /\ registry[p] = e
  BY <1>1, <1>6 DEF Release
<1>7. ASSUME NEW f \in Entries \ {e} PROVE EntryFact(f)'
  BY <1>5, <1>6, UsersKept, EntryKept DEF LeaseInv, EntryFact
<1>8. EntryFact(e)'
  <2>1. EntryFact(e) /\ PromiseFact(entry[e])'
    BY <1>4, <1>5 DEF LeaseInv, PromiseFact
  <2> QED BY <1>3, <1>5, <2>1, UsersKept DEF EntryFact, Serving
<1>9. ASSUME NEW c \in Callers PROVE CallerFact(c)'
  <2>1. CallerFact(c) /\ caller[c] \in Caller
    BY DEF LeaseInv, LockInv, Typed
  <2>2. caller[c].entry # None => caller[c].entry \in Entries
    BY <2>1 DEF Caller
  <2> QED BY <1>1, <1>3, <1>5, <2>1, <2>2 DEF CallerFact
<1>10. RegistryFact'
  <2>1. registry' \in [Processes -> Entries \cup {None}]
    BY <1>1 DEF Release
  <2>2. \A f \in Entries : entry'[f].host = entry[f].host
    BY <1>3, <1>5
  <2> QED BY <1>1, <1>6, <2>1, <2>2 DEF LeaseInv, RegistryFact
<1> QED BY <1>7, <1>8, <1>9, <1>10 DEF LeaseInv

-----------------------------------------------------------------------------
(* Callers.                                                                *)

(* A caller that holds no lease, nor gets one, moves; if it awaited an     *)
(* entry, that entry serves no more.                                       *)
LEMMA CallerMoves ==
  ASSUME LockInv, LeaseInv, NEW c \in Callers, NEW who \in Caller,
         caller' = [caller EXCEPT ![c] = who], entry' = entry, registry' = registry,
         caller[c].phase # "held", who.phase # "held",
         caller[c].phase = "awaitsReady" => entry[caller[c].entry].phase \notin Serving,
         CallerFact(c)'
  PROVE  LeaseInv'
<1>1. caller \in [Callers -> Caller] /\ \A d \in Callers : caller[d] \in Caller
  BY DEF LockInv, Typed
<1>2. caller'[c] = who /\ \A d \in Callers \ {c} : caller'[d] = caller[d]
  BY <1>1
<1>3. ASSUME NEW f \in Entries PROVE EntryFact(f)'
  <2>1. EntryFact(f)
    BY DEF LeaseInv
  <2>2. Users(f, {"held"})' = Users(f, {"held"})
    BY <1>2 DEF Users
  <2>3. entry[f].phase \in Serving
          => Users(f, {"held", "awaitsReady"}) \subseteq Users(f, {"held", "awaitsReady"})'
    BY <1>2 DEF Users
  <2> QED BY <2>1, <2>2, <2>3, EntryKept DEF EntryFact
<1>4. ASSUME NEW d \in Callers \ {c} PROVE CallerFact(d)'
  BY <1>2 DEF LeaseInv, CallerFact
<1> QED BY <1>3, <1>4 DEF LeaseInv, RegistryFact

LEMMA CallerWaits ==
  ASSUME LockInv, LeaseInv, NEW c \in Callers,
         \/ JoinEntry(c) \/ EntryClosed(c) \/ \E config \in Wanted[c] : Acquire(c, config)
  PROVE  LeaseInv'
<1>1. /\ caller[c] \in Caller /\ CallerFact(c) /\ Host[c] \in Processes /\ Idle \in Caller
      /\ registry[Host[c]] \in Entries \cup {None} /\ Wanted[c] \subseteq Configs
      /\ caller \in [Callers -> Caller]
  BY CallersHaveHosts, WantedIsTyped DEF LockInv, Typed, LeaseInv, Idle, Caller
<1>2. UNCHANGED <<entry, registry>>
  BY DEF JoinEntry, EntryClosed, Acquire
<1>3. CASE JoinEntry(c)
  <2>1. PICK e \in Entries : e = registry[Host[c]]
    BY <1>1, <1>3 DEF JoinEntry
  <2>2. PICK who \in Caller :
          /\ caller' = [caller EXCEPT ![c] = who]
          /\ \/ who.phase = "awaitsClosing" /\ who.entry = e
             \/ who.phase = "idle" /\ who.entry = None
             \/ /\ who.phase = "awaitsReady" /\ who.entry = e
                /\ entry[e].config = who.config
    <3>1. CASE caller' = [caller EXCEPT ![c] = [@ EXCEPT !.phase = "awaitsClosing", !.entry = e]]
      <4>1. PICK who : who = [caller[c] EXCEPT !.phase = "awaitsClosing", !.entry = e]
        OBVIOUS
      <4>2. who \in Caller /\ who.phase = "awaitsClosing" /\ who.entry = e
        BY <1>1, <4>1 DEF Caller
      <4> QED BY <3>1, <4>1, <4>2
    <3>2. CASE caller' = [caller EXCEPT ![c] = Idle]
      <4>1. Idle.phase = "idle" /\ Idle.entry = None
        BY DEF Idle
      <4> QED BY <1>1, <3>2, <4>1
    <3>3. CASE /\ caller' = [caller EXCEPT ![c] = [@ EXCEPT !.phase = "awaitsReady", !.entry = e]]
               /\ entry[e].config = caller[c].config
      <4>1. PICK who : who = [caller[c] EXCEPT !.phase = "awaitsReady", !.entry = e]
        OBVIOUS
      <4>2. /\ who \in Caller /\ who.phase = "awaitsReady" /\ who.entry = e
            /\ who.config = caller[c].config
        BY <1>1, <4>1 DEF Caller
      <4> QED BY <3>3, <4>1, <4>2
    <3> QED BY <1>3, <2>1, <3>1, <3>2, <3>3 DEF JoinEntry
  <2>3. caller[c].phase = "looking" /\ entry[e].host = Host[c] /\ e # None
    BY <1>1, <1>3, <2>1, NoneIsNoEntry DEF JoinEntry, LeaseInv, RegistryFact
  <2>4. CallerFact(c)'
    BY <1>1, <1>2, <2>2, <2>3 DEF CallerFact
  <2> QED BY <1>2, <2>2, <2>3, <2>4, CallerMoves
<1>4. CASE EntryClosed(c)
  <2>1. PICK who \in Caller :
          /\ caller' = [caller EXCEPT ![c] = who]
          /\ who.entry = None /\ who.phase \in {"idle", "looking"}
    <3>1. CASE caller' = [caller EXCEPT ![c] = Idle]
      <4>1. Idle.phase = "idle" /\ Idle.entry = None
        BY DEF Idle
      <4> QED BY <1>1, <3>1, <4>1
    <3>2. CASE caller' = [caller EXCEPT ![c] = [@ EXCEPT !.phase = "looking", !.entry = None]]
      <4>1. PICK who : who = [caller[c] EXCEPT !.phase = "looking", !.entry = None]
        OBVIOUS
      <4>2. who \in Caller /\ who.phase = "looking" /\ who.entry = None
        BY <1>1, <4>1 DEF Caller
      <4> QED BY <3>2, <4>1, <4>2
    <3> QED BY <1>4, <3>1, <3>2 DEF EntryClosed
  <2>2. CallerFact(c)'
    BY <1>1, <1>2, <2>1 DEF CallerFact
  <2> QED BY <1>2, <1>4, <2>1, <2>2, CallerMoves DEF EntryClosed
<1>5. ASSUME NEW config \in Wanted[c], Acquire(c, config) PROVE LeaseInv'
  <2>1. PICK who \in Caller :
          /\ caller' = [caller EXCEPT ![c] = who]
          /\ who.entry = None /\ who.phase = "looking"
    <3>1. [phase |-> "looking", config |-> config, entry |-> None] \in Caller
      BY <1>1 DEF Caller
    <3> QED BY <1>5, <3>1 DEF Acquire
  <2>2. CallerFact(c)'
    BY <1>1, <1>2, <2>1 DEF CallerFact
  <2> QED BY <1>2, <1>5, <2>1, <2>2, CallerMoves DEF Acquire
<1> QED BY <1>3, <1>4, <1>5

(* The first to see a failure forgets an entry that is down.               *)
LEMMA FailureSeen ==
  ASSUME LockInv, LeaseInv, NEW c \in Callers, EntryFailed(c)
  PROVE  LeaseInv'
<1>1. /\ caller[c] \in Caller /\ CallerFact(c) /\ Host[c] \in Processes
      /\ registry \in [Processes -> Entries \cup {None}] /\ caller \in [Callers -> Caller]
      /\ caller[c].phase = "awaitsReady" /\ entry' = entry
  BY CallersHaveHosts DEF LockInv, Typed, LeaseInv, EntryFailed
<1>2. PICK e \in Entries : e = caller[c].entry
  BY <1>1 DEF CallerFact, Caller
<1>3. entry[e].phase = "down"
  BY <1>2 DEF EntryFailed, LeaseInv, EntryFact, PromiseFact
<1>4. /\ caller'[c] = Idle /\ \A d \in Callers \ {c} : caller'[d] = caller[d]
      /\ Idle.phase = "idle" /\ Idle.entry = None
  BY <1>1 DEF EntryFailed, Idle
<1>5. ASSUME NEW p \in Processes, registry'[p] # registry[p]
      PROVE  registry'[p] = None /\ registry[p] = e
  BY <1>1, <1>2, <1>5 DEF EntryFailed
<1>6. ASSUME NEW f \in Entries PROVE EntryFact(f)'
  <2>1. EntryFact(f)
    BY DEF LeaseInv
  <2>2. Users(f, {"held"})' = Users(f, {"held"})
    BY <1>1, <1>4 DEF Users
  <2>3. ASSUME entry[f].phase \in Serving
        PROVE  /\ Users(f, {"held", "awaitsReady"})' # {} /\ registry'[entry[f].host] = f
    <3>1. f # e
      BY <1>3, <2>3 DEF Serving
    <3>2. Users(f, {"held", "awaitsReady"})' = Users(f, {"held", "awaitsReady"})
      BY <1>2, <1>4, <3>1 DEF Users
    <3> QED BY <1>5, <2>1, <2>3, <3>1, <3>2 DEF EntryFact
  <2> QED BY <1>1, <2>1, <2>2, <2>3, EntryKept
<1>7. ASSUME NEW d \in Callers PROVE CallerFact(d)'
  <2>1. CASE d = c
    BY <1>4, <2>1 DEF CallerFact
  <2>2. CASE d # c
    BY <1>1, <1>4, <2>2 DEF LeaseInv, CallerFact
  <2> QED BY <2>1, <2>2
<1>8. RegistryFact'
  BY <1>1, <1>5 DEF LeaseInv, RegistryFact
<1> QED BY <1>6, <1>7, <1>8 DEF LeaseInv

(* A new entry is awaited by the caller that made it.                      *)
LEMMA EntryCreated ==
  ASSUME LockInv, LeaseInv, NEW c \in Callers, NEW e \in Entries, CreateEntry(c, e)
  PROVE  LeaseInv'
<1>1. /\ caller[c] \in Caller /\ CallerFact(c) /\ Host[c] \in Processes /\ e # None
      /\ entry \in [Entries -> Object] /\ caller[c].phase = "looking"
      /\ registry \in [Processes -> Entries \cup {None}] /\ caller \in [Callers -> Caller]
  BY CallersHaveHosts, NoneIsNoEntry DEF LockInv, Typed, LeaseInv, CreateEntry
<1>2. PICK o : o = [NoEntry EXCEPT !.host = Host[c], !.config = caller[c].config,
                                   !.phase = "locking"]
  OBVIOUS
<1>3. o = [host |-> Host[c], config |-> caller[c].config, phase |-> "locking", refs |-> 0,
           owns |-> FALSE, ready |-> "pending", closing |-> "no"]
  BY <1>2 DEF NoEntry
<1>4. entry'[e] = o /\ \A f \in Entries \ {e} : entry'[f] = entry[f]
  BY <1>1, <1>2 DEF CreateEntry
<1>5. PICK who : who = [caller[c] EXCEPT !.phase = "awaitsReady", !.entry = e]
  OBVIOUS
<1>6. who.phase = "awaitsReady" /\ who.entry = e /\ who.config = caller[c].config
  BY <1>1, <1>5 DEF Caller
<1>7. caller'[c] = who /\ \A d \in Callers \ {c} : caller'[d] = caller[d]
  BY <1>1, <1>5 DEF CreateEntry, Caller
<1>8. registry'[Host[c]] = e /\ registry[Host[c]] = None
      /\ \A p \in Processes \ {Host[c]} : registry'[p] = registry[p]
  BY <1>1 DEF CreateEntry
<1>9. (\A d \in Callers : caller[d].entry # e) /\ \A p \in Processes : registry[p] # e
  BY DEF CreateEntry, Unused
<1>10. ASSUME NEW f \in Entries \ {e} PROVE EntryFact(f)'
  <2>1. EntryFact(f)
    BY DEF LeaseInv
  <2>2. Users(f, {"held"})' = Users(f, {"held"})
    BY <1>1, <1>6, <1>7 DEF Users
  <2>3. Users(f, {"held", "awaitsReady"})' = Users(f, {"held", "awaitsReady"})
    BY <1>1, <1>6, <1>7 DEF Users
  <2>4. f # None
    BY NoneIsNoEntry
  <2> QED BY <1>4, <1>8, <2>1, <2>2, <2>3, <2>4, EntryKept DEF EntryFact
<1>11. EntryFact(e)'
  <2>1. Users(e, {"held"})' = {}
    BY <1>6, <1>7, <1>9 DEF Users
  <2>2. c \in Users(e, {"held", "awaitsReady"})'
    BY <1>6, <1>7 DEF Users
  <2>3. Cardinality(Users(e, {"held"})') = 0
    BY <2>1, FS_EmptySet
  <2>4. PromiseFact(entry[e])'
    BY <1>3, <1>4 DEF PromiseFact, Serving
  <2>5. entry'[e].refs = 0 /\ entry'[e].host = Host[c]
    BY <1>3, <1>4
  <2> QED BY <1>1, <1>8, <2>2, <2>3, <2>4, <2>5 DEF EntryFact
<1>12. ASSUME NEW d \in Callers PROVE CallerFact(d)'
  <2>1. CASE d = c
    <3>1. entry'[e].host = Host[c] /\ entry'[e].config = caller[c].config
      BY <1>3, <1>4
    <3> QED BY <1>1, <1>6, <1>7, <2>1, <3>1 DEF CallerFact
  <2>2. CASE d # c
    <3>1. CallerFact(d) /\ caller'[d] = caller[d] /\ caller[d].entry # e /\ caller[d] \in Caller
      BY <1>1, <1>7, <1>9, <2>2 DEF LeaseInv
    <3>2. caller[d].entry # None => caller[d].entry \in Entries \ {e}
      BY <3>1 DEF Caller
    <3> QED BY <1>4, <3>1, <3>2 DEF CallerFact
  <2> QED BY <2>1, <2>2
<1>13. RegistryFact'
  <2> SUFFICES ASSUME NEW p \in Processes, registry'[p] # None PROVE entry'[registry'[p]].host = p
    BY DEF RegistryFact
  <2>1. CASE p = Host[c]
    BY <1>3, <1>4, <1>8, <2>1
  <2>2. CASE p # Host[c]
    BY <1>1, <1>4, <1>8, <1>9, <2>2 DEF LeaseInv, RegistryFact
  <2> QED BY <2>1, <2>2
<1> QED BY <1>10, <1>11, <1>12, <1>13 DEF LeaseInv

(* A lease is taken of an entry that is up, and counted.                   *)
LEMMA LeaseTaken ==
  ASSUME LockInv, LeaseInv, NEW c \in Callers, TakeLease(c)
  PROVE  LeaseInv'
<1>1. /\ caller[c] \in Caller /\ CallerFact(c) /\ registry' = registry
      /\ entry \in [Entries -> Object] /\ caller[c].phase = "awaitsReady"
      /\ caller \in [Callers -> Caller]
  BY DEF LockInv, Typed, LeaseInv, TakeLease
<1>2. PICK e \in Entries : e = caller[c].entry
  BY <1>1 DEF CallerFact, Caller
<1>3. EntryFact(e) /\ entry[e] \in Object /\ entry[e].ready = "resolved"
  BY <1>1, <1>2 DEF LeaseInv, TakeLease
<1>4. CASE entry[e].closing # "no"
  <2>1. PICK who \in Caller : who = [caller[c] EXCEPT !.phase = "awaitsClosing"]
    BY <1>1 DEF Caller
  <2>2. who.phase = "awaitsClosing" /\ who.entry = e
    BY <1>1, <1>2, <2>1 DEF Caller
  <2>3. caller' = [caller EXCEPT ![c] = who] /\ entry' = entry
    BY <1>1, <1>2, <1>4, <2>1 DEF TakeLease, Caller
  <2>4. CallerFact(c)'
    BY <1>1, <1>2, <2>2, <2>3 DEF CallerFact
  <2>5. entry[e].phase \notin Serving
    BY <1>3, <1>4 DEF EntryFact, PromiseFact
  <2> QED BY <1>1, <1>2, <2>2, <2>3, <2>4, <2>5, CallerMoves
<1>5. CASE entry[e].closing = "no"
  <2>1. entry[e].phase = "up"
    BY <1>3, <1>5 DEF EntryFact, PromiseFact
  <2>2. PICK o : o = [entry[e] EXCEPT !.refs = @ + 1]
    OBVIOUS
  <2>3. /\ o.host = entry[e].host /\ o.config = entry[e].config /\ o.phase = "up"
        /\ o.ready = "resolved" /\ o.closing = "no" /\ o.refs = entry[e].refs + 1
    BY <1>3, <1>5, <2>1, <2>2 DEF Object
  <2>4. entry'[e] = o /\ \A f \in Entries \ {e} : entry'[f] = entry[f]
    <3>1. entry' = [entry EXCEPT ![e] = o]
      BY <1>1, <1>2, <1>3, <1>5, <2>2 DEF TakeLease, Object
    <3> QED BY <1>1, <3>1
  <2>5. PICK who : who = [caller[c] EXCEPT !.phase = "held"]
    OBVIOUS
  <2>6. who.phase = "held" /\ who.entry = e /\ who.config = caller[c].config
    BY <1>1, <1>2, <2>5 DEF Caller
  <2>7. caller'[c] = who /\ \A d \in Callers \ {c} : caller'[d] = caller[d]
    BY <1>1, <1>2, <1>5, <2>5 DEF TakeLease, Caller
  <2>8. ASSUME NEW f \in Entries \ {e} PROVE EntryFact(f)'
    <3>1. EntryFact(f)
      BY DEF LeaseInv
    <3>2. /\ Users(f, {"held"})' = Users(f, {"held"})
          /\ Users(f, {"held", "awaitsReady"})' = Users(f, {"held", "awaitsReady"})
      BY <1>2, <2>6, <2>7 DEF Users
    <3> QED BY <1>1, <2>4, <3>1, <3>2, EntryKept DEF EntryFact
  <2>9. EntryFact(e)'
    <3>1. Users(e, {"held"})' = Users(e, {"held"}) \cup {c} /\ c \notin Users(e, {"held"})
      BY <1>1, <2>6, <2>7 DEF Users
    <3>2. Cardinality(Users(e, {"held"})') = Cardinality(Users(e, {"held"})) + 1
      BY <3>1, UsersAreFinite, FS_AddElement
    <3>3. c \in Users(e, {"held", "awaitsReady"})'
      BY <2>6, <2>7 DEF Users
    <3>4. PromiseFact(entry[e])'
      BY <2>3, <2>4 DEF PromiseFact, Serving
    <3> QED BY <1>1, <1>3, <2>1, <2>3, <2>4, <3>2, <3>3, <3>4 DEF EntryFact, Serving
  <2>10. ASSUME NEW d \in Callers PROVE CallerFact(d)'
    <3>1. \A f \in Entries : /\ entry'[f].host = entry[f].host /\ entry'[f].config = entry[f].config
                             /\ entry'[f].phase = entry[f].phase
      BY <2>1, <2>3, <2>4
    <3>2. CASE d = c
      BY <1>1, <1>2, <2>1, <2>6, <2>7, <3>1, <3>2 DEF CallerFact
    <3>3. CASE d # c
      <4>1. CallerFact(d) /\ caller'[d] = caller[d] /\ caller[d] \in Caller
        BY <1>1, <2>7, <3>3 DEF LeaseInv
      <4>2. caller[d].entry # None => caller[d].entry \in Entries
        BY <4>1 DEF Caller
      <4> QED BY <3>1, <4>1, <4>2 DEF CallerFact
    <3> QED BY <3>2, <3>3
  <2>11. RegistryFact'
    <3>1. registry \in [Processes -> Entries \cup {None}]
      BY DEF LockInv, Typed
    <3> QED BY <1>1, <2>3, <2>4, <3>1 DEF LeaseInv, RegistryFact
  <2> QED BY <2>8, <2>9, <2>10, <2>11 DEF LeaseInv
<1> QED BY <1>4, <1>5

(* One lease less: with the last one the entry closes.                     *)
LEMMA LeaseReleased ==
  ASSUME LockInv, LeaseInv, NEW c \in Callers, ReleaseLease(c)
  PROVE  LeaseInv'
<1>1. /\ caller[c] \in Caller /\ CallerFact(c) /\ registry' = registry
      /\ entry \in [Entries -> Object] /\ caller[c].phase = "held"
      /\ caller \in [Callers -> Caller]
  BY DEF LockInv, Typed, LeaseInv, ReleaseLease
<1>2. PICK e \in Entries : e = caller[c].entry
  BY <1>1 DEF CallerFact, Caller
<1>3. EntryFact(e) /\ entry[e] \in Object /\ entry[e].phase = "up"
  BY <1>1, <1>2 DEF LeaseInv, CallerFact
<1>4. /\ Idle.phase = "idle" /\ Idle.entry = None /\ caller'[c] = Idle
      /\ \A d \in Callers \ {c} : caller'[d] = caller[d]
  BY <1>1 DEF ReleaseLease, Idle
<1>5. /\ Users(e, {"held"})' = Users(e, {"held"}) \ {c} /\ c \in Users(e, {"held"})
      /\ Cardinality(Users(e, {"held"})') = entry[e].refs - 1
  <2>1. Users(e, {"held"})' = Users(e, {"held"}) \ {c} /\ c \in Users(e, {"held"})
    BY <1>1, <1>2, <1>4 DEF Users
  <2> QED BY <1>3, <2>1, UsersAreFinite, FS_RemoveElement DEF EntryFact
<1>6. PICK o : /\ entry' = [entry EXCEPT ![e] = o]
               /\ o.host = entry[e].host /\ o.config = entry[e].config
               /\ o.refs = entry[e].refs - 1 /\ o.ready = entry[e].ready
               /\ IF entry[e].refs = 1 THEN o.closing = "pending" /\ o.phase = "closing"
                  ELSE o.closing = entry[e].closing /\ o.phase = "up"
  <2>1. CASE entry[e].refs = 1
    <3>1. PICK o : o = [entry[e] EXCEPT !.refs = 0, !.closing = "pending", !.phase = "closing"]
      OBVIOUS
    <3>2. entry' = [entry EXCEPT ![e].refs = 0, ![e].closing = "pending", ![e].phase = "closing"]
      BY <1>2, <2>1 DEF ReleaseLease
    <3>3. entry' = [entry EXCEPT ![e] = o]
      BY <1>1, <1>3, <3>1, <3>2 DEF Object
    <3>4. /\ o.host = entry[e].host /\ o.config = entry[e].config /\ o.refs = 0
          /\ o.ready = entry[e].ready /\ o.closing = "pending" /\ o.phase = "closing"
      BY <1>3, <3>1 DEF Object
    <3>5. o.refs = entry[e].refs - 1
      BY <2>1, <3>4
    <3> QED BY <2>1, <3>3, <3>4, <3>5
  <2>2. CASE entry[e].refs # 1
    <3>1. PICK o : o = [entry[e] EXCEPT !.refs = @ - 1]
      OBVIOUS
    <3>2. entry' = [entry EXCEPT ![e].refs = @ - 1]
      BY <1>2, <2>2 DEF ReleaseLease
    <3>3. entry' = [entry EXCEPT ![e] = o]
      BY <1>1, <1>3, <3>1, <3>2 DEF Object
    <3>4. /\ o.host = entry[e].host /\ o.config = entry[e].config /\ o.refs = entry[e].refs - 1
          /\ o.ready = entry[e].ready /\ o.closing = entry[e].closing /\ o.phase = "up"
      BY <1>3, <3>1 DEF Object
    <3> QED BY <2>2, <3>3, <3>4
  <2> QED BY <2>1, <2>2
<1>7. entry'[e] = o /\ \A f \in Entries \ {e} : entry'[f] = entry[f]
  BY <1>1, <1>6
<1>8. ASSUME NEW f \in Entries \ {e} PROVE EntryFact(f)'
  <2>1. EntryFact(f)
    BY DEF LeaseInv
  <2>2. /\ Users(f, {"held"})' = Users(f, {"held"})
        /\ Users(f, {"held", "awaitsReady"})' = Users(f, {"held", "awaitsReady"})
    BY <1>1, <1>2, <1>4 DEF Users
  <2> QED BY <1>1, <1>7, <2>1, <2>2, EntryKept DEF EntryFact
<1>9. EntryFact(e)'
  <2>1. PromiseFact(entry[e])'
    BY <1>3, <1>6, <1>7 DEF EntryFact, PromiseFact, Serving
  <2>2. entry'[e].phase \in Serving => Users(e, {"held", "awaitsReady"})' # {}
    <3>1. SUFFICES ASSUME entry[e].refs # 1 PROVE Users(e, {"held", "awaitsReady"})' # {}
      BY <1>6, <1>7 DEF Serving
    <3>2. Cardinality(Users(e, {"held"})') # 0
      BY <1>3, <1>5, <3>1 DEF Object
    <3>3. Users(e, {"held"})' # {}
      BY <3>2, FS_EmptySet
    <3> QED BY <3>3 DEF Users
  <2> QED BY <1>1, <1>3, <1>5, <1>6, <1>7, <2>1, <2>2 DEF EntryFact, Serving
<1>10. ASSUME NEW d \in Callers PROVE CallerFact(d)'
  <2>1. \A f \in Entries : entry'[f].host = entry[f].host /\ entry'[f].config = entry[f].config
    BY <1>6, <1>7
  <2>2. CASE d = c
    BY <1>4, <2>2 DEF CallerFact
  <2>3. CASE d # c
    <3>1. CallerFact(d) /\ caller'[d] = caller[d] /\ caller[d] \in Caller
      BY <1>1, <1>4, <2>3 DEF LeaseInv
    <3>2. caller[d].entry # None => caller[d].entry \in Entries
      BY <3>1 DEF Caller
    <3>3. caller[d].phase = "held" => entry'[caller[d].entry].phase = "up"
      <4> SUFFICES ASSUME caller[d].phase = "held" PROVE entry'[caller[d].entry].phase = "up"
        OBVIOUS
      <4>1. caller[d].entry \in Entries /\ entry[caller[d].entry].phase = "up"
        BY <3>1, <3>2 DEF CallerFact
      <4>2. CASE caller[d].entry # e
        BY <1>7, <4>1, <4>2
      <4>3. CASE caller[d].entry = e
        <5>1. d \in Users(e, {"held"})'
          BY <1>5, <2>3, <4>3 DEF Users
        <5>2. Cardinality(Users(e, {"held"})') # 0
          <6>1. IsFiniteSet(Users(e, {"held"})')
            BY <1>5, UsersAreFinite, FS_RemoveElement
          <6> QED BY <5>1, <6>1, FS_EmptySet
        <5>3. entry[e].refs # 1
          BY <1>5, <5>2
        <5> QED BY <1>6, <1>7, <4>3, <5>3
      <4> QED BY <4>2, <4>3
    <3> QED BY <2>1, <3>1, <3>2, <3>3 DEF CallerFact
  <2> QED BY <2>2, <2>3
<1>11. RegistryFact'
  <2>1. registry \in [Processes -> Entries \cup {None}]
    BY DEF LockInv, Typed
  <2> QED BY <1>1, <1>6, <1>7, <2>1 DEF LeaseInv, RegistryFact
<1> QED BY <1>8, <1>9, <1>10, <1>11 DEF LeaseInv

-----------------------------------------------------------------------------
(* The leases of a process die with it, and those of others live on.       *)
LEMMA ProcessDies ==
  ASSUME LockInv, LeaseInv, NEW p \in Processes, Crash(p)
  PROVE  LeaseInv'
<1> DEFINE mine == {e \in Entries : entry[e].host = p}
<1>1. /\ caller \in [Callers -> Caller] /\ entry \in [Entries -> Object]
      /\ registry \in [Processes -> Entries \cup {None}]
  BY DEF LockInv, Typed
<1>2. PICK crashed : crashed = [NoEntry EXCEPT !.phase = "crashed"]
  OBVIOUS
<1>3. /\ entry' = [e \in Entries |-> IF e \in mine THEN crashed ELSE entry[e]]
      /\ registry' = [registry EXCEPT ![p] = None]
      /\ caller' = [c \in Callers |-> IF Host[c] = p THEN Idle ELSE caller[c]]
  BY <1>2 DEF Crash
<1>4. /\ \A e \in mine : entry'[e] = crashed
      /\ \A e \in Entries \ mine : entry'[e] = entry[e]
  BY <1>3
<1>5. /\ crashed.phase = "crashed" /\ crashed.refs = 0 /\ crashed.ready = "pending"
  BY <1>2 DEF NoEntry
<1>6. \A e \in Entries \ mine : entry[e].phase \in Serving => entry[e].host # p
  OBVIOUS
<1>7. \A e \in mine : entry[e].host = p
  OBVIOUS
<1> HIDE DEF mine
<1>8. ASSUME NEW c \in Callers
      PROVE  IF Host[c] = p THEN caller'[c].phase = "idle" /\ caller'[c].entry = None
             ELSE caller'[c] = caller[c]
  BY <1>3 DEF Idle
<1>9. ASSUME NEW c \in Callers PROVE CallerFact(c)'
  <2>1. CASE Host[c] = p
    BY <1>8, <2>1 DEF CallerFact
  <2>2. CASE Host[c] # p
    <3>1. CallerFact(c) /\ caller'[c] = caller[c] /\ caller[c] \in Caller
      BY <1>1, <1>8, <2>2 DEF LeaseInv
    <3>2. caller[c].entry # None => caller[c].entry \in Entries /\ caller[c].entry \notin mine
      BY <1>7, <2>2, <3>1 DEF Caller, CallerFact
    <3> QED BY <1>4, <3>1, <3>2 DEF CallerFact
  <2> QED BY <2>1, <2>2
<1>10. ASSUME NEW f \in Entries PROVE EntryFact(f)'
  <2>1. EntryFact(f) /\ \A c \in Callers : CallerFact(c) /\ caller[c] \in Caller
    BY <1>1 DEF LeaseInv
  <2>2. f # None
    BY NoneIsNoEntry
  <2>3. CASE f \in mine
    <3>1. Users(f, {"held"})' = {}
      BY <1>7, <1>8, <2>1, <2>2, <2>3 DEF Users, CallerFact
    <3>2. Cardinality(Users(f, {"held"})') = 0
      BY <3>1, FS_EmptySet
    <3>3. PromiseFact(entry[f])'
      BY <1>4, <1>5, <2>3 DEF PromiseFact, Serving
    <3> QED BY <1>4, <1>5, <2>3, <3>2, <3>3 DEF EntryFact, Serving
  <2>4. CASE f \notin mine
    <3>1. Users(f, {"held"})' = Users(f, {"held"})
      <4>1. \A c \in Callers : caller[c].phase = "held" /\ caller[c].entry = f => Host[c] # p
        BY <1>6, <2>1, <2>2, <2>4 DEF CallerFact, Serving
      <4> QED BY <1>8, <2>2, <4>1 DEF Users
    <3>2. ASSUME entry[f].phase \in Serving
          PROVE  /\ Users(f, {"held", "awaitsReady"})' # {} /\ registry'[entry[f].host] = f
      <4>1. entry[f].host # p
        BY <1>6, <2>4, <3>2
      <4>2. \A c \in Callers : caller[c].entry = f => Host[c] # p
        BY <2>1, <2>2, <4>1 DEF CallerFact
      <4>3. Users(f, {"held", "awaitsReady"}) \subseteq Users(f, {"held", "awaitsReady"})'
        BY <1>8, <4>2 DEF Users
      <4> QED BY <1>1, <1>3, <2>1, <3>2, <4>1, <4>3 DEF EntryFact
    <3> QED BY <1>4, <2>1, <2>4, <3>1, <3>2, EntryKept
  <2> QED BY <2>3, <2>4
<1>11. RegistryFact'
  <2> SUFFICES ASSUME NEW q \in Processes, registry'[q] # None PROVE entry'[registry'[q]].host = q
    BY DEF RegistryFact
  <2>1. q # p /\ registry'[q] = registry[q] /\ registry[q] \in Entries
    BY <1>1, <1>3
  <2>2. entry[registry[q]].host = q
    BY <2>1 DEF LeaseInv, RegistryFact
  <2> QED BY <1>4, <1>7, <2>1, <2>2
<1> QED BY <1>9, <1>10, <1>11 DEF LeaseInv

-----------------------------------------------------------------------------
(* Who owns the archive, or is about to, is registered.                    *)

OwnerFact(e) ==
  entry[e].phase \in Working \cup {"locking"} \/ entry[e].owns =>
    entry[e].host \in Processes /\ registry[entry[e].host] = e

OwnerInv == \A e \in Entries : OwnerFact(e)

(* An entry at work goes on, or comes to its end.                          *)
LEMMA OwnerMoves ==
  ASSUME Typed, OwnerInv, UNCHANGED registry, NEW e \in Entries, NEW o,
         entry' = [entry EXCEPT ![e] = o], o.host = entry[e].host,
         entry[e].phase \in Working \cup {"locking"}
  PROVE  OwnerInv'
BY DEF Typed, OwnerInv, OwnerFact

(* A process forgets one of its entries, which is no owner any more.       *)
LEMMA OwnerForgotten ==
  ASSUME Typed, OwnerInv, NEW p \in Processes, registry' = [registry EXCEPT ![p] = None],
         NEW e, registry[p] = e,
         \A f \in Entries : f # e => entry'[f] = entry[f],
         e \in Entries => entry'[e].phase = "down" /\ ~entry'[e].owns
  PROVE  OwnerInv'
<1> SUFFICES ASSUME NEW f \in Entries PROVE OwnerFact(f)'
  BY DEF OwnerInv
<1>1. CASE f = e
  BY <1>1 DEF OwnerFact, Working
<1>2. CASE f # e
  BY <1>2 DEF Typed, OwnerInv, OwnerFact
<1> QED BY <1>1, <1>2

LEMMA OwnerStep == LockInv /\ LeaseInv /\ OwnerInv /\ [Next]_vars => OwnerInv'
<1> SUFFICES ASSUME LockInv, LeaseInv, OwnerInv, [Next]_vars PROVE OwnerInv'
  OBVIOUS
<1>t. Typed /\ \A e \in Entries : entry[e] \in Object
  BY DEF LockInv, Typed
<1>1. ASSUME UNCHANGED <<registry, entry>> PROVE OwnerInv'
  BY <1>1 DEF OwnerInv, OwnerFact
<1>2. ASSUME NEW e \in Entries,
             \/ Acquired(e) \/ CannotAcquire(e) \/ ProbeSucceeds(e)
             \/ \E lingers \in BOOLEAN : ProbeFails(e, lingers)
             \/ StartSucceeds(e) \/ StartFails(e) \/ Stopped(e)
      PROVE  OwnerInv'
  <2>1. entry[e].phase \in Working \cup {"locking"}
    <3>1. sup[e] = "stopping" => entry[e].phase \in {"unwinding", "closing"}
      BY DEF LockInv, LockFact
    <3> QED BY <1>2, <3>1
         DEF Acquired, CannotAcquire, ProbeSucceeds, ProbeFails, StartSucceeds, StartFails, Stopped, Working
  <2>2. UNCHANGED registry
    BY <1>2 DEF Acquired, CannotAcquire, ProbeSucceeds, ProbeFails, StartSucceeds, StartFails, Stopped
  <2>3. PICK o : entry' = [entry EXCEPT ![e] = o] /\ o.host = entry[e].host
    BY <1>2, <1>t DEF Acquired, CannotAcquire, ProbeSucceeds, ProbeFails, StartSucceeds, StartFails,
                      Stopped, Typed, Object
  <2> QED BY <1>t, <2>1, <2>2, <2>3, OwnerMoves
<1>3. ASSUME NEW e \in Entries, NEW failed \in BOOLEAN, Release(e, failed) PROVE OwnerInv'
  <2>1. /\ entry[e].phase \in Working /\ entry[e] \in Object
        /\ entry' = [entry EXCEPT ![e] = Ended(entry[e], failed)]
    BY <1>3, <1>t DEF Release, Working
  <2>2. /\ Ended(entry[e], failed).host = entry[e].host /\ Ended(entry[e], failed).phase = "down"
        /\ Ended(entry[e], failed).owns = failed
    BY <2>1 DEF Ended, Object
  <2>3. CASE UNCHANGED registry
    BY <1>t, <2>1, <2>2, <2>3, OwnerMoves
  <2>4. CASE registry' # registry
    <3>1. /\ ~failed /\ registry[entry[e].host] = e
          /\ registry' = [registry EXCEPT ![entry[e].host] = None]
      BY <1>3, <2>4 DEF Release
    <3>2. entry[e].host \in Processes
      BY <2>1 DEF OwnerInv, OwnerFact
    <3>3. entry'[e].phase = "down" /\ ~entry'[e].owns /\ \A f \in Entries \ {e} : entry'[f] = entry[f]
      BY <1>t, <2>1, <2>2, <3>1 DEF Typed
    <3> QED BY <1>t, <3>1, <3>2, <3>3, OwnerForgotten
  <2> QED BY <2>3, <2>4
<1>4. ASSUME NEW c \in Callers, EntryFailed(c) PROVE OwnerInv'
  <2>1. Host[c] \in Processes /\ UNCHANGED entry
    BY <1>4, CallersHaveHosts DEF EntryFailed
  <2>2. CASE registry' # registry
    <3>1. PICK e : e = registry[Host[c]] /\ e = caller[c].entry
      BY <1>4, <2>2 DEF EntryFailed
    <3>2. registry' = [registry EXCEPT ![Host[c]] = None] /\ entry[e].ready = "rejected" /\ ~entry[e].owns
      BY <1>4, <2>2, <3>1 DEF EntryFailed
    <3>3. e \in Entries => entry[e].phase = "down"
      BY <3>2 DEF LeaseInv, EntryFact, PromiseFact
    <3> QED BY <1>t, <2>1, <3>1, <3>2, <3>3, OwnerForgotten
  <2> QED BY <1>1, <2>1, <2>2
<1>5. ASSUME NEW c \in Callers, NEW e \in Entries, CreateEntry(c, e) PROVE OwnerInv'
  <2>1. /\ Host[c] \in Processes /\ registry[Host[c]] = None
        /\ registry' = [registry EXCEPT ![Host[c]] = e]
    BY <1>5, CallersHaveHosts DEF CreateEntry
  <2>2. entry'[e].host = Host[c] /\ \A f \in Entries \ {e} : entry'[f] = entry[f]
    BY <1>5, <1>t DEF CreateEntry, Typed, NoEntry
  <2>3. \A f \in Entries : f # None
    BY NoneIsNoEntry
  <2> SUFFICES ASSUME NEW f \in Entries PROVE OwnerFact(f)'
    BY DEF OwnerInv
  <2>4. CASE f = e
    BY <1>t, <2>1, <2>2, <2>4 DEF OwnerFact, Typed
  <2>5. CASE f # e
    BY <1>t, <2>1, <2>2, <2>3, <2>5 DEF OwnerInv, OwnerFact, Typed
  <2> QED BY <2>4, <2>5
<1>6. ASSUME NEW c \in Callers, TakeLease(c) \/ ReleaseLease(c) PROVE OwnerInv'
  <2>1. caller[c].entry \in Entries /\ UNCHANGED registry
    <3>1. caller[c] \in Caller /\ CallerFact(c)
      BY DEF LockInv, Typed, LeaseInv
    <3> QED BY <1>6, <3>1 DEF TakeLease, ReleaseLease, Caller, CallerFact
  <2>2. PICK e \in Entries : e = caller[c].entry
    BY <2>1
  <2>3. CASE UNCHANGED entry
    BY <1>1, <2>1, <2>3
  <2>4. CASE entry' # entry
    <3>1. entry[e].phase = "up"
      BY <1>6, <2>2, <2>4 DEF TakeLease, ReleaseLease, LeaseInv, CallerFact, EntryFact, PromiseFact
    <3>2. PICK o : entry' = [entry EXCEPT ![e] = o] /\ o.host = entry[e].host
      <4>1. CASE TakeLease(c)
        <5>1. PICK o : o = [entry[e] EXCEPT !.refs = @ + 1]
          OBVIOUS
        <5>2. entry' = [entry EXCEPT ![e] = o] /\ o.host = entry[e].host
          BY <1>t, <2>2, <2>4, <4>1, <5>1 DEF TakeLease, Typed, Object
        <5> QED BY <5>2
      <4>2. CASE ReleaseLease(c) /\ entry[e].refs = 1
        <5>1. PICK o : o = [entry[e] EXCEPT !.refs = 0, !.closing = "pending", !.phase = "closing"]
          OBVIOUS
        <5>2. entry' = [entry EXCEPT ![e].refs = 0, ![e].closing = "pending", ![e].phase = "closing"]
          BY <2>2, <4>2 DEF ReleaseLease
        <5>3. entry' = [entry EXCEPT ![e] = o] /\ o.host = entry[e].host
          BY <1>t, <5>1, <5>2 DEF Typed, Object
        <5> QED BY <5>3
      <4>3. CASE ReleaseLease(c) /\ entry[e].refs # 1
        <5>1. PICK o : o = [entry[e] EXCEPT !.refs = @ - 1]
          OBVIOUS
        <5>2. entry' = [entry EXCEPT ![e].refs = @ - 1]
          BY <2>2, <4>3 DEF ReleaseLease
        <5>3. entry' = [entry EXCEPT ![e] = o] /\ o.host = entry[e].host
          BY <1>t, <5>1, <5>2 DEF Typed, Object
        <5> QED BY <5>3
      <4> QED BY <1>6, <4>1, <4>2, <4>3
    <3> QED BY <1>t, <2>1, <3>1, <3>2, OwnerMoves DEF Working
  <2> QED BY <2>3, <2>4
<1>7. ASSUME NEW p \in Processes, Crash(p) PROVE OwnerInv'
  <2> SUFFICES ASSUME NEW f \in Entries PROVE OwnerFact(f)'
    BY DEF OwnerInv
  <2>1. /\ registry' = [registry EXCEPT ![p] = None]
        /\ entry'[f] = IF entry[f].host = p THEN [NoEntry EXCEPT !.phase = "crashed"] ELSE entry[f]
    BY <1>7 DEF Crash
  <2>2. CASE entry[f].host = p
    BY <2>1, <2>2 DEF OwnerFact, NoEntry, Working
  <2>3. CASE entry[f].host # p
    BY <1>t, <2>1, <2>3 DEF OwnerInv, OwnerFact, Typed
  <2> QED BY <2>2, <2>3
<1>8. ASSUME NEW e \in Entries, TakeLock(e) \/ Programs(e) \/ \E a \in Accounts : AskForSync(e, a)
      PROVE  OwnerInv'
  BY <1>1, <1>8 DEF TakeLock, Programs, SpawnSync, Spawned, SyncEnds, SpawnFails, ProbeDies,
                    HolderExits, AskForSync
<1>9. ASSUME NEW c \in Callers, JoinEntry(c) \/ EntryClosed(c) \/ \E config \in Wanted[c] : Acquire(c, config)
      PROVE  OwnerInv'
  BY <1>1, <1>9 DEF JoinEntry, EntryClosed, Acquire
<1>10. CASE DaemonStarts \/ DaemonStops \/ UNCHANGED vars
  BY <1>1, <1>10 DEF DaemonStarts, DaemonStops, vars
<1> QED BY <1>2, <1>3, <1>4, <1>5, <1>6, <1>7, <1>8, <1>9, <1>10 DEF Next, Progress, Resumes

-----------------------------------------------------------------------------
(* The invariants together.                                                *)

Invs == LockInv /\ LeaseInv
IInv == Invs /\ OwnerInv

LEMMA StartsFree == Init => Invs
<1> SUFFICES ASSUME Init PROVE Invs
  OBVIOUS
<1>1. NoEntry \in Object /\ Idle \in Caller
  BY DEF NoEntry, Object, Phases, Idle, Caller
<1>2. Typed
  <2>1. entry \in [Entries -> Object] /\ caller \in [Callers -> Caller]
    BY <1>1 DEF Init
  <2>2. registry \in [Processes -> Entries \cup {None}] /\ queue \in [Entries -> Seq(Accounts)]
    BY DEF Init
  <2>3. /\ sup \in [Entries -> {"none", "running", "stopping", "stopped"}]
        /\ locked \in [Entries -> SUBSET LockSet] /\ open \in [Entries -> SUBSET Openers]
        /\ daemon \in BOOLEAN
    BY DEF Init
  <2> QED BY <2>1, <2>2, <2>3 DEF Typed
<1>3. Disjoint
  BY DEF Init, Disjoint
<1>4. \A e \in Entries : LockFact(e)
  BY DEF Init, LockFact, NoEntry, Children, Working, Running
<1>5. ASSUME NEW e \in Entries PROVE EntryFact(e)
  <2>1. Users(e, {"held"}) = {}
    BY DEF Init, Users, Idle
  <2>2. Cardinality(Users(e, {"held"})) = 0
    BY <2>1, FS_EmptySet
  <2> QED BY <2>2 DEF Init, EntryFact, PromiseFact, NoEntry, Serving
<1>6. ASSUME NEW c \in Callers PROVE CallerFact(c)
  BY DEF Init, CallerFact, Idle
<1>7. RegistryFact
  BY DEF Init, RegistryFact
<1> QED BY <1>2, <1>3, <1>4, <1>5, <1>6, <1>7 DEF Invs, LockInv, LeaseInv

(* Who holds or awaits refers to an entry.                                 *)
LEMMA ActiveCallers ==
  ASSUME Invs, NEW c \in Callers, caller[c].phase \in {"awaitsReady", "held"}
  PROVE  /\ caller[c].entry \in Entries
         /\ caller[c].phase = "held" => entry[caller[c].entry].phase = "up"
<1>1. caller[c] \in Caller /\ CallerFact(c)
  BY DEF Invs, LockInv, Typed, LeaseInv
<1> QED BY <1>1 DEF Caller, CallerFact

LEMMA EveryStep == Invs /\ [Next]_vars => Invs'
<1> SUFFICES ASSUME Invs, [Next]_vars PROVE Invs'
  OBVIOUS
<1>1. LockInv /\ LeaseInv
  BY DEF Invs
<1>2. ASSUME NEW e \in Entries, Progress(e) PROVE Invs'
  <2>1. CASE TakeLock(e)
    BY <1>1, <2>1, TakeLockStep, NothingLeased DEF TakeLock, Invs
  <2>2. ASSUME NEW failed \in BOOLEAN, Release(e, failed) PROVE Invs'
    BY <1>1, <2>2, ReleaseStep, EntryEnds DEF Invs
  <2>3. ASSUME \/ Acquired(e) \/ CannotAcquire(e) \/ ProbeSucceeds(e)
               \/ \E lingers \in BOOLEAN : ProbeFails(e, lingers)
               \/ StartSucceeds(e) \/ StartFails(e) \/ Stopped(e)
        PROVE  Invs'
    <3>1. LeaseInv'
      BY <1>1, <2>3, EntryProgress
    <3>2. LockInv'
      BY <1>1, <2>3, AcquiredStep, CannotAcquireStep, ProbeSucceedsStep, ProbeFailsStep,
         StartSucceedsStep, StartFailsStep, StoppedStep
    <3> QED BY <3>1, <3>2 DEF Invs
  <2> QED BY <1>2, <2>1, <2>2, <2>3 DEF Progress
<1>3. ASSUME NEW e \in Entries, Programs(e) PROVE Invs'
  <2>1. LockInv'
    BY <1>1, <1>3, SpawnSyncStep, SyncEndsStep, SpawnFailsStep, OpenerGone DEF Programs
  <2>2. UNCHANGED <<registry, entry, caller>>
    BY <1>3 DEF Programs, SpawnSync, Spawned, SyncEnds, SpawnFails, ProbeDies, HolderExits
  <2> QED BY <1>1, <2>1, <2>2, NothingLeased DEF Invs
<1>4. ASSUME NEW e \in Entries, NEW a \in Accounts, AskForSync(e, a) PROVE Invs'
  BY <1>1, <1>4, AskForSyncStep, NothingLeased DEF AskForSync, Invs
<1>5. ASSUME NEW c \in Callers, Resumes(c) PROVE Invs'
  <2>1. CASE JoinEntry(c) \/ EntryClosed(c)
    BY <1>1, <2>1, WaitingStep, CallerWaits DEF Invs
  <2>2. CASE EntryFailed(c)
    BY <1>1, <2>2, WaitingStep, FailureSeen DEF Invs
  <2>3. CASE TakeLease(c)
    <3>1. caller[c].entry \in Entries
      BY <2>3, ActiveCallers DEF TakeLease
    <3> QED BY <1>1, <2>3, <3>1, TakeLeaseStep, LeaseTaken DEF Invs
  <2>4. ASSUME NEW e \in Entries, CreateEntry(c, e) PROVE Invs'
    BY <1>1, <2>4, CreateEntryStep, EntryCreated DEF Invs
  <2> QED BY <1>5, <2>1, <2>2, <2>3, <2>4 DEF Resumes
<1>6. ASSUME NEW c \in Callers, ReleaseLease(c) PROVE Invs'
  <2>1. caller[c].entry \in Entries /\ entry[caller[c].entry].phase = "up"
    BY <1>6, ActiveCallers DEF ReleaseLease
  <2>2. LockInv'
    BY <1>1, <1>6, <2>1, ReleaseLeaseStep
  <2> QED BY <1>1, <1>6, <2>2, LeaseReleased DEF Invs
<1>7. ASSUME NEW c \in Callers, NEW config \in Wanted[c], Acquire(c, config) PROVE Invs'
  BY <1>1, <1>7, WaitingStep, CallerWaits DEF Invs
<1>8. ASSUME NEW p \in Processes, Crash(p) PROVE Invs'
  BY <1>1, <1>8, CrashStep, ProcessDies DEF Invs
<1>9. CASE DaemonStarts \/ DaemonStops
  BY <1>1, <1>9, DaemonStep, NothingLeased DEF DaemonStarts, DaemonStops, Invs
<1>10. CASE UNCHANGED vars
  <2>1. /\ UNCHANGED <<registry, entry, caller>>
        /\ UNCHANGED <<entry, sup, queue, locked, open, daemon>>
    BY <1>10 DEF vars
  <2>2. Typed'
    BY <1>1, <2>1 DEF LockInv, Typed
  <2> QED BY <1>1, <2>1, <2>2, CallersOnly, NothingLeased DEF Invs
<1> QED BY <1>2, <1>3, <1>4, <1>5, <1>6, <1>7, <1>8, <1>9, <1>10 DEF Next

THEOREM Invariant == Spec => []IInv
<1>1. Init => IInv
  BY StartsFree DEF Init, IInv, OwnerInv, OwnerFact, NoEntry, Working
<1>2. IInv /\ [Next]_vars => IInv'
  BY EveryStep, OwnerStep DEF IInv, Invs
<1> QED BY <1>1, <1>2, PTL DEF Spec

(* The archive has one writer at a time, orphans of crashed processes and  *)
(* other msgvaults included.                                               *)
THEOREM AlwaysOneWriter == Spec => []OneWriter
<1>1. IInv => OneWriter
  BY OneWrites DEF IInv, Invs
<1> QED BY <1>1, Invariant, PTL

(* A sync child has all four locks as long as it lives.                    *)
THEOREM WritersAlwaysHoldTheLocks == Spec => []WritersHoldTheLocks
<1>1. IInv => WritersHoldTheLocks
  BY WritersHold DEF IInv, Invs
<1> QED BY <1>1, Invariant, PTL

(* A lease is of a registered entry that is up, owns the archive and has   *)
(* the configuration that was asked for.                                   *)
THEOREM LeasesAlwaysLive == Spec => []LeasesAreLive
<1>1. ASSUME IInv PROVE LeasesAreLive
  <2> SUFFICES ASSUME NEW c \in Callers, caller[c].phase = "held",
                      NEW e, e = caller[c].entry
               PROVE  /\ registry[Host[c]] = e
                      /\ entry[e].phase = "up" /\ entry[e].owns /\ entry[e].closing = "no"
                      /\ sup[e] = "running"
                      /\ entry[e].config = caller[c].config
    BY DEF LeasesAreLive
  <2>1. e \in Entries /\ entry[e].phase = "up"
    BY <1>1, ActiveCallers DEF IInv
  <2>2. CallerFact(c) /\ EntryFact(e) /\ LockFact(e)
    BY <1>1, <2>1 DEF IInv, Invs, LeaseInv, LockInv
  <2>3. entry[e].host = Host[c]
    BY <2>1, <2>2, NoneIsNoEntry DEF CallerFact
  <2> QED BY <2>1, <2>2, <2>3 DEF CallerFact, EntryFact, PromiseFact, LockFact, Serving, Working
<1> QED BY <1>1, Invariant, PTL

(* Whatever owns the archive in a process is registered there, also when   *)
(* it could not give the archive up: the process has no second owner       *)
(* (msgvaultSyncRuntime.ts).                                               *)
THEOREM OwnersAlwaysRegistered == Spec => []OwnersAreRegistered
<1>1. IInv => OwnersAreRegistered
  BY DEF IInv, OwnerInv, OwnerFact, OwnersAreRegistered
<1> QED BY <1>1, Invariant, PTL

(* An entry counts its leases, and one that is up has a user.              *)
THEOREM LeasesAlwaysCounted == Spec => []LeasesAreCounted
<1>1. ASSUME IInv PROVE LeasesAreCounted
  BY <1>1 DEF IInv, Invs, LeaseInv, EntryFact, LeasesAreCounted, Users, Serving
<1> QED BY <1>1, Invariant, PTL

(* Every variable keeps its type; no count exceeds the callers.            *)
THEOREM TypeCorrect == Spec => []TypeOK
<1>1. ASSUME IInv PROVE TypeOK
  <2>1. Typed
    BY <1>1 DEF IInv, Invs, LockInv
  <2>2. ASSUME NEW e \in Entries PROVE entry[e] \in Entry
    <3>1. entry[e] \in Object /\ entry[e].refs = Cardinality(Users(e, {"held"}))
      BY <1>1, <2>1 DEF Typed, IInv, Invs, LeaseInv, EntryFact
    <3>2. Users(e, {"held"}) \in SUBSET Callers
      BY DEF Users
    <3>3. entry[e].refs \in 0 .. Cardinality(Callers)
      BY <3>1, <3>2, CallersAreFinite, UsersAreFinite, FS_Subset, FS_CardinalityType
    <3> QED BY <3>1, <3>3 DEF Object, Entry
  <2>3. entry \in [Entries -> Entry]
    BY <2>1, <2>2 DEF Typed
  <2> QED BY <2>1, <2>3 DEF Typed, TypeOK
<1> QED BY <1>1, Invariant, PTL

-----------------------------------------------------------------------------
(* The detector of item errors.  What the expression asks of a text up to  *)
(* a place: the k first letters of the token end there, behind a word      *)
(* boundary; the token and spaces do; the token, spaces and digits do.     *)

Begun(t, from, k) ==
  /\ from > 1 => t[from - 1] \notin Word
  /\ \A j \in 1 .. k : t[from + j - 1] = Token[j]

AtToken(t, i, k) == k \in 1 .. Len(Token) - 1 /\ k <= i /\ Begun(t, i - k + 1, k)

Spaced(t, from, to) ==
  Begun(t, from, Len(Token)) /\ \A j \in from + Len(Token) .. to : t[j] \in Spaces

AtSpace(t, i) == \E from \in 1 .. i : from + Len(Token) - 1 <= i /\ Spaced(t, from, i)

Counted(t, from, digits, i) ==
  digits >= from + Len(Token) /\ Spaced(t, from, digits - 1) /\ \A j \in digits .. i : t[j] \in Digits

AtDigits(t, i) == \E from, digits \in 1 .. i : Counted(t, from, digits, i)

AtCount(t, i) ==
  \E from, digits \in 1 .. i : Counted(t, from, digits, i) /\ \E j \in digits .. i : t[j] # "0"

Over(t, i) == \E from, to \in 1 .. i - 1 : from <= to /\ Matched(t, from, to)

AfterWord(t, i) == i > 0 /\ t[i] \in Word

LEMMA TokenIs ==
  /\ Len(Token) \in Nat /\ Len(Token) > 1 /\ Token[Len(Token)] = ":"
  /\ ":" \notin Word /\ ":" \notin Digits /\ ":" \notin Spaces
  /\ Digits \subseteq Word /\ Spaces \cap Word = {} /\ Spaces \cap Digits = {}
  /\ \A i \in 1 .. Len(Token) - 1 :
       Token[i] \in Word /\ Token[i] \notin Digits /\ Token[i] \notin Spaces /\ Token[i] # ":"
<1>1. Len(Token) \in Nat /\ Len(Token) > 1 /\ Token[Len(Token)] = ":"
  BY TokenIsAWord
<1>2. ":" \notin Word /\ ":" \notin Digits /\ ":" \notin Spaces
  BY DEF Word, Letters, Digits, Spaces
<1>3. Digits \subseteq Word /\ Spaces \cap Digits = {}
  BY DEF Word, Digits, Spaces
<1>4. Spaces \cap Word = {}
  BY TokenIsAWord DEF Word, Digits, Spaces
<1>5. \A i \in 1 .. Len(Token) - 1 : Token[i] \in Letters /\ Token[i] # ":"
  <2> SUFFICES ASSUME NEW i \in 1 .. Len(Token) - 1 PROVE Token[i] \in Letters /\ Token[i] # ":"
    OBVIOUS
  <2>1. i \in DOMAIN Token /\ Token[i] # ":"
    BY TokenIsAWord
  <2> QED BY <2>1 DEF Letters, Range
<1>6. \A i \in 1 .. Len(Token) - 1 : Token[i] \in Word /\ Token[i] \notin Digits /\ Token[i] \notin Spaces
  BY <1>5, TokenIsAWord DEF Word
<1> QED BY <1>1, <1>2, <1>3, <1>4, <1>5, <1>6

(* How each of them goes on at the next character.                         *)
LEMMA TokenGoesOn ==
  ASSUME NEW t, NEW i \in Nat \ {0}, NEW k \in 1 .. Len(Token) - 1
  PROVE  AtToken(t, i, k) <=>
           IF k = 1 THEN t[i] = Token[1] /\ ~AfterWord(t, i - 1)
           ELSE AtToken(t, i - 1, k - 1) /\ t[i] = Token[k]
<1>1. Len(Token) \in Nat /\ Len(Token) > 1
  BY TokenIs
<1>2. CASE k = 1
  <2>1. Begun(t, i, 1) <=> (i > 1 => t[i - 1] \notin Word) /\ t[i] = Token[1]
    <3>1. 1 .. 1 = {1} /\ i + 1 - 1 = i
      OBVIOUS
    <3> QED BY <3>1 DEF Begun
  <2>2. i - k + 1 = i /\ k <= i /\ (i - 1 > 0 <=> i > 1)
    BY <1>2
  <2> QED BY <1>2, <2>1, <2>2 DEF AtToken, AfterWord
<1>3. CASE k # 1
  <2>1. /\ (i - 1) - (k - 1) + 1 = i - k + 1 /\ k - 1 \in 1 .. Len(Token) - 1
        /\ 1 .. k = (1 .. k - 1) \cup {k} /\ (i - k + 1) + k - 1 = i
        /\ (k <= i <=> k - 1 <= i - 1)
    BY <1>1, <1>3
  <2>2. Begun(t, i - k + 1, k) <=> Begun(t, i - k + 1, k - 1) /\ t[i] = Token[k]
    BY <2>1 DEF Begun
  <2> QED BY <1>3, <2>1, <2>2 DEF AtToken
<1> QED BY <1>2, <1>3

LEMMA SpaceGoesOn ==
  ASSUME NEW t, NEW i \in Nat \ {0}
  PROVE  AtSpace(t, i) <=>
           \/ AtToken(t, i - 1, Len(Token) - 1) /\ t[i] = ":"
           \/ AtSpace(t, i - 1) /\ t[i] \in Spaces
<1> DEFINE n == Len(Token)
<1>1. n \in Nat /\ n > 1 /\ Token[n] = ":"
  BY TokenIs
<1> HIDE DEF n
<1>2. ASSUME NEW from \in 1 .. i, from + n - 1 = i
      PROVE  Spaced(t, from, i) <=> AtToken(t, i - 1, n - 1) /\ t[i] = ":"
  <2>1. /\ from = (i - 1) - (n - 1) + 1 /\ n - 1 \in 1 .. n - 1 /\ n - 1 <= i - 1
        /\ from + n .. i = {} /\ 1 .. n = (1 .. n - 1) \cup {n}
    BY <1>1, <1>2
  <2>2. Begun(t, from, n) <=> Begun(t, from, n - 1) /\ t[i] = ":"
    BY <1>1, <1>2, <2>1 DEF Begun
  <2> QED BY <2>1, <2>2 DEF AtToken, Spaced, n
<1>3. ASSUME NEW from \in 1 .. i, from + n - 1 < i
      PROVE  /\ from \in 1 .. i - 1 /\ from + n - 1 <= i - 1
             /\ Spaced(t, from, i) <=> Spaced(t, from, i - 1) /\ t[i] \in Spaces
  <2>1. from \in 1 .. i - 1 /\ from + n - 1 <= i - 1 /\ from + n .. i = (from + n .. i - 1) \cup {i}
    BY <1>1, <1>3
  <2> QED BY <2>1 DEF Spaced, n
<1>4. ASSUME AtSpace(t, i)
      PROVE  \/ AtToken(t, i - 1, n - 1) /\ t[i] = ":"
             \/ AtSpace(t, i - 1) /\ t[i] \in Spaces
  <2>1. PICK from \in 1 .. i : from + n - 1 <= i /\ Spaced(t, from, i)
    BY <1>4 DEF AtSpace, n
  <2>2. from + n - 1 = i \/ from + n - 1 < i
    BY <1>1, <2>1
  <2> QED BY <1>2, <1>3, <2>1, <2>2 DEF AtSpace, n
<1>5. ASSUME AtToken(t, i - 1, n - 1), t[i] = ":" PROVE AtSpace(t, i)
  <2>1. n - 1 <= i - 1
    BY <1>5 DEF AtToken
  <2>2. i - n + 1 \in 1 .. i /\ (i - n + 1) + n - 1 = i /\ i <= i
    BY <1>1, <2>1
  <2> QED BY <1>2, <1>5, <2>2 DEF AtSpace, n
<1>6. ASSUME AtSpace(t, i - 1), t[i] \in Spaces PROVE AtSpace(t, i)
  <2>1. PICK from \in 1 .. i - 1 : from + n - 1 <= i - 1 /\ Spaced(t, from, i - 1)
    BY <1>6 DEF AtSpace, n
  <2>2. from \in 1 .. i /\ from + n - 1 < i /\ from + n - 1 <= i
    BY <1>1, <2>1
  <2> QED BY <1>3, <1>6, <2>1, <2>2 DEF AtSpace, n
<1> QED BY <1>4, <1>5, <1>6 DEF n

(* The digits up to i - 1 and one more, or the first.                      *)
LEMMA DigitsGoOn ==
  ASSUME NEW t, NEW i \in Nat \ {0}
  PROVE  /\ AtDigits(t, i) <=> t[i] \in Digits /\ (AtSpace(t, i - 1) \/ AtDigits(t, i - 1))
         /\ AtCount(t, i) <=> /\ t[i] \in Digits
                              /\ \/ t[i] # "0" /\ (AtSpace(t, i - 1) \/ AtDigits(t, i - 1))
                                 \/ AtCount(t, i - 1)
<1> DEFINE n == Len(Token)
<1>1. n \in Nat /\ n > 1
  BY TokenIs
<1> HIDE DEF n
<1>2. ASSUME NEW from \in 1 .. i
      PROVE  Counted(t, from, i, i) <=>
               /\ from \in 1 .. i - 1 /\ from + n - 1 <= i - 1 /\ Spaced(t, from, i - 1)
               /\ t[i] \in Digits
  <2>1. (i >= from + n <=> from + n - 1 <= i - 1) /\ i .. i = {i} /\ (i >= from + n => from \in 1 .. i - 1)
    BY <1>1
  <2> QED BY <2>1 DEF Counted, n
<1>3. ASSUME NEW from \in 1 .. i, NEW digits \in 1 .. i - 1
      PROVE  /\ Counted(t, from, digits, i) <=> Counted(t, from, digits, i - 1) /\ t[i] \in Digits
             /\ Counted(t, from, digits, i) => from \in 1 .. i - 1
             /\ (\E j \in digits .. i : t[j] # "0")
                  <=> (\E j \in digits .. i - 1 : t[j] # "0") \/ t[i] # "0"
  <2>1. digits .. i = (digits .. i - 1) \cup {i} /\ (digits >= from + n => from \in 1 .. i - 1)
    BY <1>1, <1>3
  <2> QED BY <2>1 DEF Counted, n
<1>4. AtSpace(t, i - 1) <=> \E from \in 1 .. i - 1 : from + n - 1 <= i - 1 /\ Spaced(t, from, i - 1)
  BY DEF AtSpace, n
<1>5. 1 .. i = (1 .. i - 1) \cup {i} /\ i \in 1 .. i /\ i .. i = {i}
  OBVIOUS
<1>6. ASSUME AtDigits(t, i) PROVE t[i] \in Digits /\ (AtSpace(t, i - 1) \/ AtDigits(t, i - 1))
  <2>1. PICK from \in 1 .. i, digits \in 1 .. i : Counted(t, from, digits, i)
    BY <1>6 DEF AtDigits
  <2>2. CASE digits = i
    BY <1>2, <1>4, <2>1, <2>2
  <2>3. CASE digits \in 1 .. i - 1
    BY <1>3, <2>1, <2>3 DEF AtDigits
  <2> QED BY <1>5, <2>2, <2>3
<1>7. ASSUME t[i] \in Digits, AtSpace(t, i - 1) PROVE AtDigits(t, i) /\ (t[i] # "0" => AtCount(t, i))
  <2>1. PICK from \in 1 .. i - 1 : from + n - 1 <= i - 1 /\ Spaced(t, from, i - 1)
    BY <1>4, <1>7
  <2>2. from \in 1 .. i /\ Counted(t, from, i, i)
    BY <1>2, <1>5, <1>7, <2>1
  <2> QED BY <1>5, <2>2 DEF AtDigits, AtCount
<1>8. ASSUME t[i] \in Digits, AtDigits(t, i - 1) PROVE AtDigits(t, i) /\ (t[i] # "0" => AtCount(t, i))
  <2>1. PICK from \in 1 .. i - 1, digits \in 1 .. i - 1 : Counted(t, from, digits, i - 1)
    BY <1>8 DEF AtDigits
  <2>2. from \in 1 .. i /\ digits \in 1 .. i
    BY <1>5
  <2>3. Counted(t, from, digits, i) /\ (t[i] # "0" => \E j \in digits .. i : t[j] # "0")
    BY <1>3, <1>8, <2>1, <2>2
  <2> QED BY <2>2, <2>3 DEF AtDigits, AtCount
<1>9. ASSUME AtCount(t, i)
      PROVE  /\ t[i] \in Digits
             /\ \/ t[i] # "0" /\ (AtSpace(t, i - 1) \/ AtDigits(t, i - 1))
                \/ AtCount(t, i - 1)
  <2>1. PICK from \in 1 .. i, digits \in 1 .. i :
          Counted(t, from, digits, i) /\ \E j \in digits .. i : t[j] # "0"
    BY <1>9 DEF AtCount
  <2>2. CASE digits = i
    <3>1. t[i] # "0"
      BY <1>5, <2>1, <2>2
    <3> QED BY <1>2, <1>4, <2>1, <2>2, <3>1
  <2>3. CASE digits \in 1 .. i - 1
    <3>1. Counted(t, from, digits, i - 1) /\ t[i] \in Digits /\ from \in 1 .. i - 1
      BY <1>3, <2>1, <2>3
    <3>2. (\E j \in digits .. i - 1 : t[j] # "0") \/ t[i] # "0"
      BY <1>3, <2>1, <2>3
    <3> QED BY <2>3, <3>1, <3>2 DEF AtDigits, AtCount
  <2> QED BY <1>5, <2>2, <2>3
<1>10. ASSUME t[i] \in Digits, AtCount(t, i - 1) PROVE AtCount(t, i)
  <2>1. PICK from \in 1 .. i - 1, digits \in 1 .. i - 1 :
          Counted(t, from, digits, i - 1) /\ \E j \in digits .. i - 1 : t[j] # "0"
    BY <1>10 DEF AtCount
  <2>2. from \in 1 .. i /\ digits \in 1 .. i
    BY <1>5
  <2>3. Counted(t, from, digits, i) /\ \E j \in digits .. i : t[j] # "0"
    BY <1>3, <1>10, <2>1, <2>2
  <2> QED BY <2>2, <2>3 DEF AtCount
<1> QED BY <1>6, <1>7, <1>8, <1>9, <1>10

(* A match is a positive count that ends at a word boundary.               *)
LEMMA MatchesAre ==
  ASSUME NEW t, NEW from \in Nat \ {0}, NEW to \in Nat, from <= to
  PROVE  Matched(t, from, to) <=>
           /\ \E digits \in 1 .. to : Counted(t, from, digits, to) /\ \E j \in digits .. to : t[j] # "0"
           /\ to < Len(t) => t[to + 1] \notin Word
<1> DEFINE n == Len(Token)
<1>1. n \in Nat /\ n > 1
  BY TokenIs
<1>2. \A digits : digits \in from + n .. to <=> digits \in 1 .. to /\ digits >= from + n
  BY <1>1
<1>3. Matched(t, from, to) <=>
        /\ \E digits \in from + n .. to :
             /\ Spaced(t, from, digits - 1) /\ (\A j \in digits .. to : t[j] \in Digits)
             /\ \E j \in digits .. to : t[j] # "0"
        /\ to < Len(t) => t[to + 1] \notin Word
  BY DEF Matched, Spaced, Begun
<1> HIDE DEF n
<1> QED BY <1>2, <1>3 DEF Counted, n

LEMMA EndsGoOn ==
  ASSUME NEW t, Len(t) \in Nat, NEW i \in 1 .. Len(t)
  PROVE  Over(t, i) <=> Over(t, i - 1) \/ (AtCount(t, i - 1) /\ t[i] \notin Word)
<1>1. /\ i - 1 \in Nat /\ i - 1 < Len(t) /\ (i - 1) + 1 = i
      /\ 1 .. (i - 1) - 1 \subseteq 1 .. i - 1
      /\ \A k \in 1 .. i - 1 : k \in Nat \ {0} /\ (k = i - 1 \/ k \in 1 .. (i - 1) - 1)
  OBVIOUS
<1>2. ASSUME NEW from \in 1 .. i - 1
      PROVE  Matched(t, from, i - 1) <=>
               /\ \E digits \in 1 .. i - 1 :
                    Counted(t, from, digits, i - 1) /\ \E j \in digits .. i - 1 : t[j] # "0"
               /\ t[i] \notin Word
  <2>1. from \in Nat \ {0} /\ from <= i - 1
    BY <1>1
  <2> QED BY <1>1, <2>1, MatchesAre
<1>3. ASSUME Over(t, i) PROVE Over(t, i - 1) \/ (AtCount(t, i - 1) /\ t[i] \notin Word)
  <2>1. PICK from \in 1 .. i - 1, to \in 1 .. i - 1 : from <= to /\ Matched(t, from, to)
    BY <1>3 DEF Over
  <2>2. CASE to = i - 1
    BY <1>2, <2>1, <2>2 DEF AtCount
  <2>3. CASE to \in 1 .. (i - 1) - 1
    <3>1. from \in 1 .. (i - 1) - 1
      BY <2>1, <2>3
    <3> QED BY <2>1, <2>3, <3>1 DEF Over
  <2> QED BY <1>1, <2>2, <2>3
<1>4. ASSUME Over(t, i - 1) PROVE Over(t, i)
  BY <1>1, <1>4 DEF Over
<1>5. ASSUME AtCount(t, i - 1), t[i] \notin Word PROVE Over(t, i)
  <2>1. PICK from \in 1 .. i - 1, digits \in 1 .. i - 1 :
          Counted(t, from, digits, i - 1) /\ \E j \in digits .. i - 1 : t[j] # "0"
    BY <1>5 DEF AtCount
  <2>2. Matched(t, from, i - 1)
    BY <1>2, <1>5, <2>1
  <2>3. i - 1 \in 1 .. i - 1 /\ from <= i - 1
    OBVIOUS
  <2> QED BY <2>2, <2>3 DEF Over
<1> QED BY <1>3, <1>4, <1>5
-----------------------------------------------------------------------------
(* What the detector keeps is where the expression stands.                 *)

Detector ==
  [stage : {"search", "token", "space", "digits"}, index : Nat, afterWord : BOOLEAN,
   nonzero : BOOLEAN, sticky : BOOLEAN]

LEMMA SearchingIs ==
  ASSUME NEW d \in Detector, NEW c
  PROVE  /\ Searching(d, c) \in Detector
         /\ Searching(d, c).stage = (IF ~d.afterWord /\ c = Token[1] THEN "token" ELSE "search")
         /\ ~d.afterWord /\ c = Token[1] => Searching(d, c).index = 1
         /\ Searching(d, c).sticky = d.sticky
BY DEF Searching, Detector

(* Whether the character ends what the detector was in.                    *)
Restarts(d, c) ==
  \/ d.stage = "search"
  \/ d.stage = "token" /\ c # Token[d.index + 1]
  \/ d.stage = "space" /\ c \notin Spaces \cup Digits
  \/ d.stage = "digits" /\ c \notin Digits

Goes(d, c) == d.stage = "token" /\ c = Token[d.index + 1]

Begins(d, c) == Restarts(d, c) /\ ~d.afterWord /\ c = Token[1]

StageAfter(d, c, x) ==
  /\ x.stage = "token" <=> Begins(d, c) \/ (Goes(d, c) /\ d.index + 1 # Len(Token))
  /\ Begins(d, c) => x.index = 1
  /\ Goes(d, c) => x.index = d.index + 1
  /\ x.stage = "space" <=>
       (Goes(d, c) /\ d.index + 1 = Len(Token)) \/ (d.stage = "space" /\ c \in Spaces)
  /\ x.stage = "digits" <=> c \in Digits /\ d.stage \in {"space", "digits"}

CountAfter(d, c, x) ==
  /\ x.stage = "digits" => x.nonzero = (c # "0" \/ (d.stage = "digits" /\ d.nonzero))
  /\ x.sticky = (d.sticky \/ (d.stage = "digits" /\ c \notin Word /\ d.nonzero))

LEMMA PushedIs ==
  ASSUME NEW d \in Detector, NEW c
  PROVE  /\ Pushed(d, c) \in Detector /\ Pushed(d, c).afterWord = (c \in Word)
         /\ StageAfter(d, c, Pushed(d, c)) /\ CountAfter(d, c, Pushed(d, c))
<1> DEFINE next == CASE d.stage = "digits" -> InDigits(d, c)
                     [] d.stage = "space" -> InSpace(d, c)
                     [] d.stage = "token" -> InToken(d, c)
                     [] d.stage = "search" -> Searching(d, c)
           Claim(y) == y \in Detector /\ StageAfter(d, c, y) /\ CountAfter(d, c, y)
<1>1. Pushed(d, c) = [next EXCEPT !.afterWord = c \in Word]
  BY DEF Pushed
<1>2. Digits \subseteq Word /\ Spaces \cap Digits = {}
  BY TokenIs
<1>3. /\ d.stage = "search" => next = Searching(d, c)
      /\ d.stage = "token" => next = InToken(d, c)
      /\ d.stage = "space" => next = InSpace(d, c)
      /\ d.stage = "digits" => next = InDigits(d, c)
  OBVIOUS
<1>4. d.stage \in {"search", "token", "space", "digits"} /\ d.index \in Nat
  BY DEF Detector
<1> HIDE DEF next
<1>5. ASSUME Restarts(d, c), d.stage # "digits", next = Searching(d, c) PROVE Claim(next)
  <2>1. ~Goes(d, c) /\ ~(d.stage = "space" /\ c \in Spaces)
        /\ ~(c \in Digits /\ d.stage \in {"space", "digits"})
    BY <1>5 DEF Restarts, Goes
  <2>2. next \in Detector /\ StageAfter(d, c, next)
    BY <1>5, <2>1, SearchingIs DEF StageAfter, Begins
  <2>3. CountAfter(d, c, next)
    <3>1. next.stage # "digits" /\ next.sticky = d.sticky
      BY <1>5, SearchingIs
    <3>2. d.sticky \in BOOLEAN
      BY DEF Detector
    <3> QED BY <1>5, <3>1, <3>2 DEF CountAfter
  <2> QED BY <2>2, <2>3
<1>6. ASSUME d.stage = "token" /\ c = Token[d.index + 1] PROVE Claim(next)
  <2> DEFINE stage == IF d.index + 1 = Len(Token) THEN "space" ELSE "token"
             index == d.index + 1
  <2>1. next = [d EXCEPT !.index = index, !.stage = stage]
    BY <1>3, <1>6 DEF InToken
  <2>0. stage \in {"space", "token"} /\ index \in Nat
    BY <1>4
  <2> HIDE DEF stage, index
  <2>2. next \in Detector /\ next.index = index /\ next.stage = stage /\ next.sticky = d.sticky
    <3>1. next \in Detector /\ next.index = index
      BY <2>1, <2>0 DEF Detector
    <3>2. next.stage = stage /\ next.sticky = d.sticky
      BY <2>1 DEF Detector
    <3> QED BY <3>1, <3>2
  <2>3. ~Begins(d, c) /\ Goes(d, c) /\ d.sticky \in BOOLEAN
    BY <1>6 DEF Begins, Restarts, Goes, Detector
  <2>4. StageAfter(d, c, next)
    BY <1>6, <2>2, <2>3 DEF StageAfter, stage, index
  <2>5. CountAfter(d, c, next)
    BY <1>6, <2>2, <2>3 DEF CountAfter, stage
  <2> QED BY <2>2, <2>4, <2>5
<1>7. ASSUME d.stage = "space" /\ c \in Spaces PROVE Claim(next)
  <2>1. next = d
    BY <1>2, <1>3, <1>7 DEF InSpace
  <2>2. ~Begins(d, c) /\ ~Goes(d, c) /\ c \notin Digits /\ d.sticky \in BOOLEAN
    BY <1>2, <1>7 DEF Begins, Restarts, Goes, Detector
  <2> QED BY <1>7, <2>1, <2>2 DEF StageAfter, CountAfter
<1>8. ASSUME d.stage = "space" /\ c \in Digits PROVE Claim(next)
  <2>1. next = [d EXCEPT !.stage = "digits", !.nonzero = c # "0"]
    <3>1. c \notin Spaces
      BY <1>2, <1>8
    <3> QED BY <1>3, <1>8, <3>1 DEF InSpace
  <2>2. next \in Detector /\ next.stage = "digits" /\ next.sticky = d.sticky
    BY <2>1 DEF Detector
  <2>3. next.nonzero = (c # "0")
    BY <2>1 DEF Detector
  <2>4. ~Begins(d, c) /\ ~Goes(d, c) /\ c \notin Spaces /\ d.sticky \in BOOLEAN
    BY <1>2, <1>8 DEF Begins, Restarts, Goes, Detector
  <2>5. StageAfter(d, c, next)
    BY <1>8, <2>2, <2>4 DEF StageAfter
  <2>6. CountAfter(d, c, next)
    BY <1>8, <2>2, <2>3, <2>4 DEF CountAfter
  <2> QED BY <2>2, <2>5, <2>6
<1>9. ASSUME d.stage = "digits" /\ c \in Digits PROVE Claim(next)
  <2>1. next = [d EXCEPT !.nonzero = @ \/ c # "0"]
    BY <1>3, <1>9 DEF InDigits
  <2>2. next \in Detector /\ next.stage = "digits" /\ next.sticky = d.sticky
    BY <1>9, <2>1 DEF Detector
  <2>3. next.nonzero = (d.nonzero \/ c # "0")
    BY <2>1 DEF Detector
  <2>4. ~Begins(d, c) /\ ~Goes(d, c) /\ c \in Word /\ d.sticky \in BOOLEAN /\ d.nonzero \in BOOLEAN
    BY <1>2, <1>9 DEF Begins, Restarts, Goes, Detector
  <2>5. StageAfter(d, c, next)
    BY <1>9, <2>2, <2>4 DEF StageAfter
  <2>6. CountAfter(d, c, next)
    BY <1>9, <2>2, <2>3, <2>4 DEF CountAfter
  <2> QED BY <2>2, <2>5, <2>6
<1>10. ASSUME d.stage = "digits" /\ c \notin Digits PROVE Claim(next)
  <2> DEFINE s == Searching(d, c)
  <2>1. next = [s EXCEPT !.sticky = @ \/ (c \notin Word /\ d.nonzero)]
    BY <1>3, <1>10 DEF InDigits
  <2>2. /\ s \in Detector /\ s.stage = (IF ~d.afterWord /\ c = Token[1] THEN "token" ELSE "search")
        /\ (~d.afterWord /\ c = Token[1] => s.index = 1)
        /\ s.sticky = d.sticky
    BY SearchingIs
  <2> HIDE DEF s
  <2>3. next \in Detector /\ next.stage = s.stage /\ next.index = s.index
    BY <2>1, <2>2 DEF Detector
  <2>4. next.sticky = (d.sticky \/ (c \notin Word /\ d.nonzero))
    BY <2>1, <2>2 DEF Detector
  <2>5. ~Goes(d, c) /\ (Begins(d, c) <=> ~d.afterWord /\ c = Token[1])
    BY <1>10 DEF Begins, Restarts, Goes
  <2>6. StageAfter(d, c, next)
    BY <1>10, <2>2, <2>3, <2>5 DEF StageAfter
  <2>7. CountAfter(d, c, next)
    BY <1>10, <2>2, <2>3, <2>4 DEF CountAfter
  <2> QED BY <2>3, <2>6, <2>7
<1>11. Claim(next)
  <2>1. CASE d.stage = "search"
    BY <1>3, <1>5, <2>1 DEF Restarts
  <2>2. CASE d.stage = "token" /\ c # Token[d.index + 1]
    <3>1. next = Searching(d, c)
      BY <1>3, <2>2 DEF InToken
    <3> QED BY <1>5, <2>2, <3>1 DEF Restarts
  <2>3. CASE d.stage = "space" /\ c \notin Spaces /\ c \notin Digits
    <3>1. next = Searching(d, c)
      BY <1>3, <2>3 DEF InSpace
    <3> QED BY <1>5, <2>3, <3>1 DEF Restarts
  <2> HIDE DEF Claim
  <2> QED BY <1>4, <1>6, <1>7, <1>8, <1>9, <1>10, <2>1, <2>2, <2>3
<1>12. /\ Pushed(d, c) \in Detector
       /\ Pushed(d, c).stage = next.stage /\ Pushed(d, c).index = next.index
       /\ Pushed(d, c).nonzero = next.nonzero /\ Pushed(d, c).sticky = next.sticky
  <2> DEFINE after == c \in Word
  <2>1. next \in Detector /\ after \in BOOLEAN /\ Pushed(d, c) = [next EXCEPT !.afterWord = after]
    BY <1>1, <1>11
  <2> HIDE DEF after
  <2>2. Pushed(d, c) \in Detector /\ Pushed(d, c).stage = next.stage /\ Pushed(d, c).index = next.index
    BY <2>1 DEF Detector
  <2>3. Pushed(d, c).nonzero = next.nonzero /\ Pushed(d, c).sticky = next.sticky
    BY <2>1 DEF Detector
  <2> QED BY <2>2, <2>3
<1>13. Pushed(d, c).afterWord = (c \in Word)
  BY <1>1, <1>11 DEF Detector
<1>14. StageAfter(d, c, Pushed(d, c))
  BY <1>11, <1>12 DEF StageAfter
<1>15. CountAfter(d, c, Pushed(d, c))
  BY <1>11, <1>12 DEF CountAfter
<1> QED BY <1>12, <1>13, <1>14, <1>15

Follows(t, i, d) ==
  /\ d.afterWord = AfterWord(t, i)
  /\ d.sticky = Over(t, i)
  /\ d.stage = "token" => d.index \in 1 .. Len(Token) - 1
  /\ \A k \in 1 .. Len(Token) - 1 : AtToken(t, i, k) <=> d.stage = "token" /\ d.index = k
  /\ AtSpace(t, i) <=> d.stage = "space"
  /\ AtDigits(t, i) <=> d.stage = "digits"
  /\ AtCount(t, i) <=> d.stage = "digits" /\ d.nonzero

LEMMA DetectorFollows ==
  ASSUME NEW t, Len(t) \in Nat, NEW i \in 1 .. Len(t), NEW d \in Detector, Follows(t, i - 1, d)
  PROVE  Follows(t, i, Pushed(d, t[i]))
<1> DEFINE c == t[i]
           x == Pushed(d, c)
           n == Len(Token)
           goes == Goes(d, c)
           begins == Begins(d, c)
<1>1. /\ x \in Detector /\ x.afterWord = (c \in Word)
      /\ x.stage = "token" <=> begins \/ (goes /\ d.index + 1 # n)
      /\ begins => x.index = 1
      /\ goes => x.index = d.index + 1
      /\ x.stage = "space" <=> (goes /\ d.index + 1 = n) \/ (d.stage = "space" /\ c \in Spaces)
      /\ x.stage = "digits" <=> c \in Digits /\ d.stage \in {"space", "digits"}
      /\ x.stage = "digits" => x.nonzero = (c # "0" \/ (d.stage = "digits" /\ d.nonzero))
      /\ x.sticky = (d.sticky \/ (d.stage = "digits" /\ c \notin Word /\ d.nonzero))
  BY PushedIs DEF StageAfter, CountAfter
<1>2. i \in Nat \ {0} /\ i > 0
  OBVIOUS
<1>3. /\ n \in Nat /\ n > 1 /\ Token[n] = ":"
      /\ Digits \subseteq Word /\ Spaces \cap Word = {} /\ Spaces \cap Digits = {}
      /\ \A j \in 1 .. n - 1 :
           Token[j] \in Word /\ Token[j] \notin Digits /\ Token[j] \notin Spaces /\ Token[j] # ":"
  BY TokenIs
<1> HIDE DEF x, n
<1>4. x.afterWord = AfterWord(t, i)
  BY <1>1, <1>2 DEF AfterWord
<1>5. x.sticky = Over(t, i)
  <2>1. Over(t, i) <=> Over(t, i - 1) \/ (AtCount(t, i - 1) /\ c \notin Word)
    BY EndsGoOn
  <2>2. (d.sticky <=> Over(t, i - 1)) /\ (AtCount(t, i - 1) <=> d.stage = "digits" /\ d.nonzero)
    BY DEF Follows
  <2>3. x.sticky <=> d.sticky \/ (d.stage = "digits" /\ c \notin Word /\ d.nonzero)
    BY <1>1
  <2>4. x.sticky \in BOOLEAN /\ Over(t, i) \in BOOLEAN
    BY <1>1 DEF Detector, Over
  <2> HIDE DEF c
  <2>5. x.sticky <=> Over(t, i)
    BY <2>1, <2>2, <2>3
  <2> QED BY <2>4, <2>5
<1>6. AtSpace(t, i) <=> x.stage = "space"
  <2>1. AtToken(t, i - 1, n - 1) <=> d.stage = "token" /\ d.index = n - 1
    BY <1>3 DEF Follows, n
  <2>2. d.stage = "token" => d.index \in 1 .. n - 1
    BY DEF Follows, n
  <2>3. AtToken(t, i - 1, n - 1) /\ c = ":" <=> goes /\ d.index + 1 = n
    BY <1>3, <2>1, <2>2 DEF Goes
  <2>4. AtSpace(t, i) <=> \/ AtToken(t, i - 1, n - 1) /\ c = ":"
                          \/ AtSpace(t, i - 1) /\ c \in Spaces
    BY <1>2, SpaceGoesOn DEF n
  <2> QED BY <1>1, <2>3, <2>4 DEF Follows
<1>7. AtDigits(t, i) <=> x.stage = "digits"
  BY <1>1, <1>2, DigitsGoOn DEF Follows
<1>8. AtCount(t, i) <=> x.stage = "digits" /\ x.nonzero
  <2>1. AtCount(t, i) <=> /\ c \in Digits
                          /\ \/ c # "0" /\ (AtSpace(t, i - 1) \/ AtDigits(t, i - 1))
                             \/ AtCount(t, i - 1)
    BY <1>2, DigitsGoOn
  <2> QED BY <1>1, <2>1 DEF Follows
<1>9. d.stage = "token" => d.index \in 1 .. n - 1
  BY DEF Follows, n
<1>10. d.stage = "token" => d.afterWord
  <2> SUFFICES ASSUME d.stage = "token" PROVE d.afterWord
    OBVIOUS
  <2>1. AtToken(t, i - 1, d.index) /\ d.index \in 1 .. n - 1
    BY <1>9 DEF Follows, n
  <2>2. t[i - 1] = Token[d.index] /\ i - 1 > 0
    <3>1. /\ d.index \in 1 .. d.index /\ ((i - 1) - d.index + 1) + d.index - 1 = i - 1
          /\ d.index <= i - 1 /\ i - 1 > 0
      BY <2>1 DEF AtToken
    <3> QED BY <2>1, <3>1 DEF AtToken, Begun
  <2> QED BY <1>3, <2>1, <2>2 DEF Follows, AfterWord
<1>11. begins <=> c = Token[1] /\ ~AfterWord(t, i - 1)
  <2>1. d.afterWord = AfterWord(t, i - 1)
    BY DEF Follows
  <2>2. d.stage = "digits" /\ c = Token[1] => Restarts(d, c)
    BY <1>3 DEF Restarts
  <2>3. d.stage = "space" /\ c = Token[1] => Restarts(d, c)
    BY <1>3 DEF Restarts
  <2>4. d.stage = "search" => Restarts(d, c)
    BY DEF Restarts
  <2>5. d.stage \in {"search", "token", "space", "digits"}
    BY DEF Detector
  <2>6. Begins(d, c) <=> Restarts(d, c) /\ ~d.afterWord /\ c = Token[1]
    BY DEF Begins
  <2> HIDE DEF c
  <2> QED BY <1>10, <2>1, <2>2, <2>3, <2>4, <2>5, <2>6
<1>12. begins => ~goes
  BY <1>10 DEF Goes, Begins
<1>13. x.stage = "token" => x.index \in 1 .. n - 1
  <2>1. goes /\ d.index + 1 # n => d.index + 1 \in 1 .. n - 1
    BY <1>3, <1>9 DEF Goes
  <2>2. 1 \in 1 .. n - 1
    BY <1>3
  <2> QED BY <1>1, <2>1, <2>2
<1>14. ASSUME NEW k \in 1 .. n - 1 PROVE AtToken(t, i, k) <=> x.stage = "token" /\ x.index = k
  <2>1. AtToken(t, i, k) <=> IF k = 1 THEN c = Token[1] /\ ~AfterWord(t, i - 1)
                             ELSE AtToken(t, i - 1, k - 1) /\ c = Token[k]
    BY <1>2, <1>14, TokenGoesOn DEF n
  <2>2. CASE k = 1
    <3>1. goes => d.index + 1 # 1
      BY <1>9 DEF Goes
    <3>2. x.stage = "token" /\ x.index = 1 <=> begins
      BY <1>1, <1>12, <3>1
    <3> QED BY <1>11, <2>1, <2>2, <3>2
  <2>3. CASE k # 1
    <3>1. k - 1 \in 1 .. n - 1 /\ (k - 1) + 1 = k /\ k # n
      BY <1>3, <1>14, <2>3
    <3>2. AtToken(t, i - 1, k - 1) <=> d.stage = "token" /\ d.index = k - 1
      BY <3>1 DEF Follows, n
    <3>3. d.stage = "token" => (d.index = k - 1 <=> d.index + 1 = k)
      BY <1>9, <3>1
    <3>4. AtToken(t, i, k) <=> goes /\ d.index + 1 = k
      BY <2>1, <2>3, <3>2, <3>3 DEF Goes
    <3>5. x.stage = "token" /\ x.index = k <=> goes /\ d.index + 1 = k
      BY <1>1, <2>3, <3>1
    <3> QED BY <3>4, <3>5
  <2> QED BY <2>2, <2>3
<1> QED BY <1>4, <1>5, <1>6, <1>7, <1>8, <1>13, <1>14 DEF Follows, n, x
(* Induction, of a set of numbers: the provers have no rule over an        *)
(* operator, but a set that is not empty has a least member.               *)
LEMMA NumbersInduct ==
  ASSUME NEW Q, 0 \in Q, \A k \in Nat : k \in Q => k + 1 \in Q PROVE Nat \subseteq Q
<1> DEFINE S == Nat \ Q
<1> SUFFICES ASSUME S # {} PROVE FALSE
  OBVIOUS
<1>1. PICK m \in S : \A k \in S : ~(<<k, m>> \in OpToRel(<, Nat))
  BY NatLessThanWellFounded, WFMin
<1>2. \A k \in S : ~(k < m)
  BY <1>1, Zenon DEF OpToRel
<1>3. m \in Nat /\ m # 0 /\ m - 1 \in Nat /\ m - 1 < m
  OBVIOUS
<1>4. m - 1 \in Q
  BY <1>2, <1>3
<1>5. (m - 1) + 1 \in Q /\ (m - 1) + 1 = m
  BY <1>3, <1>4
<1> QED BY <1>5

(* Seen(text) is the recursion its definition writes.                      *)
LEMMA SeenIs ==
  ASSUME NEW t, Len(t) \in Nat
  PROVE  /\ Seen(t)[0] = Start
         /\ \A i \in 1 .. Len(t) : Seen(t)[i] = Pushed(Seen(t)[i - 1], t[i])
<1> DEFINE n == Len(t)
           value(g) == [i \in 0 .. n |-> IF i = 0 THEN Start ELSE Pushed(g[i - 1], t[i])]
           UpTo(g, k) == g[0] = Start /\ \A i \in 1 .. n : i <= k => g[i] = Pushed(g[i - 1], t[i])
           K == {k \in Nat : \E g \in [0 .. n -> Detector] : UpTo(g, k)}
           seen == Seen(t)
<1>1. seen = CHOOSE g : g = value(g)
  BY DEF Seen
<1>2. 0 \in K
  <2>1. Start \in Detector
    BY DEF Start, Detector
  <2>2. [i \in 0 .. n |-> Start] \in [0 .. n -> Detector] /\ UpTo([i \in 0 .. n |-> Start], 0)
    BY <2>1
  <2> QED BY <2>2
<1>3. ASSUME NEW k \in Nat, k \in K PROVE k + 1 \in K
  <2>1. PICK g \in [0 .. n -> Detector] : UpTo(g, k)
    BY <1>3
  <2>2. CASE k + 1 \notin 1 .. n
    <3>1. UpTo(g, k + 1)
      BY <2>1, <2>2
    <3> QED BY <3>1
  <2>3. CASE k + 1 \in 1 .. n
    <3> DEFINE d == Pushed(g[k], t[k + 1])
               h == [g EXCEPT ![k + 1] = d]
    <3>1. d \in Detector
      <4>1. k \in 0 .. n
        BY <2>3
      <4> QED BY <4>1, PushedIs
    <3>2. h \in [0 .. n -> Detector] /\ h[k + 1] = d /\ \A i \in 0 .. n : i # k + 1 => h[i] = g[i]
      <4> HIDE DEF d
      <4> QED BY <2>3, <3>1
    <3>3. h[0] = Start
      BY <2>1, <3>2
    <3>4. ASSUME NEW i \in 1 .. n, i <= k + 1 PROVE h[i] = Pushed(h[i - 1], t[i])
      <4> HIDE DEF h, d
      <4>1. i - 1 \in 0 .. n /\ i - 1 # k + 1 /\ i \in 0 .. n
        BY <3>4
      <4>2. h[i - 1] = g[i - 1]
        BY <3>2, <4>1
      <4>3. CASE i = k + 1
        BY <3>2, <4>2, <4>3 DEF d
      <4>4. CASE i # k + 1
        BY <2>1, <3>2, <3>4, <4>1, <4>2, <4>4
      <4> QED BY <4>3, <4>4
    <3>5. UpTo(h, k + 1)
      <4> HIDE DEF h
      <4> QED BY <3>3, <3>4
    <3> HIDE DEF h
    <3>6. h \in [0 .. n -> Detector]
      BY <3>2
    <3>7. \E x \in [0 .. n -> Detector] : UpTo(x, k + 1)
      <4> HIDE DEF UpTo
      <4> QED BY <3>5, <3>6
    <3> QED BY <3>7
  <2> QED BY <2>2, <2>3
<1>4. n \in K
  <2> HIDE DEF K
  <2> QED BY <1>2, <1>3, NumbersInduct
<1>5. PICK g \in [0 .. n -> Detector] : UpTo(g, n)
  BY <1>4
<1>6. g = value(g)
  BY <1>5
<1>7. seen = value(seen)
  <2> HIDE DEF value, seen
  <2> QED BY <1>1, <1>6
<1>8. 0 \in 0 .. n /\ \A i \in 1 .. n : i \in 0 .. n /\ i # 0
  OBVIOUS
<1> HIDE DEF seen
<1>9. seen[0] = Start /\ \A i \in 1 .. n : seen[i] = Pushed(seen[i - 1], t[i])
  BY <1>7, <1>8
<1> QED BY <1>9 DEF seen

LEMMA DetectorStarts ==
  ASSUME NEW t PROVE Start \in Detector /\ Follows(t, 0, Start)
<1>1. Start \in Detector
  BY DEF Start, Detector
<1>2. /\ ~Over(t, 0) /\ ~AtSpace(t, 0) /\ ~AtDigits(t, 0) /\ ~AtCount(t, 0) /\ ~AfterWord(t, 0)
      /\ \A k \in 1 .. Len(Token) - 1 : ~AtToken(t, 0, k)
  BY DEF Over, AtSpace, AtDigits, AtCount, AfterWord, AtToken
<1>3. /\ Start.stage = "search" /\ Start.afterWord = FALSE /\ Start.sticky = FALSE
  BY DEF Start
<1>4. (Over(t, 0) = FALSE) /\ (AfterWord(t, 0) = FALSE)
  BY <1>2 DEF Over, AfterWord
<1> QED BY <1>1, <1>2, <1>3, <1>4 DEF Follows

(* The streaming detector of item errors finds, in O(1) state, what        *)
(* classifyMsgvaultSyncOutput's expression finds in the complete text:     *)
(* pushCharacter and finish, for texts of any length and any token.        *)
THEOREM DetectorFindsErrors ==
  \A text \in Seq(Alphabet) : Detected(text) <=> Reported(text)
<1> SUFFICES ASSUME NEW t \in Seq(Alphabet) PROVE Detected(t) <=> Reported(t)
  OBVIOUS
<1> DEFINE n == Len(t)
           d == Seen(t)[n]
           Q == {k \in Nat : k <= n => Seen(t)[k] \in Detector /\ Follows(t, k, Seen(t)[k])}
<1>1. n \in Nat
  OBVIOUS
<1>2. 0 \in Q
  BY <1>1, SeenIs, DetectorStarts
<1>3. ASSUME NEW k \in Nat, k \in Q PROVE k + 1 \in Q
  <2> SUFFICES ASSUME k + 1 <= n
               PROVE  Seen(t)[k + 1] \in Detector /\ Follows(t, k + 1, Seen(t)[k + 1])
    OBVIOUS
  <2>1. k <= n /\ k + 1 \in 1 .. n /\ (k + 1) - 1 = k
    BY <1>1
  <2>2. Seen(t)[k] \in Detector /\ Follows(t, k, Seen(t)[k])
    BY <1>3, <2>1
  <2>3. Seen(t)[k + 1] = Pushed(Seen(t)[k], t[k + 1])
    BY <1>1, <2>1, SeenIs
  <2> QED BY <1>1, <2>1, <2>2, <2>3, PushedIs, DetectorFollows
<1>4. d \in Detector /\ Follows(t, n, d)
  <2>1. n \in Q
    <3> HIDE DEF Q
    <3> QED BY <1>1, <1>2, <1>3, NumbersInduct
  <2> QED BY <1>1, <2>1
<1> HIDE DEF d
<1>5. Detected(t) <=> Over(t, n) \/ AtCount(t, n)
  BY <1>4 DEF Detected, Finished, Follows, d
<1>6. ASSUME NEW from \in 1 .. n, NEW to \in from .. n
      PROVE  Matched(t, from, to) => Over(t, n) \/ AtCount(t, n)
  <2>1. CASE to = n
    <3>1. from \in Nat \ {0} /\ from <= n
      BY <1>6
    <3> QED BY <1>1, <2>1, <3>1, MatchesAre DEF AtCount
  <2>2. CASE to # n
    <3>1. from \in 1 .. n - 1 /\ to \in 1 .. n - 1 /\ from <= to
      BY <1>1, <2>2
    <3> QED BY <3>1 DEF Over
  <2> QED BY <2>1, <2>2
<1>7. Over(t, n) => Reported(t)
  <2> SUFFICES ASSUME Over(t, n) PROVE Reported(t)
    OBVIOUS
  <2>1. PICK from \in 1 .. n - 1, to \in 1 .. n - 1 : from <= to /\ Matched(t, from, to)
    BY DEF Over
  <2>2. from \in 1 .. n /\ to \in from .. n
    BY <1>1, <2>1
  <2> QED BY <2>1, <2>2 DEF Reported
<1>8. AtCount(t, n) => Reported(t)
  <2> SUFFICES ASSUME AtCount(t, n) PROVE Reported(t)
    OBVIOUS
  <2>1. PICK from \in 1 .. n, digits \in 1 .. n :
          Counted(t, from, digits, n) /\ \E j \in digits .. n : t[j] # "0"
    BY DEF AtCount
  <2>2. from \in Nat \ {0} /\ from <= n /\ n \in from .. n /\ ~(n < n)
    BY <1>1
  <2>3. Matched(t, from, n)
    BY <1>1, <2>1, <2>2, MatchesAre
  <2> QED BY <2>2, <2>3 DEF Reported
<1> QED BY <1>5, <1>6, <1>7, <1>8 DEF Reported
=============================================================================
