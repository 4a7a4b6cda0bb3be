------------------------ MODULE SyncSupervisorProofs ------------------------
(***************************************************************************)
(* The supervisor's promises for any number of accounts and spellings.     *)
(* What is inductive is a fact about each account, which ties its timer,   *)
(* its run and its follow-up to the wave and to the progress of start()    *)
(* and stop(), and a few facts about those three.                          *)
(***************************************************************************)
EXTENDS SyncSupervisor, TLAPS

(* An active account has something that will run it.                       *)
Tended(a) ==
  \/ account[a].timer # "none"
  \/ account[a].run # "none"
  \/ wave.phase = "requesting" /\ a \in Targets
  \/ account[a].scheduleFailed /\ account[a].error

(* Its latest spelling was tried, or a run that will try it is due.        *)
Tracked(a) ==
  \/ tried[a] = {account[a].spelling}
  \/ account[a].run = "running" /\ account[a].followUp
  \/ wave.phase = "requesting" /\ a \in wave.added
  \/ account[a].run = "none" /\ account[a].timer = "now"

(* A request is served by a follow-up, if no continuation makes it between *)
(* the run's last look at the flag and its end.                            *)
Served(a) == ~EagerCallers /\ a \in owed => account[a].run = "running" /\ account[a].followUp

AccountFact(a) ==
  /\ account[a].removed => account[a].run # "none" /\ account[a].timer = "none" /\ ~account[a].followUp
  /\ start # "started" => account[a].run = "none" /\ account[a].timer = "none"
  /\ Stopping => account[a].timer = "none" /\ ~account[a].followUp
  /\ stop = "done" => account[a].run = "none"
  /\ wave.phase = "requesting" => account[a].run # "settling" /\ (a \in wave.added => Active(a))
  /\ a \in owed => Active(a)
  /\ Running /\ Active(a) => Tended(a) /\ Tracked(a) /\ Served(a)

PhaseFact ==
  /\ start # "started" => owed = {} /\ wave.phase = "none" /\ ~heartbeat /\ retry = "none"
  /\ Stopping => ~heartbeat
  /\ stop \in {"refresh", "wave", "runs", "done"} => start \notin {"discovering", "scheduling"}
  /\ stop \in {"runs", "done"} => wave.phase = "none"

IInv == TypeOK /\ PhaseFact /\ \A a \in Accounts : AccountFact(a)

-----------------------------------------------------------------------------
(* What the helpers make of one account.                                   *)

LEMMA NoStateIs ==
  /\ NoState \in State
  /\ ~NoState.known /\ ~NoState.removed /\ ~NoState.followUp
  /\ NoState.run = "none" /\ NoState.timer = "none"
<1> DEFINE x == CHOOSE s \in Spellings : TRUE
<1>1. x \in Spellings
  BY SpellingsExist
<1>2. NoState = [NewState(x) EXCEPT !.known = FALSE]
  BY DEF NoState
<1> HIDE DEF x
<1>3. NoState = [known |-> FALSE, spelling |-> x, timer |-> "none", run |-> "none",
                 followUp |-> FALSE, empty |-> 0, error |-> FALSE, removed |-> FALSE,
                 scheduleFailed |-> FALSE]
  BY <1>2 DEF NewState
<1> QED BY <1>1, <1>3, IdleAfterIsPositive DEF State, Paces

LEMMA NewStateIs ==
  ASSUME NEW x \in Spellings
  PROVE  /\ NewState(x) \in State
         /\ NewState(x).known /\ ~NewState(x).removed /\ ~NewState(x).followUp
         /\ NewState(x).run = "none" /\ NewState(x).timer = "none" /\ NewState(x).spelling = x
BY IdleAfterIsPositive DEF NewState, State, Paces

LEMMA RequestedIs ==
  ASSUME NEW s \in State
  PROVE  /\ Requested(s) \in State
         /\ Requested(s).known = s.known /\ Requested(s).removed = s.removed
         /\ Requested(s).spelling = s.spelling /\ Requested(s).timer = "none"
         /\ Requested(s).run = IF s.run = "none" THEN "running" ELSE s.run
         /\ Requested(s).followUp = (s.run # "none")
BY DEF Requested, State, Paces

LEMMA UnscheduledIs ==
  ASSUME NEW s \in State
  PROVE  /\ Unscheduled(s) \in State
         /\ Unscheduled(s).known = s.known /\ Unscheduled(s).removed = s.removed
         /\ Unscheduled(s).run = s.run
         /\ Unscheduled(s).timer = "none" /\ ~Unscheduled(s).followUp
         /\ s = NoState => Unscheduled(s) = NoState
BY NoStateIs DEF Unscheduled, State, Paces

LEMMA ScheduledIs ==
  ASSUME NEW s \in State, NEW pace \in Paces \ {"none"}, NEW armed \in BOOLEAN
  PROVE  /\ Scheduled(s, pace, armed) \in State
         /\ Scheduled(s, pace, armed).known = s.known /\ Scheduled(s, pace, armed).removed = s.removed
         /\ Scheduled(s, pace, armed).run = s.run /\ Scheduled(s, pace, armed).followUp = s.followUp
         /\ Scheduled(s, pace, armed).spelling = s.spelling
         /\ Scheduled(s, pace, armed).error = s.error
         /\ Scheduled(s, pace, armed).scheduleFailed = ~armed
         /\ Scheduled(s, pace, armed).timer = IF armed THEN pace ELSE "none"
BY DEF Scheduled, State, Paces

LEMMA FinishedIs ==
  ASSUME NEW s \in State, NEW outcome \in {"changed", "empty", "error"}
  PROVE  /\ Finished(s, outcome) \in State
         /\ Finished(s, outcome).known = s.known /\ Finished(s, outcome).removed = s.removed
         /\ Finished(s, outcome).run = s.run /\ Finished(s, outcome).followUp = s.followUp
         /\ Finished(s, outcome).spelling = s.spelling /\ Finished(s, outcome).timer = s.timer
         /\ Finished(s, outcome).scheduleFailed = s.scheduleFailed
<1>1. (IF outcome = "empty" THEN IF s.empty < IdleAfter THEN s.empty + 1 ELSE s.empty ELSE 0)
        \in 0 .. IdleAfter
  BY IdleAfterIsPositive DEF State
<1> QED BY <1>1 DEF Finished, State

(* The end of a run: forgotten if removed, at rest if stopping, or with a  *)
(* timer, or with a failure reported.                                      *)
LEMMA SettledIs ==
  ASSUME NEW s \in State, NEW armed \in BOOLEAN
  PROVE  /\ Settled(s, armed) \in State
         /\ s.removed => Settled(s, armed) = NoState
         /\ ~s.removed =>
              /\ Settled(s, armed).known = s.known /\ ~Settled(s, armed).removed
              /\ Settled(s, armed).run = "none" /\ Settled(s, armed).followUp = s.followUp
              /\ Settled(s, armed).spelling = s.spelling
         /\ ~s.removed /\ Stopping => Settled(s, armed).timer = s.timer
         /\ ~s.removed /\ ~Stopping =>
              \/ Settled(s, armed).timer \notin {"none", "now"}
              \/ Settled(s, armed).timer = "none"
                 /\ Settled(s, armed).scheduleFailed /\ Settled(s, armed).error
<1> DEFINE idle == [s EXCEPT !.run = "none"]
           next == Scheduled(idle, NextDelay(s), armed)
<1>1. idle \in State /\ idle.run = "none" /\ idle.known = s.known /\ idle.removed = s.removed
      /\ idle.followUp = s.followUp /\ idle.spelling = s.spelling /\ idle.timer = s.timer
  BY DEF State
<1>2. NextDelay(s) \in Paces \ {"none", "now"}
  BY DEF NextDelay, Paces
<1>3. CASE s.removed
  BY <1>3, NoStateIs DEF Settled
<1>4. CASE ~s.removed /\ Stopping
  <2>1. Settled(s, armed) = idle
    BY <1>4 DEF Settled
  <2> QED BY <2>1, <1>1, <1>4
<1>5. CASE ~s.removed /\ ~Stopping
  <2> HIDE DEF idle
  <2>1. Settled(s, armed) = [next EXCEPT !.error = @ \/ ~armed]
    BY <1>5 DEF Settled, idle
  <2>2. /\ next \in State /\ next.known = s.known /\ ~next.removed /\ next.run = "none"
        /\ next.followUp = s.followUp /\ next.spelling = s.spelling
        /\ next.scheduleFailed = ~armed
        /\ next.timer = IF armed THEN NextDelay(s) ELSE "none"
    BY <1>1, <1>2, <1>5, ScheduledIs
  <2> HIDE DEF next
  <2> QED BY <2>1, <2>2, <1>2, <1>5 DEF State
<1> QED BY <1>3, <1>4, <1>5

-----------------------------------------------------------------------------
(* How an account keeps its fact in a step.                                *)

SameWave == wave'.phase = wave.phase /\ wave'.mode = wave.mode /\ wave'.added = wave.added
NoRequests == wave.phase # "requesting" /\ wave'.phase # "requesting"

(* It is not touched.                                                      *)
LEMMA OthersKeep ==
  ASSUME NEW a \in Accounts, AccountFact(a),
         account'[a] = account[a], tried'[a] = tried[a], a \in owed' => a \in owed,
         UNCHANGED <<start, stop>>, SameWave \/ NoRequests
  PROVE  AccountFact(a)'
<1>1. CASE SameWave
  BY <1>1 DEF AccountFact, SameWave, Stopping, Running, Active, Tended, Tracked, Served, Targets
<1>2. CASE NoRequests
  BY <1>2 DEF AccountFact, NoRequests, Stopping, Running, Active, Tended, Tracked, Served, Targets
<1> QED BY <1>1, <1>2

(* It is requested.                                                        *)
LEMMA RequestLeaves ==
  ASSUME TypeOK, NEW targets \in SUBSET Accounts, Request(targets),
         \A a \in targets : Active(a)
  PROVE  /\ account' \in [Accounts -> State] /\ tried' \in [Accounts -> SUBSET Spellings]
         /\ owed' \subseteq Accounts /\ missed' \subseteq Accounts
         /\ \A a \in Accounts : ~account'[a].known => account'[a] = NoState
         /\ \A a \in targets : /\ account'[a] = Requested(account[a])
                               /\ account[a].run = "none" => tried'[a] = {account[a].spelling} /\ a \notin owed'
                               /\ account[a].run # "none" => tried'[a] = tried[a]
         /\ \A a \in Accounts \ targets : /\ account'[a] = account[a] /\ tried'[a] = tried[a]
                                          /\ a \in owed' => a \in owed
<1>1. \A a \in Accounts : account[a] \in State /\ account[a].spelling \in Spellings
  BY DEF TypeOK, State
<1>2. \A a \in Accounts : Requested(account[a]) \in State
                          /\ Requested(account[a]).known = account[a].known
  BY <1>1, RequestedIs
<1>3. /\ account' = [a \in Accounts |-> IF a \in targets THEN Requested(account[a]) ELSE account[a]]
      /\ \A a \in targets : account[a].known
  BY DEF Request, Active
<1>4. account' \in [Accounts -> State]
      /\ \A a \in Accounts : ~account'[a].known => account'[a] = NoState
  BY <1>1, <1>2, <1>3 DEF TypeOK
<1>5. tried' \in [Accounts -> SUBSET Spellings]
  BY <1>1 DEF Request, TypeOK
<1> QED BY <1>3, <1>4, <1>5 DEF Request, TypeOK

LEMMA RequestKeeps ==
  ASSUME IInv, Running, NEW targets \in SUBSET Accounts, Request(targets), UNCHANGED <<start, stop>>,
         \A a \in targets : Active(a) /\ (account[a].run = "settling" => EagerCallers),
         NEW a \in targets, SameWave \/ wave'.phase # "requesting"
  PROVE  AccountFact(a)'
<1>1. account[a] \in State /\ AccountFact(a)
  BY DEF IInv, TypeOK
<1>2. account'[a] = Requested(account[a])
  BY RequestLeaves DEF IInv
<1>3. /\ account'[a].known = account[a].known /\ account'[a].removed = account[a].removed
      /\ account'[a].spelling = account[a].spelling /\ account'[a].timer = "none"
      /\ account'[a].run = IF account[a].run = "none" THEN "running" ELSE account[a].run
      /\ account'[a].followUp = (account[a].run # "none")
  BY <1>1, <1>2, RequestedIs
<1>4. /\ account[a].run = "none" => tried'[a] = {account[a].spelling} /\ a \notin owed'
      /\ account[a].run # "none" => tried'[a] = tried[a]
  BY RequestLeaves DEF IInv
<1>5. Active(a) /\ (account[a].run = "settling" => EagerCallers)
  OBVIOUS
<1>6. account[a].run \in {"none", "running", "settling"}
  BY <1>1 DEF State
<1>7. Tracked(a)'
  BY <1>1, <1>3, <1>4, <1>5, <1>6 DEF AccountFact, Tracked, Running
<1>8. Served(a)'
  BY <1>3, <1>4, <1>5, <1>6 DEF Served
<1>9. Tended(a)'
  BY <1>3, <1>6 DEF Tended
<1> QED BY <1>1, <1>3, <1>5, <1>6, <1>7, <1>8, <1>9
    DEF AccountFact, Running, Stopping, Active, SameWave

-----------------------------------------------------------------------------
(* Runs.                                                                   *)

LEMMA TimerFiresKeeps ==
  ASSUME IInv, NEW a \in Accounts, TimerFires(a)
  PROVE  IInv'
<1>1. /\ Request({a}) /\ Quiet /\ account[a].timer # "none"
      /\ UNCHANGED <<start, stop, maintenance, pulse>>
  BY DEF TimerFires
<1>2. Running /\ ~account[a].removed
  BY <1>1 DEF IInv, AccountFact, Running
<1>3. Active(a)
  BY <1>1, <1>2, NoStateIs DEF IInv, TypeOK, Active
<1>4. account[a].run # "settling" /\ SameWave
  BY <1>1 DEF Quiet, SameWave, maintenance
<1>5. TypeOK'
  BY <1>1, <1>3, RequestLeaves DEF IInv, TypeOK, maintenance, pulse
<1>6. PhaseFact'
  BY <1>1, <1>2 DEF IInv, PhaseFact, maintenance, pulse, Running, Stopping
<1>7. AccountFact(a)'
  BY <1>1, <1>2, <1>3, <1>4, RequestKeeps
<1>8. ASSUME NEW b \in Accounts, b # a PROVE AccountFact(b)'
  <2>1. account'[b] = account[b] /\ tried'[b] = tried[b] /\ (b \in owed' => b \in owed)
    BY <1>1, <1>3, <1>8, RequestLeaves DEF IInv
  <2> QED BY <2>1, <1>1, <1>4, OthersKeep DEF IInv
<1> QED BY <1>5, <1>6, <1>7, <1>8 DEF IInv

LEMMA SyncNowKeeps ==
  ASSUME IInv, NEW a \in Accounts, SyncNow(a)
  PROVE  IInv'
<1>1. /\ Request({a}) /\ Called /\ Running /\ Active(a)
      /\ UNCHANGED <<start, stop, maintenance, pulse>>
  BY DEF SyncNow, Running
<1>2. SameWave /\ (account[a].run = "settling" => EagerCallers)
  BY <1>1 DEF Called, Quiet, SameWave, maintenance
<1>3. TypeOK'
  BY <1>1, RequestLeaves DEF IInv, TypeOK, maintenance, pulse
<1>4. PhaseFact'
  BY <1>1 DEF IInv, PhaseFact, maintenance, pulse, Running, Stopping
<1>5. AccountFact(a)'
  BY <1>1, <1>2, RequestKeeps
<1>6. ASSUME NEW b \in Accounts, b # a PROVE AccountFact(b)'
  <2>1. account'[b] = account[b] /\ tried'[b] = tried[b] /\ (b \in owed' => b \in owed)
    BY <1>1, <1>6, RequestLeaves DEF IInv
  <2> QED BY <2>1, <1>1, <1>2, OthersKeep DEF IInv
<1> QED BY <1>3, <1>4, <1>5, <1>6 DEF IInv

LEMMA SyncAnswersKeeps ==
  ASSUME IInv, NEW a \in Accounts, NEW outcome \in {"changed", "empty", "error"},
         SyncAnswers(a, outcome)
  PROVE  IInv'
<1> DEFINE s == Finished(account[a], outcome)
           again == s.followUp /\ ~Stopping /\ ~s.removed
           r == IF again THEN [s EXCEPT !.followUp = FALSE] ELSE [s EXCEPT !.run = "settling"]
<1>1. /\ Quiet /\ s.run = "running" /\ account' = [account EXCEPT ![a] = r]
      /\ tried' = IF again THEN [tried EXCEPT ![a] = {s.spelling}] ELSE tried
      /\ owed' = IF again THEN owed \ {a} ELSE owed
      /\ missed' = IF again THEN missed \ {a} ELSE missed
      /\ UNCHANGED <<start, stop, maintenance, pulse>>
  BY DEF SyncAnswers
<1>2. account[a] \in State /\ AccountFact(a)
  BY DEF IInv, TypeOK
<1>3. /\ s \in State /\ s.known = account[a].known /\ s.removed = account[a].removed
      /\ s.run = account[a].run /\ s.followUp = account[a].followUp
      /\ s.spelling = account[a].spelling /\ s.timer = account[a].timer
  BY <1>2, FinishedIs
<1> HIDE DEF s
<1>4. /\ r \in State /\ r.known = s.known /\ r.removed = s.removed /\ r.spelling = s.spelling
      /\ r.timer = s.timer
      /\ r.run = IF again THEN "running" ELSE "settling"
      /\ r.followUp = IF again THEN FALSE ELSE s.followUp
  BY <1>1, <1>3 DEF State
<1> HIDE DEF r
<1>5. account[a].known
  BY <1>1, <1>3, NoStateIs DEF IInv, TypeOK
<1>6. account' \in [Accounts -> State] /\ account'[a] = r
      /\ \A b \in Accounts \ {a} : account'[b] = account[b]
  BY <1>1, <1>4 DEF IInv, TypeOK
<1>7. tried' \in [Accounts -> SUBSET Spellings] /\ s.spelling \in Spellings
      /\ tried'[a] = (IF again THEN {s.spelling} ELSE tried[a])
      /\ \A b \in Accounts \ {a} : tried'[b] = tried[b]
  BY <1>1, <1>3 DEF IInv, TypeOK, State
<1>8. TypeOK'
  BY <1>1, <1>4, <1>3, <1>5, <1>6, <1>7 DEF IInv, TypeOK, maintenance, pulse
<1>9. PhaseFact'
  BY <1>1, <1>2, <1>3 DEF IInv, PhaseFact, AccountFact, maintenance, pulse, Stopping
<1>10. SameWave /\ wave.phase # "requesting"
  BY <1>1 DEF SameWave, maintenance, Quiet
<1>11. AccountFact(a)'
  <2>1. Tracked(a)' \/ ~Running \/ ~Active(a)
    <3>1. CASE again
      BY <3>1, <1>3, <1>4, <1>6, <1>7 DEF Tracked
    <3>2. CASE ~again /\ Running /\ Active(a)
      <4>1. ~s.followUp /\ tried[a] = {account[a].spelling}
        BY <3>2, <1>1, <1>2, <1>3, <1>10 DEF AccountFact, Tracked, Running, Active
      <4> QED BY <4>1, <3>2, <1>3, <1>4, <1>6, <1>7 DEF Tracked
    <3> QED BY <3>1, <3>2
  <2>2. Served(a)' \/ ~Running \/ ~Active(a)
    BY <1>1, <1>2, <1>3, <1>4, <1>6 DEF AccountFact, Served, Running, Active
  <2>3. Tended(a)'
    BY <1>4, <1>6 DEF Tended
  <2> QED BY <2>1, <2>2, <2>3, <1>1, <1>2, <1>3, <1>4, <1>5, <1>6, <1>10
      DEF AccountFact, Running, Stopping, Active, SameWave
<1>12. ASSUME NEW b \in Accounts, b # a PROVE AccountFact(b)'
  BY <1>1, <1>6, <1>7, <1>10, <1>12, OthersKeep DEF IInv
<1> QED BY <1>8, <1>9, <1>11, <1>12 DEF IInv

LEMMA SyncSettlesKeeps ==
  ASSUME IInv, NEW a \in Accounts, NEW armed \in BOOLEAN, SyncSettles(a, armed)
  PROVE  IInv'
<1> DEFINE r == Settled(account[a], armed)
<1>1. /\ account[a].run = "settling" /\ account' = [account EXCEPT ![a] = r]
      /\ wave' = [wave EXCEPT !.waits = @ \ {a}]
      /\ UNCHANGED <<start, stop, pending, discoveryError, pulse, tried, owed, missed>>
  BY DEF SyncSettles
<1>2. account[a] \in State /\ AccountFact(a)
  BY DEF IInv, TypeOK
<1>3. /\ r \in State
      /\ account[a].removed => r = NoState
      /\ ~account[a].removed =>
           /\ r.known = account[a].known /\ ~r.removed
           /\ r.run = "none" /\ r.followUp = account[a].followUp
           /\ r.spelling = account[a].spelling
      /\ ~account[a].removed /\ Stopping => r.timer = account[a].timer
      /\ ~account[a].removed /\ ~Stopping =>
           \/ r.timer \notin {"none", "now"}
           \/ r.timer = "none" /\ r.scheduleFailed /\ r.error
  BY <1>2, SettledIs
<1> HIDE DEF r
<1>4. account' \in [Accounts -> State] /\ account'[a] = r
      /\ \A b \in Accounts \ {a} : account'[b] = account[b]
  BY <1>1, <1>3 DEF IInv, TypeOK
<1>5. wave' \in Wave /\ SameWave
  BY <1>1 DEF IInv, TypeOK, Wave, SameWave
<1>6. account[a].known
  BY <1>1, NoStateIs DEF IInv, TypeOK
<1>7. TypeOK'
  BY <1>1, <1>3, <1>4, <1>5, <1>6 DEF IInv, TypeOK, pulse
<1>8. PhaseFact'
  BY <1>1, <1>5 DEF IInv, PhaseFact, pulse, SameWave, Stopping
<1>9. AccountFact(a)'
  <2>1. wave.phase # "requesting" /\ start = "started" /\ stop # "done"
    BY <1>1, <1>2 DEF AccountFact
  <2>2. CASE account[a].removed
    <3>1. a \notin owed
      BY <2>2, <1>2 DEF AccountFact, Active
    <3> QED BY <2>1, <2>2, <3>1, <1>1, <1>3, <1>4, <1>5, NoStateIs
        DEF AccountFact, Running, Stopping, Active, SameWave
  <2>3. CASE ~account[a].removed /\ Stopping
    BY <2>1, <2>3, <1>1, <1>2, <1>3, <1>4, <1>5, <1>6
       DEF AccountFact, Running, Stopping, Active, SameWave
  <2>4. CASE ~account[a].removed /\ ~Stopping
    <3>1. Running /\ Active(a)
      BY <2>1, <2>4, <1>6 DEF Running, Active
    <3>2. Tracked(a)'
      BY <3>1, <2>1, <2>4, <1>1, <1>2, <1>3, <1>4 DEF AccountFact, Tracked
    <3>3. Tended(a)'
      BY <2>4, <1>3, <1>4 DEF Tended
    <3>4. Served(a)'
      BY <3>1, <1>1, <1>2 DEF AccountFact, Served
    <3> QED BY <3>1, <3>2, <3>3, <3>4, <2>1, <2>4, <1>1, <1>2, <1>3, <1>4, <1>5
        DEF AccountFact, Running, Stopping, Active, SameWave
  <2> QED BY <2>2, <2>3, <2>4
<1>10. ASSUME NEW b \in Accounts, b # a PROVE AccountFact(b)'
  BY <1>1, <1>4, <1>5, <1>10, OthersKeep DEF IInv
<1> QED BY <1>7, <1>8, <1>9, <1>10 DEF IInv

-----------------------------------------------------------------------------
(* Steps that leave the accounts alone.                                    *)

LEMMA NoAccountMoves ==
  ASSUME IInv, UNCHANGED <<start, stop, account, tried, owed>>, SameWave \/ NoRequests
  PROVE  \A a \in Accounts : AccountFact(a)'
BY OthersKeep DEF IInv

LEMMA WaveGoesOn ==
  ASSUME IInv, NEW mode \in Modes \ {"none"}, RequestMaintenance(mode),
         heartbeat \/ (start = "started" /\ ~Stopping)
  PROVE  /\ SameWave \/ NoRequests
         /\ wave' \in Wave /\ pending' \in Modes /\ missed' \subseteq Accounts
         /\ start = "started" /\ ~Stopping
<1>1. start = "started" /\ ~Stopping
  BY DEF IInv, PhaseFact
<1>2. Merged(mode) \in Modes
  BY DEF Merged, Modes, IInv, TypeOK
<1>3. wave' \in Wave /\ pending' \in Modes /\ missed' \subseteq Accounts
  BY <1>2 DEF RequestMaintenance, Discovering, NoWave, Wave, IInv, TypeOK, Modes
<1>4. SameWave \/ NoRequests
  BY DEF RequestMaintenance, Discovering, NoWave, SameWave, NoRequests
<1> QED BY <1>1, <1>3, <1>4

LEMMA SyncAllNowKeeps == ASSUME IInv, SyncAllNow PROVE IInv'
<1>1. /\ start = "started" /\ ~Stopping /\ RequestMaintenance("all")
      /\ UNCHANGED <<start, stop, account, discoveryError, pulse, tried, owed>>
  BY DEF SyncAllNow
<1>2. /\ SameWave \/ NoRequests
      /\ wave' \in Wave /\ pending' \in Modes /\ missed' \subseteq Accounts
  BY <1>1, WaveGoesOn DEF Modes
<1>3. TypeOK' /\ PhaseFact'
  BY <1>1, <1>2 DEF IInv, TypeOK, PhaseFact, pulse, Stopping
<1> QED BY <1>1, <1>2, <1>3, NoAccountMoves DEF IInv

LEMMA HeartbeatFiresKeeps ==
  ASSUME IInv, NEW late \in BOOLEAN, NEW armed \in BOOLEAN, HeartbeatFires(late, armed)
  PROVE  IInv'
<1> DEFINE mode == IF late THEN "all" ELSE "additions"
<1>1. /\ heartbeat /\ RequestMaintenance(mode) /\ heartbeat' = armed /\ heartbeatError' = ~armed
      /\ retry' = IF ~armed /\ retry = "none" THEN "waiting" ELSE retry
      /\ UNCHANGED <<start, stop, account, discoveryError, tried, owed>>
  BY DEF HeartbeatFires
<1>2. mode \in Modes \ {"none"}
  BY DEF Modes
<1> HIDE DEF mode
<1>3. /\ SameWave \/ NoRequests
      /\ wave' \in Wave /\ pending' \in Modes /\ missed' \subseteq Accounts
      /\ start = "started" /\ ~Stopping
  BY <1>1, <1>2, WaveGoesOn
<1>4. TypeOK' /\ PhaseFact'
  BY <1>1, <1>3 DEF IInv, TypeOK, PhaseFact, Stopping
<1> QED BY <1>1, <1>3, <1>4, NoAccountMoves DEF IInv

LEMMA HeartbeatRetriesKeeps ==
  ASSUME IInv, NEW armed \in BOOLEAN, HeartbeatRetries(armed)
  PROVE  IInv'
<1>1. SameWave /\ UNCHANGED <<start, stop, account, tried, owed>>
  BY DEF HeartbeatRetries, maintenance, SameWave
<1>2. start = "started"
  BY DEF HeartbeatRetries, IInv, PhaseFact
<1>3. TypeOK' /\ PhaseFact'
  BY <1>1, <1>2 DEF HeartbeatRetries, IInv, TypeOK, PhaseFact, maintenance, Stopping
<1> QED BY <1>1, <1>3, NoAccountMoves DEF IInv

(* The end of an iteration, without or with another one.                   *)
LEMMA WaveTurns ==
  ASSUME IInv, WaveDiscoveryFails \/ WaveBreaks \/ WaveContinues \/ WaveCloses,
         wave.phase # "none"
  PROVE  IInv'
<1>1. UNCHANGED <<start, stop, account, tried, owed, missed, heartbeat, heartbeatError>>
  BY DEF WaveDiscoveryFails, WaveBreaks, WaveContinues, WaveCloses, pulse
<1>2. wave' \in Wave /\ wave'.phase # "requesting" /\ pending' \in Modes
  <2>1. NoWave \in Wave /\ [NoWave EXCEPT !.phase = "closing"] \in Wave /\ pending \in Modes
        /\ Discovering(pending) \in Wave
    BY DEF NoWave, Discovering, Wave, Modes, IInv, TypeOK
  <2>2. /\ NoWave.phase # "requesting" /\ [NoWave EXCEPT !.phase = "closing"].phase # "requesting"
        /\ Discovering(pending).phase # "requesting"
    BY DEF NoWave, Discovering
  <2>3. \/ wave' = NoWave /\ pending' = pending
        \/ wave' = [NoWave EXCEPT !.phase = "closing"] /\ pending' = pending
        \/ wave' = Discovering(pending) /\ pending' = "none"
    BY DEF WaveDiscoveryFails, WaveBreaks, WaveContinues, WaveCloses, LoopTest
  <2> QED BY <2>1, <2>2, <2>3 DEF Modes
<1>3. TypeOK' /\ PhaseFact'
  BY <1>1, <1>2 DEF WaveDiscoveryFails, WaveBreaks, WaveContinues, WaveCloses, IInv, TypeOK, PhaseFact,
                    Stopping, pulse
<1>4. wave.phase = "requesting" => Stopping
  BY DEF WaveDiscoveryFails, WaveBreaks, WaveContinues, WaveCloses
<1>5. ASSUME NEW a \in Accounts PROVE AccountFact(a)'
  BY <1>1, <1>2, <1>4
     DEF IInv, AccountFact, Stopping, Running, Active, Tended, Tracked, Served
<1> QED BY <1>3, <1>5 DEF IInv

-----------------------------------------------------------------------------
(* Clearing timers, by stop() and by a start() that fails.                 *)

LEMMA ClearedLeaves ==
  ASSUME TypeOK, account' = ClearTimers(account)
  PROVE  /\ account' \in [Accounts -> State]
         /\ \A a \in Accounts :
              /\ account'[a].known = account[a].known /\ account'[a].removed = account[a].removed
              /\ account'[a].run = account[a].run
              /\ account'[a].timer = "none" /\ ~account'[a].followUp
              /\ ~account'[a].known => account'[a] = NoState
<1>1. \A a \in Accounts : account[a] \in State /\ account'[a] = Unscheduled(account[a])
  BY DEF TypeOK, ClearTimers
<1> QED BY <1>1, UnscheduledIs DEF TypeOK, ClearTimers

LEMMA ClearedKeeps ==
  ASSUME IInv, account' = ClearTimers(account), UNCHANGED <<wave, owed>>, ~Running',
         start' # "started" => start # "started",
         stop' = "done" => \A a \in Accounts : account[a].run = "none"
  PROVE  \A a \in Accounts : AccountFact(a)'
BY ClearedLeaves DEF IInv, AccountFact, Active

LEMMA StopKeeps == ASSUME IInv, Stop \/ StopAwaitsStart PROVE IInv'
<1>1. /\ account' = ClearTimers(account) /\ heartbeat' = FALSE /\ stop' \in {"start", "refresh"}
      /\ UNCHANGED <<start, maintenance, retry, heartbeatError, tried, owed, missed>>
      /\ stop' = "refresh" => start \notin {"discovering", "scheduling"}
  BY DEF Stop, StopAwaitsStart
<1>2. TypeOK' /\ PhaseFact'
  BY <1>1, ClearedLeaves DEF IInv, TypeOK, PhaseFact, maintenance, Stopping
<1> QED BY <1>1, <1>2, ClearedKeeps DEF IInv, maintenance, Running, Stopping

LEMMA StopAwaitsKeeps == ASSUME IInv, StopAwaitsRefresh \/ StopAwaitsWave PROVE IInv'
<1>1. /\ stop \in {"refresh", "wave"} /\ stop' \in {"wave", "runs"}
      /\ stop' = "runs" => wave.phase = "none"
      /\ pending' \in Modes
      /\ UNCHANGED <<start, account, wave, discoveryError, pulse, tried, owed, missed>>
  BY DEF StopAwaitsRefresh, StopAwaitsWave, maintenance, IInv, TypeOK, Modes
<1>2. TypeOK' /\ PhaseFact'
  BY <1>1 DEF IInv, TypeOK, PhaseFact, pulse, Stopping
<1>3. ASSUME NEW a \in Accounts PROVE AccountFact(a)'
  BY <1>1 DEF IInv, AccountFact, Stopping, Running, Active
<1> QED BY <1>2, <1>3 DEF IInv

LEMMA StopAwaitsRunsKeeps == ASSUME IInv, StopAwaitsRuns PROVE IInv'
<1>1. /\ stop = "runs" /\ stop' = "done" /\ \A a \in Accounts : account[a].run = "none"
      /\ account' = ClearTimers(account) /\ heartbeat' = FALSE
      /\ UNCHANGED <<start, maintenance, retry, heartbeatError, tried, owed, missed>>
  BY DEF StopAwaitsRuns
<1>2. TypeOK' /\ PhaseFact'
  BY <1>1, ClearedLeaves DEF IInv, TypeOK, PhaseFact, maintenance, Stopping
<1> QED BY <1>1, <1>2, ClearedKeeps DEF IInv, maintenance, Running, Stopping

-----------------------------------------------------------------------------
(* Discovery.                                                              *)

Respelled(s, x) == [s EXCEPT !.spelling = x, !.removed = FALSE]

LEMMA RespelledIs ==
  ASSUME NEW s \in State, NEW x \in Spellings
  PROVE  /\ Respelled(s, x) \in State /\ Respelled(s, x).known = s.known
         /\ ~Respelled(s, x).removed /\ Respelled(s, x).spelling = x
         /\ Respelled(s, x).run = s.run /\ Respelled(s, x).timer = s.timer
         /\ Respelled(s, x).followUp = s.followUp /\ Respelled(s, x).error = s.error
         /\ Respelled(s, x).scheduleFailed = s.scheduleFailed
BY DEF Respelled, State

LEMMA LeavingIs ==
  ASSUME NEW s \in State, NEW r,
         r = [s EXCEPT !.removed = TRUE, !.timer = "none", !.followUp = FALSE]
  PROVE  /\ r \in State /\ r.known = s.known /\ r.removed /\ r.run = s.run
         /\ r.timer = "none" /\ ~r.followUp
BY DEF State, Paces

(* found names accounts, and a discovered account that is not told to the  *)
(* caller is the one it was.                                               *)
LEMMA RefreshedIs ==
  ASSUME TypeOK, NEW found \in Discoveries, account' = Refreshed(found)
  PROVE  /\ account' \in [Accounts -> State]
         /\ DOMAIN found \subseteq Accounts /\ Added(found) \subseteq DOMAIN found
         /\ \A a \in DOMAIN found :
              /\ account'[a].known /\ ~account'[a].removed
              /\ account[a].known => /\ account'[a].run = account[a].run
                                     /\ account'[a].timer = account[a].timer
                                     /\ account'[a].followUp = account[a].followUp
                                     /\ account'[a].error = account[a].error
                                     /\ account'[a].scheduleFailed = account[a].scheduleFailed
              /\ ~account[a].known => /\ account'[a].run = "none" /\ account'[a].timer = "none"
                                      /\ ~account'[a].followUp
              /\ a \notin Added(found) => /\ account[a].known /\ ~account[a].removed
                                          /\ account'[a].spelling = account[a].spelling
         /\ \A a \in Accounts \ DOMAIN found :
              /\ account'[a].run = "none" => account'[a] = NoState
              /\ account'[a].run # "none" => account'[a].known /\ account'[a].removed
              /\ account'[a].run \in {"none", account[a].run}
              /\ account'[a].timer = "none" /\ ~account'[a].followUp
<1>1. PICK D \in SUBSET Accounts : found \in [D -> Spellings]
  BY DEF Discoveries
<1>2. DOMAIN found = D /\ \A a \in D : found[a] \in Spellings
  BY <1>1
<1>3. \A a \in Accounts : account[a] \in State
  BY DEF TypeOK
<1>4. ASSUME NEW a \in D
      PROVE  /\ account'[a] \in State /\ account'[a].known /\ ~account'[a].removed
             /\ account'[a].spelling = found[a]
             /\ account[a].known => /\ account'[a].run = account[a].run
                                    /\ account'[a].timer = account[a].timer
                                    /\ account'[a].followUp = account[a].followUp
                                    /\ account'[a].error = account[a].error
                                    /\ account'[a].scheduleFailed = account[a].scheduleFailed
             /\ ~account[a].known => /\ account'[a].run = "none" /\ account'[a].timer = "none"
                                     /\ ~account'[a].followUp
  <2>1. account'[a] = IF account[a].known
                      THEN [account[a] EXCEPT !.spelling = found[a], !.removed = FALSE]
                      ELSE NewState(found[a])
    BY <1>2 DEF Refreshed
  <2>2. CASE account[a].known
    <3>1. account'[a] = Respelled(account[a], found[a])
      BY <2>1, <2>2 DEF Respelled
    <3> QED BY <3>1, <2>2, <1>2, <1>3, RespelledIs
  <2>3. CASE ~account[a].known
    BY <2>1, <2>3, <1>2, NewStateIs
  <2> QED BY <2>2, <2>3
<1>5. ASSUME NEW a \in Accounts \ D
      PROVE  /\ account'[a] \in State
             /\ account'[a].run = "none" => account'[a] = NoState
             /\ account'[a].run # "none" => account'[a].known /\ account'[a].removed
             /\ account'[a].run \in {"none", account[a].run}
             /\ account'[a].timer = "none" /\ ~account'[a].followUp
  <2>1. account'[a] = IF account[a].known /\ account[a].run # "none"
                      THEN [account[a] EXCEPT !.removed = TRUE, !.timer = "none", !.followUp = FALSE]
                      ELSE NoState
    BY <1>2 DEF Refreshed
  <2>2. CASE account[a].known /\ account[a].run # "none"
    BY <2>1, <2>2, <1>3, LeavingIs
  <2>3. CASE ~(account[a].known /\ account[a].run # "none")
    BY <2>1, <2>3, NoStateIs
  <2> QED BY <2>2, <2>3
<1>6. account' \in [Accounts -> State]
  <2>1. \A a \in Accounts : account'[a] \in State
    BY <1>4, <1>5
  <2>2. account' = [a \in Accounts |-> account'[a]]
    BY DEF Refreshed
  <2> QED BY <2>1, <2>2
<1>7. Added(found) \subseteq D
      /\ \A a \in D \ Added(found) : account[a].known /\ ~account[a].removed
                                     /\ account[a].spelling = found[a]
  BY <1>2 DEF Added
<1> QED BY <1>2, <1>4, <1>5, <1>6, <1>7

LEMMA WaveDiscoversKeeps ==
  ASSUME IInv, NEW found \in Discoveries, WaveDiscovers(found)
  PROVE  IInv'
<1>1. /\ Quiet /\ wave.phase = "discovering" /\ discoveryError' = FALSE
      /\ account' = IF Stopping THEN account ELSE Refreshed(found)
      /\ wave' = [wave EXCEPT !.phase = "requesting", !.added = IF Stopping THEN {} ELSE Added(found)]
      /\ owed' = owed \cap DOMAIN found
      /\ UNCHANGED <<start, stop, pending, pulse, tried, missed>>
  BY DEF WaveDiscovers
<1>2. start = "started" /\ (stop \notin {"runs", "done"})
  BY <1>1 DEF IInv, PhaseFact
<1>3. CASE Stopping
  <2>1. wave' \in Wave /\ wave'.phase = "requesting" /\ wave'.added = {}
    BY <1>1, <1>3 DEF IInv, TypeOK, Wave
  <2>2. TypeOK' /\ PhaseFact'
    BY <2>1, <1>1, <1>2, <1>3 DEF IInv, TypeOK, PhaseFact, Stopping, pulse
  <2>3. ASSUME NEW a \in Accounts PROVE AccountFact(a)'
    BY <2>1, <1>1, <1>3 DEF IInv, AccountFact, Quiet, Stopping, Running, Active
  <2> QED BY <2>2, <2>3 DEF IInv
<1>4. CASE ~Stopping
  <2>1. account' = Refreshed(found)
    BY <1>1, <1>4
  <2>2. /\ wave' \in Wave /\ wave'.phase = "requesting" /\ wave'.added = Added(found)
        /\ wave'.mode = wave.mode
    <3>1. Added(found) \subseteq Accounts
      BY <2>1, RefreshedIs DEF IInv
    <3> QED BY <3>1, <1>1, <1>4 DEF IInv, TypeOK, Wave
  <2>3. \A a \in Accounts : ~account'[a].known => account'[a] = NoState
    BY <2>1, RefreshedIs DEF IInv
  <2>4. TypeOK' /\ PhaseFact'
    BY <2>1, <2>2, <2>3, <1>1, <1>2, <1>4, RefreshedIs DEF IInv, TypeOK, PhaseFact, Stopping, pulse
  <2>5. ASSUME NEW a \in DOMAIN found PROVE a \in Accounts /\ AccountFact(a)'
    <3>1. a \in Accounts
      BY <2>1, RefreshedIs DEF IInv
    <3>2. /\ AccountFact(a) /\ account[a].run # "settling"
          /\ ~account[a].known => account[a].run = "none" /\ a \notin owed
      BY <3>1, <1>1, NoStateIs DEF IInv, TypeOK, Quiet, AccountFact, Active
    <3>3. /\ account'[a].known /\ ~account'[a].removed
          /\ account[a].known => /\ account'[a].run = account[a].run
                                 /\ account'[a].timer = account[a].timer
                                 /\ account'[a].followUp = account[a].followUp
                                 /\ account'[a].error = account[a].error
                                 /\ account'[a].scheduleFailed = account[a].scheduleFailed
          /\ ~account[a].known => /\ account'[a].run = "none" /\ account'[a].timer = "none"
                                  /\ ~account'[a].followUp
          /\ a \notin Added(found) => /\ account[a].known /\ ~account[a].removed
                                      /\ account'[a].spelling = account[a].spelling
      BY <2>1, RefreshedIs DEF IInv
    <3>4. Tended(a)'
      <4>1. CASE a \in Added(found)
        BY <4>1, <3>1, <3>3, <2>2 DEF Tended, Targets, Active
      <4>2. CASE a \notin Added(found)
        BY <4>2, <3>2, <3>3, <1>1, <1>2, <1>4 DEF AccountFact, Tended, Running, Active
      <4> QED BY <4>1, <4>2
    <3>5. Tracked(a)'
      BY <3>2, <3>3, <2>2, <1>1, <1>2, <1>4 DEF AccountFact, Tracked, Running, Active
    <3>6. Served(a)'
      BY <3>2, <3>3, <1>1, <1>2, <1>4 DEF AccountFact, Served, Running, Active
    <3> QED BY <3>1, <3>2, <3>3, <3>4, <3>5, <3>6, <2>2, <1>1, <1>2, <1>4
        DEF AccountFact, Stopping, Running, Active
  <2>6. ASSUME NEW a \in Accounts \ DOMAIN found PROVE AccountFact(a)'
    <3>1. /\ a \notin owed'
          /\ account'[a].run # "none" => account'[a].known /\ account'[a].removed
          /\ account'[a].run = "none" => ~Active(a)' /\ ~account'[a].removed
          /\ account'[a].timer = "none" /\ ~account'[a].followUp
          /\ a \notin wave'.added
      <4>1. /\ account'[a].run = "none" => account'[a] = NoState
            /\ account'[a].run # "none" => account'[a].known /\ account'[a].removed
            /\ account'[a].timer = "none" /\ ~account'[a].followUp
            /\ a \notin Added(found)
        BY <2>1, RefreshedIs DEF IInv
      <4> QED BY <4>1, <2>2, <1>1, NoStateIs DEF Active
    <3>2. account'[a].run # "settling"
      BY <2>1, <1>1, RefreshedIs, NoStateIs DEF IInv, TypeOK, Quiet
    <3> QED BY <3>1, <3>2, <1>1, <1>2, <1>4 DEF AccountFact, Stopping, Running, Active
  <2> QED BY <2>4, <2>5, <2>6 DEF IInv
<1> QED BY <1>3, <1>4

LEMMA WaveRequestsKeeps == ASSUME IInv, WaveRequests PROVE IInv'
<1>1. /\ wave.phase = "requesting" /\ ~Stopping /\ Request(Targets)
      /\ wave' = [wave EXCEPT !.phase = "syncing", !.added = {}, !.waits = Targets]
      /\ UNCHANGED <<start, stop, pending, discoveryError, pulse>>
  BY DEF WaveRequests
<1>2. Running
  BY <1>1 DEF IInv, PhaseFact, Running
<1>3. Targets \subseteq Accounts /\ \A a \in Targets : Active(a) /\ account[a].run # "settling"
  BY <1>1 DEF IInv, TypeOK, Wave, AccountFact, Targets
<1>4. \A a \in Accounts \ Targets : a \notin wave.added /\ (Active(a) => ~account[a].scheduleFailed)
  BY <1>1 DEF IInv, AccountFact, Targets
<1>5. wave' \in Wave /\ wave'.phase = "syncing"
  BY <1>1, <1>3 DEF IInv, TypeOK, Wave
<1>6. TypeOK' /\ PhaseFact'
  BY <1>1, <1>2, <1>3, <1>5, RequestLeaves
     DEF IInv, TypeOK, PhaseFact, Running, Stopping, pulse
<1>7. ASSUME NEW a \in Targets PROVE AccountFact(a)'
  BY <1>1, <1>2, <1>3, <1>5, RequestKeeps
<1>8. ASSUME NEW a \in Accounts \ Targets PROVE AccountFact(a)'
  <2>1. account'[a] = account[a] /\ tried'[a] = tried[a] /\ (a \in owed' => a \in owed)
    BY <1>1, <1>3, RequestLeaves DEF IInv
  <2>2. AccountFact(a) /\ a \notin Targets /\ a \notin wave.added
    BY <1>4 DEF IInv
  <2> QED BY <2>1, <2>2, <1>1, <1>2, <1>5
      DEF AccountFact, Stopping, Running, Active, Tended, Tracked, Served
<1> QED BY <1>6, <1>7, <1>8 DEF IInv

-----------------------------------------------------------------------------
(* start().                                                                *)

LEMMA StartsKeep == ASSUME IInv, Start \/ StartIsStopped PROVE IInv'
<1>1. /\ start \in {"new", "scheduling"} /\ start' \in {"discovering", "started"}
      /\ start' = "started" => Stopping
      /\ start' # "started" => start # "started" /\ ~Stopping
      /\ UNCHANGED <<stop, account, maintenance, pulse, tried, owed, missed>>
  BY DEF Start, StartIsStopped
<1>2. TypeOK' /\ PhaseFact'
  BY <1>1 DEF IInv, TypeOK, PhaseFact, Stopping, maintenance, pulse
<1>3. ASSUME NEW a \in Accounts PROVE AccountFact(a)'
  BY <1>1 DEF IInv, AccountFact, Stopping, Running, Active, maintenance
<1> QED BY <1>2, <1>3 DEF IInv

LEMMA StartDiscoversKeeps ==
  ASSUME IInv, NEW found \in Discoveries, StartDiscovers(found)
  PROVE  IInv'
<1>1. /\ start = "discovering" /\ start' = "scheduling" /\ discoveryError' = FALSE
      /\ account' = IF Stopping THEN account ELSE Refreshed(found)
      /\ UNCHANGED <<stop, wave, pending, pulse, tried, owed, missed>>
  BY DEF StartDiscovers
<1>2. /\ owed = {} /\ wave.phase = "none" /\ stop \notin {"refresh", "wave", "runs", "done"}
  BY <1>1 DEF IInv, PhaseFact
<1>3. \A a \in Accounts : account[a].run = "none" /\ account[a].timer = "none"
  BY <1>1 DEF IInv, AccountFact
<1>4. /\ account' \in [Accounts -> State]
      /\ \A a \in Accounts : ~account'[a].known => account'[a] = NoState
      /\ \A a \in Accounts : account'[a].run = "none" /\ account'[a].timer = "none"
      /\ \A a \in Accounts : ~account'[a].removed
      /\ Stopping => account' = account
  <2>1. CASE Stopping
    BY <2>1, <1>1, <1>3 DEF IInv, TypeOK, AccountFact
  <2>2. CASE ~Stopping
    <3>1. account' = Refreshed(found)
      BY <2>2, <1>1
    <3>2. ASSUME NEW a \in Accounts
          PROVE  /\ ~account'[a].known => account'[a] = NoState
                 /\ account'[a].run = "none" /\ account'[a].timer = "none" /\ ~account'[a].removed
      BY <3>1, <1>3, RefreshedIs, NoStateIs DEF IInv
    <3> QED BY <2>2, <3>1, <3>2, RefreshedIs DEF IInv
  <2> QED BY <2>1, <2>2
<1>5. TypeOK' /\ PhaseFact'
  BY <1>1, <1>2, <1>4 DEF IInv, TypeOK, PhaseFact, Stopping, pulse
<1>6. ASSUME NEW a \in Accounts PROVE AccountFact(a)'
  BY <1>1, <1>2, <1>4 DEF IInv, AccountFact, Stopping, Running, Active
<1> QED BY <1>5, <1>6 DEF IInv

LEMMA StartFailsKeeps ==
  ASSUME IInv, StartDiscoveryFails
  PROVE  IInv'
<1>1. /\ start = "discovering" /\ start' = "failed"
      /\ account' = ClearTimers(account) /\ heartbeat' = FALSE
      /\ UNCHANGED <<stop, maintenance, retry, heartbeatError, tried, owed, missed>>
  BY DEF StartDiscoveryFails
<1>2. TypeOK' /\ PhaseFact'
  BY <1>1, ClearedLeaves DEF IInv, TypeOK, PhaseFact, Stopping, maintenance
<1>3. stop # "done"
  BY <1>1 DEF IInv, PhaseFact
<1> QED BY <1>1, <1>2, <1>3, ClearedKeeps DEF IInv, maintenance, Running

LEMMA StartCannotArmKeeps ==
  ASSUME IInv, NEW failed, StartCannotArm(failed)
  PROVE  IInv'
<1>1. /\ start = "scheduling" /\ start' = "failed" /\ ~Stopping
      /\ failed \subseteq {a \in Accounts : Active(a)}
      /\ account' = [a \in Accounts |-> [Unscheduled(account[a]) EXCEPT !.scheduleFailed = a \in failed]]
      /\ heartbeat' = FALSE
      /\ UNCHANGED <<stop, maintenance, retry, heartbeatError, tried, owed, missed>>
  BY DEF StartCannotArm
<1>2. ASSUME NEW a \in Accounts
      PROVE  /\ account'[a] \in State /\ account'[a].known = account[a].known
             /\ account'[a].removed = account[a].removed /\ account'[a].run = account[a].run
             /\ account'[a].timer = "none" /\ ~account'[a].followUp
             /\ ~account[a].known => account'[a] = NoState
  <2> DEFINE s == Unscheduled(account[a])
  <2>1. /\ s \in State /\ s.known = account[a].known /\ s.removed = account[a].removed
        /\ s.run = account[a].run /\ s.timer = "none" /\ ~s.followUp
        /\ account[a] = NoState => s = NoState
    BY UnscheduledIs DEF IInv, TypeOK
  <2>2. account'[a] = [s EXCEPT !.scheduleFailed = a \in failed]
    BY <1>1
  <2> HIDE DEF s
  <2>3. account'[a].scheduleFailed = (a \in failed)
    BY <2>1, <2>2 DEF State
  <2>4. ASSUME ~account[a].known PROVE account'[a] = NoState
    <3>1. s = NoState /\ a \notin failed /\ ~NoState.scheduleFailed
      BY <2>1, <2>4, <1>1 DEF IInv, TypeOK, Active, NoState, NewState
    <3> QED BY <3>1, <2>1, <2>2 DEF State
  <2>5. CASE a \in failed
    <3>1. account'[a] = [s EXCEPT !.scheduleFailed = TRUE]
      BY <2>2, <2>5
    <3> QED BY <3>1, <2>1, <2>4 DEF State
  <2>6. CASE a \notin failed
    <3>1. account'[a] = [s EXCEPT !.scheduleFailed = FALSE]
      <4>1. (a \in failed) = FALSE
        BY <2>6
      <4> QED BY <2>2, <4>1, Zenon
    <3> QED BY <3>1, <2>1, <2>4 DEF State
  <2> QED BY <2>5, <2>6
<1>3. account' \in [Accounts -> State]
  BY <1>1, <1>2
<1>4. TypeOK' /\ PhaseFact'
  BY <1>1, <1>2, <1>3 DEF IInv, TypeOK, PhaseFact, Stopping, maintenance
<1>5. ASSUME NEW a \in Accounts PROVE AccountFact(a)'
  BY <1>1, <1>2 DEF IInv, AccountFact, Stopping, Running, Active, maintenance
<1> QED BY <1>4, <1>5 DEF IInv

LEMMA StartSchedulesKeeps == ASSUME IInv, StartSchedules PROVE IInv'
<1>1. /\ start = "scheduling" /\ start' = "started" /\ ~Stopping
      /\ account' = [a \in Accounts |-> IF Active(a) THEN Scheduled(account[a], "now", TRUE)
                                                     ELSE account[a]]
      /\ heartbeat' = TRUE /\ heartbeatError' = FALSE
      /\ UNCHANGED <<stop, maintenance, retry, tried, owed, missed>>
  BY DEF StartSchedules
<1>2. ASSUME NEW a \in Accounts
      PROVE  /\ account'[a] \in State /\ account'[a].known = account[a].known
             /\ account'[a].removed = account[a].removed /\ account'[a].run = account[a].run
             /\ ~account[a].known => account'[a] = account[a]
             /\ Active(a) => account'[a].timer = "now"
             /\ ~Active(a) => account'[a] = account[a]
  <2>1. account[a] \in State /\ "now" \in Paces \ {"none"} /\ (~account[a].known => ~Active(a))
    BY DEF IInv, TypeOK, Paces, Active
  <2>2. CASE Active(a)
    <3>1. account'[a] = Scheduled(account[a], "now", TRUE)
      BY <2>2, <1>1
    <3>2. /\ Scheduled(account[a], "now", TRUE) \in State
          /\ Scheduled(account[a], "now", TRUE).known = account[a].known
          /\ Scheduled(account[a], "now", TRUE).removed = account[a].removed
          /\ Scheduled(account[a], "now", TRUE).run = account[a].run
          /\ Scheduled(account[a], "now", TRUE).timer = "now"
      BY <2>1, ScheduledIs
    <3> QED BY <3>1, <3>2, <2>2 DEF Active
  <2>3. CASE ~Active(a)
    BY <2>1, <2>3, <1>1
  <2> QED BY <2>2, <2>3
<1>3. account' \in [Accounts -> State]
  BY <1>1, <1>2
<1>4. TypeOK' /\ PhaseFact'
  BY <1>1, <1>2, <1>3 DEF IInv, TypeOK, PhaseFact, Stopping, maintenance
<1>5. owed' = {} /\ wave'.phase = "none"
  BY <1>1 DEF IInv, PhaseFact, maintenance
<1>6. ASSUME NEW a \in Accounts PROVE AccountFact(a)'
  <2>1. account[a].run = "none" /\ account[a].timer = "none" /\ ~account[a].removed
    BY <1>1 DEF IInv, AccountFact
  <2>2. account'[a].run = "none" /\ ~account'[a].removed
    BY <1>2, <2>1
  <2>3. Active(a)' = Active(a)
    BY <1>2 DEF Active
  <2>4. Active(a)' => account'[a].timer = "now"
    BY <1>2, <2>3
  <2>5. Active(a)' => Tended(a)' /\ Tracked(a)' /\ Served(a)'
    BY <1>5, <2>2, <2>4 DEF Tended, Tracked, Served
  <2>6. start' = "started" /\ ~Stopping' /\ stop' # "done" /\ wave'.phase # "requesting" /\ a \notin owed'
    BY <1>1, <1>5 DEF Stopping
  <2> QED BY <2>2, <2>5, <2>6 DEF AccountFact
<1> QED BY <1>4, <1>6 DEF IInv

-----------------------------------------------------------------------------
(* The theorems.                                                           *)

LEMMA Initially == Init => IInv
<1> SUFFICES ASSUME Init PROVE IInv
  OBVIOUS
<1>1. /\ \A a \in Accounts : account[a] = NoState
      /\ account \in [Accounts -> State] /\ tried \in [Accounts -> SUBSET Spellings]
  BY NoStateIs DEF Init
<1>2. NoWave \in Wave /\ NoWave.phase = "none"
  BY DEF NoWave, Wave, Modes
<1>3. TypeOK /\ PhaseFact
  BY <1>1, <1>2 DEF Init, TypeOK, PhaseFact, Stopping, Modes
<1>4. ASSUME NEW a \in Accounts PROVE AccountFact(a)
  BY <1>1, <1>2, NoStateIs DEF Init, AccountFact, Stopping, Running
<1> QED BY <1>3, <1>4 DEF IInv

LEMMA Inductive == IInv /\ [Next]_vars => IInv'
<1> SUFFICES ASSUME IInv, [Next]_vars PROVE IInv'
  OBVIOUS
<1>1. CASE Runs
  <2>1. Arms \subseteq BOOLEAN
    BY DEF Arms
  <2> QED BY <2>1, <1>1, TimerFiresKeeps, SyncAnswersKeeps, SyncSettlesKeeps DEF Runs
<1>2. CASE Starting
  BY <1>2, StartsKeep, StartFailsKeeps, StartSchedulesKeeps, StartDiscoversKeeps, StartCannotArmKeeps
     DEF Starting
<1>3. CASE Maintaining
  <2>1. Arms \subseteq BOOLEAN
    BY DEF Arms
  <2>2. WaveDiscoveryFails \/ WaveBreaks \/ WaveContinues \/ WaveCloses => wave.phase # "none"
    BY DEF WaveDiscoveryFails, WaveBreaks, WaveContinues, WaveCloses
  <2> QED BY <2>1, <2>2, <1>3, WaveDiscoversKeeps, WaveTurns, WaveRequestsKeeps, HeartbeatFiresKeeps,
             HeartbeatRetriesKeeps DEF Maintaining
<1>4. CASE Stops \/ Stop
  BY <1>4, StopKeeps, StopAwaitsKeeps, StopAwaitsRunsKeeps DEF Stops
<1>5. CASE SyncAllNow
  BY <1>5, SyncAllNowKeeps
<1>6. ASSUME NEW a \in Accounts, SyncNow(a) PROVE IInv'
  BY <1>6, SyncNowKeeps
<1>7. CASE UNCHANGED vars
  BY <1>7 DEF vars, IInv, TypeOK, PhaseFact, AccountFact, maintenance, pulse, Stopping, Running,
              Active, Tended, Tracked, Served, Targets
<1> QED BY <1>1, <1>2, <1>3, <1>4, <1>5, <1>6, <1>7 DEF Next

(* The inductive invariant: the types, the facts that tie a wave and the   *)
(* heartbeat to start() and stop(), and the fact about each account.       *)
THEOREM Invariant == Spec => []IInv
<1> QED BY Initially, Inductive, PTL DEF Spec

(* Every step of the supervisor keeps the types of its fields, and an      *)
(* account it forgets leaves nothing behind.                               *)
THEOREM TypeCorrect == Spec => []TypeOK
<1>1. IInv => TypeOK
  BY DEF IInv
<1> QED BY <1>1, Invariant, PTL

(* However additions, removals, timers that fail and requests interleave,  *)
(* no account that is still discovered is left without a next run, unless  *)
(* a timer failure is reported for it.                                     *)
THEOREM AccountsAlwaysTended == Spec => []AccountsAreTended
<1>1. IInv => AccountsAreTended
  BY DEF IInv, AccountFact, AccountsAreTended, Tended
<1> QED BY <1>1, Invariant, PTL

(* Nothing starts another run of an account that is no longer discovered.  *)
THEOREM RemovedAccountsAlwaysFinish == Spec => []RemovedAccountsOnlyFinish
<1>1. IInv => RemovedAccountsOnlyFinish
  BY DEF IInv, AccountFact, RemovedAccountsOnlyFinish
<1> QED BY <1>1, Invariant, PTL

(* Unless syncNow is called by a continuation between a run's last look at *)
(* its follow-up flag and its end, every request made during a run is      *)
(* answered by a run that begins after it.                                 *)
THEOREM RequestsAlwaysServed ==
  ASSUME ~EagerCallers
  PROVE  Spec => []RequestsAreServed
<1>1. IInv => RequestsAreServed
  BY DEF IInv, TypeOK, AccountFact, RequestsAreServed, Served
<1> QED BY <1>1, Invariant, PTL

(* A case-only rename is never lost: an account comes to rest only after   *)
(* a run under its latest spelling.                                        *)
THEOREM LatestSpellingAlwaysTried == Spec => []LatestSpellingIsTried
<1>1. IInv => LatestSpellingIsTried
  BY DEF IInv, AccountFact, LatestSpellingIsTried, Tracked
<1> QED BY <1>1, Invariant, PTL

(* When stop() resolves, no wave, no run and no timer is left that could   *)
(* start msgvault again.                                                   *)
THEOREM StoppedAlwaysDrained == Spec => []StoppedIsDrained
<1>1. IInv => StoppedIsDrained
  BY DEF IInv, PhaseFact, AccountFact, StoppedIsDrained, Stopping
<1> QED BY <1>1, Invariant, PTL
=============================================================================
