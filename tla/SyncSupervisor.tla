--------------------------- MODULE SyncSupervisor ---------------------------
(***************************************************************************)
(* MsgvaultSyncSupervisor: one process-local scheduler that keeps every    *)
(* discovered account synchronised, by a timer per account, by maintenance *)
(* waves (a heartbeat, a late heartbeat after a suspend, syncNow) and on   *)
(* request, until it is stopped and has drained.                           *)
(*                                                                         *)
(* Code between two awaits runs alone, so it is one action.  Timers,       *)
(* finished syncs, answered discoveries and calls are events: they come    *)
(* only when no continuation is runnable (Quiet).  A caller of syncNow or  *)
(* stop may instead itself be a continuation, anywhere (EagerCallers).     *)
(* Durations are left out: a timer that is armed may fire at any time.     *)
(***************************************************************************)
EXTENDS Naturals, FiniteSets

CONSTANTS
  Accounts,      \* case-folded account identities
  Spellings,     \* exact msgvault source identifiers of one account
  IdleAfter,     \* idleAfterEmptyRuns
  TimersFail,    \* whether setTimeout may throw
  EagerCallers   \* whether syncNow and stop may be called by a continuation

ASSUME IdleAfterIsPositive == IdleAfter \in Nat \ {0}
ASSUME OptionsAreBoolean == TimersFail \in BOOLEAN /\ EagerCallers \in BOOLEAN
ASSUME SpellingsExist == Spellings # {}

VARIABLES
  start,           \* #startPromise and #started
  stop,            \* #stopping and how far #stopPromise has come
  account,         \* #accounts
  wave,            \* #maintenancePromise: what the wave is doing
  pending,         \* #maintenancePending
  heartbeat,       \* #heartbeat is armed
  retry,           \* #heartbeatRetryQueued, and whether its wait is over
  heartbeatError, discoveryError,
  tried,           \* external: the spelling of an account's last msgvault run
  owed,            \* history: accounts requested since their last run began
  missed           \* history: accounts without a run since the last "all" trigger

vars == <<start, stop, account, wave, pending, heartbeat, retry,
          heartbeatError, discoveryError, tried, owed, missed>>
maintenance == <<wave, pending, discoveryError>>
pulse == <<heartbeat, retry, heartbeatError>>

Modes == {"none", "additions", "all"}
Paces == {"none", "now", "active", "idle"}
State == [known : BOOLEAN, spelling : Spellings, timer : Paces,
          run : {"none", "running", "settling"}, followUp : BOOLEAN, empty : 0 .. IdleAfter,
          error : BOOLEAN, removed : BOOLEAN, scheduleFailed : BOOLEAN]
Wave == [phase : {"none", "discovering", "requesting", "syncing", "closing"},
         mode : Modes, added : SUBSET Accounts, waits : SUBSET Accounts]
NoWave == [phase |-> "none", mode |-> "none", added |-> {}, waits |-> {}]
NewState(spelling) ==
  [known |-> TRUE, spelling |-> spelling, timer |-> "none", run |-> "none", followUp |-> FALSE,
   empty |-> 0, error |-> FALSE, removed |-> FALSE, scheduleFailed |-> FALSE]
NoState == [NewState(CHOOSE s \in Spellings : TRUE) EXCEPT !.known = FALSE]

TypeOK ==
  /\ start \in {"new", "discovering", "scheduling", "started", "failed"}
  /\ stop \in {"no", "start", "refresh", "wave", "runs", "done"}
  /\ account \in [Accounts -> State]
  /\ \A a \in Accounts : ~account[a].known => account[a] = NoState
  /\ wave \in Wave
  /\ pending \in Modes
  /\ heartbeat \in BOOLEAN /\ retry \in {"none", "waiting", "due"}
  /\ heartbeatError \in BOOLEAN /\ discoveryError \in BOOLEAN
  /\ tried \in [Accounts -> SUBSET Spellings]
  /\ owed \subseteq Accounts /\ missed \subseteq Accounts

Init ==
  /\ start = "new" /\ stop = "no"
  /\ account = [a \in Accounts |-> NoState]
  /\ wave = NoWave /\ pending = "none"
  /\ heartbeat = FALSE /\ retry = "none"
  /\ heartbeatError = FALSE /\ discoveryError = FALSE
  /\ tried = [a \in Accounts |-> {}]
  /\ owed = {} /\ missed = {}

Stopping == stop # "no"
Active(a) == account[a].known /\ ~account[a].removed

\* No continuation is runnable: the event loop may take the next event.
Quiet ==
  /\ start # "scheduling"
  /\ wave.phase \notin {"requesting", "closing"}
  /\ ~(wave.phase = "syncing" /\ wave.waits = {})
  /\ \A a \in Accounts : account[a].run # "settling"
  /\ retry # "due"
Called == Quiet \/ EagerCallers

-----------------------------------------------------------------------------
(* Timers and runs.                                                        *)

\* armSafeTimer either arms, or throws and leaves nothing armed: setTimeout
\* threw, or fired its callback synchronously.
Arms == IF TimersFail THEN BOOLEAN ELSE {TRUE}

Unscheduled(s) == [s EXCEPT !.timer = "none", !.followUp = FALSE]
ClearTimers(accounts) == [a \in Accounts |-> Unscheduled(accounts[a])]

Scheduled(s, pace, armed) ==
  IF armed THEN [s EXCEPT !.timer = pace, !.scheduleFailed = FALSE]
           ELSE [s EXCEPT !.timer = "none", !.scheduleFailed = TRUE]
RestsWhenIdle(s) == IF s.empty >= IdleAfter THEN "none" ELSE "active"
NextDelay(s) == IF s.empty >= IdleAfter THEN "idle" ELSE "active"

\* What #request makes of an account: a new run, or a follow-up of the one in
\* flight.  It cancels the timer, which would only ask for the same.
ForgetsFollowUp(s) ==
  IF s.run = "none"
  THEN [s EXCEPT !.timer = "none", !.scheduleFailed = FALSE, !.run = "running", !.followUp = FALSE]
  ELSE [s EXCEPT !.timer = "none", !.scheduleFailed = FALSE]
Requested(s) ==
  IF s.run = "none"
  THEN [s EXCEPT !.timer = "none", !.scheduleFailed = FALSE, !.run = "running", !.followUp = FALSE]
  ELSE [s EXCEPT !.timer = "none", !.scheduleFailed = FALSE, !.followUp = TRUE]

\* #request of every account in targets, none of them removed.
Request(targets) ==
  LET begins == {a \in targets : account[a].run = "none"} IN
  /\ account' = [a \in Accounts |-> IF a \in targets THEN Requested(account[a]) ELSE account[a]]
  /\ tried' = [a \in Accounts |-> IF a \in begins THEN {account[a].spelling} ELSE tried[a]]
  /\ owed' = (owed \cup targets) \ begins
  /\ missed' = missed \ begins

TimerFires(a) ==
  /\ Quiet
  /\ account[a].timer # "none"
  /\ Request({a})
  /\ UNCHANGED <<start, stop, maintenance, pulse>>

\* The run's result, and the loop's test for a follow-up.
Finished(s, outcome) ==
  [s EXCEPT !.error = (outcome = "error"),
            !.empty = IF outcome = "empty" THEN IF @ < IdleAfter THEN @ + 1 ELSE @ ELSE 0]
SyncAnswers(a, outcome) ==
  LET s == Finished(account[a], outcome)
      again == s.followUp /\ ~Stopping /\ ~s.removed
  IN
  /\ Quiet
  /\ s.run = "running"
  /\ account' = [account EXCEPT ![a] = IF again THEN [s EXCEPT !.followUp = FALSE]
                                                ELSE [s EXCEPT !.run = "settling"]]
  /\ tried' = IF again THEN [tried EXCEPT ![a] = {s.spelling}] ELSE tried
  /\ owed' = IF again THEN owed \ {a} ELSE owed
  /\ missed' = IF again THEN missed \ {a} ELSE missed
  /\ UNCHANGED <<start, stop, maintenance, pulse>>

\* The finally of a run: schedule the next, or forget a removed account.
KeepsRemoved(s, armed) ==
  LET idle == [s EXCEPT !.run = "none"] IN
  IF Stopping \/ s.removed THEN idle
  ELSE LET next == Scheduled(idle, NextDelay(s), armed) IN [next EXCEPT !.error = @ \/ ~armed]
Settled(s, armed) ==
  LET idle == [s EXCEPT !.run = "none"] IN
  IF s.removed THEN NoState
  ELSE IF Stopping THEN idle
  ELSE LET next == Scheduled(idle, NextDelay(s), armed) IN [next EXCEPT !.error = @ \/ ~armed]
SettlesUnseen(a, armed) ==
  /\ account[a].run = "settling"
  /\ account' = [account EXCEPT ![a] = Settled(account[a], armed)]
  /\ UNCHANGED <<start, stop, maintenance, pulse, tried, owed, missed>>
SyncSettles(a, armed) ==
  /\ account[a].run = "settling"
  /\ account' = [account EXCEPT ![a] = Settled(account[a], armed)]
  /\ wave' = [wave EXCEPT !.waits = @ \ {a}]
  /\ UNCHANGED <<start, stop, pending, discoveryError, pulse, tried, owed, missed>>

-----------------------------------------------------------------------------
(* Discovery: found maps each discovered account to its exact spelling.    *)

Discoveries == UNION {[found -> Spellings] : found \in SUBSET Accounts}

\* New, returned and respelled accounts, which the caller is told of.
IgnoresSpelling(found) ==
  {a \in DOMAIN found : ~account[a].known \/ account[a].removed}
Added(found) ==
  {a \in DOMAIN found : ~account[a].known \/ account[a].removed
                        \/ account[a].spelling # found[a]}
Refreshed(found) ==
  [a \in Accounts |->
     IF a \in DOMAIN found
     THEN IF account[a].known
          THEN [account[a] EXCEPT !.spelling = found[a], !.removed = FALSE]
          ELSE NewState(found[a])
     ELSE IF account[a].known /\ account[a].run # "none"
          THEN [account[a] EXCEPT !.removed = TRUE, !.timer = "none", !.followUp = FALSE]
          ELSE NoState]

-----------------------------------------------------------------------------
(* start().                                                                *)

Start ==
  /\ Called
  /\ start = "new"
  /\ ~Stopping
  /\ start' = "discovering"
  /\ UNCHANGED <<stop, account, maintenance, pulse, tried, owed, missed>>

StartDiscovers(found) ==
  /\ Quiet
  /\ start = "discovering"
  /\ discoveryError' = FALSE
  /\ start' = "scheduling"
  /\ account' = IF Stopping THEN account ELSE Refreshed(found)
  /\ UNCHANGED <<stop, wave, pending, pulse, tried, owed, missed>>

StartDiscoveryFails ==
  /\ Quiet
  /\ start = "discovering"
  /\ start' = "failed"
  /\ account' = ClearTimers(account)
  /\ heartbeat' = FALSE
  /\ UNCHANGED <<stop, maintenance, retry, heartbeatError, tried, owed, missed>>

\* Every account's first timer, then the heartbeat.
StartSchedules ==
  /\ start = "scheduling"
  /\ ~Stopping
  /\ start' = "started"
  /\ account' = [a \in Accounts |-> IF Active(a) THEN Scheduled(account[a], "now", TRUE)
                                                 ELSE account[a]]
  /\ heartbeat' = TRUE /\ heartbeatError' = FALSE
  /\ UNCHANGED <<stop, maintenance, retry, tried, owed, missed>>

\* One of them does not arm: those that did are cleared and start() fails.
StartCannotArm(failed) ==
  /\ TimersFail
  /\ start = "scheduling"
  /\ ~Stopping
  /\ failed \subseteq {a \in Accounts : Active(a)} \* at most one; none if it is the heartbeat
  /\ start' = "failed"
  /\ account' = [a \in Accounts |-> [Unscheduled(account[a]) EXCEPT !.scheduleFailed = a \in failed]]
  /\ heartbeat' = FALSE
  /\ UNCHANGED <<stop, maintenance, retry, heartbeatError, tried, owed, missed>>

StartIsStopped ==
  /\ start = "scheduling"
  /\ Stopping
  /\ start' = "started"
  /\ UNCHANGED <<stop, account, maintenance, pulse, tried, owed, missed>>

-----------------------------------------------------------------------------
(* Maintenance waves.                                                      *)

Merged(mode) == IF mode = "all" \/ pending = "none" THEN mode ELSE pending

Discovering(mode) == [NoWave EXCEPT !.phase = "discovering", !.mode = mode]

\* #requestMaintenance: join the wave under way, or begin one.
RequestMaintenance(mode) ==
  /\ pending' = IF wave.phase = "none" THEN "none" ELSE Merged(mode)
  /\ wave' = IF wave.phase = "none" THEN Discovering(Merged(mode)) ELSE wave
  /\ missed' = IF mode = "all" THEN Accounts ELSE missed

\* The test of the wave's loop: another iteration, or the end.
LoopTest ==
  IF pending # "none" /\ ~Stopping
  THEN wave' = Discovering(pending) /\ pending' = "none"
  ELSE wave' = [NoWave EXCEPT !.phase = "closing"] /\ UNCHANGED pending

WaveDiscovers(found) ==
  /\ Quiet
  /\ wave.phase = "discovering"
  /\ discoveryError' = FALSE
  /\ account' = IF Stopping THEN account ELSE Refreshed(found)
  /\ wave' = [wave EXCEPT !.phase = "requesting", !.added = IF Stopping THEN {} ELSE Added(found)]
  /\ owed' = owed \cap DOMAIN found
  /\ UNCHANGED <<start, stop, pending, pulse, tried, missed>>

WaveDiscoveryFails ==
  /\ Quiet
  /\ wave.phase = "discovering"
  /\ discoveryError' = TRUE
  /\ LoopTest
  /\ UNCHANGED <<start, stop, account, pulse, tried, owed, missed>>

AddedOnly == wave.added
Targets ==
  IF wave.mode = "all" THEN {a \in Accounts : Active(a)}
  ELSE wave.added \cup {a \in Accounts : Active(a) /\ account[a].scheduleFailed}

WaveRequests ==
  /\ wave.phase = "requesting"
  /\ ~Stopping
  /\ Request(Targets)
  /\ wave' = [wave EXCEPT !.phase = "syncing", !.added = {}, !.waits = Targets]
  /\ UNCHANGED <<start, stop, pending, discoveryError, pulse>>

WaveBreaks ==
  /\ wave.phase = "requesting"
  /\ Stopping
  /\ wave' = [NoWave EXCEPT !.phase = "closing"]
  /\ UNCHANGED <<start, stop, account, pending, discoveryError, pulse, tried, owed, missed>>

\* Every run the wave asked for has ended.
WaveContinues ==
  /\ wave.phase = "syncing"
  /\ wave.waits = {}
  /\ LoopTest
  /\ UNCHANGED <<start, stop, account, discoveryError, pulse, tried, owed, missed>>

\* The finally of the wave, which a queued heartbeat retry waits for.
WaveCloses ==
  /\ wave.phase = "closing"
  /\ wave' = NoWave
  /\ retry' = IF retry = "waiting" THEN "due" ELSE retry
  /\ UNCHANGED <<start, stop, account, pending, discoveryError, heartbeat, heartbeatError,
                 tried, owed, missed>>

-----------------------------------------------------------------------------
(* The heartbeat.                                                          *)

\* late: the process was suspended.  The heartbeat asks for maintenance and is
\* armed again, or one retry is queued behind the wave.
HeartbeatFires(late, armed) ==
  /\ Quiet
  /\ heartbeat
  /\ RequestMaintenance(IF late THEN "all" ELSE "additions")
  /\ heartbeat' = armed
  /\ heartbeatError' = ~armed
  /\ retry' = IF ~armed /\ retry = "none" THEN "waiting" ELSE retry
  /\ UNCHANGED <<start, stop, account, discoveryError, tried, owed>>

HeartbeatRetries(armed) ==
  /\ retry = "due"
  /\ retry' = "none"
  /\ IF Stopping \/ heartbeat
     THEN UNCHANGED <<heartbeat, heartbeatError>>
     ELSE heartbeat' = armed /\ heartbeatError' = ~armed
  /\ UNCHANGED <<start, stop, account, maintenance, tried, owed, missed>>

-----------------------------------------------------------------------------
(* syncNow(account), syncNow() and stop().                                 *)

SyncNow(a) ==
  /\ Called
  /\ start = "started" /\ ~Stopping
  /\ Active(a)
  /\ Request({a})
  /\ UNCHANGED <<start, stop, maintenance, pulse>>

SyncAllNow ==
  /\ Called
  /\ start = "started" /\ ~Stopping
  /\ RequestMaintenance("all")
  /\ UNCHANGED <<start, stop, account, discoveryError, pulse, tried, owed>>

Stop ==
  /\ Called
  /\ stop = "no"
  /\ stop' = "start"
  /\ account' = ClearTimers(account)
  /\ heartbeat' = FALSE
  /\ UNCHANGED <<start, maintenance, retry, heartbeatError, tried, owed, missed>>

StopAwaitsStart ==
  /\ stop = "start"
  /\ start \notin {"discovering", "scheduling"}
  /\ stop' = "refresh"
  /\ account' = ClearTimers(account)
  /\ heartbeat' = FALSE
  /\ UNCHANGED <<start, maintenance, retry, heartbeatError, tried, owed, missed>>

StopAwaitsRefresh ==
  /\ stop = "refresh"
  /\ wave.phase # "discovering"
  /\ stop' = "wave"
  /\ pending' = "none"
  /\ UNCHANGED <<start, account, wave, discoveryError, pulse, tried, owed, missed>>

StopAwaitsWave ==
  /\ stop = "wave"
  /\ wave.phase = "none"
  /\ stop' = "runs"
  /\ UNCHANGED <<start, account, maintenance, pulse, tried, owed, missed>>

StopsOnceClear ==
  /\ stop = "runs"
  /\ stop' = "done"
  /\ account' = ClearTimers(account)
  /\ heartbeat' = FALSE
  /\ UNCHANGED <<start, maintenance, retry, heartbeatError, tried, owed, missed>>
StopAwaitsRuns ==
  /\ stop = "runs"
  /\ \A a \in Accounts : account[a].run = "none"
  /\ stop' = "done"
  /\ account' = ClearTimers(account)
  /\ heartbeat' = FALSE
  /\ UNCHANGED <<start, maintenance, retry, heartbeatError, tried, owed, missed>>

-----------------------------------------------------------------------------
Runs ==
  \/ \E a \in Accounts : TimerFires(a)
  \/ \E a \in Accounts, outcome \in {"changed", "empty", "error"} : SyncAnswers(a, outcome)
  \/ \E a \in Accounts, armed \in Arms : SyncSettles(a, armed)

Starting ==
  \/ Start \/ StartDiscoveryFails \/ StartSchedules \/ StartIsStopped
  \/ \E found \in Discoveries : StartDiscovers(found)
  \/ StartCannotArm({}) \/ \E a \in Accounts : StartCannotArm({a})

Maintaining ==
  \/ \E found \in Discoveries : WaveDiscovers(found)
  \/ WaveDiscoveryFails \/ WaveRequests \/ WaveBreaks \/ WaveContinues \/ WaveCloses
  \/ \E late \in BOOLEAN, armed \in Arms : HeartbeatFires(late, armed)
  \/ \E armed \in Arms : HeartbeatRetries(armed)

Stops == StopAwaitsStart \/ StopAwaitsRefresh \/ StopAwaitsWave \/ StopAwaitsRuns

Next ==
  \/ Runs \/ Starting \/ Maintaining \/ Stops \/ Stop \/ SyncAllNow
  \/ \E a \in Accounts : SyncNow(a)

\* Continuations run (weak).  A due timer, an ended msgvault and an answered
\* discovery wait only for the event loop, which serves each of them between
\* other events (strong, since an event is taken only when Quiet).  Nobody has
\* to call start, syncNow or stop.
Fairness ==
  /\ \A a \in Accounts :
       /\ SF_vars(TimerFires(a))
       /\ SF_vars(\E outcome \in {"changed", "empty", "error"} : SyncAnswers(a, outcome))
       /\ WF_vars(\E armed \in Arms : SyncSettles(a, armed))
  /\ SF_vars(StartDiscoveryFails \/ \E found \in Discoveries : StartDiscovers(found))
  /\ WF_vars(StartSchedules \/ StartIsStopped)
  /\ SF_vars(WaveDiscoveryFails \/ \E found \in Discoveries : WaveDiscovers(found))
  /\ WF_vars(WaveRequests \/ WaveBreaks \/ WaveContinues \/ WaveCloses)
  /\ SF_vars(\E late \in BOOLEAN, armed \in Arms : HeartbeatFires(late, armed))
  /\ WF_vars(\E armed \in Arms : HeartbeatRetries(armed))
  /\ WF_vars(Stops)

Spec == Init /\ [][Next]_vars
FairSpec == Spec /\ Fairness

-----------------------------------------------------------------------------
(* Properties.                                                             *)

Running == start = "started" /\ ~Stopping

(* No account is orphaned: whatever additions, removals, failed timers and *)
(* requests interleave, an active account has a timer, a run, a wave about *)
(* to ask for one, or a reported timer failure that the next wave repairs. *)
AccountsAreTended ==
  Running =>
    \A a \in Accounts : Active(a) =>
      \/ account[a].timer # "none"
      \/ account[a].run # "none"
      \/ wave.phase = "requesting" /\ a \in Targets
      \/ account[a].scheduleFailed /\ account[a].error

(* An account that is no longer discovered only finishes the run it has:   *)
(* no timer and no follow-up can start another.                            *)
RemovedAccountsOnlyFinish ==
  \A a \in Accounts : account[a].removed =>
    account[a].run # "none" /\ account[a].timer = "none" /\ ~account[a].followUp

(* A request made while a run is in flight is not absorbed by that run:    *)
(* another run follows, unless the supervisor stops or the account goes.   *)
RequestsAreServed ==
  Running => \A a \in owed : Active(a) => account[a].run = "running" /\ account[a].followUp

(* After a case-only rename, an account that rests was last synchronised   *)
(* under its latest spelling, which is msgvault's lookup value.            *)
LatestSpellingIsTried ==
  Running =>
    \A a \in Accounts :
      /\ Active(a) /\ account[a].run = "none" /\ account[a].timer # "now"
      /\ ~(wave.phase = "requesting" /\ a \in wave.added)
      => tried[a] = {account[a].spelling}

(* Once stop() has resolved nothing runs, nothing is armed and no wave is  *)
(* left that could still start msgvault: the archive may be released.      *)
StoppedIsDrained ==
  stop = "done" =>
    /\ start \notin {"discovering", "scheduling"} /\ wave.phase = "none" /\ ~heartbeat
    /\ \A a \in Accounts : account[a].run = "none" /\ account[a].timer = "none"

(* A suspend, or syncNow(), reaches every account: when its wave is over   *)
(* and no failure is reported, each active account ran since.              *)
ResumeReachesAll ==
  Running /\ wave.phase = "none" /\ ~discoveryError => \A a \in missed : ~Active(a)

(* stop() always comes to an end, however it races start, waves and runs.  *)
StopCompletes == Stopping ~> stop = "done"

(* An account that stays discovered is synchronised again and again, a     *)
(* timer that failed to arm included, as long as the heartbeat and the     *)
(* discovery do not themselves fail, which is reported.                    *)
AccountsKeepSyncing ==
  \A a \in Accounts :
    Running /\ Active(a)
    ~> account[a].run = "running" \/ ~Running \/ ~Active(a)
       \/ heartbeatError \/ discoveryError
=============================================================================
