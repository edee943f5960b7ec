------------------------------ MODULE AutoResume ------------------------------
(* How the daemon brings an interrupted task back.  A reconcile tick sweeps    *)
(* the tasks and relaunches a fresh interruption at once (the fast lane,       *)
(* maybeAutoResume); once a task was interrupted Breaker times in a row it     *)
(* falls to the slow lane (processAutoResumeQueue), which retries one task per *)
(* tick, Interval after its last attempt, at most MaxAttempts times.  Both     *)
(* lanes share one stamp on disk, which keeps two relaunches Gap apart.  A     *)
(* `lazy stop` runs beside the tick, a step at a time, and so does a launch of *)
(* the fast lane.                                                              *)
(* Times are ages, counted in units and saturated where the code only compares.*)
(* Left out: a second tick forced after five minutes of the first, tasks whose *)
(* turn is an ask or a review, pairing locks, and the errors that park a task  *)
(* at once (a refused credential, a failed sync: handleErrorResponse).         *)
EXTENDS Naturals, FiniteSets

CONSTANTS
  Tasks, NoTask,
  Breaker,        \* MAX_CONSECUTIVE_INTERRUPTIONS
  MaxAttempts,    \* daemon.auto_resume_max_attempts
  Gap, Interval,  \* daemon.auto_resume_gap_minutes, auto_resume_interval_minutes
  MaxEnds,        \* bound on the turns that end
  MaxEvents       \* bound on the stops, pick-ups, holds, restarts and lost stamps
                  \* together

ASSUME ResumeConstants ==
  /\ NoTask \notin Tasks
  /\ {Breaker, MaxAttempts, Interval} \subseteq Nat \ {0}
  /\ {Gap, MaxEnds, MaxEvents} \subseteq Nat
  /\ Gap <= Interval

VARIABLES
  status,    \* the task: parked (blocked, conflict), working or interrupted
  run,       \* its supervisor: none, live, answered, or failed (an error response)
  crashes,   \* session.consecutive_interruptions, up to Breaker
  stopped,   \* session.user_stopped
  attempts,  \* slow_lane_attempts (slow_lane_exhausted when MaxAttempts)
  tried,     \* of the tasks with a slow_lane_last_attempt_at, the pairs <<t, u>>
             \* such that the one of t is no later than the one of u
  age,       \* since that attempt, or else since session.interrupt_at
  stamp,     \* since lastAutoResumeAt of auto-resume-queue.json (Gap: long ago, or none)
  tick,      \* where the reconcile tick is
  launch,    \* autoResumeTask for the task: none, begun, or marked (status set working)
  stopping,  \* the `lazy stop` RPC: no, asked, flagged or halted
  held,      \* the tasks a usage pause or a missing runner image holds
  quiet,     \* since a relaunch last began (a history variable)
  undated,   \* whether the stamp does not tell of that relaunch, because its write
             \* failed, was not reached or is lost (a history variable)
  spent      \* what was used of each bound

session == <<crashes, stopped>>
lane == <<attempts, tried, age>>
past == <<quiet, undated>>
vars == <<status, run, session, lane, stamp, tick, launch, stopping, held, past, spent>>

Bounds == [ends |-> MaxEnds, events |-> MaxEvents]
Spend(b) == spent[b] < Bounds[b] /\ spent' = [spent EXCEPT ![b] = @ + 1]

Idle == [at |-> "idle", todo |-> {}, task |-> NoTask, since |-> 0]

WasTried(t) == <<t, t>> \in tried

(* The last attempts are in one order, and the order is of nothing else.      *)
AttemptsOrdered ==
  /\ tried \subseteq Tasks \X Tasks
  /\ \A t, u \in Tasks :
       /\ <<t, u>> \in tried => WasTried(t) /\ WasTried(u)
       /\ WasTried(t) /\ WasTried(u) => <<t, u>> \in tried \/ <<u, t>> \in tried
       /\ <<t, u>> \in tried /\ <<u, t>> \in tried => t = u
       /\ \A v \in Tasks : <<t, u>> \in tried /\ <<u, v>> \in tried => <<t, v>> \in tried

TypeOK ==
  /\ status \in [Tasks -> {"parked", "working", "interrupted"}]
  /\ run \in [Tasks -> {"none", "live", "answered", "failed"}]
  /\ crashes \in [Tasks -> 0..Breaker]
  /\ stopped \in [Tasks -> BOOLEAN]
  /\ attempts \in [Tasks -> 0..MaxAttempts]
  /\ age \in [Tasks -> 0..Interval]
  /\ stamp \in 0..Gap
  /\ tick \in [at : {"idle", "sweep", "dispatch", "slow", "record", "stamp"},
               todo : SUBSET Tasks, task : Tasks \cup {NoTask}, since : 0..Interval]
  /\ launch \in [Tasks -> {"none", "begun", "marked"}]
  /\ stopping \in [Tasks -> {"no", "asked", "flagged", "halted"}]
  /\ held \in SUBSET Tasks
  /\ quiet \in 0..Gap
  /\ undated \in BOOLEAN
  /\ AttemptsOrdered

Init ==
  /\ status = [t \in Tasks |-> "working"]
  /\ run = [t \in Tasks |-> "live"]
  /\ crashes = [t \in Tasks |-> 0]
  /\ stopped = [t \in Tasks |-> FALSE]
  /\ attempts = [t \in Tasks |-> 0]
  /\ tried = {}
  /\ age = [t \in Tasks |-> 0]
  /\ stamp = Gap
  /\ tick = Idle
  /\ launch = [t \in Tasks |-> "none"]
  /\ stopping = [t \in Tasks |-> "no"]
  /\ held = {}
  /\ quiet = Gap
  /\ undated = FALSE
  /\ spent = [b \in DOMAIN Bounds |-> 0]
-------------------------------------------------------------------------------
Older(n, limit) == IF n < limit THEN n + 1 ELSE limit
AtMost(n, limit) == IF n < limit THEN n ELSE limit

(* The last attempts of the tasks that are not in S.                          *)
TriedBut(S) == tried \cap ((Tasks \ S) \X (Tasks \ S))

(* recordInterrupt: one interruption more, at this moment.  The interval of a *)
(* task that was tried already is still counted from its last attempt.        *)
RecordInterrupt(t) ==
  /\ crashes' = [crashes EXCEPT ![t] = Older(@, Breaker)]
  /\ age' = IF WasTried(t) THEN age ELSE [age EXCEPT ![t] = 0]

(* resetConsecutiveInterruptions and resetSlowLaneState.                      *)
ResetSession(t) ==
  /\ crashes' = [crashes EXCEPT ![t] = 0]
  /\ stopped' = [stopped EXCEPT ![t] = FALSE]
ResetSlowLane(t) ==
  /\ attempts' = [attempts EXCEPT ![t] = 0]
  /\ tried' = TriedBut({t})

(* listSlowLaneQueue: what is in the slow lane, and its round-robin order.    *)
Queued(t) ==
  /\ status[t] = "interrupted"
  /\ crashes[t] >= Breaker
  /\ ~stopped[t]
  /\ attempts[t] < MaxAttempts
GoesBefore(u, t) ==
  \/ WasTried(t) /\ ~WasTried(u)
  \/ u # t /\ <<u, t>> \in tried
(* What processAutoResumeQueue does not pass over.                            *)
Retryable(t) == Queued(t) /\ age[t] >= Interval /\ t \notin held
(* Mutant of Candidate: the first entry of the queue is taken, and nothing is *)
(* retried in this tick when a pause holds it.                                *)
CandidateUnlessHeld(t) ==
  /\ Retryable(t)
  /\ \A u \in Tasks : Queued(u) /\ age[u] >= Interval => ~GoesBefore(u, t)

(* The first of them in the order of the queue.                               *)
Candidate(t) == Retryable(t) /\ \A u \in Tasks : Retryable(u) => ~GoesBefore(u, t)

(* What maybeAutoResume asks before a relaunch of the fast lane.              *)
GapElapsed == stamp = Gap
FastEligible(t) ==
  /\ status[t] = "interrupted"
  /\ launch[t] = "none"
  /\ ~stopped[t]
  /\ crashes[t] < Breaker
  /\ t \notin held
  /\ GapElapsed
-------------------------------------------------------------------------------
(* The tick.                                                                  *)
StartTick ==
  /\ tick.at = "idle"
  /\ tick' = [tick EXCEPT !.at = "sweep", !.todo = Tasks]
  /\ UNCHANGED <<status, run, session, lane, stamp, launch, stopping, held, past, spent>>

Visits(t) == tick.at = "sweep" /\ t \in tick.todo
Done(t) == tick' = [tick EXCEPT !.todo = @ \ {t}]

(* A turn that answered, or one whose supervisor died after it had committed  *)
(* its work, is parked, and the task starts afresh in both lanes.             *)
SweepSettles(t) ==
  /\ Visits(t)
  /\ status[t] = "working" /\ launch[t] = "none" /\ run[t] \in {"answered", "none"}
  /\ status' = [status EXCEPT ![t] = "parked"]
  /\ run' = [run EXCEPT ![t] = "none"]
  /\ ResetSession(t)
  /\ ResetSlowLane(t)
  /\ Done(t)
  /\ UNCHANGED <<age, stamp, launch, stopping, held, past, spent>>

(* A turn whose run is gone, or that reports an error, is interrupted.  The   *)
(* task stays to be visited: it is offered to the fast lane next.             *)
SweepInterrupts(t) ==
  /\ Visits(t)
  /\ status[t] = "working" /\ launch[t] = "none" /\ run[t] \in {"failed", "none"}
  /\ status' = [status EXCEPT ![t] = "interrupted"]
  /\ run' = [run EXCEPT ![t] = "none"]
  /\ RecordInterrupt(t)
  /\ UNCHANGED <<stopped, attempts, tried, stamp, tick, launch, stopping, held, past, spent>>

SweepOffers(t) ==
  /\ Visits(t)
  /\ FastEligible(t)
  /\ tick' = [tick EXCEPT !.at = "dispatch", !.task = t, !.todo = @ \ {t}]
  /\ UNCHANGED <<status, run, session, lane, stamp, launch, stopping, held, past, spent>>

(* Nothing to do, or the auto-react budget (shouldAutoReact) refuses.         *)
SweepPasses(t) ==
  /\ Visits(t)
  /\ status[t] = "working" => launch[t] # "none" \/ run[t] = "live"
  /\ Done(t)
  /\ UNCHANGED <<status, run, session, lane, stamp, launch, stopping, held, past, spent>>

(* Mutant of Dispatch: the stamp is left to the end of the launch, as in the  *)
(* slow lane.                                                                 *)
DispatchUnstamped ==
  /\ tick.at = "dispatch"
  /\ launch' = [launch EXCEPT ![tick.task] = "begun"]
  /\ quiet' = 0
  /\ tick' = [tick EXCEPT !.at = "sweep", !.task = NoTask]
  /\ UNCHANGED <<status, run, session, lane, stamp, stopping, held, undated, spent>>

(* recordProjectAutoResume fails: the file is as it was, or cannot be read,   *)
(* which counts as no stamp.                                                  *)
StampFails ==
  /\ stamp' \in {stamp, Gap}
  /\ undated' = TRUE

(* The awaits of the gates are over: the stamp is written, or its failure is  *)
(* logged, and the launch is left to run beside the sweep.                    *)
Dispatch ==
  /\ tick.at = "dispatch"
  /\ launch' = [launch EXCEPT ![tick.task] = "begun"]
  /\ quiet' = 0
  /\ \/ stamp' = 0 /\ undated' = FALSE
     \/ StampFails
  /\ tick' = [tick EXCEPT !.at = "sweep", !.task = NoTask]
  /\ UNCHANGED <<status, run, session, lane, stopping, held, spent>>

(* processAutoResumeQueue, awaited by the tick after the sweep.               *)
SlowRests ==
  /\ tick.at = "sweep" /\ tick.todo = {}
  /\ ~GapElapsed \/ \A t \in Tasks : ~Candidate(t)
  /\ tick' = Idle
  /\ UNCHANGED <<status, run, session, lane, stamp, launch, stopping, held, past, spent>>

SlowPicks(t) ==
  /\ tick.at = "sweep" /\ tick.todo = {}
  /\ GapElapsed
  /\ Candidate(t)
  /\ launch[t] = "none"
  /\ launch' = [launch EXCEPT ![t] = "begun"]
  /\ quiet' = 0
  /\ tick' = [Idle EXCEPT !.at = "slow", !.task = t]
  /\ UNCHANGED <<status, run, session, lane, stamp, stopping, held, undated, spent>>

(* Mutant of RecordAttempt: a task keeps its earlier place in the queue.      *)
RecordAttemptBeside ==
  /\ tick.at = "record"
  /\ LET t == tick.task
     IN  /\ attempts' = [attempts EXCEPT ![t] = Older(@, MaxAttempts)]
         /\ tried' = tried \cup {<<u, t>> : u \in {v \in Tasks : v = t \/ WasTried(v)}}
         /\ age' = [age EXCEPT ![t] = tick.since]
  /\ tick' = [tick EXCEPT !.at = "stamp"]
  /\ UNCHANGED <<status, run, session, stamp, launch, stopping, held, past, spent>>

(* The attempt is counted, and dated with the instant of the pick, which is   *)
(* after those of all others.                                                 *)
Counts(t, limit) == attempts' = [attempts EXCEPT ![t] = Older(@, limit)]
GoesLast(t) ==
  /\ tried' = TriedBut({t}) \cup {<<u, t>> : u \in {v \in Tasks : v = t \/ WasTried(v)}}
  /\ age' = [age EXCEPT ![t] = tick.since]

(* recordSlowLaneAttempt.                                                     *)
RecordAttempt ==
  /\ tick.at = "record"
  /\ Counts(tick.task, MaxAttempts) /\ GoesLast(tick.task)
  /\ tick' = [tick EXCEPT !.at = "stamp"]
  /\ UNCHANGED <<status, run, session, stamp, launch, stopping, held, past, spent>>

(* It throws, at any of its three writes, count, date and exhausted, or after *)
(* the last: the tick ends, and nothing stamps the attempt.                   *)
RecordAttemptFails ==
  /\ tick.at = "record"
  /\ \/ UNCHANGED lane
     \/ Counts(tick.task, MaxAttempts - 1) /\ UNCHANGED <<tried, age>>
     \/ \E limit \in {MaxAttempts - 1, MaxAttempts} : Counts(tick.task, limit) /\ GoesLast(tick.task)
  /\ undated' = TRUE
  /\ tick' = Idle
  /\ UNCHANGED <<status, run, session, stamp, launch, stopping, held, quiet, spent>>

(* recordProjectAutoResume, with the instant of the pick.                     *)
StampAttempt ==
  /\ tick.at = "stamp"
  /\ \/ stamp' = AtMost(tick.since, Gap) /\ undated' = FALSE
     \/ StampFails
  /\ tick' = Idle
  /\ UNCHANGED <<status, run, session, lane, launch, stopping, held, quiet, spent>>
-------------------------------------------------------------------------------
(* autoResumeTask.  The slow lane waits for its launch and then records it.   *)
Ends(t) ==
  /\ launch' = [launch EXCEPT ![t] = "none"]
  /\ tick' = IF tick.at = "slow" /\ tick.task = t THEN [tick EXCEPT !.at = "record"] ELSE tick

(* A turn in flight, a supervisor that still owns the last one, no worktree,  *)
(* no runner, no service credential, a hold, or a lock somebody else has.     *)
LaunchRefused(t) ==
  /\ launch[t] = "begun"
  /\ Ends(t)
  /\ UNCHANGED <<status, run, session, lane, stamp, stopping, held, past, spent>>

(* The task is set working, whatever became of it since it was chosen.        *)
LaunchMarks(t) ==
  /\ launch[t] = "begun"
  /\ launch' = [launch EXCEPT ![t] = "marked"]
  /\ status' = [status EXCEPT ![t] = "working"]
  /\ UNCHANGED <<run, session, lane, stamp, tick, stopping, held, past, spent>>

(* The fetch and the image are ready: the command is written and the run is   *)
(* started.                                                                   *)
LaunchStarts(t) ==
  /\ launch[t] = "marked"
  /\ run' = [run EXCEPT ![t] = "live"]
  /\ Ends(t)
  /\ UNCHANGED <<status, session, lane, stamp, stopping, held, past, spent>>

(* The supervisor cannot be launched, which is recorded as an interruption    *)
(* (recordLaunchFailure), or the preparation throws, which is not.            *)
LaunchFails(t) ==
  /\ launch[t] = "marked"
  /\ status' = [status EXCEPT ![t] = "interrupted"]
  /\ RecordInterrupt(t) \/ UNCHANGED <<crashes, age>>
  /\ Ends(t)
  /\ UNCHANGED <<run, stopped, attempts, tried, stamp, stopping, held, past, spent>>
-------------------------------------------------------------------------------
(* stopTaskRun: the status is read, the flag is set, the agent is stopped and *)
(* an error response is written for it, and the task is parked.  It takes     *)
(* neither the lifecycle lock nor the worktree lock.                          *)
Stop(t, from, to) ==
  /\ stopping[t] = from
  /\ stopping' = [stopping EXCEPT ![t] = to]
  /\ UNCHANGED <<lane, stamp, tick, launch, held, past>>

StopAsked(t) ==
  /\ status[t] = "working"
  /\ Stop(t, "no", "asked")
  /\ Spend("events")
  /\ UNCHANGED <<status, run, session>>

StopFlags(t) ==
  /\ Stop(t, "asked", "flagged")
  /\ stopped' = [stopped EXCEPT ![t] = TRUE]
  /\ UNCHANGED <<status, run, crashes, spent>>

StopHalts(t) ==
  /\ Stop(t, "flagged", "halted")
  /\ run' = [run EXCEPT ![t] = "failed"]
  /\ UNCHANGED <<status, session, spent>>

StopParks(t) ==
  /\ stopping[t] = "halted"
  /\ stopping' = [stopping EXCEPT ![t] = "no"]
  /\ status' = [status EXCEPT ![t] = "parked"]
  /\ run' = [run EXCEPT ![t] = IF @ = "live" THEN "live" ELSE "none"]
  /\ RecordInterrupt(t)
  /\ UNCHANGED <<stopped, attempts, tried, stamp, tick, launch, held, past, spent>>

(* An unblock or a resume by a person re-arms the fast lane, and leaves the   *)
(* slow lane's count; one by the builder or an agent leaves both.             *)
PickUp(t, byPerson) ==
  /\ status[t] # "working" /\ launch[t] = "none" /\ stopping[t] = "no"
  /\ Spend("events")
  /\ status' = [status EXCEPT ![t] = "working"]
  /\ run' = [run EXCEPT ![t] = "live"]
  /\ IF byPerson THEN ResetSession(t) ELSE UNCHANGED session
  /\ UNCHANGED <<lane, stamp, tick, launch, stopping, held, past>>
-------------------------------------------------------------------------------
(* The agent's turn ends: with an answer, with an error, or with no word.     *)
TurnEnds(t, how) ==
  /\ run[t] = "live"
  /\ Spend("ends")
  /\ run' = [run EXCEPT ![t] = how]
  /\ UNCHANGED <<status, session, lane, stamp, tick, launch, stopping, held, past>>

(* A usage pause, or an image that is still built, begins or ends.            *)
Hold(t) ==
  /\ t \notin held
  /\ Spend("events")
  /\ held' = held \cup {t}
  /\ UNCHANGED <<status, run, session, lane, stamp, tick, launch, stopping, past>>
Lift(t) ==
  /\ t \in held
  /\ held' = held \ {t}
  /\ UNCHANGED <<status, run, session, lane, stamp, tick, launch, stopping, past, spent>>

(* The daemon is restarted.  A turn it had started and that has not answered  *)
(* is interrupted by the next daemon (interruptForDaemonRestart), at no cost  *)
(* to a task that nobody stopped.                                             *)
Lost == {t \in Tasks : status[t] = "working" /\ run[t] \in {"none", "live"}}
Restart ==
  /\ Spend("events")
  /\ status' = [t \in Tasks |-> IF t \in Lost THEN "interrupted" ELSE status[t]]
  /\ run' = [t \in Tasks |-> IF run[t] = "live" THEN "none" ELSE run[t]]
  /\ crashes' = [t \in Tasks |-> IF t \notin Lost THEN crashes[t]
                                 ELSE IF stopped[t] THEN Older(crashes[t], Breaker) ELSE 0]
  /\ attempts' = [t \in Tasks |-> IF t \in Lost /\ ~stopped[t] THEN 0 ELSE attempts[t]]
  /\ tried' = TriedBut({t \in Lost : ~stopped[t]})
  /\ age' = [t \in Tasks |-> IF t \in Lost /\ ~(stopped[t] /\ WasTried(t))
                             THEN 0 ELSE age[t]]
  /\ tick' = Idle
  /\ launch' = [t \in Tasks |-> "none"]
  /\ stopping' = [t \in Tasks |-> "no"]
  /\ undated' = IF tick.at \in {"slow", "record", "stamp"} THEN TRUE ELSE undated
  /\ UNCHANGED <<stopped, stamp, held, quiet>>

(* The stamp's file is lost or cannot be read, which counts as no stamp       *)
(* (getLastProjectAutoResumeAt).                                              *)
LoseStamp ==
  /\ stamp < Gap
  /\ Spend("events")
  /\ stamp' = Gap
  /\ undated' = TRUE
  /\ UNCHANGED <<status, run, session, lane, tick, launch, stopping, held, quiet>>

Pass ==
  /\ age' = [t \in Tasks |-> Older(age[t], Interval)]
  /\ stamp' = Older(stamp, Gap)
  /\ quiet' = Older(quiet, Gap)
  /\ tick' = IF tick.at \in {"slow", "record", "stamp"}
             THEN [tick EXCEPT !.since = Older(@, Interval)] ELSE tick
  /\ UNCHANGED <<status, run, session, attempts, tried, launch, stopping, held, undated, spent>>

Sweep(t) == SweepSettles(t) \/ SweepInterrupts(t) \/ SweepOffers(t) \/ SweepPasses(t)
TickStep ==
  \/ StartTick \/ Dispatch \/ SlowRests \/ RecordAttempt \/ RecordAttemptFails \/ StampAttempt
  \/ \E t \in Tasks : Sweep(t) \/ SlowPicks(t)
Launch(t) == LaunchRefused(t) \/ LaunchMarks(t) \/ LaunchStarts(t) \/ LaunchFails(t)
StopStep(t) == StopFlags(t) \/ StopHalts(t) \/ StopParks(t)

Next ==
  \/ TickStep
  \/ \E t \in Tasks :
       \/ Launch(t) \/ StopAsked(t) \/ StopStep(t) \/ Hold(t) \/ Lift(t)
       \/ \E byPerson \in BOOLEAN : PickUp(t, byPerson)
       \/ \E how \in {"answered", "failed", "none"} : TurnEnds(t, how)
  \/ Restart
  \/ LoseStamp
  \/ Pass

Spec == Init /\ [][Next]_vars

(* The daemon keeps ticking, a launch and a stop run to their end, and time   *)
(* passes.  Nothing says that a turn ends, that a hold is lifted or that      *)
(* anybody picks a task up.                                                   *)
FairSpec ==
  /\ Spec
  /\ WF_vars(TickStep)
  /\ WF_vars(Pass)
  /\ \A t \in Tasks : WF_vars(Launch(t)) /\ WF_vars(StopStep(t))
-------------------------------------------------------------------------------
(* Two relaunches, of whichever lanes, begin at least a gap apart, as long as *)
(* one tick runs at a time: the fast lane dates its stamp before the launch,  *)
(* the slow lane after it but with the instant it began.  The exception is a  *)
(* relaunch that is not dated on disk: the stamp's write failed and was       *)
(* logged, the slow attempt could not be recorded, the daemon died in a slow  *)
(* attempt, or the file is lost.  It ends with the next stamp.                *)
GapKept ==
  [][(\E t \in Tasks : launch[t] = "none" /\ launch'[t] = "begun")
       => quiet = Gap \/ undated]_vars

(* A task of the slow lane is retried, is held, or leaves the lane some other *)
(* way.                                                                       *)
Retried(t) ==
  Queued(t) /\ launch[t] = "none" /\ t \notin held
    ~> ~Queued(t) \/ launch[t] # "none" \/ t \in held

(* In the slow lane a task that is held, or that fails again and again, does  *)
(* not keep the others waiting for ever, provided that the fast lane comes to *)
(* rest and that attempts get recorded from some time on.                     *)
QueuedIsRetried ==
  <>[][~Dispatch /\ ~RecordAttemptFails]_vars => \A t \in Tasks : Retried(t)

(* Without the condition the slow lane starves: a relaunch of the fast lane   *)
(* that is refused counts no interruption and spends no budget (only a        *)
(* success is counted), and takes the gap each time.                          *)
QueueNeverStarves == \A t \in Tasks : Retried(t)

(* Nothing runs for a task that was stopped and parked, until somebody picks  *)
(* it up again.  A launch does not look again at what became of the task, so  *)
(* a stop that ends between its status write and its start is undone.         *)
StopStands == \A t \in Tasks : stopped[t] /\ status[t] = "parked" => run[t] # "live"
===============================================================================
