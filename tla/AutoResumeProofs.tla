--------------------------- MODULE AutoResumeProofs ---------------------------
(* Two relaunches begin a gap apart, for any tasks, gap, interval and bounds.  *)
(* The stamp on disk alone does not say so: it is old while an attempt of the  *)
(* slow lane is under way.  What is inductive says, for each place the tick    *)
(* can be in, which of its clocks the time since the last relaunch dominates,  *)
(* unless that relaunch is not dated on disk.                                  *)
(* The second part is the types, and the round-robin order of the slow lane.   *)
EXTENDS AutoResume, TLAPS

SlowPlaces == {"slow", "record", "stamp"}

ClockTypes ==
  /\ stamp \in 0..Gap
  /\ quiet \in 0..Gap
  /\ tick \in [at : {"idle", "sweep", "dispatch"} \cup SlowPlaces,
               todo : SUBSET Tasks, task : Tasks \cup {NoTask}, since : 0..Interval]
  /\ launch \in [Tasks -> {"none", "begun", "marked"}]

(* Between attempts the stamp tells; a relaunch that was weighed was late     *)
(* enough; an attempt of the slow lane has its own clock.                     *)
ClocksAgree ==
  /\ tick.at \in {"idle", "sweep"} => quiet >= stamp \/ undated = TRUE
  /\ tick.at = "dispatch" => quiet = Gap \/ undated = TRUE
  /\ tick.at \in SlowPlaces => quiet >= AtMost(tick.since, Gap)

GapInv == ClockTypes /\ ClocksAgree

LEMMA Clocks == Gap \in Nat /\ Interval \in Nat /\ Gap <= Interval
BY ResumeConstants

(* A step of something else than the tick, a launch, time or a restart.       *)
LEMMA ClocksUntouched ==
  ASSUME GapInv, UNCHANGED <<stamp, tick, launch, past>>
  PROVE  GapInv'
BY DEF GapInv, ClockTypes, ClocksAgree, SlowPlaces, AtMost, past

LEMMA GapInit == ASSUME Init PROVE GapInv
BY Clocks DEF Init, GapInv, ClockTypes, ClocksAgree, SlowPlaces, Idle, AtMost

(* The sweep leaves the clocks alone, and weighs a relaunch only when the     *)
(* stamp is old.                                                              *)
LEMMA SweepKeepsGap ==
  ASSUME GapInv, NEW t \in Tasks, Sweep(t)
  PROVE  GapInv'
<1> USE Clocks DEF GapInv, ClockTypes, ClocksAgree, SlowPlaces, past
<1>1. CASE SweepSettles(t)
  BY <1>1 DEF SweepSettles, Visits, Done
<1>2. CASE SweepInterrupts(t)
  BY <1>2, ClocksUntouched DEF SweepInterrupts
<1>3. CASE SweepOffers(t)
  <2>1. quiet = Gap \/ undated = TRUE
    BY <1>3 DEF SweepOffers, Visits, FastEligible, GapElapsed
  <2>2. /\ tick' = [at |-> "dispatch", todo |-> tick.todo \ {t}, task |-> t, since |-> tick.since]
        /\ UNCHANGED <<stamp, launch, quiet, undated>>
    BY <1>3 DEF SweepOffers
  <2> QED BY <2>1, <2>2
<1>4. CASE SweepPasses(t)
  BY <1>4 DEF SweepPasses, Visits, Done
<1> QED BY <1>1, <1>2, <1>3, <1>4 DEF Sweep

LEMMA TickKeepsGap ==
  ASSUME GapInv, TickStep
  PROVE  GapInv'
<1> USE Clocks DEF GapInv, ClockTypes, ClocksAgree, SlowPlaces, past
<1>1. CASE StartTick
  BY <1>1 DEF StartTick
<1>2. CASE Dispatch
  <2>1. /\ tick' = [at |-> "sweep", todo |-> tick.todo, task |-> NoTask, since |-> tick.since]
        /\ quiet' = 0
    BY <1>2 DEF Dispatch
  <2>2. stamp' = 0 \/ (stamp' \in {stamp, Gap} /\ undated' = TRUE)
    BY <1>2 DEF Dispatch, StampFails
  <2>3. stamp' \in 0..Gap /\ (stamp' = 0 \/ undated' = TRUE)
    BY <2>2
  <2>4. launch' \in [Tasks -> {"none", "begun", "marked"}]
    BY <1>2 DEF Dispatch
  <2> QED BY <2>1, <2>3, <2>4
<1>3. CASE SlowRests
  BY <1>3 DEF SlowRests, Idle
<1>4. CASE RecordAttempt \/ RecordAttemptFails
  BY <1>4 DEF RecordAttempt, RecordAttemptFails, Idle
<1>5. CASE StampAttempt
  BY <1>5 DEF StampAttempt, StampFails, Idle, AtMost
<1>6. ASSUME NEW t \in Tasks, Sweep(t) PROVE GapInv'
  BY <1>6, SweepKeepsGap
<1>7. ASSUME NEW t \in Tasks, SlowPicks(t) PROVE GapInv'
  <2>1. /\ tick' = [at |-> "slow", todo |-> {}, task |-> t, since |-> 0]
        /\ quiet' = 0 /\ UNCHANGED <<stamp, undated>>
    BY <1>7 DEF SlowPicks, Idle
  <2>2. launch' \in [Tasks -> {"none", "begun", "marked"}]
    BY <1>7 DEF SlowPicks
  <2> QED BY <2>1, <2>2 DEF AtMost
<1> QED BY <1>1, <1>2, <1>3, <1>4, <1>5, <1>6, <1>7 DEF TickStep

(* A launch that ends lets its tick go on to record it.                       *)
LEMMA LaunchKeepsGap ==
  ASSUME GapInv, NEW t \in Tasks, Launch(t)
  PROVE  GapInv'
<1> USE Clocks DEF GapInv, ClockTypes, ClocksAgree, SlowPlaces, past
<1>1. ASSUME Ends(t), UNCHANGED <<stamp, past>> PROVE GapInv'
  BY <1>1 DEF Ends
<1>2. CASE LaunchMarks(t)
  BY <1>2 DEF LaunchMarks
<1> QED BY <1>1, <1>2 DEF Launch, LaunchRefused, LaunchStarts, LaunchFails

LEMMA PassKeepsGap ==
  ASSUME GapInv, Pass
  PROVE  GapInv'
<1> USE Clocks DEF GapInv, ClockTypes, ClocksAgree, SlowPlaces, Pass, Older, AtMost
<1>1. CASE tick.at \in SlowPlaces
  BY <1>1
<1>2. CASE tick.at \notin SlowPlaces
  BY <1>2
<1> QED BY <1>1, <1>2

LEMMA RestartKeepsGap ==
  ASSUME GapInv, Restart
  PROVE  GapInv'
<1> USE Clocks DEF GapInv, ClockTypes, ClocksAgree, SlowPlaces
<1>1. /\ tick' = Idle /\ UNCHANGED <<stamp, quiet>>
      /\ launch' = [t \in Tasks |-> "none"]
      /\ undated' = IF tick.at \in SlowPlaces THEN TRUE ELSE undated
  BY DEF Restart
<1>2. tick.at \in {"idle", "sweep"} \/ tick.at = "dispatch" \/ tick.at \in SlowPlaces
  OBVIOUS
<1> QED BY <1>1, <1>2 DEF Idle

LEMMA LoseStampKeepsGap ==
  ASSUME GapInv, LoseStamp
  PROVE  GapInv'
BY Clocks DEF LoseStamp, GapInv, ClockTypes, ClocksAgree, SlowPlaces

LEMMA GapStep ==
  ASSUME GapInv, [Next]_vars
  PROVE  GapInv'
<1>1. CASE TickStep
  BY <1>1, TickKeepsGap
<1>2. ASSUME NEW t \in Tasks, Launch(t) PROVE GapInv'
  BY <1>2, LaunchKeepsGap
<1>3. ASSUME NEW t \in Tasks, StopAsked(t) \/ StopStep(t) PROVE GapInv'
  BY <1>3, ClocksUntouched DEF StopAsked, StopStep, StopFlags, StopHalts, StopParks, Stop
<1>4. ASSUME NEW t \in Tasks, Hold(t) \/ Lift(t) PROVE GapInv'
  BY <1>4, ClocksUntouched DEF Hold, Lift
<1>5. ASSUME NEW t \in Tasks, NEW byPerson \in BOOLEAN, PickUp(t, byPerson) PROVE GapInv'
  BY <1>5, ClocksUntouched DEF PickUp
<1>6. ASSUME NEW t \in Tasks, NEW how \in {"answered", "failed", "none"}, TurnEnds(t, how)
      PROVE GapInv'
  BY <1>6, ClocksUntouched DEF TurnEnds
<1>7. CASE Restart
  BY <1>7, RestartKeepsGap
<1>8. CASE Pass
  BY <1>8, PassKeepsGap
<1>9. CASE LoseStamp
  BY <1>9, LoseStampKeepsGap
<1>10. CASE UNCHANGED vars
  BY <1>10, ClocksUntouched DEF vars
<1> QED BY <1>1, <1>2, <1>3, <1>4, <1>5, <1>6, <1>7, <1>8, <1>9, <1>10 DEF Next

LEMMA GapAlways == Spec => []GapInv
<1>1. Init => GapInv
  BY GapInit
<1>2. GapInv /\ [Next]_vars => GapInv'
  BY GapStep
<1> QED BY <1>1, <1>2, PTL DEF Spec

(* Only the dispatch of the fast lane and the pick of the slow lane begin a   *)
(* relaunch, and each does so a gap after the one before, if that one is dated. *)
LEMMA BeginsAfterGap ==
  ASSUME GapInv, [Next]_vars, NEW t \in Tasks, launch[t] = "none", launch'[t] = "begun"
  PROVE  quiet = Gap \/ undated = TRUE
<1> USE Clocks DEF GapInv, ClockTypes, ClocksAgree, SlowPlaces
<1>1. CASE Dispatch
  BY <1>1 DEF Dispatch
<1>2. ASSUME NEW u \in Tasks, SlowPicks(u) PROVE quiet = Gap \/ undated = TRUE
  BY <1>2 DEF SlowPicks, GapElapsed
<1>3. ASSUME NEW u \in Tasks, Launch(u) PROVE FALSE
  BY <1>3 DEF Launch, LaunchRefused, LaunchMarks, LaunchStarts, LaunchFails, Ends
<1>4. CASE Restart
  <2>1. launch'[t] = "none"
    BY <1>4 DEF Restart
  <2> QED BY <2>1
<1>5. ASSUME UNCHANGED launch PROVE FALSE
  BY <1>5
<1>6. \/ Dispatch \/ Restart \/ UNCHANGED launch
      \/ \E u \in Tasks : SlowPicks(u) \/ Launch(u)
  <2>1. CASE TickStep
    BY <2>1 DEF TickStep, StartTick, SlowRests, RecordAttempt, RecordAttemptFails,
                StampAttempt, Sweep, SweepSettles, SweepInterrupts, SweepOffers, SweepPasses
  <2>2. CASE Pass \/ LoseStamp
    BY <2>2 DEF Pass, LoseStamp
  <2>3. CASE UNCHANGED vars
    BY <2>3 DEF vars
  <2> QED BY <2>1, <2>2, <2>3
          DEF Next, StopAsked, StopStep, StopFlags, StopHalts, StopParks, Stop,
              Hold, Lift, PickUp, TurnEnds
<1> QED BY <1>1, <1>2, <1>3, <1>4, <1>5, <1>6

(* Two relaunches, of whichever lanes, begin a gap apart: maybeAutoResume     *)
(* dates the stamp before its launch, processAutoResumeQueue after it but     *)
(* with the instant it began, and one tick runs at a time.  The exceptions    *)
(* are those of GapKept: the stamp of the relaunch before could not be        *)
(* written, was not reached because the attempt could not be recorded or the  *)
(* daemon died, or is lost; until a stamp is written again.                   *)
THEOREM RelaunchesAreSpaced == Spec => GapKept
<1>1. GapInv /\ [Next]_vars
      => [(\E t \in Tasks : launch[t] = "none" /\ launch'[t] = "begun")
             => quiet = Gap \/ undated]_vars
  BY BeginsAfterGap
<1> QED BY <1>1, GapAlways, PTL DEF Spec, GapKept

-------------------------------------------------------------------------------
(* The rest of the types.  The slow lane keeps one order of the last attempts, *)
(* for a task that is tried again goes behind all others, and one that starts  *)
(* afresh is taken out between its neighbours.  An attempt that is under way   *)
(* is one of a task.                                                           *)
SessionTypes ==
  /\ status \in [Tasks -> {"parked", "working", "interrupted"}]
  /\ run \in [Tasks -> {"none", "live", "answered", "failed"}]
  /\ crashes \in [Tasks -> 0..Breaker]
  /\ stopped \in [Tasks -> BOOLEAN]
  /\ age \in [Tasks -> 0..Interval]
  /\ stopping \in [Tasks -> {"no", "asked", "flagged", "halted"}]
  /\ held \in SUBSET Tasks

LaneInv ==
  /\ AttemptsOrdered
  /\ attempts \in [Tasks -> 0..MaxAttempts]
  /\ tick.at \in SlowPlaces => tick.task \in Tasks

LEMMA Counters ==
  /\ Breaker \in Nat \ {0} /\ MaxAttempts \in Nat \ {0} /\ Interval \in Nat \ {0}
  /\ \A n \in 0..Breaker : Older(n, Breaker) \in 0..Breaker
  /\ \A n \in 0..MaxAttempts, limit \in {MaxAttempts - 1, MaxAttempts} :
       Older(n, limit) \in 0..MaxAttempts
  /\ \A n \in 0..Interval : Older(n, Interval) \in 0..Interval
<1>1. Breaker \in Nat \ {0} /\ MaxAttempts \in Nat \ {0} /\ Interval \in Nat \ {0}
  BY ResumeConstants
<1> QED BY <1>1 DEF Older

LEMMA InterruptTypes ==
  ASSUME SessionTypes, NEW t \in Tasks, RecordInterrupt(t)
  PROVE  crashes' \in [Tasks -> 0..Breaker] /\ age' \in [Tasks -> 0..Interval]
<1>1. crashes' \in [Tasks -> 0..Breaker]
  BY Counters DEF SessionTypes, RecordInterrupt
<1>2. age' \in [Tasks -> 0..Interval]
  BY Counters DEF SessionTypes, RecordInterrupt
<1> QED BY <1>1, <1>2

LEMMA SessionInit == ASSUME Init PROVE SessionTypes
BY Counters DEF Init, SessionTypes

LEMMA TickKeepsSession ==
  ASSUME SessionTypes, GapInv, TickStep
  PROVE  SessionTypes'
<1>1. ASSUME NEW t \in Tasks, SweepSettles(t) PROVE SessionTypes'
  BY <1>1, Counters DEF SweepSettles, ResetSession, SessionTypes
<1>2. ASSUME NEW t \in Tasks, SweepInterrupts(t) PROVE SessionTypes'
  BY <1>2, InterruptTypes DEF SweepInterrupts, SessionTypes
<1>3. CASE RecordAttempt \/ RecordAttemptFails
  <2>1. tick.since \in 0..Interval
    BY DEF GapInv, ClockTypes
  <2>2. age' \in [Tasks -> 0..Interval]
    BY <1>3, <2>1 DEF RecordAttempt, RecordAttemptFails, GoesLast, lane, SessionTypes
  <2> QED BY <1>3, <2>2 DEF RecordAttempt, RecordAttemptFails, session, SessionTypes
<1>4. ASSUME UNCHANGED <<status, run, session, age, stopping, held>> PROVE SessionTypes'
  BY <1>4 DEF session, SessionTypes
<1> QED BY <1>1, <1>2, <1>3, <1>4
        DEF TickStep, StartTick, Dispatch, SlowRests, StampAttempt, Sweep, SweepOffers,
            SweepPasses, SlowPicks, lane

LEMMA OthersKeepSession ==
  ASSUME SessionTypes, GapInv, NEW t \in Tasks,
         \/ Launch(t) \/ StopAsked(t) \/ StopStep(t) \/ Hold(t) \/ Lift(t)
         \/ \E byPerson \in BOOLEAN : PickUp(t, byPerson)
         \/ \E how \in {"answered", "failed", "none"} : TurnEnds(t, how)
  PROVE  SessionTypes'
<1>1. CASE LaunchRefused(t) \/ LaunchMarks(t) \/ LaunchStarts(t)
  BY <1>1 DEF LaunchRefused, LaunchMarks, LaunchStarts, session, lane, SessionTypes
<1>2. CASE LaunchFails(t)
  <2>1. crashes' \in [Tasks -> 0..Breaker] /\ age' \in [Tasks -> 0..Interval]
    BY <1>2, InterruptTypes DEF LaunchFails, SessionTypes
  <2> QED BY <1>2, <2>1 DEF LaunchFails, SessionTypes
<1>3. CASE StopAsked(t) \/ StopFlags(t) \/ StopHalts(t)
  BY <1>3 DEF StopAsked, StopFlags, StopHalts, Stop, session, lane, SessionTypes
<1>4. CASE StopParks(t)
  <2>1. crashes' \in [Tasks -> 0..Breaker] /\ age' \in [Tasks -> 0..Interval]
    BY <1>4, InterruptTypes DEF StopParks
  <2> QED BY <1>4, <2>1 DEF StopParks, SessionTypes
<1>5. CASE Hold(t) \/ Lift(t)
  BY <1>5 DEF Hold, Lift, session, lane, SessionTypes
<1>6. ASSUME NEW byPerson \in BOOLEAN, PickUp(t, byPerson) PROVE SessionTypes'
  <2>1. /\ status' = [status EXCEPT ![t] = "working"] /\ run' = [run EXCEPT ![t] = "live"]
        /\ UNCHANGED <<age, stopping, held>>
    BY <1>6 DEF PickUp, lane
  <2>2. CASE byPerson
    <3>1. /\ crashes' = [crashes EXCEPT ![t] = 0] /\ stopped' = [stopped EXCEPT ![t] = FALSE]
      BY <1>6, <2>2 DEF PickUp, ResetSession
    <3> QED BY <2>1, <3>1, Counters DEF SessionTypes
  <2>3. CASE ~byPerson
    <3>1. UNCHANGED <<crashes, stopped>>
      BY <1>6, <2>3 DEF PickUp, session
    <3> QED BY <2>1, <3>1 DEF SessionTypes
  <2> QED BY <2>2, <2>3
<1>7. ASSUME NEW how \in {"answered", "failed", "none"}, TurnEnds(t, how)
      PROVE  SessionTypes'
  BY <1>7 DEF TurnEnds, session, lane, SessionTypes
<1> QED BY <1>1, <1>2, <1>3, <1>4, <1>5, <1>6, <1>7 DEF Launch, StopStep

LEMMA RestartKeepsSession ==
  ASSUME SessionTypes, Restart
  PROVE  SessionTypes'
<1>1. /\ crashes' \in [Tasks -> 0..Breaker] /\ age' \in [Tasks -> 0..Interval]
  BY Counters DEF SessionTypes, Restart
<1> QED BY <1>1 DEF SessionTypes, Restart

LEMMA LoseStampKeepsSession ==
  ASSUME SessionTypes, LoseStamp
  PROVE  SessionTypes'
BY DEF SessionTypes, LoseStamp, session, lane

LEMMA PassKeepsSession ==
  ASSUME SessionTypes, Pass
  PROVE  SessionTypes'
BY Counters DEF SessionTypes, Pass, session

(* Tasks that are taken out of the order leave it one.                        *)
LEMMA TakenOut ==
  ASSUME AttemptsOrdered, NEW S, tried' = TriedBut(S)
  PROVE  AttemptsOrdered'
<1>1. \A t, u \in Tasks : <<t, u>> \in tried' <=> <<t, u>> \in tried /\ t \notin S /\ u \notin S
  BY DEF TriedBut
<1>2. tried' \subseteq Tasks \X Tasks
  BY DEF TriedBut
<1> QED BY <1>1, <1>2 DEF AttemptsOrdered, WasTried

(* The task of an attempt goes behind all others.                             *)
LEMMA GoesBehind ==
  ASSUME AttemptsOrdered, NEW t \in Tasks, GoesLast(t)
  PROVE  AttemptsOrdered'
<1>0. tried' = TriedBut({t}) \cup {<<u, t>> : u \in {v \in Tasks : v = t \/ WasTried(v)}}
  BY DEF GoesLast
<1>1. \A u, v \in Tasks :
         <<u, v>> \in tried' <=> IF v = t THEN u = t \/ WasTried(u)
                                 ELSE <<u, v>> \in tried /\ u # t
  BY <1>0 DEF TriedBut
<1>2. tried' \subseteq Tasks \X Tasks
  BY <1>0 DEF TriedBut
<1>3. \A u \in Tasks : WasTried(u)' <=> u = t \/ WasTried(u)
  BY <1>1 DEF WasTried
<1>4. \A u, v \in Tasks : <<u, v>> \in tried' => WasTried(u)' /\ WasTried(v)'
  BY <1>1, <1>3 DEF AttemptsOrdered
<1>5. \A u, v \in Tasks : WasTried(u)' /\ WasTried(v)' => <<u, v>> \in tried' \/ <<v, u>> \in tried'
  BY <1>1, <1>3 DEF AttemptsOrdered
<1>6. \A u, v \in Tasks : <<u, v>> \in tried' /\ <<v, u>> \in tried' => u = v
  BY <1>1 DEF AttemptsOrdered
<1>7. \A u, v, w \in Tasks : <<u, v>> \in tried' /\ <<v, w>> \in tried' => <<u, w>> \in tried'
  <2> SUFFICES ASSUME NEW u \in Tasks, NEW v \in Tasks, NEW w \in Tasks,
                      <<u, v>> \in tried', <<v, w>> \in tried'
               PROVE  <<u, w>> \in tried'
    OBVIOUS
  <2>1. CASE w = t
    BY <1>1, <1>3, <1>4, <2>1
  <2>2. CASE w # t
    <3>1. v # t /\ <<v, w>> \in tried /\ <<u, v>> \in tried /\ u # t
      BY <1>1, <2>2
    <3> QED BY <1>1, <2>2, <3>1 DEF AttemptsOrdered
  <2> QED BY <2>1, <2>2
<1> QED BY <1>2, <1>3, <1>4, <1>5, <1>6, <1>7 DEF AttemptsOrdered

LEMMA LaneInit == ASSUME Init PROVE LaneInv
BY Counters DEF Init, LaneInv, AttemptsOrdered, WasTried, Idle, SlowPlaces

(* What does not touch the lane.                                              *)
LEMMA LaneUntouched ==
  ASSUME LaneInv, UNCHANGED <<attempts, tried>>,
         tick'.at \in SlowPlaces => tick'.task \in Tasks
  PROVE  LaneInv'
BY DEF LaneInv, AttemptsOrdered, WasTried

LEMMA TickKeepsLane ==
  ASSUME LaneInv, GapInv, TickStep
  PROVE  LaneInv'
<1>0. tick \in [at : {"idle", "sweep", "dispatch"} \cup SlowPlaces, todo : SUBSET Tasks,
                task : Tasks \cup {NoTask}, since : 0..Interval]
  BY DEF GapInv, ClockTypes
<1>1. ASSUME NEW t \in Tasks, SweepSettles(t) PROVE LaneInv'
  <2>1. /\ attempts' = [attempts EXCEPT ![t] = 0] /\ tried' = TriedBut({t})
        /\ tick'.at = "sweep"
    BY <1>0, <1>1 DEF SweepSettles, ResetSlowLane, Visits, Done
  <2>2. AttemptsOrdered'
    BY <2>1, TakenOut DEF LaneInv
  <2>3. attempts' \in [Tasks -> 0..MaxAttempts]
    BY <2>1, Counters DEF LaneInv
  <2> QED BY <2>1, <2>2, <2>3 DEF LaneInv, SlowPlaces
<1>2. CASE RecordAttempt \/ RecordAttemptFails
  <2> DEFINE t == tick.task
  <2>1. /\ t \in Tasks
        /\ \/ UNCHANGED attempts
           \/ \E limit \in {MaxAttempts - 1, MaxAttempts} : Counts(t, limit)
        /\ UNCHANGED tried \/ GoesLast(t)
        /\ tick'.task = t \/ tick' = Idle
    BY <1>0, <1>2 DEF RecordAttempt, RecordAttemptFails, lane, LaneInv, SlowPlaces
  <2> HIDE DEF t
  <2>2. AttemptsOrdered'
    <3>1. CASE UNCHANGED tried
      BY <3>1 DEF LaneInv, AttemptsOrdered, WasTried
    <3>2. CASE GoesLast(t)
      BY <2>1, <3>2, GoesBehind DEF LaneInv
    <3> QED BY <2>1, <3>1, <3>2
  <2>3. attempts' \in [Tasks -> 0..MaxAttempts]
    BY <2>1, Counters DEF Counts, LaneInv
  <2> QED BY <2>1, <2>2, <2>3 DEF LaneInv, Idle, SlowPlaces
<1>3. ASSUME NEW t \in Tasks, SlowPicks(t) PROVE LaneInv'
  <2>1. tick'.task = t /\ UNCHANGED <<attempts, tried>>
    BY <1>3 DEF SlowPicks, Idle, lane
  <2> QED BY <2>1, LaneUntouched
<1>4. ASSUME UNCHANGED <<attempts, tried>>, UNCHANGED tick \/ tick'.at \notin SlowPlaces
      PROVE  LaneInv'
  BY <1>4, LaneUntouched DEF LaneInv
<1>5. ASSUME NEW t \in Tasks, SweepInterrupts(t) \/ SweepOffers(t) \/ SweepPasses(t)
      PROVE  LaneInv'
  <2>1. UNCHANGED <<attempts, tried>>
    BY <1>5 DEF SweepInterrupts, SweepOffers, SweepPasses, lane
  <2>2. UNCHANGED tick \/ tick'.at \notin SlowPlaces
    BY <1>0, <1>5 DEF SweepInterrupts, SweepOffers, SweepPasses, Visits, Done, SlowPlaces
  <2> QED BY <1>4, <2>1, <2>2
<1>6. CASE StartTick \/ Dispatch \/ SlowRests \/ StampAttempt
  <2>1. UNCHANGED <<attempts, tried>>
    BY <1>6 DEF StartTick, Dispatch, SlowRests, StampAttempt, lane
  <2>2. tick'.at \notin SlowPlaces
    <3>1. CASE StartTick
      BY <1>0, <3>1 DEF StartTick, SlowPlaces
    <3>2. CASE Dispatch
      <4>1. tick' = [at |-> "sweep", todo |-> tick.todo, task |-> NoTask, since |-> tick.since]
        BY <1>0, <3>2 DEF Dispatch
      <4> QED BY <4>1 DEF SlowPlaces
    <3>3. CASE SlowRests \/ StampAttempt
      BY <3>3 DEF SlowRests, StampAttempt, Idle, SlowPlaces
    <3> QED BY <1>6, <3>1, <3>2, <3>3
  <2> QED BY <1>4, <2>1, <2>2
<1> QED BY <1>1, <1>2, <1>3, <1>5, <1>6 DEF TickStep, Sweep

LEMMA RestartKeepsLane ==
  ASSUME LaneInv, Restart
  PROVE  LaneInv'
<1> DEFINE S == {t \in Lost : ~stopped[t]}
<1>1. /\ tried' = TriedBut(S) /\ tick' = Idle
      /\ attempts' = [t \in Tasks |-> IF t \in S THEN 0 ELSE attempts[t]]
  BY DEF Restart, Lost
<1> HIDE DEF S
<1>2. AttemptsOrdered'
  BY <1>1, TakenOut DEF LaneInv
<1>3. attempts' \in [Tasks -> 0..MaxAttempts]
  BY <1>1, Counters DEF LaneInv
<1> QED BY <1>1, <1>2, <1>3 DEF LaneInv, Idle, SlowPlaces

LEMMA OthersKeepLane ==
  ASSUME LaneInv, GapInv,
         \/ Pass \/ LoseStamp
         \/ \E t \in Tasks :
              \/ Launch(t) \/ StopAsked(t) \/ StopStep(t) \/ Hold(t) \/ Lift(t)
              \/ \E byPerson \in BOOLEAN : PickUp(t, byPerson)
              \/ \E how \in {"answered", "failed", "none"} : TurnEnds(t, how)
  PROVE  LaneInv'
<1>0. tick \in [at : {"idle", "sweep", "dispatch"} \cup SlowPlaces, todo : SUBSET Tasks,
                task : Tasks \cup {NoTask}, since : 0..Interval]
  BY DEF GapInv, ClockTypes
<1>1. UNCHANGED <<attempts, tried>>
  BY DEF Pass, LoseStamp, Launch, LaunchRefused, LaunchMarks, LaunchStarts, LaunchFails, StopAsked,
         StopStep, StopFlags, StopHalts, StopParks, Stop, Hold, Lift, PickUp, TurnEnds, lane
<1>2. tick'.at \in SlowPlaces => tick.at \in SlowPlaces /\ tick'.task = tick.task
  BY <1>0 DEF Pass, LoseStamp, Launch, LaunchRefused, LaunchMarks, LaunchStarts, LaunchFails, Ends,
              StopAsked, StopStep, StopFlags, StopHalts, StopParks, Stop, Hold, Lift, PickUp,
              TurnEnds, SlowPlaces
<1> QED BY <1>1, <1>2, LaneUntouched DEF LaneInv

TypeInv == GapInv /\ SessionTypes /\ LaneInv /\ undated \in BOOLEAN

(* A relaunch becomes undated, or is dated, or stays what it was.             *)
LEMMA DatedOrNot ==
  ASSUME undated \in BOOLEAN, [Next]_vars
  PROVE  undated' \in BOOLEAN
<1>1. CASE TickStep
  BY <1>1 DEF TickStep, StartTick, Dispatch, StampFails, SlowRests, RecordAttempt,
              RecordAttemptFails, StampAttempt, Sweep, SweepSettles, SweepInterrupts,
              SweepOffers, SweepPasses, SlowPicks, past
<1>2. ASSUME NEW t \in Tasks,
             \/ Launch(t) \/ StopAsked(t) \/ StopStep(t) \/ Hold(t) \/ Lift(t)
             \/ \E byPerson \in BOOLEAN : PickUp(t, byPerson)
             \/ \E how \in {"answered", "failed", "none"} : TurnEnds(t, how)
      PROVE  undated' \in BOOLEAN
  <2>1. UNCHANGED past
    BY <1>2 DEF Launch, LaunchRefused, LaunchMarks, LaunchStarts, LaunchFails, StopAsked,
                StopStep, StopFlags, StopHalts, StopParks, Stop, Hold, Lift, PickUp, TurnEnds
  <2> QED BY <2>1 DEF past
<1>3. CASE Restart
  BY <1>3 DEF Restart
<1>4. CASE LoseStamp \/ Pass \/ UNCHANGED vars
  BY <1>4 DEF LoseStamp, Pass, vars, past
<1> QED BY <1>1, <1>2, <1>3, <1>4 DEF Next

LEMMA TypeInvStep ==
  ASSUME TypeInv, [Next]_vars
  PROVE  TypeInv'
<1>1. GapInv' /\ undated' \in BOOLEAN
  BY GapStep, DatedOrNot DEF TypeInv
<1> SUFFICES SessionTypes' /\ LaneInv'
  BY <1>1 DEF TypeInv
<1>2. CASE TickStep
  BY <1>2, TickKeepsSession, TickKeepsLane DEF TypeInv
<1>3. CASE \E t \in Tasks :
             \/ Launch(t) \/ StopAsked(t) \/ StopStep(t) \/ Hold(t) \/ Lift(t)
             \/ \E byPerson \in BOOLEAN : PickUp(t, byPerson)
             \/ \E how \in {"answered", "failed", "none"} : TurnEnds(t, how)
  BY <1>3, OthersKeepSession, OthersKeepLane DEF TypeInv
<1>4. CASE Restart
  BY <1>4, RestartKeepsSession, RestartKeepsLane DEF TypeInv
<1>5. CASE Pass
  BY <1>5, PassKeepsSession, OthersKeepLane DEF TypeInv
<1>6. CASE LoseStamp
  BY <1>6, LoseStampKeepsSession, OthersKeepLane DEF TypeInv
<1>7. CASE UNCHANGED vars
  <2>1. SessionTypes'
    BY <1>7 DEF vars, session, lane, TypeInv, SessionTypes
  <2>2. LaneInv'
    BY <1>7, LaneUntouched DEF vars, lane, TypeInv, LaneInv
  <2> QED BY <2>1, <2>2
<1> QED BY <1>2, <1>3, <1>4, <1>5, <1>6, <1>7 DEF Next

LEMMA TypeInvAlways == Spec => []TypeInv
<1>1. Init => TypeInv
  <2>1. Init => undated \in BOOLEAN
    BY DEF Init
  <2> QED BY <2>1, GapInit, SessionInit, LaneInit DEF TypeInv
<1>2. TypeInv /\ [Next]_vars => TypeInv'
  BY TypeInvStep
<1> QED BY <1>1, <1>2, PTL DEF Spec

(* The variables keep their types, and the tasks of the slow lane one order:  *)
(* the sort of listSlowLaneQueue by the last attempts is the round-robin.     *)
THEOREM ResumeTypes == Spec => []TypeOK
<1>1. TypeInv => TypeOK
  BY ZenonT(30) DEF TypeInv, GapInv, ClockTypes, SlowPlaces, SessionTypes, LaneInv, TypeOK
<1> QED BY <1>1, TypeInvAlways, PTL
===============================================================================
