------------------------ MODULE FollowThroughProofs ------------------------
(***************************************************************************)
(* The follow-through record is dropped only when nothing is owed, for     *)
(* every set of failing steps and every number of merges, crashes and      *)
(* reopens, until the note of a message puts a stale copy over the record. *)
(* The invariant relates both copies of it (the stored one and the run's)  *)
(* to what has taken effect.                                               *)
(*                                                                         *)
(* The types hold also after such a note (HullInv).  Up to it, a step has  *)
(* taken effect only after those it depends on, and the tag stays where    *)
(* the record pinned it.                                                   *)
(***************************************************************************)
EXTENDS FollowThrough, TLAPS

Running == {"step", "forwarded", "ran"}

(* A copy of the record that belongs to the merge and claims nothing done  *)
(* that has not taken effect.                                              *)
Sound(r) ==
    /\ r \in Records
    /\ r.merge = merge
    /\ \A s \in r.done : HasWork(s, merge) => s \in effects

(* Two copies of one record, but for the mark that a message was filed: a  *)
(* note may set it in the stored one while a run holds the other.          *)
Agree(r, q) ==
    /\ q \in Records
    /\ q.merge = r.merge /\ q.done = r.done /\ q.sha = r.sha

TypeInv ==
    /\ record \in Records \cup {NoRecord}
    /\ i \in 1..9
    /\ merge \in Merges
    /\ here \in Nat /\ target \in Nat

(* The stored record, from the accepted session until a reopen. *)
StoredInv ==
    /\ status = "blocked" => session = "open"
    /\ status = "complete" /\ record # NoRecord /\ ~overwritten
         => Sound(record)
    /\ status = "merging" /\ session = "accepted" /\ ~overwritten
         => Sound(record)

(* The run's copy; the steps that a run without a failure has passed. *)
RunInv ==
    /\ pc \in {"record", "end", "complete"} => status = "merging"
    /\ pc \in {"end", "complete"} => rec \in Records
    /\ pc \in {"end", "complete"} /\ ~overwritten
         => Agree(rec, record) /\ Sound(rec)
    /\ pc \in Running => status # "merging" /\ rec \in Records
    /\ pc \in Running /\ status = "complete" /\ ~overwritten => Sound(rec)
    /\ pc \in {"forwarded", "ran"} =>
         /\ i <= Last
         /\ HasWork(StepAt(i), rec.merge) => StepAt(i) \in effects
    /\ pc \in Running /\ ~failed =>
         \A j \in 1..Last : j < i => StepAt(j) \in rec.done

(* The sweep's copy. *)
SweepInv ==
    /\ status = "merging" /\ pc = "free" => sweep # "listed"
    /\ sweep \in {"file", "note"} => after \in Records

IInv == TypeInv /\ StoredInv /\ RunInv /\ SweepInv /\ ClearedMeansDone

(* FOLLOWTHROUGH_STEPS names every step. *)
LEMMA StepsNamed == \A s \in Steps : \E j \in 1..Last : StepAt(j) = s
<1> SUFFICES ASSUME NEW s \in Steps PROVE \E j \in 1..Last : StepAt(j) = s
    OBVIOUS
<1>1. StepAt(1) = "reparent" /\ StepAt(2) = "fast-forward"
      /\ StepAt(3) = "push-parent" /\ StepAt(4) = "close-review"
      /\ StepAt(5) = "accept-tag" /\ StepAt(6) = "notify-parent"
      /\ StepAt(7) = "parent-fidelity" /\ StepAt(8) = "cleanup"
    BY DEF StepAt, FollowThroughSteps
<1>2. {1, 2, 3, 4, 5, 6, 7, 8} \subseteq 1..Last
    BY DEF Last
<1>. QED BY <1>1, <1>2 DEF Steps

LEMMA StepAtType == \A j \in 1..Last : StepAt(j) \in Steps
BY DEF StepAt, FollowThroughSteps, Steps, Last

(* In FOLLOWTHROUGH_STEPS a step comes after those it depends on. *)
LEMMA DependencyFirst ==
    ASSUME NEW j \in 1..Last, NEW d \in DependsOn(StepAt(j))
    PROVE  \E k \in 1..Last : k < j /\ StepAt(k) = d
<1>1. StepAt(2) = "fast-forward" /\ StepAt(3) = "push-parent"
    BY DEF StepAt, FollowThroughSteps
<1>2. CASE j = 4
    <2>1. d = "push-parent"
        BY <1>2 DEF DependsOn, StepAt, FollowThroughSteps
    <2>. QED BY <1>1, <1>2, <2>1 DEF Last
<1>3. CASE j = 5
    <2>1. d = "fast-forward"
        BY <1>3 DEF DependsOn, StepAt, FollowThroughSteps
    <2>. QED BY <1>1, <1>3, <2>1 DEF Last
<1>4. CASE j \notin {4, 5}
    <2>1. StepAt(j) # "accept-tag" /\ StepAt(j) # "close-review"
        BY <1>4 DEF StepAt, FollowThroughSteps, Last
    <2>. QED BY <2>1 DEF DependsOn
<1>. QED BY <1>2, <1>3, <1>4

LEMMA NoRecordApart == \A r \in Records : r # NoRecord
BY DEF NoRecord, Records

LEMMA PushForgotten ==
    ASSUME NEW m \in Merges
    PROVE  [m EXCEPT !.pushParent = FALSE] \in Merges
           /\ [m EXCEPT !.pushParent = m.pushParent] \in Merges
BY DEF Merges

LEMMA NewRecordType ==
    ASSUME NEW m \in Merges, NEW sha \in Nat
    PROVE  /\ NewRecord(m, sha) \in Records
           /\ NewRecord(m, sha).merge = m
           /\ NewRecord(m, sha).done = {}
BY FollowThroughAssumption DEF NewRecord, Records

(* Doing more keeps a copy sound. *)
LEMMA SoundGrows ==
    ASSUME NEW r, Sound(r), merge' = merge, effects \subseteq effects'
    PROVE  Sound(r)'
BY DEF Sound, HasWork, Applies

(* A copy that agrees with a sound one is sound. *)
LEMMA AgreeSound ==
    ASSUME NEW r, NEW q, Agree(r, q), Sound(r)
    PROVE  Sound(q)
BY DEF Agree, Sound

(* Marking a step that has taken effect, or has no work. *)
LEMMA MarkSound ==
    ASSUME NEW r, Sound(r), NEW s \in Steps,
           HasWork(s, merge) => s \in effects
    PROVE  Sound([r EXCEPT !.done = @ \cup {s}])
<1>1. [r EXCEPT !.done = @ \cup {s}] \in Records
    BY DEF Sound, Records
<1>2. /\ [r EXCEPT !.done = @ \cup {s}].merge = merge
      /\ [r EXCEPT !.done = @ \cup {s}].done = r.done \cup {s}
    BY DEF Sound, Records
<1>. QED BY <1>1, <1>2 DEF Sound

(* A run that reached its end without a failure has marked every step. *)
LEMMA PassedAll ==
    ASSUME NEW r, Sound(r), \A j \in 1..Last : StepAt(j) \in r.done
    PROVE  \A s \in Steps : HasWork(s, merge) => s \in effects
BY StepsNamed DEF Sound

(* The run's copy when nothing about the run changes. *)
LEMMA RunSame ==
    ASSUME RunInv, UNCHANGED <<status, pc, rec, i, failed, merge, effects,
                               overwritten>>,
           pc \in {"end", "complete"} => record' = record
    PROVE  RunInv'
<1>1. Sound(rec) => Sound(rec)'
    BY DEF Sound, HasWork, Applies
<1>2. /\ StepAt(i)' = StepAt(i)
      /\ HasWork(StepAt(i), rec.merge)' = HasWork(StepAt(i), rec.merge)
    BY DEF StepAt, FollowThroughSteps, HasWork, Applies
<1>3. \A j \in 1..Last : StepAt(j)' = StepAt(j)
    BY DEF StepAt, FollowThroughSteps
<1>. QED BY <1>1, <1>2, <1>3 DEF RunInv, Running, Agree

LEMMA InitIInv == Init => IInv
<1>. SUFFICES ASSUME Init PROVE IInv
    OBVIOUS
<1>1. TypeInv
    BY DEF Init, TypeInv
<1>2. StoredInv /\ RunInv /\ SweepInv /\ ClearedMeansDone
    BY DEF Init, StoredInv, RunInv, SweepInv, ClearedMeansDone, Running
<1>. QED BY <1>1, <1>2 DEF IInv

(* Every action: the type conjuncts. *)
LEMMA TypeStep ==
    TypeInv /\ RunInv /\ SweepInv /\ StoredInv /\ [Next]_vars => TypeInv'
<1>. SUFFICES ASSUME TypeInv, RunInv, SweepInv, StoredInv, [Next]_vars
              PROVE  TypeInv'
    OBVIOUS
<1>. USE FollowThroughAssumption
<1>1. CASE RecordFollowThrough
    <2>1. rec' = NewRecord(merge, IF merge.viaForge THEN NoSha ELSE here)
        BY <1>1 DEF RecordFollowThrough, Commit
    <2>2. NewRecord(merge, IF merge.viaForge THEN NoSha ELSE here) \in Records
        BY NewRecordType DEF TypeInv, NoSha
    <2>3. record' \in Records /\ merge' \in Merges
        BY <1>1, <2>1, <2>2 DEF RecordFollowThrough, Commit, Records
    <2>. QED BY <1>1, <2>3 DEF RecordFollowThrough, Commit, TypeInv
<1>2. CASE FinishInterrupted
    <2>1. \A r \in Rebuilt : r \in Records
        BY NewRecordType, PushForgotten DEF Rebuilt, TypeInv, NoSha
    <2>2. PICK r \in Records : Commit(r)
        BY <1>2, <2>1 DEF FinishInterrupted, TypeInv
    <2>3. record' \in Records /\ merge' \in Merges
        BY <2>2 DEF Commit, Records
    <2>. QED BY <1>2, <2>2, <2>3 DEF FinishInterrupted, Commit, TypeInv
<1>3. CASE EndSession
    BY <1>3 DEF EndSession, TypeInv, git
<1>4. CASE BecomesComplete
    BY <1>4 DEF BecomesComplete, TypeInv, git
<1>5. CASE StepDoneBefore \/ StepHeldBack
    BY <1>5 DEF StepDoneBefore, StepHeldBack, AtStep, TypeInv, git, Last
<1>6. CASE StepDoesNotApply \/ StepWithoutWork \/ StepRecorded
    <2>1. i <= Last /\ pc \in Running /\ StepAt(i) \in Steps
        BY <1>6, StepAtType DEF StepDoesNotApply, StepWithoutWork,
           StepRecorded, Ready, AtStep, RunInv, Running, TypeInv, Last
    <2>2. MarkDone
        BY <1>6 DEF StepDoesNotApply, StepWithoutWork, StepRecorded
    <2>3. record' \in Records
        BY <2>1, <2>2 DEF MarkDone, RunInv, Records
    <2>. QED BY <1>6, <2>1, <2>2, <2>3 DEF StepDoesNotApply, StepWithoutWork,
           StepRecorded, MarkDone, TypeInv, git, Last
<1>7. CASE StepFails \/ GitStepFails
    BY <1>7 DEF StepFails, GitStepFails, Ready, AtStep, TypeInv, git, Last
<1>8. CASE StepRuns \/ FastForward \/ AcceptTag
    BY <1>8 DEF StepRuns, FastForward, AcceptTag, TypeInv
<1>9. CASE PinMerge
    <2>1. record' \in Records \cup {NoRecord}
        BY <1>9 DEF PinMerge, RunInv, Running, TypeInv, Records
    <2>. QED BY <1>9, <2>1 DEF PinMerge, TypeInv, git
<1>10. CASE RunFailed
    <2>1. record' \in Records
        BY <1>10 DEF RunFailed, RunInv, Running, Records
    <2>. QED BY <1>10, <2>1 DEF RunFailed, RunEnds, TypeInv, git
<1>11. CASE RunCleared
    BY <1>11 DEF RunCleared, RunEnds, TypeInv, git
<1>12. CASE SweepLists \/ SweepDoesNotRun \/ SweepReads \/ SweepFilesMessage
    BY <1>12 DEF SweepLists, SweepDoesNotRun, SweepReads, SweepFilesMessage,
       TypeInv, git, run
<1>13. CASE SweepRuns
    BY <1>13 DEF SweepRuns, TypeInv, git
<1>14. CASE SweepNotesMessage
    <2>1. record' \in Records
        BY <1>14 DEF SweepNotesMessage, SweepInv, Records
    <2>. QED BY <1>14, <2>1 DEF SweepNotesMessage, TypeInv, git, run
<1>15. CASE OtherMerge
    BY <1>15 DEF OtherMerge, TypeInv, run
<1>16. CASE ReopenTask
    BY <1>16 DEF ReopenTask, TypeInv, run
<1>17. CASE MergesAgain
    BY <1>17 DEF MergesAgain, TypeInv
<1>18. CASE Crash
    BY <1>18 DEF Crash, RunEnds, TypeInv, git
<1>19. CASE UNCHANGED vars
    BY <1>19 DEF vars, run, git, TypeInv
<1>. QED BY <1>1, <1>2, <1>3, <1>4, <1>5, <1>6, <1>7, <1>8, <1>9, <1>10,
       <1>11, <1>12, <1>13, <1>14, <1>15, <1>16, <1>17, <1>18, <1>19
       DEF Next, RunStep, SweepStep

(* Every action: the copies of the record. *)
LEMMA InvStep ==
    ASSUME IInv, [Next]_vars
    PROVE  StoredInv' /\ RunInv' /\ SweepInv' /\ ClearedMeansDone'
<1>. USE DEF IInv
<1>0. \A r : Sound(r) => r \in Records /\ r # NoRecord
    BY NoRecordApart DEF Sound
<1>1. CASE RecordFollowThrough
    <2>1. PICK r \in Records : Commit(r) /\ r.merge = merge /\ r.done = {}
        <3>1. NewRecord(merge, IF merge.viaForge THEN NoSha ELSE here) \in Records
              /\ NewRecord(merge, IF merge.viaForge THEN NoSha ELSE here).merge = merge
              /\ NewRecord(merge, IF merge.viaForge THEN NoSha ELSE here).done = {}
            BY NewRecordType DEF TypeInv, NoSha
        <3>. QED BY <1>1, <3>1 DEF RecordFollowThrough
    <2>2. status = "merging" /\ merge' = merge
        BY <1>1, <2>1 DEF RecordFollowThrough, RunInv, Commit
    <2>3. Sound(rec)' /\ rec' = record' /\ pc' = "end"
        BY <2>1, <2>2 DEF Commit, Sound
    <2>4. Agree(rec, record)' /\ rec' \in Records
        BY <2>3 DEF Sound, Agree
    <2>. QED BY <1>1, <2>2, <2>3, <2>4 DEF RecordFollowThrough, StoredInv,
               RunInv, SweepInv, ClearedMeansDone, Running, HasWork, Applies
<1>2. CASE FinishInterrupted
    <2>1. CASE session = "accepted" /\ record # NoRecord
        <3>1. /\ Commit(record) /\ overwritten' = overwritten
              /\ record \in Records /\ status = "merging"
              /\ ~overwritten => Sound(record)
            BY <1>2, <2>1 DEF FinishInterrupted, StoredInv, TypeInv
        <3>2. /\ rec' = record' /\ record' = record /\ pc' = "end"
              /\ ~overwritten => Sound(rec)' /\ Sound(record)'
            BY <1>2, <3>1 DEF FinishInterrupted, Commit, Sound, HasWork,
               Applies
        <3>3. Agree(rec, record)' /\ rec' \in Records
            BY <3>1, <3>2 DEF Agree
        <3>. QED BY <1>2, <3>1, <3>2, <3>3 DEF FinishInterrupted, StoredInv,
                   RunInv, SweepInv, ClearedMeansDone, Running
    <2>2. CASE ~(session = "accepted" /\ record # NoRecord)
        <3>1. \A r \in Rebuilt : r \in Records /\ r.done = {}
            BY NewRecordType, PushForgotten DEF Rebuilt, TypeInv, NoSha
        <3>2. PICK r \in Records : Commit(r) /\ r.done = {}
            BY <1>2, <2>2, <3>1 DEF FinishInterrupted
        <3>3. Sound(rec)' /\ rec' = record' /\ pc' = "end"
            BY <3>2 DEF Commit, Sound
        <3>4. Agree(rec, record)' /\ rec' \in Records
            BY <3>3 DEF Sound, Agree
        <3>. QED BY <1>2, <3>3, <3>4 DEF FinishInterrupted, StoredInv, RunInv,
                   SweepInv, ClearedMeansDone, Running
    <2>. QED BY <2>1, <2>2
<1>3. CASE EndSession
    <2>1. /\ status = "merging" /\ pc = "end" /\ pc' = "complete"
          /\ UNCHANGED <<status, record, rec, sweep, after, merge, effects,
                         overwritten>>
        BY <1>3 DEF EndSession, RunInv, git, history
    <2>2. ~overwritten => /\ Agree(rec, record)' /\ Sound(rec)'
                          /\ Sound(record)'
        BY <2>1, AgreeSound DEF RunInv, Sound, Agree, HasWork, Applies
    <2>3. rec' \in Records
        BY <2>1 DEF RunInv
    <2>. QED BY <2>1, <2>2, <2>3 DEF StoredInv, RunInv, SweepInv,
               ClearedMeansDone, Running
<1>4. CASE BecomesComplete
    <2>1. /\ status = "merging" /\ pc = "complete" /\ rec \in Records
          /\ UNCHANGED <<session, record, rec, sweep, after, merge, effects,
                         overwritten>>
          /\ status' = "complete" /\ pc' = "step"
        BY <1>4 DEF BecomesComplete, RunInv, git, history
    <2>2. ~overwritten => Sound(rec)' /\ Sound(record)'
        BY <2>1, AgreeSound DEF RunInv, Sound, HasWork, Applies
    <2>3. ~overwritten => record' # NoRecord
        BY <1>0, <2>1, <2>2 DEF Sound
    <2>4. \A j \in 1..Last : ~(j < i')
        BY <1>4 DEF BecomesComplete
    <2>. QED BY <2>1, <2>2, <2>3, <2>4 DEF StoredInv, RunInv, SweepInv,
               ClearedMeansDone, Running
(* Steps of a run that add to nothing. *)
<1>5. CASE StepDoneBefore
    <2>1. \A r : Sound(r) => Sound(r)'
        BY <1>5, SoundGrows DEF StepDoneBefore, git
    <2>2. ~failed => \A j \in 1..Last : j < i + 1 => StepAt(j) \in rec.done
        BY <1>5 DEF StepDoneBefore, RunInv, Running, TypeInv
    <2>. QED BY <1>5, <2>1, <2>2 DEF StepDoneBefore, git, history, Agree,
               StoredInv, RunInv, SweepInv, ClearedMeansDone, Running,
               HasWork, Applies
<1>6. CASE StepHeldBack
    <2>1. \A r : Sound(r) => Sound(r)'
        BY <1>6, SoundGrows DEF StepHeldBack, git
    <2>2. i \in 1..Last /\ pc \in Running
        BY <1>6 DEF StepHeldBack, AtStep, TypeInv, Running, Last
    <2>3. PICK d \in DependsOn(StepAt(i)) : d \notin rec.done
        BY <1>6 DEF StepHeldBack
    <2>4. failed
        BY <2>2, <2>3, DependencyFirst DEF RunInv
    <2>. QED BY <1>6, <2>1, <2>4 DEF StepHeldBack, AtStep, git, history,
               StoredInv, RunInv, SweepInv, ClearedMeansDone, Running, HasWork, Applies
<1>7. CASE StepFails \/ GitStepFails
    <2>1. merge' = merge /\ effects \subseteq effects'
        BY <1>7 DEF StepFails, GitStepFails, git
    <2>2. \A r : Sound(r) => Sound(r)'
        BY <2>1, SoundGrows
    <2>3. /\ pc = "step" /\ failed' = TRUE
          /\ UNCHANGED <<status, session, record, pc, rec, sweep, after,
                         overwritten>>
        BY <1>7 DEF StepFails, GitStepFails, Ready, AtStep, history
    <2>4. ClearedMeansDone'
        BY <2>1, <2>3 DEF ClearedMeansDone, HasWork, Applies
    <2>. QED BY <2>2, <2>3, <2>4 DEF StoredInv, RunInv, SweepInv, Running
<1>8. CASE StepRuns \/ FastForward \/ AcceptTag
    <2>1. /\ merge' = merge /\ effects' = effects \cup {StepAt(i)}
          /\ pc = "step" /\ i <= Last /\ pc' \in {"ran", "forwarded"}
          /\ UNCHANGED <<status, session, record, rec, i, failed, sweep, after,
                         overwritten>>
        BY <1>8 DEF StepRuns, FastForward, AcceptTag, Ready, AtStep,
           TakesEffect, history
    <2>2. \A r : Sound(r) => Sound(r)'
        BY <2>1, SoundGrows
    <2>3. ClearedMeansDone'
        BY <2>1 DEF ClearedMeansDone, HasWork, Applies
    <2>4. StepAt(i)' \in effects'
        BY <2>1 DEF StepAt
    <2>5. RunInv'
        BY <2>1, <2>2, <2>4 DEF RunInv, Running, HasWork, Applies, StepAt
    <2>. QED BY <2>1, <2>2, <2>3, <2>5 DEF StoredInv, SweepInv
(* The record is written, and is sound. *)
<1>9. CASE PinMerge
    <2>1. /\ merge' = merge /\ effects' = effects /\ pc = "forwarded"
          /\ pc' = "ran"
          /\ UNCHANGED <<status, session, i, failed, sweep, after,
                         overwritten>>
        BY <1>9 DEF PinMerge, git, history
    <2>2. rec' \in Records /\ rec'.done = rec.done /\ rec'.merge = rec.merge
        BY <1>9 DEF PinMerge, RunInv, Running, Records, TypeInv
    <2>3. record' = record \/ record' = rec'
        BY <1>9 DEF PinMerge
    <2>4. \A r : Sound(r) => Sound(r)'
        BY <2>1, SoundGrows
    <2>5. status = "complete" /\ ~overwritten => Sound(rec)'
        BY <2>1, <2>2 DEF RunInv, Running, Sound, HasWork, Applies
    <2>6. status # "merging" /\ rec' # NoRecord
        BY <2>1, <2>2, NoRecordApart DEF RunInv, Running
    <2>7. ClearedMeansDone'
        BY <2>1, <2>3, <2>6 DEF ClearedMeansDone, HasWork, Applies
    <2>8. RunInv'
        BY <2>1, <2>2, <2>5, <2>6 DEF RunInv, Running, HasWork, Applies, StepAt
    <2>9. StoredInv'
        BY <2>1, <2>3, <2>4, <2>5, <2>6 DEF StoredInv
    <2>. QED BY <2>1, <2>4, <2>7, <2>8, <2>9 DEF SweepInv
<1>10. CASE StepDoesNotApply \/ StepWithoutWork \/ StepRecorded
    <2>1. /\ MarkDone /\ pc \in Running /\ i \in 1..Last
          /\ UNCHANGED <<status, session, failed, sweep, after, git,
                         overwritten>>
        BY <1>10 DEF StepDoesNotApply, StepWithoutWork, StepRecorded, Ready,
           AtStep, RunInv, Running, TypeInv, Last, history
    <2>2. HasWork(StepAt(i), rec.merge) => StepAt(i) \in effects
        BY <1>10 DEF StepDoesNotApply, StepWithoutWork, StepRecorded, HasWork,
           RunInv
    <2>3. StepAt(i) \in Steps /\ rec \in Records /\ status # "merging"
        BY <2>1, StepAtType DEF RunInv
    <2>4. /\ rec' = [rec EXCEPT !.done = @ \cup {StepAt(i)}]
          /\ record' = rec' /\ rec' \in Records
          /\ rec'.done = rec.done \cup {StepAt(i)}
          /\ i' = i + 1 /\ pc' = "step"
        BY <2>1, <2>3 DEF MarkDone, Records
    <2>5. status = "complete" /\ ~overwritten => Sound(rec) /\ Sound(rec')
        BY <2>1, <2>2, <2>3, <2>4, MarkSound DEF RunInv, Sound
    <2>6. \A r : Sound(r) => Sound(r)'
        BY <2>1, SoundGrows DEF git
    <2>7. ~failed => \A j \in 1..Last : j < i + 1 => StepAt(j) \in rec'.done
        BY <2>1, <2>4 DEF RunInv
    <2>8. rec' # NoRecord
        BY <2>4, NoRecordApart
    <2>10. Sound(rec') => Sound(rec)' /\ Sound(record)'
        BY <2>1, <2>4 DEF Sound, git, HasWork, Applies
    <2>9. StoredInv' /\ SweepInv' /\ ClearedMeansDone'
        BY <2>1, <2>3, <2>4, <2>5, <2>6, <2>8, <2>10
           DEF StoredInv, SweepInv, ClearedMeansDone, git, HasWork, Applies
    <2>12. RunInv'
        BY <2>1, <2>3, <2>4, <2>5, <2>7, <2>10 DEF RunInv, Running, StepAt
    <2>. QED BY <2>9, <2>12
<1>11. CASE RunFailed
    <2>1. /\ status # "merging" /\ rec \in Records
          /\ UNCHANGED <<status, session, after, git, overwritten>>
          /\ pc' = "free"
          /\ sweep' = "read" \/ sweep' = sweep
        BY <1>11 DEF RunFailed, RunEnds, RunInv, Running, history
    <2>2. record' \in Records /\ record'.done = rec.done
          /\ record'.merge = rec.merge
        BY <1>11, <2>1, FollowThroughAssumption DEF RunFailed, Records
    <2>3. \A r : Sound(r) => Sound(r)'
        BY <2>1, SoundGrows DEF git
    <2>4. status = "complete" /\ ~overwritten => Sound(record)'
        BY <1>11, <2>1, <2>2 DEF RunFailed, RunInv, Running, Sound, git,
           HasWork, Applies
    <2>5. record' # NoRecord
        BY <2>2, NoRecordApart
    <2>. QED BY <2>1, <2>3, <2>4, <2>5 DEF StoredInv, RunInv, SweepInv,
               ClearedMeansDone, Running
<1>12. CASE RunCleared
    <2>1. /\ status # "merging" /\ record' = NoRecord /\ pc = "step"
          /\ UNCHANGED <<status, session, after, git, overwritten>>
          /\ pc' = "free" /\ i > Last /\ ~failed
          /\ sweep' = "idle" \/ sweep' = sweep
        BY <1>12 DEF RunCleared, RunEnds, RunInv, Running, history
    <2>2. \A r : Sound(r) => Sound(r)'
        BY <2>1, SoundGrows DEF git
    <2>3. \A j \in 1..Last : StepAt(j) \in rec.done
        BY <2>1 DEF RunInv, Running, TypeInv, Last
    <2>4. status = "complete" /\ ~overwritten =>
            \A s \in Steps : HasWork(s, merge) => s \in effects
        BY <2>1, <2>3, PassedAll DEF RunInv, Running
    <2>. QED BY <2>1, <2>2, <2>4 DEF StoredInv, RunInv, SweepInv,
               ClearedMeansDone, Running, git, HasWork, Applies
(* The sweep. *)
<1>13. CASE SweepRuns
    <2>1. /\ record # NoRecord /\ rec' = record /\ record' = record
          /\ pc = "free" /\ pc' = "step" /\ i' = 1 /\ sweep' = "running"
          /\ UNCHANGED <<status, session, after, git, overwritten>>
        BY <1>13 DEF SweepRuns, history
    <2>2. \A r : Sound(r) => Sound(r)'
        BY <2>1, SoundGrows DEF git
    <2>3. record \in Records
        BY <2>1 DEF TypeInv
    <2>4. status # "merging"
        BY <1>13 DEF SweepRuns, SweepInv
    <2>. QED BY <2>1, <2>2, <2>3, <2>4 DEF StoredInv, RunInv, SweepInv,
               ClearedMeansDone, Running, git, HasWork, Applies

<1>14. CASE SweepLists \/ SweepDoesNotRun \/ SweepFilesMessage \/ SweepReads
    <2>1. /\ UNCHANGED <<status, session, record, run, git, overwritten>>
          /\ \/ sweep' = "idle"
             \/ sweep' = "listed" /\ status = "complete"
             \/ sweep = "file" /\ sweep' = "note"
             \/ sweep = "read" /\ sweep' = "file"
        BY <1>14 DEF SweepLists, SweepDoesNotRun, SweepFilesMessage,
           SweepReads, history
    <2>2. \A r : Sound(r) => Sound(r)'
        BY <2>1, SoundGrows DEF git
    <2>3. sweep' \in {"file", "note"} => after' \in Records
        BY <1>14 DEF SweepLists, SweepDoesNotRun, SweepFilesMessage,
           SweepReads, SweepInv, TypeInv
    <2>4. StoredInv' /\ ClearedMeansDone'
        BY <2>1, <2>2 DEF StoredInv, ClearedMeansDone, git, HasWork, Applies
    <2>5. RunInv'
        BY <2>1, RunSame DEF git, run
    <2>6. SweepInv'
        BY <2>1, <2>3 DEF SweepInv
    <2>. QED BY <2>4, <2>5, <2>6
(* The note: of the stored record itself, or stale. *)
<1>15. CASE SweepNotesMessage
    <2>1. /\ UNCHANGED <<status, session, run, git>> /\ sweep' = "idle"
          /\ after \in Records /\ record' = [after EXCEPT !.messaged = TRUE]
        BY <1>15 DEF SweepNotesMessage, SweepInv
    <2>2. record' \in Records /\ record'.done = after.done
          /\ record'.merge = after.merge /\ record'.sha = after.sha
        BY <2>1 DEF Records
    <2>3. record' # NoRecord
        BY <2>2, NoRecordApart
    <2>4. ~overwritten' => ~overwritten /\ after = record
        BY <1>15, Zenon DEF SweepNotesMessage
    <2>5. \A r : Sound(r) => Sound(r)'
        BY <2>1, SoundGrows DEF git
    <2>6. after = record /\ Sound(record) => Sound(record)'
        BY <2>1, <2>2 DEF Sound, git, HasWork, Applies
    <2>7. after = record /\ Agree(rec, record) => Agree(rec, record)'
        BY <2>1, <2>2 DEF Agree, run
    <2>8. after = record => record # NoRecord
        BY <2>1, NoRecordApart
    <2>9. StoredInv'
        BY <2>1, <2>4, <2>6, <2>8 DEF StoredInv
    <2>10. RunInv'
        BY <2>1, <2>4, <2>5, <2>7 DEF RunInv, Running, git, run, HasWork,
           Applies, StepAt
    <2>. QED BY <2>1, <2>3, <2>9, <2>10 DEF SweepInv, ClearedMeansDone
(* The surroundings. *)
<1>16. CASE OtherMerge
    <2>1. UNCHANGED <<status, session, record, run, sweep, after, merge,
                      effects, overwritten>>
        BY <1>16 DEF OtherMerge, history
    <2>2. \A r : Sound(r) => Sound(r)'
        BY <2>1, SoundGrows
    <2>3. RunInv'
        BY <2>1, RunSame DEF run
    <2>. QED BY <2>1, <2>2, <2>3 DEF StoredInv, SweepInv, ClearedMeansDone,
               run, HasWork, Applies
<1>17. CASE ReopenTask
    BY <1>17 DEF ReopenTask, StoredInv, RunInv, SweepInv, ClearedMeansDone,
       Running, run, history
<1>18. CASE MergesAgain
    BY <1>18 DEF MergesAgain, StoredInv, RunInv, SweepInv, ClearedMeansDone,
       Running
<1>19. CASE Crash
    <2>1. /\ UNCHANGED <<status, session, record, git, overwritten>>
          /\ pc' = "free" /\ sweep' = "idle"
        BY <1>19 DEF Crash, RunEnds, history
    <2>2. \A r : Sound(r) => Sound(r)'
        BY <2>1, SoundGrows DEF git
    <2>. QED BY <2>1, <2>2 DEF StoredInv, RunInv, SweepInv, ClearedMeansDone,
               Running, git, HasWork, Applies
<1>20. CASE UNCHANGED vars
    <2>1. UNCHANGED <<status, session, record, run, sweep, after, git,
                      overwritten>>
        BY <1>20 DEF vars, history
    <2>2. \A r : Sound(r) => Sound(r)'
        BY <2>1, SoundGrows DEF git
    <2>3. RunInv'
        BY <2>1, RunSame DEF git, run
    <2>. QED BY <2>1, <2>2, <2>3 DEF StoredInv, SweepInv, ClearedMeansDone,
               run, git, HasWork, Applies
<1>. QED BY <1>1, <1>2, <1>3, <1>4, <1>5, <1>6, <1>7, <1>8, <1>9, <1>10,
       <1>11, <1>12, <1>13, <1>14, <1>15, <1>16, <1>17, <1>18, <1>19, <1>20
       DEF Next, RunStep, SweepStep

(* The record is dropped only when nothing is owed any more                *)
(* (runAcceptFollowThroughSteps' last write), whatever failed, died or was *)
(* reopened in between.  The exception is the property's: the note of a    *)
(* message (retryFollowThrough) has put a stale copy over the record.      *)
THEOREM NothingOwedIsDropped == Spec => []ClearedMeansDone
<1>1. IInv /\ [Next]_vars => IInv'
    BY TypeStep, InvStep DEF IInv
<1>2. IInv => ClearedMeansDone
    BY DEF IInv
<1>. QED BY InitIInv, <1>1, <1>2, PTL DEF Spec

-----------------------------------------------------------------------------
(* Types, whatever overtakes what.                                         *)

(* A run has a record, and is at one of its steps where it marks one; the  *)
(* sweep has the record it writes back. *)
HullInv ==
    /\ TypeOK
    /\ pc \in Running \cup {"end", "complete"} => rec \in Records
    /\ pc \in {"forwarded", "ran"} => i <= Last
    /\ sweep \in {"file", "note"} => after \in Records

LEMMA HullInit == Init => HullInv
<1>. SUFFICES ASSUME Init PROVE HullInv
    OBVIOUS
<1>1. /\ status = "merging" /\ session = "open" /\ record = NoRecord
      /\ pc = "record" /\ rec = NoRecord /\ i = 1 /\ failed = FALSE
      /\ sweep = "idle" /\ after = NoRecord /\ merge \in Merges
      /\ effects = {} /\ target = 1 /\ here \in {0, 1} /\ own = 1 /\ tag = 0
      /\ told = FALSE /\ overwritten = FALSE /\ reopens = 0 /\ crashes = 0
    BY DEF Init
<1>2. failed \in BOOLEAN /\ told \in BOOLEAN /\ overwritten \in BOOLEAN
    BY <1>1, Zenon
<1>. QED BY <1>1, <1>2, FollowThroughAssumption DEF HullInv, TypeOK, Last, Running

(* What the steps make of a record is a record. *)
LEMMA Marking ==
    ASSUME NEW r \in Records, NEW s \in Steps
    PROVE  [r EXCEPT !.done = @ \cup {s}] \in Records
BY DEF Records

LEMMA Noting ==
    ASSUME NEW r \in Records
    PROVE  /\ [r EXCEPT !.messaged = TRUE] \in Records
           /\ [r EXCEPT !.attempts = IF @ < MessageAfter THEN @ + 1 ELSE @]
                \in Records
           /\ \A sha \in Nat : [r EXCEPT !.sha = sha] \in Records
<1>1. r.attempts \in 0..MessageAfter /\ MessageAfter \in Nat
    BY FollowThroughAssumption DEF Records
<1>2. (IF r.attempts < MessageAfter THEN r.attempts + 1 ELSE r.attempts)
        \in 0..MessageAfter
    BY <1>1
<1>3. [r EXCEPT !.attempts = IF @ < MessageAfter THEN @ + 1 ELSE @] \in Records
    BY <1>2 DEF Records
<1>4. [r EXCEPT !.messaged = TRUE] \in Records
    BY DEF Records
<1>5. \A sha \in Nat : [r EXCEPT !.sha = sha] \in Records
    BY DEF Records
<1>. QED BY <1>3, <1>4, <1>5

LEMMA HullNext == HullInv /\ [Next]_vars => HullInv'
<1>. SUFFICES ASSUME HullInv, [Next]_vars PROVE HullInv'
    OBVIOUS
<1>. USE FollowThroughAssumption DEF HullInv, TypeOK, Running, Last, history
<1>0. \A r \in Records : r.merge \in Merges /\ r.sha \in Nat
    BY DEF Records
<1>1. CASE RecordFollowThrough
    <2>1. PICK r \in Records : Commit(r)
        BY <1>1, NewRecordType DEF RecordFollowThrough, NoSha
    <2>. QED BY <1>0, <1>1, <2>1 DEF RecordFollowThrough, Commit, bounds
<1>2. CASE FinishInterrupted
    <2>1. \A r \in Rebuilt : r \in Records
        BY NewRecordType, PushForgotten DEF Rebuilt, NoSha
    <2>2. PICK r \in Records : Commit(r)
        BY <1>2, <2>1 DEF FinishInterrupted
    <2>. QED BY <1>0, <1>2, <2>2 DEF FinishInterrupted, Commit, bounds
<1>3. CASE EndSession
    BY <1>3 DEF EndSession, git, bounds
<1>4. CASE BecomesComplete
    <2>1. failed' \in BOOLEAN
        BY <1>4, Zenon DEF BecomesComplete
    <2>. QED BY <1>4, <2>1 DEF BecomesComplete, git, bounds
<1>5. CASE StepDoneBefore
    BY <1>5 DEF StepDoneBefore, git, bounds
<1>6. CASE StepDoesNotApply \/ StepWithoutWork \/ StepRecorded
    <2>1. /\ MarkDone /\ i \in 1..8 /\ rec \in Records
          /\ UNCHANGED <<status, session, failed, sweep, after, git, told,
                         overwritten, bounds>>
        BY <1>6 DEF StepDoesNotApply, StepWithoutWork, StepRecorded, Ready,
           AtStep
    <2>2. rec' \in Records
        BY <2>1, Marking, StepAtType DEF MarkDone
    <2>. QED BY <2>1, <2>2 DEF MarkDone, git, bounds
<1>7. CASE StepHeldBack
    BY <1>7 DEF StepHeldBack, AtStep, git, bounds
<1>8. CASE StepFails
    <2>1. effects' \in SUBSET Steps
        BY <1>8, StepAtType DEF StepFails, Ready, AtStep
    <2>. QED BY <1>8, <2>1 DEF StepFails, Ready, AtStep, bounds
<1>9. CASE GitStepFails
    BY <1>9 DEF GitStepFails, Ready, AtStep, git, bounds
<1>10. CASE StepRuns \/ FastForward \/ AcceptTag
    <2>1. i \in 1..8 /\ rec \in Records /\ TakesEffect
        BY <1>10 DEF StepRuns, FastForward, AcceptTag, Ready, AtStep
    <2>2. effects' \in SUBSET Steps
        BY <2>1, StepAtType DEF TakesEffect
    <2>. QED BY <1>0, <1>10, <2>1, <2>2
           DEF StepRuns, FastForward, AcceptTag, bounds
<1>11. CASE PinMerge
    <2>1. rec \in Records /\ here \in Nat
        BY <1>11 DEF PinMerge
    <2>2. rec' \in Records /\ record' \in Records \cup {NoRecord}
        BY <1>11, <2>1, Noting DEF PinMerge
    <2>. QED BY <1>11, <2>2 DEF PinMerge, git, bounds
<1>12. CASE RunFailed
    <2>1. record' \in Records
        BY <1>12, Noting DEF RunFailed
    <2>2. failed' \in BOOLEAN
        BY <1>12, Zenon DEF RunFailed, RunEnds
    <2>. QED BY <1>12, <2>1, <2>2 DEF RunFailed, RunEnds, git, bounds
<1>13. CASE RunCleared
    <2>1. failed' \in BOOLEAN
        BY <1>13, Zenon DEF RunCleared, RunEnds
    <2>. QED BY <1>13, <2>1 DEF RunCleared, RunEnds, git, bounds
<1>14. CASE SweepLists
    BY <1>14 DEF SweepLists, run, git, bounds
<1>15. CASE SweepRuns
    <2>1. failed' \in BOOLEAN
        BY <1>15, Zenon DEF SweepRuns
    <2>. QED BY <1>15, <2>1 DEF SweepRuns, git, bounds
<1>16. CASE SweepDoesNotRun
    BY <1>16 DEF SweepDoesNotRun, run, git, bounds
<1>17. CASE SweepReads
    BY <1>17 DEF SweepReads, run, git, bounds
<1>18. CASE SweepFilesMessage
    BY <1>18 DEF SweepFilesMessage, run, git, bounds
<1>19. CASE SweepNotesMessage
    <2>1. record' \in Records
        BY <1>19, Noting DEF SweepNotesMessage
    <2>. QED BY <1>19, <2>1 DEF SweepNotesMessage, run, git, bounds
<1>20. CASE OtherMerge
    BY <1>20 DEF OtherMerge, run, bounds
<1>21. CASE ReopenTask
    BY <1>21 DEF ReopenTask, run
<1>22. CASE MergesAgain
    <2>1. told' \in BOOLEAN
        BY <1>22, Zenon DEF MergesAgain
    <2>. QED BY <1>22, <2>1 DEF MergesAgain, bounds
<1>23. CASE Crash
    <2>1. failed' \in BOOLEAN
        BY <1>23, Zenon DEF Crash, RunEnds
    <2>. QED BY <1>23, <2>1 DEF Crash, RunEnds, git
<1>24. CASE UNCHANGED vars
    BY <1>24 DEF vars, run, git, bounds
<1>. QED BY <1>1, <1>2, <1>3, <1>4, <1>5, <1>6, <1>7, <1>8, <1>9, <1>10,
       <1>11, <1>12, <1>13, <1>14, <1>15, <1>16, <1>17, <1>18, <1>19, <1>20,
       <1>21, <1>22, <1>23, <1>24
       DEF Next, RunStep, SweepStep

(* Every copy of the record stays a record of accept-intent.ts, its        *)
(* attempts never beyond FOLLOWTHROUGH_MESSAGE_AFTER_ATTEMPTS, and a run   *)
(* never leaves FOLLOWTHROUGH_STEPS - also after a note has put a stale    *)
(* copy over the record.                                                   *)
THEOREM TypeCorrect == Spec => []TypeOK
<1>1. HullInv => TypeOK
    BY DEF HullInv
<1>. QED BY HullInit, HullNext, <1>1, PTL DEF Spec

-----------------------------------------------------------------------------
(* The order of the steps.                                                 *)

(* While a run is under way its copy is the stored record.  A merge that   *)
(* is not yet complete has had no step. *)
CopyInv ==
    /\ status = "merging" => effects = {}
    /\ pc \in Running /\ ~overwritten => Agree(rec, record)
    /\ pc = "forwarded" => "fast-forward" \notin rec.done

(* A step that waits for another has taken effect only once the record     *)
(* says that the other is done; the tag is at the commit on record. *)
DoneInv ==
    status = "complete" /\ record # NoRecord /\ ~overwritten =>
        /\ "accept-tag" \in effects =>
              /\ "fast-forward" \in record.done
              /\ record.sha # NoSha => tag = record.sha
        /\ "close-review" \in effects => "push-parent" \in record.done

OrderInv == IInv /\ CopyInv /\ DoneInv

LEMMA OrderInit == Init => OrderInv
<1>. SUFFICES ASSUME Init PROVE CopyInv /\ DoneInv
    BY InitIInv DEF OrderInv
<1>. QED BY DEF Init, CopyInv, DoneInv, Running

(* Every action: the order of the steps. *)
LEMMA OrderStep ==
    ASSUME OrderInv, [Next]_vars
    PROVE  CopyInv' /\ DoneInv'
<1>. USE DEF OrderInv, IInv, TypeInv, RunInv, SweepInv, CopyInv, DoneInv,
             Running, Agree, history
<1>0. \A r \in Records : r.done \in SUBSET Steps
    BY DEF Records
<1>1. CASE RecordFollowThrough
    BY <1>1 DEF RecordFollowThrough, Commit
<1>2. CASE FinishInterrupted
    <2>1. PICK r : Commit(r)
        BY <1>2 DEF FinishInterrupted
    <2>. QED BY <1>2, <2>1 DEF FinishInterrupted, Commit
<1>3. CASE EndSession
    BY <1>3 DEF EndSession, git
<1>4. CASE BecomesComplete
    BY <1>4 DEF BecomesComplete, git
<1>5. CASE StepDoneBefore
    BY <1>5 DEF StepDoneBefore, git
(* Marking adds to what is done, in both copies. *)
<1>6. CASE StepDoesNotApply \/ StepWithoutWork \/ StepRecorded
    <2>1. /\ MarkDone /\ pc \in Running /\ rec \in Records
          /\ UNCHANGED <<status, sweep, after, git, overwritten>>
        BY <1>6 DEF StepDoesNotApply, StepWithoutWork, StepRecorded, Ready,
           AtStep
    <2>2. /\ record' = rec' /\ rec' \in Records /\ pc' = "step"
          /\ rec'.sha = rec.sha /\ rec.done \subseteq rec'.done
        BY <1>6, <2>1, StepAtType
        DEF MarkDone, Records, StepDoesNotApply, StepWithoutWork,
            StepRecorded, Ready, AtStep, Last
    <2>3. ~overwritten => record # NoRecord
        BY <2>1, NoRecordApart
    <2>4. CopyInv'
        BY <2>1, <2>2 DEF git
    <2>5. DoneInv'
        BY <2>1, <2>2, <2>3 DEF git
    <2>. QED BY <2>4, <2>5
<1>7. CASE StepHeldBack
    BY <1>7 DEF StepHeldBack, AtStep, git
<1>8. CASE StepFails
    <2>1. /\ pc = "step"
          /\ effects' \in {effects, effects \cup {StepAt(i)}}
          /\ StepAt(i) # "accept-tag"
          /\ StepAt(i) = "close-review" => "push-parent" \in rec.done
          /\ UNCHANGED <<status, record, pc, rec, sweep, after, tag,
                         overwritten>>
        BY <1>8 DEF StepFails, Ready, AtStep, DependsOn, Steps
    <2>. QED BY <2>1
<1>9. CASE GitStepFails
    BY <1>9 DEF GitStepFails, git
(* A step takes effect when what it waits for is done. *)
<1>10. CASE StepRuns \/ FastForward \/ AcceptTag
    <2>1. /\ pc = "step" /\ Ready /\ TakesEffect
          /\ pc' \in {"ran", "forwarded"}
          /\ pc' = "forwarded" => StepAt(i) = "fast-forward"
          /\ StepAt(i) # "accept-tag" => tag' = tag
          /\ StepAt(i) = "accept-tag" /\ rec.sha # NoSha => tag' = rec.sha
          /\ UNCHANGED <<status, record, rec, sweep, after, overwritten>>
        BY <1>10 DEF StepRuns, FastForward, AcceptTag, Ready, AtStep
    <2>2. /\ StepAt(i) = "close-review" => "push-parent" \in rec.done
          /\ StepAt(i) = "accept-tag" => "fast-forward" \in rec.done
          /\ StepAt(i) \notin rec.done
        BY <2>1 DEF Ready, AtStep, DependsOn, Steps
    <2>3. effects' = effects \cup {StepAt(i)}
        BY <2>1 DEF TakesEffect
    <2>4. CopyInv'
        BY <2>1, <2>2
    <2>5. DoneInv'
        BY <2>1, <2>2, <2>3
    <2>. QED BY <2>4, <2>5
(* The merge is pinned before the tag: no tag has been made yet. *)
<1>11. CASE PinMerge
    <2>1. /\ pc = "forwarded" /\ rec \in Records
          /\ "fast-forward" \notin rec.done
          /\ UNCHANGED <<status, sweep, after, effects, tag, overwritten>>
        BY <1>11 DEF PinMerge, git
    <2>2. rec' \in Records /\ rec'.done = rec.done
        BY <1>11, <2>1 DEF PinMerge, Records
    <2>3. ~overwritten => record # NoRecord /\ Agree(rec, record)'
        BY <1>11, <2>1, <2>2, NoRecordApart DEF PinMerge
    <2>4. pc' = "ran"
        BY <1>11 DEF PinMerge
    <2>5. ~overwritten /\ status = "complete" => "accept-tag" \notin effects
        BY <2>1, <2>3
    <2>6. ~overwritten => record'.done = record.done
        BY <2>1, <2>2, <2>3
    <2>. QED BY <2>1, <2>3, <2>4, <2>5, <2>6
<1>12. CASE RunFailed
    <2>1. /\ pc = "step" /\ rec \in Records /\ pc' = "free"
          /\ UNCHANGED <<status, after, effects, tag, overwritten>>
        BY <1>12 DEF RunFailed, RunEnds, git
    <2>2. record'.done = rec.done /\ record'.sha = rec.sha
        BY <1>12, <2>1 DEF RunFailed, Records
    <2>3. ~overwritten => record # NoRecord /\ Agree(rec, record)
        BY <2>1, NoRecordApart
    <2>. QED BY <2>1, <2>2, <2>3
<1>13. CASE RunCleared
    BY <1>13 DEF RunCleared, RunEnds, git
<1>14. CASE SweepLists
    BY <1>14 DEF SweepLists, run, git
<1>15. CASE SweepRuns
    BY <1>15 DEF SweepRuns, git
<1>16. CASE SweepDoesNotRun
    BY <1>16 DEF SweepDoesNotRun, run, git
<1>17. CASE SweepReads
    BY <1>17 DEF SweepReads, run, git
<1>18. CASE SweepFilesMessage
    BY <1>18 DEF SweepFilesMessage, run, git
<1>19. CASE SweepNotesMessage
    <2>1. /\ after \in Records
          /\ record' = [after EXCEPT !.messaged = TRUE]
          /\ UNCHANGED <<status, pc, rec, effects, tag>>
        BY <1>19 DEF SweepNotesMessage, run, git
    <2>2. /\ record' \in Records /\ record'.merge = after.merge
          /\ record'.done = after.done /\ record'.sha = after.sha
        BY <2>1 DEF Records
    <2>3. ~overwritten' => ~overwritten /\ after = record
        BY <1>19, Zenon DEF SweepNotesMessage
    <2>4. after # NoRecord
        BY <2>1, NoRecordApart
    <2>. QED BY <2>1, <2>2, <2>3, <2>4
<1>20. CASE OtherMerge
    BY <1>20 DEF OtherMerge, run
<1>21. CASE ReopenTask
    BY <1>21 DEF ReopenTask, run
<1>22. CASE MergesAgain
    BY <1>22 DEF MergesAgain
<1>23. CASE Crash
    BY <1>23 DEF Crash, RunEnds, git
<1>24. CASE UNCHANGED vars
    BY <1>24 DEF vars, run, git
<1>. QED BY <1>1, <1>2, <1>3, <1>4, <1>5, <1>6, <1>7, <1>8, <1>9, <1>10,
       <1>11, <1>12, <1>13, <1>14, <1>15, <1>16, <1>17, <1>18, <1>19, <1>20,
       <1>21, <1>22, <1>23, <1>24
       DEF Next, RunStep, SweepStep

LEMMA OrderHolds == Spec => []OrderInv
<1>1. OrderInv /\ [Next]_vars => OrderInv'
    BY TypeStep, InvStep, OrderStep DEF OrderInv, IInv
<1>. QED BY OrderInit, <1>1, PTL DEF Spec

(* FOLLOWTHROUGH_DEPENDS_ON, across runs, crashes and retries: the tag of  *)
(* a forge's merge is made only when the local target has the merge, and a *)
(* PR is closed only when its base on the forge has the work - whether the *)
(* record is still there or was dropped, unless a stale copy was put over  *)
(* it.                                                                     *)
THEOREM DependentsHeldBack == Spec => []DependentsWait
<1>1. OrderInv => DependentsWait
    <2>. SUFFICES ASSUME OrderInv PROVE DependentsWait
        OBVIOUS
    <2>1. {"fast-forward", "push-parent"} \subseteq Steps
        BY DEF Steps
    <2>2. /\ merge.viaForge => HasWork("fast-forward", merge)
          /\ merge.pushParent => HasWork("push-parent", merge)
        BY DEF HasWork, Applies
    <2>3. CASE record = NoRecord
        BY <2>1, <2>2, <2>3
        DEF OrderInv, IInv, ClearedMeansDone, DependentsWait
    <2>4. CASE record # NoRecord
        BY <2>1, <2>2, <2>4
        DEF OrderInv, IInv, StoredInv, Sound, DoneInv, DependentsWait
    <2>. QED BY <2>3, <2>4
<1>. QED BY <1>1, OrderHolds, PTL

(* A tag that was made at a recorded commit is made there again, however   *)
(* often the step runs and whatever has been merged since: the commit is   *)
(* recorded before the first tag, by the accept or by the fast-forward,    *)
(* and no later run records another one.  (Only a stale copy put over the  *)
(* record names another.)                                                  *)
THEOREM TagPinned == Spec => TagStaysPinned
<1>1. OrderInv /\ [Next]_vars =>
        [status = "complete" /\ record # NoRecord /\ "accept-tag" \in effects
           => record.sha = NoSha \/ tag' = tag \/ overwritten]_vars
    <2>. SUFFICES ASSUME OrderInv, [Next]_vars, status = "complete",
                         record # NoRecord, "accept-tag" \in effects,
                         record.sha # NoSha, tag' # tag, ~overwritten
                  PROVE  FALSE
        OBVIOUS
    <2>1. AcceptTag \/ UNCHANGED tag
        BY DEF Next, RunStep, SweepStep, RecordFollowThrough, EndSession,
               BecomesComplete, StepDoneBefore, StepDoesNotApply,
               StepHeldBack, StepFails, GitStepFails, StepWithoutWork,
               StepRuns, FastForward, PinMerge, StepRecorded, RunFailed,
               RunCleared, SweepLists, SweepRuns, SweepDoesNotRun,
               SweepReads, SweepFilesMessage, SweepNotesMessage,
               FinishInterrupted, OtherMerge, ReopenTask, MergesAgain, Crash,
               git, vars
    <2>2. AcceptTag /\ rec.sha = record.sha
        BY <2>1 DEF AcceptTag, Ready, AtStep, OrderInv, CopyInv, Running,
                    Agree
    <2>. QED BY <2>2 DEF AcceptTag, OrderInv, DoneInv
<1>. QED BY <1>1, OrderHolds, PTL DEF Spec, TagStaysPinned
=============================================================================
