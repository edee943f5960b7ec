--------------------------- MODULE FollowThrough ---------------------------
(***************************************************************************)
(* What an accepted task still owes: the steps of runAcceptFollowThrough   *)
(* (src/daemon/task-lifecycle.ts), the record that keeps them across a     *)
(* crash (src/daemon/accept-intent.ts), the sweep that retries them        *)
(* (sweepAcceptFollowThrough, src/daemon/stranded-merge.ts), and the       *)
(* reopen of the task they belong to.                                      *)
(*                                                                         *)
(* One task.  The branch it merges into is a line of commits numbered from *)
(* 1; what the steps do elsewhere is the set of those that took effect.    *)
(***************************************************************************)
EXTENDS Naturals, Sequences

CONSTANTS
    MessageAfter,  \* FOLLOWTHROUGH_MESSAGE_AFTER_ATTEMPTS; attempts end there
    Failing,       \* the steps that may fail
    MaxMerges,     \* bound: merges of other tasks into the target
    MaxReopens,    \* bound: reopens of the task
    MaxCrashes     \* bound: deaths of the daemon

Steps == {"reparent", "fast-forward", "push-parent", "close-review",
          "accept-tag", "notify-parent", "parent-fidelity", "cleanup"}
Last == 8

ASSUME FollowThroughAssumption ==
    /\ MessageAfter \in Nat \ {0}
    /\ Failing \subseteq Steps
    /\ MaxMerges \in Nat /\ MaxReopens \in Nat /\ MaxCrashes \in Nat

(* Mutant of FollowThroughSteps: the tag is tried before the fast-forward. *)
TagFirst ==
    <<"reparent", "accept-tag", "fast-forward", "push-parent",
      "close-review", "notify-parent", "parent-fidelity", "cleanup">>

(* FOLLOWTHROUGH_STEPS, in their order. *)
FollowThroughSteps ==
    <<"reparent", "fast-forward", "push-parent", "close-review",
      "accept-tag", "notify-parent", "parent-fidelity", "cleanup">>

StepAt(k) == FollowThroughSteps[k]

(* Mutant of DependsOn: nothing waits for another step. *)
DependsOnNothing(s) == {}

(* Mutant of DependsOn: the clean-up waits for the push. *)
CleanupDependsOnPush(s) ==
    {d \in Steps : \/ s = "accept-tag" /\ d = "fast-forward"
                   \/ s \in {"close-review", "cleanup"} /\ d = "push-parent"}

(* FOLLOWTHROUGH_DEPENDS_ON *)
DependsOn(s) ==
    {d \in Steps : \/ s = "accept-tag" /\ d = "fast-forward"
                   \/ s = "close-review" /\ d = "push-parent"}

(* The merge: by the forge, or local (then its target may have to be       *)
(* pushed, and a PR closed).                                               *)
Merges == {m \in [viaForge : BOOLEAN, pushParent : BOOLEAN,
                  closeReview : BOOLEAN] :
             m.viaForge => ~m.pushParent /\ ~m.closeReview}

(* FOLLOWTHROUGH_APPLIES; the other two steps without work return at once. *)
Applies(s, m) == s = "close-review" => m.closeReview /\ ~m.viaForge
HasWork(s, m) ==
    /\ Applies(s, m)
    /\ s = "fast-forward" => m.viaForge
    /\ s = "push-parent" => m.pushParent

NoSha == 0
NoRecord == [none |-> TRUE]
Records == [merge : Merges, sha : Nat, done : SUBSET Steps,
            attempts : 0..MessageAfter, messaged : BOOLEAN]
NewRecord(m, sha) == [merge |-> m, sha |-> sha, done |-> {}, attempts |-> 0,
                      messaged |-> FALSE]

VARIABLES
    status,    \* stored: "merging" (the merge has landed), "complete", or
               \* "blocked" (reopened)
    session,   \* stored: "open" or "accepted"
    record,    \* stored: accept_followthrough
    pc,        \* memory: where the holder of the lifecycle lock is
    rec,       \* memory: the record of the run under way
    i,         \* memory: the step it is at
    failed,    \* memory: a step of it has failed
    sweep,     \* memory: where the sweep is
    after,     \* memory: the record the sweep read after its run
    merge,     \* the merge that landed, as the record describes it
    effects,   \* the steps that have taken effect since
    target,    \* the last commit of the target branch, where it was merged
    here,      \* the last commit of the local target branch
    own,       \* the commit of the task's merge
    tag,       \* the commit the accept tag names
    told,      \* a system message was filed since this merge landed
    overwritten, \* the sweep's note has put a stale copy over the record
               \* that the last accept wrote
    reopens, crashes

run    == <<pc, rec, i, failed>>
git    == <<merge, effects, target, here, own, tag>>
bounds == <<reopens, crashes>>
history == <<told, overwritten>>
vars   == <<status, session, record, run, sweep, after, git, history, bounds>>

TypeOK ==
    /\ status \in {"merging", "complete", "blocked"}
    /\ session \in {"open", "accepted"}
    /\ record \in Records \cup {NoRecord}
    /\ pc \in {"free", "record", "end", "complete", "step", "forwarded", "ran"}
    /\ rec \in Records \cup {NoRecord}
    /\ i \in 1..(Last + 1)
    /\ failed \in BOOLEAN
    /\ sweep \in {"idle", "listed", "running", "read", "file", "note"}
    /\ after \in Records \cup {NoRecord}
    /\ merge \in Merges
    /\ effects \in SUBSET Steps
    /\ target \in Nat /\ here \in Nat /\ own \in Nat /\ tag \in Nat
    /\ told \in BOOLEAN
    /\ overwritten \in BOOLEAN
    /\ reopens \in 0..MaxReopens
    /\ crashes \in 0..MaxCrashes

(* The accept's merge has just landed; nothing is recorded yet.            *)
Init ==
    /\ status = "merging"
    /\ session = "open"
    /\ record = NoRecord
    /\ pc = "record"
    /\ rec = NoRecord
    /\ i = 1
    /\ failed = FALSE
    /\ sweep = "idle"
    /\ after = NoRecord
    /\ merge \in Merges
    /\ effects = {}
    /\ target = 1
    /\ here = IF merge.viaForge THEN 0 ELSE 1
    /\ own = 1
    /\ tag = 0
    /\ told = FALSE
    /\ overwritten = FALSE
    /\ reopens = 0
    /\ crashes = 0

-----------------------------------------------------------------------------
(* commitAcceptTransition: the record, then "complete", then the first run.*)
Commit(r) ==
    /\ record' = r
    /\ rec' = r
    /\ merge' = r.merge
    /\ pc' = "end"

(* The accept that merged; the commit of a local merge is read beside it.  *)
RecordFollowThrough ==
    /\ pc = "record"
    /\ Commit(NewRecord(merge, IF merge.viaForge THEN NoSha ELSE here))
    /\ overwritten' = FALSE
    /\ UNCHANGED <<status, session, i, failed, sweep, after, effects,
                   target, here, own, tag, told, bounds>>

(* The record of an accept that died after its merge and before its        *)
(* session was accepted: the trees tell only that the work landed, and no  *)
(* push is owed when the target's protection cannot be read; or the resume *)
(* merges again, which reads the target now.                               *)
Rebuilt ==
    {NewRecord([merge EXCEPT !.pushParent = push], NoSha) :
        push \in {merge.pushParent, FALSE}}
    \cup {NewRecord(merge, IF merge.viaForge THEN NoSha ELSE here)}

(* finishInterruptedTransition; an accepted session has its record.        *)
FinishInterrupted ==
    /\ pc = "free" /\ status = "merging"
    /\ IF session = "accepted" /\ record # NoRecord
       THEN Commit(record) /\ UNCHANGED overwritten
       ELSE (\E r \in Rebuilt : Commit(r)) /\ overwritten' = FALSE
    /\ UNCHANGED <<status, session, i, failed, sweep, after, effects,
                   target, here, own, tag, told, bounds>>

EndSession ==
    /\ pc = "end"
    /\ session' = "accepted"
    /\ pc' = "complete"
    /\ UNCHANGED <<status, record, rec, i, failed, sweep, after, git,
                   history, bounds>>

BecomesComplete ==
    /\ pc = "complete"
    /\ status' = "complete"
    /\ i' = 1 /\ failed' = FALSE
    /\ pc' = "step"
    /\ UNCHANGED <<session, record, rec, sweep, after, git, history,
                   bounds>>

-----------------------------------------------------------------------------
(* runAcceptFollowThroughSteps, under the lifecycle lock: the accept's own *)
(* run or the sweep's.                                                     *)

AtStep == pc = "step" /\ i <= Last /\ StepAt(i) \notin rec.done

StepDoneBefore ==
    /\ pc = "step" /\ i <= Last /\ StepAt(i) \in rec.done
    /\ i' = i + 1
    /\ UNCHANGED <<status, session, record, pc, rec, failed, sweep, after,
                   git, history, bounds>>

(* Mutant of MarkDone: the next step is passed over. *)
MarkDoneSkipsNext ==
    /\ rec' = [rec EXCEPT !.done = @ \cup {StepAt(i)}]
    /\ record' = rec'
    /\ i' = i + 2
    /\ pc' = "step"

(* The step is marked in the record, and the record is persisted.          *)
MarkDone ==
    /\ rec' = [rec EXCEPT !.done = @ \cup {StepAt(i)}]
    /\ record' = rec'
    /\ i' = i + 1
    /\ pc' = "step"

(* Mutant of StepDoesNotApply: it counts as one that failed. *)
StepDoesNotApplyFails ==
    /\ AtStep
    /\ ~Applies(StepAt(i), rec.merge)
    /\ failed' = TRUE
    /\ i' = i + 1
    /\ UNCHANGED <<status, session, record, pc, rec, sweep, after, git,
                   history, bounds>>

StepDoesNotApply ==
    /\ AtStep
    /\ ~Applies(StepAt(i), rec.merge)
    /\ MarkDone
    /\ UNCHANGED <<status, session, failed, sweep, after, git, history,
                   bounds>>

Ready == AtStep /\ Applies(StepAt(i), rec.merge)
                /\ DependsOn(StepAt(i)) \subseteq rec.done

StepHeldBack ==
    /\ AtStep
    /\ Applies(StepAt(i), rec.merge)
    /\ ~(DependsOn(StepAt(i)) \subseteq rec.done)
    /\ i' = i + 1
    /\ UNCHANGED <<status, session, record, pc, rec, failed, sweep, after,
                   git, history, bounds>>

(* A step that took effect may still report a failure (its answer is lost).*)
StepFails ==
    /\ Ready
    /\ HasWork(StepAt(i), rec.merge)
    /\ StepAt(i) \in Failing \ {"fast-forward", "accept-tag"}
    /\ effects' \in {effects, effects \cup {StepAt(i)}}
    /\ failed' = TRUE
    /\ i' = i + 1
    /\ UNCHANGED <<status, session, record, pc, rec, sweep, after, merge,
                   target, here, own, tag, history, bounds>>

GitStepFails ==
    /\ Ready
    /\ HasWork(StepAt(i), rec.merge)
    /\ StepAt(i) \in Failing \cap {"fast-forward", "accept-tag"}
    /\ failed' = TRUE
    /\ i' = i + 1
    /\ UNCHANGED <<status, session, record, pc, rec, sweep, after, git,
                   history, bounds>>

StepWithoutWork ==
    /\ Ready
    /\ ~HasWork(StepAt(i), rec.merge)
    /\ MarkDone
    /\ UNCHANGED <<status, session, failed, sweep, after, git, history,
                   bounds>>

TakesEffect == effects' = effects \cup {StepAt(i)}

StepRuns ==
    /\ Ready
    /\ HasWork(StepAt(i), rec.merge)
    /\ StepAt(i) \notin {"fast-forward", "accept-tag"}
    /\ TakesEffect
    /\ pc' = "ran"
    /\ UNCHANGED <<status, session, record, rec, i, failed, sweep, after,
                   merge, target, here, own, tag, history, bounds>>

FastForward ==
    /\ Ready
    /\ StepAt(i) = "fast-forward" /\ HasWork(StepAt(i), rec.merge)
    /\ TakesEffect
    /\ here' = target
    /\ pc' = "forwarded"
    /\ UNCHANGED <<status, session, record, rec, i, failed, sweep, after,
                   merge, target, own, tag, history, bounds>>

(* The forge's merge is pinned for the tag, and persisted before it. *)
PinMerge ==
    /\ pc = "forwarded"
    /\ rec' = IF rec.sha = NoSha THEN [rec EXCEPT !.sha = here] ELSE rec
    /\ record' = IF rec.sha = NoSha THEN rec' ELSE record
    /\ pc' = "ran"
    /\ UNCHANGED <<status, session, i, failed, sweep, after, git, history,
                   bounds>>

(* Mutant of AcceptTag: the tag is made at the head of the target. *)
TagsHead ==
    /\ Ready
    /\ StepAt(i) = "accept-tag"
    /\ TakesEffect
    /\ tag' = here
    /\ pc' = "ran"
    /\ UNCHANGED <<status, session, record, rec, i, failed, sweep, after,
                   merge, target, here, own, history, bounds>>

AcceptTag ==
    /\ Ready
    /\ StepAt(i) = "accept-tag"
    /\ TakesEffect
    /\ tag' = IF rec.sha # NoSha THEN rec.sha ELSE here
    /\ pc' = "ran"
    /\ UNCHANGED <<status, session, record, rec, i, failed, sweep, after,
                   merge, target, here, own, history, bounds>>

StepRecorded ==
    /\ pc = "ran"
    /\ MarkDone
    /\ UNCHANGED <<status, session, failed, sweep, after, git, history,
                   bounds>>

(* The lock is given back; the sweep goes on to its message. *)
RunEnds ==
    /\ pc' = "free"
    /\ rec' = NoRecord
    /\ i' = 1
    /\ failed' = FALSE

(* Mutant of RunFailed: the failure is not counted. *)
RunFailedUncounted ==
    /\ pc = "step" /\ i > Last /\ failed
    /\ record' = rec
    /\ RunEnds
    /\ sweep' = IF sweep = "running" THEN "read" ELSE sweep
    /\ UNCHANGED <<status, session, after, git, history, bounds>>

RunFailed ==
    /\ pc = "step" /\ i > Last /\ failed
    /\ record' = [rec EXCEPT !.attempts = IF @ < MessageAfter THEN @ + 1 ELSE @]
    /\ RunEnds
    /\ sweep' = IF sweep = "running" THEN "read" ELSE sweep
    /\ UNCHANGED <<status, session, after, git, history, bounds>>

RunCleared ==
    /\ pc = "step" /\ i > Last /\ ~failed
    /\ record' = NoRecord
    /\ RunEnds
    /\ sweep' = IF sweep = "running" THEN "idle" ELSE sweep
    /\ UNCHANGED <<status, session, after, git, history, bounds>>

-----------------------------------------------------------------------------
(* sweepAcceptFollowThrough and retryFollowThrough, one of a task at a     *)
(* time.  The backoff is a delay of the listing.                           *)

SweepLists ==
    /\ sweep = "idle"
    /\ status = "complete" /\ record # NoRecord
    /\ sweep' = "listed"
    /\ UNCHANGED <<status, session, record, run, after, git, history,
                   bounds>>

(* tryWithTaskLifecycleLock; the record is read under it.  The clean-up of *)
(* a record that is gone is nothing.                                       *)
SweepRuns ==
    /\ sweep = "listed"
    /\ pc = "free" /\ record # NoRecord
    /\ rec' = record
    /\ pc' = "step" /\ i' = 1 /\ failed' = FALSE
    /\ sweep' = "running"
    /\ UNCHANGED <<status, session, record, after, git, history, bounds>>

SweepDoesNotRun ==
    /\ sweep = "listed"
    /\ pc # "free" \/ record = NoRecord
    /\ sweep' = "idle"
    /\ UNCHANGED <<status, session, record, run, after, git, history,
                   bounds>>

(* Outside the lock: the record is read again, the message filed when the  *)
(* failures persist, and that it was is noted in the record.               *)
SweepReads ==
    /\ sweep = "read"
    /\ IF record # NoRecord /\ record.attempts = MessageAfter
                            /\ ~record.messaged
       THEN sweep' = "file" /\ after' = record
       ELSE sweep' = "idle" /\ UNCHANGED after
    /\ UNCHANGED <<status, session, record, run, git, history, bounds>>

SweepFilesMessage ==
    /\ sweep = "file"
    /\ told' = TRUE
    /\ sweep' = "note"
    /\ UNCHANGED <<status, session, record, run, after, git, overwritten,
                   bounds>>

(* The copy is written back as it was read.  It is stale when the stored   *)
(* record is another by now, or when the task has been reopened and merged *)
(* again since the message.                                                *)
SweepNotesMessage ==
    /\ sweep = "note"
    /\ record' = [after EXCEPT !.messaged = TRUE]
    /\ overwritten' = (overwritten \/ record # after \/ ~told)
    /\ after' = NoRecord
    /\ sweep' = "idle"
    /\ UNCHANGED <<status, session, run, git, told, bounds>>

-----------------------------------------------------------------------------
(* The surroundings. *)

(* Another task is merged into the target; the local branch follows when   *)
(* the merge is local or its own fast-forward has run.                     *)
OtherMerge ==
    /\ target - 1 - reopens < MaxMerges
    /\ target' = target + 1
    /\ here' \in IF merge.viaForge THEN {here, target'} ELSE {target'}
    /\ UNCHANGED <<status, session, record, run, sweep, after, merge,
                   effects, own, tag, history, bounds>>

(* reopenTask, under the lifecycle lock: the task is on its branch again.  *)
ReopenTask ==
    /\ reopens < MaxReopens
    /\ pc = "free" /\ status = "complete"
    /\ session' = "open"
    /\ status' = "blocked"
    /\ effects' = {}
    /\ reopens' = reopens + 1
    /\ UNCHANGED <<record, run, sweep, after, merge, target, here, own,
                   tag, history, crashes>>

(* The reopened task is accepted again, and its merge lands. *)
MergesAgain ==
    /\ pc = "free" /\ status = "blocked"
    /\ status' = "merging"
    /\ merge' \in Merges
    /\ target' = target + 1 /\ own' = target + 1
    /\ here' = IF merge'.viaForge THEN here ELSE target + 1
    /\ effects' = {}
    /\ told' = FALSE
    /\ pc' = "record"
    /\ UNCHANGED <<session, record, rec, i, failed, sweep, after, tag,
                   overwritten, bounds>>

Crash ==
    /\ crashes < MaxCrashes
    /\ crashes' = crashes + 1
    /\ RunEnds
    /\ sweep' = "idle" /\ after' = NoRecord
    /\ UNCHANGED <<status, session, record, git, history, reopens>>

-----------------------------------------------------------------------------
RunStep ==
    \/ RecordFollowThrough \/ EndSession \/ BecomesComplete
    \/ StepDoneBefore \/ StepDoesNotApply \/ StepHeldBack
    \/ StepFails \/ GitStepFails \/ StepWithoutWork \/ StepRuns
    \/ FastForward \/ PinMerge \/ AcceptTag \/ StepRecorded
    \/ RunFailed \/ RunCleared

SweepStep ==
    \/ SweepLists \/ SweepRuns \/ SweepDoesNotRun
    \/ SweepReads \/ SweepFilesMessage \/ SweepNotesMessage

Next ==
    \/ RunStep \/ SweepStep \/ FinishInterrupted
    \/ OtherMerge \/ ReopenTask \/ MergesAgain \/ Crash

Spec == Init /\ [][Next]_vars

(* A run goes on, the resume of a dead accept comes, and the sweep keeps   *)
(* listing; the clean-up does not fail at every attempt.                   *)
Progress == WF_vars(RunStep) /\ WF_vars(SweepStep) /\ WF_vars(FinishInterrupted)
Cleans == StepRuns /\ StepAt(i) = "cleanup"
FairSpec == Spec /\ Progress /\ SF_vars(Cleans)

-----------------------------------------------------------------------------
(* Properties. *)

(* The record is dropped only when nothing is owed any more: however often *)
(* the daemon dies between a step and its mark, and although steps that    *)
(* wait for a failed one are passed over without an error of their own.    *)
(* (Here and below the exception is the note of a message: it writes the   *)
(* record as the sweep read it, outside the lifecycle lock, and may undo   *)
(* what a reopen and the next accept have written meanwhile.)              *)
ClearedMeansDone ==
    status = "complete" /\ record = NoRecord /\ ~overwritten =>
        \A s \in Steps : HasWork(s, merge) => s \in effects

(* "The only ordering a failure may block": the tag of a forge's merge is  *)
(* not made before the local target has it, and a PR is not closed while   *)
(* its base on the forge still lacks the work - unless the record that     *)
(* says what is done was overwritten.                                      *)
DependentsWait ==
    status = "complete" /\ ~overwritten =>
        /\ merge.viaForge /\ "accept-tag" \in effects
             => "fast-forward" \in effects
        /\ merge.pushParent /\ "close-review" \in effects
             => "push-parent" \in effects

(* A tag whose commit is on record stays where it is when the step runs    *)
(* again after a crash, whatever has been merged since, unless the record  *)
(* was overwritten.                                                        *)
TagStaysPinned ==
    [][status = "complete" /\ record # NoRecord /\ "accept-tag" \in effects
         => record.sha = NoSha \/ tag' = tag \/ overwritten]_vars

(* "cleanup must never wait on a parent push that keeps failing": an       *)
(* accepted task's container and tokens go although other steps fail       *)
(* forever.  An overwritten record may say that they are gone.             *)
CleanupReached ==
    status = "complete" ~>
        ("cleanup" \in effects \/ status # "complete" \/ overwritten)

(* "reported ... in a system message when it persists": a follow-through   *)
(* that keeps failing is told of.  An overwritten record may say that it   *)
(* has been, of an earlier merge.                                          *)
PersistentFailureTold ==
    status = "complete" ~>
        (told \/ record = NoRecord \/ status # "complete" \/ overwritten)

(* "retried with backoff until done": nothing stays owed when no step      *)
(* fails at every attempt.                                                 *)
Runs(s) == (StepRuns \/ FastForward \/ AcceptTag) /\ StepAt(i) = s
OwedGetsDone ==
    (\A s \in Failing : SF_vars(Runs(s))) =>
        (status = "complete" ~> (record = NoRecord \/ status # "complete"))

-----------------------------------------------------------------------------
(* What comments of the source say of the code, and the code does not do.  *)

(* stranded-merge.ts: "Retried with backoff until done": what a record     *)
(* owes is not forgotten.                                                  *)
ClearedAlwaysDone ==
    status = "complete" /\ record = NoRecord =>
        \A s \in Steps : HasWork(s, merge) => s \in effects

(* task-lifecycle.ts: "Run whatever post-accept follow-through a complete  *)
(* task still owes": the worktree and branch of a reopened task stay.      *)
CleansOnlyComplete == "cleanup" \in effects => status = "complete"

(* task-lifecycle.ts: "the tag must point at the merge itself, not at      *)
(* whatever the parent holds when a retried follow-through gets to it".    *)
TagNamesMerge ==
    status = "complete" /\ ~merge.viaForge /\ "accept-tag" \in effects =>
        tag = own
=============================================================================
