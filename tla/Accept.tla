------------------------------- MODULE Accept -------------------------------
(***************************************************************************)
(* Accepting a task: the orchestration of src/daemon/task-lifecycle.ts     *)
(* (acceptTask), its recovery in src/daemon/stranded-merge.ts, and the     *)
(* three that race it: a person's reject, the remote-sync pass, and        *)
(* storage's self-heal.                                                    *)
(*                                                                         *)
(* One task of one daemon.  Every write of the store is a step of its own, *)
(* so a crash falls between any two; the lifecycle lock and all locals die *)
(* with the daemon, the store and the branches do not.                     *)
(*                                                                         *)
(* A reason stands for the text of an [Accepted] comment: an accept call   *)
(* is its own reason.  Reads of one handler that no other write is awaited *)
(* between are one step.                                                   *)
(***************************************************************************)
EXTENDS Naturals, TaskStates

CONSTANTS
    Accepts,      \* the accept calls of people
    Resume,       \* the daemon's resume of a dead accept (one at a time)
    Sync,         \* the daemon's remote-sync pass
    Reject,       \* a person's reject
    Actors,       \* those of the above that take part
    None,         \* no status, no reason, no actor
    NoReason,     \* "original reason was not recorded"
    Forge,        \* a forge is configured (driver.needsSync)
    Protected,    \* the target branch is protected: the forge merges
    Gate,         \* [automation.pre_accept] has commands
    TreesAnswer,  \* acceptWorkLanded can always tell
    MayDropForge, \* the forge may be taken out of the configuration
    MaxResumes,   \* MAX_ACCEPT_RESUME_ATTEMPTS
    MaxTurns,     \* bound: turns run on the task
    MaxCrashes    \* bound: deaths of the daemon

ASSUME AcceptAssumption ==
    /\ Accepts \cap {Resume, Sync, Reject, None, NoReason} = {}
    /\ Resume # Sync /\ Resume # Reject /\ Sync # Reject
    /\ None \notin {Resume, Sync, Reject, NoReason}
    /\ None \notin Statuses
    /\ Actors \subseteq Accepts \cup {Resume, Sync, Reject}
    /\ Forge \in BOOLEAN /\ Protected \in BOOLEAN
    /\ Gate \in BOOLEAN /\ TreesAnswer \in BOOLEAN
    /\ MayDropForge \in BOOLEAN
    /\ MaxResumes \in Nat \ {0}
    /\ MaxTurns \in Nat /\ MaxCrashes \in Nat

VARIABLES
    status,      \* stored: the task's status
    marker,      \* stored: accept_in_flight, the status before the accept
    intent,      \* stored: accept_intent, the reason of the decision
    attempts,    \* stored: accept_resume_attempts
    owed,        \* stored: accept_followthrough is on the task
    comments,    \* stored: how often each reason is an [Accepted] comment
    session,     \* stored: "open", or the outcome it ended with
    violations,  \* stored: protected files still await a decision
    landed,      \* where the task's work has landed: "no", "local", "forge"
    pr,          \* the task's PR/MR on the forge
    forge,       \* configuration: a forge is configured
    lock,        \* memory: who holds the task's lifecycle lock
    pc,          \* where each actor is
    at,          \* the locals of each actor
    told,        \* a system message said that the resumes are exhausted
    blind,       \* history: a landed accept was escaped, the trees unreadable
    turns,
    crashes

meta    == <<marker, intent, attempts, owed>>
world   == <<violations, landed, pr, forge>>
history == <<told, blind, turns, crashes>>
vars    == <<status, meta, comments, session, world, lock, pc, at, history>>

Reasons == Accepts \cup {NoReason}

(* kind: a fresh accept, the resume of a dead one, or the re-entry of one   *)
(* that the forge has; found: the status it read; prior: the status an      *)
(* abort restores; write, dedupe: of the comment; attempt: of a resume;     *)
(* after: what follows clearMergeInFlight; why: the error of a resume.      *)
NoLocals == [kind |-> "none", found |-> None, prior |-> None,
             reason |-> NoReason, write |-> FALSE, dedupe |-> FALSE,
             attempt |-> 0, after |-> "none", why |-> "ok"]

Locals == [kind : {"none", "fresh", "resume", "reentry"},
           found : Statuses \cup {None}, prior : Statuses \cup {None},
           reason : Reasons, write : BOOLEAN, dedupe : BOOLEAN,
           attempt : Nat,
           after : {"none", "error", "comment", "follow", "act"},
           why : {"ok", "error", "already-accepted", "parent-active"}]

(* acceptTaskInner, in program order. *)
AcceptPlaces == {"early", "preflight", "gate", "gating", "begin", "intent",
                 "marker", "stamp", "merge", "merged", "abort", "handed",
                 "remote", "retry", "park"}
(* commitAcceptTransition, clearMergeInFlight and follow-through. *)
CommitPlaces == {"record", "comment", "end", "live", "complete", "clear",
                 "clearIntent", "clearAttempts", "follow"}
OtherPlaces == {"new", "done", "idle", "sweep", "bump", "wait", "failed",
                "recover", "claim", "escape", "escaping", "act", "abandon",
                "endRejected", "cleanup", "polled", "closing", "reread"}
Places == AcceptPlaces \cup CommitPlaces \cup OtherPlaces

OneShot == Accepts \cup {Reject}

TypeOK ==
    /\ status \in Statuses
    /\ marker \in Statuses \cup {None}
    /\ intent \in Reasons \cup {None}
    /\ attempts \in 0..MaxResumes
    /\ owed \in BOOLEAN
    /\ comments \in [Reasons -> Nat]
    /\ session \in {"open", "accepted", "rejected"}
    /\ violations \in BOOLEAN
    /\ landed \in {"no", "local", "forge"}
    /\ pr \in {"none", "open", "merged", "closed"}
    /\ forge \in BOOLEAN
    /\ lock \in Actors \cup {None}
    /\ pc \in [Actors -> Places]
    /\ at \in [Actors -> Locals]
    /\ told \in BOOLEAN
    /\ blind \in BOOLEAN
    /\ turns \in 0..MaxTurns
    /\ crashes \in 0..MaxCrashes

Start(p) == IF p \in OneShot THEN "new" ELSE "idle"

(* A task with work to accept.  "conflict" is "blocked" with violations;   *)
(* a submitted task has its PR.                                            *)
Init ==
    /\ violations \in BOOLEAN
    /\ pr \in IF Forge THEN {"none", "open"} ELSE {"none"}
    /\ status \in {IF violations THEN "conflict" ELSE "blocked"}
                  \cup (IF pr = "open" THEN {"submitted"} ELSE {})
    /\ marker = None
    /\ intent = None
    /\ attempts = 0
    /\ owed = FALSE
    /\ comments = [r \in Reasons |-> 0]
    /\ session = "open"
    /\ landed = "no"
    /\ forge = Forge
    /\ lock = None
    /\ pc = [p \in Actors |-> Start(p)]
    /\ at = [p \in Actors |-> NoLocals]
    /\ told = FALSE
    /\ blind = FALSE
    /\ turns = 0
    /\ crashes = 0

-----------------------------------------------------------------------------
(* The steps of a handler. *)

Marked == status = "merging" /\ marker # None

Goto(p, place) == pc' = [pc EXCEPT ![p] = place]

(* The handler returns ("ok") or throws; the lock it holds is released.    *)
Leave(p, why) ==
    /\ lock' = IF lock = p THEN None ELSE lock
    /\ pc' = [pc EXCEPT ![p] = IF p \in OneShot THEN "done"
                               ELSE IF p = Resume /\ why # "ok" THEN "failed"
                               ELSE "idle"]
    /\ at' = [at EXCEPT ![p] = IF p = Resume /\ why # "ok"
                               THEN [@ EXCEPT !.why = why]
                               ELSE NoLocals]

(* storage.updateTaskStatus: written when the table allows it, else thrown. *)
UpdateTaskStatus(p, to, place) ==
    \/ /\ CanTransition(status, to)
       /\ status' = to
       /\ Goto(p, place)
       /\ UNCHANGED <<lock, at>>
    \/ /\ ~CanTransition(status, to)
       /\ Leave(p, "error")
       /\ UNCHANGED status

(* pausedStatusFor, and strandedMergeRestingStatus of a recorded status.   *)
PausedStatus == IF violations THEN "conflict" ELSE "blocked"
RestingStatus(recorded) ==
    IF violations THEN "conflict"
    ELSE IF recorded = "submitted" THEN "submitted" ELSE "blocked"

(* What acceptWorkLanded may answer: never a landing that did not happen,  *)
(* and null ("cannot tell") whenever git fails.                            *)
WorkLanded == {l \in BOOLEAN : /\ l => landed # "no"
                               /\ TreesAnswer => (l = (landed # "no"))}

-----------------------------------------------------------------------------
(* acceptTask: the lock, then what a previous accept left behind. *)

(* withTaskLifecycleLock.  Waiting calls are served in turn; here any of   *)
(* them may be next, since a call reaches the queue at any moment.         *)
EnterAccept(p) ==
    /\ pc[p] = IF p = Resume THEN "wait" ELSE "new"
    /\ lock = None
    /\ lock' = p
    /\ at' = IF p = Resume THEN at ELSE [at EXCEPT ![p].reason = p]
    /\ Goto(p, "early")
    /\ UNCHANGED <<status, meta, comments, session, world, history>>

(* The locals with which commitAcceptTransition runs. *)
Committing(p, reason, write, dedupe) ==
    at' = [at EXCEPT ![p].reason = reason, ![p].write = write,
                     ![p].dedupe = dedupe, ![p].after = "follow"]

(* Mutant of FinishInterruptedTransition: the trees are not asked. *)
FinishesAnyMarked(p) ==
    /\ pc[p] = "early"
    /\ Marked
    /\ Committing(p, IF intent = None THEN NoReason ELSE intent, TRUE, TRUE)
    /\ Goto(p, "record")
    /\ UNCHANGED <<status, meta, comments, session, world, lock, history>>

(* Mutant of FinishInterruptedTransition: the comment is taken as written. *)
FinishesSilently(p) ==
    /\ pc[p] = "early"
    /\ Marked
    /\ session = "accepted" \/ TRUE \in WorkLanded
    /\ Committing(p, IF intent = None THEN NoReason ELSE intent, FALSE, TRUE)
    /\ Goto(p, "record")
    /\ UNCHANGED <<status, meta, comments, session, world, lock, history>>

(* Step 0: a marked task whose session is accepted, or whose work the      *)
(* trees show on the target, is finished without a merge                   *)
(* (finishInterruptedTransition).                                          *)
FinishInterruptedTransition(p) ==
    /\ pc[p] = "early"
    /\ Marked
    /\ session = "accepted" \/ TRUE \in WorkLanded
    /\ Committing(p, IF intent = None THEN NoReason ELSE intent, TRUE, TRUE)
    /\ Goto(p, "record")
    /\ UNCHANGED <<status, meta, comments, session, world, lock, history>>

NothingToFinish(p) ==
    /\ pc[p] = "early"
    /\ Marked => session # "accepted" /\ FALSE \in WorkLanded
    /\ Goto(p, "preflight")
    /\ UNCHANGED <<status, meta, comments, session, world, lock, at, history>>

Acceptable == session = "open" /\ status \in BlockedStatuses \cup {"merging"}

(* acceptTaskPreflight refuses: an ended session, a status that cannot be  *)
(* accepted, or one of the gates (dirty worktree, busy parent, policy).    *)
PreflightRefuses(p) ==
    /\ pc[p] = "preflight"
    /\ \/ session = "accepted" /\ Leave(p, "already-accepted")
       \/ session # "accepted" /\ Leave(p, "error")
       \/ Acceptable /\ Leave(p, "parent-active")
    /\ UNCHANGED <<status, meta, comments, session, world, history>>

Kind == IF status # "merging" THEN "fresh"
        ELSE IF marker # None THEN "resume" ELSE "reentry"

(* The kind of accept, the status an abort restores (the marker's when     *)
(* there is one) and the reason: a resume keeps the persisted decision's.  *)
PreflightPasses(p) ==
    /\ pc[p] = "preflight"
    /\ Acceptable
    /\ at' = [at EXCEPT
         ![p].kind   = Kind,
         ![p].found  = status,
         ![p].prior  = IF marker # None THEN marker ELSE status,
         ![p].reason = IF Kind = "resume" /\ intent # None THEN intent ELSE @]
    /\ Goto(p, CASE Kind = "reentry" -> "remote"
                 [] Kind = "resume"  -> "begin"
                 [] Kind = "fresh"   -> IF Gate THEN "gate" ELSE "begin")
    /\ UNCHANGED <<status, meta, comments, session, world, lock, history>>

(* runInAcceptGateContainer: "working" while the commands run, the prior   *)
(* status on every exit, then the verdict.                                 *)
GateStarts(p) ==
    /\ pc[p] = "gate"
    /\ UpdateTaskStatus(p, "working", "gating")
    /\ UNCHANGED <<meta, comments, session, world, history>>

GatePasses(p) ==
    /\ pc[p] = "gating"
    /\ UpdateTaskStatus(p, at[p].prior, "begin")
    /\ UNCHANGED <<meta, comments, session, world, history>>

GateRefuses(p) ==
    /\ pc[p] = "gating"
    /\ CanTransition(status, at[p].prior)
    /\ status' = at[p].prior
    /\ Leave(p, "error")
    /\ UNCHANGED <<meta, comments, session, world, history>>

-----------------------------------------------------------------------------
(* beginMergePhase: budget, decision, marker, status - in this order.      *)

MergesOnForge == forge /\ Protected

(* A protected target's accept opens the PR first when there is none.      *)
OpenReview == pr' = IF MergesOnForge /\ pr = "none" THEN "open" ELSE pr

(* The review's base, the branch's protection or a gate of the forge then  *)
(* refuses, the task untouched.                                            *)
PremergeRefuses(p) ==
    /\ pc[p] = "begin"
    /\ OpenReview
    /\ Leave(p, "error")
    /\ UNCHANGED <<status, meta, comments, session, violations, landed,
                   forge, history>>

BeginMergePhase(p) ==
    /\ pc[p] = "begin"
    /\ attempts' = IF at[p].kind = "fresh" THEN 0 ELSE attempts
    /\ OpenReview
    /\ Goto(p, "intent")
    /\ UNCHANGED <<status, marker, intent, owed, comments, session,
                   violations, landed, forge, lock, at, history>>

PersistIntent(p) ==
    /\ pc[p] = "intent"
    /\ intent' = at[p].reason
    /\ Goto(p, "marker")
    /\ UNCHANGED <<status, marker, attempts, owed, comments, session, world,
                   lock, at, history>>

(* Mutant of PersistMarker: the status is stamped before the marker. *)
PersistMarkerLate(p) ==
    /\ pc[p] = "marker"
    /\ status' = IF CanTransition(status, "merging") THEN "merging" ELSE status
    /\ marker' = IF status = "merging" THEN at[p].prior ELSE marker
    /\ Goto(p, IF status = "merging" THEN "stamp" ELSE "marker")
    /\ UNCHANGED <<intent, attempts, owed, comments, session, world, lock,
                   at, history>>

PersistMarker(p) ==
    /\ pc[p] = "marker"
    /\ marker' = at[p].prior
    /\ Goto(p, "stamp")
    /\ UNCHANGED <<status, intent, attempts, owed, comments, session, world,
                   lock, at, history>>

StampMerging(p) ==
    /\ pc[p] = "stamp"
    /\ \/ /\ status \in {"complete", "merging"}
          /\ Goto(p, "merge")
          /\ UNCHANGED <<status, lock, at>>
       \/ /\ status \notin {"complete", "merging"}
          /\ UpdateTaskStatus(p, "merging", "merge")
    /\ UNCHANGED <<meta, comments, session, world, history>>

-----------------------------------------------------------------------------
(* The merge itself (driver.merge): local squash or the forge's.  A resume *)
(* answers "already landed"; any other local merge of landed work produces *)
(* no commit and fails.  onForge: the driver that merges is a forge's.     *)

Land(p, onForge) ==
    IF onForge
    THEN /\ landed' = IF landed = "no" THEN "forge" ELSE landed
         /\ pr' = "merged"
    ELSE /\ at[p].kind = "resume" \/ landed # "local"
         /\ landed' = IF landed = "no" THEN "local" ELSE landed
         /\ UNCHANGED pr

MergeLands(p) ==
    /\ pc[p] = "merge"
    /\ Land(p, MergesOnForge)
    /\ Goto(p, "merged")
    /\ UNCHANGED <<status, meta, comments, session, violations, forge, lock,
                   at, history>>

(* The forge keeps the merge for later (a resume asks the trees first):    *)
(* our marker goes, the task stays "merging".                              *)
MergePends(p) ==
    /\ pc[p] = "merge"
    /\ MergesOnForge
    /\ at[p].kind = "resume" => FALSE \in WorkLanded
    /\ pr' = "open"
    /\ at' = [at EXCEPT ![p].after = "comment"]
    /\ Goto(p, "clear")
    /\ UNCHANGED <<status, meta, comments, session, violations, landed,
                   forge, lock, history>>

(* Mutant of MergeFails: a resume restores the prior status too. *)
MergeFailsRestoring(p) ==
    /\ pc[p] = "merge"
    /\ Goto(p, "abort")
    /\ UNCHANGED <<status, meta, comments, session, world, lock, at, history>>

(* Nothing landed in this run.  A resume leaves the task marked.           *)
MergeFails(p) ==
    /\ pc[p] = "merge"
    /\ \/ at[p].kind = "resume" /\ Leave(p, "error")
       \/ at[p].kind = "fresh" /\ Goto(p, "abort") /\ UNCHANGED <<lock, at>>
    /\ UNCHANGED <<status, meta, comments, session, world, history>>

(* abortMergePhase: the prior status, then clearMergeInFlight; a refused   *)
(* write is only logged.                                                   *)
AbortMergePhase(p) ==
    /\ pc[p] = "abort"
    /\ \/ /\ CanTransition(status, at[p].prior)
          /\ status' = at[p].prior
          /\ at' = [at EXCEPT ![p].after = "error"]
          /\ Goto(p, "clear")
          /\ UNCHANGED lock
       \/ /\ ~CanTransition(status, at[p].prior)
          /\ Leave(p, "error")
          /\ UNCHANGED status
    /\ UNCHANGED <<meta, comments, session, world, history>>

(* The merge's metadata is saved; when that write fails the task stays     *)
(* marked for the sweep.                                                   *)
MetadataSaved(p) ==
    /\ pc[p] = "merged"
    /\ Committing(p, at[p].reason, TRUE, at[p].kind = "resume")
    /\ Goto(p, "record")
    /\ UNCHANGED <<status, meta, comments, session, world, lock, history>>

MetadataLost(p) ==
    /\ pc[p] = "merged"
    /\ Leave(p, "error")
    /\ UNCHANGED <<status, meta, comments, session, world, history>>

-----------------------------------------------------------------------------
(* clearMergeInFlight: marker first.                                       *)

(* Mutant of ClearMarker: the decision is cleared before the marker. *)
ClearDecisionFirst(p) ==
    /\ pc[p] = "clear"
    /\ intent' = None
    /\ marker' = IF intent = None THEN None ELSE marker
    /\ Goto(p, IF intent = None THEN "clearIntent" ELSE "clear")
    /\ UNCHANGED <<status, attempts, owed, comments, session, world, lock,
                   at, history>>

ClearMarker(p) ==
    /\ pc[p] = "clear"
    /\ marker' = None
    /\ Goto(p, "clearIntent")
    /\ UNCHANGED <<status, intent, attempts, owed, comments, session, world,
                   lock, at, history>>

ClearIntent(p) ==
    /\ pc[p] = "clearIntent"
    /\ intent' = None
    /\ Goto(p, "clearAttempts")
    /\ UNCHANGED <<status, marker, attempts, owed, comments, session, world,
                   lock, at, history>>

(* The last write, and what follows it: the [Accepted] comment of a merge  *)
(* handed to the forge, the error of an aborted one, the follow-through,   *)
(* or the operation that escaped a stranded merge.                         *)
ClearAttempts(p) ==
    /\ pc[p] = "clearAttempts"
    /\ attempts' = 0
    /\ CASE at[p].after = "comment" ->
              Goto(p, "handed") /\ UNCHANGED <<lock, at>>
         [] at[p].after = "follow"  ->
              Goto(p, "follow") /\ UNCHANGED <<lock, at>>
         [] at[p].after = "error"   -> Leave(p, "error")
         [] at[p].after = "act" /\ p = Reject ->
              /\ lock' = None
              /\ at' = [at EXCEPT ![p].found = status]
              /\ Goto(p, "act")
         [] OTHER -> Leave(p, "ok")
    /\ UNCHANGED <<status, marker, intent, owed, comments, session, world,
                   history>>

CommentHandedOver(p) ==
    /\ pc[p] = "handed"
    /\ comments' = [comments EXCEPT ![at[p].reason] = @ + 1]
    /\ Leave(p, "ok")
    /\ UNCHANGED <<status, meta, session, world, history>>

-----------------------------------------------------------------------------
(* commitAcceptTransition: record, comment, session, status, marker.       *)

RecordFollowThrough(p) ==
    /\ pc[p] = "record"
    /\ owed' = TRUE
    /\ Goto(p, "comment")
    /\ UNCHANGED <<status, marker, intent, attempts, comments, session,
                   world, lock, at, history>>

Written(p) == at[p].dedupe /\ comments[at[p].reason] > 0

(* Mutant of CommentAccepted: a resume does not look for the comment. *)
CommentAgain(p) ==
    /\ pc[p] = "comment"
    /\ comments' = IF at[p].write
                   THEN [comments EXCEPT ![at[p].reason] = @ + 1]
                   ELSE comments
    /\ Goto(p, "end")
    /\ UNCHANGED <<status, meta, session, world, lock, at, history>>

CommentAccepted(p) ==
    /\ pc[p] = "comment"
    /\ comments' = IF at[p].write /\ ~Written(p)
                   THEN [comments EXCEPT ![at[p].reason] = @ + 1]
                   ELSE comments
    /\ Goto(p, "end")
    /\ UNCHANGED <<status, meta, session, world, lock, at, history>>

EndSession(p) ==
    /\ pc[p] = "end"
    /\ session' = IF session = "open" THEN "accepted" ELSE session
    /\ Goto(p, "live")
    /\ UNCHANGED <<status, meta, comments, world, lock, at, history>>

(* The status is read again: remote-sync or self-heal may have written it. *)
ReadLive(p) ==
    /\ pc[p] = "live"
    /\ \/ /\ status = "complete"
          /\ Goto(p, "clear")
          /\ UNCHANGED <<status, lock, at>>
       \/ /\ status # "complete"
          /\ UpdateTaskStatus(p, "merging", "complete")
    /\ UNCHANGED <<meta, comments, session, world, history>>

Complete(p) ==
    /\ pc[p] = "complete"
    /\ UpdateTaskStatus(p, "complete", "clear")
    /\ UNCHANGED <<meta, comments, session, world, history>>

(* runAcceptFollowThrough, as one step: done, or still owed to the sweep.  *)
(* A marker left on a complete task is cleared.                            *)
FollowThrough ==
    /\ owed' \in {owed, FALSE}
    /\ IF status = "complete" /\ marker # None
       THEN marker' = None /\ intent' = None /\ attempts' = 0
       ELSE UNCHANGED <<marker, intent, attempts>>

RunFollowThrough(p) ==
    /\ pc[p] = "follow"
    /\ FollowThrough
    /\ Leave(p, "ok")
    /\ UNCHANGED <<status, comments, session, world, history>>

(* Sweep 9b: owed on a complete task, the lifecycle lock free.             *)
SweepAcceptFollowThrough ==
    /\ status = "complete" /\ owed
    /\ lock = None
    /\ FollowThrough
    /\ UNCHANGED <<status, comments, session, world, lock, pc, at, history>>

-----------------------------------------------------------------------------
(* Re-entry: a "merging" task that the forge has.                          *)

(* Mutant of ReentryMerged: any PR that left the queue counts as merged. *)
ReentryNotOpen(p) ==
    /\ pc[p] = "remote"
    /\ forge /\ pr # "open"
    /\ Committing(p, at[p].reason, FALSE, FALSE)
    /\ Goto(p, "record")
    /\ UNCHANGED <<status, meta, comments, session, world, lock, history>>

(* The PR is merged. *)
ReentryMerged(p) ==
    /\ pc[p] = "remote"
    /\ forge /\ pr = "merged"
    /\ Committing(p, at[p].reason, FALSE, FALSE)
    /\ Goto(p, "record")
    /\ UNCHANGED <<status, meta, comments, session, world, lock, history>>

(* Closed, or merged into another base than the task's: refused.  Open     *)
(* with pending checks: still with the forge.                              *)
ReentryWaits(p) ==
    /\ pc[p] = "remote"
    /\ forge
    /\ \/ Leave(p, "error")
       \/ pr \notin {"merged", "closed"} /\ Leave(p, "ok")
    /\ UNCHANGED <<status, meta, comments, session, world, history>>

ReentryChecksFailed(p) ==
    /\ pc[p] = "remote"
    /\ forge /\ pr \notin {"merged", "closed"}
    /\ Goto(p, "park")
    /\ UNCHANGED <<status, meta, comments, session, world, lock, at, history>>

(* Without a forge the driver knows no PR and no checks: it merges.        *)
ReentryRetries(p) ==
    /\ pc[p] = "remote"
    /\ forge => pr \notin {"merged", "closed"}
    /\ Goto(p, "retry")
    /\ UNCHANGED <<status, meta, comments, session, world, lock, at, history>>

RetryLands(p) ==
    /\ pc[p] = "retry"
    /\ Land(p, forge)
    /\ Committing(p, at[p].reason, FALSE, FALSE)
    /\ Goto(p, "record")
    /\ UNCHANGED <<status, meta, comments, session, violations, forge, lock,
                   history>>

RetryDoesNotLand(p) ==
    /\ pc[p] = "retry"
    /\ \E why \in {"ok", "error"} : Leave(p, why)
    /\ UNCHANGED <<status, meta, comments, session, world, history>>

(* parkTaskPaused, then the end of the handler that parked. *)
ParkTaskPaused(p) ==
    /\ pc[p] = "park"
    /\ status' = IF CanTransition(status, PausedStatus) THEN PausedStatus
                 ELSE status
    /\ Leave(p, "error")
    /\ UNCHANGED <<meta, comments, session, world, history>>

-----------------------------------------------------------------------------
(* sweepStrandedMerging and resumeDeadAccept (Resume).                     *)

(* The pass lists the merging tasks and works on that snapshot. *)
SweepLists ==
    /\ pc[Resume] = "idle"
    /\ status = "merging"
    /\ at' = [at EXCEPT ![Resume] =
         [NoLocals EXCEPT !.prior = marker, !.attempt = attempts,
                          !.reason = IF intent = None THEN NoReason ELSE intent]]
    /\ Goto(Resume, "sweep")
    /\ UNCHANGED <<status, meta, comments, session, world, lock, history>>

(* Mutant of SweepResumes: one attempt too many. *)
SweepResumesOnceMore ==
    /\ pc[Resume] = "sweep"
    /\ lock = None
    /\ at[Resume].prior # None
    /\ at[Resume].attempt <= MaxResumes
    /\ Goto(Resume, "bump")
    /\ UNCHANGED <<status, meta, comments, session, world, lock, at, history>>

(* Mutant of SweepResumes: an ended session is left alone. *)
SweepResumesOpen ==
    /\ pc[Resume] = "sweep"
    /\ lock = None
    /\ at[Resume].prior # None
    /\ session = "open"
    /\ at[Resume].attempt < MaxResumes
    /\ Goto(Resume, "bump")
    /\ UNCHANGED <<status, meta, comments, session, world, lock, at, history>>

(* A marked task is resumed unless a live accept owns it or its resumes    *)
(* are spent; an unmarked one is recovered when no forge can finish it.    *)
(* The backoff time is a delay of this step.                               *)
SweepResumes ==
    /\ pc[Resume] = "sweep"
    /\ lock = None
    /\ at[Resume].prior # None
    /\ at[Resume].attempt < MaxResumes
    /\ Goto(Resume, "bump")
    /\ UNCHANGED <<status, meta, comments, session, world, lock, at, history>>

(* Mutant of SweepRecovers: a task that has a PR is left to the forge. *)
SweepRecoversWithoutPR ==
    /\ pc[Resume] = "sweep"
    /\ lock = None
    /\ at[Resume].prior = None
    /\ ~forge /\ pr = "none"
    /\ Goto(Resume, "recover")
    /\ UNCHANGED <<status, meta, comments, session, world, lock, at, history>>

SweepRecovers ==
    /\ pc[Resume] = "sweep"
    /\ lock = None
    /\ at[Resume].prior = None
    /\ ~forge
    /\ Goto(Resume, "recover")
    /\ UNCHANGED <<status, meta, comments, session, world, lock, at, history>>

SweepSkips ==
    /\ pc[Resume] = "sweep"
    /\ \/ lock # None
       \/ at[Resume].prior # None /\ at[Resume].attempt >= MaxResumes
       \/ at[Resume].prior = None /\ forge
    /\ Leave(Resume, "ok")
    /\ UNCHANGED <<status, meta, comments, session, world, history>>

(* The attempt is counted before it is made. *)
CountAttempt ==
    /\ pc[Resume] = "bump"
    /\ attempts' = at[Resume].attempt + 1
    /\ at' = [at EXCEPT ![Resume].attempt = @ + 1]
    /\ Goto(Resume, "wait")
    /\ UNCHANGED <<status, marker, intent, owed, comments, session, world,
                   lock, history>>

(* The resume threw.  Finished elsewhere: nothing.  A busy parent: the     *)
(* attempt is given back.  Otherwise the last attempt is reported.         *)
ResumeFailed ==
    /\ pc[Resume] = "failed"
    /\ IF ~Marked \/ at[Resume].why = "already-accepted"
       THEN UNCHANGED <<attempts, told>>
       ELSE IF at[Resume].why = "parent-active"
       THEN attempts' = at[Resume].attempt - 1 /\ UNCHANGED told
       ELSE /\ told' = (told \/ at[Resume].attempt >= MaxResumes)
            /\ UNCHANGED attempts
    /\ Leave(Resume, "ok")
    /\ UNCHANGED <<status, marker, intent, owed, comments, session, world,
                   blind, turns, crashes>>

(* recoverStrandedMerge: the resting status of the marker that was read,   *)
(* then every key of the accept (ClearMarker onward).                      *)
RecoverStrandedMerge(p) ==
    /\ pc[p] = "recover"
    /\ \/ /\ CanTransition(status, RestingStatus(at[p].prior))
          /\ status' = RestingStatus(at[p].prior)
          /\ at' = [at EXCEPT ![p].after = "act"]
          /\ Goto(p, "clear")
          /\ UNCHANGED lock
       \/ /\ ~CanTransition(status, RestingStatus(at[p].prior))
          /\ IF p = Resume THEN Leave(p, "ok") ELSE Leave(p, "error")
          /\ UNCHANGED status
    /\ UNCHANGED <<meta, comments, session, world, history>>

-----------------------------------------------------------------------------
(* rejectTask (Reject): it waits for the lifecycle lock once, to claim the *)
(* worktree, and takes it again only to escape a merging task.  The task   *)
(* it acts on is the one it read before the wait.                          *)

RejectReads ==
    /\ pc[Reject] = "new"
    /\ session = "open"
    /\ status \notin TerminalStatuses \cup {"pairing"}
    /\ at' = [at EXCEPT ![Reject].found = status]
    /\ Goto(Reject, "claim")
    /\ UNCHANGED <<status, meta, comments, session, world, lock, history>>

(* beginWorktreeTeardown: waits for the lifecycle lock and gives it back.  *)
RejectClaimsWorktree ==
    /\ pc[Reject] = "claim"
    /\ lock = None
    /\ Goto(Reject, IF at[Reject].found = "merging" THEN "escape" ELSE "act")
    /\ UNCHANGED <<status, meta, comments, session, world, lock, at, history>>

(* tryWithTaskLifecycleLock: a live accept refuses the reject. *)
EscapeMerging ==
    /\ pc[Reject] = "escape"
    /\ \/ lock # None /\ Leave(Reject, "error")
       \/ lock = None /\ lock' = Reject /\ Goto(Reject, "escaping")
          /\ UNCHANGED at
    /\ UNCHANGED <<status, meta, comments, session, world, history>>

(* Read again under the lock: no longer merging; an accept still being     *)
(* resumed; work that has landed; or a stranded merge to recover.          *)
EscapeUnneeded ==
    /\ pc[Reject] = "escaping"
    /\ status # "merging"
    /\ lock' = None
    /\ at' = [at EXCEPT ![Reject].found = status]
    /\ Goto(Reject, "act")
    /\ UNCHANGED <<status, meta, comments, session, world, history>>

EscapeRefused ==
    /\ pc[Reject] = "escaping"
    /\ Marked
    /\ attempts < MaxResumes \/ TRUE \in WorkLanded
    /\ Leave(Reject, "error")
    /\ UNCHANGED <<status, meta, comments, session, world, history>>

(* Mutant of EscapeRecovers: the escape does not wait for the resumes. *)
EscapeRecoversAtOnce ==
    /\ pc[Reject] = "escaping"
    /\ status = "merging"
    /\ at' = [at EXCEPT ![Reject].prior = marker]
    /\ Goto(Reject, "recover")
    /\ UNCHANGED <<status, meta, comments, session, world, lock, history>>

EscapeRecovers ==
    /\ pc[Reject] = "escaping"
    /\ status = "merging"
    /\ marker # None => attempts >= MaxResumes /\ FALSE \in WorkLanded
    /\ blind' = (blind \/ (marker # None /\ landed # "no"))
    /\ at' = [at EXCEPT ![Reject].prior = marker]
    /\ Goto(Reject, "recover")
    /\ UNCHANGED <<status, meta, comments, session, world, lock, told, turns,
                   crashes>>

(* The dirty-worktree refusals; a working task's runner is stopped first.  *)
RejectRefused ==
    /\ pc[Reject] = "act"
    /\ Leave(Reject, "error")
    /\ UNCHANGED <<status, meta, comments, session, world, history>>

RejectActs ==
    /\ pc[Reject] = "act"
    /\ IF at[Reject].found = "working"
       THEN UpdateTaskStatus(Reject, "interrupted", "abandon")
       ELSE Goto(Reject, "abandon") /\ UNCHANGED <<status, lock, at>>
    /\ UNCHANGED <<meta, comments, session, world, history>>

RejectAbandons ==
    /\ pc[Reject] = "abandon"
    /\ UpdateTaskStatus(Reject, "abandoned", "endRejected")
    /\ UNCHANGED <<meta, comments, session, world, history>>

RejectEndsSession ==
    /\ pc[Reject] = "endRejected"
    /\ session' = "rejected"
    /\ Goto(Reject, "cleanup")
    /\ UNCHANGED <<status, meta, comments, world, lock, at, history>>

(* driver.cleanup: an open PR is closed; a failure is only logged. *)
RejectClosesReview ==
    /\ pc[Reject] = "cleanup"
    /\ pr' \in {pr, IF forge /\ pr = "open" THEN "closed" ELSE pr}
    /\ Leave(Reject, "ok")
    /\ UNCHANGED <<status, meta, comments, session, violations, landed,
                   forge, history>>

-----------------------------------------------------------------------------
(* detectExternalChanges (Sync): the listed status is a snapshot, the PR's *)
(* state is asked after it.                                                *)

SyncLists ==
    /\ pc[Sync] = "idle"
    /\ forge /\ pr # "none"
    /\ status \notin TerminalStatuses \cup {"pairing", "backlog"}
    /\ at' = [at EXCEPT ![Sync].found = status]
    /\ Goto(Sync, "polled")
    /\ UNCHANGED <<status, meta, comments, session, world, lock, history>>

(* Mutant of SyncSeesMerged: the lifecycle lock is looked at, not taken. *)
SyncSeesMergedUnlocked ==
    /\ pc[Sync] = "polled"
    /\ pr = "merged"
    /\ \/ lock # None /\ Leave(Sync, "ok")
       \/ lock = None /\ Goto(Sync, "reread") /\ UNCHANGED <<lock, at>>
    /\ UNCHANGED <<status, meta, comments, session, world, history>>

(* Merged: completeMergedOnForge, when the lifecycle lock is free.         *)
SyncSeesMerged ==
    /\ pc[Sync] = "polled"
    /\ pr = "merged"
    /\ \/ lock # None /\ Leave(Sync, "ok")
       \/ lock = None /\ lock' = Sync /\ Goto(Sync, "reread") /\ UNCHANGED at
    /\ UNCHANGED <<status, meta, comments, session, world, history>>

CompleteMergedOnForge ==
    /\ pc[Sync] = "reread"
    /\ \/ /\ status \in TerminalStatuses
          /\ Leave(Sync, "ok")
       \/ /\ status \notin TerminalStatuses
          /\ Committing(Sync, IF marker # None /\ intent # None THEN intent
                              ELSE NoReason, marker # None, TRUE)
          /\ Goto(Sync, "record")
          /\ UNCHANGED lock
    /\ UNCHANGED <<status, meta, comments, session, world, history>>

(* Closed while merging, or open with failed checks while merging: parked. *)
(* Closed otherwise: abandoned.                                            *)
SyncSeesClosed ==
    /\ pc[Sync] = "polled"
    /\ pr = "closed"
    /\ Goto(Sync, IF at[Sync].found = "merging" THEN "park" ELSE "closing")
    /\ UNCHANGED <<status, meta, comments, session, world, lock, at, history>>

SyncSeesOpen ==
    /\ pc[Sync] = "polled"
    /\ pr = "open"
    /\ \/ Leave(Sync, "ok")
       \/ /\ at[Sync].found = "merging"
          /\ Goto(Sync, "park")
          /\ UNCHANGED <<lock, at>>
    /\ UNCHANGED <<status, meta, comments, session, world, history>>

SyncAbandons ==
    /\ pc[Sync] = "closing"
    /\ status' = IF CanTransition(status, "abandoned") THEN "abandoned"
                 ELSE status
    /\ Leave(Sync, "ok")
    /\ UNCHANGED <<meta, comments, session, world, history>>

-----------------------------------------------------------------------------
(* The surroundings. *)

(* listTasksWithOptions heals a task whose session ended under it.         *)
SelfHeal ==
    /\ status \notin TerminalStatuses \cup {"working"}
    /\ session # "open"
    /\ marker = None
    /\ status' = IF session = "accepted" THEN "complete" ELSE "abandoned"
    /\ UNCHANGED <<meta, comments, session, world, lock, pc, at, history>>

(* reconcileTask: a working task whose own run is not alive is interrupted, *)
(* or parked when its work was found finished.  The gate's run has another  *)
(* name, and the worktree lock it holds is invisible to its own process.    *)
ReconcileWorking ==
    /\ status = "working"
    /\ status' \in {"interrupted", PausedStatus}
    /\ UNCHANGED <<meta, comments, session, world, lock, pc, at, history>>

(* A turn (also the automatic resume of an interrupted one), seen from the  *)
(* accept: claimed under the lifecycle lock, it ends in the paused status   *)
(* of the violations it left.                                               *)
Turn ==
    /\ turns < MaxTurns
    /\ lock = None
    /\ session = "open"
    /\ status \in BlockedStatuses \cup {"interrupted"}
    /\ violations' \in BOOLEAN
    /\ status' = IF violations' THEN "conflict" ELSE "blocked"
    /\ turns' = turns + 1
    /\ UNCHANGED <<meta, comments, session, landed, pr, forge, lock, pc, at,
                   told, blind, crashes>>

(* submitTask: a blocked or conflict task gets its PR. *)
Submit ==
    /\ forge
    /\ session = "open"
    /\ status \in {"blocked", "conflict"}
    /\ pr # "merged"
    /\ status' = "submitted"
    /\ pr' = "open"
    /\ UNCHANGED <<meta, comments, session, violations, landed, forge, lock,
                   pc, at, history>>

(* The forge merges an open PR, or somebody closes it there. *)
ForgeMerges ==
    /\ pr = "open"
    /\ pr' = "merged"
    /\ landed' = IF landed = "no" THEN "forge" ELSE landed
    /\ UNCHANGED <<status, meta, comments, session, violations, forge, lock,
                   pc, at, history>>

ForgeCloses ==
    /\ pr = "open"
    /\ pr' = "closed"
    /\ UNCHANGED <<status, meta, comments, session, violations, landed,
                   forge, lock, pc, at, history>>

(* [remote] driver is set back to local. *)
DropForge ==
    /\ MayDropForge
    /\ forge
    /\ forge' = FALSE
    /\ UNCHANGED <<status, meta, comments, session, violations, landed, pr,
                   lock, pc, at, history>>

(* The daemon dies: the lock, the locals and every call are gone. *)
Crash ==
    /\ crashes < MaxCrashes
    /\ crashes' = crashes + 1
    /\ lock' = None
    /\ pc' = [p \in Actors |->
                IF p \notin OneShot THEN "idle"
                ELSE IF pc[p] = "new" THEN "new" ELSE "done"]
    /\ at' = [p \in Actors |-> NoLocals]
    /\ UNCHANGED <<status, meta, comments, session, world, told, blind, turns>>

-----------------------------------------------------------------------------
AcceptStep(p) ==
    \/ FinishInterruptedTransition(p) \/ NothingToFinish(p)
    \/ PreflightRefuses(p) \/ PreflightPasses(p)
    \/ GateStarts(p) \/ GatePasses(p) \/ GateRefuses(p)
    \/ PremergeRefuses(p) \/ BeginMergePhase(p) \/ PersistIntent(p)
    \/ PersistMarker(p) \/ StampMerging(p)
    \/ MergeLands(p) \/ MergePends(p) \/ MergeFails(p)
    \/ AbortMergePhase(p) \/ MetadataSaved(p) \/ MetadataLost(p)
    \/ CommentHandedOver(p)
    \/ ReentryMerged(p) \/ ReentryWaits(p) \/ ReentryChecksFailed(p)
    \/ ReentryRetries(p) \/ RetryLands(p) \/ RetryDoesNotLand(p)

ClearStep(p) == ClearMarker(p) \/ ClearIntent(p) \/ ClearAttempts(p)

CommitStep(p) ==
    \/ RecordFollowThrough(p) \/ CommentAccepted(p) \/ EndSession(p)
    \/ ReadLive(p) \/ Complete(p) \/ RunFollowThrough(p)

SweepStep ==
    \/ SweepLists \/ SweepResumes \/ SweepRecovers \/ SweepSkips
    \/ CountAttempt \/ ResumeFailed \/ RecoverStrandedMerge(Resume)

RejectStep ==
    \/ RejectReads \/ RejectClaimsWorktree \/ EscapeMerging
    \/ EscapeUnneeded \/ EscapeRefused \/ EscapeRecovers
    \/ RecoverStrandedMerge(Reject) \/ ClearStep(Reject) \/ RejectRefused
    \/ RejectActs \/ RejectAbandons \/ RejectEndsSession
    \/ RejectClosesReview

SyncStep ==
    \/ SyncLists \/ SyncSeesMerged \/ CompleteMergedOnForge
    \/ SyncSeesClosed \/ SyncSeesOpen \/ SyncAbandons

(* A step of a handler that is under way. *)
ActorStep(p) ==
    \/ /\ p \in Accepts \cup {Resume}
       /\ EnterAccept(p) \/ AcceptStep(p)
    \/ /\ p # Reject
       /\ ClearStep(p) \/ CommitStep(p) \/ ParkTaskPaused(p)
    \/ p = Resume /\ SweepStep
    \/ p = Sync /\ SyncStep
    \/ p = Reject /\ RejectStep

Surroundings ==
    \/ SweepAcceptFollowThrough \/ SelfHeal \/ ReconcileWorking
    \/ Turn \/ Submit
    \/ ForgeMerges \/ ForgeCloses \/ DropForge \/ Crash

Next == (\E p \in Actors : ActorStep(p)) \/ Surroundings

Spec == Init /\ [][Next]_vars

(* A handler that is under way goes on, the sweep, remote-sync and the     *)
(* listings that heal keep running, and a parent task is not busy at every *)
(* one of the daemon's attempts.                                           *)
Fairness ==
    /\ \A p \in Actors : WF_vars(pc[p] # "new" /\ ActorStep(p))
    /\ SF_vars(PreflightPasses(Resume))
    /\ WF_vars(SelfHeal)

FairSpec == Spec /\ Fairness

-----------------------------------------------------------------------------
(* Properties. *)

(* A complete task has its work on the target, whoever completed it: the   *)
(* accept, a resume, remote-sync or the self-heal of listTasksWithOptions. *)
CompleteMeansLanded == status = "complete" => landed # "no"

(* "nothing after the merge may restore": from the moment a local merge    *)
(* lands, the task is complete, or marked "merging" with the decision on   *)
(* disk, so that any crash leaves an accept the sweep can finish.  (The    *)
(* exception is an escape after the resumes while git cannot tell.)        *)
LandedIsFinishable ==
    landed = "local" /\ ~blind =>
        \/ status = "complete"
        \/ Marked /\ intent # None

(* Without a forge no "merging" task lacks its marker: an unmarked one     *)
(* reads as a merge the forge has, and no sweep would resume it.           *)
LocalMergingIsMarked == ~Forge => (status = "merging" => marker # None)

(* The marker never outlives the decision it belongs to on a merging task: *)
(* a resume always has the person's reason.                                *)
MarkedHasIntent == Marked => intent # None

(* rejectTask writes without the lifecycle lock, on a task it read before  *)
(* it waited, and still a rejected task's work is not merged: the table    *)
(* has no edge from "merging" to "abandoned", and preflight refuses what   *)
(* is abandoned.                                                           *)
RejectStands == session = "rejected" => landed = "no" \/ blind

(* Without a forge, however often the accept is killed between its writes, *)
(* resumed, or followed by another person's, one decision is one           *)
(* [Accepted] comment.  (With a forge it may be two: what the pending path *)
(* writes when it hands the merge over, CommentHandedOver, is written      *)
(* without a look, and a resume that waited for the lock meanwhile, once   *)
(* remote-sync has parked the task, accepts it afresh for the same reason.)*)
ReasonRecordedOnce == ~Forge => \A r \in Reasons : comments[r] <= 1

(* A task completed by an accept carries the reason of a person.           *)
AcceptedHasReason ==
    status = "complete" /\ landed = "local" =>
        \E a \in Accepts : comments[a] > 0

(* What acceptTask and rejectTask promise together, whatever interleaving   *)
(* or crash: one final verdict, given only where the work agrees with it    *)
(* (AcceptOutcome).  They promise no verdict after a blind escape.          *)
Outcome == INSTANCE AcceptOutcome WITH
    verdict <- IF blind THEN "open" ELSE session,
    landed  <- landed # "no"
ImplementsOutcome == Outcome!Spec

(* "racing it doubled the [Accepted] comment and ran follow-through twice  *)
(* at once": an accept, the resume and remote-sync never commit together.  *)
Committed == {"record", "comment", "end", "live", "complete", "follow"}
OneCommitter ==
    \A p, q \in Actors : pc[p] \in Committed /\ pc[q] \in Committed => p = q

(* An accepted session brings the task to "complete" although the accept   *)
(* may die before any of its writes and the forge may be taken away:       *)
(* through the resume or the self-heal.  It says so of a daemon without    *)
(* remote-sync, which could park the task between the merge and "complete":*)
(* then it may stay "blocked" with its marker, where no sweep looks.       *)
AcceptedCompletes ==
    session = "accepted" ~> (status = "complete" \/ attempts = MaxResumes)

(* Without a forge to wait for, "merging" is transient: whatever killed    *)
(* its accept, and even if the forge it was handed to is no longer         *)
(* configured, the sweep finishes or recovers the task, or has spent       *)
(* MAX_ACCEPT_RESUME_ATTEMPTS on it (and the escape is open).              *)
Stranded == status = "merging" /\ (marker # None \/ ~forge)
StrandedSettles == Stranded ~> (~Stranded \/ attempts = MaxResumes)

-----------------------------------------------------------------------------
(* What comments of the source say of the code, and the code does not do.  *)

(* stranded-merge.ts: "never restore over landed work": once nobody works  *)
(* on it, a task whose merge has landed is "merging" or "complete".        *)
LandedNotRestored ==
    landed = "local" /\ lock = None /\ ~blind =>
        status \in {"merging", "complete"}

(* stranded-merge.ts: after the last failed resume the daemon "files a     *)
(* system message".                                                        *)
ExhaustedIsTold ==
    Marked /\ attempts = MaxResumes /\ pc[Resume] = "idle" => told

(* stranded-merge.ts: "a merging task whose lifecycle lock is NOT held" is  *)
(* "exactly a merge whose owner is gone": the daemon never merges a task    *)
(* whose own accept has ended and restored it.                              *)
ResumesOnlyTheDead ==
    pc[Resume] \in {"begin", "merge"} => at[Resume].kind = "resume"

(* task-lifecycle.ts: "The reconciler also never touches a working task     *)
(* whose worktree is locked - the gate holds the lock for its whole         *)
(* duration".                                                               *)
GateUndisturbed ==
    \A p \in Actors : pc[p] = "gating" => status = "working"

(* task-lifecycle.ts: "put the task back exactly as we found it".          *)
AbortRestoresFound ==
    [][\A p \in Actors : pc[p] = "abort" /\ pc'[p] = "clear"
                           => status' = at[p].found]_vars

(* task-lifecycle.ts: "The pending path already wrote [Accepted] when it   *)
(* handed the merge to the forge".                                         *)
HandedOverHasReason ==
    status = "merging" /\ marker = None /\ lock = None =>
        \E a \in Accepts : comments[a] > 0
=============================================================================
