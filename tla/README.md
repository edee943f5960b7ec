# Specifications of lazy

lazy runs coding agents on tasks.  A daemon per project keeps the tasks in a
file store, launches agents' turns in containers, and merges a task's branch
into its target when a person accepts it.  These modules specify the parts
where a mistake loses work, records it twice or leaves it waiting for ever:
keyed launches, the acceptance of a task with everything that recovers or races
it, the lock of the store and the restore of a backup under it, the event feed
that keeps other programs' copies of the store fresh, and the relaunch of
interrupted tasks.

All source paths below are relative to `src/src/` of the repository.

## Inventory

| component | state | operations | what is hard | what makes it correct |
|---|---|---|---|---|
| launch idempotency (`daemon/launch-idempotency.ts`) | records of a task (stored), in-flight map and promise chain (memory) | `withLaunchIdempotency`, `settle` | retries during, after and across a crash of the launch; the bound on records; a status read long before it is used | one flight per key, one answer per key, no second turn, every call answered |
| task state machine (`task-state-machine.ts`) | a task's status | `assertValidTransition` | every writer goes through one table, so an edge meant for one operation serves another | no path of the table undoes a verdict |
| accept (`daemon/task-lifecycle.ts`, `daemon/accept-intent.ts`) | status, in-flight marker, intent, attempts, comments, session, branches | `acceptTask`, `commitAcceptTransition`, `abortMergePhase`, the acceptance gate | a dozen store writes around one irreversible merge; a crash between any two | landed work is never lost, restored or reported unlanded |
| stranded-merge recovery (`daemon/stranded-merge.ts`) | the same, after a crash | sweep, resume, recover, escape | telling a dead owner from a live one, and landed work from unlanded | only the dead are resumed; nothing stays stranded; the person is told when resumes run out |
| follow-through (`runAcceptFollowThrough`, Sweep 9b) | the `accept_followthrough` record | eight ordered steps, retries, one message | a step that took effect but was not marked; dependents of failed steps; stale copies of the record | what is owed is done or stays on record |
| reject / close | status, session, worktree claim | `rejectTask` | writes without the lifecycle lock | a verdict stands |
| remote sync (`daemon/remote-sync.ts`) | snapshots of tasks and of PRs | `detectExternalChanges`, `completeMergedOnForge` | acts on listings; merges happen on the forge at any time | one committer, no completion of unlanded work |
| storage lock (`utils/storage-lock.ts`, `utils/process-identity.ts`) | the lock file, the holders in this process | `acquire`, `tryAcquire`, `release` | several processes, recycled pids, namespaces, a judgement that awaits | one process at a time; the file names it |
| store restore (`storage/store-backup.ts`) | the store's entries, directories beside it, the marker | `restoreStoreBackup` | it dies between two renames and is run again | a mixed store is marked, what was replaced is named, nobody opens it meanwhile |
| task files (`storage/file-storage.ts`) | task directories, indexes | atomic writes, listings that self-heal | a crash between renames | readers see complete files |
| lifecycle lock (`daemon/task-lifecycle-lock.ts`, `utils/task-mutex.ts`) | a queue per task | lock, try, test | tests that are stale when used | one operation of a task at a time |
| reconciler, in-flight turns (`utils/reconcile.ts`, `daemon/in-flight-turn.ts`) | claims with deadlines, protocol files | settle, interrupt, park | a synchronous waiter and the loop settle the same turn | a turn is settled once |
| auto-resume (`utils/reconcile.ts`, `utils/auto-resume.ts`, `daemon/auto-resume-queue.ts`) | interruptions, slow-lane attempts, one stamp per project | fast lane, slow lane, launch, stop | launches and stops run beside the tick that decided on them; one stamp for two lanes | relaunches are spaced, nobody starves, a stop stands |
| other launches and queues (`daemon/auto-deliver.ts`, `daemon/usage-pause.ts`, `daemon/queued-asks.ts`) | held and queued launches, budgets | start, deliver, hold, replay | replay of what already ran | each request runs once, in the end |
| task sync (`daemon/sync-retry.ts`, `syncTask`) | pending counters, backoff | sync, retry | conflicts left half-way by a crash | a pending sync is done or reported |
| supervisor and protocol (`supervisor/`, `protocol/`) | single-slot files | run a turn, closing chain, watchdog | two processes share files without addressing | an answer goes to its command |
| daemon process (`daemon/lifecycle.ts`, `daemon/registry.ts`) | pid files, ports | start, take over, stop | two daemons of one project | one daemon |
| event feed (`daemon/event-feed.ts`, `daemon/event-tap.ts`) | bounded ring, streams, subscribers | tap, publish, replay, gap, heartbeat | a subscriber behind the ring or its queue, or of an earlier run; overlapping writes | a gap is announced; a copy that follows the events follows the store |
| waits (`daemon/wait-registry.ts`) | promises of calls | wait, resolve | - | - |
| drivers, runners, git (`remote/`, `runner/`, `git/`) | none of their own | calls to forges, containers, git | they fail, or succeed and say nothing | taken from here: what a call may answer |
| proxy, MCP, CLI, server, builder, doctor, upgrade, import, search, docs | user-facing state, tokens | requests | mostly I/O | not modelled |

The components interact through the store (statuses, metadata, sessions,
comments), through the in-memory lifecycle lock, and by direct calls: the
sweep calls `acceptTask` as a person would; remote-sync calls
`commitAcceptTransition`; `commitAcceptTransition` leaves the record that
`runAcceptFollowThrough` and Sweep 9b work off.  A restore holds the store's
lock and leaves its marker for the lock's next owner; the event tap stands
before twelve methods of the store, which publish what they write, while the
other methods, and what a listing repairs of its own accord, write under the
tap with no event; one reconcile tick sweeps the tasks and then serves the slow
lane.

`PROJECT.json` lists each component with its status, and each hazard at its
line with the properties that would catch it.

## Modules

    LaunchIdempotency <- MCLaunchIdempotency
                      <- LaunchIdempotencyProofs
    TaskStates <- Accept <- MCAccept
                         <- AcceptProofs <- AcceptLocalProofs
    AcceptOutcome <..... Accept   (INSTANCE, refinement)
    FollowThrough <- FollowThroughProofs
    StorageLock <- MCStorageLock
                <- StorageLockProofs <--+
                <- StoreRestore <- StoreRestoreProofs
                                <- MCStoreRestore
    EventFeed <- MCEventFeed
              <- StoreFeed <- MCStoreFeed
                           <- EventFeedProofs
    AutoResume <- AutoResumeProofs

`<-` is EXTENDS; `StoreRestoreProofs` extends `StoreRestore` and
`StorageLockProofs`.  FollowThrough and AutoResume are checked without an MC
module.

### LaunchIdempotency

One task; `Calls` are requests, a retry is another call with the same key.
`records` is the stored map, `inFlight` and `lock` are the daemon's memory.
A call walks through `withLaunchIdempotency` by `pc`: `EnterLock`, one of the
`Decide...` actions (mismatch, join, unknown outcome, replay, run), the claim
(`ReadStatusBefore`, `WriteClaim`), the launch (`LaunchRefused`,
`LaunchWritesTurn`, `LaunchFails`, `LaunchSucceeds`), the count
(`CountTurnsAfter`) and the settle (`SettleDone`, `SettleFailed`,
`SettleLost`).  `TurnEnds` and `OtherTurn` are the rest of the daemon on the
same task; `Crash` loses the memory.  The fingerprint of a request is a
constant function, the payload of an answer is the call that produced it.

### TaskStates, Accept

`TaskStates` is the table of `task-state-machine.ts`.  In `Accept` every write of the store is an action,
so that a crash can fall between any two.  The actors are the accept calls
(`Accepts`), the daemon's `Resume`, the remote-sync pass `Sync` and a person's
`Reject`; `pc[p]` is the place of actor p and `at[p]` its locals.

| source | actions |
|---|---|
| lock, interrupted transition | `EnterAccept`, `FinishInterruptedTransition`, `NothingToFinish` |
| preflight, acceptance gate | `PreflightRefuses`, `PreflightPasses`, `GateStarts`, `GatePasses`, `GateRefuses` |
| merge phase | `PremergeRefuses`, `BeginMergePhase`, `PersistIntent`, `PersistMarker`, `StampMerging`, `MergeLands`, `MergePends`, `MergeFails`, `AbortMergePhase`, `MetadataSaved`, `MetadataLost`, `CommentHandedOver` |
| commit | `RecordFollowThrough`, `CommentAccepted`, `EndSession`, `ReadLive`, `Complete`, `ClearMarker`, `ClearIntent`, `ClearAttempts`, `RunFollowThrough` |
| re-entry of a merge the forge has | `ReentryMerged`, `ReentryWaits`, `ReentryChecksFailed`, `ReentryRetries`, `RetryLands`, `RetryDoesNotLand`, `ParkTaskPaused` |
| sweep and resume | `SweepLists`, `SweepResumes`, `SweepRecovers`, `SweepSkips`, `CountAttempt`, `ResumeFailed`, `RecoverStrandedMerge`, `SweepAcceptFollowThrough` |
| reject and escape | `RejectReads`, `RejectClaimsWorktree`, `EscapeMerging`, `EscapeUnneeded`, `EscapeRefused`, `EscapeRecovers`, `RejectRefused`, `RejectActs`, `RejectAbandons`, `RejectEndsSession`, `RejectClosesReview` |
| remote-sync | `SyncLists`, `SyncSeesMerged`, `CompleteMergedOnForge`, `SyncSeesClosed`, `SyncSeesOpen`, `SyncAbandons` |
| storage, reconciler, turns, the forge | `SelfHeal`, `ReconcileWorking`, `Turn`, `Submit`, `ForgeMerges`, `ForgeCloses`, `DropForge`, `Crash` |

Abstractions: the preflight's policy gates are one nondeterministic refusal;
`landed` says where the task's work is, and `WorkLanded` what git may answer
about it (never a landing that did not happen; with `TreesAnswer = FALSE` also
"cannot tell" for one that did); a reason is the accept call it came from;
follow-through is one step here and a module of its own below; a turn is one
step.  `blind` remembers the one documented exception: an escape after all
resumes were spent while git could not tell that the work had landed.

### AcceptOutcome

What accept and reject promise together, in three actions: the work lands
once and only while no verdict is given; "accepted" is said of landed work,
"rejected" of work that has not landed; a verdict is final.
`Outcome!Spec`, with the session as verdict and `landed # "no"` as landing, is
checked as `ImplementsOutcome`; after a blind escape the verdict is mapped to
"open", since nothing is promised of it then.

### FollowThrough

The stored `record` against what has really taken effect (`effects`), for the
accept's own run, for the sweep's run and for the sweep's copy `after` that it
writes back outside the lock.  The target branch is a line of numbered
commits: `own` is the task's merge, `here` the local head, `tag` what the
accept tag names.  `ReopenTask` and `MergesAgain` start over with an old
record, run or sweep still about.  A failing store write inside a run is not
separate from a crash.  The backoff is the delay of `SweepLists`.

Two history variables.  `told` says that the sweep has filed its message since
this merge landed.  `overwritten` says that the sweep's note of such a message
wrote its copy `after` over a stored record that was another one by then, or
over that of a merge of which nothing had been told: nothing in the code keeps a
reopen and a whole accept out of the time between the sweep's re-read and its
note (`stranded-merge.ts:576-590`).  The model always allows it; the properties
say nothing of the record from then until an accept writes a fresh one.

### StorageLock

An owner is a `StorageLock` instance with the caller at the head of its queue;
processes stand for pids, and a restarted process has the same pid and another
`life`, as a recycled pid has.  The system calls of `tryAcquire` are steps of
their own: `Create`, `Write`, `ClaimOwn`, `JudgeHolder`, `Compare`, `Unlink`,
`Recreate`; around them are `Attempt`, `GiveUp`, `Reenter`, `Register` (the
acquire takes effect), `LetGo` and `Release`, and `Crash` and `Restart`.  What a
process does between two awaits is one step towards the other callers of that
process (`Unawaited`), not towards other processes.  `NamespaceVerdicts` and
`MayReadAlive` are what `judgeHolderNamespace` and `judgeHolder` may answer.

`slips` is a history variable, set by the step in which the file that a holder,
or a caller about to hold, relies on is lost, and never where that is found out.
It names the step:

| slip | step | source |
|---|---|---|
| unlinked another | `Unlink` removes a file that was reclaimed after the comparison | `storage-lock.ts:838-839` |
| renamed over another | `ClaimOwn` renames its content over the file of another process | 802-817 |
| claim not written | `ClaimOwn` fails over a leftover of an earlier life under a recycled pid, or over one that is gone, and the caller goes on | 805-812 |
| removed another | `LetGo` removes a file that is no longer of its process | 559 |
| sibling let go | `LetGo` removes a file that an instance of the same process has found its own and not registered for | 559, 785 |
| judged abroad | `Unlink` removes the file of a live process of another namespace | `judgeHolderNamespace` |

The code narrows these windows (the comparison before `unlinkSync`) without
closing them; `OverlapNeedsSlip` and `FileNamesHolder` say that nothing else goes
wrong, and `MCStorageLockReclaim`, `MCStorageLockSibling`, `MCStorageLockRefresh`
and `MCStoreRestoreGuest` show what four of the named ones cost.  `AfterSlips = FALSE` stops the
owners after the first slip; the proofs do not depend on it.

### StoreRestore

`restoreStoreBackup` with the lock it runs under: `Acquire`, `BeginRestore` (the
marker), `StageFails`, `BeginSwap`, one rename at a time (`MoveAside`,
`BringIn`), `SwapFails`, `RemoveMarker`, `LetGoOfStore`.  `aside[k]` is the
directory the k-th restore moved entries to, `MarkerOf` the chain of such
directories a repeated restore keeps.  The openers write entries
(`WriteEntry`); `expect` is what they were told is in the store.  The copy that
is staged is taken to be verified.  The mode that stops the writers of a
running daemon first, and the taking of backups, are left out.

### EventFeed, StoreFeed

The ring is an interval of numbers (`oldest`, `latest`), `frames[c]` what a
stream has enqueued and its client has not read.  `Connect` is the route with
`start()`: the open frame, the replay, and the registration after it;
`Enqueue` closes a stream whose queue is past `MAX_QUEUED_FRAMES`.
`Publish`, `Health`, `Heartbeat`, `Disconnect`, `CloseAll` and `Restart` are the
functions of the feed; the client is another program, modelled by what the
feed's header demands of it.  Histories: `owed[c]` are the events a client has
not received since it last read everything, `stale[c]` says that a cursor of an
earlier run was accepted.

`StoreFeed` puts the tap before it, which overrides twelve methods.  A status
write is four steps (`ReadBefore`, `WriteStatus`, `ReadAfter`, and `EmitStatus` or
`HideStatus`), the other methods two (`WriteNote`, `EmitNote`), so that calls
overlap; the client keeps a copy and reads again what an event names.  Each step
may fail: `StatusThrows` and `NoteThrows` are calls that throw, before or after
their write took effect, `ReadAfterFails` is the second read of a status write,
whose failure is only logged.  `HealStatus` is a write under the tap, the repair
of a status by a listing (`file-storage.ts:1616-1647`); the methods that the tap
does not override are of the same kind.  The history `hidden[c]` names the parts
that changed with no event, until the part is reported or the client reads it
again.

### AutoResume

Per task: the status, its run, the interruptions in a row, the stop flag, and
the slow lane's state.  The tick visits each task in any order (`SweepSettles`,
`SweepInterrupts`, `SweepOffers`, `SweepPasses`), dispatches a fast resume
(`Dispatch`, which dates the project's stamp first), then rests or serves one
task of the slow lane (`SlowRests`, `SlowPicks`, `RecordAttempt`,
`StampAttempt`).  A stamp that cannot be written is logged and the launch goes on
(`StampFails`, in `Dispatch` and `StampAttempt`); `RecordAttemptFails` is
`recordSlowLaneAttempt` throwing at any of its writes, which ends the tick before
the stamp; `LoseStamp` is a file that is lost or unreadable.  The budget of
auto-react counts successful relaunches only, so it is no bound on dispatches: a
refusal of it is the choice in `SweepPasses`.  `autoResumeTask` is `LaunchRefused`, `LaunchMarks`,
`LaunchStarts`, `LaunchFails`; a stop is `StopAsked`, `StopFlags`, `StopHalts`,
`StopParks`.  `PickUp` is a person's or an agent's unblock, `Hold` and `Lift` a
usage pause or a missing image, `Restart` the interruption of what the last
daemon left.  Times are ages, counted in units and saturated where the code only
compares.  Of the instants of the last slow-lane attempts only their order
matters to the queue's sort, so `tried` is that order, as a relation of the
tasks that were tried.  Histories: `quiet` is the time since a relaunch last
began, `undated` says that the stamp does not tell of it.  Sources of several functions are folded: an answered turn and a
stranded completion settle alike; every retried error interrupts alike.

## Runs

Every bound is a constant of the cfg.  `MaxTurns`, `MaxCrashes`, `MaxMerges`,
`MaxReopens`, `MaxDepth`, `MaxLives`, `MaxWrites`, `MaxRestores`, `MaxSeq`,
`MaxGen`, `MaxDrops`, `MaxNotes`, `MaxEnds` and `MaxEvents` bound the
model; `MaxRecords`, `MaxResumes`, `MessageAfter`, `MaxAttempts`,
`RingCapacity`, `MaxQueued`, `Breaker`, `Gap` and `Interval` are limits of the
code made small so that they are reached.

| run | what it asks | bounds and why they are enough |
|---|---|---|
| `launch_retry` | `TypeOK`, `OneFlightPerKey`, `TwoTurnsOnlyAfterBusyClaim`, `AnswersAgree`, `EveryCallAnswered` (liveness) | one key, three calls (original, retry, other parameters), two turns, one crash: a second flight, a second turn or a second answer needs two calls; two may join one flight |
| `launch_limit` | `FinalCallsRunOnce`, `DoneIsFinal` | two keys, room for one record: the bound is reached at the second claim |
| `accept_local` | `TypeOK`, `LandedIsFinishable`, `LocalMergingIsMarked`, `RejectStands`, `ReasonRecordedOnce`, `AcceptedHasReason`, `ImplementsOutcome` (refinement) | a local target, of which `ReasonRecordedOnce` and `RejectStands` speak; two accepts, resume, reject, two crashes (one to strand, one to kill the resume), two resumes, one turn |
| `accept_forge` | `CompleteMeansLanded`, `MarkedHasIntent`, `OneCommitter` | a protected target: accept, resume, sync and reject with one crash; the forge merges and closes on its own |
| `accept_live` | `AcceptedCompletes`, `StrandedSettles` (liveness) | the gate on, two accepts, one crash, a forge that may be dropped after it was handed the merge, git that cannot always tell; no remote-sync, with which `AcceptedCompletes` is false |
| `followthrough` | `TypeOK`, `ClearedMeansDone`, `DependentsWait`, `TagStaysPinned`, and `CleanupReached`, `PersistentFailureTold`, `OwedGetsDone` (liveness) | the fast-forward and the push may fail, once or for ever; two failed runs and the sweep files its message, whose note may overwrite the record of the next accept; a crash, another merge, a reopen with the next accept |
| `storage_lock` | `TypeOK`, `OverlapNeedsSlip`, `FileNamesHolder` | two instances of one process and another process, one restart of each, two attempts: sibling holders, a leftover file, a reclaim and a recycled pid all occur |
| `store_restore` | `RestoreTypeOK`, `MixedIsMarked`, `ReplacedIsNamed`, `SwapExcludesOpeners` | an opener and a restore, one restart of each, two restores, one entry that the backup has and one that it has not |
| `event_feed` | `FeedTypeOK`, `NothingSkipped`, `EventuallyTold` (liveness) | a ring of three and no slack in the queue: a replay of two is cut short, five events evict the one after the first; two restarts, two broken connections; clients do not affect one another but for the limit on subscribers |
| `store_feed` | `CopyFollowsStore` | two overlapping calls that may fail at each step, a repair under the tap, two statuses, a ring of one, one restart; in a ring of one every second event is announced as a gap |
| `auto_resume` | `TypeOK`, `GapKept` (action property), `QueuedIsRetried` (liveness) | two tasks, a breaker of two, two attempts, a gap and an interval of one unit, stamps and records that may fail at every attempt, one event among stop, pick-up, hold, restart and lost stamp |
| `auto_resume_stop` | `StopStands`, violated | one stop |

Deadlock is checked in the launch, lock, feed and auto-resume runs (`AllServed`
is the deliberate end of the launches).  The Accept, FollowThrough and
StoreRestore runs switch it off: a task that is complete or rejected, with
every call ended and nothing owed, rightly has no next step, and neither has a
store whose restores and restarts are spent.

`TypeOK` of Accept bounds `attempts` by `MaxResumes`, which is not a type but
the promise that the daemon stops after that many resumes although it counts
from a snapshot; `TypeOK` of FollowThrough bounds the step index by the list;
`TypeOK` of StorageLock bounds the attempts of an acquire, `RestoreTypeOK` what
a marker may name, `FeedTypeOK` the frames a dead client makes the daemon keep,
and `TypeOK` of AutoResume the attempts and the order of the slow lane.

## Fairness

- `LaunchIdempotency!FairSpec`: weak fairness of the steps of a call that has
  entered: the event loop runs every ready continuation, and a launch ends one
  way or the other (launches have timeouts).  Nothing obliges a client to
  call, a turn to end, or the daemon to stay up.
- `Accept!FairSpec`: weak fairness of each handler that is under way and of the
  sweep and sync loops (they run on timers), weak fairness of the listing's
  self-heal (every listing does it), and strong fairness of the resume's
  preflight passing, that is, the parent task is not busy at every one of the
  daemon's attempts.  A busy parent gives the attempt back
  (`parent-active`), so without this a resume could wait for ever, which the
  code accepts.  New accepts and rejects, forge events and crashes are not fair.
- `FollowThrough!FairSpec`: weak fairness of the run, of the sweep and of the
  resume of a dead accept, and strong fairness of the clean-up's success, so
  that a clean-up that may fail does not fail at every attempt (in the listed
  run it does not fail at all).  The sweep is a timer; a step that really fails for
  ever is what `PersistentFailureTold` is about, and only `OwedGetsDone`
  assumes, in the property itself, that no step does.
- `EventFeed!FairFeedSpec`: weak fairness of a client that connects, reads and
  notices the end of its stream; nothing obliges the daemon to publish.
- `AutoResume!FairSpec`: weak fairness of the tick (a timer), of the clock, and
  of a launch and a stop under way (both have timeouts).  Turns need not end,
  holds need not be lifted, nobody need pick a task up.  `QueuedIsRetried` has a
  condition of its own, in its formula: the fast lane comes to rest and attempts
  get recorded from some time on.  Nothing in the code brings the fast lane to
  rest (`AutoResumeStarved.cfg`).
- `StorageLock!FairSpec` (only `MCStorageLockAnswered.cfg`): strong fairness of
  an owner's next step: a sibling in an unawaited stretch disables it again and
  again, but the event loop takes the settled awaits of its callers in turn.

## What is proved

TLAPS proves, for every value of the constants allowed by the named
assumptions of the modules, which TLC also evaluates in the runs, every safety
property and action property of the listed passing runs, some of them under a
hypothesis on a constant that is named here and in the theorem.  Each
strengthened invariant was checked by TLC on a small instance first.

**Launches** (`LaunchIdempotencyProofs`).

- `TypeCorrect`, `OneFlight`.  `OneFlightPerKey` is not inductive: the
  invariant adds that a call deciding or claiming holds the lock (`LockInv`),
  that a claiming call saw no record or a failed one and that nobody changes it
  until the claim is written (`ClaimInv`), and that a joiner waits for a call
  (`JoinInv`).
- `TwoTurns`, `OneResult`, `FinalOnce`, `ResultsStand`.  `OutcomeInv` follows a
  launch to its outcome: the record names a call of its key and request
  (`RecordInv`), a joiner waits for a call whose answer is its own (`WaitInv`),
  the in-flight map names calls that run (`MapInv`), and a launch that recorded
  a turn keeps its record in a state from which the decision never runs again
  (`WriterInv`), unless its task was busy when it claimed - then its count of
  turns proves nothing, which is the exception in the property.  Two writers
  would both be the one the record names.

**Accept** (`AcceptProofs`: every actor set, forge, gate and answer of git).

- `CompleteLanded`, `AcceptedLanded`.  "complete" is written in a commit and by
  the self-heal, but statuses are also restored from locals and from the
  marker, and work lands in three ways, so the invariant says that a handler at
  a place after the merge knows the landing, that neither a marker nor a local
  ever remembers "complete", and that an accepted session and a merged PR imply
  the landing; no step undoes a landing (`Monotone`).
- `TypeCorrect`, `CommitsAlone`.  The lock's owner is the actor whose handler is
  at a place under the lock (`OwnerInv`): `OwnStep` shows of every action of a
  handler that it takes the lock from nobody.  Mutual exclusion of the commits is
  then that no two actors own one lock.  The resume that counts an attempt holds
  the lock and has found the counter below its maximum (`AttemptInv`), so
  no resume exceeds it.

**Accept without a forge** (`AcceptLocalProofs`).  The invariant says which of
status, marker, decision, comment and session is on disk at each place of each
handler, so that a crash leaves what the next handler relies on:

- `MergingIsMarked` and `MarkedDecided`: the decision is on disk while the
  marker is (`DecisionInv`), the marker while the task is "merging"
  (`MergingInv`).  The second holds with a forge as well, as long as
  a configured one is not taken away; then the sweep clears the keys without
  the lock and takes the decision of an accept that has begun
  (`MCAcceptUnlocked`).  The first says nothing of a merge that a forge has,
  for which "merging" without a marker is right.
- `LandedFinishable` (`Forge = FALSE`): before a fresh accept merges nothing has
  landed, and nothing that has landed is escaped (`FreshInv`).
- `RecordedOnce`: no comment before the work has landed, and every commit but the
  first of a merge looks before it writes (`CommentInv`).  The property itself is
  of a project without a forge.  With one it is false: the pending path writes
  its comment without a look, and a resume that waited for the lock meanwhile
  accepts the task afresh for the same reason once remote-sync has parked it.
- `AcceptedReasoned` (`Forge = FALSE`): whoever commits has a person's reason, the
  caller's or the one on disk (`ReasonInv`), and writes it before the session's
  end and the status (`WrittenInv`).
- `RejectHolds` (`Forge = FALSE`, `Gate = FALSE`): a rejected task is "abandoned",
  out of which the table leads no write of a handler (`RejectedInv`).  With a
  gate this is false: the gate restores the prior status over a rejection
  (`MCAcceptGate`).
- `ImplementsTheOutcome` (`Forge = FALSE`, `Gate = FALSE`), the refinement of
  `AcceptOutcome`: `MergeLands` is its landing, `EndSession` and
  `RejectEndsSession` are its verdicts, every other step stutters.  A landing
  while the verdict is given is excluded by `FreshInv` and `RejectedInv`; a blind
  escape, after which the verdict is mapped to "open", must find the session
  open, which is `EscapeInv`: an accepted session in a "merging" task belongs to a
  handler that still holds the lock.

**Follow-through** (`FollowThroughProofs`).

- `TypeCorrect`, without a hypothesis: the type invariant needs that a running
  handler has a record and is within its list (`HullInv`).
- `NothingOwedIsDropped`, `DependentsHeldBack`, `TagPinned`, of every behaviour:
  no assumption keeps a reopen and an accept out of the sweep's way, and the
  properties hold up to the note that overwrites the record and again from the
  next accept's record on (`FollowThroughOvertaken.cfg` shows what such a note
  does).  The invariant relates the two copies of the record that a step is
  taken from (stored, the run's) to the merge they belong to and to what took
  effect (`Sound`), and says of a run without a failure that every step it has
  passed is in the record, which needs that dependencies come first in
  `FOLLOWTHROUGH_STEPS` (`DependencyFirst`).  `OrderInv` adds that the run's copy
  agrees with the stored record but for the mark of the message (`Agree`,
  `CopyInv`), which an up-to-date note may set during a run, and that a step
  that waits for another has taken effect only when the record says the other
  is done, the tag being at the recorded commit (`DoneInv`).

**Store lock and restore** (`StorageLockProofs`, `StoreRestoreProofs`).

- `LockTypes`, `HoldersExclude`, `FileTellsHolder`.  Mutual exclusion follows
  from the file: without a slip an owner that holds finds its process in it, and
  so does a caller from the step that created the file or found it its own
  (`Relying`, `HeldByFile`); that nothing is lost between that step and the
  registration has to be proved, for `Register` records no slip of its own but
  that of a release.  And there is one file.  To keep that through a reclaim the
  invariant adds that what an owner has judged dead is gone or in another
  namespace (`JudgedGone`) and stays so, because a restart takes a life that no
  content names yet (`LivesBegun`).
- `RestoreTypes`, `MixedStoreIsMarked`, `SwapIsExclusive`.  The invariant of the
  lock carries over, since a restore changes the lock only through its actions;
  added are that a restore runs under the lock (`UnderLock`) and how far each
  phase of the swap has come (`Progress`).
- `ReplacedNamed`.  A directory of a restore that has not begun is empty
  (`Unused`), a restore moves entries only to a directory that the marker names
  and that has none of them yet (`Aims`), so every acknowledged entry is in
  place or in a named directory (`Named`).  As in the other properties,
  this is said only while the lock has not slipped.

**Event feed** (`EventFeedProofs`).

- `FeedTypes`, `NoEventIsSkipped`.  The invariant ties the cursor to what is
  owed: everything not received comes after the cursor (`CursorCovers`), queues
  are ascending (`InOrder`), and what a closed stream leaves out comes after all
  it still has (`Follows`), so a replay from the cursor, cut short or not, loses
  nothing.
- `CopyFollows`, about the feed with the tap before it.  A part whose copy
  differs from the store is accounted for in one of three ways (`Accounted`): a
  write of it is not reported yet, an event about it is owed, or the client has
  no cursor of this run and must read everything.  The third is what a restart
  leaves.  The property excepts the parts in `hidden`, that is, the changes that
  make no event: two overlapping status writes that cancel out, a second read
  that fails, a call that throws after its write, and what is written under the
  tap; `MCStoreFeedHidden.cfg` shows that the exception is needed.  That an owed event comes to an open stream is `NothingSkipped`.

**Auto-resume** (`AutoResumeProofs`).

- `RelaunchesAreSpaced`.  The stamp alone does not bound the time since the last
  relaunch, for it is old while a slow attempt is under way; `ClocksAgree` says
  for each place of the tick which clock does.  The exception is `undated`, a
  relaunch that the stamp does not tell of: its write failed and was logged
  (`reconcile.ts:1267-1271`, `auto-resume-queue.ts`), the attempt could not be
  recorded, the daemon died in a slow attempt, or the file is lost.
- `ResumeTypes`.  A task with an attempt has a place in the order (`LaneInv`), and
  the order survives each attempt and reset.

Only model-checked:

- liveness, which this prover does not reach: `EveryCallAnswered`,
  `AcceptedCompletes`, `StrandedSettles`, `CleanupReached`,
  `PersistentFailureTold`, `OwedGetsDone`, `EventuallyTold`, `QueuedIsRetried`;
- that the interesting cases are reached at all: each property fails, in its
  run, for a mutated action.

Neither proved nor checked are `LandedIsFinishable`, `AcceptedHasReason`,
`RejectStands` and the refinement with a forge: `accept_local` asks them of a local
target.  Two properties are known to be false beyond what they are claimed of:
`ReasonRecordedOnce` with a forge, and `AcceptedCompletes` with remote-sync.

## Disagreements between code and comments

One listed run, `auto_resume_stop`, ends in a counterexample to what a comment
says: "A user-initiated `lazy stop` must NOT be undone by the reconciler"
(`utils/reconcile.ts:1167`).  `maybeAutoResume` reads the flag once (1171),
awaits, and dispatches `autoResumeTask`, which marks the task working
(`utils/auto-resume.ts:359`) and launches it (492-508) without a second look;
`stopTaskRun` takes no lock against it.  A stop that ends between the mark and
the launch leaves a live run on a stopped, parked task.

More configurations are kept beside the listed runs, to be run by hand
(`tlc -config <cfg> <module>`).  Each but the last ends in a counterexample.

| cfg | property | what happens |
|---|---|---|
| `MCLaunchBusyClaim` | `AtMostOneTurnPerKey` | the busy status is read at the claim and used after the failure (`launch-idempotency.ts:292`), so a recorded turn is forgotten and repeated; the header (22-25) says it is replayed as the same error |
| `MCAcceptGate` | `RejectStands` | the gate restores the prior status over a rejection (`task-lifecycle.ts:4830`, through the reopen edge of the table), and the accept then merges |
| `MCAcceptGateReconciled` | `GateUndisturbed` | the reconciler interrupts a gate: it shares the pid whose lock should keep it out (`task-lifecycle.ts:4701`) |
| `MCAcceptParked` | `LandedNotRestored` | remote-sync parks a task whose accept died after landing (`remote-sync.ts:224` and `:255`), which `stranded-merge.ts:287` calls an invariant never to do |
| `MCAcceptUntold` | `ExhaustedIsTold` | a crash in the last resume means no message: the attempt is counted first (`stranded-merge.ts:462`) |
| `MCAcceptStaleSweep` | `ResumesOnlyTheDead` | the sweep resumes an accept that has ended and restored its task after the listing (`stranded-merge.ts:264`) |
| `MCAcceptStaleMarker` | `AbortRestoresFound` | an abort restores the status of an old marker, not the one it found (`task-lifecycle.ts:7323`) |
| `MCAcceptReasonLost` | `HandedOverHasReason` | the decision is cleared before its comment is written (`task-lifecycle.ts:8143`) |
| `MCAcceptUnlocked` | `MarkedHasIntent` | the sweep recovers without the lock it should hold (`stranded-merge.ts:307`) |
| `FollowThroughReopened` | `CleansOnlyComplete` | a stale retry cleans up a reopened task (`task-lifecycle.ts:6635`); `stranded-merge.ts:544` takes the record to mean complete |
| `FollowThroughTag` | `TagNamesMerge` | the accept tag can name another task's merge (`task-lifecycle.ts:6754`) |
| `FollowThroughOvertaken` | `ClearedAlwaysDone` | a stale copy of the record is written back over that of a later accept (`stranded-merge.ts:590`), and what that one owes is dropped undone; the message filed just before says that the daemon "keeps retrying" (587) |
| `MCStorageLockReclaim` | `Exclusive` | between the comparison and `unlinkSync` (`storage-lock.ts:839`) another process reclaims the same stale lock, and its live file is removed |
| `MCStorageLockSibling` | `SiblingsKeepLock` | an instance finds the file held by another of its process and relies on it; the other lets go and removes the file before the first has registered (`storage-lock.ts:785`), which the register of holders is there to prevent (491-507) |
| `MCStorageLockRefresh` | `HeldEitherWay` | a process under a recycled pid finds the leftover of an earlier life, fails to refresh it and goes on, because "we hold the lock either way" (`storage-lock.ts:806-808`); the file names a dead life, so that others judge it dead and take the store |
| `MCStoreRestoreFirst` | `FirstAsideIsOriginal` | a swap that fails or dies before it has moved everything and is run again: the first directory the marker names holds nothing or a part of the old store, the rest is in the later ones; `store-backup.ts:804` ("The real pre-restore store is the FIRST") and the refusal (928) send the person to the first |
| `MCStoreRestoreGuest` | `SwapNeverRaced` | a guest's daemon that starts between the lock of the host's restore and its marker looks the host's pid up among its own processes, finds nobody, and takes the lock: the swap runs beside it |
| `MCEventFeedRestarted` | `OldCursorIsTold` | a cursor of an earlier run that is not above the present count is taken for one of this run: no gap is announced (`event-feed.ts:264`) |
| `MCEventFeedLeak` | `PlacesAreStreams` | a stream that its replay closed is registered afterwards and keeps its place (`event-feed.ts:371`) |
| `MCStoreFeedHidden` | `CopyNeverStale` | two overlapping status writes whose comparisons of before and after see no difference, a second read that fails (`event-tap.ts:56`, `:85`), or the self-heal of a listing under the tap (`file-storage.ts:1616-1647`): nothing is published; `event-tap.ts:7-16` says that wrapping the storage covers every writer |
| `AutoResumeStarved` | `QueueNeverStarves` | a fast-lane task whose relaunch is refused every time stamps the gap at each tick and the slow lane never gets its turn; `auto-resume-queue.ts:15-16` says "one flapping task can never starve every other queued task" |
| `MCStorageLockAnswered` | `AcquireAnswered` | holds: every acquire of a process that stays up is answered |

Also seen, and not a configuration: the comment above `runAcceptFollowThrough`
says that the first failing step stops the run, the code says and does that only
its dependents wait; with a forge one decision can leave two `[Accepted]`
comments, because the pending path does not look for the first; a task that
remote-sync parks between its merge and "complete" can stay blocked with an
accepted session and its marker, where no sweep looks; a person's
unblock resets the interruptions but not the slow lane's attempts, so a task
whose attempts are spent never enters that lane again until a turn succeeds; a
pause that begins between the queue's check and the launch's own still costs
an attempt; and `daemon.auto_resume`, which the queue's header describes as the
switch of the slow lane, is read by the fast lane too.

## What is left

Compositions worth stating: Accept over a model of the lifecycle lock's queue;
FollowThrough as the refinement of the one-step follow-through of Accept;
AutoResume with Accept's sweeps in one tick.  Proofs worth having next: the
theorems of `AcceptLocalProofs` with a forge, as far as they hold (the landing on
the forge, the parking of a re-entry, the second comment as the exact
exception), and the refinement of `AcceptOutcome` with a gate that the reject
does not meet.

## Not modelled

- Most of the repository's lines are commands, views, prompts, forge and
  container drivers, parsers and formatters: I/O without a protocol of its own.
- The supervisor and its protocol files: another process; a turn is one that
  ends, fails or is lost.
- The claims of synchronous turns (`daemon/in-flight-turn.ts`), the turn-ending
  registry, ask and review launches and pairing locks: their callers are not
  modelled, and alone they are maps with deadlines.
- The files of one task write (`storage/file-storage.ts`): one store write is
  one step in every module; `task.json` goes last.
- `takeStoreBackup` and the restore that first stops a running daemon; the
  holder that cannot be judged at all appears only as the refusal it leads to.
- The reconcile tick that is forced after five minutes of the last
  (`daemon/server.ts:3133`): AutoResume has one tick at a time, and `GapKept`
  is claimed for that, and up to an undated relaunch.
- Errors of a class that parks the task at once (`handleErrorResponse`), the
  recovery of stranded completions beyond their settling, auto-react's budget
  (a refusal in `SweepPasses`), auto-deliver and queued asks.
- The FIFO queue of `utils/task-mutex.ts`: who holds and who waits is in
  Accept, the order of the waiters is not.

Wall-clock time appears as the freedom of a timer to fire later and, in
AutoResume, as ages.  Several tasks of one project meet only through the merges
into a common target (`OtherMerge`), a busy parent (the preflight's refusal) and
the one stamp of AutoResume.
