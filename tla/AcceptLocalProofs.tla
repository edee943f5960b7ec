------------------------- MODULE AcceptLocalProofs -------------------------
(***************************************************************************)
(* More proofs about Accept, for every set of actors and every bound.      *)
(* Most of them are about a task without a forge, and say so; what the     *)
(* verdicts promise is also without a gate.                                *)
(*                                                                         *)
(* AcceptProofs gives who holds the lock.  Here, the accept is followed    *)
(* through its writes: which of status, marker, decision, comment and      *)
(* session is on disk at each of its places, so that a crash at any of     *)
(* them leaves what the next handler relies on.  Each part of the          *)
(* invariant is proved step by step, one case for each action.             *)
(***************************************************************************)
EXTENDS AcceptProofs

-----------------------------------------------------------------------------
(* The invariant of a task without a forge.                                *)

(* Without a forge nobody goes the ways of one. *)
ForgePlaces == {"remote", "retry", "park", "handed", "reread", "polled",
                "closing"}

(* A live accept, before its work has landed. *)
PreMerge == {"gate", "gating", "begin", "intent", "marker", "stamp", "merge",
             "abort"}

RouteInv ==
    /\ forge = FALSE /\ pr = "none" /\ landed # "forge"
    /\ \A p \in Actors :
          /\ pc[p] \notin ForgePlaces
          /\ at[p].after # "comment"
          /\ pc[p] \in PreMerge \cup {"merged"}
               => at[p].kind \in {"fresh", "resume"}

(* The decision is on disk while the marker is. *)
DecisionInv ==
    /\ marker # None => intent # None
    /\ \A p \in Actors :
          /\ pc[p] = "recover" => p = Reject
          /\ pc[p] \in ClearPlaces /\ at[p].after = "act" => p = Reject
          /\ pc[p] \in {"marker", "stamp", "merge", "merged", "abort"}
               => intent # None
          /\ pc[p] \in {"clearIntent", "clearAttempts"} => marker = None
          /\ pc[p] \in {"record", "comment", "end", "live", "complete"}
               => at[p].after = "follow"

(* The marker is a paused status, and so is what an abort restores. *)
PriorInv ==
    /\ marker \in BlockedStatuses \cup {None}
    /\ \A p \in Actors :
          pc[p] \in PreMerge \cup {"merged"} => at[p].prior \in BlockedStatuses

(* The task is "merging" and marked while a handler works on its merge.    *)
MergeWork == {"merge", "merged", "abort", "record", "comment", "end", "live",
              "complete", "recover"}

MergingInv ==
    /\ status = "merging" => marker # None
    /\ \A p \in Actors :
          /\ pc[p] = "stamp" => marker # None
          /\ pc[p] \in MergeWork => status = "merging"
          /\ pc[p] = "clear" => status # "merging"
          /\ p = Resume /\ pc[p] = "sweep" => at[p].prior # None

(* Nothing has landed before a fresh accept merges, and nothing is escaped *)
(* that has landed, but for the escape that could not tell. *)
FreshInv ==
    /\ HasLanded /\ ~blind => status \in {"complete", "merging"}
    /\ \A p \in Actors :
          /\ pc[p] \in PreMerge => session # "accepted" /\ status # "complete"
          /\ pc[p] \in PreMerge /\ at[p].kind = "fresh" => ~HasLanded \/ blind
          /\ pc[p] \in {"gate", "gating", "abort"} => at[p].kind = "fresh"
          /\ pc[p] = "recover" => ~HasLanded \/ blind

(* The writes of an accept and the handlers that make them. *)
LocalInv == RouteInv /\ DecisionInv /\ PriorInv /\ MergingInv /\ FreshInv

LEMMA NoneIsNoStatus == None \notin BlockedStatuses
  BY AcceptAssumption DEF BlockedStatuses, Statuses

(* The table's edges out of the statuses that an accept relies on.         *)
LEMMA Edges ==
  /\ \A to : CanTransition("merging", to) =>
              to \in BlockedStatuses \cup {"merging", "complete"}
  /\ \A to : CanTransition("complete", to) =>
              to \in {"complete", "blocked", "backlog"}
  /\ \A to : CanTransition("abandoned", to) =>
              to \in {"abandoned", "blocked", "backlog"}
  /\ CanTransition("merging", "merging") /\ CanTransition("merging", "complete")
  BY DEF CanTransition, ValidTransitions, BlockedStatuses

-----------------------------------------------------------------------------
(* The steps of the handlers.                                              *)

(* Without a forge no handler takes a way of the forge: the re-entry needs *)
(* a merging task without a marker, remote-sync a forge, and a park one of *)
(* the two.                                                                *)
LEMMA RouteStep ==
  ASSUME BaseInv, LocalInv, Forge = FALSE, NEW p \in Actors, ActorStep(p)
  PROVE  RouteInv'
  <1> USE AcceptAssumption, NoneIsNoStatus
          DEF BaseInv, IInv, ControlOK, OwnerInv, Owns, HeldPlaces,
              ClearPlaces, AnyLocals, OneShot, LocalInv, RouteInv, ForgePlaces,
              PreMerge, MergingInv, NoLocals
  <1>1. CASE p \in Accepts \cup {Resume} /\ EnterAccept(p)
    BY <1>1 DEF EnterAccept, Goto, meta, world
  <1>2. CASE FinishInterruptedTransition(p)
    BY <1>2
    DEF FinishInterruptedTransition, Committing, Goto, meta, world, Marked,
        WorkLanded
  <1>3. CASE NothingToFinish(p)
    BY <1>3 DEF NothingToFinish, Goto, meta, world, Marked, WorkLanded
  <1>4. CASE PreflightRefuses(p)
    BY <1>4 DEF PreflightRefuses, Leave, meta, world, Acceptable
  <1>5. CASE PreflightPasses(p)
    BY <1>5 DEF PreflightPasses, Goto, Kind, meta, world, Acceptable
  <1>6. CASE GateStarts(p)
    BY <1>6 DEF GateStarts, UpdateTaskStatus, Goto, Leave, meta, world
  <1>7. CASE GatePasses(p)
    BY <1>7 DEF GatePasses, UpdateTaskStatus, Goto, Leave, meta, world
  <1>8. CASE GateRefuses(p)
    BY <1>8 DEF GateRefuses, Leave, meta, world
  <1>9. CASE PremergeRefuses(p)
    BY <1>9 DEF PremergeRefuses, Leave, meta, world, OpenReview, MergesOnForge
  <1>10. CASE BeginMergePhase(p)
    BY <1>10 DEF BeginMergePhase, Goto, meta, world, OpenReview, MergesOnForge
  <1>11. CASE PersistIntent(p)
    BY <1>11 DEF PersistIntent, Goto, meta, world, Reasons
  <1>12. CASE PersistMarker(p)
    BY <1>12 DEF PersistMarker, Goto, meta, world
  <1>13. CASE StampMerging(p)
    BY <1>13 DEF StampMerging, UpdateTaskStatus, Goto, Leave, meta, world
  <1>14. CASE MergeLands(p)
    BY <1>14 DEF MergeLands, Goto, meta, world, Land, MergesOnForge
  <1>15. CASE MergePends(p)
    BY <1>15 DEF MergePends, Goto, meta, world, MergesOnForge, WorkLanded
  <1>16. CASE MergeFails(p)
    BY <1>16 DEF MergeFails, Goto, Leave, meta, world
  <1>17. CASE AbortMergePhase(p)
    BY <1>17 DEF AbortMergePhase, Goto, Leave, meta, world
  <1>18. CASE MetadataSaved(p)
    BY <1>18 DEF MetadataSaved, Committing, Goto, meta, world
  <1>19. CASE MetadataLost(p)
    BY <1>19 DEF MetadataLost, Leave, meta, world
  <1>20. CASE CommentHandedOver(p)
    BY <1>20 DEF CommentHandedOver, Leave, meta, world
  <1>21. CASE ReentryMerged(p)
    BY <1>21 DEF ReentryMerged, Committing, Goto, meta, world
  <1>22. CASE ReentryWaits(p)
    BY <1>22 DEF ReentryWaits, Leave, meta, world
  <1>23. CASE ReentryChecksFailed(p)
    BY <1>23 DEF ReentryChecksFailed, Goto, meta, world
  <1>24. CASE ReentryRetries(p)
    BY <1>24 DEF ReentryRetries, Goto, meta, world
  <1>25. CASE RetryLands(p)
    BY <1>25 DEF RetryLands, Committing, Goto, meta, world, Land
  <1>26. CASE RetryDoesNotLand(p)
    BY <1>26 DEF RetryDoesNotLand, Leave, meta, world
  <1>27. CASE ClearMarker(p)
    BY <1>27 DEF ClearMarker, Goto, meta, world
  <1>28. CASE ClearIntent(p)
    BY <1>28 DEF ClearIntent, Goto, meta, world
  <1>29. CASE ClearAttempts(p)
    BY <1>29 DEF ClearAttempts, Goto, Leave, meta, world
  <1>30. CASE RecordFollowThrough(p)
    BY <1>30 DEF RecordFollowThrough, Goto, meta, world
  <1>31. CASE CommentAccepted(p)
    BY <1>31 DEF CommentAccepted, Goto, meta, world, Written
  <1>32. CASE EndSession(p)
    BY <1>32 DEF EndSession, Goto, meta, world
  <1>33. CASE ReadLive(p)
    BY <1>33 DEF ReadLive, UpdateTaskStatus, Goto, Leave, meta, world
  <1>34. CASE Complete(p)
    BY <1>34 DEF Complete, UpdateTaskStatus, Goto, Leave, meta, world
  <1>35. CASE RunFollowThrough(p)
    BY <1>35 DEF RunFollowThrough, Leave, meta, world, FollowThrough
  <1>36. CASE ParkTaskPaused(p)
    BY <1>36 DEF ParkTaskPaused, Leave, meta, world, PausedStatus
  <1>37. CASE p = Resume /\ SweepLists
    BY <1>37 DEF SweepLists, Goto, meta, world
  <1>38. CASE p = Resume /\ SweepResumes
    BY <1>38 DEF SweepResumes, Goto, meta, world
  <1>39. CASE p = Resume /\ SweepRecovers
    BY <1>39 DEF SweepRecovers, Goto, meta, world
  <1>40. CASE p = Resume /\ SweepSkips
    BY <1>40 DEF SweepSkips, Leave, meta, world
  <1>41. CASE p = Resume /\ CountAttempt
    BY <1>41 DEF CountAttempt, Goto, meta, world
  <1>42. CASE p = Resume /\ ResumeFailed
    BY <1>42 DEF ResumeFailed, Leave, meta, world, Marked
  <1>43. CASE RecoverStrandedMerge(p)
    BY <1>43 DEF RecoverStrandedMerge, Goto, Leave, meta, world, RestingStatus
  <1>44. CASE p = Reject /\ RejectReads
    BY <1>44 DEF RejectReads, Goto, meta, world
  <1>45. CASE p = Reject /\ RejectClaimsWorktree
    BY <1>45 DEF RejectClaimsWorktree, Goto, meta, world
  <1>46. CASE p = Reject /\ EscapeMerging
    BY <1>46 DEF EscapeMerging, Goto, Leave, meta, world
  <1>47. CASE p = Reject /\ EscapeUnneeded
    BY <1>47 DEF EscapeUnneeded, Goto, meta, world
  <1>48. CASE p = Reject /\ EscapeRefused
    BY <1>48 DEF EscapeRefused, Leave, meta, world, Marked
  <1>49. CASE p = Reject /\ EscapeRecovers
    BY <1>49 DEF EscapeRecovers, Goto, meta, world, WorkLanded
  <1>50. CASE p = Reject /\ RejectRefused
    BY <1>50 DEF RejectRefused, Leave, meta, world
  <1>51. CASE p = Reject /\ RejectActs
    BY <1>51 DEF RejectActs, UpdateTaskStatus, Goto, Leave, meta, world
  <1>52. CASE p = Reject /\ RejectAbandons
    BY <1>52 DEF RejectAbandons, UpdateTaskStatus, Goto, Leave, meta, world
  <1>53. CASE p = Reject /\ RejectEndsSession
    BY <1>53 DEF RejectEndsSession, Goto, meta, world
  <1>54. CASE p = Reject /\ RejectClosesReview
    BY <1>54 DEF RejectClosesReview, Leave, meta, world
  <1>55. CASE p = Sync /\ SyncLists
    BY <1>55 DEF SyncLists, Goto, meta, world
  <1>56. CASE p = Sync /\ SyncSeesMerged
    BY <1>56 DEF SyncSeesMerged, Goto, Leave, meta, world
  <1>57. CASE p = Sync /\ CompleteMergedOnForge
    BY <1>57 DEF CompleteMergedOnForge, Goto, Leave, Committing, meta, world
  <1>58. CASE p = Sync /\ SyncSeesClosed
    BY <1>58 DEF SyncSeesClosed, Goto, meta, world
  <1>59. CASE p = Sync /\ SyncSeesOpen
    BY <1>59 DEF SyncSeesOpen, Goto, Leave, meta, world
  <1>60. CASE p = Sync /\ SyncAbandons
    BY <1>60 DEF SyncAbandons, Leave, meta, world
  <1> QED
    BY <1>1, <1>2, <1>3, <1>4, <1>5, <1>6, <1>7, <1>8, <1>9, <1>10, <1>11,
       <1>12, <1>13, <1>14, <1>15, <1>16, <1>17, <1>18, <1>19, <1>20, <1>21,
       <1>22, <1>23, <1>24, <1>25, <1>26, <1>27, <1>28, <1>29, <1>30, <1>31,
       <1>32, <1>33, <1>34, <1>35, <1>36, <1>37, <1>38, <1>39, <1>40, <1>41,
       <1>42, <1>43, <1>44, <1>45, <1>46, <1>47, <1>48, <1>49, <1>50, <1>51,
       <1>52, <1>53, <1>54, <1>55, <1>56, <1>57, <1>58, <1>59, <1>60
    DEF ActorStep, AcceptStep, ClearStep, CommitStep, SweepStep, RejectStep,
        SyncStep

(* persistAcceptIntent comes before the marker, and clearMergeInFlight     *)
(* clears the marker before the decision; a resume or an abort in between  *)
(* keeps the order.                                                        *)
LEMMA DecisionStep ==
  ASSUME BaseInv, LocalInv, Forge = FALSE, NEW p \in Actors, ActorStep(p)
  PROVE  DecisionInv'
  <1> USE AcceptAssumption, NoneIsNoStatus
          DEF BaseInv, IInv, ControlOK, OwnerInv, Owns, HeldPlaces,
              ClearPlaces, AnyLocals, OneShot, LocalInv, DecisionInv, RouteInv,
              PreMerge, MergingInv
  <1>1. CASE p \in Accepts \cup {Resume} /\ EnterAccept(p)
    BY <1>1 DEF EnterAccept, Goto, meta, world
  <1>2. CASE FinishInterruptedTransition(p)
    BY <1>2
    DEF FinishInterruptedTransition, Committing, Goto, meta, world, Marked,
        WorkLanded
  <1>3. CASE NothingToFinish(p)
    BY <1>3 DEF NothingToFinish, Goto, meta, world, Marked, WorkLanded
  <1>4. CASE PreflightRefuses(p)
    BY <1>4 DEF PreflightRefuses, Leave, meta, world, Acceptable
  <1>5. CASE PreflightPasses(p)
    BY <1>5 DEF PreflightPasses, Goto, Kind, meta, world, Acceptable
  <1>6. CASE GateStarts(p)
    BY <1>6 DEF GateStarts, UpdateTaskStatus, Goto, Leave, meta, world
  <1>7. CASE GatePasses(p)
    BY <1>7 DEF GatePasses, UpdateTaskStatus, Goto, Leave, meta, world
  <1>8. CASE GateRefuses(p)
    BY <1>8 DEF GateRefuses, Leave, meta, world
  <1>9. CASE PremergeRefuses(p)
    BY <1>9 DEF PremergeRefuses, Leave, meta, world, OpenReview, MergesOnForge
  <1>10. CASE BeginMergePhase(p)
    BY <1>10 DEF BeginMergePhase, Goto, meta, world, OpenReview, MergesOnForge
  <1>11. CASE PersistIntent(p)
    BY <1>11 DEF PersistIntent, Goto, meta, world, Reasons
  <1>12. CASE PersistMarker(p)
    BY <1>12 DEF PersistMarker, Goto, meta, world
  <1>13. CASE StampMerging(p)
    BY <1>13 DEF StampMerging, UpdateTaskStatus, Goto, Leave, meta, world
  <1>14. CASE MergeLands(p)
    BY <1>14 DEF MergeLands, Goto, meta, world, Land, MergesOnForge
  <1>15. CASE MergePends(p)
    BY <1>15 DEF MergePends, Goto, meta, world, MergesOnForge, WorkLanded
  <1>16. CASE MergeFails(p)
    BY <1>16 DEF MergeFails, Goto, Leave, meta, world
  <1>17. CASE AbortMergePhase(p)
    BY <1>17 DEF AbortMergePhase, Goto, Leave, meta, world
  <1>18. CASE MetadataSaved(p)
    BY <1>18 DEF MetadataSaved, Committing, Goto, meta, world
  <1>19. CASE MetadataLost(p)
    BY <1>19 DEF MetadataLost, Leave, meta, world
  <1>20. CASE CommentHandedOver(p)
    BY <1>20 DEF CommentHandedOver, Leave, meta, world
  <1>21. CASE ReentryMerged(p)
    BY <1>21 DEF ReentryMerged, Committing, Goto, meta, world
  <1>22. CASE ReentryWaits(p)
    BY <1>22 DEF ReentryWaits, Leave, meta, world
  <1>23. CASE ReentryChecksFailed(p)
    BY <1>23 DEF ReentryChecksFailed, Goto, meta, world
  <1>24. CASE ReentryRetries(p)
    BY <1>24 DEF ReentryRetries, Goto, meta, world
  <1>25. CASE RetryLands(p)
    BY <1>25 DEF RetryLands, Committing, Goto, meta, world, Land
  <1>26. CASE RetryDoesNotLand(p)
    BY <1>26 DEF RetryDoesNotLand, Leave, meta, world
  <1>27. CASE ClearMarker(p)
    BY <1>27 DEF ClearMarker, Goto, meta, world
  <1>28. CASE ClearIntent(p)
    BY <1>28 DEF ClearIntent, Goto, meta, world
  <1>29. CASE ClearAttempts(p)
    BY <1>29 DEF ClearAttempts, Goto, Leave, meta, world
  <1>30. CASE RecordFollowThrough(p)
    BY <1>30 DEF RecordFollowThrough, Goto, meta, world
  <1>31. CASE CommentAccepted(p)
    BY <1>31 DEF CommentAccepted, Goto, meta, world, Written
  <1>32. CASE EndSession(p)
    BY <1>32 DEF EndSession, Goto, meta, world
  <1>33. CASE ReadLive(p)
    BY <1>33 DEF ReadLive, UpdateTaskStatus, Goto, Leave, meta, world
  <1>34. CASE Complete(p)
    BY <1>34 DEF Complete, UpdateTaskStatus, Goto, Leave, meta, world
  <1>35. CASE RunFollowThrough(p)
    BY <1>35 DEF RunFollowThrough, Leave, meta, world, FollowThrough
  <1>36. CASE ParkTaskPaused(p)
    BY <1>36 DEF ParkTaskPaused, Leave, meta, world, PausedStatus
  <1>37. CASE p = Resume /\ SweepLists
    BY <1>37 DEF SweepLists, Goto, meta, world
  <1>38. CASE p = Resume /\ SweepResumes
    BY <1>38 DEF SweepResumes, Goto, meta, world
  <1>39. CASE p = Resume /\ SweepRecovers
    BY <1>39 DEF SweepRecovers, Goto, meta, world
  <1>40. CASE p = Resume /\ SweepSkips
    BY <1>40 DEF SweepSkips, Leave, meta, world
  <1>41. CASE p = Resume /\ CountAttempt
    BY <1>41 DEF CountAttempt, Goto, meta, world
  <1>42. CASE p = Resume /\ ResumeFailed
    BY <1>42 DEF ResumeFailed, Leave, meta, world, Marked
  <1>43. CASE RecoverStrandedMerge(p)
    BY <1>43 DEF RecoverStrandedMerge, Goto, Leave, meta, world, RestingStatus
  <1>44. CASE p = Reject /\ RejectReads
    BY <1>44 DEF RejectReads, Goto, meta, world
  <1>45. CASE p = Reject /\ RejectClaimsWorktree
    BY <1>45 DEF RejectClaimsWorktree, Goto, meta, world
  <1>46. CASE p = Reject /\ EscapeMerging
    BY <1>46 DEF EscapeMerging, Goto, Leave, meta, world
  <1>47. CASE p = Reject /\ EscapeUnneeded
    BY <1>47 DEF EscapeUnneeded, Goto, meta, world
  <1>48. CASE p = Reject /\ EscapeRefused
    BY <1>48 DEF EscapeRefused, Leave, meta, world, Marked
  <1>49. CASE p = Reject /\ EscapeRecovers
    BY <1>49 DEF EscapeRecovers, Goto, meta, world, WorkLanded
  <1>50. CASE p = Reject /\ RejectRefused
    BY <1>50 DEF RejectRefused, Leave, meta, world
  <1>51. CASE p = Reject /\ RejectActs
    BY <1>51 DEF RejectActs, UpdateTaskStatus, Goto, Leave, meta, world
  <1>52. CASE p = Reject /\ RejectAbandons
    BY <1>52 DEF RejectAbandons, UpdateTaskStatus, Goto, Leave, meta, world
  <1>53. CASE p = Reject /\ RejectEndsSession
    BY <1>53 DEF RejectEndsSession, Goto, meta, world
  <1>54. CASE p = Reject /\ RejectClosesReview
    BY <1>54 DEF RejectClosesReview, Leave, meta, world
  <1>55. CASE p = Sync /\ SyncLists
    BY <1>55 DEF SyncLists, Goto, meta, world
  <1>56. CASE p = Sync /\ SyncSeesMerged
    BY <1>56 DEF SyncSeesMerged, Goto, Leave, meta, world
  <1>57. CASE p = Sync /\ CompleteMergedOnForge
    BY <1>57 DEF CompleteMergedOnForge, Goto, Leave, Committing, meta, world
  <1>58. CASE p = Sync /\ SyncSeesClosed
    BY <1>58 DEF SyncSeesClosed, Goto, meta, world
  <1>59. CASE p = Sync /\ SyncSeesOpen
    BY <1>59 DEF SyncSeesOpen, Goto, Leave, meta, world
  <1>60. CASE p = Sync /\ SyncAbandons
    BY <1>60 DEF SyncAbandons, Leave, meta, world
  <1> QED
    BY <1>1, <1>2, <1>3, <1>4, <1>5, <1>6, <1>7, <1>8, <1>9, <1>10, <1>11,
       <1>12, <1>13, <1>14, <1>15, <1>16, <1>17, <1>18, <1>19, <1>20, <1>21,
       <1>22, <1>23, <1>24, <1>25, <1>26, <1>27, <1>28, <1>29, <1>30, <1>31,
       <1>32, <1>33, <1>34, <1>35, <1>36, <1>37, <1>38, <1>39, <1>40, <1>41,
       <1>42, <1>43, <1>44, <1>45, <1>46, <1>47, <1>48, <1>49, <1>50, <1>51,
       <1>52, <1>53, <1>54, <1>55, <1>56, <1>57, <1>58, <1>59, <1>60
    DEF ActorStep, AcceptStep, ClearStep, CommitStep, SweepStep, RejectStep,
        SyncStep

(* The status an abort restores is the one preflight accepted, or the      *)
(* marker's, which an earlier preflight accepted.                          *)
LEMMA PriorStep ==
  ASSUME BaseInv, LocalInv, Forge = FALSE, NEW p \in Actors, ActorStep(p)
  PROVE  PriorInv'
  <1> USE AcceptAssumption, NoneIsNoStatus
          DEF BaseInv, IInv, ControlOK, OwnerInv, Owns, HeldPlaces,
              ClearPlaces, AnyLocals, OneShot, LocalInv, PriorInv, RouteInv,
              PreMerge, MergingInv, BlockedStatuses
  <1>1. CASE p \in Accepts \cup {Resume} /\ EnterAccept(p)
    BY <1>1 DEF EnterAccept, Goto, meta, world
  <1>2. CASE FinishInterruptedTransition(p)
    BY <1>2
    DEF FinishInterruptedTransition, Committing, Goto, meta, world, Marked,
        WorkLanded
  <1>3. CASE NothingToFinish(p)
    BY <1>3 DEF NothingToFinish, Goto, meta, world, Marked, WorkLanded
  <1>4. CASE PreflightRefuses(p)
    BY <1>4 DEF PreflightRefuses, Leave, meta, world, Acceptable
  <1>5. CASE PreflightPasses(p)
    BY <1>5 DEF PreflightPasses, Goto, Kind, meta, world, Acceptable
  <1>6. CASE GateStarts(p)
    BY <1>6 DEF GateStarts, UpdateTaskStatus, Goto, Leave, meta, world
  <1>7. CASE GatePasses(p)
    BY <1>7 DEF GatePasses, UpdateTaskStatus, Goto, Leave, meta, world
  <1>8. CASE GateRefuses(p)
    BY <1>8 DEF GateRefuses, Leave, meta, world
  <1>9. CASE PremergeRefuses(p)
    BY <1>9 DEF PremergeRefuses, Leave, meta, world, OpenReview, MergesOnForge
  <1>10. CASE BeginMergePhase(p)
    BY <1>10 DEF BeginMergePhase, Goto, meta, world, OpenReview, MergesOnForge
  <1>11. CASE PersistIntent(p)
    BY <1>11 DEF PersistIntent, Goto, meta, world, Reasons
  <1>12. CASE PersistMarker(p)
    BY <1>12 DEF PersistMarker, Goto, meta, world
  <1>13. CASE StampMerging(p)
    BY <1>13 DEF StampMerging, UpdateTaskStatus, Goto, Leave, meta, world
  <1>14. CASE MergeLands(p)
    BY <1>14 DEF MergeLands, Goto, meta, world, Land, MergesOnForge
  <1>15. CASE MergePends(p)
    BY <1>15 DEF MergePends, Goto, meta, world, MergesOnForge, WorkLanded
  <1>16. CASE MergeFails(p)
    BY <1>16 DEF MergeFails, Goto, Leave, meta, world
  <1>17. CASE AbortMergePhase(p)
    BY <1>17 DEF AbortMergePhase, Goto, Leave, meta, world
  <1>18. CASE MetadataSaved(p)
    BY <1>18 DEF MetadataSaved, Committing, Goto, meta, world
  <1>19. CASE MetadataLost(p)
    BY <1>19 DEF MetadataLost, Leave, meta, world
  <1>20. CASE CommentHandedOver(p)
    BY <1>20 DEF CommentHandedOver, Leave, meta, world
  <1>21. CASE ReentryMerged(p)
    BY <1>21 DEF ReentryMerged, Committing, Goto, meta, world
  <1>22. CASE ReentryWaits(p)
    BY <1>22 DEF ReentryWaits, Leave, meta, world
  <1>23. CASE ReentryChecksFailed(p)
    BY <1>23 DEF ReentryChecksFailed, Goto, meta, world
  <1>24. CASE ReentryRetries(p)
    BY <1>24 DEF ReentryRetries, Goto, meta, world
  <1>25. CASE RetryLands(p)
    BY <1>25 DEF RetryLands, Committing, Goto, meta, world, Land
  <1>26. CASE RetryDoesNotLand(p)
    BY <1>26 DEF RetryDoesNotLand, Leave, meta, world
  <1>27. CASE ClearMarker(p)
    BY <1>27 DEF ClearMarker, Goto, meta, world
  <1>28. CASE ClearIntent(p)
    BY <1>28 DEF ClearIntent, Goto, meta, world
  <1>29. CASE ClearAttempts(p)
    BY <1>29 DEF ClearAttempts, Goto, Leave, meta, world
  <1>30. CASE RecordFollowThrough(p)
    BY <1>30 DEF RecordFollowThrough, Goto, meta, world
  <1>31. CASE CommentAccepted(p)
    BY <1>31 DEF CommentAccepted, Goto, meta, world, Written
  <1>32. CASE EndSession(p)
    BY <1>32 DEF EndSession, Goto, meta, world
  <1>33. CASE ReadLive(p)
    BY <1>33 DEF ReadLive, UpdateTaskStatus, Goto, Leave, meta, world
  <1>34. CASE Complete(p)
    BY <1>34 DEF Complete, UpdateTaskStatus, Goto, Leave, meta, world
  <1>35. CASE RunFollowThrough(p)
    BY <1>35 DEF RunFollowThrough, Leave, meta, world, FollowThrough
  <1>36. CASE ParkTaskPaused(p)
    BY <1>36 DEF ParkTaskPaused, Leave, meta, world, PausedStatus
  <1>37. CASE p = Resume /\ SweepLists
    BY <1>37 DEF SweepLists, Goto, meta, world
  <1>38. CASE p = Resume /\ SweepResumes
    BY <1>38 DEF SweepResumes, Goto, meta, world
  <1>39. CASE p = Resume /\ SweepRecovers
    BY <1>39 DEF SweepRecovers, Goto, meta, world
  <1>40. CASE p = Resume /\ SweepSkips
    BY <1>40 DEF SweepSkips, Leave, meta, world
  <1>41. CASE p = Resume /\ CountAttempt
    BY <1>41 DEF CountAttempt, Goto, meta, world
  <1>42. CASE p = Resume /\ ResumeFailed
    BY <1>42 DEF ResumeFailed, Leave, meta, world, Marked
  <1>43. CASE RecoverStrandedMerge(p)
    BY <1>43 DEF RecoverStrandedMerge, Goto, Leave, meta, world, RestingStatus
  <1>44. CASE p = Reject /\ RejectReads
    BY <1>44 DEF RejectReads, Goto, meta, world
  <1>45. CASE p = Reject /\ RejectClaimsWorktree
    BY <1>45 DEF RejectClaimsWorktree, Goto, meta, world
  <1>46. CASE p = Reject /\ EscapeMerging
    BY <1>46 DEF EscapeMerging, Goto, Leave, meta, world
  <1>47. CASE p = Reject /\ EscapeUnneeded
    BY <1>47 DEF EscapeUnneeded, Goto, meta, world
  <1>48. CASE p = Reject /\ EscapeRefused
    BY <1>48 DEF EscapeRefused, Leave, meta, world, Marked
  <1>49. CASE p = Reject /\ EscapeRecovers
    BY <1>49 DEF EscapeRecovers, Goto, meta, world, WorkLanded
  <1>50. CASE p = Reject /\ RejectRefused
    BY <1>50 DEF RejectRefused, Leave, meta, world
  <1>51. CASE p = Reject /\ RejectActs
    BY <1>51 DEF RejectActs, UpdateTaskStatus, Goto, Leave, meta, world
  <1>52. CASE p = Reject /\ RejectAbandons
    BY <1>52 DEF RejectAbandons, UpdateTaskStatus, Goto, Leave, meta, world
  <1>53. CASE p = Reject /\ RejectEndsSession
    BY <1>53 DEF RejectEndsSession, Goto, meta, world
  <1>54. CASE p = Reject /\ RejectClosesReview
    BY <1>54 DEF RejectClosesReview, Leave, meta, world
  <1>55. CASE p = Sync /\ SyncLists
    BY <1>55 DEF SyncLists, Goto, meta, world
  <1>56. CASE p = Sync /\ SyncSeesMerged
    BY <1>56 DEF SyncSeesMerged, Goto, Leave, meta, world
  <1>57. CASE p = Sync /\ CompleteMergedOnForge
    BY <1>57 DEF CompleteMergedOnForge, Goto, Leave, Committing, meta, world
  <1>58. CASE p = Sync /\ SyncSeesClosed
    BY <1>58 DEF SyncSeesClosed, Goto, meta, world
  <1>59. CASE p = Sync /\ SyncSeesOpen
    BY <1>59 DEF SyncSeesOpen, Goto, Leave, meta, world
  <1>60. CASE p = Sync /\ SyncAbandons
    BY <1>60 DEF SyncAbandons, Leave, meta, world
  <1> QED
    BY <1>1, <1>2, <1>3, <1>4, <1>5, <1>6, <1>7, <1>8, <1>9, <1>10, <1>11,
       <1>12, <1>13, <1>14, <1>15, <1>16, <1>17, <1>18, <1>19, <1>20, <1>21,
       <1>22, <1>23, <1>24, <1>25, <1>26, <1>27, <1>28, <1>29, <1>30, <1>31,
       <1>32, <1>33, <1>34, <1>35, <1>36, <1>37, <1>38, <1>39, <1>40, <1>41,
       <1>42, <1>43, <1>44, <1>45, <1>46, <1>47, <1>48, <1>49, <1>50, <1>51,
       <1>52, <1>53, <1>54, <1>55, <1>56, <1>57, <1>58, <1>59, <1>60
    DEF ActorStep, AcceptStep, ClearStep, CommitStep, SweepStep, RejectStep,
        SyncStep

(* beginMergePhase writes the marker before the status, and a clear        *)
(* follows only a status other than "merging"; nobody else takes the       *)
(* status away while the lock is held.                                     *)
LEMMA MergingStep ==
  ASSUME BaseInv, LocalInv, Forge = FALSE, NEW p \in Actors, ActorStep(p)
  PROVE  MergingInv'
  <1> USE AcceptAssumption, NoneIsNoStatus
          DEF BaseInv, IInv, ControlOK, OwnerInv, Owns, HeldPlaces,
              ClearPlaces, AnyLocals, OneShot, LocalInv, PriorInv, DecisionInv,
              RouteInv, PreMerge, MergingInv, MergeWork, FreshInv,
              BlockedStatuses, ForgePlaces
  <1>1. CASE p \in Accepts \cup {Resume} /\ EnterAccept(p)
    BY <1>1 DEF EnterAccept, Goto, CanTransition, ValidTransitions, meta, world
  <1>2. CASE FinishInterruptedTransition(p)
    BY <1>2
    DEF FinishInterruptedTransition, Committing, Goto, CanTransition,
        ValidTransitions, meta, world, Marked, WorkLanded
  <1>3. CASE NothingToFinish(p)
    BY <1>3
    DEF NothingToFinish, Goto, CanTransition, ValidTransitions, meta, world,
        Marked, WorkLanded
  <1>4. CASE PreflightRefuses(p)
    BY <1>4
    DEF PreflightRefuses, Leave, CanTransition, ValidTransitions, meta, world,
        Acceptable
  <1>5. CASE PreflightPasses(p)
    BY <1>5
    DEF PreflightPasses, Goto, Kind, CanTransition, ValidTransitions, meta,
        world, Acceptable
  <1>6. CASE GateStarts(p)
    BY <1>6
    DEF GateStarts, UpdateTaskStatus, Goto, Leave, CanTransition,
        ValidTransitions, meta, world
  <1>7. CASE GatePasses(p)
    BY <1>7
    DEF GatePasses, UpdateTaskStatus, Goto, Leave, CanTransition,
        ValidTransitions, meta, world
  <1>8. CASE GateRefuses(p)
    BY <1>8
    DEF GateRefuses, Leave, CanTransition, ValidTransitions, meta, world
  <1>9. CASE PremergeRefuses(p)
    BY <1>9
    DEF PremergeRefuses, Leave, CanTransition, ValidTransitions, meta, world,
        OpenReview, MergesOnForge
  <1>10. CASE BeginMergePhase(p)
    BY <1>10
    DEF BeginMergePhase, Goto, CanTransition, ValidTransitions, meta, world,
        OpenReview, MergesOnForge
  <1>11. CASE PersistIntent(p)
    BY <1>11
    DEF PersistIntent, Goto, CanTransition, ValidTransitions, meta, world,
        Reasons
  <1>12. CASE PersistMarker(p)
    BY <1>12
    DEF PersistMarker, Goto, CanTransition, ValidTransitions, meta, world
  <1>13. CASE StampMerging(p)
    BY <1>13
    DEF StampMerging, UpdateTaskStatus, Goto, Leave, CanTransition,
        ValidTransitions, meta, world
  <1>14. CASE MergeLands(p)
    BY <1>14
    DEF MergeLands, Goto, CanTransition, ValidTransitions, meta, world, Land,
        MergesOnForge
  <1>15. CASE MergePends(p)
    BY <1>15
    DEF MergePends, Goto, CanTransition, ValidTransitions, meta, world,
        MergesOnForge, WorkLanded
  <1>16. CASE MergeFails(p)
    BY <1>16
    DEF MergeFails, Goto, Leave, CanTransition, ValidTransitions, meta, world
  <1>17. CASE AbortMergePhase(p)
    BY <1>17
    DEF AbortMergePhase, Goto, Leave, CanTransition, ValidTransitions, meta,
        world
  <1>18. CASE MetadataSaved(p)
    BY <1>18
    DEF MetadataSaved, Committing, Goto, CanTransition, ValidTransitions, meta,
        world
  <1>19. CASE MetadataLost(p)
    BY <1>19
    DEF MetadataLost, Leave, CanTransition, ValidTransitions, meta, world
  <1>20. CASE CommentHandedOver(p)
    BY <1>20
    DEF CommentHandedOver, Leave, CanTransition, ValidTransitions, meta, world
  <1>21. CASE ReentryMerged(p)
    BY <1>21
    DEF ReentryMerged, Committing, Goto, CanTransition, ValidTransitions, meta,
        world
  <1>22. CASE ReentryWaits(p)
    BY <1>22
    DEF ReentryWaits, Leave, CanTransition, ValidTransitions, meta, world
  <1>23. CASE ReentryChecksFailed(p)
    BY <1>23
    DEF ReentryChecksFailed, Goto, CanTransition, ValidTransitions, meta, world
  <1>24. CASE ReentryRetries(p)
    BY <1>24
    DEF ReentryRetries, Goto, CanTransition, ValidTransitions, meta, world
  <1>25. CASE RetryLands(p)
    BY <1>25
    DEF RetryLands, Committing, Goto, CanTransition, ValidTransitions, meta,
        world, Land
  <1>26. CASE RetryDoesNotLand(p)
    BY <1>26
    DEF RetryDoesNotLand, Leave, CanTransition, ValidTransitions, meta, world
  <1>27. CASE ClearMarker(p)
    BY <1>27
    DEF ClearMarker, Goto, CanTransition, ValidTransitions, meta, world
  <1>28. CASE ClearIntent(p)
    BY <1>28
    DEF ClearIntent, Goto, CanTransition, ValidTransitions, meta, world
  <1>29. CASE ClearAttempts(p)
    BY <1>29
    DEF ClearAttempts, Goto, Leave, CanTransition, ValidTransitions, meta,
        world
  <1>30. CASE RecordFollowThrough(p)
    BY <1>30
    DEF RecordFollowThrough, Goto, CanTransition, ValidTransitions, meta, world
  <1>31. CASE CommentAccepted(p)
    BY <1>31
    DEF CommentAccepted, Goto, CanTransition, ValidTransitions, meta, world,
        Written
  <1>32. CASE EndSession(p)
    BY <1>32 DEF EndSession, Goto, CanTransition, ValidTransitions, meta, world
  <1>33. CASE ReadLive(p)
    BY <1>33
    DEF ReadLive, UpdateTaskStatus, Goto, Leave, CanTransition,
        ValidTransitions, meta, world
  <1>34. CASE Complete(p)
    BY <1>34
    DEF Complete, UpdateTaskStatus, Goto, Leave, CanTransition,
        ValidTransitions, meta, world
  <1>35. CASE RunFollowThrough(p)
    BY <1>35
    DEF RunFollowThrough, Leave, CanTransition, ValidTransitions, meta, world,
        FollowThrough
  <1>36. CASE ParkTaskPaused(p)
    BY <1>36
    DEF ParkTaskPaused, Leave, CanTransition, ValidTransitions, meta, world,
        PausedStatus
  <1>37. CASE p = Resume /\ SweepLists
    BY <1>37 DEF SweepLists, Goto, CanTransition, ValidTransitions, meta, world
  <1>38. CASE p = Resume /\ SweepResumes
    BY <1>38
    DEF SweepResumes, Goto, CanTransition, ValidTransitions, meta, world
  <1>39. CASE p = Resume /\ SweepRecovers
    BY <1>39
    DEF SweepRecovers, Goto, CanTransition, ValidTransitions, meta, world
  <1>40. CASE p = Resume /\ SweepSkips
    BY <1>40
    DEF SweepSkips, Leave, CanTransition, ValidTransitions, meta, world
  <1>41. CASE p = Resume /\ CountAttempt
    BY <1>41
    DEF CountAttempt, Goto, CanTransition, ValidTransitions, meta, world
  <1>42. CASE p = Resume /\ ResumeFailed
    BY <1>42
    DEF ResumeFailed, Leave, CanTransition, ValidTransitions, meta, world,
        Marked
  <1>43. CASE RecoverStrandedMerge(p)
    BY <1>43
    DEF RecoverStrandedMerge, Goto, Leave, CanTransition, ValidTransitions,
        meta, world, RestingStatus
  <1>44. CASE p = Reject /\ RejectReads
    BY <1>44
    DEF RejectReads, Goto, CanTransition, ValidTransitions, meta, world
  <1>45. CASE p = Reject /\ RejectClaimsWorktree
    BY <1>45
    DEF RejectClaimsWorktree, Goto, CanTransition, ValidTransitions, meta,
        world
  <1>46. CASE p = Reject /\ EscapeMerging
    BY <1>46
    DEF EscapeMerging, Goto, Leave, CanTransition, ValidTransitions, meta,
        world
  <1>47. CASE p = Reject /\ EscapeUnneeded
    BY <1>47
    DEF EscapeUnneeded, Goto, CanTransition, ValidTransitions, meta, world
  <1>48. CASE p = Reject /\ EscapeRefused
    BY <1>48
    DEF EscapeRefused, Leave, CanTransition, ValidTransitions, meta, world,
        Marked
  <1>49. CASE p = Reject /\ EscapeRecovers
    BY <1>49
    DEF EscapeRecovers, Goto, CanTransition, ValidTransitions, meta, world,
        WorkLanded
  <1>50. CASE p = Reject /\ RejectRefused
    BY <1>50
    DEF RejectRefused, Leave, CanTransition, ValidTransitions, meta, world
  <1>51. CASE p = Reject /\ RejectActs
    BY <1>51
    DEF RejectActs, UpdateTaskStatus, Goto, Leave, CanTransition,
        ValidTransitions, meta, world
  <1>52. CASE p = Reject /\ RejectAbandons
    BY <1>52
    DEF RejectAbandons, UpdateTaskStatus, Goto, Leave, CanTransition,
        ValidTransitions, meta, world
  <1>53. CASE p = Reject /\ RejectEndsSession
    BY <1>53
    DEF RejectEndsSession, Goto, CanTransition, ValidTransitions, meta, world
  <1>54. CASE p = Reject /\ RejectClosesReview
    BY <1>54
    DEF RejectClosesReview, Leave, CanTransition, ValidTransitions, meta, world
  <1>55. CASE p = Sync /\ SyncLists
    BY <1>55 DEF SyncLists, Goto, CanTransition, ValidTransitions, meta, world
  <1>56. CASE p = Sync /\ SyncSeesMerged
    BY <1>56
    DEF SyncSeesMerged, Goto, Leave, CanTransition, ValidTransitions, meta,
        world
  <1>57. CASE p = Sync /\ CompleteMergedOnForge
    BY <1>57
    DEF CompleteMergedOnForge, Goto, Leave, Committing, CanTransition,
        ValidTransitions, meta, world
  <1>58. CASE p = Sync /\ SyncSeesClosed
    BY <1>58
    DEF SyncSeesClosed, Goto, CanTransition, ValidTransitions, meta, world
  <1>59. CASE p = Sync /\ SyncSeesOpen
    BY <1>59
    DEF SyncSeesOpen, Goto, Leave, CanTransition, ValidTransitions, meta, world
  <1>60. CASE p = Sync /\ SyncAbandons
    BY <1>60
    DEF SyncAbandons, Leave, CanTransition, ValidTransitions, meta, world
  <1> QED
    BY <1>1, <1>2, <1>3, <1>4, <1>5, <1>6, <1>7, <1>8, <1>9, <1>10, <1>11,
       <1>12, <1>13, <1>14, <1>15, <1>16, <1>17, <1>18, <1>19, <1>20, <1>21,
       <1>22, <1>23, <1>24, <1>25, <1>26, <1>27, <1>28, <1>29, <1>30, <1>31,
       <1>32, <1>33, <1>34, <1>35, <1>36, <1>37, <1>38, <1>39, <1>40, <1>41,
       <1>42, <1>43, <1>44, <1>45, <1>46, <1>47, <1>48, <1>49, <1>50, <1>51,
       <1>52, <1>53, <1>54, <1>55, <1>56, <1>57, <1>58, <1>59, <1>60
    DEF ActorStep, AcceptStep, ClearStep, CommitStep, SweepStep, RejectStep,
        SyncStep

(* Preflight accepts a task only while its session is open, and a landed   *)
(* task stays "merging" or becomes "complete": a resume never restores it, *)
(* a failed fresh merge has landed nothing, an escape asks the trees.      *)
LEMMA FreshStep ==
  ASSUME BaseInv, LocalInv, Forge = FALSE, NEW p \in Actors, ActorStep(p)
  PROVE  FreshInv'
  <1> USE AcceptAssumption, NoneIsNoStatus
          DEF BaseInv, IInv, ControlOK, OwnerInv, Owns, HeldPlaces,
              ClearPlaces, AnyLocals, OneShot, LocalInv, PriorInv, DecisionInv,
              RouteInv, PreMerge, MergingInv, MergeWork, FreshInv,
              BlockedStatuses, ForgePlaces, HasLanded
  <1>1. CASE p \in Accepts \cup {Resume} /\ EnterAccept(p)
    BY <1>1
    DEF EnterAccept, Goto, CanTransition, ValidTransitions, meta, world,
        history
  <1>2. CASE FinishInterruptedTransition(p)
    BY <1>2
    DEF FinishInterruptedTransition, Committing, Goto, CanTransition,
        ValidTransitions, meta, world, history, Marked, WorkLanded
  <1>3. CASE NothingToFinish(p)
    BY <1>3
    DEF NothingToFinish, Goto, CanTransition, ValidTransitions, meta, world,
        history, Marked, WorkLanded
  <1>4. CASE PreflightRefuses(p)
    BY <1>4
    DEF PreflightRefuses, Leave, CanTransition, ValidTransitions, meta, world,
        history, Acceptable
  <1>5. CASE PreflightPasses(p)
    BY <1>5
    DEF PreflightPasses, Goto, Kind, CanTransition, ValidTransitions, meta,
        world, history, Acceptable
  <1>6. CASE GateStarts(p)
    BY <1>6
    DEF GateStarts, UpdateTaskStatus, Goto, Leave, CanTransition,
        ValidTransitions, meta, world, history
  <1>7. CASE GatePasses(p)
    BY <1>7
    DEF GatePasses, UpdateTaskStatus, Goto, Leave, CanTransition,
        ValidTransitions, meta, world, history
  <1>8. CASE GateRefuses(p)
    BY <1>8
    DEF GateRefuses, Leave, CanTransition, ValidTransitions, meta, world,
        history
  <1>9. CASE PremergeRefuses(p)
    BY <1>9
    DEF PremergeRefuses, Leave, CanTransition, ValidTransitions, meta, world,
        history, OpenReview, MergesOnForge
  <1>10. CASE BeginMergePhase(p)
    BY <1>10
    DEF BeginMergePhase, Goto, CanTransition, ValidTransitions, meta, world,
        history, OpenReview, MergesOnForge
  <1>11. CASE PersistIntent(p)
    BY <1>11
    DEF PersistIntent, Goto, CanTransition, ValidTransitions, meta, world,
        history, Reasons
  <1>12. CASE PersistMarker(p)
    BY <1>12
    DEF PersistMarker, Goto, CanTransition, ValidTransitions, meta, world,
        history
  <1>13. CASE StampMerging(p)
    BY <1>13
    DEF StampMerging, UpdateTaskStatus, Goto, Leave, CanTransition,
        ValidTransitions, meta, world, history
  <1>14. CASE MergeLands(p)
    BY <1>14
    DEF MergeLands, Goto, CanTransition, ValidTransitions, meta, world,
        history, Land, MergesOnForge
  <1>15. CASE MergePends(p)
    BY <1>15
    DEF MergePends, Goto, CanTransition, ValidTransitions, meta, world,
        history, MergesOnForge, WorkLanded
  <1>16. CASE MergeFails(p)
    BY <1>16
    DEF MergeFails, Goto, Leave, CanTransition, ValidTransitions, meta, world,
        history
  <1>17. CASE AbortMergePhase(p)
    BY <1>17
    DEF AbortMergePhase, Goto, Leave, CanTransition, ValidTransitions, meta,
        world, history
  <1>18. CASE MetadataSaved(p)
    BY <1>18
    DEF MetadataSaved, Committing, Goto, CanTransition, ValidTransitions, meta,
        world, history
  <1>19. CASE MetadataLost(p)
    BY <1>19
    DEF MetadataLost, Leave, CanTransition, ValidTransitions, meta, world,
        history
  <1>20. CASE CommentHandedOver(p)
    BY <1>20
    DEF CommentHandedOver, Leave, CanTransition, ValidTransitions, meta, world,
        history
  <1>21. CASE ReentryMerged(p)
    BY <1>21
    DEF ReentryMerged, Committing, Goto, CanTransition, ValidTransitions, meta,
        world, history
  <1>22. CASE ReentryWaits(p)
    BY <1>22
    DEF ReentryWaits, Leave, CanTransition, ValidTransitions, meta, world,
        history
  <1>23. CASE ReentryChecksFailed(p)
    BY <1>23
    DEF ReentryChecksFailed, Goto, CanTransition, ValidTransitions, meta,
        world, history
  <1>24. CASE ReentryRetries(p)
    BY <1>24
    DEF ReentryRetries, Goto, CanTransition, ValidTransitions, meta, world,
        history
  <1>25. CASE RetryLands(p)
    BY <1>25
    DEF RetryLands, Committing, Goto, CanTransition, ValidTransitions, meta,
        world, history, Land
  <1>26. CASE RetryDoesNotLand(p)
    BY <1>26
    DEF RetryDoesNotLand, Leave, CanTransition, ValidTransitions, meta, world,
        history
  <1>27. CASE ClearMarker(p)
    BY <1>27
    DEF ClearMarker, Goto, CanTransition, ValidTransitions, meta, world,
        history
  <1>28. CASE ClearIntent(p)
    BY <1>28
    DEF ClearIntent, Goto, CanTransition, ValidTransitions, meta, world,
        history
  <1>29. CASE ClearAttempts(p)
    BY <1>29
    DEF ClearAttempts, Goto, Leave, CanTransition, ValidTransitions, meta,
        world, history
  <1>30. CASE RecordFollowThrough(p)
    BY <1>30
    DEF RecordFollowThrough, Goto, CanTransition, ValidTransitions, meta,
        world, history
  <1>31. CASE CommentAccepted(p)
    BY <1>31
    DEF CommentAccepted, Goto, CanTransition, ValidTransitions, meta, world,
        history, Written
  <1>32. CASE EndSession(p)
    BY <1>32
    DEF EndSession, Goto, CanTransition, ValidTransitions, meta, world, history
  <1>33. CASE ReadLive(p)
    BY <1>33
    DEF ReadLive, UpdateTaskStatus, Goto, Leave, CanTransition,
        ValidTransitions, meta, world, history
  <1>34. CASE Complete(p)
    BY <1>34
    DEF Complete, UpdateTaskStatus, Goto, Leave, CanTransition,
        ValidTransitions, meta, world, history
  <1>35. CASE RunFollowThrough(p)
    BY <1>35
    DEF RunFollowThrough, Leave, CanTransition, ValidTransitions, meta, world,
        history, FollowThrough
  <1>36. CASE ParkTaskPaused(p)
    BY <1>36
    DEF ParkTaskPaused, Leave, CanTransition, ValidTransitions, meta, world,
        history, PausedStatus
  <1>37. CASE p = Resume /\ SweepLists
    BY <1>37
    DEF SweepLists, Goto, CanTransition, ValidTransitions, meta, world, history
  <1>38. CASE p = Resume /\ SweepResumes
    BY <1>38
    DEF SweepResumes, Goto, CanTransition, ValidTransitions, meta, world,
        history
  <1>39. CASE p = Resume /\ SweepRecovers
    BY <1>39
    DEF SweepRecovers, Goto, CanTransition, ValidTransitions, meta, world,
        history
  <1>40. CASE p = Resume /\ SweepSkips
    BY <1>40
    DEF SweepSkips, Leave, CanTransition, ValidTransitions, meta, world,
        history
  <1>41. CASE p = Resume /\ CountAttempt
    BY <1>41
    DEF CountAttempt, Goto, CanTransition, ValidTransitions, meta, world,
        history
  <1>42. CASE p = Resume /\ ResumeFailed
    BY <1>42
    DEF ResumeFailed, Leave, CanTransition, ValidTransitions, meta, world,
        history, Marked
  <1>43. CASE RecoverStrandedMerge(p)
    BY <1>43
    DEF RecoverStrandedMerge, Goto, Leave, CanTransition, ValidTransitions,
        meta, world, history, RestingStatus
  <1>44. CASE p = Reject /\ RejectReads
    BY <1>44
    DEF RejectReads, Goto, CanTransition, ValidTransitions, meta, world,
        history
  <1>45. CASE p = Reject /\ RejectClaimsWorktree
    BY <1>45
    DEF RejectClaimsWorktree, Goto, CanTransition, ValidTransitions, meta,
        world, history
  <1>46. CASE p = Reject /\ EscapeMerging
    BY <1>46
    DEF EscapeMerging, Goto, Leave, CanTransition, ValidTransitions, meta,
        world, history
  <1>47. CASE p = Reject /\ EscapeUnneeded
    BY <1>47
    DEF EscapeUnneeded, Goto, CanTransition, ValidTransitions, meta, world,
        history
  <1>48. CASE p = Reject /\ EscapeRefused
    BY <1>48
    DEF EscapeRefused, Leave, CanTransition, ValidTransitions, meta, world,
        history, Marked
  <1>49. CASE p = Reject /\ EscapeRecovers
    BY <1>49
    DEF EscapeRecovers, Goto, CanTransition, ValidTransitions, meta, world,
        history, WorkLanded
  <1>50. CASE p = Reject /\ RejectRefused
    BY <1>50
    DEF RejectRefused, Leave, CanTransition, ValidTransitions, meta, world,
        history
  <1>51. CASE p = Reject /\ RejectActs
    BY <1>51, Edges
    DEF RejectActs, UpdateTaskStatus, Goto, Leave, meta, world, history
  <1>52. CASE p = Reject /\ RejectAbandons
    BY <1>52, Edges
    DEF RejectAbandons, UpdateTaskStatus, Goto, Leave, meta, world, history
  <1>53. CASE p = Reject /\ RejectEndsSession
    BY <1>53
    DEF RejectEndsSession, Goto, CanTransition, ValidTransitions, meta, world,
        history
  <1>54. CASE p = Reject /\ RejectClosesReview
    BY <1>54
    DEF RejectClosesReview, Leave, CanTransition, ValidTransitions, meta,
        world, history
  <1>55. CASE p = Sync /\ SyncLists
    BY <1>55
    DEF SyncLists, Goto, CanTransition, ValidTransitions, meta, world, history
  <1>56. CASE p = Sync /\ SyncSeesMerged
    BY <1>56
    DEF SyncSeesMerged, Goto, Leave, CanTransition, ValidTransitions, meta,
        world, history
  <1>57. CASE p = Sync /\ CompleteMergedOnForge
    BY <1>57
    DEF CompleteMergedOnForge, Goto, Leave, Committing, CanTransition,
        ValidTransitions, meta, world, history
  <1>58. CASE p = Sync /\ SyncSeesClosed
    BY <1>58
    DEF SyncSeesClosed, Goto, CanTransition, ValidTransitions, meta, world,
        history
  <1>59. CASE p = Sync /\ SyncSeesOpen
    BY <1>59
    DEF SyncSeesOpen, Goto, Leave, CanTransition, ValidTransitions, meta,
        world, history
  <1>60. CASE p = Sync /\ SyncAbandons
    BY <1>60
    DEF SyncAbandons, Leave, CanTransition, ValidTransitions, meta, world,
        history
  <1> QED
    BY <1>1, <1>2, <1>3, <1>4, <1>5, <1>6, <1>7, <1>8, <1>9, <1>10, <1>11,
       <1>12, <1>13, <1>14, <1>15, <1>16, <1>17, <1>18, <1>19, <1>20, <1>21,
       <1>22, <1>23, <1>24, <1>25, <1>26, <1>27, <1>28, <1>29, <1>30, <1>31,
       <1>32, <1>33, <1>34, <1>35, <1>36, <1>37, <1>38, <1>39, <1>40, <1>41,
       <1>42, <1>43, <1>44, <1>45, <1>46, <1>47, <1>48, <1>49, <1>50, <1>51,
       <1>52, <1>53, <1>54, <1>55, <1>56, <1>57, <1>58, <1>59, <1>60
    DEF ActorStep, AcceptStep, ClearStep, CommitStep, SweepStep, RejectStep,
        SyncStep

-----------------------------------------------------------------------------
(* The decision, its comment and the end of the session.                   *)

(* Whose decision it is: the reason that an accept commits with is the     *)
(* person's own, or the one that is on disk.                               *)
ReasonInv ==
    /\ intent \in Accepts \cup {None}
    /\ \A p \in Actors :
          /\ pc[p] \in PreMerge \cup {"early", "preflight", "merged",
                                      "record", "comment"}
               => at[p].reason \in Accepts
          /\ p = Resume /\ pc[p] \in {"sweep", "bump", "wait"}
               => at[p].reason \in Accepts

(* No comment before the work has landed, and one look before each but the *)
(* first: at most one for each reason.                                     *)
NoComments == \A r \in Reasons : comments[r] = 0

CommentInv ==
    /\ \A r \in Reasons : comments[r] \in {0, 1}
    /\ landed = "no" => NoComments
    /\ \A p \in Actors :
          /\ pc[p] = "merged" /\ at[p].kind = "fresh" => NoComments
          /\ pc[p] \in {"record", "comment"}
               => at[p].write /\ (at[p].dedupe \/ NoComments)

(* The comment comes before the session's end, and that before "complete". *)
HasReason == \E a \in Accepts : comments[a] > 0

WrittenInv ==
    /\ session = "accepted" \/ status = "complete" => HasReason
    /\ \A p \in Actors : pc[p] \in {"end", "live", "complete"} => HasReason

(* A fresh accept brings the caller's reason; a resume, and an accept that *)
(* finds a marked task, take the decision that is on disk.                 *)
LEMMA ReasonStep ==
  ASSUME BaseInv, LocalInv, ReasonInv, Forge = FALSE, NEW p \in Actors,
         ActorStep(p)
  PROVE  ReasonInv'
  <1> USE AcceptAssumption, NoneIsNoStatus
          DEF BaseInv, IInv, ControlOK, OwnerInv, Owns, HeldPlaces,
              ClearPlaces, AnyLocals, OneShot, LocalInv, RouteInv, ForgePlaces,
              PreMerge, ReasonInv, MergingInv, DecisionInv, NoLocals
  <1>1. CASE p \in Accepts \cup {Resume} /\ EnterAccept(p)
    BY <1>1 DEF EnterAccept, Goto, meta, world
  <1>2. CASE FinishInterruptedTransition(p)
    BY <1>2
    DEF FinishInterruptedTransition, Committing, Goto, meta, world, Marked,
        WorkLanded
  <1>3. CASE NothingToFinish(p)
    BY <1>3 DEF NothingToFinish, Goto, meta, world, Marked, WorkLanded
  <1>4. CASE PreflightRefuses(p)
    BY <1>4 DEF PreflightRefuses, Leave, meta, world, Acceptable
  <1>5. CASE PreflightPasses(p)
    BY <1>5 DEF PreflightPasses, Goto, Kind, meta, world, Acceptable
  <1>6. CASE GateStarts(p)
    BY <1>6 DEF GateStarts, UpdateTaskStatus, Goto, Leave, meta, world
  <1>7. CASE GatePasses(p)
    BY <1>7 DEF GatePasses, UpdateTaskStatus, Goto, Leave, meta, world
  <1>8. CASE GateRefuses(p)
    BY <1>8 DEF GateRefuses, Leave, meta, world
  <1>9. CASE PremergeRefuses(p)
    BY <1>9 DEF PremergeRefuses, Leave, meta, world, OpenReview, MergesOnForge
  <1>10. CASE BeginMergePhase(p)
    BY <1>10 DEF BeginMergePhase, Goto, meta, world, OpenReview, MergesOnForge
  <1>11. CASE PersistIntent(p)
    BY <1>11 DEF PersistIntent, Goto, meta, world, Reasons
  <1>12. CASE PersistMarker(p)
    BY <1>12 DEF PersistMarker, Goto, meta, world
  <1>13. CASE StampMerging(p)
    BY <1>13 DEF StampMerging, UpdateTaskStatus, Goto, Leave, meta, world
  <1>14. CASE MergeLands(p)
    BY <1>14 DEF MergeLands, Goto, meta, world, Land, MergesOnForge
  <1>15. CASE MergePends(p)
    BY <1>15 DEF MergePends, Goto, meta, world, MergesOnForge, WorkLanded
  <1>16. CASE MergeFails(p)
    BY <1>16 DEF MergeFails, Goto, Leave, meta, world
  <1>17. CASE AbortMergePhase(p)
    BY <1>17 DEF AbortMergePhase, Goto, Leave, meta, world
  <1>18. CASE MetadataSaved(p)
    BY <1>18 DEF MetadataSaved, Committing, Goto, meta, world
  <1>19. CASE MetadataLost(p)
    BY <1>19 DEF MetadataLost, Leave, meta, world
  <1>20. CASE CommentHandedOver(p)
    BY <1>20 DEF CommentHandedOver, Leave, meta, world
  <1>21. CASE ReentryMerged(p)
    BY <1>21 DEF ReentryMerged, Committing, Goto, meta, world
  <1>22. CASE ReentryWaits(p)
    BY <1>22 DEF ReentryWaits, Leave, meta, world
  <1>23. CASE ReentryChecksFailed(p)
    BY <1>23 DEF ReentryChecksFailed, Goto, meta, world
  <1>24. CASE ReentryRetries(p)
    BY <1>24 DEF ReentryRetries, Goto, meta, world
  <1>25. CASE RetryLands(p)
    BY <1>25 DEF RetryLands, Committing, Goto, meta, world, Land
  <1>26. CASE RetryDoesNotLand(p)
    BY <1>26 DEF RetryDoesNotLand, Leave, meta, world
  <1>27. CASE ClearMarker(p)
    BY <1>27 DEF ClearMarker, Goto, meta, world
  <1>28. CASE ClearIntent(p)
    BY <1>28 DEF ClearIntent, Goto, meta, world
  <1>29. CASE ClearAttempts(p)
    BY <1>29 DEF ClearAttempts, Goto, Leave, meta, world
  <1>30. CASE RecordFollowThrough(p)
    BY <1>30 DEF RecordFollowThrough, Goto, meta, world
  <1>31. CASE CommentAccepted(p)
    BY <1>31 DEF CommentAccepted, Goto, meta, world, Written
  <1>32. CASE EndSession(p)
    BY <1>32 DEF EndSession, Goto, meta, world
  <1>33. CASE ReadLive(p)
    BY <1>33 DEF ReadLive, UpdateTaskStatus, Goto, Leave, meta, world
  <1>34. CASE Complete(p)
    BY <1>34 DEF Complete, UpdateTaskStatus, Goto, Leave, meta, world
  <1>35. CASE RunFollowThrough(p)
    BY <1>35 DEF RunFollowThrough, Leave, meta, world, FollowThrough
  <1>36. CASE ParkTaskPaused(p)
    BY <1>36 DEF ParkTaskPaused, Leave, meta, world, PausedStatus
  <1>37. CASE p = Resume /\ SweepLists
    BY <1>37 DEF SweepLists, Goto, meta, world
  <1>38. CASE p = Resume /\ SweepResumes
    BY <1>38 DEF SweepResumes, Goto, meta, world
  <1>39. CASE p = Resume /\ SweepRecovers
    BY <1>39 DEF SweepRecovers, Goto, meta, world
  <1>40. CASE p = Resume /\ SweepSkips
    BY <1>40 DEF SweepSkips, Leave, meta, world
  <1>41. CASE p = Resume /\ CountAttempt
    BY <1>41 DEF CountAttempt, Goto, meta, world
  <1>42. CASE p = Resume /\ ResumeFailed
    BY <1>42 DEF ResumeFailed, Leave, meta, world, Marked
  <1>43. CASE RecoverStrandedMerge(p)
    BY <1>43 DEF RecoverStrandedMerge, Goto, Leave, meta, world, RestingStatus
  <1>44. CASE p = Reject /\ RejectReads
    BY <1>44 DEF RejectReads, Goto, meta, world
  <1>45. CASE p = Reject /\ RejectClaimsWorktree
    BY <1>45 DEF RejectClaimsWorktree, Goto, meta, world
  <1>46. CASE p = Reject /\ EscapeMerging
    BY <1>46 DEF EscapeMerging, Goto, Leave, meta, world
  <1>47. CASE p = Reject /\ EscapeUnneeded
    BY <1>47 DEF EscapeUnneeded, Goto, meta, world
  <1>48. CASE p = Reject /\ EscapeRefused
    BY <1>48 DEF EscapeRefused, Leave, meta, world, Marked
  <1>49. CASE p = Reject /\ EscapeRecovers
    BY <1>49 DEF EscapeRecovers, Goto, meta, world, WorkLanded
  <1>50. CASE p = Reject /\ RejectRefused
    BY <1>50 DEF RejectRefused, Leave, meta, world
  <1>51. CASE p = Reject /\ RejectActs
    BY <1>51 DEF RejectActs, UpdateTaskStatus, Goto, Leave, meta, world
  <1>52. CASE p = Reject /\ RejectAbandons
    BY <1>52 DEF RejectAbandons, UpdateTaskStatus, Goto, Leave, meta, world
  <1>53. CASE p = Reject /\ RejectEndsSession
    BY <1>53 DEF RejectEndsSession, Goto, meta, world
  <1>54. CASE p = Reject /\ RejectClosesReview
    BY <1>54 DEF RejectClosesReview, Leave, meta, world
  <1>55. CASE p = Sync /\ SyncLists
    BY <1>55 DEF SyncLists, Goto, meta, world
  <1>56. CASE p = Sync /\ SyncSeesMerged
    BY <1>56 DEF SyncSeesMerged, Goto, Leave, meta, world
  <1>57. CASE p = Sync /\ CompleteMergedOnForge
    BY <1>57 DEF CompleteMergedOnForge, Goto, Leave, Committing, meta, world
  <1>58. CASE p = Sync /\ SyncSeesClosed
    BY <1>58 DEF SyncSeesClosed, Goto, meta, world
  <1>59. CASE p = Sync /\ SyncSeesOpen
    BY <1>59 DEF SyncSeesOpen, Goto, Leave, meta, world
  <1>60. CASE p = Sync /\ SyncAbandons
    BY <1>60 DEF SyncAbandons, Leave, meta, world
  <1> QED
    BY <1>1, <1>2, <1>3, <1>4, <1>5, <1>6, <1>7, <1>8, <1>9, <1>10, <1>11,
       <1>12, <1>13, <1>14, <1>15, <1>16, <1>17, <1>18, <1>19, <1>20, <1>21,
       <1>22, <1>23, <1>24, <1>25, <1>26, <1>27, <1>28, <1>29, <1>30, <1>31,
       <1>32, <1>33, <1>34, <1>35, <1>36, <1>37, <1>38, <1>39, <1>40, <1>41,
       <1>42, <1>43, <1>44, <1>45, <1>46, <1>47, <1>48, <1>49, <1>50, <1>51,
       <1>52, <1>53, <1>54, <1>55, <1>56, <1>57, <1>58, <1>59, <1>60
    DEF ActorStep, AcceptStep, ClearStep, CommitStep, SweepStep, RejectStep,
        SyncStep

(* A comment is written only by a commit, under the lock: by a fresh       *)
(* accept, before which there was none, or after a look for it.            *)
LEMMA CommentStep ==
  ASSUME BaseInv, LocalInv, ReasonInv, CommentInv, Forge = FALSE,
         NEW p \in Actors, ActorStep(p)
  PROVE  CommentInv'
  <1> USE AcceptAssumption, NoneIsNoStatus
          DEF BaseInv, IInv, ControlOK, OwnerInv, Owns, HeldPlaces,
              ClearPlaces, AnyLocals, OneShot, LocalInv, RouteInv, ForgePlaces,
              PreMerge, ReasonInv, CommentInv, NoComments, FreshInv, HasLanded,
              RestOK, Reasons, LandedPlaces
  <1>1. CASE p \in Accepts \cup {Resume} /\ EnterAccept(p)
    BY <1>1 DEF EnterAccept, Goto, meta, world
  <1>2. CASE FinishInterruptedTransition(p)
    BY <1>2
    DEF FinishInterruptedTransition, Committing, Goto, meta, world, Marked,
        WorkLanded
  <1>3. CASE NothingToFinish(p)
    BY <1>3 DEF NothingToFinish, Goto, meta, world, Marked, WorkLanded
  <1>4. CASE PreflightRefuses(p)
    BY <1>4 DEF PreflightRefuses, Leave, meta, world, Acceptable
  <1>5. CASE PreflightPasses(p)
    BY <1>5 DEF PreflightPasses, Goto, Kind, meta, world, Acceptable
  <1>6. CASE GateStarts(p)
    BY <1>6 DEF GateStarts, UpdateTaskStatus, Goto, Leave, meta, world
  <1>7. CASE GatePasses(p)
    BY <1>7 DEF GatePasses, UpdateTaskStatus, Goto, Leave, meta, world
  <1>8. CASE GateRefuses(p)
    BY <1>8 DEF GateRefuses, Leave, meta, world
  <1>9. CASE PremergeRefuses(p)
    BY <1>9 DEF PremergeRefuses, Leave, meta, world, OpenReview, MergesOnForge
  <1>10. CASE BeginMergePhase(p)
    BY <1>10 DEF BeginMergePhase, Goto, meta, world, OpenReview, MergesOnForge
  <1>11. CASE PersistIntent(p)
    BY <1>11 DEF PersistIntent, Goto, meta, world, Reasons
  <1>12. CASE PersistMarker(p)
    BY <1>12 DEF PersistMarker, Goto, meta, world
  <1>13. CASE StampMerging(p)
    BY <1>13 DEF StampMerging, UpdateTaskStatus, Goto, Leave, meta, world
  <1>14. CASE MergeLands(p)
    BY <1>14 DEF MergeLands, Goto, meta, world, Land, MergesOnForge
  <1>15. CASE MergePends(p)
    BY <1>15 DEF MergePends, Goto, meta, world, MergesOnForge, WorkLanded
  <1>16. CASE MergeFails(p)
    BY <1>16 DEF MergeFails, Goto, Leave, meta, world
  <1>17. CASE AbortMergePhase(p)
    BY <1>17 DEF AbortMergePhase, Goto, Leave, meta, world
  <1>18. CASE MetadataSaved(p)
    BY <1>18 DEF MetadataSaved, Committing, Goto, meta, world
  <1>19. CASE MetadataLost(p)
    BY <1>19 DEF MetadataLost, Leave, meta, world
  <1>20. CASE CommentHandedOver(p)
    BY <1>20 DEF CommentHandedOver, Leave, meta, world
  <1>21. CASE ReentryMerged(p)
    BY <1>21 DEF ReentryMerged, Committing, Goto, meta, world
  <1>22. CASE ReentryWaits(p)
    BY <1>22 DEF ReentryWaits, Leave, meta, world
  <1>23. CASE ReentryChecksFailed(p)
    BY <1>23 DEF ReentryChecksFailed, Goto, meta, world
  <1>24. CASE ReentryRetries(p)
    BY <1>24 DEF ReentryRetries, Goto, meta, world
  <1>25. CASE RetryLands(p)
    BY <1>25 DEF RetryLands, Committing, Goto, meta, world, Land
  <1>26. CASE RetryDoesNotLand(p)
    BY <1>26 DEF RetryDoesNotLand, Leave, meta, world
  <1>27. CASE ClearMarker(p)
    BY <1>27 DEF ClearMarker, Goto, meta, world
  <1>28. CASE ClearIntent(p)
    BY <1>28 DEF ClearIntent, Goto, meta, world
  <1>29. CASE ClearAttempts(p)
    BY <1>29 DEF ClearAttempts, Goto, Leave, meta, world
  <1>30. CASE RecordFollowThrough(p)
    BY <1>30 DEF RecordFollowThrough, Goto, meta, world
  <1>31. CASE CommentAccepted(p)
    BY <1>31 DEF CommentAccepted, Goto, meta, world, Written
  <1>32. CASE EndSession(p)
    BY <1>32 DEF EndSession, Goto, meta, world
  <1>33. CASE ReadLive(p)
    BY <1>33 DEF ReadLive, UpdateTaskStatus, Goto, Leave, meta, world
  <1>34. CASE Complete(p)
    BY <1>34 DEF Complete, UpdateTaskStatus, Goto, Leave, meta, world
  <1>35. CASE RunFollowThrough(p)
    BY <1>35 DEF RunFollowThrough, Leave, meta, world, FollowThrough
  <1>36. CASE ParkTaskPaused(p)
    BY <1>36 DEF ParkTaskPaused, Leave, meta, world, PausedStatus
  <1>37. CASE p = Resume /\ SweepLists
    BY <1>37 DEF SweepLists, Goto, meta, world
  <1>38. CASE p = Resume /\ SweepResumes
    BY <1>38 DEF SweepResumes, Goto, meta, world
  <1>39. CASE p = Resume /\ SweepRecovers
    BY <1>39 DEF SweepRecovers, Goto, meta, world
  <1>40. CASE p = Resume /\ SweepSkips
    BY <1>40 DEF SweepSkips, Leave, meta, world
  <1>41. CASE p = Resume /\ CountAttempt
    BY <1>41 DEF CountAttempt, Goto, meta, world
  <1>42. CASE p = Resume /\ ResumeFailed
    BY <1>42 DEF ResumeFailed, Leave, meta, world, Marked
  <1>43. CASE RecoverStrandedMerge(p)
    BY <1>43 DEF RecoverStrandedMerge, Goto, Leave, meta, world, RestingStatus
  <1>44. CASE p = Reject /\ RejectReads
    BY <1>44 DEF RejectReads, Goto, meta, world
  <1>45. CASE p = Reject /\ RejectClaimsWorktree
    BY <1>45 DEF RejectClaimsWorktree, Goto, meta, world
  <1>46. CASE p = Reject /\ EscapeMerging
    BY <1>46 DEF EscapeMerging, Goto, Leave, meta, world
  <1>47. CASE p = Reject /\ EscapeUnneeded
    BY <1>47 DEF EscapeUnneeded, Goto, meta, world
  <1>48. CASE p = Reject /\ EscapeRefused
    BY <1>48 DEF EscapeRefused, Leave, meta, world, Marked
  <1>49. CASE p = Reject /\ EscapeRecovers
    BY <1>49 DEF EscapeRecovers, Goto, meta, world, WorkLanded
  <1>50. CASE p = Reject /\ RejectRefused
    BY <1>50 DEF RejectRefused, Leave, meta, world
  <1>51. CASE p = Reject /\ RejectActs
    BY <1>51 DEF RejectActs, UpdateTaskStatus, Goto, Leave, meta, world
  <1>52. CASE p = Reject /\ RejectAbandons
    BY <1>52 DEF RejectAbandons, UpdateTaskStatus, Goto, Leave, meta, world
  <1>53. CASE p = Reject /\ RejectEndsSession
    BY <1>53 DEF RejectEndsSession, Goto, meta, world
  <1>54. CASE p = Reject /\ RejectClosesReview
    BY <1>54 DEF RejectClosesReview, Leave, meta, world
  <1>55. CASE p = Sync /\ SyncLists
    BY <1>55 DEF SyncLists, Goto, meta, world
  <1>56. CASE p = Sync /\ SyncSeesMerged
    BY <1>56 DEF SyncSeesMerged, Goto, Leave, meta, world
  <1>57. CASE p = Sync /\ CompleteMergedOnForge
    BY <1>57 DEF CompleteMergedOnForge, Goto, Leave, Committing, meta, world
  <1>58. CASE p = Sync /\ SyncSeesClosed
    BY <1>58 DEF SyncSeesClosed, Goto, meta, world
  <1>59. CASE p = Sync /\ SyncSeesOpen
    BY <1>59 DEF SyncSeesOpen, Goto, Leave, meta, world
  <1>60. CASE p = Sync /\ SyncAbandons
    BY <1>60 DEF SyncAbandons, Leave, meta, world
  <1> QED
    BY <1>1, <1>2, <1>3, <1>4, <1>5, <1>6, <1>7, <1>8, <1>9, <1>10, <1>11,
       <1>12, <1>13, <1>14, <1>15, <1>16, <1>17, <1>18, <1>19, <1>20, <1>21,
       <1>22, <1>23, <1>24, <1>25, <1>26, <1>27, <1>28, <1>29, <1>30, <1>31,
       <1>32, <1>33, <1>34, <1>35, <1>36, <1>37, <1>38, <1>39, <1>40, <1>41,
       <1>42, <1>43, <1>44, <1>45, <1>46, <1>47, <1>48, <1>49, <1>50, <1>51,
       <1>52, <1>53, <1>54, <1>55, <1>56, <1>57, <1>58, <1>59, <1>60
    DEF ActorStep, AcceptStep, ClearStep, CommitStep, SweepStep, RejectStep,
        SyncStep

(* Every way to an ended session and to "complete" passes the comment. *)
LEMMA WrittenStep ==
  ASSUME BaseInv, LocalInv, ReasonInv, CommentInv, WrittenInv, Forge = FALSE,
         NEW p \in Actors, ActorStep(p)
  PROVE  WrittenInv'
  <1> USE AcceptAssumption, NoneIsNoStatus
          DEF BaseInv, IInv, ControlOK, OwnerInv, Owns, HeldPlaces,
              ClearPlaces, AnyLocals, OneShot, LocalInv, RouteInv, ForgePlaces,
              PreMerge, ReasonInv, CommentInv, WrittenInv, HasReason, FreshInv,
              HasLanded, RestOK, Reasons, LandedPlaces
  <1>1. CASE p \in Accepts \cup {Resume} /\ EnterAccept(p)
    BY <1>1 DEF EnterAccept, Goto, meta, world
  <1>2. CASE FinishInterruptedTransition(p)
    BY <1>2
    DEF FinishInterruptedTransition, Committing, Goto, meta, world, Marked,
        WorkLanded
  <1>3. CASE NothingToFinish(p)
    BY <1>3 DEF NothingToFinish, Goto, meta, world, Marked, WorkLanded
  <1>4. CASE PreflightRefuses(p)
    BY <1>4 DEF PreflightRefuses, Leave, meta, world, Acceptable
  <1>5. CASE PreflightPasses(p)
    BY <1>5 DEF PreflightPasses, Goto, Kind, meta, world, Acceptable
  <1>6. CASE GateStarts(p)
    BY <1>6 DEF GateStarts, UpdateTaskStatus, Goto, Leave, meta, world
  <1>7. CASE GatePasses(p)
    BY <1>7 DEF GatePasses, UpdateTaskStatus, Goto, Leave, meta, world
  <1>8. CASE GateRefuses(p)
    BY <1>8 DEF GateRefuses, Leave, meta, world
  <1>9. CASE PremergeRefuses(p)
    BY <1>9 DEF PremergeRefuses, Leave, meta, world, OpenReview, MergesOnForge
  <1>10. CASE BeginMergePhase(p)
    BY <1>10 DEF BeginMergePhase, Goto, meta, world, OpenReview, MergesOnForge
  <1>11. CASE PersistIntent(p)
    BY <1>11 DEF PersistIntent, Goto, meta, world, Reasons
  <1>12. CASE PersistMarker(p)
    BY <1>12 DEF PersistMarker, Goto, meta, world
  <1>13. CASE StampMerging(p)
    BY <1>13 DEF StampMerging, UpdateTaskStatus, Goto, Leave, meta, world
  <1>14. CASE MergeLands(p)
    BY <1>14 DEF MergeLands, Goto, meta, world, Land, MergesOnForge
  <1>15. CASE MergePends(p)
    BY <1>15 DEF MergePends, Goto, meta, world, MergesOnForge, WorkLanded
  <1>16. CASE MergeFails(p)
    BY <1>16 DEF MergeFails, Goto, Leave, meta, world
  <1>17. CASE AbortMergePhase(p)
    BY <1>17 DEF AbortMergePhase, Goto, Leave, meta, world
  <1>18. CASE MetadataSaved(p)
    BY <1>18 DEF MetadataSaved, Committing, Goto, meta, world
  <1>19. CASE MetadataLost(p)
    BY <1>19 DEF MetadataLost, Leave, meta, world
  <1>20. CASE CommentHandedOver(p)
    BY <1>20 DEF CommentHandedOver, Leave, meta, world
  <1>21. CASE ReentryMerged(p)
    BY <1>21 DEF ReentryMerged, Committing, Goto, meta, world
  <1>22. CASE ReentryWaits(p)
    BY <1>22 DEF ReentryWaits, Leave, meta, world
  <1>23. CASE ReentryChecksFailed(p)
    BY <1>23 DEF ReentryChecksFailed, Goto, meta, world
  <1>24. CASE ReentryRetries(p)
    BY <1>24 DEF ReentryRetries, Goto, meta, world
  <1>25. CASE RetryLands(p)
    BY <1>25 DEF RetryLands, Committing, Goto, meta, world, Land
  <1>26. CASE RetryDoesNotLand(p)
    BY <1>26 DEF RetryDoesNotLand, Leave, meta, world
  <1>27. CASE ClearMarker(p)
    BY <1>27 DEF ClearMarker, Goto, meta, world
  <1>28. CASE ClearIntent(p)
    BY <1>28 DEF ClearIntent, Goto, meta, world
  <1>29. CASE ClearAttempts(p)
    BY <1>29 DEF ClearAttempts, Goto, Leave, meta, world
  <1>30. CASE RecordFollowThrough(p)
    BY <1>30 DEF RecordFollowThrough, Goto, meta, world
  <1>31. CASE CommentAccepted(p)
    BY <1>31 DEF CommentAccepted, Goto, meta, world, Written
  <1>32. CASE EndSession(p)
    BY <1>32 DEF EndSession, Goto, meta, world
  <1>33. CASE ReadLive(p)
    BY <1>33 DEF ReadLive, UpdateTaskStatus, Goto, Leave, meta, world
  <1>34. CASE Complete(p)
    BY <1>34 DEF Complete, UpdateTaskStatus, Goto, Leave, meta, world
  <1>35. CASE RunFollowThrough(p)
    BY <1>35 DEF RunFollowThrough, Leave, meta, world, FollowThrough
  <1>36. CASE ParkTaskPaused(p)
    BY <1>36 DEF ParkTaskPaused, Leave, meta, world, PausedStatus
  <1>37. CASE p = Resume /\ SweepLists
    BY <1>37 DEF SweepLists, Goto, meta, world
  <1>38. CASE p = Resume /\ SweepResumes
    BY <1>38 DEF SweepResumes, Goto, meta, world
  <1>39. CASE p = Resume /\ SweepRecovers
    BY <1>39 DEF SweepRecovers, Goto, meta, world
  <1>40. CASE p = Resume /\ SweepSkips
    BY <1>40 DEF SweepSkips, Leave, meta, world
  <1>41. CASE p = Resume /\ CountAttempt
    BY <1>41 DEF CountAttempt, Goto, meta, world
  <1>42. CASE p = Resume /\ ResumeFailed
    BY <1>42 DEF ResumeFailed, Leave, meta, world, Marked
  <1>43. CASE RecoverStrandedMerge(p)
    BY <1>43 DEF RecoverStrandedMerge, Goto, Leave, meta, world, RestingStatus
  <1>44. CASE p = Reject /\ RejectReads
    BY <1>44 DEF RejectReads, Goto, meta, world
  <1>45. CASE p = Reject /\ RejectClaimsWorktree
    BY <1>45 DEF RejectClaimsWorktree, Goto, meta, world
  <1>46. CASE p = Reject /\ EscapeMerging
    BY <1>46 DEF EscapeMerging, Goto, Leave, meta, world
  <1>47. CASE p = Reject /\ EscapeUnneeded
    BY <1>47 DEF EscapeUnneeded, Goto, meta, world
  <1>48. CASE p = Reject /\ EscapeRefused
    BY <1>48 DEF EscapeRefused, Leave, meta, world, Marked
  <1>49. CASE p = Reject /\ EscapeRecovers
    BY <1>49 DEF EscapeRecovers, Goto, meta, world, WorkLanded
  <1>50. CASE p = Reject /\ RejectRefused
    BY <1>50 DEF RejectRefused, Leave, meta, world
  <1>51. CASE p = Reject /\ RejectActs
    BY <1>51 DEF RejectActs, UpdateTaskStatus, Goto, Leave, meta, world
  <1>52. CASE p = Reject /\ RejectAbandons
    BY <1>52 DEF RejectAbandons, UpdateTaskStatus, Goto, Leave, meta, world
  <1>53. CASE p = Reject /\ RejectEndsSession
    BY <1>53 DEF RejectEndsSession, Goto, meta, world
  <1>54. CASE p = Reject /\ RejectClosesReview
    BY <1>54 DEF RejectClosesReview, Leave, meta, world
  <1>55. CASE p = Sync /\ SyncLists
    BY <1>55 DEF SyncLists, Goto, meta, world
  <1>56. CASE p = Sync /\ SyncSeesMerged
    BY <1>56 DEF SyncSeesMerged, Goto, Leave, meta, world
  <1>57. CASE p = Sync /\ CompleteMergedOnForge
    BY <1>57 DEF CompleteMergedOnForge, Goto, Leave, Committing, meta, world
  <1>58. CASE p = Sync /\ SyncSeesClosed
    BY <1>58 DEF SyncSeesClosed, Goto, meta, world
  <1>59. CASE p = Sync /\ SyncSeesOpen
    BY <1>59 DEF SyncSeesOpen, Goto, Leave, meta, world
  <1>60. CASE p = Sync /\ SyncAbandons
    BY <1>60 DEF SyncAbandons, Leave, meta, world
  <1> QED
    BY <1>1, <1>2, <1>3, <1>4, <1>5, <1>6, <1>7, <1>8, <1>9, <1>10, <1>11,
       <1>12, <1>13, <1>14, <1>15, <1>16, <1>17, <1>18, <1>19, <1>20, <1>21,
       <1>22, <1>23, <1>24, <1>25, <1>26, <1>27, <1>28, <1>29, <1>30, <1>31,
       <1>32, <1>33, <1>34, <1>35, <1>36, <1>37, <1>38, <1>39, <1>40, <1>41,
       <1>42, <1>43, <1>44, <1>45, <1>46, <1>47, <1>48, <1>49, <1>50, <1>51,
       <1>52, <1>53, <1>54, <1>55, <1>56, <1>57, <1>58, <1>59, <1>60
    DEF ActorStep, AcceptStep, ClearStep, CommitStep, SweepStep, RejectStep,
        SyncStep

-----------------------------------------------------------------------------
(* The verdicts.                                                           *)

(* What the verdicts rest on when no gate takes a task out of its status:  *)
(* a rejected task is "abandoned" and stays so.                            *)
RejectedInv ==
    /\ session = "rejected" => status = "abandoned"
    /\ \A p \in Actors : /\ pc[p] \notin {"gate", "gating"}
                         /\ pc[p] = "endRejected" => status = "abandoned"

(* A reject that read the session while it was open escapes no merge whose *)
(* session has been accepted since: that handler still holds the lock.     *)
Escaping == {"claim", "escape", "escaping"}
Finishing == \E q \in Actors : pc[q] \in {"live", "complete"}

EscapeInv ==
    \A p \in Actors :
        pc[p] \in Escaping /\ status = "merging" /\ session = "accepted"
            => Finishing

(* What a step of the handler p may do to what EscapeInv relates. *)
EscapeMove(p) ==
    /\ status' = "merging" => status = "merging" \/ session' # "accepted"
    /\ session' = "accepted" => session = "accepted" \/ pc'[p] = "live"
    /\ pc'[p] \in Escaping => pc[p] \in Escaping \/ session' # "accepted"
    /\ pc[p] \in {"live", "complete"}
         => pc'[p] \in {"live", "complete"} \/ status' # "merging"

(* rejectTask ends the session only after it wrote "abandoned", out of     *)
(* which no write of a handler leads but the gate's.                       *)
LEMMA RejectedStep ==
  ASSUME BaseInv, LocalInv, RejectedInv, Gate = FALSE, Forge = FALSE, NEW p
         \in Actors, ActorStep(p)
  PROVE  RejectedInv'
  <1> USE AcceptAssumption, NoneIsNoStatus
          DEF BaseInv, IInv, ControlOK, OwnerInv, Owns, HeldPlaces,
              ClearPlaces, AnyLocals, OneShot, LocalInv, RouteInv, ForgePlaces,
              PreMerge, MergeWork, RejectedInv, MergingInv, FreshInv, PriorInv,
              BlockedStatuses
  <1>1. CASE p \in Accepts \cup {Resume} /\ EnterAccept(p)
    BY <1>1 DEF EnterAccept, Goto, meta, world, history, TerminalStatuses
  <1>2. CASE FinishInterruptedTransition(p)
    BY <1>2
    DEF FinishInterruptedTransition, Committing, Goto, meta, world, history,
        TerminalStatuses, Marked, WorkLanded
  <1>3. CASE NothingToFinish(p)
    BY <1>3
    DEF NothingToFinish, Goto, meta, world, history, TerminalStatuses, Marked,
        WorkLanded
  <1>4. CASE PreflightRefuses(p)
    BY <1>4
    DEF PreflightRefuses, Leave, meta, world, history, TerminalStatuses,
        Acceptable
  <1>5. CASE PreflightPasses(p)
    BY <1>5
    DEF PreflightPasses, Goto, Kind, meta, world, history, TerminalStatuses,
        Acceptable
  <1>6. CASE GateStarts(p)
    BY <1>6
    DEF GateStarts, UpdateTaskStatus, Goto, Leave, meta, world, history,
        TerminalStatuses
  <1>7. CASE GatePasses(p)
    BY <1>7
    DEF GatePasses, UpdateTaskStatus, Goto, Leave, meta, world, history,
        TerminalStatuses
  <1>8. CASE GateRefuses(p)
    BY <1>8 DEF GateRefuses, Leave, meta, world, history, TerminalStatuses
  <1>9. CASE PremergeRefuses(p)
    BY <1>9
    DEF PremergeRefuses, Leave, meta, world, history, TerminalStatuses,
        OpenReview, MergesOnForge
  <1>10. CASE BeginMergePhase(p)
    BY <1>10
    DEF BeginMergePhase, Goto, meta, world, history, TerminalStatuses,
        OpenReview, MergesOnForge
  <1>11. CASE PersistIntent(p)
    BY <1>11
    DEF PersistIntent, Goto, meta, world, history, TerminalStatuses, Reasons
  <1>12. CASE PersistMarker(p)
    BY <1>12 DEF PersistMarker, Goto, meta, world, history, TerminalStatuses
  <1>13. CASE StampMerging(p)
    BY <1>13, Edges
    DEF StampMerging, UpdateTaskStatus, Goto, Leave, meta, world, history,
        TerminalStatuses
  <1>14. CASE MergeLands(p)
    BY <1>14
    DEF MergeLands, Goto, meta, world, history, TerminalStatuses, Land,
        MergesOnForge
  <1>15. CASE MergePends(p)
    BY <1>15
    DEF MergePends, Goto, meta, world, history, TerminalStatuses,
        MergesOnForge, WorkLanded
  <1>16. CASE MergeFails(p)
    BY <1>16
    DEF MergeFails, Goto, Leave, meta, world, history, TerminalStatuses
  <1>17. CASE AbortMergePhase(p)
    BY <1>17, Edges
    DEF AbortMergePhase, Goto, Leave, meta, world, history, TerminalStatuses
  <1>18. CASE MetadataSaved(p)
    BY <1>18
    DEF MetadataSaved, Committing, Goto, meta, world, history, TerminalStatuses
  <1>19. CASE MetadataLost(p)
    BY <1>19 DEF MetadataLost, Leave, meta, world, history, TerminalStatuses
  <1>20. CASE CommentHandedOver(p)
    BY <1>20
    DEF CommentHandedOver, Leave, meta, world, history, TerminalStatuses
  <1>21. CASE ReentryMerged(p)
    BY <1>21
    DEF ReentryMerged, Committing, Goto, meta, world, history, TerminalStatuses
  <1>22. CASE ReentryWaits(p)
    BY <1>22 DEF ReentryWaits, Leave, meta, world, history, TerminalStatuses
  <1>23. CASE ReentryChecksFailed(p)
    BY <1>23
    DEF ReentryChecksFailed, Goto, meta, world, history, TerminalStatuses
  <1>24. CASE ReentryRetries(p)
    BY <1>24 DEF ReentryRetries, Goto, meta, world, history, TerminalStatuses
  <1>25. CASE RetryLands(p)
    BY <1>25
    DEF RetryLands, Committing, Goto, meta, world, history, TerminalStatuses,
        Land
  <1>26. CASE RetryDoesNotLand(p)
    BY <1>26
    DEF RetryDoesNotLand, Leave, meta, world, history, TerminalStatuses
  <1>27. CASE ClearMarker(p)
    BY <1>27 DEF ClearMarker, Goto, meta, world, history, TerminalStatuses
  <1>28. CASE ClearIntent(p)
    BY <1>28 DEF ClearIntent, Goto, meta, world, history, TerminalStatuses
  <1>29. CASE ClearAttempts(p)
    BY <1>29
    DEF ClearAttempts, Goto, Leave, meta, world, history, TerminalStatuses
  <1>30. CASE RecordFollowThrough(p)
    BY <1>30
    DEF RecordFollowThrough, Goto, meta, world, history, TerminalStatuses
  <1>31. CASE CommentAccepted(p)
    BY <1>31
    DEF CommentAccepted, Goto, meta, world, history, TerminalStatuses, Written
  <1>32. CASE EndSession(p)
    BY <1>32 DEF EndSession, Goto, meta, world, history, TerminalStatuses
  <1>33. CASE ReadLive(p)
    BY <1>33, Edges
    DEF ReadLive, UpdateTaskStatus, Goto, Leave, meta, world, history,
        TerminalStatuses
  <1>34. CASE Complete(p)
    BY <1>34, Edges
    DEF Complete, UpdateTaskStatus, Goto, Leave, meta, world, history,
        TerminalStatuses
  <1>35. CASE RunFollowThrough(p)
    BY <1>35
    DEF RunFollowThrough, Leave, meta, world, history, TerminalStatuses,
        FollowThrough
  <1>36. CASE ParkTaskPaused(p)
    BY <1>36
    DEF ParkTaskPaused, Leave, meta, world, history, TerminalStatuses,
        PausedStatus
  <1>37. CASE p = Resume /\ SweepLists
    BY <1>37 DEF SweepLists, Goto, meta, world, history, TerminalStatuses
  <1>38. CASE p = Resume /\ SweepResumes
    BY <1>38 DEF SweepResumes, Goto, meta, world, history, TerminalStatuses
  <1>39. CASE p = Resume /\ SweepRecovers
    BY <1>39 DEF SweepRecovers, Goto, meta, world, history, TerminalStatuses
  <1>40. CASE p = Resume /\ SweepSkips
    BY <1>40 DEF SweepSkips, Leave, meta, world, history, TerminalStatuses
  <1>41. CASE p = Resume /\ CountAttempt
    BY <1>41 DEF CountAttempt, Goto, meta, world, history, TerminalStatuses
  <1>42. CASE p = Resume /\ ResumeFailed
    BY <1>42
    DEF ResumeFailed, Leave, meta, world, history, TerminalStatuses, Marked
  <1>43. CASE RecoverStrandedMerge(p)
    BY <1>43, Edges
    DEF RecoverStrandedMerge, Goto, Leave, meta, world, history,
        TerminalStatuses, RestingStatus
  <1>44. CASE p = Reject /\ RejectReads
    BY <1>44 DEF RejectReads, Goto, meta, world, history, TerminalStatuses
  <1>45. CASE p = Reject /\ RejectClaimsWorktree
    BY <1>45
    DEF RejectClaimsWorktree, Goto, meta, world, history, TerminalStatuses
  <1>46. CASE p = Reject /\ EscapeMerging
    BY <1>46
    DEF EscapeMerging, Goto, Leave, meta, world, history, TerminalStatuses
  <1>47. CASE p = Reject /\ EscapeUnneeded
    BY <1>47 DEF EscapeUnneeded, Goto, meta, world, history, TerminalStatuses
  <1>48. CASE p = Reject /\ EscapeRefused
    BY <1>48
    DEF EscapeRefused, Leave, meta, world, history, TerminalStatuses, Marked
  <1>49. CASE p = Reject /\ EscapeRecovers
    BY <1>49
    DEF EscapeRecovers, Goto, meta, world, history, TerminalStatuses,
        WorkLanded
  <1>50. CASE p = Reject /\ RejectRefused
    BY <1>50 DEF RejectRefused, Leave, meta, world, history, TerminalStatuses
  <1>51. CASE p = Reject /\ RejectActs
    BY <1>51, Edges
    DEF RejectActs, UpdateTaskStatus, Goto, Leave, meta, world, history,
        TerminalStatuses
  <1>52. CASE p = Reject /\ RejectAbandons
    BY <1>52, Edges
    DEF RejectAbandons, UpdateTaskStatus, Goto, Leave, meta, world, history,
        TerminalStatuses
  <1>53. CASE p = Reject /\ RejectEndsSession
    BY <1>53
    DEF RejectEndsSession, Goto, meta, world, history, TerminalStatuses
  <1>54. CASE p = Reject /\ RejectClosesReview
    BY <1>54
    DEF RejectClosesReview, Leave, meta, world, history, TerminalStatuses
  <1>55. CASE p = Sync /\ SyncLists
    BY <1>55 DEF SyncLists, Goto, meta, world, history, TerminalStatuses
  <1>56. CASE p = Sync /\ SyncSeesMerged
    BY <1>56
    DEF SyncSeesMerged, Goto, Leave, meta, world, history, TerminalStatuses
  <1>57. CASE p = Sync /\ CompleteMergedOnForge
    BY <1>57
    DEF CompleteMergedOnForge, Goto, Leave, Committing, meta, world, history,
        TerminalStatuses
  <1>58. CASE p = Sync /\ SyncSeesClosed
    BY <1>58 DEF SyncSeesClosed, Goto, meta, world, history, TerminalStatuses
  <1>59. CASE p = Sync /\ SyncSeesOpen
    BY <1>59
    DEF SyncSeesOpen, Goto, Leave, meta, world, history, TerminalStatuses
  <1>60. CASE p = Sync /\ SyncAbandons
    BY <1>60 DEF SyncAbandons, Leave, meta, world, history, TerminalStatuses
  <1> QED
    BY <1>1, <1>2, <1>3, <1>4, <1>5, <1>6, <1>7, <1>8, <1>9, <1>10, <1>11,
       <1>12, <1>13, <1>14, <1>15, <1>16, <1>17, <1>18, <1>19, <1>20, <1>21,
       <1>22, <1>23, <1>24, <1>25, <1>26, <1>27, <1>28, <1>29, <1>30, <1>31,
       <1>32, <1>33, <1>34, <1>35, <1>36, <1>37, <1>38, <1>39, <1>40, <1>41,
       <1>42, <1>43, <1>44, <1>45, <1>46, <1>47, <1>48, <1>49, <1>50, <1>51,
       <1>52, <1>53, <1>54, <1>55, <1>56, <1>57, <1>58, <1>59, <1>60
    DEF ActorStep, AcceptStep, ClearStep, CommitStep, SweepStep, RejectStep,
        SyncStep

(* Only EndSession accepts, and goes on at "live"; a merging task whose    *)
(* session is accepted leaves that place for "complete" alone.             *)
LEMMA EscapeMoves ==
  ASSUME BaseInv, LocalInv, RejectedInv, Forge = FALSE, NEW p \in Actors,
         ActorStep(p)
  PROVE  EscapeMove(p)
  <1> USE AcceptAssumption, NoneIsNoStatus
          DEF BaseInv, IInv, ControlOK, OwnerInv, Owns, HeldPlaces,
              ClearPlaces, AnyLocals, OneShot, LocalInv, RouteInv, ForgePlaces,
              PreMerge, MergeWork, EscapeMove, Escaping, RejectedInv,
              MergingInv, FreshInv, PriorInv, BlockedStatuses
  <1>1. CASE p \in Accepts \cup {Resume} /\ EnterAccept(p)
    BY <1>1 DEF EnterAccept, Goto, meta, world, history, TerminalStatuses
  <1>2. CASE FinishInterruptedTransition(p)
    BY <1>2
    DEF FinishInterruptedTransition, Committing, Goto, meta, world, history,
        TerminalStatuses, Marked, WorkLanded
  <1>3. CASE NothingToFinish(p)
    BY <1>3
    DEF NothingToFinish, Goto, meta, world, history, TerminalStatuses, Marked,
        WorkLanded
  <1>4. CASE PreflightRefuses(p)
    BY <1>4
    DEF PreflightRefuses, Leave, meta, world, history, TerminalStatuses,
        Acceptable
  <1>5. CASE PreflightPasses(p)
    BY <1>5
    DEF PreflightPasses, Goto, Kind, meta, world, history, TerminalStatuses,
        Acceptable
  <1>6. CASE GateStarts(p)
    BY <1>6
    DEF GateStarts, UpdateTaskStatus, Goto, Leave, meta, world, history,
        TerminalStatuses
  <1>7. CASE GatePasses(p)
    BY <1>7
    DEF GatePasses, UpdateTaskStatus, Goto, Leave, meta, world, history,
        TerminalStatuses
  <1>8. CASE GateRefuses(p)
    BY <1>8 DEF GateRefuses, Leave, meta, world, history, TerminalStatuses
  <1>9. CASE PremergeRefuses(p)
    BY <1>9
    DEF PremergeRefuses, Leave, meta, world, history, TerminalStatuses,
        OpenReview, MergesOnForge
  <1>10. CASE BeginMergePhase(p)
    BY <1>10
    DEF BeginMergePhase, Goto, meta, world, history, TerminalStatuses,
        OpenReview, MergesOnForge
  <1>11. CASE PersistIntent(p)
    BY <1>11
    DEF PersistIntent, Goto, meta, world, history, TerminalStatuses, Reasons
  <1>12. CASE PersistMarker(p)
    BY <1>12 DEF PersistMarker, Goto, meta, world, history, TerminalStatuses
  <1>13. CASE StampMerging(p)
    BY <1>13, Edges
    DEF StampMerging, UpdateTaskStatus, Goto, Leave, meta, world, history,
        TerminalStatuses
  <1>14. CASE MergeLands(p)
    BY <1>14
    DEF MergeLands, Goto, meta, world, history, TerminalStatuses, Land,
        MergesOnForge
  <1>15. CASE MergePends(p)
    BY <1>15
    DEF MergePends, Goto, meta, world, history, TerminalStatuses,
        MergesOnForge, WorkLanded
  <1>16. CASE MergeFails(p)
    BY <1>16
    DEF MergeFails, Goto, Leave, meta, world, history, TerminalStatuses
  <1>17. CASE AbortMergePhase(p)
    BY <1>17, Edges
    DEF AbortMergePhase, Goto, Leave, meta, world, history, TerminalStatuses
  <1>18. CASE MetadataSaved(p)
    BY <1>18
    DEF MetadataSaved, Committing, Goto, meta, world, history, TerminalStatuses
  <1>19. CASE MetadataLost(p)
    BY <1>19 DEF MetadataLost, Leave, meta, world, history, TerminalStatuses
  <1>20. CASE CommentHandedOver(p)
    BY <1>20
    DEF CommentHandedOver, Leave, meta, world, history, TerminalStatuses
  <1>21. CASE ReentryMerged(p)
    BY <1>21
    DEF ReentryMerged, Committing, Goto, meta, world, history, TerminalStatuses
  <1>22. CASE ReentryWaits(p)
    BY <1>22 DEF ReentryWaits, Leave, meta, world, history, TerminalStatuses
  <1>23. CASE ReentryChecksFailed(p)
    BY <1>23
    DEF ReentryChecksFailed, Goto, meta, world, history, TerminalStatuses
  <1>24. CASE ReentryRetries(p)
    BY <1>24 DEF ReentryRetries, Goto, meta, world, history, TerminalStatuses
  <1>25. CASE RetryLands(p)
    BY <1>25
    DEF RetryLands, Committing, Goto, meta, world, history, TerminalStatuses,
        Land
  <1>26. CASE RetryDoesNotLand(p)
    BY <1>26
    DEF RetryDoesNotLand, Leave, meta, world, history, TerminalStatuses
  <1>27. CASE ClearMarker(p)
    BY <1>27 DEF ClearMarker, Goto, meta, world, history, TerminalStatuses
  <1>28. CASE ClearIntent(p)
    BY <1>28 DEF ClearIntent, Goto, meta, world, history, TerminalStatuses
  <1>29. CASE ClearAttempts(p)
    BY <1>29
    DEF ClearAttempts, Goto, Leave, meta, world, history, TerminalStatuses
  <1>30. CASE RecordFollowThrough(p)
    BY <1>30
    DEF RecordFollowThrough, Goto, meta, world, history, TerminalStatuses
  <1>31. CASE CommentAccepted(p)
    BY <1>31
    DEF CommentAccepted, Goto, meta, world, history, TerminalStatuses, Written
  <1>32. CASE EndSession(p)
    BY <1>32 DEF EndSession, Goto, meta, world, history, TerminalStatuses
  <1>33. CASE ReadLive(p)
    BY <1>33, Edges
    DEF ReadLive, UpdateTaskStatus, Goto, Leave, meta, world, history,
        TerminalStatuses
  <1>34. CASE Complete(p)
    BY <1>34, Edges
    DEF Complete, UpdateTaskStatus, Goto, Leave, meta, world, history,
        TerminalStatuses
  <1>35. CASE RunFollowThrough(p)
    BY <1>35
    DEF RunFollowThrough, Leave, meta, world, history, TerminalStatuses,
        FollowThrough
  <1>36. CASE ParkTaskPaused(p)
    BY <1>36
    DEF ParkTaskPaused, Leave, meta, world, history, TerminalStatuses,
        PausedStatus
  <1>37. CASE p = Resume /\ SweepLists
    BY <1>37 DEF SweepLists, Goto, meta, world, history, TerminalStatuses
  <1>38. CASE p = Resume /\ SweepResumes
    BY <1>38 DEF SweepResumes, Goto, meta, world, history, TerminalStatuses
  <1>39. CASE p = Resume /\ SweepRecovers
    BY <1>39 DEF SweepRecovers, Goto, meta, world, history, TerminalStatuses
  <1>40. CASE p = Resume /\ SweepSkips
    BY <1>40 DEF SweepSkips, Leave, meta, world, history, TerminalStatuses
  <1>41. CASE p = Resume /\ CountAttempt
    BY <1>41 DEF CountAttempt, Goto, meta, world, history, TerminalStatuses
  <1>42. CASE p = Resume /\ ResumeFailed
    BY <1>42
    DEF ResumeFailed, Leave, meta, world, history, TerminalStatuses, Marked
  <1>43. CASE RecoverStrandedMerge(p)
    BY <1>43, Edges
    DEF RecoverStrandedMerge, Goto, Leave, meta, world, history,
        TerminalStatuses, RestingStatus
  <1>44. CASE p = Reject /\ RejectReads
    BY <1>44 DEF RejectReads, Goto, meta, world, history, TerminalStatuses
  <1>45. CASE p = Reject /\ RejectClaimsWorktree
    BY <1>45
    DEF RejectClaimsWorktree, Goto, meta, world, history, TerminalStatuses
  <1>46. CASE p = Reject /\ EscapeMerging
    BY <1>46
    DEF EscapeMerging, Goto, Leave, meta, world, history, TerminalStatuses
  <1>47. CASE p = Reject /\ EscapeUnneeded
    BY <1>47 DEF EscapeUnneeded, Goto, meta, world, history, TerminalStatuses
  <1>48. CASE p = Reject /\ EscapeRefused
    BY <1>48
    DEF EscapeRefused, Leave, meta, world, history, TerminalStatuses, Marked
  <1>49. CASE p = Reject /\ EscapeRecovers
    BY <1>49
    DEF EscapeRecovers, Goto, meta, world, history, TerminalStatuses,
        WorkLanded
  <1>50. CASE p = Reject /\ RejectRefused
    BY <1>50 DEF RejectRefused, Leave, meta, world, history, TerminalStatuses
  <1>51. CASE p = Reject /\ RejectActs
    BY <1>51, Edges
    DEF RejectActs, UpdateTaskStatus, Goto, Leave, meta, world, history,
        TerminalStatuses
  <1>52. CASE p = Reject /\ RejectAbandons
    BY <1>52, Edges
    DEF RejectAbandons, UpdateTaskStatus, Goto, Leave, meta, world, history,
        TerminalStatuses
  <1>53. CASE p = Reject /\ RejectEndsSession
    BY <1>53
    DEF RejectEndsSession, Goto, meta, world, history, TerminalStatuses
  <1>54. CASE p = Reject /\ RejectClosesReview
    BY <1>54
    DEF RejectClosesReview, Leave, meta, world, history, TerminalStatuses
  <1>55. CASE p = Sync /\ SyncLists
    BY <1>55 DEF SyncLists, Goto, meta, world, history, TerminalStatuses
  <1>56. CASE p = Sync /\ SyncSeesMerged
    BY <1>56
    DEF SyncSeesMerged, Goto, Leave, meta, world, history, TerminalStatuses
  <1>57. CASE p = Sync /\ CompleteMergedOnForge
    BY <1>57
    DEF CompleteMergedOnForge, Goto, Leave, Committing, meta, world, history,
        TerminalStatuses
  <1>58. CASE p = Sync /\ SyncSeesClosed
    BY <1>58 DEF SyncSeesClosed, Goto, meta, world, history, TerminalStatuses
  <1>59. CASE p = Sync /\ SyncSeesOpen
    BY <1>59
    DEF SyncSeesOpen, Goto, Leave, meta, world, history, TerminalStatuses
  <1>60. CASE p = Sync /\ SyncAbandons
    BY <1>60 DEF SyncAbandons, Leave, meta, world, history, TerminalStatuses
  <1> QED
    BY <1>1, <1>2, <1>3, <1>4, <1>5, <1>6, <1>7, <1>8, <1>9, <1>10, <1>11,
       <1>12, <1>13, <1>14, <1>15, <1>16, <1>17, <1>18, <1>19, <1>20, <1>21,
       <1>22, <1>23, <1>24, <1>25, <1>26, <1>27, <1>28, <1>29, <1>30, <1>31,
       <1>32, <1>33, <1>34, <1>35, <1>36, <1>37, <1>38, <1>39, <1>40, <1>41,
       <1>42, <1>43, <1>44, <1>45, <1>46, <1>47, <1>48, <1>49, <1>50, <1>51,
       <1>52, <1>53, <1>54, <1>55, <1>56, <1>57, <1>58, <1>59, <1>60
    DEF ActorStep, AcceptStep, ClearStep, CommitStep, SweepStep, RejectStep,
        SyncStep

(* The handler that accepted the session is still there, or the task is no *)
(* longer merging.                                                         *)
LEMMA EscapeStep ==
  ASSUME BaseInv, LocalInv, RejectedInv, EscapeInv, Forge = FALSE,
         NEW p \in Actors, ActorStep(p)
  PROVE  EscapeInv'
  <1> SUFFICES ASSUME NEW q \in Actors, pc'[q] \in Escaping,
                      status' = "merging", session' = "accepted"
               PROVE  Finishing'
    BY DEF EscapeInv
  <1>1. EscapeMove(p)
    BY EscapeMoves
  <1>2. \A r \in Actors \ {p} : pc'[r] = pc[r]
    BY OwnStep DEF BaseInv, IInv
  <1>3. CASE session # "accepted"
    BY <1>1, <1>3 DEF EscapeMove, Finishing
  <1>4. CASE session = "accepted"
    <2>1. pc[q] \in Escaping /\ status = "merging"
      BY <1>1, <1>2, <1>4 DEF EscapeMove
    <2>2. PICK r \in Actors : pc[r] \in {"live", "complete"}
      BY <1>4, <2>1 DEF EscapeInv, Finishing
    <2> QED
      BY <1>1, <1>2, <2>2 DEF EscapeMove, Finishing
  <1> QED
    BY <1>3, <1>4

-----------------------------------------------------------------------------
(* The surroundings.                                                       *)

(* All of it. *)
LocalAll == LocalInv /\ ReasonInv /\ CommentInv /\ WrittenInv

(* The surroundings of a task without a forge: a turn and the follow-      *)
(* through sweep wait for the lock, the self-heal and the reconciler do    *)
(* not touch a merging task, and a crash takes every handler away.         *)
LEMMA LocalBeside ==
  ASSUME BaseInv, LocalAll, Forge = FALSE, Surroundings
  PROVE  LocalAll'
  <1> USE AcceptAssumption, NoneIsNoStatus
      DEF BaseInv, IInv, ControlOK, StoreOK, OwnerInv, Owns, HeldPlaces,
          ClearPlaces, LocalAll, LocalInv, RouteInv, DecisionInv, PriorInv,
          MergingInv, FreshInv, ReasonInv, CommentInv, WrittenInv, PreMerge,
          ForgePlaces, MergeWork, HasLanded, NoComments, HasReason
  <1>1. CASE SweepAcceptFollowThrough
    BY <1>1 DEF SweepAcceptFollowThrough, FollowThrough, world, history
  <1>2. CASE SelfHeal
    BY <1>2 DEF SelfHeal, meta, world, history, TerminalStatuses
  <1>3. CASE ReconcileWorking
    BY <1>3 DEF ReconcileWorking, PausedStatus, meta, world, history
  <1>4. CASE Turn
    BY <1>4 DEF Turn, meta, BlockedStatuses
  <1>5. CASE Submit
    BY <1>5 DEF Submit
  <1>6. CASE ForgeMerges
    BY <1>6 DEF ForgeMerges
  <1>7. CASE ForgeCloses
    BY <1>7 DEF ForgeCloses
  <1>8. CASE DropForge
    BY <1>8 DEF DropForge
  <1>9. CASE Crash
    BY <1>9 DEF Crash, meta, world, NoLocals
  <1> QED
    BY <1>1, <1>2, <1>3, <1>4, <1>5, <1>6, <1>7, <1>8, <1>9 DEF Surroundings

(* The self-heal gives the status that the session's verdict asks for. *)
LEMMA VerdictBeside ==
  ASSUME BaseInv, LocalAll, RejectedInv, EscapeInv, Forge = FALSE,
         Surroundings
  PROVE  RejectedInv' /\ EscapeInv'
  <1> USE AcceptAssumption
      DEF BaseInv, OwnerInv, Owns, HeldPlaces, IInv, ControlOK, LocalAll,
          LocalInv, RouteInv, RejectedInv, EscapeInv, TerminalStatuses
  <1>1. CASE SweepAcceptFollowThrough
    BY <1>1 DEF SweepAcceptFollowThrough, Finishing
  <1>2. CASE SelfHeal
    BY <1>2 DEF SelfHeal, Finishing
  <1>3. CASE ReconcileWorking
    BY <1>3 DEF ReconcileWorking, PausedStatus
  <1>4. CASE Turn
    BY <1>4 DEF Turn, BlockedStatuses
  <1>5. CASE Submit
    BY <1>5 DEF Submit
  <1>6. CASE ForgeMerges
    BY <1>6 DEF ForgeMerges
  <1>7. CASE ForgeCloses
    BY <1>7 DEF ForgeCloses
  <1>8. CASE DropForge
    BY <1>8 DEF DropForge
  <1>9. CASE Crash
    BY <1>9 DEF Crash, Escaping
  <1> QED
    BY <1>1, <1>2, <1>3, <1>4, <1>5, <1>6, <1>7, <1>8, <1>9 DEF Surroundings

-----------------------------------------------------------------------------
(* The invariants together.                                                *)

(* The initial states of a task without a forge. *)
LEMMA LocalInit == Init /\ Forge = FALSE => LocalAll
  <1> SUFFICES ASSUME Init, Forge = FALSE PROVE LocalAll
    OBVIOUS
  <1>1. \A p \in Actors : pc[p] \in {"new", "idle"} /\ at[p] = NoLocals
    BY DEF Init, Start
  <1>2. /\ status \in {"blocked", "conflict"} /\ marker = None
        /\ intent = None /\ session = "open" /\ landed = "no" /\ pr = "none"
        /\ forge = FALSE /\ \A r \in Reasons : comments[r] = 0
    BY DEF Init
  <1> QED
    BY <1>1, <1>2, AcceptAssumption
    DEF LocalAll, LocalInv, RouteInv, DecisionInv, PriorInv, MergingInv,
        FreshInv, ReasonInv, CommentInv, WrittenInv, PreMerge, ForgePlaces,
        ClearPlaces, MergeWork, HasLanded, NoComments, HasReason, NoLocals

(* Every step keeps the invariant of a task without a forge. *)
LEMMA LocalNext ==
  ASSUME BaseInv, LocalAll, Forge = FALSE, [Next]_vars
  PROVE  LocalAll'
  <1>1. ASSUME NEW p \in Actors, ActorStep(p) PROVE LocalAll'
    BY <1>1, RouteStep, DecisionStep, PriorStep, MergingStep, FreshStep,
       ReasonStep, CommentStep, WrittenStep
    DEF LocalAll, LocalInv
  <1>2. CASE Surroundings
    BY <1>2, LocalBeside
  <1>3. CASE UNCHANGED vars
    BY <1>3
    DEF vars, meta, world, history, LocalAll, LocalInv, RouteInv, DecisionInv,
        PriorInv, MergingInv, FreshInv, ReasonInv, CommentInv, WrittenInv,
        HasLanded, NoComments, HasReason
  <1> QED
    BY <1>1, <1>2, <1>3 DEF Next

LEMMA LocalHolds ==
  ASSUME Forge = FALSE PROVE Spec => [](BaseInv /\ LocalAll)
  <1>1. Init => BaseInv /\ LocalAll
    BY BaseInit, LocalInit
  <1>2. BaseInv /\ LocalAll /\ [Next]_vars => (BaseInv /\ LocalAll)'
    BY BaseNext, LocalNext
  <1> QED
    BY <1>1, <1>2, PTL DEF Spec

LEMMA VerdictHolds ==
  ASSUME Forge = FALSE, Gate = FALSE
  PROVE  Spec => [](RejectedInv /\ EscapeInv)
  <1> DEFINE Inv == BaseInv /\ LocalAll /\ RejectedInv /\ EscapeInv
  <1>1. Init => Inv
    <2> SUFFICES ASSUME Init PROVE RejectedInv /\ EscapeInv
      BY BaseInit, LocalInit
    <2>1. \A p \in Actors : pc[p] \in {"new", "idle"}
      BY DEF Init, Start
    <2> QED
      BY <2>1 DEF Init, RejectedInv, EscapeInv, Escaping
  <1>2. Inv /\ [Next]_vars => Inv'
    <2> SUFFICES ASSUME Inv, [Next]_vars PROVE RejectedInv' /\ EscapeInv'
      BY BaseNext, LocalNext
    <2>1. ASSUME NEW p \in Actors, ActorStep(p)
          PROVE  RejectedInv' /\ EscapeInv'
      BY <2>1, RejectedStep, EscapeStep DEF LocalAll
    <2>2. CASE Surroundings
      BY <2>2, VerdictBeside
    <2>3. CASE UNCHANGED vars
      BY <2>3 DEF vars, RejectedInv, EscapeInv, Finishing
    <2> QED
      BY <2>1, <2>2, <2>3 DEF Next
  <1> QED
    BY <1>1, <1>2, PTL DEF Spec

-----------------------------------------------------------------------------
(* What follows.                                                           *)

(* Without a forge no "merging" task lacks its marker at any moment:       *)
(* between any two writes of an accept, its resume and its escape,         *)
(* whatever crash comes between, the sweep can tell a dead accept from a   *)
(* merge that the forge has.                                               *)
THEOREM MergingIsMarked == Spec => []LocalMergingIsMarked
  <1>1. CASE Forge = FALSE
    <2>1. LocalAll => LocalMergingIsMarked
      BY DEF LocalAll, LocalInv, MergingInv, LocalMergingIsMarked
    <2> QED
      BY <1>1, <2>1, LocalHolds, PTL
  <1>2. CASE Forge = TRUE
    <2>1. LocalMergingIsMarked
      BY <1>2 DEF LocalMergingIsMarked
    <2> QED
      BY <2>1, PTL
  <1> QED
    BY <1>1, <1>2, AcceptAssumption

(* Without a forge, from the write that lands the work on, the task is     *)
(* "complete", or "merging" and marked with the person's decision on disk: *)
(* wherever the daemon dies, the sweep has all it needs to finish the      *)
(* accept. (The exception, as in the property, is an escape that git could *)
(* not answer.)                                                            *)
THEOREM LandedFinishable ==
  ASSUME Forge = FALSE PROVE Spec => []LandedIsFinishable
  <1>1. BaseInv /\ LocalAll => LandedIsFinishable
    BY NoneIsNoStatus
    DEF LocalAll, LocalInv, MergingInv, DecisionInv, FreshInv, HasLanded,
        LandedIsFinishable, Marked
  <1> QED
    BY <1>1, LocalHolds, PTL

(* Without a forge a reason is an [Accepted] comment at most once, however *)
(* many accepts, resumes and crashes there are: the first commit of a      *)
(* merge finds none, and every later one looks first.                      *)
THEOREM RecordedOnce ==
  ASSUME Forge = FALSE PROVE Spec => []ReasonRecordedOnce
  <1>1. LocalAll => ReasonRecordedOnce
    BY DEF LocalAll, CommentInv, ReasonRecordedOnce
  <1> QED
    BY <1>1, LocalHolds, PTL

(* Without a forge a task that an accept completed has the [Accepted]      *)
(* comment of a person, never "original reason was not recorded" alone:    *)
(* the reason is on disk before the marker that a resume goes by.          *)
THEOREM AcceptedReasoned ==
  ASSUME Forge = FALSE PROVE Spec => []AcceptedHasReason
  <1>1. LocalAll => AcceptedHasReason
    BY DEF LocalAll, WrittenInv, HasReason, AcceptedHasReason
  <1> QED
    BY <1>1, LocalHolds, PTL

(* Without a forge and without a gate a rejected task's work has not       *)
(* landed, although rejectTask writes without the lifecycle lock on a task *)
(* it read before it waited. The gate is excluded because its "working"    *)
(* status, which rejectTask interrupts, takes the task out of the status   *)
(* that refuses a reject.                                                  *)
THEOREM RejectHolds ==
  ASSUME Forge = FALSE, Gate = FALSE PROVE Spec => []RejectStands
  <1>1. LocalAll /\ RejectedInv => RejectStands
    BY DEF LocalAll, LocalInv, FreshInv, HasLanded, RejectedInv, RejectStands,
           StoreOK
  <1> QED
    BY <1>1, LocalHolds, VerdictHolds, PTL

(* What a handler's step does to the verdict and the landing: only         *)
(* MergeLands, EndSession and RejectEndsSession move them, each as the     *)
(* abstract outcome may; an escape of landed work finds the session open.  *)
LEMMA OutcomeStep ==
  ASSUME BaseInv, LocalInv, RejectedInv, EscapeInv, Forge = FALSE,
         NEW p \in Actors, ActorStep(p)
  PROVE  [Outcome!Next]_(Outcome!vars)
  <1> USE AcceptAssumption, NoneIsNoStatus
          DEF BaseInv, IInv, ControlOK, OwnerInv, Owns, HeldPlaces,
              LandedPlaces, LocalInv, RouteInv, ForgePlaces, PreMerge,
              MergeWork, Outcome!Next, Outcome!Lands, Outcome!Accepted,
              Outcome!Rejected, Outcome!vars, RejectedInv, MergingInv,
              FreshInv, HasLanded
  <1>1. CASE p \in Accepts \cup {Resume} /\ EnterAccept(p)
    BY <1>1 DEF EnterAccept, Goto, meta, world, history
  <1>2. CASE FinishInterruptedTransition(p)
    BY <1>2
    DEF FinishInterruptedTransition, Committing, Goto, meta, world, history,
        Marked, WorkLanded
  <1>3. CASE NothingToFinish(p)
    BY <1>3 DEF NothingToFinish, Goto, meta, world, history, Marked, WorkLanded
  <1>4. CASE PreflightRefuses(p)
    BY <1>4 DEF PreflightRefuses, Leave, meta, world, history, Acceptable
  <1>5. CASE PreflightPasses(p)
    BY <1>5 DEF PreflightPasses, Goto, Kind, meta, world, history, Acceptable
  <1>6. CASE GateStarts(p)
    BY <1>6 DEF GateStarts, UpdateTaskStatus, Goto, Leave, meta, world, history
  <1>7. CASE GatePasses(p)
    BY <1>7 DEF GatePasses, UpdateTaskStatus, Goto, Leave, meta, world, history
  <1>8. CASE GateRefuses(p)
    BY <1>8 DEF GateRefuses, Leave, meta, world, history
  <1>9. CASE PremergeRefuses(p)
    BY <1>9
    DEF PremergeRefuses, Leave, meta, world, history, OpenReview, MergesOnForge
  <1>10. CASE BeginMergePhase(p)
    BY <1>10
    DEF BeginMergePhase, Goto, meta, world, history, OpenReview, MergesOnForge
  <1>11. CASE PersistIntent(p)
    BY <1>11 DEF PersistIntent, Goto, meta, world, history, Reasons
  <1>12. CASE PersistMarker(p)
    BY <1>12 DEF PersistMarker, Goto, meta, world, history
  <1>13. CASE StampMerging(p)
    BY <1>13
    DEF StampMerging, UpdateTaskStatus, Goto, Leave, meta, world, history
  <1>14. CASE MergeLands(p)
    BY <1>14
    DEF MergeLands, Goto, meta, world, history, Land, MergesOnForge, RestOK
  <1>15. CASE MergePends(p)
    BY <1>15
    DEF MergePends, Goto, meta, world, history, MergesOnForge, WorkLanded
  <1>16. CASE MergeFails(p)
    BY <1>16 DEF MergeFails, Goto, Leave, meta, world, history
  <1>17. CASE AbortMergePhase(p)
    BY <1>17 DEF AbortMergePhase, Goto, Leave, meta, world, history
  <1>18. CASE MetadataSaved(p)
    BY <1>18 DEF MetadataSaved, Committing, Goto, meta, world, history
  <1>19. CASE MetadataLost(p)
    BY <1>19 DEF MetadataLost, Leave, meta, world, history
  <1>20. CASE CommentHandedOver(p)
    BY <1>20 DEF CommentHandedOver, Leave, meta, world, history
  <1>21. CASE ReentryMerged(p)
    BY <1>21 DEF ReentryMerged, Committing, Goto, meta, world, history
  <1>22. CASE ReentryWaits(p)
    BY <1>22 DEF ReentryWaits, Leave, meta, world, history
  <1>23. CASE ReentryChecksFailed(p)
    BY <1>23 DEF ReentryChecksFailed, Goto, meta, world, history
  <1>24. CASE ReentryRetries(p)
    BY <1>24 DEF ReentryRetries, Goto, meta, world, history
  <1>25. CASE RetryLands(p)
    BY <1>25 DEF RetryLands, Committing, Goto, meta, world, history, Land
  <1>26. CASE RetryDoesNotLand(p)
    BY <1>26 DEF RetryDoesNotLand, Leave, meta, world, history
  <1>27. CASE ClearMarker(p)
    BY <1>27 DEF ClearMarker, Goto, meta, world, history
  <1>28. CASE ClearIntent(p)
    BY <1>28 DEF ClearIntent, Goto, meta, world, history
  <1>29. CASE ClearAttempts(p)
    BY <1>29 DEF ClearAttempts, Goto, Leave, meta, world, history
  <1>30. CASE RecordFollowThrough(p)
    BY <1>30 DEF RecordFollowThrough, Goto, meta, world, history
  <1>31. CASE CommentAccepted(p)
    BY <1>31 DEF CommentAccepted, Goto, meta, world, history, Written
  <1>32. CASE EndSession(p)
    BY <1>32 DEF EndSession, Goto, meta, world, history
  <1>33. CASE ReadLive(p)
    BY <1>33 DEF ReadLive, UpdateTaskStatus, Goto, Leave, meta, world, history
  <1>34. CASE Complete(p)
    BY <1>34 DEF Complete, UpdateTaskStatus, Goto, Leave, meta, world, history
  <1>35. CASE RunFollowThrough(p)
    BY <1>35 DEF RunFollowThrough, Leave, meta, world, history, FollowThrough
  <1>36. CASE ParkTaskPaused(p)
    BY <1>36 DEF ParkTaskPaused, Leave, meta, world, history, PausedStatus
  <1>37. CASE p = Resume /\ SweepLists
    BY <1>37 DEF SweepLists, Goto, meta, world, history
  <1>38. CASE p = Resume /\ SweepResumes
    BY <1>38 DEF SweepResumes, Goto, meta, world, history
  <1>39. CASE p = Resume /\ SweepRecovers
    BY <1>39 DEF SweepRecovers, Goto, meta, world, history
  <1>40. CASE p = Resume /\ SweepSkips
    BY <1>40 DEF SweepSkips, Leave, meta, world, history
  <1>41. CASE p = Resume /\ CountAttempt
    BY <1>41 DEF CountAttempt, Goto, meta, world, history
  <1>42. CASE p = Resume /\ ResumeFailed
    BY <1>42 DEF ResumeFailed, Leave, meta, world, history, Marked
  <1>43. CASE RecoverStrandedMerge(p)
    BY <1>43
    DEF RecoverStrandedMerge, Goto, Leave, meta, world, history, RestingStatus
  <1>44. CASE p = Reject /\ RejectReads
    BY <1>44 DEF RejectReads, Goto, meta, world, history
  <1>45. CASE p = Reject /\ RejectClaimsWorktree
    BY <1>45 DEF RejectClaimsWorktree, Goto, meta, world, history
  <1>46. CASE p = Reject /\ EscapeMerging
    BY <1>46 DEF EscapeMerging, Goto, Leave, meta, world, history
  <1>47. CASE p = Reject /\ EscapeUnneeded
    BY <1>47 DEF EscapeUnneeded, Goto, meta, world, history
  <1>48. CASE p = Reject /\ EscapeRefused
    BY <1>48 DEF EscapeRefused, Leave, meta, world, history, Marked
  <1>49. CASE p = Reject /\ EscapeRecovers
    BY <1>49
    DEF EscapeRecovers, Goto, meta, world, history, WorkLanded, RestOK,
        StoreOK, EscapeInv, Finishing, Escaping
  <1>50. CASE p = Reject /\ RejectRefused
    BY <1>50 DEF RejectRefused, Leave, meta, world, history
  <1>51. CASE p = Reject /\ RejectActs
    BY <1>51
    DEF RejectActs, UpdateTaskStatus, Goto, Leave, meta, world, history
  <1>52. CASE p = Reject /\ RejectAbandons
    BY <1>52
    DEF RejectAbandons, UpdateTaskStatus, Goto, Leave, meta, world, history
  <1>53. CASE p = Reject /\ RejectEndsSession
    BY <1>53 DEF RejectEndsSession, Goto, meta, world, history, StoreOK, RestOK
  <1>54. CASE p = Reject /\ RejectClosesReview
    BY <1>54 DEF RejectClosesReview, Leave, meta, world, history
  <1>55. CASE p = Sync /\ SyncLists
    BY <1>55 DEF SyncLists, Goto, meta, world, history
  <1>56. CASE p = Sync /\ SyncSeesMerged
    BY <1>56 DEF SyncSeesMerged, Goto, Leave, meta, world, history
  <1>57. CASE p = Sync /\ CompleteMergedOnForge
    BY <1>57
    DEF CompleteMergedOnForge, Goto, Leave, Committing, meta, world, history
  <1>58. CASE p = Sync /\ SyncSeesClosed
    BY <1>58 DEF SyncSeesClosed, Goto, meta, world, history
  <1>59. CASE p = Sync /\ SyncSeesOpen
    BY <1>59 DEF SyncSeesOpen, Goto, Leave, meta, world, history
  <1>60. CASE p = Sync /\ SyncAbandons
    BY <1>60 DEF SyncAbandons, Leave, meta, world, history
  <1> QED
    BY <1>1, <1>2, <1>3, <1>4, <1>5, <1>6, <1>7, <1>8, <1>9, <1>10, <1>11,
       <1>12, <1>13, <1>14, <1>15, <1>16, <1>17, <1>18, <1>19, <1>20, <1>21,
       <1>22, <1>23, <1>24, <1>25, <1>26, <1>27, <1>28, <1>29, <1>30, <1>31,
       <1>32, <1>33, <1>34, <1>35, <1>36, <1>37, <1>38, <1>39, <1>40, <1>41,
       <1>42, <1>43, <1>44, <1>45, <1>46, <1>47, <1>48, <1>49, <1>50, <1>51,
       <1>52, <1>53, <1>54, <1>55, <1>56, <1>57, <1>58, <1>59, <1>60
    DEF ActorStep, AcceptStep, ClearStep, CommitStep, SweepStep, RejectStep,
        SyncStep

(* Without a forge and without a gate acceptTask, its resume and           *)
(* rejectTask implement AcceptOutcome: every step lands the work while the *)
(* verdict is open, gives the one verdict that agrees with it, or changes  *)
(* neither.                                                                *)
THEOREM ImplementsTheOutcome ==
  ASSUME Forge = FALSE, Gate = FALSE PROVE Spec => ImplementsOutcome
  <1> DEFINE Inv == BaseInv /\ LocalAll /\ RejectedInv /\ EscapeInv
  <1>1. Init => Outcome!Init
    BY DEF Init, Outcome!Init
  <1>2. Inv /\ [Next]_vars => [Outcome!Next]_(Outcome!vars)
    <2> SUFFICES ASSUME Inv, [Next]_vars
                 PROVE  [Outcome!Next]_(Outcome!vars)
      OBVIOUS
    <2>1. ASSUME NEW p \in Actors, ActorStep(p)
          PROVE  [Outcome!Next]_(Outcome!vars)
      BY <2>1, OutcomeStep DEF LocalAll
    <2>2. CASE Surroundings
      <3>1. UNCHANGED <<session, landed, blind>>
        BY <2>2
        DEF Surroundings, SweepAcceptFollowThrough, SelfHeal,
            ReconcileWorking, Turn, Submit, ForgeMerges, ForgeCloses,
            DropForge, Crash, meta, world, history, LocalAll, LocalInv,
            RouteInv
      <3> QED
        BY <3>1 DEF Outcome!vars
    <2>3. CASE UNCHANGED vars
      BY <2>3 DEF vars, world, history, Outcome!vars
    <2> QED
      BY <2>1, <2>2, <2>3 DEF Next
  <1> QED
    BY <1>1, <1>2, BaseHolds, LocalHolds, VerdictHolds, PTL
    DEF Spec, ImplementsOutcome, Outcome!Spec

(* The configuration is no handler's to change. *)
LEMMA ForgeStays ==
  ASSUME NEW p \in Actors, ActorStep(p)
  PROVE  forge' = forge
  BY DEF ActorStep, AcceptStep, ClearStep, CommitStep, SweepStep, RejectStep,
         SyncStep, EnterAccept, FinishInterruptedTransition, NothingToFinish,
         PreflightRefuses, PreflightPasses, GateStarts, GatePasses,
         GateRefuses, PremergeRefuses, BeginMergePhase, PersistIntent,
         PersistMarker, StampMerging, MergeLands, MergePends, MergeFails,
         AbortMergePhase, MetadataSaved, MetadataLost, CommentHandedOver,
         ReentryMerged, ReentryWaits, ReentryChecksFailed, ReentryRetries,
         RetryLands, RetryDoesNotLand, ClearMarker, ClearIntent, ClearAttempts,
         RecordFollowThrough, CommentAccepted, EndSession, ReadLive, Complete,
         RunFollowThrough, ParkTaskPaused, SweepLists, SweepResumes,
         SweepRecovers, SweepSkips, CountAttempt, ResumeFailed,
         RecoverStrandedMerge, RejectReads, RejectClaimsWorktree,
         EscapeMerging, EscapeUnneeded, EscapeRefused, EscapeRecovers,
         RejectRefused, RejectActs, RejectAbandons, RejectEndsSession,
         RejectClosesReview, SyncLists, SyncSeesMerged, CompleteMergedOnForge,
         SyncSeesClosed, SyncSeesOpen, SyncAbandons, world

(* The order of the marker and the decision with a forge that stays: the   *)
(* sweep then leaves an unmarked merging task to the forge.                *)
LEMMA KeptDecisionStep ==
  ASSUME BaseInv, DecisionInv, forge = TRUE, NEW p \in Actors, ActorStep(p)
  PROVE  DecisionInv'
  <1> USE AcceptAssumption, NoneIsNoStatus
          DEF BaseInv, IInv, ControlOK, OwnerInv, Owns, HeldPlaces,
              ClearPlaces, AnyLocals, OneShot, DecisionInv, Reasons
  <1>1. CASE p \in Accepts \cup {Resume} /\ EnterAccept(p)
    BY <1>1 DEF EnterAccept, Goto, meta, world
  <1>2. CASE FinishInterruptedTransition(p)
    BY <1>2
    DEF FinishInterruptedTransition, Committing, Goto, meta, world, Marked,
        WorkLanded
  <1>3. CASE NothingToFinish(p)
    BY <1>3 DEF NothingToFinish, Goto, meta, world, Marked, WorkLanded
  <1>4. CASE PreflightRefuses(p)
    BY <1>4 DEF PreflightRefuses, Leave, meta, world, Acceptable
  <1>5. CASE PreflightPasses(p)
    BY <1>5 DEF PreflightPasses, Goto, Kind, meta, world, Acceptable
  <1>6. CASE GateStarts(p)
    BY <1>6 DEF GateStarts, UpdateTaskStatus, Goto, Leave, meta, world
  <1>7. CASE GatePasses(p)
    BY <1>7 DEF GatePasses, UpdateTaskStatus, Goto, Leave, meta, world
  <1>8. CASE GateRefuses(p)
    BY <1>8 DEF GateRefuses, Leave, meta, world
  <1>9. CASE PremergeRefuses(p)
    BY <1>9 DEF PremergeRefuses, Leave, meta, world, OpenReview, MergesOnForge
  <1>10. CASE BeginMergePhase(p)
    BY <1>10 DEF BeginMergePhase, Goto, meta, world, OpenReview, MergesOnForge
  <1>11. CASE PersistIntent(p)
    BY <1>11 DEF PersistIntent, Goto, meta, world, Reasons
  <1>12. CASE PersistMarker(p)
    BY <1>12 DEF PersistMarker, Goto, meta, world
  <1>13. CASE StampMerging(p)
    BY <1>13 DEF StampMerging, UpdateTaskStatus, Goto, Leave, meta, world
  <1>14. CASE MergeLands(p)
    BY <1>14 DEF MergeLands, Goto, meta, world, Land, MergesOnForge
  <1>15. CASE MergePends(p)
    BY <1>15 DEF MergePends, Goto, meta, world, MergesOnForge, WorkLanded
  <1>16. CASE MergeFails(p)
    BY <1>16 DEF MergeFails, Goto, Leave, meta, world
  <1>17. CASE AbortMergePhase(p)
    BY <1>17 DEF AbortMergePhase, Goto, Leave, meta, world
  <1>18. CASE MetadataSaved(p)
    BY <1>18 DEF MetadataSaved, Committing, Goto, meta, world
  <1>19. CASE MetadataLost(p)
    BY <1>19 DEF MetadataLost, Leave, meta, world
  <1>20. CASE CommentHandedOver(p)
    BY <1>20 DEF CommentHandedOver, Leave, meta, world
  <1>21. CASE ReentryMerged(p)
    BY <1>21 DEF ReentryMerged, Committing, Goto, meta, world
  <1>22. CASE ReentryWaits(p)
    BY <1>22 DEF ReentryWaits, Leave, meta, world
  <1>23. CASE ReentryChecksFailed(p)
    BY <1>23 DEF ReentryChecksFailed, Goto, meta, world
  <1>24. CASE ReentryRetries(p)
    BY <1>24 DEF ReentryRetries, Goto, meta, world
  <1>25. CASE RetryLands(p)
    BY <1>25 DEF RetryLands, Committing, Goto, meta, world, Land
  <1>26. CASE RetryDoesNotLand(p)
    BY <1>26 DEF RetryDoesNotLand, Leave, meta, world
  <1>27. CASE ClearMarker(p)
    BY <1>27 DEF ClearMarker, Goto, meta, world
  <1>28. CASE ClearIntent(p)
    BY <1>28 DEF ClearIntent, Goto, meta, world
  <1>29. CASE ClearAttempts(p)
    BY <1>29 DEF ClearAttempts, Goto, Leave, meta, world
  <1>30. CASE RecordFollowThrough(p)
    BY <1>30 DEF RecordFollowThrough, Goto, meta, world
  <1>31. CASE CommentAccepted(p)
    BY <1>31 DEF CommentAccepted, Goto, meta, world, Written
  <1>32. CASE EndSession(p)
    BY <1>32 DEF EndSession, Goto, meta, world
  <1>33. CASE ReadLive(p)
    BY <1>33 DEF ReadLive, UpdateTaskStatus, Goto, Leave, meta, world
  <1>34. CASE Complete(p)
    BY <1>34 DEF Complete, UpdateTaskStatus, Goto, Leave, meta, world
  <1>35. CASE RunFollowThrough(p)
    BY <1>35 DEF RunFollowThrough, Leave, meta, world, FollowThrough
  <1>36. CASE ParkTaskPaused(p)
    BY <1>36 DEF ParkTaskPaused, Leave, meta, world, PausedStatus
  <1>37. CASE p = Resume /\ SweepLists
    BY <1>37 DEF SweepLists, Goto, meta, world
  <1>38. CASE p = Resume /\ SweepResumes
    BY <1>38 DEF SweepResumes, Goto, meta, world
  <1>39. CASE p = Resume /\ SweepRecovers
    BY <1>39 DEF SweepRecovers, Goto, meta, world
  <1>40. CASE p = Resume /\ SweepSkips
    BY <1>40 DEF SweepSkips, Leave, meta, world
  <1>41. CASE p = Resume /\ CountAttempt
    BY <1>41 DEF CountAttempt, Goto, meta, world
  <1>42. CASE p = Resume /\ ResumeFailed
    BY <1>42 DEF ResumeFailed, Leave, meta, world, Marked
  <1>43. CASE RecoverStrandedMerge(p)
    BY <1>43 DEF RecoverStrandedMerge, Goto, Leave, meta, world, RestingStatus
  <1>44. CASE p = Reject /\ RejectReads
    BY <1>44 DEF RejectReads, Goto, meta, world
  <1>45. CASE p = Reject /\ RejectClaimsWorktree
    BY <1>45 DEF RejectClaimsWorktree, Goto, meta, world
  <1>46. CASE p = Reject /\ EscapeMerging
    BY <1>46 DEF EscapeMerging, Goto, Leave, meta, world
  <1>47. CASE p = Reject /\ EscapeUnneeded
    BY <1>47 DEF EscapeUnneeded, Goto, meta, world
  <1>48. CASE p = Reject /\ EscapeRefused
    BY <1>48 DEF EscapeRefused, Leave, meta, world, Marked
  <1>49. CASE p = Reject /\ EscapeRecovers
    BY <1>49 DEF EscapeRecovers, Goto, meta, world, WorkLanded
  <1>50. CASE p = Reject /\ RejectRefused
    BY <1>50 DEF RejectRefused, Leave, meta, world
  <1>51. CASE p = Reject /\ RejectActs
    BY <1>51 DEF RejectActs, UpdateTaskStatus, Goto, Leave, meta, world
  <1>52. CASE p = Reject /\ RejectAbandons
    BY <1>52 DEF RejectAbandons, UpdateTaskStatus, Goto, Leave, meta, world
  <1>53. CASE p = Reject /\ RejectEndsSession
    BY <1>53 DEF RejectEndsSession, Goto, meta, world
  <1>54. CASE p = Reject /\ RejectClosesReview
    BY <1>54 DEF RejectClosesReview, Leave, meta, world
  <1>55. CASE p = Sync /\ SyncLists
    BY <1>55 DEF SyncLists, Goto, meta, world
  <1>56. CASE p = Sync /\ SyncSeesMerged
    BY <1>56 DEF SyncSeesMerged, Goto, Leave, meta, world
  <1>57. CASE p = Sync /\ CompleteMergedOnForge
    BY <1>57 DEF CompleteMergedOnForge, Goto, Leave, Committing, meta, world
  <1>58. CASE p = Sync /\ SyncSeesClosed
    BY <1>58 DEF SyncSeesClosed, Goto, meta, world
  <1>59. CASE p = Sync /\ SyncSeesOpen
    BY <1>59 DEF SyncSeesOpen, Goto, Leave, meta, world
  <1>60. CASE p = Sync /\ SyncAbandons
    BY <1>60 DEF SyncAbandons, Leave, meta, world
  <1> QED
    BY <1>1, <1>2, <1>3, <1>4, <1>5, <1>6, <1>7, <1>8, <1>9, <1>10, <1>11,
       <1>12, <1>13, <1>14, <1>15, <1>16, <1>17, <1>18, <1>19, <1>20, <1>21,
       <1>22, <1>23, <1>24, <1>25, <1>26, <1>27, <1>28, <1>29, <1>30, <1>31,
       <1>32, <1>33, <1>34, <1>35, <1>36, <1>37, <1>38, <1>39, <1>40, <1>41,
       <1>42, <1>43, <1>44, <1>45, <1>46, <1>47, <1>48, <1>49, <1>50, <1>51,
       <1>52, <1>53, <1>54, <1>55, <1>56, <1>57, <1>58, <1>59, <1>60
    DEF ActorStep, AcceptStep, ClearStep, CommitStep, SweepStep, RejectStep,
        SyncStep

(* A marked "merging" task has the decision it belongs to, with or without *)
(* a forge, as long as a configured forge stays: when it is taken away,    *)
(* the sweep's recovery clears the keys without the lock and may take the  *)
(* decision of an accept that has begun.                                   *)
THEOREM MarkedDecided ==
  ASSUME Forge => ~MayDropForge PROVE Spec => []MarkedHasIntent
  <1>1. DecisionInv => MarkedHasIntent
    BY DEF DecisionInv, MarkedHasIntent, Marked
  <1>2. CASE Forge = FALSE
    <2>1. LocalAll => DecisionInv
      BY DEF LocalAll, LocalInv
    <2> QED
      BY <1>1, <1>2, <2>1, LocalHolds, PTL
  <1>3. CASE Forge = TRUE
    <2>1. Init => DecisionInv /\ forge = TRUE
      <3> SUFFICES ASSUME Init PROVE DecisionInv
        BY <1>3 DEF Init
      <3>1. \A p \in Actors : pc[p] \in {"new", "idle"}
        BY DEF Init, Start
      <3> QED
        BY <3>1 DEF Init, DecisionInv, ClearPlaces
    <2>2. BaseInv /\ DecisionInv /\ forge = TRUE /\ [Next]_vars
            => (DecisionInv /\ forge = TRUE)'
      <3> SUFFICES ASSUME BaseInv, DecisionInv, forge = TRUE, [Next]_vars
                   PROVE  (DecisionInv /\ forge = TRUE)'
        OBVIOUS
      <3>1. ASSUME NEW p \in Actors, ActorStep(p)
            PROVE  (DecisionInv /\ forge = TRUE)'
        <4>1. forge' = forge
          BY <3>1, ForgeStays
        <4> QED
          BY <3>1, <4>1, KeptDecisionStep
      <3>2. CASE Surroundings
        <4> USE AcceptAssumption
            DEF BaseInv, OwnerInv, Owns, HeldPlaces, DecisionInv, ClearPlaces
        <4>1. CASE SweepAcceptFollowThrough
          BY <4>1 DEF SweepAcceptFollowThrough, FollowThrough, world
        <4>2. CASE SelfHeal
          BY <4>2 DEF SelfHeal, meta, world
        <4>3. CASE ReconcileWorking
          BY <4>3 DEF ReconcileWorking, meta, world
        <4>4. CASE Turn
          BY <4>4 DEF Turn, meta
        <4>5. CASE Submit
          BY <4>5 DEF Submit, meta
        <4>6. CASE ForgeMerges
          BY <4>6 DEF ForgeMerges, meta
        <4>7. CASE ForgeCloses
          BY <4>7 DEF ForgeCloses, meta
        <4>8. CASE DropForge
          BY <1>3, <4>8 DEF DropForge
        <4>9. CASE Crash
          BY <4>9 DEF Crash, meta, world
        <4> QED
          BY <3>2, <4>1, <4>2, <4>3, <4>4, <4>5, <4>6, <4>7, <4>8, <4>9
          DEF Surroundings
      <3>3. CASE UNCHANGED vars
        BY <3>3 DEF vars, meta, world, DecisionInv
      <3> QED
        BY <3>1, <3>2, <3>3 DEF Next
    <2> QED
      BY <1>1, <2>1, <2>2, BaseHolds, PTL DEF Spec
  <1> QED
    BY <1>2, <1>3, AcceptAssumption
=============================================================================
