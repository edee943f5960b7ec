---------------------------- MODULE AcceptProofs ----------------------------
(***************************************************************************)
(* Proofs about Accept, for every set of actors and every bound.           *)
(*                                                                         *)
(* "complete" is written in two places only - by a commit and by the       *)
(* self-heal of an accepted session - but a status is also restored from   *)
(* a local or from the marker, and the work lands in three ways.  The      *)
(* invariant follows all of them.                                          *)
(*                                                                         *)
(* The second part is the lifecycle lock: its owner is the actor whose     *)
(* handler is at a place under the lock (BaseInv), from which follow the   *)
(* types, the bound on the resumes and that one handler commits.           *)
(***************************************************************************)
EXTENDS Accept, Integers, TLAPS

(* The locals, with an attempt of any sign: how it is counted plays no     *)
(* part in these proofs.                                                   *)
AnyLocals == [kind : {"none", "fresh", "resume", "reentry"},
              found : Statuses \cup {None}, prior : Statuses \cup {None},
              reason : Reasons, write : BOOLEAN, dedupe : BOOLEAN,
              attempt : Int,
              after : {"none", "error", "comment", "follow", "act"},
              why : {"ok", "error", "already-accepted", "parent-active"}]

(* Where a handler is only once the work has landed. *)
LandedPlaces == {"merged", "record", "comment", "end", "live", "complete",
                 "reread"}

HasLanded == landed # "no"

(* The store and the forge: the claims of landed work are true, and no     *)
(* accept remembers "complete" as the status to restore.                   *)
StoreOK ==
    /\ status \in Statuses
    /\ marker \in (Statuses \ {"complete"}) \cup {None}
    /\ intent \in Reasons \cup {None}
    /\ attempts \in Int
    /\ status = "complete" => HasLanded
    /\ session = "accepted" => HasLanded
    /\ pr = "merged" => HasLanded

(* The handlers: those that are to say so know that the work has landed.   *)
ControlOK ==
    /\ pc \in [Actors -> Places]
    /\ at \in [Actors -> AnyLocals]
    /\ \A p \in Actors : pc[p] \in LandedPlaces => HasLanded
    /\ \A p \in Actors : at[p].prior # "complete"

IInv == StoreOK /\ ControlOK

(* No step undoes a landing. *)
Monotone == HasLanded => HasLanded'

(* The locals of a handler that is at rest. *)
LEMMA NoLocalsTyped == NoLocals \in AnyLocals /\ NoLocals.prior # "complete"
  BY AcceptAssumption DEF NoLocals, AnyLocals, Reasons, Statuses

(* The invariant holds initially. *)
LEMMA Initially == Init => IInv
  <1> SUFFICES ASSUME Init PROVE IInv
    OBVIOUS
  <1>1. StoreOK
    BY DEF Init, StoreOK, Statuses
  <1>2. ControlOK
    BY NoLocalsTyped
    DEF Init, ControlOK, Start, OneShot, LandedPlaces, Places, OtherPlaces
  <1> QED
    BY <1>1, <1>2 DEF IInv

-----------------------------------------------------------------------------
(* What the pieces of the actions do to the handlers.                      *)

(* A handler that goes on, its locals replaced. *)
LEMMA GoingWith ==
  ASSUME ControlOK, Monotone, NEW p \in Actors, NEW place \in Places,
         NEW r \in AnyLocals, r.prior # "complete",
         Goto(p, place), at' = [at EXCEPT ![p] = r],
         place \in LandedPlaces => HasLanded'
  PROVE  ControlOK'
  BY DEF ControlOK, Goto, Monotone

(* A handler that goes on with the locals it has. *)
LEMMA Going ==
  ASSUME ControlOK, Monotone, NEW p \in Actors, NEW place \in Places,
         Goto(p, place), UNCHANGED at,
         place \in LandedPlaces => HasLanded'
  PROVE  ControlOK'
  BY DEF ControlOK, Goto, Monotone

(* A handler that leaves is at rest, its locals forgotten or only marked   *)
(* with the error.                                                         *)
LEMMA Leaving ==
  ASSUME ControlOK, Monotone, NEW p \in Actors,
         NEW why \in {"ok", "error", "already-accepted", "parent-active"},
         Leave(p, why)
  PROVE  ControlOK'
  <1>1. /\ pc' \in [Actors -> Places]
        /\ \A q \in Actors : pc'[q] \in LandedPlaces => HasLanded'
    BY DEF ControlOK, Monotone, Leave, Places, OtherPlaces, LandedPlaces
  <1>2. PICK r \in AnyLocals : r.prior # "complete"
                               /\ at' = [at EXCEPT ![p] = r]
    <2>1. /\ [at[p] EXCEPT !.why = why] \in AnyLocals
          /\ [at[p] EXCEPT !.why = why].prior # "complete"
      BY DEF ControlOK, AnyLocals
    <2>2. CASE p = Resume /\ why # "ok"
      BY <2>1, <2>2 DEF Leave
    <2>3. CASE ~(p = Resume /\ why # "ok")
      BY <2>3, NoLocalsTyped DEF Leave
    <2> QED
      BY <2>2, <2>3
  <1>3. /\ at' \in [Actors -> AnyLocals]
        /\ \A q \in Actors : at'[q].prior # "complete"
    BY <1>2 DEF ControlOK
  <1> QED
    BY <1>1, <1>3 DEF ControlOK

(* A status write: the new status, or an error that leaves the old one.    *)
LEMMA Updating ==
  ASSUME ControlOK, StoreOK, Monotone, NEW p \in Actors, NEW to,
         NEW place \in Places, UpdateTaskStatus(p, to, place),
         place \in LandedPlaces => HasLanded'
  PROVE  ControlOK' /\ status' \in Statuses /\ status' \in {status, to}
  <1>1. CASE /\ CanTransition(status, to)
             /\ status' = to
             /\ Goto(p, place)
             /\ UNCHANGED <<lock, at>>
    <2>1. to \in Statuses
      BY <1>1 DEF CanTransition, StoreOK, Statuses, ValidTransitions
    <2>2. ControlOK'
      BY <1>1, Going
    <2> QED
      BY <1>1, <2>1, <2>2
  <1>2. CASE Leave(p, "error") /\ UNCHANGED status
    <2>1. ControlOK'
      BY <1>2, Leaving
    <2> QED
      BY <1>2, <2>1 DEF StoreOK
  <1> QED
    BY <1>1, <1>2 DEF UpdateTaskStatus

(* The locals of a commit. *)
LEMMA CommitLocals ==
  ASSUME NEW l \in AnyLocals, l.prior # "complete", NEW reason \in Reasons,
         NEW write \in BOOLEAN, NEW dedupe \in BOOLEAN
  PROVE  LET r == [l EXCEPT !.reason = reason, !.write = write,
                            !.dedupe = dedupe, !.after = "follow"]
         IN  r \in AnyLocals /\ r.prior # "complete"
  BY DEF AnyLocals

(* commitAcceptTransition replaces the locals by well-formed ones. *)
LEMMA CommittingWith ==
  ASSUME ControlOK, NEW p \in Actors, NEW reason \in Reasons,
         NEW write \in BOOLEAN, NEW dedupe \in BOOLEAN,
         Committing(p, reason, write, dedupe)
  PROVE  \E r \in AnyLocals : r.prior # "complete"
                              /\ at' = [at EXCEPT ![p] = r]
  <1> DEFINE r == [at[p] EXCEPT !.reason = reason, !.write = write,
                                !.dedupe = dedupe, !.after = "follow"]
  <1>1. at[p] \in AnyLocals /\ at[p].prior # "complete"
    BY DEF ControlOK
  <1>2. r \in AnyLocals /\ r.prior # "complete"
    BY <1>1, CommitLocals
  <1>3. at' = [at EXCEPT ![p] = r]
    BY DEF Committing, ControlOK
  <1> QED
    BY <1>2, <1>3

(* ... and the handler that goes on to commit. *)
LEMMA GoingToCommit ==
  ASSUME ControlOK, Monotone, HasLanded', NEW p \in Actors,
         NEW reason \in Reasons, NEW write \in BOOLEAN, NEW dedupe \in BOOLEAN,
         Committing(p, reason, write, dedupe), Goto(p, "record")
  PROVE  ControlOK'
  <1>1. PICK r \in AnyLocals : r.prior # "complete"
                               /\ at' = [at EXCEPT ![p] = r]
    BY CommittingWith
  <1>2. "record" \in Places
    BY DEF Places, CommitPlaces
  <1> QED
    BY <1>1, <1>2, GoingWith

(* One field of the locals is set. *)
LEMMA AfterWith ==
  ASSUME ControlOK, NEW p \in Actors,
         NEW a \in {"none", "error", "comment", "follow", "act"},
         at' = [at EXCEPT ![p].after = a]
  PROVE  \E r \in AnyLocals : r.prior # "complete"
                              /\ at' = [at EXCEPT ![p] = r]
  <1>1. /\ [at[p] EXCEPT !.after = a] \in AnyLocals
        /\ [at[p] EXCEPT !.after = a].prior # "complete"
    BY DEF ControlOK, AnyLocals
  <1> QED
    BY <1>1

(* The status that was read is kept. *)
LEMMA FoundWith ==
  ASSUME ControlOK, NEW p \in Actors, NEW s \in Statuses,
         at' = [at EXCEPT ![p].found = s]
  PROVE  \E r \in AnyLocals : r.prior # "complete"
                              /\ at' = [at EXCEPT ![p] = r]
  <1>1. /\ [at[p] EXCEPT !.found = s] \in AnyLocals
        /\ [at[p] EXCEPT !.found = s].prior # "complete"
    BY DEF ControlOK, AnyLocals
  <1> QED
    BY <1>1

(* The locals that preflight sets. *)
LEMMA PreflightWith ==
  ASSUME ControlOK, NEW p \in Actors,
         NEW k \in {"none", "fresh", "resume", "reentry"},
         NEW f \in Statuses, NEW s \in Statuses \cup {None},
         NEW reason \in Reasons, s # "complete",
         at' = [at EXCEPT ![p].kind = k, ![p].found = f,
                          ![p].prior = s, ![p].reason = reason]
  PROVE  \E r \in AnyLocals : r.prior # "complete"
                              /\ at' = [at EXCEPT ![p] = r]
  <1> DEFINE r == [at[p] EXCEPT !.kind = k, !.found = f, !.prior = s,
                                !.reason = reason]
  <1>1. at \in [Actors -> AnyLocals] /\ at[p] \in AnyLocals
    BY DEF ControlOK
  <1>2. r \in AnyLocals /\ r.prior = s
    <2>1. \A l \in AnyLocals :
            LET m == [l EXCEPT !.kind = k, !.found = f, !.prior = s,
                               !.reason = reason]
            IN  m \in AnyLocals /\ m.prior = s
      BY DEF AnyLocals
    <2> QED
      BY <1>1, <2>1
  <1>3. at' = [at EXCEPT ![p] = r]
    BY <1>1
  <1> QED
    BY <1>2, <1>3

-----------------------------------------------------------------------------
(* Every action keeps the invariant.                                       *)

(* acceptTaskInner. *)
LEMMA AcceptStepKeeps ==
  ASSUME IInv, NEW p \in Actors, AcceptStep(p)
  PROVE  IInv'
  <1> USE DEF IInv
  <1>1. CASE FinishInterruptedTransition(p)
    <2>1. StoreOK' /\ Monotone
      BY <1>1
      DEF FinishInterruptedTransition, StoreOK, Monotone, HasLanded, meta,
          world
    <2>2. ControlOK'
      BY <1>1, <2>1, GoingToCommit
      DEF FinishInterruptedTransition, StoreOK, HasLanded, WorkLanded,
          Reasons, world
    <2> QED
      BY <2>1, <2>2 DEF IInv
  <1>2. CASE NothingToFinish(p)
    <2>1. StoreOK' /\ Monotone
      BY <1>2
      DEF NothingToFinish, StoreOK, Monotone, HasLanded, meta, world
    <2>2. ControlOK'
      BY <1>2, <2>1, Going
      DEF NothingToFinish, Places, AcceptPlaces, CommitPlaces, OtherPlaces,
          LandedPlaces
    <2> QED
      BY <2>1, <2>2 DEF IInv
  <1>3. CASE PreflightRefuses(p)
    <2>1. StoreOK' /\ Monotone
      BY <1>3
      DEF PreflightRefuses, StoreOK, Monotone, HasLanded, meta, world
    <2>2. ControlOK'
      BY <1>3, <2>1, Leaving
      DEF PreflightRefuses
    <2> QED
      BY <2>1, <2>2 DEF IInv
  <1>4. CASE PreflightPasses(p)
    <2>1. StoreOK' /\ Monotone
      BY <1>4 DEF PreflightPasses, StoreOK, Monotone, HasLanded, meta, world
    <2>2. PICK k \in {"none", "fresh", "resume", "reentry"},
               s \in Statuses \cup {None}, reason \in Reasons :
            /\ s # "complete"
            /\ at' = [at EXCEPT ![p].kind = k, ![p].found = status,
                               ![p].prior = s, ![p].reason = reason]
      <3>1. Kind \in {"none", "fresh", "resume", "reentry"}
        BY DEF Kind
      <3>2. /\ (IF marker # None THEN marker ELSE status) \in Statuses \cup {None}
            /\ (IF marker # None THEN marker ELSE status) # "complete"
        BY <1>4 DEF PreflightPasses, Acceptable, BlockedStatuses, StoreOK
      <3>3. (IF Kind = "resume" /\ intent # None THEN intent ELSE at[p].reason)
              \in Reasons
        BY DEF StoreOK, ControlOK, AnyLocals
      <3>4. at' = [at EXCEPT
              ![p].kind = Kind, ![p].found = status,
              ![p].prior = IF marker # None THEN marker ELSE status,
              ![p].reason = IF Kind = "resume" /\ intent # None THEN intent
                            ELSE at[p].reason]
        BY <1>4 DEF PreflightPasses, ControlOK
      <3> QED
        BY <3>1, <3>2, <3>3, <3>4
    <2>3. PICK r \in AnyLocals : r.prior # "complete"
                                 /\ at' = [at EXCEPT ![p] = r]
      BY <2>2, PreflightWith DEF StoreOK
    <2>4. PICK place \in Places \ LandedPlaces : Goto(p, place)
      BY <1>4 DEF PreflightPasses, Kind, Places, AcceptPlaces, LandedPlaces
    <2>5. ControlOK'
      BY <2>1, <2>3, <2>4, GoingWith
    <2> QED
      BY <2>1, <2>5
  <1>5. CASE GateStarts(p)
    <2>1. Monotone
      BY <1>5
      DEF GateStarts, Monotone, HasLanded, world
    <2>2. ControlOK' /\ status' \in Statuses /\ status' \in {status, "working"}
      BY <1>5, <2>1, Updating
      DEF GateStarts, Places, AcceptPlaces, CommitPlaces, OtherPlaces,
          LandedPlaces
    <2>3. StoreOK'
      BY <1>5, <2>2
      DEF GateStarts, StoreOK, ControlOK, HasLanded, meta, world
    <2> QED
      BY <2>2, <2>3
  <1>6. CASE GatePasses(p)
    <2>1. Monotone
      BY <1>6
      DEF GatePasses, Monotone, HasLanded, world
    <2>2. ControlOK' /\ status' \in Statuses /\ status' \in {status, at[p].prior}
      BY <1>6, <2>1, Updating
      DEF GatePasses, Places, AcceptPlaces, CommitPlaces, OtherPlaces,
          LandedPlaces
    <2>3. StoreOK'
      BY <1>6, <2>2
      DEF GatePasses, StoreOK, ControlOK, HasLanded, meta, world
    <2> QED
      BY <2>2, <2>3
  <1>7. CASE GateRefuses(p)
    <2>1. StoreOK' /\ Monotone
      BY <1>7
      DEF GateRefuses, StoreOK, Monotone, HasLanded, meta, world,
          CanTransition, Statuses, ValidTransitions, ControlOK
    <2>2. ControlOK'
      BY <1>7, <2>1, Leaving
      DEF GateRefuses
    <2> QED
      BY <2>1, <2>2 DEF IInv
  <1>8. CASE BeginMergePhase(p)
    <2>1. StoreOK' /\ Monotone
      BY <1>8
      DEF BeginMergePhase, StoreOK, Monotone, HasLanded, meta, world,
          OpenReview
    <2>2. ControlOK'
      BY <1>8, <2>1, Going
      DEF BeginMergePhase, Places, AcceptPlaces, CommitPlaces, OtherPlaces,
          LandedPlaces
    <2> QED
      BY <2>1, <2>2 DEF IInv
  <1>9. CASE PremergeRefuses(p)
    <2>1. StoreOK' /\ Monotone
      BY <1>9
      DEF PremergeRefuses, StoreOK, Monotone, HasLanded, meta, world,
          OpenReview
    <2>2. ControlOK'
      BY <1>9, <2>1, Leaving
      DEF PremergeRefuses
    <2> QED
      BY <2>1, <2>2 DEF IInv
  <1>10. CASE PersistIntent(p)
    <2>1. StoreOK' /\ Monotone
      BY <1>10
      DEF PersistIntent, StoreOK, Monotone, HasLanded, meta, world, ControlOK,
          AnyLocals
    <2>2. ControlOK'
      BY <1>10, <2>1, Going
      DEF PersistIntent, Places, AcceptPlaces, CommitPlaces, OtherPlaces,
          LandedPlaces
    <2> QED
      BY <2>1, <2>2 DEF IInv
  <1>11. CASE PersistMarker(p)
    <2>1. StoreOK' /\ Monotone
      BY <1>11
      DEF PersistMarker, StoreOK, Monotone, HasLanded, meta, world, ControlOK,
          AnyLocals
    <2>2. ControlOK'
      BY <1>11, <2>1, Going
      DEF PersistMarker, Places, AcceptPlaces, CommitPlaces, OtherPlaces,
          LandedPlaces
    <2> QED
      BY <2>1, <2>2 DEF IInv
  <1>12. CASE StampMerging(p)
    <2>1. Monotone
      BY <1>12 DEF StampMerging, Monotone, HasLanded, world
    <2>2. CASE Goto(p, "merge") /\ UNCHANGED <<status, lock, at>>
      <3>1. ControlOK'
        BY <2>1, <2>2, Going DEF Places, AcceptPlaces, LandedPlaces
      <3>2. StoreOK'
        BY <1>12, <2>2 DEF StampMerging, StoreOK, HasLanded, meta, world
      <3> QED
        BY <3>1, <3>2
    <2>3. CASE UpdateTaskStatus(p, "merging", "merge")
      <3>1. ControlOK' /\ status' \in Statuses /\ status' \in {status, "merging"}
        BY <2>1, <2>3, Updating DEF Places, AcceptPlaces, LandedPlaces
      <3>2. StoreOK'
        BY <1>12, <3>1 DEF StampMerging, StoreOK, HasLanded, meta, world
      <3> QED
        BY <3>1, <3>2
    <2> QED
      BY <1>12, <2>2, <2>3 DEF StampMerging
  <1>13. CASE MergeLands(p)
    <2>1. StoreOK' /\ Monotone
      BY <1>13
      DEF MergeLands, StoreOK, Monotone, HasLanded, meta, world, Land
    <2>2. ControlOK'
      BY <1>13, <2>1, Going
      DEF MergeLands, Land, HasLanded, Places, AcceptPlaces, CommitPlaces,
          OtherPlaces, LandedPlaces
    <2> QED
      BY <2>1, <2>2 DEF IInv
  <1>14. CASE MergePends(p)
    <2>1. StoreOK' /\ Monotone
      BY <1>14 DEF MergePends, StoreOK, Monotone, HasLanded, meta, world
    <2>2. PICK r \in AnyLocals : r.prior # "complete"
                                 /\ at' = [at EXCEPT ![p] = r]
      BY <1>14, AfterWith DEF MergePends
    <2>3. ControlOK'
      BY <1>14, <2>1, <2>2, GoingWith
      DEF MergePends, Places, CommitPlaces, LandedPlaces
    <2> QED
      BY <2>1, <2>3
  <1>15. CASE MergeFails(p)
    <2>1. StoreOK' /\ Monotone
      BY <1>15
      DEF MergeFails, StoreOK, Monotone, HasLanded, meta, world
    <2>2. ControlOK'
      BY <1>15, <2>1, Going, Leaving
      DEF MergeFails, Places, AcceptPlaces, CommitPlaces, OtherPlaces,
          LandedPlaces
    <2> QED
      BY <2>1, <2>2 DEF IInv
  <1>16. CASE AbortMergePhase(p)
    <2>1. Monotone
      BY <1>16 DEF AbortMergePhase, Monotone, HasLanded, world
    <2>2. CASE /\ CanTransition(status, at[p].prior)
               /\ status' = at[p].prior
               /\ at' = [at EXCEPT ![p].after = "error"]
               /\ Goto(p, "clear")
      <3>1. PICK r \in AnyLocals : r.prior # "complete"
                                   /\ at' = [at EXCEPT ![p] = r]
        BY <2>2, AfterWith
      <3>2. ControlOK'
        BY <2>1, <2>2, <3>1, GoingWith DEF Places, CommitPlaces, LandedPlaces
      <3>3. at[p].prior \in Statuses \ {"complete"}
        BY <2>2
        DEF CanTransition, Statuses, ValidTransitions, ControlOK, StoreOK
      <3>4. StoreOK'
        BY <1>16, <2>2, <3>3 DEF AbortMergePhase, StoreOK, HasLanded, meta, world
      <3> QED
        BY <3>2, <3>4
    <2>3. CASE UNCHANGED status /\ \E why \in {"ok", "error"} : Leave(p, why)
      <3>1. ControlOK'
        BY <2>1, <2>3, Leaving
      <3>2. StoreOK'
        BY <1>16, <2>3 DEF AbortMergePhase, StoreOK, HasLanded, meta, world
      <3> QED
        BY <3>1, <3>2
    <2> QED
      BY <1>16, <2>2, <2>3 DEF AbortMergePhase
  <1>17. CASE MetadataSaved(p)
    <2>1. StoreOK' /\ Monotone
      BY <1>17
      DEF MetadataSaved, StoreOK, Monotone, HasLanded, meta, world
    <2>2. ControlOK'
      BY <1>17, <2>1, GoingToCommit
      DEF MetadataSaved, ControlOK, AnyLocals, LandedPlaces, HasLanded, world
    <2> QED
      BY <2>1, <2>2 DEF IInv
  <1>18. CASE MetadataLost(p)
    <2>1. StoreOK' /\ Monotone
      BY <1>18
      DEF MetadataLost, StoreOK, Monotone, HasLanded, meta, world
    <2>2. ControlOK'
      BY <1>18, <2>1, Leaving
      DEF MetadataLost
    <2> QED
      BY <2>1, <2>2 DEF IInv
  <1>19. CASE CommentHandedOver(p)
    <2>1. StoreOK' /\ Monotone
      BY <1>19
      DEF CommentHandedOver, StoreOK, Monotone, HasLanded, meta, world
    <2>2. ControlOK'
      BY <1>19, <2>1, Leaving
      DEF CommentHandedOver
    <2> QED
      BY <2>1, <2>2 DEF IInv
  <1>20. CASE ReentryMerged(p)
    <2>1. StoreOK' /\ Monotone
      BY <1>20
      DEF ReentryMerged, StoreOK, Monotone, HasLanded, meta, world
    <2>2. ControlOK'
      BY <1>20, <2>1, GoingToCommit
      DEF ReentryMerged, ControlOK, AnyLocals, StoreOK, HasLanded, world
    <2> QED
      BY <2>1, <2>2 DEF IInv
  <1>21. CASE ReentryWaits(p)
    <2>1. StoreOK' /\ Monotone
      BY <1>21
      DEF ReentryWaits, StoreOK, Monotone, HasLanded, meta, world
    <2>2. ControlOK'
      BY <1>21, <2>1, Leaving
      DEF ReentryWaits
    <2> QED
      BY <2>1, <2>2 DEF IInv
  <1>22. CASE ReentryChecksFailed(p)
    <2>1. StoreOK' /\ Monotone
      BY <1>22
      DEF ReentryChecksFailed, StoreOK, Monotone, HasLanded, meta, world
    <2>2. ControlOK'
      BY <1>22, <2>1, Going
      DEF ReentryChecksFailed, Places, AcceptPlaces, CommitPlaces,
          OtherPlaces, LandedPlaces
    <2> QED
      BY <2>1, <2>2 DEF IInv
  <1>23. CASE ReentryRetries(p)
    <2>1. StoreOK' /\ Monotone
      BY <1>23
      DEF ReentryRetries, StoreOK, Monotone, HasLanded, meta, world
    <2>2. ControlOK'
      BY <1>23, <2>1, Going
      DEF ReentryRetries, Places, AcceptPlaces, CommitPlaces, OtherPlaces,
          LandedPlaces
    <2> QED
      BY <2>1, <2>2 DEF IInv
  <1>24. CASE RetryLands(p)
    <2>1. StoreOK' /\ Monotone
      BY <1>24
      DEF RetryLands, StoreOK, Monotone, HasLanded, meta, world, Land
    <2>2. ControlOK'
      BY <1>24, <2>1, GoingToCommit
      DEF RetryLands, ControlOK, AnyLocals, Land, HasLanded
    <2> QED
      BY <2>1, <2>2 DEF IInv
  <1>25. CASE RetryDoesNotLand(p)
    <2>1. StoreOK' /\ Monotone
      BY <1>25
      DEF RetryDoesNotLand, StoreOK, Monotone, HasLanded, meta, world
    <2>2. ControlOK'
      BY <1>25, <2>1, Leaving
      DEF RetryDoesNotLand
    <2> QED
      BY <2>1, <2>2 DEF IInv
  <1> QED
    BY <1>1, <1>2, <1>3, <1>4, <1>5, <1>6, <1>7, <1>8, <1>9, <1>10, <1>11,
       <1>12, <1>13, <1>14, <1>15, <1>16, <1>17, <1>18, <1>19, <1>20, <1>21,
       <1>22, <1>23, <1>24, <1>25 DEF AcceptStep

(* clearMergeInFlight. *)
LEMMA ClearStepKeeps ==
  ASSUME IInv, NEW p \in Actors, ClearStep(p)
  PROVE  IInv'
  <1> USE DEF IInv
  <1>1. CASE ClearMarker(p)
    <2>1. StoreOK' /\ Monotone
      BY <1>1
      DEF ClearMarker, StoreOK, Monotone, HasLanded, meta, world
    <2>2. ControlOK'
      BY <1>1, <2>1, Going
      DEF ClearMarker, Places, AcceptPlaces, CommitPlaces, OtherPlaces,
          LandedPlaces
    <2> QED
      BY <2>1, <2>2 DEF IInv
  <1>2. CASE ClearIntent(p)
    <2>1. StoreOK' /\ Monotone
      BY <1>2
      DEF ClearIntent, StoreOK, Monotone, HasLanded, meta, world
    <2>2. ControlOK'
      BY <1>2, <2>1, Going
      DEF ClearIntent, Places, AcceptPlaces, CommitPlaces, OtherPlaces,
          LandedPlaces
    <2> QED
      BY <2>1, <2>2 DEF IInv
  <1>3. CASE ClearAttempts(p)
    <2>1. StoreOK' /\ Monotone
      BY <1>3 DEF ClearAttempts, StoreOK, Monotone, HasLanded, meta, world
    <2>2. CASE /\ Goto(p, "handed") \/ Goto(p, "follow")
               /\ UNCHANGED at
      BY <2>1, <2>2, Going
      DEF Places, AcceptPlaces, CommitPlaces, LandedPlaces
    <2>3. CASE \E why \in {"ok", "error"} : Leave(p, why)
      BY <2>1, <2>3, Leaving
    <2>4. CASE at' = [at EXCEPT ![p].found = status] /\ Goto(p, "act")
      <3>1. PICK r \in AnyLocals : r.prior # "complete"
                                   /\ at' = [at EXCEPT ![p] = r]
        BY <2>4, FoundWith DEF StoreOK
      <3>2. ControlOK'
        BY <2>1, <2>4, <3>1, GoingWith DEF Places, OtherPlaces, LandedPlaces
      <3> QED
        BY <2>1, <3>2
    <2> QED
      BY <1>3, <2>1, <2>2, <2>3, <2>4 DEF ClearAttempts
  <1> QED
    BY <1>1, <1>2, <1>3 DEF ClearStep

(* commitAcceptTransition: the status it writes is true. *)
LEMMA CommitStepKeeps ==
  ASSUME IInv, NEW p \in Actors, CommitStep(p)
  PROVE  IInv'
  <1> USE DEF IInv
  <1>1. CASE RecordFollowThrough(p)
    <2>1. HasLanded
      BY <1>1 DEF RecordFollowThrough, ControlOK, LandedPlaces
    <2>2. StoreOK' /\ Monotone /\ HasLanded'
      BY <1>1, <2>1 DEF RecordFollowThrough, StoreOK, Monotone, HasLanded, meta, world
    <2>3. Goto(p, "comment") /\ UNCHANGED at /\ "comment" \in Places
      BY <1>1 DEF RecordFollowThrough, Places, CommitPlaces
    <2>4. ControlOK'
      BY <2>2, <2>3, Going
    <2> QED
      BY <2>2, <2>4
  <1>2. CASE CommentAccepted(p)
    <2>1. HasLanded
      BY <1>2 DEF CommentAccepted, ControlOK, LandedPlaces
    <2>2. StoreOK' /\ Monotone /\ HasLanded'
      BY <1>2, <2>1 DEF CommentAccepted, StoreOK, Monotone, HasLanded, meta, world
    <2>3. Goto(p, "end") /\ UNCHANGED at /\ "end" \in Places
      BY <1>2 DEF CommentAccepted, Places, CommitPlaces
    <2>4. ControlOK'
      BY <2>2, <2>3, Going
    <2> QED
      BY <2>2, <2>4
  <1>3. CASE EndSession(p)
    <2>1. HasLanded
      BY <1>3 DEF EndSession, ControlOK, LandedPlaces
    <2>2. StoreOK' /\ Monotone /\ HasLanded'
      BY <1>3, <2>1 DEF EndSession, StoreOK, Monotone, HasLanded, meta, world
    <2>3. Goto(p, "live") /\ UNCHANGED at /\ "live" \in Places
      BY <1>3 DEF EndSession, Places, CommitPlaces
    <2>4. ControlOK'
      BY <2>2, <2>3, Going
    <2> QED
      BY <2>2, <2>4
  <1>4. CASE ReadLive(p)
    <2>1. Monotone /\ HasLanded'
      BY <1>4 DEF ReadLive, Monotone, HasLanded, world, ControlOK, LandedPlaces
    <2>2. CASE Goto(p, "clear") /\ UNCHANGED <<status, lock, at>>
      <3>1. ControlOK'
        BY <2>1, <2>2, Going DEF Places, CommitPlaces, LandedPlaces
      <3>2. StoreOK'
        BY <1>4, <2>2 DEF ReadLive, StoreOK, HasLanded, meta, world
      <3> QED
        BY <3>1, <3>2
    <2>3. CASE UpdateTaskStatus(p, "merging", "complete")
      <3>1. ControlOK' /\ status' \in Statuses
        BY <2>1, <2>3, Updating DEF Places, CommitPlaces
      <3>2. StoreOK'
        BY <1>4, <2>1, <3>1 DEF ReadLive, StoreOK, meta, world
      <3> QED
        BY <3>1, <3>2
    <2> QED
      BY <1>4, <2>2, <2>3 DEF ReadLive
  <1>5. CASE Complete(p)
    <2>1. Monotone /\ HasLanded'
      BY <1>5 DEF Complete, Monotone, HasLanded, world, ControlOK, LandedPlaces
    <2>2. ControlOK' /\ status' \in Statuses
      BY <1>5, <2>1, Updating DEF Complete, Places, CommitPlaces
    <2>3. StoreOK'
      BY <1>5, <2>1, <2>2 DEF Complete, StoreOK, meta, world
    <2> QED
      BY <2>2, <2>3
  <1>6. CASE RunFollowThrough(p)
    <2>1. StoreOK' /\ Monotone
      BY <1>6
      DEF RunFollowThrough, StoreOK, Monotone, HasLanded, meta, world,
          FollowThrough
    <2>2. ControlOK'
      BY <1>6, <2>1, Leaving
      DEF RunFollowThrough
    <2> QED
      BY <2>1, <2>2 DEF IInv
  <1> QED
    BY <1>1, <1>2, <1>3, <1>4, <1>5, <1>6 DEF CommitStep

(* recoverStrandedMerge: the resting status is a paused one. *)
LEMMA RecoverKeeps ==
  ASSUME IInv, NEW p \in Actors, RecoverStrandedMerge(p)
  PROVE  IInv'
  <1> USE DEF IInv
  <1>1. CASE RecoverStrandedMerge(p)
    <2>1. Monotone
      BY <1>1 DEF RecoverStrandedMerge, Monotone, HasLanded, world
    <2>2. CASE /\ CanTransition(status, RestingStatus(at[p].prior))
               /\ status' = RestingStatus(at[p].prior)
               /\ at' = [at EXCEPT ![p].after = "act"]
               /\ Goto(p, "clear")
      <3>1. PICK r \in AnyLocals : r.prior # "complete"
                                   /\ at' = [at EXCEPT ![p] = r]
        BY <2>2, AfterWith
      <3>2. ControlOK'
        BY <2>1, <2>2, <3>1, GoingWith DEF Places, CommitPlaces, LandedPlaces
      <3>3. RestingStatus(at[p].prior) \in Statuses \ {"complete"}
        BY <2>2
        DEF CanTransition, Statuses, ValidTransitions, ControlOK, StoreOK, RestingStatus
      <3>4. StoreOK'
        BY <1>1, <2>2, <3>3 DEF RecoverStrandedMerge, StoreOK, HasLanded, meta, world
      <3> QED
        BY <3>2, <3>4
    <2>3. CASE UNCHANGED status /\ \E why \in {"ok", "error"} : Leave(p, why)
      <3>1. ControlOK'
        BY <2>1, <2>3, Leaving
      <3>2. StoreOK'
        BY <1>1, <2>3 DEF RecoverStrandedMerge, StoreOK, HasLanded, meta, world
      <3> QED
        BY <3>1, <3>2
    <2> QED
      BY <1>1, <2>2, <2>3 DEF RecoverStrandedMerge
  <1> QED
    BY <1>1 DEF RecoverStrandedMerge

(* The locals of the sweep: its snapshot, and the attempt it counts. *)
LEMMA SweepLocals ==
  ASSUME StoreOK, NEW reason \in Reasons
  PROVE  LET r == [NoLocals EXCEPT !.prior = marker, !.attempt = attempts,
                                   !.reason = reason]
         IN  r \in AnyLocals /\ r.prior # "complete"
  <1>1. /\ marker \in Statuses \cup {None}
        /\ marker # "complete"
        /\ attempts \in Int
    BY AcceptAssumption DEF StoreOK, Statuses
  <1> QED
    BY <1>1, NoLocalsTyped DEF AnyLocals

(* The attempt is counted. *)
LEMMA AttemptWith ==
  ASSUME ControlOK, NEW p \in Actors,
         at' = [at EXCEPT ![p].attempt = @ + 1]
  PROVE  \E r \in AnyLocals : r.prior # "complete"
                              /\ at' = [at EXCEPT ![p] = r]
  <1> DEFINE n == at[p].attempt + 1
  <1>1. n \in Int
    BY DEF ControlOK, AnyLocals
  <1>2. at' = [at EXCEPT ![p] = [at[p] EXCEPT !.attempt = n]]
    BY DEF ControlOK
  <1> HIDE DEF n
  <1>3. /\ [at[p] EXCEPT !.attempt = n] \in AnyLocals
        /\ [at[p] EXCEPT !.attempt = n].prior # "complete"
    BY <1>1 DEF ControlOK, AnyLocals
  <1> QED
    BY <1>2, <1>3

(* The sweep. *)
LEMMA SweepStepKeeps ==
  ASSUME IInv, Resume \in Actors, SweepStep
  PROVE  IInv'
  <1> USE DEF IInv
  <1>1. CASE SweepLists
    <2>1. StoreOK' /\ Monotone
      BY <1>1 DEF SweepLists, StoreOK, Monotone, HasLanded, meta, world
    <2>2. PICK reason \in Reasons :
            at' = [at EXCEPT ![Resume] =
                     [NoLocals EXCEPT !.prior = marker, !.attempt = attempts,
                                      !.reason = reason]]
      BY <1>1 DEF SweepLists, StoreOK, Reasons
    <2>3. PICK r \in AnyLocals : r.prior # "complete"
                                 /\ at' = [at EXCEPT ![Resume] = r]
      BY <2>2, SweepLocals
    <2>4. ControlOK'
      BY <1>1, <2>1, <2>3, GoingWith
      DEF SweepLists, Places, OtherPlaces, LandedPlaces
    <2> QED
      BY <2>1, <2>4
  <1>2. CASE SweepResumes
    <2>1. StoreOK' /\ Monotone
      BY <1>2
      DEF SweepResumes, StoreOK, Monotone, HasLanded, meta, world
    <2>2. ControlOK'
      BY <1>2, <2>1, Going
      DEF SweepResumes, Places, AcceptPlaces, CommitPlaces, OtherPlaces,
          LandedPlaces
    <2> QED
      BY <2>1, <2>2 DEF IInv
  <1>3. CASE SweepRecovers
    <2>1. StoreOK' /\ Monotone
      BY <1>3
      DEF SweepRecovers, StoreOK, Monotone, HasLanded, meta, world
    <2>2. ControlOK'
      BY <1>3, <2>1, Going
      DEF SweepRecovers, Places, AcceptPlaces, CommitPlaces, OtherPlaces,
          LandedPlaces
    <2> QED
      BY <2>1, <2>2 DEF IInv
  <1>4. CASE SweepSkips
    <2>1. StoreOK' /\ Monotone
      BY <1>4
      DEF SweepSkips, StoreOK, Monotone, HasLanded, meta, world
    <2>2. ControlOK'
      BY <1>4, <2>1, Leaving
      DEF SweepSkips
    <2> QED
      BY <2>1, <2>2 DEF IInv
  <1>5. CASE CountAttempt
    <2>1. StoreOK' /\ Monotone
      BY <1>5 DEF CountAttempt, StoreOK, ControlOK, AnyLocals, Monotone,
                  HasLanded, world
    <2>2. PICK r \in AnyLocals : r.prior # "complete"
                                 /\ at' = [at EXCEPT ![Resume] = r]
      BY <1>5, AttemptWith DEF CountAttempt
    <2>3. ControlOK'
      BY <1>5, <2>1, <2>2, GoingWith
      DEF CountAttempt, Places, OtherPlaces, LandedPlaces
    <2> QED
      BY <2>1, <2>3
  <1>6. CASE ResumeFailed
    <2>1. StoreOK' /\ Monotone
      BY <1>6
      DEF ResumeFailed, StoreOK, Monotone, HasLanded, meta, world, ControlOK,
          AnyLocals
    <2>2. ControlOK'
      BY <1>6, <2>1, Leaving
      DEF ResumeFailed
    <2> QED
      BY <2>1, <2>2 DEF IInv
  <1>7. CASE RecoverStrandedMerge(Resume)
    BY <1>7, RecoverKeeps
  <1> QED
    BY <1>1, <1>2, <1>3, <1>4, <1>5, <1>6, <1>7 DEF SweepStep

(* The escape keeps the marker it read. *)
LEMMA PriorWith ==
  ASSUME ControlOK, StoreOK, NEW p \in Actors,
         at' = [at EXCEPT ![p].prior = marker]
  PROVE  \E r \in AnyLocals : r.prior # "complete"
                              /\ at' = [at EXCEPT ![p] = r]
  <1>1. marker \in Statuses \cup {None} /\ marker # "complete"
    BY AcceptAssumption DEF StoreOK, Statuses
  <1>2. /\ [at[p] EXCEPT !.prior = marker] \in AnyLocals
        /\ [at[p] EXCEPT !.prior = marker].prior # "complete"
    BY <1>1 DEF ControlOK, AnyLocals
  <1> QED
    BY <1>2

(* rejectTask. *)
LEMMA RejectStepKeeps ==
  ASSUME IInv, Reject \in Actors, RejectStep
  PROVE  IInv'
  <1> USE DEF IInv
  <1>1. CASE RejectReads
    <2>1. StoreOK' /\ Monotone
      BY <1>1 DEF RejectReads, StoreOK, Monotone, HasLanded, meta, world
    <2>2. PICK r \in AnyLocals : r.prior # "complete"
                                 /\ at' = [at EXCEPT ![Reject] = r]
      BY <1>1, FoundWith DEF RejectReads, StoreOK
    <2>3. ControlOK'
      BY <1>1, <2>1, <2>2, GoingWith
      DEF RejectReads, Places, OtherPlaces, LandedPlaces
    <2> QED
      BY <2>1, <2>3
  <1>2. CASE RejectClaimsWorktree
    <2>1. StoreOK' /\ Monotone
      BY <1>2
      DEF RejectClaimsWorktree, StoreOK, Monotone, HasLanded, meta, world
    <2>2. ControlOK'
      BY <1>2, <2>1, Going
      DEF RejectClaimsWorktree, Places, AcceptPlaces, CommitPlaces,
          OtherPlaces, LandedPlaces
    <2> QED
      BY <2>1, <2>2 DEF IInv
  <1>3. CASE EscapeMerging
    <2>1. StoreOK' /\ Monotone
      BY <1>3
      DEF EscapeMerging, StoreOK, Monotone, HasLanded, meta, world
    <2>2. ControlOK'
      BY <1>3, <2>1, Going, Leaving
      DEF EscapeMerging, Places, AcceptPlaces, CommitPlaces, OtherPlaces,
          LandedPlaces
    <2> QED
      BY <2>1, <2>2 DEF IInv
  <1>4. CASE EscapeUnneeded
    <2>1. StoreOK' /\ Monotone
      BY <1>4 DEF EscapeUnneeded, StoreOK, Monotone, HasLanded, meta, world
    <2>2. PICK r \in AnyLocals : r.prior # "complete"
                                 /\ at' = [at EXCEPT ![Reject] = r]
      BY <1>4, FoundWith DEF EscapeUnneeded, StoreOK
    <2>3. ControlOK'
      BY <1>4, <2>1, <2>2, GoingWith
      DEF EscapeUnneeded, Places, OtherPlaces, LandedPlaces
    <2> QED
      BY <2>1, <2>3
  <1>5. CASE EscapeRefused
    <2>1. StoreOK' /\ Monotone
      BY <1>5
      DEF EscapeRefused, StoreOK, Monotone, HasLanded, meta, world
    <2>2. ControlOK'
      BY <1>5, <2>1, Leaving
      DEF EscapeRefused
    <2> QED
      BY <2>1, <2>2 DEF IInv
  <1>6. CASE EscapeRecovers
    <2>1. StoreOK' /\ Monotone
      BY <1>6 DEF EscapeRecovers, StoreOK, Monotone, HasLanded, meta, world
    <2>2. PICK r \in AnyLocals : r.prior # "complete"
                                 /\ at' = [at EXCEPT ![Reject] = r]
      BY <1>6, PriorWith DEF EscapeRecovers
    <2>3. ControlOK'
      BY <1>6, <2>1, <2>2, GoingWith
      DEF EscapeRecovers, Places, OtherPlaces, LandedPlaces
    <2> QED
      BY <2>1, <2>3
  <1>7. CASE RecoverStrandedMerge(Reject)
    BY <1>7, RecoverKeeps
  <1>8. CASE ClearStep(Reject)
    BY <1>8, ClearStepKeeps
  <1>9. CASE RejectRefused
    <2>1. StoreOK' /\ Monotone
      BY <1>9
      DEF RejectRefused, StoreOK, Monotone, HasLanded, meta, world
    <2>2. ControlOK'
      BY <1>9, <2>1, Leaving
      DEF RejectRefused
    <2> QED
      BY <2>1, <2>2 DEF IInv
  <1>10. CASE RejectActs
    <2>1. Monotone
      BY <1>10 DEF RejectActs, Monotone, HasLanded, world
    <2>2. CASE Goto(Reject, "abandon") /\ UNCHANGED <<status, lock, at>>
      <3>1. ControlOK'
        BY <2>1, <2>2, Going DEF Places, OtherPlaces, LandedPlaces
      <3>2. StoreOK'
        BY <1>10, <2>2 DEF RejectActs, StoreOK, HasLanded, meta, world
      <3> QED
        BY <3>1, <3>2
    <2>3. CASE UpdateTaskStatus(Reject, "interrupted", "abandon")
      <3>1. /\ ControlOK'
            /\ status' \in Statuses
            /\ status' \in {status, "interrupted"}
        BY <2>1, <2>3, Updating DEF Places, OtherPlaces, LandedPlaces
      <3>2. StoreOK'
        BY <1>10, <3>1 DEF RejectActs, StoreOK, HasLanded, meta, world
      <3> QED
        BY <3>1, <3>2
    <2> QED
      BY <1>10, <2>2, <2>3 DEF RejectActs
  <1>11. CASE RejectAbandons
    <2>1. Monotone
      BY <1>11
      DEF RejectAbandons, Monotone, HasLanded, world
    <2>2. ControlOK' /\ status' \in Statuses /\ status' \in {status, "abandoned"}
      BY <1>11, <2>1, Updating
      DEF RejectAbandons, Places, AcceptPlaces, CommitPlaces, OtherPlaces,
          LandedPlaces
    <2>3. StoreOK'
      BY <1>11, <2>2
      DEF RejectAbandons, StoreOK, ControlOK, HasLanded, meta, world
    <2> QED
      BY <2>2, <2>3
  <1>12. CASE RejectEndsSession
    <2>1. StoreOK' /\ Monotone
      BY <1>12
      DEF RejectEndsSession, StoreOK, Monotone, HasLanded, meta, world
    <2>2. ControlOK'
      BY <1>12, <2>1, Going
      DEF RejectEndsSession, Places, AcceptPlaces, CommitPlaces, OtherPlaces,
          LandedPlaces
    <2> QED
      BY <2>1, <2>2 DEF IInv
  <1>13. CASE RejectClosesReview
    <2>1. StoreOK' /\ Monotone
      BY <1>13
      DEF RejectClosesReview, StoreOK, Monotone, HasLanded, meta, world
    <2>2. ControlOK'
      BY <1>13, <2>1, Leaving
      DEF RejectClosesReview
    <2> QED
      BY <2>1, <2>2 DEF IInv
  <1> QED
    BY <1>1, <1>2, <1>3, <1>4, <1>5, <1>6, <1>7, <1>8, <1>9, <1>10, <1>11,
       <1>12, <1>13 DEF RejectStep

(* detectExternalChanges. *)
LEMMA SyncStepKeeps ==
  ASSUME IInv, Sync \in Actors, SyncStep
  PROVE  IInv'
  <1> USE DEF IInv
  <1>1. CASE SyncLists
    <2>1. StoreOK' /\ Monotone
      BY <1>1 DEF SyncLists, StoreOK, Monotone, HasLanded, meta, world
    <2>2. PICK r \in AnyLocals : r.prior # "complete"
                                 /\ at' = [at EXCEPT ![Sync] = r]
      BY <1>1, FoundWith DEF SyncLists, StoreOK
    <2>3. ControlOK'
      BY <1>1, <2>1, <2>2, GoingWith
      DEF SyncLists, Places, OtherPlaces, LandedPlaces
    <2> QED
      BY <2>1, <2>3
  <1>2. CASE SyncSeesMerged
    <2>1. StoreOK' /\ Monotone
      BY <1>2
      DEF SyncSeesMerged, StoreOK, Monotone, HasLanded, meta, world
    <2>2. ControlOK'
      BY <1>2, <2>1, Going, Leaving
      DEF SyncSeesMerged, StoreOK, HasLanded, world, Places, AcceptPlaces,
          CommitPlaces, OtherPlaces, LandedPlaces
    <2> QED
      BY <2>1, <2>2 DEF IInv
  <1>3. CASE CompleteMergedOnForge
    <2>1. StoreOK' /\ Monotone /\ HasLanded'
      BY <1>3 DEF CompleteMergedOnForge, StoreOK, Monotone, HasLanded, meta,
                  world, ControlOK, LandedPlaces
    <2>2. CASE Leave(Sync, "ok")
      BY <2>1, <2>2, Leaving
    <2>3. CASE Goto(Sync, "record")
      BY <1>3, <2>1, <2>3, GoingToCommit, Leaving
      DEF CompleteMergedOnForge, StoreOK, Reasons
    <2> QED
      BY <1>3, <2>2, <2>3 DEF CompleteMergedOnForge
  <1>4. CASE SyncSeesClosed
    <2>1. StoreOK' /\ Monotone
      BY <1>4
      DEF SyncSeesClosed, StoreOK, Monotone, HasLanded, meta, world
    <2>2. ControlOK'
      BY <1>4, <2>1, Going
      DEF SyncSeesClosed, Places, AcceptPlaces, CommitPlaces, OtherPlaces,
          LandedPlaces
    <2> QED
      BY <2>1, <2>2 DEF IInv
  <1>5. CASE SyncSeesOpen
    <2>1. StoreOK' /\ Monotone
      BY <1>5
      DEF SyncSeesOpen, StoreOK, Monotone, HasLanded, meta, world
    <2>2. ControlOK'
      BY <1>5, <2>1, Going, Leaving
      DEF SyncSeesOpen, Places, AcceptPlaces, CommitPlaces, OtherPlaces,
          LandedPlaces
    <2> QED
      BY <2>1, <2>2 DEF IInv
  <1>6. CASE SyncAbandons
    <2>1. StoreOK' /\ Monotone
      BY <1>6
      DEF SyncAbandons, StoreOK, Monotone, HasLanded, meta, world, Statuses
    <2>2. ControlOK'
      BY <1>6, <2>1, Leaving
      DEF SyncAbandons
    <2> QED
      BY <2>1, <2>2 DEF IInv
  <1> QED
    BY <1>1, <1>2, <1>3, <1>4, <1>5, <1>6 DEF SyncStep

(* Everything else. *)
LEMMA SurroundingsKeep ==
  ASSUME IInv, Surroundings
  PROVE  IInv'
  <1> USE DEF IInv
  <1>1. CASE SweepAcceptFollowThrough
    BY <1>1
    DEF SweepAcceptFollowThrough, StoreOK, ControlOK, HasLanded, meta, world,
        FollowThrough
  <1>2. CASE SelfHeal
    BY <1>2
    DEF SelfHeal, StoreOK, ControlOK, HasLanded, meta, world, Statuses
  <1>3. CASE ReconcileWorking
    BY <1>3
    DEF ReconcileWorking, StoreOK, ControlOK, HasLanded, meta, world,
        PausedStatus, Statuses
  <1>4. CASE Turn
    BY <1>4
    DEF Turn, StoreOK, ControlOK, HasLanded, meta, world, Statuses
  <1>5. CASE Submit
    BY <1>5
    DEF Submit, StoreOK, ControlOK, HasLanded, meta, world, Statuses
  <1>6. CASE ForgeMerges
    BY <1>6
    DEF ForgeMerges, StoreOK, ControlOK, HasLanded, meta, world
  <1>7. CASE ForgeCloses
    BY <1>7
    DEF ForgeCloses, StoreOK, ControlOK, HasLanded, meta, world
  <1>8. CASE DropForge
    BY <1>8
    DEF DropForge, StoreOK, ControlOK, HasLanded, meta, world
  <1>9. CASE Crash
    BY <1>9, NoLocalsTyped
    DEF Crash, StoreOK, ControlOK, HasLanded, meta, world, Places, OtherPlaces,
        LandedPlaces
  <1> QED
    BY <1>1, <1>2, <1>3, <1>4, <1>5, <1>6, <1>7, <1>8, <1>9 DEF Surroundings

(* parkTaskPaused writes a paused status. *)
LEMMA ParkKeeps ==
  ASSUME IInv, NEW p \in Actors, ParkTaskPaused(p)
  PROVE  IInv'
  <1>1. StoreOK' /\ Monotone
    BY DEF ParkTaskPaused, PausedStatus, Statuses, IInv, StoreOK, Monotone,
           HasLanded, meta, world
  <1>2. ControlOK'
    BY <1>1, Leaving DEF ParkTaskPaused, IInv
  <1> QED
    BY <1>1, <1>2 DEF IInv

(* An accept that gets the lifecycle lock. *)
LEMMA EnterKeeps ==
  ASSUME IInv, NEW p \in Actors, p \in Accepts \cup {Resume}, EnterAccept(p)
  PROVE  IInv'
  <1>1. StoreOK' /\ Monotone
    BY DEF EnterAccept, IInv, StoreOK, Monotone, HasLanded, meta, world
  <1>2. "early" \in Places \ LandedPlaces /\ Goto(p, "early")
    BY DEF EnterAccept, Places, AcceptPlaces, LandedPlaces
  <1>3. CASE UNCHANGED at
    BY <1>1, <1>2, <1>3, Going DEF IInv
  <1>4. CASE p # Resume /\ at' = [at EXCEPT ![p].reason = p]
    <2>1. /\ [at[p] EXCEPT !.reason = p] \in AnyLocals
          /\ [at[p] EXCEPT !.reason = p].prior # "complete"
      BY <1>4 DEF IInv, ControlOK, AnyLocals, Reasons
    <2>2. PICK r \in AnyLocals : r.prior # "complete"
                                 /\ at' = [at EXCEPT ![p] = r]
      BY <1>4, <2>1
    <2> QED
      BY <1>1, <1>2, <2>2, GoingWith DEF IInv
  <1> QED
    BY <1>3, <1>4 DEF EnterAccept

(* The invariant is inductive. *)
LEMMA Inductive == IInv /\ [Next]_vars => IInv'
  <1> SUFFICES ASSUME IInv, [Next]_vars PROVE IInv'
    OBVIOUS
  <1>1. ASSUME NEW p \in Actors, ActorStep(p) PROVE IInv'
    BY <1>1, EnterKeeps, AcceptStepKeeps, ClearStepKeeps, CommitStepKeeps,
       ParkKeeps, SweepStepKeeps, SyncStepKeeps, RejectStepKeeps
    DEF ActorStep
  <1>2. CASE Surroundings
    BY <1>2, SurroundingsKeep
  <1>3. CASE UNCHANGED vars
    BY <1>3 DEF vars, meta, world, IInv, StoreOK, ControlOK, HasLanded
  <1> QED
    BY <1>1, <1>2, <1>3 DEF Next

-----------------------------------------------------------------------------
(* Whoever completes a task - the accept, its resume, remote-sync or the   *)
(* self-heal of a listing - and whatever crashes in between, the work of a *)
(* complete task is on its target.                                         *)
THEOREM CompleteLanded == Spec => []CompleteMeansLanded
  <1>1. IInv => CompleteMeansLanded
    BY DEF IInv, StoreOK, HasLanded, CompleteMeansLanded
  <1> QED
    BY Initially, Inductive, <1>1, PTL DEF Spec

(* An "accepted" session - what the self-heal, the preflight and the sweep *)
(* take for a merge that happened - is never recorded before the merge.    *)
AcceptedMeansLanded == session = "accepted" => landed # "no"

THEOREM AcceptedLanded == Spec => []AcceptedMeansLanded
  <1>1. IInv => AcceptedMeansLanded
    BY DEF IInv, StoreOK, HasLanded, AcceptedMeansLanded
  <1> QED
    BY Initially, Inductive, <1>1, PTL DEF Spec

-----------------------------------------------------------------------------
(* The lifecycle lock.                                                     *)

(* Where a handler holds the lock, whichever it is. *)
HeldPlaces == {"early", "preflight", "gate", "gating", "begin", "intent",
               "marker", "stamp", "merge", "merged", "abort", "handed",
               "remote", "retry", "record", "comment", "end", "live",
               "complete", "follow", "reread", "escaping"}

(* clearMergeInFlight runs under the lock, but for the sweep's recovery of *)
(* a merge that no forge can finish any more.                              *)
ClearPlaces == {"clear", "clearIntent", "clearAttempts"}

Owns(p) ==
    /\ pc[p] \in HeldPlaces => lock = p
    /\ pc[p] \in ClearPlaces =>
          lock = p \/ (p = Resume /\ at[p].after = "act")
    /\ pc[p] = "recover" => p = Resume \/ (p = Reject /\ lock = p)

OwnerInv == \A p \in Actors : Owns(p)

(* A step moves its own handler, and takes the lock from nobody.           *)
LEMMA OwnStep ==
  ASSUME ControlOK, OwnerInv, NEW p \in Actors, ActorStep(p)
  PROVE  /\ Owns(p)'
         /\ \A q \in Actors \ {p} : /\ pc'[q] = pc[q] /\ at'[q] = at[q]
                                    /\ lock = q => lock' = q
  <1>1. Owns(p) /\ None \notin Actors
    BY AcceptAssumption DEF OwnerInv
  <1> USE <1>1, AcceptAssumption
          DEF ControlOK, AnyLocals, Owns, HeldPlaces, ClearPlaces, OneShot
  <1>2. CASE EnterAccept(p)
    BY <1>2 DEF EnterAccept, Goto
  <1>3. CASE FinishInterruptedTransition(p)
    BY <1>3 DEF FinishInterruptedTransition, Committing, Goto
  <1>4. CASE NothingToFinish(p)
    BY <1>4 DEF NothingToFinish, Goto
  <1>5. CASE PreflightRefuses(p)
    BY <1>5 DEF PreflightRefuses, Leave
  <1>6. CASE PreflightPasses(p)
    BY <1>6 DEF PreflightPasses, Goto, Kind
  <1>7. CASE GateStarts(p)
    BY <1>7 DEF GateStarts, UpdateTaskStatus, Goto, Leave
  <1>8. CASE GatePasses(p)
    BY <1>8 DEF GatePasses, UpdateTaskStatus, Goto, Leave
  <1>9. CASE GateRefuses(p)
    BY <1>9 DEF GateRefuses, Leave
  <1>10. CASE PremergeRefuses(p)
    BY <1>10 DEF PremergeRefuses, Leave
  <1>11. CASE BeginMergePhase(p)
    BY <1>11 DEF BeginMergePhase, Goto
  <1>12. CASE PersistIntent(p)
    BY <1>12 DEF PersistIntent, Goto
  <1>13. CASE PersistMarker(p)
    BY <1>13 DEF PersistMarker, Goto
  <1>14. CASE StampMerging(p)
    BY <1>14 DEF StampMerging, UpdateTaskStatus, Goto, Leave
  <1>15. CASE MergeLands(p)
    BY <1>15 DEF MergeLands, Goto
  <1>16. CASE MergePends(p)
    BY <1>16 DEF MergePends, Goto
  <1>17. CASE MergeFails(p)
    BY <1>17 DEF MergeFails, Goto, Leave
  <1>18. CASE AbortMergePhase(p)
    BY <1>18 DEF AbortMergePhase, Goto, Leave
  <1>19. CASE MetadataSaved(p)
    BY <1>19 DEF MetadataSaved, Committing, Goto
  <1>20. CASE MetadataLost(p)
    BY <1>20 DEF MetadataLost, Leave
  <1>21. CASE CommentHandedOver(p)
    BY <1>21 DEF CommentHandedOver, Leave
  <1>22. CASE ReentryMerged(p)
    BY <1>22 DEF ReentryMerged, Committing, Goto
  <1>23. CASE ReentryWaits(p)
    BY <1>23 DEF ReentryWaits, Leave
  <1>24. CASE ReentryChecksFailed(p)
    BY <1>24 DEF ReentryChecksFailed, Goto
  <1>25. CASE ReentryRetries(p)
    BY <1>25 DEF ReentryRetries, Goto
  <1>26. CASE RetryLands(p)
    BY <1>26 DEF RetryLands, Committing, Goto
  <1>27. CASE RetryDoesNotLand(p)
    BY <1>27 DEF RetryDoesNotLand, Leave
  <1>28. CASE ClearMarker(p)
    BY <1>28 DEF ClearMarker, Goto
  <1>29. CASE ClearIntent(p)
    BY <1>29 DEF ClearIntent, Goto
  <1>30. CASE ClearAttempts(p)
    BY <1>30 DEF ClearAttempts, Goto, Leave
  <1>31. CASE RecordFollowThrough(p)
    BY <1>31 DEF RecordFollowThrough, Goto
  <1>32. CASE CommentAccepted(p)
    BY <1>32 DEF CommentAccepted, Goto
  <1>33. CASE EndSession(p)
    BY <1>33 DEF EndSession, Goto
  <1>34. CASE ReadLive(p)
    BY <1>34 DEF ReadLive, UpdateTaskStatus, Goto, Leave
  <1>35. CASE Complete(p)
    BY <1>35 DEF Complete, UpdateTaskStatus, Goto, Leave
  <1>36. CASE RunFollowThrough(p)
    BY <1>36 DEF RunFollowThrough, Leave
  <1>37. CASE ParkTaskPaused(p)
    BY <1>37 DEF ParkTaskPaused, Leave
  <1>38. CASE p = Resume /\ SweepLists
    BY <1>38 DEF SweepLists, Goto
  <1>39. CASE p = Resume /\ SweepResumes
    BY <1>39 DEF SweepResumes, Goto
  <1>40. CASE p = Resume /\ SweepRecovers
    BY <1>40 DEF SweepRecovers, Goto
  <1>41. CASE p = Resume /\ SweepSkips
    BY <1>41 DEF SweepSkips, Leave
  <1>42. CASE p = Resume /\ CountAttempt
    BY <1>42 DEF CountAttempt, Goto
  <1>43. CASE p = Resume /\ ResumeFailed
    BY <1>43 DEF ResumeFailed, Leave
  <1>44. CASE RecoverStrandedMerge(p)
    BY <1>44 DEF RecoverStrandedMerge, Goto, Leave
  <1>45. CASE p = Reject /\ RejectReads
    BY <1>45 DEF RejectReads, Goto
  <1>46. CASE p = Reject /\ RejectClaimsWorktree
    BY <1>46 DEF RejectClaimsWorktree, Goto
  <1>47. CASE p = Reject /\ EscapeMerging
    BY <1>47 DEF EscapeMerging, Goto, Leave
  <1>48. CASE p = Reject /\ EscapeUnneeded
    BY <1>48 DEF EscapeUnneeded, Goto
  <1>49. CASE p = Reject /\ EscapeRefused
    BY <1>49 DEF EscapeRefused, Leave
  <1>50. CASE p = Reject /\ EscapeRecovers
    BY <1>50 DEF EscapeRecovers, Goto
  <1>51. CASE p = Reject /\ RejectRefused
    BY <1>51 DEF RejectRefused, Leave
  <1>52. CASE p = Reject /\ RejectActs
    BY <1>52 DEF RejectActs, UpdateTaskStatus, Goto, Leave
  <1>53. CASE p = Reject /\ RejectAbandons
    BY <1>53 DEF RejectAbandons, UpdateTaskStatus, Goto, Leave
  <1>54. CASE p = Reject /\ RejectEndsSession
    BY <1>54 DEF RejectEndsSession, Goto
  <1>55. CASE p = Reject /\ RejectClosesReview
    BY <1>55 DEF RejectClosesReview, Leave
  <1>56. CASE p = Sync /\ SyncLists
    BY <1>56 DEF SyncLists, Goto
  <1>57. CASE p = Sync /\ SyncSeesMerged
    BY <1>57 DEF SyncSeesMerged, Goto, Leave
  <1>58. CASE p = Sync /\ CompleteMergedOnForge
    BY <1>58 DEF CompleteMergedOnForge, Goto, Leave, Committing
  <1>59. CASE p = Sync /\ SyncSeesClosed
    BY <1>59 DEF SyncSeesClosed, Goto
  <1>60. CASE p = Sync /\ SyncSeesOpen
    BY <1>60 DEF SyncSeesOpen, Goto, Leave
  <1>61. CASE p = Sync /\ SyncAbandons
    BY <1>61 DEF SyncAbandons, Leave
  <1> QED
    BY <1>2, <1>3, <1>4, <1>5, <1>6, <1>7, <1>8, <1>9, <1>10, <1>11,
       <1>12, <1>13, <1>14, <1>15, <1>16, <1>17, <1>18, <1>19, <1>20, <1>21,
       <1>22, <1>23, <1>24, <1>25, <1>26, <1>27, <1>28, <1>29, <1>30, <1>31,
       <1>32, <1>33, <1>34, <1>35, <1>36, <1>37, <1>38, <1>39, <1>40, <1>41,
       <1>42, <1>43, <1>44, <1>45, <1>46, <1>47, <1>48, <1>49, <1>50, <1>51,
       <1>52, <1>53, <1>54, <1>55, <1>56, <1>57, <1>58, <1>59, <1>60, <1>61
    DEF ActorStep, AcceptStep, ClearStep, CommitStep, SweepStep, RejectStep,
        SyncStep

-----------------------------------------------------------------------------
(* The budget of resumes.                                                  *)

(* The daemon's resume, from the attempt it has counted to the end of the  *)
(* accept it runs. *)
Resuming ==
    \/ pc[Resume] \in HeldPlaces \cup {"park", "wait", "failed"}
    \/ pc[Resume] \in ClearPlaces /\ at[Resume].after # "act"

(* An attempt is counted within the bound and given back only after it was *)
(* counted.                                                                *)
Counts(p) ==
    /\ at[p].attempt \in 0..MaxResumes
    /\ p = Resume => /\ pc[p] = "bump" => at[p].attempt < MaxResumes
                     /\ Resuming => at[p].attempt >= 1

AttemptInv ==
    /\ attempts \in 0..MaxResumes
    /\ \A p \in Actors : Counts(p)

LEMMA CountStep ==
  ASSUME ControlOK, AttemptInv, NEW p \in Actors, ActorStep(p)
  PROVE  attempts' \in 0..MaxResumes /\ Counts(p)'
  <1>1. /\ Counts(p) /\ attempts \in 0..MaxResumes
        /\ MaxResumes \in Nat \ {0} /\ 0 \in 0..MaxResumes
    BY AcceptAssumption DEF AttemptInv
  <1> USE <1>1, AcceptAssumption
          DEF ControlOK, AnyLocals, Counts, Resuming, HeldPlaces, ClearPlaces,
              OneShot, NoLocals
  <1>2. CASE EnterAccept(p)
    BY <1>2 DEF EnterAccept, Goto, meta
  <1>3. CASE FinishInterruptedTransition(p)
    BY <1>3 DEF FinishInterruptedTransition, Committing, Goto, meta
  <1>4. CASE NothingToFinish(p)
    BY <1>4 DEF NothingToFinish, Goto, meta
  <1>5. CASE PreflightRefuses(p)
    BY <1>5 DEF PreflightRefuses, Leave, meta
  <1>6. CASE PreflightPasses(p)
    BY <1>6 DEF PreflightPasses, Goto, Kind, meta
  <1>7. CASE GateStarts(p)
    BY <1>7 DEF GateStarts, UpdateTaskStatus, Goto, Leave, meta
  <1>8. CASE GatePasses(p)
    BY <1>8 DEF GatePasses, UpdateTaskStatus, Goto, Leave, meta
  <1>9. CASE GateRefuses(p)
    BY <1>9 DEF GateRefuses, Leave, meta
  <1>10. CASE PremergeRefuses(p)
    BY <1>10 DEF PremergeRefuses, Leave, meta
  <1>11. CASE BeginMergePhase(p)
    BY <1>11 DEF BeginMergePhase, Goto, meta
  <1>12. CASE PersistIntent(p)
    BY <1>12 DEF PersistIntent, Goto, meta
  <1>13. CASE PersistMarker(p)
    BY <1>13 DEF PersistMarker, Goto, meta
  <1>14. CASE StampMerging(p)
    BY <1>14 DEF StampMerging, UpdateTaskStatus, Goto, Leave, meta
  <1>15. CASE MergeLands(p)
    BY <1>15 DEF MergeLands, Goto, meta
  <1>16. CASE MergePends(p)
    BY <1>16 DEF MergePends, Goto, meta
  <1>17. CASE MergeFails(p)
    BY <1>17 DEF MergeFails, Goto, Leave, meta
  <1>18. CASE AbortMergePhase(p)
    BY <1>18 DEF AbortMergePhase, Goto, Leave, meta
  <1>19. CASE MetadataSaved(p)
    BY <1>19 DEF MetadataSaved, Committing, Goto, meta
  <1>20. CASE MetadataLost(p)
    BY <1>20 DEF MetadataLost, Leave, meta
  <1>21. CASE CommentHandedOver(p)
    BY <1>21 DEF CommentHandedOver, Leave, meta
  <1>22. CASE ReentryMerged(p)
    BY <1>22 DEF ReentryMerged, Committing, Goto, meta
  <1>23. CASE ReentryWaits(p)
    BY <1>23 DEF ReentryWaits, Leave, meta
  <1>24. CASE ReentryChecksFailed(p)
    BY <1>24 DEF ReentryChecksFailed, Goto, meta
  <1>25. CASE ReentryRetries(p)
    BY <1>25 DEF ReentryRetries, Goto, meta
  <1>26. CASE RetryLands(p)
    BY <1>26 DEF RetryLands, Committing, Goto, meta
  <1>27. CASE RetryDoesNotLand(p)
    BY <1>27 DEF RetryDoesNotLand, Leave, meta
  <1>28. CASE ClearMarker(p)
    BY <1>28 DEF ClearMarker, Goto, meta
  <1>29. CASE ClearIntent(p)
    BY <1>29 DEF ClearIntent, Goto, meta
  <1>30. CASE ClearAttempts(p)
    BY <1>30 DEF ClearAttempts, Goto, Leave, meta
  <1>31. CASE RecordFollowThrough(p)
    BY <1>31 DEF RecordFollowThrough, Goto, meta, FollowThrough
  <1>32. CASE CommentAccepted(p)
    BY <1>32 DEF CommentAccepted, Goto, meta
  <1>33. CASE EndSession(p)
    BY <1>33 DEF EndSession, Goto, meta
  <1>34. CASE ReadLive(p)
    BY <1>34 DEF ReadLive, UpdateTaskStatus, Goto, Leave, meta
  <1>35. CASE Complete(p)
    BY <1>35 DEF Complete, UpdateTaskStatus, Goto, Leave, meta
  <1>36. CASE RunFollowThrough(p)
    BY <1>36 DEF RunFollowThrough, Leave, meta, FollowThrough
  <1>37. CASE ParkTaskPaused(p)
    BY <1>37 DEF ParkTaskPaused, Leave, meta
  <1>38. CASE p = Resume /\ SweepLists
    BY <1>38 DEF SweepLists, Goto, meta
  <1>39. CASE p = Resume /\ SweepResumes
    BY <1>39 DEF SweepResumes, Goto, meta
  <1>40. CASE p = Resume /\ SweepRecovers
    BY <1>40 DEF SweepRecovers, Goto, meta
  <1>41. CASE p = Resume /\ SweepSkips
    BY <1>41 DEF SweepSkips, Leave, meta
  <1>42. CASE p = Resume /\ CountAttempt
    BY <1>42 DEF CountAttempt, Goto, meta
  <1>43. CASE p = Resume /\ ResumeFailed
    BY <1>43 DEF ResumeFailed, Leave, meta
  <1>44. CASE RecoverStrandedMerge(p)
    BY <1>44 DEF RecoverStrandedMerge, Goto, Leave, meta
  <1>45. CASE p = Reject /\ RejectReads
    BY <1>45 DEF RejectReads, Goto, meta
  <1>46. CASE p = Reject /\ RejectClaimsWorktree
    BY <1>46 DEF RejectClaimsWorktree, Goto, meta
  <1>47. CASE p = Reject /\ EscapeMerging
    BY <1>47 DEF EscapeMerging, Goto, Leave, meta
  <1>48. CASE p = Reject /\ EscapeUnneeded
    BY <1>48 DEF EscapeUnneeded, Goto, meta
  <1>49. CASE p = Reject /\ EscapeRefused
    BY <1>49 DEF EscapeRefused, Leave, meta
  <1>50. CASE p = Reject /\ EscapeRecovers
    BY <1>50 DEF EscapeRecovers, Goto, meta
  <1>51. CASE p = Reject /\ RejectRefused
    BY <1>51 DEF RejectRefused, Leave, meta
  <1>52. CASE p = Reject /\ RejectActs
    BY <1>52 DEF RejectActs, UpdateTaskStatus, Goto, Leave, meta
  <1>53. CASE p = Reject /\ RejectAbandons
    BY <1>53 DEF RejectAbandons, UpdateTaskStatus, Goto, Leave, meta
  <1>54. CASE p = Reject /\ RejectEndsSession
    BY <1>54 DEF RejectEndsSession, Goto, meta
  <1>55. CASE p = Reject /\ RejectClosesReview
    BY <1>55 DEF RejectClosesReview, Leave, meta
  <1>56. CASE p = Sync /\ SyncLists
    BY <1>56 DEF SyncLists, Goto, meta
  <1>57. CASE p = Sync /\ SyncSeesMerged
    BY <1>57 DEF SyncSeesMerged, Goto, Leave, meta
  <1>58. CASE p = Sync /\ CompleteMergedOnForge
    BY <1>58 DEF CompleteMergedOnForge, Goto, Leave, Committing, meta
  <1>59. CASE p = Sync /\ SyncSeesClosed
    BY <1>59 DEF SyncSeesClosed, Goto, meta
  <1>60. CASE p = Sync /\ SyncSeesOpen
    BY <1>60 DEF SyncSeesOpen, Goto, Leave, meta
  <1>61. CASE p = Sync /\ SyncAbandons
    BY <1>61 DEF SyncAbandons, Leave, meta
  <1> QED
    BY <1>2, <1>3, <1>4, <1>5, <1>6, <1>7, <1>8, <1>9, <1>10, <1>11,
       <1>12, <1>13, <1>14, <1>15, <1>16, <1>17, <1>18, <1>19, <1>20, <1>21,
       <1>22, <1>23, <1>24, <1>25, <1>26, <1>27, <1>28, <1>29, <1>30, <1>31,
       <1>32, <1>33, <1>34, <1>35, <1>36, <1>37, <1>38, <1>39, <1>40, <1>41,
       <1>42, <1>43, <1>44, <1>45, <1>46, <1>47, <1>48, <1>49, <1>50, <1>51,
       <1>52, <1>53, <1>54, <1>55, <1>56, <1>57, <1>58, <1>59, <1>60, <1>61
    DEF ActorStep, AcceptStep, ClearStep, CommitStep, SweepStep, RejectStep,
        SyncStep

-----------------------------------------------------------------------------
(* Types.                                                                  *)

(* What TypeOK says and the invariants above do not. *)
RestOK ==
    /\ owed \in BOOLEAN
    /\ comments \in [Reasons -> Nat]
    /\ session \in {"open", "accepted", "rejected"}
    /\ violations \in BOOLEAN
    /\ landed \in {"no", "local", "forge"}
    /\ pr \in {"none", "open", "merged", "closed"}
    /\ forge \in BOOLEAN
    /\ lock \in Actors \cup {None}
    /\ told \in BOOLEAN
    /\ blind \in BOOLEAN
    /\ turns \in 0..MaxTurns
    /\ crashes \in 0..MaxCrashes

LEMMA RestStep ==
  ASSUME ControlOK, RestOK, NEW p \in Actors, ActorStep(p)
  PROVE  RestOK'
  <1>1. at[p].reason \in Reasons /\ at[p].attempt \in Int
    BY DEF ControlOK, AnyLocals
  <1> USE <1>1, AcceptAssumption DEF RestOK
  <1>2. CASE EnterAccept(p)
    BY <1>2 DEF EnterAccept, meta, world, history
  <1>3. CASE FinishInterruptedTransition(p)
    BY <1>3 DEF FinishInterruptedTransition, meta, world, history
  <1>4. CASE NothingToFinish(p)
    BY <1>4 DEF NothingToFinish, meta, world, history
  <1>5. CASE PreflightRefuses(p)
    BY <1>5 DEF PreflightRefuses, Leave, meta, world, history
  <1>6. CASE PreflightPasses(p)
    BY <1>6 DEF PreflightPasses, Kind, meta, world, history
  <1>7. CASE GateStarts(p)
    BY <1>7 DEF GateStarts, UpdateTaskStatus, Leave, meta, world, history
  <1>8. CASE GatePasses(p)
    BY <1>8 DEF GatePasses, UpdateTaskStatus, Leave, meta, world, history
  <1>9. CASE GateRefuses(p)
    BY <1>9 DEF GateRefuses, Leave, meta, world, history
  <1>10. CASE PremergeRefuses(p)
    BY <1>10 DEF PremergeRefuses, Leave, meta, world, history, OpenReview
  <1>11. CASE BeginMergePhase(p)
    BY <1>11 DEF BeginMergePhase, meta, world, history, OpenReview
  <1>12. CASE PersistIntent(p)
    BY <1>12 DEF PersistIntent, meta, world, history
  <1>13. CASE PersistMarker(p)
    BY <1>13 DEF PersistMarker, meta, world, history
  <1>14. CASE StampMerging(p)
    BY <1>14 DEF StampMerging, UpdateTaskStatus, Leave, meta, world, history
  <1>15. CASE MergeLands(p)
    BY <1>15 DEF MergeLands, meta, world, history, Land
  <1>16. CASE MergePends(p)
    BY <1>16 DEF MergePends, meta, world, history
  <1>17. CASE MergeFails(p)
    BY <1>17 DEF MergeFails, Leave, meta, world, history
  <1>18. CASE AbortMergePhase(p)
    BY <1>18 DEF AbortMergePhase, Leave, meta, world, history
  <1>19. CASE MetadataSaved(p)
    BY <1>19 DEF MetadataSaved, meta, world, history
  <1>20. CASE MetadataLost(p)
    BY <1>20 DEF MetadataLost, Leave, meta, world, history
  <1>21. CASE CommentHandedOver(p)
    BY <1>21 DEF CommentHandedOver, Leave, meta, world, history
  <1>22. CASE ReentryMerged(p)
    BY <1>22 DEF ReentryMerged, meta, world, history
  <1>23. CASE ReentryWaits(p)
    BY <1>23 DEF ReentryWaits, Leave, meta, world, history
  <1>24. CASE ReentryChecksFailed(p)
    BY <1>24 DEF ReentryChecksFailed, meta, world, history
  <1>25. CASE ReentryRetries(p)
    BY <1>25 DEF ReentryRetries, meta, world, history
  <1>26. CASE RetryLands(p)
    BY <1>26 DEF RetryLands, meta, world, history, Land
  <1>27. CASE RetryDoesNotLand(p)
    BY <1>27 DEF RetryDoesNotLand, Leave, meta, world, history
  <1>28. CASE ClearMarker(p)
    BY <1>28 DEF ClearMarker, meta, world, history
  <1>29. CASE ClearIntent(p)
    BY <1>29 DEF ClearIntent, meta, world, history
  <1>30. CASE ClearAttempts(p)
    BY <1>30 DEF ClearAttempts, Leave, meta, world, history
  <1>31. CASE RecordFollowThrough(p)
    BY <1>31 DEF RecordFollowThrough, meta, world, history
  <1>32. CASE CommentAccepted(p)
    BY <1>32 DEF CommentAccepted, meta, world, history
  <1>33. CASE EndSession(p)
    BY <1>33 DEF EndSession, meta, world, history
  <1>34. CASE ReadLive(p)
    BY <1>34 DEF ReadLive, UpdateTaskStatus, Leave, meta, world, history
  <1>35. CASE Complete(p)
    BY <1>35 DEF Complete, UpdateTaskStatus, Leave, meta, world, history
  <1>36. CASE RunFollowThrough(p)
    BY <1>36 DEF RunFollowThrough, Leave, meta, world, history, FollowThrough
  <1>37. CASE ParkTaskPaused(p)
    BY <1>37 DEF ParkTaskPaused, Leave, meta, world, history
  <1>38. CASE p = Resume /\ SweepLists
    BY <1>38 DEF SweepLists, meta, world, history
  <1>39. CASE p = Resume /\ SweepResumes
    BY <1>39 DEF SweepResumes, meta, world, history
  <1>40. CASE p = Resume /\ SweepRecovers
    BY <1>40 DEF SweepRecovers, meta, world, history
  <1>41. CASE p = Resume /\ SweepSkips
    BY <1>41 DEF SweepSkips, Leave, meta, world, history
  <1>42. CASE p = Resume /\ CountAttempt
    BY <1>42 DEF CountAttempt, meta, world, history
  <1>43. CASE p = Resume /\ ResumeFailed
    BY <1>43 DEF ResumeFailed, Leave, meta, world, history
  <1>44. CASE RecoverStrandedMerge(p)
    BY <1>44 DEF RecoverStrandedMerge, Leave, meta, world, history
  <1>45. CASE p = Reject /\ RejectReads
    BY <1>45 DEF RejectReads, meta, world, history
  <1>46. CASE p = Reject /\ RejectClaimsWorktree
    BY <1>46 DEF RejectClaimsWorktree, meta, world, history
  <1>47. CASE p = Reject /\ EscapeMerging
    BY <1>47 DEF EscapeMerging, Leave, meta, world, history
  <1>48. CASE p = Reject /\ EscapeUnneeded
    BY <1>48 DEF EscapeUnneeded, meta, world, history
  <1>49. CASE p = Reject /\ EscapeRefused
    BY <1>49 DEF EscapeRefused, Leave, meta, world, history
  <1>50. CASE p = Reject /\ EscapeRecovers
    BY <1>50 DEF EscapeRecovers, meta, world, history
  <1>51. CASE p = Reject /\ RejectRefused
    BY <1>51 DEF RejectRefused, Leave, meta, world, history
  <1>52. CASE p = Reject /\ RejectActs
    BY <1>52 DEF RejectActs, UpdateTaskStatus, Leave, meta, world, history
  <1>53. CASE p = Reject /\ RejectAbandons
    BY <1>53 DEF RejectAbandons, UpdateTaskStatus, Leave, meta, world, history
  <1>54. CASE p = Reject /\ RejectEndsSession
    BY <1>54 DEF RejectEndsSession, meta, world, history
  <1>55. CASE p = Reject /\ RejectClosesReview
    BY <1>55 DEF RejectClosesReview, Leave, meta, world, history
  <1>56. CASE p = Sync /\ SyncLists
    BY <1>56 DEF SyncLists, meta, world, history
  <1>57. CASE p = Sync /\ SyncSeesMerged
    BY <1>57 DEF SyncSeesMerged, Leave, meta, world, history
  <1>58. CASE p = Sync /\ CompleteMergedOnForge
    BY <1>58 DEF CompleteMergedOnForge, Leave, meta, world, history
  <1>59. CASE p = Sync /\ SyncSeesClosed
    BY <1>59 DEF SyncSeesClosed, meta, world, history
  <1>60. CASE p = Sync /\ SyncSeesOpen
    BY <1>60 DEF SyncSeesOpen, Leave, meta, world, history
  <1>61. CASE p = Sync /\ SyncAbandons
    BY <1>61 DEF SyncAbandons, Leave, meta, world, history
  <1> QED
    BY <1>2, <1>3, <1>4, <1>5, <1>6, <1>7, <1>8, <1>9, <1>10, <1>11,
       <1>12, <1>13, <1>14, <1>15, <1>16, <1>17, <1>18, <1>19, <1>20, <1>21,
       <1>22, <1>23, <1>24, <1>25, <1>26, <1>27, <1>28, <1>29, <1>30, <1>31,
       <1>32, <1>33, <1>34, <1>35, <1>36, <1>37, <1>38, <1>39, <1>40, <1>41,
       <1>42, <1>43, <1>44, <1>45, <1>46, <1>47, <1>48, <1>49, <1>50, <1>51,
       <1>52, <1>53, <1>54, <1>55, <1>56, <1>57, <1>58, <1>59, <1>60, <1>61
    DEF ActorStep, AcceptStep, ClearStep, CommitStep, SweepStep, RejectStep,
        SyncStep

-----------------------------------------------------------------------------
(* The invariants together.                                                *)

BaseInv == IInv /\ OwnerInv /\ AttemptInv /\ RestOK

LEMMA BaseInit == Init => BaseInv
  <1> SUFFICES ASSUME Init PROVE BaseInv
    OBVIOUS
  <1>1. \A p \in Actors : pc[p] \in {"new", "idle"} /\ at[p] = NoLocals
    BY DEF Init, Start
  <1>2. OwnerInv
    BY <1>1 DEF OwnerInv, Owns, HeldPlaces, ClearPlaces
  <1>3. AttemptInv
    BY <1>1, AcceptAssumption
    DEF Init, AttemptInv, Counts, Resuming, HeldPlaces, ClearPlaces, NoLocals
  <1>4. RestOK
    <2>1. /\ comments \in [Reasons -> Nat] /\ turns \in 0..MaxTurns
          /\ crashes \in 0..MaxCrashes
      BY AcceptAssumption DEF Init
    <2>2. pr \in {"none", "open", "merged", "closed"}
      BY DEF Init
    <2>3. /\ owed = FALSE /\ told = FALSE /\ blind = FALSE /\ forge = Forge
          /\ session = "open" /\ landed = "no" /\ lock = None
          /\ violations \in BOOLEAN
      BY DEF Init
    <2> QED
      BY <2>1, <2>2, <2>3, AcceptAssumption DEF RestOK
  <1> QED
    BY <1>2, <1>3, <1>4, Initially DEF BaseInv

(* What happens beside the handlers: only a crash touches them, and it     *)
(* leaves none of them at work. *)
LEMMA BesideStep ==
  ASSUME BaseInv, Surroundings
  PROVE  /\ RestOK' /\ attempts' \in 0..MaxResumes
         /\ \/ pc' = pc /\ at' = at /\ lock' = lock
            \/ /\ Crash
               /\ \A p \in Actors : /\ pc'[p] \in {"new", "done", "idle"}
                                    /\ at'[p] = NoLocals
  <1> USE AcceptAssumption DEF BaseInv, RestOK, AttemptInv
  <1>1. CASE SweepAcceptFollowThrough
    <2>1. /\ owed' \in {owed, FALSE} /\ attempts' \in {attempts, 0}
          /\ UNCHANGED <<comments, session, world, lock, pc, at, history>>
      BY <1>1 DEF SweepAcceptFollowThrough, FollowThrough
    <2>2. owed' \in BOOLEAN
      <3>1. owed \in BOOLEAN
        BY DEF RestOK
      <3> QED
        BY ONLY <2>1, <3>1, Zenon
    <2>3. attempts' \in 0..MaxResumes
      BY <2>1
    <2> QED
      BY <2>1, <2>2, <2>3 DEF world, history
  <1>2. CASE SelfHeal
    BY <1>2 DEF SelfHeal, meta, world, history
  <1>3. CASE ReconcileWorking
    BY <1>3 DEF ReconcileWorking, meta, world, history
  <1>4. CASE Turn
    BY <1>4 DEF Turn, meta, world, history
  <1>5. CASE Submit
    BY <1>5 DEF Submit, meta, world, history
  <1>6. CASE ForgeMerges
    BY <1>6 DEF ForgeMerges, meta, world, history
  <1>7. CASE ForgeCloses
    BY <1>7 DEF ForgeCloses, meta, world, history
  <1>8. CASE DropForge
    BY <1>8 DEF DropForge, meta, world, history
  <1>9. CASE Crash
    BY <1>9 DEF Crash, meta, world, history
  <1> QED
    BY <1>1, <1>2, <1>3, <1>4, <1>5, <1>6, <1>7, <1>8, <1>9 DEF Surroundings

LEMMA BaseNext == BaseInv /\ [Next]_vars => BaseInv'
  <1> SUFFICES ASSUME BaseInv, [Next]_vars PROVE BaseInv'
    OBVIOUS
  <1>0. IInv'
    BY Inductive DEF BaseInv
  <1>1. ASSUME NEW p \in Actors, ActorStep(p) PROVE BaseInv'
    <2>1. RestOK'
      BY <1>1, RestStep DEF BaseInv, IInv
    <2>2. /\ Owns(p)'
          /\ \A q \in Actors \ {p} : /\ pc'[q] = pc[q] /\ at'[q] = at[q]
                                     /\ lock = q => lock' = q
      BY <1>1, OwnStep DEF BaseInv, IInv
    <2>3. OwnerInv'
      BY <2>2 DEF BaseInv, OwnerInv, Owns
    <2>4. attempts' \in 0..MaxResumes /\ Counts(p)'
      BY <1>1, CountStep DEF BaseInv, IInv
    <2>5. AttemptInv'
      BY <2>2, <2>4 DEF BaseInv, AttemptInv, Counts, Resuming
    <2> QED
      BY <1>0, <2>1, <2>3, <2>5 DEF BaseInv
  <1>2. CASE Surroundings
    <2>1. RestOK' /\ attempts' \in 0..MaxResumes
      BY <1>2, BesideStep
    <2>2. CASE pc' = pc /\ at' = at /\ lock' = lock
      BY <1>0, <2>1, <2>2
      DEF BaseInv, OwnerInv, Owns, AttemptInv, Counts, Resuming
    <2>3. CASE \A p \in Actors : /\ pc'[p] \in {"new", "done", "idle"}
                                 /\ at'[p] = NoLocals
      <3>1. OwnerInv'
        BY <2>3 DEF OwnerInv, Owns, HeldPlaces, ClearPlaces
      <3>2. AttemptInv'
        BY <2>1, <2>3, AcceptAssumption
        DEF AttemptInv, Counts, Resuming, HeldPlaces, ClearPlaces, NoLocals
      <3> QED
        BY <1>0, <2>1, <3>1, <3>2 DEF BaseInv
    <2> QED
      BY <1>2, <2>2, <2>3, BesideStep
  <1>3. CASE UNCHANGED vars
    BY <1>0, <1>3
    DEF vars, meta, world, history, BaseInv, OwnerInv, Owns, AttemptInv,
        Counts, Resuming, RestOK
  <1> QED
    BY <1>1, <1>2, <1>3 DEF Next

LEMMA BaseHolds == Spec => []BaseInv
  BY BaseInit, BaseNext, PTL DEF Spec

(* The stored keys, the handlers' locals and the counters keep their types *)
(* along every run; in particular no resume counts beyond                  *)
(* MAX_ACCEPT_RESUME_ATTEMPTS, and an attempt that is given back because   *)
(* the parent was busy never makes the counter negative.                   *)
THEOREM TypeCorrect == Spec => []TypeOK
  <1>1. BaseInv => TypeOK
    <2> SUFFICES ASSUME BaseInv PROVE TypeOK
      OBVIOUS
    <2>1. \A p \in Actors : at[p] \in Locals
      <3> SUFFICES ASSUME NEW p \in Actors PROVE at[p] \in Locals
        OBVIOUS
      <3>1. at[p] \in AnyLocals /\ at[p].attempt \in Nat
        BY AcceptAssumption
        DEF BaseInv, IInv, ControlOK, AttemptInv, Counts
      <3> QED
        BY <3>1 DEF AnyLocals, Locals
    <2>2. at \in [Actors -> Locals]
      BY <2>1 DEF BaseInv, IInv, ControlOK
    <2> QED
      BY <2>2
      DEF BaseInv, IInv, StoreOK, ControlOK, AttemptInv, RestOK, TypeOK
  <1> QED
    BY <1>1, BaseHolds, PTL

(* Of an accept, the daemon's resume and remote-sync at most one is inside *)
(* commitAcceptTransition or its follow-through: each of them holds the    *)
(* lifecycle lock there, whatever way it came.                             *)
THEOREM CommitsAlone == Spec => []OneCommitter
  <1>1. BaseInv => OneCommitter
    BY DEF BaseInv, OwnerInv, Owns, OneCommitter, Committed, HeldPlaces
  <1> QED
    BY <1>1, BaseHolds, PTL
=============================================================================
