------------------------- MODULE StoreRestoreProofs -------------------------
(***************************************************************************)
(* For every store, backup, number of processes, restarts and restores:    *)
(* nobody has the store open while its entries are renamed, a store        *)
(* without a marker is never part old, part restored, and while the        *)
(* marker is there nothing of the acknowledged store is lost.  The lock's  *)
(* own invariant (StorageLockProofs) carries over, because a restore       *)
(* changes nothing of the lock but through it; what is added says how far  *)
(* each phase of the swap has come and that the marker is there meanwhile  *)
(* (RestoreInv), and what the marker names (NamingInv).                    *)
(***************************************************************************)
EXTENDS StoreRestore, StorageLockProofs, SequenceTheorems

(* A restore runs under the lock.                                          *)
UnderLock == \A o \in Owners : rpc[o] # "none" => o \in Restoring /\ pc[o] = "held"

(* How far the phases have come.                                           *)
Staging(o) == rpc[o] = "staging" /\ prior[o] = NoFile => store = expect

Moving(o) == rpc[o] = "moving" => \A e \in Entries \ todo[o] : store[e] = NoEntry

Bringing(o) ==
    rpc[o] = "bringing" =>
        /\ todo[o] \subseteq SavedEntries
        /\ \A e \in Entries :
              store[e] = IF e \in SavedEntries \ todo[o] THEN Saved ELSE NoEntry

Marked(o) == rpc[o] \in {"staging", "moving", "bringing"} => marker # NoFile

Progress == \A o \in Owners : Staging(o) /\ Moving(o) /\ Bringing(o) /\ Marked(o)

RestoreInv ==
    LockInv /\ RestoreTypeOK /\ UnderLock /\ MixedIsMarked /\ (slips = {} => Progress)

-----------------------------------------------------------------------------
(* A restore that runs is the only holder of the store.                    *)
LEMMA RestoreIsAlone ==
    ASSUME LockInv, UnderLock, slips = {}, NEW o \in Owners, rpc[o] # "none",
           NEW q \in Owners, pc[q] = "held"
    PROVE  q = o
<1>1. o \in Restoring /\ pc[o] = "held"
    BY DEF UnderLock
<1>2. IsOf(file, ProcOf[o]) /\ IsOf(file, ProcOf[q])
    BY <1>1 DEF LockInv, HeldByFile, Relying
<1>3. ProcOf[q] = ProcOf[o]
    BY <1>2 DEF IsOf
<1>. QED BY <1>1, <1>3, RestoresAlone

LEMMA AsidesType ==
    ASSUME NEW m \in Markers \cup {NoFile}
    PROVE  AsidesOf(m) \in Seq(1..MaxRestores)
<1>1. CASE m = NoFile
    BY <1>1, EmptySeq DEF AsidesOf
<1>2. CASE m # NoFile
    <2>1. m.previous \in Seq(1..MaxRestores) /\ m.moved \in 0..MaxRestores
        BY <1>2 DEF Markers
    <2>2. (IF m.moved = 0 THEN <<>> ELSE <<m.moved>>) \in Seq(1..MaxRestores)
        <3>1. CASE m.moved = 0
            BY <3>1, EmptySeq
        <3>2. CASE m.moved # 0
            <4>1. m.moved \in 1..MaxRestores
                BY <2>1, <3>2, RestoreBounds
            <4>. QED BY <3>2, <4>1
        <3>. QED BY <3>1, <3>2
    <2>. QED BY <1>2, <2>1, <2>2, ConcatProperties DEF AsidesOf
<1>. QED BY <1>1, <1>2

LEMMA MarkerType ==
    ASSUME TypeOK, NEW o \in Owners, NEW k \in 0..MaxRestores,
           NEW m \in Markers \cup {NoFile}
    PROVE  /\ MarkerOf(o, k, AsidesOf(m)) \in Markers
           /\ MarkerOf(o, k, AsidesOf(m)) # NoFile
BY AsidesType, OwnersRun, NoMarkerIsNone DEF MarkerOf, Markers, TypeOK

LEMMA RestoreInvInit == RestoreInit => RestoreInv
<1>. SUFFICES ASSUME RestoreInit PROVE RestoreInv
    OBVIOUS
<1>1. LockInv /\ TypeOK
    BY LockInvInit DEF RestoreInit, LockInv
<1>2. RestoreTypeOK
    BY <1>1, RestoreBounds DEF RestoreInit, LockInit, RestoreTypeOK, Contents, Phases
<1>3. UnderLock /\ MixedIsMarked /\ Progress
    BY DEF RestoreInit, UnderLock, MixedIsMarked, Progress, Staging, Moving, Bringing, Marked
<1>. QED BY <1>1, <1>2, <1>3 DEF RestoreInv

(* A slip stays.                                                           *)
LEMMA SlipsStay ==
    ASSUME NEW o \in Owners, OwnerStep(o), slips' = {}
    PROVE  slips = {}
BY DEF OwnerStep, Reenter, Attempt, GiveUp, Create, Write, ClaimOwn, JudgeHolder, Compare,
       Unlink, Recreate, Register, Release, LetGo, RemovesFile, Slipped

(* The lock's steps leave the marker and, but for their own owner, the     *)
(* places of the others alone.                                             *)
LEMMA LockStepsAre ==
    ASSUME NEW o \in Owners, Acquire(o)
    PROVE  OwnerStep(o) /\ UNCHANGED marker /\ pc[o] # "held"
BY DEF Acquire, Proceed, OwnerStep, Attempt, GiveUp, Create, Write, ClaimOwn, JudgeHolder,
       Compare, Unlink, Recreate, Register

LEMMA OthersStay ==
    ASSUME TypeOK, NEW o \in Owners, OwnerStep(o), NEW q \in Owners, q # o
    PROVE  pc'[q] = pc[q]
BY DEF TypeOK, OwnerStep, Reenter, Attempt, GiveUp, Create, Write, ClaimOwn, JudgeHolder,
       Compare, Unlink, Recreate, Register, Release, Moves, Ends

LEMMA AcquireKeeps ==
    ASSUME RestoreInv, NEW o \in Owners, Acquire(o)
    PROVE  RestoreInv'
<1>1. OwnerStep(o) /\ UNCHANGED marker /\ pc[o] # "held"
    BY LockStepsAre
<1>2. LockInv' /\ TypeOK'
    BY <1>1, OwnerStepKeeps DEF RestoreInv, LockInv
<1>3. /\ UNCHANGED <<store, aside, begun, writes, mine, prior, todo, expect>>
      /\ rpc[o] = "none"
      /\ rpc'[o] = "none" \/ (rpc'[o] = "judging" /\ o \in Restoring /\ pc'[o] = "held")
      /\ rpc' \in [Owners -> Phases]
      /\ \A q \in Owners \ {o} : rpc'[q] = rpc[q] /\ pc'[q] = pc[q]
    <2>1. rpc[o] = "none"
        BY <1>1 DEF RestoreInv, UnderLock
    <2>2. \A q \in Owners \ {o} : pc'[q] = pc[q]
        BY <1>1, OthersStay DEF RestoreInv, LockInv
    <2>. QED BY <2>1, <2>2 DEF Acquire, RestoreInv, RestoreTypeOK, Phases
<1>4. RestoreTypeOK'
    BY <1>1, <1>2, <1>3 DEF RestoreInv, RestoreTypeOK
<1>5. UnderLock'
    BY <1>3 DEF RestoreInv, UnderLock
<1>6. slips' = {} => slips = {}
    BY <1>1, SlipsStay
<1>7. MixedIsMarked'
    BY <1>1, <1>3, <1>6 DEF RestoreInv, MixedIsMarked
<1>8. slips' = {} => Progress'
    BY <1>1, <1>3, <1>6
       DEF RestoreInv, Progress, Staging, Moving, Bringing, Marked
<1>. QED BY <1>2, <1>4, <1>5, <1>7, <1>8 DEF RestoreInv

LEMMA LetGoKeepsStore ==
    ASSUME RestoreInv, NEW o \in Owners, LetGoOfStore(o)
    PROVE  RestoreInv'
<1>1. OwnerStep(o) /\ UNCHANGED marker
    BY DEF LetGoOfStore, OwnerStep, Release
<1>2. LockInv' /\ TypeOK'
    BY <1>1, OwnerStepKeeps DEF RestoreInv, LockInv
<1>3. /\ UNCHANGED <<store, aside, begun, writes, todo, expect>>
      /\ rpc'[o] = "none" /\ rpc' \in [Owners -> Phases]
      /\ \A q \in Owners \ {o} : /\ rpc'[q] = rpc[q] /\ pc'[q] = pc[q]
                                /\ prior'[q] = prior[q]
    <2>1. \A q \in Owners \ {o} : pc'[q] = pc[q]
        BY <1>1, OthersStay DEF RestoreInv, LockInv
    <2>. QED BY <2>1 DEF LetGoOfStore, Goes, RestoreInv, RestoreTypeOK, Phases
<1>4. RestoreTypeOK'
    <2>1. mine' \in [Owners -> 0..MaxRestores] /\ prior' \in [Owners -> Markers \cup {NoFile}]
        BY RestoreBounds DEF LetGoOfStore, RestoreInv, RestoreTypeOK
    <2>. QED BY <1>1, <1>2, <1>3, <2>1 DEF RestoreInv, RestoreTypeOK
<1>5. UnderLock'
    BY <1>3 DEF RestoreInv, UnderLock
<1>6. slips' = {} => slips = {}
    BY <1>1, SlipsStay
<1>7. MixedIsMarked'
    BY <1>1, <1>3, <1>6 DEF RestoreInv, MixedIsMarked
<1>8. slips' = {} => Progress'
    BY <1>1, <1>3, <1>6
       DEF RestoreInv, Progress, Staging, Moving, Bringing, Marked
<1>. QED BY <1>2, <1>4, <1>5, <1>7, <1>8 DEF RestoreInv

(* The store's own steps: the lock does not change.                        *)
LEMMA LockUnchanged ==
    ASSUME RestoreInv, UNCHANGED lockVars \/ UNCHANGED fileVars
    PROVE  LockInv' /\ TypeOK' /\ UNCHANGED <<slips, pc>>
BY FileStutters DEF RestoreInv, lockVars, fileVars, LockInv

(* With a marker only the phases are left to check.                        *)
LEMMA StoreStepKeeps ==
    ASSUME RestoreInv, UNCHANGED lockVars \/ UNCHANGED fileVars, RestoreTypeOK',
           NEW o \in Owners, o \in Restoring, pc[o] = "held", rpc[o] # "none",
           \A q \in Owners \ {o} : rpc'[q] = rpc[q],
           slips = {} => /\ marker' = NoFile => store' = expect'
                         /\ (Staging(o) /\ Moving(o) /\ Bringing(o) /\ Marked(o))'
    PROVE  RestoreInv'
<1>1. LockInv' /\ TypeOK' /\ UNCHANGED <<slips, pc>>
    BY LockUnchanged
<1>2. UnderLock'
    BY <1>1 DEF RestoreInv, UnderLock
<1>3. MixedIsMarked'
    BY <1>1 DEF MixedIsMarked
<1>4. slips' = {} => Progress'
    <2>. SUFFICES ASSUME slips' = {}, NEW q \in Owners
                  PROVE  (Staging(q) /\ Moving(q) /\ Bringing(q) /\ Marked(q))'
        BY DEF Progress
    <2>1. slips = {}
        BY <1>1
    <2>2. CASE q = o
        BY <2>1, <2>2
    <2>3. CASE q # o
        <3>1. rpc'[q] = "none"
            BY <2>1, <2>3, RestoreIsAlone DEF RestoreInv, UnderLock
        <3>. QED BY <3>1 DEF Staging, Moving, Bringing, Marked
    <2>. QED BY <2>2, <2>3
<1>. QED BY <1>1, <1>2, <1>3, <1>4 DEF RestoreInv

LEMMA WriteEntryKeeps ==
    ASSUME RestoreInv, NEW o \in Owners, NEW e \in Entries, WriteEntry(o, e)
    PROVE  RestoreInv'
<1>1. /\ LockInv' /\ TypeOK' /\ UNCHANGED <<slips, pc, marker>>
      /\ UNCHANGED <<aside, begun, rpc, mine, prior, todo>>
      /\ o \notin Restoring /\ pc[o] = "held"
    BY LockUnchanged DEF WriteEntry, lockVars
<1>2. RestoreTypeOK'
    <2>1. writes + 1 \in 0..MaxWrites
        BY RestoreBounds DEF WriteEntry, RestoreInv, RestoreTypeOK
    <2>2. store' \in [Entries -> Contents] /\ expect' \in [Entries -> Contents]
        BY <2>1 DEF WriteEntry, RestoreInv, RestoreTypeOK, Contents
    <2>. QED BY <1>1, <2>1, <2>2 DEF WriteEntry, RestoreInv, RestoreTypeOK
<1>3. UnderLock'
    BY <1>1 DEF RestoreInv, UnderLock
<1>4. MixedIsMarked'
    BY <1>1 DEF WriteEntry, RestoreInv, MixedIsMarked
<1>5. slips' = {} => \A q \in Owners : rpc'[q] = "none"
    BY <1>1, RestoreIsAlone DEF RestoreInv, UnderLock
<1>6. slips' = {} => Progress'
    BY <1>5 DEF Progress, Staging, Moving, Bringing, Marked
<1>. QED BY <1>1, <1>2, <1>3, <1>4, <1>6 DEF RestoreInv

LEMMA BeginRestoreKeeps ==
    ASSUME RestoreInv, NEW o \in Owners, BeginRestore(o)
    PROVE  RestoreInv'
<1>1. /\ UNCHANGED fileVars /\ UNCHANGED <<store, aside, writes, todo, expect>>
      /\ o \in Restoring /\ pc[o] = "held" /\ rpc[o] = "judging" /\ begun < MaxRestores
      /\ begun \in 0..MaxRestores
    BY DEF BeginRestore, Restores, RestoreInv, RestoreTypeOK
<1>2. LockInv' /\ TypeOK'
    BY <1>1, LockUnchanged
<1>3. CASE Goes(o, "over") /\ UNCHANGED <<marker, prior, begun, mine>>
    <2>1. RestoreTypeOK'
        BY <1>1, <1>2, <1>3 DEF Goes, RestoreInv, RestoreTypeOK, Phases
    <2>2. slips = {} => /\ marker' = NoFile => store' = expect'
                        /\ (Staging(o) /\ Moving(o) /\ Bringing(o) /\ Marked(o))'
        BY <1>1, <1>3 DEF Goes, RestoreInv, RestoreTypeOK, MixedIsMarked, Staging, Moving,
                          Bringing, Marked
    <2>. QED BY <1>1, <1>3, <2>1, <2>2, StoreStepKeeps DEF Goes, RestoreInv, RestoreTypeOK
<1>4. CASE /\ prior' = [prior EXCEPT ![o] = marker] /\ begun' = begun + 1
           /\ mine' = [mine EXCEPT ![o] = begun + 1]
           /\ marker' = MarkerOf(o, 0, AsidesOf(marker)) /\ Goes(o, "staging")
    <2>0. marker' \in Markers /\ marker' # NoFile
        BY <1>4, MarkerType, RestoreBounds DEF RestoreInv, RestoreTypeOK
    <2>1. RestoreTypeOK'
        BY <1>1, <1>2, <1>4, <2>0, RestoreBounds DEF Goes, RestoreInv, RestoreTypeOK, Phases
    <2>2. slips = {} => /\ marker' = NoFile => store' = expect'
                        /\ (Staging(o) /\ Moving(o) /\ Bringing(o) /\ Marked(o))'
        BY <1>1, <1>4, <2>0 DEF Goes, RestoreInv, RestoreTypeOK, MixedIsMarked, Staging,
                                Moving, Bringing, Marked
    <2>. QED BY <1>1, <1>4, <2>1, <2>2, StoreStepKeeps DEF Goes, RestoreInv, RestoreTypeOK
<1>. QED BY <1>3, <1>4 DEF BeginRestore

(* Before the first rename the store is what it was, and the marker that   *)
(* was found is put back.                                                  *)
LEMMA StageFailsKeeps ==
    ASSUME RestoreInv, NEW o \in Owners, StageFails(o)
    PROVE  RestoreInv'
<1>1. /\ UNCHANGED fileVars
      /\ UNCHANGED <<store, aside, begun, writes, mine, prior, todo, expect>>
      /\ o \in Restoring /\ pc[o] = "held" /\ rpc[o] = "staging"
      /\ marker' = prior[o] /\ Goes(o, "over")
    BY DEF StageFails, Restores
<1>2. RestoreTypeOK'
    BY <1>1, LockUnchanged DEF Goes, RestoreInv, RestoreTypeOK, Phases
<1>3. slips = {} => /\ marker' = NoFile => store' = expect'
                    /\ (Staging(o) /\ Moving(o) /\ Bringing(o) /\ Marked(o))'
    BY <1>1 DEF Goes, RestoreInv, RestoreTypeOK, Progress, Staging, Moving, Bringing, Marked
<1>. QED BY <1>1, <1>2, <1>3, StoreStepKeeps DEF Goes, RestoreInv, RestoreTypeOK

LEMMA BeginSwapKeeps ==
    ASSUME RestoreInv, NEW o \in Owners, BeginSwap(o)
    PROVE  RestoreInv'
<1>1. /\ UNCHANGED fileVars
      /\ UNCHANGED <<store, aside, begun, writes, mine, prior, expect>>
      /\ o \in Restoring /\ pc[o] = "held" /\ rpc[o] = "staging" /\ Goes(o, "moving")
      /\ todo' = [todo EXCEPT ![o] = Present(store)]
    BY DEF BeginSwap, Restores
<1>2. marker' \in Markers /\ marker' # NoFile
    BY MarkerType DEF BeginSwap, RestoreInv, RestoreTypeOK
<1>3. RestoreTypeOK'
    <2>1. todo' \in [Owners -> SUBSET Entries]
        BY <1>1 DEF RestoreInv, RestoreTypeOK, Present
    <2>. QED BY <1>1, <1>2, <2>1, LockUnchanged DEF Goes, RestoreInv, RestoreTypeOK, Phases
<1>4. slips = {} => /\ marker' = NoFile => store' = expect'
                    /\ (Staging(o) /\ Moving(o) /\ Bringing(o) /\ Marked(o))'
    BY <1>1, <1>2 DEF Goes, RestoreInv, RestoreTypeOK, Progress, Staging, Moving, Bringing,
                      Marked, Present
<1>. QED BY <1>1, <1>3, <1>4, StoreStepKeeps DEF Goes, RestoreInv, RestoreTypeOK

LEMMA MoveAsideKeeps ==
    ASSUME RestoreInv, NEW o \in Owners, NEW e \in Entries, MoveAside(o, e)
    PROVE  RestoreInv'
<1>1. /\ UNCHANGED lockVars /\ marker' = marker
      /\ UNCHANGED <<begun, writes, rpc, mine, prior, expect>>
      /\ o \in Restoring /\ pc[o] = "held" /\ rpc[o] = "moving"
      /\ store' = [store EXCEPT ![e] = NoEntry]
      /\ todo' = [todo EXCEPT ![o] = @ \ {e}]
    BY DEF MoveAside, Restores, lockVars
<1>2. RestoreTypeOK'
    <2>1. store' \in [Entries -> Contents]
        BY <1>1 DEF RestoreInv, RestoreTypeOK, Contents
    <2>2. aside' \in [1..MaxRestores -> [Entries -> Contents]]
        <3>1. aside' = [aside EXCEPT ![mine[o]][e] = store[e]]
            BY DEF MoveAside
        <3>2. store[e] \in Contents /\ aside \in [1..MaxRestores -> [Entries -> Contents]]
            BY DEF RestoreInv, RestoreTypeOK
        <3>. QED BY <3>1, <3>2
    <2>3. todo' \in [Owners -> SUBSET Entries]
        BY <1>1 DEF RestoreInv, RestoreTypeOK
    <2>. QED BY <1>1, <2>1, <2>2, <2>3, LockUnchanged DEF RestoreInv, RestoreTypeOK
<1>3. slips = {} => /\ marker' = NoFile => store' = expect'
                    /\ (Staging(o) /\ Moving(o) /\ Bringing(o) /\ Marked(o))'
    BY <1>1 DEF RestoreInv, RestoreTypeOK, Progress, Staging, Moving, Bringing, Marked
<1>. QED BY <1>1, <1>2, <1>3, StoreStepKeeps

(* Nothing is left in the store when the first restored entry comes in.    *)
LEMMA AllAsideKeeps ==
    ASSUME RestoreInv, NEW o \in Owners, AllAside(o)
    PROVE  RestoreInv'
<1>1. /\ UNCHANGED lockVars /\ marker' = marker
      /\ UNCHANGED <<store, aside, begun, writes, mine, prior, expect>>
      /\ o \in Restoring /\ pc[o] = "held" /\ rpc[o] = "moving" /\ Goes(o, "bringing")
      /\ todo[o] = {} /\ todo' = [todo EXCEPT ![o] = SavedEntries]
    BY DEF AllAside, Restores, lockVars
<1>2. RestoreTypeOK'
    <2>1. todo' \in [Owners -> SUBSET Entries]
        BY <1>1, BackupHasEntries DEF RestoreInv, RestoreTypeOK
    <2>. QED BY <1>1, <2>1, LockUnchanged DEF Goes, RestoreInv, RestoreTypeOK, Phases
<1>3. slips = {} => /\ marker' = NoFile => store' = expect'
                    /\ (Staging(o) /\ Moving(o) /\ Bringing(o) /\ Marked(o))'
    BY <1>1 DEF Goes, RestoreInv, RestoreTypeOK, Progress, Staging, Moving, Bringing, Marked
<1>. QED BY <1>1, <1>2, <1>3, StoreStepKeeps DEF Goes, RestoreInv, RestoreTypeOK

LEMMA BringInKeeps ==
    ASSUME RestoreInv, NEW o \in Owners, NEW e \in Entries, BringIn(o, e)
    PROVE  RestoreInv'
<1>1. /\ UNCHANGED lockVars /\ marker' = marker
      /\ UNCHANGED <<aside, begun, writes, rpc, mine, prior, expect>>
      /\ o \in Restoring /\ pc[o] = "held" /\ rpc[o] = "bringing" /\ e \in todo[o]
      /\ store' = [store EXCEPT ![e] = Saved]
      /\ todo' = [todo EXCEPT ![o] = @ \ {e}]
    BY DEF BringIn, Restores, lockVars
<1>2. RestoreTypeOK'
    BY <1>1, LockUnchanged DEF RestoreInv, RestoreTypeOK, Contents
<1>3. slips = {} => Bringing(o)'
    <2>1. todo'[o] \subseteq todo[o]
        BY <1>1 DEF RestoreInv, RestoreTypeOK
    <2>. QED BY <1>1, <2>1 DEF RestoreInv, RestoreTypeOK, Progress, Bringing
<1>4. slips = {} => /\ marker' = NoFile => store' = expect'
                    /\ (Staging(o) /\ Moving(o) /\ Marked(o))'
    BY <1>1 DEF RestoreInv, RestoreTypeOK, Progress, Staging, Moving, Marked
<1>. QED BY <1>1, <1>2, <1>3, <1>4, StoreStepKeeps

LEMMA SwapFailsKeeps ==
    ASSUME RestoreInv, NEW o \in Owners, SwapFails(o)
    PROVE  RestoreInv'
<1>1. /\ UNCHANGED lockVars /\ marker' = marker
      /\ UNCHANGED <<store, aside, begun, writes, mine, prior, expect>>
      /\ o \in Restoring /\ pc[o] = "held" /\ Goes(o, "over")
      /\ rpc[o] \in {"staging", "moving", "bringing"}
      /\ todo' = [todo EXCEPT ![o] = {}]
    BY DEF SwapFails, Restores, lockVars
<1>2. RestoreTypeOK'
    BY <1>1, LockUnchanged DEF Goes, RestoreInv, RestoreTypeOK, Phases
<1>3. slips = {} => /\ marker' = NoFile => store' = expect'
                    /\ (Staging(o) /\ Moving(o) /\ Bringing(o) /\ Marked(o))'
    BY <1>1 DEF Goes, RestoreInv, RestoreTypeOK, Progress, Staging, Moving, Bringing, Marked
<1>. QED BY <1>1, <1>2, <1>3, StoreStepKeeps DEF Goes, RestoreInv, RestoreTypeOK

(* With nothing left to bring in the store is the backup.                  *)
LEMMA RemoveMarkerKeeps ==
    ASSUME RestoreInv, NEW o \in Owners, RemoveMarker(o)
    PROVE  RestoreInv'
<1>1. /\ UNCHANGED fileVars /\ marker' = NoFile
      /\ UNCHANGED <<store, aside, begun, writes, mine, prior, todo>>
      /\ o \in Restoring /\ pc[o] = "held" /\ Goes(o, "over")
      /\ rpc[o] = "bringing" /\ todo[o] = {} /\ expect' = Restored
    BY DEF RemoveMarker, Restores
<1>2. RestoreTypeOK'
    <2>1. expect' \in [Entries -> Contents]
        BY <1>1 DEF Restored, Contents
    <2>. QED BY <1>1, <2>1, LockUnchanged DEF Goes, RestoreInv, RestoreTypeOK, Phases
<1>3. slips = {} => store = Restored
    BY <1>1 DEF RestoreInv, RestoreTypeOK, Progress, Bringing, Restored
<1>4. slips = {} => /\ marker' = NoFile => store' = expect'
                    /\ (Staging(o) /\ Moving(o) /\ Bringing(o) /\ Marked(o))'
    BY <1>1, <1>3 DEF Goes, RestoreInv, RestoreTypeOK, Staging, Moving, Bringing, Marked
<1>. QED BY <1>1, <1>2, <1>4, StoreStepKeeps DEF Goes, RestoreInv, RestoreTypeOK

-----------------------------------------------------------------------------
(* A death leaves the store, its asides and the marker as they are.        *)
LEMMA DiesKeeps ==
    ASSUME RestoreInv, NEW p \in Procs, Dies(p)
    PROVE  RestoreInv'
<1>1. LockInv' /\ TypeOK' /\ UNCHANGED <<marker, slips>>
    BY CrashStep DEF Dies, Crash, RestoreInv, LockInv
<1>2. /\ UNCHANGED <<store, aside, begun, writes, expect>>
      /\ rpc' = [o \in Owners |-> IF ProcOf[o] = p THEN "none" ELSE rpc[o]]
      /\ mine' = [o \in Owners |-> IF ProcOf[o] = p THEN 0 ELSE mine[o]]
      /\ prior' = [o \in Owners |-> IF ProcOf[o] = p THEN NoFile ELSE prior[o]]
      /\ todo' = [o \in Owners |-> IF ProcOf[o] = p THEN {} ELSE todo[o]]
      /\ \A o \in Owners : ProcOf[o] # p => pc'[o] = pc[o]
    BY DEF Dies, Crash
<1>3. RestoreTypeOK'
    BY <1>1, <1>2, RestoreBounds DEF RestoreInv, RestoreTypeOK, Phases
<1>4. UnderLock'
    BY <1>2 DEF RestoreInv, UnderLock
<1>5. MixedIsMarked' /\ (slips' = {} => Progress')
    BY <1>1, <1>2
       DEF RestoreInv, MixedIsMarked, Progress, Staging, Moving, Bringing, Marked
<1>. QED BY <1>1, <1>3, <1>4, <1>5 DEF RestoreInv

LEMMA StartsKeeps ==
    ASSUME RestoreInv, NEW p \in Procs, Starts(p)
    PROVE  RestoreInv'
<1>1. LockInv' /\ TypeOK' /\ UNCHANGED <<marker, slips, pc>> /\ UNCHANGED storeVars
    BY RestartStep DEF Starts, Restart, RestoreInv, LockInv
<1>. QED BY <1>1
         DEF storeVars, RestoreInv, RestoreTypeOK, UnderLock, MixedIsMarked, Progress,
             Staging, Moving, Bringing, Marked

LEMMA RestoreInvNext ==
    ASSUME RestoreInv, [RestoreNext]_vars
    PROVE  RestoreInv'
<1>1. CASE \E o \in Owners : RestoreStep(o)
    BY <1>1, BeginRestoreKeeps, StageFailsKeeps, BeginSwapKeeps, AllAsideKeeps,
       SwapFailsKeeps, RemoveMarkerKeeps, MoveAsideKeeps, BringInKeeps DEF RestoreStep
<1>2. CASE \E o \in Owners : \/ Acquire(o) \/ LetGoOfStore(o)
                             \/ \E e \in Entries : WriteEntry(o, e)
    BY <1>2, AcquireKeeps, LetGoKeepsStore, WriteEntryKeeps
<1>3. CASE \E p \in Procs : Dies(p) \/ Starts(p)
    BY <1>3, DiesKeeps, StartsKeeps
<1>4. CASE UNCHANGED vars
    <2>1. LockInv' /\ TypeOK' /\ UNCHANGED lockVars /\ UNCHANGED storeVars
        BY <1>4, LockUnchanged DEF vars
    <2>. QED BY <2>1
             DEF lockVars, storeVars, RestoreInv, RestoreTypeOK, UnderLock, MixedIsMarked,
                 Progress, Staging, Moving, Bringing, Marked
<1>. QED BY <1>1, <1>2, <1>3, <1>4 DEF RestoreNext

LEMMA RestoreInvMeans == RestoreInv => RestoreTypeOK /\ MixedIsMarked /\ SwapExcludesOpeners
<1>. SUFFICES ASSUME RestoreInv PROVE SwapExcludesOpeners
    BY DEF RestoreInv
<1>. SUFFICES ASSUME slips = {}, NEW o \in Owners, NEW q \in Owners,
                     Swapping(o), depth[q] > 0
              PROVE  q = o
    BY DEF SwapExcludesOpeners
<1>1. rpc[o] # "none"
    BY DEF Swapping
<1>2. pc[q] = "held"
    BY DEF RestoreInv, LockInv, CallsInv
<1>. QED BY <1>1, <1>2, RestoreIsAlone DEF RestoreInv

LEMMA RestoreInvAlways == RestoreSpec => []RestoreInv
BY RestoreInvInit, RestoreInvNext, PTL DEF RestoreSpec

(* The variables keep their types. *)
THEOREM RestoreTypes == RestoreSpec => []RestoreTypeOK
BY RestoreInvAlways, RestoreInvMeans, PTL

(* A store without a marker is the acknowledged one or the whole backup,   *)
(* wherever restores fail and processes die.                               *)
THEOREM MixedStoreIsMarked == RestoreSpec => []MixedIsMarked
BY RestoreInvAlways, RestoreInvMeans, PTL

(* While a restore renames the entries, nobody else has the store open.    *)
THEOREM SwapIsExclusive == RestoreSpec => []SwapExcludesOpeners
BY RestoreInvAlways, RestoreInvMeans, PTL

-----------------------------------------------------------------------------
(* What a restore replaces stays named.  Three facts carry it: the         *)
(* directory of a restore is empty where it has still to move an entry, so *)
(* no rename buries an older one; the marker of a restore that only stages *)
(* names what the marker it found named, so putting that one back loses    *)
(* nothing; and the marker names the directory of a restore before         *)
(* anything is moved there.                                                *)
Names(m) == {AsidesOf(m)[i] : i \in DOMAIN AsidesOf(m)}

(* The directories of restores that have not begun are empty.              *)
Unused == \A k \in 1..MaxRestores : k > begun => \A e \in Entries : aside[k][e] = NoEntry

Aims(o) ==
    /\ rpc[o] \in {"staging", "moving"} => mine[o] \in 1..begun
    /\ rpc[o] = "staging" => /\ Names(marker) = Names(prior[o])
                             /\ \A e \in Entries : aside[mine[o]][e] = NoEntry
    /\ rpc[o] = "moving" => /\ mine[o] \in Names(marker)
                            /\ \A e \in todo[o] : aside[mine[o]][e] = NoEntry

Kept(e) == store[e] = expect[e] \/ \E k \in Names(marker) : aside[k][e] = expect[e]

Named == marker # NoFile => \A e \in Present(expect) : Kept(e)

NamingInv == slips = {} => Unused /\ (\A o \in Owners : Aims(o)) /\ Named

(* A new marker names what the old one named, and its own directory.       *)
LEMMA NamesOfMarker ==
    ASSUME TypeOK, NEW o \in Owners, NEW k \in 0..MaxRestores,
           NEW m \in Markers \cup {NoFile}
    PROVE  Names(MarkerOf(o, k, AsidesOf(m))) =
               Names(m) \cup (IF k = 0 THEN {} ELSE {k})
<1>. DEFINE n == MarkerOf(o, k, AsidesOf(m))
            s == AsidesOf(m)
<1>1. s \in Seq(1..MaxRestores)
    BY AsidesType
<1>2. n # NoFile /\ n.previous = s /\ n.moved = k
    <2>1. n # NoFile
        BY MarkerType
    <2>2. n.previous = s /\ n.moved = k
        BY DEF MarkerOf
    <2>. QED BY <2>1, <2>2
<1>3. AsidesOf(n) = s \o (IF k = 0 THEN <<>> ELSE <<k>>)
    BY <1>2 DEF AsidesOf
<1>4. CASE k = 0
    <2>1. AsidesOf(n) = s
        BY <1>1, <1>3, <1>4, ConcatEmptySeq
    <2>. QED BY <1>4, <2>1 DEF Names
<1>5. CASE k # 0
    <2>1. AsidesOf(n) = s \o <<k>> /\ k \in 1..MaxRestores
        BY <1>3, <1>5, RestoreBounds
    <2>2. AsidesOf(n) \in Seq(1..MaxRestores) /\ Len(AsidesOf(n)) = Len(s) + 1
        BY <1>1, <2>1
    <2>3. /\ \A i \in 1..Len(s) : AsidesOf(n)[i] = s[i]
          /\ AsidesOf(n)[Len(s) + 1] = k
        BY <1>1, <2>1
    <2>4. DOMAIN s = 1..Len(s) /\ DOMAIN AsidesOf(n) = 1..(Len(s) + 1) /\ Len(s) \in Nat
        BY <1>1, <2>2
    <2>5. Names(n) = {s[i] : i \in 1..Len(s)} \cup {k}
        <3>. HIDE DEF s, n
        <3>1. 1..(Len(s) + 1) = 1..Len(s) \cup {Len(s) + 1}
            BY <2>4
        <3>. QED BY <2>3, <2>4, <3>1 DEF Names
    <2>. QED BY <1>5, <2>4, <2>5 DEF Names
<1>. QED BY <1>4, <1>5

LEMMA NamesType ==
    ASSUME NEW m \in Markers \cup {NoFile}
    PROVE  Names(m) \subseteq 1..MaxRestores
<1>. DEFINE s == AsidesOf(m)
<1>1. s \in Seq(1..MaxRestores)
    BY AsidesType
<1>2. \A i \in DOMAIN s : s[i] \in 1..MaxRestores
    <2>. HIDE DEF s
    <2>1. DOMAIN s = 1..Len(s)
        BY <1>1
    <2>. QED BY <1>1, <2>1, ElementOfSeq
<1>. QED BY <1>2 DEF Names

LEMMA NamingInit == RestoreInit => NamingInv
BY DEF RestoreInit, LockInit, NamingInv, Unused, Aims, Named

(* A step of a restore leaves nothing to check of the other owners.        *)
LEMMA RestoreStepNames ==
    ASSUME RestoreInv, UNCHANGED slips, NEW o \in Owners, rpc[o] # "none",
           \A q \in Owners \ {o} : rpc'[q] = rpc[q],
           slips = {} => Unused' /\ Aims(o)' /\ Named'
    PROVE  NamingInv'
<1>. SUFFICES ASSUME slips' = {}, NEW q \in Owners \ {o} PROVE Aims(q)'
    BY DEF NamingInv
<1>1. rpc'[q] = "none"
    BY RestoreIsAlone DEF RestoreInv, UnderLock
<1>. QED BY <1>1 DEF Aims

(* The steps that only end a restore, or leave all of it alone.            *)
LEMMA QuietStepNames ==
    ASSUME NamingInv, UNCHANGED <<store, aside, begun, marker, expect>>,
           slips' = {} => slips = {},
           \A o \in Owners : \/ rpc'[o] \notin {"staging", "moving"}
                             \/ UNCHANGED <<rpc[o], mine[o], prior[o], todo[o]>>
    PROVE  NamingInv'
<1>. SUFFICES ASSUME slips' = {} PROVE Unused' /\ (\A o \in Owners : Aims(o)') /\ Named'
    BY DEF NamingInv
<1>1. Unused /\ (\A o \in Owners : Aims(o)) /\ Named
    BY DEF NamingInv
<1>2. Unused' /\ Named'
    BY <1>1 DEF Unused, Named, Kept, Names
<1>3. ASSUME NEW o \in Owners PROVE Aims(o)'
    <2>1. CASE rpc'[o] \notin {"staging", "moving"}
        BY <2>1 DEF Aims
    <2>2. CASE UNCHANGED <<rpc[o], mine[o], prior[o], todo[o]>>
        BY <1>1, <2>2 DEF Aims, Names
    <2>. QED BY <2>1, <2>2
<1>. QED BY <1>2, <1>3

LEMMA AcquireNames ==
    ASSUME RestoreInv, NamingInv, NEW o \in Owners, Acquire(o)
    PROVE  NamingInv'
<1>1. OwnerStep(o) /\ UNCHANGED marker /\ pc[o] # "held"
    BY LockStepsAre
<1>2. slips' = {} => slips = {}
    BY <1>1, SlipsStay
<1>3. rpc[o] = "none"
    BY <1>1 DEF RestoreInv, UnderLock
<1>4. rpc \in [Owners -> Phases]
    BY DEF RestoreInv, RestoreTypeOK
<1>5. \A q \in Owners : \/ rpc'[q] \notin {"staging", "moving"}
                        \/ UNCHANGED <<rpc[q], mine[q], prior[q], todo[q]>>
    BY <1>3, <1>4 DEF Acquire
<1>. QED BY <1>1, <1>2, <1>5, QuietStepNames DEF Acquire

LEMMA LetGoNames ==
    ASSUME RestoreInv, NamingInv, NEW o \in Owners, LetGoOfStore(o)
    PROVE  NamingInv'
<1>1. OwnerStep(o) /\ UNCHANGED marker
    BY DEF LetGoOfStore, OwnerStep, Release
<1>2. slips' = {} => slips = {}
    BY <1>1, SlipsStay
<1>3. \A q \in Owners : \/ rpc'[q] \notin {"staging", "moving"}
                        \/ UNCHANGED <<rpc[q], mine[q], prior[q], todo[q]>>
    BY DEF LetGoOfStore, Goes, RestoreInv, RestoreTypeOK
<1>. QED BY <1>1, <1>2, <1>3, QuietStepNames DEF LetGoOfStore

LEMMA ProcessStepNames ==
    ASSUME RestoreInv, NamingInv, NEW p \in Procs, Dies(p) \/ Starts(p)
    PROVE  NamingInv'
<1>1. CASE Dies(p)
    <2>1. UNCHANGED <<marker, slips>>
        BY <1>1, CrashStep DEF Dies, Crash, RestoreInv, LockInv
    <2>2. \A q \in Owners : \/ rpc'[q] \notin {"staging", "moving"}
                            \/ UNCHANGED <<rpc[q], mine[q], prior[q], todo[q]>>
        BY <1>1 DEF Dies
    <2>. QED BY <1>1, <2>1, <2>2, QuietStepNames DEF Dies
<1>2. CASE Starts(p)
    <2>1. UNCHANGED <<marker, slips>> /\ UNCHANGED storeVars
        BY <1>2, RestartStep DEF Starts, Restart, RestoreInv, LockInv
    <2>. QED BY <2>1, QuietStepNames DEF storeVars
<1>. QED BY <1>1, <1>2

(* A write is acknowledged as it is made.                                  *)
LEMMA WriteEntryNames ==
    ASSUME RestoreInv, NamingInv, NEW o \in Owners, NEW e \in Entries, WriteEntry(o, e)
    PROVE  NamingInv'
<1>1. /\ UNCHANGED <<slips, pc, marker, aside, begun, rpc>>
      /\ o \notin Restoring /\ pc[o] = "held"
      /\ store' = [store EXCEPT ![e] = writes + 1]
      /\ expect' = [expect EXCEPT ![e] = writes + 1]
    BY DEF WriteEntry, lockVars
<1>. SUFFICES ASSUME slips' = {} PROVE Unused' /\ (\A q \in Owners : Aims(q)') /\ Named'
    BY DEF NamingInv
<1>2. Unused /\ Named
    BY <1>1 DEF NamingInv
<1>3. \A q \in Owners : rpc'[q] = "none"
    BY <1>1, RestoreIsAlone DEF RestoreInv, UnderLock
<1>4. Unused' /\ (\A q \in Owners : Aims(q)')
    BY <1>1, <1>2, <1>3 DEF Unused, Aims
<1>5. Named'
    <2>. SUFFICES ASSUME marker # NoFile, NEW f \in Present(expect)' PROVE Kept(f)'
        BY <1>1 DEF Named
    <2>1. f \in Entries /\ store \in [Entries -> Contents] /\ expect \in [Entries -> Contents]
        BY DEF Present, RestoreInv, RestoreTypeOK
    <2>2. CASE f = e
        BY <1>1, <2>1, <2>2 DEF Kept
    <2>3. CASE f # e
        <3>1. store'[f] = store[f] /\ expect'[f] = expect[f]
            BY <1>1, <2>1, <2>3
        <3>2. f \in Present(expect)
            BY <2>1, <3>1 DEF Present
        <3>. QED BY <1>1, <1>2, <3>1, <3>2 DEF Named, Kept
    <2>. QED BY <2>2, <2>3
<1>. QED BY <1>4, <1>5

(* The marker of the dead is replaced by one that names the same.          *)
LEMMA BeginRestoreNames ==
    ASSUME RestoreInv, NamingInv, NEW o \in Owners, BeginRestore(o)
    PROVE  NamingInv'
<1>1. /\ UNCHANGED <<slips, store, aside, todo, expect>>
      /\ rpc[o] = "judging" /\ begun < MaxRestores
    BY DEF BeginRestore, Restores, fileVars
<1>2. /\ TypeOK /\ marker \in Markers \cup {NoFile} /\ begun \in 0..MaxRestores
      /\ rpc \in [Owners -> Phases] /\ MaxRestores \in Nat
      /\ mine \in [Owners -> 0..MaxRestores] /\ prior \in [Owners -> Markers \cup {NoFile}]
    BY RestoreBounds DEF RestoreInv, RestoreTypeOK
<1>3. CASE Goes(o, "over") /\ UNCHANGED <<marker, prior, begun, mine>>
    BY <1>1, <1>2, <1>3, QuietStepNames DEF Goes
<1>4. CASE /\ prior' = [prior EXCEPT ![o] = marker] /\ begun' = begun + 1
           /\ mine' = [mine EXCEPT ![o] = begun + 1]
           /\ marker' = MarkerOf(o, 0, AsidesOf(marker)) /\ Goes(o, "staging")
    <2>1. Names(marker') = Names(marker)
        <3>1. 0 \in 0..MaxRestores
            BY <1>2
        <3>2. Names(MarkerOf(o, 0, AsidesOf(marker))) = Names(marker)
            BY <1>2, <3>1, NamesOfMarker, Zenon
        <3>. QED BY <1>4, <3>2
    <2>2. slips = {} => Unused'
        <3>1. begun' = begun + 1 /\ aside' = aside /\ begun \in Nat /\ MaxRestores \in Nat
            BY <1>1, <1>2, <1>4
        <3>. QED BY <3>1 DEF NamingInv, Unused
    <2>3. slips = {} => Aims(o)'
        <3>. SUFFICES ASSUME slips = {} PROVE Aims(o)'
            OBVIOUS
        <3>1. rpc'[o] = "staging" /\ mine'[o] = begun + 1 /\ prior'[o] = marker
            BY <1>2, <1>4 DEF Goes
        <3>2. \A e \in Entries : aside[begun + 1][e] = NoEntry
            BY <1>1, <1>2 DEF NamingInv, Unused
        <3>3. mine'[o] \in 1..begun'
            BY <1>2, <1>4, <3>1
        <3>. QED BY <1>1, <2>1, <3>1, <3>2, <3>3 DEF Aims
    <2>4. slips = {} => Named'
        <3>. SUFFICES ASSUME slips = {}, NEW e \in Present(expect)' PROVE Kept(e)'
            BY DEF Named
        <3>1. e \in Present(expect)
            BY <1>1 DEF Present
        <3>2. Kept(e)
            <4>1. CASE marker = NoFile
                BY <4>1 DEF RestoreInv, MixedIsMarked, Kept
            <4>2. CASE marker # NoFile
                BY <3>1, <4>2 DEF NamingInv, Named
            <4>. QED BY <4>1, <4>2
        <3>. QED BY <1>1, <2>1, <3>2 DEF Kept
    <2>. QED BY <1>1, <1>2, <1>4, <2>2, <2>3, <2>4, RestoreStepNames DEF Goes
<1>. QED BY <1>3, <1>4 DEF BeginRestore

(* The marker that is put back names what the one it replaces named.       *)
LEMMA StageFailsNames ==
    ASSUME RestoreInv, NamingInv, NEW o \in Owners, StageFails(o)
    PROVE  NamingInv'
<1>1. /\ UNCHANGED <<slips, store, aside, begun, expect>>
      /\ rpc[o] = "staging" /\ marker' = prior[o] /\ Goes(o, "over")
    BY DEF StageFails, Restores, fileVars
<1>2. rpc \in [Owners -> Phases]
    BY DEF RestoreInv, RestoreTypeOK
<1>3. rpc'[o] = "over" /\ \A q \in Owners \ {o} : rpc'[q] = rpc[q]
    BY <1>1, <1>2 DEF Goes
<1>4. slips = {} => Unused' /\ Aims(o)'
    BY <1>1, <1>3 DEF NamingInv, Unused, Aims
<1>5. slips = {} => Named'
    <2>. SUFFICES ASSUME slips = {}, NEW e \in Present(expect)' PROVE Kept(e)'
        BY DEF Named
    <2>1. marker # NoFile /\ Named /\ Names(marker') = Names(marker)
        BY <1>1 DEF RestoreInv, Progress, Marked, NamingInv, Aims
    <2>2. e \in Present(expect)
        BY <1>1 DEF Present
    <2>. QED BY <1>1, <2>1, <2>2 DEF Named, Kept
<1>. QED BY <1>1, <1>3, <1>4, <1>5, RestoreStepNames

(* The directory is named before anything is moved to it.                  *)
LEMMA BeginSwapNames ==
    ASSUME RestoreInv, NamingInv, NEW o \in Owners, BeginSwap(o)
    PROVE  NamingInv'
<1>1. /\ UNCHANGED <<slips, store, aside, begun, mine, prior, expect>>
      /\ rpc[o] = "staging" /\ Goes(o, "moving")
      /\ marker' = MarkerOf(o, mine[o], AsidesOf(prior[o]))
      /\ todo' = [todo EXCEPT ![o] = Present(store)]
    BY DEF BeginSwap, Restores, fileVars
<1>2. /\ TypeOK /\ rpc \in [Owners -> Phases] /\ todo \in [Owners -> SUBSET Entries]
      /\ mine[o] \in 0..MaxRestores /\ prior[o] \in Markers \cup {NoFile}
    BY DEF RestoreInv, RestoreTypeOK
<1>3. rpc'[o] = "moving" /\ \A q \in Owners \ {o} : rpc'[q] = rpc[q]
    BY <1>1, <1>2 DEF Goes
<1>4. Names(marker') = Names(prior[o]) \cup (IF mine[o] = 0 THEN {} ELSE {mine[o]})
    BY <1>1, <1>2, NamesOfMarker
<1>5. slips = {} => Unused'
    BY <1>1 DEF NamingInv, Unused
<1>6. slips = {} => Aims(o)'
    <2>. SUFFICES ASSUME slips = {} PROVE Aims(o)'
        OBVIOUS
    <2>1. mine[o] \in 1..begun /\ \A e \in Entries : aside[mine[o]][e] = NoEntry
        BY <1>1 DEF NamingInv, Aims
    <2>2. mine[o] \in Names(marker')
        BY <1>4, <2>1
    <2>3. todo'[o] \subseteq Entries
        BY <1>1, <1>2 DEF Present
    <2>. QED BY <1>1, <1>3, <2>1, <2>2, <2>3 DEF Aims
<1>7. slips = {} => Named'
    <2>. SUFFICES ASSUME slips = {}, NEW e \in Present(expect)' PROVE Kept(e)'
        BY DEF Named
    <2>1. marker # NoFile /\ Named /\ Names(marker) = Names(prior[o])
        BY <1>1 DEF RestoreInv, Progress, Marked, NamingInv, Aims
    <2>2. e \in Present(expect)
        BY <1>1 DEF Present
    <2>. QED BY <1>1, <1>4, <2>1, <2>2 DEF Named, Kept
<1>. QED BY <1>1, <1>3, <1>5, <1>6, <1>7, RestoreStepNames

(* An entry is moved to where there was none.                              *)
LEMMA MoveAsideNames ==
    ASSUME RestoreInv, NamingInv, NEW o \in Owners, NEW e \in Entries, MoveAside(o, e)
    PROVE  NamingInv'
<1>1. /\ UNCHANGED <<slips, marker, begun, rpc, mine, prior, expect>>
      /\ rpc[o] = "moving" /\ e \in todo[o]
      /\ aside' = [aside EXCEPT ![mine[o]][e] = store[e]]
      /\ store' = [store EXCEPT ![e] = NoEntry]
      /\ todo' = [todo EXCEPT ![o] = @ \ {e}]
    BY DEF MoveAside, Restores, lockVars
<1>. SUFFICES ASSUME slips = {} PROVE Unused' /\ Aims(o)' /\ Named'
    BY <1>1, RestoreStepNames
<1>2. /\ aside \in [1..MaxRestores -> [Entries -> Contents]]
      /\ store \in [Entries -> Contents] /\ todo \in [Owners -> SUBSET Entries]
      /\ marker \in Markers \cup {NoFile} /\ begun \in 0..MaxRestores
      /\ MaxRestores \in Nat
    BY RestoreBounds DEF RestoreInv, RestoreTypeOK
<1>3. /\ mine[o] \in 1..begun /\ mine[o] \in 1..MaxRestores
      /\ mine[o] \in Names(marker) /\ marker # NoFile
      /\ \A f \in todo[o] : aside[mine[o]][f] = NoEntry
    <2>1. mine[o] \in 1..begun /\ mine[o] \in Names(marker)
          /\ \A f \in todo[o] : aside[mine[o]][f] = NoEntry
        BY <1>1 DEF NamingInv, Aims
    <2>2. marker # NoFile
        BY <1>1 DEF RestoreInv, Progress, Marked
    <2>. QED BY <1>2, <2>1, <2>2
<1>4. \A k \in 1..MaxRestores, f \in Entries :
          aside'[k][f] = IF k = mine[o] /\ f = e THEN store[e] ELSE aside[k][f]
    BY <1>1, <1>2, <1>3
<1>5. Unused'
    <2>. SUFFICES ASSUME NEW k \in 1..MaxRestores, k > begun, NEW f \in Entries
                  PROVE  aside'[k][f] = NoEntry
        BY <1>1 DEF Unused
    <2>1. k # mine[o]
        BY <1>2, <1>3
    <2>2. aside[k][f] = NoEntry
        BY DEF NamingInv, Unused
    <2>. QED BY <1>4, <2>1, <2>2
<1>6. Aims(o)'
    <2>1. todo'[o] = todo[o] \ {e} /\ todo[o] \subseteq Entries
        BY <1>1, <1>2
    <2>2. \A f \in todo'[o] : aside'[mine[o]][f] = NoEntry
        BY <1>3, <1>4, <2>1
    <2>. QED BY <1>1, <1>3, <2>2 DEF Aims, Names
<1>7. Named'
    <2>. SUFFICES ASSUME NEW f \in Present(expect) PROVE Kept(f)'
        BY <1>1 DEF Named, Present
    <2>1. f \in Entries /\ expect[f] # NoEntry
        BY DEF Present
    <2>2. Kept(f)
        BY <1>3 DEF NamingInv, Named
    <2>3. Names(marker') = Names(marker) /\ Names(marker) \subseteq 1..MaxRestores
        BY <1>1, <1>2, NamesType
    <2>4. CASE store[f] = expect[f] /\ f # e
        BY <1>1, <1>2, <2>1, <2>4 DEF Kept
    <2>5. CASE store[f] = expect[f] /\ f = e
        <3>1. aside'[mine[o]][f] = expect'[f]
            BY <1>1, <1>3, <1>4, <2>1, <2>5
        <3>. QED BY <1>3, <2>3, <3>1 DEF Kept
    <2>6. ASSUME NEW k \in Names(marker), aside[k][f] = expect[f] PROVE Kept(f)'
        <3>1. k # mine[o] \/ f # e
            BY <1>1, <1>3, <2>1, <2>6
        <3>2. aside'[k][f] = expect'[f]
            BY <1>1, <1>4, <2>1, <2>3, <2>6, <3>1
        <3>. QED BY <2>3, <3>2 DEF Kept
    <2>. QED BY <2>2, <2>4, <2>5, <2>6 DEF Kept
<1>. QED BY <1>5, <1>6, <1>7

(* What comes in takes the place of nothing.                               *)
LEMMA BringInNames ==
    ASSUME RestoreInv, NamingInv, NEW o \in Owners, NEW e \in Entries, BringIn(o, e)
    PROVE  NamingInv'
<1>1. /\ UNCHANGED <<slips, marker, aside, begun, rpc, expect>>
      /\ rpc[o] = "bringing" /\ e \in todo[o]
      /\ store' = [store EXCEPT ![e] = Saved]
    BY DEF BringIn, Restores, lockVars
<1>. SUFFICES ASSUME slips = {} PROVE Unused' /\ Aims(o)' /\ Named'
    BY <1>1, RestoreStepNames
<1>2. Unused' /\ Aims(o)'
    BY <1>1 DEF NamingInv, Unused, Aims
<1>3. store[e] = NoEntry /\ marker # NoFile /\ store \in [Entries -> Contents]
    BY <1>1 DEF RestoreInv, RestoreTypeOK, Progress, Bringing, Marked
<1>4. Named'
    <2>. SUFFICES ASSUME NEW f \in Present(expect) PROVE Kept(f)'
        BY <1>1 DEF Named, Present
    <2>1. Kept(f) /\ f \in Entries /\ expect[f] # NoEntry
        BY <1>3 DEF NamingInv, Named, Present
    <2>2. CASE f = e
        BY <1>1, <1>3, <2>1, <2>2 DEF Kept, Names
    <2>3. CASE f # e
        BY <1>1, <1>3, <2>1, <2>3 DEF Kept, Names
    <2>. QED BY <2>2, <2>3
<1>. QED BY <1>2, <1>4

(* The rest of a restore moves no entry.                                   *)
LEMMA EndingNames ==
    ASSUME RestoreInv, NamingInv, NEW o \in Owners,
           AllAside(o) \/ SwapFails(o) \/ RemoveMarker(o)
    PROVE  NamingInv'
<1>. DEFINE Same == \A q \in Owners : \/ rpc'[q] \notin {"staging", "moving"}
                                      \/ UNCHANGED <<rpc[q], mine[q], prior[q], todo[q]>>
<1>1. /\ rpc \in [Owners -> Phases] /\ mine \in [Owners -> 0..MaxRestores]
      /\ prior \in [Owners -> Markers \cup {NoFile}]
      /\ todo \in [Owners -> SUBSET Entries]
    BY DEF RestoreInv, RestoreTypeOK
<1>2. CASE AllAside(o) \/ SwapFails(o)
    <2>1. Same
        BY <1>1, <1>2 DEF AllAside, SwapFails, Goes
    <2>2. UNCHANGED <<store, aside, begun, marker, expect, slips>>
        BY <1>2 DEF AllAside, SwapFails, lockVars
    <2>. QED BY <2>1, <2>2, QuietStepNames
<1>3. CASE RemoveMarker(o)
    <2>1. /\ UNCHANGED <<slips, aside, begun>> /\ marker' = NoFile
          /\ rpc[o] = "bringing" /\ Goes(o, "over")
        BY <1>3 DEF RemoveMarker, Restores, fileVars
    <2>2. slips = {} => Unused' /\ Aims(o)' /\ Named'
        BY <1>1, <2>1 DEF NamingInv, Unused, Aims, Named, Goes
    <2>. QED BY <1>1, <2>1, <2>2, RestoreStepNames DEF Goes
<1>. QED BY <1>2, <1>3

LEMMA NamingNext ==
    ASSUME RestoreInv, NamingInv, [RestoreNext]_vars
    PROVE  NamingInv'
<1>1. CASE \E o \in Owners : RestoreStep(o)
    BY <1>1, BeginRestoreNames, StageFailsNames, BeginSwapNames, MoveAsideNames,
       BringInNames, EndingNames DEF RestoreStep
<1>2. CASE \E o \in Owners : \/ Acquire(o) \/ LetGoOfStore(o)
                             \/ \E e \in Entries : WriteEntry(o, e)
    BY <1>2, AcquireNames, LetGoNames, WriteEntryNames
<1>3. CASE \E p \in Procs : Dies(p) \/ Starts(p)
    BY <1>3, ProcessStepNames
<1>4. CASE UNCHANGED vars
    BY <1>4, QuietStepNames DEF vars, storeVars, lockVars
<1>. QED BY <1>1, <1>2, <1>3, <1>4 DEF RestoreNext

LEMMA NamingMeans == NamingInv => ReplacedIsNamed
BY DEF NamingInv, Named, Kept, Names, ReplacedIsNamed

(* While the marker is there, every entry of the acknowledged store is in  *)
(* the store or in a directory the marker names, however many restores     *)
(* began, failed or died on the way.                                       *)
THEOREM ReplacedNamed == RestoreSpec => []ReplacedIsNamed
BY RestoreInvAlways, NamingInit, NamingNext, NamingMeans, PTL DEF RestoreSpec
=============================================================================
