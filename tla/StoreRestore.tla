---------------------------- MODULE StoreRestore ----------------------------
(***************************************************************************)
(* Restoring a backup into a store (src/src/storage/store-backup.ts,       *)
(* restoreStoreBackup with the store's lock), composed with the lock.  The *)
(* owners in Restoring restore, the others open the store and write.  The  *)
(* swap moves the entries of the store one by one into a directory beside  *)
(* it and the entries of the verified copy in; the process may die between *)
(* any two renames, and the marker is what is left to tell the next opener *)
(* of the store.                                                           *)
(***************************************************************************)
EXTENDS StorageLock, Sequences

CONSTANTS
    Entries,        \* the top-level entries of a store
    SavedEntries,   \* those the backup has
    Saved,          \* their content in the backup
    NoEntry,        \* an entry that is not there
    MaxWrites,      \* bound on the writes of openers
    MaxRestores     \* bound on the restores that are begun

ASSUME BackupHasEntries == SavedEntries \subseteq Entries
(* A restore is a command of its own, in a process of its own.             *)
ASSUME RestoresAlone ==
    \A o \in Restoring, q \in Owners : o \in Owners /\ ProcOf[q] = ProcOf[o] => q = o
ASSUME RestoreBounds == MaxWrites \in Nat /\ MaxRestores \in Nat

VARIABLES
    store,      \* store[e]: the content of the entry
    aside,      \* aside[k][e]: what the k-th restore moved beside the store
    begun,      \* the restores begun so far; a stamp of the paths they use
    writes,     \* the writes so far; the content a write leaves
    rpc,        \* rpc[o]: where the restore of the owner is
    mine,       \* mine[o]: which restore it is
    prior,      \* prior[o]: the marker it found, kept to be put back
    todo,       \* todo[o]: the entries it has still to rename in this phase
    expect      \* history: the store as acknowledged: what its openers wrote,
                \* or what the last restore that finished put there

storeVars == <<store, aside, begun, writes, rpc, mine, prior, todo, expect>>
vars == <<lockVars, storeVars>>

(* The lock without the marker.                                            *)
fileVars == <<file, up, life, pc, attempts, depth, seen, slips>>

-----------------------------------------------------------------------------
Contents == 0..MaxWrites \cup {Saved, NoEntry}

Markers == [proc : Procs, life : 0..MaxLives, moved : 0..MaxRestores,
            previous : Seq(1..MaxRestores)]

ASSUME NoMarkerIsNone == NoFile \notin Markers

Phases == {"none", "judging", "staging", "moving", "bringing", "over"}

Restored == [e \in Entries |-> IF e \in SavedEntries THEN Saved ELSE NoEntry]

Present(s) == {e \in Entries : s[e] # NoEntry}

Goes(o, to) == rpc' = [rpc EXCEPT ![o] = to]

Restores(o, at) == o \in Restoring /\ Runs(o) /\ pc[o] = "held" /\ rpc[o] = at

(* Mutant of AsidesOf: a restore that died before its swap is carried      *)
(* forward like the others.                                                *)
AsidesWithUnmoved(m) == IF m = NoFile THEN <<>> ELSE Append(m.previous, m.moved)

(* The moved-aside stores a marker knows, oldest first.                    *)
AsidesOf(m) == IF m = NoFile THEN <<>>
               ELSE m.previous \o (IF m.moved = 0 THEN <<>> ELSE <<m.moved>>)

MarkerOf(o, k, before) ==
    [proc |-> ProcOf[o], life |-> life[ProcOf[o]], moved |-> k, previous |-> before]

-----------------------------------------------------------------------------
(* A writer that holds the lock rewrites one entry.                        *)
WriteEntry(o, e) ==
    /\ o \notin Restoring /\ Runs(o) /\ pc[o] = "held"
    /\ writes < MaxWrites
    /\ writes' = writes + 1
    /\ store' = [store EXCEPT ![e] = writes + 1]
    /\ expect' = [expect EXCEPT ![e] = writes + 1]
    /\ UNCHANGED <<lockVars, aside, begun, rpc, mine, prior, todo>>

(* A marker of a restore that still runs elsewhere refuses this one; the   *)
(* marker of a dead one is kept and its paths are carried forward.  The    *)
(* new marker is there before anything is verified or copied.              *)
BeginRestore(o) ==
    /\ Restores(o, "judging")
    /\ begun < MaxRestores
    /\ IF marker # NoFile /\ Lives(marker) /\ marker.proc # ProcOf[o]
       THEN Goes(o, "over") /\ UNCHANGED <<marker, prior, begun, mine>>
       ELSE /\ prior' = [prior EXCEPT ![o] = marker]
            /\ begun' = begun + 1
            /\ mine' = [mine EXCEPT ![o] = begun + 1]
            /\ marker' = MarkerOf(o, 0, AsidesOf(marker))
            /\ Goes(o, "staging")
    /\ UNCHANGED <<fileVars, store, aside, writes, todo, expect>>

(* The backup cannot be verified or unpacked: the marker that was found is *)
(* put back, or there is none again.                                       *)
StageFails(o) ==
    /\ Restores(o, "staging")
    /\ marker' = prior[o]
    /\ Goes(o, "over")
    /\ UNCHANGED <<fileVars, store, aside, begun, writes, mine, prior, todo, expect>>

(* Mutant of BeginSwap: the marker names this restore alone.               *)
BeginSwapAlone(o) ==
    /\ Restores(o, "staging")
    /\ marker' = MarkerOf(o, mine[o], <<>>)
    /\ todo' = [todo EXCEPT ![o] = Present(store)]
    /\ Goes(o, "moving")
    /\ UNCHANGED <<fileVars, store, aside, begun, writes, mine, prior, expect>>

(* The verified copy lies beside the store.  The marker names the          *)
(* directory before the first entry is moved to it.                        *)
BeginSwap(o) ==
    /\ Restores(o, "staging")
    /\ marker' = MarkerOf(o, mine[o], AsidesOf(prior[o]))
    /\ todo' = [todo EXCEPT ![o] = Present(store)]
    /\ Goes(o, "moving")
    /\ UNCHANGED <<fileVars, store, aside, begun, writes, mine, prior, expect>>

MoveAside(o, e) ==
    /\ Restores(o, "moving") /\ e \in todo[o]
    /\ aside' = [aside EXCEPT ![mine[o]][e] = store[e]]
    /\ store' = [store EXCEPT ![e] = NoEntry]
    /\ todo' = [todo EXCEPT ![o] = @ \ {e}]
    /\ UNCHANGED <<lockVars, begun, writes, rpc, mine, prior, expect>>

AllAside(o) ==
    /\ Restores(o, "moving") /\ todo[o] = {}
    /\ todo' = [todo EXCEPT ![o] = SavedEntries]
    /\ Goes(o, "bringing")
    /\ UNCHANGED <<lockVars, store, aside, begun, writes, mine, prior, expect>>

BringIn(o, e) ==
    /\ Restores(o, "bringing") /\ e \in todo[o]
    /\ store' = [store EXCEPT ![e] = Saved]
    /\ todo' = [todo EXCEPT ![o] = @ \ {e}]
    /\ UNCHANGED <<lockVars, aside, begun, writes, rpc, mine, prior, expect>>

(* Mutant of SwapFails: the marker is put back as after a failed copy.     *)
SwapFailsUnmarked(o) ==
    /\ \E at \in {"staging", "moving", "bringing"} : Restores(o, at)
    /\ marker' = prior[o]
    /\ todo' = [todo EXCEPT ![o] = {}]
    /\ Goes(o, "over")
    /\ UNCHANGED <<fileVars, store, aside, begun, writes, mine, prior, expect>>

(* A rename or a directory operation of the swap fails: the marker stays.  *)
SwapFails(o) ==
    /\ \E at \in {"staging", "moving", "bringing"} : Restores(o, at)
    /\ todo' = [todo EXCEPT ![o] = {}]
    /\ Goes(o, "over")
    /\ UNCHANGED <<lockVars, store, aside, begun, writes, mine, prior, expect>>

(* Everything is in place: the marker goes, and the restore is done.       *)
RemoveMarker(o) ==
    /\ Restores(o, "bringing") /\ todo[o] = {}
    /\ marker' = NoFile
    /\ expect' = Restored
    /\ Goes(o, "over")
    /\ UNCHANGED <<fileVars, store, aside, begun, writes, mine, prior, todo>>

-----------------------------------------------------------------------------
RestoreStep(o) ==
    \/ BeginRestore(o) \/ StageFails(o) \/ BeginSwap(o) \/ AllAside(o)
    \/ SwapFails(o) \/ RemoveMarker(o)
    \/ \E e \in Entries : MoveAside(o, e) \/ BringIn(o, e)

(* A call of acquire(); a restore begins when it holds the lock.           *)
Acquire(o) ==
    /\ \/ Proceed(o)
       \/ pc[o] = "idle" /\ Attempt(o)
    /\ rpc' = [rpc EXCEPT ![o] = IF o \in Restoring /\ pc[o] = "got" /\ pc'[o] = "held"
                                 THEN "judging" ELSE @]
    /\ UNCHANGED <<store, aside, begun, writes, mine, prior, todo, expect>>

(* A restore gives the lock back in its finally.                           *)
LetGoOfStore(o) ==
    /\ Release(o)
    /\ o \in Restoring => rpc[o] = "over"
    /\ Goes(o, "none")
    /\ mine' = [mine EXCEPT ![o] = 0]
    /\ prior' = [prior EXCEPT ![o] = NoFile]
    /\ UNCHANGED <<store, aside, begun, writes, todo, expect>>

Dies(p) ==
    /\ Crash(p)
    /\ rpc' = [o \in Owners |-> IF ProcOf[o] = p THEN "none" ELSE rpc[o]]
    /\ mine' = [o \in Owners |-> IF ProcOf[o] = p THEN 0 ELSE mine[o]]
    /\ prior' = [o \in Owners |-> IF ProcOf[o] = p THEN NoFile ELSE prior[o]]
    /\ todo' = [o \in Owners |-> IF ProcOf[o] = p THEN {} ELSE todo[o]]
    /\ UNCHANGED <<store, aside, begun, writes, expect>>

Starts(p) == Restart(p) /\ UNCHANGED storeVars

RestoreInit ==
    /\ LockInit
    /\ store = [e \in Entries |-> 0]
    /\ aside = [k \in 1..MaxRestores |-> [e \in Entries |-> NoEntry]]
    /\ begun = 0
    /\ writes = 0
    /\ rpc = [o \in Owners |-> "none"]
    /\ mine = [o \in Owners |-> 0]
    /\ prior = [o \in Owners |-> NoFile]
    /\ todo = [o \in Owners |-> {}]
    /\ expect = store

RestoreNext ==
    \/ \E o \in Owners : \/ RestoreStep(o) \/ Acquire(o) \/ LetGoOfStore(o)
                         \/ \E e \in Entries : WriteEntry(o, e)
    \/ \E p \in Procs : Dies(p) \/ Starts(p)

RestoreSpec == RestoreInit /\ [][RestoreNext]_vars

FairRestoreSpec ==
    /\ RestoreSpec
    /\ \A o \in Owners : SF_vars(Acquire(o) /\ pc[o] # "idle")

-----------------------------------------------------------------------------
RestoreTypeOK ==
    /\ TypeOK
    /\ marker \in Markers \cup {NoFile}
    /\ store \in [Entries -> Contents]
    /\ expect \in [Entries -> Contents]
    /\ aside \in [1..MaxRestores -> [Entries -> Contents]]
    /\ begun \in 0..MaxRestores
    /\ writes \in 0..MaxWrites
    /\ rpc \in [Owners -> Phases]
    /\ mine \in [Owners -> 0..MaxRestores]
    /\ prior \in [Owners -> Markers \cup {NoFile}]
    /\ todo \in [Owners -> SUBSET Entries]

(* While the lock file has not slipped an opener never finds a store that  *)
(* is part old, part restored: without a marker the store is all that was  *)
(* acknowledged before the restore, or all of the backup and what was      *)
(* written since.                                                          *)
MixedIsMarked == slips = {} /\ marker = NoFile => store = expect

(* What a restore replaces is not lost while the lock file has not         *)
(* slipped: as long as the marker is there, every entry of the             *)
(* acknowledged store is in the store or in a directory the marker names.  *)
ReplacedIsNamed ==
    slips = {} /\ marker # NoFile =>
        \A e \in Present(expect) :
            \/ store[e] = expect[e]
            \/ \E i \in DOMAIN AsidesOf(marker) :
                  aside[AsidesOf(marker)[i]][e] = expect[e]

Swapping(o) == rpc[o] \in {"moving", "bringing"}

(* Nobody has the store open while its entries are renamed, as long as the *)
(* lock file has not slipped (OverlapNeedsSlip says how it may).           *)
SwapExcludesOpeners ==
    slips = {} => \A o, q \in Owners : Swapping(o) /\ depth[q] > 0 => q = o

(* As SwapExcludesOpeners, whatever happened to the lock file.             *)
SwapNeverRaced ==
    \A o, q \in Owners : Swapping(o) /\ depth[q] > 0 => q = o

(* The store as it was before any restore is the first directory that the  *)
(* marker of a repeated restore names.                                     *)
FirstAsideIsOriginal ==
    marker # NoFile /\ marker.previous # <<>> => aside[marker.previous[1]] = expect
=============================================================================
