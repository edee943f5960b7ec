---------------------------- MODULE StorageLock ----------------------------
(***************************************************************************)
(* The lock file of a store (src/src/utils/storage-lock.ts).  Processes    *)
(* take it by creating `.storage-lock` exclusively and writing who they    *)
(* are into it; one that finds the file judges the recorded holder and     *)
(* removes the file of a dead one.  The system calls of one attempt are    *)
(* steps of their own, because another process runs between any two of     *)
(* them; what one process does between two awaits is one step towards the  *)
(* other callers of the same process.                                      *)
(*                                                                         *)
(* An owner is a StorageLock instance with the caller at the head of its   *)
(* queue (withLock admits one at a time).  Processes stand for pids: a     *)
(* restarted process has the same pid and another life, which is also what *)
(* a recycled pid looks like to a reader of the file.                      *)
(***************************************************************************)
EXTENDS Naturals, FiniteSets

CONSTANTS
    Procs,          \* pids that run lazy
    Owners,         \* StorageLock instances
    ProcOf,         \* [Owners -> Procs]
    Spaces,         \* pid namespaces
    SpaceOf,        \* [Procs -> Spaces]
    GuestSpaces,    \* namespaces of a project's machine (isVmGuest)
    Sees,           \* <<s, t>>: from s the processes of t can be looked at
    Refusing,       \* owners opened with foreignHolder: 'refuse'
    Restoring,      \* owners opened with restoreMarker: 'ignore'
    Timed,          \* owners opened with acquireTimeoutMs
    MaxAttempts,    \* MAX_ATTEMPTS; bounds the attempts of timed owners too
    MaxDepth,       \* bound on the re-entry depth
    MaxLives,       \* bound on the restarts of a process
    AfterSlips,     \* bound: do the owners go on after the first slip?
    NoFile          \* there is no such file

ASSUME OwnersRun == ProcOf \in [Owners -> Procs]
ASSUME ProcsLive == SpaceOf \in [Procs -> Spaces]
ASSUME SomeAttempts == MaxAttempts \in Nat \ {0} /\ MaxDepth \in Nat \ {0}
ASSUME OneGuest == GuestSpaces \subseteq Spaces /\ Sees \subseteq Spaces \X Spaces
ASSUME SomeLives == MaxLives \in Nat /\ AfterSlips \in BOOLEAN

VARIABLES
    file,       \* the lock file: NoFile, or who created it and whether its
                \* content was written
    marker,     \* the marker of a restore: NoFile, or what it says
    up,         \* up[p]: is the process running?
    life,       \* life[p]: its start time, as a count of its starts
    pc,         \* pc[o]: where the call of the owner is
    attempts,   \* attempts[o]: the attempts of this acquire()
    depth,      \* depth[o]: the re-entry depth of the instance
    seen,       \* seen[o]: the file content the owner read and judges
    slips       \* history: the first way in which the file that a holder, or a
                \* caller about to hold, relies on was lost

lockVars == <<file, marker, up, life, pc, attempts, depth, seen, slips>>

-----------------------------------------------------------------------------
File == [proc : Procs, life : 0..MaxLives, by : Owners, written : BOOLEAN]

ASSUME NoFileIsNone == NoFile \notin File

Trying == {"create", "write", "judge", "compare", "unlink", "recreate",
           "got", "retry"}
PCs == Trying \cup {"idle", "held"}

Slips == {"unlinked another", "renamed over another", "sibling let go",
          "judged abroad", "removed another", "claim not written"}

Content(o, full) ==
    [proc |-> ProcOf[o], life |-> life[ProcOf[o]], by |-> o, written |-> full]

HeldInProcess(p) == \E o \in Owners : ProcOf[o] = p /\ depth[o] > 0

Lives(c) == up[c.proc] /\ life[c.proc] = c.life

(* The process p, as it runs now, stands behind the content c.             *)
IsOf(c, p) == c # NoFile /\ c.proc = p /\ c.life = life[p]

Moves(o, to) == pc' = [pc EXCEPT ![o] = to]

(* The end of an acquire(): its counter goes.                              *)
Ends(o, to) == Moves(o, to) /\ attempts' = [attempts EXCEPT ![o] = 0]

(* The end of an attempt: what it read goes.                               *)
Forgets(o) == seen' = [seen EXCEPT ![o] = NoFile]

(* The first race that happened; the properties say nothing after it.      *)
Slipped(what) == slips' = IF slips = {} THEN what ELSE slips

(* From the creation of the file to the end of the write, and from the     *)
(* comparison to the write, the code does not await: the other callers of  *)
(* the process have to wait, other processes do not.                       *)
Unawaited == {"write", "compare", "unlink", "recreate"}

Runs(o) ==
    /\ up[ProcOf[o]]
    /\ slips = {} \/ AfterSlips
    /\ \A q \in Owners \ {o} : ProcOf[q] = ProcOf[o] => pc[q] \notin Unawaited

-----------------------------------------------------------------------------
(* What judgeHolderNamespace may answer about the content c.               *)
NamespaceVerdicts(o, c) ==
    LET here == SpaceOf[ProcOf[o]]
        there == SpaceOf[c.proc]
    IN  IF here = there THEN {"judgeable"}
        ELSE IF there \in GuestSpaces \/ <<here, there>> \notin Sees
             THEN {"foreign"}
        ELSE IF Lives(c) THEN {"foreign"} ELSE {"foreign", "dead"}

(* Mutant of MayReadAlive: a holder whose identity cannot be read is dead.  *)
MayReadDead(c, verdict) ==
    {alive \in BOOLEAN : verdict = "dead" => ~alive}

(* What checkHolder may answer: a pid that exists but whose identity       *)
(* cannot be read counts as alive, and in another namespace the pid is     *)
(* looked up among the processes of this one.                              *)
MayReadAlive(c, verdict) ==
    {alive \in BOOLEAN :
        /\ verdict = "dead" => ~alive
        /\ verdict = "judgeable" => (alive <=> Lives(c)) \/ (alive /\ up[c.proc])}

(* A guest's lock seen from outside is refused in every mode.              *)
RefusesForeign(o, c) ==
    o \in Refusing
        \/ (SpaceOf[c.proc] \in GuestSpaces /\ SpaceOf[ProcOf[o]] \notin GuestSpaces)

MarkerRefuses(o) == marker # NoFile /\ o \notin Restoring

-----------------------------------------------------------------------------
(* acquire() on an instance that holds already.                            *)
Reenter(o) ==
    /\ Runs(o) /\ pc[o] = "held" /\ depth[o] < MaxDepth
    /\ depth' = [depth EXCEPT ![o] = @ + 1]
    /\ UNCHANGED <<file, marker, up, life, pc, attempts, seen, slips>>

(* Mutant of Attempt: the loop is left to the deadline alone.              *)
AttemptEndless(o) ==
    /\ Runs(o) /\ pc[o] \in {"idle", "retry"}
    /\ IF MarkerRefuses(o)
       THEN Ends(o, "idle")
       ELSE Moves(o, "create") /\ attempts' = [attempts EXCEPT ![o] = @ + 1]
    /\ UNCHANGED <<file, marker, up, life, depth, seen, slips>>

(* One turn of the loop of acquire(): the marker is looked for before      *)
(* anything touches the lock file.                                         *)
Attempt(o) ==
    /\ Runs(o)
    /\ \/ pc[o] = "idle"
       \/ pc[o] = "retry" /\ attempts[o] < MaxAttempts
    /\ IF MarkerRefuses(o)
       THEN Ends(o, "idle")
       ELSE Moves(o, "create") /\ attempts' = [attempts EXCEPT ![o] = @ + 1]
    /\ UNCHANGED <<file, marker, up, life, depth, seen, slips>>

(* The attempts are used up, or the deadline of a timed owner has passed.  *)
GiveUp(o) ==
    /\ Runs(o) /\ pc[o] = "retry"
    /\ attempts[o] = MaxAttempts \/ o \in Timed
    /\ Ends(o, "idle")
    /\ UNCHANGED <<file, marker, up, life, depth, seen, slips>>

(* open(O_CREAT | O_EXCL): the empty file, EEXIST and a look at who has    *)
(* the lock, or another error.  A file that is gone by then or has no      *)
(* content to parse ends the attempt like an error does.                   *)
Create(o) ==
    /\ Runs(o) /\ pc[o] = "create"
    /\ \/ /\ file = NoFile
          /\ file' = Content(o, FALSE) /\ Moves(o, "write") /\ UNCHANGED seen
       \/ /\ file # NoFile /\ file.written
          /\ seen' = [seen EXCEPT ![o] = file] /\ Moves(o, "judge") /\ UNCHANGED file
       \/ UNCHANGED <<file, seen>> /\ Moves(o, "retry")
    /\ UNCHANGED <<marker, up, life, attempts, depth, slips>>

(* The content goes to the file that was created, which may have been      *)
(* unlinked since; a write that fails leaves the file empty.               *)
Write(o) ==
    /\ Runs(o) /\ pc[o] = "write"
    /\ \/ /\ file' = IF file = Content(o, FALSE) THEN Content(o, TRUE) ELSE file
          /\ Moves(o, "got")
       \/ UNCHANGED file /\ Moves(o, "retry")
    /\ UNCHANGED <<marker, up, life, attempts, depth, seen, slips>>

(* The content has this pid: it is held by this process, or a leftover     *)
(* that is claimed by renaming a new content over whatever is there now.   *)
(* A rename that fails is only logged: that is harmless over a leftover of *)
(* this life, and loses the lock when the leftover is of an earlier life,  *)
(* whose pid was recycled, or is no longer there.                          *)
ClaimOwn(o) ==
    LET p == ProcOf[o]
    IN  /\ Runs(o) /\ pc[o] = "judge"
        /\ seen[o].proc = p
        /\ \/ HeldInProcess(p) /\ UNCHANGED <<file, slips>>
           \/ /\ ~HeldInProcess(p)
              /\ file' = Content(o, TRUE)
              /\ Slipped(IF file # NoFile /\ file.proc # p
                         THEN {"renamed over another"} ELSE {})
           \/ /\ ~HeldInProcess(p)
              /\ Slipped(IF IsOf(file, p) THEN {} ELSE {"claim not written"})
              /\ UNCHANGED file
        /\ Moves(o, "got") /\ Forgets(o)
        /\ UNCHANGED <<marker, up, life, attempts, depth>>

JudgeHolder(o) ==
    /\ Runs(o) /\ pc[o] = "judge"
    /\ seen[o].proc # ProcOf[o]
    /\ \E verdict \in NamespaceVerdicts(o, seen[o]) :
          IF verdict = "foreign" /\ RefusesForeign(o, seen[o])
          THEN Ends(o, "idle") /\ Forgets(o)
          ELSE \E alive \in MayReadAlive(seen[o], verdict) :
                  /\ UNCHANGED attempts
                  /\ IF alive THEN Moves(o, "retry") /\ Forgets(o)
                              ELSE Moves(o, "compare") /\ UNCHANGED seen
    /\ UNCHANGED <<file, marker, up, life, depth, slips>>

(* Mutant of Compare: whatever is on disk by now is unlinked.              *)
CompareAnything(o) ==
    /\ Runs(o) /\ pc[o] = "compare"
    /\ seen' = [seen EXCEPT ![o] = file]
    /\ Moves(o, "unlink")
    /\ UNCHANGED <<file, marker, up, life, attempts, depth, slips>>

(* Only the exact content that was judged is to be removed ...             *)
Compare(o) ==
    /\ Runs(o) /\ pc[o] = "compare"
    /\ IF file = seen[o] THEN Moves(o, "unlink") /\ UNCHANGED seen
                         ELSE Moves(o, "retry") /\ Forgets(o)
    /\ UNCHANGED <<file, marker, up, life, attempts, depth, slips>>

(* ... but unlink() removes whatever has the name by then.                 *)
Unlink(o) ==
    /\ Runs(o) /\ pc[o] = "unlink"
    /\ IF file = NoFile
       THEN UNCHANGED <<file, slips>> /\ Moves(o, "retry")
       ELSE /\ file' = NoFile
            /\ Slipped(IF file # seen[o] THEN {"unlinked another"}
                       ELSE IF Lives(file) /\ SpaceOf[file.proc] # SpaceOf[ProcOf[o]]
                            THEN {"judged abroad"} ELSE {})
            /\ Moves(o, "recreate")
    /\ Forgets(o)
    /\ UNCHANGED <<marker, up, life, attempts, depth>>

Recreate(o) ==
    /\ Runs(o) /\ pc[o] = "recreate"
    /\ \/ file = NoFile /\ file' = Content(o, FALSE) /\ Moves(o, "write")
       \/ UNCHANGED file /\ Moves(o, "retry")
    /\ UNCHANGED <<marker, up, life, attempts, depth, seen, slips>>

-----------------------------------------------------------------------------
Siblings(o) == {q \in Owners \ {o} : ProcOf[q] = ProcOf[o]}

(* unlink() removes the file whatever it says now, and also while a        *)
(* sibling that has found it its own is not registered yet; one that fails *)
(* leaves it behind.                                                       *)
RemovesFile(o) ==
    /\ file' \in {NoFile, file}
    /\ Slipped(IF file' = file THEN {}
               ELSE IF file.proc # ProcOf[o] THEN {"removed another"}
               ELSE IF \E q \in Siblings(o) : pc[q] = "got"
                    THEN {"sibling let go"} ELSE {})

(* Mutant of LetGo: an instance removes the file whoever else of its       *)
(* process still holds.                                                    *)
LetGoAlone(o) == RemovesFile(o)

(* The end of a hold: the last registered holder of the process removes    *)
(* the file.                                                               *)
LetGo(o) ==
    IF \E q \in Siblings(o) : depth[q] > 0
    THEN UNCHANGED <<file, slips>>
    ELSE RemovesFile(o)

(* tryAcquire() has answered true: the instance is registered as a holder, *)
(* looks for the marker again and gives the lock back if it is there.      *)
Register(o) ==
    /\ Runs(o) /\ pc[o] = "got"
    /\ IF MarkerRefuses(o)
       THEN LetGo(o) /\ Ends(o, "idle") /\ UNCHANGED depth
       ELSE /\ depth' = [depth EXCEPT ![o] = 1]
            /\ Ends(o, "held")
            /\ UNCHANGED <<file, slips>>
    /\ UNCHANGED <<marker, up, life, seen>>

(* release(), or releaseAll() whatever the depth.                          *)
Release(o) ==
    /\ Runs(o) /\ pc[o] = "held"
    /\ \/ /\ depth[o] > 1
          /\ depth' = [depth EXCEPT ![o] = @ - 1]
          /\ UNCHANGED <<file, pc, slips>>
       \/ /\ depth' = [depth EXCEPT ![o] = 0]
          /\ LetGo(o) /\ Moves(o, "idle")
    /\ UNCHANGED <<marker, up, life, attempts, seen>>

-----------------------------------------------------------------------------
(* A process dies at any step; the file stays.                             *)
Crash(p) ==
    /\ up[p]
    /\ up' = [up EXCEPT ![p] = FALSE]
    /\ pc' = [o \in Owners |-> IF ProcOf[o] = p THEN "idle" ELSE pc[o]]
    /\ depth' = [o \in Owners |-> IF ProcOf[o] = p THEN 0 ELSE depth[o]]
    /\ attempts' = [o \in Owners |-> IF ProcOf[o] = p THEN 0 ELSE attempts[o]]
    /\ seen' = [o \in Owners |-> IF ProcOf[o] = p THEN NoFile ELSE seen[o]]
    /\ UNCHANGED <<file, marker, life, slips>>

(* A new process gets the pid of a dead one.                               *)
Restart(p) ==
    /\ ~up[p] /\ life[p] < MaxLives
    /\ up' = [up EXCEPT ![p] = TRUE]
    /\ life' = [life EXCEPT ![p] = @ + 1]
    /\ UNCHANGED <<file, marker, pc, attempts, depth, seen, slips>>

(* A restore elsewhere puts its marker into the store or takes it away.    *)
MarkerTurns ==
    /\ marker' \in {NoFile, "restoring"} \ {marker}
    /\ UNCHANGED <<file, up, life, pc, attempts, depth, seen, slips>>

LockInit ==
    /\ file = NoFile
    /\ marker = NoFile
    /\ up = [p \in Procs |-> TRUE]
    /\ life = [p \in Procs |-> 0]
    /\ pc = [o \in Owners |-> "idle"]
    /\ attempts = [o \in Owners |-> 0]
    /\ depth = [o \in Owners |-> 0]
    /\ seen = [o \in Owners |-> NoFile]
    /\ slips = {}

Init == LockInit

(* What an acquire() that was begun goes on to do.                         *)
Proceed(o) ==
    \/ pc[o] = "retry" /\ Attempt(o)
    \/ GiveUp(o) \/ Create(o) \/ Write(o)
    \/ ClaimOwn(o) \/ JudgeHolder(o) \/ Compare(o) \/ Unlink(o) \/ Recreate(o)
    \/ Register(o)

OwnerStep(o) ==
    \/ Reenter(o) \/ Attempt(o) \/ GiveUp(o) \/ Create(o) \/ Write(o)
    \/ ClaimOwn(o) \/ JudgeHolder(o) \/ Compare(o)
    \/ Unlink(o) \/ Recreate(o) \/ Register(o)
    \/ Release(o)

ProcStep(p) == Crash(p) \/ Restart(p)

Next ==
    \/ \E o \in Owners : OwnerStep(o)
    \/ \E p \in Procs : ProcStep(p)
    \/ MarkerTurns

Spec == Init /\ [][Next]_lockVars

(* A running process goes on with the calls it has begun; strongly fair,   *)
(* because the event loop takes the settled awaits of its callers in turn. *)
FairSpec == Spec /\ \A o \in Owners : SF_lockVars(Proceed(o))

-----------------------------------------------------------------------------
TypeOK ==
    /\ file \in File \cup {NoFile}
    /\ up \in [Procs -> BOOLEAN]
    /\ life \in [Procs -> 0..MaxLives]
    /\ pc \in [Owners -> PCs]
    /\ attempts \in [Owners -> 0..MaxAttempts]
    /\ depth \in [Owners -> 0..MaxDepth]
    /\ seen \in [Owners -> File \cup {NoFile}]
    /\ slips \subseteq Slips

Holders == {p \in Procs : HeldInProcess(p)}

(* The lock's promise: one process at a time holds the store.              *)
Exclusive == \A p, q \in Holders : p = q

(* Two processes hold the store only after one of six things: between the  *)
(* comparison and unlink() another process had reclaimed the file          *)
(* (storage-lock.ts:838-839); a leftover was claimed by renaming over the  *)
(* file of another process, or claiming it failed and the caller went on   *)
(* (802-817); a release removed a file that was no longer its own, or one  *)
(* that a sibling had found its own and not registered for (559); a live   *)
(* holder was judged from another namespace.                               *)
OverlapNeedsSlip == slips = {} => Exclusive

(* While a process holds the store the file says so, to the doctor and to  *)
(* every other process, unless one of these six has happened.              *)
FileNamesHolder == slips = {} => \A p \in Holders : IsOf(file, p)

(* What the comment at the failing refresh says, "we hold the lock either  *)
(* way" (storage-lock.ts:806-808): the file left behind still names the    *)
(* holder, so that no other process judges it dead.                        *)
HeldEitherWay ==
    slips \subseteq {"claim not written"} => \A p \in Holders : IsOf(file, p)

(* What inProcessHolders is for (storage-lock.ts:491-507): a release never *)
(* deletes a lock that another instance of its process relies on.          *)
SiblingsKeepLock == slips \subseteq {"sibling let go"} => Exclusive

(* An acquire() of a process that stays up is answered, also on a lock     *)
(* file that nobody can ever judge.                                        *)
AcquireAnswered ==
    \A o \in Owners :
        pc[o] \in Trying ~> pc[o] \notin Trying \/ (slips # {} /\ ~AfterSlips)
=============================================================================
