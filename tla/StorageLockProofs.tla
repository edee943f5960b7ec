------------------------- MODULE StorageLockProofs -------------------------
(***************************************************************************)
(* For every number of processes, instances, namespaces, attempts and      *)
(* restarts: two processes hold the store only after one of the slips, and *)
(* until then the lock file names the process that holds it.  A caller     *)
(* that is not registered yet relies on the file as well: no registration  *)
(* finds the file of another without a slip before.  The invariant says    *)
(* why a reclaim that compares and unlinks undisturbed hits only the file  *)
(* of a process that is gone: what an owner has judged dead cannot come    *)
(* back, because a restart takes another life.                             *)
(***************************************************************************)
EXTENDS StorageLock, TLAPS

(* The holder the content names is gone, or out of the owner's sight.      *)
Gone(o, c) == ~Lives(c) \/ SpaceOf[c.proc] # SpaceOf[ProcOf[o]]

(* No content names a life that has not begun.                             *)
LivesBegun ==
    /\ file # NoFile => file.life <= life[file.proc]
    /\ \A o \in Owners : seen[o] # NoFile => seen[o].life <= life[seen[o].proc]

CallsInv ==
    /\ \A o \in Owners : depth[o] > 0 <=> pc[o] = "held"
    /\ \A o \in Owners : pc[o] # "idle" => up[ProcOf[o]]
    /\ \A o \in Owners : pc[o] \in {"idle", "held"} => attempts[o] = 0
    /\ \A o \in Owners : pc[o] = "judge" => seen[o] # NoFile

JudgedGone ==
    \A o \in Owners : pc[o] \in {"compare", "unlink"} =>
        seen[o] # NoFile /\ Gone(o, seen[o])

(* A caller relies on the file once it has created it or found it its own, *)
(* before it is registered as a holder.                                    *)
Relying == {"write", "got", "held"}

HeldByFile ==
    slips = {} => \A o \in Owners : pc[o] \in Relying => IsOf(file, ProcOf[o])

LockInv == TypeOK /\ LivesBegun /\ CallsInv /\ JudgedGone /\ HeldByFile

LEMMA ContentType ==
    ASSUME TypeOK, NEW o \in Owners, NEW b \in BOOLEAN
    PROVE  /\ Content(o, b) \in File /\ Content(o, b) # NoFile
           /\ IsOf(Content(o, b), ProcOf[o])
           /\ Content(o, b).proc = ProcOf[o]
           /\ Content(o, b).life = life[ProcOf[o]]
BY OwnersRun, NoFileIsNone DEF TypeOK, Content, File, IsOf

LEMMA FileType ==
    ASSUME TypeOK, NEW c \in File
    PROVE  c.proc \in Procs /\ c.life \in Nat /\ life[c.proc] \in Nat
BY SomeLives DEF TypeOK, File

LEMMA SlipType ==
    ASSUME TypeOK, NEW what \in SUBSET Slips, Slipped(what)
    PROVE  slips' \subseteq Slips /\ (slips' = {} => slips = {} /\ what = {})
BY DEF TypeOK, Slipped

LEMMA LetGoType ==
    ASSUME TypeOK, NEW o \in Owners, LetGo(o)
    PROVE  slips' \subseteq Slips /\ file' \in {NoFile, file}
<1>1. CASE UNCHANGED <<file, slips>>
    BY <1>1 DEF TypeOK
<1>2. CASE RemovesFile(o)
    <2>1. \E what \in SUBSET Slips : Slipped(what)
        BY <1>2 DEF RemovesFile, Slips
    <2>. QED BY <1>2, <2>1, SlipType DEF RemovesFile
<1>. QED BY <1>1, <1>2 DEF LetGo

LEMMA LockInvInit == LockInit => LockInv
BY SomeAttempts, SomeLives, OwnersRun
   DEF LockInit, LockInv, TypeOK, LivesBegun, CallsInv, JudgedGone, HeldByFile,
       Relying, PCs, Trying, Slips

LEMMA ReenterStep ==
    ASSUME LockInv, NEW o \in Owners, Reenter(o)
    PROVE  LockInv'
<1>. USE DEF LockInv
<1>1. TypeOK'
    BY OwnersRun, SomeAttempts DEF TypeOK, CallsInv, Reenter, Moves, Ends, Forgets, PCs, Trying
<1>2. LivesBegun' /\ CallsInv' /\ JudgedGone' /\ HeldByFile'
    BY OwnersRun, SomeAttempts, NoFileIsNone
       DEF TypeOK, LivesBegun, CallsInv, JudgedGone, HeldByFile, Relying, Reenter, Moves, Ends,
           Forgets, Runs, PCs, Trying, Gone, Lives, IsOf
<1>. QED BY <1>1, <1>2

LEMMA AttemptStep ==
    ASSUME LockInv, NEW o \in Owners, Attempt(o)
    PROVE  LockInv'
<1>. USE DEF LockInv
<1>1. TypeOK'
    BY OwnersRun, SomeAttempts DEF TypeOK, CallsInv, Attempt, Moves, Ends, Forgets, PCs, Trying
<1>2. LivesBegun' /\ CallsInv' /\ JudgedGone' /\ HeldByFile'
    BY OwnersRun, SomeAttempts, NoFileIsNone
       DEF TypeOK, LivesBegun, CallsInv, JudgedGone, HeldByFile, Relying, Attempt, Moves, Ends,
           Forgets, Runs, PCs, Trying, Gone, Lives, IsOf
<1>. QED BY <1>1, <1>2

LEMMA GiveUpStep ==
    ASSUME LockInv, NEW o \in Owners, GiveUp(o)
    PROVE  LockInv'
<1>. USE DEF LockInv
<1>1. TypeOK'
    BY OwnersRun, SomeAttempts DEF TypeOK, CallsInv, GiveUp, Moves, Ends, Forgets, PCs, Trying
<1>2. LivesBegun' /\ CallsInv' /\ JudgedGone' /\ HeldByFile'
    BY OwnersRun, SomeAttempts, NoFileIsNone
       DEF TypeOK, LivesBegun, CallsInv, JudgedGone, HeldByFile, Relying, GiveUp, Moves, Ends,
           Forgets, Runs, PCs, Trying, Gone, Lives, IsOf
<1>. QED BY <1>1, <1>2

LEMMA CompareStep ==
    ASSUME LockInv, NEW o \in Owners, Compare(o)
    PROVE  LockInv'
<1>. USE DEF LockInv
<1>1. TypeOK'
    BY OwnersRun, SomeAttempts DEF TypeOK, CallsInv, Compare, Moves, Ends, Forgets, PCs, Trying
<1>2. LivesBegun' /\ CallsInv' /\ JudgedGone' /\ HeldByFile'
    BY OwnersRun, SomeAttempts, NoFileIsNone
       DEF TypeOK, LivesBegun, CallsInv, JudgedGone, HeldByFile, Relying, Compare, Moves, Ends,
           Forgets, Runs, PCs, Trying, Gone, Lives, IsOf
<1>. QED BY <1>1, <1>2

LEMMA CreateStep ==
    ASSUME LockInv, NEW o \in Owners, Create(o) \/ Recreate(o)
    PROVE  LockInv'
<1>. USE DEF LockInv
<1>1. TypeOK'
    BY OwnersRun, ContentType
       DEF TypeOK, Create, Recreate, Moves, PCs, Trying
<1>2. LivesBegun'
    <2>1. life[ProcOf[o]] \in Nat
        BY OwnersRun, SomeLives DEF TypeOK
    <2>2. file' # NoFile => file'.life <= life[file'.proc]
        <3>1. CASE file' = file
            BY <3>1 DEF LivesBegun
        <3>2. CASE file' = Content(o, FALSE)
            <4>1. file'.proc = ProcOf[o] /\ file'.life = life[ProcOf[o]]
                BY <3>2, ContentType
            <4>. QED BY <2>1, <4>1
        <3>. QED BY <3>1, <3>2 DEF Create, Recreate
    <2>3. \A q \in Owners : seen'[q] \in {seen[q], file}
        BY DEF TypeOK, Create, Recreate
    <2>4. UNCHANGED life
        BY DEF Create, Recreate
    <2>. QED BY <2>2, <2>3, <2>4 DEF LivesBegun
<1>3. CallsInv'
    <2>1. /\ UNCHANGED <<up, attempts, depth>>
          /\ up[ProcOf[o]] /\ pc[o] # "held" /\ pc[o] \notin {"idle", "held"}
          /\ \A q \in Owners \ {o} : pc'[q] = pc[q] /\ seen'[q] = seen[q]
        BY DEF TypeOK, Create, Recreate, Moves, Runs
    <2>2. pc'[o] \in {"write", "judge", "retry"} /\ (pc'[o] = "judge" => seen'[o] # NoFile)
        BY DEF TypeOK, Create, Recreate, Moves
    <2>. QED BY <2>1, <2>2 DEF CallsInv
<1>3a. JudgedGone'
    BY DEF TypeOK, JudgedGone, Create, Recreate, Moves, Gone, Lives
<1>4. HeldByFile'
    BY OwnersRun, ContentType
       DEF TypeOK, HeldByFile, Relying, Create, Recreate, Moves, PCs, Trying, IsOf
<1>. QED BY <1>1, <1>2, <1>3, <1>3a, <1>4

LEMMA WriteStep ==
    ASSUME LockInv, NEW o \in Owners, Write(o)
    PROVE  LockInv'
<1>. USE DEF LockInv
<1>1. TypeOK'
    BY OwnersRun, ContentType DEF TypeOK, Write, Moves, PCs, Trying
<1>2. LivesBegun'
    <2>1. life[ProcOf[o]] \in Nat
        BY OwnersRun, SomeLives DEF TypeOK
    <2>2. CASE file' = file
        BY <2>2 DEF LivesBegun, Write
    <2>3. CASE file' = Content(o, TRUE)
        BY <2>1, <2>3, ContentType DEF LivesBegun, Write
    <2>. QED BY <2>2, <2>3 DEF Write
<1>3. CallsInv' /\ JudgedGone'
    BY DEF TypeOK, CallsInv, JudgedGone, Write, Moves, Runs, PCs, Trying, Gone, Lives
<1>4. \A p \in Procs : IsOf(file, p) => IsOf(file, p)'
    <2>1. CASE file' = file
        BY <2>1 DEF Write, IsOf
    <2>2. CASE file = Content(o, FALSE) /\ file' = Content(o, TRUE)
        BY <2>2, ContentType DEF Write, IsOf
    <2>. QED BY <2>1, <2>2 DEF Write
<1>5. HeldByFile'
    BY <1>4, OwnersRun DEF TypeOK, HeldByFile, Relying, Write, Moves
<1>. QED BY <1>1, <1>2, <1>3, <1>5

LEMMA ClaimOwnStep ==
    ASSUME LockInv, NEW o \in Owners, ClaimOwn(o)
    PROVE  LockInv'
<1>. USE DEF LockInv
<1>1. TypeOK'
    BY OwnersRun, ContentType
       DEF TypeOK, ClaimOwn, Moves, Forgets, Slipped, Slips, PCs, Trying
<1>2. LivesBegun'
    <2>1. life[ProcOf[o]] \in Nat
        BY OwnersRun, SomeLives DEF TypeOK
    <2>2. \A q \in Owners : seen'[q] # NoFile => seen'[q] = seen[q]
        BY DEF TypeOK, ClaimOwn, Forgets
    <2>3. file' # NoFile => file'.life <= life[file'.proc]
        <3>1. CASE file' = file
            BY <3>1 DEF LivesBegun
        <3>2. CASE file' = Content(o, TRUE)
            <4>1. file'.proc = ProcOf[o] /\ file'.life = life[ProcOf[o]]
                BY <3>2, ContentType
            <4>. QED BY <2>1, <4>1
        <3>. QED BY <3>1, <3>2 DEF ClaimOwn
    <2>4. UNCHANGED life
        BY DEF ClaimOwn
    <2>. QED BY <2>2, <2>3, <2>4 DEF LivesBegun
<1>3. CallsInv' /\ JudgedGone'
    BY DEF TypeOK, CallsInv, JudgedGone, ClaimOwn, Moves, Forgets, Runs, PCs, Trying,
           Gone, Lives
<1>4. ASSUME slips' = {}, NEW q \in Owners, pc'[q] \in Relying
      PROVE  IsOf(file, ProcOf[q])'
    <2>1. slips = {} /\ UNCHANGED life
        BY <1>4 DEF ClaimOwn, Slipped
    <2>2. q # o => IsOf(file, ProcOf[q])
        BY <1>4, <2>1 DEF TypeOK, HeldByFile, ClaimOwn, Moves
    <2>3. CASE HeldInProcess(ProcOf[o]) /\ UNCHANGED file
        <3>1. IsOf(file, ProcOf[o])
            BY <2>1, <2>3, SomeAttempts DEF HeldInProcess, HeldByFile, CallsInv, Relying
        <3>. QED BY <2>1, <2>2, <2>3, <3>1 DEF IsOf
    <2>4. CASE /\ file' = Content(o, TRUE)
               /\ Slipped(IF file # NoFile /\ file.proc # ProcOf[o]
                          THEN {"renamed over another"} ELSE {})
        <3>1. IsOf(file, ProcOf[o])'
            BY <2>1, <2>4, ContentType DEF IsOf
        <3>2. q # o => ProcOf[q] = ProcOf[o]
            BY <1>4, <2>1, <2>2, <2>4 DEF IsOf, Slipped
        <3>. QED BY <3>1, <3>2
    <2>5. CASE /\ UNCHANGED file
               /\ Slipped(IF IsOf(file, ProcOf[o]) THEN {} ELSE {"claim not written"})
        <3>1. IsOf(file, ProcOf[o])
            BY <1>4, <2>1, <2>5 DEF Slipped
        <3>. QED BY <2>1, <2>2, <2>5, <3>1 DEF IsOf
    <2>. QED BY <2>3, <2>4, <2>5 DEF ClaimOwn
<1>5. HeldByFile'
    BY <1>4 DEF HeldByFile
<1>. QED BY <1>1, <1>2, <1>3, <1>5

(* What is judged dead in the namespace of the judge has no process, or    *)
(* one of another life.                                                    *)
LEMMA JudgeHolderStep ==
    ASSUME LockInv, NEW o \in Owners, JudgeHolder(o)
    PROVE  LockInv'
<1>. USE DEF LockInv
<1>1. TypeOK'
    <2>1. pc' \in [Owners -> PCs]
        BY DEF TypeOK, JudgeHolder, Moves, Ends, PCs, Trying
    <2>2. attempts' \in [Owners -> 0..MaxAttempts]
        BY SomeAttempts DEF TypeOK, JudgeHolder, Ends
    <2>3. seen' \in [Owners -> File \cup {NoFile}]
        BY DEF TypeOK, JudgeHolder, Forgets
    <2>. QED BY <2>1, <2>2, <2>3 DEF TypeOK, JudgeHolder
<1>2. LivesBegun'
    BY DEF TypeOK, LivesBegun, JudgeHolder, Forgets
<1>3. CallsInv'
    BY DEF TypeOK, CallsInv, JudgeHolder, Moves, Ends, Forgets, Runs, PCs, Trying
<1>4. pc'[o] = "compare" => seen'[o] = seen[o] /\ Gone(o, seen[o])
    BY DEF TypeOK, JudgeHolder, Moves, Ends, NamespaceVerdicts, MayReadAlive, Gone
<1>5. JudgedGone'
    BY <1>4 DEF TypeOK, CallsInv, JudgedGone, JudgeHolder, Moves, Ends, Forgets, Gone, Lives
<1>6. HeldByFile'
    BY DEF TypeOK, HeldByFile, Relying, JudgeHolder, Moves, Ends, IsOf
<1>. QED BY <1>1, <1>2, <1>3, <1>5, <1>6

(* The file that was compared is removed, or the removal is a slip.        *)
LEMMA UnlinkStep ==
    ASSUME LockInv, NEW o \in Owners, Unlink(o)
    PROVE  LockInv'
<1>. USE DEF LockInv
<1>1. TypeOK'
    <2>1. slips' \subseteq Slips
        BY SlipType DEF TypeOK, Unlink, Slips
    <2>. QED BY <2>1 DEF TypeOK, Unlink, Moves, Forgets, PCs, Trying
<1>2. /\ LivesBegun'
      /\ CallsInv'
      /\ JudgedGone'
    <2>1. LivesBegun'
        BY DEF TypeOK, LivesBegun, Unlink, Forgets
    <2>2. CallsInv'
        BY DEF TypeOK, CallsInv, Unlink, Moves, Forgets, Runs
    <2>3. JudgedGone'
        BY DEF TypeOK, JudgedGone, Unlink, Moves, Forgets, Gone, Lives
    <2>. QED BY <2>1, <2>2, <2>3
<1>3. ASSUME slips' = {}, NEW q \in Owners, pc'[q] \in Relying
      PROVE  FALSE \/ IsOf(file, ProcOf[q])'
    <2>1. pc[q] \in Relying /\ up[ProcOf[q]] /\ slips = {}
        BY <1>3 DEF TypeOK, CallsInv, Relying, Unlink, Moves, Slipped
    <2>2. IsOf(file, ProcOf[q])
        BY <2>1 DEF HeldByFile
    <2>3. Lives(file)
        BY <2>1, <2>2 DEF Lives, IsOf
    <2>4. Gone(o, seen[o])
        BY DEF JudgedGone, Unlink
    <2>5. file # NoFile /\ file = seen[o]
        BY <1>3, <2>1, <2>2 DEF Unlink, Slipped, IsOf
    <2>. QED BY <1>3, <2>1, <2>3, <2>4, <2>5 DEF Unlink, Slipped, Gone
<1>4. HeldByFile'
    BY <1>3 DEF HeldByFile
<1>. QED BY <1>1, <1>2, <1>4

(* Letting go removes the file of no other process without a slip.         *)
LEMMA LetGoKeeps ==
    ASSUME LockInv, NEW o \in Owners, Runs(o), LetGo(o), slips' = {}, UNCHANGED life,
           NEW q \in Owners \ {o}, pc[q] \in Relying
    PROVE  slips = {} /\ IsOf(file, ProcOf[q])'
<1>1. slips = {}
    BY DEF LetGo, RemovesFile, Slipped
<1>2. IsOf(file, ProcOf[q]) /\ (pc[q] = "held" => depth[q] > 0)
    BY <1>1 DEF LockInv, HeldByFile, CallsInv
<1>3. CASE UNCHANGED file
    BY <1>1, <1>2, <1>3 DEF IsOf
<1>4. CASE file' # file
    <2>1. RemovesFile(o) /\ ~ \E r \in Siblings(o) : depth[r] > 0
        BY <1>4 DEF LetGo
    <2>2. file.proc = ProcOf[o] /\ ~ \E r \in Siblings(o) : pc[r] = "got"
        BY <1>1, <1>4, <2>1 DEF RemovesFile, Slipped
    <2>3. q \in Siblings(o)
        BY <1>2, <2>2 DEF IsOf, Siblings
    <2>4. pc[q] = "write"
        BY <1>2, <2>1, <2>2, <2>3 DEF Relying
    <2>. QED BY <2>3, <2>4 DEF Runs, Siblings, Unawaited
<1>. QED BY <1>3, <1>4

LEMMA RegisterStep ==
    ASSUME LockInv, NEW o \in Owners, Register(o)
    PROVE  LockInv'
<1>. USE DEF LockInv
<1>a. slips' \subseteq Slips /\ file' \in {NoFile, file}
    <2>1. CASE LetGo(o)
        BY <2>1, LetGoType
    <2>2. CASE UNCHANGED <<file, slips>>
        BY <2>2 DEF TypeOK
    <2>. QED BY <2>1, <2>2 DEF Register
<1>b. /\ pc[o] = "got" /\ up[ProcOf[o]] /\ UNCHANGED <<up, life, seen>>
      /\ attempts' = [attempts EXCEPT ![o] = 0]
      /\ \/ depth' = depth /\ Moves(o, "idle")
         \/ depth' = [depth EXCEPT ![o] = 1] /\ Moves(o, "held")
    BY Zenon DEF Register, Runs, Ends
<1>1. TypeOK'
    <2>1. depth' \in [Owners -> 0..MaxDepth]
        BY <1>b, SomeAttempts DEF TypeOK
    <2>2. pc' \in [Owners -> PCs] /\ attempts' \in [Owners -> 0..MaxAttempts]
        BY <1>b, SomeAttempts DEF TypeOK, Moves, PCs
    <2>. QED BY <1>a, <1>b, <2>1, <2>2 DEF TypeOK
<1>2. /\ LivesBegun'
      /\ CallsInv'
      /\ JudgedGone'
    <2>1. LivesBegun'
        BY <1>a DEF LivesBegun, Register
    <2>2. CallsInv'
        <3>1. /\ UNCHANGED <<up, seen>> /\ up[ProcOf[o]] /\ attempts'[o] = 0
              /\ \A q \in Owners \ {o} :
                    pc'[q] = pc[q] /\ depth'[q] = depth[q] /\ attempts'[q] = attempts[q]
            BY <1>b DEF TypeOK, Moves
        <3>2. \/ pc'[o] = "idle" /\ depth'[o] = 0
              \/ pc'[o] = "held" /\ depth'[o] = 1
            <4>1. depth[o] = 0
                BY <1>b, SomeAttempts DEF TypeOK, CallsInv
            <4>. QED BY <1>b, <4>1 DEF TypeOK, Moves
        <3>. QED BY <3>1, <3>2 DEF CallsInv
    <2>3. JudgedGone'
        BY DEF TypeOK, JudgedGone, Register, Moves, Ends, Gone, Lives
    <2>. QED BY <2>1, <2>2, <2>3
<1>3. MarkerRefuses(o) => HeldByFile'
    <2>. HAVE MarkerRefuses(o)
    <2>1. ASSUME slips' = {}, NEW q \in Owners, pc'[q] \in Relying
          PROVE  IsOf(file, ProcOf[q])'
        <3>1. q # o /\ pc[q] \in Relying /\ Runs(o) /\ LetGo(o) /\ UNCHANGED life
            BY <2>1 DEF TypeOK, Relying, Register, Moves, Ends
        <3>. QED BY <2>1, <3>1, LetGoKeeps
    <2>. QED BY <2>1 DEF HeldByFile
<1>4. ~MarkerRefuses(o) => HeldByFile'
    BY DEF TypeOK, HeldByFile, Relying, Register, Moves, Ends, IsOf
<1>5. HeldByFile'
    BY <1>3, <1>4
<1>. QED BY <1>1, <1>2, <1>5

LEMMA ReleaseStep ==
    ASSUME LockInv, NEW o \in Owners, Release(o)
    PROVE  LockInv'
<1>. USE DEF LockInv
<1>a. slips' \subseteq Slips /\ file' \in {NoFile, file}
    <2>1. CASE LetGo(o)
        BY <2>1, LetGoType
    <2>2. CASE UNCHANGED <<file, slips>>
        BY <2>2 DEF TypeOK
    <2>. QED BY <2>1, <2>2 DEF Release
<1>1. TypeOK'
    <2>1. depth' \in [Owners -> 0..MaxDepth]
        BY SomeAttempts DEF TypeOK, Release
    <2>2. pc' \in [Owners -> PCs]
        BY DEF TypeOK, Release, Moves, PCs
    <2>. QED BY <1>a, <2>1, <2>2 DEF TypeOK, Release
<1>2. /\ LivesBegun'
      /\ CallsInv'
      /\ JudgedGone'
    <2>1. LivesBegun'
        BY <1>a DEF LivesBegun, Release
    <2>2. CallsInv'
        <3>1. /\ UNCHANGED <<up, attempts, seen>>
              /\ up[ProcOf[o]] /\ attempts[o] = 0
              /\ \A q \in Owners \ {o} : pc'[q] = pc[q] /\ depth'[q] = depth[q]
            BY DEF TypeOK, CallsInv, Release, Moves, Runs
        <3>2. CASE depth[o] > 1 /\ depth' = [depth EXCEPT ![o] = @ - 1] /\ UNCHANGED pc
            <4>1. pc'[o] = "held" /\ depth'[o] > 0
                BY <3>2, SomeAttempts DEF TypeOK, Release
            <4>. QED BY <3>1, <4>1 DEF CallsInv
        <3>3. CASE depth' = [depth EXCEPT ![o] = 0] /\ Moves(o, "idle")
            <4>1. pc'[o] = "idle" /\ depth'[o] = 0
                BY <3>3 DEF TypeOK, Moves
            <4>. QED BY <3>1, <4>1 DEF CallsInv
        <3>. QED BY <3>2, <3>3 DEF Release
    <2>3. JudgedGone'
        BY DEF TypeOK, JudgedGone, Release, Moves, Gone, Lives
    <2>. QED BY <2>1, <2>2, <2>3
<1>3. UNCHANGED <<file, pc, slips>> => HeldByFile'
    BY DEF HeldByFile, Release, IsOf
<1>4. LetGo(o) /\ Moves(o, "idle") => HeldByFile'
    <2>. HAVE LetGo(o) /\ Moves(o, "idle")
    <2>1. ASSUME slips' = {}, NEW q \in Owners, pc'[q] \in Relying
          PROVE  IsOf(file, ProcOf[q])'
        <3>1. q # o /\ pc[q] \in Relying /\ Runs(o) /\ UNCHANGED life
            BY <2>1 DEF TypeOK, Relying, Release, Moves
        <3>. QED BY <2>1, <3>1, LetGoKeeps
    <2>. QED BY <2>1 DEF HeldByFile
<1>5. HeldByFile'
    BY <1>3, <1>4 DEF Release
<1>. QED BY <1>1, <1>2, <1>5

LEMMA CrashStep ==
    ASSUME LockInv, NEW p \in Procs, Crash(p)
    PROVE  LockInv'
<1>. USE DEF LockInv
<1>1. TypeOK'
    BY OwnersRun, SomeAttempts DEF TypeOK, Crash, PCs, Trying
<1>2. LivesBegun' /\ CallsInv'
    BY OwnersRun DEF TypeOK, LivesBegun, CallsInv, Crash
<1>3. \A c \in File : ~Lives(c) => ~Lives(c)'
    BY FileType DEF TypeOK, Crash, Lives
<1>4. JudgedGone'
    BY <1>3, OwnersRun DEF TypeOK, JudgedGone, Crash, Gone
<1>5. HeldByFile'
    BY OwnersRun DEF TypeOK, HeldByFile, Relying, Crash, IsOf
<1>. QED BY <1>1, <1>2, <1>4, <1>5

(* A restart takes a life that no content names.                           *)
LEMMA RestartStep ==
    ASSUME LockInv, NEW p \in Procs, Restart(p)
    PROVE  LockInv'
<1>. USE DEF LockInv
<1>1. TypeOK'
    BY SomeLives DEF TypeOK, Restart
<1>2. LivesBegun'
    BY SomeLives, FileType DEF TypeOK, LivesBegun, Restart
<1>3. CallsInv'
    BY OwnersRun DEF TypeOK, CallsInv, Restart
<1>4. \A c \in File : c.life <= life[c.proc] /\ ~Lives(c) => ~Lives(c)'
    BY FileType, SomeLives DEF TypeOK, Restart, Lives
<1>5. JudgedGone'
    BY <1>4, OwnersRun DEF TypeOK, JudgedGone, LivesBegun, Restart, Gone
<1>6. HeldByFile'
    BY OwnersRun DEF TypeOK, CallsInv, HeldByFile, Relying, Restart, IsOf
<1>. QED BY <1>1, <1>2, <1>3, <1>5, <1>6

LEMMA OwnerStepKeeps ==
    ASSUME LockInv, NEW o \in Owners, OwnerStep(o)
    PROVE  LockInv'
BY ReenterStep, AttemptStep, GiveUpStep, CreateStep, WriteStep, ClaimOwnStep,
   JudgeHolderStep, CompareStep, UnlinkStep, RegisterStep, ReleaseStep
   DEF OwnerStep

(* The invariant says nothing of the marker.                               *)
LEMMA FileStutters ==
    ASSUME LockInv, UNCHANGED <<file, up, life, pc, attempts, depth, seen, slips>>
    PROVE  LockInv'
BY DEF LockInv, TypeOK, LivesBegun, CallsInv, JudgedGone, HeldByFile, Gone, Lives, IsOf

LEMMA LockInvNext ==
    ASSUME LockInv, [Next]_lockVars
    PROVE  LockInv'
<1>1. CASE \E o \in Owners : OwnerStep(o)
    BY <1>1, OwnerStepKeeps
<1>2. CASE \E p \in Procs : ProcStep(p)
    BY <1>2, CrashStep, RestartStep DEF ProcStep
<1>3. CASE MarkerTurns
    BY <1>3, FileStutters DEF MarkerTurns
<1>4. CASE UNCHANGED lockVars
    BY <1>4, FileStutters DEF lockVars
<1>. QED BY <1>1, <1>2, <1>3, <1>4 DEF Next

LEMMA LockInvMeans == LockInv => TypeOK /\ OverlapNeedsSlip /\ FileNamesHolder
BY OwnersRun
   DEF LockInv, CallsInv, HeldByFile, Relying, OverlapNeedsSlip, FileNamesHolder, Exclusive,
       Holders, HeldInProcess, IsOf

LEMMA LockInvAlways == Spec => []LockInv
<1>1. Init => LockInv
    BY LockInvInit DEF Init
<1>. QED BY <1>1, LockInvNext, PTL DEF Spec

(* The variables keep their types. *)
THEOREM LockTypes == Spec => []TypeOK
BY LockInvAlways, LockInvMeans, PTL

(* Two processes hold the store only after one of the slips: the file of   *)
(* another process removed or renamed over, a sibling that let go of the   *)
(* file a caller had found its own, a claim of a leftover that was not     *)
(* written, a live holder judged from another namespace.                   *)
THEOREM HoldersExclude == Spec => []OverlapNeedsSlip
BY LockInvAlways, LockInvMeans, PTL

(* Until such a slip the lock file names the process that holds the store. *)
THEOREM FileTellsHolder == Spec => []FileNamesHolder
BY LockInvAlways, LockInvMeans, PTL

=============================================================================
