----------------------------- MODULE StoreFeed -----------------------------
(***************************************************************************)
(* The tap that turns writes of the daemon's store into events             *)
(* (src/src/daemon/event-tap.ts), composed with the feed and with a client *)
(* that keeps a copy.  The tap overrides twelve methods of the storage.  A *)
(* status write among them reads the status before and after the write and *)
(* reports a difference; the others are reported when they are done.  What *)
(* the storage's other methods write, and what it writes of its own accord *)
(* while it lists the tasks, makes no event.                               *)
(***************************************************************************)
EXTENDS EventFeed

CONSTANTS
    Writers,        \* calls of storage methods
    Statuses,       \* the statuses of the task
    MaxNotes,       \* bound on the other writes (comments, turns, artifacts)
    None            \* no status was read

ASSUME TapBounds == MaxNotes \in Nat /\ None \notin Statuses

VARIABLES
    store,      \* the status and the number of the other writes
    wpc,        \* wpc[w]: where the call is
    target,     \* target[w]: the status a status write is to leave
    before,     \* before[w]: the status it read before the write
    after,      \* after[w]: the status it read after it
    about,      \* about[s]: what the event s of this run is about
    copy,       \* copy[c]: what the client knows of the store
    hidden      \* history: hidden[c], what changed with no event, until the
                \* part is reported again or the client reads it again

tapVars == <<store, wpc, target, before, after, about, copy, hidden>>
vars == <<feedVars, tapVars>>

-----------------------------------------------------------------------------
Parts == {"status", "notes"}

Store == [status : Statuses, notes : 0..MaxNotes]

Steps(w, from, to) == wpc[w] = from /\ wpc' = [wpc EXCEPT ![w] = to]

(* The call is over: what it read goes.                                    *)
Returns(w) ==
    /\ target' = [target EXCEPT ![w] = None]
    /\ before' = [before EXCEPT ![w] = None]
    /\ after' = [after EXCEPT ![w] = None]

(* A part changed, or may have, and nobody is told of it.                  *)
Untold(p) == hidden' = [c \in Clients |-> hidden[c] \cup {p}]

(* statusBefore, for updateTaskStatus, abandonTask and reopenTask.  A read *)
(* that fails counts as no status.                                         *)
ReadBefore(w, s) ==
    /\ Steps(w, "idle", "read")
    /\ target' = [target EXCEPT ![w] = s]
    /\ \E seen \in {store.status, None} : before' = [before EXCEPT ![w] = seen]
    /\ UNCHANGED <<feedVars, store, after, about, copy, hidden>>

(* The storage method itself.                                              *)
WriteStatus(w) ==
    /\ Steps(w, "read", "wrote")
    /\ store' = [store EXCEPT !.status = target[w]]
    /\ target' = [target EXCEPT ![w] = None]
    /\ UNCHANGED <<feedVars, before, after, about, copy, hidden>>

(* It throws, and so does the call: nothing is written, or task.json is    *)
(* replaced and what is left to do after its rename fails.                 *)
StatusThrows(w) ==
    /\ Steps(w, "read", "idle")
    /\ \/ UNCHANGED <<store, hidden>>
       \/ store' = [store EXCEPT !.status = target[w]] /\ Untold("status")
    /\ Returns(w)
    /\ UNCHANGED <<feedVars, about, copy>>

(* emitStatusChange: another read of the task ...                          *)
ReadAfter(w) ==
    /\ Steps(w, "wrote", "reread")
    /\ after' = [after EXCEPT ![w] = store.status]
    /\ UNCHANGED <<feedVars, store, target, before, about, copy, hidden>>

(* ... which may fail, and is then logged and no more ...                  *)
ReadAfterFails(w) ==
    /\ Steps(w, "wrote", "idle")
    /\ Returns(w)
    /\ Untold("status")
    /\ UNCHANGED <<feedVars, store, about, copy>>

(* publishDaemonEvent: what was hidden of the part is told with it.        *)
Tell(p) ==
    /\ Publish
    /\ about' = Append(about, p)
    /\ hidden' = [c \in Clients |-> hidden[c] \ {p}]

(* ... and an event if the status is another one.                          *)
EmitStatus(w) ==
    /\ Steps(w, "reread", "idle")
    /\ after[w] # before[w]
    /\ Tell("status")
    /\ Returns(w)
    /\ UNCHANGED <<store, copy>>

HideStatus(w) ==
    /\ Steps(w, "reread", "idle")
    /\ after[w] = before[w]
    /\ Returns(w)
    /\ Untold("status")
    /\ UNCHANGED <<feedVars, store, about, copy>>

(* Mutant of WriteNote: an override is missing from the tap.                *)
WriteNoteUntapped(w) ==
    /\ store.notes < MaxNotes
    /\ wpc[w] = "idle"
    /\ store' = [store EXCEPT !.notes = @ + 1]
    /\ UNCHANGED <<feedVars, wpc, target, before, after, about, copy, hidden>>

(* createComment, createTurn, createTaskArtifact ...: some read the        *)
(* session they name before they report it.                                *)
WriteNote(w) ==
    /\ store.notes < MaxNotes
    /\ Steps(w, "idle", "noted")
    /\ store' = [store EXCEPT !.notes = @ + 1]
    /\ UNCHANGED <<feedVars, target, before, after, about, copy, hidden>>

EmitNote(w) ==
    /\ Steps(w, "noted", "idle")
    /\ Tell("notes")
    /\ UNCHANGED <<store, target, before, after, copy>>

(* The write of such a method took effect, and the method throws.          *)
NoteThrows(w) ==
    /\ store.notes < MaxNotes
    /\ wpc[w] = "idle"
    /\ store' = [store EXCEPT !.notes = @ + 1]
    /\ Untold("notes")
    /\ UNCHANGED <<feedVars, wpc, target, before, after, about, copy>>

(* A listing of the tasks finds one whose session has ended and that has   *)
(* no final status: it writes the status on the storage under the tap.     *)
HealStatus(s) ==
    /\ s # store.status
    /\ store' = [store EXCEPT !.status = s]
    /\ Untold("status")
    /\ UNCHANGED <<feedVars, wpc, target, before, after, about, copy>>

(* The client reads what an event is about, or everything.                 *)
Read(c, parts) ==
    /\ copy' = [copy EXCEPT ![c] = [p \in Parts |-> IF p \in parts THEN store[p] ELSE @[p]]]
    /\ hidden' = [hidden EXCEPT ![c] = @ \ parts]

TakeEvent(c) ==
    /\ ReceiveEvent(c)
    /\ Read(c, {about[Head(frames[c]).seq]})
    /\ UNCHANGED <<store, wpc, target, before, after, about>>

TakeOpen(c) ==
    /\ ReceiveOpen(c)
    /\ IF Head(frames[c]).kind = "snapshot" THEN Read(c, Parts) ELSE UNCHANGED <<copy, hidden>>
    /\ UNCHANGED <<store, wpc, target, before, after, about>>

Take(c) == TakeEvent(c) \/ TakeOpen(c)

(* The calls die with the daemon, the store does not.                      *)
RestartDaemon ==
    /\ Restart
    /\ wpc' = [w \in Writers |-> "idle"]
    /\ target' = [w \in Writers |-> None]
    /\ before' = [w \in Writers |-> None]
    /\ after' = [w \in Writers |-> None]
    /\ about' = <<>>
    /\ UNCHANGED <<store, copy, hidden>>

FeedOnly ==
    /\ Health \/ CloseAll
       \/ \E c \in Clients : Heartbeat(c) \/ Connect(c) \/ EndOfStream(c) \/ Disconnect(c)
    /\ UNCHANGED tapVars

Init ==
    /\ FeedInit
    /\ store \in [status : Statuses, notes : {0}]
    /\ wpc = [w \in Writers |-> "idle"]
    /\ target = [w \in Writers |-> None]
    /\ before = [w \in Writers |-> None]
    /\ after = [w \in Writers |-> None]
    /\ about = <<>>
    /\ copy = [c \in Clients |-> store]
    /\ hidden = [c \in Clients |-> {}]

WriterStep(w) ==
    \/ \E s \in Statuses : ReadBefore(w, s)
    \/ WriteStatus(w) \/ StatusThrows(w) \/ ReadAfter(w) \/ ReadAfterFails(w)
    \/ EmitStatus(w) \/ HideStatus(w)
    \/ WriteNote(w) \/ EmitNote(w) \/ NoteThrows(w)

Next ==
    \/ \E w \in Writers : WriterStep(w)
    \/ \E s \in Statuses : HealStatus(s)
    \/ \E c \in Clients : Take(c)
    \/ RestartDaemon
    \/ FeedOnly

Spec == Init /\ [][Next]_vars

FairSpec ==
    Spec /\ \A c \in Clients :
        WF_vars(Connect(c) /\ UNCHANGED tapVars) /\ WF_vars(Take(c))
            /\ WF_vars(EndOfStream(c) /\ UNCHANGED tapVars)

-----------------------------------------------------------------------------
TypeOK ==
    /\ FeedTypeOK
    /\ store \in Store
    /\ wpc \in [Writers -> {"idle", "read", "wrote", "reread", "noted"}]
    /\ target \in [Writers -> Statuses \cup {None}]
    /\ before \in [Writers -> Statuses \cup {None}]
    /\ after \in [Writers -> Statuses \cup {None}]
    /\ about \in Seq(Parts) /\ Len(about) = latest
    /\ copy \in [Clients -> Store]
    /\ hidden \in [Clients -> SUBSET Parts]

(* A write of this part is done and its event is not published yet.        *)
Unreported(p) ==
    \E w \in Writers : wpc[w] \in (IF p = "status" THEN {"wrote", "reread"} ELSE {"noted"})

UpToDate(c, p) ==
    \/ copy[c][p] = store[p]
    \/ Unreported(p) \/ SnapshotComes(c)
    \/ \E e \in Coming(c) : about[e[2]] = p

(* A client with an open stream has a copy of what the store says, or word *)
(* of the change is on its way to it.  The exceptions are the changes that *)
(* make no event: a status write that finds the status it had seen before  *)
(* because another write came between, one whose second read fails, a      *)
(* write that throws after it took effect, and one that does not go        *)
(* through the tap; each until the part is reported or read again.  And a  *)
(* cursor of an earlier run may have been accepted.                        *)
CopyFollowsStore ==
    \A c \in Clients, p \in Parts :
        Live(c) /\ ~stale[c] /\ p \notin hidden[c] => UpToDate(c, p)

(* event-tap.ts:7-16 promises more: every writer is covered, and the       *)
(* subscriber's cache never goes stale with nothing saying so.             *)
CopyNeverStale ==
    \A c \in Clients, p \in Parts : Live(c) /\ ~stale[c] => UpToDate(c, p)
=============================================================================
