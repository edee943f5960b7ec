------------------------- MODULE LaunchIdempotency -------------------------
(***************************************************************************)
(* Keyed turn launches (src/daemon/launch-idempotency.ts).                 *)
(*                                                                         *)
(* One task of one daemon.  A call is one client request that carries an   *)
(* idempotency key: a retry is another call with the same key.  The record *)
(* of a key lives in the store and survives the daemon; the map of running *)
(* launches and the per-task promise chain live in its memory and do not.  *)
(*                                                                         *)
(* A key stands for the source's recordKey (caller scope and key); what    *)
(* launchFingerprint computes of command and parameters is PrintOf.        *)
(***************************************************************************)
EXTENDS Naturals, FiniteSets

CONSTANTS
    Calls,       \* the requests of clients, retries included
    Keys,        \* record keys: (caller scope, idempotency key)
    KeyOf,       \* [Calls -> Keys]
    PrintOf,     \* [Calls -> fingerprint of command and parameters]
    FinalCalls,  \* the calls run with failuresAreFinal (reviewAsk)
    MaxRecords,  \* MAX_RECORDS_PER_TASK
    MaxTurns,    \* bound: turns recorded on the task
    MaxCrashes,  \* bound: deaths of the daemon
    Nobody       \* no call

ASSUME LaunchAssumption ==
    /\ KeyOf \in [Calls -> Keys]
    /\ FinalCalls \subseteq Calls
    /\ MaxRecords \in Nat \ {0}
    /\ MaxTurns \in Nat
    /\ MaxCrashes \in Nat
    /\ Nobody \notin Calls

VARIABLES
    records,   \* stored: key -> its LaunchRecord
    clock,     \* the time that stamps a record's `at`
    lock,      \* the call inside withTaskLock
    inFlight,  \* memory: key -> the call whose launch is registered
    pc,        \* where each call is
    seen,      \* what each call read: turnsBefore, busyBefore, the joined call
    answer,    \* what each call was answered
    status,    \* the task: "idle" or "busy" (working, pairing)
    turns,     \* non-withheld turns on the task's session
    writers,   \* history: the calls whose launch recorded a turn
    evicted,   \* history: the keys whose record was dropped at the bound
    crashes

stored == <<records, clock, evicted>>
task   == <<status, turns, writers>>
vars   == <<records, clock, lock, inFlight, pc, seen, answer, status, turns,
            writers, evicted, crashes>>

NoRecord == [state |-> "none"]

Prints == {PrintOf[c] : c \in Calls}

Record == [state : {"launching", "done", "failed"}, print : Prints,
           by : Calls, wroteTurns : BOOLEAN, at : Nat]

(* The places of a call in withLaunchIdempotency, in program order. *)
Launching == {"launch", "launched"}
Ran       == {"succeeded", "failed", "counted"}
Claimed   == Launching \cup Ran
Places    == {"new", "deciding", "claiming", "writing", "joining",
              "answered", "lost"} \cup Claimed

Answers == [kind : {"ok", "error"}, by : Calls]
           \cup [kind : {"none", "mismatch", "unknown", "refused"}]
NoAnswer == [kind |-> "none"]

TypeOK ==
    /\ records \in [Keys -> Record \cup {NoRecord}]
    /\ clock \in Nat
    /\ lock \in Calls \cup {Nobody}
    /\ inFlight \in [Keys -> Calls \cup {Nobody}]
    /\ pc \in [Calls -> Places]
    /\ seen \in [Calls -> [turnsBefore : Nat, busyBefore : BOOLEAN,
                           wroteTurns : BOOLEAN, taskBusy : BOOLEAN,
                           joined : Calls \cup {Nobody}]]
    /\ answer \in [Calls -> Answers]
    /\ status \in {"idle", "busy"}
    /\ turns \in Nat
    /\ writers \subseteq Calls
    /\ evicted \subseteq Keys
    /\ crashes \in Nat

Init ==
    /\ records = [k \in Keys |-> NoRecord]
    /\ clock = 0
    /\ lock = Nobody
    /\ inFlight = [k \in Keys |-> Nobody]
    /\ pc = [c \in Calls |-> "new"]
    /\ seen = [c \in Calls |-> [turnsBefore |-> 0, busyBefore |-> FALSE,
                                wroteTurns |-> FALSE, taskBusy |-> FALSE,
                                joined |-> Nobody]]
    /\ answer = [c \in Calls |-> NoAnswer]
    /\ status \in {"idle", "busy"}
    /\ turns = 0
    /\ writers = {}
    /\ evicted = {}
    /\ crashes = 0

-----------------------------------------------------------------------------
(* writeRecords keeps the MAX_RECORDS_PER_TASK records with the latest     *)
(* `at` and drops the others.                                              *)
Newer(recs, k) ==
    {j \in Keys : /\ recs[j] # NoRecord
                  /\ recs[j].at > recs[k].at}

Dropped(recs) ==
    {k \in Keys : /\ recs[k] # NoRecord
                  /\ Cardinality(Newer(recs, k)) >= MaxRecords}

WriteRecords(recs) ==
    /\ records' = [k \in Keys |-> IF k \in Dropped(recs) THEN NoRecord
                                  ELSE recs[k]]
    /\ evicted' = evicted \cup Dropped(recs)
    /\ clock' = clock + 1

Answer(c, a) ==
    /\ pc' = [pc EXCEPT ![c] = "answered"]
    /\ answer' = [answer EXCEPT ![c] = a]

-----------------------------------------------------------------------------
(* The call waits its turn on the task's promise chain.  The chain is first *)
(* come first served; here any waiting call may be next.                   *)
EnterLock(c) ==
    /\ pc[c] = "new"
    /\ lock = Nobody
    /\ lock' = c
    /\ pc' = [pc EXCEPT ![c] = "deciding"]
    /\ UNCHANGED <<stored, inFlight, seen, answer, task, crashes>>

(* The same key with another command or other parameters: 422. *)
DecideMismatch(c) ==
    /\ pc[c] = "deciding"
    /\ records[KeyOf[c]] # NoRecord
    /\ records[KeyOf[c]].print # PrintOf[c]
    /\ Answer(c, [kind |-> "mismatch"])
    /\ lock' = Nobody
    /\ UNCHANGED <<stored, inFlight, seen, task, crashes>>

(* Mutant of SameRequest: the fingerprint is not compared. *)
SameKeyOnly(c) == records[KeyOf[c]] # NoRecord

SameRequest(c) ==
    /\ records[KeyOf[c]] # NoRecord
    /\ records[KeyOf[c]].print = PrintOf[c]

(* Mutant of DecideJoin: the repeat takes the flight over instead. *)
DecideJoinTakesOver(c) ==
    /\ pc[c] = "deciding"
    /\ SameRequest(c)
    /\ records[KeyOf[c]].state = "launching"
    /\ inFlight[KeyOf[c]] # Nobody
    /\ pc' = [pc EXCEPT ![c] = "claiming"]
    /\ UNCHANGED <<stored, lock, inFlight, seen, answer, task, crashes>>

(* The original still runs in this daemon: the repeat waits for it. *)
DecideJoin(c) ==
    /\ pc[c] = "deciding"
    /\ SameRequest(c)
    /\ records[KeyOf[c]].state = "launching"
    /\ inFlight[KeyOf[c]] # Nobody
    /\ seen' = [seen EXCEPT ![c].joined = inFlight[KeyOf[c]]]
    /\ pc' = [pc EXCEPT ![c] = "joining"]
    /\ lock' = Nobody
    /\ UNCHANGED <<stored, inFlight, answer, task, crashes>>

(* Nothing runs it and no outcome was written: 409, nothing is launched. *)
DecideUnknown(c) ==
    /\ pc[c] = "deciding"
    /\ SameRequest(c)
    /\ records[KeyOf[c]].state = "launching"
    /\ inFlight[KeyOf[c]] = Nobody
    /\ Answer(c, [kind |-> "unknown"])
    /\ lock' = Nobody
    /\ UNCHANGED <<stored, inFlight, seen, task, crashes>>

(* Mutant of Replayable: failuresAreFinal is not consulted. *)
ReplayableIgnoresFinal(c) ==
    LET r == records[KeyOf[c]]
    IN  \/ r.state = "done"
        \/ r.state = "failed" /\ r.wroteTurns

Replayable(c) ==
    LET r == records[KeyOf[c]]
    IN  \/ r.state = "done"
        \/ r.state = "failed" /\ (r.wroteTurns \/ c \in FinalCalls)

(* The recorded result, or the recorded failure, comes back. *)
DecideReplay(c) ==
    /\ pc[c] = "deciding"
    /\ SameRequest(c)
    /\ Replayable(c)
    /\ LET r == records[KeyOf[c]]
       IN  Answer(c, [kind |-> IF r.state = "done" THEN "ok" ELSE "error",
                      by   |-> r.by])
    /\ lock' = Nobody
    /\ UNCHANGED <<stored, inFlight, seen, task, crashes>>

(* Mutant of DecideRun: any record that is not running is claimed again. *)
DecideRunAgain(c) ==
    /\ pc[c] = "deciding"
    /\ \/ records[KeyOf[c]] = NoRecord
       \/ SameRequest(c) /\ records[KeyOf[c]].state # "launching"
    /\ seen' = [seen EXCEPT ![c].turnsBefore = turns]
    /\ pc' = [pc EXCEPT ![c] = "claiming"]
    /\ UNCHANGED <<stored, lock, inFlight, answer, task, crashes>>

(* No record, or a failure that wrote no turn: the call goes on to claim.  *)
(* countRecordedTurns is its first read.                                   *)
DecideRun(c) ==
    /\ pc[c] = "deciding"
    /\ \/ records[KeyOf[c]] = NoRecord
       \/ /\ SameRequest(c)
          /\ records[KeyOf[c]].state = "failed"
          /\ ~Replayable(c)
    /\ seen' = [seen EXCEPT ![c].turnsBefore = turns]
    /\ pc' = [pc EXCEPT ![c] = "claiming"]
    /\ UNCHANGED <<stored, lock, inFlight, answer, task, crashes>>

(* statusBefore: read once, at the claim. *)
ReadStatusBefore(c) ==
    /\ pc[c] = "claiming"
    /\ seen' = [seen EXCEPT ![c].busyBefore = (status = "busy")]
    /\ pc' = [pc EXCEPT ![c] = "writing"]
    /\ UNCHANGED <<stored, lock, inFlight, answer, task, crashes>>

(* The `launching` record is durable, then the launch is registered, both  *)
(* inside the lock.                                                        *)
WriteClaim(c) ==
    /\ pc[c] = "writing"
    /\ WriteRecords([records EXCEPT ![KeyOf[c]] =
                        [state |-> "launching", print |-> PrintOf[c], by |-> c,
                         wroteTurns |-> FALSE, at |-> clock + 1]])
    /\ inFlight' = [inFlight EXCEPT ![KeyOf[c]] = c]
    /\ pc' = [pc EXCEPT ![c] = "launch"]
    /\ lock' = Nobody
    /\ UNCHANGED <<seen, answer, task, crashes>>

(* A store error under the lock is the caller's answer; nothing launched. *)
ClaimFails(c) ==
    /\ pc[c] \in {"deciding", "claiming", "writing"}
    /\ Answer(c, [kind |-> "refused"])
    /\ lock' = Nobody
    /\ UNCHANGED <<stored, inFlight, seen, task, crashes>>

-----------------------------------------------------------------------------
(* launch(): the command behind the key.  Every launch path refuses a busy *)
(* task before its first write; any other refusal writes nothing either.   *)
LaunchRefused(c) ==
    /\ pc[c] = "launch"
    /\ seen' = [seen EXCEPT ![c].taskBusy = (status = "busy")]
    /\ pc' = [pc EXCEPT ![c] = "failed"]
    /\ UNCHANGED <<stored, lock, inFlight, answer, task, crashes>>

LaunchWritesTurn(c) ==
    /\ pc[c] = "launch"
    /\ status = "idle"
    /\ turns < MaxTurns
    /\ turns' = turns + 1
    /\ writers' = writers \cup {c}
    /\ status' = "busy"
    /\ pc' = [pc EXCEPT ![c] = "launched"]
    /\ UNCHANGED <<stored, lock, inFlight, seen, answer, crashes>>

(* Mutant of LaunchFails: the task is left in a status nobody handles. *)
LaunchFailsAstray(c) ==
    /\ pc[c] = "launched"
    /\ pc' = [pc EXCEPT ![c] = "failed"]
    /\ status' = "failed"
    /\ UNCHANGED <<stored, lock, inFlight, seen, answer, turns, writers, crashes>>

(* The turn is recorded but the container, the image or the agent fails. *)
LaunchFails(c) ==
    /\ pc[c] = "launched"
    /\ pc' = [pc EXCEPT ![c] = "failed"]
    /\ status' = "idle"
    /\ UNCHANGED <<stored, lock, inFlight, seen, answer, turns, writers, crashes>>

LaunchSucceeds(c) ==
    /\ pc[c] = "launched"
    /\ pc' = [pc EXCEPT ![c] = "succeeded"]
    /\ UNCHANGED <<stored, lock, inFlight, seen, answer, task, crashes>>

-----------------------------------------------------------------------------
(* Mutant of WroteTurns: off by one, the attempt's own turn is not counted. *)
WroteTurnsOffByOne(c) ==
    /\ ~seen[c].taskBusy
    /\ ~seen[c].busyBefore
    /\ turns > seen[c].turnsBefore + 1

(* A refusal because somebody else owns the task counts as "wrote no       *)
(* turn", and so does every failure of a call that saw the task busy when  *)
(* it claimed; otherwise the turn count decides, and an unreadable count   *)
(* counts as a turn.                                                       *)
WroteTurns(c) ==
    /\ ~seen[c].taskBusy
    /\ ~seen[c].busyBefore
    /\ turns > seen[c].turnsBefore

CountTurnsAfter(c) ==
    /\ pc[c] = "failed"
    /\ \E w \in {WroteTurns(c), ~seen[c].taskBusy /\ ~seen[c].busyBefore} :
          seen' = [seen EXCEPT ![c].wroteTurns = w]
    /\ pc' = [pc EXCEPT ![c] = "counted"]
    /\ UNCHANGED <<stored, lock, inFlight, answer, task, crashes>>

(* settle(): under the lock, rewrite the key's record, whichever call wrote *)
(* it last; then, in the continuations of that write and so before any     *)
(* read of the store by another call, deregister the flight and answer.    *)
SettleAs(c, outcome, wrote) ==
    /\ lock = Nobody
    /\ IF records[KeyOf[c]] = NoRecord
       THEN UNCHANGED stored
       ELSE WriteRecords([records EXCEPT ![KeyOf[c]] =
                [state |-> outcome, print |-> records[KeyOf[c]].print,
                 by |-> c, wroteTurns |-> wrote, at |-> clock + 1]])

ReturnOutcome(c, kind) ==
    /\ inFlight' = [inFlight EXCEPT ![KeyOf[c]] = Nobody]
    /\ Answer(c, [kind |-> kind, by |-> c])
    /\ UNCHANGED <<lock, seen, task, crashes>>

SettleDone(c) ==
    /\ pc[c] = "succeeded"
    /\ SettleAs(c, "done", FALSE)
    /\ ReturnOutcome(c, "ok")

SettleFailed(c) ==
    /\ pc[c] = "counted"
    /\ SettleAs(c, "failed", seen[c].wroteTurns)
    /\ ReturnOutcome(c, "error")

(* The outcome could not be written: logged, the record stays `launching`. *)
SettleLost(c) ==
    /\ pc[c] \in {"succeeded", "counted"}
    /\ lock = Nobody
    /\ UNCHANGED stored
    /\ ReturnOutcome(c, IF pc[c] = "succeeded" THEN "ok" ELSE "error")

(* Mutant of JoinReturns: the rejection of the joined launch is dropped. *)
JoinReturnsResults(c) ==
    /\ pc[c] = "joining"
    /\ LET o == seen[c].joined
       IN  /\ pc[o] = "succeeded" \/ answer[o].kind = "ok"
           /\ Answer(c, [kind |-> "ok", by |-> o])
    /\ UNCHANGED <<stored, lock, inFlight, seen, task, crashes>>

(* The joined launch has an outcome: the repeat returns that outcome. *)
JoinReturns(c) ==
    /\ pc[c] = "joining"
    /\ LET o == seen[c].joined
       IN  \/ /\ pc[o] = "succeeded" \/ answer[o].kind = "ok"
              /\ Answer(c, [kind |-> "ok", by |-> o])
           \/ /\ pc[o] \in {"failed", "counted"} \/ answer[o].kind = "error"
              /\ Answer(c, [kind |-> "error", by |-> o])
    /\ UNCHANGED <<stored, lock, inFlight, seen, task, crashes>>

-----------------------------------------------------------------------------
(* The rest of the daemon: the running turn ends, or another actor's turn  *)
(* runs on the same task.  A launch in progress owns the task.             *)
TurnEnds ==
    /\ status = "busy"
    /\ \A c \in Calls : pc[c] # "launched"
    /\ status' = "idle"
    /\ UNCHANGED <<stored, lock, inFlight, pc, seen, answer, turns, writers,
                   crashes>>

OtherTurn ==
    /\ turns < MaxTurns
    /\ \A c \in Calls : pc[c] # "launched"
    /\ turns' = turns + 1
    /\ status' = "busy"
    /\ UNCHANGED <<stored, lock, inFlight, pc, seen, answer, writers, crashes>>

(* The daemon dies: memory is gone, the client of every call it was        *)
(* serving hears nothing, a new daemon finds the records.                  *)
Crash ==
    /\ crashes < MaxCrashes
    /\ \E c \in Calls : pc[c] \notin {"new", "answered", "lost"}
    /\ pc' = [c \in Calls |-> IF pc[c] \in {"new", "answered", "lost"}
                              THEN pc[c] ELSE "lost"]
    /\ lock' = Nobody
    /\ inFlight' = [k \in Keys |-> Nobody]
    /\ crashes' = crashes + 1
    /\ UNCHANGED <<stored, seen, answer, task>>

(* Every call answered or cut off: nothing is left to do. *)
AllServed ==
    /\ \A c \in Calls : pc[c] \in {"answered", "lost"}
    /\ UNCHANGED vars

ServeStep(c) ==
    \/ DecideMismatch(c) \/ DecideJoin(c) \/ DecideUnknown(c)
    \/ DecideReplay(c) \/ DecideRun(c) \/ ReadStatusBefore(c) \/ WriteClaim(c)
    \/ ClaimFails(c) \/ LaunchRefused(c) \/ LaunchWritesTurn(c)
    \/ LaunchFails(c) \/ LaunchSucceeds(c) \/ CountTurnsAfter(c)
    \/ SettleDone(c) \/ SettleFailed(c) \/ SettleLost(c) \/ JoinReturns(c)

Next == (\E c \in Calls : EnterLock(c) \/ ServeStep(c))
        \/ TurnEnds \/ OtherTurn \/ Crash \/ AllServed

Spec == Init /\ [][Next]_vars

(* The event loop runs every ready continuation and a launch ends, one way *)
(* or the other.  Nothing obliges a client to call, a turn to end or the   *)
(* daemon to crash.                                                        *)
FairSpec == Spec /\ \A c \in Calls : WF_vars(ServeStep(c))

-----------------------------------------------------------------------------
(* At most one call of a key is between its claim and its outcome, and it  *)
(* is the one the in-memory map and the stored record name: a repeat that  *)
(* comes while the original runs finds it and joins.  Withheld only for a  *)
(* key whose record was dropped at MAX_RECORDS_PER_TASK.                   *)
OneFlightPerKey ==
    \A c \in Calls :
        pc[c] \in Claimed /\ KeyOf[c] \notin evicted =>
            /\ inFlight[KeyOf[c]] = c
            /\ records[KeyOf[c]] # NoRecord
            /\ records[KeyOf[c]].by = c
            /\ records[KeyOf[c]].state = "launching"

(* What the header says of a failure AFTER a turn was recorded: it is       *)
(* replayed, so no key records two turns.                                  *)
AtMostOneTurnPerKey ==
    \A c, d \in writers :
        c # d /\ KeyOf[c] = KeyOf[d] => KeyOf[c] \in evicted

(* Two turns under one key need a call that claimed while the task was     *)
(* busy: for every other call the turn count decides, whoever else writes  *)
(* turns on the task, whatever fails, and across restarts of the daemon.   *)
TwoTurnsOnlyAfterBusyClaim ==
    \A c, d \in writers :
        c # d /\ KeyOf[c] = KeyOf[d] =>
            \/ KeyOf[c] \in evicted
            \/ seen[c].busyBefore
            \/ seen[d].busyBefore

(* All calls of a key that are answered with a result are answered with    *)
(* the result of one launch, which recorded its turn, of the same request. *)
AnswersAgree ==
    \A c, d \in Calls :
        /\ answer[c].kind = "ok"
        /\ answer[d].kind = "ok"
        /\ KeyOf[c] = KeyOf[d]
        /\ KeyOf[c] \notin evicted
        => /\ answer[c].by = answer[d].by
           /\ answer[c].by \in writers
           /\ PrintOf[c] = PrintOf[answer[c].by]

(* A call that was not cut off and whose own launch ran. *)
RanItself(c) ==
    \/ pc[c] \in Claimed
    \/ answer[c].kind \in {"ok", "error"} /\ answer[c].by = c

(* reviewAsk posts its question before it can fail, and the turn count does *)
(* not see that: under one key it runs once, even when the run was refused. *)
FinalCallsRunOnce ==
    \A c, d \in FinalCalls :
        c # d /\ KeyOf[c] = KeyOf[d] /\ RanItself(c) /\ RanItself(d) =>
            KeyOf[c] \in evicted

(* A recorded result is never rewritten, by a late settle or a new claim:  *)
(* it leaves the store only at the bound on records.                       *)
DoneIsFinal ==
    [][\A k \in Keys :
          records[k].state = "done" /\ k \notin evicted' =>
              records'[k] = records[k]]_vars

(* A call that reached the decision is answered, unless the daemon dies:   *)
(* no joiner waits for a launch nobody runs and no lock is left behind.    *)
EveryCallAnswered ==
    \A c \in Calls :
        pc[c] = "deciding" ~> pc[c] \in {"answered", "lost"}

=============================================================================
