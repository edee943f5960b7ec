---------------------- MODULE LaunchIdempotencyProofs ----------------------
(***************************************************************************)
(* Proofs about LaunchIdempotency, for any set of calls and keys, any      *)
(* bound on the records and any number of crashes.                         *)
(***************************************************************************)
EXTENDS LaunchIdempotency, TLAPS

Holding == {"deciding", "claiming", "writing"}

(* The call inside the critical section is the one the chain runs. *)
LockInv == \A c \in Calls : pc[c] \in Holding => lock = c

(* A call that goes on to claim saw no record or a failed one, and the lock *)
(* keeps it so until the claim is written.                                 *)
ClaimInv ==
    \A c \in Calls : pc[c] \in {"claiming", "writing"} =>
        records[KeyOf[c]].state \in {"none", "failed"}

(* A call between claim and outcome is the one its key's record and the    *)
(* in-memory map name.                                                     *)
FlightInv ==
    \A c \in Calls : pc[c] \in Claimed /\ KeyOf[c] \notin evicted =>
        /\ inFlight[KeyOf[c]] = c
        /\ records[KeyOf[c]].by = c
        /\ records[KeyOf[c]].state = "launching"

(* A repeat that waits, waits for a call. *)
JoinInv == \A c \in Calls : pc[c] = "joining" => seen[c].joined \in Calls

IInv == TypeOK /\ JoinInv /\ LockInv /\ ClaimInv /\ FlightInv

(* writeRecords stores records and drops others: what it keeps is what it  *)
(* was given, what it drops becomes "none" and is counted as evicted.      *)
LEMMA WriteRecordsType ==
    ASSUME TypeOK, NEW recs \in [Keys -> Record \cup {NoRecord}],
           WriteRecords(recs)
    PROVE  /\ records' \in [Keys -> Record \cup {NoRecord}]
           /\ evicted' \subseteq Keys
           /\ clock' \in Nat
           /\ evicted \subseteq evicted'
           /\ \A k \in Keys : records'[k] = recs[k] \/ records'[k] = NoRecord
           /\ \A k \in Keys : k \notin evicted' => records'[k] = recs[k]
  <1>1. Dropped(recs) \subseteq Keys
    BY DEF Dropped
  <1>2. records' = [k \in Keys |-> IF k \in Dropped(recs) THEN NoRecord
                                   ELSE recs[k]]
    BY DEF WriteRecords
  <1>3. evicted' = evicted \cup Dropped(recs) /\ clock' = clock + 1
    BY DEF WriteRecords
  <1> QED
    BY <1>1, <1>2, <1>3 DEF TypeOK

(* The record a call claims with, and the one it settles with. *)
LEMMA ClaimRecordType ==
    ASSUME TypeOK, NEW c \in Calls
    PROVE  [records EXCEPT ![KeyOf[c]] =
                [state |-> "launching", print |-> PrintOf[c], by |-> c,
                 wroteTurns |-> FALSE, at |-> clock + 1]]
           \in [Keys -> Record \cup {NoRecord}]
  BY LaunchAssumption DEF TypeOK, Record, Prints

LEMMA SettleRecordType ==
    ASSUME TypeOK, NEW c \in Calls, NEW o \in {"done", "failed"},
           NEW w \in BOOLEAN, records[KeyOf[c]] # NoRecord
    PROVE  [records EXCEPT ![KeyOf[c]] =
                [state |-> o, print |-> records[KeyOf[c]].print,
                 by |-> c, wroteTurns |-> w, at |-> clock + 1]]
           \in [Keys -> Record \cup {NoRecord}]
  <1>1. KeyOf[c] \in Keys /\ records[KeyOf[c]] \in Record
    BY LaunchAssumption DEF TypeOK
  <1>2. [state |-> o, print |-> records[KeyOf[c]].print,
         by |-> c, wroteTurns |-> w, at |-> clock + 1] \in Record
    BY <1>1 DEF TypeOK, Record
  <1> QED
    BY <1>1, <1>2 DEF TypeOK

(* The invariant holds initially. *)
LEMMA InitInv == Init => IInv
  <1> SUFFICES ASSUME Init PROVE IInv
    OBVIOUS
  <1>1. TypeOK
    BY DEF Init, TypeOK, Places, Answers, NoAnswer
  <1>2. JoinInv /\ LockInv /\ ClaimInv /\ FlightInv
    BY LaunchAssumption DEF Init, NoRecord, JoinInv, LockInv, ClaimInv, FlightInv, Holding, Claimed, Launching, Ran
  <1> QED
    BY <1>1, <1>2 DEF IInv

Seen == [turnsBefore : Nat, busyBefore : BOOLEAN, wroteTurns : BOOLEAN,
         taskBusy : BOOLEAN, joined : Calls \cup {Nobody}]

(* Updating one Boolean that a call read keeps `seen` well typed. *)
LEMMA SeenUpdate ==
    ASSUME seen \in [Calls -> Seen], NEW c \in Calls, NEW b \in BOOLEAN
    PROVE  /\ [seen EXCEPT ![c].busyBefore = b] \in [Calls -> Seen]
           /\ [seen EXCEPT ![c].taskBusy = b] \in [Calls -> Seen]
           /\ [seen EXCEPT ![c].wroteTurns = b] \in [Calls -> Seen]
  BY DEF Seen

(* Type correctness is preserved by every step of a call. *)
LEMMA ServeType ==
    ASSUME TypeOK, JoinInv, NEW c \in Calls, EnterLock(c) \/ ServeStep(c)
    PROVE  TypeOK'
  <1> USE LaunchAssumption DEF TypeOK, Places, Claimed, Launching, Ran
  <1>1. CASE EnterLock(c)
    BY <1>1 DEF EnterLock, stored, task
  <1>2. CASE DecideMismatch(c)
    BY <1>2 DEF DecideMismatch, Answer, Answers, stored, task
  <1>3. CASE DecideJoin(c)
    BY <1>3 DEF DecideJoin, stored, task
  <1>4. CASE DecideUnknown(c)
    BY <1>4 DEF DecideUnknown, Answer, Answers, stored, task
  <1>5. CASE DecideReplay(c)
    BY <1>5 DEF DecideReplay, Answer, Answers, stored, task, SameRequest, Record, NoRecord
  <1>6. CASE DecideRun(c)
    BY <1>6 DEF DecideRun, stored, task
  <1>7. CASE ReadStatusBefore(c)
    <2> DEFINE b == (status = "busy")
    <2>1. b \in BOOLEAN
      OBVIOUS
    <2>2. seen' = [seen EXCEPT ![c].busyBefore = b]
      BY <1>7 DEF ReadStatusBefore
    <2> HIDE DEF b
    <2>3. seen' \in [Calls -> Seen]
      BY <2>1, <2>2, SeenUpdate DEF Seen
    <2> QED
      BY <1>7, <2>3 DEF ReadStatusBefore, stored, task, Seen
  <1>8. CASE ClaimFails(c)
    BY <1>8 DEF ClaimFails, Answer, Answers, stored, task
  <1>9. CASE LaunchRefused(c)
    <2> DEFINE b == (status = "busy")
    <2>1. b \in BOOLEAN
      OBVIOUS
    <2>2. seen' = [seen EXCEPT ![c].taskBusy = b]
      BY <1>9 DEF LaunchRefused
    <2> HIDE DEF b
    <2>3. seen' \in [Calls -> Seen]
      BY <2>1, <2>2, SeenUpdate DEF Seen
    <2> QED
      BY <1>9, <2>3 DEF LaunchRefused, stored, task, Seen
  <1>10. CASE LaunchWritesTurn(c)
    BY <1>10 DEF LaunchWritesTurn, stored
  <1>11. CASE LaunchFails(c)
    BY <1>11 DEF LaunchFails, stored
  <1>12. CASE LaunchSucceeds(c)
    BY <1>12 DEF LaunchSucceeds, stored, task
  <1>13. CASE CountTurnsAfter(c)
    <2>1. PICK w \in {WroteTurns(c), ~seen[c].taskBusy /\ ~seen[c].busyBefore} :
             seen' = [seen EXCEPT ![c].wroteTurns = w]
      BY <1>13 DEF CountTurnsAfter
    <2>2. w \in BOOLEAN
      BY <2>1 DEF WroteTurns
    <2>3. seen' \in [Calls -> Seen]
      BY <2>1, <2>2, SeenUpdate DEF Seen
    <2> QED
      BY <1>13, <2>3 DEF CountTurnsAfter, stored, task, Seen
  <1>14. CASE SettleLost(c)
    BY <1>14 DEF SettleLost, ReturnOutcome, Answer, Answers, stored, task
  <1>15. CASE JoinReturns(c)
    <2>1. PICK k \in {"ok", "error"} :
             Answer(c, [kind |-> k, by |-> seen[c].joined])
      BY <1>15 DEF JoinReturns
    <2>2. [kind |-> k, by |-> seen[c].joined] \in Answers
      BY <1>15 DEF JoinReturns, JoinInv, Answers
    <2> QED
      BY <1>15, <2>1, <2>2 DEF JoinReturns, Answer, stored, task
  <1>16. CASE WriteClaim(c)
    BY <1>16, ClaimRecordType, WriteRecordsType DEF WriteClaim, task
  <1>17. CASE SettleDone(c)
    BY <1>17, SettleRecordType, WriteRecordsType
       DEF SettleDone, SettleAs, ReturnOutcome, Answer, Answers, stored, task
  <1>18. CASE SettleFailed(c)
    BY <1>18, SettleRecordType, WriteRecordsType
       DEF SettleFailed, SettleAs, ReturnOutcome, Answer, Answers, stored, task
  <1> QED
    BY <1>1, <1>2, <1>3, <1>4, <1>5, <1>6, <1>7, <1>8, <1>9, <1>10, <1>11, <1>12, <1>13, <1>14, <1>15, <1>16, <1>17, <1>18 DEF ServeStep

(* The claim and the flight survive every step of a call.  Only the two    *)
(* steps that write records need the store: WriteClaim, which ClaimInv and *)
(* FlightInv show to be alone on its key, and a settle, which FlightInv    *)
(* shows to rewrite its own record.                                        *)
LEMMA ServeInv ==
    ASSUME IInv, NEW c \in Calls, EnterLock(c) \/ ServeStep(c)
    PROVE  (JoinInv /\ LockInv /\ ClaimInv /\ FlightInv)'
  <1> USE LaunchAssumption
          DEF IInv, TypeOK, JoinInv, LockInv, ClaimInv, FlightInv, Holding,
              Claimed, Launching, Ran
  <1>1. CASE EnterLock(c)
    BY <1>1 DEF EnterLock, stored
  <1>2. CASE DecideMismatch(c)
    BY <1>2 DEF DecideMismatch, Answer, stored
  <1>3. CASE DecideJoin(c)
    BY <1>3 DEF DecideJoin, stored
  <1>4. CASE DecideUnknown(c)
    BY <1>4 DEF DecideUnknown, Answer, stored
  <1>5. CASE DecideReplay(c)
    BY <1>5 DEF DecideReplay, Answer, stored
  <1>6. CASE DecideRun(c)
    BY <1>6 DEF DecideRun, stored, SameRequest, NoRecord
  <1>7. CASE ReadStatusBefore(c)
    BY <1>7 DEF ReadStatusBefore, stored
  <1>8. CASE ClaimFails(c)
    BY <1>8 DEF ClaimFails, Answer, stored
  <1>9. CASE LaunchRefused(c)
    BY <1>9 DEF LaunchRefused, stored
  <1>10. CASE LaunchWritesTurn(c)
    BY <1>10 DEF LaunchWritesTurn, stored
  <1>11. CASE LaunchFails(c)
    BY <1>11 DEF LaunchFails, stored
  <1>12. CASE LaunchSucceeds(c)
    BY <1>12 DEF LaunchSucceeds, stored
  <1>13. CASE CountTurnsAfter(c)
    BY <1>13 DEF CountTurnsAfter, stored
  <1>14. CASE SettleLost(c)
    BY <1>14 DEF SettleLost, ReturnOutcome, Answer, stored
  <1>15. CASE JoinReturns(c)
    BY <1>15 DEF JoinReturns, Answer, stored
  <1>16. CASE WriteClaim(c)
    <2> DEFINE recs == [records EXCEPT ![KeyOf[c]] =
                [state |-> "launching", print |-> PrintOf[c], by |-> c,
                 wroteTurns |-> FALSE, at |-> clock + 1]]
    <2>1. /\ recs \in [Keys -> Record \cup {NoRecord}]
          /\ WriteRecords(recs)
      BY <1>16, ClaimRecordType DEF WriteClaim
    <2>2. /\ recs[KeyOf[c]].state = "launching" /\ recs[KeyOf[c]].by = c
          /\ \A k \in Keys : k # KeyOf[c] => recs[k] = records[k]
      OBVIOUS
    <2> HIDE DEF recs
    <2>3. /\ evicted \subseteq evicted'
          /\ \A k \in Keys : k \notin evicted' => records'[k] = recs[k]
      BY <2>1, WriteRecordsType
    <2>4. /\ pc[c] = "writing" /\ lock' = Nobody /\ seen' = seen
          /\ pc' = [pc EXCEPT ![c] = "launch"]
          /\ inFlight' = [inFlight EXCEPT ![KeyOf[c]] = c]
      BY <1>16 DEF WriteClaim
    <2>5. \A d \in Calls \ {c} : pc[d] \notin Holding
      BY <2>4
    <2>6. \A d \in Calls \ {c} :
             pc[d] \in Claimed /\ KeyOf[d] = KeyOf[c] => KeyOf[d] \in evicted
      BY <2>4
    <2>7. FlightInv'
      BY <2>2, <2>3, <2>4, <2>6
    <2> QED
      BY <2>4, <2>5, <2>7
  <1>17. CASE SettleDone(c)
    <2>1. /\ pc[c] = "succeeded" /\ lock = Nobody /\ lock' = lock /\ seen' = seen
          /\ pc' = [pc EXCEPT ![c] = "answered"]
          /\ inFlight' = [inFlight EXCEPT ![KeyOf[c]] = Nobody]
      BY <1>17 DEF SettleDone, SettleAs, ReturnOutcome, Answer
    <2>2. /\ evicted \subseteq evicted'
          /\ \A k \in Keys \ {KeyOf[c]} :
                k \notin evicted' => records'[k] = records[k]
      <3>1. CASE records[KeyOf[c]] = NoRecord
        BY <1>17, <3>1 DEF SettleDone, SettleAs, stored
      <3>2. CASE records[KeyOf[c]] # NoRecord
        <4> DEFINE recs == [records EXCEPT ![KeyOf[c]] =
                [state |-> "done", print |-> records[KeyOf[c]].print,
                 by |-> c, wroteTurns |-> FALSE, at |-> clock + 1]]
        <4>1. recs \in [Keys -> Record \cup {NoRecord}]
          BY <3>2, SettleRecordType
        <4>2. WriteRecords(recs)
          BY <1>17, <3>2 DEF SettleDone, SettleAs
        <4>3. \A k \in Keys \ {KeyOf[c]} : recs[k] = records[k]
          OBVIOUS
        <4> HIDE DEF recs
        <4> QED
          BY <4>1, <4>2, <4>3, WriteRecordsType
      <3> QED
        BY <3>1, <3>2
    <2>3. \A d \in Calls : pc[d] \notin Holding
      BY <2>1
    <2>4. \A d \in Calls \ {c} :
             pc[d] \in Claimed /\ KeyOf[d] = KeyOf[c] => KeyOf[d] \in evicted
      BY <2>1
    <2>5. FlightInv'
      BY <2>1, <2>2, <2>4
    <2> QED
      BY <2>1, <2>3, <2>5
  <1>18. CASE SettleFailed(c)
    <2>1. /\ pc[c] = "counted" /\ lock = Nobody /\ lock' = lock /\ seen' = seen
          /\ pc' = [pc EXCEPT ![c] = "answered"]
          /\ inFlight' = [inFlight EXCEPT ![KeyOf[c]] = Nobody]
      BY <1>18 DEF SettleFailed, SettleAs, ReturnOutcome, Answer
    <2>2. /\ evicted \subseteq evicted'
          /\ \A k \in Keys \ {KeyOf[c]} :
                k \notin evicted' => records'[k] = records[k]
      <3>1. CASE records[KeyOf[c]] = NoRecord
        BY <1>18, <3>1 DEF SettleFailed, SettleAs, stored
      <3>2. CASE records[KeyOf[c]] # NoRecord
        <4> DEFINE recs == [records EXCEPT ![KeyOf[c]] =
                [state |-> "failed", print |-> records[KeyOf[c]].print,
                 by |-> c, wroteTurns |-> seen[c].wroteTurns, at |-> clock + 1]]
        <4>1. recs \in [Keys -> Record \cup {NoRecord}]
          BY <3>2, SettleRecordType
        <4>2. WriteRecords(recs)
          BY <1>18, <3>2 DEF SettleFailed, SettleAs
        <4>3. \A k \in Keys \ {KeyOf[c]} : recs[k] = records[k]
          OBVIOUS
        <4> HIDE DEF recs
        <4> QED
          BY <4>1, <4>2, <4>3, WriteRecordsType
      <3> QED
        BY <3>1, <3>2
    <2>3. \A d \in Calls : pc[d] \notin Holding
      BY <2>1
    <2>4. \A d \in Calls \ {c} :
             pc[d] \in Claimed /\ KeyOf[d] = KeyOf[c] => KeyOf[d] \in evicted
      BY <2>1
    <2>5. FlightInv'
      BY <2>1, <2>2, <2>4
    <2> QED
      BY <2>1, <2>3, <2>5
  <1> QED
    BY <1>1, <1>2, <1>3, <1>4, <1>5, <1>6, <1>7, <1>8, <1>9, <1>10, <1>11, <1>12, <1>13, <1>14, <1>15, <1>16, <1>17, <1>18 DEF ServeStep

(* The invariant is inductive. *)
LEMMA NextInv == IInv /\ [Next]_vars => IInv'
  <1> SUFFICES ASSUME IInv, [Next]_vars PROVE IInv'
    OBVIOUS
  <1>1. ASSUME NEW c \in Calls, EnterLock(c) \/ ServeStep(c) PROVE IInv'
    BY <1>1, ServeType, ServeInv DEF IInv
  <1>2. CASE TurnEnds
    BY <1>2 DEF TurnEnds, stored, IInv, TypeOK, JoinInv, LockInv, ClaimInv,
                FlightInv
  <1>3. CASE OtherTurn
    BY <1>3 DEF OtherTurn, stored, IInv, TypeOK, JoinInv, LockInv, ClaimInv,
                FlightInv
  <1>4. CASE Crash
    <2>1. TypeOK'
      BY <1>4 DEF Crash, stored, task, IInv, TypeOK, Places
    <2>2. \A c \in Calls : pc'[c] \in {"new", "answered", "lost"}
      BY <1>4 DEF Crash
    <2> QED
      BY <2>1, <2>2 DEF IInv, JoinInv, LockInv, ClaimInv, FlightInv, Holding,
                        Claimed, Launching, Ran
  <1>5. CASE UNCHANGED vars
    BY <1>5 DEF vars, IInv, TypeOK, JoinInv, LockInv, ClaimInv, FlightInv
  <1> QED
    BY <1>1, <1>2, <1>3, <1>4, <1>5 DEF Next, AllServed

(* The stored records, the in-memory map and every call's state keep their *)
(* types along every run of the daemon, restarts included.                 *)
THEOREM TypeCorrect == Spec => []TypeOK
  <1>1. IInv => TypeOK
    BY DEF IInv
  <1> QED
    BY <1>1, InitInv, NextInv, PTL DEF Spec

(* For any number of calls, keys, records, turns and crashes: at most one  *)
(* call of a key runs its launch, and it is the one a repeat would find.   *)
THEOREM OneFlight == Spec => []OneFlightPerKey
  <1>1. IInv => OneFlightPerKey
    BY DEF IInv, FlightInv, OneFlightPerKey, NoRecord
  <1> QED
    BY <1>1, InitInv, NextInv, PTL DEF Spec

-----------------------------------------------------------------------------
(* What is answered, and what may run again.  The claims and flights above *)
(* say who runs; the rest of the protocol also needs to know what each     *)
(* record and each call has behind it.                                     *)

Past == Claimed \cup {"answered", "lost"}

(* The record of a key that was never dropped names a call of that key and *)
(* request that has claimed, and a result only of one that wrote its turn. *)
RecordInv ==
    \A k \in Keys : k \notin evicted /\ records[k].state # "none" =>
        /\ KeyOf[records[k].by] = k
        /\ PrintOf[records[k].by] = records[k].print
        /\ pc[records[k].by] \in Past
        /\ records[k].state = "done" => records[k].by \in writers

(* What a call knows of the task: a turn it wrote was not there when it    *)
(* counted, and only a call that wrote none was refused a busy task.       *)
CallInv ==
    \A c \in Calls :
        /\ pc[c] # "answered" => answer[c].kind = "none"
        /\ pc[c] \in {"claiming", "writing", "launch"}
             => seen[c].turnsBefore <= turns
        /\ pc[c] \in {"launched", "succeeded"} => c \in writers
        /\ c \in writers => /\ seen[c].turnsBefore < turns
                            /\ pc[c] \in Past \ {"launch"}
                            /\ ~seen[c].taskBusy
        /\ seen[c].taskBusy => pc[c] \in {"failed", "counted", "answered", "lost"}

(* The map of running launches names calls that run, and a repeat waits    *)
(* for one that ran, whose answer is its own.                              *)
MapInv ==
    \A k \in Keys : inFlight[k] # Nobody =>
        pc[inFlight[k]] \in Claimed /\ KeyOf[inFlight[k]] = k

WaitInv ==
    \A c \in Calls : pc[c] = "joining" =>
        /\ KeyOf[seen[c].joined] = KeyOf[c]
        /\ KeyOf[c] \notin evicted => PrintOf[seen[c].joined] = PrintOf[c]
        /\ pc[seen[c].joined] \in Past
        /\ answer[seen[c].joined].kind \in {"ok", "error"}
             => answer[seen[c].joined].by = seen[c].joined

(* A call that goes on to claim saw no record, or a failure that may run   *)
(* again.                                                                  *)
RetryInv ==
    \A c \in Calls : pc[c] \in {"claiming", "writing"} =>
        \/ records[KeyOf[c]].state = "none"
        \/ /\ records[KeyOf[c]].state = "failed"
           /\ ~records[KeyOf[c]].wroteTurns
           /\ c \notin FinalCalls

(* A launch that wrote its turn, claimed on an idle task, keeps its key:   *)
(* the record stays its own and none of its outcomes may run again.        *)
WriterInv ==
    \A w \in writers : KeyOf[w] \notin evicted /\ ~seen[w].busyBefore =>
        /\ records[KeyOf[w]].by = w
        /\ \/ records[KeyOf[w]].state \in {"launching", "done"}
           \/ records[KeyOf[w]].state = "failed" /\ records[KeyOf[w]].wroteTurns
        /\ pc[w] = "counted" => seen[w].wroteTurns

(* A result that was answered is that of the call the record names, which  *)
(* no claim and no settle will replace.                                    *)
ResultInv ==
    \A c \in Calls : answer[c].kind = "ok" /\ KeyOf[c] \notin evicted =>
        /\ answer[c].by \in writers
        /\ KeyOf[answer[c].by] = KeyOf[c]
        /\ PrintOf[answer[c].by] = PrintOf[c]
        /\ records[KeyOf[c]].by = answer[c].by
        /\ \/ records[KeyOf[c]].state = "done"
           \/ /\ records[KeyOf[c]].state = "launching"
              /\ pc[answer[c].by] \in {"succeeded", "answered", "lost"}

(* A call whose failures are final leaves a record, whatever its outcome.  *)
FinalInv ==
    /\ \A c \in FinalCalls : RanItself(c) /\ KeyOf[c] \notin evicted =>
          records[KeyOf[c]].state # "none"
    /\ FinalCallsRunOnce

OutcomeInv ==
    /\ RecordInv /\ CallInv /\ MapInv /\ WaitInv /\ RetryInv
    /\ WriterInv /\ ResultInv /\ FinalInv

LEMMA OutcomeInit == Init => OutcomeInv
  BY LaunchAssumption
  DEF Init, OutcomeInv, RecordInv, CallInv, MapInv, WaitInv, RetryInv,
      WriterInv, ResultInv, FinalInv, FinalCallsRunOnce, RanItself, NoRecord,
      NoAnswer, Past, Claimed, Launching, Ran

(* Only a claim and the settle of a running launch change the record of a  *)
(* key that stays within the bound, and only that of their own key.        *)
LEMMA WhatIsWritten ==
    ASSUME IInv, NEW c \in Calls, EnterLock(c) \/ ServeStep(c),
           NEW k \in Keys, k \notin evicted'
    PROVE  \/ records'[k] = records[k]
           \/ /\ WriteClaim(c) /\ k = KeyOf[c]
              /\ records'[k] = [state |-> "launching", print |-> PrintOf[c],
                                by |-> c, wroteTurns |-> FALSE, at |-> clock + 1]
           \/ /\ SettleDone(c) /\ k = KeyOf[c]
              /\ records'[k] = [state |-> "done", print |-> records[k].print,
                                by |-> c, wroteTurns |-> FALSE, at |-> clock + 1]
           \/ /\ SettleFailed(c) /\ k = KeyOf[c]
              /\ records'[k] = [state |-> "failed", print |-> records[k].print,
                                by |-> c, wroteTurns |-> seen[c].wroteTurns,
                                at |-> clock + 1]
  <1> USE LaunchAssumption DEF IInv
  <1>1. CASE WriteClaim(c)
    <2> DEFINE recs == [records EXCEPT ![KeyOf[c]] =
                [state |-> "launching", print |-> PrintOf[c], by |-> c,
                 wroteTurns |-> FALSE, at |-> clock + 1]]
    <2>1. recs \in [Keys -> Record \cup {NoRecord}] /\ WriteRecords(recs)
      BY <1>1, ClaimRecordType DEF WriteClaim
    <2>2. recs[k] = IF k = KeyOf[c]
                    THEN [state |-> "launching", print |-> PrintOf[c],
                          by |-> c, wroteTurns |-> FALSE, at |-> clock + 1]
                    ELSE records[k]
      BY DEF TypeOK
    <2> HIDE DEF recs
    <2>3. records'[k] = recs[k]
      BY <2>1, WriteRecordsType
    <2> QED
      BY <1>1, <2>2, <2>3
  <1>2. CASE SettleDone(c)
    <2>1. CASE records[KeyOf[c]] = NoRecord
      BY <1>2, <2>1 DEF SettleDone, SettleAs, stored
    <2>2. CASE records[KeyOf[c]] # NoRecord
      <3> DEFINE r == [state |-> "done", print |-> records[KeyOf[c]].print,
                       by |-> c, wroteTurns |-> FALSE, at |-> clock + 1]
                 recs == [records EXCEPT ![KeyOf[c]] = r]
      <3>1. recs \in [Keys -> Record \cup {NoRecord}] /\ WriteRecords(recs)
        BY <1>2, <2>2, SettleRecordType DEF SettleDone, SettleAs, TypeOK
      <3>2. recs[k] = IF k = KeyOf[c] THEN r ELSE records[k]
        BY DEF TypeOK
      <3> HIDE DEF recs
      <3>3. records'[k] = recs[k]
        BY <3>1, WriteRecordsType
      <3> QED
        BY <1>2, <3>2, <3>3
    <2> QED
      BY <2>1, <2>2
  <1>3. CASE SettleFailed(c)
    <2>1. CASE records[KeyOf[c]] = NoRecord
      BY <1>3, <2>1 DEF SettleFailed, SettleAs, stored
    <2>2. CASE records[KeyOf[c]] # NoRecord
      <3> DEFINE r == [state |-> "failed", print |-> records[KeyOf[c]].print,
                       by |-> c, wroteTurns |-> seen[c].wroteTurns, at |-> clock + 1]
                 recs == [records EXCEPT ![KeyOf[c]] = r]
      <3>1. recs \in [Keys -> Record \cup {NoRecord}] /\ WriteRecords(recs)
        BY <1>3, <2>2, SettleRecordType DEF SettleFailed, SettleAs, TypeOK
      <3>2. recs[k] = IF k = KeyOf[c] THEN r ELSE records[k]
        BY DEF TypeOK
      <3> HIDE DEF recs
      <3>3. records'[k] = recs[k]
        BY <3>1, WriteRecordsType
      <3> QED
        BY <1>3, <3>2, <3>3
    <2> QED
      BY <2>1, <2>2
  <1>4. CASE ~(WriteClaim(c) \/ SettleDone(c) \/ SettleFailed(c))
    BY <1>4
    DEF EnterLock, ServeStep, DecideMismatch, DecideJoin, DecideUnknown,
        DecideReplay, DecideRun, ReadStatusBefore, ClaimFails, LaunchRefused,
        LaunchWritesTurn, LaunchFails, LaunchSucceeds, CountTurnsAfter,
        SettleLost, JoinReturns, stored
  <1> QED
    BY <1>1, <1>2, <1>3, <1>4

(* The same, by the fields of the record that follows.                     *)
LEMMA WhatIsSaid ==
    ASSUME IInv, NEW c \in Calls, EnterLock(c) \/ ServeStep(c),
           NEW k \in Keys, k \notin evicted'
    PROVE  \/ records'[k] = records[k]
           \/ /\ k = KeyOf[c] /\ records'[k].by = c
              /\ \/ WriteClaim(c) /\ records'[k].state = "launching"
                 \/ SettleDone(c) /\ records'[k].state = "done"
                 \/ /\ SettleFailed(c) /\ records'[k].state = "failed"
                    /\ records'[k].wroteTurns = seen[c].wroteTurns
  <1>1. CASE WriteClaim(c) /\ k = KeyOf[c]
             /\ records'[k] = [state |-> "launching", print |-> PrintOf[c],
                               by |-> c, wroteTurns |-> FALSE, at |-> clock + 1]
    BY <1>1
  <1>2. CASE SettleDone(c) /\ k = KeyOf[c]
             /\ records'[k] = [state |-> "done", print |-> records[k].print,
                               by |-> c, wroteTurns |-> FALSE, at |-> clock + 1]
    BY <1>2
  <1>3. CASE SettleFailed(c) /\ k = KeyOf[c]
             /\ records'[k] = [state |-> "failed", print |-> records[k].print,
                               by |-> c, wroteTurns |-> seen[c].wroteTurns,
                               at |-> clock + 1]
    BY <1>3
  <1> QED
    BY <1>1, <1>2, <1>3, WhatIsWritten

(* Nothing is undone: a dropped key, a recorded turn, a claim that ran.    *)
Ahead ==
    /\ evicted \subseteq evicted'
    /\ writers \subseteq writers'
    /\ \A d \in Calls : pc[d] \in Past => pc'[d] \in Past

LEMMA ServeAhead ==
    ASSUME IInv, NEW c \in Calls, EnterLock(c) \/ ServeStep(c)
    PROVE  Ahead
  <1> USE DEF IInv, TypeOK, Ahead, Past, Claimed, Launching, Ran
  <1>1. CASE WriteClaim(c)
    BY <1>1 DEF WriteClaim, WriteRecords, task
  <1>2. CASE SettleDone(c)
    BY <1>2
    DEF SettleDone, SettleAs, WriteRecords, ReturnOutcome, Answer, stored, task
  <1>3. CASE SettleFailed(c)
    BY <1>3
    DEF SettleFailed, SettleAs, WriteRecords, ReturnOutcome, Answer, stored, task
  <1>4. CASE ~(WriteClaim(c) \/ SettleDone(c) \/ SettleFailed(c))
    BY <1>4
    DEF EnterLock, ServeStep, DecideMismatch, DecideJoin, DecideUnknown,
        DecideReplay, DecideRun, ReadStatusBefore, ClaimFails, LaunchRefused,
        LaunchWritesTurn, LaunchFails, LaunchSucceeds, CountTurnsAfter,
        SettleLost, JoinReturns, ReturnOutcome, Answer, stored, task
  <1> QED
    BY <1>1, <1>2, <1>3, <1>4

(* A recorded result is neither settled again nor claimed.                 *)
LEMMA DoneStays ==
    ASSUME IInv, NEW c \in Calls, EnterLock(c) \/ ServeStep(c),
           NEW k \in Keys, records[k].state = "done", k \notin evicted'
    PROVE  records'[k] = records[k]
  <1>1. k \notin evicted
    BY ServeAhead DEF Ahead
  <1>2. ~(WriteClaim(c) /\ k = KeyOf[c])
    BY DEF WriteClaim, IInv, ClaimInv
  <1>3. ~((SettleDone(c) \/ SettleFailed(c)) /\ k = KeyOf[c])
    BY <1>1 DEF SettleDone, SettleFailed, IInv, FlightInv, Claimed, Ran
  <1> QED
    BY <1>2, <1>3, WhatIsWritten

LEMMA ServeRecordInv ==
    ASSUME IInv, OutcomeInv, NEW c \in Calls, EnterLock(c) \/ ServeStep(c)
    PROVE  RecordInv'
  <1> SUFFICES ASSUME NEW k \in Keys, k \notin evicted',
                      records'[k].state # "none"
               PROVE  /\ KeyOf[records'[k].by] = k
                      /\ PrintOf[records'[k].by] = records'[k].print
                      /\ pc'[records'[k].by] \in Past
                      /\ records'[k].state = "done" => records'[k].by \in writers'
    BY DEF RecordInv
  <1>1. Ahead /\ k \notin evicted
    BY ServeAhead DEF Ahead
  <1>2. CASE records'[k] = records[k]
    <2>1. records[k].by \in Calls
      BY <1>2 DEF IInv, TypeOK, Record, NoRecord
    <2> QED
      BY <1>1, <1>2, <2>1 DEF OutcomeInv, RecordInv, Ahead
  <1>3. CASE WriteClaim(c) /\ k = KeyOf[c]
             /\ records'[k] = [state |-> "launching", print |-> PrintOf[c],
                               by |-> c, wroteTurns |-> FALSE, at |-> clock + 1]
    <2>1. pc'[c] = "launch"
      BY <1>3 DEF WriteClaim, IInv, TypeOK
    <2> QED
      BY <1>3, <2>1 DEF Past, Claimed, Launching
  <1>4. ASSUME k = KeyOf[c], pc[c] \in Ran,
               records'[k].print = records[k].print, records'[k].by = c,
               records'[k].state = "done" => c \in writers
        PROVE  /\ KeyOf[records'[k].by] = k
               /\ PrintOf[records'[k].by] = records'[k].print
               /\ pc'[records'[k].by] \in Past
               /\ records'[k].state = "done" => records'[k].by \in writers'
    <2>1. records[k].by = c /\ records[k].state = "launching"
      BY <1>1, <1>4 DEF IInv, FlightInv, Claimed
    <2>2. PrintOf[c] = records[k].print
      BY <1>1, <2>1 DEF OutcomeInv, RecordInv
    <2>3. pc'[c] \in Past
      BY <1>1, <1>4 DEF Ahead, Past, Claimed
    <2> QED
      BY <1>1, <1>4, <2>2, <2>3 DEF Ahead
  <1>5. CASE SettleDone(c) /\ k = KeyOf[c]
             /\ records'[k] = [state |-> "done", print |-> records[k].print,
                               by |-> c, wroteTurns |-> FALSE, at |-> clock + 1]
    BY <1>4, <1>5 DEF SettleDone, Ran, OutcomeInv, CallInv
  <1>6. CASE SettleFailed(c) /\ k = KeyOf[c]
             /\ records'[k] = [state |-> "failed", print |-> records[k].print,
                               by |-> c, wroteTurns |-> seen[c].wroteTurns,
                               at |-> clock + 1]
    BY <1>4, <1>6 DEF SettleFailed, Ran
  <1> QED
    BY <1>2, <1>3, <1>5, <1>6, WhatIsWritten

LEMMA ServeCallInv ==
    ASSUME IInv, OutcomeInv, NEW c \in Calls, EnterLock(c) \/ ServeStep(c)
    PROVE  CallInv'
  <1> USE LaunchAssumption
          DEF IInv, OutcomeInv, CallInv, TypeOK, Past, Claimed, Launching, Ran,
              NoAnswer
  <1>1. CASE EnterLock(c)
    BY <1>1 DEF EnterLock, stored, task
  <1>2. CASE DecideMismatch(c)
    BY <1>2 DEF DecideMismatch, Answer, stored, task
  <1>3. CASE DecideJoin(c)
    BY <1>3 DEF DecideJoin, stored, task
  <1>4. CASE DecideUnknown(c)
    BY <1>4 DEF DecideUnknown, Answer, stored, task
  <1>5. CASE DecideReplay(c)
    BY <1>5 DEF DecideReplay, Answer, stored, task
  <1>6. CASE DecideRun(c)
    BY <1>6 DEF DecideRun, stored, task
  <1>7. CASE ReadStatusBefore(c)
    BY <1>7 DEF ReadStatusBefore, stored, task
  <1>8. CASE WriteClaim(c)
    BY <1>8 DEF WriteClaim, WriteRecords, stored, task
  <1>9. CASE ClaimFails(c)
    BY <1>9 DEF ClaimFails, Answer, stored, task
  <1>10. CASE LaunchRefused(c)
    BY <1>10 DEF LaunchRefused, stored, task
  <1>11. CASE LaunchWritesTurn(c)
    BY <1>11 DEF LaunchWritesTurn, stored, task
  <1>12. CASE LaunchFails(c)
    BY <1>12 DEF LaunchFails, stored, task
  <1>13. CASE LaunchSucceeds(c)
    BY <1>13 DEF LaunchSucceeds, stored, task
  <1>14. CASE CountTurnsAfter(c)
    BY <1>14 DEF CountTurnsAfter, stored, task
  <1>15. CASE SettleDone(c)
    BY <1>15 DEF SettleDone, SettleAs, WriteRecords, ReturnOutcome, Answer, stored, task
  <1>16. CASE SettleFailed(c)
    BY <1>16 DEF SettleFailed, SettleAs, WriteRecords, ReturnOutcome, Answer, stored, task
  <1>17. CASE SettleLost(c)
    BY <1>17 DEF SettleLost, ReturnOutcome, Answer, stored, task
  <1>18. CASE JoinReturns(c)
    BY <1>18 DEF JoinReturns, Answer, stored, task
  <1> QED
    BY <1>1, <1>2, <1>3, <1>4, <1>5, <1>6, <1>7, <1>8, <1>9, <1>10, <1>11, <1>12, <1>13, <1>14, <1>15, <1>16, <1>17, <1>18 DEF ServeStep

LEMMA ServeMapInv ==
    ASSUME IInv, OutcomeInv, NEW c \in Calls, EnterLock(c) \/ ServeStep(c)
    PROVE  MapInv'
  <1> USE LaunchAssumption
          DEF IInv, OutcomeInv, MapInv, TypeOK, Claimed, Launching, Ran
  <1>1. CASE EnterLock(c)
    BY <1>1 DEF EnterLock, stored, task
  <1>2. CASE DecideMismatch(c)
    BY <1>2 DEF DecideMismatch, Answer, stored, task
  <1>3. CASE DecideJoin(c)
    BY <1>3 DEF DecideJoin, stored, task
  <1>4. CASE DecideUnknown(c)
    BY <1>4 DEF DecideUnknown, Answer, stored, task
  <1>5. CASE DecideReplay(c)
    BY <1>5 DEF DecideReplay, Answer, stored, task
  <1>6. CASE DecideRun(c)
    BY <1>6 DEF DecideRun, stored, task
  <1>7. CASE ReadStatusBefore(c)
    BY <1>7 DEF ReadStatusBefore, stored, task
  <1>8. CASE WriteClaim(c)
    BY <1>8 DEF WriteClaim, WriteRecords, stored, task
  <1>9. CASE ClaimFails(c)
    BY <1>9 DEF ClaimFails, Answer, stored, task
  <1>10. CASE LaunchRefused(c)
    BY <1>10 DEF LaunchRefused, stored, task
  <1>11. CASE LaunchWritesTurn(c)
    BY <1>11 DEF LaunchWritesTurn, stored, task
  <1>12. CASE LaunchFails(c)
    BY <1>12 DEF LaunchFails, stored, task
  <1>13. CASE LaunchSucceeds(c)
    BY <1>13 DEF LaunchSucceeds, stored, task
  <1>14. CASE CountTurnsAfter(c)
    BY <1>14 DEF CountTurnsAfter, stored, task
  <1>15. CASE SettleDone(c)
    BY <1>15 DEF SettleDone, SettleAs, WriteRecords, ReturnOutcome, Answer, stored, task
  <1>16. CASE SettleFailed(c)
    BY <1>16 DEF SettleFailed, SettleAs, WriteRecords, ReturnOutcome, Answer, stored, task
  <1>17. CASE SettleLost(c)
    BY <1>17 DEF SettleLost, ReturnOutcome, Answer, stored, task
  <1>18. CASE JoinReturns(c)
    BY <1>18 DEF JoinReturns, Answer, stored, task
  <1> QED
    BY <1>1, <1>2, <1>3, <1>4, <1>5, <1>6, <1>7, <1>8, <1>9, <1>10, <1>11, <1>12, <1>13, <1>14, <1>15, <1>16, <1>17, <1>18 DEF ServeStep

(* The answer of a call that has claimed names itself.                     *)
LEMMA OwnAnswer ==
    ASSUME IInv, NEW c \in Calls, EnterLock(c) \/ ServeStep(c),
           NEW o \in Calls, pc[o] \in Past
    PROVE  \/ answer'[o] = answer[o]
           \/ answer'[o].by = o
  <1> USE DEF IInv, TypeOK, Past, Claimed, Launching, Ran
  <1>1. CASE SettleDone(c) \/ SettleFailed(c) \/ SettleLost(c)
    <2>1. PICK kind \in {"ok", "error"} :
            answer' = [answer EXCEPT ![c] = [kind |-> kind, by |-> c]]
      BY <1>1 DEF SettleDone, SettleFailed, SettleLost, ReturnOutcome, Answer
    <2>2. CASE o = c
      <3>1. answer'[o] = [kind |-> kind, by |-> c]
        BY <2>1, <2>2
      <3> QED
        BY <2>2, <3>1
    <2>3. CASE o # c
      BY <2>1, <2>3
    <2> QED
      BY <2>2, <2>3
  <1>2. CASE ~(SettleDone(c) \/ SettleFailed(c) \/ SettleLost(c))
    BY <1>2
    DEF EnterLock, ServeStep, DecideMismatch, DecideJoin, DecideUnknown,
        DecideReplay, DecideRun, ReadStatusBefore, WriteClaim, ClaimFails,
        LaunchRefused, LaunchWritesTurn, LaunchFails, LaunchSucceeds,
        CountTurnsAfter, JoinReturns, Answer
  <1> QED
    BY <1>1, <1>2

LEMMA ServeWaitInv ==
    ASSUME IInv, OutcomeInv, NEW c \in Calls, EnterLock(c) \/ ServeStep(c)
    PROVE  WaitInv'
  <1> SUFFICES ASSUME NEW d \in Calls, pc'[d] = "joining"
               PROVE  LET o == seen'[d].joined
                      IN  /\ KeyOf[o] = KeyOf[d]
                          /\ KeyOf[d] \notin evicted' => PrintOf[o] = PrintOf[d]
                          /\ pc'[o] \in Past
                          /\ answer'[o].kind \in {"ok", "error"}
                               => answer'[o].by = o
    BY DEF WaitInv
  <1>1. Ahead
    BY ServeAhead
  <1>2. CASE DecideJoin(c) /\ d = c
    <2> DEFINE o == inFlight[KeyOf[c]]
    <2>1. /\ o # Nobody /\ SameRequest(c) /\ seen'[c].joined = o
          /\ UNCHANGED <<evicted, answer>>
      BY <1>2 DEF DecideJoin, stored, IInv, TypeOK
    <2>2. /\ o \in Calls /\ pc[o] \in Claimed /\ KeyOf[o] = KeyOf[c]
          /\ KeyOf[c] \in Keys
      BY <2>1, LaunchAssumption DEF IInv, TypeOK, OutcomeInv, MapInv
    <2>3. KeyOf[c] \notin evicted' => PrintOf[o] = PrintOf[c]
      BY <2>1, <2>2
      DEF IInv, FlightInv, OutcomeInv, RecordInv, SameRequest
    <2>4. answer'[o].kind = "none" /\ pc'[o] \in Past
      BY <1>1, <2>1, <2>2
      DEF OutcomeInv, CallInv, Ahead, Past, Claimed, Launching, Ran
    <2> QED
      BY <1>2, <2>1, <2>2, <2>3, <2>4
  <1>3. CASE ~(DecideJoin(c) /\ d = c)
    <2>1. pc[d] = "joining" /\ seen'[d].joined = seen[d].joined
      BY <1>3
      DEF EnterLock, ServeStep, DecideMismatch, DecideJoin, DecideUnknown,
          DecideReplay, DecideRun, ReadStatusBefore, WriteClaim, ClaimFails,
          LaunchRefused, LaunchWritesTurn, LaunchFails, LaunchSucceeds,
          CountTurnsAfter, SettleDone, SettleFailed, SettleLost,
          ReturnOutcome, JoinReturns, Answer, IInv, TypeOK
    <2>2. seen[d].joined \in Calls
      BY <2>1 DEF IInv, JoinInv
    <2> QED
      BY <1>1, <2>1, <2>2, OwnAnswer DEF OutcomeInv, WaitInv, Ahead
  <1> QED
    BY <1>2, <1>3

LEMMA ServeRetryInv ==
    ASSUME IInv, OutcomeInv, NEW c \in Calls, EnterLock(c) \/ ServeStep(c)
    PROVE  RetryInv'
  <1> SUFFICES ASSUME NEW d \in Calls, pc'[d] \in {"claiming", "writing"}
               PROVE  \/ records'[KeyOf[d]].state = "none"
                      \/ /\ records'[KeyOf[d]].state = "failed"
                         /\ ~records'[KeyOf[d]].wroteTurns
                         /\ d \notin FinalCalls
    BY DEF RetryInv
  <1> USE LaunchAssumption DEF IInv, TypeOK
  <1>1. CASE DecideRun(c)
    <2>1. UNCHANGED records /\ pc' = [pc EXCEPT ![c] = "claiming"]
      BY <1>1 DEF DecideRun, stored
    <2>2. CASE d = c
      BY <1>1, <2>1, <2>2 DEF DecideRun, Replayable, NoRecord
    <2>3. CASE d # c
      BY <2>1, <2>3 DEF OutcomeInv, RetryInv
    <2> QED
      BY <2>2, <2>3
  <1>2. CASE WriteClaim(c) \/ SettleDone(c) \/ SettleFailed(c)
    BY <1>2
    DEF WriteClaim, SettleDone, SettleFailed, SettleAs, ReturnOutcome, Answer,
        LockInv, Holding
  <1>3. CASE ~(DecideRun(c) \/ WriteClaim(c) \/ SettleDone(c) \/ SettleFailed(c))
    BY <1>3
    DEF EnterLock, ServeStep, DecideMismatch, DecideJoin, DecideUnknown,
        DecideReplay, ReadStatusBefore, ClaimFails, LaunchRefused,
        LaunchWritesTurn, LaunchFails, LaunchSucceeds, CountTurnsAfter,
        SettleLost, ReturnOutcome, JoinReturns, Answer, stored, OutcomeInv,
        RetryInv
  <1> QED
    BY <1>1, <1>2, <1>3

LEMMA ServeWriterInv ==
    ASSUME IInv, OutcomeInv, NEW c \in Calls, EnterLock(c) \/ ServeStep(c)
    PROVE  WriterInv'
  <1> SUFFICES ASSUME NEW w \in writers', KeyOf[w] \notin evicted',
                      ~seen'[w].busyBefore
               PROVE  /\ records'[KeyOf[w]].by = w
                      /\ \/ records'[KeyOf[w]].state \in {"launching", "done"}
                         \/ /\ records'[KeyOf[w]].state = "failed"
                            /\ records'[KeyOf[w]].wroteTurns
                      /\ pc'[w] = "counted" => seen'[w].wroteTurns
    BY DEF WriterInv
  <1> USE LaunchAssumption
  <1>1. Ahead /\ KeyOf[w] \notin evicted
    BY ServeAhead DEF Ahead
  <1>2. CASE w \notin writers
    <2>1. LaunchWritesTurn(c) /\ w = c
      BY <1>2
      DEF EnterLock, ServeStep, DecideMismatch, DecideJoin, DecideUnknown,
          DecideReplay, DecideRun, ReadStatusBefore, WriteClaim, ClaimFails,
          LaunchRefused, LaunchWritesTurn, LaunchFails, LaunchSucceeds,
          CountTurnsAfter, SettleDone, SettleFailed, SettleLost,
          ReturnOutcome, JoinReturns, task
    <2> QED
      BY <1>1, <2>1
      DEF LaunchWritesTurn, stored, IInv, TypeOK, FlightInv, Claimed, Launching
  <1>3. CASE w \in writers
    <2>1. w \in Calls /\ KeyOf[w] \in Keys /\ pc[w] \in Past \ {"launch"}
      BY <1>3 DEF IInv, TypeOK, OutcomeInv, CallInv
    <2>2. seen'[w].busyBefore = seen[w].busyBefore
      <3>1. CASE LaunchRefused(c)
        BY <2>1, <3>1 DEF LaunchRefused, IInv, TypeOK
      <3>2. CASE CountTurnsAfter(c)
        <4>1. PICK b \in BOOLEAN : seen' = [seen EXCEPT ![c].wroteTurns = b]
          BY <3>2 DEF CountTurnsAfter, WroteTurns
        <4> QED
          BY <2>1, <4>1 DEF IInv, TypeOK
      <3>3. CASE ~(LaunchRefused(c) \/ CountTurnsAfter(c))
        BY <2>1, <3>3
        DEF EnterLock, ServeStep, DecideMismatch, DecideJoin, DecideUnknown,
            DecideReplay, DecideRun, ReadStatusBefore, WriteClaim, ClaimFails,
            LaunchWritesTurn, LaunchFails, LaunchSucceeds, SettleDone,
            SettleFailed, SettleLost, ReturnOutcome, JoinReturns, Past,
            Claimed, Launching, Ran, IInv, TypeOK
      <3> QED
        BY <3>1, <3>2, <3>3
    <2>3. /\ records[KeyOf[w]].by = w
          /\ \/ records[KeyOf[w]].state \in {"launching", "done"}
             \/ records[KeyOf[w]].state = "failed" /\ records[KeyOf[w]].wroteTurns
          /\ pc[w] = "counted" => seen[w].wroteTurns
      BY <1>1, <1>3, <2>2 DEF OutcomeInv, WriterInv
    <2>4. pc'[w] = "counted" => seen'[w].wroteTurns
      <3>1. CASE CountTurnsAfter(c) /\ w = c
        <4>1. WroteTurns(c) /\ ~seen[c].taskBusy /\ ~seen[c].busyBefore
          BY <1>3, <2>2, <3>1 DEF WroteTurns, OutcomeInv, CallInv, IInv, TypeOK
        <4>2. seen' = [seen EXCEPT ![c].wroteTurns = TRUE]
          BY <3>1, <4>1 DEF CountTurnsAfter
        <4> QED
          BY <3>1, <4>2 DEF IInv, TypeOK
      <3>2. CASE ~(CountTurnsAfter(c) /\ w = c)
        BY <2>1, <2>3, <3>2
        DEF EnterLock, ServeStep, DecideMismatch, DecideJoin, DecideUnknown,
            DecideReplay, DecideRun, ReadStatusBefore, WriteClaim, ClaimFails,
            LaunchRefused, LaunchWritesTurn, LaunchFails, LaunchSucceeds,
            CountTurnsAfter, SettleDone, SettleFailed, SettleLost,
            ReturnOutcome, JoinReturns, Answer, Past, Claimed, Launching, Ran,
            IInv, TypeOK
      <3> QED
        BY <3>1, <3>2
    <2>5. ~(WriteClaim(c) /\ KeyOf[w] = KeyOf[c])
      BY <2>3 DEF WriteClaim, OutcomeInv, RetryInv
    <2>6. (SettleDone(c) \/ SettleFailed(c)) /\ KeyOf[w] = KeyOf[c] => w = c
      BY <1>1, <2>3
      DEF SettleDone, SettleFailed, IInv, FlightInv, Claimed, Ran
    <2>7. CASE records'[KeyOf[w]] = records[KeyOf[w]]
      BY <2>3, <2>4, <2>7
    <2>8. CASE SettleDone(c) /\ w = c /\ records'[KeyOf[w]].by = c
               /\ records'[KeyOf[w]].state = "done"
      BY <2>4, <2>8
    <2>9. CASE SettleFailed(c) /\ w = c /\ records'[KeyOf[w]].by = c
               /\ records'[KeyOf[w]].state = "failed"
               /\ records'[KeyOf[w]].wroteTurns = seen[c].wroteTurns
      BY <2>3, <2>4, <2>9 DEF SettleFailed
    <2> QED
      BY <1>1, <2>1, <2>5, <2>6, <2>7, <2>8, <2>9, WhatIsSaid
  <1> QED
    BY <1>2, <1>3

(* A call that succeeded does not fail any more.                           *)
Succeeded == {"succeeded", "answered", "lost"}

LEMMA SuccessStays ==
    ASSUME IInv, NEW c \in Calls, EnterLock(c) \/ ServeStep(c),
           NEW o \in Calls, pc[o] \in Succeeded
    PROVE  pc'[o] \in Succeeded
  BY DEF EnterLock, ServeStep, DecideMismatch, DecideJoin, DecideUnknown,
         DecideReplay, DecideRun, ReadStatusBefore, WriteClaim, ClaimFails,
         LaunchRefused, LaunchWritesTurn, LaunchFails, LaunchSucceeds,
         CountTurnsAfter, SettleDone, SettleFailed, SettleLost, ReturnOutcome,
         JoinReturns, Answer, Succeeded, IInv, TypeOK

(* What ResultInv says of a result given to d in the state that follows.   *)
LEMMA ServeResultInv ==
    ASSUME IInv, OutcomeInv, NEW c \in Calls, EnterLock(c) \/ ServeStep(c)
    PROVE  ResultInv'
  <1> DEFINE Of(d, o) == /\ o \in writers
                         /\ KeyOf[o] = KeyOf[d]
                         /\ PrintOf[o] = PrintOf[d]
                         /\ records[KeyOf[d]].by = o
                         /\ \/ records[KeyOf[d]].state = "done"
                            \/ /\ records[KeyOf[d]].state = "launching"
                               /\ pc[o] \in Succeeded
  <1> USE LaunchAssumption
  <1>1. ASSUME NEW d \in Calls, answer'[d].kind = "ok", KeyOf[d] \notin evicted'
        PROVE  Of(d, answer'[d].by)
    <2>1. KeyOf[d] \notin evicted /\ KeyOf[d] \in Keys
      BY <1>1, ServeAhead DEF Ahead
    <2>2. CASE answer'[d] = answer[d]
      BY <1>1, <2>1, <2>2 DEF OutcomeInv, ResultInv, Succeeded
    <2>3. CASE DecideReplay(c) /\ d = c
      <3>1. /\ SameRequest(c) /\ records[KeyOf[c]].state = "done"
            /\ answer'[c].by = records[KeyOf[c]].by
        BY <1>1, <2>3 DEF DecideReplay, Answer, IInv, TypeOK
      <3> QED
        BY <2>1, <2>3, <3>1 DEF OutcomeInv, RecordInv, SameRequest
    <2>4. ASSUME NEW o \in Calls, pc[o] = "succeeded", KeyOf[o] = KeyOf[d],
                 PrintOf[o] = PrintOf[d]
          PROVE  Of(d, o)
      BY <2>1, <2>4
      DEF IInv, FlightInv, OutcomeInv, CallInv, Claimed, Ran, Succeeded
    <2>5. CASE (SettleDone(c) \/ SettleLost(c)) /\ d = c
      <3>1. pc[c] = "succeeded" /\ answer'[c].by = c
        <4>1. /\ pc[c] \in {"succeeded", "counted"}
              /\ answer'[c] = [kind |-> IF pc[c] = "succeeded" THEN "ok" ELSE "error",
                               by |-> c]
          BY <2>5
          DEF SettleDone, SettleLost, ReturnOutcome, Answer, IInv, TypeOK
        <4> QED
          BY <1>1, <2>5, <4>1
      <3> QED
        BY <2>4, <2>5, <3>1
    <2>6. CASE JoinReturns(c) /\ d = c
      <3> DEFINE o == seen[c].joined
      <3>1. /\ pc[c] = "joining" /\ answer'[c].by = o
            /\ pc[o] = "succeeded" \/ answer[o].kind = "ok"
        BY <1>1, <2>6 DEF JoinReturns, Answer, IInv, TypeOK
      <3>2. /\ o \in Calls /\ KeyOf[o] = KeyOf[c] /\ PrintOf[o] = PrintOf[c]
            /\ answer[o].kind = "ok" => answer[o].by = o
        BY <2>1, <2>6, <3>1 DEF IInv, JoinInv, OutcomeInv, WaitInv
      <3>3. CASE pc[o] = "succeeded"
        BY <2>4, <2>6, <3>1, <3>2, <3>3
      <3>4. CASE answer[o].kind = "ok"
        BY <2>1, <2>6, <3>1, <3>2, <3>4 DEF OutcomeInv, ResultInv, Succeeded
      <3> QED
        BY <3>1, <3>3, <3>4
    <2>7. CASE SettleFailed(c) /\ d = c
      <3>1. answer'[c] = [kind |-> "error", by |-> c]
        BY <2>7 DEF SettleFailed, ReturnOutcome, Answer, IInv, TypeOK
      <3> QED
        BY <1>1, <2>7, <3>1
    <2>8. CASE (DecideMismatch(c) \/ DecideUnknown(c) \/ ClaimFails(c)) /\ d = c
      <3>1. answer'[c].kind # "ok"
        BY <2>8
        DEF DecideMismatch, DecideUnknown, ClaimFails, Answer, IInv, TypeOK
      <3> QED
        BY <1>1, <2>8, <3>1
    <2>9. \/ answer'[d] = answer[d]
          \/ /\ \/ DecideReplay(c) \/ SettleDone(c) \/ SettleLost(c)
                \/ JoinReturns(c) \/ SettleFailed(c) \/ DecideMismatch(c)
                \/ DecideUnknown(c) \/ ClaimFails(c)
             /\ d = c
      BY DEF EnterLock, ServeStep, DecideMismatch, DecideJoin, DecideUnknown,
             DecideRun, ReadStatusBefore, WriteClaim, ClaimFails,
             LaunchRefused, LaunchWritesTurn, LaunchFails, LaunchSucceeds,
             CountTurnsAfter, SettleDone, SettleFailed, SettleLost,
             ReturnOutcome, JoinReturns, DecideReplay, Answer, IInv, TypeOK
    <2> QED
      BY <2>2, <2>3, <2>5, <2>6, <2>7, <2>8, <2>9
  <1>2. ASSUME NEW d \in Calls, NEW o, Of(d, o), KeyOf[d] \notin evicted'
        PROVE  Of(d, o)'
    <2>1. KeyOf[d] \in Keys /\ KeyOf[d] \notin evicted /\ o \in Calls
      BY <1>2, ServeAhead DEF Ahead, IInv, TypeOK
    <2>2. o \in writers' /\ (pc[o] \in Succeeded => pc'[o] \in Succeeded)
      BY <1>2, <2>1, ServeAhead, SuccessStays DEF Ahead
    <2>3. ~(WriteClaim(c) /\ KeyOf[d] = KeyOf[c])
      BY <1>2 DEF WriteClaim, OutcomeInv, RetryInv
    <2>4. SettleDone(c) /\ KeyOf[d] = KeyOf[c] => o = c
      BY <1>2, <2>1 DEF SettleDone, IInv, FlightInv, Claimed, Ran
    <2>5. ~(SettleFailed(c) /\ KeyOf[d] = KeyOf[c])
      BY <1>2, <2>1
      DEF SettleFailed, IInv, FlightInv, Claimed, Ran, Succeeded
    <2>6. CASE records'[KeyOf[d]] = records[KeyOf[d]]
      BY <1>2, <2>2, <2>6
    <2>7. CASE o = c /\ records'[KeyOf[d]].by = c
               /\ records'[KeyOf[d]].state = "done"
      BY <1>2, <2>2, <2>7
    <2> QED
      BY <1>2, <2>1, <2>3, <2>4, <2>5, <2>6, <2>7, WhatIsSaid
  <1> QED
    BY <1>1, <1>2 DEF ResultInv, Succeeded

(* Only a claim makes a call one that ran: a replay and a join name others. *)
LEMMA RanStays ==
    ASSUME IInv, OutcomeInv, NEW c \in Calls, EnterLock(c) \/ ServeStep(c),
           NEW d \in Calls, RanItself(d)', KeyOf[d] \notin evicted'
    PROVE  RanItself(d) \/ (WriteClaim(c) /\ d = c)
  <1> USE LaunchAssumption
  <1>1. KeyOf[d] \notin evicted /\ KeyOf[d] \in Keys
    BY ServeAhead DEF Ahead
  <1>2. CASE pc'[d] \in Claimed
    BY <1>2
    DEF EnterLock, ServeStep, DecideMismatch, DecideJoin, DecideUnknown,
        DecideReplay, DecideRun, ReadStatusBefore, WriteClaim, ClaimFails,
        LaunchRefused, LaunchWritesTurn, LaunchFails, LaunchSucceeds,
        CountTurnsAfter, SettleDone, SettleFailed, SettleLost, ReturnOutcome,
        JoinReturns, Answer, RanItself, Claimed, Launching, Ran, IInv, TypeOK
  <1>3. ASSUME answer'[d].kind \in {"ok", "error"}, answer'[d].by = d
        PROVE  RanItself(d)
    <2>1. CASE answer'[d] = answer[d]
      BY <1>3, <2>1 DEF RanItself
    <2>2. CASE pc[d] \in Ran
      BY <2>2 DEF RanItself, Claimed
    <2>3. CASE DecideReplay(c) /\ d = c
      <3>1. /\ pc[c] = "deciding" /\ SameRequest(c)
            /\ answer'[c].by = records[KeyOf[c]].by
        BY <2>3 DEF DecideReplay, Answer, IInv, TypeOK
      <3>2. records[KeyOf[c]].state # "none"
        BY <1>1, <2>3 DEF DecideReplay, Replayable
      <3>3. pc[c] \in Past
        BY <1>1, <1>3, <2>3, <3>1, <3>2 DEF OutcomeInv, RecordInv
      <3> QED
        BY <3>1, <3>3 DEF Past, Claimed, Launching, Ran
    <2>4. CASE JoinReturns(c) /\ d = c
      <3>1. pc[c] = "joining" /\ answer'[c].by = seen[c].joined
        BY <2>4 DEF JoinReturns, Answer, IInv, TypeOK
      <3>2. pc[c] \in Past
        BY <1>3, <2>4, <3>1 DEF OutcomeInv, WaitInv
      <3> QED
        BY <3>1, <3>2 DEF Past, Claimed, Launching, Ran
    <2>5. CASE (DecideMismatch(c) \/ DecideUnknown(c) \/ ClaimFails(c)) /\ d = c
      <3>1. answer'[c].kind \notin {"ok", "error"}
        BY <2>5
        DEF DecideMismatch, DecideUnknown, ClaimFails, Answer, IInv, TypeOK
      <3> QED
        BY <1>3, <2>5, <3>1
    <2>6. \/ answer'[d] = answer[d]
          \/ pc[d] \in Ran
          \/ /\ \/ DecideReplay(c) \/ JoinReturns(c) \/ DecideMismatch(c)
                \/ DecideUnknown(c) \/ ClaimFails(c)
             /\ d = c
      BY DEF EnterLock, ServeStep, DecideMismatch, DecideJoin, DecideUnknown,
             DecideRun, ReadStatusBefore, WriteClaim, ClaimFails,
             LaunchRefused, LaunchWritesTurn, LaunchFails, LaunchSucceeds,
             CountTurnsAfter, SettleDone, SettleFailed, SettleLost,
             ReturnOutcome, JoinReturns, DecideReplay, Answer, Ran, IInv,
             TypeOK
    <2> QED
      BY <2>1, <2>2, <2>3, <2>4, <2>5, <2>6
  <1> QED
    BY <1>2, <1>3 DEF RanItself

LEMMA ServeFinalInv ==
    ASSUME IInv, OutcomeInv, NEW c \in Calls, EnterLock(c) \/ ServeStep(c)
    PROVE  FinalInv'
  <1> USE LaunchAssumption
  <1>1. ASSUME NEW d \in FinalCalls, RanItself(d)', KeyOf[d] \notin evicted'
        PROVE  records'[KeyOf[d]].state # "none"
    <2>1. KeyOf[d] \in Keys /\ KeyOf[d] \notin evicted /\ d \in Calls
      BY <1>1, ServeAhead DEF Ahead
    <2>2. CASE WriteClaim(c) /\ d = c
      <3>1. pc'[c] \in Claimed
        BY <2>2 DEF WriteClaim, IInv, TypeOK, Claimed, Launching
      <3> QED
        BY <1>1, <2>1, <2>2, <3>1, ServeInv DEF FlightInv
    <2>3. CASE RanItself(d)
      <3>1. records[KeyOf[d]].state # "none"
        BY <2>1, <2>3 DEF OutcomeInv, FinalInv
      <3> QED
        BY <1>1, <2>1, <3>1, WhatIsSaid
    <2> QED
      BY <1>1, <2>1, <2>2, <2>3, RanStays
  <1>2. ASSUME NEW d \in FinalCalls, NEW e \in FinalCalls, d # e,
               KeyOf[d] = KeyOf[e], RanItself(d)', RanItself(e)',
               KeyOf[d] \notin evicted'
        PROVE  FALSE
    <2>1. d \in Calls /\ e \in Calls /\ KeyOf[d] \notin evicted
      BY <1>2, ServeAhead DEF Ahead
    <2>2. /\ RanItself(d) \/ (WriteClaim(c) /\ d = c)
          /\ RanItself(e) \/ (WriteClaim(c) /\ e = c)
      BY <1>2, <2>1, RanStays
    <2>3. ~(RanItself(d) /\ RanItself(e))
      BY <1>2, <2>1 DEF OutcomeInv, FinalInv, FinalCallsRunOnce
    <2>4. PICK o \in {d, e} : RanItself(o) /\ WriteClaim(c) /\ c \in {d, e}
      BY <1>2, <2>2, <2>3
    <2>5. records[KeyOf[d]].state # "none"
      BY <1>2, <2>1, <2>4 DEF OutcomeInv, FinalInv
    <2>6. records[KeyOf[d]].state = "none"
      BY <1>2, <2>1, <2>4 DEF WriteClaim, OutcomeInv, RetryInv
    <2> QED
      BY <2>5, <2>6
  <1> QED
    BY <1>1, <1>2 DEF FinalInv, FinalCallsRunOnce

LEMMA OutcomeNext == IInv /\ OutcomeInv /\ [Next]_vars => OutcomeInv'
  <1> SUFFICES ASSUME IInv, OutcomeInv, [Next]_vars PROVE OutcomeInv'
    OBVIOUS
  <1>1. ASSUME NEW c \in Calls, EnterLock(c) \/ ServeStep(c) PROVE OutcomeInv'
    BY <1>1, ServeRecordInv, ServeCallInv, ServeMapInv, ServeWaitInv,
       ServeRetryInv, ServeWriterInv, ServeResultInv, ServeFinalInv
    DEF OutcomeInv
  <1>2. CASE TurnEnds \/ OtherTurn
    <2>1. /\ UNCHANGED <<records, inFlight, pc, seen, answer, writers, evicted>>
          /\ turns <= turns' /\ turns \in Nat /\ turns' \in Nat
      BY <1>2 DEF TurnEnds, OtherTurn, stored, IInv, TypeOK
    <2>2. CallInv'
      BY <2>1 DEF OutcomeInv, CallInv, IInv, TypeOK
    <2> QED
      BY <2>1, <2>2
      DEF OutcomeInv, RecordInv, MapInv, WaitInv, RetryInv, WriterInv,
          ResultInv, FinalInv, FinalCallsRunOnce, RanItself
  <1>3. CASE Crash
    <2>1. /\ records' = records /\ seen' = seen /\ answer' = answer
          /\ writers' = writers /\ evicted' = evicted /\ turns' = turns
          /\ inFlight' = [k \in Keys |-> Nobody]
          /\ pc' = [c \in Calls |-> IF pc[c] \in {"new", "answered", "lost"}
                                    THEN pc[c] ELSE "lost"]
      BY <1>3 DEF Crash, stored, task
    <2>2. RecordInv'
      <3> SUFFICES ASSUME NEW k \in Keys, k \notin evicted,
                          records[k].state # "none"
                   PROVE  /\ KeyOf[records[k].by] = k
                          /\ PrintOf[records[k].by] = records[k].print
                          /\ pc'[records[k].by] \in Past
                          /\ records[k].state = "done" => records[k].by \in writers
        BY <2>1 DEF RecordInv
      <3>1. records[k].by \in Calls
        BY DEF IInv, TypeOK, Record, NoRecord
      <3> QED
        BY <2>1, <3>1
        DEF OutcomeInv, RecordInv, Past, Claimed, Launching, Ran
    <2>3. CallInv'
      BY <2>1
      DEF OutcomeInv, CallInv, Past, IInv, TypeOK, Claimed, Launching, Ran
    <2>4. MapInv' /\ WaitInv' /\ RetryInv'
      BY <2>1 DEF MapInv, WaitInv, RetryInv
    <2>5. WriterInv'
      <3>1. \A c \in Calls : pc'[c] # "counted"
        BY <2>1
      <3> QED
        BY <2>1, <3>1 DEF OutcomeInv, WriterInv, IInv, TypeOK
    <2>6. ResultInv'
      <3> SUFFICES ASSUME NEW c \in Calls, answer[c].kind = "ok",
                          KeyOf[c] \notin evicted,
                          pc[answer[c].by] \in {"succeeded", "answered", "lost"},
                          answer[c].by \in writers
                   PROVE  pc'[answer[c].by] \in {"succeeded", "answered", "lost"}
        BY <2>1 DEF OutcomeInv, ResultInv
      <3> QED
        BY <2>1 DEF IInv, TypeOK
    <2>7. FinalInv'
      <3>1. \A c \in Calls : RanItself(c)' => RanItself(c)
        BY <2>1 DEF RanItself, Claimed, Launching, Ran
      <3> QED
        BY <2>1, <3>1, LaunchAssumption
        DEF OutcomeInv, FinalInv, FinalCallsRunOnce
    <2> QED
      BY <2>2, <2>3, <2>4, <2>5, <2>6, <2>7 DEF OutcomeInv
  <1>4. CASE UNCHANGED vars
    BY <1>4
    DEF vars, OutcomeInv, RecordInv, CallInv, MapInv, WaitInv, RetryInv,
        WriterInv, ResultInv, FinalInv, FinalCallsRunOnce, RanItself
  <1> QED
    BY <1>1, <1>2, <1>3, <1>4 DEF Next, AllServed

LEMMA OutcomeHolds == Spec => [](IInv /\ OutcomeInv)
  BY InitInv, NextInv, OutcomeInit, OutcomeNext, PTL DEF Spec

(* For any number of calls, keys, records, turns and crashes: two launches *)
(* of one key both record a turn only when the record was dropped at the   *)
(* bound or one of them claimed while the task was busy, which is the one  *)
(* case in which settle does not trust its count of turns.                 *)
THEOREM TwoTurns == Spec => []TwoTurnsOnlyAfterBusyClaim
  <1>1. IInv /\ OutcomeInv => TwoTurnsOnlyAfterBusyClaim
    BY DEF IInv, OutcomeInv, WriterInv, TwoTurnsOnlyAfterBusyClaim
  <1> QED
    BY <1>1, OutcomeHolds, PTL

(* Every result that a call of a key was answered, by its own launch, by a *)
(* join or by a replay of the record, is that of one launch of the same    *)
(* request, which recorded its turn; restarts of the daemon included.      *)
THEOREM OneResult == Spec => []AnswersAgree
  <1>1. IInv /\ OutcomeInv => AnswersAgree
    BY DEF OutcomeInv, ResultInv, AnswersAgree
  <1> QED
    BY <1>1, OutcomeHolds, PTL

(* A launch with failuresAreFinal, whose question is posted before it can  *)
(* fail, runs at most once under its key.                                  *)
THEOREM FinalOnce == Spec => []FinalCallsRunOnce
  <1>1. OutcomeInv => FinalCallsRunOnce
    BY DEF OutcomeInv, FinalInv
  <1> QED
    BY <1>1, OutcomeHolds, PTL

(* No step rewrites a recorded result that stays within the bound: neither *)
(* the late settle of another launch nor a new claim of the key.           *)
THEOREM ResultsStand == Spec => DoneIsFinal
  <1>1. ASSUME IInv, [Next]_vars, NEW k \in Keys, records[k].state = "done",
               k \notin evicted'
        PROVE  records'[k] = records[k]
    <2>1. CASE \E c \in Calls : EnterLock(c) \/ ServeStep(c)
      BY <1>1, <2>1, DoneStays
    <2>2. CASE TurnEnds \/ OtherTurn \/ Crash \/ AllServed \/ UNCHANGED vars
      BY <2>2 DEF TurnEnds, OtherTurn, Crash, AllServed, vars, stored
    <2> QED
      BY <1>1, <2>1, <2>2 DEF Next
  <1>2. IInv /\ [Next]_vars =>
           [\A k \in Keys : records[k].state = "done" /\ k \notin evicted' =>
               records'[k] = records[k]]_vars
    BY <1>1
  <1> QED
    BY <1>2, InitInv, NextInv, PTL DEF Spec, DoneIsFinal
=============================================================================
