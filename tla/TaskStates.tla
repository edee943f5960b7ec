----------------------------- MODULE TaskStates -----------------------------
(***************************************************************************)
(* The task state machine (src/task-state-machine.ts): the statuses of a   *)
(* task, their classes, and the table every status write is checked with.  *)
(***************************************************************************)

Statuses == {"backlog", "working", "blocked", "conflict", "interrupted",
             "submitted", "pairing", "merging", "zombie", "complete",
             "abandoned"}

TerminalStatuses == {"complete", "abandoned"}

(* isBlockedStatus: the task waits for a person or an agent. *)
BlockedStatuses == {"blocked", "conflict", "submitted"}

ValidTransitions ==
    [backlog     |-> {"working", "blocked", "abandoned"},
     working     |-> {"blocked", "conflict", "interrupted", "merging",
                      "submitted"},
     blocked     |-> {"working", "conflict", "submitted", "merging",
                      "pairing", "abandoned", "backlog"},
     conflict    |-> {"working", "blocked", "submitted", "merging",
                      "pairing", "abandoned"},
     interrupted |-> {"working", "merging", "pairing", "abandoned"},
     submitted   |-> {"working", "merging", "pairing", "abandoned",
                      "blocked"},
     pairing     |-> {"blocked", "conflict"},
     merging     |-> {"complete", "blocked", "conflict", "submitted"},
     zombie      |-> {"complete"},
     complete    |-> {"blocked", "backlog"},
     abandoned   |-> {"blocked", "backlog"}]

(* Mutant of CanTransition: a merging task may be abandoned. *)
AbandonsMidMerge(from, to) ==
    \/ from = to
    \/ to \in ValidTransitions[from]
    \/ from = "merging" /\ to = "abandoned"

(* assertValidTransition, for every target but "zombie" (which only the    *)
(* system writes): a repeated status is a no-op, the rest is the table.    *)
CanTransition(from, to) == from = to \/ to \in ValidTransitions[from]
=============================================================================
