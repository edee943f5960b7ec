--------------------------- MODULE AcceptOutcome ---------------------------
(***************************************************************************)
(* What a task's review promises: its work lands at most once and while no *)
(* one has rejected it, "accepted" is said only of landed work, "rejected" *)
(* only of work that has not landed, and what was said stands.             *)
(***************************************************************************)
VARIABLES
    verdict,  \* "open", "accepted" or "rejected"
    landed    \* the task's work is on its target

vars == <<verdict, landed>>

Init == verdict = "open" /\ landed = FALSE

Lands ==
    /\ ~landed
    /\ verdict = "open"
    /\ landed' = TRUE
    /\ UNCHANGED verdict

Accepted ==
    /\ verdict = "open"
    /\ landed
    /\ verdict' = "accepted"
    /\ UNCHANGED landed

Rejected ==
    /\ verdict = "open"
    /\ ~landed
    /\ verdict' = "rejected"
    /\ UNCHANGED landed

Next == Lands \/ Accepted \/ Rejected

Spec == Init /\ [][Next]_vars
=============================================================================
