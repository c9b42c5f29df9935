------------------------------ MODULE MCLadder ------------------------------
(***************************************************************************)
(* Ladder with the thresholds of the code, and a bound on the reports.     *)
(***************************************************************************)
EXTENDS Ladder

CONSTANT MaxReports    \* counted reports of one memory

BoundedReport(m, ok) == board[m] # NoRow /\ board[m].n < MaxReports /\ Report(m, ok)

MCNext == \E m \in Memories : Enter(m) \/ \E ok \in BOOLEAN : BoundedReport(m, ok)

MCSpec == Init /\ [][MCNext]_board
=============================================================================
