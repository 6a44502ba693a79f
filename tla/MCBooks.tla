------------------------------- MODULE MCBooks -------------------------------
(* The two books on small instances: the portfolio ledger and the record   *)
(* of one position, four fills of it (a partial entry, a T1, a T2 and one  *)
(* to spare).  They share no state; a behaviour keeps one of them, chosen  *)
(* at the start.                                                           *)
EXTENDS PortfolioManager, PositionManager, TLC

VARIABLE kept

Gains == {-5, 5}
Symmetry == Permutations(Position) \cup Permutations(RequestId) \cup Permutations(Fill)

BooksInit == kept \in {"ledger", "positions"} /\ Init /\ PosInit

BooksNext ==
    /\ UNCHANGED kept
    /\ \/ kept = "ledger" /\ Next /\ UNCHANGED posVars
       \/ kept = "positions" /\ PosNext /\ UNCHANGED vars

BooksSpec == BooksInit /\ [][BooksNext]_<<kept, vars, posVars>>
=============================================================================
