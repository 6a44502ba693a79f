-------------------------- MODULE PositionLifecycle --------------------------
(***************************************************************************)
(* The position lifecycle table of src/position_manager/states.py, and the *)
(* effect of each event on a position, as manager.py's _apply_event        *)
(* computes it.  A fill is one unit; prices are whole numbers.  cost is    *)
(* the sum of the entry prices: the average entry price is cost / filled.  *)
(***************************************************************************)
EXTENDS Integers

PosEdge(from, trigger, to) == [from |-> from, trigger |-> trigger, to |-> to]

PosEdges == {
    PosEdge("NEW", "FIRST_FILL", "OPEN"),
    PosEdge("OPEN", "ENTRY_PARTIAL", "PARTIALLY_FILLED"),
    PosEdge("OPEN", "ENTRY_COMPLETE", "FULLY_FILLED"),
    PosEdge("PARTIALLY_FILLED", "ENTRY_PARTIAL", "PARTIALLY_FILLED"),
    PosEdge("PARTIALLY_FILLED", "ENTRY_COMPLETE", "FULLY_FILLED"),
    PosEdge("PARTIALLY_FILLED", "CLOSE", "CLOSED"),
    PosEdge("PARTIALLY_FILLED", "STOP", "STOP_TRIGGERED"),
    PosEdge("FULLY_FILLED", "T1", "T1_REACHED"),
    PosEdge("FULLY_FILLED", "STOP", "STOP_TRIGGERED"),
    PosEdge("FULLY_FILLED", "CLOSE", "CLOSED"),
    PosEdge("T1_REACHED", "BREAKEVEN", "BREAKEVEN_ACTIVE"),
    PosEdge("BREAKEVEN_ACTIVE", "T2", "T2_REACHED"),
    PosEdge("BREAKEVEN_ACTIVE", "STOP", "STOP_TRIGGERED"),
    PosEdge("BREAKEVEN_ACTIVE", "CLOSE", "CLOSED"),
    PosEdge("T2_REACHED", "COMPLETE_CLOSE", "CLOSED"),
    PosEdge("STOP_TRIGGERED", "COMPLETE_CLOSE", "CLOSED"),
    PosEdge("CLOSED", "ARCHIVE", "ARCHIVED")}

IsLegalPos(from, trigger) ==
    \E e \in PosEdges : e.from = from /\ e.trigger = trigger

NextPosState(from, trigger) ==
    (CHOOSE e \in PosEdges : e.from = from /\ e.trigger = trigger).to

Rank(s) ==
    CASE s = "NEW" -> 0 [] s = "OPEN" -> 1 [] s = "PARTIALLY_FILLED" -> 2
      [] s = "FULLY_FILLED" -> 3 [] s = "T1_REACHED" -> 4
      [] s = "BREAKEVEN_ACTIVE" -> 5 [] s \in {"T2_REACHED", "STOP_TRIGGERED"} -> 6
      [] s = "CLOSED" -> 7 [] s = "ARCHIVED" -> 8

(* _try_transition: an illegal trigger that the position has moved past is *)
(* stale and ignored; any other illegal trigger raises.                    *)
IsStale(from, trigger) ==
    /\ ~ IsLegalPos(from, trigger)
    /\ \/ from = "ARCHIVED"
       \/ \E e \in PosEdges : e.trigger = trigger /\ Rank(e.to) <= Rank(from)

-----------------------------------------------------------------------------
NewPosition(intended) ==
    [st |-> "NEW", intended |-> intended, filled |-> 0, remaining |-> 0, cost |-> 0,
     entries |-> {}, exits |-> {}, funding |-> {}]

Moved(p, trigger) == [p EXCEPT !.st = NextPosState(@, trigger)]

(* ENTRY_FILL events: the first opens the position and carries no          *)
(* quantity; the second carries the fill.                                  *)
Opened(p) == Moved(p, "FIRST_FILL")

TakesEntry(p) == p.st \in {"NEW", "OPEN", "PARTIALLY_FILLED"}

Entered(p, fill, price) ==
    [Moved(p, IF p.filled + 1 >= p.intended THEN "ENTRY_COMPLETE" ELSE "ENTRY_PARTIAL")
       EXCEPT !.filled = @ + 1, !.remaining = p.filled + 1,
              !.cost = @ + price, !.entries = @ \cup {fill}]

Exited(p, fill, trigger) ==
    [Moved(p, trigger) EXCEPT !.remaining = @ - 1, !.exits = @ \cup {fill}]

(* FUNDING: the total is the sum of the payments on record. *)
FundingPaid(p, payment) == [p EXCEPT !.funding = @ \cup {payment}]
=============================================================================
