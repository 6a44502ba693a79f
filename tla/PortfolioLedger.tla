--------------------------- MODULE PortfolioLedger ---------------------------
(***************************************************************************)
(* The effect of every portfolio event on the ledger, as                   *)
(* src/portfolio_manager/manager.py's _apply_event computes it, and the    *)
(* two sums snapshot.py derives from it.                                   *)
(*                                                                         *)
(* Amounts are decimals of limited precision: a sum that does not fit is   *)
(* rounded, half to even, as Python's decimal module does.  In the model   *)
(* an amount is a whole number of the smallest unit in use; numbers below  *)
(* Exact fit, and larger ones lose their last digit.                       *)
(***************************************************************************)
EXTENDS Integers

CONSTANTS Position,  \* position ids
          Exact      \* numbers smaller than this are represented exactly

ASSUME ExactAssumption == Exact \in Nat \ {0} /\ Exact % 10 = 0

HalfEven(x) ==
    LET q == x \div 10
        r == x % 10
    IN  IF r < 5 \/ (r = 5 /\ q % 2 = 0) THEN 10 * q ELSE 10 * (q + 1)

Fits(x) == - Exact < x /\ x < Exact

Round(x) ==
    IF Fits(x) THEN x ELSE IF x >= 0 THEN HalfEven(x) ELSE - HalfEven(- x)

Plus(a, b) == Round(a + b)
Minus(a, b) == Round(a - b)

EmptyBook ==
    [cash |-> 0, reserved |-> 0, used |-> 0, upnl |-> 0, exposure |-> 0,
     realized |-> 0, funding |-> 0, fees |-> 0, deposits |-> 0, withdrawals |-> 0,
     reservedBy |-> [p \in Position |-> 0], usedBy |-> [p \in Position |-> 0],
     open |-> {}, released |-> {}]

-----------------------------------------------------------------------------
(* One operator per kind of event. *)

Deposited(b, amount) ==
    [b EXCEPT !.cash = Plus(@, amount), !.deposits = Plus(@, amount)]

Withdrawn(b, amount) ==
    [b EXCEPT !.cash = Minus(@, amount), !.withdrawals = Plus(@, amount)]

Reserved(b, p, amount) ==
    [b EXCEPT !.cash = Minus(@, amount), !.reserved = Plus(@, amount),
              !.reservedBy[p] = Plus(@, amount)]

Allocated(b, p, amount) ==
    [b EXCEPT !.reserved = Minus(@, amount), !.used = Plus(@, amount),
              !.reservedBy[p] = Minus(@, amount), !.usedBy[p] = Plus(@, amount),
              !.open = @ \cup {p}]

Released(b, p) ==
    [b EXCEPT !.reserved = Minus(@, b.reservedBy[p]), !.used = Minus(@, b.usedBy[p]),
              !.cash = Plus(@, Plus(b.reservedBy[p], b.usedBy[p])),
              !.reservedBy[p] = 0, !.usedBy[p] = 0,
              !.released = @ \cup {p}, !.open = @ \ {p}]

Realized(b, amount) ==
    [b EXCEPT !.cash = Plus(@, amount), !.realized = Plus(@, amount)]

Funded(b, amount) ==
    [b EXCEPT !.cash = Plus(@, amount), !.funding = Plus(@, amount)]

(* Slip: a fee is counted but not paid. *)
ChargedUnpaid(b, amount) == [b EXCEPT !.fees = Plus(@, amount)]

Charged(b, amount) ==
    [b EXCEPT !.cash = Minus(@, amount), !.fees = Plus(@, amount)]

Marked(b, upnl, exposure) ==
    [b EXCEPT !.upnl = upnl, !.exposure = exposure]

-----------------------------------------------------------------------------
(* snapshot.py: two sums over different fields that have to agree.         *)

Assets(b) == Plus(Plus(Plus(b.cash, b.reserved), b.used), b.upnl)

WalletBalance(b) ==
    Minus(Plus(Plus(Minus(b.deposits, b.withdrawals), b.realized), b.funding), b.fees)

Equity(b) == Plus(WalletBalance(b), b.upnl)

(* No number of the book, and no partial sum of the two, needed rounding. *)
InRange(b) ==
    /\ \A x \in {b.cash, b.reserved, b.used, b.realized, b.funding, b.fees,
                 b.deposits, b.withdrawals} : Fits(x)
    /\ \A p \in Position : /\ Fits(b.reservedBy[p]) /\ Fits(b.usedBy[p])
                           /\ Fits(b.reservedBy[p] + b.usedBy[p])
    /\ Fits(b.cash + b.reserved)
    /\ Fits(b.cash + b.reserved + b.used)
    /\ Fits(b.cash + b.reserved + b.used + b.upnl)
    /\ Fits(b.deposits - b.withdrawals)
    /\ Fits(b.deposits - b.withdrawals + b.realized)
    /\ Fits(b.deposits - b.withdrawals + b.realized + b.funding)
=============================================================================
