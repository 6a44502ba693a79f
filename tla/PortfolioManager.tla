-------------------------- MODULE PortfolioManager ---------------------------
(***************************************************************************)
(* src/portfolio_manager/manager.py: one ledger behind one lock.  A call   *)
(* whose idempotency key is spent returns without effect; any other checks *)
(* its precondition, appends its event and applies it.  The ledger is      *)
(* rebuilt from its events after a crash, so nothing here is volatile.     *)
(***************************************************************************)
EXTENDS PortfolioLedger, FiniteSets

CONSTANTS RequestId,  \* request, leg, fee and funding ids
          Amount,     \* amounts a caller may pass
          Gain,       \* realized results and funding payments, of either sign
          MaxCalls    \* bound: calls that have an effect

ASSUME AmountAssumption ==
    /\ Amount \subseteq Nat \ {0}
    /\ Gain \subseteq Int
    /\ MaxCalls \in Nat
    /\ \A x \in Amount \cup Gain : Fits(x)

VARIABLES book,   \* the ledger
          keys,   \* idempotency keys already in the event store
          exact   \* history: no sum has been rounded so far

vars == <<book, keys, exact>>

Init ==
    /\ book = EmptyBook
    /\ keys = {}
    /\ exact = TRUE

(* _get_cached, then _persist and _apply_event: the event and its key      *)
(* become durable together.                                                *)
Apply(key, b) ==
    /\ key \notin keys
    /\ Cardinality(keys) < MaxCalls
    /\ keys' = keys \cup {key}
    /\ book' = b
    /\ exact' = (exact /\ InRange(b))

Deposit(amount, r) == Apply(<<"deposit", r>>, Deposited(book, amount))

Withdraw(amount, r) ==
    /\ amount <= book.cash
    /\ Apply(<<"withdraw", r>>, Withdrawn(book, amount))

ReserveMargin(p, amount, r) ==
    /\ amount <= book.cash
    /\ Apply(<<"reserve_margin", p, r>>, Reserved(book, p, amount))

AllocateMargin(p, amount, r) ==
    /\ amount <= book.reservedBy[p]
    /\ Apply(<<"allocate_margin", p, r>>, Allocated(book, p, amount))

ReleaseMargin(p, r) ==
    /\ p \notin book.released
    /\ Apply(<<"release_margin", p, r>>, Released(book, p))

(* The key names the leg, the funding payment or the fee, not the request. *)
ApplyRealizedPnl(p, leg, amount) ==
    Apply(<<"realized_pnl", p, leg>>, Realized(book, amount))

ApplyFunding(p, id, amount) ==
    Apply(<<"funding", p, id>>, Funded(book, amount))

ApplyFee(p, id, amount) ==
    Apply(<<"fee", p, id>>, Charged(book, amount))

UpdateMarks(upnl, exposure, r) ==
    Apply(<<"update_marks", r>>, Marked(book, upnl, exposure))

Next ==
    \E r \in RequestId :
        \/ \E amount \in Amount :
              \/ Deposit(amount, r)
              \/ Withdraw(amount, r)
              \/ \E p \in Position :
                    \/ ReserveMargin(p, amount, r)
                    \/ AllocateMargin(p, amount, r)
                    \/ ApplyFee(p, r, amount)
              \/ \E gain \in Gain : UpdateMarks(gain, amount, r)
        \/ \E p \in Position :
              \/ ReleaseMargin(p, r)
              \/ \E gain \in Gain :
                    \/ ApplyRealizedPnl(p, r, gain)
                    \/ ApplyFunding(p, r, gain)

Spec == Init /\ [][Next]_vars

-----------------------------------------------------------------------------
(* Every variable has its type. *)
TypeOK ==
    /\ book \in [cash : Int, reserved : Int, used : Int, upnl : Int, exposure : Int,
                 realized : Int, funding : Int, fees : Int, deposits : Int,
                 withdrawals : Int,
                 reservedBy : [Position -> Int], usedBy : [Position -> Int],
                 open : SUBSET Position, released : SUBSET Position]
    /\ exact \in BOOLEAN

(* Assets == Equity after every event: when it is not, _assert_invariant   *)
(* raises with the event already durable, and raises again in every        *)
(* replay, so the engine does not start any more.                          *)
AssetsIsEquity == Assets(book) = Equity(book)

(* It holds as long as no sum had to be rounded.                           *)
BalancedIfExact == exact => AssetsIsEquity
=============================================================================
