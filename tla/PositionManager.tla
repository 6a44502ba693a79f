--------------------------- MODULE PositionManager ---------------------------
(***************************************************************************)
(* src/position_manager/manager.py: the record of each position, one       *)
(* durable event per change.  The first entry fill is two events, and the  *)
(* process may die between them; the fill then comes again, or another     *)
(* fill comes first.  Fills are repeated and reordered by their source.    *)
(***************************************************************************)
EXTENDS PositionLifecycle, FiniteSets

CONSTANTS PositionId,  \* position ids
          Fill,        \* fill ids
          Payment,     \* funding ids
          MaxQty,      \* bound: units a position may intend
          MaxPrice,    \* bound: prices are 1..MaxPrice
          MaxCrashes   \* bound: crashes

VARIABLES pos,      \* pos[p]: the durable record of p, once created
          created,  \* positions that exist
          ignored,  \* ignored[p]: fills dropped as stale, in memory only
          opening,  \* opening[p]: the fill whose second event is due, or none
          crashes

posVars == <<pos, created, ignored, opening, crashes>>

None == "none"

PosInit ==
    /\ pos = [p \in PositionId |-> NewPosition(0)]
    /\ created = {}
    /\ ignored = [p \in PositionId |-> {}]
    /\ opening = [p \in PositionId |-> None]
    /\ crashes = 0

(* Slip: the ids of entry fills are not remembered. *)
ProcessedExits(p) == pos[p].exits \cup ignored[p]

Processed(p) == pos[p].entries \cup pos[p].exits \cup ignored[p]

(* The position's lock is free. *)
Free(p) == p \in created /\ opening[p] = None

CreatePosition(p, intended) ==
    /\ p \notin created
    /\ created' = created \cup {p}
    /\ pos' = [pos EXCEPT ![p] = NewPosition(intended)]
    /\ UNCHANGED <<ignored, opening, crashes>>

(* record_entry_fill up to its first event. *)
OpenOnFill(p, f) ==
    /\ Free(p)
    /\ f \notin Processed(p)
    /\ pos[p].st = "NEW"
    /\ pos' = [pos EXCEPT ![p] = Opened(@)]
    /\ opening' = [opening EXCEPT ![p] = f]
    /\ UNCHANGED <<created, ignored, crashes>>

(* Its second event, or its only one on a position already open. *)
RecordEntryFill(p, f, price) ==
    /\ p \in created
    /\ opening[p] \in {None, f}
    /\ f \notin Processed(p)
    /\ TakesEntry(pos[p])
    /\ pos[p].st # "NEW"
    /\ pos' = [pos EXCEPT ![p] = Entered(@, f, price)]
    /\ opening' = [opening EXCEPT ![p] = None]
    /\ UNCHANGED <<created, ignored, crashes>>

(* record_exit with a legal trigger. *)
RecordExit(p, f, trigger) ==
    /\ Free(p)
    /\ f \notin Processed(p)
    /\ IsLegalPos(pos[p].st, trigger)
    /\ pos' = [pos EXCEPT ![p] = Exited(@, f, trigger)]
    /\ UNCHANGED <<created, ignored, opening, crashes>>

(* record_exit with a stale one: the fill is remembered in memory only. *)
IgnoreExit(p, f, trigger) ==
    /\ Free(p)
    /\ f \notin Processed(p)
    /\ IsStale(pos[p].st, trigger)
    /\ ignored' = [ignored EXCEPT ![p] = @ \cup {f}]
    /\ UNCHANGED <<pos, created, opening, crashes>>

(* confirm_breakeven, complete_close, archive_position. *)
PureTransition(p, trigger) ==
    /\ Free(p)
    /\ IsLegalPos(pos[p].st, trigger)
    /\ pos' = [pos EXCEPT ![p] = Moved(@, trigger)]
    /\ UNCHANGED <<created, ignored, opening, crashes>>

(* record_funding_payment, in any state of the position. *)
RecordFundingPayment(p, payment) ==
    /\ Free(p)
    /\ payment \notin pos[p].funding
    /\ pos' = [pos EXCEPT ![p] = FundingPaid(@, payment)]
    /\ UNCHANGED <<created, ignored, opening, crashes>>

Crash ==
    /\ crashes < MaxCrashes
    /\ crashes' = crashes + 1
    /\ ignored' = [p \in PositionId |-> {}]
    /\ opening' = [p \in PositionId |-> None]
    /\ UNCHANGED <<pos, created>>

ExitTrigger == {"T1", "T2", "STOP", "CLOSE"}

PosNext ==
    \/ \E p \in PositionId :
          \/ \E intended \in 1..MaxQty : CreatePosition(p, intended)
          \/ \E f \in Fill :
                \/ OpenOnFill(p, f)
                \/ \E price \in 1..MaxPrice : RecordEntryFill(p, f, price)
                \/ \E t \in ExitTrigger : RecordExit(p, f, t) \/ IgnoreExit(p, f, t)
          \/ \E t \in {"BREAKEVEN", "COMPLETE_CLOSE", "ARCHIVE"} : PureTransition(p, t)
          \/ \E payment \in Payment : RecordFundingPayment(p, payment)
    \/ Crash

PosSpec == PosInit /\ [][PosNext]_posVars

-----------------------------------------------------------------------------
(* Each fill counts once and on one side only, through crashes between the *)
(* two events of a first fill and through any repetition: what was entered *)
(* is the number of entry fills, what remains is that less the exits.      *)
QuantityIsFills ==
    \A p \in PositionId :
        /\ pos[p].filled = Cardinality(pos[p].entries)
        /\ pos[p].remaining = pos[p].filled - Cardinality(pos[p].exits)
        /\ pos[p].entries \cap pos[p].exits = {}
=============================================================================
