---------------------------- MODULE OrderManager ----------------------------
(***************************************************************************)
(* src/order_manager/manager.py between a venue that loses, delays and     *)
(* answers requests late, and the execution state machine it drives.       *)
(*                                                                         *)
(* Every change of an order's record is one durable event, written before  *)
(* memory changes, so the record survives a crash; what does not survive   *)
(* is the call in progress (job).  Driving the execution state machine is  *)
(* a second durable event: the process may die between the two.  While a   *)
(* call is in progress the order's lock keeps every other call on it out.  *)
(* A fill is one unit; the fills of an order are numbered 1, 2, ...        *)
(***************************************************************************)
EXTENDS Integers, FiniteSets, OrderLifecycle, ExecutionLifecycle

CONSTANTS Order,       \* client order ids
          MaxQty,      \* bound: MaxQty[c], the units order c may ask for
          MaxAmends,   \* bound: MaxAmends[c], the amendments of c
          MaxCrashes,  \* bound: crashes of the engine
          Elsewhere    \* execution triggers that other parts of the engine send

ASSUME OrderAssumption ==
    /\ MaxQty \in [Order -> Nat \ {0}] /\ MaxAmends \in [Order -> Nat] /\ MaxCrashes \in Nat
    /\ Elsewhere \subseteq Trigger

VARIABLES
  om,      \* om[c]: the durable record of order c
  job,     \* job[c]: the call in progress on c
  sweep,   \* the orders cancel_all has still to record as cancelled
  esm,     \* the execution state machine's state
  driven,  \* the request ids it has recorded
  wire,    \* requests on their way to the venue
  venue,   \* venue[c]: what the venue knows of order c
  crashes

vars == <<om, job, sweep, esm, driven, wire, venue, crashes>>

NoId == 0
Idle == [kind |-> "idle", sent |-> FALSE, trigger |-> "none", oid |-> NoId, qty |-> 0]
Job(kind) == [Idle EXCEPT !.kind = kind]
Request(c, kind, oid, qty) == [order |-> c, kind |-> kind, oid |-> oid, qty |-> qty]

Init ==
    /\ om = [c \in Order |-> [st |-> "NEW", xid |-> NoId, qty |-> 0,
                              filled |-> 0, fills |-> {}]]
    /\ job = [c \in Order |-> Idle]
    /\ sweep = {}
    /\ esm = "INITIALIZING"
    /\ driven = {}
    /\ wire = {}
    /\ venue = [c \in Order |-> [st |-> "none", oid |-> NoId, qty |-> 0, filled |-> 0]]
    /\ crashes = 0

-----------------------------------------------------------------------------
(* Recording a transition and driving the execution state machine *)

(* _drive_execution_sm: the trigger an order transition stands for.        *)
ExecTrigger(c, trigger, from) ==
    CASE trigger = "SUBMIT"       -> "ORDER_PLACED"
      [] trigger = "REJECTED"     -> "ORDER_REJECTED"
      [] trigger = "PARTIAL_FILL" -> "PARTIAL_FILL_RECEIVED"
      [] trigger = "FULL_FILL" /\ from = "PARTIALLY_FILLED" -> "REMAINDER_FILLED"
      [] trigger = "FULL_FILL" /\ from # "PARTIALLY_FILLED" -> "FULLY_FILLED"
      [] trigger = "CANCEL_CONFIRMED" /\ from = "CANCEL_PENDING"
           /\ om[c].filled = 0    -> "ORDER_CANCELLED"
      [] OTHER                    -> "none"

(* The call goes on with the execution trigger, or is over. *)
ThenDrive(c, trigger, from) ==
    LET t == ExecTrigger(c, trigger, from)
    IN  job' = [job EXCEPT ![c] = IF t = "none" THEN Idle
                                  ELSE [Job("drive") EXCEPT !.trigger = t]]

(* The request id is a digest of the order id and the trigger: a repeat is *)
(* answered from the record; an illegal trigger is swallowed.              *)
Drive(c) ==
    LET t == job[c].trigger
        taken == IsLegal(esm, t) /\ <<c, t>> \notin driven
    IN  /\ job[c].kind = "drive"
        /\ esm' = IF taken THEN NextState(esm, t) ELSE esm
        /\ driven' = IF taken THEN driven \cup {<<c, t>>} ELSE driven
        /\ job' = [job EXCEPT ![c] = IF t = "ORDER_PLACED"
                                     THEN [Job("place") EXCEPT !.qty = om[c].qty]
                                     ELSE Idle]
        /\ UNCHANGED <<om, sweep, wire, venue, crashes>>

(* Persist and apply a STATUS_UPDATE. *)
Update(c, trigger, oid) ==
    om' = [om EXCEPT ![c].st = NextOrderState(@, trigger),
                     ![c].xid = IF oid = NoId THEN @ ELSE oid]

(* _ingest_status when the status is legal; a stale one changes nothing,   *)
(* and one that is neither raises, which changes nothing either.           *)
Ingest(c, status, oid) ==
    LET trigger == StatusTrigger(status)
    IN  /\ IsLegalOrder(om[c].st, trigger)
        /\ Update(c, trigger, oid)
        /\ ThenDrive(c, trigger, om[c].st)

-----------------------------------------------------------------------------
(* place_order: SUBMIT is durable before anything reaches the venue. *)

(* Slip: the order goes to the venue before SUBMIT is durable. *)
PlaceUnrecorded(c, qty) ==
    /\ job[c] = Idle
    /\ om[c].st = "NEW"
    /\ wire' = wire \cup {Request(c, "place", NoId, qty)}
    /\ ThenDrive(c, "SUBMIT", "NEW")
    /\ UNCHANGED <<om, sweep, esm, driven, venue, crashes>>

PlaceOrder(c, qty) ==
    /\ job[c] = Idle
    /\ om[c].st = "NEW"
    /\ om' = [om EXCEPT ![c].st = "SUBMITTED", ![c].qty = qty]
    /\ ThenDrive(c, "SUBMIT", "NEW")
    /\ UNCHANGED <<sweep, esm, driven, wire, venue, crashes>>

(* The adapter hands the request to the network. *)
Send(c) ==
    /\ job[c].kind \in {"place", "cancel", "amend"}
    /\ ~ job[c].sent
    /\ wire' = wire \cup {Request(c, job[c].kind, job[c].oid, job[c].qty)}
    /\ job' = [job EXCEPT ![c].sent = TRUE]
    /\ UNCHANGED <<om, sweep, esm, driven, venue, crashes>>

Awaits(c, kind) == job[c].kind = kind /\ job[c].sent

(* place_order's answer: a rejection, or anything else, which is taken for *)
(* an acknowledgement even if the order has filled.                        *)
PlaceReply(c) ==
    /\ Awaits(c, "place")
    /\ venue[c].st # "none"
    /\ IF venue[c].st = "rejected"
       THEN Ingest(c, "REJECTED", venue[c].oid)
       ELSE Ingest(c, "ACKNOWLEDGED", venue[c].oid)
    /\ UNCHANGED <<sweep, esm, driven, wire, venue, crashes>>

(* Slip: a timeout is recorded as a rejection. *)
PlaceFailsAsRejected(c) ==
    /\ job[c].kind = "place"
    /\ Update(c, "REJECTED", NoId)
    /\ job' = [job EXCEPT ![c] = Idle]
    /\ UNCHANGED <<sweep, esm, driven, wire, venue, crashes>>

(* An ExchangeAdapterError, a timeout say: the request may never have left,*)
(* may have been executed, or may still arrive.                            *)
PlaceFails(c) ==
    /\ job[c].kind = "place"
    /\ Update(c, "SUBMIT_FAILED", NoId)
    /\ job' = [job EXCEPT ![c] = Idle]
    /\ UNCHANGED <<sweep, esm, driven, wire, venue, crashes>>

-----------------------------------------------------------------------------
(* cancel_order: CANCEL_REQUESTED is durable before the request is sent. *)

CancelOrder(c) ==
    /\ job[c] = Idle
    /\ IsLegalOrder(om[c].st, "CANCEL_REQUESTED")
    /\ om[c].xid # NoId
    /\ Update(c, "CANCEL_REQUESTED", NoId)
    /\ job' = [job EXCEPT ![c] = [Job("cancel") EXCEPT !.oid = om[c].xid]]
    /\ UNCHANGED <<sweep, esm, driven, wire, venue, crashes>>

CancelReply(c) ==
    /\ Awaits(c, "cancel")
    /\ venue[c].st = "cancelled"
    /\ Ingest(c, "CANCELLED", job[c].oid)
    /\ UNCHANGED <<sweep, esm, driven, wire, venue, crashes>>

CancelFails(c) ==
    /\ job[c].kind = "cancel"
    /\ Update(c, "CANCEL_FAILED", NoId)
    /\ job' = [job EXCEPT ![c] = Idle]
    /\ UNCHANGED <<sweep, esm, driven, wire, venue, crashes>>

(* amend_order.  AMEND_REQUESTED changes no record; AMEND records the new  *)
(* quantity and keeps the exchange order id it had.                        *)
AmendOrder(c, qty) ==
    /\ job[c] = Idle
    /\ om[c].st \in {"ACKNOWLEDGED", "PARTIALLY_FILLED"}
    /\ om[c].xid # NoId
    /\ venue[c].oid <= MaxAmends[c]
    /\ job' = [job EXCEPT ![c] = [Job("amend") EXCEPT !.oid = om[c].xid, !.qty = qty]]
    /\ UNCHANGED <<om, sweep, esm, driven, wire, venue, crashes>>

AmendReply(c) ==
    /\ Awaits(c, "amend")
    /\ venue[c].st = "open"
    /\ venue[c].oid # job[c].oid
    /\ om' = [om EXCEPT ![c].qty = venue[c].qty]
    /\ job' = [job EXCEPT ![c] = Idle]
    /\ UNCHANGED <<sweep, esm, driven, wire, venue, crashes>>

AmendFails(c) ==
    /\ job[c].kind = "amend"
    /\ job' = [job EXCEPT ![c] = Idle]
    /\ UNCHANGED <<om, sweep, esm, driven, wire, venue, crashes>>

(* cancel_all: the venue cancels some of the open orders and confirms some *)
(* of those; each confirmed one is recorded in two events.                 *)
CancelAll(cancelled, confirmed) ==
    /\ sweep = {}
    /\ cancelled \subseteq {c \in Order : venue[c].st = "open"}
    /\ confirmed \subseteq cancelled
    /\ cancelled # {}
    /\ venue' = [c \in Order |-> IF c \in cancelled THEN [venue[c] EXCEPT !.st = "cancelled"]
                                 ELSE venue[c]]
    /\ sweep' = confirmed
    /\ UNCHANGED <<om, job, esm, driven, wire, crashes>>

Confirm(c) ==
    /\ Update(c, "CANCEL_CONFIRMED", venue[c].oid)
    /\ ThenDrive(c, "CANCEL_CONFIRMED", "CANCEL_PENDING")

Sweep(c) ==
    /\ c \in sweep
    /\ job[c] = Idle
    /\ sweep' = sweep \ {c}
    /\ IF om[c].st \in {"ACKNOWLEDGED", "PARTIALLY_FILLED"}
       THEN /\ Update(c, "CANCEL_REQUESTED", NoId)
            /\ job' = [job EXCEPT ![c] = Job("sweep")]
       ELSE IF om[c].st = "CANCEL_PENDING" THEN Confirm(c)
       ELSE UNCHANGED <<om, job>>
    /\ UNCHANGED <<esm, driven, wire, venue, crashes>>

SweepConfirm(c) ==
    /\ job[c].kind = "sweep"
    /\ Confirm(c)
    /\ UNCHANGED <<sweep, esm, driven, wire, venue, crashes>>

-----------------------------------------------------------------------------
(* Slip: a fill id is not looked up before the fill is counted. *)
RecountFill(c, n) ==
    LET trigger == IF om[c].filled + 1 >= om[c].qty THEN "FULL_FILL" ELSE "PARTIAL_FILL"
    IN  /\ job[c] = Idle
        /\ n \in 1..venue[c].filled
        /\ om[c].st \notin TerminalOrder
        /\ IsLegalOrder(om[c].st, trigger)
        /\ om' = [om EXCEPT ![c].st = NextOrderState(@, trigger),
                            ![c].filled = @ + 1, ![c].fills = @ \cup {n}]
        /\ ThenDrive(c, trigger, om[c].st)
        /\ UNCHANGED <<sweep, esm, driven, wire, venue, crashes>>

(* Slip: a fill of a finished order is counted too. *)
LateFill(c, n) ==
    /\ job[c] = Idle
    /\ n \in 1..venue[c].filled
    /\ n \notin om[c].fills
    /\ om[c].st # "NEW"
    /\ om' = [om EXCEPT ![c].st = IF om[c].filled + 1 >= om[c].qty THEN "FILLED" ELSE @,
                        ![c].filled = @ + 1, ![c].fills = @ \cup {n}]
    /\ UNCHANGED <<job, sweep, esm, driven, wire, venue, crashes>>

(* report_fill: fills may be repeated and may arrive in any order; one     *)
(* already recorded or for a finished order changes nothing.               *)
ReportFill(c, n) ==
    LET trigger == IF om[c].filled + 1 >= om[c].qty THEN "FULL_FILL" ELSE "PARTIAL_FILL"
    IN  /\ job[c] = Idle
        /\ n \in 1..venue[c].filled
        /\ n \notin om[c].fills
        /\ om[c].st \notin TerminalOrder
        /\ IsLegalOrder(om[c].st, trigger)
        /\ om' = [om EXCEPT ![c].st = NextOrderState(@, trigger),
                            ![c].filled = @ + 1, ![c].fills = @ \cup {n}]
        /\ ThenDrive(c, trigger, om[c].st)
        /\ UNCHANGED <<sweep, esm, driven, wire, venue, crashes>>

(* The status an orderStatus query by the venue's own id returns: an id    *)
(* that an amendment retired is reported cancelled.                        *)
VenueStatus(c) ==
    CASE venue[c].st = "open"      -> "ACKNOWLEDGED"
      [] venue[c].st = "filled"    -> "FILLED"
      [] venue[c].st = "cancelled" -> "CANCELLED"
      [] venue[c].st = "rejected"  -> "REJECTED"

StatusOf(c, oid) == IF oid = venue[c].oid THEN VenueStatus(c) ELSE "CANCELLED"

(* report_order_update: a status pushed by the venue, possibly late.       *)
ReportOrderUpdate(c) ==
    /\ job[c] = Idle
    /\ om[c].st # "NEW"
    /\ venue[c].st # "none"
    /\ \E status \in {VenueStatus(c)} \cup
                     (IF venue[c].st = "rejected" THEN {} ELSE {"ACKNOWLEDGED"}) :
          Ingest(c, status, venue[c].oid)
    /\ UNCHANGED <<sweep, esm, driven, wire, venue, crashes>>

(* Slip: an order submitted and not answered is not in doubt. *)
InDoubtCancels(c) == om[c].st = "CANCEL_PENDING"

InDoubt(c) == om[c].st \in {"SUBMITTED", "CANCEL_PENDING"}

(* synchronize calls resync_order on every order in doubt: find_order when *)
(* the venue's id is unknown, get_order_status when it is known.           *)
Resync(c) ==
    /\ job[c] = Idle
    /\ InDoubt(c)
    /\ venue[c].st # "none"
    /\ IF om[c].xid = NoId
       THEN Ingest(c, VenueStatus(c), venue[c].oid)
       ELSE Ingest(c, StatusOf(c, om[c].xid), om[c].xid)
    /\ UNCHANGED <<sweep, esm, driven, wire, venue, crashes>>

(* The process dies and is started again: replay rebuilds om and esm. *)
Crash ==
    /\ crashes < MaxCrashes
    /\ crashes' = crashes + 1
    /\ job' = [c \in Order |-> Idle]
    /\ sweep' = {}
    /\ UNCHANGED <<om, esm, driven, wire, venue>>

(* Another part of the engine moves the execution state machine. *)
TransitionElsewhere(t) ==
    /\ IsLegal(esm, t)
    /\ esm' = NextState(esm, t)
    /\ UNCHANGED <<om, job, sweep, driven, wire, venue, crashes>>

-----------------------------------------------------------------------------
(* The venue *)

Lose(m) ==
    /\ wire' = wire \ {m}
    /\ UNCHANGED <<om, job, sweep, esm, driven, venue, crashes>>

VenuePlaces(m) ==
    /\ m.kind = "place"
    /\ wire' = wire \ {m}
    /\ \E st \in {"open", "rejected"} :
         venue' = [venue EXCEPT ![m.order] = [st |-> st, oid |-> 1, qty |-> m.qty, filled |-> 0]]
    /\ UNCHANGED <<om, job, sweep, esm, driven, crashes>>

VenueCancels(m) ==
    /\ m.kind = "cancel"
    /\ wire' = wire \ {m}
    /\ venue' = IF venue[m.order].st = "open" /\ venue[m.order].oid = m.oid
                THEN [venue EXCEPT ![m.order].st = "cancelled"]
                ELSE venue
    /\ UNCHANGED <<om, job, sweep, esm, driven, crashes>>

(* modify is cancel-and-replace: a new id, the old one retired. *)
VenueAmends(m) ==
    /\ m.kind = "amend"
    /\ wire' = wire \ {m}
    /\ venue' = IF /\ venue[m.order].st = "open" /\ venue[m.order].oid = m.oid
                   /\ m.qty > venue[m.order].filled
                THEN [venue EXCEPT ![m.order].oid = @ + 1, ![m.order].qty = m.qty]
                ELSE venue
    /\ UNCHANGED <<om, job, sweep, esm, driven, crashes>>

VenueFills(c) ==
    /\ venue[c].st = "open"
    /\ venue' = [venue EXCEPT ![c].filled = @ + 1,
                              ![c].st = IF venue[c].filled + 1 = venue[c].qty
                                        THEN "filled" ELSE "open"]
    /\ UNCHANGED <<om, job, sweep, esm, driven, wire, crashes>>

(* The venue cancels an order on its own account (margin, delisting...). *)
VenueDrops(c) ==
    /\ venue[c].st = "open"
    /\ venue' = [venue EXCEPT ![c].st = "cancelled"]
    /\ UNCHANGED <<om, job, sweep, esm, driven, wire, crashes>>

-----------------------------------------------------------------------------
Handlers(c) ==
    \/ \E qty \in 1..MaxQty[c] : PlaceOrder(c, qty) \/ AmendOrder(c, qty)
    \/ CancelOrder(c)
    \/ ReportOrderUpdate(c)

(* The rest of a call once begun, and what every cycle does. *)
Progress(c) ==
    \/ Drive(c)
    \/ Send(c)
    \/ PlaceReply(c) \/ PlaceFails(c)
    \/ CancelReply(c) \/ CancelFails(c)
    \/ AmendReply(c) \/ AmendFails(c)
    \/ Sweep(c) \/ SweepConfirm(c)

Next ==
    \/ \E c \in Order :
          \/ Handlers(c)
          \/ Progress(c)
          \/ \E n \in 1..MaxQty[c] : ReportFill(c, n)
          \/ Resync(c)
          \/ VenueFills(c)
          \/ VenueDrops(c)
    \/ \E cancelled, confirmed \in SUBSET Order : CancelAll(cancelled, confirmed)
    \/ \E m \in wire : Lose(m) \/ VenuePlaces(m) \/ VenueCancels(m) \/ VenueAmends(m)
    \/ \E t \in Elsewhere : TransitionElsewhere(t)
    \/ Crash

Spec == Init /\ [][Next]_vars

(* A call returns or raises (every request has a timeout), and the cycle   *)
(* worker polls fills and re-synchronises in every cycle.                  *)
Fairness ==
    \A c \in Order :
        /\ WF_vars(Progress(c))
        /\ WF_vars(\E n \in 1..MaxQty[c] : ReportFill(c, n))
        /\ WF_vars(Resync(c))

FairSpec == Spec /\ Fairness

-----------------------------------------------------------------------------
(* Nothing reaches the venue, or is on its way there, that a restart would *)
(* not know of: the SUBMIT event is durable first.                         *)
WriteAhead ==
    /\ \A c \in Order : venue[c].st # "none" => om[c].st # "NEW"
    /\ \A m \in wire : om[m.order].st # "NEW"

(* A fill counts once however often it is reported, before or after a      *)
(* crash, and no unit is counted that the venue did not fill.              *)
FilledIsExact ==
    \A c \in Order : /\ om[c].filled = Cardinality(om[c].fills)
                     /\ om[c].filled <= venue[c].filled

(* An order recorded as cancelled or rejected is not resting at the venue, *)
(* unless an amendment gave it an id the record does not know ("a          *)
(* possibly-live order is never silently reported as cancelled").          *)
CancelledIsDead ==
    \A c \in Order :
        om[c].st \in {"CANCELLED", "REJECTED"} => venue[c].st # "open" \/ venue[c].oid > 1

(* A lifecycle never goes backwards: a finished order stays as it is, its  *)
(* quantity filled included.                                               *)
FinishedStays ==
    [][\A c \in Order : om[c].st \in TerminalOrder => om'[c] = om[c]]_vars

(* An order in doubt that rests at the venue is acknowledged by the cycles *)
(* that follow, unless it stops resting there first.                       *)
RestingIsFound ==
    \A c \in Order :
        om[c].st = "SUBMITTED" /\ venue[c].st = "open"
          ~> om[c].st # "SUBMITTED" \/ venue[c].st # "open"
=============================================================================
