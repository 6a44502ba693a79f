-------------------------- MODULE OrderManagerProofs --------------------------
(***************************************************************************)
(* Proofs about the order manager between its venue and the execution      *)
(* state machine, for any orders, quantities, amendments and crashes:      *)
(* nothing is at the venue unrecorded, a fill counts once, an order        *)
(* recorded as dead does not rest, and a finished order does not move.     *)
(***************************************************************************)
EXTENDS OrderManager, FiniteSetTheorems, TLAPS

DriveTrigger == {"none", "ORDER_PLACED", "ORDER_REJECTED", "PARTIAL_FILL_RECEIVED",
                 "REMAINDER_FILLED", "FULLY_FILLED", "ORDER_CANCELLED"}
OrderRecord == [st : OrderState, xid : Nat, qty : Nat, filled : Nat, fills : SUBSET Nat]
JobRecord == [kind : {"idle", "drive", "place", "cancel", "amend", "sweep"},
              sent : BOOLEAN, trigger : DriveTrigger, oid : Nat, qty : Nat]
Message == [order : Order, kind : {"place", "cancel", "amend"}, oid : Nat, qty : Nat]
VenueRecord == [st : {"none", "open", "filled", "cancelled", "rejected"},
                oid : Nat, qty : Nat, filled : Nat]

(* The shape of what the order manager and the venue keep. *)
Typed ==
    /\ om \in [Order -> OrderRecord]
    /\ job \in [Order -> JobRecord]
    /\ sweep \subseteq Order
    /\ wire \subseteq Message
    /\ venue \in [Order -> VenueRecord]

-----------------------------------------------------------------------------
(* The inductive invariant, order by order *)

(* The order's lock: while a call is in progress the record stays where    *)
(* the call left it, and the id it asks by is one the venue gave out.      *)
JobFits(c) ==
    /\ job[c].kind = "drive" /\ job[c].trigger = "ORDER_PLACED" => om[c].st = "SUBMITTED"
    /\ job[c].kind = "place" => om[c].st = "SUBMITTED"
    /\ job[c].kind \in {"cancel", "sweep"} => om[c].st = "CANCEL_PENDING"
    /\ job[c].kind = "amend" => om[c].st \in {"ACKNOWLEDGED", "PARTIALLY_FILLED"}
    /\ job[c].oid <= venue[c].oid
    /\ job[c].kind = "sweep" => venue[c].st = "cancelled"

(* An order that place_order has not handed to the network yet is known to *)
(* nobody outside.                                                         *)
Unsent(c) ==
    \/ om[c].st = "NEW"
    \/ job[c].kind = "drive" /\ job[c].trigger = "ORDER_PLACED"
    \/ job[c].kind = "place" /\ ~ job[c].sent

UnsentIsUnknown(c) == Unsent(c) => venue[c].st = "none" /\ \A m \in wire : m.order # c

(* The venue numbers the orders it knows, and the record's id is no newer. *)
IdsAreGiven(c) ==
    /\ om[c].xid <= venue[c].oid
    /\ venue[c].st = "none" => venue[c].oid = 0 /\ venue[c].filled = 0
    /\ venue[c].st # "none" => venue[c].oid >= 1

(* What is counted are fills of the venue. *)
FillsAreGiven(c) ==
    /\ om[c].fills \subseteq 1..venue[c].filled
    /\ om[c].filled = Cardinality(om[c].fills)

(* A dead order has been at the venue and has ended there, but for the id  *)
(* an amendment gave it.                                                   *)
Ended(c) == venue[c].st \notin {"none", "open"} \/ venue[c].oid > 1
DeadHasEnded(c) == om[c].st \in {"CANCELLED", "REJECTED"} => Ended(c)

OrderOk(c) ==
    JobFits(c) /\ UnsentIsUnknown(c) /\ IdsAreGiven(c) /\ FillsAreGiven(c) /\ DeadHasEnded(c)

(* An order is sent once, so a request to place it meets a venue that does *)
(* not know it.                                                            *)
PlacedOnce ==
    \A m \in wire : m.kind = "place" =>
        /\ venue[m.order].st = "none"
        /\ \A n \in wire : n.kind = "place" /\ n.order = m.order => n = m

(* What cancel_all goes on to record is cancelled at the venue. *)
SweptIsCancelled == \A c \in sweep : venue[c].st = "cancelled"

OrderInv ==
    /\ Typed
    /\ \A c \in Order : OrderOk(c)
    /\ PlacedOnce
    /\ SweptIsCancelled

-----------------------------------------------------------------------------
(* The lifecycle table *)

(* Every edge leaves a state that is not final, and none leads to NEW.     *)
LEMMA EdgesMove ==
    \A e \in OrderEdges : /\ e.to \in OrderState /\ e.to # "NEW"
                          /\ e.from \in OrderState /\ e.from \notin TerminalOrder
                          /\ e.to = "REJECTED" => e.trigger = "REJECTED"
                          /\ e.to = "CANCELLED" => e.trigger = "CANCEL_CONFIRMED"
  <1>1. \A e \in OrderEdges : /\ e.to \in OrderState /\ e.to # "NEW"
                              /\ e.from \in OrderState
                              /\ e.to = "REJECTED" => e.trigger = "REJECTED"
                              /\ e.to = "CANCELLED" => e.trigger = "CANCEL_CONFIRMED"
    BY DEF OrderEdges, OrderEdge, OrderState
  <1> QED BY <1>1 DEF TerminalOrder

(* A legal trigger follows an edge. *)
LEMMA LegalIsEdge ==
    ASSUME NEW from, NEW trigger, IsLegalOrder(from, trigger)
    PROVE  \E e \in OrderEdges : /\ e.from = from /\ e.trigger = trigger
                                 /\ NextOrderState(from, trigger) = e.to
  BY DEF IsLegalOrder, NextOrderState

(* What a legal transition leads to, and from where it starts. *)
LEMMA LegalMoves ==
    ASSUME NEW from, NEW trigger, IsLegalOrder(from, trigger)
    PROVE  /\ NextOrderState(from, trigger) \in OrderState
           /\ NextOrderState(from, trigger) # "NEW"
           /\ from \notin TerminalOrder /\ from \in OrderState
           /\ NextOrderState(from, trigger) = "REJECTED" => trigger = "REJECTED"
           /\ NextOrderState(from, trigger) = "CANCELLED" => trigger = "CANCEL_CONFIRMED"
  BY LegalIsEdge, EdgesMove

(* The edges that calls follow without asking, their record being locked.  *)
LEMMA CallEdges ==
    /\ IsLegalOrder("SUBMITTED", "SUBMIT_FAILED")
    /\ IsLegalOrder("CANCEL_PENDING", "CANCEL_FAILED")
    /\ IsLegalOrder("CANCEL_PENDING", "CANCEL_CONFIRMED")
    /\ \A from \in {"ACKNOWLEDGED", "PARTIALLY_FILLED"} :
          IsLegalOrder(from, "CANCEL_REQUESTED")
  <1>1. /\ OrderEdge("SUBMITTED", "SUBMIT_FAILED", "FAILED") \in OrderEdges
        /\ OrderEdge("CANCEL_PENDING", "CANCEL_FAILED", "FAILED") \in OrderEdges
        /\ OrderEdge("CANCEL_PENDING", "CANCEL_CONFIRMED", "CANCELLED") \in OrderEdges
        /\ OrderEdge("ACKNOWLEDGED", "CANCEL_REQUESTED", "CANCEL_PENDING") \in OrderEdges
        /\ OrderEdge("PARTIALLY_FILLED", "CANCEL_REQUESTED", "CANCEL_PENDING") \in OrderEdges
    BY DEF OrderEdges
  <1>2. \A a, b, d : OrderEdge(a, b, d) \in OrderEdges => IsLegalOrder(a, b)
    BY DEF IsLegalOrder, OrderEdge
  <1> QED BY <1>1, <1>2

(* A cancel that is requested leads to CANCEL_PENDING. *)
LEMMA RequestedIsPending ==
    ASSUME NEW from, IsLegalOrder(from, "CANCEL_REQUESTED")
    PROVE  NextOrderState(from, "CANCEL_REQUESTED") = "CANCEL_PENDING"
  <1>1. \A e \in OrderEdges : e.trigger = "CANCEL_REQUESTED" => e.to = "CANCEL_PENDING"
    BY DEF OrderEdges, OrderEdge
  <1> QED BY <1>1, LegalIsEdge

(* An order is driven with ORDER_PLACED by SUBMIT alone. *)
LEMMA DriveTriggers ==
    ASSUME NEW c, NEW trigger, NEW from
    PROVE  /\ ExecTrigger(c, trigger, from) \in DriveTrigger
           /\ ExecTrigger(c, trigger, from) = "ORDER_PLACED" <=> trigger = "SUBMIT"
  BY DEF ExecTrigger, DriveTrigger

-----------------------------------------------------------------------------
(* Steps that change the record of one order and the call on it.  Nobody   *)
(* else's record moves, nor does the venue.                                *)
LEMMA RecordStep ==
    ASSUME OrderInv, NEW c \in Order,
           om' \in [Order -> OrderRecord], job' \in [Order -> JobRecord],
           \A d \in Order \ {c} : om'[d] = om[d] /\ job'[d] = job[d],
           sweep' \subseteq sweep, UNCHANGED <<wire, venue>>,
           JobFits(c)', IdsAreGiven(c)', FillsAreGiven(c)', DeadHasEnded(c)',
           Unsent(c)' => Unsent(c)
    PROVE  OrderInv'
  <1>1. Typed'
    BY DEF OrderInv, Typed
  <1>2. OrderOk(c)'
    BY DEF OrderInv, OrderOk, UnsentIsUnknown
  <1>3. ASSUME NEW d \in Order \ {c} PROVE OrderOk(d)'
    <2>1. OrderOk(d) /\ om'[d] = om[d] /\ job'[d] = job[d] /\ venue' = venue /\ wire' = wire
      BY DEF OrderInv
    <2> QED BY <2>1 DEF OrderOk, JobFits, UnsentIsUnknown, Unsent, IdsAreGiven,
                        FillsAreGiven, DeadHasEnded, Ended
  <1>4. PlacedOnce' /\ SweptIsCancelled'
    BY DEF OrderInv, PlacedOnce, SweptIsCancelled
  <1> QED BY <1>1, <1>2, <1>3, <1>4 DEF OrderInv

(* What the parts of a record and a call are. *)
LEMMA Parts ==
    ASSUME OrderInv, NEW c \in Order
    PROVE  /\ om[c] \in OrderRecord /\ job[c] \in JobRecord /\ venue[c] \in VenueRecord
           /\ DOMAIN om = Order /\ DOMAIN job = Order /\ DOMAIN venue = Order
           /\ Idle \in JobRecord /\ Idle.kind = "idle" /\ Idle.oid = 0 /\ ~ Idle.sent
           /\ OrderOk(c)
  BY DEF OrderInv, Typed, Idle, NoId, JobRecord, DriveTrigger

(* A call that is over, or that goes on to drive, fits any record but a    *)
(* new one.                                                                *)
LEMMA ThenDriveFits ==
    ASSUME OrderInv, NEW c \in Order, NEW trigger, NEW from, trigger # "SUBMIT",
           ThenDrive(c, trigger, from), UNCHANGED venue
    PROVE  /\ job' \in [Order -> JobRecord]
           /\ \A d \in Order \ {c} : job'[d] = job[d]
           /\ JobFits(c)'
           /\ Unsent(c)' <=> om'[c].st = "NEW"
  <1> DEFINE t == ExecTrigger(c, trigger, from)
  <1>1. t \in DriveTrigger /\ t # "ORDER_PLACED"
    BY DriveTriggers
  <1> DEFINE j == IF t = "none" THEN Idle ELSE [Job("drive") EXCEPT !.trigger = t]
  <1>2. job' = [job EXCEPT ![c] = j]
    BY DEF ThenDrive
  <1>3. /\ j \in JobRecord /\ j.kind \in {"idle", "drive"} /\ j.oid = 0
        /\ j.kind = "drive" => j.trigger # "ORDER_PLACED"
    BY <1>1 DEF Job, Idle, NoId, JobRecord, DriveTrigger
  <1> HIDE DEF j, t
  <1>4. /\ job' \in [Order -> JobRecord] /\ job'[c] = j
        /\ \A d \in Order \ {c} : job'[d] = job[d]
    BY <1>2, <1>3 DEF OrderInv, Typed
  <1>5. JobFits(c)'
    BY <1>3, <1>4, Parts DEF JobFits, VenueRecord
  <1> QED BY <1>3, <1>4, <1>5 DEF Unsent

(* Persisting a legal transition, with an id the venue gave out or none. *)
LEMMA UpdateFits ==
    ASSUME OrderInv, NEW c \in Order, NEW trigger, NEW oid \in Nat,
           IsLegalOrder(om[c].st, trigger), oid <= venue[c].oid,
           trigger \in {"CANCEL_CONFIRMED", "REJECTED"} => Ended(c),
           Update(c, trigger, oid), UNCHANGED venue
    PROVE  /\ om' \in [Order -> OrderRecord]
           /\ \A d \in Order \ {c} : om'[d] = om[d]
           /\ om'[c].st = NextOrderState(om[c].st, trigger) /\ om'[c].st # "NEW"
           /\ IdsAreGiven(c)' /\ FillsAreGiven(c)' /\ DeadHasEnded(c)'
  <1> DEFINE next == NextOrderState(om[c].st, trigger)
             o == [om[c] EXCEPT !.st = next, !.xid = IF oid = NoId THEN @ ELSE oid]
  <1>1. /\ next \in OrderState /\ next # "NEW"
        /\ next = "REJECTED" => trigger = "REJECTED"
        /\ next = "CANCELLED" => trigger = "CANCEL_CONFIRMED"
    BY LegalMoves
  <1>2. om' = [om EXCEPT ![c] = o]
    BY Parts DEF Update, OrderRecord
  <1>3. /\ o \in OrderRecord /\ o.st = next /\ o.filled = om[c].filled
        /\ o.fills = om[c].fills /\ o.xid = IF oid = 0 THEN om[c].xid ELSE oid
    BY <1>1, Parts DEF OrderRecord, NoId
  <1> HIDE DEF o, next
  <1>4. om' \in [Order -> OrderRecord] /\ om'[c] = o /\ \A d \in Order \ {c} : om'[d] = om[d]
    BY <1>2, <1>3 DEF OrderInv, Typed
  <1>5. IdsAreGiven(c)' /\ FillsAreGiven(c)'
    BY <1>3, <1>4, Parts DEF OrderOk, IdsAreGiven, FillsAreGiven
  <1>6. DeadHasEnded(c)'
    BY <1>1, <1>3, <1>4 DEF DeadHasEnded, Ended
  <1> QED BY <1>1, <1>3, <1>4, <1>5, <1>6 DEF next

(* _ingest_status: a status that tells of a death tells the truth. *)
LEMMA IngestKeeps ==
    ASSUME OrderInv, NEW c \in Order, NEW status, NEW oid \in Nat, oid <= venue[c].oid,
           status \in {"CANCELLED", "REJECTED"} => Ended(c),
           Ingest(c, status, oid), UNCHANGED <<sweep, wire, venue>>
    PROVE  OrderInv'
  <1> DEFINE trigger == StatusTrigger(status)
  <1>1. /\ trigger # "SUBMIT"
        /\ trigger \in {"CANCEL_CONFIRMED", "REJECTED"} => Ended(c)
    BY DEF StatusTrigger
  <1>2. /\ IsLegalOrder(om[c].st, trigger) /\ Update(c, trigger, oid)
        /\ ThenDrive(c, trigger, om[c].st)
    BY DEF Ingest
  <1> HIDE DEF trigger
  <1> QED BY <1>1, <1>2, UpdateFits, ThenDriveFits, RecordStep

(* A failed or confirmed call: the record follows an edge of its own, with *)
(* no id or the venue's, and the call is over.                             *)
LEMMA UpdateEnds ==
    ASSUME OrderInv, NEW c \in Order, NEW trigger, IsLegalOrder(om[c].st, trigger),
           trigger \notin {"CANCEL_CONFIRMED", "REJECTED"},
           Update(c, trigger, NoId), job' = [job EXCEPT ![c] = Idle],
           UNCHANGED <<sweep, wire, venue>>
    PROVE  OrderInv'
  <1>1. /\ om' \in [Order -> OrderRecord] /\ \A d \in Order \ {c} : om'[d] = om[d]
        /\ om'[c].st # "NEW" /\ IdsAreGiven(c)' /\ FillsAreGiven(c)' /\ DeadHasEnded(c)'
    BY UpdateFits, Parts DEF NoId, VenueRecord
  <1>2. /\ job' \in [Order -> JobRecord] /\ job'[c] = Idle
        /\ \A d \in Order \ {c} : job'[d] = job[d]
    BY Parts DEF OrderInv, Typed
  <1>3. JobFits(c)' /\ ~ Unsent(c)'
    BY <1>1, <1>2, Parts DEF JobFits, Unsent, VenueRecord
  <1> QED BY <1>1, <1>2, <1>3, RecordStep

-----------------------------------------------------------------------------
(* place_order *)

(* SUBMIT is recorded before anything is sent. *)
LEMMA PlaceOrderKeeps ==
    ASSUME OrderInv, NEW c \in Order, NEW qty \in Nat, PlaceOrder(c, qty)
    PROVE  OrderInv'
  <1> DEFINE j == [Job("drive") EXCEPT !.trigger = "ORDER_PLACED"]
             o == [om[c] EXCEPT !.st = "SUBMITTED", !.qty = qty]
  <1>1. job' = [job EXCEPT ![c] = j]
    BY DEF PlaceOrder, ThenDrive, ExecTrigger
  <1>2. om' = [om EXCEPT ![c] = o] /\ om[c].st = "NEW"
    BY Parts DEF PlaceOrder, OrderRecord
  <1>3. /\ o \in OrderRecord /\ o.st = "SUBMITTED" /\ o.filled = om[c].filled
        /\ o.fills = om[c].fills /\ o.xid = om[c].xid
    BY Parts DEF OrderRecord, OrderState
  <1>4. j \in JobRecord /\ j.kind = "drive" /\ j.trigger = "ORDER_PLACED" /\ j.oid = 0
    BY DEF Job, Idle, NoId, JobRecord, DriveTrigger
  <1> HIDE DEF o, j
  <1>5. /\ om' \in [Order -> OrderRecord] /\ om'[c] = o /\ \A d \in Order \ {c} : om'[d] = om[d]
        /\ job' \in [Order -> JobRecord] /\ job'[c] = j
        /\ \A d \in Order \ {c} : job'[d] = job[d]
        /\ UNCHANGED <<sweep, wire, venue>>
    BY <1>1, <1>2, <1>3, <1>4 DEF OrderInv, Typed, PlaceOrder
  <1>6. JobFits(c)'
    BY <1>3, <1>4, <1>5, Parts DEF JobFits, VenueRecord
  <1>7. IdsAreGiven(c)' /\ FillsAreGiven(c)' /\ DeadHasEnded(c)'
    BY <1>3, <1>5, Parts DEF OrderOk, IdsAreGiven, FillsAreGiven, DeadHasEnded
  <1>8. Unsent(c)
    BY <1>2 DEF Unsent
  <1> QED BY <1>5, <1>6, <1>7, <1>8, RecordStep

(* Driving the execution state machine ends the call or goes on to send. *)
LEMMA DriveKeeps ==
    ASSUME OrderInv, NEW c \in Order, Drive(c)
    PROVE  OrderInv'
  <1> DEFINE j == IF job[c].trigger = "ORDER_PLACED"
                  THEN [Job("place") EXCEPT !.qty = om[c].qty] ELSE Idle
  <1>1. /\ job' = [job EXCEPT ![c] = j] /\ job[c].kind = "drive"
        /\ UNCHANGED <<om, sweep, wire, venue>>
    BY DEF Drive
  <1>2. /\ j \in JobRecord /\ j.oid = 0
        /\ j.kind = IF job[c].trigger = "ORDER_PLACED" THEN "place" ELSE "idle"
    BY Parts DEF Job, Idle, NoId, JobRecord, DriveTrigger, OrderRecord
  <1> HIDE DEF j
  <1>3. /\ job' \in [Order -> JobRecord] /\ job'[c] = j
        /\ \A d \in Order \ {c} : job'[d] = job[d]
    BY <1>1, <1>2 DEF OrderInv, Typed
  <1>4. JobFits(c)'
    BY <1>1, <1>2, <1>3, Parts DEF OrderOk, JobFits, VenueRecord
  <1>5. Unsent(c)' => Unsent(c)
    BY <1>1, <1>2, <1>3 DEF Unsent
  <1>6. IdsAreGiven(c)' /\ FillsAreGiven(c)' /\ DeadHasEnded(c)'
    BY <1>1, Parts DEF OrderOk, IdsAreGiven, FillsAreGiven, DeadHasEnded, Ended
  <1>7. om' \in [Order -> OrderRecord]
    BY <1>1 DEF OrderInv, Typed
  <1> QED BY <1>1, <1>3, <1>4, <1>5, <1>6, <1>7, RecordStep

(* A request leaves for the venue: it is the first to place its order. *)
LEMMA SendKeeps ==
    ASSUME OrderInv, NEW c \in Order, Send(c)
    PROVE  OrderInv'
  <1> DEFINE m == Request(c, job[c].kind, job[c].oid, job[c].qty)
             j == [job[c] EXCEPT !.sent = TRUE]
  <1>1. /\ job' = [job EXCEPT ![c] = j] /\ wire' = wire \cup {m} /\ ~ job[c].sent
        /\ job[c].kind \in {"place", "cancel", "amend"} /\ UNCHANGED <<om, sweep, venue>>
    BY Parts DEF Send, JobRecord
  <1>2. m \in Message /\ m.order = c /\ m.kind = job[c].kind
    BY <1>1, Parts DEF Message, Request, JobRecord
  <1>3. /\ j \in JobRecord /\ j.sent /\ j.kind = job[c].kind /\ j.oid = job[c].oid
        /\ j.trigger = job[c].trigger
    BY Parts DEF JobRecord
  <1> HIDE DEF m, j
  <1>4. /\ job' \in [Order -> JobRecord] /\ job'[c] = j
        /\ \A d \in Order \ {c} : job'[d] = job[d]
    BY <1>1, <1>3 DEF OrderInv, Typed
  <1>5. Typed'
    BY <1>1, <1>2, <1>4 DEF OrderInv, Typed
  <1>6. OrderOk(c)'
    <2>1. JobFits(c)'
      BY <1>1, <1>3, <1>4, Parts DEF OrderOk, JobFits
    <2>2. om[c].st # "NEW"
      BY <1>1, Parts DEF OrderOk, JobFits
    <2>3. ~ Unsent(c)'
      BY <1>1, <1>3, <1>4, <2>2 DEF Unsent
    <2>4. IdsAreGiven(c)' /\ FillsAreGiven(c)' /\ DeadHasEnded(c)'
      BY <1>1, Parts DEF OrderOk, IdsAreGiven, FillsAreGiven, DeadHasEnded, Ended
    <2> QED BY <2>1, <2>3, <2>4 DEF OrderOk, UnsentIsUnknown
  <1>7. ASSUME NEW d \in Order \ {c} PROVE OrderOk(d)'
    <2>1. OrderOk(d) /\ job'[d] = job[d] /\ om' = om /\ venue' = venue
      BY <1>1, <1>4 DEF OrderInv
    <2>2. UnsentIsUnknown(d)'
      BY <1>1, <1>2, <2>1 DEF OrderOk, UnsentIsUnknown, Unsent
    <2> QED BY <2>1, <2>2 DEF OrderOk, JobFits, IdsAreGiven, FillsAreGiven, DeadHasEnded, Ended
  <1>8. PlacedOnce'
    <2>1. CASE job[c].kind = "place"
      <3>1. venue[c].st = "none" /\ \A n \in wire : n.order # c
        BY <1>1, <2>1, Parts DEF OrderOk, UnsentIsUnknown, Unsent
      <3> QED BY <1>1, <1>2, <3>1 DEF OrderInv, PlacedOnce
    <2>2. CASE job[c].kind # "place"
      BY <1>1, <1>2, <2>2 DEF OrderInv, PlacedOnce
    <2> QED BY <2>1, <2>2
  <1>9. SweptIsCancelled'
    BY <1>1 DEF OrderInv, SweptIsCancelled
  <1> QED BY <1>5, <1>6, <1>7, <1>8, <1>9 DEF OrderInv

(* The venue's answers and what it is asked for. *)
LEMMA VenueTells ==
    ASSUME OrderInv, NEW c \in Order, venue[c].st # "none"
    PROVE  /\ VenueStatus(c) \in {"CANCELLED", "REJECTED"} => Ended(c)
           /\ \A oid \in Nat \ {0} : oid <= venue[c].oid =>
                 (StatusOf(c, oid) \in {"CANCELLED", "REJECTED"} => Ended(c))
           /\ venue[c].oid \in Nat /\ venue[c].oid <= venue[c].oid /\ om[c].xid \in Nat
           /\ om[c].xid <= venue[c].oid
  <1>1. venue[c] \in VenueRecord /\ om[c] \in OrderRecord /\ om[c].xid <= venue[c].oid
    BY Parts DEF OrderOk, IdsAreGiven
  <1>2. VenueStatus(c) \in {"CANCELLED", "REJECTED"} => Ended(c)
    BY <1>1 DEF VenueStatus, Ended, VenueRecord
  <1>3. ASSUME NEW oid \in Nat \ {0}, oid <= venue[c].oid,
               StatusOf(c, oid) \in {"CANCELLED", "REJECTED"}
        PROVE  Ended(c)
    BY <1>1, <1>2, <1>3 DEF StatusOf, Ended, VenueRecord
  <1> QED BY <1>1, <1>2, <1>3 DEF VenueRecord, OrderRecord

(* The answer to place_order. *)
LEMMA PlaceReplyKeeps ==
    ASSUME OrderInv, NEW c \in Order, PlaceReply(c) PROVE OrderInv'
  <1>1. venue[c].st # "none" /\ UNCHANGED <<sweep, wire, venue>>
    BY DEF PlaceReply
  <1>2. CASE venue[c].st = "rejected"
    BY <1>1, <1>2, IngestKeeps, VenueTells DEF PlaceReply, Ended
  <1>3. CASE venue[c].st # "rejected"
    BY <1>1, <1>3, IngestKeeps, VenueTells DEF PlaceReply
  <1> QED BY <1>2, <1>3

(* A placement that fails leaves the order FAILED, never dead. *)
LEMMA PlaceFailsKeeps ==
    ASSUME OrderInv, NEW c \in Order, PlaceFails(c) PROVE OrderInv'
  <1>1. om[c].st = "SUBMITTED"
    BY Parts DEF PlaceFails, OrderOk, JobFits
  <1> QED BY <1>1, CallEdges, UpdateEnds DEF PlaceFails

-----------------------------------------------------------------------------
(* cancel_order, amend_order and cancel_all *)

(* A call that begins or ends and leaves the record as it is. *)
LEMMA JobStep ==
    ASSUME OrderInv, NEW c \in Order, NEW j \in JobRecord, job' = [job EXCEPT ![c] = j],
           j.kind \notin {"drive", "place"}, JobFits(c)', UNCHANGED <<om, sweep, wire, venue>>
    PROVE  OrderInv'
  <1>1. /\ job' \in [Order -> JobRecord] /\ job'[c] = j
        /\ \A d \in Order \ {c} : job'[d] = job[d]
    BY DEF OrderInv, Typed
  <1>2. Unsent(c)' => Unsent(c)
    BY <1>1 DEF Unsent
  <1>3. IdsAreGiven(c)' /\ FillsAreGiven(c)' /\ DeadHasEnded(c)'
    BY Parts DEF OrderOk, IdsAreGiven, FillsAreGiven, DeadHasEnded, Ended
  <1>4. om' \in [Order -> OrderRecord]
    BY DEF OrderInv, Typed
  <1> QED BY <1>1, <1>2, <1>3, <1>4, RecordStep

(* CANCEL_REQUESTED is recorded, and the call that follows fits it. *)
LEMMA RequestCancel ==
    ASSUME OrderInv, NEW c \in Order, NEW j \in JobRecord, job' = [job EXCEPT ![c] = j],
           IsLegalOrder(om[c].st, "CANCEL_REQUESTED"), Update(c, "CANCEL_REQUESTED", NoId),
           j.kind \in {"cancel", "sweep"}, j.oid <= venue[c].oid,
           j.kind = "sweep" => venue[c].st = "cancelled",
           sweep' \subseteq sweep, UNCHANGED <<wire, venue>>
    PROVE  OrderInv'
  <1>1. /\ om' \in [Order -> OrderRecord] /\ \A d \in Order \ {c} : om'[d] = om[d]
        /\ om'[c].st = "CANCEL_PENDING"
        /\ IdsAreGiven(c)' /\ FillsAreGiven(c)' /\ DeadHasEnded(c)'
    BY UpdateFits, RequestedIsPending, Parts DEF NoId, VenueRecord
  <1>2. /\ job' \in [Order -> JobRecord] /\ job'[c] = j
        /\ \A d \in Order \ {c} : job'[d] = job[d]
    BY DEF OrderInv, Typed
  <1>3. JobFits(c)' /\ ~ Unsent(c)'
    BY <1>1, <1>2 DEF JobFits, Unsent
  <1> QED BY <1>1, <1>2, <1>3, RecordStep

(* cancel_order asks by the id the record holds. *)
LEMMA CancelOrderKeeps ==
    ASSUME OrderInv, NEW c \in Order, CancelOrder(c) PROVE OrderInv'
  <1> DEFINE j == [Job("cancel") EXCEPT !.oid = om[c].xid]
  <1>1. j \in JobRecord /\ j.kind = "cancel" /\ j.oid = om[c].xid
    BY Parts DEF Job, Idle, NoId, JobRecord, DriveTrigger, OrderRecord
  <1>2. j.oid <= venue[c].oid
    BY <1>1, Parts DEF OrderOk, IdsAreGiven
  <1>3. job' = [job EXCEPT ![c] = j]
    BY DEF CancelOrder
  <1> HIDE DEF j
  <1> QED BY <1>1, <1>2, <1>3, RequestCancel DEF CancelOrder

(* A cancel the venue confirms. *)
LEMMA CancelReplyKeeps ==
    ASSUME OrderInv, NEW c \in Order, CancelReply(c) PROVE OrderInv'
  <1>1. job[c].oid \in Nat /\ job[c].oid <= venue[c].oid
    BY Parts DEF OrderOk, JobFits, JobRecord
  <1> QED BY <1>1, IngestKeeps DEF CancelReply, Ended

(* A cancel that fails leaves the order FAILED, never cancelled. *)
LEMMA CancelFailsKeeps ==
    ASSUME OrderInv, NEW c \in Order, CancelFails(c) PROVE OrderInv'
  <1>1. om[c].st = "CANCEL_PENDING"
    BY Parts DEF CancelFails, OrderOk, JobFits
  <1> QED BY <1>1, CallEdges, UpdateEnds DEF CancelFails

(* amend_order begins. *)
LEMMA AmendOrderKeeps ==
    ASSUME OrderInv, NEW c \in Order, NEW qty \in Nat, AmendOrder(c, qty) PROVE OrderInv'
  <1> DEFINE j == [Job("amend") EXCEPT !.oid = om[c].xid, !.qty = qty]
  <1>1. j \in JobRecord /\ j.kind = "amend" /\ j.oid = om[c].xid
    BY Parts DEF Job, Idle, NoId, JobRecord, DriveTrigger, OrderRecord
  <1>2. j.oid <= venue[c].oid
    BY <1>1, Parts DEF OrderOk, IdsAreGiven
  <1>3. /\ job' = [job EXCEPT ![c] = j] /\ UNCHANGED <<om, sweep, wire, venue>>
        /\ om[c].st \in {"ACKNOWLEDGED", "PARTIALLY_FILLED"}
    BY DEF AmendOrder
  <1> HIDE DEF j
  <1>4. job'[c] = j
    BY <1>3, Parts
  <1>5. JobFits(c)'
    BY <1>1, <1>2, <1>3, <1>4 DEF JobFits
  <1> QED BY <1>1, <1>3, <1>5, JobStep

(* An amendment that the venue made. *)
LEMMA AmendReplyKeeps ==
    ASSUME OrderInv, NEW c \in Order, AmendReply(c) PROVE OrderInv'
  <1> DEFINE o == [om[c] EXCEPT !.qty = venue[c].qty]
  <1>1. /\ om' = [om EXCEPT ![c] = o] /\ job' = [job EXCEPT ![c] = Idle]
        /\ job[c].kind = "amend" /\ UNCHANGED <<sweep, wire, venue>>
    BY Parts DEF AmendReply, Awaits, OrderRecord
  <1>2. /\ o \in OrderRecord /\ o.st = om[c].st /\ o.filled = om[c].filled
        /\ o.fills = om[c].fills /\ o.xid = om[c].xid
    BY Parts DEF OrderRecord, VenueRecord
  <1> HIDE DEF o
  <1>3. /\ om' \in [Order -> OrderRecord] /\ om'[c] = o /\ \A d \in Order \ {c} : om'[d] = om[d]
        /\ job' \in [Order -> JobRecord] /\ job'[c] = Idle
        /\ \A d \in Order \ {c} : job'[d] = job[d]
    BY <1>1, <1>2, Parts DEF OrderInv, Typed
  <1>4. IdsAreGiven(c)' /\ FillsAreGiven(c)' /\ DeadHasEnded(c)'
    BY <1>1, <1>2, <1>3, Parts DEF OrderOk, IdsAreGiven, FillsAreGiven, DeadHasEnded, Ended
  <1>5. JobFits(c)' /\ (Unsent(c)' => Unsent(c))
    BY <1>1, <1>2, <1>3, Parts DEF JobFits, Unsent, VenueRecord
  <1> QED BY <1>1, <1>3, <1>4, <1>5, RecordStep

(* An amendment that failed. *)
LEMMA AmendFailsKeeps ==
    ASSUME OrderInv, NEW c \in Order, AmendFails(c) PROVE OrderInv'
  <1>1. job' = [job EXCEPT ![c] = Idle] /\ UNCHANGED <<om, sweep, wire, venue>>
    BY DEF AmendFails
  <1>2. job'[c] = Idle
    BY <1>1, Parts
  <1>3. JobFits(c)'
    BY <1>1, <1>2, Parts DEF JobFits, VenueRecord
  <1> QED BY <1>1, <1>3, Parts, JobStep

(* Recording what cancel_all has confirmed. *)
LEMMA ConfirmKeeps ==
    ASSUME OrderInv, NEW c \in Order, om[c].st = "CANCEL_PENDING", venue[c].st = "cancelled",
           Confirm(c), sweep' \subseteq sweep, UNCHANGED <<wire, venue>>
    PROVE  OrderInv'
  <1>1. venue[c].oid \in Nat /\ venue[c].oid <= venue[c].oid /\ Ended(c)
    BY Parts DEF VenueRecord, Ended
  <1>2. /\ Update(c, "CANCEL_CONFIRMED", venue[c].oid)
        /\ ThenDrive(c, "CANCEL_CONFIRMED", "CANCEL_PENDING")
    BY DEF Confirm
  <1> QED BY <1>1, <1>2, CallEdges, UpdateFits, ThenDriveFits, RecordStep

(* One order of a sweep. *)
LEMMA SweepKeeps ==
    ASSUME OrderInv, NEW c \in Order, Sweep(c) PROVE OrderInv'
  <1>1. /\ venue[c].st = "cancelled" /\ sweep' \subseteq sweep /\ UNCHANGED <<wire, venue>>
        /\ job[c] = Idle
    BY DEF OrderInv, SweptIsCancelled, Sweep
  <1>2. CASE om[c].st \in {"ACKNOWLEDGED", "PARTIALLY_FILLED"}
    <2>1. Job("sweep") \in JobRecord /\ Job("sweep").kind = "sweep" /\ Job("sweep").oid = 0
      BY DEF Job, Idle, NoId, JobRecord, DriveTrigger
    <2>2. Job("sweep").oid <= venue[c].oid
      BY <2>1, Parts DEF VenueRecord
    <2>3. /\ Update(c, "CANCEL_REQUESTED", NoId)
          /\ job' = [job EXCEPT ![c] = Job("sweep")]
      BY <1>2 DEF Sweep
    <2> QED BY <1>1, <1>2, <2>1, <2>2, <2>3, CallEdges, RequestCancel
  <1>3. CASE om[c].st = "CANCEL_PENDING"
    BY <1>1, <1>3, ConfirmKeeps DEF Sweep
  <1>4. CASE om[c].st \notin {"ACKNOWLEDGED", "PARTIALLY_FILLED", "CANCEL_PENDING"}
    <2>1. UNCHANGED <<om, job>>
      BY <1>4 DEF Sweep
    <2> QED BY <1>1, <2>1 DEF OrderInv, Typed, OrderOk, JobFits, UnsentIsUnknown, Unsent,
               IdsAreGiven, FillsAreGiven, DeadHasEnded, Ended, PlacedOnce, SweptIsCancelled
  <1> QED BY <1>2, <1>3, <1>4

(* The second event of a swept order. *)
LEMMA SweepConfirmKeeps ==
    ASSUME OrderInv, NEW c \in Order, SweepConfirm(c) PROVE OrderInv'
  <1>1. om[c].st = "CANCEL_PENDING" /\ venue[c].st = "cancelled"
    BY Parts DEF SweepConfirm, OrderOk, JobFits
  <1> QED BY <1>1, ConfirmKeeps DEF SweepConfirm

-----------------------------------------------------------------------------
(* report_fill, report_order_update, synchronize and a crash *)

(* The units counted are at most the units the venue filled. *)
LEMMA FillsCount ==
    ASSUME OrderInv, NEW c \in Order
    PROVE  /\ IsFiniteSet(om[c].fills) /\ Cardinality(om[c].fills) \in Nat
           /\ om[c].filled <= venue[c].filled
  <1>1. om[c].fills \subseteq 1..venue[c].filled /\ om[c].filled = Cardinality(om[c].fills)
    BY Parts DEF OrderOk, FillsAreGiven
  <1>2. venue[c].filled \in Nat
    BY Parts DEF VenueRecord
  <1>3. /\ IsFiniteSet(1..venue[c].filled)
        /\ Cardinality(1..venue[c].filled) = venue[c].filled
    <2>1. ASSUME NEW k \in Nat PROVE IsFiniteSet(1..k) /\ Cardinality(1..k) = k
      BY FS_Interval
    <2> QED BY <1>2, <2>1
  <1> QED BY <1>1, <1>3, FS_Subset, FS_CardinalityType

(* A fill that was not counted yet counts one. *)
LEMMA ReportFillKeeps ==
    ASSUME OrderInv, NEW c \in Order, NEW n, ReportFill(c, n) PROVE OrderInv'
  <1> DEFINE trigger == IF om[c].filled + 1 >= om[c].qty THEN "FULL_FILL" ELSE "PARTIAL_FILL"
             next == NextOrderState(om[c].st, trigger)
             o == [om[c] EXCEPT !.st = next, !.filled = @ + 1, !.fills = @ \cup {n}]
  <1>1. /\ om' = [om EXCEPT ![c] = o] /\ ThenDrive(c, trigger, om[c].st)
        /\ IsLegalOrder(om[c].st, trigger) /\ n \in 1..venue[c].filled /\ n \notin om[c].fills
        /\ trigger \in {"FULL_FILL", "PARTIAL_FILL"} /\ UNCHANGED <<sweep, wire, venue>>
    BY Parts DEF ReportFill, OrderRecord
  <1>2. next \in OrderState /\ next \notin {"NEW", "CANCELLED", "REJECTED"}
    BY <1>1, LegalMoves
  <1> HIDE DEF next, trigger
  <1>3. /\ o \in OrderRecord /\ o.st = next /\ o.filled = om[c].filled + 1
        /\ o.fills = om[c].fills \cup {n} /\ o.xid = om[c].xid
    <2>1. om[c] \in OrderRecord /\ venue[c].filled \in Nat
      BY Parts DEF VenueRecord
    <2>2. n \in Nat /\ om[c].filled + 1 \in Nat
      BY <1>1, <2>1 DEF OrderRecord
    <2> QED BY <1>2, <2>1, <2>2 DEF OrderRecord
  <1> HIDE DEF o
  <1>4. om' \in [Order -> OrderRecord] /\ om'[c] = o /\ \A d \in Order \ {c} : om'[d] = om[d]
    BY <1>1, <1>3 DEF OrderInv, Typed
  <1>5. FillsAreGiven(c)'
    <2>1. om[c].fills \subseteq 1..venue[c].filled /\ om[c].filled = Cardinality(om[c].fills)
      BY Parts DEF OrderOk, FillsAreGiven
    <2>2. Cardinality(om[c].fills \cup {n}) = Cardinality(om[c].fills) + 1
      BY <1>1, FillsCount, FS_AddElement
    <2> QED BY <1>1, <1>3, <1>4, <2>1, <2>2 DEF FillsAreGiven
  <1>6. IdsAreGiven(c)' /\ DeadHasEnded(c)'
    BY <1>1, <1>2, <1>3, <1>4, Parts DEF OrderOk, IdsAreGiven, DeadHasEnded
  <1>7. trigger # "SUBMIT"
    BY <1>1
  <1> QED BY <1>1, <1>2, <1>3, <1>4, <1>5, <1>6, <1>7, ThenDriveFits, RecordStep

(* A status the venue pushes, the acknowledgement possibly late. *)
LEMMA ReportOrderUpdateKeeps ==
    ASSUME OrderInv, NEW c \in Order, ReportOrderUpdate(c) PROVE OrderInv'
  <1>1. PICK status \in {VenueStatus(c), "ACKNOWLEDGED"} : Ingest(c, status, venue[c].oid)
    BY DEF ReportOrderUpdate
  <1>2. venue[c].st # "none" /\ UNCHANGED <<sweep, wire, venue>>
    BY DEF ReportOrderUpdate
  <1> QED BY <1>1, <1>2, IngestKeeps, VenueTells

(* A query about an order in doubt. *)
LEMMA ResyncKeeps ==
    ASSUME OrderInv, NEW c \in Order, Resync(c) PROVE OrderInv'
  <1>1. venue[c].st # "none" /\ UNCHANGED <<sweep, wire, venue>>
    BY DEF Resync
  <1>2. CASE om[c].xid = NoId
    BY <1>1, <1>2, IngestKeeps, VenueTells DEF Resync
  <1>3. CASE om[c].xid # NoId
    BY <1>1, <1>3, IngestKeeps, VenueTells DEF Resync, NoId
  <1> QED BY <1>2, <1>3

(* A crash loses the calls in progress. *)
LEMMA CrashKeeps ==
    ASSUME OrderInv, Crash PROVE OrderInv'
  <1>1. /\ \A c \in Order : job'[c] = Idle
        /\ sweep' = {} /\ UNCHANGED <<om, wire, venue>>
    BY DEF Crash
  <1>2. Typed'
    <2>1. job' \in [Order -> JobRecord]
      BY DEF Crash, Idle, NoId, JobRecord, DriveTrigger
    <2> QED BY <1>1, <2>1 DEF OrderInv, Typed
  <1>3. ASSUME NEW c \in Order PROVE OrderOk(c)'
    <2>1. JobFits(c)' /\ (Unsent(c)' => Unsent(c))
      BY <1>1, Parts DEF JobFits, Unsent, VenueRecord
    <2> QED BY <1>1, <2>1, Parts DEF OrderOk, UnsentIsUnknown, IdsAreGiven, FillsAreGiven,
                                     DeadHasEnded, Ended
  <1>4. PlacedOnce' /\ SweptIsCancelled'
    BY <1>1 DEF OrderInv, PlacedOnce, SweptIsCancelled
  <1> QED BY <1>2, <1>3, <1>4 DEF OrderInv

-----------------------------------------------------------------------------
(* The venue *)

(* What the venue does to an order: ids and fills grow, what it knows it   *)
(* does not forget, what is dead stays dead, and what was not sent stays   *)
(* unknown.                                                                *)
VenueGrows(c) ==
    /\ venue'[c].oid >= venue[c].oid /\ venue'[c].filled >= venue[c].filled
    /\ venue'[c].st = "none" => venue'[c] = venue[c]
    /\ venue'[c].st # "none" => venue'[c].oid >= 1 /\ ~ Unsent(c)
    /\ venue[c].st = "cancelled" => venue'[c].st = "cancelled"
    /\ Ended(c) => Ended(c)'

(* A step of the venue alone. *)
LEMMA VenueStep ==
    ASSUME OrderInv, UNCHANGED <<om, job>>, wire' \subseteq wire,
           venue' \in [Order -> VenueRecord], \A c \in Order : VenueGrows(c),
           sweep' \subseteq Order, SweptIsCancelled',
           \A m \in wire' : m.kind = "place" => venue'[m.order] = venue[m.order]
    PROVE  OrderInv'
  <1>1. Typed'
    BY DEF OrderInv, Typed
  <1>2. ASSUME NEW c \in Order PROVE OrderOk(c)'
    <2>1. /\ OrderOk(c) /\ VenueGrows(c) /\ venue[c] \in VenueRecord /\ venue'[c] \in VenueRecord
          /\ om[c] \in OrderRecord /\ job[c] \in JobRecord
      BY Parts
    <2>2. JobFits(c)'
      BY <2>1 DEF OrderOk, JobFits, VenueGrows, VenueRecord, JobRecord
    <2>3. UnsentIsUnknown(c)'
      BY <2>1 DEF OrderOk, UnsentIsUnknown, Unsent, VenueGrows
    <2>4. IdsAreGiven(c)'
      BY <2>1 DEF OrderOk, IdsAreGiven, VenueGrows, VenueRecord, OrderRecord
    <2>5. FillsAreGiven(c)'
      BY <2>1 DEF OrderOk, FillsAreGiven, VenueGrows, VenueRecord
    <2>6. DeadHasEnded(c)'
      BY <2>1 DEF OrderOk, DeadHasEnded, VenueGrows
    <2> QED BY <2>2, <2>3, <2>4, <2>5, <2>6 DEF OrderOk
  <1>3. PlacedOnce'
    BY DEF OrderInv, PlacedOnce
  <1> QED BY <1>1, <1>2, <1>3 DEF OrderInv

(* An order the venue does nothing to. *)
LEMMA VenueRests ==
    ASSUME OrderInv, NEW c \in Order, venue'[c] = venue[c]
    PROVE  VenueGrows(c)
  <1>1. venue[c] \in VenueRecord /\ OrderOk(c)
    BY Parts
  <1> QED BY <1>1 DEF VenueGrows, Ended, OrderOk, IdsAreGiven, UnsentIsUnknown, VenueRecord

(* An open order that the venue fills, cancels or replaces. *)
LEMMA OpenGrows ==
    ASSUME OrderInv, NEW c \in Order, venue[c].st = "open",
           venue'[c].oid >= venue[c].oid, venue'[c].filled >= venue[c].filled,
           venue'[c].st # "none", venue'[c] \in VenueRecord
    PROVE  VenueGrows(c)
  <1>1. venue[c] \in VenueRecord /\ OrderOk(c)
    BY Parts
  <1> QED BY <1>1 DEF VenueGrows, Ended, OrderOk, IdsAreGiven, UnsentIsUnknown, VenueRecord

(* A step of the venue on one order that is open there. *)
LEMMA OpenStep ==
    ASSUME OrderInv, NEW c \in Order, NEW v \in VenueRecord, venue[c].st = "open",
           venue' = [venue EXCEPT ![c] = v], v.st # "none", v.oid >= venue[c].oid,
           v.filled >= venue[c].filled, wire' \subseteq wire, UNCHANGED <<om, job, sweep>>
    PROVE  OrderInv'
  <1>1. /\ venue' \in [Order -> VenueRecord] /\ venue'[c] = v
        /\ \A d \in Order \ {c} : venue'[d] = venue[d]
    BY DEF OrderInv, Typed
  <1>2. \A d \in Order : VenueGrows(d)
    BY <1>1, OpenGrows, VenueRests
  <1>3. sweep' \subseteq Order /\ SweptIsCancelled'
    BY <1>1 DEF OrderInv, Typed, SweptIsCancelled
  <1>4. \A m \in wire' : m.kind = "place" => venue'[m.order] = venue[m.order]
    BY <1>1 DEF OrderInv, Typed, PlacedOnce, Message
  <1> QED BY <1>1, <1>2, <1>3, <1>4, VenueStep

(* A step of the venue that changes no order. *)
LEMMA RestStep ==
    ASSUME OrderInv, wire' \subseteq wire, UNCHANGED <<om, job, sweep, venue>>
    PROVE  OrderInv'
  <1>1. \A d \in Order : VenueGrows(d)
    BY VenueRests
  <1>2. venue' \in [Order -> VenueRecord] /\ sweep' \subseteq Order /\ SweptIsCancelled'
    BY DEF OrderInv, Typed, SweptIsCancelled
  <1> QED BY <1>1, <1>2, VenueStep

(* A request to place an order arrives. *)
LEMMA VenuePlacesKeeps ==
    ASSUME OrderInv, NEW m \in wire, VenuePlaces(m) PROVE OrderInv'
  <1> DEFINE c == m.order
  <1>1. PICK st \in {"open", "rejected"} :
           venue' = [venue EXCEPT ![c] = [st |-> st, oid |-> 1, qty |-> m.qty, filled |-> 0]]
    BY DEF VenuePlaces
  <1>2. m \in Message /\ c \in Order /\ m.kind = "place" /\ wire' = wire \ {m}
    BY DEF OrderInv, Typed, VenuePlaces, Message
  <1>3. /\ venue[c].st = "none" /\ \A n \in wire : n.kind = "place" /\ n.order = c => n = m
    BY <1>2 DEF OrderInv, PlacedOnce
  <1> DEFINE v == [st |-> st, oid |-> 1, qty |-> m.qty, filled |-> 0]
  <1>4. v \in VenueRecord /\ v.oid = 1 /\ v.filled = 0 /\ v.st \in {"open", "rejected"}
    BY <1>2 DEF VenueRecord, Message
  <1>5. venue' = [venue EXCEPT ![c] = v] /\ UNCHANGED <<om, job, sweep>>
    BY <1>1 DEF VenuePlaces
  <1> HIDE DEF v
  <1>6. /\ venue' \in [Order -> VenueRecord] /\ venue'[c] = v
        /\ \A d \in Order \ {c} : venue'[d] = venue[d]
    BY <1>2, <1>4, <1>5 DEF OrderInv, Typed
  <1>7. VenueGrows(c)
    <2>1. venue[c].oid = 0 /\ venue[c].filled = 0 /\ ~ Unsent(c)
      BY <1>2, <1>3, Parts DEF OrderOk, IdsAreGiven, UnsentIsUnknown
    <2> QED BY <1>3, <1>4, <1>6, <2>1 DEF VenueGrows, Ended
  <1>8. \A d \in Order : VenueGrows(d)
    BY <1>6, <1>7, VenueRests
  <1>9. sweep' \subseteq Order /\ SweptIsCancelled'
    BY <1>2, <1>3, <1>5, <1>6 DEF OrderInv, Typed, SweptIsCancelled
  <1>10. \A n \in wire' : n.kind = "place" => venue'[n.order] = venue[n.order]
    BY <1>2, <1>3, <1>6 DEF OrderInv, Typed, Message
  <1> QED BY <1>2, <1>5, <1>6, <1>8, <1>9, <1>10, VenueStep

(* A request to cancel or to amend arrives, or one is lost. *)
LEMMA VenueCancelsKeeps ==
    ASSUME OrderInv, NEW m \in wire, VenueCancels(m) PROVE OrderInv'
  <1>1. m.order \in Order /\ wire' \subseteq wire /\ UNCHANGED <<om, job, sweep>>
    BY DEF OrderInv, Typed, VenueCancels, Message
  <1>2. CASE venue[m.order].st = "open" /\ venue[m.order].oid = m.oid
    <2> DEFINE v == [venue[m.order] EXCEPT !.st = "cancelled"]
    <2>1. /\ v \in VenueRecord /\ v.st = "cancelled" /\ v.oid >= venue[m.order].oid
          /\ v.filled >= venue[m.order].filled
      BY <1>1, Parts DEF VenueRecord
    <2>2. venue' = [venue EXCEPT ![m.order] = v]
      BY <1>1, <1>2, Parts DEF VenueCancels, VenueRecord
    <2> HIDE DEF v
    <2> QED BY <1>1, <1>2, <2>1, <2>2, OpenStep
  <1>3. CASE ~ (venue[m.order].st = "open" /\ venue[m.order].oid = m.oid)
    BY <1>1, <1>3, RestStep DEF VenueCancels
  <1> QED BY <1>2, <1>3

(* An amendment retires the old id. *)
LEMMA VenueAmendsKeeps ==
    ASSUME OrderInv, NEW m \in wire, VenueAmends(m) PROVE OrderInv'
  <1> DEFINE made == /\ venue[m.order].st = "open" /\ venue[m.order].oid = m.oid
                     /\ m.qty > venue[m.order].filled
  <1>1. /\ m.order \in Order /\ m.qty \in Nat /\ wire' \subseteq wire
        /\ UNCHANGED <<om, job, sweep>>
    BY DEF OrderInv, Typed, VenueAmends, Message
  <1>2. CASE made
    <2> DEFINE v == [venue[m.order] EXCEPT !.oid = @ + 1, !.qty = m.qty]
    <2>1. /\ v \in VenueRecord /\ v.st = "open" /\ v.oid >= venue[m.order].oid
          /\ v.filled >= venue[m.order].filled
      <3>1. venue[m.order] \in VenueRecord
        BY <1>1, Parts
      <3>2. /\ venue[m.order].oid + 1 \in Nat /\ venue[m.order].oid + 1 >= venue[m.order].oid
            /\ venue[m.order].filled >= venue[m.order].filled
        BY <3>1 DEF VenueRecord
      <3> QED BY <1>1, <1>2, <3>1, <3>2 DEF VenueRecord
    <2>2. venue' = [venue EXCEPT ![m.order] = v]
      BY <1>1, <1>2, Parts DEF VenueAmends, VenueRecord
    <2> HIDE DEF v
    <2> QED BY <1>1, <1>2, <2>1, <2>2, OpenStep
  <1>3. CASE ~ made
    BY <1>1, <1>3, RestStep DEF VenueAmends
  <1> QED BY <1>2, <1>3

(* The venue fills one unit. *)
LEMMA VenueFillsKeeps ==
    ASSUME OrderInv, NEW c \in Order, VenueFills(c) PROVE OrderInv'
  <1> DEFINE st == IF venue[c].filled + 1 = venue[c].qty THEN "filled" ELSE "open"
             v == [venue[c] EXCEPT !.filled = @ + 1, !.st = st]
  <1>1. /\ v \in VenueRecord /\ v.st # "none" /\ v.oid >= venue[c].oid
        /\ v.filled >= venue[c].filled
    <2>1. venue[c] \in VenueRecord
      BY Parts
    <2>2. /\ venue[c].filled + 1 \in Nat /\ venue[c].filled + 1 >= venue[c].filled
          /\ venue[c].oid >= venue[c].oid /\ st \in {"filled", "open"}
      BY <2>1 DEF VenueRecord
    <2> HIDE DEF st
    <2> QED BY <2>1, <2>2 DEF VenueRecord
  <1>2. /\ venue' = [venue EXCEPT ![c] = v] /\ venue[c].st = "open"
        /\ UNCHANGED <<om, job, sweep, wire>>
    BY Parts DEF VenueFills, VenueRecord
  <1> HIDE DEF v
  <1> QED BY <1>1, <1>2, OpenStep

(* The venue cancels an order on its own account. *)
LEMMA VenueDropsKeeps ==
    ASSUME OrderInv, NEW c \in Order, VenueDrops(c) PROVE OrderInv'
  <1> DEFINE v == [venue[c] EXCEPT !.st = "cancelled"]
  <1>1. /\ v \in VenueRecord /\ v.st # "none" /\ v.oid >= venue[c].oid
        /\ v.filled >= venue[c].filled
    BY Parts DEF VenueRecord
  <1>2. /\ venue' = [venue EXCEPT ![c] = v] /\ venue[c].st = "open"
        /\ UNCHANGED <<om, job, sweep, wire>>
    BY Parts DEF VenueDrops, VenueRecord
  <1> HIDE DEF v
  <1> QED BY <1>1, <1>2, OpenStep

(* cancel_all is answered. *)
LEMMA CancelAllKeeps ==
    ASSUME OrderInv, NEW cancelled, NEW confirmed, CancelAll(cancelled, confirmed)
    PROVE  OrderInv'
  <1>1. /\ cancelled \subseteq Order /\ \A c \in cancelled : venue[c].st = "open"
        /\ sweep' = confirmed /\ confirmed \subseteq cancelled /\ UNCHANGED <<om, job, wire>>
        /\ venue' = [c \in Order |-> IF c \in cancelled
                                     THEN [venue[c] EXCEPT !.st = "cancelled"] ELSE venue[c]]
    BY DEF CancelAll
  <1>2. ASSUME NEW c \in Order PROVE venue'[c] \in VenueRecord /\ VenueGrows(c)
    <2>1. CASE c \in cancelled
      <3> DEFINE v == [venue[c] EXCEPT !.st = "cancelled"]
      <3>1. /\ v \in VenueRecord /\ v.st = "cancelled" /\ v.oid >= venue[c].oid
            /\ v.filled >= venue[c].filled
        BY Parts DEF VenueRecord
      <3>2. venue'[c] = v
        BY <1>1, <2>1
      <3> HIDE DEF v
      <3> QED BY <1>1, <2>1, <3>1, <3>2, OpenGrows
    <2>2. CASE c \notin cancelled
      BY <1>1, <2>2, VenueRests, Parts
    <2> QED BY <2>1, <2>2
  <1>3. venue' \in [Order -> VenueRecord]
    BY <1>1, <1>2
  <1>4. sweep' \subseteq Order /\ SweptIsCancelled'
    <2>1. ASSUME NEW c \in confirmed PROVE venue'[c].st = "cancelled"
      <3>1. c \in Order /\ venue'[c] = [venue[c] EXCEPT !.st = "cancelled"]
        BY <1>1
      <3>2. venue[c] \in VenueRecord
        BY <3>1, Parts
      <3> QED BY <3>1, <3>2 DEF VenueRecord
    <2> QED BY <1>1, <2>1 DEF SweptIsCancelled
  <1>5. \A m \in wire' : m.kind = "place" => venue'[m.order] = venue[m.order]
    BY <1>1 DEF OrderInv, Typed, PlacedOnce, Message
  <1> QED BY <1>1, <1>2, <1>3, <1>4, <1>5, VenueStep

-----------------------------------------------------------------------------
(* Nothing has been placed. *)
LEMMA InitOrder == Init => OrderInv
  <1> SUFFICES ASSUME Init PROVE OrderInv
    OBVIOUS
  <1>1. Idle \in JobRecord /\ Idle.kind = "idle" /\ Idle.oid = 0
    BY DEF Idle, NoId, JobRecord, DriveTrigger
  <1>2. Typed
    <2>1. om \in [Order -> OrderRecord]
      BY DEF Init, OrderRecord, OrderState, NoId
    <2>2. venue \in [Order -> VenueRecord]
      BY DEF Init, VenueRecord, NoId
    <2>3. job \in [Order -> JobRecord] /\ sweep = {} /\ wire = {}
      BY <1>1 DEF Init
    <2> QED BY <2>1, <2>2, <2>3 DEF Typed
  <1>3. ASSUME NEW c \in Order PROVE OrderOk(c)
    <2>1. FillsAreGiven(c)
      BY FS_EmptySet DEF Init, FillsAreGiven
    <2> QED BY <1>1, <2>1 DEF Init, OrderOk, JobFits, UnsentIsUnknown, IdsAreGiven,
                              DeadHasEnded, NoId
  <1>4. PlacedOnce /\ SweptIsCancelled
    BY DEF Init, PlacedOnce, SweptIsCancelled
  <1> QED BY <1>2, <1>3, <1>4 DEF OrderInv

(* Every step keeps the invariant. *)
LEMMA NextOrder == OrderInv /\ [Next]_vars => OrderInv'
  <1> SUFFICES ASSUME OrderInv, [Next]_vars PROVE OrderInv'
    OBVIOUS
  <1>1. ASSUME NEW c \in Order, Handlers(c) PROVE OrderInv'
    <2>1. \A qty \in 1..MaxQty[c] : qty \in Nat
      BY OrderAssumption
    <2> QED BY <1>1, <2>1, PlaceOrderKeeps, AmendOrderKeeps, CancelOrderKeeps,
               ReportOrderUpdateKeeps DEF Handlers
  <1>2. ASSUME NEW c \in Order, Progress(c) PROVE OrderInv'
    BY <1>2, DriveKeeps, SendKeeps, PlaceReplyKeeps, PlaceFailsKeeps, CancelReplyKeeps,
       CancelFailsKeeps, AmendReplyKeeps, AmendFailsKeeps, SweepKeeps, SweepConfirmKeeps
       DEF Progress
  <1>3. ASSUME NEW m \in wire, Lose(m) PROVE OrderInv'
    BY <1>3, RestStep DEF Lose
  <1>4. ASSUME NEW t \in Elsewhere, TransitionElsewhere(t) PROVE OrderInv'
    BY <1>4, RestStep DEF TransitionElsewhere
  <1>5. CASE UNCHANGED vars
    BY <1>5, RestStep DEF vars
  <1> QED BY <1>1, <1>2, <1>3, <1>4, <1>5, ReportFillKeeps, ResyncKeeps, VenueFillsKeeps,
             VenueDropsKeeps, CancelAllKeeps, VenuePlacesKeeps, VenueCancelsKeeps,
             VenueAmendsKeeps, CrashKeeps DEF Next

(* The inductive invariant holds. *)
LEMMA OrderIsOk == Spec => []OrderInv
  BY InitOrder, NextOrder, PTL DEF Spec

-----------------------------------------------------------------------------
(* Whatever an order's record says, a restart knows of everything that is  *)
(* at the venue or on its way there.                                       *)
THEOREM NothingUnrecorded == Spec => []WriteAhead
  <1>1. OrderInv => WriteAhead
    <2> SUFFICES ASSUME OrderInv PROVE WriteAhead
      OBVIOUS
    <2>1. ASSUME NEW c \in Order, venue[c].st # "none" PROVE om[c].st # "NEW"
      BY <2>1 DEF OrderInv, OrderOk, UnsentIsUnknown, Unsent
    <2>2. ASSUME NEW m \in wire PROVE om[m.order].st # "NEW"
      BY DEF OrderInv, Typed, Message, OrderOk, UnsentIsUnknown, Unsent
    <2> QED BY <2>1, <2>2 DEF WriteAhead
  <1> QED BY <1>1, OrderIsOk, PTL

(* However often and in whatever order fills are reported, each unit the   *)
(* venue filled counts at most once and no other unit counts.              *)
THEOREM FillsCountOnce == Spec => []FilledIsExact
  <1>1. OrderInv => FilledIsExact
    <2> SUFFICES ASSUME OrderInv, NEW c \in Order
                 PROVE  om[c].filled = Cardinality(om[c].fills) /\ om[c].filled <= venue[c].filled
      BY DEF FilledIsExact
    <2> QED BY FillsCount, Parts DEF OrderOk, FillsAreGiven
  <1> QED BY <1>1, OrderIsOk, PTL

(* An order recorded as cancelled or rejected does not rest at the venue   *)
(* under the id the record knows, whatever requests failed or arrive late. *)
THEOREM DeadIsDead == Spec => []CancelledIsDead
  <1>1. OrderInv => CancelledIsDead
    BY DEF OrderInv, OrderOk, DeadHasEnded, Ended, CancelledIsDead
  <1> QED BY <1>1, OrderIsOk, PTL

(* A step moves the record of an order that is not finished, or no record. *)
Moves(c) == om[c].st \notin TerminalOrder /\ \A d \in Order \ {c} : om'[d] = om[d]

(* The states in which a call changes the record without asking the table. *)
LEMMA LiveStates ==
    \A s \in {"NEW", "SUBMITTED", "ACKNOWLEDGED", "PARTIALLY_FILLED", "CANCEL_PENDING"} :
        s \notin TerminalOrder
  <1>1. IsLegalOrder("NEW", "SUBMIT") /\ IsLegalOrder("SUBMITTED", "SUBMIT_FAILED")
        /\ IsLegalOrder("ACKNOWLEDGED", "CANCEL_REQUESTED")
        /\ IsLegalOrder("PARTIALLY_FILLED", "CANCEL_REQUESTED")
        /\ IsLegalOrder("CANCEL_PENDING", "CANCEL_FAILED")
    <2>1. OrderEdge("NEW", "SUBMIT", "SUBMITTED") \in OrderEdges
      BY DEF OrderEdges
    <2> QED BY <2>1, CallEdges DEF IsLegalOrder, OrderEdge
  <1> QED BY <1>1, LegalMoves

(* What changes a record changes that of one order, which is not finished. *)
LEMMA OnlyLiveMove ==
    ASSUME OrderInv, [Next]_vars
    PROVE  om' = om \/ \E c \in Order : Moves(c)
  <1>1. ASSUME NEW c \in Order, NEW trigger, NEW oid, Update(c, trigger, oid),
               om[c].st \notin TerminalOrder
        PROVE  Moves(c)
    BY <1>1 DEF Update, Moves, OrderInv, Typed
  <1>2. ASSUME NEW c \in Order, NEW status, NEW oid, Ingest(c, status, oid) PROVE Moves(c)
    BY <1>1, <1>2, LegalMoves DEF Ingest
  <1>3. ASSUME NEW c \in Order, Handlers(c) PROVE om' = om \/ Moves(c)
    <2>1. ASSUME NEW qty, PlaceOrder(c, qty) PROVE Moves(c)
      BY <2>1, LiveStates DEF PlaceOrder, Moves, OrderInv, Typed
    <2>2. CASE CancelOrder(c)
      BY <1>1, <2>2, LegalMoves DEF CancelOrder
    <2>3. CASE ReportOrderUpdate(c)
      BY <1>2, <2>3 DEF ReportOrderUpdate
    <2>4. ASSUME NEW qty, AmendOrder(c, qty) PROVE om' = om
      BY <2>4 DEF AmendOrder
    <2> QED BY <1>3, <2>1, <2>2, <2>3, <2>4 DEF Handlers
  <1>4. ASSUME NEW c \in Order, Progress(c) PROVE om' = om \/ Moves(c)
    <2> USE Parts DEF OrderOk, JobFits
    <2>1. CASE PlaceReply(c)
      BY <1>2, <2>1 DEF PlaceReply
    <2>2. CASE PlaceFails(c)
      BY <1>1, <2>2, LiveStates DEF PlaceFails
    <2>3. CASE CancelReply(c)
      BY <1>2, <2>3 DEF CancelReply
    <2>4. CASE CancelFails(c)
      BY <1>1, <2>4, LiveStates DEF CancelFails
    <2>5. CASE AmendReply(c)
      BY <2>5, LiveStates DEF AmendReply, Awaits, Moves
    <2>6. CASE Sweep(c)
      BY <1>1, <2>6, LiveStates DEF Sweep, Confirm
    <2>7. CASE SweepConfirm(c)
      BY <1>1, <2>7, LiveStates DEF SweepConfirm, Confirm
    <2>8. CASE Drive(c) \/ Send(c) \/ AmendFails(c)
      BY <2>8 DEF Drive, Send, AmendFails
    <2> QED BY <1>4, <2>1, <2>2, <2>3, <2>4, <2>5, <2>6, <2>7, <2>8 DEF Progress
  <1>5. ASSUME NEW c \in Order, NEW n, ReportFill(c, n) PROVE Moves(c)
    BY <1>5 DEF ReportFill, Moves, OrderInv, Typed
  <1>6. ASSUME NEW c \in Order, Resync(c) PROVE Moves(c)
    BY <1>2, <1>6 DEF Resync
  <1> QED BY <1>3, <1>4, <1>5, <1>6 DEF Next, vars, VenueFills, VenueDrops, CancelAll, Lose,
             VenuePlaces, VenueCancels, VenueAmends, TransitionElsewhere, Crash

(* A finished order stays as it is: no late fill, status, reply or retry   *)
(* moves it.                                                               *)
THEOREM FinishedOrdersStay == Spec => FinishedStays
  <1>1. OrderInv /\ [Next]_vars =>
           [\A c \in Order : om[c].st \in TerminalOrder => om'[c] = om[c]]_vars
    BY OnlyLiveMove DEF Moves
  <1> QED BY <1>1, OrderIsOk, PTL DEF Spec, FinishedStays
=============================================================================
