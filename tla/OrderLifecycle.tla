--------------------------- MODULE OrderLifecycle ---------------------------
(* The order lifecycle table of src/order_manager/states.py, and how a     *)
(* status or trigger that is not legal is told stale or contradictory.     *)
EXTENDS Naturals

OrderState == {"NEW", "SUBMITTED", "ACKNOWLEDGED", "PARTIALLY_FILLED",
               "CANCEL_PENDING", "FILLED", "CANCELLED", "REJECTED",
               "EXPIRED", "FAILED"}

OrderEdge(from, trigger, to) == [from |-> from, trigger |-> trigger, to |-> to]

OrderEdges == {
    OrderEdge("NEW", "SUBMIT", "SUBMITTED"),
    OrderEdge("SUBMITTED", "ACKNOWLEDGED", "ACKNOWLEDGED"),
    OrderEdge("SUBMITTED", "REJECTED", "REJECTED"),
    OrderEdge("SUBMITTED", "SUBMIT_FAILED", "FAILED"),
    OrderEdge("ACKNOWLEDGED", "PARTIAL_FILL", "PARTIALLY_FILLED"),
    OrderEdge("ACKNOWLEDGED", "FULL_FILL", "FILLED"),
    OrderEdge("ACKNOWLEDGED", "CANCEL_REQUESTED", "CANCEL_PENDING"),
    OrderEdge("ACKNOWLEDGED", "EXPIRED", "EXPIRED"),
    OrderEdge("PARTIALLY_FILLED", "PARTIAL_FILL", "PARTIALLY_FILLED"),
    OrderEdge("PARTIALLY_FILLED", "FULL_FILL", "FILLED"),
    OrderEdge("PARTIALLY_FILLED", "CANCEL_REQUESTED", "CANCEL_PENDING"),
    OrderEdge("PARTIALLY_FILLED", "EXPIRED", "EXPIRED"),
    OrderEdge("PARTIALLY_FILLED", "CANCEL_CONFIRMED", "CANCELLED"),
    OrderEdge("CANCEL_PENDING", "CANCEL_CONFIRMED", "CANCELLED"),
    OrderEdge("CANCEL_PENDING", "PARTIAL_FILL", "PARTIALLY_FILLED"),
    OrderEdge("CANCEL_PENDING", "FULL_FILL", "FILLED"),
    OrderEdge("CANCEL_PENDING", "CANCEL_RETRY_ACKNOWLEDGED", "CANCEL_PENDING"),
    OrderEdge("CANCEL_PENDING", "CANCEL_FAILED", "FAILED")}

IsLegalOrder(from, trigger) ==
    \E e \in OrderEdges : e.from = from /\ e.trigger = trigger

NextOrderState(from, trigger) ==
    (CHOOSE e \in OrderEdges : e.from = from /\ e.trigger = trigger).to

TerminalOrder == {s \in OrderState : ~ \E e \in OrderEdges : e.from = s}

(* _STATUS_TO_TRIGGER: a status with no trigger changes nothing. *)
StatusTrigger(status) ==
    CASE status = "ACKNOWLEDGED" -> "ACKNOWLEDGED"
      [] status = "CANCELLED"    -> "CANCEL_CONFIRMED"
      [] status = "REJECTED"     -> "REJECTED"
      [] OTHER                   -> "none"
=============================================================================
