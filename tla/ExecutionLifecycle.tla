------------------------- MODULE ExecutionLifecycle -------------------------
(* The frozen transition table of src/execution_state_machine: states.py   *)
(* and transitions.py.                                                     *)

State == {"INITIALIZING", "RECONCILING", "READY", "SIGNAL_PENDING",
          "ORDER_PENDING", "PARTIALLY_FILLED", "POSITION_OPEN",
          "POSITION_CLOSING", "FLAT", "SOFT_KILL", "HARD_KILL",
          "EMERGENCY_KILL", "STOPPED"}

Kill == {"SOFT_KILL", "HARD_KILL", "EMERGENCY_KILL"}

(* States a kill switch of any tier may interrupt. *)
Live == {"RECONCILING", "READY", "SIGNAL_PENDING", "ORDER_PENDING",
         "PARTIALLY_FILLED", "POSITION_OPEN", "POSITION_CLOSING", "FLAT"}

(* States with nothing in flight, from which SHUTDOWN is legal. *)
Quiet == {"INITIALIZING", "RECONCILING", "READY", "FLAT"} \cup Kill

Edge(from, trigger, to) == [from |-> from, trigger |-> trigger, to |-> to]

TradingEdges == {
    Edge("INITIALIZING", "STARTED", "RECONCILING"),
    Edge("RECONCILING", "RECONCILED", "READY"),
    Edge("RECONCILING", "RECONCILIATION_FAILED", "SOFT_KILL"),
    Edge("READY", "SIGNAL_RECEIVED", "SIGNAL_PENDING"),
    Edge("SIGNAL_PENDING", "ORDER_PLACED", "ORDER_PENDING"),
    Edge("SIGNAL_PENDING", "SIGNAL_REJECTED", "READY"),
    Edge("ORDER_PENDING", "PARTIAL_FILL_RECEIVED", "PARTIALLY_FILLED"),
    Edge("ORDER_PENDING", "FULLY_FILLED", "POSITION_OPEN"),
    Edge("ORDER_PENDING", "ORDER_REJECTED", "READY"),
    Edge("ORDER_PENDING", "ORDER_CANCELLED", "READY"),
    Edge("PARTIALLY_FILLED", "PARTIAL_FILL_RECEIVED", "PARTIALLY_FILLED"),
    Edge("PARTIALLY_FILLED", "REMAINDER_FILLED", "POSITION_OPEN"),
    Edge("POSITION_OPEN", "STOP_ADJUSTED", "POSITION_OPEN"),
    Edge("POSITION_OPEN", "PARTIAL_TAKE_PROFIT_FILLED", "POSITION_OPEN"),
    Edge("POSITION_OPEN", "CLOSE_INITIATED", "POSITION_CLOSING"),
    Edge("POSITION_CLOSING", "PARTIAL_CLOSE_FILLED", "POSITION_CLOSING"),
    Edge("POSITION_CLOSING", "CLOSE_COMPLETED", "FLAT"),
    Edge("FLAT", "READY_FOR_NEXT", "READY"),
    Edge("SOFT_KILL", "RESUME", "RECONCILING"),
    Edge("HARD_KILL", "RESUME", "RECONCILING"),
    Edge("HARD_KILL", "FLATTEN_FILL_RECEIVED", "HARD_KILL")}

SoftKillEdges == {Edge(s, "SOFT_KILL_TRIGGERED", "SOFT_KILL") : s \in Live}

(* Slip: a hard kill may follow any kill, the emergency kill included. *)
HardKillAnyEdges ==
    {Edge(s, "HARD_KILL_TRIGGERED", "HARD_KILL") : s \in Live \cup Kill}

HardKillEdges ==
    {Edge(s, "HARD_KILL_TRIGGERED", "HARD_KILL") : s \in Live \cup {"SOFT_KILL"}}

EmergencyKillEdges ==
    {Edge(s, "EMERGENCY_KILL_TRIGGERED", "EMERGENCY_KILL") :
        s \in Live \cup {"INITIALIZING", "SOFT_KILL", "HARD_KILL"}}

ShutdownEdges == {Edge(s, "SHUTDOWN", "STOPPED") : s \in Quiet}

Edges == TradingEdges \cup SoftKillEdges \cup HardKillEdges
           \cup EmergencyKillEdges \cup ShutdownEdges

Trigger == {e.trigger : e \in Edges}

IsLegal(from, trigger) == \E e \in Edges : e.from = from /\ e.trigger = trigger

(* Slip: a resume goes straight back to trading. *)
ResumeToReady(from, trigger) ==
    IF trigger = "RESUME" THEN "READY"
    ELSE (CHOOSE e \in Edges : e.from = from /\ e.trigger = trigger).to

NextState(from, trigger) ==
    (CHOOSE e \in Edges : e.from = from /\ e.trigger = trigger).to
=============================================================================
