----------------------- MODULE ExecutionStateMachine ------------------------
(***************************************************************************)
(* src/execution_state_machine/machine.py: one machine whose state is      *)
(* whatever its durable history says it is.  Several threads call          *)
(* transition(); a call looks up its request id, checks the transition     *)
(* table, records the transition durably and only then changes the state   *)
(* in memory, all under one lock.  The process may die between any two of  *)
(* these, and the constructor replays the history.                         *)
(***************************************************************************)
EXTENDS Integers, Sequences, ExecutionLifecycle

CONSTANTS Caller,    \* threads that call transition()
          NoCaller,  \* nobody holds the lock
          Request,   \* request ids
          MaxLog     \* bound: transitions a run may record

ASSUME CallerAssumption == NoCaller \notin Caller /\ MaxLog \in Nat

VARIABLES log,      \* this machine's events in the event store
          state,    \* _current_state
          up,       \* the process is running
          holder,   \* the thread inside the critical section
          pc,       \* pc[c]: "idle", "checked" or "recorded"
          call      \* call[c]: the transition c is about to record

vars == <<log, state, up, holder, pc, call>>

Record == [request : Request, from : State, trigger : Trigger, to : State]

NoCall == [request |-> "none", from |-> "INITIALIZING",
           trigger |-> "STARTED", to |-> "INITIALIZING"]

(* Slip: only the latest event is looked at for the request id. *)
KnownLast(r) == log # <<>> /\ log[Len(log)].request = r

Known(r) == \E i \in 1..Len(log) : log[i].request = r

(* Where a replay of the first i events leaves the machine. *)
After(events, i) == IF i = 0 THEN "INITIALIZING" ELSE events[i].to

(* The constructor accepts a history in which every event starts where the *)
(* one before it ended and is an edge of the table; on any other it raises *)
(* ReplayIntegrityError and the engine does not start.                     *)
ReplayOk(events) ==
    \A i \in 1..Len(events) :
        /\ events[i].from = After(events, i - 1)
        /\ IsLegal(events[i].from, events[i].trigger)
        /\ NextState(events[i].from, events[i].trigger) = events[i].to

Init ==
    /\ log = <<>>
    /\ state = "INITIALIZING"
    /\ up = TRUE
    /\ holder = NoCaller
    /\ pc = [c \in Caller |-> "idle"]
    /\ call = [c \in Caller |-> NoCall]

(* Slip: transition() does not take the lock. *)
LockIgnored == TRUE

LockFree == holder = NoCaller

(* Slip: the state in memory changes before the event is durable. *)
MutateFirst(c, trigger, r) ==
    /\ up
    /\ pc[c] = "idle"
    /\ LockFree
    /\ ~ Known(r)
    /\ IsLegal(state, trigger)
    /\ Len(log) < MaxLog
    /\ holder' = c
    /\ call' = [call EXCEPT ![c] = [request |-> r, from |-> state, trigger |-> trigger,
                                    to |-> NextState(state, trigger)]]
    /\ pc' = [pc EXCEPT ![c] = "checked"]
    /\ state' = NextState(state, trigger)
    /\ UNCHANGED <<log, up>>

(* transition(): lock, look the request id up, check the table.  A known   *)
(* request id returns its old outcome and an illegal trigger raises, both  *)
(* without changing anything.                                              *)
Check(c, trigger, r) ==
    /\ up
    /\ pc[c] = "idle"
    /\ LockFree
    /\ ~ Known(r)
    /\ IsLegal(state, trigger)
    /\ Len(log) < MaxLog
    /\ holder' = c
    /\ call' = [call EXCEPT ![c] = [request |-> r, from |-> state, trigger |-> trigger,
                                    to |-> NextState(state, trigger)]]
    /\ pc' = [pc EXCEPT ![c] = "checked"]
    /\ UNCHANGED <<log, state, up>>

(* EventStore.append returns: the transition is durable. *)
Persist(c) ==
    /\ pc[c] = "checked"
    /\ log' = Append(log, call[c])
    /\ pc' = [pc EXCEPT ![c] = "recorded"]
    /\ UNCHANGED <<state, up, holder, call>>

Leave(c) ==
    /\ holder' = NoCaller
    /\ pc' = [pc EXCEPT ![c] = "idle"]
    /\ call' = [call EXCEPT ![c] = NoCall]

(* EventStore.append raises: nothing recorded, nothing changed. *)
PersistFails(c) ==
    /\ pc[c] = "checked"
    /\ Leave(c)
    /\ UNCHANGED <<log, state, up>>

Mutate(c) ==
    /\ pc[c] = "recorded"
    /\ state' = call[c].to
    /\ Leave(c)
    /\ UNCHANGED <<log, up>>

Crash ==
    /\ up
    /\ up' = FALSE
    /\ holder' = NoCaller
    /\ pc' = [c \in Caller |-> "idle"]
    /\ call' = [c \in Caller |-> NoCall]
    /\ UNCHANGED <<log, state>>

(* __init__: replay. *)
Restart ==
    /\ ~ up
    /\ ReplayOk(log)
    /\ up' = TRUE
    /\ state' = After(log, Len(log))
    /\ UNCHANGED <<log, holder, pc, call>>

Next ==
    \/ \E c \in Caller :
          \/ \E trigger \in Trigger, r \in Request : Check(c, trigger, r)
          \/ Persist(c)
          \/ PersistFails(c)
          \/ Mutate(c)
    \/ Crash
    \/ Restart

Spec == Init /\ [][Next]_vars

-----------------------------------------------------------------------------
(* Every variable has its type. *)
TypeOK ==
    /\ log \in Seq(Record)
    /\ state \in State
    /\ up \in BOOLEAN
    /\ holder \in Caller \cup {NoCaller}
    /\ pc \in [Caller -> {"idle", "checked", "recorded"}]
    /\ call \in [Caller -> Record \cup {NoCall}]

(* However calls interleave and wherever the process dies, the history can *)
(* be replayed: two threads never record transitions from the same state.  *)
AlwaysReplays == ReplayOk(log)

(* A request id is recorded at most once, so a retry after a crash is not  *)
(* a second transition.                                                    *)
RequestOnce ==
    \A i, j \in 1..Len(log) : log[i].request = log[j].request => i = j

(* Outside a critical section the state in memory is the state a restart   *)
(* would rebuild.                                                          *)
MemoryIsHistory == up /\ LockFree => state = After(log, Len(log))

(* An emergency kill is one-way, across restarts too: once recorded, the   *)
(* machine is never again seen in a state other than EMERGENCY_KILL or     *)
(* STOPPED (transitions.py, design notes).                                 *)
Killed == \E i \in 1..Len(log) : log[i].to = "EMERGENCY_KILL"

EmergencyIsFinal ==
    Killed /\ up /\ LockFree => state \in {"EMERGENCY_KILL", "STOPPED"}

(* Trading resumes after a kill only through reconciliation: a READY that  *)
(* follows a kill has a RECONCILED between the two.                        *)
ReconcilesBeforeTrading ==
    \A i, j \in 1..Len(log) :
        i < j /\ log[i].to \in Kill /\ log[j].to = "READY"
          => \E k \in i + 1..j : log[k].trigger = "RECONCILED"
=============================================================================
