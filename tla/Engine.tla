------------------------------- MODULE Engine -------------------------------
(***************************************************************************)
(* The running engine: the application's state and its threads             *)
(* (src/app/runtime/state.py, worker.py, src/app/api/app.py), the trading  *)
(* cycle (src/trading_system/scheduling/cycle.py) and the wiring           *)
(* (src/composition_root).                                                 *)
(*                                                                         *)
(* Cycles of the startup, the worker and a request, an emergency stop and  *)
(* the shutdown contend for the engine lock.  A cycle may fail at any      *)
(* step, a submitted order may arrive after its submit was given up, and   *)
(* the process may crash and be built again from what is durable.          *)
(***************************************************************************)
EXTENDS Integers, FiniteSets

CONSTANTS Symbol,
          Requests,  \* threads that run a cycle on request: API, Telegram
          MaxSends,  \* bound: orders transmitted
          MaxLives,  \* bound: lives of the process
          None

ASSUME EngineAssumption ==
    /\ MaxSends \in Nat /\ MaxLives \in Nat
    /\ Requests \cap {"main", "worker", "operator"} = {}
    /\ None \notin Requests \cup {"main", "worker", "operator"}

Runner == {"main", "worker"} \cup Requests
Thread == Runner \cup {"operator"}

VARIABLES up,        \* the process runs
          storeOpen, \* the event store is open
          started,   \* Engine._started
          revoked,   \* the signing boundary and the wallet signer are revoked
          flag,      \* AppState.emergency_stopped
          esm,       \* the durable execution state: "live" or "killed"
          lock,      \* the holder of engine_lock, or None
          at,        \* where each thread is
          todo,      \* approved requests of the running cycle
          shown,     \* latest_snapshot: None, or what it says of the kill
          book,      \* live orders at the venue that were acknowledged, by key
          late,      \* live orders at the venue that arrived late, by key
          flying,    \* submits given up whose request is still on its way, by key
          excused,   \* the last stop could not cancel: not started, or a fault
          sends, life

vars == <<up, storeOpen, started, revoked, flag, esm, lock, at, todo, shown, book, late,
          flying, excused, sends, life>>

market == <<book, late, flying, sends>>
stop == <<revoked, flag, esm, excused>>

-----------------------------------------------------------------------------
(* An order's key is its symbol and whether it only reduces a position. *)
Key == Symbol \X BOOLEAN
Nothing == [k \in Key |-> 0]

(* The threads that serve are started after the startup cycle, and the     *)
(* worker's loop and the server stop when the lifespan ends.               *)
Serving == up /\ at["main"] = "idle"
CycleSteps == {"start", "observe", "place"}

(* Slip: only resting entries are looked at. *)
LiveEntryKeys == {k \in Key : book[k] + late[k] > 0 /\ ~ k[2]}

(* The keys of the orders the adapter lists that are not terminal. *)
LiveKeys == {k \in Key : book[k] + late[k] > 0}

(* construct_trade_requests keeps one intent a symbol; which of them the   *)
(* strategies emit, sizing keeps and the risk manager approves is open.    *)
Constructed(keys) ==
    {S \in SUBSET keys : \A k, l \in S : k[1] = l[1] => k = l}

(* Slip: the kill state is left to the risk manager. *)
MayRunAlways == TRUE

(* The gate of run_one_cycle. *)
MayRun == ~ flag /\ esm # "killed"

(* What a snapshot says of the kill: taken by the cycle from the venue and *)
(* the engine, or from memory alone.                                       *)
CaptureSnapshot == esm = "killed"
CheapSnapshot == esm = "killed"
SnapshotForReads == IF shown = None THEN CheapSnapshot ELSE shown

-----------------------------------------------------------------------------
Init ==
    /\ up = FALSE /\ storeOpen = FALSE /\ started = FALSE
    /\ revoked = FALSE /\ flag = FALSE /\ esm = "live"
    /\ lock = None /\ at = [t \in Thread |-> "idle"] /\ todo = {}
    /\ shown = None
    /\ book = Nothing /\ late = Nothing /\ flying = Nothing
    /\ excused = FALSE /\ sends = 0 /\ life = 0

(* AppState.create: a kill of an earlier life is found by replay. *)
Restored == esm = "killed"

(* build_engine and AppState.create: signing is whole again, the kill is   *)
(* read from the replayed state.  The startup cycle comes first.  A build  *)
(* that fails closes the store and leaves nothing up.                      *)
Build ==
    /\ ~ up /\ life < MaxLives
    /\ life' = life + 1
    /\ up' = TRUE /\ storeOpen' = TRUE
    /\ flag' = Restored
    /\ at' = [at EXCEPT !["main"] = "waiting"]
    /\ UNCHANGED <<started, revoked, esm, lock, todo, shown, excused>>
    /\ UNCHANGED market

(* The process ends, anywhere. *)
Crash ==
    /\ up
    /\ up' = FALSE /\ storeOpen' = FALSE /\ started' = FALSE
    /\ revoked' = FALSE /\ flag' = FALSE
    /\ lock' = None /\ at' = [t \in Thread |-> "idle"] /\ todo' = {}
    /\ shown' = None
    /\ UNCHANGED <<esm, excused, life>>
    /\ UNCHANGED market

-----------------------------------------------------------------------------
(* run_one_cycle *)

(* A thread goes for the lock, and keeps waiting for it though a shutdown  *)
(* is signalled meanwhile.                                                 *)
Ask(t) ==
    /\ Serving /\ at[t] = "idle"
    /\ at' = [at EXCEPT ![t] = "waiting"]
    /\ UNCHANGED <<up, storeOpen, started, lock, todo, shown, life>>
    /\ UNCHANGED stop /\ UNCHANGED market

(* The worker's loop comes round. *)
WorkerTick == Ask("worker")

(* POST /cycle/run, or /cycle of the Telegram bot. *)
RequestCycle(t) == Ask(t)

BeginCycle(t) ==
    /\ at[t] = "waiting" /\ lock = None
    /\ IF MayRun
       THEN lock' = t /\ at' = [at EXCEPT ![t] = "start"]
       ELSE lock' = None /\ at' = [at EXCEPT ![t] = "idle"]
    /\ UNCHANGED <<up, storeOpen, started, todo, shown, life>>
    /\ UNCHANGED stop /\ UNCHANGED market

(* Engine.start: connect signs with the boundary. *)
StartEngine(t) ==
    /\ at[t] = "start"
    /\ started \/ ~ revoked
    /\ started' = TRUE
    /\ at' = [at EXCEPT ![t] = "observe"]
    /\ UNCHANGED <<up, storeOpen, lock, todo, shown, life>>
    /\ UNCHANGED stop /\ UNCHANGED market

(* synchronize and reconcile, the intents, the live orders, construction:  *)
(* one read of the venue decides what this cycle may place.                *)
Observe(t) ==
    /\ at[t] = "observe"
    /\ todo' \in Constructed(Key \ LiveKeys)
    /\ at' = [at EXCEPT ![t] = "place"]
    /\ UNCHANGED <<up, storeOpen, started, lock, shown, life>>
    /\ UNCHANGED stop /\ UNCHANGED market

(* What a transmitted order becomes: it rests, or is filled or rejected at *)
(* once, or the submit times out, which aborts the cycle.                  *)
Transmitted(t, k) ==
    /\ sends < MaxSends /\ sends' = sends + 1
    /\ \/ /\ book' \in {book, [book EXCEPT ![k] = @ + 1]}
          /\ todo' = todo \ {k}
          /\ UNCHANGED <<flying, lock, at>>
       \/ /\ flying' = [flying EXCEPT ![k] = @ + 1]
          /\ lock' = None /\ at' = [at EXCEPT ![t] = "idle"] /\ todo' = {}
          /\ UNCHANGED book
    /\ UNCHANGED <<up, storeOpen, started, shown, late, life>>
    /\ UNCHANGED stop

(* Slip: the order is recorded once the venue has answered. *)
PlaceUnrecorded(t) ==
    /\ at[t] = "place" /\ ~ revoked
    /\ \E k \in todo : Transmitted(t, k)

(* execute_place: OrderManager appends the submit before it transmits. *)
Place(t) ==
    /\ at[t] = "place" /\ ~ revoked
    /\ storeOpen
    /\ \E k \in todo : Transmitted(t, k)

(* The cycle's end refreshes the snapshot, or fails to. *)
FinishCycle(t) ==
    /\ at[t] = "place" /\ todo = {}
    /\ shown' \in {shown, CaptureSnapshot}
    /\ lock' = None /\ at' = [at EXCEPT ![t] = "idle"]
    /\ UNCHANGED <<up, storeOpen, started, todo, life>>
    /\ UNCHANGED stop /\ UNCHANGED market

(* Any step may raise: the lock is released and the thread goes on. *)
FailCycle(t) ==
    /\ at[t] \in CycleSteps
    /\ todo' = {} /\ lock' = None /\ at' = [at EXCEPT ![t] = "idle"]
    /\ UNCHANGED <<up, storeOpen, started, shown, life>>
    /\ UNCHANGED stop /\ UNCHANGED market

-----------------------------------------------------------------------------
(* emergency_stop *)

(* POST /control/emergency-stop or /stop. *)
AskStop == Ask("operator")

(* Slip: signing is revoked first. *)
BeginStopRevoking ==
    /\ at["operator"] = "waiting" /\ lock = None
    /\ lock' = "operator"
    /\ at' = [at EXCEPT !["operator"] = "cancel"]
    /\ revoked' = TRUE
    /\ UNCHANGED <<up, storeOpen, started, todo, shown, life, flag, esm, excused>>
    /\ UNCHANGED market

BeginStop ==
    /\ at["operator"] = "waiting" /\ lock = None
    /\ lock' = "operator"
    /\ at' = [at EXCEPT !["operator"] = "cancel"]
    /\ UNCHANGED <<up, storeOpen, started, todo, shown, life>>
    /\ UNCHANGED stop /\ UNCHANGED market

(* OrderManager.cancel_all cancels every live order the venue knows; a     *)
(* fault of the store or the venue leaves any of them.                     *)
CancelAll ==
    \/ /\ storeOpen
       /\ excused' = FALSE
       /\ IF revoked THEN UNCHANGED <<book, late>>
          ELSE book' = Nothing /\ late' = Nothing
    \/ /\ excused' = TRUE
       /\ \E gone \in IF revoked \/ ~ storeOpen THEN {{}} ELSE SUBSET LiveKeys :
            /\ book' = [k \in Key |-> IF k \in gone THEN 0 ELSE book[k]]
            /\ late' = [k \in Key |-> IF k \in gone THEN 0 ELSE late[k]]

(* Slip: a cancel_all that fails ends the stop. *)
StopCancelsOrRaises ==
    /\ at["operator"] = "cancel"
    /\ \/ /\ flag \/ esm = "killed" \/ ~ started
          /\ at' = [at EXCEPT !["operator"] = "revoke"] /\ UNCHANGED lock
          /\ excused' = (excused \/ ~ started) /\ UNCHANGED <<book, late>>
       \/ /\ ~ flag /\ esm # "killed" /\ started
          /\ CancelAll
          /\ IF excused' THEN at' = [at EXCEPT !["operator"] = "idle"] /\ lock' = None
             ELSE at' = [at EXCEPT !["operator"] = "revoke"] /\ UNCHANGED lock
    /\ UNCHANGED <<up, storeOpen, started, todo, shown, life, revoked, flag, esm,
                   flying, sends>>

(* Once, while signing is valid, and only if the engine is started. *)
StopCancels ==
    /\ at["operator"] = "cancel"
    /\ \/ /\ flag \/ esm = "killed"
          /\ UNCHANGED <<excused, book, late>>
       \/ /\ ~ flag /\ esm # "killed" /\ ~ started
          /\ excused' = TRUE /\ UNCHANGED <<book, late>>
       \/ /\ ~ flag /\ esm # "killed" /\ started
          /\ CancelAll
    /\ at' = [at EXCEPT !["operator"] = "revoke"]
    /\ UNCHANGED <<up, storeOpen, started, lock, todo, shown, life, revoked, flag, esm,
                   flying, sends>>

(* revoke_all, then the wallet signer. *)
StopRevokes ==
    /\ at["operator"] = "revoke"
    /\ revoked' = TRUE
    /\ at' = [at EXCEPT !["operator"] = "record"]
    /\ UNCHANGED <<up, storeOpen, started, lock, todo, shown, life, flag, esm, excused>>
    /\ UNCHANGED market

(* The transition into EMERGENCY_KILL; an append that fails is only noted. *)
StopRecords ==
    /\ at["operator"] = "record"
    /\ esm' \in IF storeOpen THEN {esm, "killed"} ELSE {esm}
    /\ at' = [at EXCEPT !["operator"] = "show"]
    /\ UNCHANGED <<up, storeOpen, started, lock, todo, shown, life, revoked, flag, excused>>
    /\ UNCHANGED market

StopShows ==
    /\ at["operator"] = "show"
    /\ flag' = TRUE
    /\ shown' = CheapSnapshot
    /\ lock' = None /\ at' = [at EXCEPT !["operator"] = "idle"]
    /\ UNCHANGED <<up, storeOpen, started, todo, life, revoked, esm, excused>>
    /\ UNCHANGED market

-----------------------------------------------------------------------------
(* The lifespan ends: the worker is told to stop and its join may time     *)
(* out, so that threads still wait for the lock or run a cycle.            *)
LeaveLifespan ==
    /\ Serving
    /\ at' = [at EXCEPT !["main"] = "leaving"]
    /\ UNCHANGED <<up, storeOpen, started, lock, todo, shown, life>>
    /\ UNCHANGED stop /\ UNCHANGED market

(* Engine.stop *)
StopEngine == storeOpen' = FALSE /\ started' = FALSE

(* AppState.shutdown *)
Shutdown ==
    /\ at["main"] = "leaving" /\ lock = None
    /\ StopEngine
    /\ at' = [at EXCEPT !["main"] = "closed"]
    /\ UNCHANGED <<up, lock, todo, shown, life>>
    /\ UNCHANGED stop /\ UNCHANGED market

-----------------------------------------------------------------------------
(* The venue: an order is filled or cancelled there; a late request        *)
(* arrives, or is lost.                                                    *)
VenueEnds(k) ==
    /\ \/ book[k] > 0 /\ book' = [book EXCEPT ![k] = @ - 1] /\ UNCHANGED late
       \/ late[k] > 0 /\ late' = [late EXCEPT ![k] = @ - 1] /\ UNCHANGED book
    /\ UNCHANGED <<up, storeOpen, started, lock, at, todo, shown, life, flying, sends>>
    /\ UNCHANGED stop

VenueReceives(k) ==
    /\ flying[k] > 0 /\ flying' = [flying EXCEPT ![k] = @ - 1]
    /\ late' \in {late, [late EXCEPT ![k] = @ + 1]}
    /\ UNCHANGED <<up, storeOpen, started, lock, at, todo, shown, life, book, sends>>
    /\ UNCHANGED stop

CycleStep(t) == StartEngine(t) \/ Observe(t) \/ Place(t) \/ FinishCycle(t) \/ FailCycle(t)
StopStep == StopCancels \/ StopRevokes \/ StopRecords \/ StopShows

Next ==
    \/ Build \/ Crash
    \/ WorkerTick \/ \E t \in Requests : RequestCycle(t)
    \/ \E t \in Runner : BeginCycle(t) \/ CycleStep(t)
    \/ AskStop \/ BeginStop \/ StopStep
    \/ LeaveLifespan \/ Shutdown
    \/ \E k \in Key : VenueEnds(k) \/ VenueReceives(k)

Spec == Init /\ [][Next]_vars

(* A thread that holds the lock goes on: every call it makes has a         *)
(* timeout.  A thread that waits for the lock is not passed over for ever: *)
(* the worker sleeps outside the lock after every cycle.                   *)
Fairness ==
    /\ \A t \in Runner : WF_vars(CycleStep(t))
    /\ WF_vars(StopStep)
    /\ SF_vars(BeginStop)

FairSpec == Spec /\ Fairness

-----------------------------------------------------------------------------
(* Once a kill is durable no thread is inside a cycle, in this life of the *)
(* process or in a later one, and once the stop has let go of the lock     *)
(* every read of the status shows it.                                      *)
KillHolds ==
    esm = "killed" => /\ \A t \in Runner : at[t] \notin CycleSteps
                      /\ flag /\ lock # "operator" => SnapshotForReads

(* After an emergency stop nothing the engine placed rests at the venue,   *)
(* unless the stop found the engine not started, or the cancel_all failed  *)
(* or was answered in part, or the order arrived after its submit was      *)
(* given up.                                                               *)
StopLeavesNothing == flag /\ ~ excused => book = Nothing

(* Cycle after cycle, across restarts, at most one acknowledged order of   *)
(* the engine rests for a symbol and direction of risk: a second one can   *)
(* only be a submit that timed out and arrived late.                       *)
NoStacking == \A k \in Key : book[k] <= 1

(* A cycle that runs on after the shutdown, which reconnects the adapter,  *)
(* transmits nothing: what cannot be recorded is not sent.                 *)
ClosedSendsNothing == [][sends' # sends => storeOpen]_vars

(* A stop that was asked for revokes signing and raises the flag, whatever *)
(* the venue or the store does, unless the process dies first.             *)
StopCompletes == at["operator"] = "waiting" ~> (revoked /\ flag) \/ ~ up
=============================================================================
