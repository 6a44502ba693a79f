----------------------------- MODULE EngineProofs -----------------------------
(***************************************************************************)
(* Proofs about the running engine, for any symbols, any threads that ask  *)
(* for a cycle, and any number of orders and lives: after a kill no cycle  *)
(* runs, a stop that could cancel leaves nothing, orders do not stack, and *)
(* a closed engine transmits nothing.                                      *)
(***************************************************************************)
EXTENDS Engine, TLAPS

StopSteps == {"cancel", "revoke", "record", "show"}
Point == {"idle", "waiting", "leaving", "closed"} \cup CycleSteps \cup StopSteps

TypeOK ==
    /\ up \in BOOLEAN /\ storeOpen \in BOOLEAN /\ started \in BOOLEAN
    /\ revoked \in BOOLEAN /\ flag \in BOOLEAN /\ excused \in BOOLEAN
    /\ esm \in {"live", "killed"}
    /\ lock \in Thread \cup {None}
    /\ at \in [Thread -> Point]
    /\ todo \subseteq Key
    /\ shown \in BOOLEAN \cup {None}
    /\ book \in [Key -> Nat] /\ late \in [Key -> Nat] /\ flying \in [Key -> Nat]
    /\ sends \in Nat /\ life \in Nat

-----------------------------------------------------------------------------
(* The inductive invariant *)

(* Whoever is inside a cycle or inside a stop holds the engine lock. *)
InsideHolds ==
    /\ \A t \in Runner : at[t] \in CycleSteps => lock = t
    /\ at["operator"] \in StopSteps => lock = "operator"

(* What is still to be placed has no acknowledged order at the venue. *)
TodoIsFresh == \A k \in todo : book[k] = 0

(* A process that does not run has no thread anywhere and remembers no     *)
(* stop and no snapshot.                                                   *)
DownIsBlank ==
    ~ up => ~ flag /\ ~ revoked /\ shown = None /\ \A t \in Thread : at[t] = "idle"

(* Signing is revoked by a stop only, which goes on to raise the flag. *)
RevokedIsStopped == revoked => flag \/ at["operator"] \in {"record", "show"}

(* Neither a flag nor a durable kill meets a running cycle. *)
StoppedIsQuiet ==
    flag \/ esm = "killed" => \A t \in Runner : at[t] \notin CycleSteps

(* From the moment cancel_all has succeeded until a process starts that    *)
(* knows of no kill, nothing acknowledged rests.                           *)
StoppedIsEmpty ==
    /\ ~ excused
    /\ flag \/ esm = "killed" \/ at["operator"] \in {"revoke", "record", "show"}
    => book = Nothing

(* Once the stop has shown it, the cached snapshot tells of the kill. *)
KilledIsShown ==
    esm = "killed" /\ flag /\ at["operator"] # "show" => shown \in {None, TRUE}

EngineInv ==
    /\ TypeOK
    /\ InsideHolds
    /\ TodoIsFresh
    /\ DownIsBlank
    /\ RevokedIsStopped
    /\ StoppedIsQuiet
    /\ StoppedIsEmpty
    /\ KilledIsShown
    /\ NoStacking

-----------------------------------------------------------------------------
(* The three kinds of thread differ, and None is none of them. *)
LEMMA ThreadsDiffer ==
    /\ "main" \in Runner /\ "worker" \in Runner /\ Requests \subseteq Runner
    /\ "operator" \in Thread /\ "operator" \notin Runner /\ Runner \subseteq Thread
    /\ None \notin Thread
  BY EngineAssumption DEF Runner, Thread

(* The engine begins with nothing running and nothing at the venue. *)
LEMMA InitEngine == Init => EngineInv
  <1> SUFFICES ASSUME Init PROVE EngineInv
    OBVIOUS
  <1> USE ThreadsDiffer DEF Init, Nothing
  <1>1. TypeOK
    BY DEF TypeOK, Point
  <1>2. InsideHolds /\ StoppedIsQuiet
    BY DEF InsideHolds, StoppedIsQuiet, CycleSteps, StopSteps
  <1>3. TodoIsFresh /\ DownIsBlank /\ RevokedIsStopped /\ StoppedIsEmpty /\ KilledIsShown
    BY DEF TodoIsFresh, DownIsBlank, RevokedIsStopped, StoppedIsEmpty, KilledIsShown
  <1>4. NoStacking
    BY DEF NoStacking
  <1> QED BY <1>1, <1>2, <1>3, <1>4 DEF EngineInv

(* A new process finds a durable kill by replay and holds nothing else of  *)
(* the old one.                                                            *)
LEMMA BuildKeeps == EngineInv /\ Build => EngineInv'
  <1> SUFFICES ASSUME EngineInv, Build PROVE EngineInv'
    OBVIOUS
  <1> USE ThreadsDiffer DEF EngineInv, Build, market
  <1>1. TypeOK'
    BY DEF TypeOK, Point, Restored
  <1>2. InsideHolds' /\ StoppedIsQuiet'
    BY DEF InsideHolds, StoppedIsQuiet, CycleSteps, StopSteps, TypeOK, Restored
  <1>3. TodoIsFresh' /\ DownIsBlank' /\ RevokedIsStopped'
    BY DEF TodoIsFresh, DownIsBlank, RevokedIsStopped, TypeOK
  <1>4. StoppedIsEmpty' /\ KilledIsShown'
    BY DEF StoppedIsEmpty, KilledIsShown, DownIsBlank, TypeOK, Restored
  <1>5. NoStacking'
    BY DEF NoStacking
  <1> QED BY <1>1, <1>2, <1>3, <1>4, <1>5

(* A crash takes the flag along and leaves the kill and the venue. *)
LEMMA CrashKeeps == EngineInv /\ Crash => EngineInv'
  <1> SUFFICES ASSUME EngineInv, Crash PROVE EngineInv'
    OBVIOUS
  <1> USE ThreadsDiffer DEF EngineInv, Crash, market
  <1>1. TypeOK'
    BY DEF TypeOK, Point
  <1>2. InsideHolds' /\ StoppedIsQuiet'
    BY DEF InsideHolds, StoppedIsQuiet, CycleSteps, StopSteps, TypeOK
  <1>3. TodoIsFresh' /\ DownIsBlank' /\ RevokedIsStopped'
    BY DEF TodoIsFresh, DownIsBlank, RevokedIsStopped, TypeOK
  <1>4. StoppedIsEmpty' /\ KilledIsShown'
    BY DEF StoppedIsEmpty, KilledIsShown, DownIsBlank, TypeOK
  <1>5. NoStacking'
    BY DEF NoStacking
  <1> QED BY <1>1, <1>2, <1>3, <1>4, <1>5

(* A thread goes for the lock. *)
LEMMA AskKeeps ==
  ASSUME NEW t \in Thread, EngineInv, Ask(t)
  PROVE  EngineInv'
  <1> USE ThreadsDiffer DEF EngineInv, Ask, stop, market
  <1>1. TypeOK'
    BY DEF TypeOK, Point, CycleSteps, StopSteps
  <1>2. InsideHolds' /\ StoppedIsQuiet'
    BY DEF InsideHolds, StoppedIsQuiet, CycleSteps, StopSteps, TypeOK
  <1>3. TodoIsFresh' /\ DownIsBlank' /\ RevokedIsStopped'
    BY DEF TodoIsFresh, DownIsBlank, RevokedIsStopped, TypeOK, Serving
  <1>4. StoppedIsEmpty' /\ KilledIsShown'
    BY DEF StoppedIsEmpty, KilledIsShown, TypeOK
  <1>5. NoStacking'
    BY DEF NoStacking
  <1> QED BY <1>1, <1>2, <1>3, <1>4, <1>5

(* A cycle begins only where neither flag nor kill is. *)
LEMMA BeginCycleKeeps ==
  ASSUME NEW t \in Runner, EngineInv, BeginCycle(t)
  PROVE  EngineInv'
  <1> USE ThreadsDiffer DEF EngineInv, BeginCycle, MayRun, stop, market
  <1>1. TypeOK'
    BY DEF TypeOK, Point, CycleSteps, StopSteps
  <1>2. InsideHolds' /\ StoppedIsQuiet'
    BY DEF InsideHolds, StoppedIsQuiet, CycleSteps, StopSteps, TypeOK
  <1>3. TodoIsFresh' /\ DownIsBlank' /\ RevokedIsStopped'
    BY DEF TodoIsFresh, DownIsBlank, RevokedIsStopped, TypeOK
  <1>4. StoppedIsEmpty' /\ KilledIsShown'
    BY DEF StoppedIsEmpty, KilledIsShown, TypeOK
  <1>5. NoStacking'
    BY DEF NoStacking
  <1> QED BY <1>1, <1>2, <1>3, <1>4, <1>5

(* Engine.start changes nothing a stop or the venue knows. *)
LEMMA StartEngineKeeps ==
  ASSUME NEW t \in Runner, EngineInv, StartEngine(t)
  PROVE  EngineInv'
  <1> USE ThreadsDiffer DEF EngineInv, StartEngine, stop, market
  <1>1. TypeOK'
    BY DEF TypeOK, Point, CycleSteps, StopSteps
  <1>2. InsideHolds' /\ StoppedIsQuiet'
    BY DEF InsideHolds, StoppedIsQuiet, CycleSteps, StopSteps, TypeOK
  <1>3. TodoIsFresh' /\ DownIsBlank' /\ RevokedIsStopped'
    BY DEF TodoIsFresh, DownIsBlank, RevokedIsStopped, TypeOK
  <1>4. StoppedIsEmpty' /\ KilledIsShown'
    BY DEF StoppedIsEmpty, KilledIsShown, TypeOK
  <1>5. NoStacking'
    BY DEF NoStacking
  <1> QED BY <1>1, <1>2, <1>3, <1>4, <1>5

(* What a cycle decides to place has no live order, so none acknowledged. *)
LEMMA ObserveKeeps ==
  ASSUME NEW t \in Runner, EngineInv, Observe(t)
  PROVE  EngineInv'
  <1> USE ThreadsDiffer DEF EngineInv, Observe, Constructed, LiveKeys, stop, market
  <1>1. TypeOK'
    BY DEF TypeOK, Point, CycleSteps, StopSteps
  <1>2. InsideHolds' /\ StoppedIsQuiet'
    BY DEF InsideHolds, StoppedIsQuiet, CycleSteps, StopSteps, TypeOK
  <1>3. TodoIsFresh' /\ DownIsBlank' /\ RevokedIsStopped'
    BY DEF TodoIsFresh, DownIsBlank, RevokedIsStopped, TypeOK
  <1>4. StoppedIsEmpty' /\ KilledIsShown'
    BY DEF StoppedIsEmpty, KilledIsShown, TypeOK
  <1>5. NoStacking'
    BY DEF NoStacking
  <1> QED BY <1>1, <1>2, <1>3, <1>4, <1>5

(* The end of a cycle takes a snapshot while no kill is durable. *)
LEMMA FinishCycleKeeps ==
  ASSUME NEW t \in Runner, EngineInv, FinishCycle(t)
  PROVE  EngineInv'
  <1> USE ThreadsDiffer DEF EngineInv, FinishCycle, CaptureSnapshot, stop, market
  <1>1. TypeOK'
    BY DEF TypeOK, Point, CycleSteps, StopSteps
  <1>2. InsideHolds' /\ StoppedIsQuiet'
    BY DEF InsideHolds, StoppedIsQuiet, CycleSteps, StopSteps, TypeOK
  <1>3. TodoIsFresh' /\ DownIsBlank' /\ RevokedIsStopped'
    BY DEF TodoIsFresh, DownIsBlank, RevokedIsStopped, TypeOK
  <1>4. StoppedIsEmpty' /\ KilledIsShown'
    BY DEF StoppedIsEmpty, KilledIsShown, TypeOK, StoppedIsQuiet, CycleSteps
  <1>5. NoStacking'
    BY DEF NoStacking
  <1> QED BY <1>1, <1>2, <1>3, <1>4, <1>5

(* A cycle that raises gives the lock back and drops what it had to do. *)
LEMMA FailCycleKeeps ==
  ASSUME NEW t \in Runner, EngineInv, FailCycle(t)
  PROVE  EngineInv'
  <1> USE ThreadsDiffer DEF EngineInv, FailCycle, stop, market
  <1>1. TypeOK'
    BY DEF TypeOK, Point, CycleSteps, StopSteps
  <1>2. InsideHolds' /\ StoppedIsQuiet'
    BY DEF InsideHolds, StoppedIsQuiet, CycleSteps, StopSteps, TypeOK
  <1>3. TodoIsFresh' /\ DownIsBlank' /\ RevokedIsStopped'
    BY DEF TodoIsFresh, DownIsBlank, RevokedIsStopped, TypeOK
  <1>4. StoppedIsEmpty' /\ KilledIsShown'
    BY DEF StoppedIsEmpty, KilledIsShown, TypeOK
  <1>5. NoStacking'
    BY DEF NoStacking
  <1> QED BY <1>1, <1>2, <1>3, <1>4, <1>5

(* A stop takes the lock: no cycle is inside. *)
LEMMA BeginStopKeeps ==
  ASSUME EngineInv, BeginStop
  PROVE  EngineInv'
  <1> USE ThreadsDiffer DEF EngineInv, BeginStop, stop, market
  <1>1. TypeOK'
    BY DEF TypeOK, Point, CycleSteps, StopSteps
  <1>2. InsideHolds' /\ StoppedIsQuiet'
    BY DEF InsideHolds, StoppedIsQuiet, CycleSteps, StopSteps, TypeOK
  <1>3. TodoIsFresh' /\ DownIsBlank' /\ RevokedIsStopped'
    BY DEF TodoIsFresh, DownIsBlank, RevokedIsStopped, TypeOK
  <1>4. StoppedIsEmpty' /\ KilledIsShown'
    BY DEF StoppedIsEmpty, KilledIsShown, TypeOK
  <1>5. NoStacking'
    BY DEF NoStacking
  <1> QED BY <1>1, <1>2, <1>3, <1>4, <1>5

(* Revoking is followed by the flag, the lock being held meanwhile. *)
LEMMA StopRevokesKeeps ==
  ASSUME EngineInv, StopRevokes
  PROVE  EngineInv'
  <1> USE ThreadsDiffer DEF EngineInv, StopRevokes, market
  <1>1. TypeOK'
    BY DEF TypeOK, Point, CycleSteps, StopSteps
  <1>2. InsideHolds' /\ StoppedIsQuiet'
    BY DEF InsideHolds, StoppedIsQuiet, CycleSteps, StopSteps, TypeOK
  <1>3. TodoIsFresh' /\ DownIsBlank' /\ RevokedIsStopped'
    BY DEF TodoIsFresh, DownIsBlank, RevokedIsStopped, TypeOK
  <1>4. StoppedIsEmpty' /\ KilledIsShown'
    BY DEF StoppedIsEmpty, KilledIsShown, TypeOK
  <1>5. NoStacking'
    BY DEF NoStacking
  <1> QED BY <1>1, <1>2, <1>3, <1>4, <1>5

(* The durable kill is recorded by the holder of the lock. *)
LEMMA StopRecordsKeeps ==
  ASSUME EngineInv, StopRecords
  PROVE  EngineInv'
  <1> USE ThreadsDiffer DEF EngineInv, StopRecords, market
  <1>1. TypeOK'
    BY DEF TypeOK, Point, CycleSteps, StopSteps
  <1>2. InsideHolds' /\ StoppedIsQuiet'
    BY DEF InsideHolds, StoppedIsQuiet, CycleSteps, StopSteps, TypeOK
  <1>3. TodoIsFresh' /\ DownIsBlank' /\ RevokedIsStopped'
    BY DEF TodoIsFresh, DownIsBlank, RevokedIsStopped, TypeOK
  <1>4. StoppedIsEmpty' /\ KilledIsShown'
    BY DEF StoppedIsEmpty, KilledIsShown, TypeOK
  <1>5. NoStacking'
    BY DEF NoStacking
  <1> QED BY <1>1, <1>2, <1>3, <1>4, <1>5

(* The flag and the snapshot follow the durable kill. *)
LEMMA StopShowsKeeps ==
  ASSUME EngineInv, StopShows
  PROVE  EngineInv'
  <1> USE ThreadsDiffer DEF EngineInv, StopShows, CheapSnapshot, market
  <1>1. TypeOK'
    BY DEF TypeOK, Point, CycleSteps, StopSteps
  <1>2. InsideHolds' /\ StoppedIsQuiet'
    BY DEF InsideHolds, StoppedIsQuiet, CycleSteps, StopSteps, TypeOK
  <1>3. TodoIsFresh' /\ DownIsBlank' /\ RevokedIsStopped'
    BY DEF TodoIsFresh, DownIsBlank, RevokedIsStopped, TypeOK
  <1>4. StoppedIsEmpty' /\ KilledIsShown'
    BY DEF StoppedIsEmpty, KilledIsShown, TypeOK
  <1>5. NoStacking'
    BY DEF NoStacking
  <1> QED BY <1>1, <1>2, <1>3, <1>4, <1>5

(* Leaving the lifespan moves the main thread only. *)
LEMMA LeaveLifespanKeeps ==
  ASSUME EngineInv, LeaveLifespan
  PROVE  EngineInv'
  <1> USE ThreadsDiffer DEF EngineInv, LeaveLifespan, Serving, stop, market
  <1>1. TypeOK'
    BY DEF TypeOK, Point, CycleSteps, StopSteps
  <1>2. InsideHolds' /\ StoppedIsQuiet'
    BY DEF InsideHolds, StoppedIsQuiet, CycleSteps, StopSteps, TypeOK
  <1>3. TodoIsFresh' /\ DownIsBlank' /\ RevokedIsStopped'
    BY DEF TodoIsFresh, DownIsBlank, RevokedIsStopped, TypeOK
  <1>4. StoppedIsEmpty' /\ KilledIsShown'
    BY DEF StoppedIsEmpty, KilledIsShown, TypeOK
  <1>5. NoStacking'
    BY DEF NoStacking
  <1> QED BY <1>1, <1>2, <1>3, <1>4, <1>5

(* Closing the engine moves the main thread only. *)
LEMMA ShutdownKeeps ==
  ASSUME EngineInv, Shutdown
  PROVE  EngineInv'
  <1> USE ThreadsDiffer DEF EngineInv, Shutdown, StopEngine, stop, market
  <1>1. TypeOK'
    BY DEF TypeOK, Point, CycleSteps, StopSteps
  <1>2. InsideHolds' /\ StoppedIsQuiet'
    BY DEF InsideHolds, StoppedIsQuiet, CycleSteps, StopSteps, TypeOK
  <1>3. TodoIsFresh' /\ DownIsBlank' /\ RevokedIsStopped'
    BY DEF TodoIsFresh, DownIsBlank, RevokedIsStopped, TypeOK
  <1>4. StoppedIsEmpty' /\ KilledIsShown'
    BY DEF StoppedIsEmpty, KilledIsShown, TypeOK
  <1>5. NoStacking'
    BY DEF NoStacking
  <1> QED BY <1>1, <1>2, <1>3, <1>4, <1>5

(* An order that ends at the venue makes room. *)
LEMMA VenueEndsKeeps ==
  ASSUME NEW k \in Key, EngineInv, VenueEnds(k)
  PROVE  EngineInv'
  <1> USE ThreadsDiffer DEF EngineInv, VenueEnds, stop
  <1>1. TypeOK'
    BY DEF TypeOK, Point, CycleSteps, StopSteps
  <1>2. InsideHolds' /\ StoppedIsQuiet'
    BY DEF InsideHolds, StoppedIsQuiet, CycleSteps, StopSteps, TypeOK
  <1>3. TodoIsFresh' /\ DownIsBlank' /\ RevokedIsStopped'
    BY DEF TodoIsFresh, DownIsBlank, RevokedIsStopped, TypeOK
  <1>4. StoppedIsEmpty' /\ KilledIsShown'
    <2>1. book = Nothing => book[k] = 0
      BY DEF Nothing
    <2>2. book = Nothing => book' = Nothing
      BY <2>1 DEF TypeOK
    <2> QED BY <2>2 DEF StoppedIsEmpty, KilledIsShown
  <1>5. NoStacking'
    BY DEF NoStacking, TypeOK
  <1> QED BY <1>1, <1>2, <1>3, <1>4, <1>5

(* A late order is no acknowledged one. *)
LEMMA VenueReceivesKeeps ==
  ASSUME NEW k \in Key, EngineInv, VenueReceives(k)
  PROVE  EngineInv'
  <1> USE ThreadsDiffer DEF EngineInv, VenueReceives, stop
  <1>1. TypeOK'
    BY DEF TypeOK, Point, CycleSteps, StopSteps
  <1>2. InsideHolds' /\ StoppedIsQuiet'
    BY DEF InsideHolds, StoppedIsQuiet, CycleSteps, StopSteps, TypeOK
  <1>3. TodoIsFresh' /\ DownIsBlank' /\ RevokedIsStopped'
    BY DEF TodoIsFresh, DownIsBlank, RevokedIsStopped, TypeOK
  <1>4. StoppedIsEmpty' /\ KilledIsShown'
    BY DEF StoppedIsEmpty, KilledIsShown, TypeOK
  <1>5. NoStacking'
    BY DEF NoStacking
  <1> QED BY <1>1, <1>2, <1>3, <1>4, <1>5

(* cancel_all is asked while signing is whole, so what it says is so. *)
LEMMA StopCancelsKeeps ==
  ASSUME EngineInv, StopCancels
  PROVE  EngineInv'
  <1> USE ThreadsDiffer DEF EngineInv, StopCancels, CancelAll, Nothing
  <1>1. TypeOK'
    <2>1. at' \in [Thread -> Point] /\ excused' \in BOOLEAN
      BY DEF TypeOK, Point, StopSteps
    <2>2. book' \in [Key -> Nat] /\ late' \in [Key -> Nat]
      BY DEF TypeOK
    <2> QED BY <2>1, <2>2 DEF TypeOK
  <1>2. InsideHolds' /\ StoppedIsQuiet'
    BY DEF InsideHolds, StoppedIsQuiet, CycleSteps, StopSteps, TypeOK
  <1>3. TodoIsFresh' /\ DownIsBlank' /\ RevokedIsStopped'
    BY DEF TodoIsFresh, DownIsBlank, RevokedIsStopped, TypeOK
  <1>4. StoppedIsEmpty' /\ KilledIsShown'
    BY DEF StoppedIsEmpty, KilledIsShown, RevokedIsStopped, TypeOK
  <1>5. NoStacking'
    BY DEF NoStacking
  <1> QED BY <1>1, <1>2, <1>3, <1>4, <1>5

(* An order is placed where none acknowledged rests, and not in a stop. *)
LEMMA PlaceKeeps ==
  ASSUME NEW t \in Runner, EngineInv, Place(t)
  PROVE  EngineInv'
  <1> USE ThreadsDiffer DEF EngineInv, Place, Transmitted, stop
  <1>1. TypeOK'
    BY DEF TypeOK, Point, CycleSteps, StopSteps
  <1>2. InsideHolds' /\ StoppedIsQuiet'
    BY DEF InsideHolds, StoppedIsQuiet, CycleSteps, StopSteps, TypeOK
  <1>3. TodoIsFresh' /\ DownIsBlank' /\ RevokedIsStopped'
    BY DEF TodoIsFresh, DownIsBlank, RevokedIsStopped, TypeOK
  <1>4. StoppedIsEmpty' /\ KilledIsShown'
    <2>1. lock = t /\ ~ flag /\ esm # "killed" /\ t # "operator"
      BY DEF StoppedIsQuiet, InsideHolds, CycleSteps, TypeOK
    <2>2. at["operator"] \notin StopSteps
      BY <2>1 DEF InsideHolds
    <2>3. at'["operator"] = at["operator"] /\ flag' = flag /\ esm' = esm
      BY <2>1 DEF TypeOK
    <2> QED BY <2>1, <2>2, <2>3 DEF StoppedIsEmpty, KilledIsShown, StopSteps
  <1>5. NoStacking'
    BY DEF NoStacking, TodoIsFresh, TypeOK
  <1> QED BY <1>1, <1>2, <1>3, <1>4, <1>5

(* Every step of the engine, its threads and the venue keeps the invariant.*)
LEMMA NextEngine == EngineInv /\ [Next]_vars => EngineInv'
  <1> SUFFICES ASSUME EngineInv, [Next]_vars PROVE EngineInv'
    OBVIOUS
  <1> USE ThreadsDiffer
  <1>1. CASE UNCHANGED vars
    BY <1>1 DEF vars, EngineInv, TypeOK, InsideHolds, TodoIsFresh, DownIsBlank,
       RevokedIsStopped, StoppedIsQuiet, StoppedIsEmpty, KilledIsShown, NoStacking
  <1>2. CASE Build \/ Crash
    BY <1>2, BuildKeeps, CrashKeeps
  <1>3. CASE WorkerTick \/ AskStop \/ \E t \in Requests : RequestCycle(t)
    BY <1>3, AskKeeps DEF WorkerTick, AskStop, RequestCycle, Thread
  <1>4. ASSUME NEW t \in Runner, BeginCycle(t) \/ CycleStep(t) PROVE EngineInv'
    BY <1>4, BeginCycleKeeps, StartEngineKeeps, ObserveKeeps, PlaceKeeps,
       FinishCycleKeeps, FailCycleKeeps DEF CycleStep
  <1>5. CASE BeginStop \/ StopStep
    BY <1>5, BeginStopKeeps, StopCancelsKeeps, StopRevokesKeeps, StopRecordsKeeps,
       StopShowsKeeps DEF StopStep
  <1>6. CASE LeaveLifespan \/ Shutdown
    BY <1>6, LeaveLifespanKeeps, ShutdownKeeps
  <1>7. ASSUME NEW k \in Key, VenueEnds(k) \/ VenueReceives(k) PROVE EngineInv'
    BY <1>7, VenueEndsKeeps, VenueReceivesKeeps
  <1> QED BY <1>1, <1>2, <1>3, <1>4, <1>5, <1>6, <1>7 DEF Next

(* The invariant holds throughout. *)
LEMMA EngineAlways == Spec => []EngineInv
  <1> QED BY InitEngine, NextEngine, PTL DEF Spec

-----------------------------------------------------------------------------
(* app/runtime/state.py: once a kill is durable no thread runs a cycle, in *)
(* this process or a later one, and every status read shows it.            *)
THEOREM KillIsObeyed == Spec => []KillHolds
  <1>1. EngineInv => KillHolds
    BY DEF EngineInv, KillHolds, StoppedIsQuiet, InsideHolds, KilledIsShown,
           SnapshotForReads, CheapSnapshot, StopSteps, TypeOK
  <1> QED BY <1>1, EngineAlways, PTL

(* emergency_stop: a stop whose cancel_all succeeded leaves no             *)
(* acknowledged order resting, and none is placed until a process starts   *)
(* that knows of no stop.                                                  *)
THEOREM StopIsClean == Spec => []StopLeavesNothing
  <1>1. EngineInv => StopLeavesNothing
    BY DEF EngineInv, StopLeavesNothing, StoppedIsEmpty
  <1> QED BY <1>1, EngineAlways, PTL

(* run_cycle's duplicate suppression: however cycles, timeouts, restarts   *)
(* and the venue interleave, acknowledged orders do not stack.             *)
THEOREM OrdersDoNotStack == Spec => []NoStacking
  <1>1. EngineInv => NoStacking
    BY DEF EngineInv
  <1> QED BY <1>1, EngineAlways, PTL

(* AppState.shutdown: a cycle that outlives it transmits nothing. *)
THEOREM ClosedIsSilent == Spec => ClosedSendsNothing
  <1>1. [Next]_vars => [sends' # sends => storeOpen]_vars
    <2> SUFFICES ASSUME Next, sends' # sends PROVE storeOpen
      OBVIOUS
    <2> USE DEF market, stop
    <2>1. ~ Build /\ ~ Crash
      BY DEF Build, Crash
    <2>2. ~ \E t \in Thread : Ask(t)
      BY DEF Ask
    <2>3. ASSUME NEW t \in Runner, BeginCycle(t) \/ CycleStep(t) PROVE storeOpen
      BY <2>3 DEF BeginCycle, CycleStep, StartEngine, Observe, Place, FinishCycle, FailCycle
    <2>4. ~ BeginStop /\ ~ StopStep
      BY DEF BeginStop, StopStep, StopCancels, StopRevokes, StopRecords, StopShows
    <2>5. ~ LeaveLifespan /\ ~ Shutdown
      BY DEF LeaveLifespan, Shutdown
    <2>6. ~ \E k \in Key : VenueEnds(k) \/ VenueReceives(k)
      BY DEF VenueEnds, VenueReceives
    <2> QED BY <2>1, <2>2, <2>3, <2>4, <2>5, <2>6, ThreadsDiffer
          DEF Next, WorkerTick, AskStop, RequestCycle
  <1> QED BY <1>1, PTL DEF Spec, ClosedSendsNothing
=============================================================================
