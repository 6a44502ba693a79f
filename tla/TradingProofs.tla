---------------------------- MODULE TradingProofs ----------------------------
(***************************************************************************)
(* Proofs about the execution state machine and about what the trading     *)
(* cycle sends, for every value of the constants.  The state machine: the  *)
(* lock and the write-ahead order keep the durable history replayable.     *)
(* The cycle: the book stays bounded (BookInv), every specification gets   *)
(* its turn (TurnInv), nothing goes out at a worse price (SentInv), and    *)
(* what goes out is the nearest thing the venue takes (GridInv).  The last *)
(* two rest on the arithmetic of reduced fractions, Euclid's recursion and *)
(* the powers of the base, proved here by induction on numbers.            *)
(***************************************************************************)
EXTENDS ExecutionStateMachine, TradingCycle, FiniteSetTheorems, WellFoundedInduction, TLAPS

-----------------------------------------------------------------------------
(* Facts of the transition table *)

(* Every edge of the table ends in a state. *)
LEMMA EdgesEndInStates ==
    \A e \in Edges : e.to \in State
BY DEF Edges, TradingEdges, SoftKillEdges, HardKillEdges, EmergencyKillEdges,
       ShutdownEdges, Edge, State, Live, Quiet, Kill

(* next_state of a legal trigger is the end of an edge that starts there.  *)
LEMMA NextIsEdge ==
    ASSUME NEW from, NEW trigger, IsLegal(from, trigger)
    PROVE  \E e \in Edges : /\ e.from = from
                            /\ e.trigger = trigger
                            /\ NextState(from, trigger) = e.to
BY DEF IsLegal, NextState

(* An emergency kill is left for STOPPED only, and STOPPED not at all. *)
LEMMA KillHasOneExit ==
    \A e \in Edges : e.from \in {"EMERGENCY_KILL", "STOPPED"} => e.to = "STOPPED"
BY DEF Edges, TradingEdges, SoftKillEdges, HardKillEdges, EmergencyKillEdges,
       ShutdownEdges, Edge, State, Live, Quiet, Kill

(* From a kill, from RECONCILING and from STOPPED every edge stays among   *)
(* these, but for the one that reconciliation takes.                       *)
Halted == Kill \cup {"RECONCILING", "STOPPED"}

LEMMA OnlyReconciledLeaves ==
    \A e \in Edges : e.from \in Halted /\ e.trigger # "RECONCILED" => e.to \in Halted
BY DEF Edges, TradingEdges, SoftKillEdges, HardKillEdges, EmergencyKillEdges,
       ShutdownEdges, Edge, State, Live, Quiet, Kill, Halted

-----------------------------------------------------------------------------
(* The inductive invariant *)

(* What holds of the history alone. *)
Once(events) ==
    \A i, j \in 1..Len(events) : events[i].request = events[j].request => i = j

KillStays(events) ==
    \A i, j \in 1..Len(events) :
        i <= j /\ events[i].to = "EMERGENCY_KILL" => events[j].to \in {"EMERGENCY_KILL", "STOPPED"}

StaysHalted(events) ==
    \A i, j \in 1..Len(events) :
        i <= j /\ events[i].to \in Kill
          => events[j].to \in Halted \/ \E k \in i + 1..j : events[k].trigger = "RECONCILED"

HistoryInv(events) ==
    /\ events \in Seq(Record)
    /\ ReplayOk(events)
    /\ Once(events)
    /\ KillStays(events)
    /\ StaysHalted(events)

(* Only the holder of the lock is inside transition(). *)
InsideHolds == \A c \in Caller : pc[c] # "idle" => holder = c /\ up

(* A call that has checked the table still starts where the history ends,  *)
(* and its request id is still new.                                        *)
CheckedIsFresh ==
    \A c \in Caller : pc[c] = "checked" =>
        /\ call[c] \in Record
        /\ call[c].from = state
        /\ state = After(log, Len(log))
        /\ IsLegal(call[c].from, call[c].trigger)
        /\ NextState(call[c].from, call[c].trigger) = call[c].to
        /\ ~ Known(call[c].request)

(* A call that is recorded is the end of the history. *)
RecordedIsLast ==
    \A c \in Caller : pc[c] = "recorded" =>
        call[c] \in Record /\ call[c].to = After(log, Len(log))

MachineInv ==
    /\ TypeOK
    /\ HistoryInv(log)
    /\ InsideHolds
    /\ CheckedIsFresh
    /\ RecordedIsLast
    /\ MemoryIsHistory

(* A legal step, appended with a new request id, keeps the history sound.  *)
LEMMA AppendKeepsHistory ==
    ASSUME NEW events, HistoryInv(events),
           NEW r \in Record,
           r.from = After(events, Len(events)),
           IsLegal(r.from, r.trigger),
           NextState(r.from, r.trigger) = r.to,
           \A i \in 1..Len(events) : events[i].request # r.request
    PROVE  HistoryInv(Append(events, r))
<1> DEFINE new == Append(events, r)
<1>1. /\ events \in Seq(Record) /\ ReplayOk(events) /\ Once(events)
      /\ KillStays(events) /\ StaysHalted(events)
  BY DEF HistoryInv
<1>2. /\ new \in Seq(Record) /\ Len(events) \in Nat
      /\ Len(new) = Len(events) + 1
      /\ new[Len(events) + 1] = r
      /\ \A i \in 1..Len(events) : new[i] = events[i]
  BY <1>1
<1> HIDE DEF new
<1>3. ReplayOk(new)
  <2> SUFFICES ASSUME NEW i \in 1..Len(new)
               PROVE  /\ new[i].from = After(new, i - 1)
                      /\ IsLegal(new[i].from, new[i].trigger)
                      /\ NextState(new[i].from, new[i].trigger) = new[i].to
    BY DEF ReplayOk
  <2>1. After(new, i - 1) = After(events, i - 1)
    BY <1>2 DEF After
  <2>2. CASE i \in 1..Len(events)
    BY <1>1, <1>2, <2>1, <2>2 DEF ReplayOk
  <2>3. CASE i = Len(events) + 1
    BY <1>2, <2>1, <2>3
  <2> QED BY <1>2, <2>2, <2>3
<1>4. Once(new)
  BY <1>1, <1>2 DEF Once
<1>5. PICK e \in Edges : e.from = r.from /\ e.trigger = r.trigger /\ r.to = e.to
  BY NextIsEdge
<1>6. KillStays(new)
  <2> SUFFICES ASSUME NEW i \in 1..Len(new), NEW j \in 1..Len(new),
                      i <= j, new[i].to = "EMERGENCY_KILL"
               PROVE  new[j].to \in {"EMERGENCY_KILL", "STOPPED"}
    BY DEF KillStays
  <2>1. CASE j \in 1..Len(events)
    BY <1>1, <1>2, <2>1 DEF KillStays
  <2>2. CASE i = Len(events) + 1
    BY <1>2, <2>2
  <2>3. CASE j = Len(events) + 1 /\ i \in 1..Len(events)
    <3>1. events[Len(events)].to \in {"EMERGENCY_KILL", "STOPPED"}
      BY <1>1, <1>2, <2>3 DEF KillStays
    <3>2. r.from = events[Len(events)].to
      BY <1>2, <2>3 DEF After
    <3>3. r.to = "STOPPED"
      BY <1>5, <3>1, <3>2, KillHasOneExit
    <3> QED BY <1>2, <2>3, <3>3
  <2> QED BY <1>2, <2>1, <2>2, <2>3
<1>7. StaysHalted(new)
  <2> SUFFICES ASSUME NEW i \in 1..Len(new), NEW j \in 1..Len(new),
                      i <= j, new[i].to \in Kill
               PROVE  \/ new[j].to \in Halted
                      \/ \E k \in i + 1..j : new[k].trigger = "RECONCILED"
    BY DEF StaysHalted
  <2>1. CASE j \in 1..Len(events)
    <3>1. i \in 1..Len(events) /\ new[i] = events[i] /\ new[j] = events[j]
      BY <1>2, <2>1
    <3>2. \/ events[j].to \in Halted
          \/ \E k \in i + 1..j : events[k].trigger = "RECONCILED"
      BY <1>1, <2>1, <3>1 DEF StaysHalted
    <3>3. \A k \in i + 1..j : new[k] = events[k]
      BY <1>2, <2>1, <3>1
    <3> QED BY <3>1, <3>2, <3>3
  <2>2. CASE i = Len(events) + 1
    BY <1>2, <2>2 DEF Halted
  <2>3. CASE j = Len(events) + 1 /\ i \in 1..Len(events)
    <3>1. r.from = events[Len(events)].to
      BY <1>2, <2>3 DEF After
    <3>2. \/ events[Len(events)].to \in Halted
          \/ \E k \in i + 1..Len(events) : events[k].trigger = "RECONCILED"
      BY <1>1, <1>2, <2>3 DEF StaysHalted
    <3>3. CASE \E k \in i + 1..Len(events) : events[k].trigger = "RECONCILED"
      BY <1>2, <2>3, <3>3
    <3>4. CASE events[Len(events)].to \in Halted
      <4>1. r.trigger = "RECONCILED" \/ r.to \in Halted
        BY <1>5, <3>1, <3>4, OnlyReconciledLeaves
      <4> QED BY <1>2, <2>3, <4>1
    <3> QED BY <3>2, <3>3, <3>4
  <2> QED BY <1>2, <2>1, <2>2, <2>3
<1> QED BY <1>2, <1>3, <1>4, <1>6, <1>7 DEF HistoryInv, new

-----------------------------------------------------------------------------
(* Initially nothing is recorded and nobody is inside. *)
LEMMA InitMachine == Init => MachineInv
<1> SUFFICES ASSUME Init PROVE MachineInv
  OBVIOUS
<1>1. TypeOK
  BY DEF Init, TypeOK, State
<1>2. HistoryInv(log)
  BY DEF Init, HistoryInv, ReplayOk, Once, KillStays, StaysHalted
<1>3. InsideHolds /\ CheckedIsFresh /\ RecordedIsLast
  BY DEF Init, InsideHolds, CheckedIsFresh, RecordedIsLast
<1>4. MemoryIsHistory
  BY DEF Init, MemoryIsHistory, After
<1> QED BY <1>1, <1>2, <1>3, <1>4 DEF MachineInv

(* Every step of transition(), a crash and a replay keep the invariant.    *)
LEMMA NextMachine == MachineInv /\ [Next]_vars => MachineInv'
<1> SUFFICES ASSUME MachineInv, [Next]_vars PROVE MachineInv'
  OBVIOUS
<1> USE DEF MachineInv
<1>1. ASSUME NEW c \in Caller, NEW trigger \in Trigger, NEW r \in Request,
             Check(c, trigger, r)
      PROVE  MachineInv'
  <2> DEFINE rec == [request |-> r, from |-> state, trigger |-> trigger,
                     to |-> NextState(state, trigger)]
  <2>1. NextState(state, trigger) \in State
    <3>1. PICK e \in Edges : NextState(state, trigger) = e.to
      BY <1>1, NextIsEdge DEF Check
    <3> QED BY <3>1, EdgesEndInStates
  <2>2. rec \in Record
    BY <2>1 DEF TypeOK, Record
  <2>3. /\ call' = [call EXCEPT ![c] = rec] /\ pc' = [pc EXCEPT ![c] = "checked"]
        /\ holder' = c /\ holder = NoCaller /\ up /\ UNCHANGED <<log, state, up>>
    BY <1>1 DEF Check, LockFree
  <2>4. TypeOK'
    BY <2>2, <2>3 DEF TypeOK
  <2>5. HistoryInv(log)'
    BY <2>3
  <2>6. InsideHolds'
    BY <2>3, CallerAssumption DEF InsideHolds, TypeOK
  <2>7. \A d \in Caller : d # c => pc'[d] = "idle"
    BY <2>3, CallerAssumption DEF InsideHolds, TypeOK
  <2>8. CheckedIsFresh'
    <3>1. state = After(log, Len(log))
      BY <2>3 DEF MemoryIsHistory, LockFree
    <3>2. IsLegal(rec.from, rec.trigger) /\ ~ Known(rec.request)
      BY <1>1 DEF Check
    <3> SUFFICES ASSUME NEW d \in Caller, pc'[d] = "checked"
                 PROVE  /\ call'[d] \in Record
                        /\ call'[d].from = state
                        /\ state = After(log, Len(log))
                        /\ IsLegal(call'[d].from, call'[d].trigger)
                        /\ NextState(call'[d].from, call'[d].trigger) = call'[d].to
                        /\ ~ Known(call'[d].request)
      BY <2>3 DEF CheckedIsFresh, Known, After
    <3>3. d = c /\ call'[d] = rec
      BY <2>3, <2>7 DEF TypeOK
    <3> HIDE DEF rec
    <3>4. rec.from = state /\ NextState(rec.from, rec.trigger) = rec.to
      BY DEF rec
    <3> QED BY <2>2, <3>1, <3>2, <3>3, <3>4
  <2>9. RecordedIsLast'
    BY <2>3, <2>7 DEF RecordedIsLast, TypeOK
  <2>10. MemoryIsHistory'
    BY <2>3, CallerAssumption DEF MemoryIsHistory, LockFree
  <2> QED BY <2>4, <2>5, <2>6, <2>8, <2>9, <2>10
<1>2. ASSUME NEW c \in Caller, Persist(c) PROVE MachineInv'
  <2>1. /\ pc[c] = "checked" /\ log' = Append(log, call[c])
        /\ pc' = [pc EXCEPT ![c] = "recorded"] /\ UNCHANGED <<state, up, holder, call>>
    BY <1>2 DEF Persist
  <2>2. /\ call[c] \in Record
        /\ call[c].from = After(log, Len(log))
        /\ IsLegal(call[c].from, call[c].trigger)
        /\ NextState(call[c].from, call[c].trigger) = call[c].to
        /\ \A i \in 1..Len(log) : log[i].request # call[c].request
    BY <2>1 DEF CheckedIsFresh, Known
  <2>3. HistoryInv(log')
    BY <2>1, <2>2, AppendKeepsHistory
  <2>4. TypeOK'
    BY <2>1, <2>3 DEF TypeOK, HistoryInv
  <2>5. InsideHolds' /\ \A d \in Caller : d # c => pc'[d] = "idle"
    BY <2>1 DEF InsideHolds, TypeOK
  <2>6. CheckedIsFresh'
    BY <2>1, <2>5 DEF CheckedIsFresh, TypeOK
  <2>7. Len(log') = Len(log) + 1 /\ Len(log) \in Nat /\ log'[Len(log) + 1] = call[c]
    BY <2>1, <2>2 DEF TypeOK
  <2>8. RecordedIsLast'
    BY <2>1, <2>2, <2>5, <2>7 DEF RecordedIsLast, After, TypeOK
  <2>9. MemoryIsHistory'
    BY <2>1, CallerAssumption DEF MemoryIsHistory, LockFree, InsideHolds
  <2> QED BY <2>3, <2>4, <2>5, <2>6, <2>8, <2>9
<1>3. ASSUME NEW c \in Caller, PersistFails(c) \/ Mutate(c) PROVE MachineInv'
  <2>1. /\ pc[c] # "idle" /\ UNCHANGED <<log, up>> /\ holder' = NoCaller
        /\ pc' = [pc EXCEPT ![c] = "idle"] /\ call' = [call EXCEPT ![c] = NoCall]
    BY <1>3 DEF PersistFails, Mutate, Leave
  <2>2. state' = After(log, Len(log)) /\ state' \in State
    BY <1>3 DEF PersistFails, Mutate, CheckedIsFresh, RecordedIsLast, TypeOK, Record
  <2>3. TypeOK'
    BY <2>1, <2>2 DEF TypeOK
  <2>4. HistoryInv(log)'
    BY <2>1
  <2>5. \A d \in Caller : pc'[d] = "idle"
    BY <2>1 DEF InsideHolds, TypeOK
  <2>6. InsideHolds' /\ CheckedIsFresh' /\ RecordedIsLast'
    BY <2>5 DEF InsideHolds, CheckedIsFresh, RecordedIsLast
  <2>7. MemoryIsHistory'
    BY <2>1, <2>2 DEF MemoryIsHistory, After
  <2> QED BY <2>3, <2>4, <2>6, <2>7
<1>4. ASSUME Crash PROVE MachineInv'
  <2>1. TypeOK'
    BY <1>4 DEF Crash, TypeOK
  <2>2. HistoryInv(log)' /\ InsideHolds' /\ CheckedIsFresh' /\ RecordedIsLast' /\ MemoryIsHistory'
    BY <1>4 DEF Crash, InsideHolds, CheckedIsFresh, RecordedIsLast, MemoryIsHistory
  <2> QED BY <2>1, <2>2
<1>5. ASSUME Restart PROVE MachineInv'
  <2>1. /\ up' = TRUE /\ state' = After(log, Len(log)) /\ UNCHANGED <<log, holder, pc, call>>
        /\ \A c \in Caller : pc[c] = "idle"
    BY <1>5 DEF Restart, InsideHolds
  <2>2. TypeOK'
    <3>1. log # <<>> => log[Len(log)] \in Record
      BY DEF TypeOK
    <3>2. After(log, Len(log)) \in State
      BY <3>1 DEF After, Record, State, TypeOK
    <3> QED BY <2>1, <3>2 DEF TypeOK
  <2>3. HistoryInv(log)'
    BY <2>1
  <2>4. InsideHolds' /\ CheckedIsFresh' /\ RecordedIsLast'
    BY <2>1 DEF InsideHolds, CheckedIsFresh, RecordedIsLast
  <2>5. MemoryIsHistory'
    BY <2>1 DEF MemoryIsHistory, After
  <2> QED BY <2>2, <2>3, <2>4, <2>5
<1>6. CASE UNCHANGED vars
  BY <1>6 DEF vars, TypeOK, InsideHolds, CheckedIsFresh, RecordedIsLast, MemoryIsHistory,
              LockFree, Known
<1> QED BY <1>1, <1>2, <1>3, <1>4, <1>5, <1>6 DEF Next

(* The machine's invariant holds in every behaviour. *)
THEOREM MachineInvariant == Spec => []MachineInv
BY InitMachine, NextMachine, PTL DEF Spec

(* Every variable has its type. *)
THEOREM TypeCorrect == Spec => []TypeOK
<1>1. MachineInv => TypeOK
  BY DEF MachineInv
<1> QED BY <1>1, MachineInvariant, PTL

(* machine.py __init__ never meets a history it refuses: however many      *)
(* threads call transition() and wherever the process dies, every recorded *)
(* step starts where the one before it ended and is in the table.          *)
THEOREM HistoryReplays == Spec => []AlwaysReplays
<1>1. MachineInv => AlwaysReplays
  BY DEF MachineInv, HistoryInv, AlwaysReplays
<1> QED BY <1>1, MachineInvariant, PTL

(* A request id is recorded at most once: a retry is never a second        *)
(* transition.                                                             *)
THEOREM RetriesOnce == Spec => []RequestOnce
<1>1. MachineInv => RequestOnce
  BY DEF MachineInv, HistoryInv, Once, RequestOnce
<1> QED BY <1>1, MachineInvariant, PTL

(* Whenever the lock is free, current_state is what a replay would give.   *)
THEOREM MemoryFollowsHistory == Spec => []MemoryIsHistory
<1>1. MachineInv => MemoryIsHistory
  BY DEF MachineInv
<1> QED BY <1>1, MachineInvariant, PTL

(* An emergency kill, once durable, is never undone, by any trigger from   *)
(* any thread or by a restart.                                             *)
THEOREM KillIsFinal == Spec => []EmergencyIsFinal
<1>1. MachineInv => EmergencyIsFinal
  <2> SUFFICES ASSUME MachineInv, Killed, up, LockFree
               PROVE  state \in {"EMERGENCY_KILL", "STOPPED"}
    BY DEF EmergencyIsFinal
  <2>1. PICK i \in 1..Len(log) : log[i].to = "EMERGENCY_KILL"
    BY DEF Killed
  <2>2. Len(log) \in 1..Len(log) /\ i <= Len(log) /\ Len(log) # 0
    BY <2>1 DEF MachineInv, TypeOK
  <2>3. log[Len(log)].to \in {"EMERGENCY_KILL", "STOPPED"}
    BY <2>1, <2>2 DEF MachineInv, HistoryInv, KillStays
  <2> QED BY <2>2, <2>3 DEF MachineInv, MemoryIsHistory, After
<1> QED BY <1>1, MachineInvariant, PTL

(* No path of the table leads from a kill back to READY but through        *)
(* RECONCILED.                                                             *)
THEOREM ResumeReconciles == Spec => []ReconcilesBeforeTrading
<1>1. MachineInv => ReconcilesBeforeTrading
  <2> SUFFICES ASSUME MachineInv, NEW i \in 1..Len(log), NEW j \in 1..Len(log),
                      i < j, log[i].to \in Kill, log[j].to = "READY"
               PROVE  \E k \in i + 1..j : log[k].trigger = "RECONCILED"
    BY DEF ReconcilesBeforeTrading
  <2>1. log[j].to \notin Halted
    BY DEF Halted, Kill
  <2>2. i <= j
    BY DEF MachineInv, TypeOK
  <2> QED BY <2>1, <2>2 DEF MachineInv, HistoryInv, StaysHalted
<1> QED BY <1>1, MachineInvariant, PTL

-----------------------------------------------------------------------------
(* Numbers *)

(***************************************************************************)
(* Induction over the natural numbers, from the fact that < is well        *)
(* founded on them: a set that holds 0 and with each number the next one   *)
(* holds them all.                                                         *)
(***************************************************************************)
LEMMA NumbersByInduction ==
    ASSUME NEW S, 0 \in S, \A n \in Nat : n \in S => n + 1 \in S
    PROVE  \A n \in Nat : n \in S
  <1> DEFINE Out == {n \in Nat : n \notin S}
             Less == OpToRel(<, Nat)
  <1>1. SUFFICES ASSUME Out # {} PROVE FALSE
    OBVIOUS
  <1>2. IsWellFoundedOn(Less, Nat)
    BY NatLessThanWellFounded
  <1>3. \A x, y \in Nat : <<x, y>> \in Less <=> x < y
    BY DEF OpToRel
  <1> HIDE DEF Less
  <1>4. PICK n \in Out : \A k \in Out : ~ (<<k, n>> \in Less)
    <2>1. Out \subseteq Nat
      OBVIOUS
    <2> HIDE DEF Out
    <2> QED BY <1>1, <1>2, <2>1, WFMin
  <1>5. n \in Nat /\ n # 0 /\ n \notin S
    BY <1>4
  <1>6. n - 1 \in Nat /\ n - 1 < n /\ (n - 1) + 1 = n
    BY <1>5
  <1>7. n - 1 \in Out
    BY <1>5, <1>6
  <1> QED BY <1>3, <1>4, <1>5, <1>6, <1>7

(* A run of steps from a first value exists and stays where they stay.     *)
RunOf(f, first, step, S, N) ==
    /\ f \in [0..N -> S]
    /\ f[0] = first
    /\ \A k \in 1..N : f[k] = step[<<f[k - 1], k>>]

LEMMA Unrolls ==
    ASSUME NEW S, NEW first, first \in S, NEW N, N \in Nat,
           NEW step, step \in [S \X (1..N) -> S]
    PROVE  \E f : RunOf(f, first, step, S, N)
  <1> DEFINE Runs(f, m) == /\ f \in [0..m -> S]
                           /\ f[0] = first
                           /\ \A k \in 1..m : f[k] = step[<<f[k - 1], k>>]
             R == {m \in Nat : m <= N => \E f : Runs(f, m)}
  <1>1. 0 \in R
    <2> DEFINE f == [k \in 0..0 |-> first]
    <2>1. Runs(f, 0)
      OBVIOUS
    <2> QED BY <2>1
  <1>2. ASSUME NEW m \in Nat, m \in R PROVE m + 1 \in R
    <2>1. SUFFICES ASSUME m + 1 <= N PROVE \E f : Runs(f, m + 1)
      OBVIOUS
    <2>2. PICK f : Runs(f, m)
      BY <1>2, <2>1
    <2> DEFINE g == [k \in 0..(m + 1) |-> IF k = m + 1 THEN step[<<f[m], m + 1>>] ELSE f[k]]
    <2>3. step[<<f[m], m + 1>>] \in S
      <3>1. f[m] \in S /\ m + 1 \in 1..N
        BY <2>1, <2>2
      <3> QED BY <3>1
    <2>4. g \in [0..(m + 1) -> S] /\ g[0] = first
      BY <2>2, <2>3
    <2>5. ASSUME NEW k \in 1..(m + 1) PROVE g[k] = step[<<g[k - 1], k>>]
      <3>1. CASE k = m + 1
        <4>1. g[k] = step[<<f[m], m + 1>>] /\ g[k - 1] = f[m]
          BY <3>1
        <4> QED BY <3>1, <4>1
      <3>2. CASE k \in 1..m
        <4>1. g[k] = f[k] /\ g[k - 1] = f[k - 1]
          BY <3>2
        <4> QED BY <2>2, <3>2, <4>1
      <3> QED BY <3>1, <3>2
    <2>6. Runs(g, m + 1)
      BY <2>4, <2>5
    <2> QED BY <2>6
  <1>3. N \in R
    <2> HIDE DEF R
    <2> QED BY <1>1, <1>2, NumbersByInduction
  <1> QED BY <1>3 DEF RunOf

-----------------------------------------------------------------------------
(* Fractions *)

Divides(d, n) == \E k \in Nat : n = d * k

LEMMA MulAssoc == \A x, y, z \in Int : x * y \in Int /\ (x * y) * z = x * (y * z)
OBVIOUS

LEMMA MulDistributes ==
    \A x, y, z \in Int : x * (y + z) = x * y + x * z /\ x * (y - z) = x * y - x * z
OBVIOUS

LEMMA MulGrows ==
    ASSUME NEW x \in Int, NEW y \in Int, x <= y, NEW z \in Nat
    PROVE  z * x <= z * y /\ x * z <= y * z
OBVIOUS

LEMMA Remainder ==
    ASSUME NEW a \in Nat, NEW b \in Nat \ {0}
    PROVE  /\ a % b \in Nat /\ a % b < b
           /\ a \div b \in Nat
           /\ a = b * (a \div b) + (a % b)
  <1>1. a % b \in 0..(b - 1) /\ a \div b \in Int /\ a = b * (a \div b) + (a % b)
    BY SMT
  <1>2. a \div b >= 0
    <2>1. SUFFICES ASSUME a \div b <= -1 PROVE FALSE
      BY <1>1
    <2>2. b * (a \div b) <= b * (-1)
      BY <1>1, <2>1, SMT
    <2> QED BY <1>1, <2>2
  <1> QED BY <1>1, <1>2

(* A step of Euclid's keeps the common divisors. *)
LEMMA SameDivisors ==
    ASSUME NEW a \in Nat, NEW b \in Nat \ {0}, NEW d \in Nat \ {0}, Divides(d, b)
    PROVE  Divides(d, a) <=> Divides(d, a % b)
  <1>1. PICK l \in Nat : b = d * l
    BY DEF Divides
  <1>2. PICK q \in Nat, r \in Nat : q = a \div b /\ r = a % b /\ a = b * q + r
    BY Remainder
  <1>3. a = d * (l * q) + r
    <2>1. (d * l) * q = d * (l * q)
      BY MulAssoc
    <2> QED BY <1>1, <1>2, <2>1
  <1>4. ASSUME Divides(d, r) PROVE Divides(d, a)
    <2>1. PICK k \in Nat : r = d * k
      BY <1>4 DEF Divides
    <2>2. a = d * (l * q + k) /\ l * q + k \in Nat
      BY <1>3, <2>1, SMT
    <2> QED BY <2>2 DEF Divides
  <1>5. ASSUME Divides(d, a) PROVE Divides(d, r)
    <2>1. PICK k \in Nat : a = d * k
      BY <1>5 DEF Divides
    <2>2. r = d * (k - l * q) /\ k - l * q \in Int
      BY <1>3, <2>1, SMT
    <2>3. k - l * q >= 0
      <3>1. SUFFICES ASSUME k - l * q <= -1 PROVE FALSE
        BY <2>2
      <3>2. d * (k - l * q) <= d * (-1)
        BY <2>2, <3>1, SMT
      <3> QED BY <2>2, <3>2
    <2> QED BY <2>2, <2>3 DEF Divides
  <1> QED BY <1>2, <1>4, <1>5

(* Euclid's recursion, as an equation. *)
Euclid(f) ==
    f = [p \in Nat \X Nat |-> IF p[2] = 0 THEN p[1] ELSE f[<<p[2], p[1] % p[2]>>]]

LEMMA DivisorFits ==
    ASSUME NEW d \in Nat \ {0}, NEW n \in Nat \ {0}, Divides(d, n)
    PROVE  d <= n
  <1>1. PICK k \in Nat : n = d * k
    BY DEF Divides
  <1>2. k # 0
    BY <1>1
  <1>3. d * k >= d * 1
    BY <1>2, SMT
  <1> QED BY <1>1, <1>3

(* The greatest common divisor satisfies it. *)
LEMMA EuclidExists == \E f : Euclid(f)
  <1> DEFINE CD(a, b) == {d \in Nat \ {0} : Divides(d, a) /\ Divides(d, b)}
             most(a, b) == CHOOSE m \in CD(a, b) : \A d \in CD(a, b) : d <= m
             at(p) == IF p[2] = 0 THEN p[1] ELSE most(p[1], p[2])
             f == [p \in Nat \X Nat |-> at(p)]
  <1>1. ASSUME NEW a \in Nat, NEW b \in Nat \ {0}
        PROVE  most(a, b) = IF a % b = 0 THEN b ELSE most(b, a % b)
    <2>1. a % b \in Nat
      BY Remainder
    <2>2. CD(a, b) = CD(b, a % b)
      BY <2>1, SameDivisors
    <2>3. CASE a % b # 0
      BY <2>2, <2>3
    <2>4. CASE a % b = 0
      <3>1. b \in CD(b, 0)
        <4>1. b = b * 1 /\ 0 = b * 0
          OBVIOUS
        <4> QED BY <4>1 DEF Divides
      <3>2. \A d \in CD(b, 0) : d \in Nat \ {0} /\ d <= b
        BY DivisorFits
      <3>3. most(a, b) = most(b, 0)
        BY <2>2, <2>4
      <3>4. most(b, 0) \in CD(b, 0) /\ \A d \in CD(b, 0) : d <= most(b, 0)
        <4> HIDE DEF CD
        <4> QED BY <3>1, <3>2
      <3>5. most(b, 0) \in Nat /\ most(b, 0) <= b /\ b <= most(b, 0)
        <4> HIDE DEF CD, most
        <4> QED BY <3>1, <3>2, <3>4
      <3>6. most(a, b) = b
        <4> HIDE DEF CD, most
        <4> QED BY <3>3, <3>5
      <3> QED BY <2>4, <3>6, Zenon
    <2> QED BY <2>3, <2>4
  <1> HIDE DEF most
  <1>2. ASSUME NEW p \in Nat \X Nat
        PROVE  f[p] = IF p[2] = 0 THEN p[1] ELSE f[<<p[2], p[1] % p[2]>>]
    <2>1. CASE p[2] = 0
      BY <2>1
    <2>2. CASE p[2] # 0
      <3>1. PICK a \in Nat, b \in Nat \ {0} : a = p[1] /\ b = p[2]
        BY <2>2
      <3>2. PICK r \in Nat : r = a % b
        BY Remainder
      <3>3. f[p] = most(a, b) /\ f[<<b, r>>] = IF r = 0 THEN b ELSE most(b, r)
        BY <2>2, <3>1
      <3>4. most(a, b) = IF r = 0 THEN b ELSE most(b, r)
        BY <1>1, <3>2
      <3> QED BY <2>2, <3>1, <3>2, <3>3, <3>4
    <2> QED BY <2>1, <2>2
  <1>3. f = [p \in Nat \X Nat |-> f[p]]
    OBVIOUS
  <1> HIDE DEF f
  <1>4. Euclid(f)
    BY <1>2, <1>3 DEF Euclid
  <1> QED BY <1>4

LEMMA GcdDivides ==
    ASSUME NEW a \in Nat, NEW b \in Nat \ {0}, NEW g, g = Gcd(a, b)
    PROVE  g \in Nat \ {0} /\ Divides(g, a) /\ Divides(g, b)
  <1> DEFINE f == CHOOSE h : h = [p \in Nat \X Nat |-> IF p[2] = 0 THEN p[1]
                                                        ELSE h[<<p[2], p[1] % p[2]>>]]
  <1>1. Euclid(f)
    BY EuclidExists DEF Euclid
  <1>2. g = f[<<a, b>>]
    BY Zenon DEF Gcd
  <1> HIDE DEF f
  <1>3. ASSUME NEW x \in Nat, NEW y \in Nat
        PROVE  f[<<x, y>>] = IF y = 0 THEN x ELSE f[<<y, x % y>>]
    <2>1. <<x, y>> \in Nat \X Nat
      OBVIOUS
    <2> QED BY <1>1, <2>1 DEF Euclid
  <1> DEFINE Good(x, y) == LET d == f[<<x, y>>]
                           IN  d \in Nat \ {0} /\ Divides(d, x) /\ Divides(d, y)
             G == {n \in Nat : \A x \in Nat, y \in 0..n : (x # 0 \/ y # 0) => Good(x, y)}
  <1>4. ASSUME NEW x \in Nat \ {0} PROVE Good(x, 0)
    <2>1. f[<<x, 0>>] = x
      BY <1>3
    <2>2. x = x * 1 /\ 0 = x * 0
      OBVIOUS
    <2> QED BY <2>1, <2>2 DEF Divides
  <1>5. 0 \in G
    BY <1>4
  <1>6. ASSUME NEW n \in Nat, n \in G PROVE n + 1 \in G
    <2>1. SUFFICES ASSUME NEW x \in Nat, NEW y \in 0..(n + 1), x # 0 \/ y # 0 PROVE Good(x, y)
      OBVIOUS
    <2>2. CASE y <= n
      BY <1>6, <2>1, <2>2
    <2>3. CASE y = n + 1
      <3>1. y \in Nat \ {0}
        BY <2>3
      <3>2. PICK r \in Nat : r = x % y /\ r < y
        BY <3>1, Remainder
      <3>3. r \in 0..n
        BY <2>3, <3>2
      <3>4. Good(y, r)
        BY <1>6, <3>1, <3>3
      <3>5. f[<<x, y>>] = f[<<y, r>>]
        BY <1>3, <3>1, <3>2
      <3>6. PICK d : d = f[<<y, r>>]
        OBVIOUS
      <3>7. d \in Nat \ {0} /\ Divides(d, y) /\ Divides(d, r)
        BY <3>4, <3>6
      <3>8. Divides(d, x)
        BY <3>1, <3>2, <3>7, SameDivisors
      <3> QED BY <3>5, <3>6, <3>7, <3>8
    <2> QED BY <2>2, <2>3
  <1>7. b \in G
    <2> HIDE DEF G
    <2> QED BY <1>5, <1>6, NumbersByInduction
  <1>8. Good(a, b)
    BY <1>7
  <1> QED BY <1>2, <1>8

LEMMA MagnitudeFacts ==
    ASSUME NEW n \in Int
    PROVE  Magnitude(n) \in Nat /\ (n # 0 => Magnitude(n) # 0)
BY DEF Magnitude

(* A divisor of the magnitude divides the number. *)
LEMMA DivideOut ==
    ASSUME NEW n \in Int, NEW g \in Nat \ {0}, Divides(g, Magnitude(n))
    PROVE  n \div g \in Int /\ n = g * (n \div g)
  <1>1. PICK k \in Nat : Magnitude(n) = g * k
    BY DEF Divides
  <1>2. \E m \in Int : n = g * m
    <2>1. CASE n < 0
      <3>1. n = -(g * k)
        BY <1>1, <2>1 DEF Magnitude
      <3>2. n = g * (-k) /\ -k \in Int
        BY <3>1
      <3> QED BY <3>2
    <2>2. CASE ~ (n < 0)
      BY <1>1, <2>2 DEF Magnitude
    <2> QED BY <2>1, <2>2
  <1>3. PICK m \in Int : n = g * m
    BY <1>2
  <1>4. (g * m) \div g = m
    BY Z3
  <1> QED BY <1>3, <1>4

(* Q reduces a fraction and keeps its value. *)
LEMMA QFacts ==
    ASSUME NEW n \in Int, NEW d \in Int, d # 0, NEW q, q = Q(n, d)
    PROVE  /\ q \in Rational
           /\ q[1] \in Int /\ q[2] \in Nat \ {0}
           /\ q[1] * d = n * q[2]
  <1>1. PICK g : g = Gcd(Magnitude(n), Magnitude(d))
    OBVIOUS
  <1>2. Magnitude(n) \in Nat /\ Magnitude(d) \in Nat \ {0}
    BY MagnitudeFacts
  <1>3. g \in Nat \ {0} /\ Divides(g, Magnitude(n)) /\ Divides(g, Magnitude(d))
    BY <1>1, <1>2, GcdDivides
  <1>4. PICK k \in Int : k = n \div g /\ n = g * k
    BY <1>3, DivideOut
  <1>5. PICK l \in Int : l = d \div g /\ d = g * l
    BY <1>3, DivideOut
  <1>6. q = IF d < 0 THEN <<-k, -l>> ELSE <<k, l>>
    <2>1. PICK s : s = IF d < 0 THEN -1 ELSE 1
      OBVIOUS
    <2>2. q = <<s * (n \div g), s * (d \div g)>>
      BY <1>1, <2>1, Zenon DEF Q
    <2>3. q = <<s * k, s * l>>
      BY <1>4, <1>5, <2>2
    <2> QED BY <2>1, <2>3
  <1>7. d < 0 => l < 0
    <2>1. SUFFICES ASSUME d < 0, l >= 0 PROVE FALSE
      OBVIOUS
    <2>2. g * l >= g * 0
      BY <1>3, <2>1, SMT
    <2> QED BY <1>3, <1>5, <2>1, <2>2
  <1>8. ~ (d < 0) => l > 0
    <2>1. SUFFICES ASSUME d > 0, l <= 0 PROVE FALSE
      OBVIOUS
    <2>2. g * l <= g * 0
      BY <1>3, <2>1, SMT
    <2> QED BY <1>3, <1>5, <2>1, <2>2
  <1>9. k * d = n * l
    <2>1. k * (g * l) = (g * k) * l
      BY <1>3
    <2> QED BY <1>4, <1>5, <2>1
  <1>10. CASE d < 0
    <2>1. q[1] = -k /\ q[2] = -l /\ q = <<-k, -l>>
      BY <1>6, <1>10
    <2>2. -l \in Nat \ {0} /\ -k \in Int
      BY <1>7, <1>10
    <2>3. (-k) * d = n * (-l)
      BY <1>9
    <2> QED BY <2>1, <2>2, <2>3 DEF Rational
  <1>11. CASE ~ (d < 0)
    <2>1. q[1] = k /\ q[2] = l /\ q = <<k, l>>
      BY <1>6, <1>11
    <2>2. l \in Nat \ {0}
      BY <1>8, <1>11
    <2> QED BY <1>9, <2>1, <2>2 DEF Rational
  <1> QED BY <1>10, <1>11

LEMMA RationalFacts ==
    ASSUME NEW a \in Rational
    PROVE  a[1] \in Int /\ a[2] \in Nat \ {0}
BY DEF Rational

LEMMA NonZeroProduct == \A x, y \in Int : x # 0 /\ y # 0 => x * y \in Int /\ x * y # 0
OBVIOUS

LEMMA ArithmeticTyped ==
    ASSUME NEW a \in Rational, NEW b \in Rational
    PROVE  /\ Plus(a, b) \in Rational
           /\ Minus(a, b) \in Rational
           /\ Times(a, b) \in Rational
           /\ b[1] # 0 => Over(a, b) \in Rational
           /\ Modulus(a) \in Rational
  <1>1. a[1] \in Int /\ a[2] \in Nat \ {0} /\ b[1] \in Int /\ b[2] \in Nat \ {0}
    BY RationalFacts
  <1>2. a[2] * b[2] \in Int /\ a[2] * b[2] # 0
    BY <1>1, NonZeroProduct
  <1>3. /\ a[1] * b[2] + b[1] * a[2] \in Int
        /\ a[1] * b[2] - b[1] * a[2] \in Int
        /\ a[1] * b[1] \in Int /\ a[1] * b[2] \in Int
    BY <1>1
  <1>4. Plus(a, b) \in Rational
    BY <1>2, <1>3, QFacts DEF Plus
  <1>5. Minus(a, b) \in Rational
    BY <1>2, <1>3, QFacts DEF Minus
  <1>6. Times(a, b) \in Rational
    BY <1>2, <1>3, QFacts DEF Times
  <1>7. ASSUME b[1] # 0 PROVE Over(a, b) \in Rational
    <2>1. a[2] * b[1] \in Int /\ a[2] * b[1] # 0
      BY <1>1, <1>7, NonZeroProduct
    <2> QED BY <1>3, <2>1, QFacts DEF Over
  <1>8. Modulus(a) \in Rational
    BY <1>1, MagnitudeFacts DEF Modulus, Rational
  <1> QED BY <1>4, <1>5, <1>6, <1>7, <1>8

LEMMA RunExists ==
    ASSUME NEW N \in Nat
    PROVE  \E f : f = [n \in 0..N |-> IF n = 0 THEN 1 ELSE Base * f[n - 1]]
                  /\ \A n \in 0..N : f[n] \in Nat \ {0}
  <1> DEFINE S == Nat \ {0}
             step == [p \in S \X (1..N) |-> Base * p[1]]
  <1>1. step \in [S \X (1..N) -> S]
    <2>1. ASSUME NEW s \in S PROVE Base * s \in S
      BY NumbersAssumption, NonZeroProduct
    <2> QED BY <2>1
  <1>2. \A s \in S, k \in 1..N : step[<<s, k>>] = Base * s
    OBVIOUS
  <1> HIDE DEF step
  <1>3. PICK f : RunOf(f, 1, step, S, N)
    <2>1. 1 \in S /\ N \in Nat
      OBVIOUS
    <2> HIDE DEF S
    <2> QED BY <1>1, <2>1, Unrolls
  <1>4. f \in [0..N -> S] /\ f[0] = 1 /\ \A k \in 1..N : f[k] = Base * f[k - 1]
    <2>1. \A k \in 1..N : f[k - 1] \in S
      BY <1>3 DEF RunOf
    <2> QED BY <1>2, <1>3, <2>1 DEF RunOf
  <1>5. \A n \in 0..N : f[n] = IF n = 0 THEN 1 ELSE Base * f[n - 1]
    BY <1>4
  <1>6. f = [n \in 0..N |-> IF n = 0 THEN 1 ELSE Base * f[n - 1]]
    BY <1>4, <1>5
  <1> QED BY <1>4, <1>6

LEMMA PowerFacts ==
    ASSUME NEW k \in Nat
    PROVE  Power(k) \in Nat \ {0}
  <1> DEFINE Runs(f) == f = [n \in 0..k |-> IF n = 0 THEN 1 ELSE Base * f[n - 1]]
             power == CHOOSE f : Runs(f)
  <1>1. PICK f : Runs(f)
    BY RunExists
  <1>2. Runs(power)
    BY <1>1
  <1>3. Power(k) = power[k]
    BY Zenon DEF Power
  <1> HIDE DEF power
  <1> DEFINE G == {n \in Nat : n <= k => power[n] \in Nat \ {0}}
  <1>4. 0 \in G
    BY <1>2
  <1>5. ASSUME NEW n \in Nat, n \in G PROVE n + 1 \in G
    <2>1. SUFFICES ASSUME n + 1 <= k PROVE power[n + 1] \in Nat \ {0}
      OBVIOUS
    <2>2. n + 1 \in 0..k /\ n + 1 # 0 /\ (n + 1) - 1 = n /\ power[n] \in Nat \ {0}
      BY <1>5, <2>1
    <2>3. power[n + 1] = Base * power[n]
      BY <1>2, <2>2
    <2> QED BY <2>2, <2>3, NumbersAssumption, NonZeroProduct
  <1>6. k \in G
    <2> HIDE DEF G
    <2> QED BY <1>4, <1>5, NumbersByInduction
  <1> QED BY <1>3, <1>6

LEMMA CancelPositive ==
    ASSUME NEW x \in Int, NEW y \in Int, NEW c \in Nat \ {0}, x * c <= y * c
    PROVE  x <= y
  <1>1. SUFFICES ASSUME y + 1 <= x PROVE FALSE
    OBVIOUS
  <1>2. (y + 1) * c <= x * c
    BY <1>1, MulGrows
  <1>3. (y + 1) * c = y * c + c
    OBVIOUS
  <1> QED BY <1>2, <1>3

LEMMA Regroup ==
    \A a, b, c, d \in Int : (a * b) * (c * d) = (a * c) * (b * d) /\ (a * b) * (c * d) = (a * d) * (b * c)
OBVIOUS

(* x1 / x2 times P is t1 / t2, and r1 / r2 is f whole parts of P. *)
Scaled(x1, x2, P, t1, t2, r1, r2, f) ==
    /\ x1 \in Int /\ x2 \in Nat \ {0} /\ P \in Nat \ {0}
    /\ t1 \in Int /\ t2 \in Nat \ {0} /\ t1 * x2 = (x1 * P) * t2
    /\ r1 \in Int /\ r2 \in Nat \ {0} /\ f \in Int /\ r1 * P = f * r2

(* From a whole multiple below t = x * P to a fraction below x. *)
LEMMA ScaledBelow ==
    ASSUME NEW x1, NEW x2, NEW P, NEW t1, NEW t2, NEW r1, NEW r2, NEW f,
           Scaled(x1, x2, P, t1, t2, r1, r2, f)
    PROVE  /\ f * t2 <= t1 => r1 * x2 <= x1 * r2
           /\ t1 <= f * t2 => x1 * r2 <= r1 * x2
  <1>0. /\ x1 \in Int /\ x2 \in Nat \ {0} /\ P \in Nat \ {0}
        /\ t1 \in Int /\ t2 \in Nat \ {0} /\ t1 * x2 = (x1 * P) * t2
        /\ r1 \in Int /\ r2 \in Nat \ {0} /\ f \in Int /\ r1 * P = f * r2
    BY DEF Scaled
  <1>1. r2 * x2 \in Nat /\ P * t2 \in Nat \ {0}
    BY <1>0, NonZeroProduct
  <1>2. (r1 * x2) * (P * t2) = (f * t2) * (r2 * x2)
    <2>1. (r1 * x2) * (P * t2) = (r1 * P) * (x2 * t2)
      BY <1>0, Regroup
    <2>2. (f * r2) * (x2 * t2) = (f * t2) * (r2 * x2)
      BY <1>0, Regroup
    <2> QED BY <1>0, <2>1, <2>2
  <1>3. (x1 * r2) * (P * t2) = t1 * (r2 * x2)
    <2>1. (x1 * r2) * (P * t2) = (x1 * P) * (r2 * t2)
      BY <1>0, Regroup
    <2>2. (x1 * P) * (r2 * t2) = ((x1 * P) * t2) * r2
      BY <1>0
    <2>3. (t1 * x2) * r2 = t1 * (r2 * x2)
      BY <1>0
    <2> QED BY <1>0, <2>1, <2>2, <2>3
  <1>4. r1 * x2 \in Int /\ x1 * r2 \in Int /\ f * t2 \in Int
    BY <1>0
  <1>5. ASSUME f * t2 <= t1 PROVE r1 * x2 <= x1 * r2
    <2>1. (f * t2) * (r2 * x2) <= t1 * (r2 * x2)
      BY <1>0, <1>1, <1>4, <1>5, MulGrows
    <2> QED BY <1>0, <1>1, <1>2, <1>3, <1>4, <2>1, CancelPositive
  <1>6. ASSUME t1 <= f * t2 PROVE x1 * r2 <= r1 * x2
    <2>1. t1 * (r2 * x2) <= (f * t2) * (r2 * x2)
      BY <1>0, <1>1, <1>4, <1>6, MulGrows
    <2> QED BY <1>0, <1>1, <1>2, <1>3, <1>4, <2>1, CancelPositive
  <1> QED BY <1>5, <1>6

LEMMA RoundsAbout ==
    ASSUME NEW a \in Rational
    PROVE  /\ Floor(a) \in Int /\ Floor(a) * a[2] <= a[1]
           /\ Ceiling(a) \in Int /\ a[1] <= Ceiling(a) * a[2]
  <1>1. PICK n \in Int, d \in Nat \ {0} : n = a[1] /\ d = a[2]
    BY RationalFacts
  <1>2. n \div d \in Int /\ (n \div d) * d <= n
    BY SMT
  <1>3. PICK m \in Int : m = (-n) \div d /\ m * d <= -n
    BY SMT
  <1>4. n <= (-m) * d
    BY <1>3
  <1> QED BY <1>1, <1>2, <1>3, <1>4 DEF Floor, Ceiling

(* Rounding to the grid: a fraction, on the side that is asked for. *)
LEMMA GridFacts ==
    ASSUME NEW x \in Rational, NEW k \in Nat
    PROVE  /\ Down(x, k) \in Rational /\ Leq(Down(x, k), x)
           /\ Up(x, k) \in Rational /\ Leq(x, Up(x, k))
  <1>1. PICK P \in Nat \ {0} : P = Power(k)
    BY PowerFacts
  <1>2. PICK x1 \in Int, x2 \in Nat \ {0} : x1 = x[1] /\ x2 = x[2]
    BY RationalFacts
  <1>3. PICK t : t = Times(x, Num(P))
    OBVIOUS
  <1>4. t \in Rational /\ t[1] \in Int /\ t[2] \in Nat \ {0} /\ t[1] * x2 = (x1 * P) * t[2]
    <2>1. t = Q(x1 * P, x2)
      <3>1. Num(P)[1] = P /\ Num(P)[2] = 1 /\ x2 * 1 = x2
        BY DEF Num
      <3> QED BY <1>2, <1>3, <3>1 DEF Times
    <2>2. x1 * P \in Int
      OBVIOUS
    <2> QED BY <2>1, <2>2, QFacts
  <1>5. PICK f \in Int, c \in Int : /\ f = Floor(t) /\ f * t[2] <= t[1]
                                   /\ c = Ceiling(t) /\ t[1] <= c * t[2]
    BY <1>4, RoundsAbout
  <1>6. PICK down : down = Q(f, P)
    OBVIOUS
  <1>7. PICK above : above = Q(c, P)
    OBVIOUS
  <1>8. /\ down \in Rational /\ down[1] \in Int /\ down[2] \in Nat \ {0}
        /\ down[1] * P = f * down[2]
    BY <1>6, QFacts
  <1>9. /\ above \in Rational /\ above[1] \in Int /\ above[2] \in Nat \ {0}
        /\ above[1] * P = c * above[2]
    BY <1>7, QFacts
  <1>10. PICK t1, t2 : t1 = t[1] /\ t2 = t[2]
    OBVIOUS
  <1>11. down[1] * x2 <= x1 * down[2]
    <2>1. PICK r1, r2 : r1 = down[1] /\ r2 = down[2]
      OBVIOUS
    <2>2. Scaled(x1, x2, P, t1, t2, r1, r2, f)
      BY <1>4, <1>8, <1>10, <2>1 DEF Scaled
    <2>3. f * t2 <= t1
      BY <1>5, <1>10
    <2> QED BY <2>1, <2>2, <2>3, ScaledBelow
  <1>12. x1 * above[2] <= above[1] * x2
    <2>1. PICK r1, r2 : r1 = above[1] /\ r2 = above[2]
      OBVIOUS
    <2>2. Scaled(x1, x2, P, t1, t2, r1, r2, c)
      BY <1>4, <1>9, <1>10, <2>1 DEF Scaled
    <2>3. t1 <= c * t2
      BY <1>5, <1>10
    <2> QED BY <2>1, <2>2, <2>3, ScaledBelow
  <1>13. Down(x, k) = down /\ Up(x, k) = above
    BY <1>1, <1>3, <1>5, <1>6, <1>7 DEF Down, Up
  <1> QED BY <1>2, <1>8, <1>9, <1>11, <1>12, <1>13 DEF Leq

LEMMA LeqReflexive ==
    ASSUME NEW x \in Rational
    PROVE  Leq(x, x)
BY RationalFacts DEF Leq

LEMMA DigitFacts ==
    ASSUME NEW k \in Int
    PROVE  Digit(k) \in Rational
  <1>1. CASE k >= 0
    <2>1. Power(k) \in Nat \ {0}
      BY <1>1, PowerFacts
    <2> QED BY <1>1, <2>1 DEF Digit, Num, Rational
  <1>2. CASE ~ (k >= 0)
    <2>1. -k \in Nat
      BY <1>2
    <2>2. Power(-k) \in Nat \ {0}
      BY <2>1, PowerFacts
    <2>3. Q(1, Power(-k)) \in Rational
      BY <2>2, QFacts
    <2> QED BY <1>2, <2>3 DEF Digit
  <1> QED BY <1>1, <1>2

LEMMA AdjustedFacts ==
    ASSUME NEW x, Measurable(x)
    PROVE  /\ x \in Rational /\ Adjusted(x) \in -3..4
           /\ Leq(Digit(Adjusted(x)), x) /\ Lt(x, Digit(Adjusted(x) + 1))
  <1>1. x \in Rational /\ Leq(Digit(-3), x) /\ Lt(x, Digit(5))
    BY DEF Measurable
  <1>2. \A k \in Int : Leq(Digit(k), x) \/ Lt(x, Digit(k))
    <2>1. ASSUME NEW k \in Int PROVE Leq(Digit(k), x) \/ Lt(x, Digit(k))
      <3>1. PICK d \in Rational : d = Digit(k)
        BY DigitFacts
      <3>2. /\ d[1] \in Int /\ d[2] \in Int /\ x[1] \in Int /\ x[2] \in Int
        BY <1>1, RationalFacts
      <3>3. d[1] * x[2] \in Int /\ x[1] * d[2] \in Int
        BY <3>2
      <3> QED BY <3>1, <3>3 DEF Leq, Lt
    <2> QED BY <2>1
  <1> DEFINE Fits(k) == Leq(Digit(k), x) /\ Lt(x, Digit(k + 1))
             In(k) == Leq(Digit(k), x)
             Out(k) == Lt(x, Digit(k))
  <1>3. \E k \in -3..4 : Fits(k)
    <2>1. In(-3) /\ Out(5) /\ \A k \in Int : In(k) \/ Out(k)
      BY <1>1, <1>2
    <2>2. \A k \in -3..4 : Fits(k) <=> (In(k) /\ Out(k + 1))
      OBVIOUS
    <2>3. \E k \in -3..4 : In(k) /\ Out(k + 1)
      <3> HIDE DEF In, Out
      <3>1. CASE Out(-2)
        BY <2>1, <3>1
      <3>2. CASE In(-2) /\ Out(-1)
        BY <3>2
      <3>3. CASE In(-1) /\ Out(0)
        BY <3>3
      <3>4. CASE In(0) /\ Out(1)
        BY <3>4
      <3>5. CASE In(1) /\ Out(2)
        BY <3>5
      <3>6. CASE In(2) /\ Out(3)
        BY <3>6
      <3>7. CASE In(3) /\ Out(4)
        BY <3>7
      <3>8. CASE In(4)
        BY <2>1, <3>8
      <3> QED BY <2>1, <3>1, <3>2, <3>3, <3>4, <3>5, <3>6, <3>7, <3>8
    <2> HIDE DEF Fits, In, Out
    <2> QED BY <2>2, <2>3
  <1>4. Adjusted(x) = CHOOSE k \in -3..4 : Fits(k)
    BY Zenon DEF Adjusted
  <1>5. Adjusted(x) \in -3..4 /\ Fits(Adjusted(x))
    <2> HIDE DEF Fits
    <2> QED BY <1>3, <1>4
  <1> QED BY <1>1, <1>5

(* What is sent is never at a worse price. *)
LEMMA PriceNeverWorse ==
    ASSUME NEW price, Measurable(price), NEW side, NEW sz \in Int,
           NEW p, p = QuantizePrice(price, side, sz)
    PROVE  IF side = "BUY" THEN Leq(p, price) ELSE Leq(price, p)
  <1> DEFINE bySigFigs == (PriceSigFigs - 1) - Adjusted(price)
             fewer == IF bySigFigs < MaxPriceDecimals(sz) THEN bySigFigs ELSE MaxPriceDecimals(sz)
             places == IF fewer < 0 THEN 0 ELSE fewer
  <1>1. price \in Rational /\ Adjusted(price) \in Int
    BY AdjustedFacts
  <1>2. bySigFigs \in Int /\ MaxPriceDecimals(sz) \in Int
    BY <1>1, GridAssumption DEF MaxPriceDecimals
  <1> HIDE DEF bySigFigs
  <1>3. places \in Nat
    BY <1>2
  <1>4. p = IF price[2] = 1 THEN price
            ELSE IF side = "BUY" THEN Down(price, places) ELSE Up(price, places)
    BY Zenon DEF QuantizePrice, bySigFigs
  <1> HIDE DEF places
  <1>5. Leq(Down(price, places), price) /\ Leq(price, Up(price, places)) /\ Leq(price, price)
    BY <1>1, <1>3, GridFacts, LeqReflexive
  <1> QED BY <1>4, <1>5

-----------------------------------------------------------------------------
(* The book, the requests and the specifications *)

OrderFields == {"sym", "side", "reduce", "quantity", "price", "stopD", "st", "at"}

(* Entries that are not booked: resting at the venue, or filled there.     *)
Waiting == {n \in DOMAIN orders : ~ orders[n].reduce /\ orders[n].st \in {"live", "filled"}}
Resting == {n \in Waiting : orders[n].st = "live"}

(* At most one of them for a symbol. *)
Apart(ids) == \A m, n \in ids : orders[m].sym = orders[n].sym => m = n

BooksTyped ==
    /\ Listed(orders) /\ Listed(todo)
    /\ \A n \in DOMAIN orders : /\ OrderFields \subseteq DOMAIN orders[n]
                                /\ orders[n].reduce \in BOOLEAN
    /\ \A r \in DOMAIN todo : todo[r].reduce \in BOOLEAN
    /\ phase \in {"idle", "booked", "placing"}
    /\ engine.up \in BOOLEAN
    /\ engine.up => /\ engine.universe \in Seq(Int)
                    /\ engine.profile.max_positions \in Nat \ {0}
    /\ ~ engine.up => orders = <<>> /\ todo = <<>> /\ phase = "idle"

(* Two entries of a symbol do not rest together, and when the fills were   *)
(* booked nothing of a symbol waits twice.                                 *)
KeptApart ==
    /\ \A n \in Waiting : orders[n].sym \in Range(engine.universe)
    /\ Apart(Resting)
    /\ phase = "booked" => Apart(Waiting)

(* What waits was placed in two rounds, by the cycle before and by this    *)
(* one, neither with a symbol twice; what is to come is for others.        *)
TwoRounds ==
    \E k \in 0..Len(orders) :
      /\ Apart({n \in Waiting : n <= k})
      /\ Apart({n \in Waiting : n > k})
      /\ \A r \in DOMAIN todo, n \in Waiting : n > k => orders[n].sym # todo[r].sym

(* What a cycle has approved still fits while it places it.                *)
Placing ==
    /\ TwoRounds
    /\ \A r \in DOMAIN todo, n \in Resting : ~ todo[r].reduce => orders[n].sym # todo[r].sym
    /\ \A q, r \in DOMAIN todo : todo[q].sym = todo[r].sym => q = r
    /\ \A r \in DOMAIN todo : todo[r].sym \in Range(engine.universe)
    /\ todo # <<>> => Cardinality(Open) < engine.profile.max_positions

PlacingInv == phase = "placing" => Placing

(* The specifications, and when each was evaluated last.                   *)
SpecsTyped ==
    /\ Listed(specs)
    /\ \A i \in DOMAIN specs : /\ {"version", "cadence", "evalAt", "stop"} \subseteq DOMAIN specs[i]
                               /\ specs[i].version \in Version
                               /\ specs[i].cadence \in Nat \ {0}
    /\ lastAt \in [Version -> Int]
    /\ now \in Nat

(* A specification that shares its version with no other, and what the     *)
(* clock of that version remembers of it.                                  *)
Alone(i) == \A j \in DOMAIN specs : specs[j].version = specs[i].version => j = i
Remembered ==
    \A i \in DOMAIN specs : Alone(i) => specs[i].evalAt = lastAt[specs[i].version]

Unbuilt == ~ engine.up => audit.at = -1 /\ lastAt = [v \in Version |-> -1]

-----------------------------------------------------------------------------
(* Lists *)

LEMMA ListFacts ==
    ASSUME NEW s, Listed(s)
    PROVE  /\ Len(s) \in Nat
           /\ DOMAIN s = 1..Len(s)
           /\ \A n \in 1..Len(s) : s[n] \in Range(s)
BY DEF Listed, Range

(* What is indexed by 1..N is a list. *)
LEMMA SequenceIsListed ==
    ASSUME NEW D, NEW t \in Seq(D)
    PROVE  Listed(t)
  <1>1. t \in [1..Len(t) -> D] /\ Len(t) \in Nat
    OBVIOUS
  <1>2. t \in [1..Len(t) -> Range(t)]
    BY <1>1 DEF Range
  <1> QED BY <1>1, <1>2 DEF Listed

LEMMA ListFromFunction ==
    ASSUME NEW f, NEW N \in Nat, f = [n \in 1..N |-> f[n]]
    PROVE  Listed(f) /\ Len(f) = N
  <1>1. DOMAIN f = 1..N
    OBVIOUS
  <1>2. \A n \in 1..N : f[n] \in Range(f)
    BY <1>1 DEF Range
  <1>3. f \in [1..N -> Range(f)]
    BY <1>1, <1>2
  <1>4. f \in Seq(Range(f))
    BY <1>3
  <1> QED BY <1>1, <1>4 DEF Listed

LEMMA ListAppend ==
    ASSUME NEW s, Listed(s), NEW e
    PROVE  LET t == Append(s, e)
           IN  /\ Listed(t)
               /\ Len(t) = Len(s) + 1
               /\ \A n \in 1..Len(s) : t[n] = s[n]
               /\ t[Len(s) + 1] = e
  <1> DEFINE D == Range(s) \cup {e}
             t == Append(s, e)
  <1>1. s \in Seq(D)
    BY DEF Listed
  <1>2. t \in Seq(D) /\ Len(t) = Len(s) + 1 /\ \A n \in 1..Len(s) : t[n] = s[n]
    BY <1>1
  <1>3. t[Len(s) + 1] = e
    BY <1>1
  <1>4. Listed(t)
    BY <1>2, SequenceIsListed
  <1> QED BY <1>2, <1>3, <1>4

LEMMA ListTail ==
    ASSUME NEW s, Listed(s), s # <<>>
    PROVE  LET t == Tail(s)
           IN  /\ Listed(t)
               /\ Len(t) = Len(s) - 1
               /\ Len(t) \in Nat
               /\ 1 \in 1..Len(s)
               /\ Head(s) = s[1]
               /\ \A n \in 1..Len(t) : t[n] = s[n + 1] /\ n + 1 \in 1..Len(s)
  <1> DEFINE t == Tail(s)
  <1>1. s \in Seq(Range(s)) /\ Len(s) \in Nat \ {0}
    BY DEF Listed
  <1>2. t \in Seq(Range(s)) /\ Len(t) = Len(s) - 1 /\ Head(s) = s[1]
        /\ \A n \in 1..Len(t) : t[n] = s[n + 1] /\ n + 1 \in 1..Len(s)
    BY <1>1
  <1>3. Listed(t)
    BY <1>2, SequenceIsListed
  <1> QED BY <1>1, <1>2, <1>3

LEMMA MinIsMember ==
    ASSUME NEW S, S \subseteq Nat, S # {}
    PROVE  Min(S) \in S /\ \A y \in S : Min(S) <= y
  <1> DEFINE Less == OpToRel(<, Nat)
  <1>1. IsWellFoundedOn(Less, Nat)
    BY NatLessThanWellFounded
  <1>2. \A x, y \in Nat : <<x, y>> \in Less <=> x < y
    BY DEF OpToRel
  <1> HIDE DEF Less
  <1>3. PICK n \in S : \A k \in S : ~ (<<k, n>> \in Less)
    <2>1. S \subseteq Nat /\ S # {}
      OBVIOUS
    <2> QED BY <1>1, <2>1, WFMin
  <1>4. ASSUME NEW k \in S PROVE n <= k
    <2>1. k \in Nat /\ n \in Nat
      OBVIOUS
    <2>2. ~ (k < n)
      BY <1>2, <1>3, <2>1
    <2> QED BY <2>1, <2>2
  <1> QED BY <1>3, <1>4 DEF Min

(* r is s with e put in at i. *)
Inserted(r, s, i, e) ==
    /\ Len(r) = Len(s) + 1
    /\ \A j \in 1..Len(r) : r[j] = IF j < i THEN s[j] ELSE IF j = i THEN e ELSE s[j - 1]

LEMMA InsertAtFacts ==
    ASSUME NEW D, NEW s \in Seq(D), NEW i \in 1..Len(s), NEW e \in D
    PROVE  InsertAt(s, i, e) \in Seq(D) /\ Inserted(InsertAt(s, i, e), s, i, e)
  <1> DEFINE a == SubSeq(s, 1, i - 1)
             b == SubSeq(s, i, Len(s))
             c == a \o <<e>>
             t == c \o b
  <1>1. a \in Seq(D) /\ Len(a) = i - 1 /\ \A j \in 1..(i - 1) : a[j] = s[j]
    OBVIOUS
  <1>2. b \in Seq(D) /\ Len(b) = Len(s) - i + 1 /\ \A j \in 1..(Len(s) - i + 1) : b[j] = s[i + j - 1]
    OBVIOUS
  <1> HIDE DEF a, b
  <1>3. c \in Seq(D) /\ Len(c) = i /\ (\A j \in 1..(i - 1) : c[j] = s[j]) /\ c[i] = e
    BY <1>1
  <1> HIDE DEF c
  <1>4. t \in Seq(D) /\ Len(t) = Len(s) + 1
    BY <1>2, <1>3
  <1>5. ASSUME NEW j \in 1..Len(t)
        PROVE  t[j] = IF j < i THEN s[j] ELSE IF j = i THEN e ELSE s[j - 1]
    <2>1. CASE j <= i
      <3>1. t[j] = c[j]
        BY <1>2, <1>3, <1>4, <2>1
      <3> QED BY <1>3, <2>1, <3>1
    <2>2. CASE j > i
      <3>1. t[j] = b[j - i] /\ j - i \in 1..(Len(s) - i + 1)
        BY <1>2, <1>3, <1>4, <2>2
      <3>2. i + (j - i) - 1 = j - 1
        OBVIOUS
      <3> QED BY <1>2, <2>2, <3>1, <3>2
    <2> QED BY <2>1, <2>2
  <1>6. t = InsertAt(s, i, e)
    BY DEF InsertAt, a, b, c
  <1> HIDE DEF t
  <1>7. Inserted(t, s, i, e)
    BY <1>4, <1>5 DEF Inserted
  <1> QED BY <1>4, <1>6, <1>7

(* Ranking one more place keeps the places apart. *)
Distinct(list) == \A i, j \in 1..Len(list) : list[i] = list[j] => i = j

(* t holds what list holds, and k. *)
Joined(t, list, k) ==
    /\ Len(t) = Len(list) + 1
    /\ \A i \in 1..Len(t) : t[i] = k \/ \E j \in 1..Len(list) : t[i] = list[j]
    /\ (Distinct(list) /\ \A j \in 1..Len(list) : list[j] # k) => Distinct(t)

LEMMA RankedFacts ==
    ASSUME NEW D, D \subseteq Nat, NEW list \in Seq(D), NEW k \in D, NEW intents, NEW eligible
    PROVE  /\ Ranked(list, k, intents, eligible) \in Seq(D)
           /\ Joined(Ranked(list, k, intents, eligible), list, k)
  <1> DEFINE behind == {i \in DOMAIN list : Ahead(intents, eligible, k, list[i])}
             t == Ranked(list, k, intents, eligible)
             m == Min(behind)
  <1>1. CASE behind = {}
    <2>1. t = Append(list, k)
      BY <1>1 DEF Ranked
    <2> QED BY <2>1 DEF Distinct, Joined
  <1>2. CASE behind # {}
    <2>1. m \in 1..Len(list)
      <3>1. behind \subseteq 1..Len(list) /\ behind \subseteq Nat
        OBVIOUS
      <3> HIDE DEF behind
      <3>2. m \in behind
        BY <1>2, <3>1, MinIsMember
      <3> QED BY <3>1, <3>2
    <2>2. t = InsertAt(list, m, k)
      BY <1>2 DEF Ranked
    <2> HIDE DEF m, behind, t
    <2>3. /\ t \in Seq(D)
          /\ Len(t) = Len(list) + 1
          /\ \A j \in 1..Len(t) : t[j] = IF j < m THEN list[j] ELSE IF j = m THEN k ELSE list[j - 1]
      <3>1. t \in Seq(D) /\ Inserted(t, list, m, k)
        BY <2>1, <2>2, InsertAtFacts
      <3> QED BY <3>1 DEF Inserted
    <2>4. ASSUME NEW j \in 1..Len(t)
          PROVE  \/ j = m /\ t[j] = k
                 \/ j < m /\ j \in 1..Len(list) /\ t[j] = list[j]
                 \/ j > m /\ j - 1 \in 1..Len(list) /\ t[j] = list[j - 1]
      <3>1. t[j] = IF j < m THEN list[j] ELSE IF j = m THEN k ELSE list[j - 1]
        BY <2>3
      <3>2. Len(list) \in Nat /\ j \in 1..(Len(list) + 1) /\ m \in Int
        BY <2>1, <2>3
      <3>3. CASE j < m
        BY <2>1, <3>1, <3>2, <3>3
      <3>4. CASE j = m
        BY <3>1, <3>4
      <3>5. CASE j > m
        BY <2>1, <3>1, <3>2, <3>5
      <3> QED BY <3>2, <3>3, <3>4, <3>5
    <2>5. \A i \in 1..Len(t) : t[i] = k \/ \E j \in 1..Len(list) : t[i] = list[j]
      BY <2>4
    <2>6. ASSUME Distinct(list), \A j \in 1..Len(list) : list[j] # k,
                 NEW i \in 1..Len(t), NEW j \in 1..Len(t), t[i] = t[j]
          PROVE  i = j
      <3>1. (i = m => j = m) /\ (j = m => i = m)
        BY <2>4, <2>6
      <3>2. CASE i < m /\ j < m
        BY <2>4, <2>6, <2>1, <3>2 DEF Distinct
      <3>3. CASE i < m /\ j > m
        <4>1. i = j - 1
          BY <2>4, <2>6, <2>1, <3>3 DEF Distinct
        <4> QED BY <2>1, <3>3, <4>1
      <3>4. CASE i > m /\ j < m
        <4>1. i - 1 = j
          BY <2>4, <2>6, <2>1, <3>4 DEF Distinct
        <4> QED BY <2>1, <3>4, <4>1
      <3>5. CASE i > m /\ j > m
        <4>1. i - 1 = j - 1
          BY <2>4, <2>6, <2>1, <3>5 DEF Distinct
        <4> QED BY <4>1
      <3> QED BY <2>1, <2>3, <3>1, <3>2, <3>3, <3>4, <3>5
    <2> QED BY <2>3, <2>5, <2>6 DEF t, Distinct, Joined
  <1> QED BY <1>1, <1>2

(* What the survivors are made of, place by place. *)
SurvivorsTo(f, intents, eligible, N) ==
    f = [k \in 0..N |->
           IF k = 0 THEN <<>>
           ELSE IF Wins(intents, eligible, k) THEN Ranked(f[k - 1], k, intents, eligible)
           ELSE f[k - 1]]

LEMMA SurvivorsAre ==
    ASSUME NEW intents, NEW eligible, Len(intents) \in Nat
    PROVE  \E f : /\ SurvivorsTo(f, intents, eligible, Len(intents))
                  /\ Survivors(intents, eligible) = f[Len(intents)]
  <1> DEFINE N == Len(intents)
             S == Seq(1..N)
             next(s, k) == IF Wins(intents, eligible, k) THEN Ranked(s, k, intents, eligible) ELSE s
             step == [p \in S \X (1..N) |-> next(p[1], p[2])]
  <1>1. step \in [S \X (1..N) -> S]
    <2>1. ASSUME NEW s \in S, NEW k \in 1..N PROVE next(s, k) \in S
      <3>1. 1..N \subseteq Nat /\ s \in Seq(1..N) /\ k \in 1..N
        OBVIOUS
      <3> QED BY <3>1, RankedFacts
    <2> HIDE DEF next
    <2> QED BY <2>1
  <1>2. <<>> \in S
    OBVIOUS
  <1>3. \A s \in S, k \in 1..N : step[<<s, k>>] = next(s, k)
    OBVIOUS
  <1> HIDE DEF step
  <1>4. PICK f \in [0..N -> S] : f[0] = <<>> /\ \A k \in 1..N : f[k] = step[<<f[k - 1], k>>]
    <2>1. N \in Nat
      OBVIOUS
    <2> HIDE DEF N, S
    <2>2. PICK f : RunOf(f, <<>>, step, S, N)
      BY <1>1, <1>2, <2>1, Unrolls
    <2> QED BY <2>2 DEF RunOf
  <1>5. \A k \in 1..N : f[k] = next(f[k - 1], k)
    <2>1. ASSUME NEW k \in 1..N PROVE f[k] = next(f[k - 1], k)
      <3>1. f[k - 1] \in S
        OBVIOUS
      <3> HIDE DEF S, next
      <3> QED BY <1>3, <1>4, <3>1
    <2> QED BY <2>1
  <1>6. SurvivorsTo(f, intents, eligible, N)
    <2>1. ASSUME NEW k \in 0..N PROVE f[k] = IF k = 0 THEN <<>> ELSE next(f[k - 1], k)
      <3>1. k = 0 \/ k \in 1..N
        OBVIOUS
      <3> HIDE DEF next, N, S
      <3> QED BY <1>4, <1>5, <3>1
    <2>2. f = [k \in 0..N |-> IF k = 0 THEN <<>> ELSE next(f[k - 1], k)]
      <3> HIDE DEF next, N, S
      <3> QED BY <2>1
    <2> QED BY <2>2 DEF SurvivorsTo
  <1> DEFINE upto == CHOOSE g : g = [k \in 0..Len(intents) |->
           IF k = 0 THEN <<>>
           ELSE IF Wins(intents, eligible, k) THEN Ranked(g[k - 1], k, intents, eligible)
           ELSE g[k - 1]]
  <1>7. SurvivorsTo(upto, intents, eligible, N)
    BY <1>6 DEF SurvivorsTo
  <1>8. Survivors(intents, eligible) = upto[Len(intents)]
    BY Zenon DEF Survivors
  <1> QED BY <1>7, <1>8

(* The survivors are places of intents, each once, that win their symbol. *)
LEMMA SurvivorsWin ==
    ASSUME NEW intents, NEW eligible, Len(intents) \in Nat,
           NEW t, t = Survivors(intents, eligible)
    PROVE  /\ t \in Seq(1..Len(intents))
           /\ Distinct(t)
           /\ \A i \in 1..Len(t) : Wins(intents, eligible, t[i])
  <1> DEFINE N == Len(intents)
  <1>1. PICK f : SurvivorsTo(f, intents, eligible, N) /\ t = f[N]
    BY SurvivorsAre
  <1> DEFINE Good(k) == /\ f[k] \in Seq(1..N)
                        /\ Distinct(f[k])
                        /\ \A i \in 1..Len(f[k]) : f[k][i] <= k /\ Wins(intents, eligible, f[k][i])
             G == {k \in Nat : k <= N => Good(k)}
  <1>2. 0 \in G
    <2>1. f[0] = <<>> /\ Len(f[0]) = 0
      BY <1>1 DEF SurvivorsTo
    <2>2. Distinct(f[0]) /\ f[0] \in Seq(1..N)
      BY <2>1 DEF Distinct
    <2>3. Good(0)
      BY <2>1, <2>2
    <2> QED BY <2>3
  <1>3. ASSUME NEW k \in Nat, k \in G PROVE k + 1 \in G
    <2>1. SUFFICES ASSUME k + 1 <= N PROVE Good(k + 1)
      OBVIOUS
    <2>2. k + 1 \in 0..N /\ k + 1 # 0 /\ (k + 1) - 1 = k /\ k + 1 \in 1..N /\ k <= N
      BY <2>1
    <2>3. Good(k)
      BY <1>3, <2>2
    <2>4. f[k + 1] = IF Wins(intents, eligible, k + 1)
                     THEN Ranked(f[k], k + 1, intents, eligible) ELSE f[k]
      BY <1>1, <2>2 DEF SurvivorsTo
    <2>5. CASE ~ Wins(intents, eligible, k + 1)
      <3>1. f[k + 1] = f[k]
        BY <2>4, <2>5
      <3>2. \A i \in 1..Len(f[k]) : f[k][i] \in Nat /\ f[k][i] <= k
        BY <2>3
      <3>3. \A i \in 1..Len(f[k]) : f[k][i] <= k + 1
        BY <3>2
      <3> QED BY <2>3, <3>1, <3>3
    <2>6. CASE Wins(intents, eligible, k + 1)
      <3> DEFINE s == f[k]
                 r == f[k + 1]
      <3>1. r = Ranked(s, k + 1, intents, eligible)
        BY <2>4, <2>6
      <3>2. s \in Seq(1..N) /\ Distinct(s)
            /\ \A i \in 1..Len(s) : s[i] \in Nat /\ s[i] <= k /\ Wins(intents, eligible, s[i])
        BY <2>3
      <3> HIDE DEF s, r
      <3>3. \A i \in 1..Len(s) : s[i] # k + 1 /\ s[i] <= k + 1
        BY <3>2
      <3>4. r \in Seq(1..N) /\ Joined(r, s, k + 1)
        <4>1. 1..N \subseteq Nat
          OBVIOUS
        <4> HIDE DEF N
        <4> QED BY <2>2, <3>1, <3>2, <4>1, RankedFacts
      <3>5. Distinct(r)
        BY <3>2, <3>3, <3>4 DEF Joined
      <3>6. ASSUME NEW i \in 1..Len(r) PROVE r[i] <= k + 1 /\ Wins(intents, eligible, r[i])
        <4>1. CASE r[i] = k + 1
          BY <2>6, <4>1
        <4>2. CASE \E j \in 1..Len(s) : r[i] = s[j]
          BY <3>2, <3>3, <4>2
        <4> QED BY <3>4, <4>1, <4>2 DEF Joined
      <3> QED BY <3>4, <3>5, <3>6 DEF r
    <2> QED BY <2>5, <2>6
  <1>4. N \in G
    <2> HIDE DEF G
    <2> QED BY <1>2, <1>3, NumbersByInduction
  <1> QED BY <1>1, <1>4

(* What is approved, outcome by outcome. *)
ApprovedTo(f, outcomes, N) ==
    f = [k \in 0..N |->
           IF k = 0 THEN <<>>
           ELSE IF Passes(outcomes[k]) THEN Append(f[k - 1], outcomes[k].request)
           ELSE f[k - 1]]

LEMMA ApprovedIs ==
    ASSUME NEW outcomes, Len(outcomes) \in Nat
    PROVE  \E f : /\ ApprovedTo(f, outcomes, Len(outcomes))
                  /\ Approved(outcomes) = f[Len(outcomes)]
  <1> DEFINE N == Len(outcomes)
             D == {outcomes[k].request : k \in 1..N}
             S == Seq(D)
             next(s, k) == IF Passes(outcomes[k]) THEN Append(s, outcomes[k].request) ELSE s
             step == [p \in S \X (1..N) |-> next(p[1], p[2])]
  <1>1. step \in [S \X (1..N) -> S]
    <2>1. ASSUME NEW s \in S, NEW k \in 1..N PROVE next(s, k) \in S
      <3>1. outcomes[k].request \in D
        OBVIOUS
      <3> HIDE DEF D
      <3> QED BY <3>1
    <2> HIDE DEF next
    <2> QED BY <2>1
  <1>2. <<>> \in S
    OBVIOUS
  <1>3. \A s \in S, k \in 1..N : step[<<s, k>>] = next(s, k)
    OBVIOUS
  <1> HIDE DEF step
  <1>4. PICK f \in [0..N -> S] : f[0] = <<>> /\ \A k \in 1..N : f[k] = step[<<f[k - 1], k>>]
    <2>1. N \in Nat
      OBVIOUS
    <2> HIDE DEF N, S
    <2>2. PICK f : RunOf(f, <<>>, step, S, N)
      BY <1>1, <1>2, <2>1, Unrolls
    <2> QED BY <2>2 DEF RunOf
  <1>5. \A k \in 1..N : f[k] = next(f[k - 1], k)
    <2>1. ASSUME NEW k \in 1..N PROVE f[k] = next(f[k - 1], k)
      <3>1. f[k - 1] \in S
        OBVIOUS
      <3> HIDE DEF S, next
      <3> QED BY <1>3, <1>4, <3>1
    <2> QED BY <2>1
  <1>6. ApprovedTo(f, outcomes, N)
    <2>1. ASSUME NEW k \in 0..N PROVE f[k] = IF k = 0 THEN <<>> ELSE next(f[k - 1], k)
      <3>1. k = 0 \/ k \in 1..N
        OBVIOUS
      <3> HIDE DEF next, N, S
      <3> QED BY <1>4, <1>5, <3>1
    <2>2. f = [k \in 0..N |-> IF k = 0 THEN <<>> ELSE next(f[k - 1], k)]
      <3> HIDE DEF next, N, S
      <3> QED BY <2>1
    <2> QED BY <2>2 DEF ApprovedTo
  <1> DEFINE upto == CHOOSE g : g = [r \in 0..Len(outcomes) |->
           IF r = 0 THEN <<>>
           ELSE IF Passes(outcomes[r]) THEN Append(g[r - 1], outcomes[r].request)
           ELSE g[r - 1]]
  <1>7. ApprovedTo(upto, outcomes, N)
    BY <1>6 DEF ApprovedTo
  <1>8. Approved(outcomes) = upto[Len(outcomes)]
    BY Zenon DEF Approved
  <1> QED BY <1>7, <1>8

(* Every approved request is the request of an outcome that passed, and    *)
(* none for a symbol twice if no two such outcomes share one.              *)
Apiece(outcomes) ==
    \A i, j \in 1..Len(outcomes) :
        /\ Passes(outcomes[i]) /\ Passes(outcomes[j])
        /\ outcomes[i].request.sym = outcomes[j].request.sym
        => i = j

OfPassing(list, outcomes, k) ==
    \A i \in 1..Len(list) : \E j \in 1..k : Passes(outcomes[j]) /\ list[i] = outcomes[j].request

OncePerSymbol(list) == \A i, j \in 1..Len(list) : list[i].sym = list[j].sym => i = j

LEMMA ApprovedPass ==
    ASSUME NEW outcomes, Len(outcomes) \in Nat, Apiece(outcomes),
           NEW t, t = Approved(outcomes)
    PROVE  Listed(t) /\ OfPassing(t, outcomes, Len(outcomes)) /\ OncePerSymbol(t)
  <1> DEFINE N == Len(outcomes)
  <1>1. PICK f : ApprovedTo(f, outcomes, N) /\ t = f[N]
    BY ApprovedIs
  <1> DEFINE Good(k) == Listed(f[k]) /\ OfPassing(f[k], outcomes, k) /\ OncePerSymbol(f[k])
             G == {k \in Nat : k <= N => Good(k)}
  <1>2. 0 \in G
    <2>1. f[0] = <<>> /\ Len(f[0]) = 0
      <3>1. 0 \in 0..N
        OBVIOUS
      <3> HIDE DEF N
      <3>2. f[0] = <<>>
        BY <1>1, <3>1, Zenon DEF ApprovedTo
      <3> QED BY <3>2
    <2>2. Listed(f[0])
      <3>1. <<>> \in Seq({})
        OBVIOUS
      <3> QED BY <2>1, <3>1, SequenceIsListed
    <2>3. Good(0)
      BY <2>1, <2>2 DEF OfPassing, OncePerSymbol
    <2> QED BY <2>3
  <1>3. ASSUME NEW k \in Nat, k \in G PROVE k + 1 \in G
    <2>1. SUFFICES ASSUME k + 1 <= N PROVE Good(k + 1)
      OBVIOUS
    <2>2. k + 1 \in 0..N /\ k + 1 # 0 /\ (k + 1) - 1 = k /\ k + 1 \in 1..N /\ k <= N
      BY <2>1
    <2>3. Good(k)
      BY <1>3, <2>2
    <2>4. f[k + 1] = IF Passes(outcomes[k + 1])
                     THEN Append(f[k], outcomes[k + 1].request) ELSE f[k]
      BY <1>1, <2>2 DEF ApprovedTo
    <2>5. CASE ~ Passes(outcomes[k + 1])
      <3>1. f[k + 1] = f[k]
        BY <2>4, <2>5
      <3>2. OfPassing(f[k], outcomes, k + 1)
        BY <2>3 DEF OfPassing
      <3> QED BY <2>3, <3>1, <3>2
    <2>6. CASE Passes(outcomes[k + 1])
      <3> DEFINE s == f[k]
                 r == f[k + 1]
                 e == outcomes[k + 1].request
      <3>1. r = Append(s, e)
        BY <2>4, <2>6
      <3>2. Listed(s) /\ OfPassing(s, outcomes, k) /\ OncePerSymbol(s)
        BY <2>3
      <3>3. /\ Listed(r) /\ Len(r) = Len(s) + 1
            /\ \A n \in 1..Len(s) : r[n] = s[n]
            /\ r[Len(s) + 1] = e
        <4> HIDE DEF s, r, e
        <4> QED BY <3>1, <3>2, ListAppend
      <3>4. Len(s) \in Nat
        BY <3>2, ListFacts
      <3> HIDE DEF s, r
      <3>5. OfPassing(r, outcomes, k + 1)
        <4>1. ASSUME NEW i \in 1..Len(r)
              PROVE  \E j \in 1..(k + 1) : Passes(outcomes[j]) /\ r[i] = outcomes[j].request
          <5>1. CASE i = Len(s) + 1
            BY <2>6, <3>3, <5>1
          <5>2. CASE i \in 1..Len(s)
            <6>1. PICK j \in 1..k : Passes(outcomes[j]) /\ s[i] = outcomes[j].request
              BY <3>2, <5>2 DEF OfPassing
            <6> QED BY <3>3, <5>2, <6>1
          <5> QED BY <3>3, <3>4, <5>1, <5>2
        <4> QED BY <4>1 DEF OfPassing
      <3>6. ASSUME NEW i \in 1..Len(s) PROVE s[i].sym # e.sym
        <4>1. PICK j \in 1..k : Passes(outcomes[j]) /\ s[i] = outcomes[j].request
          BY <3>2 DEF OfPassing
        <4>2. j \in 1..N /\ j # k + 1
          BY <2>2
        <4> QED BY <2>2, <2>6, <4>1, <4>2 DEF Apiece
      <3>7. OncePerSymbol(r)
        BY <3>2, <3>3, <3>4, <3>6 DEF OncePerSymbol
      <3> QED BY <3>3, <3>5, <3>7 DEF r
    <2> QED BY <2>5, <2>6
  <1>4. N \in G
    <2> HIDE DEF G
    <2> QED BY <1>2, <1>3, NumbersByInduction
  <1> QED BY <1>1, <1>4

-----------------------------------------------------------------------------
(* The intents of a cycle are a list *)

LEMMA ConcatListed ==
    ASSUME NEW s, NEW t, Listed(s), Listed(t)
    PROVE  Listed(s \o t)
  <1> DEFINE D == Range(s) \cup Range(t)
  <1>1. s \in Seq(D) /\ t \in Seq(D)
    BY DEF Listed
  <1> HIDE DEF D
  <1>2. s \o t \in Seq(D)
    BY <1>1
  <1> QED BY <1>2, SequenceIsListed

FlattensTo(f, seqs, N) ==
    f = [i \in 1..N |-> IF i = 1 THEN seqs[i] ELSE f[i - 1] \o seqs[i]]

LEMMA FlattenExists ==
    ASSUME NEW seqs, NEW N, N \in Nat, \A i \in 1..N : Listed(seqs[i])
    PROVE  \E f : FlattensTo(f, seqs, N)
  <1> DEFINE D == UNION {Range(seqs[i]) : i \in 1..N}
             S == Seq(D)
             next(s, k) == IF k = 1 THEN seqs[k] ELSE s \o seqs[k]
             step == [p \in S \X (1..N) |-> next(p[1], p[2])]
  <1>1. step \in [S \X (1..N) -> S]
    <2>1. ASSUME NEW s \in S, NEW k \in 1..N PROVE next(s, k) \in S
      <3>1. seqs[k] \in Seq(D)
        <4>1. seqs[k] \in Seq(Range(seqs[k])) /\ Range(seqs[k]) \subseteq D
          BY DEF Listed
        <4> HIDE DEF D
        <4> QED BY <4>1
      <3> HIDE DEF D
      <3> QED BY <3>1
    <2> HIDE DEF next
    <2> QED BY <2>1
  <1>2. <<>> \in S
    OBVIOUS
  <1>3. \A s \in S, k \in 1..N : step[<<s, k>>] = next(s, k)
    OBVIOUS
  <1> HIDE DEF step
  <1>4. PICK f \in [0..N -> S] : f[0] = <<>> /\ \A k \in 1..N : f[k] = step[<<f[k - 1], k>>]
    <2>1. N \in Nat
      OBVIOUS
    <2> HIDE DEF S
    <2>2. PICK f : RunOf(f, <<>>, step, S, N)
      BY <1>1, <1>2, <2>1, Unrolls
    <2> QED BY <2>2 DEF RunOf
  <1>5. ASSUME NEW k \in 1..N PROVE f[k] = next(f[k - 1], k)
    <2>1. f[k - 1] \in S
      OBVIOUS
    <2> HIDE DEF S, next
    <2> QED BY <1>3, <1>4, <2>1
  <1> DEFINE g == [k \in 1..N |-> f[k]]
  <1>6. ASSUME NEW k \in 1..N PROVE g[k] = IF k = 1 THEN seqs[k] ELSE g[k - 1] \o seqs[k]
    <2>1. k # 1 => k - 1 \in 1..N
      OBVIOUS
    <2>2. g[k] = f[k] /\ (k # 1 => g[k - 1] = f[k - 1])
      BY <2>1
    <2> HIDE DEF g
    <2> QED BY <1>5, <2>2
  <1>7. g = [k \in 1..N |-> g[k]]
    OBVIOUS
  <1> HIDE DEF g
  <1>8. FlattensTo(g, seqs, N)
    BY <1>6, <1>7 DEF FlattensTo
  <1> QED BY <1>8

LEMMA FlattenListed ==
    ASSUME NEW D, NEW seqs, Listed(seqs), \A i \in 1..Len(seqs) : seqs[i] \in Seq(D)
    PROVE  FlattenSeq(seqs) \in Seq(D)
  <1> DEFINE N == Len(seqs)
             flatten == CHOOSE f : f = [i \in 1..Len(seqs) |->
                                          IF i = 1 THEN seqs[i] ELSE f[i - 1] \o seqs[i]]
  <1>1. CASE N = 0
    <2>1. seqs \in Seq(Range(seqs)) /\ FlattenSeq(seqs) = seqs
      BY <1>1 DEF FlattenSeq, Listed
    <2>2. seqs = <<>>
      BY <1>1, <2>1
    <2> QED BY <2>1, <2>2
  <1>2. CASE N # 0
    <2>1. N \in Nat
      BY ListFacts
    <2>2. \E f : FlattensTo(f, seqs, N)
      <3>1. \A i \in 1..N : Listed(seqs[i])
        BY SequenceIsListed
      <3> QED BY <2>1, <3>1, FlattenExists
    <2>3. FlattensTo(flatten, seqs, N)
      BY <2>2 DEF FlattensTo
    <2>4. FlattenSeq(seqs) = flatten[N]
      BY <1>2, Zenon DEF FlattenSeq
    <2> HIDE DEF flatten
    <2> DEFINE G == {k \in Nat : k + 1 <= N => flatten[k + 1] \in Seq(D)}
    <2>5. 0 \in G
      <3>1. 1 \in 1..N
        BY <1>2, <2>1
      <3>2. flatten[1] = seqs[1]
        BY <2>3, <3>1 DEF FlattensTo
      <3> QED BY <3>1, <3>2
    <2>6. ASSUME NEW k \in Nat, k \in G PROVE k + 1 \in G
      <3>1. SUFFICES ASSUME (k + 1) + 1 <= N PROVE flatten[(k + 1) + 1] \in Seq(D)
        OBVIOUS
      <3>2. (k + 1) + 1 \in 1..N /\ (k + 1) + 1 # 1 /\ ((k + 1) + 1) - 1 = k + 1 /\ k + 1 <= N
        BY <2>1, <3>1
      <3>3. flatten[(k + 1) + 1] = flatten[k + 1] \o seqs[(k + 1) + 1]
        BY <2>3, <3>2 DEF FlattensTo
      <3>4. flatten[k + 1] \in Seq(D) /\ seqs[(k + 1) + 1] \in Seq(D)
        BY <2>6, <3>2
      <3> QED BY <3>3, <3>4
    <2>7. N - 1 \in G
      <3>1. N - 1 \in Nat
        BY <1>2, <2>1
      <3> HIDE DEF G, N
      <3> QED BY <2>5, <2>6, <3>1, NumbersByInduction
    <2>8. (N - 1) + 1 = N
      BY <2>1
    <2> QED BY <2>1, <2>4, <2>7, <2>8
  <1> QED BY <1>1, <1>2

(* Counting what is below it, each member of a finite set of numbers has a *)
(* place of its own.                                                       *)
LEMMA NthMember ==
    ASSUME NEW S, S \subseteq Nat, IsFiniteSet(S), NEW i \in 1..Cardinality(S)
    PROVE  Nth(S, i) \in S
  <1> DEFINE below(x) == {y \in S : y < x}
             C == Cardinality(S)
             rank == [x \in S |-> Cardinality(below(x)) + 1]
  <1>1. C \in Nat
    BY FS_CardinalityType
  <1>2. ASSUME NEW x \in S
        PROVE  /\ IsFiniteSet(below(x)) /\ Cardinality(below(x)) \in Nat
               /\ Cardinality(below(x)) < C
    <2>1. below(x) \in SUBSET S /\ below(x) # S
      <3>1. ~ (x < x)
        OBVIOUS
      <3> QED BY <3>1
    <2> HIDE DEF below
    <2>2. IsFiniteSet(below(x)) /\ Cardinality(below(x)) <= C /\ Cardinality(below(x)) # C
      BY <2>1, FS_Subset
    <2>3. Cardinality(below(x)) \in Nat
      BY <2>2, FS_CardinalityType
    <2> QED BY <1>1, <2>2, <2>3
  <1>3. ASSUME NEW x \in S, NEW y \in S, x < y
        PROVE  Cardinality(below(x)) < Cardinality(below(y))
    <2>1. below(x) \in SUBSET below(y) /\ below(x) # below(y)
      <3>1. \A z \in S : z < x => z < y
        BY <1>3
      <3>2. x \in below(y) /\ x \notin below(x)
        BY <1>3
      <3> QED BY <3>1, <3>2
    <2> HIDE DEF below
    <2>2. /\ Cardinality(below(x)) <= Cardinality(below(y))
          /\ Cardinality(below(x)) # Cardinality(below(y))
      BY <1>2, <2>1, FS_Subset
    <2> QED BY <1>2, <2>2
  <1> HIDE DEF below
  <1>4. rank \in Injection(S, 1..C)
    <2>1. rank \in [S -> 1..C]
      BY <1>1, <1>2
    <2>2. ASSUME NEW x \in S, NEW y \in S, x # y PROVE rank[x] # rank[y]
      <3>1. x < y \/ y < x
        BY <2>2
      <3> QED BY <1>2, <1>3, <3>1
    <2> HIDE DEF rank
    <2> QED BY <2>1, <2>2 DEF Injection, IsInjective
  <1>5. rank \in Surjection(S, 1..C)
    <2>1. IsFiniteSet(1..C) /\ Cardinality(1..C) = C
      <3>1. 1 \in Int /\ C \in Int /\ (1 > C => C = 0) /\ C - 1 + 1 = C
        BY <1>1
      <3> HIDE DEF C
      <3> QED BY <3>1, FS_Interval
    <2> HIDE DEF rank
    <2> QED BY <1>4, <2>1, FS_Injection
  <1>6. PICK x \in S : rank[x] = i
    <2> HIDE DEF rank
    <2> QED BY <1>5 DEF Surjection
  <1>7. Cardinality(below(x)) = i - 1
    BY <1>2, <1>6
  <1> QED BY <1>7 DEF Nth, below

(* The signals that are kept are as many as the symbols they are for. *)
LEMMA SelectedListed ==
    ASSUME NEW signals, NEW U, IsFiniteSet(U), \A s \in signals : s.sym \in U
    PROVE  /\ Listed(SelectSignals(signals))
           /\ U \subseteq Nat /\ (\A s \in signals : s.spec.version \in Nat)
                => \A i \in 1..Len(SelectSignals(signals)) : SelectSignals(signals)[i] \in signals
  <1> DEFINE directional == {s \in signals : s.direction \in {"LONG", "SHORT"}}
             symbols == {s.sym : s \in directional}
             group(sym) == {s \in directional : s.sym = sym}
             agreed == {sym \in symbols : Cardinality({s.direction : s \in group(sym)}) = 1}
             first(sym) == CHOOSE s \in group(sym) :
                             \A o \in group(sym) : s.spec.version <= o.spec.version
             of(i) == first(Nth(agreed, i))
             kept == [i \in 1..Cardinality(agreed) |-> of(i)]
  <1>1. agreed \subseteq U
    OBVIOUS
  <1>2. Cardinality(agreed) \in Nat
    <2> HIDE DEF agreed
    <2> QED BY <1>1, FS_Subset, FS_CardinalityType
  <1>3. SelectSignals(signals) = kept
    BY Zenon DEF SelectSignals
  <1>4. kept = [i \in 1..Cardinality(agreed) |-> kept[i]]
    <2> HIDE DEF agreed, of
    <2> QED OBVIOUS
  <1>5. Listed(kept) /\ Len(kept) = Cardinality(agreed)
    <2> HIDE DEF kept, agreed
    <2> QED BY <1>2, <1>4, ListFromFunction
  <1>6. ASSUME U \subseteq Nat, \A s \in signals : s.spec.version \in Nat,
               NEW i \in 1..Len(kept)
        PROVE  kept[i] \in signals
    <2>1. Nth(agreed, i) \in agreed
      <3>1. IsFiniteSet(agreed) /\ agreed \subseteq Nat
        <4> HIDE DEF agreed
        <4> QED BY <1>1, <1>6, FS_Subset
      <3> HIDE DEF agreed, kept
      <3> QED BY <1>5, <3>1, NthMember
    <2>2. PICK sym : sym = Nth(agreed, i)
      OBVIOUS
    <2>3. group(sym) # {} /\ group(sym) \subseteq signals
      BY <2>1, <2>2
    <2> DEFINE versions == {s.spec.version : s \in group(sym)}
    <2>4. versions \subseteq Nat /\ versions # {}
      BY <1>6, <2>3
    <2>5. Min(versions) \in versions /\ \A v \in versions : Min(versions) <= v
      <3> HIDE DEF versions
      <3> QED BY <2>4, MinIsMember
    <2>6. \E s \in group(sym) : \A o \in group(sym) : s.spec.version <= o.spec.version
      <3> HIDE DEF group
      <3> QED BY <2>5
    <2>7. first(sym) \in group(sym)
      <3> HIDE DEF group
      <3> QED BY <2>6
    <2>8. kept[i] = first(sym)
      <3>1. i \in 1..Cardinality(agreed)
        <4> HIDE DEF kept, agreed
        <4> QED BY <1>5
      <3> HIDE DEF agreed, first
      <3> QED BY <2>2, <3>1
    <2> HIDE DEF first, kept, group
    <2> QED BY <2>3, <2>7, <2>8
  <1> HIDE DEF kept, agreed
  <1> QED BY <1>3, <1>5, <1>6

(* What the specifications and the market must give for it. *)
Readable(evaluated, U, market) ==
    /\ U \subseteq Nat
    /\ \A spec \in evaluated : spec.version \in Nat /\ spec.stop \in Rational
    /\ \A sym \in U : Price(market.mark[sym])

LEMMA IntentsListed ==
    ASSUME NEW evaluated, NEW U, IsFiniteSet(U), NEW market, NEW at
    PROVE  \E D : /\ GenerateIntents(evaluated, U, market, at) \in Seq(D)
                  /\ \A i \in D : i.reduce = FALSE
                  /\ Readable(evaluated, U, market) => \A i \in D : WishOk(i)
  <1> DEFINE signals == UNION {{Signal(spec, sym, market, at) :
                                  sym \in Range(spec.universe) \cap U} : spec \in evaluated}
             selected == SelectSignals(signals)
             each == [i \in DOMAIN selected |-> IntentOf(selected[i], market)]
             D == UNION {Range(each[i]) : i \in 1..Len(selected)}
  <1>1. \A s \in signals : s.sym \in U /\ s.spec \in evaluated
    <2>1. ASSUME NEW spec \in evaluated, NEW sym \in Range(spec.universe) \cap U
          PROVE  /\ Signal(spec, sym, market, at).sym \in U
                 /\ Signal(spec, sym, market, at).spec \in evaluated
      BY DEF Signal
    <2> QED BY <2>1
  <1>2. /\ Listed(selected)
        /\ U \subseteq Nat /\ (\A s \in signals : s.spec.version \in Nat)
             => \A i \in 1..Len(selected) : selected[i] \in signals
    <2> HIDE DEF signals
    <2> QED BY <1>1, SelectedListed
  <1> HIDE DEF selected
  <1>3. Len(selected) \in Nat /\ DOMAIN selected = 1..Len(selected)
    BY <1>2, ListFacts
  <1>4. ASSUME NEW s
        PROVE  \/ IntentOf(s, market) = <<>>
               \/ \E e : /\ IntentOf(s, market) = <<e>> /\ e.reduce = FALSE
                         /\ Price(market.mark[s.sym]) /\ s.spec.stop \in Rational => WishOk(e)
    <2> DEFINE long == s.direction = "LONG"
               mark == market.mark[s.sym]
               target(f) == IF f = None THEN None ELSE Beyond(mark, f, long)
               levels == {Beyond(mark, s.spec.stop, ~ long), target(s.spec.t1), target(s.spec.t2)}
                           \ {None}
               bad == mark = None \/ ~ Lt(Zero, mark) \/ \E p \in levels : ~ Lt(Zero, p)
               side == IF long THEN "BUY" ELSE "SELL"
               stop == Beyond(mark, s.spec.stop, ~ long)
               t1 == target(s.spec.t1)
               t2 == target(s.spec.t2)
               e == [sym |-> s.sym, side |-> side, type |-> "LIMIT", tif |-> "GTC",
                     reduce |-> FALSE, stop |-> stop, conv |-> None, limit |-> mark,
                     t1 |-> t1, t2 |-> t2]
    <2>1. IntentOf(s, market) = IF bad THEN <<>> ELSE <<e>>
      BY Zenon DEF IntentOf
    <2>2. ASSUME Price(mark), s.spec.stop \in Rational, mark # None
          PROVE  stop \in Rational
      <3>1. mark \in Rational /\ One \in Rational
        BY <2>2 DEF Price, Measurable, One, Num, Rational
      <3>2. Plus(One, s.spec.stop) \in Rational /\ Minus(One, s.spec.stop) \in Rational
        BY <2>2, <3>1, ArithmeticTyped
      <3>3. /\ Times(mark, Plus(One, s.spec.stop)) \in Rational
            /\ Times(mark, Minus(One, s.spec.stop)) \in Rational
        BY <3>1, <3>2, ArithmeticTyped
      <3> HIDE DEF mark
      <3> QED BY <3>3 DEF Beyond
    <2>3. ~ bad => mark # None
      OBVIOUS
    <2> HIDE DEF bad, side, stop, t1, t2, mark
    <2>4. e.reduce = FALSE /\ e.stop = stop /\ e.conv = None /\ e.limit = mark
      OBVIOUS
    <2> HIDE DEF e
    <2>5. ~ bad /\ Price(mark) /\ s.spec.stop \in Rational => WishOk(e)
      BY <2>2, <2>3, <2>4 DEF WishOk, Number
    <2> QED BY <2>1, <2>4, <2>5 DEF mark
  <1>5. ASSUME NEW i \in 1..Len(selected)
        PROVE  /\ each[i] \in Seq(Range(each[i]))
               /\ \A e \in Range(each[i]) : e.reduce = FALSE
               /\ Readable(evaluated, U, market) => \A e \in Range(each[i]) : WishOk(e)
    <2>1. each[i] = IntentOf(selected[i], market)
      BY <1>3
    <2> HIDE DEF each
    <2>2. CASE each[i] = <<>>
      <3>1. <<>> \in Seq({}) /\ Len(<<>>) = 0
        OBVIOUS
      <3>2. Listed(<<>>)
        BY <3>1, SequenceIsListed
      <3>3. Range(<<>>) = {}
        BY <3>2, ListFacts, <3>1 DEF Range
      <3> QED BY <2>2, <3>2, <3>3 DEF Listed
    <2>3. Readable(evaluated, U, market) =>
            Price(market.mark[selected[i].sym]) /\ selected[i].spec.stop \in Rational
      <3>1. SUFFICES ASSUME Readable(evaluated, U, market)
                     PROVE  Price(market.mark[selected[i].sym]) /\ selected[i].spec.stop \in Rational
        OBVIOUS
      <3> HIDE DEF signals
      <3>2. selected[i] \in signals
        BY <1>1, <1>2, <3>1 DEF Readable
      <3> QED BY <1>1, <3>1, <3>2 DEF Readable
    <2>4. CASE each[i] # <<>>
      <3>1. PICK e : /\ each[i] = <<e>> /\ e.reduce = FALSE
                     /\ Readable(evaluated, U, market) => WishOk(e)
        BY <1>4, <2>1, <2>3, <2>4
      <3>2. <<e>> \in Seq({e}) /\ Len(<<e>>) = 1 /\ <<e>>[1] = e
        OBVIOUS
      <3>3. Listed(<<e>>)
        BY <3>2, SequenceIsListed
      <3>4. DOMAIN <<e>> = 1..1
        BY <3>2, <3>3, ListFacts
      <3>5. \A x \in Range(<<e>>) : x = e
        BY <3>2, <3>4 DEF Range
      <3> QED BY <3>1, <3>3, <3>5 DEF Listed
    <2> QED BY <2>2, <2>4
  <1>6. each = [i \in 1..Len(selected) |-> each[i]]
    BY <1>3, Zenon
  <1>7. GenerateIntents(evaluated, U, market, at) = FlattenSeq(each)
    BY Zenon DEF GenerateIntents, selected
  <1> HIDE DEF each
  <1>8. Listed(each) /\ Len(each) = Len(selected)
    BY <1>3, <1>6, ListFromFunction
  <1>9. \A i \in 1..Len(each) : each[i] \in Seq(D)
    <2>1. ASSUME NEW i \in 1..Len(selected) PROVE each[i] \in Seq(D)
      <3>1. Range(each[i]) \subseteq D
        OBVIOUS
      <3>2. each[i] \in Seq(Range(each[i]))
        BY <1>5
      <3> HIDE DEF D
      <3>3. \A R, s : R \subseteq D /\ s \in Seq(R) => s \in Seq(D)
        OBVIOUS
      <3> QED BY <3>1, <3>2, <3>3
    <2> QED BY <1>8, <2>1
  <1>10. /\ \A e \in D : e.reduce = FALSE
         /\ Readable(evaluated, U, market) => \A e \in D : WishOk(e)
    BY <1>5
  <1> HIDE DEF D
  <1>11. FlattenSeq(each) \in Seq(D)
    BY <1>8, <1>9, FlattenListed
  <1> QED BY <1>7, <1>10, <1>11

-----------------------------------------------------------------------------
(* What a cycle approves *)

(* A symbol has one winner. *)
LEMMA OneWinner ==
    ASSUME NEW intents, NEW eligible, NEW j \in Nat, NEW k \in Nat,
           Wins(intents, eligible, j), Wins(intents, eligible, k), intents[j].sym = intents[k].sym
    PROVE  j = k
  <1>1. ASSUME NEW a \in Nat, NEW b \in Nat, a < b, intents[a].sym = intents[b].sym,
               Wins(intents, eligible, a), Wins(intents, eligible, b)
        PROVE  FALSE
    <2>1. Weaker(intents[a], intents[b])
      BY <1>1 DEF Wins, SameSymbol
    <2>2. ~ (b < a)
      BY <1>1
    <2>3. ~ Weaker(intents[a], intents[b])
      BY <1>1, <2>2 DEF Wins, SameSymbol
    <2> QED BY <2>1, <2>3
  <1> QED BY <1>1

LEMMA SizedFor ==
    ASSUME NEW i, NEW equity, NEW profile, NEW current, NEW mmr, NEW leverage, NEW volatility,
           NEW sized, sized = SizeIntent(i, equity, profile, current, mmr, leverage, volatility),
           sized.st = "sized"
    PROVE  LET entry == IF i.limit # None THEN i.limit ELSE current
               distance == Distance(i, entry, profile.sizing_mode, volatility)
           IN  /\ sized.request.sym = i.sym /\ sized.request.reduce = i.reduce
               /\ sized.request.entry = entry
               /\ sized.request.quantity = Over(RiskAmount(i, equity, profile), distance)
               /\ ModeInputsOk(i, profile.sizing_mode, volatility) /\ Lt(Zero, distance)
  <1> DEFINE entry == IF i.limit # None THEN i.limit ELSE current
             mode == profile.sizing_mode
             risk == RiskAmount(i, equity, profile)
             distance == Distance(i, entry, mode, volatility)
             quantity == Over(risk, distance)
             notional == Times(quantity, entry)
             margin == Over(notional, leverage)
             liquidation == EstimatedLiquidationPrice(i.side, entry, mmr, leverage)
             skips == \/ ~ SizingInputsOk(equity, current, mmr, leverage)
                      \/ ~ ModeInputsOk(i, mode, volatility)
                      \/ ~ Lt(Zero, distance)
             raises == risk = Zero
             request == [sym |-> i.sym, side |-> i.side, type |-> i.type, tif |-> i.tif,
                         reduce |-> i.reduce, quantity |-> quantity, entry |-> entry,
                         stop |-> i.stop, risk |-> risk, notional |-> notional,
                         margin |-> margin, leverage |-> leverage,
                         liquidation |-> liquidation]
  <1>1. sized = IF skips THEN [st |-> "skip"]
                ELSE IF raises THEN [st |-> "raise"]
                ELSE [st |-> "sized", request |-> request]
    BY Zenon DEF SizeIntent
  <1> HIDE DEF skips, raises, request
  <1>2. sized.request = request /\ ~ skips
    BY <1>1
  <1> HIDE DEF entry, mode, risk, distance, quantity, notional, margin, liquidation
  <1>3. /\ request.sym = i.sym /\ request.reduce = i.reduce
        /\ request.entry = entry /\ request.quantity = quantity
    BY DEF request
  <1>4. ModeInputsOk(i, mode, volatility) /\ Lt(Zero, distance)
    BY <1>2 DEF skips
  <1> QED BY <1>2, <1>3, <1>4 DEF entry, distance, mode, risk, quantity

(* A request that was sized: of a quantity, at a price that has a          *)
(* leading digit.                                                          *)
Sized(q) == q.quantity \in Rational /\ Measurable(q.entry)

(* Sizing divides by a distance it has found positive. *)
LEMMA RequestSized ==
    ASSUME NEW i, WishOk(i), NEW equity \in Rational,
           NEW profile, profile.risk_pct_per_trade.text \in Rational,
           NEW current, Measurable(current), NEW mmr, NEW leverage,
           NEW sized, sized = SizeIntent(i, equity, profile, current, mmr, leverage, None),
           sized.st = "sized"
    PROVE  Sized(sized.request)
  <1>1. PICK entry : entry = IF i.limit # None THEN i.limit ELSE current
    OBVIOUS
  <1>2. PICK distance : distance = Distance(i, entry, profile.sizing_mode, None)
    OBVIOUS
  <1>3. PICK risk : risk = RiskAmount(i, equity, profile)
    OBVIOUS
  <1>4. /\ sized.request.entry = entry
        /\ sized.request.quantity = Over(risk, distance)
        /\ ModeInputsOk(i, profile.sizing_mode, None) /\ Lt(Zero, distance)
    BY <1>1, <1>2, <1>3, SizedFor
  <1>5. Measurable(entry) /\ entry \in Rational /\ i.stop \in Rational
    BY <1>1, AdjustedFacts DEF WishOk, Price
  <1>6. profile.sizing_mode # "vol_targeted"
    BY <1>4 DEF ModeInputsOk
  <1>7. distance \in Rational
    <2>1. Minus(entry, i.stop) \in Rational
      BY <1>5, ArithmeticTyped
    <2> QED BY <1>2, <1>6, <2>1, ArithmeticTyped DEF Distance
  <1>8. distance[1] # 0
    BY <1>4, <1>7, RationalFacts DEF Lt, Zero, Num
  <1>9. risk \in Rational
    <2>1. PICK full : full = Times(equity, profile.risk_pct_per_trade.text)
      OBVIOUS
    <2>2. full \in Rational
      BY <2>1, ArithmeticTyped
    <2>3. risk = IF profile.sizing_mode = "conviction_weighted" THEN Times(full, Modulus(i.conv))
                 ELSE full
      BY <1>3, <2>1 DEF RiskAmount
    <2>4. CASE profile.sizing_mode = "conviction_weighted"
      <3>1. i.conv \in Rational
        BY <1>4, <2>4 DEF ModeInputsOk, WishOk, Number
      <3>2. Modulus(i.conv) \in Rational
        BY <3>1, ArithmeticTyped
      <3> QED BY <2>2, <2>3, <2>4, <3>2, ArithmeticTyped
    <2>5. CASE profile.sizing_mode # "conviction_weighted"
      BY <2>2, <2>3, <2>5
    <2> QED BY <2>4, <2>5
  <1> QED BY <1>4, <1>5, <1>7, <1>8, <1>9, ArithmeticTyped DEF Sized

(* Nothing is approved with the book full. *)
LEMMA ApprovedHasRoom ==
    ASSUME NEW q, NEW profile, NEW limits, NEW seen, NEW funding, NEW correlation, NEW lacks,
           Evaluate(q, profile, limits, seen, funding, correlation, lacks).decision = "APPROVED"
    PROVE  ~ (Cardinality(DOMAIN seen.positions) >= profile.max_positions)
  <1> DEFINE broken == Violations(q, profile, limits, seen, funding, correlation, lacks)
             unsafe == FailSafeReasons(limits, seen, funding, correlation)
  <1>1. Cardinality(DOMAIN seen.positions) >= profile.max_positions
          => "MAX_POSITIONS_EXCEEDED" \in broken
    BY Zenon DEF Violations
  <1>2. broken = {}
    <2> HIDE DEF broken, unsafe
    <2> DEFINE verdict == IF seen.state \in BlockingStates
                          THEN [decision |-> "BLOCKED", reasons |-> {seen.state}]
                          ELSE IF unsafe # {} THEN [decision |-> "FAIL_SAFE", reasons |-> unsafe]
                          ELSE IF broken # {} THEN [decision |-> "REJECTED", reasons |-> broken]
                          ELSE [decision |-> "APPROVED", reasons |-> {"OK"}]
    <2>1. Evaluate(q, profile, limits, seen, funding, correlation, lacks) = verdict
      BY Zenon DEF Evaluate, broken, unsafe
    <2> QED BY <2>1
  <1> HIDE DEF broken
  <1> QED BY <1>1, <1>2

(* What a built engine computes with: its numbers, its symbols, and the    *)
(* marks the market gives them.                                            *)
Numeric(e) ==
    /\ e.deposit \in Rational
    /\ e.profile.risk_pct_per_trade.text \in Rational
    /\ \A sym \in DOMAIN e.rules : e.rules[sym] \in 0..PriceMaxDecimals
    /\ Range(e.universe) \subseteq Nat
    /\ \A market \in Market : \A sym \in Range(e.universe) : Price(market.mark[sym])

LEMMA JudgedPasses ==
    ASSUME NEW i, NEW market, NEW exec, NEW o, o = Judged(i, market, exec), Passes(o)
    PROVE  /\ o.request.sym = i.sym
           /\ o.request.reduce = i.reduce
           /\ ~ (Cardinality(Open) >= engine.profile.max_positions)
           /\ Numeric(engine) /\ market \in Market /\ WishOk(i) /\ i.sym \in Range(engine.universe)
                => Sized(o.request)
  <1> DEFINE price == IF i.limit # None THEN i.limit ELSE market.mark[i.sym]
             sizes == SizeIntent(i, Equity, engine.profile, price, engine.mmr, engine.leverage, None)
             sized == IF price = None THEN [st |-> "raise"] ELSE sizes
             funding == [rate |-> market.rate[i.sym], at |-> StampOf(market, i.sym)]
             correlation == [entries |-> {}, at |-> now]
             seen == Seen(exec)
             verdict == Evaluate(sized.request, engine.profile, engine.limits, seen,
                                 funding, correlation, Lacks)
  <1>1. o = IF sized.st # "sized" THEN sized
            ELSE IF funding.rate = None THEN [st |-> "raise"]
            ELSE [st |-> "judged", request |-> sized.request, stamp |-> funding.at,
                  verdict |-> verdict]
    BY Zenon DEF Judged
  <1>2. sizes.st \in {"skip", "raise", "sized"}
    <2> DEFINE skips == \/ ~ SizingInputsOk(Equity, price, engine.mmr, engine.leverage)
                        \/ ~ ModeInputsOk(i, engine.profile.sizing_mode, None)
                        \/ ~ Lt(Zero, Distance(i, IF i.limit # None THEN i.limit ELSE price,
                                               engine.profile.sizing_mode, None))
               raises == RiskAmount(i, Equity, engine.profile) = Zero
    <2>1. \E request : sizes = IF skips THEN [st |-> "skip"]
                               ELSE IF raises THEN [st |-> "raise"]
                               ELSE [st |-> "sized", request |-> request]
      BY Zenon DEF SizeIntent
    <2> HIDE DEF skips, raises, sizes
    <2> QED BY <2>1
  <1>3. DOMAIN seen.positions = Open
    BY DEF Seen
  <1> HIDE DEF sizes, price, verdict, seen, funding
  <1>4. sized.st = "sized" /\ sized = sizes /\ o.request = sized.request
        /\ o.verdict = verdict /\ price # None
    <2>1. o.st = "judged"
      BY DEF Passes
    <2> QED BY <1>1, <1>2, <2>1
  <1>5. verdict.decision = "APPROVED"
    BY <1>4 DEF Passes
  <1>6. ~ (Cardinality(Open) >= engine.profile.max_positions)
    BY <1>3, <1>5, ApprovedHasRoom DEF verdict
  <1>7. sizes.request.sym = i.sym /\ sizes.request.reduce = i.reduce
    <2>1. sizes.st = "sized"
      BY <1>4
    <2> HIDE DEF sized
    <2> QED BY <2>1, SizedFor DEF sizes
  <1>8. ASSUME Numeric(engine), market \in Market, WishOk(i), i.sym \in Range(engine.universe)
        PROVE  Sized(sizes.request)
    <2>1. Measurable(price)
      <3>1. Price(i.limit) /\ Price(market.mark[i.sym])
        BY <1>8 DEF Numeric, WishOk
      <3> QED BY <1>4, <3>1 DEF price, Price
    <2>2. Equity \in Rational
      BY <1>8 DEF Numeric, Equity, Zero, Num, Rational
    <2>3. engine.profile.risk_pct_per_trade.text \in Rational
      BY <1>8 DEF Numeric
    <2>4. sizes.st = "sized"
      BY <1>4
    <2> HIDE DEF sized
    <2> QED BY <1>8, <2>1, <2>2, <2>3, <2>4, RequestSized DEF sizes
  <1> QED BY <1>4, <1>6, <1>7, <1>8

(* A request that may be placed: in the universe, with nothing like it     *)
(* resting, and a place in the book.                                       *)
MayBePlaced(q) ==
    /\ q.sym \in Range(engine.universe)
    /\ q.reduce \in BOOLEAN
    /\ <<q.sym, q.reduce>> \notin LiveOrderKeys
    /\ ~ (Cardinality(Open) >= engine.profile.max_positions)

LEMMA ConstructApproves ==
    ASSUME NEW intents, Listed(intents), \A k \in 1..Len(intents) : intents[k].reduce \in BOOLEAN,
           NEW market, NEW exec,
           NEW outcomes, outcomes = Construct(intents, Tradable(intents), market, exec),
           NEW t, t = Approved(outcomes)
    PROVE  /\ Listed(t) /\ OncePerSymbol(t) /\ \A r \in 1..Len(t) : MayBePlaced(t[r])
           /\ Numeric(engine) /\ market \in Market /\ (\A k \in 1..Len(intents) : WishOk(intents[k]))
                => \A r \in 1..Len(t) : Sized(t[r])
  <1> DEFINE eligible == {k \in Tradable(intents) : intents[k].sym \in Range(engine.universe)}
             s == Survivors(intents, eligible)
             N == Len(s)
             judged(r) == Judged(intents[s[r]], market, exec)
  <1>1. Len(intents) \in Nat
    BY ListFacts
  <1>2. s \in Seq(1..Len(intents)) /\ Distinct(s)
        /\ \A i \in 1..N : Wins(intents, eligible, s[i])
    <2> HIDE DEF eligible
    <2> QED BY <1>1, SurvivorsWin
  <1>3. outcomes = [r \in DOMAIN s |-> judged(r)]
    BY Zenon DEF Construct
  <1> HIDE DEF s
  <1>4. N \in Nat /\ DOMAIN s = 1..N /\ \A r \in 1..N : s[r] \in Nat
    BY <1>2
  <1>5. outcomes = [r \in 1..N |-> judged(r)] /\ \A r \in 1..N : outcomes[r] = judged(r)
    <2> HIDE DEF judged
    <2> QED BY <1>3, <1>4
  <1>6. Len(outcomes) = N
    <2> HIDE DEF judged, N
    <2>1. outcomes = [r \in 1..N |-> outcomes[r]]
      BY <1>5
    <2> QED BY <1>4, <2>1, ListFromFunction
  <1>7. ASSUME NEW r \in 1..N, Passes(outcomes[r])
        PROVE  /\ outcomes[r].request.sym = intents[s[r]].sym
               /\ outcomes[r].request.reduce = intents[s[r]].reduce
               /\ ~ (Cardinality(Open) >= engine.profile.max_positions)
               /\ /\ Numeric(engine) /\ market \in Market
                  /\ WishOk(intents[s[r]]) /\ intents[s[r]].sym \in Range(engine.universe)
                  => Sized(outcomes[r].request)
    <2>1. outcomes[r] = Judged(intents[s[r]], market, exec)
      BY <1>5
    <2> QED BY <1>7, <2>1, JudgedPasses
  <1>8. Apiece(outcomes)
    <2>1. SUFFICES ASSUME NEW i \in 1..N, NEW j \in 1..N, Passes(outcomes[i]), Passes(outcomes[j]),
                          outcomes[i].request.sym = outcomes[j].request.sym
                   PROVE  i = j
      BY <1>6 DEF Apiece
    <2>2. intents[s[i]].sym = intents[s[j]].sym
      BY <1>7, <2>1
    <2>3. s[i] = s[j]
      <3> HIDE DEF eligible
      <3> QED BY <1>2, <1>4, <2>2, OneWinner
    <2> QED BY <1>2, <2>3 DEF Distinct
  <1>9. Listed(t) /\ OfPassing(t, outcomes, N) /\ OncePerSymbol(t)
    BY <1>4, <1>6, <1>8, ApprovedPass
  <1>10. ASSUME NEW r \in 1..Len(t) PROVE MayBePlaced(t[r])
    <2>1. PICK j \in 1..N : Passes(outcomes[j]) /\ t[r] = outcomes[j].request
      BY <1>9 DEF OfPassing
    <2>2. Wins(intents, eligible, s[j])
      BY <1>2
    <2>3. /\ s[j] \in Tradable(intents)
          /\ intents[s[j]].sym \in Range(engine.universe)
      BY <2>2 DEF Wins
    <2>4. <<intents[s[j]].sym, intents[s[j]].reduce>> \notin LiveOrderKeys
      BY <2>3 DEF Tradable
    <2>5. intents[s[j]].reduce \in BOOLEAN
      BY <1>2
    <2> QED BY <1>7, <2>1, <2>3, <2>4, <2>5 DEF MayBePlaced
  <1>11. ASSUME Numeric(engine), market \in Market, \A k \in 1..Len(intents) : WishOk(intents[k]),
                NEW r \in 1..Len(t)
         PROVE  Sized(t[r])
    <2>1. PICK j \in 1..N : Passes(outcomes[j]) /\ t[r] = outcomes[j].request
      BY <1>9 DEF OfPassing
    <2>2. Wins(intents, eligible, s[j]) /\ s[j] \in 1..Len(intents)
      <3> HIDE DEF eligible
      <3> QED BY <1>2, <2>1
    <2>3. intents[s[j]].sym \in Range(engine.universe)
      BY <2>2 DEF Wins
    <2> HIDE DEF eligible
    <2> QED BY <1>7, <1>11, <2>1, <2>2, <2>3
  <1> QED BY <1>9, <1>10, <1>11

-----------------------------------------------------------------------------
(* What create returns *)

(* The environment replaces nothing in another section. *)
LEMMA OverriddenElsewhere ==
    ASSUME NEW raw, NEW section, NEW field, NEW env, NEW name, name # section
    PROVE  LET over == Overridden(raw, section, field, env)
           IN  /\ name \in DOMAIN over <=> name \in DOMAIN raw
               /\ name \in DOMAIN raw => over[name] = raw[name]
BY DEF Overridden, With

LEMMA OverridesElsewhere ==
    ASSUME NEW raw, NEW env, NEW name \in {"universe", "risk"}
    PROVE  LET over == ApplyEnvOverrides(raw, env)
           IN  /\ name \in DOMAIN over <=> name \in DOMAIN raw
               /\ name \in DOMAIN raw => over[name] = raw[name]
  <1> DEFINE mode == Overridden(raw, "environment", "mode", env)
             signing == Overridden(mode, "secrets", "signing_key_ref", env)
             telegram == Overridden(signing, "secrets", "telegram_bot_token_ref", env)
             wallet == Overridden(telegram, "secrets", "wallet_key_ref", env)
             Same(a, b) == (name \in DOMAIN b <=> name \in DOMAIN a)
                             /\ (name \in DOMAIN a => b[name] = a[name])
  <1>1. name # "environment" /\ name # "secrets"
    OBVIOUS
  <1>2. Same(raw, mode)
    BY <1>1, OverriddenElsewhere
  <1> HIDE DEF mode
  <1>3. Same(mode, signing)
    BY <1>1, OverriddenElsewhere
  <1> HIDE DEF signing
  <1>4. Same(signing, telegram)
    BY <1>1, OverriddenElsewhere
  <1> HIDE DEF telegram
  <1>5. Same(telegram, wallet)
    BY <1>1, OverriddenElsewhere
  <1>6. ApplyEnvOverrides(raw, env) = wallet
    BY DEF ApplyEnvOverrides, mode, signing, telegram
  <1> HIDE DEF wallet
  <1> QED BY <1>2, <1>3, <1>4, <1>5, <1>6

(* A table that passes names its symbols. *)
LEMMA ValidUniverse ==
    ASSUME NEW raw, Validate(raw) = {}
    PROVE  /\ "universe" \in DOMAIN raw
           /\ "symbols" \in DOMAIN raw["universe"]
           /\ \A i \in DOMAIN raw["universe"]["symbols"] : raw["universe"]["symbols"][i] > 0
  <1>1. Section(raw, "universe", ValidateUniverse) = {}
    BY Zenon DEF Validate
  <1>2. "universe" \in DOMAIN raw /\ ValidateUniverse(raw["universe"]) = {}
    BY <1>1 DEF Section
  <1> DEFINE t == raw["universe"]
             symbols == Get(t, "symbols", <<>>)
             range == {symbols[i] : i \in DOMAIN symbols}
  <1>3. symbols # <<>> /\ \A s \in range : s > 0
    BY <1>2 DEF ValidateUniverse
  <1>4. "symbols" \in DOMAIN t /\ symbols = t["symbols"]
    BY <1>3 DEF Get
  <1> HIDE DEF symbols
  <1> QED BY <1>2, <1>3, <1>4

(* And the positions of each of its profiles, at least one. *)
LEMMA ValidProfile ==
    ASSUME NEW p, ValidateRiskProfile(p) = {},
           Get(p, "max_positions", None) # None =>
             Get(p, "max_positions", None) \in Int \X (Nat \ {0})
    PROVE  "max_positions" \in DOMAIN p /\ p.max_positions[1] \in Nat \ {0}
  <1> DEFINE n == Get(p, "max_positions", None)
  <1>1. Bad(p, {"max_positions"}, LAMBDA m : IsPositive(m) /\ m[2] = 1) = {}
    BY DEF ValidateRiskProfile
  <1>2. IsPositive(n)
    BY <1>1 DEF Bad
  <1>3. n # None /\ n \in Int \X (Nat \ {0})
    BY <1>2 DEF IsPositive
  <1>4. n[1] \in Int /\ n[2] \in Nat \ {0} /\ Lt(Zero, n)
    BY <1>2, <1>3 DEF IsPositive
  <1>5. n[1] > 0
    BY <1>4 DEF Lt, Zero, Num
  <1>6. "max_positions" \in DOMAIN p /\ n = p["max_positions"]
    BY <1>3 DEF Get
  <1> QED BY <1>4, <1>5, <1>6

(* And what it risks on a trade. *)
LEMMA ValidFraction ==
    ASSUME NEW p, ValidateRiskProfile(p) = {}, Number(Get(p, "risk_pct_per_trade", None))
    PROVE  "risk_pct_per_trade" \in DOMAIN p /\ p.risk_pct_per_trade \in Rational
  <1> DEFINE x == Get(p, "risk_pct_per_trade", None)
  <1>1. Bad(p, {"risk_pct_per_trade", "heat_cap"}, IsFraction) = {}
    BY DEF ValidateRiskProfile
  <1>2. IsFraction(x)
    BY <1>1 DEF Bad
  <1>3. x # None /\ x \in Rational
    BY <1>2 DEF IsFraction, Number
  <1> QED BY <1>3 DEF Get

(* The deposit is a number: the environment's, or nothing. *)
LEMMA DepositIsNumber ==
    ASSUME NEW env, SettingsOk(env), Number(Get(env, "PORTFOLIO_INITIAL_DEPOSIT", None))
    PROVE  DecimalSetting(env, "PORTFOLIO_INITIAL_DEPOSIT") \in Rational
  <1> DEFINE key == "PORTFOLIO_INITIAL_DEPOSIT"
  <1>1. key \in DOMAIN DecimalDefaults /\ DecimalDefaults[key] = Zero
    BY DEF DecimalDefaults
  <1>2. DecimalSetting(env, key) # None
    BY <1>1, Zenon DEF SettingsOk
  <1>3. DecimalSetting(env, key) = IF key \in DOMAIN env THEN env[key] ELSE Zero
    BY <1>1, Zenon DEF DecimalSetting, Setting, Get
  <1>4. Zero \in Rational
    BY DEF Zero, Num, Rational
  <1>5. CASE key \in DOMAIN env
    BY <1>2, <1>3, <1>5 DEF Number, Get
  <1>6. CASE key \notin DOMAIN env
    BY <1>3, <1>4, <1>6
  <1> QED BY <1>5, <1>6

(* fetch_hyperliquid_rules: of each asset, the last answer counts. *)
LEMMA RulesAreNumbers ==
    ASSUME NEW meta, Listed(meta), RulesOk(meta), NEW rules, rules = FetchRules(meta)
    PROVE  \A name \in DOMAIN rules : rules[name] \in 0..PriceMaxDecimals
  <1> DEFINE IsLast(name, i) == /\ meta[i].name = name
                              /\ \A j \in DOMAIN meta : meta[j].name = name => j <= i
             names == {meta[i].name : i \in DOMAIN meta}
             place(name) == CHOOSE i \in DOMAIN meta : IsLast(name, i)
  <1>1. rules = [name \in names |-> meta[place(name)].szDecimals]
    BY Zenon DEF FetchRules
  <1>2. Len(meta) \in Nat /\ DOMAIN meta = 1..Len(meta)
    BY ListFacts
  <1>3. ASSUME NEW name \in names PROVE place(name) \in DOMAIN meta
    <2> DEFINE N == Len(meta)
               T == {N - i : i \in {j \in 1..N : meta[j].name = name}}
    <2>1. T \subseteq Nat /\ T # {}
      BY <1>2
    <2>2. Min(T) \in T /\ \A y \in T : Min(T) <= y
      <3> HIDE DEF T
      <3> QED BY <2>1, MinIsMember
    <2>3. PICK i \in 1..N : meta[i].name = name /\ Min(T) = N - i
      BY <2>2
    <2>4. ASSUME NEW j \in 1..N, meta[j].name = name PROVE j <= i
      <3>1. N - j \in T
        BY <2>4
      <3>2. N - i <= N - j
        BY <2>2, <2>3, <3>1
      <3> QED BY <1>2, <3>2
    <2>5. i \in DOMAIN meta /\ IsLast(name, i)
      BY <1>2, <2>3, <2>4
    <2> HIDE DEF IsLast
    <2> QED BY <2>5
  <1>4. \A i \in DOMAIN meta : meta[i].szDecimals \in 0..PriceMaxDecimals
    BY DEF RulesOk
  <1> HIDE DEF names, place
  <1> QED BY <1>1, <1>3, <1>4

LEMMA ValidRisk ==
    ASSUME NEW raw, Validate(raw) = {}
    PROVE  /\ "risk" \in DOMAIN raw
           /\ "profile" \in DOMAIN raw["risk"] /\ "profiles" \in DOMAIN raw["risk"]
           /\ raw["risk"]["profile"] \in DOMAIN raw["risk"]["profiles"]
           /\ ValidateRiskProfile(raw["risk"]["profiles"][raw["risk"]["profile"]]) = {}
  <1> DEFINE t == raw["risk"]
             active == Get(t, "profile", "")
             profiles == Get(t, "profiles", <<>>)
  <1>1. Section(raw, "risk", ValidateRisk) = {}
    BY Zenon DEF Validate
  <1>2. "risk" \in DOMAIN raw /\ ValidateRisk(t) = {}
    BY <1>1 DEF Section
  <1>3. /\ {x \in {"profile"} : active \notin SUPPORTED_RISK_PROFILE_NAMES \cap DOMAIN profiles} = {}
        /\ UNION {ValidateRiskProfile(profiles[n]) : n \in DOMAIN profiles} = {}
    BY <1>2, Zenon DEF ValidateRisk
  <1>4. active \in DOMAIN profiles /\ active \in SUPPORTED_RISK_PROFILE_NAMES
    BY <1>3
  <1>5. ValidateRiskProfile(profiles[active]) = {}
    BY <1>3, <1>4
  <1>6. "profile" \in DOMAIN t /\ active = t["profile"]
    <2>1. active # ""
      BY <1>4 DEF SUPPORTED_RISK_PROFILE_NAMES
    <2> QED BY <2>1 DEF Get
  <1>7. "profiles" \in DOMAIN t /\ profiles = t["profiles"]
    <2>1. DOMAIN profiles # {}
      BY <1>4
    <2>2. profiles # <<>>
      <3>1. \A s \in Seq({}) : Len(s) = 0 => DOMAIN s = {}
        OBVIOUS
      <3>2. <<>> \in Seq({}) /\ Len(<<>>) = 0
        OBVIOUS
      <3>3. DOMAIN <<>> = {}
        BY <3>1, <3>2
      <3> QED BY <2>1, <3>3
    <2> QED BY <2>2 DEF Get
  <1> QED BY <1>2, <1>4, <1>5, <1>6, <1>7

(* An engine that was built trades listed symbols, in a book of a size. *)
LEMMA CreateSound ==
    ASSUME NEW l \in Launch, NEW e, e = Create(l.file, l.env, l.meta, l.rules)
    PROVE  /\ e.up \in BOOLEAN
           /\ e.up => e.universe \in Seq(Int) /\ e.profile.max_positions \in Nat \ {0}
           /\ e.up => Numeric(e)
  <1> DEFINE table == l.file.table
             raw == ApplyEnvOverrides(table, l.env)
             loaded == LoadConfig(l.file, l.env)
             config == loaded.config
             live == config.environment = "live"
             limits == RiskLimits(l.env)
             mmr == DecimalSetting(l.env, "CYCLE_MAINTENANCE_MARGIN_RATE")
             leverage == DecimalSetting(l.env, "CYCLE_TARGET_LEVERAGE")
             deposit == DecimalSetting(l.env, "PORTFOLIO_INITIAL_DEPOSIT")
             rules == IF l.rules # <<>> THEN l.rules ELSE IF live THEN FetchRules(l.meta) ELSE <<>>
             A == SettingsOk(l.env)
             B == LimitsOk(limits)
             C == EngineBuilds(config, l.env)
             D == live /\ ~ RulesOk(l.meta)
             built == [up |-> TRUE, live |-> live, universe |-> config.symbols,
                       profile |-> config.profile, limits |-> limits, mmr |-> mmr,
                       leverage |-> leverage, deposit |-> deposit, rules |-> rules]
  <1>1. e = IF ~ A THEN Refused("settings")
            ELSE IF ~ loaded.ok THEN Refused("config")
            ELSE IF ~ B THEN Refused("limits")
            ELSE IF ~ C THEN Refused("engine")
            ELSE IF D THEN Refused("rules")
            ELSE built
    BY Zenon DEF Create
  <1> HIDE DEF A, B, C, D, loaded, live, limits, mmr, leverage, deposit, rules
  <1>2. \/ e.up = FALSE
        \/ e = built /\ loaded.ok /\ A /\ ~ D
    BY <1>1 DEF Refused
  <1>3. ASSUME e = built
        PROVE  /\ e.up = TRUE /\ e.universe = config.symbols /\ e.profile = config.profile
               /\ e.deposit = deposit /\ e.rules = rules
    BY <1>3
  <1> HIDE DEF built
  <1>4. ASSUME loaded.ok
        PROVE  /\ config.symbols \in Seq(Int)
               /\ config.profile.max_positions \in Nat \ {0}
               /\ config.profile.risk_pct_per_trade.text \in Rational
               /\ Range(config.symbols) \subseteq Nat
               /\ \A market \in Market : \A sym \in Range(config.symbols) : Price(market.mark[sym])
    <2> HIDE DEF raw
    <2> DEFINE issues == IF l.file.readable THEN Validate(raw) ELSE {<<"file">>}
    <2>1. loaded = IF issues = {} THEN [ok |-> TRUE, issues |-> {}, config |-> Build(raw)]
                   ELSE [ok |-> FALSE, issues |-> issues]
      BY Zenon DEF LoadConfig, loaded, raw
    <2>2. issues = {} /\ config = Build(raw)
      <3> HIDE DEF issues
      <3> QED BY <1>4, <2>1
    <2>3. Validate(raw) = {}
      BY <2>2
    <2>4. /\ "universe" \in DOMAIN raw /\ "symbols" \in DOMAIN raw["universe"]
          /\ \A i \in DOMAIN raw["universe"]["symbols"] : raw["universe"]["symbols"][i] > 0
      BY <2>3, ValidUniverse
    <2>5. /\ "risk" \in DOMAIN raw
          /\ "profile" \in DOMAIN raw["risk"] /\ "profiles" \in DOMAIN raw["risk"]
          /\ raw["risk"]["profile"] \in DOMAIN raw["risk"]["profiles"]
          /\ ValidateRiskProfile(raw["risk"]["profiles"][raw["risk"]["profile"]]) = {}
      BY <2>3, ValidRisk
    <2>6. /\ "universe" \in DOMAIN table /\ raw["universe"] = table["universe"]
          /\ "risk" \in DOMAIN table /\ raw["risk"] = table["risk"]
      BY <2>4, <2>5, OverridesElsewhere DEF raw
    <2>7. LaunchOk(l)
      BY CycleAssumption
    <2>8. raw["universe"]["symbols"] \in Seq(Int)
      BY <2>4, <2>6, <2>7 DEF LaunchOk, SymbolsOf, Get
    <2> DEFINE profiles == raw["risk"]["profiles"]
               p == profiles[raw["risk"]["profile"]]
    <2>9. Get(p, "max_positions", None) # None =>
            Get(p, "max_positions", None) \in Int \X (Nat \ {0})
      <3>1. Get(Get(table, "risk", <<>>), "profiles", <<>>) = profiles
        BY <2>5, <2>6 DEF Get
      <3>2. Number(Get(p, "max_positions", None))
        BY <2>5, <2>7, <3>1, Zenon DEF LaunchOk
      <3> QED BY <3>2 DEF Number, Rational
    <2>10. p.max_positions[1] \in Nat \ {0}
      BY <2>5, <2>9, ValidProfile
    <2>11. /\ Build(raw).symbols = raw["universe"]["symbols"]
           /\ Build(raw).profile.max_positions = p.max_positions[1]
           /\ Build(raw).profile.risk_pct_per_trade.text = p.risk_pct_per_trade
      BY DEF Build, Float
    <2>12. p.risk_pct_per_trade \in Rational
      <3>1. Get(Get(table, "risk", <<>>), "profiles", <<>>) = profiles
        BY <2>5, <2>6 DEF Get
      <3>2. Number(Get(p, "risk_pct_per_trade", None))
        BY <2>5, <2>7, <3>1, Zenon DEF LaunchOk
      <3> QED BY <2>5, <3>2, ValidFraction
    <2>13. PICK symbols : symbols = raw["universe"]["symbols"]
      OBVIOUS
    <2>14. Range(symbols) \subseteq Nat /\ \A sym \in Range(symbols) : sym > 0
      <3>1. \A i \in DOMAIN symbols : symbols[i] \in Int /\ symbols[i] > 0
        BY <2>4, <2>8, <2>13
      <3> QED BY <3>1 DEF Range
    <2>15. \A market \in Market : \A sym \in Range(symbols) : Price(market.mark[sym])
      <3>1. SymbolsOf(l) = symbols
        BY <2>4, <2>6, <2>13 DEF SymbolsOf, Get
      <3> QED BY <2>14, <3>1, CycleAssumption
    <2> QED BY <2>2, <2>8, <2>10, <2>11, <2>12, <2>13, <2>14, <2>15
  <1>5. ASSUME A PROVE deposit \in Rational
    <2>1. Number(Get(l.env, "PORTFOLIO_INITIAL_DEPOSIT", None))
      BY CycleAssumption DEF LaunchOk
    <2> QED BY <1>5, <2>1, DepositIsNumber DEF A, deposit
  <1>6. ASSUME ~ D PROVE \A sym \in DOMAIN rules : rules[sym] \in 0..PriceMaxDecimals
    <2>1. Listed(l.meta) /\ \A sym \in DOMAIN l.rules : l.rules[sym] \in 0..PriceMaxDecimals
      BY CycleAssumption DEF LaunchOk
    <2>2. CASE l.rules # <<>>
      BY <2>1, <2>2 DEF rules
    <2>3. CASE l.rules = <<>> /\ live
      <3>1. RulesOk(l.meta) /\ rules = FetchRules(l.meta)
        BY <1>6, <2>3 DEF D, rules
      <3> QED BY <2>1, <3>1, RulesAreNumbers
    <2>4. CASE l.rules = <<>> /\ ~ live
      <3>1. \A t \in Seq({}) : Len(t) = 0 => DOMAIN t = {}
        OBVIOUS
      <3>2. <<>> \in Seq({}) /\ Len(<<>>) = 0
        OBVIOUS
      <3>3. rules = <<>>
        BY <2>4 DEF rules
      <3> QED BY <3>1, <3>2, <3>3
    <2> QED BY <2>2, <2>3, <2>4
  <1>7. ASSUME e.up PROVE Numeric(e)
    <2>1. e = built /\ loaded.ok /\ A /\ ~ D
      BY <1>2, <1>7
    <2> HIDE DEF config
    <2> QED BY <1>3, <1>4, <1>5, <1>6, <2>1 DEF Numeric
  <1> QED BY <1>2, <1>3, <1>4, <1>7

-----------------------------------------------------------------------------
(* Counting *)

(* ids have symbols of the list u, none twice. *)
Spread(ids, sym, u) ==
    /\ \A n \in ids : sym[n] \in Range(u)
    /\ \A m, n \in ids : sym[m] = sym[n] => m = n

LEMMA SpreadFits ==
    ASSUME NEW ids, NEW sym, NEW u \in Seq(Int), Spread(ids, sym, u)
    PROVE  IsFiniteSet(ids) /\ Cardinality(ids) <= Len(u) /\ Cardinality(ids) \in Nat
  <1> DEFINE at(n) == CHOOSE i \in 1..Len(u) : u[i] = sym[n]
             f == [n \in ids |-> at(n)]
  <1>1. ASSUME NEW n \in ids PROVE at(n) \in 1..Len(u) /\ u[at(n)] = sym[n]
    <2>1. sym[n] \in Range(u)
      BY DEF Spread
    <2>2. \E i \in 1..Len(u) : u[i] = sym[n]
      BY <2>1 DEF Range
    <2> QED BY <2>2
  <1> HIDE DEF at
  <1>2. f \in [ids -> 1..Len(u)]
    BY <1>1
  <1>3. ASSUME NEW m \in ids, NEW n \in ids, f[m] = f[n] PROVE m = n
    <2>1. sym[m] = sym[n]
      BY <1>1, <1>3
    <2> QED BY <2>1 DEF Spread
  <1>4. f \in Injection(ids, 1..Len(u))
    BY <1>2, <1>3 DEF Injection, IsInjective
  <1> HIDE DEF f
  <1>5. IsFiniteSet(1..Len(u)) /\ Cardinality(1..Len(u)) = Len(u)
    <2>1. 1 \in Int /\ Len(u) \in Nat /\ Len(u) \in Int
      OBVIOUS
    <2>2. IsFiniteSet(1..Len(u)) /\ Cardinality(1..Len(u)) = IF 1 > Len(u) THEN 0 ELSE Len(u) - 1 + 1
      BY <2>1, FS_Interval
    <2> QED BY <2>1, <2>2
  <1> QED BY <1>4, <1>5, FS_Injection, FS_CardinalityType

(* A book with a free place, and two orders a symbol besides. *)
LEMMA RoundsFit ==
    ASSUME NEW held, IsFiniteSet(held), NEW P \in Nat, Cardinality(held) < P,
           NEW A, NEW B, NEW sym, NEW u \in Seq(Int), Spread(A, sym, u), Spread(B, sym, u),
           NEW C, C \subseteq held \cup (A \cup B)
    PROVE  Cardinality(C) <= P - 1 + 2 * Len(u)
  <1>1. IsFiniteSet(A) /\ Cardinality(A) <= Len(u) /\ Cardinality(A) \in Nat
    BY SpreadFits
  <1>2. IsFiniteSet(B) /\ Cardinality(B) <= Len(u) /\ Cardinality(B) \in Nat
    BY SpreadFits
  <1>3. ASSUME NEW S, NEW T, IsFiniteSet(S), IsFiniteSet(T)
        PROVE  /\ IsFiniteSet(S \cup T)
               /\ Cardinality(S \cup T) \in Nat /\ Cardinality(S) \in Nat /\ Cardinality(T) \in Nat
               /\ Cardinality(S \cup T) <= Cardinality(S) + Cardinality(T)
    <2>1. IsFiniteSet(S \cup T) /\ IsFiniteSet(S \cap T)
      BY <1>3, FS_Union, FS_Intersection
    <2>2. Cardinality(S \cup T) = Cardinality(S) + Cardinality(T) - Cardinality(S \cap T)
      BY <1>3, FS_Union
    <2>3. Cardinality(S \cup T) \in Nat /\ Cardinality(S \cap T) \in Nat
          /\ Cardinality(S) \in Nat /\ Cardinality(T) \in Nat
      BY <1>3, <2>1, FS_CardinalityType
    <2> QED BY <2>1, <2>2, <2>3
  <1>4. IsFiniteSet(A \cup B) /\ Cardinality(A \cup B) \in Nat
        /\ Cardinality(A \cup B) <= Cardinality(A) + Cardinality(B)
    BY <1>1, <1>2, <1>3
  <1>5. /\ IsFiniteSet(held \cup (A \cup B)) /\ Cardinality(held \cup (A \cup B)) \in Nat
        /\ Cardinality(held) \in Nat
        /\ Cardinality(held \cup (A \cup B)) <= Cardinality(held) + Cardinality(A \cup B)
    BY <1>3, <1>4
  <1>6. IsFiniteSet(C) /\ Cardinality(C) <= Cardinality(held \cup (A \cup B))
    BY <1>5, FS_Subset
  <1>7. Cardinality(C) \in Nat
    BY <1>6, FS_CardinalityType
  <1>8. Len(u) \in Nat
    OBVIOUS
  <1> QED BY <1>1, <1>2, <1>4, <1>5, <1>6, <1>7, <1>8

-----------------------------------------------------------------------------
(* The book *)

BookInv == BooksTyped /\ KeptApart /\ PlacingInv /\ BookIsBounded

(* No order is added, and each stays, moves on or ends. *)
Quieter ==
    /\ Listed(orders') /\ Len(orders') = Len(orders)
    /\ \A n \in 1..Len(orders) :
         /\ OrderFields \subseteq DOMAIN orders'[n]
         /\ orders'[n].reduce \in BOOLEAN
         /\ \/ orders'[n].st = "over"
            \/ /\ orders'[n].sym = orders[n].sym
               /\ orders'[n].reduce = orders[n].reduce
               /\ \/ orders'[n].st = orders[n].st
                  \/ orders[n].st = "live" /\ orders'[n].st = "filled"
                  \/ orders[n].st = "filled" /\ orders'[n].st = "booked"

LEMMA OpenIsFinite ==
    ASSUME Listed(orders)
    PROVE  /\ IsFiniteSet(Open) /\ Cardinality(Open) \in Nat
           /\ IsFiniteSet(Committed) /\ Cardinality(Committed) \in Nat
  <1>1. Len(orders) \in Nat /\ DOMAIN orders = 1..Len(orders)
    BY ListFacts
  <1>2. IsFiniteSet(1..Len(orders))
    <2>1. 1 \in Int /\ Len(orders) \in Int
      BY <1>1
    <2> QED BY <2>1, FS_Interval
  <1>3. Open \subseteq 1..Len(orders) /\ Committed \subseteq 1..Len(orders)
    BY <1>1 DEF Open, Committed
  <1> QED BY <1>2, <1>3, FS_Subset, FS_CardinalityType

LEMMA QuieterKeeps ==
    ASSUME BookInv, Quieter, engine' = engine
    PROVE  /\ Resting' \subseteq Resting /\ Waiting' \subseteq Waiting
           /\ \A n \in Waiting' : orders'[n].sym = orders[n].sym
           /\ \A n \in Waiting' : orders'[n].sym \in Range(engine'.universe)
           /\ Apart(Resting)'
           /\ BookIsBounded'
  <1>1. /\ Len(orders) \in Nat /\ DOMAIN orders = 1..Len(orders)
        /\ DOMAIN orders' = 1..Len(orders)
    BY ListFacts DEF BookInv, BooksTyped, Quieter
  <1>2. ASSUME NEW n \in Waiting'
        PROVE  n \in Waiting /\ orders'[n].sym = orders[n].sym
               /\ (orders'[n].st = "live" => orders[n].st = "live")
    BY <1>1, <1>2 DEF Waiting, Quieter
  <1>3. Resting' \subseteq Resting
    BY <1>2 DEF Resting
  <1>4. Resting' \subseteq Waiting'
    BY DEF Resting
  <1>5. Apart(Resting)'
    BY <1>2, <1>3, <1>4 DEF BookInv, KeptApart, Apart
  <1>6. \A n \in Waiting' : orders'[n].sym \in Range(engine'.universe)
    BY <1>2 DEF BookInv, KeptApart
  <1>7. Committed' \subseteq Committed
    BY <1>1 DEF Committed, Quieter
  <1>8. BookIsBounded'
    <2>1. SUFFICES ASSUME engine.up
                   PROVE  Cardinality(Committed')
                            <= engine.profile.max_positions - 1 + 2 * Len(engine.universe)
      BY DEF BookIsBounded
    <2>2. IsFiniteSet(Committed) /\ Cardinality(Committed) \in Nat
      BY OpenIsFinite DEF BookInv, BooksTyped
    <2>3. IsFiniteSet(Committed') /\ Cardinality(Committed') <= Cardinality(Committed)
      BY <1>7, <2>2, FS_Subset
    <2>4. Cardinality(Committed') \in Nat
      BY <2>3, FS_CardinalityType
    <2>5. Cardinality(Committed) <= engine.profile.max_positions - 1 + 2 * Len(engine.universe)
      BY <2>1 DEF BookInv, BookIsBounded
    <2>6. engine.profile.max_positions \in Nat /\ Len(engine.universe) \in Nat
      BY <2>1 DEF BookInv, BooksTyped
    <2> QED BY <2>2, <2>3, <2>4, <2>5, <2>6
  <1> QED BY <1>2, <1>3, <1>5, <1>6, <1>8

LEMMA EndedFacts ==
    Ended.st = "over" /\ Ended.reduce = FALSE /\ OrderFields \subseteq DOMAIN Ended
  <1> DEFINE D == {"sym", "side", "reduce", "quantity", "price", "stopD", "st", "at"}
  <1>1. Ended.st = "over" /\ Ended.reduce = FALSE
    BY DEF Ended
  <1>2. DOMAIN Ended = D
    BY DEF Ended
  <1> QED BY <1>1, <1>2 DEF OrderFields

(* Booking fills is such a step, and leaves no fill unbooked. *)
LEMMA BookedIsQuieter ==
    ASSUME BookInv, orders' = Booked
    PROVE  Quieter /\ \A n \in 1..Len(orders) : orders'[n].st # "filled"
  <1>1. Len(orders) \in Nat /\ DOMAIN orders = 1..Len(orders)
    BY ListFacts DEF BookInv, BooksTyped
  <1> DEFINE of(n) == IF n \in Closed \/ (orders[n].st = "filled" /\ orders[n].reduce) THEN Ended
                      ELSE IF orders[n].st = "filled"
                           THEN [orders[n] EXCEPT !.st = "booked", !.at = now]
                      ELSE orders[n]
  <1>2. orders' = [n \in 1..Len(orders) |-> of(n)]
    BY <1>1, Zenon DEF Booked
  <1>3. ASSUME NEW n \in 1..Len(orders)
        PROVE  /\ OrderFields \subseteq DOMAIN of(n)
               /\ of(n).reduce \in BOOLEAN
               /\ of(n).st # "filled"
               /\ \/ of(n).st = "over"
                  \/ /\ of(n).sym = orders[n].sym
                     /\ of(n).reduce = orders[n].reduce
                     /\ \/ of(n).st = orders[n].st
                        \/ orders[n].st = "filled" /\ of(n).st = "booked"
    <2>1. OrderFields \subseteq DOMAIN orders[n] /\ orders[n].reduce \in BOOLEAN
      BY <1>1 DEF BookInv, BooksTyped
    <2>2. CASE n \in Closed \/ (orders[n].st = "filled" /\ orders[n].reduce)
      <3>1. of(n) = Ended
        BY <2>2
      <3> HIDE DEF of
      <3> QED BY <3>1, EndedFacts
    <2>3. CASE ~ (n \in Closed \/ (orders[n].st = "filled" /\ orders[n].reduce))
               /\ orders[n].st = "filled"
      <3>1. of(n) = [orders[n] EXCEPT !.st = "booked", !.at = now]
        BY <2>3
      <3> HIDE DEF of
      <3>2. DOMAIN of(n) = DOMAIN orders[n]
        BY <3>1
      <3>3. "st" \in DOMAIN orders[n] /\ "reduce" \in DOMAIN orders[n] /\ "sym" \in DOMAIN orders[n]
        BY <2>1 DEF OrderFields
      <3>4. of(n).st = "booked" /\ of(n).sym = orders[n].sym /\ of(n).reduce = orders[n].reduce
        BY <3>1, <3>3
      <3> QED BY <2>1, <2>3, <3>2, <3>4
    <2>4. CASE ~ (n \in Closed \/ (orders[n].st = "filled" /\ orders[n].reduce))
               /\ orders[n].st # "filled"
      <3>1. of(n) = orders[n]
        BY <2>4
      <3> HIDE DEF of
      <3> QED BY <2>1, <2>4, <3>1
    <2> QED BY <2>2, <2>3, <2>4
  <1> HIDE DEF of
  <1>4. \A n \in 1..Len(orders) : orders'[n] = of(n)
    BY <1>2
  <1>5. Listed(orders') /\ Len(orders') = Len(orders)
    <2>1. orders' = [n \in 1..Len(orders) |-> orders'[n]]
      BY <1>2
    <2> QED BY <1>1, <2>1, ListFromFunction
  <1> QED BY <1>3, <1>4, <1>5 DEF Quieter

(* A round of waiting orders only gets thinner. *)
LEMMA RoundsKeep ==
    ASSUME TwoRounds, Waiting' \subseteq Waiting, Len(orders') = Len(orders), todo' = todo,
           \A n \in Waiting' : orders'[n].sym = orders[n].sym
    PROVE  TwoRounds'
  <1>1. PICK k \in 0..Len(orders) :
          /\ Apart({n \in Waiting : n <= k})
          /\ Apart({n \in Waiting : n > k})
          /\ \A r \in DOMAIN todo, n \in Waiting : n > k => orders[n].sym # todo[r].sym
    BY DEF TwoRounds
  <1>2. Apart({n \in Waiting : n <= k})'
    BY <1>1 DEF Apart
  <1>3. Apart({n \in Waiting : n > k})'
    BY <1>1 DEF Apart
  <1>4. \A r \in DOMAIN todo', n \in Waiting' : n > k => orders'[n].sym # todo'[r].sym
    BY <1>1
  <1>5. k \in 0..Len(orders')
    OBVIOUS
  <1> QED BY <1>2, <1>3, <1>4, <1>5 DEF TwoRounds

LEMMA QuieterTyped ==
    ASSUME BookInv, Quieter
    PROVE  /\ Listed(orders')
           /\ \A n \in DOMAIN orders' : /\ OrderFields \subseteq DOMAIN orders'[n]
                                        /\ orders'[n].reduce \in BOOLEAN
           /\ orders = <<>> => orders' = <<>>
  <1>1. Listed(orders') /\ Len(orders') = Len(orders)
    BY DEF Quieter
  <1>2. DOMAIN orders' = 1..Len(orders)
    BY <1>1, ListFacts
  <1>3. ASSUME orders = <<>> PROVE orders' = <<>>
    <2>1. Len(orders') = 0
      BY <1>1, <1>3
    <2>2. orders' \in Seq(Range(orders'))
      BY <1>1 DEF Listed
    <2> HIDE <1>3
    <2> QED BY <2>1, <2>2
  <1> QED BY <1>1, <1>2, <1>3 DEF Quieter

(* What the venue does between two steps. *)
LEMMA VenueKeepsBook ==
    ASSUME BookInv, Quieter, engine' = engine, phase' = phase, todo' = todo,
           \A n \in 1..Len(orders) : orders'[n].st = "booked" => orders[n].st = "booked"
    PROVE  BookInv'
  <1>1. /\ Resting' \subseteq Resting /\ Waiting' \subseteq Waiting
        /\ \A n \in Waiting' : orders'[n].sym = orders[n].sym
        /\ \A n \in Waiting' : orders'[n].sym \in Range(engine'.universe)
        /\ Apart(Resting)'
        /\ BookIsBounded'
    BY QuieterKeeps
  <1>2. BooksTyped'
    <2>1. BooksTyped
      BY DEF BookInv
    <2> QED BY <2>1, QuieterTyped DEF BooksTyped
  <1>3. KeptApart'
    <2>1. phase = "booked" => Apart(Waiting)'
      BY <1>1 DEF BookInv, KeptApart, Apart
    <2> QED BY <1>1, <2>1 DEF KeptApart
  <1>4. PlacingInv'
    <2>1. SUFFICES ASSUME phase = "placing" PROVE Placing'
      BY DEF PlacingInv
    <2>2. Placing
      BY <2>1 DEF BookInv, PlacingInv
    <2>3. TwoRounds'
      BY <1>1, <2>2, RoundsKeep DEF Quieter, Placing
    <2>4. Resting' \subseteq Waiting'
      BY DEF Resting
    <2>5. \A r \in DOMAIN todo', n \in Resting' : ~ todo'[r].reduce => orders'[n].sym # todo'[r].sym
      BY <1>1, <2>2, <2>4 DEF Placing
    <2>6. todo # <<>> => Cardinality(Open') < engine.profile.max_positions
      <3>1. Open' \subseteq Open
        <4>1. DOMAIN orders = 1..Len(orders) /\ DOMAIN orders' = 1..Len(orders)
          BY ListFacts DEF BookInv, BooksTyped, Quieter
        <4> QED BY <4>1 DEF Open, Held, Quieter
      <3>2. IsFiniteSet(Open) /\ Cardinality(Open) \in Nat
        BY OpenIsFinite DEF BookInv, BooksTyped
      <3>3. IsFiniteSet(Open') /\ Cardinality(Open') <= Cardinality(Open)
        BY <3>1, <3>2, FS_Subset
      <3>4. Cardinality(Open') \in Nat
        BY <3>3, FS_CardinalityType
      <3>5. engine.up
        BY <2>1 DEF BookInv, BooksTyped
      <3>6. engine.profile.max_positions \in Nat
        BY <3>5 DEF BookInv, BooksTyped
      <3> QED BY <2>2, <3>2, <3>3, <3>4, <3>6 DEF Placing
    <2> QED BY <2>2, <2>3, <2>5, <2>6 DEF Placing
  <1> QED BY <1>1, <1>2, <1>3, <1>4 DEF BookInv

LEMMA FillsAndCancels ==
    ASSUME BookInv, NEW n \in DOMAIN orders, NEW price,
           VenueFills(n) \/ VenueCancels(n) \/ Amend(n, price)
    PROVE  BookInv'
  <1>1. Len(orders) \in Nat /\ DOMAIN orders = 1..Len(orders) /\ orders \in Seq(Range(orders))
    BY ListFacts DEF BookInv, BooksTyped, Listed
  <1>2. \A m \in 1..Len(orders) : OrderFields \subseteq DOMAIN orders[m] /\ orders[m].reduce \in BOOLEAN
    BY <1>1 DEF BookInv, BooksTyped
  <1>3. ASSUME NEW e, orders' = [orders EXCEPT ![n] = e]
        PROVE  /\ Listed(orders') /\ Len(orders') = Len(orders)
               /\ orders'[n] = e
               /\ \A m \in 1..Len(orders) : m # n => orders'[m] = orders[m]
    <2>1. orders' = [m \in 1..Len(orders) |-> orders'[m]]
      BY <1>1, <1>3
    <2>2. Listed(orders') /\ Len(orders') = Len(orders)
      BY <1>1, <2>1, ListFromFunction
    <2> QED BY <1>1, <1>3, <2>2
  <1>4. \E e : /\ orders' = [orders EXCEPT ![n] = e]
               /\ OrderFields \subseteq DOMAIN e /\ e.reduce \in BOOLEAN
               /\ e.st = "booked" => orders[n].st = "booked"
               /\ \/ e.st = "over"
                  \/ /\ e.sym = orders[n].sym /\ e.reduce = orders[n].reduce
                     /\ e.st = orders[n].st \/ (orders[n].st = "live" /\ e.st = "filled")
    <2>1. "st" \in DOMAIN orders[n] /\ "sym" \in DOMAIN orders[n] /\ "reduce" \in DOMAIN orders[n]
          /\ "price" \in DOMAIN orders[n]
      BY <1>1, <1>2 DEF OrderFields
    <2>2. CASE VenueFills(n)
      <3> DEFINE e == [orders[n] EXCEPT !.st = "filled"]
      <3>1. orders' = [orders EXCEPT ![n] = e] /\ orders[n].st = "live"
        BY <2>2 DEF VenueFills
      <3>2. DOMAIN e = DOMAIN orders[n] /\ e.st = "filled" /\ e.sym = orders[n].sym
            /\ e.reduce = orders[n].reduce
        BY <2>1
      <3> HIDE DEF e
      <3> QED BY <1>1, <1>2, <3>1, <3>2
    <2>3. CASE VenueCancels(n)
      BY <2>3, EndedFacts DEF VenueCancels
    <2>4. CASE Amend(n, price)
      <3> DEFINE p == ExecuteAmend(orders[n], None, price, engine.rules).price
                 e == [orders[n] EXCEPT !.price = p]
      <3>1. orders' = [orders EXCEPT ![n] = e]
        BY <2>4, Zenon DEF Amend
      <3> HIDE DEF p
      <3>2. DOMAIN e = DOMAIN orders[n] /\ e.st = orders[n].st /\ e.sym = orders[n].sym
            /\ e.reduce = orders[n].reduce
        BY <2>1
      <3> HIDE DEF e
      <3> QED BY <1>1, <1>2, <3>1, <3>2
    <2> QED BY <2>2, <2>3, <2>4
  <1>5. /\ Quieter
        /\ \A m \in 1..Len(orders) : orders'[m].st = "booked" => orders[m].st = "booked"
    BY <1>1, <1>2, <1>3, <1>4 DEF Quieter
  <1>6. engine' = engine /\ phase' = phase /\ todo' = todo
    BY DEF VenueFills, VenueCancels, Amend
  <1> QED BY <1>5, <1>6, VenueKeepsBook

(* Both syncs. *)
LEMMA SyncKeepsBook ==
    ASSUME BookInv, BeginCycle \/ EndCycle
    PROVE  BookInv'
  <1>1. orders' = Booked /\ engine' = engine /\ todo' = todo /\ phase' \in {"idle", "booked"}
        /\ (phase' = "booked" => engine.up)
    BY DEF BeginCycle, EndCycle
  <1>2. Quieter /\ \A n \in 1..Len(orders) : orders'[n].st # "filled"
    BY <1>1, BookedIsQuieter
  <1>3. /\ Resting' \subseteq Resting /\ Waiting' \subseteq Waiting
        /\ \A n \in Waiting' : orders'[n].sym = orders[n].sym
        /\ \A n \in Waiting' : orders'[n].sym \in Range(engine'.universe)
        /\ Apart(Resting)'
        /\ BookIsBounded'
    BY <1>1, <1>2, QuieterKeeps
  <1>4. BooksTyped'
    <2>1. BooksTyped
      BY DEF BookInv
    <2>2. ~ engine.up => phase' = "idle"
      BY <1>1
    <2> QED BY <1>1, <1>2, <2>1, <2>2, QuieterTyped DEF BooksTyped
  <1>5. Waiting' = Resting'
    <2>1. DOMAIN orders' = 1..Len(orders)
      BY <1>2, ListFacts DEF Quieter
    <2> QED BY <1>2, <2>1 DEF Waiting, Resting
  <1>6. KeptApart'
    BY <1>3, <1>5 DEF KeptApart
  <1>7. PlacingInv'
    BY <1>1 DEF PlacingInv
  <1> QED BY <1>3, <1>4, <1>6, <1>7 DEF BookInv

(* create: the book is empty. *)
LEMMA BootKeepsBook ==
    ASSUME BookInv, NEW l \in Launch, Boot(l)
    PROVE  BookInv'
  <1>1. /\ ~ engine.up /\ engine' = Create(l.file, l.env, l.meta, l.rules)
        /\ orders' = orders /\ phase' = phase /\ todo' = todo
    BY DEF Boot
  <1>2. orders = <<>> /\ todo = <<>> /\ phase = "idle"
    BY <1>1 DEF BookInv, BooksTyped
  <1>3. /\ engine'.up \in BOOLEAN
        /\ engine'.up => /\ engine'.universe \in Seq(Int)
                         /\ engine'.profile.max_positions \in Nat \ {0}
    BY <1>1, CreateSound
  <1>4. BooksTyped'
    <2>1. BooksTyped
      BY DEF BookInv
    <2> QED BY <1>1, <1>2, <1>3, <2>1 DEF BooksTyped
  <1>5. Waiting' = {} /\ Committed' = {}
    <2>1. DOMAIN orders' = {}
      <3>1. Len(orders') = 0 /\ DOMAIN orders' = 1..Len(orders')
        BY <1>1, <1>2, <1>4, ListFacts DEF BooksTyped
      <3> QED BY <3>1
    <2> QED BY <2>1 DEF Waiting, Committed
  <1>6. KeptApart' /\ PlacingInv'
    BY <1>1, <1>2, <1>5 DEF KeptApart, PlacingInv, Apart, Resting
  <1>7. BookIsBounded'
    <2>1. SUFFICES ASSUME engine'.up
                   PROVE  Cardinality(Committed')
                            <= engine'.profile.max_positions - 1 + 2 * Len(engine'.universe)
      BY DEF BookIsBounded
    <2>2. Cardinality(Committed') = 0
      BY <1>5, FS_EmptySet
    <2>3. engine'.profile.max_positions \in Nat \ {0} /\ Len(engine'.universe) \in Nat
      BY <1>3, <2>1
    <2> QED BY <2>2, <2>3
  <1> QED BY <1>4, <1>6, <1>7 DEF BookInv

(* A decision: everything that waits is one round, nothing of the next is  *)
(* placed yet.                                                             *)
LEMMA DecideApproves ==
    ASSUME BookInv, NEW live, NEW market, NEW others \in OtherIntents, NEW exec,
           Decide(live, market, others, exec)
    PROVE  /\ Listed(todo') /\ OncePerSymbol(todo')
           /\ \A r \in 1..Len(todo') : MayBePlaced(todo'[r])
           /\ phase = "booked" /\ phase' \in {"idle", "placing"}
           /\ UNCHANGED <<engine, orders>>
           /\ /\ Numeric(engine) /\ market \in Market
              /\ \A i \in Evaluated(specs, live, lastAt, Range(engine.universe), now).ran :
                   specs[i].version \in Nat /\ specs[i].stop \in Rational
              => \A r \in 1..Len(todo') : Sized(todo'[r])
  <1> DEFINE universe == Range(engine.universe)
             stamped == [rate |-> market.rate, mark |-> market.mark,
                         at |-> [sym \in universe |-> StampOf(market, sym)]]
             pass == Evaluated(specs, live, lastAt, universe, now)
             evaluated == {specs[i] : i \in pass.ran}
             own == GenerateIntents(evaluated, universe, stamped, now)
  <1>1. PICK intents \in {own \o others} :
          \E outcomes \in {Construct(intents, Tradable(intents), market, exec)} :
            LET failed == pass.raised \/ \E r \in DOMAIN outcomes : outcomes[r].st = "raise"
            IN  todo' = (IF failed THEN <<>> ELSE Approved(outcomes))
                /\ phase' = IF failed THEN "idle" ELSE "placing"
    BY Zenon DEF Decide
  <1>2. PICK outcomes \in {Construct(intents, Tradable(intents), market, exec)} :
          /\ todo' = <<>> \/ todo' = Approved(outcomes)
          /\ phase' \in {"idle", "placing"}
    BY <1>1
  <1>3. phase = "booked" /\ UNCHANGED <<engine, orders>>
    BY Zenon DEF Decide
  <1>4. engine.up
    BY <1>3 DEF BookInv, BooksTyped
  <1>5. IsFiniteSet(universe)
    <2>1. engine.universe \in Seq(Int)
      BY <1>4 DEF BookInv, BooksTyped
    <2>2. Len(engine.universe) \in Nat /\ DOMAIN engine.universe = 1..Len(engine.universe)
      BY <2>1
    <2>3. IsFiniteSet(1..Len(engine.universe))
      <3>1. 1 \in Int /\ Len(engine.universe) \in Int
        BY <2>2
      <3> QED BY <3>1, FS_Interval
    <2> DEFINE f == [i \in 1..Len(engine.universe) |-> engine.universe[i]]
    <2>4. f \in Surjection(1..Len(engine.universe), universe)
      BY <2>2 DEF Surjection, Range
    <2> HIDE DEF f
    <2> QED BY <2>3, <2>4, FS_Surjection
  <1> DEFINE fed == /\ Numeric(engine) /\ market \in Market
                    /\ \A i \in pass.ran : specs[i].version \in Nat /\ specs[i].stop \in Rational
  <1>6. PICK D : /\ own \in Seq(D) /\ \A i \in D : i.reduce = FALSE
                 /\ fed => \A i \in D : WishOk(i)
    <2>1. fed => Readable(evaluated, universe, stamped)
      <3>1. SUFFICES ASSUME fed PROVE Readable(evaluated, universe, stamped)
        OBVIOUS
      <3>2. \A spec \in evaluated : spec.version \in Nat /\ spec.stop \in Rational
        <4> HIDE DEF pass
        <4> QED BY <3>1
      <3>3. stamped.mark = market.mark
        <4> HIDE DEF universe
        <4> QED OBVIOUS
      <3>4. universe \subseteq Nat /\ \A sym \in universe : Price(market.mark[sym])
        BY <3>1 DEF Numeric
      <3> HIDE DEF universe, stamped, evaluated
      <3> QED BY <3>2, <3>3, <3>4 DEF Readable
    <2> HIDE DEF universe, stamped, evaluated, fed
    <2>2. PICK E : /\ own \in Seq(E) /\ \A i \in E : i.reduce = FALSE
                   /\ Readable(evaluated, universe, stamped) => \A i \in E : WishOk(i)
      BY <1>5, IntentsListed
    <2> QED BY <2>1, <2>2
  <1> HIDE DEF own, fed
  <1>7. /\ Listed(intents) /\ \A k \in 1..Len(intents) : intents[k].reduce \in BOOLEAN
        /\ fed => \A k \in 1..Len(intents) : WishOk(intents[k])
    <2>1. others \in Seq(Range(others))
      BY CycleAssumption DEF Listed
    <2>2. \A e \in Range(others) : e.reduce \in BOOLEAN /\ WishOk(e)
      <3>1. \A k \in DOMAIN others : others[k].reduce \in BOOLEAN /\ WishOk(others[k])
        BY CycleAssumption DEF WishOk
      <3> QED BY <3>1 DEF Range
    <2> DEFINE E == D \cup Range(others)
    <2>3. /\ own \in Seq(E) /\ others \in Seq(E) /\ \A e \in E : e.reduce \in BOOLEAN
          /\ fed => \A e \in E : WishOk(e)
      <3>1. /\ D \subseteq E /\ Range(others) \subseteq E /\ \A e \in E : e.reduce \in BOOLEAN
            /\ fed => \A e \in E : WishOk(e)
        BY <1>6, <2>2
      <3> HIDE DEF E
      <3>2. \A R, s : R \subseteq E /\ s \in Seq(R) => s \in Seq(E)
        OBVIOUS
      <3> QED BY <1>6, <2>1, <3>1, <3>2
    <2> HIDE DEF E
    <2>4. intents \in Seq(E)
      <3>1. intents = own \o others
        OBVIOUS
      <3> QED BY <2>3, <3>1
    <2>5. \A k \in 1..Len(intents) : intents[k] \in E
      BY <2>4
    <2> QED BY <2>3, <2>4, <2>5, SequenceIsListed
  <1>8. CASE todo' = Approved(outcomes)
    <2>1. /\ Listed(todo') /\ OncePerSymbol(todo')
          /\ \A r \in 1..Len(todo') : MayBePlaced(todo'[r])
          /\ Numeric(engine) /\ market \in Market /\ (\A k \in 1..Len(intents) : WishOk(intents[k]))
               => \A r \in 1..Len(todo') : Sized(todo'[r])
      BY <1>2, <1>7, <1>8, ConstructApproves
    <2>2. fed => \A r \in 1..Len(todo') : Sized(todo'[r])
      <3>1. fed => Numeric(engine) /\ market \in Market
        BY DEF fed
      <3> QED BY <1>7, <2>1, <3>1
    <2> QED BY <1>2, <1>3, <2>1, <2>2 DEF fed
  <1>9. CASE todo' = <<>>
    <2>1. <<>> \in Seq({}) /\ Len(<<>>) = 0
      OBVIOUS
    <2>2. Listed(<<>>)
      BY <2>1, SequenceIsListed
    <2>3. 1..Len(todo') = {}
      BY <1>9, <2>1
    <2>4. OncePerSymbol(todo') /\ \A r \in 1..Len(todo') : MayBePlaced(todo'[r])
      BY <2>3 DEF OncePerSymbol
    <2> QED BY <1>2, <1>3, <1>9, <2>2, <2>4
  <1> QED BY <1>2, <1>8, <1>9

LEMMA DecideKeepsBook ==
    ASSUME BookInv, NEW live, NEW market, NEW others \in OtherIntents, NEW exec,
           Decide(live, market, others, exec)
    PROVE  BookInv'
  <1>1. /\ Listed(todo') /\ OncePerSymbol(todo')
        /\ \A r \in 1..Len(todo') : MayBePlaced(todo'[r])
        /\ phase = "booked" /\ phase' \in {"idle", "placing"}
        /\ engine' = engine /\ orders' = orders
    BY DecideApproves
  <1>2. Len(todo') \in Nat /\ DOMAIN todo' = 1..Len(todo')
    BY <1>1, ListFacts
  <1>3. engine.up /\ BooksTyped
    BY <1>1 DEF BookInv, BooksTyped
  <1>4. BooksTyped'
    BY <1>1, <1>2, <1>3 DEF BooksTyped, MayBePlaced
  <1>5. Len(orders) \in Nat /\ DOMAIN orders = 1..Len(orders)
    BY <1>3, ListFacts DEF BooksTyped
  <1>6. Waiting' = Waiting /\ Resting' = Resting /\ Open' = Open /\ Committed' = Committed
    BY <1>1 DEF Waiting, Resting, Open, Committed, Held
  <1>7. KeptApart' /\ BookIsBounded'
    BY <1>1, <1>6 DEF BookInv, KeptApart, BookIsBounded, Apart
  <1>8. Placing'
    <2>1. TwoRounds'
      <3>1. Apart(Waiting)
        BY <1>1 DEF BookInv, KeptApart
      <3>2. \A n \in Waiting : n \in Nat /\ n <= Len(orders) /\ ~ (n > Len(orders))
        BY <1>5 DEF Waiting
      <3>3. Len(orders) \in 0..Len(orders')
        BY <1>1, <1>5
      <3>4. PICK k : k = Len(orders)
        OBVIOUS
      <3>5. /\ k \in 0..Len(orders')
            /\ Apart({n \in Waiting : n <= k})' /\ Apart({n \in Waiting : n > k})'
            /\ \A r \in DOMAIN todo', n \in Waiting' : n > k => orders'[n].sym # todo'[r].sym
        BY <1>1, <1>6, <3>1, <3>2, <3>3, <3>4 DEF Apart
      <3> QED BY <3>5 DEF TwoRounds
    <2>2. \A r \in DOMAIN todo', n \in Resting' : ~ todo'[r].reduce => orders'[n].sym # todo'[r].sym
      <3>1. SUFFICES ASSUME NEW r \in 1..Len(todo'), NEW n \in Resting, ~ todo'[r].reduce
                     PROVE  orders[n].sym # todo'[r].sym
        BY <1>1, <1>2, <1>6
      <3>2. n \in DOMAIN orders /\ orders[n].st = "live" /\ orders[n].reduce = FALSE
        BY <1>3, <3>1 DEF Resting, Waiting, BooksTyped
      <3>3. <<orders[n].sym, orders[n].reduce>> \in LiveOrderKeys
        BY <3>2 DEF LiveOrderKeys
      <3>4. todo'[r].reduce = FALSE /\ <<todo'[r].sym, todo'[r].reduce>> \notin LiveOrderKeys
        BY <1>1, <3>1 DEF MayBePlaced
      <3> QED BY <3>2, <3>3, <3>4
    <2>3. /\ \A q, r \in DOMAIN todo' : todo'[q].sym = todo'[r].sym => q = r
          /\ \A r \in DOMAIN todo' : todo'[r].sym \in Range(engine'.universe)
      BY <1>1, <1>2 DEF OncePerSymbol, MayBePlaced
    <2>4. todo' # <<>> => Cardinality(Open') < engine'.profile.max_positions
      <3>1. SUFFICES ASSUME todo' # <<>> PROVE Cardinality(Open) < engine.profile.max_positions
        BY <1>1, <1>6
      <3>2. 1 \in 1..Len(todo')
        BY <1>1, <3>1, ListTail
      <3>3. ~ (Cardinality(Open) >= engine.profile.max_positions)
        BY <1>1, <3>2 DEF MayBePlaced
      <3>4. Cardinality(Open) \in Nat
        BY <1>3, OpenIsFinite DEF BooksTyped
      <3>5. engine.profile.max_positions \in Nat
        BY <1>3 DEF BooksTyped
      <3> QED BY <3>3, <3>4, <3>5
    <2> QED BY <2>1, <2>2, <2>3, <2>4 DEF Placing
  <1> QED BY <1>4, <1>7, <1>8 DEF BookInv, PlacingInv

(* Placing one more: it joins the second round. *)
LEMMA PlaceKeepsBook ==
    ASSUME BookInv, PlaceNext
    PROVE  BookInv'
  <1> DEFINE q == Head(todo)
             N == Len(orders)
             new == NewOrder(q, ExecutePlace(q, engine.rules))
  <1>1. /\ phase = "placing" /\ todo # <<>>
        /\ orders' = Append(orders, new)
        /\ todo' = Tail(todo)
        /\ engine' = engine /\ phase' = phase
    BY Zenon DEF PlaceNext
  <1>2. engine.up /\ BooksTyped /\ Placing /\ KeptApart
    BY <1>1 DEF BookInv, BooksTyped, PlacingInv
  <1>3. N \in Nat /\ DOMAIN orders = 1..N /\ Len(todo) \in Nat /\ DOMAIN todo = 1..Len(todo)
    BY <1>2, ListFacts DEF BooksTyped
  <1>4. /\ Listed(todo') /\ Len(todo') = Len(todo) - 1 /\ Len(todo') \in Nat
        /\ 1 \in 1..Len(todo) /\ q = todo[1]
        /\ \A r \in 1..Len(todo') : todo'[r] = todo[r + 1] /\ r + 1 \in 1..Len(todo)
    BY <1>1, <1>2, ListTail DEF BooksTyped
  <1>5. DOMAIN todo' = 1..Len(todo')
    BY <1>4, ListFacts
  <1>6. /\ OrderFields \subseteq DOMAIN new
        /\ new.sym = q.sym /\ new.reduce = q.reduce /\ new.st = "live"
    <2> DEFINE sent == ExecutePlace(q, engine.rules)
               price == IF sent.price = None THEN q.entry ELSE sent.price
               stopD == Modulus(Minus(q.entry, q.stop))
    <2>1. new = [sym |-> q.sym, side |-> q.side, reduce |-> q.reduce, quantity |-> sent.quantity,
                 price |-> price, stopD |-> stopD, st |-> "live", at |-> -1]
      BY Zenon DEF NewOrder
    <2> HIDE DEF sent, price, stopD, q, new
    <2>2. DOMAIN new = {"sym", "side", "reduce", "quantity", "price", "stopD", "st", "at"}
      BY <2>1
    <2> QED BY <2>1, <2>2 DEF OrderFields
  <1> HIDE DEF new, q
  <1>7. /\ Listed(orders') /\ Len(orders') = N + 1
        /\ \A n \in 1..N : orders'[n] = orders[n]
        /\ orders'[N + 1] = new
    BY <1>1, <1>2, ListAppend DEF BooksTyped
  <1> HIDE DEF N
  <1>8. DOMAIN orders' = 1..(N + 1)
    BY <1>7, ListFacts
  <1>9. N + 1 \in 1..(N + 1) /\ \A n \in 1..(N + 1) : n = N + 1 \/ n \in 1..N
    BY <1>3
  <1>10. /\ q.reduce \in BOOLEAN /\ q.sym \in Range(engine.universe)
         /\ \A r \in 1..Len(todo') : todo'[r].sym # q.sym
    <2>1. \A r \in 1..Len(todo') : r + 1 # 1
      BY <1>4
    <2> QED BY <1>2, <1>3, <1>4, <2>1 DEF BooksTyped, Placing
  <1>11. BooksTyped'
    <2>1. \A n \in DOMAIN orders' : OrderFields \subseteq DOMAIN orders'[n]
                                    /\ orders'[n].reduce \in BOOLEAN
      BY <1>2, <1>3, <1>6, <1>7, <1>8, <1>9, <1>10 DEF BooksTyped
    <2>2. \A r \in DOMAIN todo' : todo'[r].reduce \in BOOLEAN
      BY <1>2, <1>3, <1>4, <1>5 DEF BooksTyped
    <2> QED BY <1>1, <1>2, <1>4, <1>7, <2>1, <2>2 DEF BooksTyped
  <1>12. /\ \A n \in Waiting' : n \in Waiting \/ (n = N + 1 /\ ~ q.reduce)
         /\ \A n \in Waiting : n \in 1..N /\ orders'[n].sym = orders[n].sym
         /\ \A n \in Resting' : n \in Resting \/ (n = N + 1 /\ ~ q.reduce)
         /\ Resting' \subseteq Waiting' /\ Resting \subseteq Waiting
         /\ Open' \subseteq Open
    <2>1. \A n \in Waiting' : n \in Waiting \/ (n = N + 1 /\ ~ q.reduce)
      BY <1>3, <1>6, <1>7, <1>8, <1>9 DEF Waiting
    <2>2. \A n \in Waiting : n \in 1..N /\ orders'[n].sym = orders[n].sym
      BY <1>3, <1>7 DEF Waiting
    <2>3. \A n \in Resting' : n \in Resting \/ (n = N + 1 /\ ~ q.reduce)
      BY <1>3, <1>6, <1>7, <1>8, <1>9, <2>1, <2>2 DEF Resting
    <2>4. Open' \subseteq Open
      BY <1>3, <1>6, <1>7, <1>8, <1>9 DEF Open, Held
    <2> QED BY <2>1, <2>2, <2>3, <2>4 DEF Resting
  <1>13. \A n \in Waiting' : orders'[n].sym \in Range(engine'.universe)
    <2>1. ASSUME NEW n \in Waiting' PROVE orders'[n].sym \in Range(engine.universe)
      <3>1. CASE n \in Waiting
        <4>1. orders[n].sym \in Range(engine.universe)
          BY <1>2, <3>1 DEF KeptApart
        <4> QED BY <1>12, <3>1, <4>1
      <3>2. CASE n = N + 1
        BY <1>6, <1>7, <1>10, <3>2
      <3> QED BY <1>12, <3>1, <3>2
    <2> QED BY <1>1, <2>1
  <1>14. Apart(Resting)'
    <2>1. \A n \in Resting : ~ q.reduce => orders[n].sym # q.sym
      BY <1>2, <1>3, <1>4 DEF Placing
    <2> QED BY <1>2, <1>6, <1>7, <1>12, <2>1 DEF KeptApart, Apart
  <1>15. KeptApart'
    BY <1>1, <1>13, <1>14 DEF KeptApart
  <1>16. PICK k \in 0..N :
          /\ Apart({n \in Waiting : n <= k})
          /\ Apart({n \in Waiting : n > k})
          /\ \A r \in DOMAIN todo, n \in Waiting : n > k => orders[n].sym # todo[r].sym
    BY <1>2 DEF Placing, TwoRounds, N
  <1>17. /\ Apart({n \in Waiting : n <= k})'
         /\ Apart({n \in Waiting : n > k})'
         /\ \A r \in DOMAIN todo', n \in Waiting' : n > k => orders'[n].sym # todo'[r].sym
    <2>1. \A n \in Waiting' : n <= k => n \in Waiting
      BY <1>3, <1>12
    <2>2. Apart({n \in Waiting : n <= k})'
      BY <1>12, <1>16, <2>1 DEF Apart
    <2>3. \A n \in Waiting : n > k => orders[n].sym # q.sym
      BY <1>3, <1>4, <1>16
    <2>4. Apart({n \in Waiting : n > k})'
      BY <1>6, <1>7, <1>12, <1>16, <2>3 DEF Apart
    <2>5. \A r \in DOMAIN todo', n \in Waiting' : n > k => orders'[n].sym # todo'[r].sym
      BY <1>3, <1>4, <1>5, <1>6, <1>7, <1>10, <1>12, <1>16
    <2> QED BY <2>2, <2>4, <2>5
  <1>18. IsFiniteSet(Open') /\ Cardinality(Open') < engine.profile.max_positions
    <2>1. IsFiniteSet(Open) /\ Cardinality(Open) \in Nat
      BY <1>2, OpenIsFinite DEF BooksTyped
    <2>2. IsFiniteSet(Open') /\ Cardinality(Open') <= Cardinality(Open)
      BY <1>12, <2>1, FS_Subset
    <2>3. Cardinality(Open') \in Nat
      BY <2>2, FS_CardinalityType
    <2>4. Cardinality(Open) < engine.profile.max_positions /\ engine.profile.max_positions \in Nat
      BY <1>1, <1>2 DEF Placing, BooksTyped
    <2> QED BY <2>1, <2>2, <2>3, <2>4
  <1>19. Placing'
    <2>1. k \in 0..Len(orders')
      BY <1>3, <1>7
    <2>2. TwoRounds'
      BY <1>17, <2>1 DEF TwoRounds
    <2>3. \A r \in DOMAIN todo', n \in Resting' : ~ todo'[r].reduce => orders'[n].sym # todo'[r].sym
      <3>1. SUFFICES ASSUME NEW r \in 1..Len(todo'), NEW n \in Resting', ~ todo'[r].reduce
                     PROVE  orders'[n].sym # todo'[r].sym
        BY <1>5
      <3>2. CASE n \in Resting
        <4>1. todo'[r] = todo[r + 1] /\ r + 1 \in DOMAIN todo
          BY <1>3, <1>4
        <4>2. orders[n].sym # todo[r + 1].sym
          BY <1>2, <3>1, <3>2, <4>1 DEF Placing
        <4>3. orders'[n].sym = orders[n].sym
          BY <1>12, <3>2
        <4> QED BY <4>1, <4>2, <4>3
      <3>3. CASE n = N + 1
        BY <1>6, <1>7, <1>10, <3>3
      <3> QED BY <1>12, <3>2, <3>3
    <2>4. /\ \A p, r \in DOMAIN todo' : todo'[p].sym = todo'[r].sym => p = r
          /\ \A r \in DOMAIN todo' : todo'[r].sym \in Range(engine'.universe)
      <3>1. ASSUME NEW p \in 1..Len(todo'), NEW r \in 1..Len(todo'), todo'[p].sym = todo'[r].sym
            PROVE  p = r
        <4>1. p + 1 = r + 1
          BY <1>2, <1>3, <1>4, <3>1 DEF Placing
        <4> QED BY <4>1
      <3> QED BY <1>1, <1>2, <1>3, <1>4, <1>5, <3>1 DEF Placing
    <2> QED BY <1>1, <1>18, <2>2, <2>3, <2>4 DEF Placing
  <1>20. BookIsBounded'
    <2> DEFINE A == {n \in Waiting' : n <= k}
               B == {n \in Waiting' : n > k}
               sym == [n \in 1..(N + 1) |-> orders'[n].sym]
               u == engine.universe
    <2>1. \A n \in Waiting' : n \in 1..(N + 1) /\ sym[n] = orders'[n].sym /\ n \in Nat
      BY <1>3, <1>8 DEF Waiting
    <2> HIDE DEF sym
    <2>2. Spread(A, sym, u)
      BY <1>1, <1>13, <1>17, <2>1 DEF Spread, Apart
    <2>3. Spread(B, sym, u)
      BY <1>1, <1>13, <1>17, <2>1 DEF Spread, Apart
    <2>4. Committed' \subseteq Open' \cup (A \cup B)
      <3>1. Committed' \subseteq Open' \cup Waiting'
        BY DEF Committed, Open, Waiting, Held
      <3>2. Waiting' \subseteq A \cup B
        BY <2>1
      <3> QED BY <3>1, <3>2
    <2>5. u \in Seq(Int) /\ engine.profile.max_positions \in Nat
      BY <1>2 DEF BooksTyped
    <2> HIDE DEF A, B, u
    <2>6. Cardinality(Committed') <= engine.profile.max_positions - 1 + 2 * Len(u)
      BY <1>18, <2>2, <2>3, <2>4, <2>5, RoundsFit
    <2> QED BY <1>1, <2>6 DEF BookIsBounded, u
  <1> QED BY <1>11, <1>15, <1>19, <1>20 DEF BookInv, PlacingInv

LEMMA RestKeepsBook ==
    ASSUME BookInv, AbortCycle \/ Tick \/ UNCHANGED cycleVars
    PROVE  BookInv'
  <1>1. orders' = orders /\ engine' = engine
    BY DEF AbortCycle, Tick, cycleVars
  <1>2. \/ todo' = <<>> /\ phase' = "idle"
        \/ todo' = todo /\ phase' = phase
    BY DEF AbortCycle, Tick, cycleVars
  <1>3. BooksTyped /\ KeptApart /\ PlacingInv /\ BookIsBounded
    BY DEF BookInv
  <1>4. BookIsBounded'
    BY <1>1, <1>3 DEF BookIsBounded, Committed
  <1>5. CASE todo' = todo /\ phase' = phase
    <2>1. BooksTyped' /\ KeptApart' /\ PlacingInv'
      BY <1>1, <1>3, <1>5 DEF BooksTyped, KeptApart, PlacingInv, Placing, TwoRounds, Apart,
                              Waiting, Resting, Open, Held
    <2> QED BY <1>4, <2>1 DEF BookInv
  <1>6. CASE todo' = <<>> /\ phase' = "idle"
    <2>1. Listed(<<>>) /\ DOMAIN <<>> = {}
      <3>1. <<>> \in Seq({}) /\ Len(<<>>) = 0
        OBVIOUS
      <3>2. Listed(<<>>)
        BY <3>1, SequenceIsListed
      <3>3. DOMAIN <<>> = 1..Len(<<>>)
        BY <3>2, ListFacts
      <3> QED BY <3>1, <3>2, <3>3
    <2>2. BooksTyped'
      BY <1>1, <1>3, <1>6, <2>1 DEF BooksTyped
    <2>3. KeptApart' /\ PlacingInv'
      BY <1>1, <1>3, <1>6 DEF KeptApart, PlacingInv, Apart, Waiting, Resting
    <2> QED BY <1>4, <2>2, <2>3 DEF BookInv
  <1> QED BY <1>2, <1>5, <1>6

LEMMA BookInit == CycleInit => BookInv
  <1>1. SUFFICES ASSUME CycleInit PROVE BookInv
    OBVIOUS
  <1>2. orders = <<>> /\ todo = <<>> /\ phase = "idle" /\ engine.up = FALSE
    BY <1>1 DEF CycleInit, Off
  <1>3. Listed(<<>>) /\ DOMAIN <<>> = {}
    <2>1. <<>> \in Seq({}) /\ Len(<<>>) = 0
      OBVIOUS
    <2>2. Listed(<<>>)
      BY <2>1, SequenceIsListed
    <2>3. DOMAIN <<>> = 1..Len(<<>>)
      BY <2>2, ListFacts
    <2> QED BY <2>1, <2>2, <2>3
  <1>4. BooksTyped
    BY <1>2, <1>3 DEF BooksTyped
  <1>5. Waiting = {} /\ Resting = {}
    BY <1>2, <1>3 DEF Waiting, Resting
  <1>6. KeptApart /\ PlacingInv /\ BookIsBounded
    BY <1>2, <1>5 DEF KeptApart, Apart, PlacingInv, BookIsBounded
  <1> QED BY <1>4, <1>6 DEF BookInv

LEMMA BookNext == BookInv /\ [CycleNext]_cycleVars => BookInv'
  <1>1. SUFFICES ASSUME BookInv, [CycleNext]_cycleVars PROVE BookInv'
    OBVIOUS
  <1>2. CASE \E l \in Launch : Boot(l)
    BY <1>1, <1>2, BootKeepsBook
  <1>3. CASE \E live \in SUBSET DOMAIN specs, market \in Market, others \in OtherIntents,
               exec \in ExecState : Decide(live, market, others, exec)
    BY <1>1, <1>3, DecideKeepsBook
  <1>4. CASE BeginCycle \/ EndCycle
    BY <1>1, <1>4, SyncKeepsBook
  <1>5. CASE PlaceNext
    BY <1>1, <1>5, PlaceKeepsBook
  <1>6. CASE \E n \in DOMAIN orders, price \in NewPrice : Amend(n, price)
    BY <1>1, <1>6, FillsAndCancels
  <1>7. CASE \E n \in DOMAIN orders : VenueFills(n) \/ VenueCancels(n)
    BY <1>1, <1>7, FillsAndCancels
  <1>8. CASE AbortCycle \/ Tick \/ UNCHANGED cycleVars
    BY <1>1, <1>8, RestKeepsBook
  <1> QED BY <1>1, <1>2, <1>3, <1>4, <1>5, <1>6, <1>7, <1>8 DEF CycleNext

(* However fills, cancels, aborted cycles and clock ticks interleave with  *)
(* what construct_trade_requests approves and execute_place sends, the     *)
(* entries the account answers for stay within max_positions - 1 plus two  *)
(* a symbol.                                                               *)
THEOREM BookStaysBounded == CycleSpec => []BookIsBounded
  <1>1. BookInv => BookIsBounded
    BY DEF BookInv
  <1> QED BY <1>1, BookInit, BookNext, PTL DEF CycleSpec

-----------------------------------------------------------------------------
(* The cadence *)

(* What a pass may have come to, over specifications 1..N. *)
PassOver(N) == [ran : SUBSET (1..N), last : [Version -> Int], raised : BOOLEAN]

LEMMA EvaluateOneFacts ==
    ASSUME NEW N, N \in Nat, NEW so, so \in PassOver(N), NEW n, n \in 1..N,
           NEW spec, spec.version \in Version,
           NEW live, NEW universe, NEW at, at \in Int,
           NEW r, r = EvaluateOne(so, n, spec, live, universe, at)
    PROVE  /\ r \in PassOver(N)
           /\ \/ /\ r.ran = so.ran /\ r.last = so.last
                 /\ r.raised \/ n \notin live \/ ~ IsDue(spec, so.last[spec.version], at)
                 /\ so.raised => r.raised
              \/ /\ r.ran = so.ran \cup {n}
                 /\ r.last = [so.last EXCEPT ![spec.version] = at]
                 /\ r.raised = so.raised
  <1> DEFINE skips == so.raised \/ n \notin live \/ ~ IsDue(spec, so.last[spec.version], at)
             raises == Raises(spec, universe)
  <1>1. r = IF skips THEN so
            ELSE IF raises THEN [so EXCEPT !.raised = TRUE]
            ELSE [so EXCEPT !.ran = @ \cup {n}, !.last[spec.version] = at]
    BY DEF EvaluateOne
  <1>2. CASE skips
    BY <1>1, <1>2
  <1> HIDE DEF raises
  <1>3. CASE ~ skips /\ raises
    <2>1. r = [so EXCEPT !.raised = TRUE]
      BY <1>1, <1>3
    <2> HIDE DEF skips
    <2> QED BY <2>1 DEF PassOver
  <1>4. CASE ~ skips /\ ~ raises
    <2>1. r = [so EXCEPT !.ran = @ \cup {n}, !.last[spec.version] = at]
      BY <1>1, <1>4
    <2> HIDE DEF skips
    <2>2. r.ran = so.ran \cup {n} /\ r.last = [so.last EXCEPT ![spec.version] = at]
          /\ r.raised = so.raised
      BY <2>1 DEF PassOver
    <2>3. r \in PassOver(N)
      <3>1. DOMAIN r = {"ran", "last", "raised"} /\ r = [f \in {"ran", "last", "raised"} |-> r[f]]
        BY <2>1 DEF PassOver
      <3>2. r.ran \in SUBSET (1..N) /\ r.last \in [Version -> Int] /\ r.raised \in BOOLEAN
        BY <2>2 DEF PassOver
      <3> QED BY <3>1, <3>2 DEF PassOver
    <2> QED BY <2>2, <2>3
  <1> QED BY <1>2, <1>3, <1>4

LEMMA EvaluateOneTyped ==
    ASSUME NEW N, N \in Nat, NEW so, so \in PassOver(N), NEW n, n \in 1..N,
           NEW spec, spec.version \in Version,
           NEW live, NEW universe, NEW at, at \in Int
    PROVE  EvaluateOne(so, n, spec, live, universe, at) \in PassOver(N)
  <1>1. PICK r : r = EvaluateOne(so, n, spec, live, universe, at)
    OBVIOUS
  <1>2. r \in PassOver(N)
    BY <1>1, EvaluateOneFacts
  <1> QED BY <1>1, <1>2

(* The pass, specification by specification. *)
EvaluatesTo(f, sp, live, last, universe, at, N) ==
    f = [n \in 0..N |->
           IF n = 0 THEN [ran |-> {}, last |-> last, raised |-> FALSE]
           ELSE EvaluateOne(f[n - 1], n, sp[n], live, universe, at)]

Versioned(sp) == Len(sp) \in Nat /\ \A i \in 1..Len(sp) : sp[i].version \in Version

LEMMA EvaluatedIs ==
    ASSUME NEW sp, Versioned(sp), NEW last, last \in [Version -> Int],
           NEW live, NEW universe, NEW at, at \in Int
    PROVE  \E f : /\ EvaluatesTo(f, sp, live, last, universe, at, Len(sp))
                  /\ Evaluated(sp, live, last, universe, at) = f[Len(sp)]
  <1> DEFINE N == Len(sp)
             S == PassOver(N)
             first == [ran |-> {}, last |-> last, raised |-> FALSE]
             next(so, n) == EvaluateOne(so, n, sp[n], live, universe, at)
             step == [p \in S \X (1..N) |-> next(p[1], p[2])]
  <1>0. N \in Nat /\ \A i \in 1..N : sp[i].version \in Version
    BY DEF Versioned
  <1>1. step \in [S \X (1..N) -> S]
    <2>1. ASSUME NEW so \in S, NEW n \in 1..N PROVE next(so, n) \in S
      <3>1. N \in Nat /\ so \in PassOver(N) /\ sp[n].version \in Version /\ n \in 1..N
        BY <1>0
      <3> HIDE DEF N
      <3>2. PICK spec : spec = sp[n]
        OBVIOUS
      <3>3. spec.version \in Version
        BY <3>1, <3>2
      <3>4. EvaluateOne(so, n, spec, live, universe, at) \in PassOver(N)
        <4> HIDE DEF S, next
        <4> QED BY <3>1, <3>3, EvaluateOneTyped
      <3> QED BY <3>2, <3>4
    <2> HIDE DEF next, S
    <2> QED BY <2>1
  <1>2. first \in S
    BY DEF PassOver
  <1>3. \A so \in S, n \in 1..N : step[<<so, n>>] = next(so, n)
    <2> HIDE DEF next, S
    <2> QED OBVIOUS
  <1> HIDE DEF step, first
  <1>4. PICK f \in [0..N -> S] : f[0] = first /\ \A k \in 1..N : f[k] = step[<<f[k - 1], k>>]
    <2>1. N \in Nat
      BY <1>0
    <2> HIDE DEF N, S
    <2>2. PICK f : RunOf(f, first, step, S, N)
      BY <1>1, <1>2, <2>1, Unrolls
    <2> QED BY <2>2 DEF RunOf
  <1>5. \A k \in 1..N : f[k] = next(f[k - 1], k)
    <2>1. ASSUME NEW k \in 1..N PROVE f[k] = next(f[k - 1], k)
      <3> HIDE DEF S, next
      <3>1. f[k - 1] \in S
        BY <1>0
      <3> QED BY <1>3, <1>4, <3>1
    <2> QED BY <2>1
  <1>6. EvaluatesTo(f, sp, live, last, universe, at, N)
    <2>1. ASSUME NEW k \in 0..N PROVE f[k] = IF k = 0 THEN first ELSE next(f[k - 1], k)
      <3>1. k = 0 \/ k \in 1..N
        BY <1>0
      <3> HIDE DEF next, N, S
      <3> QED BY <1>4, <1>5, <3>1
    <2>2. f = [k \in 0..N |-> IF k = 0 THEN first ELSE next(f[k - 1], k)]
      <3> HIDE DEF next, N, S
      <3> QED BY <2>1
    <2> QED BY <2>2 DEF EvaluatesTo, first
  <1> DEFINE after == CHOOSE g : g = [n \in 0..Len(sp) |->
           IF n = 0 THEN [ran |-> {}, last |-> last, raised |-> FALSE]
           ELSE EvaluateOne(g[n - 1], n, sp[n], live, universe, at)]
  <1>7. EvaluatesTo(after, sp, live, last, universe, at, N)
    BY <1>6 DEF EvaluatesTo
  <1>8. Evaluated(sp, live, last, universe, at) = after[Len(sp)]
    BY Zenon DEF Evaluated
  <1> QED BY <1>7, <1>8

(* Where a pass leaves a specification that shares its version with none:  *)
(* evaluated now, or as it was because the pass failed, it is not live or  *)
(* not due.                                                                *)
LeftOff(p, i, spec, live, last, at) ==
    \/ i \in p.ran /\ p.last[spec.version] = at
    \/ /\ i \notin p.ran /\ p.last[spec.version] = last[spec.version]
       /\ p.raised \/ i \notin live \/ ~ IsDue(spec, last[spec.version], at)

LEMMA PassLeavesOff ==
    ASSUME NEW sp, Versioned(sp), NEW last, last \in [Version -> Int],
           NEW live, NEW universe, NEW at, at \in Int,
           NEW p, p = Evaluated(sp, live, last, universe, at)
    PROVE  /\ p \in PassOver(Len(sp))
           /\ \A i \in 1..Len(sp) :
                (\A j \in 1..Len(sp) : sp[j].version = sp[i].version => j = i)
                  => LeftOff(p, i, sp[i], live, last, at)
  <1> DEFINE N == Len(sp)
  <1>0. N \in Nat /\ \A i \in 1..N : sp[i].version \in Version
    BY DEF Versioned
  <1>1. PICK f : EvaluatesTo(f, sp, live, last, universe, at, N) /\ p = f[N]
    BY EvaluatedIs
  <1>2. f[0] = [ran |-> {}, last |-> last, raised |-> FALSE]
    <2>1. 0 \in 0..N
      BY <1>0
    <2> HIDE DEF N
    <2> QED BY <1>1, <2>1, Zenon DEF EvaluatesTo
  <1>3. ASSUME NEW n \in Nat, n + 1 <= N
        PROVE  f[n + 1] = EvaluateOne(f[n], n + 1, sp[n + 1], live, universe, at) /\ n + 1 \in 1..N
    <2>1. n + 1 \in 0..N /\ n + 1 # 0 /\ (n + 1) - 1 = n /\ n + 1 \in 1..N
      BY <1>3
    <2>2. f[n + 1] = EvaluateOne(f[(n + 1) - 1], n + 1, sp[n + 1], live, universe, at)
      BY <1>1, <2>1 DEF EvaluatesTo
    <2> QED BY <2>1, <2>2
  <1> DEFINE Untouched(n, i) == i \notin f[n].ran /\ f[n].last[sp[i].version] = last[sp[i].version]
             Sole(i) == \A j \in 1..N : sp[j].version = sp[i].version => j = i
             Good(n) == /\ f[n] \in PassOver(N)
                        /\ \A i \in 1..N : Sole(i) =>
                             IF i > n THEN Untouched(n, i) ELSE LeftOff(f[n], i, sp[i], live, last, at)
             G == {n \in Nat : n <= N => Good(n)}
  <1>4. 0 \in G
    <2>1. f[0] \in PassOver(N)
      BY <1>2 DEF PassOver
    <2>2. \A i \in 1..N : i > 0 /\ Untouched(0, i)
      BY <1>2
    <2> QED BY <2>1, <2>2
  <1>5. ASSUME NEW n \in Nat, n \in G PROVE n + 1 \in G
    <2>1. SUFFICES ASSUME n + 1 <= N PROVE Good(n + 1)
      OBVIOUS
    <2> DEFINE so == f[n]
               r == f[n + 1]
               spec == sp[n + 1]
    <2>2. so \in PassOver(N)
          /\ \A i \in 1..N : Sole(i) =>
               IF i > n THEN Untouched(n, i) ELSE LeftOff(so, i, sp[i], live, last, at)
      BY <1>5, <2>1
    <2>3. r = EvaluateOne(so, n + 1, spec, live, universe, at) /\ n + 1 \in 1..N
          /\ spec.version \in Version
      BY <1>0, <1>3, <2>1
    <2>4. /\ r \in PassOver(N)
          /\ \/ /\ r.ran = so.ran /\ r.last = so.last
                /\ r.raised \/ n + 1 \notin live \/ ~ IsDue(spec, so.last[spec.version], at)
                /\ so.raised => r.raised
             \/ /\ r.ran = so.ran \cup {n + 1}
                /\ r.last = [so.last EXCEPT ![spec.version] = at]
                /\ r.raised = so.raised
      <3> HIDE DEF so, r, spec
      <3> QED BY <2>2, <2>3, EvaluateOneFacts
    <2>5. ASSUME NEW i \in 1..N, Sole(i)
          PROVE  IF i > n + 1 THEN Untouched(n + 1, i)
                 ELSE LeftOff(r, i, sp[i], live, last, at)
      <3>1. sp[i].version \in Version /\ so.last \in [Version -> Int]
        BY <1>0, <2>2 DEF PassOver
      <3>2. CASE i = n + 1
        <4>1. Untouched(n, i)
          BY <2>2, <2>5, <3>2
        <4>2. so.last[spec.version] = last[spec.version] /\ i \notin so.ran
          BY <3>2, <4>1
        <4>3. LeftOff(r, i, spec, live, last, at)
          <5> HIDE DEF so, r, spec
          <5> QED BY <2>3, <2>4, <3>1, <3>2, <4>2 DEF LeftOff
        <4> QED BY <3>2, <4>3
      <3>3. CASE i # n + 1
        <4>1. spec.version # sp[i].version
          BY <2>3, <2>5, <3>3
        <4>2. r.last[sp[i].version] = so.last[sp[i].version] /\ (i \in r.ran <=> i \in so.ran)
              /\ (so.raised => r.raised)
          <5> HIDE DEF so, r, spec
          <5> QED BY <2>3, <2>4, <3>1, <3>3, <4>1
        <4>3. CASE i > n + 1
          <5>1. Untouched(n, i) /\ i > n + 1
            BY <2>2, <2>5, <4>3
          <5> QED BY <4>2, <5>1
        <4>4. CASE ~ (i > n + 1)
          <5>1. ~ (i > n)
            BY <3>3, <4>4
          <5>2. LeftOff(so, i, sp[i], live, last, at)
            BY <2>2, <2>5, <5>1
          <5>3. LeftOff(r, i, sp[i], live, last, at)
            <6> HIDE DEF so, r, spec
            <6> QED BY <4>2, <5>2 DEF LeftOff
          <5> QED BY <4>4, <5>3
        <4> QED BY <4>3, <4>4
      <3> QED BY <3>2, <3>3
    <2> QED BY <2>4, <2>5
  <1>6. N \in G
    <2> HIDE DEF G
    <2> QED BY <1>0, <1>4, <1>5, NumbersByInduction
  <1>7. Good(N) /\ \A i \in 1..N : ~ (i > N)
    BY <1>0, <1>6
  <1> QED BY <1>1, <1>7

TurnInv == SpecsTyped /\ Remembered /\ Unbuilt /\ SpecsGetTheirTurn

LEMMA TurnInit == CycleInit => TurnInv
  <1>1. SUFFICES ASSUME CycleInit PROVE TurnInv
    OBVIOUS
  <1>2. specs = <<>> /\ now = 0 /\ lastAt = [v \in Version |-> -1] /\ audit.at = -1
    BY <1>1 DEF CycleInit, NoAudit
  <1>3. Listed(specs) /\ DOMAIN specs = {}
    <2>1. <<>> \in Seq({}) /\ Len(<<>>) = 0
      OBVIOUS
    <2>2. Listed(<<>>)
      BY <2>1, SequenceIsListed
    <2>3. DOMAIN <<>> = 1..Len(<<>>)
      BY <2>2, ListFacts
    <2> QED BY <1>2, <2>1, <2>2, <2>3
  <1>4. lastAt \in [Version -> Int]
    BY <1>2
  <1>5. SpecsTyped /\ Remembered
    BY <1>2, <1>3, <1>4 DEF SpecsTyped, Remembered
  <1>6. Unbuilt /\ SpecsGetTheirTurn
    BY <1>2 DEF Unbuilt, SpecsGetTheirTurn
  <1> QED BY <1>5, <1>6 DEF TurnInv

(* The strategy that create is handed was never evaluated, and nothing was *)
(* before it.                                                              *)
LEMMA BootKeepsTurn ==
    ASSUME TurnInv, NEW l \in Launch, Boot(l)
    PROVE  TurnInv'
  <1> DEFINE ls == l.specs
  <1>1. /\ ~ engine.up /\ StrategyOk(ls, l.watchlist)
        /\ specs' = [i \in DOMAIN ls |-> [ls[i] EXCEPT !.evalAt = -1]]
        /\ now' = now /\ lastAt' = lastAt /\ audit' = audit
    BY DEF Boot
  <1>2. /\ Listed(ls)
        /\ \A i \in DOMAIN ls : /\ {"version", "cadence", "evalAt", "stop"} \subseteq DOMAIN ls[i]
                                /\ ls[i].version \in Version
                                /\ ls[i].cadence \in Int
    BY CycleAssumption DEF LaunchOk
  <1>3. \A i \in DOMAIN ls : ls[i].cadence > 0
    BY <1>1 DEF StrategyOk, SpecificationOk
  <1> HIDE DEF ls
  <1>4. Len(ls) \in Nat /\ DOMAIN ls = 1..Len(ls)
    BY <1>2, ListFacts
  <1>5. \A i \in DOMAIN ls : /\ DOMAIN specs'[i] = DOMAIN ls[i]
                             /\ specs'[i].version = ls[i].version
                             /\ specs'[i].cadence = ls[i].cadence
                             /\ specs'[i].evalAt = -1
    BY <1>1, <1>2
  <1>6. Listed(specs') /\ DOMAIN specs' = DOMAIN ls
    <2>1. specs' = [i \in 1..Len(ls) |-> specs'[i]]
      BY <1>1, <1>4
    <2>2. Listed(specs') /\ Len(specs') = Len(ls)
      BY <1>4, <2>1, ListFromFunction
    <2> QED BY <1>1, <2>2
  <1>7. lastAt = [v \in Version |-> -1] /\ audit.at = -1 /\ lastAt \in [Version -> Int] /\ now \in Nat
    BY <1>1 DEF TurnInv, Unbuilt, SpecsTyped
  <1>8. SpecsTyped'
    <2>1. \A i \in DOMAIN ls : ls[i].cadence \in Nat \ {0}
      BY <1>2, <1>3
    <2> QED BY <1>1, <1>2, <1>5, <1>6, <1>7, <2>1 DEF SpecsTyped
  <1>9. Remembered'
    BY <1>1, <1>2, <1>5, <1>6, <1>7 DEF Remembered
  <1>10. Unbuilt' /\ SpecsGetTheirTurn'
    BY <1>1, <1>7 DEF Unbuilt, SpecsGetTheirTurn
  <1> QED BY <1>8, <1>9, <1>10 DEF TurnInv

(* A pass evaluates what is live and due, and remembers when. *)
LEMMA DecideKeepsTurn ==
    ASSUME BookInv, TurnInv, NEW live \in SUBSET DOMAIN specs, NEW market, NEW others, NEW exec,
           Decide(live, market, others, exec)
    PROVE  TurnInv'
  <1>1. PICK universe : universe = Range(engine.universe)
    OBVIOUS
  <1>2. PICK p : p = Evaluated(specs, live, lastAt, universe, now)
    OBVIOUS
  <1>3. /\ phase = "booked" /\ lastAt' = p.last
        /\ specs' = [i \in DOMAIN specs |-> IF i \in p.ran THEN [specs[i] EXCEPT !.evalAt = now]
                                            ELSE specs[i]]
        /\ engine' = engine /\ now' = now
    BY <1>1, <1>2, Zenon DEF Decide
  <1>4. audit'.at = now /\ audit'.live = live /\ audit'.raised = p.raised
    <2>1. \E v : audit' = [NoAudit EXCEPT !.at = now, !.live = live, !.raised = p.raised,
                                          !.verdicts = v]
      BY <1>1, <1>2, Zenon DEF Decide
    <2> QED BY <2>1 DEF NoAudit
  <1>5. engine.up
    BY <1>3 DEF BookInv, BooksTyped
  <1>6. SpecsTyped /\ Remembered /\ Len(specs) \in Nat /\ DOMAIN specs = 1..Len(specs)
    BY ListFacts DEF TurnInv, SpecsTyped
  <1>7. /\ p \in PassOver(Len(specs))
        /\ \A i \in 1..Len(specs) :
             (\A j \in 1..Len(specs) : specs[j].version = specs[i].version => j = i)
               => LeftOff(p, i, specs[i], live, lastAt, now)
    <2>1. Versioned(specs) /\ lastAt \in [Version -> Int] /\ now \in Int
      BY <1>6 DEF SpecsTyped, Versioned
    <2> QED BY <1>2, <2>1, PassLeavesOff
  <1>8. \A i \in DOMAIN specs : /\ DOMAIN specs'[i] = DOMAIN specs[i]
                                /\ specs'[i].version = specs[i].version
                                /\ specs'[i].cadence = specs[i].cadence
                                /\ i \in p.ran => specs'[i].evalAt = now
                                /\ i \notin p.ran => specs'[i] = specs[i]
    BY <1>3, <1>6 DEF SpecsTyped
  <1>9. Listed(specs') /\ DOMAIN specs' = DOMAIN specs
    <2>1. specs' = [i \in 1..Len(specs) |-> specs'[i]]
      BY <1>3, <1>6
    <2>2. Listed(specs') /\ Len(specs') = Len(specs)
      BY <1>6, <2>1, ListFromFunction
    <2> QED BY <1>3, <2>2
  <1>10. p.last \in [Version -> Int] /\ p.raised \in BOOLEAN
    BY <1>7 DEF PassOver
  <1>11. SpecsTyped'
    BY <1>3, <1>6, <1>8, <1>9, <1>10 DEF SpecsTyped
  <1>12. ASSUME NEW i \in DOMAIN specs, Alone(i)'
         PROVE  /\ LeftOff(p, i, specs[i], live, lastAt, now)
                /\ specs[i].evalAt = lastAt[specs[i].version]
    <2>1. Alone(i)
      BY <1>8, <1>9, <1>12 DEF Alone
    <2> QED BY <1>6, <1>7, <2>1 DEF Alone, Remembered
  <1>13. Remembered'
    <2>1. ASSUME NEW i \in DOMAIN specs', Alone(i)'
          PROVE  specs'[i].evalAt = lastAt'[specs'[i].version]
      <3>1. /\ LeftOff(p, i, specs[i], live, lastAt, now)
            /\ specs[i].evalAt = lastAt[specs[i].version]
        BY <1>9, <1>12, <2>1
      <3> QED BY <1>3, <1>8, <1>9, <3>1 DEF LeftOff
    <2> QED BY <2>1 DEF Remembered
  <1>14. SpecsGetTheirTurn'
    <2>1. SUFFICES ASSUME ~ p.raised, NEW i \in live, Alone(i)'
                   PROVE  specs'[i].evalAt # -1 /\ now - specs'[i].evalAt < specs'[i].cadence
      BY <1>4 DEF SpecsGetTheirTurn, Alone
    <2>2. i \in DOMAIN specs
      BY <2>1
    <2>3. /\ LeftOff(p, i, specs[i], live, lastAt, now)
          /\ specs[i].evalAt = lastAt[specs[i].version]
      BY <1>12, <2>1, <2>2
    <2>4. /\ specs[i].cadence \in Nat \ {0} /\ now \in Nat
          /\ lastAt[specs[i].version] \in Int /\ specs'[i].cadence = specs[i].cadence
      BY <1>6, <1>8, <2>2 DEF SpecsTyped
    <2>5. CASE i \in p.ran
      <3>1. specs'[i].evalAt = now
        BY <1>8, <2>2, <2>5
      <3> QED BY <2>4, <3>1
    <2>6. CASE i \notin p.ran
      <3>1. specs'[i].evalAt = lastAt[specs[i].version]
        BY <1>8, <2>2, <2>3, <2>6
      <3>2. ~ IsDue(specs[i], lastAt[specs[i].version], now)
        BY <2>1, <2>3, <2>6 DEF LeftOff
      <3> QED BY <2>4, <3>1, <3>2 DEF IsDue
    <2> QED BY <2>5, <2>6
  <1>15. Unbuilt'
    BY <1>3, <1>5 DEF Unbuilt
  <1> QED BY <1>11, <1>13, <1>14, <1>15 DEF TurnInv

(* Nothing else touches a specification or what was remembered of it. *)
LEMMA RestKeepsTurn ==
    ASSUME TurnInv, specs' = specs, lastAt' = lastAt, engine' = engine,
           now' \in Nat, audit'.at = -1
    PROVE  TurnInv'
  <1>1. SpecsTyped' /\ Remembered'
    BY DEF TurnInv, SpecsTyped, Remembered, Alone
  <1>2. Unbuilt' /\ SpecsGetTheirTurn'
    BY DEF TurnInv, Unbuilt, SpecsGetTheirTurn
  <1> QED BY <1>1, <1>2 DEF TurnInv

LEMMA TurnNext == BookInv /\ TurnInv /\ [CycleNext]_cycleVars => TurnInv'
  <1>1. SUFFICES ASSUME BookInv, TurnInv, [CycleNext]_cycleVars PROVE TurnInv'
    OBVIOUS
  <1>2. CASE \E l \in Launch : Boot(l)
    BY <1>1, <1>2, BootKeepsTurn
  <1>3. CASE \E live \in SUBSET DOMAIN specs, market \in Market, others \in OtherIntents,
               exec \in ExecState : Decide(live, market, others, exec)
    BY <1>1, <1>3, DecideKeepsTurn
  <1>4. now \in Nat
    BY <1>1 DEF TurnInv, SpecsTyped
  <1>5. CASE BeginCycle \/ PlaceNext \/ AbortCycle \/ EndCycle
    <2>1. specs' = specs /\ lastAt' = lastAt /\ engine' = engine /\ now' = now /\ audit'.at = -1
      BY <1>5 DEF BeginCycle, PlaceNext, AbortCycle, EndCycle, NoAudit
    <2> QED BY <1>1, <1>4, <2>1, RestKeepsTurn
  <1>6. CASE \E n \in DOMAIN orders, price \in NewPrice : Amend(n, price)
    <2>1. specs' = specs /\ lastAt' = lastAt /\ engine' = engine /\ now' = now /\ audit'.at = -1
      BY <1>6 DEF Amend, NoAudit
    <2> QED BY <1>1, <1>4, <2>1, RestKeepsTurn
  <1>7. CASE \E n \in DOMAIN orders : VenueFills(n) \/ VenueCancels(n)
    <2>1. specs' = specs /\ lastAt' = lastAt /\ engine' = engine /\ now' = now /\ audit'.at = -1
      BY <1>7 DEF VenueFills, VenueCancels, NoAudit
    <2> QED BY <1>1, <1>4, <2>1, RestKeepsTurn
  <1>8. CASE Tick
    <2>1. specs' = specs /\ lastAt' = lastAt /\ engine' = engine /\ now' = now + 1 /\ audit'.at = -1
      BY <1>8 DEF Tick, NoAudit
    <2> QED BY <1>1, <1>4, <2>1, RestKeepsTurn
  <1>9. CASE UNCHANGED cycleVars
    BY <1>1, <1>9 DEF cycleVars, TurnInv, SpecsTyped, Remembered, Alone, Unbuilt, SpecsGetTheirTurn
  <1> QED BY <1>1, <1>2, <1>3, <1>5, <1>6, <1>7, <1>8, <1>9 DEF CycleNext

(* Whenever a pass of generate_intents ends without an error, every live   *)
(* specification that shares its version with no other has been evaluated, *)
(* and less than its cadence ago: _is_due and _last_evaluated_at starve    *)
(* none, however cycles and ticks fall.                                    *)
THEOREM SpecsAreEvaluated == CycleSpec => []SpecsGetTheirTurn
  <1>1. TurnInv => SpecsGetTheirTurn
    BY DEF TurnInv
  <1> QED BY <1>1, BookInit, BookNext, TurnInit, TurnNext, PTL DEF CycleSpec

-----------------------------------------------------------------------------
(* What is sent *)

(* An order that something is left of. *)
Sellable(o) == o.quantity \in Rational /\ Lt(Zero, o.quantity)

NoWorse(side, price, entry) ==
    price # None => IF side = "BUY" THEN Leq(price, entry) ELSE Leq(entry, price)

LEMMA PlacedNeverWorse ==
    ASSUME NEW q, Sized(q), NEW rules, \A sym \in DOMAIN rules : rules[sym] \in Nat,
           NEW sent, sent = ExecutePlace(q, rules), sent.ok
    PROVE  /\ Sellable(sent) /\ Leq(sent.quantity, q.quantity)
           /\ NoWorse(q.side, sent.price, q.entry)
  <1>1. PICK sz : sz = rules[q.sym]
    OBVIOUS
  <1>2. PICK quantity : quantity = IF rules = <<>> THEN q.quantity ELSE QuantizeSize(q.quantity, sz)
    OBVIOUS
  <1>3. PICK price : price = IF q.type # "LIMIT" THEN None
                             ELSE IF rules = <<>> THEN q.entry ELSE QuantizePrice(q.entry, q.side, sz)
    OBVIOUS
  <1> DEFINE refused == \/ rules # <<>> /\ q.sym \notin DOMAIN rules
                        \/ ~ Lt(Zero, quantity)
                        \/ price # None /\ ~ Lt(Zero, price)
  <1>4. sent = IF refused THEN [ok |-> FALSE]
               ELSE [ok |-> TRUE, quantity |-> quantity, price |-> price]
    BY <1>1, <1>2, <1>3, Zenon DEF ExecutePlace
  <1>5. ~ refused /\ sent.quantity = quantity /\ sent.price = price
    <2> HIDE DEF refused
    <2> QED BY <1>4
  <1>6. q.quantity \in Rational /\ Measurable(q.entry) /\ q.entry \in Rational
    BY AdjustedFacts DEF Sized
  <1>7. CASE rules = <<>>
    <2>1. Leq(q.quantity, q.quantity) /\ Leq(q.entry, q.entry)
      BY <1>6, LeqReflexive
    <2> QED BY <1>2, <1>3, <1>5, <1>6, <1>7, <2>1 DEF Sellable, NoWorse
  <1>8. CASE rules # <<>>
    <2>1. sz \in Nat
      BY <1>1, <1>5, <1>8
    <2>2. quantity \in Rational /\ Leq(quantity, q.quantity)
      BY <1>2, <1>6, <1>8, <2>1, GridFacts DEF QuantizeSize
    <2>3. NoWorse(q.side, price, q.entry)
      <3>1. CASE q.type # "LIMIT"
        BY <1>3, <3>1 DEF NoWorse
      <3>2. CASE q.type = "LIMIT"
        <4>1. price = QuantizePrice(q.entry, q.side, sz)
          BY <1>3, <1>8, <3>2
        <4>2. IF q.side = "BUY" THEN Leq(price, q.entry) ELSE Leq(q.entry, price)
          BY <1>6, <2>1, <4>1, PriceNeverWorse
        <4> QED BY <4>2 DEF NoWorse
      <3> QED BY <3>1, <3>2
    <2> QED BY <1>5, <2>2, <2>3 DEF Sellable
  <1> QED BY <1>7, <1>8

LEMMA AmendedNeverWorse ==
    ASSUME NEW o, NEW price, Measurable(price),
           NEW rules, \A sym \in DOMAIN rules : rules[sym] \in Nat,
           NEW asked, asked = ExecuteAmend(o, None, price, rules), asked.ok
    PROVE  NoWorse(o.side, asked.price, price)
  <1>1. PICK p : p = IF rules = <<>> \/ price = None THEN price
                     ELSE QuantizePrice(price, o.side, rules[o.sym])
    OBVIOUS
  <1>2. PICK q : q = IF rules = <<>> \/ None = None THEN None
                     ELSE QuantizeSize(None, rules[o.sym])
    OBVIOUS
  <1> DEFINE refused == \/ rules # <<>> /\ o.sym \notin DOMAIN rules
                        \/ q # None /\ ~ Lt(Zero, q)
                        \/ p # None /\ ~ Lt(Zero, p)
                        \/ q = None /\ p = None
  <1>3. asked = IF refused THEN [ok |-> FALSE] ELSE [ok |-> TRUE, quantity |-> q, price |-> p]
    BY <1>1, <1>2, Zenon DEF ExecuteAmend
  <1>4. ~ refused /\ asked.price = p
    <2> HIDE DEF refused
    <2> QED BY <1>3
  <1>5. price \in Rational
    BY AdjustedFacts
  <1>6. CASE p = price
    BY <1>4, <1>5, <1>6, LeqReflexive DEF NoWorse
  <1>7. CASE p # price
    <2>1. rules # <<>> /\ p = QuantizePrice(price, o.side, rules[o.sym])
      BY <1>1, <1>7
    <2>2. rules[o.sym] \in Nat
      BY <1>4, <2>1
    <2>3. IF o.side = "BUY" THEN Leq(p, price) ELSE Leq(price, p)
      BY <2>1, <2>2, PriceNeverWorse
    <2> QED BY <1>4, <2>3 DEF NoWorse
  <1> QED BY <1>6, <1>7

(***************************************************************************)
(* The engine, the specifications and the requests that wait are numbers   *)
(* the grid is defined for; what rests at the venue has something left.    *)
(***************************************************************************)
SentInv ==
    /\ engine.up => Numeric(engine)
    /\ \A i \in DOMAIN specs : specs[i].stop \in Rational
    /\ \A r \in DOMAIN todo : Sized(todo[r])
    /\ \A n \in DOMAIN orders : orders[n].st = "live" => Sellable(orders[n])
    /\ NothingWorseIsSent

LEMMA EmptyDomain == DOMAIN <<>> = {}
  <1>1. \A t \in Seq({}) : Len(t) = 0 => DOMAIN t = {}
    OBVIOUS
  <1>2. <<>> \in Seq({}) /\ Len(<<>>) = 0
    OBVIOUS
  <1> QED BY <1>1, <1>2

LEMMA NothingSent ==
    ASSUME audit.sent = <<>>
    PROVE  NothingWorseIsSent
BY EmptyDomain DEF NothingWorseIsSent

LEMMA SentInit == CycleInit => SentInv
  <1>1. SUFFICES ASSUME CycleInit PROVE SentInv
    OBVIOUS
  <1>2. /\ specs = <<>> /\ todo = <<>> /\ orders = <<>>
        /\ engine.up = FALSE /\ audit.sent = <<>>
    BY <1>1 DEF CycleInit, Off, NoAudit
  <1>3. NothingWorseIsSent
    BY <1>2, NothingSent
  <1> QED BY <1>2, <1>3, EmptyDomain DEF SentInv

(* A step that sends nothing and lets orders only come to an end. *)
LEMMA RestKeepsSent ==
    ASSUME SentInv, engine' = engine, specs' = specs, audit'.sent = <<>>,
           todo' = todo \/ todo' = <<>>,
           \A n \in DOMAIN orders' : orders'[n].st = "live" =>
             n \in DOMAIN orders /\ orders'[n] = orders[n]
    PROVE  SentInv'
  <1>1. NothingWorseIsSent'
    BY EmptyDomain DEF NothingWorseIsSent
  <1>2. \A r \in DOMAIN todo' : Sized(todo'[r])
    BY EmptyDomain DEF SentInv
  <1>3. \A n \in DOMAIN orders' : orders'[n].st = "live" => Sellable(orders'[n])
    BY DEF SentInv
  <1>4. /\ engine'.up => Numeric(engine')
        /\ \A i \in DOMAIN specs' : specs'[i].stop \in Rational
    BY DEF SentInv
  <1> QED BY <1>1, <1>2, <1>3, <1>4 DEF SentInv

LEMMA BootKeepsSent ==
    ASSUME SentInv, NEW l \in Launch, Boot(l)
    PROVE  SentInv'
  <1> DEFINE ls == l.specs
  <1>1. /\ StrategyOk(ls, l.watchlist)
        /\ engine' = Create(l.file, l.env, l.meta, l.rules)
        /\ specs' = [i \in DOMAIN ls |-> [ls[i] EXCEPT !.evalAt = -1]]
        /\ orders' = orders /\ todo' = todo /\ audit' = audit
    BY DEF Boot
  <1>2. \A i \in DOMAIN ls : "stop" \in DOMAIN ls[i] /\ Number(ls[i].stop)
    BY CycleAssumption DEF LaunchOk
  <1>3. \A i \in DOMAIN ls : FractionOk(ls[i].stop)
    BY <1>1 DEF StrategyOk
  <1> HIDE DEF ls
  <1>4. \A i \in DOMAIN specs' : specs'[i].stop \in Rational
    <2>1. \A i \in DOMAIN ls : ls[i].stop \in Rational
      BY <1>2, <1>3 DEF FractionOk, Number
    <2>2. DOMAIN specs' = DOMAIN ls
      BY <1>1
    <2>3. \A i \in DOMAIN ls : specs'[i].stop = ls[i].stop
      BY <1>1, <1>2
    <2> QED BY <2>1, <2>2, <2>3
  <1>5. engine'.up => Numeric(engine')
    BY <1>1, CreateSound
  <1>6. NothingWorseIsSent'
    BY <1>1 DEF SentInv, NothingWorseIsSent
  <1>7. /\ \A r \in DOMAIN todo' : Sized(todo'[r])
        /\ \A n \in DOMAIN orders' : orders'[n].st = "live" => Sellable(orders'[n])
    BY <1>1 DEF SentInv
  <1> QED BY <1>4, <1>5, <1>6, <1>7 DEF SentInv

(* What is approved was sized. *)
LEMMA DecideKeepsSent ==
    ASSUME BookInv, TurnInv, SentInv,
           NEW live \in SUBSET DOMAIN specs, NEW market \in Market, NEW others \in OtherIntents,
           NEW exec, Decide(live, market, others, exec)
    PROVE  SentInv'
  <1>1. PICK p : p = Evaluated(specs, live, lastAt, Range(engine.universe), now)
    OBVIOUS
  <1>2. /\ specs' = [i \in DOMAIN specs |-> IF i \in p.ran THEN [specs[i] EXCEPT !.evalAt = now]
                                            ELSE specs[i]]
        /\ engine' = engine /\ orders' = orders /\ phase = "booked"
    BY <1>1, Zenon DEF Decide
  <1>3. audit'.sent = <<>>
    <2>1. \E v : audit' = [NoAudit EXCEPT !.at = now, !.live = live, !.raised = p.raised,
                                          !.verdicts = v]
      BY <1>1, Zenon DEF Decide
    <2> QED BY <2>1 DEF NoAudit
  <1>4. engine.up
    BY <1>2 DEF BookInv, BooksTyped
  <1>5. SpecsTyped /\ Len(specs) \in Nat /\ DOMAIN specs = 1..Len(specs)
    BY ListFacts DEF TurnInv, SpecsTyped
  <1>6. p.ran \subseteq DOMAIN specs
    <2>1. Versioned(specs) /\ lastAt \in [Version -> Int] /\ now \in Int
      BY <1>5 DEF SpecsTyped, Versioned
    <2>2. p \in PassOver(Len(specs))
      BY <1>1, <2>1, PassLeavesOff
    <2> QED BY <1>5, <2>2 DEF PassOver
  <1>7. \A i \in DOMAIN specs : specs[i].version \in Nat /\ specs[i].stop \in Rational
    BY <1>5, CycleAssumption DEF SpecsTyped, SentInv
  <1>8. Numeric(engine)
    BY <1>4 DEF SentInv
  <1>9. Listed(todo') /\ \A r \in 1..Len(todo') : Sized(todo'[r])
    BY <1>1, <1>6, <1>7, <1>8, DecideApproves
  <1>10. \A r \in DOMAIN todo' : Sized(todo'[r])
    BY <1>9, ListFacts
  <1>11. \A i \in DOMAIN specs' : specs'[i].stop \in Rational
    <2>1. \A i \in DOMAIN specs : specs'[i].stop = specs[i].stop
      BY <1>2, <1>5 DEF SpecsTyped
    <2> QED BY <1>2, <1>7, <2>1
  <1>12. NothingWorseIsSent'
    BY <1>3, EmptyDomain DEF NothingWorseIsSent
  <1>13. \A n \in DOMAIN orders' : orders'[n].st = "live" => Sellable(orders'[n])
    BY <1>2 DEF SentInv
  <1> QED BY <1>2, <1>8, <1>10, <1>11, <1>12, <1>13 DEF SentInv

(* The books: a fill or a closed position rests no more. *)
LEMMA SyncEnds ==
    ASSUME BookInv, BeginCycle \/ EndCycle
    PROVE  /\ engine' = engine /\ specs' = specs /\ todo' = todo /\ audit'.sent = <<>>
           /\ \A n \in DOMAIN orders' : orders'[n].st = "live" =>
                n \in DOMAIN orders /\ orders'[n] = orders[n]
  <1>1. /\ orders' = Booked /\ engine' = engine /\ specs' = specs /\ todo' = todo
        /\ audit'.sent = <<>>
    BY DEF BeginCycle, EndCycle, NoAudit
  <1>2. \A n \in DOMAIN orders : OrderFields \subseteq DOMAIN orders[n]
    BY DEF BookInv, BooksTyped
  <1>3. ASSUME NEW n \in DOMAIN orders', orders'[n].st = "live"
        PROVE  n \in DOMAIN orders /\ orders'[n] = orders[n]
    <2>1. n \in DOMAIN orders
      BY <1>1, <1>3 DEF Booked
    <2>2. Ended.st = "over"
      BY DEF Ended
    <2>3. [orders[n] EXCEPT !.st = "booked", !.at = now].st = "booked"
      <3>1. {"st", "at"} \subseteq DOMAIN orders[n]
        BY <1>2, <2>1 DEF OrderFields
      <3> QED BY <3>1
    <2>4. \/ orders'[n] = Ended
          \/ orders'[n] = [orders[n] EXCEPT !.st = "booked", !.at = now]
          \/ orders'[n] = orders[n]
      <3> HIDE DEF Ended
      <3> QED BY <1>1, <2>1 DEF Booked
    <2> HIDE DEF Ended
    <2> QED BY <1>3, <2>1, <2>2, <2>3, <2>4
  <1> QED BY <1>1, <1>3

LEMMA PlaceKeepsSent ==
    ASSUME BookInv, SentInv, PlaceNext
    PROVE  SentInv'
  <1>1. PICK q : q = Head(todo)
    OBVIOUS
  <1>2. PICK sent : sent = ExecutePlace(q, engine.rules)
    OBVIOUS
  <1>3. /\ phase = "placing" /\ todo # <<>> /\ sent.ok
        /\ orders' = Append(orders, NewOrder(q, sent)) /\ todo' = Tail(todo)
        /\ audit' = [NoAudit EXCEPT !.sent = <<[asked |-> q, sent |-> sent]>>]
        /\ engine' = engine /\ specs' = specs
    BY <1>1, <1>2, Zenon DEF PlaceNext
  <1>4. engine.up /\ Listed(todo) /\ Listed(orders)
    BY <1>3 DEF BookInv, BooksTyped
  <1>5. DOMAIN todo = 1..Len(todo) /\ 1 \in DOMAIN todo /\ q = todo[1]
    BY <1>1, <1>3, <1>4, ListTail, ListFacts
  <1>6. Sized(q) /\ Numeric(engine)
    BY <1>4, <1>5 DEF SentInv
  <1>7. /\ Sellable(sent) /\ Leq(sent.quantity, q.quantity)
        /\ NoWorse(q.side, sent.price, q.entry)
    <2>1. \A sym \in DOMAIN engine.rules : engine.rules[sym] \in Nat
      BY <1>6 DEF Numeric
    <2> QED BY <1>2, <1>3, <1>6, <2>1, PlacedNeverWorse
  <1>8. NothingWorseIsSent'
    <2> DEFINE one == [asked |-> q, sent |-> sent]
    <2>1. audit'.sent = <<one>>
      <3> HIDE DEF one
      <3> QED BY <1>3 DEF NoAudit, one
    <2>2. one.asked = q /\ one.sent = sent
      OBVIOUS
    <2> HIDE DEF one
    <2>3. DOMAIN <<one>> = {1} /\ <<one>>[1] = one
      OBVIOUS
    <2>4. \A k \in DOMAIN audit'.sent : audit'.sent[k].asked = q /\ audit'.sent[k].sent = sent
      BY <2>1, <2>2, <2>3
    <2> QED BY <1>7, <2>4 DEF NothingWorseIsSent, Sellable, NoWorse
  <1>9. \A n \in DOMAIN orders' : orders'[n].st = "live" => Sellable(orders'[n])
    <2>1. PICK new : new = NewOrder(q, sent)
      OBVIOUS
    <2>2. Sellable(new)
      <3>1. new.quantity = sent.quantity
        BY <2>1 DEF NewOrder
      <3> QED BY <1>7, <3>1 DEF Sellable
    <2>3. /\ Listed(orders') /\ Len(orders') = Len(orders) + 1
          /\ \A n \in 1..Len(orders) : orders'[n] = orders[n]
          /\ orders'[Len(orders) + 1] = new
      BY <1>3, <1>4, <2>1, ListAppend
    <2>4. Len(orders) \in Nat /\ DOMAIN orders = 1..Len(orders) /\ DOMAIN orders' = 1..(Len(orders) + 1)
      BY <1>4, <2>3, ListFacts
    <2> QED BY <2>2, <2>3, <2>4 DEF SentInv
  <1>10. \A r \in DOMAIN todo' : Sized(todo'[r])
    <2>1. /\ Listed(todo') /\ Len(todo') = Len(todo) - 1
          /\ \A r \in 1..Len(todo') : todo'[r] = todo[r + 1]
      BY <1>3, <1>4, ListTail
    <2>2. Len(todo) \in Nat /\ DOMAIN todo' = 1..Len(todo')
      BY <1>4, <2>1, ListFacts
    <2> QED BY <1>5, <2>1, <2>2 DEF SentInv
  <1>11. /\ engine'.up => Numeric(engine')
         /\ \A i \in DOMAIN specs' : specs'[i].stop \in Rational
    BY <1>3, <1>6 DEF SentInv
  <1> QED BY <1>8, <1>9, <1>10, <1>11 DEF SentInv

(* An amendment asks for another price of what is left. *)
LEMMA AmendKeepsSent ==
    ASSUME BookInv, SentInv, NEW n \in DOMAIN orders, NEW price \in NewPrice, Amend(n, price)
    PROVE  SentInv'
  <1>1. PICK o : o = orders[n]
    OBVIOUS
  <1>2. PICK asked : asked = ExecuteAmend(o, None, price, engine.rules)
    OBVIOUS
  <1> DEFINE q == [sym |-> o.sym, side |-> o.side, quantity |-> o.quantity, entry |-> price]
             sent == [ok |-> TRUE, quantity |-> o.quantity, price |-> asked.price]
             one == [asked |-> q, sent |-> sent]
  <1>3. /\ engine.up /\ o.st = "live" /\ asked.ok
        /\ orders' = [orders EXCEPT ![n].price = asked.price]
        /\ audit' = [NoAudit EXCEPT !.sent = <<one>>]
        /\ engine' = engine /\ specs' = specs /\ todo' = todo
    BY <1>1, <1>2, Zenon DEF Amend
  <1>4. Numeric(engine) /\ Sellable(o) /\ Measurable(price)
    BY <1>1, <1>3, CycleAssumption DEF SentInv
  <1>5. NoWorse(o.side, asked.price, price)
    <2>1. \A sym \in DOMAIN engine.rules : engine.rules[sym] \in Nat
      BY <1>4 DEF Numeric
    <2> QED BY <1>2, <1>3, <1>4, <2>1, AmendedNeverWorse
  <1>6. NothingWorseIsSent'
    <2>1. /\ q.side = o.side /\ q.quantity = o.quantity /\ q.entry = price
          /\ sent.quantity = o.quantity /\ sent.price = asked.price
      OBVIOUS
    <2> HIDE DEF q, sent
    <2>2. one.asked = q /\ one.sent = sent
      OBVIOUS
    <2> HIDE DEF one
    <2>3. audit'.sent = <<one>>
      BY <1>3 DEF NoAudit
    <2>4. DOMAIN <<one>> = {1} /\ <<one>>[1] = one
      OBVIOUS
    <2>5. \A k \in DOMAIN audit'.sent : audit'.sent[k].asked = q /\ audit'.sent[k].sent = sent
      BY <2>2, <2>3, <2>4
    <2>6. Leq(o.quantity, o.quantity)
      BY <1>4, LeqReflexive DEF Sellable
    <2> QED BY <1>4, <1>5, <2>1, <2>5, <2>6 DEF NothingWorseIsSent, Sellable, NoWorse
  <1>7. \A m \in DOMAIN orders' : orders'[m].st = "live" => Sellable(orders'[m])
    <2>1. \A m \in DOMAIN orders : OrderFields \subseteq DOMAIN orders[m]
      BY DEF BookInv, BooksTyped
    <2>2. /\ DOMAIN orders' = DOMAIN orders
          /\ \A m \in DOMAIN orders : /\ orders'[m].st = orders[m].st
                                      /\ orders'[m].quantity = orders[m].quantity
      BY <1>3, <2>1 DEF OrderFields
    <2> QED BY <2>2 DEF SentInv, Sellable
  <1>8. /\ engine'.up => Numeric(engine')
        /\ \A i \in DOMAIN specs' : specs'[i].stop \in Rational
        /\ \A r \in DOMAIN todo' : Sized(todo'[r])
    BY <1>3, <1>4 DEF SentInv
  <1> QED BY <1>6, <1>7, <1>8 DEF SentInv

LEMMA VenueEnds ==
    ASSUME BookInv, NEW n \in DOMAIN orders, VenueFills(n) \/ VenueCancels(n)
    PROVE  /\ engine' = engine /\ specs' = specs /\ todo' = todo /\ audit'.sent = <<>>
           /\ \A m \in DOMAIN orders' : orders'[m].st = "live" =>
                m \in DOMAIN orders /\ orders'[m] = orders[m]
  <1>1. /\ engine' = engine /\ specs' = specs /\ todo' = todo /\ audit'.sent = <<>>
        /\ \/ orders' = [orders EXCEPT ![n].st = "filled"]
           \/ orders' = [orders EXCEPT ![n] = Ended]
    BY DEF VenueFills, VenueCancels, NoAudit
  <1>2. "st" \in DOMAIN orders[n] /\ Ended.st = "over"
    BY DEF BookInv, BooksTyped, OrderFields, Ended
  <1>3. ASSUME NEW m \in DOMAIN orders', orders'[m].st = "live"
        PROVE  m \in DOMAIN orders /\ orders'[m] = orders[m]
    <2>1. m \in DOMAIN orders
      BY <1>1
    <2>2. CASE m = n
      <3>1. orders'[n].st \in {"filled", "over"}
        <4> HIDE DEF Ended
        <4> QED BY <1>1, <1>2
      <3> QED BY <1>3, <2>2, <3>1
    <2>3. CASE m # n
      BY <1>1, <2>1, <2>3
    <2> QED BY <2>1, <2>2, <2>3
  <1> QED BY <1>1, <1>3

LEMMA SentNext == BookInv /\ TurnInv /\ SentInv /\ [CycleNext]_cycleVars => SentInv'
  <1>1. SUFFICES ASSUME BookInv, TurnInv, SentInv, [CycleNext]_cycleVars PROVE SentInv'
    OBVIOUS
  <1>2. CASE \E l \in Launch : Boot(l)
    BY <1>1, <1>2, BootKeepsSent
  <1>3. CASE \E live \in SUBSET DOMAIN specs, market \in Market, others \in OtherIntents,
               exec \in ExecState : Decide(live, market, others, exec)
    BY <1>1, <1>3, DecideKeepsSent
  <1>4. CASE BeginCycle \/ EndCycle
    BY <1>1, <1>4, SyncEnds, RestKeepsSent
  <1>5. CASE PlaceNext
    BY <1>1, <1>5, PlaceKeepsSent
  <1>6. CASE \E n \in DOMAIN orders, price \in NewPrice : Amend(n, price)
    BY <1>1, <1>6, AmendKeepsSent
  <1>7. CASE \E n \in DOMAIN orders : VenueFills(n) \/ VenueCancels(n)
    BY <1>1, <1>7, VenueEnds, RestKeepsSent
  <1>8. CASE AbortCycle \/ Tick
    <2>1. /\ engine' = engine /\ specs' = specs /\ audit'.sent = <<>> /\ orders' = orders
          /\ todo' = todo \/ todo' = <<>>
      BY <1>8 DEF AbortCycle, Tick, NoAudit
    <2> QED BY <1>1, <2>1, RestKeepsSent
  <1>9. CASE UNCHANGED cycleVars
    BY <1>1, <1>9 DEF cycleVars, SentInv, NothingWorseIsSent
  <1> QED BY <1>1, <1>2, <1>3, <1>4, <1>5, <1>6, <1>7, <1>8, <1>9 DEF CycleNext

(* Whatever the sizing divided, the venue's grid and its significant       *)
(* figures are, what execute_place and execute_amend send is more than     *)
(* nothing, never more than was approved, and never at a worse price.      *)
THEOREM NothingWorseGoesOut == CycleSpec => []NothingWorseIsSent
  <1>1. SentInv => NothingWorseIsSent
    BY DEF SentInv
  <1> QED BY <1>1, BookInit, BookNext, TurnInit, TurnNext, SentInit, SentNext, PTL DEF CycleSpec

-----------------------------------------------------------------------------
(* Powers of the base *)

IsRun(f, N) == f = [n \in 0..N |-> IF n = 0 THEN 1 ELSE Base * f[n - 1]]

LEMMA PowerIsRun ==
    ASSUME NEW N \in Nat
    PROVE  \E f : IsRun(f, N) /\ Power(N) = f[N]
  <1> DEFINE power == CHOOSE f : f = [n \in 0..N |-> IF n = 0 THEN 1 ELSE Base * f[n - 1]]
  <1>1. \E f : IsRun(f, N)
    BY RunExists DEF IsRun
  <1>2. IsRun(power, N)
    BY <1>1 DEF IsRun
  <1>3. Power(N) = power[N]
    BY Zenon DEF Power
  <1> QED BY <1>2, <1>3

LEMMA RunsAgree ==
    ASSUME NEW M \in Nat, NEW N \in Nat, M <= N, NEW f, NEW g, IsRun(f, M), IsRun(g, N)
    PROVE  f[M] = g[M]
  <1> DEFINE G == {n \in Nat : n <= M => f[n] = g[n]}
  <1>1. 0 \in G
    <2>1. 0 \in 0..M /\ 0 \in 0..N
      OBVIOUS
    <2> QED BY <2>1 DEF IsRun
  <1>2. ASSUME NEW n \in Nat, n \in G PROVE n + 1 \in G
    <2>1. SUFFICES ASSUME n + 1 <= M PROVE f[n + 1] = g[n + 1]
      OBVIOUS
    <2>2. n + 1 \in 0..M /\ n + 1 \in 0..N /\ n + 1 # 0 /\ (n + 1) - 1 = n
      BY <2>1
    <2>3. f[n + 1] = Base * f[n] /\ g[n + 1] = Base * g[n]
      BY <2>2 DEF IsRun
    <2> QED BY <1>2, <2>1, <2>3
  <1>3. M \in G
    <2> HIDE DEF G
    <2> QED BY <1>1, <1>2, NumbersByInduction
  <1> QED BY <1>3

LEMMA PowerSteps ==
    /\ Power(0) = 1
    /\ \A n \in Nat : Power(n + 1) = Base * Power(n)
  <1>1. Power(0) = 1
    <2>1. PICK f : IsRun(f, 0) /\ Power(0) = f[0]
      BY PowerIsRun
    <2> QED BY <2>1 DEF IsRun
  <1>2. ASSUME NEW n \in Nat PROVE Power(n + 1) = Base * Power(n)
    <2>1. PICK N \in Nat : N = n + 1
      OBVIOUS
    <2>2. PICK f : IsRun(f, n) /\ Power(n) = f[n]
      BY PowerIsRun
    <2>3. PICK g : IsRun(g, N) /\ Power(N) = g[N]
      BY PowerIsRun
    <2>4. f[n] = g[n]
      BY <2>1, <2>2, <2>3, RunsAgree
    <2>5. N \in 0..N /\ N # 0 /\ N - 1 = n
      BY <2>1
    <2>6. g[N] = Base * g[n]
      BY <2>3, <2>5 DEF IsRun
    <2> QED BY <2>1, <2>2, <2>3, <2>4, <2>6
  <1> QED BY <1>1, <1>2

LEMMA PowerAdds ==
    ASSUME NEW m \in Nat
    PROVE  \A n \in Nat : Power(m + n) = Power(m) * Power(n)
  <1> DEFINE G == {n \in Nat : Power(m + n) = Power(m) * Power(n)}
  <1>1. 0 \in G
    <2>1. m + 0 = m /\ Power(m) \in Nat
      BY PowerFacts
    <2> QED BY <2>1, PowerSteps
  <1>2. ASSUME NEW n \in Nat, n \in G PROVE n + 1 \in G
    <2>1. PICK a \in Nat, b \in Nat, c \in Nat : a = Power(m) /\ b = Power(n) /\ c = Power(m + n)
      BY PowerFacts
    <2>2. m + (n + 1) = (m + n) + 1 /\ m + n \in Nat
      OBVIOUS
    <2>3. Power(m + (n + 1)) = Base * c /\ Power(n + 1) = Base * b
      BY <2>1, <2>2, PowerSteps
    <2>4. c = a * b
      BY <1>2, <2>1
    <2>5. Base * (a * b) = a * (Base * b)
      BY NumbersAssumption
    <2> QED BY <2>1, <2>3, <2>4, <2>5
  <1> HIDE DEF G
  <1>3. \A n \in Nat : n \in G
    BY <1>1, <1>2, NumbersByInduction
  <1> QED BY <1>3 DEF G

LEMMA PowerGrows ==
    ASSUME NEW m \in Nat, NEW n \in Nat, m <= n
    PROVE  /\ Power(m) <= Power(n)
           /\ \E e \in Nat \ {0} : Power(n) = e * Power(m) /\ e = Power(n - m)
  <1>1. PICK d \in Nat : d = n - m /\ n = m + d
    <2>1. n - m \in Nat /\ n = m + (n - m)
      OBVIOUS
    <2> QED BY <2>1
  <1>2. PICK a \in Nat \ {0}, e \in Nat \ {0} : a = Power(m) /\ e = Power(d)
    BY PowerFacts
  <1>3. Power(n) = a * e
    BY <1>1, <1>2, PowerAdds
  <1>4. a * 1 <= a * e /\ a * e = e * a
    BY MulGrows
  <1> QED BY <1>1, <1>2, <1>3, <1>4

LEMMA CancelStrict ==
    ASSUME NEW x \in Int, NEW y \in Int, NEW c \in Nat \ {0}, x * c < y * c
    PROVE  x < y
  <1>1. SUFFICES ASSUME y <= x PROVE FALSE
    OBVIOUS
  <1>2. y * c <= x * c /\ x * c \in Int /\ y * c \in Int
    BY <1>1, MulGrows
  <1> QED BY <1>2

LEMMA MulStrict ==
    ASSUME NEW x \in Int, NEW y \in Int, NEW c \in Nat \ {0}, x < y
    PROVE  x * c < y * c
  <1>1. (x + 1) * c <= y * c
    BY MulGrows
  <1>2. (x + 1) * c = x * c + c
    OBVIOUS
  <1>3. x * c \in Int /\ y * c \in Int
    OBVIOUS
  <1> QED BY <1>1, <1>2, <1>3

LEMMA Swap == \A a, b, c \in Int : (a * b) * c = (a * c) * b
OBVIOUS

(* The denominator of a reduced fraction divides the one it was made of. *)
LEMMA QDenominator ==
    ASSUME NEW n \in Int, NEW d \in Nat \ {0}, NEW q, q = Q(n, d)
    PROVE  d % q[2] = 0
  <1>1. PICK g : g = Gcd(Magnitude(n), Magnitude(d))
    OBVIOUS
  <1>2. Magnitude(n) \in Nat /\ Magnitude(d) = d /\ Magnitude(d) \in Nat \ {0}
    BY MagnitudeFacts DEF Magnitude
  <1>3. g \in Nat \ {0} /\ Divides(g, Magnitude(d))
    BY <1>1, <1>2, GcdDivides
  <1>4. PICK l \in Int : l = d \div g /\ d = g * l
    BY <1>3, DivideOut
  <1>5. q[2] = l
    <2>1. PICK s : s = IF d < 0 THEN -1 ELSE 1
      OBVIOUS
    <2>2. q = <<s * (n \div g), s * (d \div g)>>
      BY <1>1, <2>1, Zenon DEF Q
    <2>3. s = 1
      BY <2>1
    <2>4. q[2] = 1 * l
      BY <1>4, <2>2, <2>3
    <2> QED BY <2>4
  <1>6. l \in Nat \ {0}
    BY <1>5, QFacts
  <1>7. (g * l) % l = 0
    BY <1>3, <1>6, Z3
  <1> QED BY <1>4, <1>5, <1>7

(* A fraction whose denominator divides P is a whole number of parts of P. *)
LEMMA WholeParts ==
    ASSUME NEW a1 \in Int, NEW a2 \in Nat \ {0}, NEW P \in Nat, P % a2 = 0
    PROVE  \E m \in Int : a1 * P = m * a2
  <1>1. PICK e \in Int : e = P \div a2
    BY Z3
  <1>2. P = a2 * e
    <2>1. P = a2 * (P \div a2) + (P % a2)
      BY Z3
    <2> QED BY <1>1, <2>1
  <1>3. a1 * (a2 * e) = (a1 * e) * a2 /\ a1 * e \in Int
    OBVIOUS
  <1> QED BY <1>2, <1>3

LEMMA DividesMore ==
    ASSUME NEW a \in Nat \ {0}, NEW P \in Nat, NEW e \in Nat, P % a = 0
    PROVE  (e * P) % a = 0
  <1>0. e \in Int
    OBVIOUS
  <1>1. PICK m \in Int : e * P = m * a
    BY <1>0, WholeParts
  <1>2. (m * a) % a = 0
    BY Z3
  <1> QED BY <1>1, <1>2

(* Floor and Ceiling are the nearest whole numbers. *)
LEMMA RoundsTight ==
    ASSUME NEW a \in Rational
    PROVE  a[1] < (Floor(a) + 1) * a[2] /\ (Ceiling(a) - 1) * a[2] < a[1]
  <1>1. PICK n \in Int, d \in Nat \ {0} : n = a[1] /\ d = a[2]
    BY RationalFacts
  <1>2. n \div d \in Int /\ n < ((n \div d) + 1) * d
    BY SMT
  <1>3. PICK m \in Int : m = (-n) \div d /\ -n < (m + 1) * d
    BY SMT
  <1>4. ((-m) - 1) * d = -((m + 1) * d) /\ (m + 1) * d \in Int
    OBVIOUS
  <1>5. ((-m) - 1) * d < n
    BY <1>3, <1>4
  <1> QED BY <1>1, <1>2, <1>3, <1>5 DEF Floor, Ceiling

(* Times a whole number. *)
LEMMA ScaleUp ==
    ASSUME NEW x \in Rational, NEW P \in Nat \ {0}, NEW t, t = Times(x, Num(P))
    PROVE  t \in Rational /\ t[1] \in Int /\ t[2] \in Nat \ {0}
           /\ t[1] * x[2] = (x[1] * P) * t[2]
  <1>1. x[1] \in Int /\ x[2] \in Nat \ {0} /\ x[1] * P \in Int
    BY RationalFacts
  <1>2. Num(P)[1] = P /\ Num(P)[2] = 1 /\ x[2] * 1 = x[2]
    BY <1>1 DEF Num
  <1>3. t = Q(x[1] * P, x[2])
    BY <1>2 DEF Times
  <1> QED BY <1>1, <1>3, QFacts

(* Where Floor and Ceiling put x parts of P. *)
LEMMA FloorParts ==
    ASSUME NEW x1 \in Int, NEW x2 \in Nat \ {0}, NEW P \in Nat \ {0},
           NEW x, x = <<x1, x2>>, NEW f, f = Floor(Times(x, Num(P))),
           NEW c, c = Ceiling(Times(x, Num(P)))
    PROVE  /\ f \in Int /\ f * x2 <= x1 * P /\ x1 * P < (f + 1) * x2
           /\ c \in Int /\ (c - 1) * x2 < x1 * P /\ x1 * P <= c * x2
  <1>1. x \in Rational /\ x[1] = x1 /\ x[2] = x2
    BY DEF Rational
  <1>2. PICK t : t = Times(x, Num(P))
    OBVIOUS
  <1>3. t \in Rational /\ t[1] \in Int /\ t[2] \in Nat \ {0} /\ t[1] * x2 = (x1 * P) * t[2]
    BY <1>1, <1>2, ScaleUp
  <1>4. /\ f \in Int /\ f * t[2] <= t[1] /\ t[1] < (f + 1) * t[2]
        /\ c \in Int /\ (c - 1) * t[2] < t[1] /\ t[1] <= c * t[2]
    BY <1>2, <1>3, RoundsAbout, RoundsTight
  <1>5. PICK t1 \in Int, t2 \in Nat \ {0} : t1 = t[1] /\ t2 = t[2]
    BY <1>3
  <1>6. PICK xp \in Int : xp = x1 * P
    OBVIOUS
  <1>7. t1 * x2 = xp * t2
    BY <1>3, <1>5, <1>6
  <1>8. ASSUME NEW m \in Int, m * t2 <= t1 PROVE m * x2 <= xp
    <2>1. (m * t2) * x2 <= t1 * x2
      BY <1>8, MulGrows
    <2>2. (m * t2) * x2 = (m * x2) * t2 /\ m * x2 \in Int
      BY Swap
    <2> QED BY <1>7, <2>1, <2>2, CancelPositive
  <1>9. ASSUME NEW m \in Int, t1 <= m * t2 PROVE xp <= m * x2
    <2>1. t1 * x2 <= (m * t2) * x2
      BY <1>9, MulGrows
    <2>2. (m * t2) * x2 = (m * x2) * t2 /\ m * x2 \in Int
      BY Swap
    <2> QED BY <1>7, <2>1, <2>2, CancelPositive
  <1>10. ASSUME NEW m \in Int, m * t2 < t1 PROVE m * x2 < xp
    <2>1. (m * t2) * x2 < t1 * x2
      BY <1>10, MulStrict
    <2>2. (m * t2) * x2 = (m * x2) * t2 /\ m * x2 \in Int
      BY Swap
    <2> QED BY <1>7, <2>1, <2>2, CancelStrict
  <1>11. ASSUME NEW m \in Int, t1 < m * t2 PROVE xp < m * x2
    <2>1. t1 * x2 < (m * t2) * x2
      BY <1>11, MulStrict
    <2>2. (m * t2) * x2 = (m * x2) * t2 /\ m * x2 \in Int
      BY Swap
    <2> QED BY <1>7, <2>1, <2>2, CancelStrict
  <1>12. f + 1 \in Int /\ c - 1 \in Int /\ f * t2 <= t1 /\ t1 < (f + 1) * t2
         /\ (c - 1) * t2 < t1 /\ t1 <= c * t2
    BY <1>4, <1>5
  <1> QED BY <1>4, <1>6, <1>8, <1>9, <1>10, <1>11, <1>12

(* Whole parts of 1 / Power(s) between a fraction and a power of the base. *)
LEMMA DigitParts ==
    ASSUME NEW x1 \in Int, NEW x2 \in Nat \ {0}, NEW x, x = <<x1, x2>>,
           NEW j \in Int, NEW s \in Nat, s + j \in Nat
    PROVE  /\ Leq(Digit(j), x) => Power(s + j) * x2 <= x1 * Power(s)
           /\ Lt(x, Digit(j)) => x1 * Power(s) < Power(s + j) * x2
  <1>1. PICK A \in Nat \ {0}, S \in Nat \ {0} : A = Power(s + j) /\ S = Power(s)
    BY PowerFacts
  <1>2. PICK d1 \in Int, d2 \in Nat \ {0} : d1 = Digit(j)[1] /\ d2 = Digit(j)[2]
    BY DigitFacts, RationalFacts
  <1>3. d1 * S = A * d2
    <2>1. CASE j >= 0
      <3>1. PICK J \in Nat \ {0} : J = Power(j)
        BY <2>1, PowerFacts
      <3>2. A = S * J
        BY <1>1, <2>1, <3>1, PowerAdds
      <3>3. d1 = J /\ d2 = 1
        BY <1>2, <2>1, <3>1 DEF Digit, Num
      <3> QED BY <3>2, <3>3
    <2>2. CASE ~ (j >= 0)
      <3>1. -j \in Nat /\ s = (s + j) + (-j)
        BY <2>2
      <3>2. PICK U \in Nat \ {0} : U = Power(-j)
        BY <3>1, PowerFacts
      <3>3. S = A * U
        BY <1>1, <3>1, <3>2, PowerAdds
      <3>4. PICK q : q = Q(1, U)
        OBVIOUS
      <3>5. q[1] * U = 1 * q[2]
        BY <3>4, QFacts
      <3>6. d1 = q[1] /\ d2 = q[2]
        BY <1>2, <2>2, <3>2, <3>4 DEF Digit
      <3>7. d1 * U = d2
        BY <3>5, <3>6
      <3>8. d1 * (A * U) = A * (d1 * U)
        OBVIOUS
      <3> QED BY <3>3, <3>7, <3>8
    <2> QED BY <2>1, <2>2
  <1>4. /\ Leq(Digit(j), x) <=> d1 * x2 <= x1 * d2
        /\ Lt(x, Digit(j)) <=> x1 * d2 < d1 * x2
    BY <1>2 DEF Leq, Lt
  <1>5. (d1 * x2) * S = (A * x2) * d2
    <2>1. (d1 * x2) * S = (d1 * S) * x2 /\ (A * d2) * x2 = (A * x2) * d2
      BY Swap
    <2> QED BY <1>3, <2>1
  <1>6. (x1 * d2) * S = (x1 * S) * d2
    BY Swap
  <1>7. A * x2 \in Int /\ x1 * S \in Int /\ d1 * x2 \in Int /\ x1 * d2 \in Int
    OBVIOUS
  <1>8. ASSUME d1 * x2 <= x1 * d2 PROVE A * x2 <= x1 * S
    <2>1. (d1 * x2) * S <= (x1 * d2) * S
      BY <1>7, <1>8, MulGrows
    <2> QED BY <1>5, <1>6, <1>7, <2>1, CancelPositive
  <1>9. ASSUME x1 * d2 < d1 * x2 PROVE x1 * S < A * x2
    <2>1. (x1 * d2) * S < (d1 * x2) * S
      BY <1>7, <1>9, MulStrict
    <2> QED BY <1>5, <1>6, <1>7, <2>1, CancelStrict
  <1> QED BY <1>1, <1>4, <1>8, <1>9

LEMMA GcdSteps ==
    ASSUME NEW a \in Nat, NEW b \in Nat
    PROVE  Gcd(a, b) = IF b = 0 THEN a ELSE Gcd(b, a % b)
  <1> DEFINE f == CHOOSE h : h = [p \in Nat \X Nat |-> IF p[2] = 0 THEN p[1]
                                                        ELSE h[<<p[2], p[1] % p[2]>>]]
  <1>1. Euclid(f)
    BY EuclidExists DEF Euclid
  <1>2. \A x, y : Gcd(x, y) = f[<<x, y>>]
    BY Zenon DEF Gcd
  <1> HIDE DEF f
  <1>3. <<a, b>> \in Nat \X Nat
    OBVIOUS
  <1>4. f[<<a, b>>] = IF b = 0 THEN a ELSE f[<<b, a % b>>]
    BY <1>1, <1>3 DEF Euclid
  <1> QED BY <1>2, <1>4

LEMMA GcdOfMultiple ==
    ASSUME NEW a \in Nat \ {0}, NEW e \in Nat \ {0}
    PROVE  Gcd(e * a, a) = a /\ Gcd(a, e * a) = a
  <1>1. PICK b \in Nat \ {0} : b = e * a
    BY NonZeroProduct
  <1>2. b % a = 0
    <2>1. (e * a) % a = 0
      BY Z3
    <2> QED BY <1>1, <2>1
  <1>3. Gcd(a, 0) = a
    BY GcdSteps
  <1>4. Gcd(b, a) = a
    <2>1. a # 0 /\ a \in Nat /\ b \in Nat
      OBVIOUS
    <2>2. Gcd(b, a) = Gcd(a, b % a)
      BY <2>1, GcdSteps
    <2> QED BY <1>2, <1>3, <2>2
  <1>5. Gcd(a, b) = a
    <2>1. CASE e = 1
      <3>1. b = a
        BY <1>1, <2>1
      <3> QED BY <1>4, <3>1
    <2>2. CASE e # 1
      <3>1. 2 * a <= e * a
        BY <2>2, MulGrows
      <3>2. a < b
        BY <1>1, <3>1
      <3>3. a % b = a
        BY <3>2
      <3>4. b # 0 /\ a \in Nat /\ b \in Nat
        OBVIOUS
      <3>5. Gcd(a, b) = Gcd(b, a % b)
        BY <3>4, GcdSteps
      <3> QED BY <1>4, <3>3, <3>5
    <2> QED BY <2>1, <2>2
  <1> QED BY <1>1, <1>4, <1>5

(* A fraction of two numbers of which one divides the other. *)
LEMMA QOfMultiple ==
    ASSUME NEW a \in Nat \ {0}, NEW e \in Nat \ {0}
    PROVE  Q(e * a, a) = <<e, 1>> /\ Q(a, e * a) = <<1, e>>
  <1>1. PICK b \in Nat \ {0} : b = e * a
    BY NonZeroProduct
  <1>2. Magnitude(a) = a /\ Magnitude(b) = b /\ ~ (a < 0) /\ ~ (b < 0)
    BY DEF Magnitude
  <1>3. Gcd(b, a) = a /\ Gcd(a, b) = a
    BY <1>1, GcdOfMultiple
  <1>4. b \div a = e /\ a \div a = 1
    <2>1. (e * a) \div a = e
      BY Z3
    <2>2. a \div a = 1
      BY Z3
    <2> QED BY <1>1, <2>1, <2>2
  <1>5. Q(b, a) = <<1 * (b \div a), 1 * (a \div a)>>
    <2>1. PICK g, s : g = Gcd(Magnitude(b), Magnitude(a)) /\ s = IF a < 0 THEN -1 ELSE 1
      OBVIOUS
    <2>2. Q(b, a) = <<s * (b \div g), s * (a \div g)>>
      BY <2>1, Zenon DEF Q
    <2> QED BY <1>2, <1>3, <2>1, <2>2
  <1>6. Q(a, b) = <<1 * (a \div a), 1 * (b \div a)>>
    <2>1. PICK g, s : g = Gcd(Magnitude(a), Magnitude(b)) /\ s = IF b < 0 THEN -1 ELSE 1
      OBVIOUS
    <2>2. Q(a, b) = <<s * (a \div g), s * (b \div g)>>
      BY <2>1, Zenon DEF Q
    <2> QED BY <1>2, <1>3, <2>1, <2>2
  <1> QED BY <1>1, <1>4, <1>5, <1>6

(* The fewest decimals that write a fraction. *)
LEMMA PlacesFacts ==
    ASSUME NEW r \in Rational, NEW k \in 0..PriceMaxDecimals, Power(k) % r[2] = 0
    PROVE  Places(r) \in 0..k /\ Power(Places(r)) % r[2] = 0
  <1> DEFINE Writes(j) == Power(j) % r[2] = 0
             First(j) == Writes(j) /\ \A i \in 0..(j - 1) : ~ Writes(i)
             S == {j \in 0..PriceMaxDecimals : Writes(j)}
  <1>1. PriceMaxDecimals \in Nat
    BY GridAssumption
  <1>2. S \subseteq Nat /\ S # {}
    BY <1>1
  <1>3. PICK m : m \in S /\ \A y \in S : m <= y
    <2> HIDE DEF S
    <2> QED BY <1>2, MinIsMember
  <1>4. m \in 0..PriceMaxDecimals /\ First(m)
    <2>1. m \in 0..PriceMaxDecimals /\ Writes(m)
      BY <1>3
    <2>2. ASSUME NEW i \in 0..(m - 1), Writes(i) PROVE FALSE
      <3>1. i \in S
        BY <1>1, <2>1, <2>2
      <3>2. m <= i
        BY <1>3, <3>1
      <3> QED BY <1>1, <2>1, <2>2, <3>2
    <2> QED BY <2>1, <2>2
  <1>5. Places(r) = CHOOSE j \in 0..PriceMaxDecimals : First(j)
    BY Zenon DEF Places
  <1>6. PICK K : K = Places(r)
    OBVIOUS
  <1>7. K \in 0..PriceMaxDecimals /\ First(K)
    <2> HIDE DEF First
    <2> QED BY <1>4, <1>5, <1>6
  <1>8. K <= k
    <2>1. SUFFICES ASSUME k < K PROVE FALSE
      BY <1>1, <1>7
    <2>2. k \in 0..(K - 1)
      BY <1>1, <1>7, <2>1
    <2>3. Writes(k)
      OBVIOUS
    <2> QED BY <1>7, <2>2, <2>3
  <1> QED BY <1>1, <1>6, <1>7, <1>8

LEMMA FloorAtMost ==
    ASSUME NEW p \in Rational, 0 <= p[1], NEW K \in Nat \ {0}, NEW P \in Nat, K <= P,
           NEW m \in Int, p[1] * P <= m * p[2]
    PROVE  Floor(Times(p, Num(K))) <= m
  <1>1. PICK p1 \in Nat, p2 \in Nat \ {0} : p1 = p[1] /\ p2 = p[2] /\ p = <<p1, p2>>
    <2>1. p[1] \in Nat /\ p[2] \in Nat \ {0} /\ p = <<p[1], p[2]>>
      BY RationalFacts DEF Rational
    <2> QED BY <2>1
  <1>2. PICK F, C : F = Floor(Times(p, Num(K))) /\ C = Ceiling(Times(p, Num(K)))
    OBVIOUS
  <1>3. F \in Int /\ F * p2 <= p1 * K
    <2>1. p1 \in Int
      OBVIOUS
    <2> QED BY <1>1, <1>2, <2>1, FloorParts
  <1>4. K * p1 <= P * p1
    BY MulGrows
  <1>5. p1 * K = K * p1 /\ p1 * P = P * p1 /\ K * p1 \in Int /\ P * p1 \in Int
        /\ F * p2 \in Int /\ m * p2 \in Int
    BY <1>3
  <1>6. F * p2 <= m * p2
    BY <1>1, <1>3, <1>4, <1>5
  <1> QED BY <1>2, <1>3, <1>6, CancelPositive

LEMMA MeasurablePositive ==
    ASSUME NEW x, Measurable(x)
    PROVE  \E x1 \in Nat \ {0}, x2 \in Nat \ {0} : x = <<x1, x2>>
  <1>1. PICK x1 \in Int, x2 \in Nat \ {0} : x = <<x1, x2>>
    BY DEF Measurable, Rational
  <1>2. Power(3 + (-3)) * x2 <= x1 * Power(3)
    <2>1. -3 \in Int /\ 3 \in Nat /\ 3 + (-3) \in Nat /\ Leq(Digit(-3), x)
      BY DEF Measurable
    <2> QED BY <1>1, <2>1, DigitParts
  <1>3. 3 + (-3) = 0 /\ Power(0) = 1
    BY PowerSteps
  <1>4. PICK P \in Nat : P = Power(3)
    BY PowerFacts
  <1>5. x2 <= x1 * P
    BY <1>2, <1>3, <1>4
  <1>6. x1 <= 0 => x1 * P <= 0
    <2>1. SUFFICES ASSUME x1 <= 0 PROVE x1 * P <= 0 * P
      OBVIOUS
    <2> QED BY <2>1, MulGrows
  <1>7. x1 \in Nat \ {0}
    BY <1>5, <1>6
  <1> QED BY <1>1, <1>7

(* How many decimals a price keeps: what the venue's decimals and its      *)
(* significant figures leave, the latter as long as it keeps any.          *)
Keeps(pl, adjusted, sz) ==
    /\ pl \in 0..MaxPriceDecimals(sz)
    /\ pl > 0 => pl <= PriceSigFigs - 1 - adjusted
    /\ pl < MaxPriceDecimals(sz) => pl >= PriceSigFigs - 1 - adjusted

LEMMA QuantizeKeeps ==
    ASSUME NEW price, Measurable(price), price[2] # 1, NEW side, NEW sz \in 0..PriceMaxDecimals,
           NEW p, p = QuantizePrice(price, side, sz)
    PROVE  \E pl \in Nat : /\ Keeps(pl, Adjusted(price), sz)
                           /\ p = IF side = "BUY" THEN Down(price, pl) ELSE Up(price, pl)
  <1> DEFINE bySigFigs == (PriceSigFigs - 1) - Adjusted(price)
             fewer == IF bySigFigs < MaxPriceDecimals(sz) THEN bySigFigs ELSE MaxPriceDecimals(sz)
             places == IF fewer < 0 THEN 0 ELSE fewer
  <1>1. PICK a \in Int : a = Adjusted(price)
    BY AdjustedFacts
  <1>2. PICK D \in Nat : D = MaxPriceDecimals(sz)
    BY GridAssumption DEF MaxPriceDecimals
  <1>3. p = IF side = "BUY" THEN Down(price, places) ELSE Up(price, places)
    BY Zenon DEF QuantizePrice
  <1>4. places \in Nat /\ Keeps(places, Adjusted(price), sz)
    <2>1. places = IF (IF (PriceSigFigs - 1) - a < D THEN (PriceSigFigs - 1) - a ELSE D) < 0
                   THEN 0 ELSE IF (PriceSigFigs - 1) - a < D THEN (PriceSigFigs - 1) - a ELSE D
      BY <1>1, <1>2
    <2> HIDE DEF places
    <2> QED BY <1>1, <1>2, <2>1, GridAssumption DEF Keeps
  <1> HIDE DEF places
  <1> QED BY <1>3, <1>4

(* A price rounded to the decimals it keeps is one the venue takes, also   *)
(* when rounding up carries it to the next digit.                          *)
LEMMA RoundedIsLegal ==
    ASSUME NEW x, Measurable(x), NEW x1 \in Nat, NEW x2 \in Nat \ {0}, x = <<x1, x2>>,
           NEW sz \in 0..PriceMaxDecimals, NEW pl \in Nat, Keeps(pl, Adjusted(x), sz),
           NEW m \in Nat, (m - 1) * x2 < x1 * Power(pl), NEW p, p = Q(m, Power(pl))
    PROVE  LegalPrice(p, sz)
  <1>1. PICK P \in Nat \ {0} : P = Power(pl)
    BY PowerFacts
  <1>2. /\ p \in Rational /\ p[1] \in Int /\ p[2] \in Nat \ {0} /\ p[1] * P = m * p[2]
        /\ P % p[2] = 0
    BY <1>1, QFacts, QDenominator
  <1>3. PICK D \in Nat : D = MaxPriceDecimals(sz) /\ pl <= D /\ D <= PriceMaxDecimals
    BY GridAssumption DEF MaxPriceDecimals, Keeps
  <1>4. CASE pl = 0
    <2>1. P = 1
      BY <1>1, <1>4, PowerSteps
    <2>2. PICK d \in Nat \ {0} : d = p[2]
      BY <1>2
    <2>3. 1 % d = 0
      BY <1>2, <2>1, <2>2
    <2>4. d > 1 => 1 % d = 1
      OBVIOUS
    <2>5. d = 1
      BY <2>3, <2>4
    <2> QED BY <2>2, <2>5 DEF LegalPrice
  <1>5. CASE pl > 0
    <2>1. PICK a \in Int : a = Adjusted(x) /\ Lt(x, Digit(a + 1))
      BY AdjustedFacts
    <2>2. PICK s \in Nat : s = PriceSigFigs - 1 - a /\ pl <= s
      BY <1>5, <2>1, GridAssumption DEF Keeps
    <2>3. PICK S \in Nat \ {0} : S = Power(PriceSigFigs)
      BY GridAssumption, PowerFacts
    <2>4. m <= S
      <3>1. s + (a + 1) = PriceSigFigs /\ PriceSigFigs \in Nat /\ a + 1 \in Int
        BY <2>2, GridAssumption
      <3>2. PICK R \in Nat : R = Power(s)
        BY PowerFacts
      <3>3. x1 * R < S * x2
        <4>1. x1 \in Int
          OBVIOUS
        <4> QED BY <2>1, <2>3, <3>1, <3>2, <4>1, DigitParts
      <3>4. P <= R
        BY <1>1, <2>2, <3>2, PowerGrows
      <3>5. P * x1 <= R * x1
        BY <3>4, MulGrows
      <3>6. P * x1 = x1 * P /\ R * x1 = x1 * R /\ x1 * P \in Int /\ x1 * R \in Int
            /\ (m - 1) * x2 \in Int /\ S * x2 \in Int
        OBVIOUS
      <3>7. (m - 1) * x2 < S * x2
        BY <1>1, <3>3, <3>5, <3>6
      <3>8. m - 1 < S
        BY <3>7, CancelStrict
      <3> QED BY <3>8
    <2>5. pl \in 0..PriceMaxDecimals /\ OnGrid(p, MaxPriceDecimals(sz))
      <3>1. pl \in 0..D /\ pl \in 0..PriceMaxDecimals
        BY <1>3, GridAssumption
      <3> QED BY <1>1, <1>2, <1>3, <3>1 DEF OnGrid
    <2>6. 0 <= p[1]
      <3>1. PICK p1 \in Int, p2 \in Nat \ {0} : p1 = p[1] /\ p2 = p[2]
        BY <1>2
      <3>2. 0 * P <= p1 * P
        <4>1. 0 * p2 <= m * p2
          BY MulGrows
        <4> QED BY <1>2, <3>1, <4>1
      <3>3. 0 <= p1
        BY <3>2, CancelPositive
      <3> QED BY <3>1, <3>3
    <2>7. PICK K \in 0..pl : K = Places(p)
      BY <1>1, <1>2, <2>5, PlacesFacts
    <2>8. PICK k \in Nat \ {0} : k = Power(K) /\ k <= P
      BY <1>1, <2>7, PowerFacts, PowerGrows
    <2>9. CASE m < S
      <3>1. p[1] * P <= m * p[2]
        BY <1>2
      <3>2. Floor(Times(p, Num(k))) <= m
        BY <1>2, <2>6, <2>8, <3>1, FloorAtMost
      <3>3. Floor(Times(p, Num(k))) \in Int
        BY <1>2, <2>8, ScaleUp, RoundsAbout
      <3> QED BY <2>3, <2>5, <2>7, <2>8, <2>9, <3>2, <3>3 DEF LegalPrice
    <2>10. CASE m = S
      <3>1. CASE pl <= PriceSigFigs
        <4>1. PICK e \in Nat \ {0} : S = e * P
          BY <1>1, <2>3, <3>1, GridAssumption, PowerGrows
        <4>2. p = <<e, 1>>
          BY <1>1, <2>10, <4>1, QOfMultiple
        <4> QED BY <4>2 DEF LegalPrice
      <3>2. CASE pl > PriceSigFigs
        <4>1. PICK e \in Nat \ {0} : P = e * S /\ e = Power(pl - PriceSigFigs)
          BY <1>1, <2>3, <3>2, GridAssumption, PowerGrows
        <4>2. p = <<1, e>> /\ p[1] = 1 /\ p[2] = e
          <5>1. p = Q(S, e * S)
            BY <1>1, <2>10, <4>1
          <5>2. Q(S, e * S) = <<1, e>>
            BY QOfMultiple
          <5> QED BY <5>1, <5>2
        <4>3. PICK j \in 0..PriceMaxDecimals : j = pl - PriceSigFigs
          BY <2>5, <3>2, GridAssumption
        <4>4. Power(j) % p[2] = 0
          <5>1. e % e = 0
            OBVIOUS
          <5> QED BY <4>1, <4>2, <4>3, <5>1
        <4>5. K \in 0..j
          BY <1>2, <2>7, <4>3, <4>4, PlacesFacts
        <4>6. k <= e
          BY <2>8, <4>1, <4>3, <4>5, PowerGrows
        <4>7. p[1] * e <= 1 * p[2]
          BY <4>2
        <4>8. Floor(Times(p, Num(k))) <= 1
          <5>1. 1 \in Int /\ e \in Nat
            OBVIOUS
          <5> QED BY <1>2, <2>6, <2>8, <4>6, <4>7, <5>1, FloorAtMost
        <4>9. 1 < S
          <5>1. PICK n \in Nat : PriceSigFigs = n + 1
            <6>1. PriceSigFigs - 1 \in Nat /\ PriceSigFigs = (PriceSigFigs - 1) + 1
              BY GridAssumption
            <6> QED BY <6>1
          <5>2. PICK h \in Nat \ {0} : h = Power(n)
            BY PowerFacts
          <5>3. S = Base * h
            BY <2>3, <5>1, <5>2, PowerSteps
          <5>4. 2 * h <= Base * h
            BY NumbersAssumption, MulGrows
          <5> QED BY <5>3, <5>4
        <4>10. Floor(Times(p, Num(k))) \in Int
          BY <1>2, <2>8, ScaleUp, RoundsAbout
        <4> QED BY <2>3, <2>5, <2>7, <2>8, <4>8, <4>9, <4>10 DEF LegalPrice
      <3> QED BY <3>1, <3>2, GridAssumption
    <2> QED BY <2>4, <2>9, <2>10
  <1> QED BY <1>4, <1>5

(* No whole number of parts of P lies between a fraction and what Floor    *)
(* (below it) or Ceiling (above it) makes of it.                           *)
LEMMA NoneBetween ==
    ASSUME NEW x1 \in Int, NEW x2 \in Nat \ {0}, NEW P \in Nat \ {0},
           NEW r1 \in Int, NEW r2 \in Nat \ {0}, NEW m \in Int, r1 * P = m * r2,
           NEW f \in Int
    PROVE  /\ x1 * P < (f + 1) * x2 /\ f * r2 < r1 * P => ~ (r1 * x2 <= x1 * r2)
           /\ (f - 1) * x2 < x1 * P /\ r1 * P < f * r2 => ~ (x1 * r2 <= r1 * x2)
  <1>1. (r1 * x2) * P = (m * x2) * r2
    <2>1. (r1 * x2) * P = (r1 * P) * x2 /\ (m * r2) * x2 = (m * x2) * r2
      BY Swap
    <2> QED BY <2>1
  <1>2. (x1 * r2) * P = (x1 * P) * r2
    BY Swap
  <1>3. /\ r1 * x2 \in Int /\ x1 * r2 \in Int /\ m * x2 \in Int /\ x1 * P \in Int
        /\ (f + 1) * x2 \in Int /\ (f - 1) * x2 \in Int
    OBVIOUS
  <1>4. ASSUME x1 * P < (f + 1) * x2, f * r2 < r1 * P, r1 * x2 <= x1 * r2 PROVE FALSE
    <2>1. f < m
      BY <1>4, CancelStrict
    <2>2. (r1 * x2) * P <= (x1 * r2) * P
      BY <1>3, <1>4, MulGrows
    <2>3. m * x2 <= x1 * P
      BY <1>1, <1>2, <1>3, <2>2, CancelPositive
    <2>4. m * x2 < (f + 1) * x2
      BY <1>3, <1>4, <2>3
    <2>5. m < f + 1
      BY <2>4, CancelStrict
    <2> QED BY <2>1, <2>5
  <1>5. ASSUME (f - 1) * x2 < x1 * P, r1 * P < f * r2, x1 * r2 <= r1 * x2 PROVE FALSE
    <2>1. m < f
      BY <1>5, CancelStrict
    <2>2. (x1 * r2) * P <= (r1 * x2) * P
      BY <1>3, <1>5, MulGrows
    <2>3. x1 * P <= m * x2
      BY <1>1, <1>2, <1>3, <2>2, CancelPositive
    <2>4. (f - 1) * x2 < m * x2
      BY <1>3, <1>5, <2>3
    <2>5. f - 1 < m
      BY <2>4, CancelStrict
    <2> QED BY <2>1, <2>5
  <1> QED BY <1>4, <1>5

(* A legal price that needs more decimals than were kept is smaller than   *)
(* the leading digit of the price that was rounded.                        *)
LEMMA FinerIsSmaller ==
    ASSUME NEW r \in Rational, NEW sz \in 0..PriceMaxDecimals, LegalPrice(r, sz),
           NEW pl \in Nat, NEW a \in Int, Keeps(pl, a, sz), Power(pl) % r[2] # 0
    PROVE  pl + a \in Nat /\ r[1] * Power(pl) < Power(pl + a) * r[2]
  <1>1. PICK r1 \in Int, r2 \in Nat \ {0} : r1 = r[1] /\ r2 = r[2] /\ r = <<r1, r2>>
    <2>1. r[1] \in Int /\ r[2] \in Nat \ {0} /\ r = <<r[1], r[2]>>
      BY RationalFacts DEF Rational
    <2> QED BY <2>1
  <1>2. PICK P \in Nat \ {0} : P = Power(pl)
    BY PowerFacts
  <1>3. r2 # 1
    <2>1. P % 1 = 0
      OBVIOUS
    <2> QED BY <1>1, <1>2, <2>1
  <1>4. /\ OnGrid(r, MaxPriceDecimals(sz))
        /\ Floor(Times(r, Num(Power(Places(r))))) < Power(PriceSigFigs)
    BY <1>1, <1>3 DEF LegalPrice
  <1>5. PICK D \in Nat : D = MaxPriceDecimals(sz) /\ pl <= D /\ D <= PriceMaxDecimals
    BY GridAssumption DEF MaxPriceDecimals, Keeps
  <1>6. PICK d \in 0..D : Power(d) % r[2] = 0
    BY <1>4, <1>5 DEF OnGrid
  <1>7. PICK K \in 0..D : K = Places(r) /\ Power(K) % r[2] = 0
    <2>1. d \in 0..PriceMaxDecimals
      BY <1>5, <1>6, GridAssumption
    <2>2. Places(r) \in 0..d /\ Power(Places(r)) % r[2] = 0
      BY <1>6, <2>1, PlacesFacts
    <2> QED BY <1>5, <1>6, <2>2
  <1>8. pl < K
    <2>1. SUFFICES ASSUME K <= pl PROVE FALSE
      BY <1>5, <1>7
    <2>2. PICK e \in Nat, k \in Nat : P = e * k /\ k = Power(K)
      BY <1>2, <1>7, <2>1, PowerFacts, PowerGrows
    <2>3. k % r2 = 0
      BY <1>1, <1>7, <2>2
    <2>4. (e * k) % r2 = 0
      BY <2>3, DividesMore
    <2> QED BY <1>1, <1>2, <2>2, <2>4
  <1>9. pl + a \in Nat /\ PriceSigFigs <= K + a
    BY <1>5, <1>7, <1>8, GridAssumption DEF Keeps
  <1>10. PICK k \in Nat \ {0}, S \in Nat \ {0}, T \in Nat \ {0} :
            /\ k = Power(K) /\ S = Power(PriceSigFigs) /\ T = Power(K + a) /\ S <= T
    <2>1. K \in Nat /\ PriceSigFigs \in Nat /\ K + a \in Nat
      BY <1>7, <1>9, GridAssumption
    <2>2. Power(PriceSigFigs) <= Power(K + a)
      BY <1>9, <2>1, PowerGrows
    <2> QED BY <2>1, <2>2, PowerFacts
  <1>11. r1 * k < T * r2
    <2>1. PICK F, C : F = Floor(Times(r, Num(k))) /\ C = Ceiling(Times(r, Num(k)))
      OBVIOUS
    <2>2. F \in Int /\ r1 * k < (F + 1) * r2
      BY <1>1, <2>1, FloorParts
    <2>3. F + 1 <= T
      BY <1>4, <1>7, <1>10, <2>1, <2>2
    <2>4. (F + 1) * r2 <= T * r2
      BY <2>2, <2>3, MulGrows
    <2>5. r1 * k \in Int /\ (F + 1) * r2 \in Int /\ T * r2 \in Int
      BY <2>2
    <2> QED BY <2>2, <2>4, <2>5
  <1>12. PICK e \in Nat \ {0}, A \in Nat \ {0} : k = e * P /\ T = e * A /\ A = Power(pl + a)
    <2>1. PICK n \in Nat : n = K - pl /\ K = pl + n /\ K + a = (pl + a) + n
      <3>1. K - pl \in Nat /\ K = pl + (K - pl) /\ K + a = (pl + a) + (K - pl)
        BY <1>7, <1>8
      <3> QED BY <3>1
    <2>2. PICK e \in Nat \ {0}, A \in Nat \ {0} : e = Power(n) /\ A = Power(pl + a)
      BY <1>9, PowerFacts
    <2>3. k = P * e
      BY <1>2, <1>10, <2>1, <2>2, PowerAdds
    <2>4. T = A * e
      BY <1>9, <1>10, <2>1, <2>2, PowerAdds
    <2>5. P * e = e * P /\ A * e = e * A
      OBVIOUS
    <2> QED BY <2>2, <2>3, <2>4, <2>5
  <1>13. r1 * (e * P) = (r1 * P) * e /\ (e * A) * r2 = (A * r2) * e
         /\ r1 * P \in Int /\ A * r2 \in Int
    OBVIOUS
  <1>14. (r1 * P) * e < (A * r2) * e
    BY <1>11, <1>12, <1>13
  <1>15. r1 * P < A * r2
    BY <1>13, <1>14, CancelStrict
  <1> QED BY <1>1, <1>2, <1>9, <1>12, <1>15

LEMMA Chains ==
    ASSUME NEW x1 \in Int, NEW x2 \in Nat \ {0}, NEW P \in Nat \ {0},
           NEW r1 \in Int, NEW r2 \in Nat \ {0}, NEW u \in Int
    PROVE  /\ u * x2 <= x1 * P /\ x1 * r2 <= r1 * x2 => u * r2 <= r1 * P
           /\ x1 * P <= u * x2 /\ r1 * x2 <= x1 * r2 => r1 * P <= u * r2
  <1>1. /\ (u * x2) * r2 = (u * r2) * x2 /\ (x1 * P) * r2 = (x1 * r2) * P
        /\ (r1 * x2) * P = (r1 * P) * x2
    BY Swap
  <1>2. /\ u * x2 \in Int /\ u * r2 \in Int /\ x1 * P \in Int /\ x1 * r2 \in Int
        /\ r1 * x2 \in Int /\ r1 * P \in Int
    OBVIOUS
  <1>3. /\ (u * r2) * x2 \in Int /\ (x1 * r2) * P \in Int /\ (r1 * P) * x2 \in Int
    BY <1>2
  <1>4. ASSUME u * x2 <= x1 * P, x1 * r2 <= r1 * x2 PROVE u * r2 <= r1 * P
    <2>1. (u * x2) * r2 <= (x1 * P) * r2 /\ (x1 * r2) * P <= (r1 * x2) * P
      BY <1>2, <1>4, MulGrows
    <2>2. (u * r2) * x2 <= (r1 * P) * x2
      BY <1>1, <1>3, <2>1
    <2> QED BY <1>2, <2>2, CancelPositive
  <1>5. ASSUME x1 * P <= u * x2, r1 * x2 <= x1 * r2 PROVE r1 * P <= u * r2
    <2>1. (x1 * P) * r2 <= (u * x2) * r2 /\ (r1 * x2) * P <= (x1 * r2) * P
      BY <1>2, <1>5, MulGrows
    <2>2. (r1 * P) * x2 <= (u * r2) * x2
      BY <1>1, <1>3, <2>1
    <2> QED BY <1>2, <2>2, CancelPositive
  <1> QED BY <1>4, <1>5

(* A fraction against m parts of P. *)
LEMMA PartsCompare ==
    ASSUME NEW m \in Int, NEW P \in Nat \ {0}, NEW p, p = Q(m, P),
           NEW r1 \in Int, NEW r2 \in Nat \ {0}, NEW r, r = <<r1, r2>>
    PROVE  /\ Lt(p, r) => m * r2 < r1 * P
           /\ Lt(r, p) => r1 * P < m * r2
  <1>1. PICK p1 \in Int, p2 \in Nat \ {0} : p1 = p[1] /\ p2 = p[2] /\ p1 * P = m * p2
    <2>1. p[1] \in Int /\ p[2] \in Nat \ {0} /\ p[1] * P = m * p[2]
      BY QFacts
    <2> QED BY <2>1
  <1>2. r[1] = r1 /\ r[2] = r2
    OBVIOUS
  <1>3. (p1 * r2) * P = (m * r2) * p2 /\ (r1 * p2) * P = (r1 * P) * p2
    <2>1. (p1 * r2) * P = (p1 * P) * r2 /\ (m * p2) * r2 = (m * r2) * p2
      BY Swap
    <2> QED BY <1>1, <2>1, Swap
  <1>4. p1 * r2 \in Int /\ r1 * p2 \in Int /\ m * r2 \in Int /\ r1 * P \in Int
    OBVIOUS
  <1>5. ASSUME p1 * r2 < r1 * p2 PROVE m * r2 < r1 * P
    <2>1. (p1 * r2) * P < (r1 * p2) * P
      BY <1>4, <1>5, MulStrict
    <2> QED BY <1>3, <1>4, <2>1, CancelStrict
  <1>6. ASSUME r1 * p2 < p1 * r2 PROVE r1 * P < m * r2
    <2>1. (r1 * p2) * P < (p1 * r2) * P
      BY <1>4, <1>6, MulStrict
    <2> QED BY <1>3, <1>4, <2>1, CancelStrict
  <1> QED BY <1>1, <1>2, <1>5, <1>6 DEF Lt

(* quantize_price: legal, and no legal price is nearer. *)
LEMMA QuantizedIsNearest ==
    ASSUME NEW x, Measurable(x), NEW side, NEW sz \in 0..PriceMaxDecimals,
           NEW p, p = QuantizePrice(x, side, sz)
    PROVE  NearestLegal(p, x, sz)
  <1>0. SUFFICES /\ LegalPrice(p, sz)
                 /\ \A r \in Rational : Between(r, p, x) => ~ LegalPrice(r, sz)
    <2>1. PICK unit : unit = Power(MaxPriceDecimals(sz))
      OBVIOUS
    <2>2. unit \in Int /\ unit # 0
      <3>1. MaxPriceDecimals(sz) \in Nat
        BY GridAssumption DEF MaxPriceDecimals
      <3> QED BY <2>1, <3>1, PowerFacts
    <2>3. Floor(x) \in Int /\ Ceiling(x) \in Int
      BY AdjustedFacts, RoundsAbout
    <2>4. \A c \in (Floor(x) * unit)..(Ceiling(x) * unit) : Q(c, unit) \in Rational
      <3>1. SUFFICES ASSUME NEW c \in Int PROVE Q(c, unit) \in Rational
        BY <2>2, <2>3
      <3> QED BY <2>2, QFacts
    <2> QED BY <2>1, <2>4 DEF NearestLegal
  <1>1. PICK x1 \in Nat \ {0}, x2 \in Nat \ {0} : x = <<x1, x2>>
    BY MeasurablePositive
  <1>2. x1 \in Int /\ x1 \in Nat /\ x[1] = x1 /\ x[2] = x2
    BY <1>1
  <1>3. CASE x[2] = 1
    <2>1. p = x
      BY <1>3, Zenon DEF QuantizePrice
    <2>2. ASSUME NEW r \in Rational PROVE ~ Between(r, p, x)
      <3>1. PICK r1 \in Int, r2 \in Int : r1 = r[1] /\ r2 = r[2]
        BY RationalFacts
      <3>2. r1 * x2 \in Int /\ x1 * r2 \in Int
        OBVIOUS
      <3> QED BY <1>2, <2>1, <3>1, <3>2 DEF Between, Lt, Leq
    <2> QED BY <1>3, <2>1, <2>2 DEF LegalPrice
  <1>4. CASE x[2] # 1
    <2>1. PICK pl \in Nat : /\ Keeps(pl, Adjusted(x), sz)
                            /\ p = IF side = "BUY" THEN Down(x, pl) ELSE Up(x, pl)
      BY <1>4, QuantizeKeeps
    <2>2. PICK P \in Nat \ {0} : P = Power(pl)
      BY PowerFacts
    <2>3. PICK a \in Int : a = Adjusted(x) /\ Leq(Digit(a), x)
      BY AdjustedFacts
    <2>4. PICK f, c : f = Floor(Times(x, Num(P))) /\ c = Ceiling(Times(x, Num(P)))
      OBVIOUS
    <2>5. /\ f \in Int /\ f * x2 <= x1 * P /\ x1 * P < (f + 1) * x2
          /\ c \in Int /\ (c - 1) * x2 < x1 * P /\ x1 * P <= c * x2
      BY <1>1, <1>2, <2>4, FloorParts
    <2>6. PICK m \in Int : p = Q(m, P) /\ m = IF side = "BUY" THEN f ELSE c
      <3>1. Down(x, pl) = Q(f, P) /\ Up(x, pl) = Q(c, P)
        BY <2>2, <2>4 DEF Down, Up
      <3>2. PICK m \in Int : m = IF side = "BUY" THEN f ELSE c
        BY <2>5
      <3> QED BY <2>1, <3>1, <3>2
    <2>7. x1 * P \in Nat \ {0}
      BY NonZeroProduct
    <2>8. m \in Nat /\ (m - 1) * x2 < x1 * P
      <3>1. 0 * x2 < (f + 1) * x2 /\ 0 * x2 < c * x2
        <4>1. (f + 1) * x2 \in Int /\ c * x2 \in Int /\ 0 * x2 = 0
          BY <2>5
        <4> QED BY <2>5, <2>7, <4>1
      <3>2. 0 < f + 1 /\ 0 < c
        BY <2>5, <3>1, CancelStrict
      <3>3. (f - 1) * x2 < f * x2
        BY <2>5, MulStrict
      <3>4. (f - 1) * x2 < x1 * P
        <4>1. (f - 1) * x2 \in Int /\ f * x2 \in Int
          BY <2>5
        <4> QED BY <2>5, <2>7, <3>3, <4>1
      <3> QED BY <2>5, <2>6, <3>2, <3>4
    <2>9. LegalPrice(p, sz)
      BY <1>1, <1>2, <2>1, <2>2, <2>6, <2>8, RoundedIsLegal
    <2>10. ASSUME NEW r \in Rational, Between(r, p, x), LegalPrice(r, sz) PROVE FALSE
      <3>1. PICK r1 \in Int, r2 \in Nat \ {0} : r1 = r[1] /\ r2 = r[2] /\ r = <<r1, r2>>
        <4>1. r[1] \in Int /\ r[2] \in Nat \ {0} /\ r = <<r[1], r[2]>>
          BY RationalFacts DEF Rational
        <4> QED BY <4>1
      <3>2. \/ m * r2 < r1 * P /\ r1 * x2 <= x1 * r2
            \/ r1 * P < m * r2 /\ x1 * r2 <= r1 * x2
        <4>1. /\ Lt(p, r) => m * r2 < r1 * P
              /\ Lt(r, p) => r1 * P < m * r2
          BY <2>6, <3>1, PartsCompare
        <4>2. /\ Leq(r, x) <=> r1 * x2 <= x1 * r2
              /\ Leq(x, r) <=> x1 * r2 <= r1 * x2
          BY <1>2, <3>1 DEF Leq
        <4> QED BY <2>10, <4>1, <4>2 DEF Between
      <3>3. r1 * P \in Int /\ m * r2 \in Int
        OBVIOUS
      <3>4. CASE side = "BUY"
        <4>1. m = f
          BY <2>6, <3>4
        <4>2. m * r2 < r1 * P /\ r1 * x2 <= x1 * r2
          <5>1. x1 * r2 <= r1 * x2 => m * r2 <= r1 * P
            BY <1>2, <2>5, <4>1, Chains
          <5> QED BY <3>2, <3>3, <5>1
        <4>3. CASE Power(pl) % r[2] = 0
          <5>1. PICK w \in Int : r1 * P = w * r2
            BY <2>2, <3>1, <4>3, WholeParts
          <5> QED BY <1>2, <2>5, <4>1, <4>2, <5>1, NoneBetween
        <4>4. CASE Power(pl) % r[2] # 0
          <5>1. PICK A \in Nat \ {0} : A = Power(pl + a) /\ pl + a \in Nat /\ r1 * P < A * r2
            <6>1. pl + a \in Nat /\ r[1] * Power(pl) < Power(pl + a) * r[2]
              BY <2>1, <2>3, <2>10, <4>4, FinerIsSmaller
            <6>2. Power(pl + a) \in Nat \ {0}
              BY <6>1, PowerFacts
            <6> QED BY <2>2, <3>1, <6>1, <6>2
          <5>2. A * x2 <= x1 * P
            BY <1>1, <1>2, <2>2, <2>3, <5>1, DigitParts
          <5>3. A * x2 < (f + 1) * x2
            <6>1. A * x2 \in Int /\ (f + 1) * x2 \in Int
              BY <2>5
            <6> QED BY <2>5, <2>7, <5>2, <6>1
          <5>4. A < f + 1
            BY <2>5, <5>3, CancelStrict
          <5>5. A * r2 <= m * r2
            BY <2>5, <4>1, <5>4, MulGrows
          <5>6. A * r2 \in Int
            OBVIOUS
          <5> QED BY <3>3, <4>2, <5>1, <5>5, <5>6
        <4> QED BY <4>3, <4>4
      <3>5. CASE side # "BUY"
        <4>1. m = c
          BY <2>6, <3>5
        <4>2. r1 * P < m * r2 /\ x1 * r2 <= r1 * x2
          <5>1. r1 * x2 <= x1 * r2 => r1 * P <= m * r2
            BY <1>2, <2>5, <4>1, Chains
          <5> QED BY <3>2, <3>3, <5>1
        <4>3. CASE Power(pl) % r[2] = 0
          <5>1. PICK w \in Int : r1 * P = w * r2
            BY <2>2, <3>1, <4>3, WholeParts
          <5> QED BY <1>2, <2>5, <4>1, <4>2, <5>1, NoneBetween
        <4>4. CASE Power(pl) % r[2] # 0
          <5>1. PICK A \in Nat \ {0} : A = Power(pl + a) /\ pl + a \in Nat /\ r1 * P < A * r2
            <6>1. pl + a \in Nat /\ r[1] * Power(pl) < Power(pl + a) * r[2]
              BY <2>1, <2>3, <2>10, <4>4, FinerIsSmaller
            <6>2. Power(pl + a) \in Nat \ {0}
              BY <6>1, PowerFacts
            <6> QED BY <2>2, <3>1, <6>1, <6>2
          <5>2. A * x2 <= x1 * P
            BY <1>1, <1>2, <2>2, <2>3, <5>1, DigitParts
          <5>3. A * r2 <= r1 * P
            <6>1. A \in Int
              OBVIOUS
            <6> QED BY <1>2, <4>2, <5>2, <6>1, Chains
          <5>4. A * r2 \in Int
            OBVIOUS
          <5> QED BY <3>3, <5>1, <5>3, <5>4
        <4> QED BY <4>3, <4>4
      <3> QED BY <3>4, <3>5
    <2> QED BY <2>9, <2>10
  <1> QED BY <1>3, <1>4

(* What NearestLegalIsSent says of an order and what was asked. *)
FitsGrid(q, o, rules) ==
    rules # <<>> =>
      /\ LargestFitting(o.quantity, q.quantity, rules[q.sym])
      /\ o.price # None => NearestLegal(o.price, q.entry, rules[q.sym])

LEMMA SizeOnGrid ==
    ASSUME NEW x \in Rational, NEW k \in Nat
    PROVE  OnGrid(Down(x, k), k)
  <1>1. PICK P \in Nat \ {0} : P = Power(k)
    BY PowerFacts
  <1>2. PICK x1 \in Int, x2 \in Nat \ {0} : x = <<x1, x2>>
    BY DEF Rational
  <1>3. PICK f, c : f = Floor(Times(x, Num(P))) /\ c = Ceiling(Times(x, Num(P)))
    OBVIOUS
  <1>4. f \in Int
    BY <1>2, <1>3, FloorParts
  <1>5. PICK d : d = Q(f, P)
    OBVIOUS
  <1>6. P % d[2] = 0
    BY <1>4, <1>5, QDenominator
  <1>7. Down(x, k) = d
    BY <1>1, <1>3, <1>5 DEF Down
  <1>8. k \in 0..k
    OBVIOUS
  <1> QED BY <1>1, <1>6, <1>7, <1>8 DEF OnGrid

(* Rounded down it is the largest that fits; on the grid it is that itself.*)
LEMMA RoundedDownFits ==
    ASSUME NEW x \in Rational, NEW k \in Nat
    PROVE  LargestFitting(Down(x, k), x, k)
  <1>1. PICK P \in Nat \ {0} : P = Power(k)
    BY PowerFacts
  <1>2. PICK x1 \in Int, x2 \in Nat \ {0} : x = <<x1, x2>>
    BY DEF Rational
  <1>3. PICK f, c : f = Floor(Times(x, Num(P))) /\ c = Ceiling(Times(x, Num(P)))
    OBVIOUS
  <1>4. f \in Int /\ x1 * P < (f + 1) * x2
    BY <1>2, <1>3, FloorParts
  <1>5. Down(x, k) = Q(f, P)
    BY <1>1, <1>3 DEF Down
  <1>6. ASSUME NEW n \in Int, Leq(Q(n, P), x), Lt(Down(x, k), Q(n, P)) PROVE FALSE
    <2>1. PICK r1 \in Int, r2 \in Nat \ {0} : Q(n, P) = <<r1, r2>> /\ r1 * P = n * r2
      <3>1. PICK r : r = Q(n, P)
        OBVIOUS
      <3>2. r \in Rational /\ r[1] \in Int /\ r[2] \in Nat \ {0} /\ r[1] * P = n * r[2]
        BY <3>1, QFacts
      <3>3. r = <<r[1], r[2]>>
        BY <3>2 DEF Rational
      <3> QED BY <3>1, <3>2, <3>3
    <2>2. f * r2 < r1 * P
      BY <1>4, <1>5, <1>6, <2>1, PartsCompare
    <2>3. r1 * x2 <= x1 * r2
      BY <1>2, <1>6, <2>1 DEF Leq
    <2> QED BY <1>4, <2>1, <2>2, <2>3, NoneBetween
  <1>7. \A n \in 0..(Ceiling(x) * P) : n \in Int
    OBVIOUS
  <1>8. OnGrid(Down(x, k), k)
    BY SizeOnGrid
  <1> QED BY <1>1, <1>6, <1>7, <1>8 DEF LargestFitting

LEMMA OnGridFits ==
    ASSUME NEW x \in Rational, NEW k \in Nat, OnGrid(x, k)
    PROVE  LargestFitting(x, x, k)
  <1>1. PICK P \in Nat \ {0} : P = Power(k)
    BY PowerFacts
  <1>2. ASSUME NEW n \in Int, Leq(Q(n, P), x) PROVE ~ Lt(x, Q(n, P))
    <2>1. PICK r : r = Q(n, P)
      OBVIOUS
    <2>2. PICK r1 \in Int, r2 \in Int : r1 = r[1] /\ r2 = r[2]
      BY <2>1, QFacts
    <2>3. PICK x1 \in Int, x2 \in Int : x1 = x[1] /\ x2 = x[2]
      BY RationalFacts
    <2>4. r1 * x2 <= x1 * r2
      BY <1>2, <2>1, <2>2, <2>3 DEF Leq
    <2>5. ~ (x1 * r2 < r1 * x2)
      <3>1. r1 * x2 \in Int /\ x1 * r2 \in Int
        OBVIOUS
      <3> QED BY <2>4, <3>1
    <2> QED BY <2>1, <2>2, <2>3, <2>5 DEF Lt
  <1>3. \A n \in 0..(Ceiling(x) * P) : n \in Int
    OBVIOUS
  <1> QED BY <1>1, <1>2, <1>3 DEF LargestFitting

LEMMA PlacedFits ==
    ASSUME NEW q, Sized(q),
           NEW rules, \A sym \in DOMAIN rules : rules[sym] \in 0..PriceMaxDecimals,
           NEW sent, sent = ExecutePlace(q, rules), sent.ok
    PROVE  FitsGrid(q, sent, rules)
  <1>1. PICK sz : sz = rules[q.sym]
    OBVIOUS
  <1>2. PICK quantity : quantity = IF rules = <<>> THEN q.quantity ELSE QuantizeSize(q.quantity, sz)
    OBVIOUS
  <1>3. PICK price : price = IF q.type # "LIMIT" THEN None
                             ELSE IF rules = <<>> THEN q.entry ELSE QuantizePrice(q.entry, q.side, sz)
    OBVIOUS
  <1> DEFINE refused == \/ rules # <<>> /\ q.sym \notin DOMAIN rules
                        \/ ~ Lt(Zero, quantity)
                        \/ price # None /\ ~ Lt(Zero, price)
  <1>4. sent = IF refused THEN [ok |-> FALSE]
               ELSE [ok |-> TRUE, quantity |-> quantity, price |-> price]
    BY <1>1, <1>2, <1>3, Zenon DEF ExecutePlace
  <1>5. ~ refused /\ sent.quantity = quantity /\ sent.price = price
    <2> HIDE DEF refused
    <2> QED BY <1>4
  <1>6. SUFFICES ASSUME rules # <<>>
                 PROVE  /\ LargestFitting(quantity, q.quantity, sz)
                        /\ price # None => NearestLegal(price, q.entry, sz)
    BY <1>1, <1>5 DEF FitsGrid
  <1>7. sz \in 0..PriceMaxDecimals /\ sz \in Nat
    BY <1>1, <1>5, <1>6
  <1>8. LargestFitting(quantity, q.quantity, sz)
    BY <1>2, <1>6, <1>7, RoundedDownFits DEF QuantizeSize, Sized
  <1>9. ASSUME price # None PROVE price = QuantizePrice(q.entry, q.side, sz)
    BY <1>3, <1>6, <1>9
  <1>10. Measurable(q.entry)
    BY DEF Sized
  <1> QED BY <1>7, <1>8, <1>9, <1>10, QuantizedIsNearest

LEMMA AmendedFits ==
    ASSUME NEW o, NEW price, Measurable(price),
           NEW rules, \A sym \in DOMAIN rules : rules[sym] \in 0..PriceMaxDecimals,
           o.quantity \in Rational, rules # <<>> => OnGrid(o.quantity, rules[o.sym]),
           NEW asked, asked = ExecuteAmend(o, None, price, rules), asked.ok,
           NEW q, q.sym = o.sym, q.entry = price, q.quantity = o.quantity,
           NEW sent, sent.quantity = o.quantity, sent.price = asked.price
    PROVE  FitsGrid(q, sent, rules)
  <1>1. PICK p : p = IF rules = <<>> \/ price = None THEN price
                     ELSE QuantizePrice(price, o.side, rules[o.sym])
    OBVIOUS
  <1>2. PICK quantity : quantity = IF rules = <<>> \/ None = None THEN None
                                   ELSE QuantizeSize(None, rules[o.sym])
    OBVIOUS
  <1> DEFINE refused == \/ rules # <<>> /\ o.sym \notin DOMAIN rules
                        \/ quantity # None /\ ~ Lt(Zero, quantity)
                        \/ p # None /\ ~ Lt(Zero, p)
                        \/ quantity = None /\ p = None
  <1>3. asked = IF refused THEN [ok |-> FALSE] ELSE [ok |-> TRUE, quantity |-> quantity, price |-> p]
    BY <1>1, <1>2, Zenon DEF ExecuteAmend
  <1>4. ~ refused /\ asked.price = p
    <2> HIDE DEF refused
    <2> QED BY <1>3
  <1>5. SUFFICES ASSUME rules # <<>>
                 PROVE  /\ LargestFitting(o.quantity, o.quantity, rules[o.sym])
                        /\ p # None => NearestLegal(p, price, rules[o.sym])
    BY <1>4 DEF FitsGrid
  <1>6. rules[o.sym] \in 0..PriceMaxDecimals
    BY <1>4, <1>5
  <1>7. price # None
    <2>1. PICK x1 \in Nat, x2 \in Nat : price = <<x1, x2>>
      BY MeasurablePositive
    <2> QED BY <2>1 DEF None
  <1>8. p = QuantizePrice(price, o.side, rules[o.sym])
    BY <1>1, <1>5, <1>7
  <1>9. LargestFitting(o.quantity, o.quantity, rules[o.sym])
    BY <1>5, <1>6, OnGridFits
  <1> QED BY <1>6, <1>8, <1>9, QuantizedIsNearest

(***************************************************************************)
(* Before there is an engine nothing was sent; what rests at the venue has *)
(* a quantity the venue takes, which an amendment sends again.             *)
(***************************************************************************)
Gridded(o, rules) == rules # <<>> => OnGrid(o.quantity, rules[o.sym])

GridInv ==
    /\ ~ engine.up => audit.sent = <<>>
    /\ \A n \in DOMAIN orders : orders[n].st = "live" => Gridded(orders[n], engine.rules)
    /\ NearestLegalIsSent

LEMMA GridInit == CycleInit => GridInv
  <1>1. SUFFICES ASSUME CycleInit PROVE GridInv
    OBVIOUS
  <1>2. orders = <<>> /\ audit.sent = <<>>
    BY <1>1 DEF CycleInit, NoAudit
  <1> QED BY <1>2, EmptyDomain DEF GridInv, NearestLegalIsSent

LEMMA RestKeepsGrid ==
    ASSUME GridInv, engine' = engine, audit'.sent = <<>>,
           \A n \in DOMAIN orders' : orders'[n].st = "live" =>
             n \in DOMAIN orders /\ orders'[n] = orders[n]
    PROVE  GridInv'
  <1>1. NearestLegalIsSent'
    BY EmptyDomain DEF NearestLegalIsSent
  <1>2. \A n \in DOMAIN orders' : orders'[n].st = "live" => Gridded(orders'[n], engine'.rules)
    BY DEF GridInv
  <1> QED BY <1>1, <1>2 DEF GridInv

LEMMA BootKeepsGrid ==
    ASSUME BookInv, GridInv, NEW l \in Launch, Boot(l)
    PROVE  GridInv'
  <1>1. /\ ~ engine.up /\ orders' = orders /\ audit' = audit
    BY DEF Boot
  <1>2. orders' = <<>> /\ audit'.sent = <<>>
    BY <1>1 DEF BookInv, BooksTyped, GridInv
  <1> QED BY <1>2, EmptyDomain DEF GridInv, NearestLegalIsSent

LEMMA PlaceKeepsGrid ==
    ASSUME BookInv, SentInv, GridInv, PlaceNext
    PROVE  GridInv'
  <1>1. PICK q : q = Head(todo)
    OBVIOUS
  <1>2. PICK sent : sent = ExecutePlace(q, engine.rules)
    OBVIOUS
  <1> DEFINE one == [asked |-> q, sent |-> sent]
  <1>3. /\ phase = "placing" /\ todo # <<>> /\ sent.ok
        /\ orders' = Append(orders, NewOrder(q, sent))
        /\ audit' = [NoAudit EXCEPT !.sent = <<one>>]
        /\ engine' = engine
    BY <1>1, <1>2, Zenon DEF PlaceNext
  <1>4. engine.up /\ Listed(todo) /\ Listed(orders)
    BY <1>3 DEF BookInv, BooksTyped
  <1>5. 1 \in DOMAIN todo /\ q = todo[1]
    BY <1>1, <1>3, <1>4, ListTail, ListFacts
  <1>6. Sized(q) /\ Numeric(engine)
    BY <1>4, <1>5 DEF SentInv
  <1>7. FitsGrid(q, sent, engine.rules)
    <2>1. \A sym \in DOMAIN engine.rules : engine.rules[sym] \in 0..PriceMaxDecimals
      BY <1>6 DEF Numeric
    <2> QED BY <1>2, <1>3, <1>6, <2>1, PlacedFits
  <1>8. NearestLegalIsSent'
    <2>1. one.asked = q /\ one.sent = sent
      OBVIOUS
    <2> HIDE DEF one
    <2>2. audit'.sent = <<one>>
      BY <1>3 DEF NoAudit
    <2>3. DOMAIN <<one>> = {1} /\ <<one>>[1] = one
      OBVIOUS
    <2>4. \A k \in DOMAIN audit'.sent : audit'.sent[k].asked = q /\ audit'.sent[k].sent = sent
      BY <2>1, <2>2, <2>3
    <2> QED BY <1>3, <1>7, <2>4 DEF NearestLegalIsSent, FitsGrid
  <1>9. \A n \in DOMAIN orders' : orders'[n].st = "live" => Gridded(orders'[n], engine'.rules)
    <2>1. PICK new : new = NewOrder(q, sent)
      OBVIOUS
    <2>2. Gridded(new, engine.rules)
      <3>1. new.quantity = sent.quantity /\ new.sym = q.sym
        BY <2>1 DEF NewOrder
      <3> QED BY <1>7, <3>1 DEF FitsGrid, Gridded, LargestFitting
    <2>3. /\ Listed(orders') /\ Len(orders') = Len(orders) + 1
          /\ \A n \in 1..Len(orders) : orders'[n] = orders[n]
          /\ orders'[Len(orders) + 1] = new
      BY <1>3, <1>4, <2>1, ListAppend
    <2>4. Len(orders) \in Nat /\ DOMAIN orders = 1..Len(orders) /\ DOMAIN orders' = 1..(Len(orders) + 1)
      BY <1>4, <2>3, ListFacts
    <2> QED BY <1>3, <2>2, <2>3, <2>4 DEF GridInv
  <1> QED BY <1>3, <1>4, <1>8, <1>9 DEF GridInv

LEMMA AmendKeepsGrid ==
    ASSUME BookInv, SentInv, GridInv,
           NEW n \in DOMAIN orders, NEW price \in NewPrice, Amend(n, price)
    PROVE  GridInv'
  <1>1. PICK o : o = orders[n]
    OBVIOUS
  <1>2. PICK asked : asked = ExecuteAmend(o, None, price, engine.rules)
    OBVIOUS
  <1> DEFINE q == [sym |-> o.sym, side |-> o.side, quantity |-> o.quantity, entry |-> price]
             sent == [ok |-> TRUE, quantity |-> o.quantity, price |-> asked.price]
             one == [asked |-> q, sent |-> sent]
  <1>3. /\ engine.up /\ o.st = "live" /\ asked.ok
        /\ orders' = [orders EXCEPT ![n].price = asked.price]
        /\ audit' = [NoAudit EXCEPT !.sent = <<one>>]
        /\ engine' = engine
    BY <1>1, <1>2, Zenon DEF Amend
  <1>4. /\ Numeric(engine) /\ Gridded(o, engine.rules) /\ Measurable(price)
        /\ o.quantity \in Rational
    BY <1>1, <1>3, CycleAssumption DEF SentInv, GridInv, Sellable
  <1>5. /\ q.sym = o.sym /\ q.entry = price /\ q.quantity = o.quantity
        /\ sent.quantity = o.quantity /\ sent.price = asked.price
    OBVIOUS
  <1> HIDE DEF q, sent
  <1>6. FitsGrid(q, sent, engine.rules)
    <2>1. /\ \A sym \in DOMAIN engine.rules : engine.rules[sym] \in 0..PriceMaxDecimals
          /\ engine.rules # <<>> => OnGrid(o.quantity, engine.rules[o.sym])
      BY <1>4 DEF Numeric, Gridded
    <2> QED BY <1>2, <1>3, <1>4, <1>5, <2>1, AmendedFits
  <1>7. NearestLegalIsSent'
    <2>1. one.asked = q /\ one.sent = sent
      OBVIOUS
    <2> HIDE DEF one
    <2>2. audit'.sent = <<one>>
      BY <1>3 DEF NoAudit
    <2>3. DOMAIN <<one>> = {1} /\ <<one>>[1] = one
      OBVIOUS
    <2>4. \A k \in DOMAIN audit'.sent : audit'.sent[k].asked = q /\ audit'.sent[k].sent = sent
      BY <2>1, <2>2, <2>3
    <2> QED BY <1>3, <1>6, <2>4 DEF NearestLegalIsSent, FitsGrid
  <1>8. \A m \in DOMAIN orders' : orders'[m].st = "live" => Gridded(orders'[m], engine'.rules)
    <2>1. \A m \in DOMAIN orders : OrderFields \subseteq DOMAIN orders[m]
      BY DEF BookInv, BooksTyped
    <2>2. /\ DOMAIN orders' = DOMAIN orders
          /\ \A m \in DOMAIN orders : /\ orders'[m].st = orders[m].st
                                      /\ orders'[m].quantity = orders[m].quantity
                                      /\ orders'[m].sym = orders[m].sym
      BY <1>3, <2>1 DEF OrderFields
    <2> QED BY <1>3, <2>2 DEF GridInv, Gridded
  <1> QED BY <1>3, <1>7, <1>8 DEF GridInv

LEMMA DecideSendsNothing ==
    ASSUME NEW live, NEW market, NEW others, NEW exec, Decide(live, market, others, exec)
    PROVE  engine' = engine /\ orders' = orders /\ audit'.sent = <<>>
  <1>1. PICK p : p = Evaluated(specs, live, lastAt, Range(engine.universe), now)
    OBVIOUS
  <1>2. engine' = engine /\ orders' = orders
    BY Zenon DEF Decide
  <1>3. \E v : audit' = [NoAudit EXCEPT !.at = now, !.live = live, !.raised = p.raised,
                                        !.verdicts = v]
    BY <1>1, Zenon DEF Decide
  <1>4. audit'.sent = <<>>
    BY <1>3 DEF NoAudit
  <1> QED BY <1>2, <1>4

LEMMA GridNext == BookInv /\ SentInv /\ GridInv /\ [CycleNext]_cycleVars => GridInv'
  <1>1. SUFFICES ASSUME BookInv, SentInv, GridInv, [CycleNext]_cycleVars PROVE GridInv'
    OBVIOUS
  <1>2. CASE \E l \in Launch : Boot(l)
    BY <1>1, <1>2, BootKeepsGrid
  <1>3. CASE \E live \in SUBSET DOMAIN specs, market \in Market, others \in OtherIntents,
               exec \in ExecState : Decide(live, market, others, exec)
    <2>1. PICK live \in SUBSET DOMAIN specs, market \in Market, others \in OtherIntents,
               exec \in ExecState : Decide(live, market, others, exec)
      BY <1>3
    <2>2. engine' = engine /\ orders' = orders /\ audit'.sent = <<>>
      BY <2>1, DecideSendsNothing
    <2> QED BY <1>1, <2>2, RestKeepsGrid
  <1>4. CASE BeginCycle \/ EndCycle
    BY <1>1, <1>4, SyncEnds, RestKeepsGrid
  <1>5. CASE PlaceNext
    BY <1>1, <1>5, PlaceKeepsGrid
  <1>6. CASE \E n \in DOMAIN orders, price \in NewPrice : Amend(n, price)
    BY <1>1, <1>6, AmendKeepsGrid
  <1>7. CASE \E n \in DOMAIN orders : VenueFills(n) \/ VenueCancels(n)
    BY <1>1, <1>7, VenueEnds, RestKeepsGrid
  <1>8. CASE AbortCycle \/ Tick
    <2>1. engine' = engine /\ audit'.sent = <<>> /\ orders' = orders
      BY <1>8 DEF AbortCycle, Tick, NoAudit
    <2> QED BY <1>1, <2>1, RestKeepsGrid
  <1>9. CASE UNCHANGED cycleVars
    BY <1>1, <1>9 DEF cycleVars, GridInv, NearestLegalIsSent
  <1> QED BY <1>1, <1>2, <1>3, <1>4, <1>5, <1>6, <1>7, <1>8, <1>9 DEF CycleNext

(* Whatever a symbol's size decimals, the venue's decimals and significant *)
(* figures are, and also where rounding up carries into the next digit,    *)
(* what execute_place and execute_amend send is a quantity and a price the *)
(* venue takes, and no other such quantity or price lies between it and    *)
(* what was asked (quantize_size, quantize_price).                         *)
THEOREM NearestLegalGoesOut == CycleSpec => []NearestLegalIsSent
  <1>1. GridInv => NearestLegalIsSent
    BY DEF GridInv
  <1> QED BY <1>1, BookInit, BookNext, TurnInit, TurnNext, SentInit, SentNext, GridInit, GridNext, PTL
          DEF CycleSpec

(* So what is sent is the best legal order: the venue's grid costs as      *)
(* little as it can, in quantity and in price.                             *)
THEOREM BestLegalGoesOut == CycleSpec => []BestLegalIsSent
  <1>1. NothingWorseIsSent /\ NearestLegalIsSent => BestLegalIsSent
    BY DEF BestLegalIsSent
  <1> QED BY <1>1, NothingWorseGoesOut, NearestLegalGoesOut, PTL
=============================================================================
