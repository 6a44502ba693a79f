--------------------------- MODULE EventStoreProofs ---------------------------
(***************************************************************************)
(* Proofs about the event store, for any processes, keys and events: as    *)
(* long as no process has two appends fail in a row, the file can always   *)
(* be opened, what append() returned is durable, and the store implements  *)
(* the log of module EventLog.  (With two failures in a row none of this   *)
(* holds: run EventStoreRetry.)                                            *)
(***************************************************************************)
EXTENDS EventStore, SequenceTheorems, TLAPS

AnyCell == [id : Nat, key : Key \cup {NoKey}, part : 0..4]

(* The shape of the file and of what the processes keep. *)
Typed ==
    /\ file \in Seq(AnyCell) /\ synced \in Nat
    /\ lock \in Proc \cup {NoProc}
    /\ st \in [Proc -> {"closed", "open", "writing"}]
    /\ mem \in [Proc -> Seq(Event)]
    /\ pos \in [Proc -> Nat] /\ pre \in [Proc -> Nat]
    /\ wrote \in [Proc -> 0..3]
    /\ cur \in [Proc -> Event \cup {NoEvent}]
    /\ failures \in [Proc -> Nat]

(* A history as EventLog allows it. *)
LogOk(log) ==
    /\ log \in Seq(Event)
    /\ \A i \in 1..Len(log) : log[i].id = i
    /\ \A i, j \in 1..Len(log) : log[i].key = log[j].key /\ log[i].key # NoKey => i = j

(* The file begins with the records of log. *)
Holds(f, log) ==
    /\ 3 * Len(log) <= Len(f)
    /\ \A i \in 1..Len(log) : /\ f[3 * i - 2] = Cell(log[i], Header)
                              /\ f[3 * i - 1] = Cell(log[i], Payload)
                              /\ f[3 * i] = Cell(log[i], Checksum)

(* What follows them is nothing, or less than one more record. *)
Rested(f, log) ==
    /\ Holds(f, log)
    /\ Len(f) <= 3 * Len(log) + 3
    /\ Len(f) > 3 * Len(log) => f[3 * Len(log) + 1].part = Header
    /\ Len(f) = 3 * Len(log) + 3 => f[3 * Len(log) + 3].part # Checksum

(* What follows them are the first k cells of the record of e. *)
Follows(f, log, e, k) ==
    /\ Len(f) = 3 * Len(log) + k
    /\ \A j \in 1..k : f[3 * Len(log) + j] = Cell(e, j)

Members(log) == {log[i] : i \in 1..Len(log)}

-----------------------------------------------------------------------------
(* The inductive invariant *)

(* The process that has the store open is the one that holds the lock. *)
OneWriter == \A p \in Proc : st[p] # "closed" <=> lock = p

(* Nobody has the store open: the file rests. *)
AtRest ==
    lock = NoProc =>
        /\ synced = Len(file)
        /\ LogOk(Recovered(file)) /\ Rested(file, Recovered(file))
        /\ acked \subseteq Members(Recovered(file))

Written(p) == IF st[p] = "writing" THEN wrote[p] ELSE 0

(* p has the store open: what it has in memory is what was synced, and the *)
(* event it is appending is the next of the log.                           *)
InUse(p) ==
    /\ LogOk(mem[p]) /\ Holds(file, mem[p]) /\ Follows(file, mem[p], cur[p], Written(p))
    /\ synced = 3 * Len(mem[p])
    /\ acked \subseteq Members(mem[p])
    /\ st[p] = "writing" => /\ cur[p] \in Event /\ cur[p].id = Len(mem[p]) + 1
                            /\ ~ Spent(cur[p].key, mem[p])
                            /\ wrote[p] > 0 => pos[p] = Len(file)
    /\ failures[p] = 0 => /\ st[p] = "open" => pos[p] = 3 * Len(mem[p])
                          /\ st[p] = "writing" => pre[p] = 3 * Len(mem[p])

StoreInv ==
    /\ Typed
    /\ OneWriter
    /\ AtRest
    /\ \A p \in Proc : lock = p => InUse(p)

-----------------------------------------------------------------------------
(* The recovery scan *)

(* The scan of a file at rest finds the log it holds. *)
LEMMA Scan ==
    ASSUME NEW f \in Seq(AnyCell), NEW log, LogOk(log), Rested(f, log)
    PROVE  NumOk(f) = Len(log) /\ Recovered(f) = log /\ ScanStatus(f) # "corrupt"
  <1> DEFINE n == Len(log)
  <1>1. /\ log \in Seq(Event) /\ n \in Nat /\ Len(f) \in Nat
        /\ 3 * n <= Len(f) /\ Len(f) <= 3 * n + 3
    BY DEF LogOk, Rested, Holds
  <1>2. ASSUME NEW i \in 1..n PROVE RecordOk(f, i) /\ EventAt(f, i) = log[i]
    <2>1. /\ f[3 * i - 2] = Cell(log[i], Header) /\ f[3 * i - 1] = Cell(log[i], Payload)
          /\ f[3 * i] = Cell(log[i], Checksum) /\ 3 * i <= Len(f)
      BY <1>1 DEF Rested, Holds
    <2>2. log[i] \in Event
      BY <1>1
    <2> QED BY <2>1, <2>2 DEF RecordOk, EventAt, Cell, Event
  <1>3. ~ RecordOk(f, n + 1)
    <2> SUFFICES ASSUME RecordOk(f, n + 1) PROVE FALSE
      OBVIOUS
    <2>1. Len(f) = 3 * n + 3 /\ 3 * (n + 1) = 3 * n + 3
      BY <1>1 DEF RecordOk
    <2>2. f[3 * n + 3].part = Checksum
      BY <2>1 DEF RecordOk, Cell
    <2> QED BY <2>1, <2>2 DEF Rested
  <1>4. ASSUME NEW m \in Nat, \A i \in 1..m : RecordOk(f, i), ~ RecordOk(f, m + 1)
        PROVE  m = n
    <2>1. ~ m < n
      BY <1>1, <1>2, <1>4
    <2>2. ~ n < m
      BY <1>1, <1>3, <1>4
    <2> QED BY <1>1, <2>1, <2>2
  <1>5. NumOk(f) = n
    <2>1. n \in 0..Len(f)
      BY <1>1
    <2>2. (\A i \in 1..n : RecordOk(f, i)) /\ ~ RecordOk(f, n + 1)
      BY <1>2, <1>3
    <2>3. /\ NumOk(f) \in 0..Len(f) /\ \A i \in 1..NumOk(f) : RecordOk(f, i)
          /\ ~ RecordOk(f, NumOk(f) + 1)
      BY <2>1, <2>2 DEF NumOk
    <2> QED BY <1>1, <1>4, <2>3
  <1>6. Recovered(f) = log
    <2>1. Recovered(f) = [i \in 1..n |-> log[i]]
      BY <1>2, <1>5 DEF Recovered
    <2>2. log \in [1..n -> Event]
      BY <1>1, LenProperties
    <2> QED BY <2>1, <2>2
  <1>7. ScanStatus(f) # "corrupt"
    <2>1. Monotonic(f)
      <3>1. ASSUME NEW i \in 1..n - 1 PROVE EventAt(f, i).id < EventAt(f, i + 1).id
        <4>1. i \in 1..n /\ i + 1 \in 1..n
          BY <1>1
        <4>2. EventAt(f, i).id = i /\ EventAt(f, i + 1).id = i + 1
          BY <1>2, <4>1 DEF LogOk
        <4> QED BY <4>1, <4>2
      <3> QED BY <1>5, <3>1 DEF Monotonic
    <2>2. Len(f) - RecordLen * n <= RecordLen
      BY <1>1 DEF RecordLen
    <2>3. Len(f) - RecordLen * n # 0 => f[RecordLen * n + 1].part = Header
      BY <1>1 DEF RecordLen, Rested
    <2> QED BY <1>5, <2>1, <2>2, <2>3 DEF ScanStatus
  <1> QED BY <1>5, <1>6, <1>7

(* One more event in a history. *)
LEMMA LogGrows ==
    ASSUME NEW log, LogOk(log), NEW e \in Event, e.id = Len(log) + 1, ~ Spent(e.key, log)
    PROVE  /\ LogOk(Append(log, e)) /\ Len(Append(log, e)) = Len(log) + 1
           /\ \A i \in 1..Len(log) : Append(log, e)[i] = log[i]
           /\ Append(log, e)[Len(log) + 1] = e
           /\ Members(Append(log, e)) = Members(log) \cup {e}
  <1> DEFINE n == Len(log)
             new == Append(log, e)
  <1>1. log \in Seq(Event) /\ n \in Nat
    BY DEF LogOk
  <1>2. /\ new \in Seq(Event) /\ Len(new) = n + 1 /\ new[n + 1] = e
        /\ \A i \in 1..n : new[i] = log[i]
    BY <1>1
  <1> HIDE DEF new
  <1>3. \A i \in 1..n : log[i].key = e.key => e.key = NoKey
    BY DEF Spent, KeysOf
  <1>4. LogOk(new)
    <2>1. \A i \in 1..Len(new) : new[i].id = i
      BY <1>1, <1>2 DEF LogOk
    <2>2. \A i, j \in 1..Len(new) : new[i].key = new[j].key /\ new[i].key # NoKey => i = j
      BY <1>1, <1>2, <1>3 DEF LogOk
    <2> QED BY <1>2, <2>1, <2>2 DEF LogOk
  <1>5. Members(new) = Members(log) \cup {e}
    <2>1. 1..n + 1 = (1..n) \cup {n + 1}
      BY <1>1
    <2> QED BY <1>2, <2>1 DEF Members
  <1> QED BY <1>1, <1>2, <1>4, <1>5 DEF new

(* A file with a whole record more holds one event more. *)
LEMMA HoldsMore ==
    ASSUME NEW f \in Seq(AnyCell), NEW log, LogOk(log), Holds(f, log), NEW e \in Event,
           e.id = Len(log) + 1, ~ Spent(e.key, log), Follows(f, log, e, 3)
    PROVE  Holds(f, Append(log, e)) /\ Len(f) = 3 * Len(Append(log, e))
  <1> DEFINE n == Len(log)
             new == Append(log, e)
  <1>1. /\ n \in Nat /\ Len(new) = n + 1 /\ new[n + 1] = e /\ \A i \in 1..n : new[i] = log[i]
    BY LogGrows DEF LogOk
  <1> HIDE DEF new
  <1>2. Len(f) = 3 * n + 3 /\ \A j \in 1..3 : f[3 * n + j] = Cell(e, j)
    BY DEF Follows
  <1>3. Len(f) = 3 * Len(new)
    BY <1>1, <1>2
  <1>4. ASSUME NEW i \in 1..Len(new)
        PROVE  /\ f[3 * i - 2] = Cell(new[i], Header) /\ f[3 * i - 1] = Cell(new[i], Payload)
               /\ f[3 * i] = Cell(new[i], Checksum)
    <2>1. CASE i \in 1..n
      BY <1>1, <2>1 DEF Holds
    <2>2. CASE i = n + 1
      <3>1. 3 * i - 2 = 3 * n + 1 /\ 3 * i - 1 = 3 * n + 2 /\ 3 * i = 3 * n + 3
        BY <1>1, <2>2
      <3> QED BY <1>1, <1>2, <2>2, <3>1 DEF Header, Payload, Checksum
    <2> QED BY <1>1, <2>1, <2>2
  <1>5. Holds(f, new)
    BY <1>1, <1>3, <1>4 DEF Holds
  <1> QED BY <1>3, <1>5 DEF new

(* Only the records matter: what holds of a file holds of another that     *)
(* has the same cells up to there.                                         *)
LEMMA HoldsAlso ==
    ASSUME NEW f \in Seq(AnyCell), NEW g \in Seq(AnyCell), NEW log, LogOk(log), Holds(f, log),
           3 * Len(log) <= Len(g), \A i \in 1..3 * Len(log) : g[i] = f[i]
    PROVE  Holds(g, log)
  <1>1. Len(log) \in Nat
    BY DEF LogOk
  <1>2. ASSUME NEW i \in 1..Len(log)
        PROVE  /\ 3 * i - 2 \in 1..3 * Len(log) /\ 3 * i - 1 \in 1..3 * Len(log)
               /\ 3 * i \in 1..3 * Len(log)
    BY <1>1
  <1> QED BY <1>2 DEF Holds

(* The first cells of a file. *)
LEMMA Front ==
    ASSUME NEW f \in Seq(AnyCell), NEW n \in 0..Len(f)
    PROVE  /\ SubSeq(f, 1, n) \in Seq(AnyCell) /\ Len(SubSeq(f, 1, n)) = n
           /\ \A i \in 1..n : SubSeq(f, 1, n)[i] = f[i]
  OBVIOUS

(* A file of whole records rests. *)
LEMMA WholeRests ==
    ASSUME NEW f \in Seq(AnyCell), NEW log, LogOk(log), Holds(f, log), Len(f) = 3 * Len(log)
    PROVE  Rested(f, log)
  <1>1. Len(log) \in Nat
    BY DEF LogOk
  <1> QED BY <1>1 DEF Rested

(* So does one with the beginning of one more. *)
LEMMA PartRests ==
    ASSUME NEW f \in Seq(AnyCell), NEW log, LogOk(log), Holds(f, log), NEW e, NEW k \in 0..2,
           Follows(f, log, e, k)
    PROVE  Rested(f, log)
  <1>1. Len(log) \in Nat /\ Len(f) = 3 * Len(log) + k
    BY DEF LogOk, Follows
  <1>2. Len(f) > 3 * Len(log) => f[3 * Len(log) + 1].part = Header
    <2> SUFFICES ASSUME Len(f) > 3 * Len(log) PROVE f[3 * Len(log) + 1].part = Header
      OBVIOUS
    <2>1. 1 \in 1..k
      BY <1>1
    <2>2. f[3 * Len(log) + 1] = Cell(e, 1)
      BY <2>1 DEF Follows
    <2> QED BY <2>2 DEF Cell, Header
  <1> QED BY <1>1, <1>2 DEF Rested

(* The history of the store: in memory while somebody has it open. *)
TheLog == IF lock = NoProc THEN Recovered(file) ELSE mem[lock]

(* It is what a recovery would find of the part that is durable. *)
DurableIsLog == Durable = TheLog

(* The invariant says what is on disk. *)
LEMMA DiskIsLog == StoreInv => DurableIsLog /\ AlwaysReadable /\ LogOk(TheLog)
                                /\ acked \subseteq Members(TheLog)
  <1> SUFFICES ASSUME StoreInv
               PROVE  DurableIsLog /\ AlwaysReadable /\ LogOk(TheLog)
                      /\ acked \subseteq Members(TheLog)
    OBVIOUS
  <1>0. file \in Seq(AnyCell) /\ Len(file) \in Nat
    BY DEF StoreInv, Typed
  <1>1. CASE lock = NoProc
    <2>1. /\ synced = Len(file) /\ LogOk(Recovered(file)) /\ Rested(file, Recovered(file))
          /\ acked \subseteq Members(Recovered(file)) /\ TheLog = Recovered(file)
      BY <1>1 DEF StoreInv, AtRest, TheLog
    <2>2. SubSeq(file, 1, synced) = file
      BY <1>0, <2>1, SubSeqFull
    <2>3. ScanStatus(file) # "corrupt"
      BY <1>0, <2>1, Scan
    <2> QED BY <2>1, <2>2, <2>3 DEF DurableIsLog, Durable, AlwaysReadable
  <1>2. ASSUME NEW p \in Proc, lock = p
        PROVE  DurableIsLog /\ AlwaysReadable /\ LogOk(TheLog) /\ acked \subseteq Members(TheLog)
    <2> DEFINE log == mem[p]
    <2>1. /\ LogOk(log) /\ Holds(file, log) /\ Follows(file, log, cur[p], Written(p))
          /\ synced = 3 * Len(log) /\ acked \subseteq Members(log) /\ TheLog = log
      BY <1>2, ConstAssumption DEF StoreInv, InUse, TheLog
    <2>2. Len(log) \in Nat /\ 3 * Len(log) \in 0..Len(file) /\ Written(p) \in 0..3
      <3>1. Len(log) \in Nat
        BY <2>1 DEF LogOk
      <3>2. wrote[p] \in 0..3
        BY DEF StoreInv, Typed
      <3> QED BY <1>0, <2>1, <3>1, <3>2 DEF Holds, Written
    <2> DEFINE f == SubSeq(file, 1, synced)
    <2>3. /\ f \in Seq(AnyCell) /\ Len(f) = 3 * Len(log)
          /\ \A i \in 1..3 * Len(log) : f[i] = file[i]
      BY <1>0, <2>1, <2>2, Front
    <2> HIDE DEF f
    <2>4. Holds(f, log)
      BY <1>0, <2>1, <2>2, <2>3, HoldsAlso
    <2>5. Recovered(f) = log
      BY <2>1, <2>3, <2>4, WholeRests, Scan
    <2>6. ScanStatus(file) # "corrupt"
      <3>1. CASE Written(p) \in 0..2
        BY <1>0, <2>1, <3>1, PartRests, Scan
      <3>2. CASE Written(p) = 3
        <4>1. st[p] = "writing"
          BY <3>2 DEF Written
        <4>2. cur[p] \in Event /\ cur[p].id = Len(log) + 1 /\ ~ Spent(cur[p].key, log)
          BY <1>2, <4>1 DEF StoreInv, InUse
        <4>3. Holds(file, Append(log, cur[p])) /\ Len(file) = 3 * Len(Append(log, cur[p]))
          BY <1>0, <2>1, <3>2, <4>2, HoldsMore
        <4>4. LogOk(Append(log, cur[p]))
          BY <2>1, <4>2, LogGrows
        <4> QED BY <1>0, <4>3, <4>4, WholeRests, Scan
      <3> QED BY <2>2, <3>1, <3>2
    <2> QED BY <2>1, <2>5, <2>6 DEF DurableIsLog, Durable, AlwaysReadable, f
  <1>3. lock \in Proc \cup {NoProc}
    BY DEF StoreInv, Typed
  <1> QED BY <1>1, <1>2, <1>3

-----------------------------------------------------------------------------
(* What a step does to the history: nothing, or one event more. *)
LogStep ==
    \/ TheLog' = TheLog
    \/ \E key \in Key \cup {NoKey} :
          ~ Spent(key, TheLog) /\ TheLog' = Append(TheLog, [id |-> Len(TheLog) + 1, key |-> key])

(* A step of the process that has the store open. *)
LEMMA HeldStep ==
    ASSUME StoreInv, NEW p \in Proc, Typed', OneWriter', lock' = p, InUse(p)'
    PROVE  StoreInv'
  BY ConstAssumption DEF StoreInv, AtRest

(* What is known of the process that has it open. *)
LEMMA Held ==
    ASSUME StoreInv, NEW p \in Proc, st[p] # "closed"
    PROVE  /\ lock = p /\ InUse(p) /\ TheLog = mem[p] /\ Len(mem[p]) \in Nat
           /\ file \in Seq(AnyCell) /\ Len(file) \in Nat /\ mem[p] \in Seq(Event)
           /\ wrote[p] \in 0..3 /\ LogOk(mem[p])
  <1>1. lock = p /\ InUse(p) /\ wrote[p] \in 0..3 /\ file \in Seq(AnyCell) /\ mem[p] \in Seq(Event)
    BY DEF StoreInv, OneWriter, Typed
  <1> QED BY <1>1, ConstAssumption DEF TheLog, InUse

(* close and a crash: the lock goes, the file rests. *)
LEMMA ReleaseStep ==
    ASSUME StoreInv, NEW p \in Proc, st[p] # "closed", Forget(p), file' \in Seq(AnyCell),
           synced' = Len(file'), NEW log, LogOk(log), Rested(file', log),
           acked \subseteq Members(log)
    PROVE  StoreInv' /\ TheLog' = log
  <1>1. lock = p
    BY Held
  <1>2. /\ lock' = NoProc /\ UNCHANGED acked /\ st' = [st EXCEPT ![p] = "closed"]
    BY DEF Forget
  <1>3. Typed'
    <2>1. << >> \in Seq(Event) /\ 0 \in Nat /\ 0 \in 0..3 /\ Len(file') \in Nat
      OBVIOUS
    <2>2. /\ st' \in [Proc -> {"closed", "open", "writing"}] /\ mem' \in [Proc -> Seq(Event)]
          /\ pos' \in [Proc -> Nat] /\ pre' \in [Proc -> Nat] /\ wrote' \in [Proc -> 0..3]
          /\ failures' \in [Proc -> Nat]
      BY <2>1 DEF StoreInv, Typed, Forget
    <2>3. cur' \in [Proc -> Event \cup {NoEvent}]
      BY DEF StoreInv, Typed, Forget
    <2> QED BY <1>2, <2>1, <2>2, <2>3 DEF Typed
  <1>4. OneWriter'
    BY <1>1, <1>2, ConstAssumption DEF StoreInv, Typed, OneWriter
  <1>5. Recovered(file') = log
    BY Scan
  <1>6. AtRest' /\ TheLog' = log
    BY <1>2, <1>5 DEF AtRest, TheLog
  <1>7. \A q \in Proc : lock' # q
    BY <1>2, ConstAssumption
  <1> QED BY <1>3, <1>4, <1>6, <1>7 DEF StoreInv

(* Opening cuts a torn tail off and loses nothing of the history. *)
LEMMA OpenKeeps ==
    ASSUME StoreInv, NEW p \in Proc, Open(p)
    PROVE  StoreInv' /\ LogStep
  <1> DEFINE log == Recovered(file)
             kept == SubSeq(file, 1, RecordLen * NumOk(file))
  <1>1. /\ lock = NoProc /\ lock' = p /\ file' = kept /\ synced' = Len(kept)
        /\ st' = [st EXCEPT ![p] = "open"] /\ mem' = [mem EXCEPT ![p] = log]
        /\ pos' = [pos EXCEPT ![p] = Len(kept)] /\ failures' = [failures EXCEPT ![p] = 0]
        /\ UNCHANGED <<pre, wrote, cur, acked>>
    BY DEF Open, LockFree
  <1>2. /\ file \in Seq(AnyCell) /\ Len(file) \in Nat /\ LogOk(log) /\ Rested(file, log)
        /\ acked \subseteq Members(log) /\ TheLog = log
    BY <1>1 DEF StoreInv, Typed, AtRest, TheLog
  <1>3. NumOk(file) = Len(log) /\ Len(log) \in Nat /\ log \in Seq(Event)
    BY <1>2, Scan DEF LogOk
  <1>4. Holds(file, log) /\ RecordLen * NumOk(file) \in 0..Len(file)
        /\ RecordLen * NumOk(file) = 3 * Len(log)
    <2>1. Holds(file, log) /\ 3 * Len(log) <= Len(file)
      BY <1>2 DEF Rested, Holds
    <2>2. RecordLen * NumOk(file) = 3 * Len(log)
      BY <1>3 DEF RecordLen
    <2>3. 3 * Len(log) \in 0..Len(file)
      BY <1>2, <1>3, <2>1
    <2> QED BY <2>1, <2>2, <2>3
  <1>5. /\ kept \in Seq(AnyCell) /\ Len(kept) = 3 * Len(log) /\ Len(kept) \in Nat
        /\ \A i \in 1..3 * Len(log) : kept[i] = file[i]
    BY <1>2, <1>3, <1>4, Front
  <1> HIDE DEF kept, log
  <1>6. Holds(kept, log)
    <2>1. 3 * Len(log) <= Len(kept)
      BY <1>3, <1>5
    <2> QED BY <1>2, <1>4, <1>5, <2>1, HoldsAlso
  <1>7. Typed'
    <2>1. /\ st' \in [Proc -> {"closed", "open", "writing"}] /\ mem' \in [Proc -> Seq(Event)]
          /\ pos' \in [Proc -> Nat] /\ failures' \in [Proc -> Nat]
      BY <1>1, <1>3, <1>5 DEF StoreInv, Typed
    <2> QED BY <1>1, <1>5, <2>1 DEF StoreInv, Typed
  <1>8. OneWriter'
    BY <1>1, ConstAssumption DEF StoreInv, Typed, OneWriter
  <1>9. st'[p] = "open" /\ mem'[p] = log /\ pos'[p] = 3 * Len(log)
    BY <1>1, <1>5 DEF StoreInv, Typed
  <1>10. InUse(p)'
    <2>1. Written(p)' = 0
      BY <1>9 DEF Written
    <2>2. Follows(file', log, cur'[p], 0)
      BY <1>1, <1>3, <1>5 DEF Follows
    <2> QED BY <1>1, <1>2, <1>5, <1>6, <1>9, <2>1, <2>2 DEF InUse
  <1>11. TheLog' = TheLog
    BY <1>1, <1>2, <1>9, ConstAssumption DEF TheLog
  <1> QED BY <1>1, <1>7, <1>8, <1>10, <1>11, HeldStep DEF LogStep

(* A key that was spent returns the old event. *)
LEMMA AppendKnownKeeps ==
    ASSUME StoreInv, NEW p \in Proc, NEW key \in Key, AppendKnown(p, key)
    PROVE  StoreInv' /\ LogStep
  <1>1. /\ st[p] = "open" /\ UNCHANGED <<disk, lock, session>>
        /\ acked' = acked \cup {mem[p][i] : i \in {j \in 1..Len(mem[p]) : mem[p][j].key = key}}
    BY DEF AppendKnown
  <1>2. lock = p /\ InUse(p) /\ TheLog = mem[p]
    BY <1>1, Held
  <1>3. acked' \subseteq Members(mem[p])
    BY <1>1, <1>2 DEF InUse, Members
  <1>4. InUse(p)'
    BY <1>1, <1>2, <1>3 DEF InUse, Written, disk, session
  <1>5. Typed' /\ OneWriter' /\ TheLog' = TheLog /\ lock' = p
    BY <1>1, <1>2 DEF StoreInv, Typed, OneWriter, TheLog, disk, session
  <1> QED BY <1>4, <1>5, HeldStep DEF LogStep

(* The next event is prepared. *)
LEMMA BeginAppendKeeps ==
    ASSUME StoreInv, NEW p \in Proc, NEW key \in Key \cup {NoKey}, BeginAppend(p, key)
    PROVE  StoreInv' /\ LogStep
  <1> DEFINE log == mem[p]
             e == [id |-> NextId(log), key |-> key]
  <1>1. /\ st[p] = "open" /\ ~ Spent(key, log) /\ cur' = [cur EXCEPT ![p] = e]
        /\ pre' = [pre EXCEPT ![p] = pos[p]] /\ wrote' = [wrote EXCEPT ![p] = 0]
        /\ st' = [st EXCEPT ![p] = "writing"]
        /\ UNCHANGED <<file, synced, lock, mem, pos, failures, acked>>
    BY DEF BeginAppend, disk
  <1>2. lock = p /\ InUse(p) /\ TheLog = log /\ log \in Seq(Event) /\ Len(log) \in Nat /\ LogOk(log)
    BY <1>1, Held
  <1>3. NextId(log) = Len(log) + 1
    <2>1. CASE log = << >>
      BY <2>1 DEF NextId
    <2>2. CASE log # << >>
      <3>1. Len(log) \in 1..Len(log)
        BY <1>2, <2>2, EmptySeq
      <3>2. log[Len(log)].id = Len(log)
        BY <1>2, <3>1 DEF LogOk
      <3> QED BY <2>2, <3>2 DEF NextId
    <2> QED BY <2>1, <2>2
  <1>4. e \in Event /\ e.id = Len(log) + 1 /\ e.key = key
    BY <1>2, <1>3 DEF Event
  <1> HIDE DEF e
  <1>5. Typed'
    <2>1. /\ st' \in [Proc -> {"closed", "open", "writing"}] /\ pre' \in [Proc -> Nat]
          /\ wrote' \in [Proc -> 0..3]
      BY <1>1 DEF StoreInv, Typed
    <2>2. cur' \in [Proc -> Event \cup {NoEvent}]
      BY <1>1, <1>4 DEF StoreInv, Typed
    <2> QED BY <1>1, <2>1, <2>2 DEF StoreInv, Typed
  <1>6. st'[p] = "writing" /\ wrote'[p] = 0 /\ cur'[p] = e /\ pre'[p] = pos[p]
    BY <1>1 DEF StoreInv, Typed
  <1>7. OneWriter' /\ lock' = p
    BY <1>1, <1>2 DEF StoreInv, Typed, OneWriter
  <1>8. InUse(p)'
    <2>1. Written(p) = 0 /\ Written(p)' = 0
      BY <1>1, <1>6 DEF Written
    <2>2. Follows(file, log, e, 0)
      BY <1>2, <2>1 DEF InUse, Follows
    <2>3. failures[p] = 0 => pre'[p] = 3 * Len(log)
      BY <1>1, <1>2, <1>6 DEF InUse
    <2> QED BY <1>1, <1>2, <1>4, <1>6, <2>1, <2>2, <2>3 DEF InUse
  <1>9. TheLog' = TheLog
    BY <1>1 DEF TheLog
  <1> QED BY <1>5, <1>7, <1>8, <1>9, HeldStep DEF LogStep

(* One more piece of its record is written. *)
LEMMA WriteCellKeeps ==
    ASSUME StoreInv, NEW p \in Proc, WriteCell(p)
    PROVE  StoreInv' /\ LogStep
  <1> DEFINE log == mem[p]
             c == Cell(cur[p], wrote[p] + 1)
  <1>1. /\ st[p] = "writing" /\ wrote[p] < 3 /\ file' = Append(file, c)
        /\ pos' = [pos EXCEPT ![p] = Len(file) + 1]
        /\ wrote' = [wrote EXCEPT ![p] = wrote[p] + 1]
        /\ UNCHANGED <<synced, lock, st, mem, pre, cur, failures, acked>>
    BY DEF WriteCell, RecordLen
  <1>2. /\ lock = p /\ InUse(p) /\ TheLog = log /\ log \in Seq(Event) /\ Len(log) \in Nat
        /\ LogOk(log) /\ file \in Seq(AnyCell) /\ Len(file) \in Nat /\ wrote[p] \in 0..3
    BY <1>1, Held
  <1>3. wrote[p] + 1 \in 1..3 /\ cur[p] \in Event
    BY <1>1, <1>2 DEF InUse
  <1>4. c \in AnyCell
    BY <1>3 DEF Cell, AnyCell, Event
  <1> HIDE DEF c
  <1>5. /\ file' \in Seq(AnyCell) /\ Len(file') = Len(file) + 1 /\ file'[Len(file) + 1] = c
        /\ \A i \in 1..Len(file) : file'[i] = file[i]
    BY <1>1, <1>2, <1>4
  <1>6. Typed'
    <2>1. pos' \in [Proc -> Nat]
      BY <1>1, <1>2 DEF StoreInv, Typed
    <2>2. wrote' \in [Proc -> 0..3]
      BY <1>1, <1>3 DEF StoreInv, Typed
    <2> QED BY <1>1, <1>5, <2>1, <2>2 DEF StoreInv, Typed
  <1>7. wrote'[p] = wrote[p] + 1 /\ pos'[p] = Len(file')
    BY <1>1, <1>5 DEF StoreInv, Typed
  <1>8. OneWriter' /\ lock' = p /\ TheLog' = TheLog
    BY <1>1, <1>2, ConstAssumption DEF StoreInv, Typed, OneWriter, TheLog
  <1>9. /\ Len(file) = 3 * Len(log) + wrote[p]
        /\ \A j \in 1..wrote[p] : file[3 * Len(log) + j] = Cell(cur[p], j)
    BY <1>1, <1>2 DEF InUse, Follows, Written
  <1>10. Follows(file', log, cur[p], wrote[p] + 1)
    <2>1. ASSUME NEW j \in 1..wrote[p] + 1
          PROVE  file'[3 * Len(log) + j] = Cell(cur[p], j)
      <3>1. CASE j \in 1..wrote[p]
        <4>1. 3 * Len(log) + j \in 1..Len(file)
          BY <1>2, <1>9, <3>1
        <4> QED BY <1>5, <1>9, <3>1, <4>1
      <3>2. CASE j = wrote[p] + 1
        <4>1. 3 * Len(log) + j = Len(file) + 1
          BY <1>2, <1>9, <3>2
        <4> QED BY <1>5, <3>2, <4>1 DEF c
      <3> QED BY <1>2, <3>1, <3>2
    <2>2. Len(file') = 3 * Len(log) + (wrote[p] + 1)
      BY <1>2, <1>5, <1>9
    <2> QED BY <2>1, <2>2 DEF Follows
  <1>11. Holds(file', log)
    <2>1. \A i \in 1..3 * Len(log) : i \in 1..Len(file)
      BY <1>2, <1>9
    <2>2. 3 * Len(log) <= Len(file') /\ \A i \in 1..3 * Len(log) : file'[i] = file[i]
      BY <1>2, <1>5, <1>9, <2>1
    <2> QED BY <1>2, <1>5, <2>2, HoldsAlso DEF InUse
  <1>12. InUse(p)'
    <2>1. Written(p)' = wrote[p] + 1
      BY <1>1, <1>7 DEF Written
    <2> QED BY <1>1, <1>2, <1>7, <1>10, <1>11, <2>1 DEF InUse
  <1> QED BY <1>6, <1>8, <1>12, HeldStep DEF LogStep

(* fsync returns: the event is in the history. *)
LEMMA CommitKeeps ==
    ASSUME StoreInv, NEW p \in Proc, Commit(p)
    PROVE  StoreInv' /\ LogStep
  <1> DEFINE log == mem[p]
             e == cur[p]
             new == Append(log, e)
  <1>1. /\ st[p] = "writing" /\ wrote[p] = 3 /\ synced' = Len(file)
        /\ mem' = [mem EXCEPT ![p] = new] /\ acked' = acked \cup {e}
        /\ failures' = [failures EXCEPT ![p] = 0] /\ st' = [st EXCEPT ![p] = "open"]
        /\ UNCHANGED <<file, lock, pos, pre, wrote, cur>>
    BY DEF Commit, RecordLen
  <1>2. /\ lock = p /\ InUse(p) /\ TheLog = log /\ log \in Seq(Event) /\ Len(log) \in Nat
        /\ LogOk(log) /\ file \in Seq(AnyCell) /\ Len(file) \in Nat
    BY <1>1, Held
  <1>3. e \in Event /\ e.id = Len(log) + 1 /\ ~ Spent(e.key, log) /\ pos[p] = Len(file)
    BY <1>1, <1>2 DEF InUse
  <1>4. Holds(file, log) /\ Follows(file, log, e, 3) /\ acked \subseteq Members(log)
    BY <1>1, <1>2 DEF InUse, Written
  <1>5. Holds(file, new) /\ Len(file) = 3 * Len(new)
    BY <1>2, <1>3, <1>4, HoldsMore
  <1>6. LogOk(new) /\ Members(new) = Members(log) \cup {e} /\ new \in Seq(Event)
    BY <1>2, <1>3, LogGrows
  <1>7. /\ e = [id |-> Len(log) + 1, key |-> e.key] /\ e.key \in Key \cup {NoKey}
    BY <1>3 DEF Event
  <1>8. Typed'
    <2>1. st' \in [Proc -> {"closed", "open", "writing"}] /\ failures' \in [Proc -> Nat]
      BY <1>1 DEF StoreInv, Typed
    <2>2. mem' \in [Proc -> Seq(Event)]
      BY <1>1, <1>6 DEF StoreInv, Typed
    <2> QED BY <1>1, <1>2, <2>1, <2>2 DEF StoreInv, Typed
  <1>9. st'[p] = "open" /\ mem'[p] = new
    BY <1>1 DEF StoreInv, Typed
  <1>10. OneWriter' /\ lock' = p
    BY <1>1, <1>2 DEF StoreInv, Typed, OneWriter
  <1>11. TheLog' = new
    BY <1>9, <1>10, ConstAssumption DEF TheLog
  <1> HIDE DEF new
  <1>12. InUse(p)'
    <2>1. Written(p)' = 0
      BY <1>9 DEF Written
    <2>2. Follows(file, new, cur[p], 0)
      BY <1>5, <1>6 DEF Follows, LogOk
    <2> QED BY <1>1, <1>3, <1>4, <1>5, <1>6, <1>9, <2>1, <2>2 DEF InUse
  <1>13. LogStep
    BY <1>2, <1>3, <1>7, <1>11 DEF LogStep, new
  <1> QED BY <1>8, <1>10, <1>12, <1>13, HeldStep

(* A failed append is rolled back: when none failed before it, to where    *)
(* its record begins.                                                      *)
LEMMA FailAppendKeeps ==
    ASSUME MaxFailures <= 1, StoreInv, NEW p \in Proc, FailAppend(p)
    PROVE  StoreInv' /\ LogStep
  <1> DEFINE log == mem[p]
             g == Truncate(file, pre[p])
  <1>1. /\ st[p] = "writing" /\ failures[p] < MaxFailures /\ file' = g /\ synced' = pre[p]
        /\ failures' = [failures EXCEPT ![p] = failures[p] + 1]
        /\ st' = [st EXCEPT ![p] = "open"]
        /\ UNCHANGED <<lock, mem, pos, pre, wrote, cur, acked>>
    BY DEF FailAppend
  <1>2. /\ lock = p /\ InUse(p) /\ TheLog = log /\ log \in Seq(Event) /\ Len(log) \in Nat
        /\ LogOk(log) /\ file \in Seq(AnyCell) /\ Len(file) \in Nat
    BY <1>1, Held
  <1>3. failures[p] = 0
    BY <1>1, ConstAssumption DEF StoreInv, Typed
  <1>4. pre[p] = 3 * Len(log) /\ Holds(file, log) /\ acked \subseteq Members(log)
    BY <1>1, <1>2, <1>3 DEF InUse
  <1>5. 3 * Len(log) \in Nat /\ 3 * Len(log) <= Len(file)
    BY <1>2, <1>4 DEF Holds
  <1>6. /\ g \in Seq(AnyCell) /\ Len(g) = 3 * Len(log)
        /\ \A i \in 1..3 * Len(log) : g[i] = file[i]
    <2>1. \A i \in 1..3 * Len(log) : i <= Len(file) /\ i \in 1..Len(file)
      BY <1>2, <1>5
    <2>2. \A i \in 1..3 * Len(log) : file[i] \in AnyCell
      BY <1>2, <2>1
    <2>3. g = [i \in 1..3 * Len(log) |-> file[i]]
      BY <1>4, <2>1 DEF Truncate
    <2> QED BY <1>5, <2>2, <2>3
  <1> HIDE DEF g
  <1>7. Holds(g, log)
    BY <1>2, <1>4, <1>5, <1>6, HoldsAlso
  <1>8. Typed'
    <2>1. st' \in [Proc -> {"closed", "open", "writing"}] /\ failures' \in [Proc -> Nat]
      BY <1>1 DEF StoreInv, Typed
    <2> QED BY <1>1, <1>4, <1>5, <1>6, <2>1 DEF StoreInv, Typed
  <1>9. st'[p] = "open" /\ failures'[p] = 1
    BY <1>1, <1>3 DEF StoreInv, Typed
  <1>10. OneWriter' /\ lock' = p /\ TheLog' = TheLog
    BY <1>1, <1>2, ConstAssumption DEF StoreInv, Typed, OneWriter, TheLog
  <1>11. InUse(p)'
    <2>1. Written(p)' = 0
      BY <1>9 DEF Written
    <2>2. Follows(g, log, cur[p], 0)
      BY <1>5, <1>6 DEF Follows
    <2> QED BY <1>1, <1>2, <1>4, <1>7, <1>9, <2>1, <2>2 DEF InUse
  <1> QED BY <1>8, <1>10, <1>11, HeldStep DEF LogStep

(* close leaves the file as it is. *)
LEMMA CloseKeeps ==
    ASSUME StoreInv, NEW p \in Proc, Close(p)
    PROVE  StoreInv' /\ LogStep
  <1> DEFINE log == mem[p]
  <1>1. st[p] = "open" /\ Forget(p) /\ file' = file /\ synced' = synced
    BY DEF Close, disk
  <1>2. /\ InUse(p) /\ TheLog = log /\ LogOk(log) /\ Len(log) \in Nat /\ file \in Seq(AnyCell)
    BY <1>1, Held
  <1>3. /\ Holds(file, log) /\ Len(file) = 3 * Len(log) /\ synced = Len(file)
        /\ acked \subseteq Members(log)
    BY <1>1, <1>2 DEF InUse, Follows, Written
  <1>4. Rested(file, log)
    BY <1>2, <1>3, WholeRests
  <1>5. StoreInv' /\ TheLog' = log
    BY <1>1, <1>2, <1>3, <1>4, ReleaseStep
  <1> QED BY <1>2, <1>5 DEF LogStep

(* A crash keeps what was synced.  A record that was wholly written may be *)
(* there or not, and counts only if its checksum is.                       *)
LEMMA CrashKeeps ==
    ASSUME StoreInv, NEW p \in Proc, Crash(p)
    PROVE  StoreInv' /\ LogStep
  <1> DEFINE log == mem[p]
             e == cur[p]
             s == 3 * Len(log)
             w == Written(p)
  <1>1. /\ st[p] # "closed" /\ Forget(p) /\ file' \in AfterCrash(file, synced)
        /\ synced' = Len(file')
    BY DEF Crash
  <1>2. /\ InUse(p) /\ TheLog = log /\ LogOk(log) /\ Len(log) \in Nat /\ file \in Seq(AnyCell)
        /\ Len(file) \in Nat /\ wrote[p] \in 0..3
    BY <1>1, Held
  <1>3. /\ Holds(file, log) /\ Len(file) = s + w /\ synced = s /\ acked \subseteq Members(log)
        /\ \A j \in 1..w : file[s + j] = Cell(e, j)
    BY <1>2 DEF InUse, Follows
  <1>4. w \in 0..3 /\ (w = 3 => e \in Event /\ e.id = Len(log) + 1 /\ ~ Spent(e.key, log))
    BY <1>2 DEF InUse, Written
  <1> HIDE DEF w
  <1>5. ASSUME NEW n \in s..Len(file)
        PROVE  LET h == SubSeq(file, 1, n)
               IN  /\ h \in Seq(AnyCell) /\ Len(h) = n /\ Holds(h, log)
                   /\ s \in Nat /\ n \in Nat /\ n - s \in 0..3 /\ (n - s = 3 => w = 3)
                   /\ Follows(h, log, e, n - s)
    <2> DEFINE h == SubSeq(file, 1, n)
    <2>1. /\ n \in 0..Len(file) /\ s \in Nat /\ n \in Nat /\ n >= s /\ n - s \in 0..w
          /\ n - s \in 0..3 /\ (n - s = 3 => w = 3)
      <3>1. s \in Nat
        BY <1>2
      <3> HIDE DEF s
      <3> QED BY <1>2, <1>3, <1>4, <3>1
    <2>2. h \in Seq(AnyCell) /\ Len(h) = n /\ \A i \in 1..n : h[i] = file[i]
      BY <1>2, <2>1, Front
    <2> HIDE DEF h
    <2>3. Holds(h, log)
      <3>1. s <= Len(h) /\ \A i \in 1..s : h[i] = file[i]
        BY <2>1, <2>2
      <3> QED BY <1>2, <1>3, <2>2, <3>1, HoldsAlso
    <2>4. Follows(h, log, e, n - s)
      <3>1. Len(h) = s + (n - s)
        BY <2>1, <2>2
      <3>2. ASSUME NEW j \in 1..n - s PROVE h[s + j] = Cell(e, j)
        <4>1. s + j \in 1..n /\ j \in 1..w
          BY <2>1, <1>4
        <4> QED BY <1>3, <2>2, <4>1
      <3> QED BY <3>1, <3>2 DEF Follows
    <2> QED BY <2>1, <2>2, <2>3, <2>4 DEF h
  <1>6. ASSUME NEW n \in s..Len(file), file' = SubSeq(file, 1, n)
        PROVE  StoreInv' /\ LogStep
    <2>1. /\ file' \in Seq(AnyCell) /\ Len(file') = n /\ Holds(file', log)
          /\ n - s \in 0..3 /\ (n - s = 3 => w = 3) /\ Follows(file', log, e, n - s)
      BY <1>5, <1>6
    <2>2. CASE n - s \in 0..2
      <3>1. Rested(file', log)
        BY <1>2, <2>1, <2>2, PartRests
      <3>2. StoreInv' /\ TheLog' = log
        BY <1>1, <1>2, <1>3, <2>1, <3>1, ReleaseStep
      <3> QED BY <1>2, <3>2 DEF LogStep
    <2>3. CASE n - s = 3
      <3> DEFINE new == Append(log, e)
      <3>1. w = 3 /\ e \in Event /\ e.id = Len(log) + 1 /\ ~ Spent(e.key, log)
        BY <1>4, <2>1, <2>3
      <3>2. Holds(file', new) /\ Len(file') = 3 * Len(new)
        BY <1>2, <2>1, <2>3, <3>1, HoldsMore
      <3>3. LogOk(new) /\ Members(new) = Members(log) \cup {e}
        BY <1>2, <3>1, LogGrows
      <3>4. /\ e = [id |-> Len(log) + 1, key |-> e.key] /\ e.key \in Key \cup {NoKey}
        BY <3>1 DEF Event
      <3>5. Rested(file', new)
        BY <2>1, <3>2, <3>3, WholeRests
      <3>6. acked \subseteq Members(new)
        BY <1>3, <3>3
      <3>7. StoreInv' /\ TheLog' = new
        BY <1>1, <2>1, <3>3, <3>5, <3>6, ReleaseStep
      <3> QED BY <1>2, <3>1, <3>4, <3>7 DEF LogStep
    <2>4. n - s \in 0..2 \/ n - s = 3
      BY <2>1
    <2> QED BY <2>2, <2>3, <2>4
  <1>7. ASSUME NEW n \in s..Len(file), n > s, file' = Spoiled(SubSeq(file, 1, n)),
               SubSeq(file, 1, n)[n].part = Checksum
        PROVE  StoreInv' /\ LogStep
    <2> DEFINE h == SubSeq(file, 1, n)
    <2>1. /\ h \in Seq(AnyCell) /\ Len(h) = n /\ Holds(h, log)
          /\ s \in Nat /\ n \in Nat /\ n - s \in 0..3 /\ Follows(h, log, e, n - s)
      BY <1>5
    <2>2. file' = [h EXCEPT ![n] = [h[n] EXCEPT !.part = Garbled]] /\ h[n].part = Checksum
      BY <1>7, <2>1 DEF Spoiled
    <2> HIDE DEF h
    <2>3. s \in Nat /\ n \in Nat /\ n - s \in 1..3 /\ s + (n - s) = n /\ n \in 1..n
      <3> HIDE DEF s
      <3> QED BY <1>7, <2>1
    <2>4. h[n] = Cell(e, n - s)
      <3>1. \A j \in 1..n - s : h[s + j] = Cell(e, j)
        BY <2>1 DEF Follows
      <3>2. n - s \in 1..n - s
        BY <2>3
      <3> QED BY <2>3, <3>1, <3>2
    <2>5. n = s + 3
      <3>1. n - s = 3
        BY <2>2, <2>4 DEF Cell, Checksum
      <3> QED BY <2>3, <3>1
    <2>6. h[s + 1] = Cell(e, 1)
      BY <2>1, <2>3, <2>5 DEF Follows
    <2>7. [h[n] EXCEPT !.part = Garbled] \in AnyCell
      <3>1. h[n] \in AnyCell
        BY <2>1, <2>3
      <3> QED BY <3>1 DEF AnyCell, Garbled
    <2>8. /\ file' \in Seq(AnyCell) /\ Len(file') = n
          /\ \A i \in 1..n : i # n => file'[i] = h[i]
          /\ file'[n] = [h[n] EXCEPT !.part = Garbled]
      BY <2>1, <2>2, <2>3, <2>7
    <2>9. Holds(file', log)
      <3>1. s <= Len(file') /\ \A i \in 1..s : file'[i] = h[i]
        BY <2>3, <2>5, <2>8
      <3> QED BY <1>2, <2>1, <2>8, <3>1, HoldsAlso
    <2>10. file'[s + 1].part = Header
      <3>1. s + 1 \in 1..n /\ s + 1 # n
        BY <2>3, <2>5
      <3> QED BY <2>6, <2>8, <3>1 DEF Cell, Header
    <2>11. file'[s + 3].part # Checksum
      <3>1. h[n] \in AnyCell
        BY <2>1, <2>3
      <3> QED BY <2>5, <2>8, <3>1 DEF AnyCell, Garbled, Checksum
    <2>12. Rested(file', log)
      BY <2>3, <2>5, <2>8, <2>9, <2>10, <2>11 DEF Rested
    <2>13. StoreInv' /\ TheLog' = log
      BY <1>1, <1>2, <1>3, <2>8, <2>12, ReleaseStep
    <2> QED BY <1>2, <2>13 DEF LogStep
  <1>8. CASE \E n \in s..Len(file) : file' = SubSeq(file, 1, n)
    BY <1>6, <1>8
  <1>9. CASE \E n \in s..Len(file) : /\ file' = Spoiled(SubSeq(file, 1, n))
                                     /\ Len(SubSeq(file, 1, n)) > s
                                     /\ SubSeq(file, 1, n)[Len(SubSeq(file, 1, n))].part = Checksum
    <2>1. PICK n \in s..Len(file) : /\ file' = Spoiled(SubSeq(file, 1, n))
                                   /\ Len(SubSeq(file, 1, n)) > s
                                   /\ SubSeq(file, 1, n)[Len(SubSeq(file, 1, n))].part = Checksum
      BY <1>9
    <2>2. Len(SubSeq(file, 1, n)) = n
      BY <1>5
    <2> QED BY <1>7, <2>1, <2>2
  <1> QED BY <1>1, <1>3, <1>8, <1>9 DEF AfterCrash

-----------------------------------------------------------------------------
(* The empty file. *)
LEMMA InitStore == Init => StoreInv /\ TheLog = << >>
  <1> SUFFICES ASSUME Init PROVE StoreInv /\ TheLog = << >>
    OBVIOUS
  <1>1. file = << >> /\ synced = 0 /\ lock = NoProc /\ acked = {} /\ file \in Seq(AnyCell)
        /\ Len(file) = 0
    BY DEF Init
  <1>2. LogOk(<< >>) /\ Holds(file, << >>) /\ Len(file) = 3 * Len(<< >>)
    BY <1>1 DEF LogOk, Holds
  <1>3. Rested(file, << >>)
    BY <1>1, <1>2, WholeRests
  <1>4. Recovered(file) = << >>
    BY <1>1, <1>2, <1>3, Scan
  <1>5. Typed
    <2>1. cur \in [Proc -> Event \cup {NoEvent}]
      BY DEF Init
    <2>2. << >> \in Seq(Event) /\ 0 \in Nat /\ 0 \in 0..3
      OBVIOUS
    <2>3. /\ mem \in [Proc -> Seq(Event)] /\ pos \in [Proc -> Nat] /\ pre \in [Proc -> Nat]
          /\ wrote \in [Proc -> 0..3] /\ failures \in [Proc -> Nat]
          /\ st \in [Proc -> {"closed", "open", "writing"}]
      BY <2>2 DEF Init
    <2> QED BY <1>1, <2>1, <2>3 DEF Typed
  <1>6. OneWriter /\ \A p \in Proc : lock # p
    BY ConstAssumption DEF Init, OneWriter
  <1>7. AtRest
    BY <1>1, <1>2, <1>3, <1>4 DEF AtRest
  <1> QED BY <1>1, <1>4, <1>5, <1>6, <1>7 DEF StoreInv, TheLog

(* Every step keeps the invariant and is a step of the log. *)
LEMMA NextStore == MaxFailures <= 1 /\ StoreInv /\ [Next]_vars => StoreInv' /\ LogStep
  <1> SUFFICES ASSUME MaxFailures <= 1, StoreInv, [Next]_vars PROVE StoreInv' /\ LogStep
    OBVIOUS
  <1>1. ASSUME NEW p \in Proc, Open(p) PROVE StoreInv' /\ LogStep
    BY <1>1, OpenKeeps
  <1>2. ASSUME NEW p \in Proc, NEW key \in Key, AppendKnown(p, key) PROVE StoreInv' /\ LogStep
    BY <1>2, AppendKnownKeeps
  <1>3. ASSUME NEW p \in Proc, NEW key \in Key \cup {NoKey}, BeginAppend(p, key)
        PROVE  StoreInv' /\ LogStep
    BY <1>3, BeginAppendKeeps
  <1>4. ASSUME NEW p \in Proc, WriteCell(p) PROVE StoreInv' /\ LogStep
    BY <1>4, WriteCellKeeps
  <1>5. ASSUME NEW p \in Proc, Commit(p) PROVE StoreInv' /\ LogStep
    BY <1>5, CommitKeeps
  <1>6. ASSUME NEW p \in Proc, FailAppend(p) PROVE StoreInv' /\ LogStep
    BY <1>6, FailAppendKeeps
  <1>7. ASSUME NEW p \in Proc, Close(p) PROVE StoreInv' /\ LogStep
    BY <1>7, CloseKeeps
  <1>8. ASSUME NEW p \in Proc, Crash(p) PROVE StoreInv' /\ LogStep
    BY <1>8, CrashKeeps
  <1>9. CASE UNCHANGED vars
    <2>1. TheLog' = TheLog
      BY <1>9 DEF vars, TheLog
    <2>2. StoreInv'
      BY <1>9 DEF vars, StoreInv, Typed, OneWriter, AtRest, InUse, Written
    <2> QED BY <2>1, <2>2 DEF LogStep
  <1> QED BY <1>1, <1>2, <1>3, <1>4, <1>5, <1>6, <1>7, <1>8, <1>9 DEF Next

(* The inductive invariant holds in every state. *)
LEMMA StoreHolds == ASSUME MaxFailures <= 1 PROVE Spec => []StoreInv
  <1>1. Init => StoreInv
    BY InitStore
  <1>2. StoreInv /\ [Next]_vars => StoreInv'
    BY NextStore
  <1> QED BY <1>1, <1>2, PTL DEF Spec

(* Opening never fails on what crashes and failed appends left behind      *)
(* (store.py __init__, _scan_file), and a reader that takes no lock never  *)
(* meets a file it would call corrupt, as long as no process has two       *)
(* appends fail in a row.                                                  *)
THEOREM StoreAlwaysOpens == ASSUME MaxFailures <= 1 PROVE Spec => []AlwaysReadable
  <1>1. StoreInv => AlwaysReadable
    BY DiskIsLog
  <1> QED BY <1>1, StoreHolds, PTL

(* Under the same condition, an event that append() returned is durable    *)
(* and is found by every later recovery (store.py append, _scan_file).     *)
THEOREM AcknowledgedIsKept == ASSUME MaxFailures <= 1 PROVE Spec => []AckedIsDurable
  <1>1. StoreInv => AckedIsDurable
    BY DiskIsLog DEF AckedIsDurable, DurableIsLog, Members
  <1> QED BY <1>1, StoreHolds, PTL

(* Under the same condition the store, with its files, locks, torn writes, *)
(* failures and crashes, implements the log the rest of the engine relies  *)
(* on: what is durable only grows, by one event with the next id and a key *)
(* not spent before (module EventLog).                                     *)
THEOREM StoreIsALog == ASSUME MaxFailures <= 1 PROVE Spec => ImplementsEventLog
  <1>1. Init => DurableLog!Init
    BY InitStore, DiskIsLog DEF DurableIsLog, DurableLog!Init
  <1>2. StoreInv /\ StoreInv' /\ [Next]_vars => [DurableLog!Next]_Durable
    <2> SUFFICES ASSUME StoreInv, StoreInv', [Next]_vars PROVE [DurableLog!Next]_Durable
      OBVIOUS
    <2>1. LogStep
      BY NextStore
    <2>2. Durable = TheLog
      BY DiskIsLog DEF DurableIsLog
    <2>3. Durable' = TheLog'
      <3>1. (StoreInv => DurableIsLog)'
        BY DiskIsLog, PTL
      <3> QED BY <3>1 DEF DurableIsLog
    <2>4. CASE TheLog' = TheLog
      BY <2>2, <2>3, <2>4
    <2>5. ASSUME NEW key \in Key \cup {NoKey}, ~ Spent(key, TheLog),
                 TheLog' = Append(TheLog, [id |-> Len(TheLog) + 1, key |-> key])
          PROVE  DurableLog!Next
      <3>1. DurableLog!Fresh(key, Durable)
        BY <2>2, <2>5 DEF Spent, KeysOf, DurableLog!Fresh, DurableLog!KeysOf
      <3>2. DurableLog!Record(key)
        BY <2>2, <2>3, <2>5, <3>1 DEF DurableLog!Record
      <3> QED BY <3>2 DEF DurableLog!Next
    <2> QED BY <2>1, <2>4, <2>5 DEF LogStep
  <1> QED BY <1>1, <1>2, StoreHolds, PTL DEF Spec, ImplementsEventLog, DurableLog!Spec

-----------------------------------------------------------------------------
(* What the log promises, as module EventLog states it. *)
LogInv == DurableLog!TypeOK /\ DurableLog!IdsCount /\ DurableLog!KeysSpentOnce

(* One more event, with the next id and a new key or none, keeps it. *)
LEMMA NextLog == LogInv /\ [DurableLog!Next]_Durable => LogInv'
  <1> SUFFICES ASSUME LogInv, [DurableLog!Next]_Durable PROVE LogInv'
    OBVIOUS
  <1>1. CASE UNCHANGED Durable
    BY <1>1 DEF LogInv, DurableLog!TypeOK, DurableLog!IdsCount, DurableLog!KeysSpentOnce
  <1>2. ASSUME NEW key \in Key \cup {NoKey}, DurableLog!Record(key) PROVE LogInv'
    <2> DEFINE e == [id |-> Len(Durable) + 1, key |-> key]
    <2>1. Durable \in Seq(DurableLog!Event) /\ Len(Durable) \in Nat
      BY DEF LogInv, DurableLog!TypeOK
    <2>2. e \in DurableLog!Event
      BY <2>1 DEF DurableLog!Event
    <2>3. e.id = Len(Durable) + 1 /\ e.key = key /\ Durable' = Append(Durable, e)
      BY <1>2 DEF DurableLog!Record
    <2> HIDE DEF e
    <2>4. /\ Durable' \in Seq(DurableLog!Event) /\ Len(Durable') = Len(Durable) + 1
          /\ Durable'[Len(Durable) + 1] = e
          /\ \A i \in 1..Len(Durable) : Durable'[i] = Durable[i]
      BY <2>1, <2>2, <2>3
    <2>5. \A i \in 1..Len(Durable) : Durable[i].key = key => key = NoKey
      BY <1>2 DEF DurableLog!Record, DurableLog!Fresh, DurableLog!KeysOf
    <2>6. DurableLog!IdsCount'
      BY <2>1, <2>3, <2>4 DEF LogInv, DurableLog!IdsCount
    <2>7. DurableLog!KeysSpentOnce'
      BY <2>1, <2>3, <2>4, <2>5 DEF LogInv, DurableLog!KeysSpentOnce
    <2> QED BY <2>4, <2>6, <2>7 DEF LogInv, DurableLog!TypeOK
  <1> QED BY <1>1, <1>2 DEF DurableLog!Next

(* Events of any behaviour of the log (store.py append) are numbered       *)
(* without gaps and no key is spent twice.                                 *)
THEOREM LogKeepsItsPromise ==
    DurableLog!Spec => [](DurableLog!TypeOK /\ DurableLog!IdsCount /\ DurableLog!KeysSpentOnce)
  <1>1. DurableLog!Init => LogInv
    BY DEF DurableLog!Init, LogInv, DurableLog!TypeOK, DurableLog!IdsCount,
           DurableLog!KeysSpentOnce
  <1> QED BY <1>1, NextLog, PTL DEF DurableLog!Spec, LogInv

(* Hence the durable events of the store are, through every crash, failed  *)
(* append and re-open, as long as no process has two appends fail in a     *)
(* row.                                                                    *)
THEOREM StoreKeepsTheLogsPromise ==
    ASSUME MaxFailures <= 1
    PROVE  Spec => [](DurableLog!IdsCount /\ DurableLog!KeysSpentOnce)
  BY StoreIsALog, LogKeepsItsPromise, PTL DEF ImplementsEventLog
=============================================================================
