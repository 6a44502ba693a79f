-------------------------- MODULE AlphaEngineProofs --------------------------
(***************************************************************************)
(* Proofs about the experiment registry (RegistryInv), the collected       *)
(* series (HistoryInv) and the samples made of them (BuilderInv), for any  *)
(* processes, experiments, people, periods, faults and instants.           *)
(***************************************************************************)
EXTENDS ExperimentRegistry, HistoricalData, SampleBuilder,
        FiniteSetTheorems, WellFoundedInduction, TLAPS

(***************************************************************************)
(* Induction over the natural numbers, from the fact that < is well        *)
(* founded on them: a set that holds 0 and with each number the next one   *)
(* holds them all.                                                         *)
(***************************************************************************)
LEMMA NumbersByInduction ==
    ASSUME NEW S, 0 \in S, \A n \in Nat : n \in S => n + 1 \in S
    PROVE  \A n \in Nat : n \in S
  <1> DEFINE Out == {n \in Nat : n \notin S}
             Less == OpToRel(<, Nat)
  <1>1. SUFFICES ASSUME Out # {} PROVE FALSE
    OBVIOUS
  <1>2. IsWellFoundedOn(Less, Nat)
    BY NatLessThanWellFounded
  <1>3. \A x, y \in Nat : <<x, y>> \in Less <=> x < y
    BY DEF OpToRel
  <1> HIDE DEF Less
  <1>4. PICK n \in Out : \A k \in Out : ~ (<<k, n>> \in Less)
    <2>1. Out \subseteq Nat
      OBVIOUS
    <2> HIDE DEF Out
    <2> QED BY <1>1, <1>2, <2>1, WFMin
  <1>5. n \in Nat /\ n # 0 /\ n \notin S
    BY <1>4
  <1>6. n - 1 \in Nat /\ n - 1 < n /\ (n - 1) + 1 = n
    BY <1>5
  <1>7. n - 1 \in Out
    BY <1>5, <1>6
  <1> QED BY <1>3, <1>4, <1>5, <1>6, <1>7

(***************************************************************************)
(* The registry: replay                                                    *)
(***************************************************************************)

Fresh == [up |-> TRUE, recs |-> NoRecords]

(* f is what a replay makes of the first m entries, one after the other. *)
ReplaysTo(f, entries, m) ==
    f = [n \in 0..m |-> IF n = 0 THEN Fresh ELSE ReplayEntry(f[n - 1], entries[n])]

(* The recursion of Replayed has a solution. *)
LEMMA ReplayedIs ==
    ASSUME NEW D, NEW entries \in Seq(D)
    PROVE  ReplaysTo(Replayed(entries), entries, Len(entries))
  <1> DEFINE S == {m \in Nat : \E f : ReplaysTo(f, entries, m)}
  <1>1. 0 \in S
    <2> DEFINE f == [n \in 0..0 |-> Fresh]
    <2>1. ReplaysTo(f, entries, 0)
      BY DEF ReplaysTo
    <2> QED BY <2>1
  <1>2. ASSUME NEW m \in Nat, m \in S PROVE m + 1 \in S
    <2>1. PICK f : ReplaysTo(f, entries, m)
      BY <1>2
    <2> DEFINE g == [n \in 0..(m + 1) |-> IF n = 0 THEN Fresh
                                          ELSE ReplayEntry(f[n - 1], entries[n])]
    <2>2. ASSUME NEW n \in 0..(m + 1), n # 0 PROVE g[n - 1] = f[n - 1]
      <3>1. n - 1 \in 0..m /\ n - 1 \in 0..(m + 1)
        BY <2>2
      <3> QED BY <2>1, <3>1 DEF ReplaysTo
    <2>3. ReplaysTo(g, entries, m + 1)
      BY <2>2 DEF ReplaysTo
    <2> QED BY <2>3
  <1>3. Len(entries) \in S
    <2> HIDE DEF S
    <2> QED BY <1>1, <1>2, NumbersByInduction
  <1>4. \E f : f = [n \in 0..Len(entries) |->
                      IF n = 0 THEN Fresh ELSE ReplayEntry(f[n - 1], entries[n])]
    BY <1>3 DEF ReplaysTo
  <1> QED BY <1>4 DEF ReplaysTo, Replayed, Fresh

(* It depends on the entries so far and on nothing after them. *)
LEMMA ReplayedUnique ==
    ASSUME NEW f, NEW g, NEW s, NEW t, NEW m \in Nat, NEW k \in Nat, m <= k,
           ReplaysTo(f, s, m), ReplaysTo(g, t, k), \A i \in 1..m : s[i] = t[i]
    PROVE  \A n \in 0..m : f[n] = g[n]
  <1> DEFINE S == {n \in Nat : n <= m => f[n] = g[n]}
  <1>1. 0 \in S
    BY DEF ReplaysTo
  <1>2. ASSUME NEW n \in Nat, n \in S PROVE n + 1 \in S
    <2>1. SUFFICES ASSUME n + 1 <= m PROVE f[n + 1] = g[n + 1]
      OBVIOUS
    <2>2. n + 1 \in 0..m /\ n + 1 \in 0..k /\ n + 1 # 0 /\ (n + 1) - 1 = n /\ n + 1 \in 1..m
      BY <2>1
    <2>3. f[n + 1] = ReplayEntry(f[n], s[n + 1]) /\ g[n + 1] = ReplayEntry(g[n], t[n + 1])
      BY <2>2 DEF ReplaysTo
    <2> QED BY <1>2, <2>1, <2>2, <2>3
  <1>3. \A n \in Nat : n \in S
    <2> HIDE DEF S
    <2> QED BY <1>1, <1>2, NumbersByInduction
  <1> QED BY <1>3

(* One more entry is applied to what the others made. *)
LEMMA ReplayedAppend ==
    ASSUME NEW D, NEW s \in Seq(D), NEW en \in D
    PROVE  Replayed(Append(s, en))[Len(s) + 1] = ReplayEntry(Replayed(s)[Len(s)], en)
  <1> DEFINE t == Append(s, en)
  <1>1. t \in Seq(D) /\ Len(t) = Len(s) + 1 /\ t[Len(s) + 1] = en
        /\ \A i \in 1..Len(s) : s[i] = t[i]
    OBVIOUS
  <1> HIDE DEF t
  <1>2. ReplaysTo(Replayed(s), s, Len(s)) /\ ReplaysTo(Replayed(t), t, Len(s) + 1)
    BY <1>1, ReplayedIs
  <1>3. Replayed(s)[Len(s)] = Replayed(t)[Len(s)]
    <2>1. Len(s) \in Nat /\ Len(s) + 1 \in Nat /\ Len(s) <= Len(s) + 1 /\ Len(s) \in 0..Len(s)
      OBVIOUS
    <2> QED BY <1>1, <1>2, <2>1, ReplayedUnique
  <1>4. Replayed(t)[Len(s) + 1] = ReplayEntry(Replayed(t)[Len(s)], t[Len(s) + 1])
    <2>1. Len(s) + 1 \in 0..(Len(s) + 1) /\ Len(s) + 1 # 0 /\ (Len(s) + 1) - 1 = Len(s)
      OBVIOUS
    <2> QED BY <1>2, <2>1 DEF ReplaysTo
  <1> QED BY <1>1, <1>3, <1>4 DEF t

-----------------------------------------------------------------------------
(* Records, entries and the lines of the log. *)
EvidenceOrNil == Evidence \cup {Nil}
DecisionOrNone == Decision \cup {NoDecision}
ExperimentRecord ==
    [known : BOOLEAN, spec : Content \cup {Nil}, parent : Experiment \cup {Nil},
     sealed : BOOLEAN, evidence : EvidenceOrNil, state : LifecycleState,
     decision : DecisionOrNone]
Records == [Experiment -> ExperimentRecord]

EntryRecord ==
    [type : {"created", "sealed", "evidence", "state", "decision"}, id : Experiment,
     spec : Content \cup {Nil}, parent : Experiment \cup {Nil}, evidence : EvidenceOrNil,
     from : LifecycleState \cup {Nil}, to : LifecycleState \cup {Nil},
     decision : DecisionOrNone]

(* What an entry of each type must carry. *)
WellFormed(en) ==
    /\ en.type = "created" => en.spec \in Content
    /\ en.type = "evidence" => en.evidence \in Evidence
    /\ en.type = "state" => en.to \in LifecycleState
    /\ en.type = "decision" => en.decision \in Decision
GoodEntry == {en \in EntryRecord : WellFormed(en)}
Line == GoodEntry \cup {BadLine}

(* Nothing stands for a decision, for evidence or for a line that is not. *)
LEMMA NothingIsNothing ==
    /\ NoDecision \notin Decision
    /\ Nil \notin Evidence
    /\ BadLine \notin GoodEntry
  <1>1. NoDecision \notin Decision
    BY DEF NoDecision, Decision
  <1>2. Nil \notin Evidence
    BY RegistryAssumption DEF Evidence
  <1>3. BadLine \notin GoodEntry
    BY DEF BadLine, Entry, GoodEntry, EntryRecord
  <1> QED BY <1>1, <1>2, <1>3

(* The lifecycle: every state is one, an approval only comes from a        *)
(* review, and what trades was approved before.                            *)
LEMMA StatesMove ==
    /\ "PROPOSED" \in LifecycleState
    /\ Governed \subseteq LifecycleState
    /\ \A to \in Governed : IsLegalTransition("IN_REVIEW", to)
    /\ \A from, to : IsLegalTransition(from, to) /\ to \in LiveStates => from \in Tradeable
    /\ \A from, to : IsLegalTransition(from, to) /\ to \in Governed => from = "IN_REVIEW"
  <1>1. \A to \in Governed : <<"IN_REVIEW", to>> \in Moves
    BY DEF Moves
  <1>2. <<"PROPOSED", "VALIDATING">> \in Moves
    BY DEF Moves
  <1>3. "PROPOSED" \in LifecycleState
    BY <1>2 DEF LifecycleState
  <1>4. ASSUME NEW to \in Governed PROVE to \in LifecycleState
    <2>1. <<"IN_REVIEW", to>>[2] = to
      OBVIOUS
    <2> QED BY <1>1, <2>1 DEF LifecycleState
  <1>5. \A from, to : <<from, to>> \in Moves /\ to \in LiveStates => from \in Tradeable
    BY DEF Moves, LiveStates, Tradeable, Governed
  <1>6. \A from, to : <<from, to>> \in Moves /\ to \in Governed => from = "IN_REVIEW"
    BY DEF Moves, Governed
  <1> QED BY <1>1, <1>3, <1>4, <1>5, <1>6 DEF IsLegalTransition

LEMMA NoRecordsTyped == NoRecords \in Records
  BY StatesMove DEF NoRecords, Unknown, Records, ExperimentRecord, EvidenceOrNil, DecisionOrNone

(* The record an entry leaves behind. *)
After(r, en) ==
    CASE en.type = "created"  -> [Unknown EXCEPT !.known = TRUE, !.spec = en.spec,
                                                 !.parent = en.parent]
      [] en.type = "sealed"   -> [r EXCEPT !.sealed = TRUE]
      [] en.type = "evidence" -> [r EXCEPT !.evidence = en.evidence]
      [] en.type = "state"    -> [r EXCEPT !.state = en.to]
      [] en.type = "decision" -> [r EXCEPT !.decision = en.decision]

(* An entry changes one record, and of that what its type says. *)
LEMMA AfterIs ==
    ASSUME NEW r \in ExperimentRecord, NEW en \in GoodEntry
    PROVE  /\ After(r, en) \in ExperimentRecord
           /\ en.type = "created" =>
                 /\ After(r, en).known /\ After(r, en).spec = en.spec
                 /\ After(r, en).evidence = Nil /\ After(r, en).decision = NoDecision
                 /\ After(r, en).state = "PROPOSED"
           /\ en.type # "created" =>
                 /\ After(r, en).known = r.known
                 /\ After(r, en).spec = r.spec
                 /\ After(r, en).evidence = IF en.type = "evidence" THEN en.evidence ELSE r.evidence
                 /\ After(r, en).decision = IF en.type = "decision" THEN en.decision ELSE r.decision
                 /\ After(r, en).state = IF en.type = "state" THEN en.to ELSE r.state
  <1> USE DEF ExperimentRecord, EvidenceOrNil, DecisionOrNone, GoodEntry, WellFormed, EntryRecord
  <1>1. CASE en.type = "created"
    BY <1>1, StatesMove DEF After, Unknown
  <1>2. CASE en.type = "sealed"
    BY <1>2 DEF After
  <1>3. CASE en.type = "evidence"
    BY <1>3 DEF After
  <1>4. CASE en.type = "state"
    BY <1>4 DEF After
  <1>5. CASE en.type = "decision"
    BY <1>5 DEF After
  <1> QED BY <1>1, <1>2, <1>3, <1>4, <1>5

LEMMA AppliedIs ==
    ASSUME NEW recs \in Records, NEW en \in GoodEntry
    PROVE  /\ Applied(recs, en) = [recs EXCEPT ![en.id] = After(recs[en.id], en)]
           /\ Applied(recs, en) \in Records
           /\ en.id \in Experiment /\ recs[en.id] \in ExperimentRecord
           /\ \A e \in Experiment :
                 Applied(recs, en)[e] = IF e = en.id THEN After(recs[e], en) ELSE recs[e]
  <1>1. en.id \in Experiment /\ recs[en.id] \in ExperimentRecord
    BY DEF GoodEntry, EntryRecord, Records
  <1>2. After(recs[en.id], en) \in ExperimentRecord
    BY <1>1, AfterIs
  <1>3. Applied(recs, en) = [recs EXCEPT ![en.id] = After(recs[en.id], en)]
    BY DEF Applied, After
  <1> HIDE DEF Applied, After
  <1> QED BY <1>1, <1>2, <1>3 DEF Records

-----------------------------------------------------------------------------
(* What the first n entries of w hold: the experiment with its             *)
(* specification; after that evidence for it; after that a decision on     *)
(* the evidence.                                                           *)
MadeBy(w, n, e, spec) ==
    \E i \in 1..n : w[i].type = "created" /\ w[i].id = e /\ w[i].spec = spec
ShownBy(w, n, e, ev) ==
    \E j \in 1..n : /\ w[j].type = "evidence" /\ w[j].id = e /\ w[j].evidence = ev
                    /\ MadeBy(w, j - 1, e, ev[1])
RuledBy(w, n, e, d) ==
    \E k \in 1..n : /\ w[k].type = "decision" /\ w[k].id = e /\ w[k].decision = d
                    /\ ShownBy(w, k - 1, e, d.evidence)

(* All that a record of e says is in the first n entries of w, and what    *)
(* trades was approved.                                                    *)
Traced(r, e, w, n) ==
    /\ r.known => MadeBy(w, n, e, r.spec)
    /\ r.evidence # Nil => ShownBy(w, n, e, r.evidence) /\ r.evidence[1] = r.spec
    /\ r.decision # NoDecision => RuledBy(w, n, e, r.decision) /\ r.decision.evidence = r.evidence
    /\ r.state \in Tradeable => r.decision # NoDecision /\ r.decision.verdict = "APPROVED"

(* What the calls and the replay both check of the record en is about, and *)
(* what the calls check beyond that.                                       *)
Admits(r, en) ==
    /\ en.type = "created" => ~ r.known
    /\ en.type # "created" => r.known
    /\ en.type = "evidence" => r.evidence = Nil
    /\ en.type = "state" => r.state = en.from /\ IsLegalTransition(en.from, en.to)
    /\ en.type = "decision" => r.decision = NoDecision
Suits(r, en) ==
    /\ en.type = "evidence" => en.evidence[1] = r.spec
    /\ en.type = "decision" => en.decision.evidence = r.evidence
    /\ en.type = "state" /\ en.to \in Governed =>
          r.decision # NoDecision /\ r.decision.verdict = en.to

(* Each entry stands on those before it. *)
Founded(w, n) ==
    LET en == w[n]
    IN  /\ en.type = "evidence" => MadeBy(w, n - 1, en.id, en.evidence[1])
        /\ en.type = "decision" => ShownBy(w, n - 1, en.id, en.decision.evidence)
        /\ en.type = "state" /\ en.to \in Governed =>
              \E d \in Decision : RuledBy(w, n - 1, en.id, d) /\ d.verdict = en.to

(* Entries stay where they are when more follow. *)
LEMMA HeldLonger ==
    ASSUME NEW v, NEW w, NEW n \in Nat, NEW m \in Nat, n <= m, \A i \in 1..n : v[i] = w[i]
    PROVE  /\ \A e, spec : MadeBy(v, n, e, spec) => MadeBy(w, m, e, spec)
           /\ \A e, ev : ShownBy(v, n, e, ev) => ShownBy(w, m, e, ev)
           /\ \A e, d : RuledBy(v, n, e, d) => RuledBy(w, m, e, d)
           /\ \A r, e : Traced(r, e, v, n) => Traced(r, e, w, m)
  <1>0. \A i \in 1..n : i \in 1..m /\ (i - 1 \in Nat) /\ i - 1 <= n
                         /\ \A k \in 1..(i - 1) : k \in 1..n /\ v[k] = w[k]
    OBVIOUS
  <1>1. \A e, spec : MadeBy(v, n, e, spec) => MadeBy(w, m, e, spec)
    BY <1>0 DEF MadeBy
  <1>2. \A i \in 1..n : \A e, spec : MadeBy(v, i - 1, e, spec) => MadeBy(w, i - 1, e, spec)
    BY <1>0 DEF MadeBy
  <1>3. \A e, ev : ShownBy(v, n, e, ev) => ShownBy(w, m, e, ev)
    BY <1>0, <1>2 DEF ShownBy
  <1>4. \A i \in 1..n : \A e, ev : ShownBy(v, i - 1, e, ev) => ShownBy(w, i - 1, e, ev)
    BY <1>0, <1>2 DEF ShownBy
  <1>5. \A e, d : RuledBy(v, n, e, d) => RuledBy(w, m, e, d)
    BY <1>0, <1>4 DEF RuledBy
  <1> QED BY <1>1, <1>3, <1>5 DEF Traced

(* An entry that a record admits and that suits it leaves a traced record, *)
(* and is founded.                                                         *)
LEMMA TracedAfter ==
    ASSUME NEW r \in ExperimentRecord, NEW w, NEW n \in Nat, w[n + 1] \in GoodEntry,
           Traced(r, w[n + 1].id, w, n), Admits(r, w[n + 1]), Suits(r, w[n + 1])
    PROVE  Traced(After(r, w[n + 1]), w[n + 1].id, w, n + 1) /\ Founded(w, n + 1)
  <1> DEFINE en == w[n + 1]
             e == en.id
             a == After(r, en)
  <1>0. (n + 1) - 1 = n /\ n + 1 \in 1..(n + 1) /\ n + 1 \in Nat /\ n <= n + 1
    OBVIOUS
  <1>1. Traced(r, e, w, n + 1)
    BY <1>0, HeldLonger
  <1>2. /\ r.evidence \in Evidence \cup {Nil} /\ r.decision \in Decision \cup {NoDecision}
        /\ Nil \notin Evidence /\ NoDecision \notin Decision
        /\ \A d \in Decision : d.evidence \in Evidence
    BY NothingIsNothing DEF ExperimentRecord, EvidenceOrNil, DecisionOrNone, Decision
  <1>3. /\ en.type \in {"created", "sealed", "evidence", "state", "decision"}
        /\ en.type = "evidence" => en.evidence \in Evidence
        /\ en.type = "decision" => en.decision \in Decision
    BY DEF GoodEntry, EntryRecord, WellFormed
  <1>4. Founded(w, n + 1)
    BY <1>0, <1>2, <1>3 DEF Founded, Traced, Suits, Admits
  <1>5. "PROPOSED" \notin Tradeable
    BY DEF Tradeable, LiveStates
  <1> HIDE DEF a
  <1>6. CASE en.type = "created"
    <2>1. /\ a.spec = en.spec /\ a.evidence = Nil /\ a.decision = NoDecision
          /\ a.state = "PROPOSED"
      BY <1>6, AfterIs DEF a
    <2>2. MadeBy(w, n + 1, e, a.spec)
      BY <1>0, <1>6, <2>1 DEF MadeBy
    <2> QED BY <1>4, <1>5, <2>1, <2>2 DEF Traced, a
  <1>7. CASE en.type = "sealed"
    <2>1. /\ a.known = r.known /\ a.spec = r.spec /\ a.evidence = r.evidence
          /\ a.decision = r.decision /\ a.state = r.state
      BY <1>7, AfterIs DEF a
    <2> QED BY <1>1, <1>4, <2>1 DEF Traced, a
  <1>8. CASE en.type = "evidence"
    <2>1. /\ a.known = r.known /\ a.spec = r.spec /\ a.evidence = en.evidence
          /\ a.decision = r.decision /\ a.state = r.state
      BY <1>8, AfterIs DEF a
    <2>2. ShownBy(w, n + 1, e, en.evidence)
      BY <1>0, <1>4, <1>8 DEF ShownBy, Founded
    <2>3. r.decision = NoDecision
      BY <1>1, <1>2, <1>8 DEF Traced, Admits
    <2> QED BY <1>1, <1>4, <1>8, <2>1, <2>2, <2>3 DEF Traced, Suits, a
  <1>9. CASE en.type = "state"
    <2>1. /\ a.known = r.known /\ a.spec = r.spec /\ a.evidence = r.evidence
          /\ a.decision = r.decision /\ a.state = en.to
      BY <1>9, AfterIs DEF a
    <2>2. en.to \in Tradeable => r.decision # NoDecision /\ r.decision.verdict = "APPROVED"
      <3>1. CASE en.to \in LiveStates
        BY <1>1, <1>9, <3>1, StatesMove DEF Traced, Admits
      <3>2. CASE en.to = "APPROVED"
        BY <1>9, <3>2 DEF Suits, Governed
      <3> QED BY <3>1, <3>2 DEF Tradeable
    <2> QED BY <1>1, <1>4, <2>1, <2>2 DEF Traced, a
  <1>10. CASE en.type = "decision"
    <2>1. /\ a.known = r.known /\ a.spec = r.spec /\ a.evidence = r.evidence
          /\ a.decision = en.decision /\ a.state = r.state
      BY <1>10, AfterIs DEF a
    <2>2. RuledBy(w, n + 1, e, en.decision)
      BY <1>0, <1>4, <1>10 DEF RuledBy, Founded
    <2>3. r.state \notin Tradeable
      BY <1>1, <1>10 DEF Traced, Admits
    <2> QED BY <1>1, <1>4, <1>10, <2>1, <2>2, <2>3 DEF Traced, Suits, a
  <1> QED BY <1>3, <1>6, <1>7, <1>8, <1>9, <1>10

-----------------------------------------------------------------------------
(* What replay checks of the record an entry is about. *)
LEMMA AcceptsAdmits ==
    ASSUME NEW recs, NEW en \in GoodEntry, Accepts(recs, en)
    PROVE  Admits(recs[en.id], en)
  <1>1. en.type \in {"created", "sealed", "evidence", "state", "decision"}
    BY DEF GoodEntry, EntryRecord
  <1>2. CASE en.type = "created"
    BY <1>2 DEF Accepts, Admits
  <1>3. CASE en.type = "sealed"
    BY <1>3 DEF Accepts, Admits
  <1>4. CASE en.type = "evidence"
    BY <1>4 DEF Accepts, Admits
  <1>5. CASE en.type = "state"
    BY <1>5 DEF Accepts, Admits
  <1>6. CASE en.type = "decision"
    BY <1>6 DEF Accepts, Admits
  <1> QED BY <1>1, <1>2, <1>3, <1>4, <1>5, <1>6

(* A replayed record is the only reading of the first n entries: none of   *)
(* them says something else of the experiment.                             *)
Only(r, e, w, n) ==
    \A i \in 1..n : w[i].id = e =>
        /\ w[i].type = "created" => r.known /\ w[i].spec = r.spec
        /\ w[i].type = "evidence" => w[i].evidence = r.evidence
        /\ w[i].type = "decision" => w[i].decision = r.decision

(* An entry that is founded and that a replayed record admits suits it:    *)
(* what it stands on is what the record holds.                             *)
LEMMA FoundedSuits ==
    ASSUME NEW r, NEW w, NEW n \in Nat, Only(r, w[n + 1].id, w, n), Founded(w, n + 1),
           w[n + 1] \in GoodEntry
    PROVE  Suits(r, w[n + 1])
  <1> DEFINE en == w[n + 1]
  <1>0. (n + 1) - 1 = n /\ NoDecision \notin Decision
    BY NothingIsNothing
  <1>1. ASSUME en.type = "evidence" PROVE en.evidence[1] = r.spec
    <2>1. MadeBy(w, n, en.id, en.evidence[1])
      BY <1>0, <1>1 DEF Founded
    <2> QED BY <2>1 DEF MadeBy, Only
  <1>2. ASSUME en.type = "decision" PROVE en.decision.evidence = r.evidence
    <2>1. ShownBy(w, n, en.id, en.decision.evidence)
      BY <1>0, <1>2 DEF Founded
    <2> QED BY <2>1 DEF ShownBy, Only
  <1>3. ASSUME en.type = "state", en.to \in Governed
        PROVE  r.decision # NoDecision /\ r.decision.verdict = en.to
    <2>1. PICK d \in Decision : RuledBy(w, n, en.id, d) /\ d.verdict = en.to
      BY <1>0, <1>3 DEF Founded
    <2>2. d = r.decision
      BY <2>1 DEF RuledBy, Only
    <2> QED BY <1>0, <2>1, <2>2
  <1> QED BY <1>1, <1>2, <1>3 DEF Suits

(* It stays the only reading when the entry is applied. *)
LEMMA OnlyAfter ==
    ASSUME NEW r \in ExperimentRecord, NEW w, NEW n \in Nat, w[n + 1] \in GoodEntry,
           Only(r, w[n + 1].id, w, n), Admits(r, w[n + 1]),
           \A i \in 1..n : w[i] \in GoodEntry /\ Founded(w, i)
    PROVE  Only(After(r, w[n + 1]), w[n + 1].id, w, n + 1)
  <1> DEFINE en == w[n + 1]
             e == en.id
             a == After(r, en)
  <1>0. \A i \in 1..(n + 1) : i \in 1..n \/ i = n + 1
    OBVIOUS
  <1>1. /\ en.type \in {"created", "sealed", "evidence", "state", "decision"}
        /\ \A i \in 1..n : /\ w[i].type = "evidence" => w[i].evidence # Nil
                           /\ w[i].type = "decision" => w[i].decision # NoDecision
    BY NothingIsNothing DEF GoodEntry, EntryRecord, WellFormed
  <1>2. CASE en.type = "created"
    <2>1. a.known /\ a.spec = en.spec
      BY <1>2, AfterIs
    <2>2. ASSUME NEW i \in 1..n, w[i].id = e
          PROVE  w[i].type \notin {"created", "evidence", "decision"}
      <3>1. ~ r.known
        BY <1>2 DEF Admits
      <3>2. \A k \in 1..n : w[k].type = "created" => w[k].id # e
        BY <3>1 DEF Only
      <3>3. i - 1 \in Nat /\ \A k \in 1..(i - 1) : k \in 1..n /\ k - 1 \in Nat /\ k - 1 <= n
                /\ \A h \in 1..(k - 1) : h \in 1..n
        OBVIOUS
      <3>4. \A spec : ~ MadeBy(w, i - 1, e, spec)
        BY <3>2, <3>3 DEF MadeBy
      <3>5. \A ev : ~ ShownBy(w, i - 1, e, ev)
        BY <3>2, <3>3 DEF ShownBy, MadeBy
      <3> QED BY <2>2, <3>2, <3>4, <3>5 DEF Founded
    <2> QED BY <1>0, <1>2, <2>1, <2>2 DEF Only
  <1>3. CASE en.type # "created"
    <2>1. /\ a.known = r.known /\ a.spec = r.spec
          /\ a.evidence = IF en.type = "evidence" THEN en.evidence ELSE r.evidence
          /\ a.decision = IF en.type = "decision" THEN en.decision ELSE r.decision
      BY <1>3, AfterIs
    <2>2. ASSUME en.type = "evidence", NEW i \in 1..n, w[i].id = e, w[i].type = "evidence"
          PROVE  FALSE
      <3>1. r.evidence = Nil
        BY <2>2 DEF Admits
      <3>2. w[i].evidence = r.evidence
        BY <2>2 DEF Only
      <3> QED BY <1>1, <2>2, <3>1, <3>2
    <2>3. ASSUME en.type = "decision", NEW i \in 1..n, w[i].id = e, w[i].type = "decision"
          PROVE  FALSE
      <3>1. r.decision = NoDecision
        BY <2>3 DEF Admits
      <3>2. w[i].decision = r.decision
        BY <2>3 DEF Only
      <3> QED BY <1>1, <2>3, <3>1, <3>2
    <2> HIDE DEF a
    <2>4. Only(a, e, w, n + 1)
      BY <1>0, <1>3, <2>1, <2>2, <2>3 DEF Only
    <2> QED BY <2>4 DEF a
  <1> QED BY <1>2, <1>3

(* So a replay that succeeds yields traced records. *)
LEMMA ReplayTraces ==
    ASSUME NEW w, NEW m \in Nat, NEW f, ReplaysTo(f, w, m),
           \A i \in 1..m : w[i] \in GoodEntry /\ Founded(w, i)
    PROVE  \A n \in 0..m : f[n].up =>
               /\ f[n].recs \in Records
               /\ \A e \in Experiment : /\ Traced(f[n].recs[e], e, w, n)
                                        /\ Only(f[n].recs[e], e, w, n)
  <1> DEFINE Good(n) == f[n].up =>
               /\ f[n].recs \in Records
               /\ \A e \in Experiment : /\ Traced(f[n].recs[e], e, w, n)
                                        /\ Only(f[n].recs[e], e, w, n)
             S == {n \in Nat : n <= m => Good(n)}
  <1>1. 0 \in S
    <2>1. f[0] = Fresh
      BY DEF ReplaysTo
    <2>2. \A e \in Experiment : NoRecords[e] = Unknown
      BY DEF NoRecords
    <2>3. \A e \in Experiment : Traced(Unknown, e, w, 0) /\ Only(Unknown, e, w, 0)
      BY DEF Traced, Only, Unknown, Tradeable, LiveStates
    <2> QED BY <2>1, <2>2, <2>3, NoRecordsTyped DEF Fresh
  <1>2. ASSUME NEW n \in Nat, n \in S PROVE n + 1 \in S
    <2>1. SUFFICES ASSUME n + 1 <= m, f[n + 1].up PROVE Good(n + 1)
      OBVIOUS
    <2> DEFINE en == w[n + 1]
               recs == f[n].recs
    <2>2. n + 1 \in 0..m /\ n + 1 # 0 /\ (n + 1) - 1 = n /\ n <= m /\ n + 1 \in 1..m
          /\ n <= n + 1 /\ n + 1 \in Nat /\ \A i \in 1..n : i \in 1..m
      BY <2>1
    <2>3. f[n + 1] = ReplayEntry(f[n], en)
      BY <2>2 DEF ReplaysTo
    <2>4. f[n].up /\ Accepts(recs, en) /\ f[n + 1].recs = Applied(recs, en)
      BY <2>1, <2>3 DEF ReplayEntry, Refused
    <2>5. en \in GoodEntry /\ Founded(w, n + 1) /\ \A i \in 1..n : w[i] \in GoodEntry /\ Founded(w, i)
      BY <2>2
    <2>6. recs \in Records /\ \A e \in Experiment : Traced(recs[e], e, w, n) /\ Only(recs[e], e, w, n)
      BY <1>2, <2>2, <2>4
    <2>7. /\ Applied(recs, en) \in Records /\ en.id \in Experiment
          /\ recs[en.id] \in ExperimentRecord
          /\ \A e \in Experiment :
                 Applied(recs, en)[e] = IF e = en.id THEN After(recs[e], en) ELSE recs[e]
      BY <2>5, <2>6, AppliedIs
    <2>8. Admits(recs[en.id], en)
      BY <2>4, <2>5, AcceptsAdmits
    <2>9. Suits(recs[en.id], en)
      BY <2>5, <2>6, <2>7, FoundedSuits
    <2>10. Traced(After(recs[en.id], en), en.id, w, n + 1)
      BY <2>5, <2>6, <2>7, <2>8, <2>9, TracedAfter
    <2>11. Only(After(recs[en.id], en), en.id, w, n + 1)
      BY <2>5, <2>6, <2>7, <2>8, OnlyAfter
    <2>12. ASSUME NEW e \in Experiment, e # en.id
           PROVE  Traced(recs[e], e, w, n + 1) /\ Only(recs[e], e, w, n + 1)
      <3>1. Traced(recs[e], e, w, n + 1)
        BY <2>2, <2>6, HeldLonger
      <3>2. \A i \in 1..(n + 1) : i \in 1..n \/ w[i].id # e
        BY <2>12
      <3> QED BY <2>6, <3>1, <3>2 DEF Only
    <2> QED BY <2>4, <2>7, <2>10, <2>11, <2>12
  <1>3. \A n \in Nat : n \in S
    <2> HIDE DEF S
    <2> QED BY <1>1, <1>2, NumbersByInduction
  <1> QED BY <1>3

-----------------------------------------------------------------------------
(* The inductive invariant of the registry. *)

RegistryTypes ==
    /\ file \in Seq(Line) /\ open \in BOOLEAN
    /\ written \in Seq(GoodEntry)
    /\ mem \in [Proc -> [up : BOOLEAN, recs : Records]]
    /\ pending \in [Proc -> Experiment \cup {Nil}]
    /\ writes \in [Proc -> Nat] /\ faults \in Nat

(* Until the first bad line the log is what was written, and all of it as  *)
(* long as no line is bad; no append failed as long as none is.            *)
NoneBad == \A i \in DOMAIN file : file[i] # BadLine
LogIsWritten ==
    /\ NoneBad => file = written
    /\ \A i \in DOMAIN file : (\A j \in 1..i : file[j] # BadLine) =>
          i <= Len(written) /\ file[i] = written[i]
    /\ open => file # << >>
    /\ faults = 0 => NoneBad /\ ~ open

EntriesFounded == \A n \in DOMAIN written : Founded(written, n)
MemoryTraced ==
    \A p \in Proc, e \in Experiment : Traced(mem[p].recs[e], e, written, Len(written))

(* A decision whose transition is due can still make it. *)
PendingIsDue ==
    \A p \in Proc : pending[p] # Nil =>
        /\ mem[p].up
        /\ Rec(p, pending[p]).known /\ Rec(p, pending[p]).state = "IN_REVIEW"
        /\ Rec(p, pending[p]).decision # NoDecision

RegistryInv ==
    /\ RegistryTypes
    /\ LogIsWritten
    /\ EntriesFounded
    /\ MemoryTraced
    /\ PendingIsDue
    /\ TradedWasApproved
    /\ SoleWriterReplays

-----------------------------------------------------------------------------
(* What read_all keeps of the log is the beginning of what was written. *)
LEMMA KeptIsPrefix ==
    ASSUME RegistryTypes, LogIsWritten, ReadAll(file).ok
    PROVE  LET kept == ReadAll(file).entries
           IN  /\ kept \in Seq(Line)
               /\ Len(kept) <= Len(written)
               /\ \A i \in 1..Len(kept) : kept[i] = written[i]
  <1> DEFINE kept == ReadAll(file).entries
  <1>1. file \in Seq(Line) /\ written \in Seq(GoodEntry)
    BY DEF RegistryTypes
  <1>2. BadLine \notin ToSet(kept)
    BY DEF ReadAll
  <1>3. /\ kept \in Seq(Line) /\ Len(kept) <= Len(file)
        /\ \A i \in 1..Len(kept) : kept[i] = file[i]
    BY <1>1 DEF ReadAll, Front
  <1> HIDE DEF kept
  <1>4. \A i \in 1..Len(kept) : file[i] # BadLine
    BY <1>2, <1>3 DEF ToSet
  <1>5. \A i \in 1..Len(kept) : i \in DOMAIN file /\ \A j \in 1..i : j \in 1..Len(kept)
    BY <1>1, <1>3
  <1>6. \A i \in 1..Len(kept) : i <= Len(written) /\ file[i] = written[i]
    BY <1>4, <1>5 DEF LogIsWritten
  <1>7. Len(kept) <= Len(written)
    <2>1. CASE Len(kept) = 0
      BY <1>1, <2>1
    <2>2. CASE Len(kept) # 0
      <3>1. Len(kept) \in 1..Len(kept)
        BY <1>3, <2>2
      <3> QED BY <1>6, <3>1
    <2> QED BY <2>1, <2>2
  <1> QED BY <1>3, <1>6, <1>7 DEF kept

(* A log of whole lines replays to what its entries make. *)
LEMMA ReplayOfGood ==
    ASSUME NEW s \in Seq(GoodEntry)
    PROVE  Replay(s) = Replayed(s)[Len(s)]
  <1>1. \A i \in 1..Len(s) : s[i] # BadLine
    BY NothingIsNothing
  <1>2. s # << >> => Len(s) \in 1..Len(s)
    OBVIOUS
  <1>3. ~ (s # << >> /\ Last(s) = BadLine)
    BY <1>1, <1>2 DEF Last
  <1>4. BadLine \notin ToSet(s)
    BY <1>1 DEF ToSet
  <1>5. ReadAll(s) = [ok |-> TRUE, entries |-> s]
    BY <1>3, <1>4 DEF ReadAll
  <1> QED BY <1>5 DEF Replay

(* An append, whatever becomes of it. *)
LEMMA WriteKeepsLog ==
    ASSUME RegistryTypes, LogIsWritten, NEW en \in GoodEntry, NEW how \in Ending, Write(en, how)
    PROVE  /\ file' \in Seq(Line) /\ open' \in BOOLEAN /\ faults' \in Nat
           /\ LogIsWritten'
           /\ written' \in {written, Append(written, en)}
           /\ how = "done" => written' = Append(written, en)
           /\ faults' = 0 => how = "done" /\ faults = 0 /\ file' = Append(file, en)
  <1> USE DEF RegistryTypes
  <1> DEFINE base == IF open THEN Front(file) ELSE file
  <1>1. /\ file \in Seq(Line) /\ base \in Seq(Line) /\ Len(base) <= Len(file)
        /\ \A i \in 1..Len(base) : base[i] = file[i]
    BY DEF Front, LogIsWritten
  <1>2. written' \in {written, Append(written, en)} /\ written \in Seq(GoodEntry)
        /\ (how = "done" => written' = Append(written, en))
    BY DEF Write
  <1>3. /\ en \in Line /\ BadLine \in Line /\ en # BadLine
    BY NothingIsNothing DEF Line
  <1>4. \A i \in 1..Len(written) : i <= Len(written') /\ written'[i] = written[i]
    <2>1. Len(written) \in Nat
      BY <1>2
    <2>2. CASE written' = written
      BY <2>1, <2>2
    <2>3. CASE written' = Append(written, en)
      <3>1. \A w \in Seq(GoodEntry) : /\ Len(Append(w, en)) = Len(w) + 1
                                      /\ \A i \in 1..Len(w) : Append(w, en)[i] = w[i]
        OBVIOUS
      <3> QED BY <1>2, <2>1, <2>3, <3>1
    <2> QED BY <1>2, <2>2, <2>3
  <1>5. open' \in BOOLEAN /\ faults' \in Nat
        /\ (faults' = 0 => how = "done" /\ faults = 0)
    BY DEF Write
  <1>6. CASE ~ open /\ how # "part"
    <2>1. file' = Append(file, en) /\ written' = Append(written, en)
      BY <1>6 DEF Write
    <2>2. /\ file' \in Seq(Line) /\ Len(file') = Len(file) + 1
          /\ \A i \in 1..Len(file) : file'[i] = file[i]
          /\ file'[Len(file) + 1] = en
          /\ DOMAIN file' = 1..(Len(file) + 1) /\ DOMAIN file = 1..Len(file) /\ Len(file) \in Nat
      BY <1>1, <1>3, <2>1
    <2>0. \A i \in DOMAIN file' : i \in DOMAIN file \/ i = Len(file) + 1
      BY <2>2
    <2>3. NoneBad' <=> NoneBad
      <3>1. DOMAIN file \subseteq DOMAIN file'
        BY <2>2
      <3> QED BY <1>3, <2>0, <2>2, <3>1 DEF NoneBad
    <2>4. NoneBad' => file' = written'
      BY <2>1, <2>3 DEF LogIsWritten
    <2>5. ASSUME NEW i \in DOMAIN file', \A j \in 1..i : file'[j] # BadLine
          PROVE  i <= Len(written') /\ file'[i] = written'[i]
      <3>1. CASE i \in 1..Len(file)
        <4>1. \A j \in 1..i : j \in 1..Len(file)
          BY <3>1
        <4>0. i \in DOMAIN file /\ \A j \in 1..i : file[j] # BadLine
          BY <2>2, <2>5, <3>1, <4>1
        <4>2. i <= Len(written) /\ file[i] = written[i]
          BY <4>0 DEF LogIsWritten
        <4>3. i \in 1..Len(written)
          BY <1>2, <3>1, <4>2
        <4> QED BY <1>4, <2>2, <3>1, <4>2, <4>3
      <3>2. CASE i = Len(file) + 1
        <4>0. \A j \in DOMAIN file : j \in 1..i /\ file'[j] = file[j]
          BY <2>2, <3>2
        <4>1. NoneBad
          BY <2>5, <4>0 DEF NoneBad
        <4> QED BY <1>1, <2>1, <2>2, <2>3, <2>4, <3>2, <4>1
      <3> QED BY <1>1, <2>2, <2>5, <3>1, <3>2
    <2>6. file' # << >>
      BY <1>1, <2>1
    <2>7. faults' = 0 => NoneBad' /\ ~ open'
      BY <1>5, <2>3 DEF LogIsWritten, Write
    <2> QED BY <1>2, <1>5, <2>1, <2>2, <2>4, <2>5, <2>6, <2>7 DEF LogIsWritten
  <1>7. CASE open \/ how = "part"
    <2>1. file' = Append(base, BadLine)
      BY <1>7 DEF Write
    <2>2. /\ file' \in Seq(Line) /\ Len(file') = Len(base) + 1 /\ DOMAIN file' = 1..(Len(base) + 1)
          /\ \A i \in 1..Len(base) : file'[i] = file[i]
          /\ file'[Len(base) + 1] = BadLine /\ file' # << >>
      BY <1>1, <1>3, <2>1
    <2> HIDE DEF base
    <2>3. ~ NoneBad'
      BY <1>1, <2>2 DEF NoneBad
    <2>4. ASSUME NEW i \in DOMAIN file', \A j \in 1..i : file'[j] # BadLine
          PROVE  i <= Len(written') /\ file'[i] = written'[i]
      <3>1. i \in 1..Len(base) /\ i \in DOMAIN file /\ \A j \in 1..i : j \in 1..Len(base)
        <4>1. i # Len(base) + 1
          BY <2>2, <2>4
        <4> QED BY <1>1, <2>2, <4>1
      <3>2. i <= Len(written) /\ file[i] = written[i]
        BY <2>2, <2>4, <3>1 DEF LogIsWritten
      <3>3. i \in 1..Len(written)
        BY <1>1, <1>2, <3>1, <3>2
      <3> QED BY <1>4, <2>2, <3>1, <3>2, <3>3
    <2>5. faults' # 0
      <3>1. CASE how = "part"
        BY <1>5, <3>1
      <3>2. CASE open
        BY <1>5, <3>2 DEF LogIsWritten
      <3> QED BY <1>7, <3>1, <3>2
    <2> QED BY <1>2, <1>5, <2>2, <2>3, <2>4, <2>5 DEF LogIsWritten
  <1> QED BY <1>6, <1>7

(* A call that records an entry its memory accepts, and that suits the     *)
(* record it is about.                                                     *)
LEMMA RecordKeeps ==
    ASSUME RegistryInv, NEW p \in Proc, NEW en \in GoodEntry, mem[p].up,
           Accepts(mem[p].recs, en), Suits(Rec(p, en.id), en), Record(p, en),
           pending' \in [Proc -> Experiment \cup {Nil}]
    PROVE  /\ RegistryTypes' /\ LogIsWritten' /\ EntriesFounded' /\ MemoryTraced'
           /\ TradedWasApproved' /\ SoleWriterReplays'
           /\ \A q \in Proc : mem'[q].up = mem[q].up
           /\ \A q \in Proc \ {p} : mem'[q] = mem[q]
           /\ mem' # mem => mem'[p].recs = Applied(mem[p].recs, en)
  <1> DEFINE recs == mem[p].recs
  <1>1. PICK how \in Ending :
            /\ Write(en, how)
            /\ mem' = IF how = "done" THEN [mem EXCEPT ![p].recs = Applied(@, en)] ELSE mem
            /\ writes' = [writes EXCEPT ![p] = @ + 1]
            /\ UNCHANGED <<held, traded>>
    BY DEF Record
  <1>2. RegistryTypes /\ LogIsWritten
    BY DEF RegistryInv
  <1>3. /\ file' \in Seq(Line) /\ open' \in BOOLEAN /\ faults' \in Nat
        /\ LogIsWritten'
        /\ written' \in {written, Append(written, en)}
        /\ how = "done" => written' = Append(written, en)
        /\ faults' = 0 => how = "done" /\ faults = 0 /\ file' = Append(file, en)
    BY <1>1, <1>2, WriteKeepsLog
  <1>4. /\ written \in Seq(GoodEntry) /\ Len(written) \in Nat
        /\ mem \in [Proc -> [up : BOOLEAN, recs : Records]]
        /\ writes \in [Proc -> Nat] /\ recs \in Records /\ mem[p] = [up |-> TRUE, recs |-> recs]
    BY <1>2 DEF RegistryTypes
  <1>5. /\ Applied(recs, en) \in Records /\ en.id \in Experiment /\ recs[en.id] \in ExperimentRecord
        /\ \A e \in Experiment :
              Applied(recs, en)[e] = IF e = en.id THEN After(recs[e], en) ELSE recs[e]
    BY <1>4, AppliedIs
  <1>6. /\ mem' \in [Proc -> [up : BOOLEAN, recs : Records]]
        /\ \A q \in Proc : mem'[q].up = mem[q].up
        /\ \A q \in Proc \ {p} : mem'[q] = mem[q]
        /\ how = "done" => mem'[p] = [up |-> TRUE, recs |-> Applied(recs, en)]
        /\ how # "done" => mem' = mem
    <2>1. CASE how = "done"
      <3> DEFINE new == Applied(recs, en)
      <3>1. mem' = [mem EXCEPT ![p].recs = new]
        BY <1>1, <2>1
      <3>2. new \in Records
        BY <1>5
      <3> HIDE DEF new, recs
      <3>3. mem' \in [Proc -> [up : BOOLEAN, recs : Records]]
        BY <1>4, <3>1, <3>2
      <3>4. mem'[p] = [up |-> TRUE, recs |-> new]
        BY <1>4, <3>1
      <3> QED BY <1>4, <2>1, <3>1, <3>3, <3>4 DEF new
    <2>2. CASE how # "done"
      BY <1>1, <1>4, <2>2
    <2> QED BY <2>1, <2>2
  <1>7. written' \in Seq(GoodEntry) /\ RegistryTypes'
    <2>1. writes' \in [Proc -> Nat]
      BY <1>1, <1>4
    <2>2. CASE written' = written
      BY <1>3, <1>4, <1>6, <2>1, <2>2 DEF RegistryTypes
    <2>3. CASE written' = Append(written, en)
      <3>1. Append(written, en) \in Seq(GoodEntry)
        BY <1>4
      <3> QED BY <1>3, <1>6, <2>1, <2>3, <3>1 DEF RegistryTypes
    <2> QED BY <1>3, <2>2, <2>3
  <1>8. /\ Len(written) <= Len(written') /\ Len(written') \in Nat
        /\ \A i \in 1..Len(written) : written[i] = written'[i]
    <2>1. CASE written' = written
      BY <1>4, <2>1
    <2>2. CASE written' = Append(written, en)
      BY <1>4, <2>2
    <2> QED BY <1>3, <2>1, <2>2
  <1>9. ASSUME written' = Append(written, en)
        PROVE  /\ Traced(After(recs[en.id], en), en.id, written', Len(written'))
               /\ Founded(written', Len(written'))
               /\ Len(written') = Len(written) + 1
    <2>1. Len(written') = Len(written) + 1 /\ written'[Len(written) + 1] = en
      BY <1>4, <1>9
    <2>2. Traced(recs[en.id], en.id, written, Len(written))
      BY <1>5 DEF RegistryInv, MemoryTraced
    <2>3. Traced(recs[en.id], en.id, written', Len(written))
      <3>1. Len(written) <= Len(written)
        BY <1>4
      <3> HIDE DEF recs
      <3> QED BY <1>4, <1>8, <2>2, <3>1, HeldLonger
    <2>4. Admits(recs[en.id], en) /\ Suits(recs[en.id], en)
      BY AcceptsAdmits DEF Rec
    <2> DEFINE n == Len(written)
               r == recs[en.id]
    <2> HIDE DEF recs, r
    <2>5. /\ r \in ExperimentRecord /\ n \in Nat /\ written'[n + 1] \in GoodEntry
          /\ Traced(r, written'[n + 1].id, written', n)
          /\ Admits(r, written'[n + 1]) /\ Suits(r, written'[n + 1])
      BY <1>4, <1>5, <2>1, <2>3, <2>4 DEF r
    <2>6. Traced(After(r, written'[n + 1]), written'[n + 1].id, written', n + 1)
          /\ Founded(written', n + 1)
      BY <2>5, TracedAfter
    <2> QED BY <2>1, <2>6 DEF r, recs
  <1>10. EntriesFounded'
    <2>1. ASSUME NEW n \in 1..Len(written) PROVE Founded(written', n)
      <3>1. Founded(written, n)
        BY <1>4 DEF RegistryInv, EntriesFounded
      <3>2. n - 1 \in Nat /\ written'[n] = written[n] /\ \A i \in 1..(n - 1) : written[i] = written'[i]
        BY <1>4, <1>8
      <3>3. /\ \A e, spec : MadeBy(written, n - 1, e, spec) => MadeBy(written', n - 1, e, spec)
            /\ \A e, ev : ShownBy(written, n - 1, e, ev) => ShownBy(written', n - 1, e, ev)
            /\ \A e, d : RuledBy(written, n - 1, e, d) => RuledBy(written', n - 1, e, d)
        <4>1. n - 1 <= n - 1
          BY <3>2
        <4> QED BY <3>2, <4>1, HeldLonger
      <3> QED BY <3>1, <3>2, <3>3 DEF Founded
    <2>2. CASE written' = written
      BY <1>4, <2>1, <2>2 DEF EntriesFounded
    <2>3. CASE written' = Append(written, en)
      <3>1. \A n \in DOMAIN written' : n \in 1..Len(written) \/ n = Len(written')
        BY <1>4, <1>7, <1>9, <2>3
      <3> QED BY <1>9, <2>1, <2>3, <3>1 DEF EntriesFounded
    <2> QED BY <1>3, <2>2, <2>3
  <1>11. MemoryTraced'
    <2>1. ASSUME NEW q \in Proc, NEW e \in Experiment
          PROVE  Traced(mem[q].recs[e], e, written', Len(written'))
      <3>1. Traced(mem[q].recs[e], e, written, Len(written))
        BY DEF RegistryInv, MemoryTraced
      <3>2. \A r : Traced(r, e, written, Len(written)) => Traced(r, e, written', Len(written'))
        BY <1>4, <1>8, HeldLonger
      <3> QED BY <3>1, <3>2
    <2>2. ASSUME NEW e \in Experiment
          PROVE  Traced(mem'[p].recs[e], e, written', Len(written'))
      <3>1. CASE how = "done" /\ e = en.id
        BY <1>3, <1>5, <1>6, <1>9, <3>1
      <3>2. CASE ~ (how = "done" /\ e = en.id)
        BY <1>5, <1>6, <2>1, <3>2
      <3> QED BY <3>1, <3>2
    <2>3. ASSUME NEW q \in Proc, NEW e \in Experiment
          PROVE  Traced(mem'[q].recs[e], e, written', Len(written'))
      BY <1>6, <2>1, <2>2
    <2> QED BY <2>3 DEF MemoryTraced
  <1>12. TradedWasApproved'
    <2>1. DOMAIN written \subseteq DOMAIN written' /\ \A i \in DOMAIN written : written'[i] = written[i]
      BY <1>4, <1>7, <1>8
    <2>2. TradedWasApproved /\ traded' = traded
      BY <1>1 DEF RegistryInv
    <2> QED BY <2>1, <2>2 DEF TradedWasApproved
  <1>13. SoleWriterReplays'
    <2> SUFFICES ASSUME NEW q \in Proc, mem'[q].up, faults' = 0,
                        \A x \in Proc \ {q} : writes'[x] = 0
                 PROVE  Replay(file') = mem'[q]
      BY DEF SoleWriterReplays
    <2>1. writes'[p] # 0 /\ \A x \in Proc \ {p} : writes'[x] = writes[x]
      BY <1>1, <1>4
    <2>2. q = p
      BY <2>1
    <2>3. Replay(file) = mem[p]
      BY <1>3, <2>1, <2>2 DEF RegistryInv, SoleWriterReplays
    <2>4. file = written /\ file' = Append(file, en) /\ how = "done"
      BY <1>2, <1>3 DEF LogIsWritten
    <2>5. Replayed(file)[Len(file)] = mem[p]
      BY <1>4, <2>3, <2>4, ReplayOfGood
    <2>6. file' \in Seq(GoodEntry) /\ Len(file') = Len(file) + 1
      BY <1>4, <2>4
    <2>7. Replay(file') = ReplayEntry(mem[p], en)
      <3>1. file \in Seq(GoodEntry)
        BY <1>4, <2>4
      <3>2. Replay(file') = Replayed(file')[Len(file) + 1]
        BY <2>6, ReplayOfGood
      <3>3. Replayed(Append(file, en))[Len(file) + 1] = ReplayEntry(Replayed(file)[Len(file)], en)
        BY <3>1, ReplayedAppend
      <3> QED BY <2>4, <2>5, <3>2, <3>3
    <2>8. ReplayEntry(mem[p], en) = [up |-> TRUE, recs |-> Applied(recs, en)]
      BY DEF ReplayEntry
    <2> QED BY <1>6, <2>2, <2>4, <2>7, <2>8
  <1> QED BY <1>3, <1>6, <1>7, <1>10, <1>11, <1>12, <1>13

(* A call that leaves no decision half recorded. *)
LEMMA CallKeeps ==
    ASSUME RegistryInv, NEW p \in Proc, NEW en \in GoodEntry, Ready(p),
           Accepts(mem[p].recs, en), Suits(Rec(p, en.id), en), Record(p, en), UNCHANGED pending
    PROVE  RegistryInv'
  <1>1. mem[p].up /\ pending[p] = Nil
    BY DEF Ready
  <1>2. pending' \in [Proc -> Experiment \cup {Nil}]
    BY DEF RegistryInv, RegistryTypes
  <1>3. /\ RegistryTypes' /\ LogIsWritten' /\ EntriesFounded' /\ MemoryTraced'
        /\ TradedWasApproved' /\ SoleWriterReplays'
        /\ \A q \in Proc \ {p} : mem'[q] = mem[q]
    BY <1>1, <1>2, RecordKeeps
  <1>4. PendingIsDue'
    BY <1>1, <1>3 DEF RegistryInv, PendingIsDue, Rec
  <1> QED BY <1>3, <1>4 DEF RegistryInv

LEMMA CreateKeeps ==
    ASSUME RegistryInv, NEW p \in Proc, NEW e \in Experiment, NEW spec \in Content,
           NEW parent \in Experiment \cup {Nil}, Create(p, e, spec, parent)
    PROVE  RegistryInv'
  <1> DEFINE en == [Entry("created", e) EXCEPT !.spec = spec, !.parent = parent]
  <1>1. /\ en \in GoodEntry /\ en.type = "created" /\ en.id = e /\ en.parent = parent
    BY DEF Entry, GoodEntry, EntryRecord, WellFormed, EvidenceOrNil, DecisionOrNone
  <1>2. Ready(p) /\ Record(p, en) /\ UNCHANGED pending
        /\ ~ Rec(p, e).known /\ (parent # Nil => Rec(p, parent).known)
    BY DEF Create
  <1> HIDE DEF en
  <1>3. Accepts(mem[p].recs, en) /\ Suits(Rec(p, en.id), en)
    BY <1>1, <1>2 DEF Accepts, Suits, Rec
  <1> QED BY <1>1, <1>2, <1>3, CallKeeps

LEMMA SealKeeps ==
    ASSUME RegistryInv, NEW p \in Proc, NEW e \in Experiment, Seal(p, e)
    PROVE  RegistryInv'
  <1> DEFINE en == Entry("sealed", e)
  <1>1. en \in GoodEntry /\ en.type = "sealed" /\ en.id = e
    BY DEF Entry, GoodEntry, EntryRecord, WellFormed, EvidenceOrNil, DecisionOrNone
  <1>2. Ready(p) /\ Record(p, en) /\ UNCHANGED pending /\ Rec(p, e).known /\ ~ Rec(p, e).sealed
    BY DEF Seal
  <1> HIDE DEF en
  <1>3. Accepts(mem[p].recs, en) /\ Suits(Rec(p, en.id), en)
    BY <1>1, <1>2 DEF Accepts, Suits, Rec
  <1> QED BY <1>1, <1>2, <1>3, CallKeeps

LEMMA AttachKeeps ==
    ASSUME RegistryInv, NEW p \in Proc, NEW e \in Experiment, NEW ev \in Evidence,
           AttachEvidence(p, e, ev)
    PROVE  RegistryInv'
  <1> DEFINE en == [Entry("evidence", e) EXCEPT !.evidence = ev]
  <1>1. en \in GoodEntry /\ en.type = "evidence" /\ en.id = e /\ en.evidence = ev
    BY DEF Entry, GoodEntry, EntryRecord, WellFormed, EvidenceOrNil, DecisionOrNone
  <1>2. /\ Ready(p) /\ Record(p, en) /\ UNCHANGED pending
        /\ Rec(p, e).known /\ Rec(p, e).sealed /\ Rec(p, e).evidence = Nil
        /\ Rec(p, e).spec = ev[1]
    BY DEF AttachEvidence, ForItsSpecification
  <1> HIDE DEF en
  <1>3. Accepts(mem[p].recs, en) /\ Suits(Rec(p, en.id), en)
    BY <1>1, <1>2 DEF Accepts, Suits, Rec
  <1> QED BY <1>1, <1>2, <1>3, CallKeeps

(* The entry of a move between states. *)
LEMMA StateEntryIs ==
    ASSUME RegistryInv, NEW p \in Proc, NEW e \in Experiment, NEW to \in LifecycleState
    PROVE  LET en == StateEntry(p, e, to)
           IN  /\ en \in GoodEntry /\ en.type = "state" /\ en.id = e
               /\ en.from = Rec(p, e).state /\ en.to = to
  <1>1. Rec(p, e).state \in LifecycleState
    BY DEF RegistryInv, RegistryTypes, Records, ExperimentRecord, Rec
  <1> QED BY <1>1 DEF StateEntry, Entry, GoodEntry, EntryRecord, WellFormed, EvidenceOrNil,
                      DecisionOrNone

LEMMA TransitionKeeps ==
    ASSUME RegistryInv, NEW p \in Proc, NEW e \in Experiment, NEW to \in LifecycleState,
           Transition(p, e, to)
    PROVE  RegistryInv'
  <1> DEFINE en == StateEntry(p, e, to)
  <1>1. /\ en \in GoodEntry /\ en.type = "state" /\ en.id = e
        /\ en.from = Rec(p, e).state /\ en.to = to
    BY StateEntryIs
  <1>2. /\ Ready(p) /\ Record(p, en) /\ UNCHANGED pending
        /\ Rec(p, e).known /\ to \notin Governed /\ IsLegalTransition(Rec(p, e).state, to)
    BY DEF Transition, MayEnter
  <1> HIDE DEF en
  <1>3. Accepts(mem[p].recs, en) /\ Suits(Rec(p, en.id), en)
    BY <1>1, <1>2 DEF Accepts, Suits, Rec
  <1> QED BY <1>1, <1>2, <1>3, CallKeeps

LEMMA DecideKeeps ==
    ASSUME RegistryInv, NEW p \in Proc, NEW e \in Experiment, NEW d \in Decision,
           Decide(p, e, d)
    PROVE  RegistryInv'
  <1> DEFINE en == [Entry("decision", e) EXCEPT !.decision = d]
  <1>1. en \in GoodEntry /\ en.type = "decision" /\ en.id = e /\ en.decision = d
    BY DEF Entry, GoodEntry, EntryRecord, WellFormed, EvidenceOrNil, DecisionOrNone
  <1>2. /\ mem[p].up /\ Record(p, en)
        /\ pending' = [pending EXCEPT ![p] = IF mem' = mem THEN Nil ELSE e]
        /\ Rec(p, e).known /\ Rec(p, e).state = "IN_REVIEW" /\ Rec(p, e).evidence = d.evidence
        /\ Rec(p, e).decision = NoDecision
    BY DEF Decide, OnItsEvidence, Ready
  <1> HIDE DEF en
  <1>3. Accepts(mem[p].recs, en) /\ Suits(Rec(p, en.id), en)
    BY <1>1, <1>2 DEF Accepts, Suits, Rec
  <1>4. pending \in [Proc -> Experiment \cup {Nil}] /\ mem[p].recs \in Records
    BY DEF RegistryInv, RegistryTypes
  <1>5. pending' \in [Proc -> Experiment \cup {Nil}]
    BY <1>2, <1>4
  <1>6. /\ RegistryTypes' /\ LogIsWritten' /\ EntriesFounded' /\ MemoryTraced'
        /\ TradedWasApproved' /\ SoleWriterReplays'
        /\ \A q \in Proc : mem'[q].up = mem[q].up
        /\ \A q \in Proc \ {p} : mem'[q] = mem[q]
        /\ mem' # mem => mem'[p].recs = Applied(mem[p].recs, en)
    BY <1>1, <1>2, <1>3, <1>5, RecordKeeps
  <1>7. ASSUME mem' # mem
        PROVE  LET r == mem'[p].recs[e]
               IN  r.known /\ r.state = "IN_REVIEW" /\ r.decision # NoDecision
    <2>1. mem'[p].recs[e] = After(Rec(p, e), en) /\ Rec(p, e) \in ExperimentRecord
      BY <1>1, <1>4, <1>6, <1>7, AppliedIs DEF Rec
    <2> QED BY <1>1, <1>2, <2>1, AfterIs, NothingIsNothing
  <1>8. PendingIsDue'
    <2>1. ASSUME NEW q \in Proc \ {p}, pending'[q] # Nil
          PROVE  /\ mem'[q].up
                 /\ mem'[q].recs[pending'[q]].known /\ mem'[q].recs[pending'[q]].state = "IN_REVIEW"
                 /\ mem'[q].recs[pending'[q]].decision # NoDecision
      <3>1. pending'[q] = pending[q] /\ mem'[q] = mem[q]
        BY <1>2, <1>4, <1>6
      <3> QED BY <2>1, <3>1 DEF RegistryInv, PendingIsDue, Rec
    <2>2. ASSUME pending'[p] # Nil
          PROVE  /\ mem'[p].up
                 /\ mem'[p].recs[pending'[p]].known /\ mem'[p].recs[pending'[p]].state = "IN_REVIEW"
                 /\ mem'[p].recs[pending'[p]].decision # NoDecision
      <3>1. mem' # mem /\ pending'[p] = e
        BY <1>2, <1>4, <2>2
      <3> QED BY <1>2, <1>6, <1>7, <3>1
    <2> QED BY <2>1, <2>2 DEF PendingIsDue, Rec
  <1> QED BY <1>6, <1>8 DEF RegistryInv

LEMMA FinishKeeps ==
    ASSUME RegistryInv, NEW p \in Proc, FinishDecision(p)
    PROVE  RegistryInv'
  <1> DEFINE e == pending[p]
             to == Rec(p, e).decision.verdict
             en == StateEntry(p, e, to)
  <1>1. /\ mem[p].up /\ e # Nil /\ Record(p, en)
        /\ pending' = [pending EXCEPT ![p] = Nil]
    BY DEF FinishDecision
  <1>2. pending \in [Proc -> Experiment \cup {Nil}] /\ mem[p].recs \in Records
    BY DEF RegistryInv, RegistryTypes
  <1>3. /\ e \in Experiment
        /\ Rec(p, e).known /\ Rec(p, e).state = "IN_REVIEW" /\ Rec(p, e).decision # NoDecision
    BY <1>1, <1>2 DEF RegistryInv, PendingIsDue
  <1>4. to \in Governed
    BY <1>2, <1>3 DEF Records, ExperimentRecord, DecisionOrNone, Decision, Rec
  <1> HIDE DEF to, e
  <1>5. to \in LifecycleState /\ IsLegalTransition("IN_REVIEW", to)
    BY <1>4, StatesMove
  <1>6. /\ en \in GoodEntry /\ en.type = "state" /\ en.id = e
        /\ en.from = Rec(p, e).state /\ en.to = to
    BY <1>3, <1>5, StateEntryIs
  <1> HIDE DEF en
  <1>7. Accepts(mem[p].recs, en) /\ Suits(Rec(p, en.id), en)
    BY <1>3, <1>5, <1>6 DEF Accepts, Suits, Rec, to
  <1>8. pending' \in [Proc -> Experiment \cup {Nil}]
    BY <1>1, <1>2
  <1>9. /\ RegistryTypes' /\ LogIsWritten' /\ EntriesFounded' /\ MemoryTraced'
        /\ TradedWasApproved' /\ SoleWriterReplays'
        /\ \A q \in Proc \ {p} : mem'[q] = mem[q]
    BY <1>1, <1>6, <1>7, <1>8, RecordKeeps
  <1>10. \A q \in Proc : pending'[q] = IF q = p THEN Nil ELSE pending[q]
    BY <1>1, <1>2
  <1>11. PendingIsDue'
    BY <1>9, <1>10 DEF RegistryInv, PendingIsDue, Rec
  <1> QED BY <1>9, <1>11 DEF RegistryInv

(* A new process takes the log as it stands. *)
LEMMA StartKeeps ==
    ASSUME RegistryInv, NEW p \in Proc, Start(p)
    PROVE  RegistryInv'
  <1> DEFINE kept == ReadAll(file).entries
             m == Len(kept)
             f == Replayed(kept)
             got == Replay(file)
  <1>1. /\ ~ mem[p].up /\ got.up
        /\ mem' = [mem EXCEPT ![p] = got]
        /\ UNCHANGED <<file, open, pending, held, written, writes, traded, faults>>
    BY DEF Start
  <1>2. RegistryTypes /\ LogIsWritten
    BY DEF RegistryInv
  <1>3. /\ written \in Seq(GoodEntry) /\ Len(written) \in Nat
        /\ mem \in [Proc -> [up : BOOLEAN, recs : Records]]
    BY <1>2 DEF RegistryTypes
  <1>4. ReadAll(file).ok /\ got = f[m]
    BY <1>1 DEF Replay, Refused
  <1>5. kept \in Seq(Line) /\ m <= Len(written) /\ \A i \in 1..m : kept[i] = written[i]
    BY <1>2, <1>4, KeptIsPrefix
  <1> HIDE DEF kept
  <1>6. m \in Nat /\ m \in 0..m
    BY <1>5
  <1>7. ReplaysTo(f, kept, m)
    BY <1>5, ReplayedIs
  <1>8. ReplaysTo(f, written, m)
    <2>1. \A n \in 0..m : n # 0 => n \in 1..m
      BY <1>6
    <2> QED BY <1>5, <1>7, <2>1 DEF ReplaysTo
  <1>9. \A i \in 1..m : written[i] \in GoodEntry /\ Founded(written, i)
    <2>1. \A i \in 1..m : i \in DOMAIN written
      BY <1>3, <1>5, <1>6
    <2> QED BY <1>3, <2>1 DEF RegistryInv, EntriesFounded
  <1> HIDE DEF m, f, got
  <1>10. got.recs \in Records /\ \A e \in Experiment : Traced(got.recs[e], e, written, m)
    BY <1>1, <1>4, <1>6, <1>8, <1>9, ReplayTraces
  <1>11. \A e \in Experiment : Traced(got.recs[e], e, written, Len(written))
    BY <1>3, <1>5, <1>6, <1>10, HeldLonger DEF m
  <1>12. \E recs : got = [up |-> TRUE, recs |-> recs]
    <2>1. CASE m = 0
      <3>1. f[0] = Fresh
        BY <1>6, <1>8, <2>1 DEF ReplaysTo
      <3> QED BY <1>4, <2>1, <3>1 DEF Fresh
    <2>2. CASE m # 0
      <3>1. f[m] = ReplayEntry(f[m - 1], written[m])
        BY <1>6, <1>8, <2>2 DEF ReplaysTo
      <3>2. f[m].up
        BY <1>1, <1>4
      <3>3. ReplayEntry(f[m - 1], written[m]) # Refused
        BY <3>1, <3>2 DEF Refused
      <3>4. f[m] = [up |-> TRUE, recs |-> Applied(f[m - 1].recs, written[m])]
        BY <3>1, <3>3 DEF ReplayEntry
      <3> QED BY <1>4, <3>4
    <2> QED BY <2>1, <2>2
  <1>13. RegistryTypes'
    <2>0. PICK recs : got = [up |-> TRUE, recs |-> recs]
      BY <1>12
    <2>1. got \in [up : BOOLEAN, recs : Records]
      <3>1. recs \in Records
        BY <1>10, <2>0
      <3> QED BY <2>0, <3>1
    <2>2. mem' \in [Proc -> [up : BOOLEAN, recs : Records]]
      BY <1>1, <1>3, <2>1
    <2> QED BY <1>1, <1>2, <2>2 DEF RegistryTypes
  <1>14. \A q \in Proc : mem'[q] = IF q = p THEN got ELSE mem[q]
    BY <1>1, <1>3
  <1>15. LogIsWritten' /\ EntriesFounded' /\ TradedWasApproved'
    BY <1>1 DEF RegistryInv, LogIsWritten, NoneBad, EntriesFounded, TradedWasApproved
  <1>16. MemoryTraced'
    BY <1>1, <1>11, <1>14 DEF RegistryInv, MemoryTraced
  <1>17. PendingIsDue'
    BY <1>1, <1>14 DEF RegistryInv, PendingIsDue, Rec
  <1>18. SoleWriterReplays'
    BY <1>1, <1>14 DEF RegistryInv, SoleWriterReplays, got
  <1> QED BY <1>13, <1>15, <1>16, <1>17, <1>18 DEF RegistryInv

(* What some registry holds approved was approved, in the log. *)
LEMMA TradeKeeps ==
    ASSUME RegistryInv, NEW p \in Proc, NEW spec \in Content, Trade(p, spec)
    PROVE  RegistryInv'
  <1>1. /\ spec \in Approved(p) /\ traded' = traded \cup {spec}
        /\ UNCHANGED <<file, open, mem, pending, held, written, writes, faults>>
    BY DEF Trade, LiveSpecifications
  <1>2. PICK e \in Experiment : Rec(p, e).known /\ Rec(p, e).state \in Tradeable /\ Rec(p, e).spec = spec
    BY <1>1 DEF Approved, ApprovedExperiments, ListExperiments, Rec
  <1> DEFINE r == Rec(p, e)
             n == Len(written)
  <1>3. /\ written \in Seq(GoodEntry) /\ n \in Nat /\ DOMAIN written = 1..n
        /\ r \in ExperimentRecord
    BY DEF RegistryInv, RegistryTypes, Records, Rec
  <1>4. Traced(r, e, written, n)
    BY DEF RegistryInv, MemoryTraced, Rec
  <1> HIDE DEF r, n
  <1>5. /\ r.known /\ r.state \in Tradeable /\ r.spec = spec
        /\ r.decision # NoDecision /\ r.decision.verdict = "APPROVED"
        /\ RuledBy(written, n, e, r.decision) /\ r.decision.evidence = r.evidence
    BY <1>2, <1>4 DEF Traced, r
  <1>6. r.decision \in Decision
    BY <1>3, <1>5 DEF ExperimentRecord, DecisionOrNone
  <1>7. r.evidence \in Evidence /\ r.decision.proposer # r.decision.reviewer
    BY <1>5, <1>6 DEF Decision
  <1>8. r.evidence[1] = spec
    BY <1>4, <1>5, <1>7, NothingIsNothing DEF Traced
  <1>9. PICK k \in 1..n : /\ written[k].type = "decision" /\ written[k].id = e
                          /\ written[k].decision = r.decision
                          /\ ShownBy(written, k - 1, e, r.evidence)
    BY <1>5 DEF RuledBy
  <1>10. PICK j \in 1..(k - 1) : /\ written[j].type = "evidence" /\ written[j].id = e
                                 /\ written[j].evidence = r.evidence
                                 /\ MadeBy(written, j - 1, e, spec)
    BY <1>8, <1>9 DEF ShownBy
  <1>11. PICK i \in 1..(j - 1) : /\ written[i].type = "created" /\ written[i].id = e
                                 /\ written[i].spec = spec
    BY <1>10 DEF MadeBy
  <1>12. i \in DOMAIN written /\ j \in DOMAIN written /\ k \in DOMAIN written /\ i < j /\ j < k
    BY <1>3, <1>9, <1>10, <1>11
  <1>13. TradedWasApproved'
    <2>1. TradedWasApproved
      BY DEF RegistryInv
    <2>2. \E x \in Experiment, a, b, c \in DOMAIN written :
            /\ a < b /\ b < c
            /\ written[a].type = "created" /\ written[a].id = x /\ written[a].spec = spec
            /\ written[b].type = "evidence" /\ written[b].id = x
            /\ written[c].type = "decision" /\ written[c].id = x
            /\ written[c].decision.verdict = "APPROVED"
            /\ written[c].decision.evidence = written[b].evidence
            /\ written[b].evidence[1] = spec
            /\ written[c].decision.proposer # written[c].decision.reviewer
      BY <1>5, <1>7, <1>8, <1>9, <1>10, <1>11, <1>12
    <2> QED BY <1>1, <2>1, <2>2 DEF TradedWasApproved
  <1>14. RegistryTypes' /\ LogIsWritten' /\ EntriesFounded' /\ MemoryTraced' /\ PendingIsDue'
         /\ SoleWriterReplays'
    BY <1>1 DEF RegistryInv, RegistryTypes, LogIsWritten, NoneBad, EntriesFounded, MemoryTraced,
                PendingIsDue, SoleWriterReplays, Rec
  <1> QED BY <1>13, <1>14 DEF RegistryInv

LEMMA RegistryInitial == Init => RegistryInv
  <1> SUFFICES ASSUME Init PROVE RegistryInv
    OBVIOUS
  <1> USE DEF Init
  <1>1. RegistryTypes
    <2>1. Init => file \in Seq(Line) /\ written \in Seq(GoodEntry)
      OBVIOUS
    <2> QED BY <2>1, NoRecordsTyped DEF RegistryTypes
  <1>2. LogIsWritten
    BY DEF LogIsWritten, NoneBad
  <1>3. EntriesFounded
    BY DEF EntriesFounded
  <1>4. MemoryTraced
    <2>1. \A e \in Experiment : NoRecords[e] = Unknown
      BY DEF NoRecords
    <2>2. \A e \in Experiment : Traced(Unknown, e, << >>, 0)
      BY DEF Traced, Unknown, Tradeable, LiveStates
    <2> QED BY <2>1, <2>2 DEF MemoryTraced
  <1>5. PendingIsDue /\ TradedWasApproved /\ SoleWriterReplays
    BY DEF PendingIsDue, TradedWasApproved, SoleWriterReplays
  <1> QED BY <1>1, <1>2, <1>3, <1>4, <1>5 DEF RegistryInv

LEMMA RegistryStep ==
    ASSUME RegistryInv, [Next]_vars
    PROVE  RegistryInv'
  <1>1. CASE UNCHANGED vars
    BY <1>1 DEF vars, RegistryInv, RegistryTypes, LogIsWritten, NoneBad, EntriesFounded,
                MemoryTraced, PendingIsDue, TradedWasApproved, SoleWriterReplays, Rec
  <1>2. CASE Next
    <2>1. PICK p \in Proc :
            \/ \E e \in About[p] :
                  \/ \E spec \in Content, parent \in Experiment \cup {Nil} :
                        Create(p, e, spec, parent)
                  \/ Seal(p, e)
                  \/ \E ev \in Evidence : AttachEvidence(p, e, ev)
                  \/ \E to \in LifecycleState : Transition(p, e, to)
                  \/ FreezeDegraded(p, e)
                  \/ \E d \in Decision : Decide(p, e, d)
            \/ FinishDecision(p)
            \/ BuildStrategy(p)
            \/ \E spec \in Content : Trade(p, spec)
            \/ Start(p)
      BY <1>2 DEF Next
    <2>2. ASSUME NEW e \in About[p],
                 \/ \E spec \in Content, parent \in Experiment \cup {Nil} :
                       Create(p, e, spec, parent)
                 \/ Seal(p, e)
                 \/ \E ev \in Evidence : AttachEvidence(p, e, ev)
                 \/ \E to \in LifecycleState : Transition(p, e, to)
                 \/ FreezeDegraded(p, e)
                 \/ \E d \in Decision : Decide(p, e, d)
          PROVE  RegistryInv'
      <3>1. e \in Experiment
        BY RegistryAssumption
      <3>2. "FROZEN" \in LifecycleState
        <4>1. <<"SHAKEDOWN", "FROZEN">> \in Moves /\ <<"SHAKEDOWN", "FROZEN">>[2] = "FROZEN"
          BY DEF Moves
        <4> QED BY <4>1 DEF LifecycleState
      <3>3. FreezeDegraded(p, e) => RegistryInv'
        BY <3>1, <3>2, TransitionKeeps DEF FreezeDegraded
      <3> QED BY <2>2, <3>1, <3>3, CreateKeeps, SealKeeps, AttachKeeps, TransitionKeeps, DecideKeeps
    <2>3. CASE BuildStrategy(p)
      BY <2>3 DEF BuildStrategy, RegistryInv, RegistryTypes, LogIsWritten, NoneBad, EntriesFounded,
                  MemoryTraced, PendingIsDue, TradedWasApproved, SoleWriterReplays, Rec
    <2> QED BY <2>1, <2>2, <2>3, FinishKeeps, TradeKeeps, StartKeeps
  <1> QED BY <1>1, <1>2

(* Everything the registry's processes hold is founded in the log. *)
LEMMA RegistryHolds == Spec => []RegistryInv
  <1>1. Init => RegistryInv
    BY RegistryInitial
  <1>2. RegistryInv /\ [Next]_vars => RegistryInv'
    BY RegistryStep
  <1> QED BY <1>1, <1>2, PTL DEF Spec

(* What any strategy trades (execution_bridge) was created, given evidence *)
(* for that very specification and approved on it by a second person, in   *)
(* that order in the log, however many processes wrote, restarted or had   *)
(* their appends cut short.                                                *)
THEOREM NothingTradesUnapproved == Spec => []TradedWasApproved
  <1>1. RegistryInv => TradedWasApproved
    BY DEF RegistryInv
  <1> QED BY <1>1, RegistryHolds, PTL

(* read_all never yields a history with something missing from its middle: *)
(* a torn or damaged line hides the end of what was written or refuses     *)
(* the log.                                                                *)
THEOREM LogReadsAPrefix == Spec => []ReadsAPrefix
  <1>1. RegistryInv => ReadsAPrefix
    <2> SUFFICES ASSUME RegistryInv, ReadAll(file).ok
                 PROVE  IsPrefix(ReadAll(file).entries, written)
      BY DEF ReadsAPrefix
    <2> DEFINE kept == ReadAll(file).entries
    <2>1. RegistryTypes /\ LogIsWritten
      BY DEF RegistryInv
    <2>2. kept \in Seq(Line) /\ Len(kept) <= Len(written) /\ \A i \in 1..Len(kept) : kept[i] = written[i]
      BY <2>1, KeptIsPrefix
    <2>3. written \in Seq(GoodEntry)
      BY <2>1 DEF RegistryTypes
    <2> HIDE DEF kept
    <2>4. IsPrefix(kept, written)
      <3>1. SubSeq(written, 1, Len(kept)) = kept
        BY <2>2, <2>3
      <3> QED BY <2>2, <2>3, <3>1 DEF IsPrefix
    <2> QED BY <2>4 DEF kept
  <1> QED BY <1>1, RegistryHolds, PTL

(* The calls check what the replay checks: while one process writes and    *)
(* every append completes, restarting it changes nothing.                  *)
THEOREM SoleWriterIsReplayed == Spec => []SoleWriterReplays
  <1>1. RegistryInv => SoleWriterReplays
    BY DEF RegistryInv
  <1> QED BY <1>1, RegistryHolds, PTL

(***************************************************************************)
(* The collected series                                                    *)
(***************************************************************************)

Observation == [at : Instant, value : Nat]
OnePerInstant(rows) == \A r, q \in rows : r.at = q.at => r = q
Ascending(rows) == \A i, j \in DOMAIN rows : i < j => rows[i].at < rows[j].at

(* A period of a Binance series is there whole or not at all. *)
Whole(s, rows) ==
    s \in BinanceSeries => \A r \in rows : Expected(s, PeriodOf(r.at)) \subseteq InstantsOf(rows)

(* Nothing is missing of series s at t. *)
OnDisk(s, t) == (s = "mark_price" /\ t \in ZeroAt) \/ t \in InstantsOf(ToSet(disk[s]))

(* What a call of the Binance collectors sets out to write. *)
BinanceOrders ==
    {<<"open_interest">>, <<"mark_price">>, <<"open_interest", "mark_price">>, <<"funding_binance">>}

Haul == UNION {[S -> SUBSET Observation] : S \in SUBSET Series}
Collection ==
    [series : Seq(Series), todo : SUBSET (1..Periods), cursor : Int, end : Int, got : Haul,
     owed : SUBSET (Series \X Instant)]

HistoryTypes ==
    /\ archive \in [{"metrics", "funding"} -> [1..Periods -> Nat]]
    /\ settled \in Nat
    /\ disk \in [Series -> Seq(Observation)]
    /\ call # NoCall => call \in Collection
    /\ promised \subseteq Series \X Instant

DiskSound == \A s \in Series : Ascending(disk[s]) /\ Whole(s, ToSet(disk[s]))

(* A call holds what it fetched: whole periods, each fetched once.  It     *)
(* fetches for the series it set out for, and until it has fetched all it  *)
(* writes none.                                                            *)
HaulSound ==
    call # NoCall =>
        /\ ToSet(call.series) \subseteq DOMAIN call.got
        /\ call.todo # {} => call.series \in BinanceOrders /\ DOMAIN call.got = ToSet(call.series)
        /\ call.cursor < call.end => DOMAIN call.got = {"funding_hyperliquid"}
        /\ \A s \in DOMAIN call.got :
              /\ OnePerInstant(call.got[s]) /\ Whole(s, call.got[s])
              /\ s \in BinanceSeries => \A r \in call.got[s] : PeriodOf(r.at) \notin call.todo
              /\ s \notin BinanceSeries => \A r \in call.got[s] : r.value = 1

(* What a call will report is on disk, or in what it holds for a series it *)
(* still has to write, or ahead of its cursor.                             *)
Accounted(p) ==
    \/ OnDisk(p[1], p[2])
    \/ /\ p[1] \in ToSet(call.series)
       /\ \/ p[2] \in InstantsOf(call.got[p[1]])
          \/ /\ p[1] = "funding_hyperliquid"
             /\ call.cursor <= p[2] /\ p[2] < call.end /\ p[2] <= settled
OwedAccounted == call # NoCall => \A p \in call.owed : Accounted(p)

HistoryInv ==
    /\ HistoryTypes
    /\ DiskSound
    /\ HaulSound
    /\ OwedAccounted
    /\ PromiseKept

-----------------------------------------------------------------------------
LEMMA InstantsAre == \E n \in Nat : Instant = 1..n
  <1>1. Periods \in Nat /\ PerPeriod \in Nat
    BY HistoryAssumption
  <1>2. Periods * PerPeriod \in Nat
    BY <1>1
  <1> QED BY <1>2 DEF Instant

(* f lists k rows of T in order; all rows of T can be listed so. *)
InOrder(f, T, k) == f \in [1..k -> T] /\ \A i, j \in 1..k : i < j => f[i].at < f[j].at
Sortable(T) ==
    IsFiniteSet(T) /\ Cardinality(T) \in Nat /\ \E f : InOrder(f, T, Cardinality(T))

(* Rows of different instants up to n can be put in order: those up to     *)
(* n - 1, then the one at n if there is one.                               *)
LEMMA RowsCanBeSorted ==
    ASSUME NEW rows, NEW n \in Nat, \A r \in rows : r.at \in 1..n, OnePerInstant(rows)
    PROVE  Sortable(rows)
  <1> DEFINE Upto(m) == {r \in rows : r.at <= m}
             S == {m \in Nat : Sortable(Upto(m))}
  <1>1. 0 \in S
    <2>1. Upto(0) = {}
      OBVIOUS
    <2>2. IsFiniteSet({}) /\ Cardinality({}) = 0
      BY FS_EmptySet
    <2>3. InOrder([i \in 1..0 |-> 0], {}, 0)
      BY DEF InOrder
    <2>4. Sortable({})
      BY <2>2, <2>3 DEF Sortable
    <2> QED BY <2>1, <2>4
  <1>2. ASSUME NEW m \in Nat, m \in S PROVE m + 1 \in S
    <2> DEFINE T == Upto(m)
               k == Cardinality(T)
    <2>1. IsFiniteSet(T) /\ k \in Nat /\ \E f : InOrder(f, T, k)
      BY <1>2 DEF Sortable
    <2>2. CASE \A r \in rows : r.at # m + 1
      <3>1. \A r \in rows : r.at <= m + 1 <=> r.at <= m
        BY <2>2
      <3>2. Upto(m + 1) = T
        BY <3>1
      <3>3. Sortable(T)
        BY <1>2
      <3> HIDE DEF T
      <3>4. Sortable(Upto(m + 1))
        BY <3>2, <3>3
      <3> QED BY <3>4
    <2>3. CASE \E r \in rows : r.at = m + 1
      <3>1. PICK r \in rows : r.at = m + 1
        BY <2>3
      <3>2. PICK f : InOrder(f, T, k)
        BY <2>1
      <3>3. \A q \in rows : q.at <= m + 1 <=> (q.at <= m \/ q = r)
        BY <3>1 DEF OnePerInstant
      <3>4. Upto(m + 1) = T \cup {r}
        BY <3>1, <3>3
      <3>5. r \notin T
        BY <3>1
      <3> DEFINE U == T \cup {r}
                 g == [i \in 1..(k + 1) |-> IF i = k + 1 THEN r ELSE f[i]]
      <3>6. \A q \in T : q.at \in Nat /\ q.at <= m
        OBVIOUS
      <3> HIDE DEF T
      <3>7. IsFiniteSet(U) /\ Cardinality(U) = k + 1
        BY <2>1, <3>5, FS_AddElement
      <3> HIDE DEF k
      <3>8. \A i \in 1..(k + 1) : i = k + 1 \/ i \in 1..k
        BY <2>1
      <3>9. InOrder(g, U, k + 1)
        <4>1. g \in [1..(k + 1) -> U]
          BY <2>1, <3>2, <3>8 DEF InOrder
        <4>2. ASSUME NEW i \in 1..(k + 1), NEW j \in 1..(k + 1), i < j PROVE g[i].at < g[j].at
          <5>1. i \in 1..k /\ g[i] = f[i] /\ f[i] \in T
            BY <2>1, <3>2, <4>2 DEF InOrder
          <5>2. CASE j = k + 1
            BY <2>1, <3>1, <3>6, <5>1, <5>2
          <5>3. CASE j # k + 1
            BY <2>1, <3>2, <3>8, <4>2, <5>1, <5>3 DEF InOrder
          <5> QED BY <5>2, <5>3
        <4> QED BY <4>1, <4>2 DEF InOrder
      <3>10. k + 1 \in Nat
        BY <2>1
      <3> HIDE DEF U, g
      <3>11. Sortable(U)
        BY <3>7, <3>9, <3>10 DEF Sortable
      <3> QED BY <3>4, <3>11 DEF U
    <2> QED BY <2>2, <2>3
  <1>3. n \in S
    <2> HIDE DEF S
    <2> QED BY <1>1, <1>2, NumbersByInduction
  <1>4. Upto(n) = rows
    OBVIOUS
  <1> QED BY <1>3, <1>4

(* Sorted: all the rows, in order. *)
LEMMA SortedIs ==
    ASSUME NEW rows \in SUBSET Observation, OnePerInstant(rows)
    PROVE  /\ Sorted(rows) \in Seq(Observation)
           /\ Ascending(Sorted(rows))
           /\ ToSet(Sorted(rows)) = rows
  <1>1. PICK n \in Nat : Instant = 1..n
    BY InstantsAre
  <1>2. \A r \in rows : r.at \in 1..n
    BY <1>1 DEF Observation
  <1> DEFINE c == Cardinality(rows)
             f == Sorted(rows)
  <1>3. IsFiniteSet(rows) /\ \E g \in [1..c -> rows] : \A i, j \in 1..c : i < j => g[i].at < g[j].at
    <2>1. Sortable(rows)
      BY <1>1, <1>2, RowsCanBeSorted
    <2> QED BY <2>1 DEF Sortable, InOrder
  <1>4. c \in Nat
    BY <1>3, FS_CardinalityType
  <1> HIDE DEF c
  <1>5. \E g \in [1..c -> rows] :
            \A i, j \in DOMAIN g : i < j => g[i].at <= g[j].at /\ g[i] # g[j]
    <2>1. PICK g \in [1..c -> rows] : \A i, j \in 1..c : i < j => g[i].at < g[j].at
      BY <1>3
    <2>2. \A i \in 1..c : g[i].at \in Nat
      BY <1>2
    <2>3. \A i, j \in 1..c : i < j => g[i].at <= g[j].at /\ g[i] # g[j]
      BY <2>1, <2>2
    <2> QED BY <2>3
  <1>6. /\ f \in [1..c -> rows]
        /\ \A i, j \in DOMAIN f : i < j => f[i].at <= f[j].at /\ f[i] # f[j]
    <2> QED BY <1>5 DEF Sorted, c
  <1> HIDE DEF f
  <1>7. Ascending(f)
    <2>1. ASSUME NEW i \in 1..c, NEW j \in 1..c, i < j PROVE f[i].at < f[j].at
      <3>1. f[i] \in rows /\ f[j] \in rows /\ f[i].at <= f[j].at /\ f[i] # f[j]
        BY <1>6, <2>1
      <3>2. f[i].at # f[j].at /\ f[i].at \in Nat /\ f[j].at \in Nat
        BY <1>2, <3>1 DEF OnePerInstant
      <3> QED BY <3>1, <3>2
    <2> QED BY <1>6, <2>1 DEF Ascending
  <1>8. f \in Seq(Observation)
    <2>1. f \in [1..c -> Observation]
      BY <1>6
    <2> QED BY <1>4, <2>1
  <1>9. ToSet(f) = rows
    <2>1. f \in Injection(1..c, rows)
      <3>1. \A i, j \in 1..c : f[i] = f[j] => i = j
        BY <1>4, <1>6
      <3> QED BY <1>6, <3>1 DEF Injection, IsInjective
    <2>2. Cardinality(1..c) = c
      BY <1>4, FS_Interval
    <2>3. f \in Surjection(1..c, rows)
      BY <1>3, <2>1, <2>2, FS_Injection DEF c
    <2>4. \A r \in rows : \E i \in 1..c : f[i] = r
      BY <2>3 DEF Surjection
    <2> QED BY <1>6, <2>4 DEF ToSet
  <1> QED BY <1>7, <1>8, <1>9 DEF f

(* merge_and_write: what was there and what is new, in order, whole if     *)
(* both were.                                                              *)
LEMMA MergedIs ==
    ASSUME NEW old \in Seq(Observation), Ascending(old),
           NEW new \in SUBSET Observation, OnePerInstant(new)
    PROVE  /\ Merged(old, new) \in Seq(Observation)
           /\ Ascending(Merged(old, new))
           /\ InstantsOf(ToSet(Merged(old, new))) = InstantsOf(ToSet(old)) \cup InstantsOf(new)
           /\ \A s : Whole(s, ToSet(old)) /\ Whole(s, new) => Whole(s, ToSet(Merged(old, new)))
  <1> DEFINE was == ToSet(old)
             added == {r \in new : r.at \notin InstantsOf(was)}
             rows == was \cup added
  <1>1. Merged(old, new) = Sorted(rows)
    BY DEF Merged, InstantsOf
  <1>2. was \in SUBSET Observation
    BY DEF ToSet
  <1>3. OnePerInstant(was)
    <2>1. ASSUME NEW i \in DOMAIN old, NEW j \in DOMAIN old, old[i].at = old[j].at PROVE i = j
      <3>1. DOMAIN old = 1..Len(old) /\ Len(old) \in Nat /\ old[i] \in Observation /\ old[j] \in Observation
        OBVIOUS
      <3>2. old[i].at \in Nat
        <4>1. PICK n \in Nat : Instant = 1..n
          BY InstantsAre
        <4> QED BY <3>1, <4>1 DEF Observation
      <3>3. ~ (i < j) /\ ~ (j < i)
        BY <2>1, <3>1, <3>2 DEF Ascending
      <3> QED BY <3>1, <3>3
    <2> QED BY <2>1 DEF OnePerInstant, ToSet
  <1> HIDE DEF was
  <1>4. rows \in SUBSET Observation
    BY <1>2
  <1>5. OnePerInstant(rows)
    BY <1>3 DEF OnePerInstant, InstantsOf
  <1>6. InstantsOf(rows) = InstantsOf(was) \cup InstantsOf(new)
    BY DEF InstantsOf
  <1>7. \A s : Whole(s, was) /\ Whole(s, new) => Whole(s, rows)
    <2> SUFFICES ASSUME NEW s, s \in BinanceSeries, Whole(s, was), Whole(s, new), NEW r \in rows
                 PROVE  Expected(s, PeriodOf(r.at)) \subseteq InstantsOf(rows)
      BY DEF Whole
    <2>1. r \in was \/ r \in new
      OBVIOUS
    <2>2. \/ Expected(s, PeriodOf(r.at)) \subseteq InstantsOf(was)
          \/ Expected(s, PeriodOf(r.at)) \subseteq InstantsOf(new)
      BY <2>1 DEF Whole
    <2> QED BY <1>6, <2>2
  <1> HIDE DEF rows
  <1> QED BY <1>1, <1>4, <1>5, <1>6, <1>7, SortedIs DEF was

(* A set of numbers has a least one, and one that is bounded a greatest. *)
LEMMA LeastIs ==
    ASSUME NEW T \in SUBSET Nat, T # {}
    PROVE  Min(T) \in T /\ \A x \in T : Min(T) <= x
  <1> DEFINE Less == OpToRel(<, Nat)
  <1>1. IsWellFoundedOn(Less, Nat)
    BY NatLessThanWellFounded
  <1>2. \A x, y \in Nat : <<x, y>> \in Less <=> x < y
    BY DEF OpToRel
  <1> HIDE DEF Less
  <1>3. PICK n \in T : \A k \in T : ~ (<<k, n>> \in Less)
    BY <1>1, WFMin
  <1>4. \A y \in T : n =< y
    <2> TAKE y \in T
    <2>1. y \in Nat /\ n \in Nat
      OBVIOUS
    <2>2. ~ (y < n)
      BY <1>2, <1>3, <2>1
    <2> QED BY <2>1, <2>2
  <1> QED BY <1>4 DEF Min

LEMMA GreatestIs ==
    ASSUME NEW T \in SUBSET Nat, T # {}, NEW n \in Nat, \A x \in T : x <= n
    PROVE  Max(T) \in T /\ \A x \in T : Max(T) >= x
  <1> DEFINE U == {y \in Nat : n - y \in T /\ y <= n}
  <1>1. U \in SUBSET Nat /\ U # {}
    <2>1. PICK x \in T : TRUE
      OBVIOUS
    <2>2. n - x \in Nat /\ n - (n - x) = x /\ n - x <= n
      BY <2>1
    <2> QED BY <2>1, <2>2
  <1>2. \A x \in T : n - x \in U
    <2> TAKE x \in T
    <2>1. n - x \in Nat /\ n - (n - x) = x /\ n - x <= n
      OBVIOUS
    <2> QED BY <2>1
  <1>3. Min(U) \in U /\ \A y \in U : Min(U) <= y
    <2> HIDE DEF U
    <2> QED BY <1>1, LeastIs
  <1> DEFINE a == Min(U)
             m == n - a
  <1>4. m \in T /\ a \in Nat
    BY <1>3
  <1> HIDE DEF U, a
  <1>5. \A x \in T : m >= x
    <2> TAKE x \in T
    <2>1. a <= n - x
      BY <1>2, <1>3 DEF a
    <2> QED BY <1>4, <2>1
  <1>6. \E x \in T : \A y \in T : x >= y
    BY <1>4, <1>5
  <1> QED BY <1>6 DEF Max

(* A page holds the first instants that are there.  A short page holds     *)
(* them all; a full one all of them up to its last.                        *)
LEMMA PageIs ==
    ASSUME NEW there \in SUBSET Instant
    PROVE  LET page == {u \in there : Cardinality({w \in there : w < u}) < PageSizeCap}
           IN  /\ IsFiniteSet(page)
               /\ Cardinality(page) < PageSizeCap => page = there
               /\ ~ (Cardinality(page) < PageSizeCap) =>
                     /\ Max(page) \in page
                     /\ \A t \in there : t <= Max(page) => t \in page
  <1> DEFINE Lower(u) == {w \in there : w < u}
             page == {u \in there : Cardinality(Lower(u)) < PageSizeCap}
  <1>0. PICK n \in Nat : Instant = 1..n
    BY InstantsAre
  <1>1. there \in SUBSET Nat /\ (\A t \in there : t <= n) /\ PageSizeCap \in Nat \ {0}
    BY <1>0, HistoryAssumption
  <1>2. IsFiniteSet(there)
    BY <1>0, <1>1, FS_BoundedSetOfNaturals
  <1>3. IsFiniteSet(page) /\ Cardinality(page) \in Nat
    <2>1. page \in SUBSET there
      OBVIOUS
    <2> HIDE DEF page
    <2> QED BY <1>2, <2>1, FS_Subset, FS_CardinalityType
  <1>4. \A u : IsFiniteSet(Lower(u)) /\ Cardinality(Lower(u)) \in Nat
    <2> TAKE u
    <2>1. Lower(u) \in SUBSET there
      OBVIOUS
    <2> HIDE DEF Lower
    <2> QED BY <1>2, <2>1, FS_Subset, FS_CardinalityType
  <1>5. ASSUME Cardinality(page) < PageSizeCap PROVE page = there
    <2> DEFINE left == there \ page
    <2>1. SUFFICES ASSUME left # {} PROVE FALSE
      OBVIOUS
    <2>2. left \in SUBSET Nat
      BY <1>1
    <2>3. PICK u \in left : \A x \in left : u <= x
      <3> HIDE DEF left
      <3> QED BY <2>1, <2>2, LeastIs
    <2>4. ~ (Cardinality(Lower(u)) < PageSizeCap)
      BY <2>3
    <2>5. Lower(u) \in SUBSET page
      <3> SUFFICES ASSUME NEW w \in there, w < u PROVE w \in page
        OBVIOUS
      <3>1. w \in Nat /\ u \in Nat /\ ~ (u <= w)
        BY <1>1, <2>3
      <3>2. w \notin left
        BY <2>3, <3>1
      <3> QED BY <3>2
    <2> HIDE DEF page, Lower
    <2>6. Cardinality(Lower(u)) <= Cardinality(page)
      BY <1>3, <2>5, FS_Subset
    <2> QED BY <1>1, <1>3, <1>4, <1>5, <2>4, <2>6
  <1>6. ASSUME ~ (Cardinality(page) < PageSizeCap)
        PROVE  Max(page) \in page /\ \A t \in there : t <= Max(page) => t \in page
    <2>1. page # {}
      <3> HIDE DEF page
      <3> QED BY <1>1, <1>6, FS_EmptySet
    <2>2. page \in SUBSET Nat /\ \A x \in page : x <= n
      BY <1>1
    <2> DEFINE m == Max(page)
    <2>3. m \in page
      <3> HIDE DEF page
      <3> QED BY <1>0, <2>1, <2>2, GreatestIs
    <2> HIDE DEF m
    <2>4. m \in there /\ Cardinality(Lower(m)) < PageSizeCap
      BY <2>3
    <2>5. ASSUME NEW t \in there, t <= m PROVE t \in page
      <3>1. Lower(t) \in SUBSET Lower(m)
        <4>1. ASSUME NEW w \in there, w < t PROVE w < m
          <5>1. w \in Nat /\ t \in Nat /\ m \in Nat
            BY <1>1, <2>4
          <5> QED BY <2>5, <4>1, <5>1
        <4> QED BY <4>1
      <3>2. Cardinality(Lower(t)) <= Cardinality(Lower(m))
        <4> HIDE DEF Lower
        <4> QED BY <1>4, <3>1, FS_Subset
      <3>3. Cardinality(Lower(t)) < PageSizeCap
        <4> HIDE DEF Lower
        <4> QED BY <1>1, <1>4, <2>4, <3>2
      <3> QED BY <3>3
    <2> QED BY <2>3, <2>5 DEF m
  <1> QED BY <1>3, <1>5, <1>6

(* What one period's file holds for a series: an observation for every     *)
(* instant expected of it, or nothing.                                     *)
LEMMA FetchIs ==
    ASSUME NEW series \in BinanceOrders, NEW s \in ToSet(series), NEW d
    PROVE  /\ s \in BinanceSeries /\ s \in DOMAIN FetchPeriod(series, d)
           /\ ArchiveOf(s) = ArchiveOf(series[1])
           /\ FetchPeriod(series, d)[s] =
                 IF archive[ArchiveOf(s)][d] = 0 THEN {}
                 ELSE {Row(t, archive[ArchiveOf(s)][d]) : t \in Expected(s, d)}
  <1> DEFINE v == archive[ArchiveOf(s)][d]
  <1>1. \A x, a : (Row(x, a)).at = x
    BY DEF Row
  <1>2. ASSUME NEW a
        PROVE  MarkRows({Row(t, a) : t \in InPeriod(d)}) = {Row(t, a) : t \in InPeriod(d) \ ZeroAt}
    BY <1>1 DEF MarkRows
  <1>3. MarkRows(FetchZipCsv("metrics", d)) =
            IF archive["metrics"][d] = 0 THEN {}
            ELSE {Row(t, archive["metrics"][d]) : t \in InPeriod(d) \ ZeroAt}
    <2>1. CASE archive["metrics"][d] = 0
      BY <2>1 DEF MarkRows, FetchZipCsv
    <2>2. CASE archive["metrics"][d] # 0
      BY <1>2, <2>2 DEF FetchZipCsv
    <2> QED BY <2>1, <2>2
  <1>4. CASE series = <<"open_interest", "mark_price">>
    <2>1. Len(series) = 2 /\ ToSet(series) = {"open_interest", "mark_price"} /\ series[1] = "open_interest"
      <3>1. series = <<"open_interest", "mark_price">> => DOMAIN series = 1..2
        OBVIOUS
      <3> QED BY <1>4, <3>1 DEF ToSet
    <2>2. FetchPeriod(series, d) = FetchMetricsDay(d)
      BY <2>1 DEF FetchPeriod
    <2>3. CASE s = "mark_price"
      BY <1>3, <2>1, <2>2, <2>3 DEF FetchMetricsDay, ArchiveOf, Expected, BinanceSeries
    <2>4. CASE s = "open_interest"
      BY <2>1, <2>2, <2>4 DEF FetchMetricsDay, FetchZipCsv, ArchiveOf, Expected, BinanceSeries
    <2> QED BY <2>1, <2>3, <2>4
  <1>5. CASE series # <<"open_interest", "mark_price">>
    <2>1. Len(series) # 2 /\ ToSet(series) = {series[1]}
          /\ series[1] \in {"open_interest", "mark_price", "funding_binance"}
      <3>1. PICK x \in {"open_interest", "mark_price", "funding_binance"} : series = <<x>>
        BY <1>5 DEF BinanceOrders
      <3>2. DOMAIN series = 1..1 /\ Len(series) = 1 /\ series[1] = x
        BY <3>1
      <3> QED BY <3>2 DEF ToSet
    <2>2. FetchPeriod(series, d) =
            [x \in ToSet(series) |->
                CASE x = "open_interest"   -> FetchOpenInterestDay(d)
                  [] x = "mark_price"      -> FetchMarkPriceDay(d)
                  [] x = "funding_binance" -> FetchFundingRateMonth(d)]
      BY <2>1 DEF FetchPeriod
    <2>3. s = series[1]
      BY <2>1
    <2>4. CASE s = "open_interest"
      BY <2>1, <2>2, <2>3, <2>4 DEF FetchOpenInterestDay, FetchZipCsv, ArchiveOf, Expected, BinanceSeries
    <2>5. CASE s = "mark_price"
      BY <1>3, <2>1, <2>2, <2>3, <2>5 DEF FetchMarkPriceDay, ArchiveOf, Expected, BinanceSeries
    <2>6. CASE s = "funding_binance"
      BY <2>1, <2>2, <2>3, <2>6 DEF FetchFundingRateMonth, FetchZipCsv, ArchiveOf, Expected, BinanceSeries
    <2> QED BY <2>1, <2>3, <2>4, <2>5, <2>6
  <1> QED BY <1>4, <1>5

-----------------------------------------------------------------------------
LEMMA HaulIs ==
    /\ \A S \in SUBSET Series : \A g \in [S -> SUBSET Observation] : g \in Haul
    /\ \A g \in Haul : /\ DOMAIN g \in SUBSET Series
                       /\ g \in [DOMAIN g -> SUBSET Observation]
  BY DEF Haul

(* The series a call may set out for. *)
LEMMA OrdersAre ==
    ASSUME NEW series \in BinanceOrders \cup {<<"funding_hyperliquid">>}
    PROVE  /\ series \in Seq(Series) /\ series # << >>
           /\ ToSet(series) \in SUBSET Series /\ series[1] \in ToSet(series)
           /\ series \in BinanceOrders => ToSet(series) \subseteq BinanceSeries
           /\ series = <<"funding_hyperliquid">> => ToSet(series) = {"funding_hyperliquid"}
  <1>1. CASE series = <<"open_interest", "mark_price">>
    <2>1. series \in Seq(Series) /\ DOMAIN series = 1..2 /\ series[1] = "open_interest"
          /\ series[2] = "mark_price"
      BY <1>1 DEF Series, BinanceSeries
    <2> QED BY <1>1, <2>1 DEF ToSet, Series, BinanceSeries
  <1>2. CASE series # <<"open_interest", "mark_price">>
    <2>1. PICK x \in Series : series = <<x>>
      BY <1>2 DEF BinanceOrders, Series, BinanceSeries
    <2>2. series \in Seq(Series) /\ DOMAIN series = 1..1 /\ series[1] = x
      BY <2>1
    <2>3. ToSet(series) = {x}
      BY <2>2 DEF ToSet
    <2>4. series \in BinanceOrders => x \in BinanceSeries
      BY <1>2, <2>1 DEF BinanceOrders, BinanceSeries
    <2> QED BY <2>1, <2>2, <2>3, <2>4
  <1> QED BY <1>1, <1>2

(* Steps that leave the files alone. *)
LEMMA FilesStay ==
    ASSUME HistoryInv, disk' = disk, promised' = promised
    PROVE  DiskSound' /\ PromiseKept' /\ (\A s, t : OnDisk(s, t)' <=> OnDisk(s, t))
  BY DEF HistoryInv, DiskSound, PromiseKept, OnDisk

LEMMA PublishKeeps ==
    ASSUME HistoryInv, NEW f \in {"metrics", "funding"}, NEW d \in 1..Periods, Publish(f, d)
    PROVE  HistoryInv'
  <1>1. /\ archive' = [archive EXCEPT ![f][d] = @ + 1]
        /\ UNCHANGED <<settled, disk, call, promised>>
    BY DEF Publish
  <1>2. HistoryTypes
    BY DEF HistoryInv
  <1>3. archive' \in [{"metrics", "funding"} -> [1..Periods -> Nat]]
    <2> DEFINE A == {"metrics", "funding"}
               D == 1..Periods
    <2>1. archive \in [A -> [D -> Nat]] /\ f \in A /\ d \in D
      BY <1>2 DEF HistoryTypes
    <2> HIDE DEF A, D
    <2>2. archive' \in [A -> [D -> Nat]]
      BY <1>1, <2>1
    <2> QED BY <2>2 DEF A, D
  <1>4. HistoryTypes'
    BY <1>1, <1>2, <1>3 DEF HistoryTypes
  <1>5. HaulSound'
    BY <1>1 DEF HistoryInv, HaulSound
  <1>6. OwedAccounted'
    BY <1>1 DEF HistoryInv, OwedAccounted, Accounted, OnDisk
  <1> QED BY <1>1, <1>4, <1>5, <1>6, FilesStay DEF HistoryInv

LEMMA SettleKeeps ==
    ASSUME HistoryInv, Settle
    PROVE  HistoryInv'
  <1>1. settled' = settled + 1 /\ UNCHANGED <<archive, disk, call, promised>>
    BY DEF Settle
  <1>2. HistoryTypes
    BY DEF HistoryInv
  <1>3. HistoryTypes'
    BY <1>1, <1>2 DEF HistoryTypes
  <1>4. HaulSound'
    BY <1>1 DEF HistoryInv, HaulSound
  <1>5. OwedAccounted'
    <2> SUFFICES ASSUME call # NoCall, NEW p \in call.owed PROVE Accounted(p)'
      BY <1>1 DEF OwedAccounted
    <2>1. Accounted(p)
      BY DEF HistoryInv, OwedAccounted
    <2>2. p[2] \in Int /\ settled \in Int
      <3>1. PICK n \in Nat : Instant = 1..n
        BY InstantsAre
      <3>2. p \in Series \X Instant
        BY <1>2 DEF HistoryTypes, Collection
      <3> QED BY <1>2, <3>1, <3>2 DEF HistoryTypes
    <2>3. p[2] <= settled => p[2] <= settled'
      BY <1>1, <2>2
    <2> QED BY <1>1, <2>1, <2>3, FilesStay DEF Accounted
  <1> QED BY <1>1, <1>3, <1>4, <1>5, FilesStay DEF HistoryInv

(* One row of a period on disk stands for all of it. *)
LEMMA CoveredIsThere ==
    ASSUME HistoryInv, NEW s \in BinanceSeries, NEW d \in Covered(s), NEW t \in InPeriod(d)
    PROVE  OnDisk(s, t)
  <1>1. s \in Series
    BY DEF Series
  <1>2. PICK r \in ToSet(disk[s]) : PeriodOf(r.at) = d
    BY DEF Covered
  <1>3. Expected(s, d) \subseteq InstantsOf(ToSet(disk[s]))
    BY <1>1, <1>2 DEF HistoryInv, DiskSound, Whole
  <1>4. t \in Expected(s, d) \/ (s = "mark_price" /\ t \in ZeroAt)
    BY DEF Expected
  <1> QED BY <1>3, <1>4 DEF OnDisk

LEMMA BeginKeeps ==
    ASSUME HistoryInv, NEW series \in BinanceOrders, NEW first \in 1..Periods,
           NEW last \in first..Periods, NEW force \in BOOLEAN, Begin(series, first, last, force)
    PROVE  HistoryInv'
  <1> DEFINE skipped == IF force THEN {} ELSE Covered(series[1]) \cap (first..last)
             c == [series |-> series, todo |-> (first..last) \ skipped, cursor |-> 0,
                   end |-> 0, got |-> [s \in ToSet(series) |-> {}],
                   owed |-> {series[1]} \X UNION {InPeriod(d) : d \in skipped}]
  <1>1. call' = c /\ UNCHANGED <<archive, settled, disk, promised>>
    BY DEF Begin
  <1>2. /\ series \in Seq(Series) /\ ToSet(series) \in SUBSET Series /\ series[1] \in ToSet(series)
        /\ ToSet(series) \subseteq BinanceSeries
    BY OrdersAre
  <1>3. HistoryTypes
    BY DEF HistoryInv
  <1>4. c.got \in Haul /\ DOMAIN c.got = ToSet(series) /\ \A s \in DOMAIN c.got : c.got[s] = {}
    <2>1. c.got \in [ToSet(series) -> SUBSET Observation]
      OBVIOUS
    <2> QED BY <1>2, <2>1, HaulIs
  <1>5. c.owed \subseteq Series \X Instant
    <2>1. \A d : InPeriod(d) \subseteq Instant
      BY DEF InPeriod
    <2> QED BY <1>2, <2>1
  <1>6. \A p \in c.owed : p[1] = series[1] /\ \E d \in skipped : p[2] \in InPeriod(d)
    OBVIOUS
  <1>7. skipped \subseteq Covered(series[1])
    OBVIOUS
  <1>8. /\ c.series = series /\ c.todo \subseteq 1..Periods /\ c.cursor = 0 /\ c.end = 0
    <2>1. \A d \in first..last : d \in 1..Periods
      BY HistoryAssumption
    <2> QED BY <2>1
  <1>9. c \in Collection
    <2>1. c.owed \in SUBSET (Series \X Instant) /\ c.todo \in SUBSET (1..Periods)
      BY <1>5, <1>8
    <2>2. c = [series |-> c.series, todo |-> c.todo, cursor |-> c.cursor, end |-> c.end,
               got |-> c.got, owed |-> c.owed]
      OBVIOUS
    <2> HIDE DEF c
    <2> QED BY <1>2, <1>4, <1>8, <2>1, <2>2 DEF Collection
  <1> HIDE DEF c, skipped
  <1>10. HistoryTypes'
    BY <1>1, <1>3, <1>9 DEF HistoryTypes
  <1>11. HaulSound'
    <2>1. \A s \in DOMAIN c.got : OnePerInstant(c.got[s]) /\ Whole(s, c.got[s])
      BY <1>4 DEF OnePerInstant, Whole
    <2> QED BY <1>1, <1>4, <1>8, <2>1 DEF HaulSound
  <1>12. OwedAccounted'
    <2> SUFFICES ASSUME NEW p \in c.owed PROVE OnDisk(p[1], p[2])
      BY <1>1, FilesStay DEF OwedAccounted, Accounted
    <2>1. PICK d \in skipped : p[2] \in InPeriod(d)
      BY <1>6
    <2> QED BY <1>2, <1>6, <1>7, <2>1, CoveredIsThere
  <1> QED BY <1>1, <1>10, <1>11, <1>12, FilesStay DEF HistoryInv

LEMMA ResumeIsNumber ==
    ASSUME HistoryInv, NEW first \in 1..Periods, NEW force \in BOOLEAN
    PROVE  ResumeAt(first, force) \in Int
  <1> DEFINE rows == ToSet(disk["funding_hyperliquid"])
             start == (first - 1) * PerPeriod + 1
             seen == {r.at : r \in rows}
  <1>1. start \in Int
    BY HistoryAssumption
  <1> HIDE DEF start
  <1>2. CASE force \/ rows = {}
    BY <1>1, <1>2 DEF ResumeAt, start
  <1>3. CASE ~ (force \/ rows = {})
    <2>1. disk["funding_hyperliquid"] \in Seq(Observation)
      BY DEF HistoryInv, HistoryTypes, Series
    <2>2. rows \subseteq Observation
      BY <2>1 DEF ToSet
    <2>3. PICK n \in Nat : Instant = 1..n
      BY InstantsAre
    <2>4. seen \in SUBSET Nat /\ seen # {} /\ \A x \in seen : x <= n
      BY <1>3, <2>2, <2>3 DEF Observation
    <2> HIDE DEF seen
    <2>5. Max(seen) \in Nat
      BY <2>4, GreatestIs
    <2> DEFINE a == Max(seen) + 1
    <2>6. a \in Int
      BY <2>5
    <2> HIDE DEF a
    <2>7. \E x \in {start, a} : \A y \in {start, a} : x >= y
      BY <1>1, <2>6
    <2>8. Max({start, a}) \in {start, a}
      BY <2>7 DEF Max
    <2>9. ResumeAt(first, force) = Max({start, a})
      BY <1>3 DEF ResumeAt, start, seen, a
    <2> QED BY <1>1, <2>6, <2>8, <2>9
  <1> QED BY <1>2, <1>3

LEMMA ResumeKeeps ==
    ASSUME HistoryInv, NEW first \in 1..Periods, NEW last \in first..Periods,
           NEW force \in BOOLEAN, CollectFundingRateHyperliquid(first, last, force)
    PROVE  HistoryInv'
  <1> DEFINE from == ResumeAt(first, force)
             end == last * PerPeriod + 1
             due == {t \in Instant : from <= t /\ t < end /\ t <= settled}
             c == [series |-> <<"funding_hyperliquid">>, todo |-> {}, cursor |-> from,
                   end |-> end, got |-> [s \in {"funding_hyperliquid"} |-> {}],
                   owed |-> {"funding_hyperliquid"} \X due]
  <1>1. call' = c /\ UNCHANGED <<archive, settled, disk, promised>>
    BY DEF CollectFundingRateHyperliquid
  <1>2. HistoryTypes
    BY DEF HistoryInv
  <1>3. from \in Int /\ end \in Int
    BY HistoryAssumption, ResumeIsNumber
  <1> DEFINE hl == <<"funding_hyperliquid">>
  <1>4. /\ hl \in Seq(Series) /\ ToSet(hl) = {"funding_hyperliquid"}
        /\ "funding_hyperliquid" \in Series /\ "funding_hyperliquid" \notin BinanceSeries
    <2>1. hl \in BinanceOrders \cup {<<"funding_hyperliquid">>}
      OBVIOUS
    <2>2. hl \in Seq(Series) /\ ToSet(hl) = {"funding_hyperliquid"}
      BY <2>1, OrdersAre
    <2> QED BY <2>2 DEF Series, BinanceSeries
  <1>5. /\ c.got \in Haul /\ DOMAIN c.got = {"funding_hyperliquid"}
        /\ \A s \in DOMAIN c.got : c.got[s] = {}
    <2>1. c.got \in [{"funding_hyperliquid"} -> SUBSET Observation]
      OBVIOUS
    <2>2. {"funding_hyperliquid"} \in SUBSET Series
      BY <1>4
    <2> QED BY <2>1, <2>2, HaulIs
  <1>6. c.owed \in SUBSET (Series \X Instant)
    BY <1>4
  <1>7. /\ c.series = hl /\ c.todo = {} /\ c.cursor = from /\ c.end = end
        /\ c.owed = {"funding_hyperliquid"} \X due
    OBVIOUS
  <1>8. c \in Collection
    <2>1. c = [series |-> c.series, todo |-> c.todo, cursor |-> c.cursor, end |-> c.end,
               got |-> c.got, owed |-> c.owed]
      OBVIOUS
    <2> HIDE DEF c, from, end, hl
    <2> QED BY <1>3, <1>4, <1>5, <1>6, <1>7, <2>1 DEF Collection
  <1> HIDE DEF c, from, end, hl
  <1>9. HistoryTypes'
    BY <1>1, <1>2, <1>8 DEF HistoryTypes
  <1>10. HaulSound'
    <2>1. \A s \in DOMAIN c.got : OnePerInstant(c.got[s]) /\ Whole(s, c.got[s])
      BY <1>5 DEF OnePerInstant, Whole
    <2> QED BY <1>1, <1>4, <1>5, <1>7, <2>1 DEF HaulSound
  <1>11. OwedAccounted'
    <2> SUFFICES ASSUME NEW p \in c.owed PROVE Accounted(p)'
      BY <1>1 DEF OwedAccounted
    <2>1. p[1] = "funding_hyperliquid" /\ p[2] \in due
      BY <1>7
    <2> QED BY <1>1, <1>4, <1>7, <2>1 DEF Accounted
  <1> QED BY <1>1, <1>9, <1>10, <1>11, FilesStay DEF HistoryInv

(* A step of a call that fetches: what it holds grows. *)
Further(c, todo, cursor, got, owed) ==
    [c EXCEPT !.todo = todo, !.cursor = cursor, !.got = got, !.owed = owed]

LEMMA FetchedMore ==
    ASSUME HistoryInv, call # NoCall, NEW more, NEW todo \in SUBSET call.todo, NEW cursor \in Int,
           NEW owed \in SUBSET (Series \X Instant),
           \A s \in DOMAIN call.got : more[s] \in SUBSET Observation,
           NEW g, g = [s \in DOMAIN call.got |-> call.got[s] \cup more[s]],
           call' = Further(call, todo, cursor, g, owed),
           UNCHANGED <<archive, settled, disk, promised>>
    PROVE  /\ HistoryTypes'
           /\ call'.series = call.series /\ call'.todo = todo /\ call'.cursor = cursor
           /\ call'.end = call.end /\ call'.owed = owed
           /\ DOMAIN call'.got = DOMAIN call.got
           /\ \A s \in DOMAIN call.got : call'.got[s] = call.got[s] \cup more[s]
  <1>1. HistoryTypes /\ call \in Collection
    BY DEF HistoryInv, HistoryTypes
  <1>2. DOMAIN call.got \in SUBSET Series /\ call.got \in [DOMAIN call.got -> SUBSET Observation]
    BY <1>1, HaulIs DEF Collection
  <1>3. g \in [DOMAIN call.got -> SUBSET Observation]
    BY <1>2
  <1>4. g \in Haul
    BY <1>2, <1>3, HaulIs
  <1>6. todo \in SUBSET (1..Periods)
    BY <1>1 DEF Collection
  <1>7. call' \in Collection
    BY <1>1, <1>4, <1>6 DEF Collection, Further
  <1>8. HistoryTypes'
    BY <1>1, <1>7 DEF HistoryTypes
  <1>9. /\ call'.series = call.series /\ call'.todo = todo /\ call'.cursor = cursor
        /\ call'.end = call.end /\ call'.owed = owed /\ call'.got = g
    BY <1>1 DEF Collection, Further
  <1> QED BY <1>8, <1>9

LEMMA FetchNextKeeps ==
    ASSUME HistoryInv, FetchNext
    PROVE  HistoryInv'
  <1> DEFINE d == Min(call.todo)
             series == call.series
             new == FetchPeriod(series, d)
             have == archive[ArchiveOf(series[1])][d] # 0
             owed == IF have THEN call.owed \cup (ToSet(series) \X InPeriod(d)) ELSE call.owed
  <1>1. /\ call # NoCall /\ call.todo # {}
        /\ call' = [call EXCEPT
                !.todo = @ \ {d},
                !.got = [s \in DOMAIN @ |-> @[s] \cup new[s]],
                !.owed = IF have THEN @ \cup (ToSet(series) \X InPeriod(d)) ELSE @]
        /\ UNCHANGED <<archive, settled, disk, promised>>
    BY DEF FetchNext
  <1>2. HistoryTypes /\ call \in Collection
    BY <1>1 DEF HistoryInv, HistoryTypes
  <1>3. series \in BinanceOrders /\ DOMAIN call.got = ToSet(series) /\ ToSet(series) \in SUBSET Series
    BY <1>1, OrdersAre DEF HistoryInv, HaulSound
  <1>4. d \in call.todo /\ d \in 1..Periods
    <2>1. call.todo \in SUBSET Nat /\ call.todo \subseteq 1..Periods
      BY <1>2 DEF Collection
    <2> QED BY <1>1, <2>1, LeastIs
  <1>5. \A x \in InPeriod(d) : x \in Instant /\ PeriodOf(x) = d
    BY DEF InPeriod
  <1>6. \A s : Expected(s, d) \subseteq InPeriod(d)
    BY DEF Expected
  <1> DEFINE v(s) == archive[ArchiveOf(s)][d]
  <1>7. ASSUME NEW s \in ToSet(series)
        PROVE  /\ s \in BinanceSeries /\ v(s) \in Nat
               /\ have <=> v(s) # 0
               /\ ~ have => new[s] = {}
               /\ have => new[s] = {Row(t, v(s)) : t \in Expected(s, d)}
    <2>1. /\ s \in BinanceSeries /\ ArchiveOf(s) = ArchiveOf(series[1])
          /\ new[s] = IF v(s) = 0 THEN {} ELSE {Row(t, v(s)) : t \in Expected(s, d)}
      <3>1. PICK order, day : order = series /\ day = d
        OBVIOUS
      <3>2. order \in BinanceOrders /\ s \in ToSet(order)
        BY <1>3, <1>7, <3>1
      <3>3. /\ s \in BinanceSeries /\ ArchiveOf(s) = ArchiveOf(order[1])
            /\ FetchPeriod(order, day)[s] =
                  IF archive[ArchiveOf(s)][day] = 0 THEN {}
                  ELSE {Row(t, archive[ArchiveOf(s)][day]) : t \in Expected(s, day)}
        <4> HIDE DEF d, series
        <4> QED BY <3>2, FetchIs, Zenon
      <3> QED BY <3>1, <3>3, Zenon
    <2>2. v(s) \in Nat
      <3>1. ArchiveOf(s) \in {"metrics", "funding"}
        BY DEF ArchiveOf
      <3> QED BY <1>2, <1>4, <3>1 DEF HistoryTypes
    <2> QED BY <2>1, <2>2
  <1> HIDE DEF d, series, new, have, v
  <1>8. ASSUME NEW s \in ToSet(series)
        PROVE  /\ new[s] \in SUBSET Observation
               /\ \A r \in new[s] : PeriodOf(r.at) = d
               /\ OnePerInstant(new[s])
               /\ have => InstantsOf(new[s]) = Expected(s, d)
               /\ ~ have => new[s] = {}
    <2>0. \A x, a : (Row(x, a)).at = x /\ (Row(x, a)).value = a
      BY DEF Row
    <2>1. CASE ~ have
      BY <1>7, <2>1 DEF OnePerInstant
    <2>2. CASE have
      <3>1. new[s] = {Row(t, v(s)) : t \in Expected(s, d)}
        BY <1>7, <2>2
      <3>2. \A r \in new[s] : \E t \in Expected(s, d) : r = Row(t, v(s))
        BY <3>1
      <3>3. new[s] \in SUBSET Observation
        BY <1>5, <1>6, <1>7, <3>2 DEF Observation, Row
      <3>4. \A r \in new[s] : PeriodOf(r.at) = d
        BY <1>5, <1>6, <2>0, <3>2
      <3>5. OnePerInstant(new[s])
        BY <2>0, <3>2 DEF OnePerInstant
      <3>6. InstantsOf(new[s]) = Expected(s, d)
        BY <2>0, <3>1 DEF InstantsOf
      <3> QED BY <2>2, <3>3, <3>4, <3>5, <3>6
    <2> QED BY <2>1, <2>2
  <1> DEFINE todo == call.todo \ {d}
  <1>9. owed \in SUBSET (Series \X Instant)
    BY <1>2, <1>3, <1>5 DEF Collection
  <1> HIDE DEF owed
  <1> DEFINE grown == [s \in DOMAIN call.got |-> call.got[s] \cup new[s]]
  <1>10. call' = Further(call, todo, call.cursor, grown, owed)
    BY <1>1, <1>2 DEF Collection, Further, owed
  <1>11. call.cursor \in Int /\ todo \in SUBSET call.todo
    BY <1>2 DEF Collection
  <1> HIDE DEF todo
  <1>12. /\ HistoryTypes'
         /\ call'.series = series /\ call'.todo = todo /\ call'.cursor = call.cursor
         /\ call'.end = call.end /\ call'.owed = owed
         /\ DOMAIN call'.got = ToSet(series)
         /\ \A s \in ToSet(series) : call'.got[s] = call.got[s] \cup new[s]
    <2>1. \A s \in DOMAIN call.got : new[s] \in SUBSET Observation
      BY <1>3, <1>8
    <2>2. grown = [s \in DOMAIN call.got |-> call.got[s] \cup new[s]]
      OBVIOUS
    <2>3. DOMAIN call.got = ToSet(series)
      BY <1>3
    <2>5. call # NoCall /\ UNCHANGED <<archive, settled, disk, promised>>
      BY <1>1
    <2> HIDE DEF grown
    <2>4. /\ HistoryTypes'
          /\ call'.series = call.series /\ call'.todo = todo /\ call'.cursor = call.cursor
          /\ call'.end = call.end /\ call'.owed = owed
          /\ DOMAIN call'.got = DOMAIN call.got
          /\ \A s \in DOMAIN call.got : call'.got[s] = call.got[s] \cup new[s]
      BY <1>9, <1>10, <1>11, <2>1, <2>2, <2>5, FetchedMore
    <2> QED BY <2>3, <2>4 DEF series
  <1>13. ASSUME NEW s \in ToSet(series)
         PROVE  LET g == call'.got[s]
                IN  /\ OnePerInstant(g) /\ Whole(s, g) /\ s \in BinanceSeries
                    /\ \A r \in g : PeriodOf(r.at) \notin todo
    <2> DEFINE g == call'.got[s]
               h == call.got[s]
    <2>1. g = h \cup new[s]
      BY <1>12
    <2>2. /\ OnePerInstant(h) /\ Whole(s, h) /\ s \in BinanceSeries
          /\ \A r \in h : PeriodOf(r.at) \notin call.todo
      BY <1>1, <1>3, <1>7 DEF HistoryInv, HaulSound
    <2> HIDE DEF g, h
    <2>3. OnePerInstant(g)
      BY <1>4, <1>8, <2>1, <2>2 DEF OnePerInstant
    <2>4. \A r \in g : PeriodOf(r.at) \notin todo
      BY <1>8, <2>1, <2>2 DEF todo
    <2>5. Whole(s, g)
      <3>1. InstantsOf(g) = InstantsOf(h) \cup InstantsOf(new[s])
        BY <2>1 DEF InstantsOf
      <3>2. ASSUME NEW r \in g PROVE Expected(s, PeriodOf(r.at)) \subseteq InstantsOf(g)
        <4>1. CASE r \in h
          BY <2>2, <3>1, <4>1 DEF Whole
        <4>2. CASE r \in new[s]
          BY <1>8, <3>1, <4>2
        <4> QED BY <2>1, <4>1, <4>2
      <3> QED BY <3>2 DEF Whole
    <2> QED BY <2>2, <2>3, <2>4, <2>5 DEF g
  <1>14. HaulSound'
    <2>1. call'.cursor < call'.end => DOMAIN call'.got = {"funding_hyperliquid"}
      BY <1>1, <1>3, <1>12 DEF HistoryInv, HaulSound
    <2> QED BY <1>3, <1>12, <1>13, <2>1 DEF HaulSound
  <1>15. OwedAccounted'
    <2> SUFFICES ASSUME NEW p \in owed PROVE Accounted(p)'
      BY <1>12 DEF OwedAccounted
    <2>1. \A s \in ToSet(series) : InstantsOf(call'.got[s]) = InstantsOf(call.got[s]) \cup InstantsOf(new[s])
      BY <1>12 DEF InstantsOf
    <2>2. CASE p \in call.owed
      <3>1. Accounted(p)
        BY <1>1, <2>2 DEF HistoryInv, OwedAccounted
      <3> QED BY <1>1, <1>12, <2>1, <3>1, FilesStay DEF Accounted, series
    <2>3. CASE p \notin call.owed
      <3>1. have /\ p[1] \in ToSet(series) /\ p[2] \in InPeriod(d)
        BY <2>3 DEF owed
      <3>2. p[2] \in Expected(p[1], d) \/ (p[1] = "mark_price" /\ p[2] \in ZeroAt)
        BY <3>1 DEF Expected
      <3>3. CASE p[1] = "mark_price" /\ p[2] \in ZeroAt
        BY <3>3 DEF Accounted, OnDisk
      <3>4. CASE p[2] \in Expected(p[1], d)
        BY <1>8, <1>12, <2>1, <3>1, <3>4 DEF Accounted
      <3> QED BY <3>2, <3>3, <3>4
    <2> QED BY <2>2, <2>3
  <1> QED BY <1>1, <1>12, <1>14, <1>15, FilesStay DEF HistoryInv

LEMMA FetchPageKeeps ==
    ASSUME HistoryInv, FetchPage
    PROVE  HistoryInv'
  <1> DEFINE there == {t \in Instant : call.cursor <= t /\ t < call.end /\ t <= settled}
             page == {u \in there : Cardinality({w \in there : w < u}) < PageSizeCap}
             body == {Row(t, 1) : t \in page}
             cursor == IF Cardinality(body) < PageSizeCap THEN call.end ELSE NextCursor(body)
             hl == "funding_hyperliquid"
             more == [s \in {hl} |-> body]
             g == [s \in DOMAIN call.got |-> call.got[s] \cup more[s]]
  <1>1. /\ call # NoCall /\ call.cursor < call.end
        /\ call' = [call EXCEPT !.got = [s \in DOMAIN @ |-> @[s] \cup body], !.cursor = cursor]
    BY DEF FetchPage
  <1>2. UNCHANGED <<archive, settled, disk, promised>>
    BY DEF FetchPage
  <1>3. HistoryTypes /\ call \in Collection
    BY <1>1 DEF HistoryInv, HistoryTypes
  <1>4. DOMAIN call.got = {hl}
    BY <1>1 DEF HistoryInv, HaulSound
  <1>5. call' = Further(call, call.todo, cursor, g, call.owed)
    <2>1. g = [s \in DOMAIN call.got |-> call.got[s] \cup body]
      BY <1>4
    <2> HIDE DEF g, cursor, body
    <2> QED BY <1>1, <1>3, <2>1 DEF Collection, Further
  <1>6. \A x, a : (Row(x, a)).at = x /\ (Row(x, a)).value = a
    BY DEF Row
  <1>7. /\ IsFiniteSet(page)
        /\ Cardinality(page) < PageSizeCap => page = there
        /\ ~ (Cardinality(page) < PageSizeCap) =>
              Max(page) \in page /\ \A t \in there : t <= Max(page) => t \in page
    <2>1. there \in SUBSET Instant
      OBVIOUS
    <2> HIDE DEF there
    <2> QED BY <2>1, PageIs
  <1>8. page \subseteq there /\ there \subseteq Instant
    OBVIOUS
  <1>9. /\ InstantsOf(body) = page /\ body \in SUBSET Observation
        /\ OnePerInstant(body) /\ \A r \in body : r.value = 1
    <2> HIDE DEF page, there
    <2>1. \A r \in body : \E t \in page : r = Row(t, 1)
      OBVIOUS
    <2>2. InstantsOf(body) = page
      BY <1>6 DEF InstantsOf
    <2>3. body \in SUBSET Observation
      BY <1>8, <2>1 DEF Observation, Row
    <2>4. OnePerInstant(body) /\ \A r \in body : r.value = 1
      BY <1>6, <2>1 DEF OnePerInstant
    <2> QED BY <2>2, <2>3, <2>4
  <1>10. Cardinality(body) = Cardinality(page)
    <2> HIDE DEF page
    <2> DEFINE f == [t \in page |-> Row(t, 1)]
    <2>1. f \in Bijection(page, body)
      <3>1. f \in [page -> body] /\ \A a, b \in page : f[a] = f[b] => a = b
        BY <1>6
      <3>2. \A r \in body : \E t \in page : f[t] = r
        OBVIOUS
      <3> HIDE DEF f, body
      <3> QED BY <3>1, <3>2 DEF Bijection, Injection, Surjection, IsInjective
    <2>2. ExistsBijection(page, body)
      <3> HIDE DEF f
      <3> QED BY <2>1 DEF ExistsBijection
    <2> HIDE DEF body
    <2> QED BY <1>7, <2>2, FS_Bijection
  <1>11. PICK n \in Nat : Instant = 1..n
    BY InstantsAre
  <1>12. /\ call.end \in Int /\ call.cursor \in Int /\ settled \in Nat
         /\ call.todo \in SUBSET call.todo /\ call.owed \in SUBSET (Series \X Instant)
    BY <1>3 DEF Collection, HistoryTypes
  <1>13. NextCursor(body) = Max(page) + 1
    BY <1>9 DEF NextCursor, InstantsOf
  <1>14. \A t \in there : t \in Int /\ t < call.end
    BY <1>11
  <1> HIDE DEF page, body, there
  <1>15. \A t \in page : t \in Int
    BY <1>8, <1>14
  <1>16. cursor \in Int
    <2>1. ~ (Cardinality(page) < PageSizeCap) => Max(page) \in Int
      BY <1>7, <1>15
    <2> QED BY <1>10, <1>12, <1>13, <2>1
  <1>17. \A t \in there : t \in page \/ (cursor <= t /\ t < call.end)
    <2>1. CASE Cardinality(body) < PageSizeCap
      BY <1>7, <1>10, <2>1
    <2>2. CASE ~ (Cardinality(body) < PageSizeCap)
      <3>1. cursor = Max(page) + 1 /\ Max(page) \in page
            /\ \A t \in there : t <= Max(page) => t \in page
        BY <1>7, <1>10, <1>13, <2>2
      <3>2. Max(page) \in Int /\ \A t \in there : t \in Int /\ t < call.end
        BY <1>14, <1>15, <3>1
      <3> HIDE DEF cursor
      <3>3. ASSUME NEW t \in there, t \notin page PROVE cursor <= t
        <4>1. ~ (t <= Max(page))
          BY <3>1, <3>3
        <4> QED BY <3>1, <3>2, <4>1
      <3> QED BY <3>2, <3>3
    <2> QED BY <2>1, <2>2
  <1> HIDE DEF cursor
  <1>18. call # NoCall
    BY <1>1
  <1>19. /\ HistoryTypes'
         /\ call'.series = call.series /\ call'.todo = call.todo /\ call'.cursor = cursor
         /\ call'.end = call.end /\ call'.owed = call.owed
         /\ DOMAIN call'.got = {hl}
         /\ call'.got[hl] = call.got[hl] \cup body
    <2>1. \A s \in DOMAIN call.got : more[s] \in SUBSET Observation
      BY <1>4, <1>9
    <2>2. g = [s \in DOMAIN call.got |-> call.got[s] \cup more[s]] /\ more[hl] = body
      OBVIOUS
    <2> HIDE DEF g, more
    <2>3. /\ HistoryTypes'
          /\ call'.series = call.series /\ call'.todo = call.todo /\ call'.cursor = cursor
          /\ call'.end = call.end /\ call'.owed = call.owed
          /\ DOMAIN call'.got = DOMAIN call.got
          /\ \A s \in DOMAIN call.got : call'.got[s] = call.got[s] \cup more[s]
      BY <1>2, <1>5, <1>12, <1>16, <1>18, <2>1, <2>2, FetchedMore
    <2> QED BY <1>4, <2>2, <2>3
  <1> HIDE DEF g, more
  <1>20. HaulSound'
    <2> DEFINE new == call'.got[hl]
               h == call.got[hl]
    <2>1. hl \notin BinanceSeries
      BY DEF BinanceSeries
    <2>2. OnePerInstant(h) /\ \A r \in h : r.value = 1
      BY <1>1, <1>4, <2>1 DEF HistoryInv, HaulSound
    <2>3. h \in SUBSET Observation
      BY <1>3, <1>4, HaulIs DEF Collection
    <2>4. new = h \cup body /\ new \in SUBSET Observation
      BY <1>9, <1>19, <2>3
    <2> HIDE DEF new, h
    <2>5. \A r \in new : r.value = 1
      BY <1>9, <2>2, <2>4
    <2>6. OnePerInstant(new)
      <3>1. ASSUME NEW r \in new, NEW q \in new, r.at = q.at PROVE r = q
        <4>1. r.value = q.value
          BY <2>5
        <4>2. r = [at |-> r.at, value |-> r.value] /\ q = [at |-> q.at, value |-> q.value]
          BY <2>4 DEF Observation
        <4> QED BY <3>1, <4>1, <4>2
      <3> QED BY <3>1 DEF OnePerInstant
    <2>7. call.todo = {}
      <3>1. SUFFICES ASSUME call.todo # {} PROVE FALSE
        OBVIOUS
      <3>2. call.series \in BinanceOrders /\ ToSet(call.series) = {hl}
        BY <1>1, <1>4, <3>1 DEF HistoryInv, HaulSound
      <3> QED BY <2>1, <3>2, OrdersAre
    <2>8. ToSet(call.series) \subseteq {hl}
      BY <1>1, <1>4 DEF HistoryInv, HaulSound
    <2>9. \A s \in DOMAIN call'.got :
              /\ OnePerInstant(call'.got[s]) /\ Whole(s, call'.got[s])
              /\ s \in BinanceSeries => \A r \in call'.got[s] : PeriodOf(r.at) \notin call'.todo
              /\ s \notin BinanceSeries => \A r \in call'.got[s] : r.value = 1
      BY <1>19, <2>1, <2>5, <2>6 DEF Whole, new
    <2> HIDE DEF hl
    <2>10. /\ ToSet(call'.series) \subseteq DOMAIN call'.got
           /\ call'.todo # {} => call'.series \in BinanceOrders /\ DOMAIN call'.got = ToSet(call'.series)
           /\ call'.cursor < call'.end => DOMAIN call'.got = {"funding_hyperliquid"}
      BY <1>19, <2>7, <2>8 DEF hl
    <2> QED BY <2>9, <2>10 DEF HaulSound
  <1>21. OwedAccounted'
    <2> SUFFICES ASSUME NEW p \in call.owed PROVE Accounted(p)'
      BY <1>19 DEF OwedAccounted
    <2>1. Accounted(p)
      BY <1>1 DEF HistoryInv, OwedAccounted
    <2>2. InstantsOf(call'.got[hl]) = InstantsOf(call.got[hl]) \cup page
      BY <1>9, <1>19 DEF InstantsOf
    <2>3. CASE OnDisk(p[1], p[2])
      BY <1>2, <2>3, FilesStay DEF Accounted
    <2>4. CASE p[1] \in ToSet(call.series)
      <3>1. p[1] = hl
        BY <1>1, <1>4, <2>4 DEF HistoryInv, HaulSound
      <3>2. CASE p[2] \in InstantsOf(call.got[hl])
        BY <1>19, <2>2, <2>4, <3>1, <3>2 DEF Accounted
      <3>3. CASE call.cursor <= p[2] /\ p[2] < call.end /\ p[2] <= settled
        <4>1. p[2] \in there
          BY <1>12, <3>3 DEF there
        <4>2. p[2] \in page \/ (cursor <= p[2] /\ p[2] < call.end)
          BY <1>17, <4>1
        <4> QED BY <1>2, <1>19, <2>2, <2>4, <3>1, <3>3, <4>2 DEF Accounted
      <3>4. CASE OnDisk(p[1], p[2])
        BY <1>2, <3>4, FilesStay DEF Accounted
      <3> QED BY <2>1, <3>1, <3>2, <3>3, <3>4 DEF Accounted
    <2> QED BY <2>1, <2>3, <2>4 DEF Accounted
  <1> QED BY <1>2, <1>19, <1>20, <1>21, FilesStay DEF HistoryInv

LEMMA MergeKeeps ==
    ASSUME HistoryInv, MergeAndWrite
    PROVE  HistoryInv'
  <1>0. PICK s : s = Head(call.series)
    OBVIOUS
  <1> DEFINE old == disk[s]
             new == call.got[s]
             merged == Merged(old, new)
  <1>1. /\ call # NoCall /\ call.todo = {} /\ call.cursor >= call.end /\ call.series # << >>
        /\ disk' = [disk EXCEPT ![s] = merged]
        /\ call' = [call EXCEPT !.series = Tail(@)]
        /\ UNCHANGED <<archive, settled, promised>>
    BY <1>0 DEF MergeAndWrite, Fetched
  <1>2. HistoryTypes /\ call \in Collection /\ call.series \in Seq(Series)
        /\ disk \in [Series -> Seq(Observation)]
    BY <1>1 DEF HistoryInv, HistoryTypes, Collection
  <1>3. /\ s \in ToSet(call.series) /\ s \in Series
        /\ Tail(call.series) \in Seq(Series)
        /\ ToSet(Tail(call.series)) \subseteq ToSet(call.series)
        /\ \A x \in ToSet(call.series) : x = s \/ x \in ToSet(Tail(call.series))
    <2> DEFINE q == call.series
    <2>1. q \in Seq(Series) /\ q # << >> /\ Len(q) \in Nat \ {0} /\ s = q[1]
      BY <1>0, <1>1, <1>2
    <2> HIDE DEF q
    <2>2. Tail(q) \in Seq(Series) /\ Len(Tail(q)) = Len(q) - 1
          /\ \A i \in 1..(Len(q) - 1) : Tail(q)[i] = q[i + 1]
      BY <2>1
    <2>3. \A i \in 1..Len(q) : i = 1 \/ (i - 1 \in 1..(Len(q) - 1) /\ (i - 1) + 1 = i)
      BY <2>1
    <2>4. \A i \in 1..(Len(q) - 1) : i + 1 \in 1..Len(q)
      BY <2>1
    <2>5. DOMAIN q = 1..Len(q) /\ DOMAIN Tail(q) = 1..(Len(q) - 1) /\ 1 \in 1..Len(q)
      BY <2>1, <2>2
    <2>6. \A x \in ToSet(q) : x = q[1] \/ x \in ToSet(Tail(q))
      <3> TAKE x \in ToSet(q)
      <3>1. PICK i \in 1..Len(q) : x = q[i]
        BY <2>5 DEF ToSet
      <3>2. CASE i # 1
        <4>1. i - 1 \in DOMAIN Tail(q) /\ Tail(q)[i - 1] = x
          BY <2>2, <2>3, <2>5, <3>1, <3>2
        <4> QED BY <4>1 DEF ToSet
      <3> QED BY <3>1, <3>2
    <2>7. ToSet(Tail(q)) \subseteq ToSet(q) /\ q[1] \in ToSet(q) /\ q[1] \in Series
      BY <2>1, <2>2, <2>4, <2>5 DEF ToSet
    <2> QED BY <2>1, <2>2, <2>6, <2>7 DEF q
  <1>4. /\ s \in DOMAIN call.got /\ OnePerInstant(new) /\ Whole(s, new)
        /\ ToSet(call.series) \subseteq DOMAIN call.got
    BY <1>1, <1>3 DEF HistoryInv, HaulSound
  <1>5. new \in SUBSET Observation
    BY <1>2, <1>4, HaulIs DEF Collection
  <1>6. old \in Seq(Observation) /\ Ascending(old) /\ Whole(s, ToSet(old))
    BY <1>2, <1>3 DEF HistoryInv, DiskSound
  <1> HIDE DEF old, new
  <1>7. /\ merged \in Seq(Observation)
        /\ Ascending(merged)
        /\ InstantsOf(ToSet(merged)) = InstantsOf(ToSet(old)) \cup InstantsOf(new)
        /\ Whole(s, ToSet(merged))
    BY <1>4, <1>5, <1>6, MergedIs
  <1> HIDE DEF merged
  <1>8. /\ disk' \in [Series -> Seq(Observation)]
        /\ \A x \in Series : disk'[x] = IF x = s THEN merged ELSE disk[x]
    BY <1>1, <1>2, <1>3, <1>7
  <1>9. /\ call' \in Collection
        /\ call'.series = Tail(call.series) /\ call'.got = call.got /\ call'.owed = call.owed
        /\ call'.todo = {} /\ call'.cursor = call.cursor /\ call'.end = call.end
    BY <1>1, <1>2, <1>3 DEF Collection
  <1>10. HistoryTypes'
    BY <1>1, <1>2, <1>8, <1>9 DEF HistoryTypes
  <1>11. DiskSound'
    BY <1>7, <1>8 DEF HistoryInv, DiskSound
  <1>12. HaulSound'
    <2>1. \A x \in DOMAIN call.got :
              /\ OnePerInstant(call.got[x]) /\ Whole(x, call.got[x])
              /\ x \notin BinanceSeries => \A r \in call.got[x] : r.value = 1
      BY <1>1 DEF HistoryInv, HaulSound
    <2>2. ~ (call.cursor < call.end)
      <3>1. call.cursor \in Int /\ call.end \in Int
        BY <1>2 DEF Collection
      <3> QED BY <1>1, <3>1
    <2> QED BY <1>3, <1>4, <1>9, <2>1, <2>2 DEF HaulSound
  <1>13. ASSUME NEW x \in Series, NEW t, OnDisk(x, t) PROVE OnDisk(x, t)'
    BY <1>7, <1>8, <1>13 DEF OnDisk, old
  <1>14. ASSUME NEW t \in InstantsOf(new) PROVE OnDisk(s, t)'
    BY <1>3, <1>7, <1>8 DEF OnDisk
  <1>15. OwedAccounted'
    <2> SUFFICES ASSUME NEW p \in call.owed PROVE Accounted(p)'
      BY <1>9 DEF OwedAccounted
    <2>1. Accounted(p) /\ p[1] \in Series
      BY <1>1, <1>2 DEF HistoryInv, OwedAccounted, Collection
    <2>2. CASE OnDisk(p[1], p[2])
      BY <1>13, <2>1, <2>2 DEF Accounted
    <2>3. CASE ~ OnDisk(p[1], p[2])
      <3>1. p[1] \in ToSet(call.series) /\ p[2] \in InstantsOf(call.got[p[1]])
        <4>1. p[2] \in Int /\ call.cursor \in Int /\ call.end \in Int
          <5>1. PICK n \in Nat : Instant = 1..n
            BY InstantsAre
          <5>2. p[2] \in Instant
            BY <1>2 DEF Collection
          <5> QED BY <1>2, <5>1, <5>2 DEF Collection
        <4>2. ~ (call.cursor <= p[2] /\ p[2] < call.end)
          BY <1>1, <4>1
        <4> QED BY <2>1, <2>3, <4>2 DEF Accounted
      <3>2. CASE p[1] = s
        BY <1>14, <3>1, <3>2 DEF Accounted, new
      <3>3. CASE p[1] # s
        BY <1>3, <1>9, <3>1, <3>3 DEF Accounted
      <3> QED BY <3>2, <3>3
    <2> QED BY <2>2, <2>3
  <1>16. PromiseKept'
    <2> SUFFICES ASSUME NEW p \in promised PROVE OnDisk(p[1], p[2])'
      BY <1>1 DEF PromiseKept, OnDisk, InstantsOf
    <2>1. OnDisk(p[1], p[2])
      BY DEF HistoryInv, PromiseKept, OnDisk, InstantsOf
    <2>2. p[1] \in Series
      BY <1>2 DEF HistoryTypes
    <2> QED BY <1>13, <2>1, <2>2
  <1> QED BY <1>10, <1>11, <1>12, <1>15, <1>16 DEF HistoryInv

LEMMA EndKeeps ==
    ASSUME HistoryInv, Report \/ Abort
    PROVE  HistoryInv'
  <1>1. /\ call # NoCall /\ call' = NoCall /\ UNCHANGED <<archive, settled, disk>>
        /\ promised' = promised \/ (call.series = << >> /\ promised' = promised \cup call.owed)
    BY DEF Report, Abort
  <1>2. HistoryTypes /\ call.owed \subseteq Series \X Instant
    BY <1>1 DEF HistoryInv, HistoryTypes, Collection
  <1>3. HistoryTypes'
    BY <1>1, <1>2 DEF HistoryTypes
  <1>4. DiskSound' /\ HaulSound' /\ OwedAccounted'
    BY <1>1 DEF HistoryInv, DiskSound, HaulSound, OwedAccounted
  <1>5. PromiseKept'
    <2> SUFFICES ASSUME NEW p \in promised' PROVE OnDisk(p[1], p[2])
      BY <1>1 DEF PromiseKept, OnDisk, InstantsOf
    <2>1. CASE p \in promised
      BY <2>1 DEF HistoryInv, PromiseKept, OnDisk, InstantsOf
    <2>2. CASE p \notin promised
      <3>1. p \in call.owed /\ call.series = << >>
        BY <1>1, <2>2
      <3>2. Accounted(p) /\ ToSet(call.series) = {}
        BY <1>1, <3>1 DEF HistoryInv, OwedAccounted, ToSet
      <3> QED BY <3>2 DEF Accounted
    <2> QED BY <2>1, <2>2
  <1> QED BY <1>3, <1>4, <1>5 DEF HistoryInv

LEMMA HistoryInitial == HistoryInit => HistoryInv
  <1> SUFFICES ASSUME HistoryInit PROVE HistoryInv
    OBVIOUS
  <1> USE DEF HistoryInit
  <1>1. \A s \in Series : disk[s] = << >> /\ ToSet(disk[s]) = {}
    BY DEF ToSet
  <1>2. HistoryTypes
    <2>1. archive \in [{"metrics", "funding"} -> [1..Periods -> Nat]]
      OBVIOUS
    <2>2. disk \in [Series -> Seq(Observation)]
      OBVIOUS
    <2> QED BY <2>1, <2>2 DEF HistoryTypes
  <1>3. DiskSound
    BY <1>1 DEF DiskSound, Ascending, Whole
  <1>4. HaulSound /\ OwedAccounted /\ PromiseKept
    BY DEF HaulSound, OwedAccounted, PromiseKept
  <1> QED BY <1>2, <1>3, <1>4 DEF HistoryInv

LEMMA HistoryStep ==
    ASSUME HistoryInv, [HistoryNext]_historyVars
    PROVE  HistoryInv'
  <1>1. CASE UNCHANGED historyVars
    <2>1. UNCHANGED <<archive, settled, disk, call, promised>>
      BY <1>1 DEF historyVars
    <2>2. HistoryTypes' /\ HaulSound'
      BY <2>1 DEF HistoryInv, HistoryTypes, HaulSound
    <2>3. OwedAccounted'
      BY <2>1 DEF HistoryInv, OwedAccounted, Accounted, OnDisk
    <2> QED BY <2>1, <2>2, <2>3, FilesStay DEF HistoryInv
  <1>2. ASSUME NEW first \in 1..Periods, NEW force \in BOOLEAN, NEW last \in first..Periods,
               \/ CollectOpenInterest(first, last, force)
               \/ CollectMarkPrice(first, last, force)
               \/ CollectMetrics(first, last, force)
               \/ CollectFundingRateBinance(first, last, force)
        PROVE  HistoryInv'
    <2>1. PICK series \in BinanceOrders : Begin(series, first, last, force)
      BY <1>2 DEF CollectOpenInterest, CollectMarkPrice, CollectMetrics, CollectFundingRateBinance,
                  BinanceOrders
    <2> QED BY <2>1, BeginKeeps
  <1>3. CASE HistoryNext
    BY <1>2, <1>3, PublishKeeps, SettleKeeps, ResumeKeeps, FetchNextKeeps, FetchPageKeeps, MergeKeeps,
       EndKeeps DEF HistoryNext
  <1> QED BY <1>1, <1>3

(* The collectors keep their files sound and their word. *)
LEMMA HistoryHolds == HistorySpec => []HistoryInv
  <1>1. HistoryInit => HistoryInv
    BY HistoryInitial
  <1>2. HistoryInv /\ [HistoryNext]_historyVars => HistoryInv'
    BY HistoryStep
  <1> QED BY <1>1, <1>2, PTL DEF HistorySpec

(* merge_and_write leaves every series without duplicates and in order,    *)
(* and whole periods of the Binance series only, for any number of periods *)
(* and calls, wherever a call is cut off: so one row of a period may stand *)
(* for all of it (_existing_days_covered).                                 *)
THEOREM SeriesAreSound == HistorySpec => []SoundSeries
  <1>1. HistoryInv => SoundSeries
    <2> SUFFICES ASSUME HistoryInv, NEW s \in Series
                 PROVE  /\ DuplicateCount(disk[s]) = 0 /\ IsMonotonic(disk[s])
                        /\ s \in BinanceSeries =>
                              \A d \in Covered(s) : Expected(s, d) \subseteq {r.at : r \in ToSet(disk[s])}
      BY DEF SoundSeries
    <2> DEFINE rows == disk[s]
               n == Len(rows)
               T == {rows[i].at : i \in DOMAIN rows}
               f == [i \in 1..n |-> rows[i].at]
    <2>1. rows \in Seq(Observation) /\ Ascending(rows) /\ Whole(s, ToSet(rows))
      BY DEF HistoryInv, HistoryTypes, DiskSound
    <2> HIDE DEF rows
    <2>2. n \in Nat /\ DOMAIN rows = 1..n
      BY <2>1
    <2>3. \A i \in 1..n : rows[i].at \in Nat
      <3>1. PICK m \in Nat : Instant = 1..m
        BY InstantsAre
      <3>2. \A i \in 1..n : rows[i] \in Observation
        BY <2>1, <2>2
      <3> HIDE DEF n
      <3> QED BY <3>1, <3>2 DEF Observation
    <2>4. \A i, j \in 1..n : i < j => rows[i].at < rows[j].at
      BY <2>1, <2>2 DEF Ascending
    <2> HIDE DEF n
    <2>5. \A i, j \in 1..n : rows[i].at = rows[j].at => i = j
      <3> SUFFICES ASSUME NEW i \in 1..n, NEW j \in 1..n, rows[i].at = rows[j].at PROVE i = j
        OBVIOUS
      <3>1. ~ (i < j) /\ ~ (j < i)
        BY <2>3, <2>4
      <3> QED BY <2>2, <3>1
    <2>6. f \in Bijection(1..n, T)
      <3>1. f \in [1..n -> T] /\ \A a, b \in 1..n : f[a] = f[b] => a = b
        BY <2>2, <2>5
      <3>2. \A x \in T : \E i \in 1..n : f[i] = x
        BY <2>2
      <3> HIDE DEF f, T
      <3> QED BY <3>1, <3>2 DEF Bijection, Injection, Surjection, IsInjective
    <2>7. ExistsBijection(1..n, T)
      <3> HIDE DEF f, T
      <3> QED BY <2>6 DEF ExistsBijection
    <2>8. Cardinality(T) = n
      <3> HIDE DEF T
      <3> QED BY <2>2, <2>7, FS_CountingElements
    <2>9. DuplicateCount(rows) = 0
      <3>1. DuplicateCount(rows) = n - Cardinality(T)
        BY DEF DuplicateCount, n
      <3> QED BY <2>2, <2>8, <3>1
    <2>10. IsMonotonic(rows)
      <3> SUFFICES ASSUME NEW i \in 2..n PROVE rows[i - 1].at <= rows[i].at
        BY DEF IsMonotonic, n
      <3>1. i \in 1..n /\ i - 1 \in 1..n /\ i - 1 < i
        BY <2>2
      <3>2. rows[i - 1].at < rows[i].at /\ rows[i - 1].at \in Nat /\ rows[i].at \in Nat
        BY <2>3, <2>4, <3>1
      <3> QED BY <3>2
    <2>11. s \in BinanceSeries =>
              \A d \in Covered(s) : Expected(s, d) \subseteq {r.at : r \in ToSet(rows)}
      BY <2>1 DEF Covered, Whole, InstantsOf, rows
    <2> QED BY <2>9, <2>10, <2>11 DEF rows
  <1> QED BY <1>1, HistoryHolds, PTL

(* What a completed collect_* call reports as collected, fetched now or    *)
(* skipped as already there, stays on disk from then on, whatever page     *)
(* size Hyperliquid answers with and whichever later calls fetch, force or *)
(* break off.                                                              *)
THEOREM CollectorsKeepTheirWord == HistorySpec => []PromiseKept
  <1>1. HistoryInv => PromiseKept
    BY DEF HistoryInv
  <1> QED BY <1>1, HistoryHolds, PTL

(***************************************************************************)
(* The samples of the campaigns                                            *)
(***************************************************************************)

(* Somebody who stops reading at t cannot tell two such series apart. *)
SameUpTo(a, b, t) == UpTo(a, t) = UpTo(b, t)

Dated(rows) == \A r \in rows : r.at \in Int

LEMMA StoppingEarlier ==
    ASSUME NEW a, NEW b, Dated(a), Dated(b), NEW t \in Int, SameUpTo(a, b, t), NEW u \in Int, u <= t
    PROVE  SameUpTo(a, b, u)
  <1>1. \A r : r \in a /\ r.at <= u <=> r \in b /\ r.at <= u
    BY DEF SameUpTo, UpTo, Dated
  <1> QED BY <1>1 DEF SameUpTo, UpTo

LEMMA SameLatest ==
    ASSUME NEW a, NEW b, NEW t, SameUpTo(a, b, t)
    PROVE  LatestAtOrBefore(a, t) = LatestAtOrBefore(b, t)
  <1> DEFINE Past(u) == {r \in u : t - Max(InstantsOf(u)) <= Tolerance}
             InForce(u) == IF Past(u) = {} THEN None
                           ELSE (CHOOSE r \in Past(u) : r.at = Max(InstantsOf(Past(u)))).value
  <1>1. LatestAtOrBefore(a, t) = InForce(UpTo(a, t)) /\ LatestAtOrBefore(b, t) = InForce(UpTo(b, t))
    BY Zenon DEF LatestAtOrBefore
  <1> HIDE DEF InForce
  <1> QED BY <1>1 DEF SameUpTo

LEMMA SameWindow ==
    ASSUME NEW a, NEW b, Dated(a), Dated(b), NEW t \in Int, SameUpTo(a, b, t), NEW start
    PROVE  WindowValues(a, start, t) = WindowValues(b, start, t)
  <1>1. \A r : r \in a /\ r.at < t <=> r \in b /\ r.at < t
    BY DEF SameUpTo, UpTo, Dated
  <1> QED BY <1>1 DEF WindowValues

Follows(rows, r, p) ==
    /\ r \in rows /\ p \in rows /\ r.at > p.at
    /\ \A q \in rows : q.at <= p.at \/ q.at >= r.at

LEMMA DeltaIs ==
    ASSUME NEW rows, NEW d
    PROVE  d \in DeltaPairs(rows)
             <=> \E r, p : Follows(rows, r, p) /\ d = [at |-> r.at, value |-> Minus(r.value, p.value)]
  <1>1. ASSUME d \in DeltaPairs(rows)
        PROVE  \E r, p : Follows(rows, r, p) /\ d = [at |-> r.at, value |-> Minus(r.value, p.value)]
    <2>1. PICK x \in rows \X rows :
             /\ x[1].at > x[2].at /\ \A q \in rows : q.at <= x[2].at \/ q.at >= x[1].at
             /\ d = [at |-> x[1].at, value |-> Minus(x[1].value, x[2].value)]
      BY <1>1, Zenon DEF DeltaPairs
    <2>2. Follows(rows, x[1], x[2])
      BY <2>1 DEF Follows
    <2> QED BY <2>1, <2>2, Zenon
  <1>2. ASSUME NEW r, NEW p, Follows(rows, r, p),
               d = [at |-> r.at, value |-> Minus(r.value, p.value)]
        PROVE  d \in DeltaPairs(rows)
    <2>1. PICK x : x = <<r, p>>
      OBVIOUS
    <2>2. x \in rows \X rows /\ x[1] = r /\ x[2] = p
      BY <1>2, <2>1 DEF Follows
    <2>3. /\ x[1].at > x[2].at /\ \A q \in rows : q.at <= x[2].at \/ q.at >= x[1].at
          /\ d = [at |-> x[1].at, value |-> Minus(x[1].value, x[2].value)]
      BY <1>2, <2>2 DEF Follows
    <2> QED BY <2>2, <2>3, Zenon DEF DeltaPairs
  <1> QED BY <1>1, <1>2

(* The change since the row before is known when the row is. *)
LEMMA SameDeltas ==
    ASSUME NEW a, NEW b, Dated(a), Dated(b), NEW t \in Int, SameUpTo(a, b, t)
    PROVE  SameUpTo(DeltaPairs(a), DeltaPairs(b), t)
  <1>1. \A r : r \in a /\ r.at <= t <=> r \in b /\ r.at <= t
    BY DEF SameUpTo, UpTo
  <1>2. ASSUME NEW r, NEW p, r.at <= t PROVE Follows(a, r, p) <=> Follows(b, r, p)
    BY <1>1, <1>2 DEF Dated, Follows
  <1>3. ASSUME NEW d, d.at <= t PROVE d \in DeltaPairs(a) <=> d \in DeltaPairs(b)
    BY <1>2, <1>3, DeltaIs
  <1> QED BY <1>3 DEF SameUpTo, UpTo

LEMMA SameFeature ==
    ASSUME NEW a, NEW b, Dated(a), Dated(b), NEW t \in Int, SameUpTo(a, b, t), NEW kind
    PROVE  FeatureAt(kind, a, t) = FeatureAt(kind, b, t)
  <1>1. LatestAtOrBefore(a, t) = LatestAtOrBefore(b, t)
    BY SameLatest
  <1>2. LatestAtOrBefore(a, t - Lookback) = LatestAtOrBefore(b, t - Lookback)
    <2>1. t - Lookback \in Int /\ t - Lookback <= t
      BY BuilderAssumption
    <2> QED BY <2>1, StoppingEarlier, SameLatest
  <1>3. WindowValues(a, t - Window, t) = WindowValues(b, t - Window, t)
    BY SameWindow
  <1>4. LatestAtOrBefore(DeltaPairs(a), t) = LatestAtOrBefore(DeltaPairs(b), t)
    BY SameDeltas, SameLatest
  <1>5. Extremeness(a, t, PercentileRankCentered) = Extremeness(b, t, PercentileRankCentered)
    BY <1>1, <1>3 DEF Extremeness
  <1>6. Extremeness(a, t, Zscore) = Extremeness(b, t, Zscore)
    BY <1>1, <1>3 DEF Extremeness
  <1>7. Velocity(a, t) = Velocity(b, t)
    BY <1>1, <1>2 DEF Velocity
  <1> QED BY <1>1, <1>4, <1>5, <1>6, <1>7 DEF FeatureAt

LEMMA SameOutcome ==
    ASSUME NEW a, NEW b, Dated(a), Dated(b), NEW t \in Int, SameUpTo(a, b, t + Horizon)
    PROVE  Realized(a, t) = Realized(b, t)
  <1>1. t + Horizon \in Int /\ t <= t + Horizon
    BY BuilderAssumption
  <1>2. LatestAtOrBefore(a, t) = LatestAtOrBefore(b, t)
    BY <1>1, StoppingEarlier, SameLatest
  <1>3. LatestAtOrBefore(a, t + Horizon) = LatestAtOrBefore(b, t + Horizon)
    BY SameLatest
  <1> QED BY <1>2, <1>3 DEF Realized

LEMMA SameRegime ==
    ASSUME NEW a, NEW b, Dated(a), Dated(b), NEW t \in Int, SameUpTo(a, b, t)
    PROVE  RegimeLabel(a, t) = RegimeLabel(b, t)
  <1>1. LatestAtOrBefore(a, t) = LatestAtOrBefore(b, t)
    BY SameLatest
  <1>2. LatestAtOrBefore(a, t - Lookback) = LatestAtOrBefore(b, t - Lookback)
    <2>1. t - Lookback \in Int /\ t - Lookback <= t
      BY BuilderAssumption
    <2> QED BY <2>1, StoppingEarlier, SameLatest
  <1> QED BY <1>1, <1>2 DEF RegimeLabel

-----------------------------------------------------------------------------
(* A series grows at its end. *)

Bounded(rows) ==
    /\ Dated(rows)
    /\ rows # {} => \E lo, hi \in rows : \A r \in rows : lo.at <= r.at /\ r.at <= hi.at

Grows(a, b) == a \subseteq b /\ \A r \in a, q \in b \ a : r.at < q.at

LEMMA Ends ==
    ASSUME NEW rows, Bounded(rows), rows # {}
    PROVE  /\ Max(InstantsOf(rows)) \in InstantsOf(rows) /\ Max(InstantsOf(rows)) \in Int
           /\ Min(InstantsOf(rows)) \in InstantsOf(rows) /\ Min(InstantsOf(rows)) \in Int
           /\ \A r \in rows : Min(InstantsOf(rows)) <= r.at /\ r.at <= Max(InstantsOf(rows))
  <1> DEFINE T == InstantsOf(rows)
  <1>1. PICK lo \in rows, hi \in rows : \A r \in rows : lo.at <= r.at /\ r.at <= hi.at
    BY DEF Bounded
  <1>2. T \subseteq Int /\ lo.at \in T /\ hi.at \in T /\ \A t \in T : lo.at <= t /\ t <= hi.at
    BY <1>1 DEF InstantsOf, Bounded, Dated
  <1> HIDE DEF T
  <1>3. hi.at \in T /\ \A y \in T : hi.at >= y
    BY <1>2
  <1>4. lo.at \in T /\ \A y \in T : lo.at <= y
    BY <1>2
  <1>5. Max(T) \in T /\ \A y \in T : Max(T) >= y
    BY <1>3, Zenon DEF Max
  <1>6. Min(T) \in T /\ \A y \in T : Min(T) <= y
    BY <1>4, Zenon DEF Min
  <1>7. \A r \in rows : r.at \in T
    BY DEF T, InstantsOf
  <1>8. \A r \in rows : Min(T) <= r.at /\ r.at <= Max(T)
    BY <1>2, <1>5, <1>6, <1>7
  <1> QED BY <1>2, <1>5, <1>6, <1>8 DEF T

LEMMA GrowingKeeps ==
    ASSUME NEW a, NEW b, Bounded(a), Bounded(b), Grows(a, b), a # {}
    PROVE  /\ Min(InstantsOf(b)) = Min(InstantsOf(a))
           /\ Max(InstantsOf(a)) <= Max(InstantsOf(b))
           /\ \A t \in Int : t <= Max(InstantsOf(a)) => SameUpTo(a, b, t)
  <1> DEFINE loA == Min(InstantsOf(a))
             hiA == Max(InstantsOf(a))
             loB == Min(InstantsOf(b))
             hiB == Max(InstantsOf(b))
  <1>1. b # {} /\ a \subseteq b /\ \A r \in a, q \in b \ a : r.at < q.at
    BY DEF Grows
  <1>2. /\ hiA \in Int /\ loA \in Int /\ hiA \in InstantsOf(a) /\ loA \in InstantsOf(a)
        /\ \A r \in a : loA <= r.at /\ r.at <= hiA
    BY Ends
  <1>3. /\ hiB \in Int /\ loB \in Int /\ loB \in InstantsOf(b)
        /\ \A r \in b : loB <= r.at /\ r.at <= hiB
    BY <1>1, Ends
  <1> HIDE DEF loA, hiA, loB, hiB
  <1>4. PICK ra \in a : ra.at = hiA
    BY <1>2 DEF InstantsOf
  <1>5. PICK qa \in a : qa.at = loA
    BY <1>2 DEF InstantsOf
  <1>6. PICK rb \in b : rb.at = loB
    BY <1>3 DEF InstantsOf
  <1>7. hiA <= hiB
    BY <1>1, <1>3, <1>4
  <1>8. loB = loA
    <2>1. loB <= loA
      BY <1>1, <1>3, <1>5
    <2>2. loA <= loB
      BY <1>1, <1>2, <1>3, <1>5, <1>6
    <2> QED BY <1>2, <1>3, <2>1, <2>2
  <1>9. ASSUME NEW t \in Int, t <= hiA PROVE SameUpTo(a, b, t)
    <2>1. \A r \in b : r.at \in Int
      BY DEF Bounded, Dated
    <2>2. \A r \in b : r.at <= t => r \in a
      BY <1>1, <1>2, <1>4, <1>9, <2>1
    <2> QED BY <1>1, <2>2 DEF SameUpTo, UpTo
  <1> QED BY <1>7, <1>8, <1>9 DEF loA, hiA, loB, hiB

LEMMA Lesser ==
    ASSUME NEW x \in Int, NEW y \in Int
    PROVE  /\ Min({x, y}) \in Int /\ Min({x, y}) <= x /\ Min({x, y}) <= y
           /\ Min({x, y}) = x \/ Min({x, y}) = y
  <1>1. \E z \in {x, y} : \A w \in {x, y} : z <= w
    OBVIOUS
  <1>2. Min({x, y}) \in {x, y} /\ \A w \in {x, y} : Min({x, y}) <= w
    BY <1>1, Zenon DEF Min
  <1> QED BY <1>2

LEMMA LastFeasibleIs ==
    ASSUME NEW a, NEW p, Max(InstantsOf(a)) \in Int, Max(InstantsOf(p)) \in Int
    PROVE  /\ LastFeasible(a, p) \in Int
           /\ LastFeasible(a, p) <= Max(InstantsOf(a))
           /\ LastFeasible(a, p) <= Max(InstantsOf(p)) - Horizon
           /\ \/ LastFeasible(a, p) = Max(InstantsOf(a))
              \/ LastFeasible(a, p) = Max(InstantsOf(p)) - Horizon
  <1>1. PICK x \in Int : x = Max(InstantsOf(a))
    OBVIOUS
  <1>2. PICK y \in Int : y = Max(InstantsOf(p)) - Horizon
    BY BuilderAssumption
  <1>3. LastFeasible(a, p) = Min({x, y})
    BY <1>1, <1>2 DEF LastFeasible
  <1>4. /\ Min({x, y}) \in Int /\ Min({x, y}) <= x /\ Min({x, y}) <= y
        /\ Min({x, y}) = x \/ Min({x, y}) = y
    BY Lesser
  <1> QED BY <1>1, <1>2, <1>3, <1>4

(* Where a sample may be made, a row and the mark after its outcome are    *)
(* there.                                                                  *)
LEMMA GridFacts ==
    ASSUME NEW a, NEW p, Bounded(a), Bounded(p), NEW first \in Int, NEW days \in Int,
           NEW t, t \in Grid(a, p, first, days)
    PROVE  /\ a # {} /\ p # {} /\ t \in Int
           /\ t <= Max(InstantsOf(a)) /\ t + Horizon <= Max(InstantsOf(p))
           /\ (t - (Midnight(first) + days * Day)) % Spacing = 0
           /\ Midnight(first) + days * Day \in Int
           /\ Midnight(first) + days * Day <= t
  <1> DEFINE start == Midnight(first) + days * Day
             last == LastFeasible(a, p)
  <1>1. a # {} /\ p # {} /\ t \in start..last /\ (t - start) % Spacing = 0
    <2> HIDE DEF last
    <2> QED BY Zenon DEF Grid, last
  <1>2. start \in Int
    <2>1. first \div Day \in Int /\ Day \in Int
      BY BuilderAssumption
    <2>2. (first \div Day) * Day \in Int /\ days * Day \in Int
      BY <2>1
    <2> QED BY <2>2 DEF Midnight
  <1>3. Max(InstantsOf(a)) \in Int /\ Max(InstantsOf(p)) \in Int /\ Horizon \in Nat
    BY <1>1, Ends, BuilderAssumption
  <1>4. last \in Int /\ last <= Max(InstantsOf(a)) /\ last <= Max(InstantsOf(p)) - Horizon
    BY <1>3, LastFeasibleIs
  <1> HIDE DEF start, last
  <1>5. t \in Int /\ start <= t /\ t <= last
    BY <1>1, <1>2, <1>4
  <1>6. t <= Max(InstantsOf(a)) /\ t + Horizon <= Max(InstantsOf(p))
    BY <1>3, <1>4, <1>5
  <1> QED BY <1>1, <1>2, <1>5, <1>6 DEF start

LEMMA GridGrows ==
    ASSUME NEW a, NEW b, NEW p, NEW q, Bounded(a), Bounded(b), Bounded(p), Bounded(q),
           Grows(a, b), Grows(p, q), NEW first \in Int, NEW days \in Int
    PROVE  Grid(a, p, first, days) \subseteq Grid(b, q, first, days)
  <1> DEFINE start == Midnight(first) + days * Day
             last == LastFeasible(a, p)
             later == LastFeasible(b, q)
  <1>0. SUFFICES ASSUME NEW t, t \in Grid(a, p, first, days) PROVE t \in Grid(b, q, first, days)
    OBVIOUS
  <1>1. /\ a # {} /\ p # {} /\ t \in start..last /\ (t - start) % Spacing = 0
        /\ ~ (last <= first)
    <2> HIDE DEF last
    <2> QED BY <1>0, Zenon DEF Grid, last
  <1>2. b # {} /\ q # {}
    BY <1>1 DEF Grows
  <1>3. /\ Max(InstantsOf(a)) \in Int /\ Max(InstantsOf(p)) \in Int /\ Horizon \in Nat
        /\ Max(InstantsOf(b)) \in Int /\ Max(InstantsOf(q)) \in Int
    BY <1>1, <1>2, Ends, BuilderAssumption
  <1>4. Max(InstantsOf(a)) <= Max(InstantsOf(b)) /\ Max(InstantsOf(p)) <= Max(InstantsOf(q))
    BY <1>1, GrowingKeeps
  <1>5. last \in Int /\ later \in Int /\ last <= later
    <2>1. last \in Int /\ last <= Max(InstantsOf(a)) /\ last <= Max(InstantsOf(p)) - Horizon
      BY <1>3, LastFeasibleIs
    <2>2. later \in Int /\ (later = Max(InstantsOf(b)) \/ later = Max(InstantsOf(q)) - Horizon)
      BY <1>3, LastFeasibleIs
    <2> HIDE DEF last, later
    <2> QED BY <1>3, <1>4, <2>1, <2>2
  <1>6. start \in Int
    <2>1. first \div Day \in Int /\ Day \in Int
      BY BuilderAssumption
    <2>2. (first \div Day) * Day \in Int /\ days * Day \in Int
      BY <2>1
    <2> QED BY <2>2 DEF Midnight
  <1> HIDE DEF start, last, later
  <1>7. ~ (later <= first) /\ t \in start..later
    BY <1>1, <1>5, <1>6
  <1>8. t \in {u \in start..later : (u - start) % Spacing = 0}
    BY <1>1, <1>7
  <1> QED BY <1>2, <1>7, <1>8, Zenon DEF Grid, start, later

LEMMA GrownIsBounded ==
    ASSUME NEW a, NEW b, Bounded(a), Grows(a, b), NEW t \in Int, \A q \in b \ a : q.at = t
    PROVE  Bounded(b)
  <1>1. Dated(b) /\ a \subseteq b
    BY DEF Bounded, Dated, Grows
  <1>2. CASE b \ a = {}
    <2>1. b = a
      BY <1>1, <1>2
    <2> QED BY <2>1
  <1>3. CASE b \ a # {}
    <2>1. PICK hi \in b \ a : hi.at = t
      BY <1>3
    <2>2. \A r \in b : r.at <= hi.at
      BY <1>1, <2>1 DEF Grows, Dated
    <2>3. CASE a = {}
      <3>1. \A r \in b : hi.at <= r.at /\ r.at <= hi.at
        BY <2>1, <2>3
      <3> QED BY <1>1, <2>1, <3>1 DEF Bounded
    <2>4. CASE a # {}
      <3>1. PICK lo \in a : \A r \in a : lo.at <= r.at
        BY <2>4 DEF Bounded
      <3>2. \A r \in b : lo.at <= r.at
        BY <1>1, <3>1 DEF Grows, Dated
      <3> QED BY <1>1, <2>1, <2>2, <3>1, <3>2 DEF Bounded
    <2> QED BY <2>3, <2>4
  <1> QED BY <1>2, <1>3

LEMMA RowsGrow ==
    ASSUME NEW a, Bounded(a), NEW row, row.at \in Int, Later(a, row.at)
    PROVE  Bounded(a \cup {row}) /\ Grows(a, a \cup {row})
  <1>1. Grows(a, a \cup {row})
    BY DEF Grows, Later
  <1> QED BY <1>1, GrownIsBounded

LEMMA DeltasGrow ==
    ASSUME NEW a, Bounded(a), Bounded(DeltaPairs(a)), NEW row, row.at \in Int, Later(a, row.at)
    PROVE  /\ Bounded(DeltaPairs(a \cup {row}))
           /\ Grows(DeltaPairs(a), DeltaPairs(a \cup {row}))
  <1> DEFINE b == a \cup {row}
  <1>1. Dated(a) /\ \A r \in a : r.at < row.at
    BY DEF Bounded, Later
  <1>2. \A r, p : Follows(a, r, p) => Follows(b, r, p)
    BY <1>1 DEF Follows, Dated
  <1>3. \A r, p : Follows(b, r, p) => Follows(a, r, p) \/ r = row
    BY <1>1 DEF Follows, Dated
  <1>4. \A r, p : Follows(a, r, p) => r \in a
    BY DEF Follows
  <1> HIDE DEF b
  <1>5. DeltaPairs(a) \subseteq DeltaPairs(b)
    BY <1>2, DeltaIs
  <1>6. \A d \in DeltaPairs(a) : d.at < row.at
    BY <1>1, <1>4, DeltaIs
  <1>7. ASSUME NEW d \in DeltaPairs(b), d \notin DeltaPairs(a) PROVE d.at = row.at
    <2>1. PICK r, p : Follows(b, r, p) /\ d = [at |-> r.at, value |-> Minus(r.value, p.value)]
      BY DeltaIs
    <2>2. ~ Follows(a, r, p)
      BY <1>7, <2>1, DeltaIs
    <2> QED BY <1>3, <2>1, <2>2
  <1>8. Grows(DeltaPairs(a), DeltaPairs(b))
    BY <1>5, <1>6, <1>7 DEF Grows
  <1>9. Bounded(DeltaPairs(b))
    BY <1>7, <1>8, GrownIsBounded
  <1> QED BY <1>8, <1>9 DEF b

(* The last change is that of the last row. *)
LEMMA DeltasEnd ==
    ASSUME NEW a, Bounded(a), Bounded(DeltaPairs(a)), DeltaPairs(a) # {}
    PROVE  a # {} /\ Max(InstantsOf(DeltaPairs(a))) <= Max(InstantsOf(a))
  <1>1. Max(InstantsOf(DeltaPairs(a))) \in InstantsOf(DeltaPairs(a))
    BY Ends
  <1>2. PICK d \in DeltaPairs(a) : d.at = Max(InstantsOf(DeltaPairs(a)))
    BY <1>1 DEF InstantsOf
  <1>3. PICK r \in a : d.at = r.at
    BY DeltaIs DEF Follows
  <1>4. a # {}
    BY <1>3
  <1>5. r.at <= Max(InstantsOf(a))
    BY <1>4, Ends
  <1> QED BY <1>2, <1>3, <1>4, <1>5

-----------------------------------------------------------------------------
(* What the four campaigns have in common: a grid over a series, and one   *)
(* or two kinds of sample at each of its instants.                         *)

Campaigns == {"open_interest", "funding_rate", "funding_delta", "oi_velocity"}
KindsOf(which) ==
    CASE which = "open_interest" -> {"pctrank", "zscore"}
      [] which = "funding_rate"  -> {"rate"}
      [] which = "funding_delta" -> {"delta"}
      [] which = "oi_velocity"   -> {"velocity"}
SeriesOf(which, rows) == IF which = "funding_delta" THEN DeltaPairs(rows) ELSE rows
FirstOf(which, rows) ==
    IF which = "open_interest" THEN FirstAt(rows) + Window ELSE FirstAt(SeriesOf(which, rows))
DaysOf(which) == IF which = "oi_velocity" THEN WarmupDays ELSE 1
GridOf(which, rows, prices) ==
    Grid(SeriesOf(which, rows), prices, FirstOf(which, rows), DaysOf(which))

SampledAt(s, kind, t, rows, prices) ==
    /\ FeatureAt(kind, rows, t) # None /\ Realized(prices, t) # None
    /\ s = [kind |-> kind, at |-> t, seen |-> t + Horizon, feature |-> FeatureAt(kind, rows, t),
            outcome |-> Realized(prices, t), regime |-> RegimeLabel(prices, t)]

LEMMA FeaturesAre ==
    ASSUME NEW rows, NEW t
    PROVE  /\ FeatureAt("pctrank", rows, t) = Extremeness(rows, t, PercentileRankCentered)
           /\ FeatureAt("zscore", rows, t) = Extremeness(rows, t, Zscore)
           /\ FeatureAt("rate", rows, t) = LatestAtOrBefore(rows, t)
           /\ FeatureAt("delta", rows, t) = LatestAtOrBefore(DeltaPairs(rows), t)
           /\ FeatureAt("velocity", rows, t) = Velocity(rows, t)
BY DEF FeatureAt

LEMMA BuildIs ==
    ASSUME NEW which, which \in Campaigns, NEW rows, NEW prices, NEW s
    PROVE  s \in BuildSamples(which, rows, prices)
             <=> \E kind \in KindsOf(which), t \in GridOf(which, rows, prices) :
                    SampledAt(s, kind, t, rows, prices)
  <1>1. CASE which = "open_interest"
    <2>1. /\ BuildSamples(which, rows, prices) = BuildOpenInterest(rows, prices)
          /\ KindsOf(which) = {"pctrank", "zscore"}
          /\ GridOf(which, rows, prices) = Grid(rows, prices, FirstAt(rows) + Window, 1)
      BY <1>1 DEF BuildSamples, KindsOf, GridOf, SeriesOf, FirstOf, DaysOf
    <2>2. s \in BuildOpenInterest(rows, prices)
            <=> \E t \in Grid(rows, prices, FirstAt(rows) + Window, 1) :
                   SampledAt(s, "pctrank", t, rows, prices) \/ SampledAt(s, "zscore", t, rows, prices)
      BY FeaturesAre DEF BuildOpenInterest, SamplesAt, SampledAt
    <2> QED BY <2>1, <2>2
  <1>2. CASE which = "funding_rate"
    <2>1. /\ BuildSamples(which, rows, prices) = BuildFundingRate(rows, prices)
          /\ KindsOf(which) = {"rate"}
          /\ GridOf(which, rows, prices) = Grid(rows, prices, FirstAt(rows), 1)
      BY <1>2 DEF BuildSamples, KindsOf, GridOf, SeriesOf, FirstOf, DaysOf
    <2>2. s \in BuildFundingRate(rows, prices)
            <=> \E t \in Grid(rows, prices, FirstAt(rows), 1) : SampledAt(s, "rate", t, rows, prices)
      BY FeaturesAre DEF BuildFundingRate, SamplesAt, SampledAt
    <2> QED BY <2>1, <2>2
  <1>3. CASE which = "funding_delta"
    <2>1. /\ BuildSamples(which, rows, prices) = BuildFundingDelta(rows, prices)
          /\ KindsOf(which) = {"delta"}
          /\ GridOf(which, rows, prices) = Grid(DeltaPairs(rows), prices, FirstAt(DeltaPairs(rows)), 1)
      BY <1>3 DEF BuildSamples, KindsOf, GridOf, SeriesOf, FirstOf, DaysOf
    <2>2. s \in BuildFundingDelta(rows, prices)
            <=> \E t \in Grid(DeltaPairs(rows), prices, FirstAt(DeltaPairs(rows)), 1) :
                   SampledAt(s, "delta", t, rows, prices)
      BY FeaturesAre DEF BuildFundingDelta, SamplesAt, SampledAt
    <2> QED BY <2>1, <2>2
  <1>4. CASE which = "oi_velocity"
    <2>1. /\ BuildSamples(which, rows, prices) = BuildOiVelocity(rows, prices)
          /\ KindsOf(which) = {"velocity"}
          /\ GridOf(which, rows, prices) = Grid(rows, prices, FirstAt(rows), WarmupDays)
      BY <1>4 DEF BuildSamples, KindsOf, GridOf, SeriesOf, FirstOf, DaysOf
    <2>2. s \in BuildOiVelocity(rows, prices)
            <=> \E t \in Grid(rows, prices, FirstAt(rows), WarmupDays) :
                   SampledAt(s, "velocity", t, rows, prices)
      BY FeaturesAre DEF BuildOiVelocity, SamplesAt, SampledAt
    <2> QED BY <2>1, <2>2
  <1> QED BY <1>1, <1>2, <1>3, <1>4 DEF Campaigns

Readable(rows) == Bounded(rows) /\ Bounded(DeltaPairs(rows))
StartOf(which, rows) == Midnight(FirstOf(which, rows)) + DaysOf(which) * Day

LEMMA FirstOfInt ==
    ASSUME NEW which, NEW rows, Readable(rows)
    PROVE  /\ FirstOf(which, rows) \in Int /\ DaysOf(which) \in Int
           /\ Bounded(SeriesOf(which, rows))
  <1>1. Bounded(SeriesOf(which, rows))
    BY DEF SeriesOf, Readable
  <1>2. \A a : Bounded(a) => FirstAt(a) \in Int
    BY Ends DEF FirstAt
  <1>3. FirstAt(rows) \in Int /\ FirstAt(SeriesOf(which, rows)) \in Int
    BY <1>1, <1>2 DEF Readable
  <1> QED BY <1>1, <1>3, BuilderAssumption DEF FirstOf, DaysOf

LEMMA GridOfFacts ==
    ASSUME NEW which, NEW rows, NEW prices, Readable(rows), Bounded(prices),
           NEW t, t \in GridOf(which, rows, prices)
    PROVE  /\ SeriesOf(which, rows) # {} /\ rows # {} /\ prices # {} /\ t \in Int
           /\ t <= Max(InstantsOf(rows)) /\ t + Horizon <= Max(InstantsOf(prices))
           /\ StartOf(which, rows) \in Int /\ StartOf(which, rows) <= t
           /\ (t - StartOf(which, rows)) % Spacing = 0
  <1>1. PICK series : series = SeriesOf(which, rows)
    OBVIOUS
  <1>2. PICK first : first = FirstOf(which, rows)
    OBVIOUS
  <1>3. PICK days : days = DaysOf(which)
    OBVIOUS
  <1>4. first \in Int /\ days \in Int /\ Bounded(series) /\ t \in Grid(series, prices, first, days)
    BY <1>1, <1>2, <1>3, FirstOfInt DEF GridOf
  <1>5. /\ series # {} /\ prices # {} /\ t \in Int
        /\ t <= Max(InstantsOf(series)) /\ t + Horizon <= Max(InstantsOf(prices))
        /\ (t - (Midnight(first) + days * Day)) % Spacing = 0
        /\ Midnight(first) + days * Day \in Int
        /\ Midnight(first) + days * Day <= t
    BY <1>4, GridFacts
  <1>6. rows # {} /\ t <= Max(InstantsOf(rows))
    <2>1. CASE which # "funding_delta"
      BY <1>1, <1>5, <2>1 DEF SeriesOf
    <2>2. CASE which = "funding_delta"
      <3>1. series = DeltaPairs(rows)
        BY <1>1, <2>2 DEF SeriesOf
      <3>2. rows # {} /\ Max(InstantsOf(series)) <= Max(InstantsOf(rows))
        BY <1>5, <3>1, DeltasEnd DEF Readable
      <3>3. Max(InstantsOf(series)) \in Int /\ Max(InstantsOf(rows)) \in Int
        BY <1>4, <1>5, <3>2, Ends DEF Readable
      <3> QED BY <1>5, <3>2, <3>3
    <2> QED BY <2>1, <2>2
  <1> QED BY <1>1, <1>2, <1>3, <1>5, <1>6 DEF StartOf

GrewTo(rows, more) == Grows(rows, more) /\ Grows(DeltaPairs(rows), DeltaPairs(more))

(* A sample that could be made can be made from more, and is the same. *)
LEMMA BuildGrows ==
    ASSUME NEW which, which \in Campaigns, NEW rows, NEW more, NEW prices, NEW later,
           Readable(rows), Readable(more), Bounded(prices), Bounded(later),
           GrewTo(rows, more), Grows(prices, later)
    PROVE  BuildSamples(which, rows, prices) \subseteq BuildSamples(which, more, later)
  <1> SUFFICES ASSUME NEW s, s \in BuildSamples(which, rows, prices)
               PROVE  s \in BuildSamples(which, more, later)
    OBVIOUS
  <1>1. PICK kind \in KindsOf(which), t \in GridOf(which, rows, prices) :
           SampledAt(s, kind, t, rows, prices)
    BY BuildIs
  <1>2. /\ SeriesOf(which, rows) # {} /\ rows # {} /\ prices # {} /\ t \in Int
        /\ t <= Max(InstantsOf(rows)) /\ t + Horizon <= Max(InstantsOf(prices))
    BY GridOfFacts
  <1>3. t \in GridOf(which, more, later)
    <2>1. PICK a : a = SeriesOf(which, rows)
      OBVIOUS
    <2>2. PICK b : b = SeriesOf(which, more)
      OBVIOUS
    <2>3. Bounded(a) /\ Bounded(b) /\ Grows(a, b) /\ a # {}
      BY <1>2, <2>1, <2>2 DEF SeriesOf, Readable, GrewTo
    <2>4. FirstOf(which, more) = FirstOf(which, rows)
      <3>1. \A x, y : Bounded(x) /\ Bounded(y) /\ Grows(x, y) /\ x # {} => FirstAt(y) = FirstAt(x)
        <4>1. ASSUME NEW x, NEW y, Bounded(x), Bounded(y), Grows(x, y), x # {}
              PROVE  FirstAt(y) = FirstAt(x)
          <5>1. y # {}
            BY <4>1 DEF Grows
          <5>2. Min(InstantsOf(y)) = Min(InstantsOf(x))
            BY <4>1, GrowingKeeps
          <5> QED BY <4>1, <5>1, <5>2 DEF FirstAt
        <4> QED BY <4>1
      <3>2. FirstAt(b) = FirstAt(a) /\ FirstAt(more) = FirstAt(rows)
        BY <1>2, <2>3, <3>1 DEF Readable, GrewTo
      <3> QED BY <2>1, <2>2, <3>2 DEF FirstOf
    <2>5. PICK first : first = FirstOf(which, rows)
      OBVIOUS
    <2>6. PICK days : days = DaysOf(which)
      OBVIOUS
    <2>7. first \in Int /\ days \in Int
      BY <2>5, <2>6, FirstOfInt
    <2>8. Grid(a, prices, first, days) \subseteq Grid(b, later, first, days)
      BY <2>3, <2>7, GridGrows
    <2> QED BY <2>1, <2>2, <2>4, <2>5, <2>6, <2>8 DEF GridOf
  <1>4. Dated(rows) /\ Dated(more) /\ Dated(prices) /\ Dated(later)
    BY DEF Readable, Bounded
  <1>5. FeatureAt(kind, rows, t) = FeatureAt(kind, more, t)
    <2>1. SameUpTo(rows, more, t)
      BY <1>2, GrowingKeeps DEF Readable, GrewTo
    <2> QED BY <1>2, <1>4, <2>1, SameFeature
  <1>6. Realized(prices, t) = Realized(later, t) /\ RegimeLabel(prices, t) = RegimeLabel(later, t)
    <2>1. t + Horizon \in Int /\ t <= t + Horizon
      BY <1>2, BuilderAssumption
    <2>2. SameUpTo(prices, later, t + Horizon)
      BY <1>2, <2>1, GrowingKeeps
    <2>3. SameUpTo(prices, later, t)
      BY <1>2, <1>4, <2>1, <2>2, StoppingEarlier
    <2> QED BY <1>2, <1>4, <2>2, <2>3, SameOutcome, SameRegime
  <1>7. SampledAt(s, kind, t, more, later)
    BY <1>1, <1>5, <1>6 DEF SampledAt
  <1> QED BY <1>1, <1>3, <1>7, BuildIs

LEMMA Multiple ==
    ASSUME NEW x \in Int, NEW d \in Nat \ {0}, x % d = 0
    PROVE  \E m \in Int : x = d * m
BY Z3

(* Two instants of a grid are at least a spacing apart. *)
LEMMA GridSpacing ==
    ASSUME NEW start \in Int, NEW t \in Int, NEW u \in Int, t < u,
           (t - start) % Spacing = 0, (u - start) % Spacing = 0
    PROVE  t + Spacing <= u
  <1>1. Spacing \in Nat /\ Spacing > 0
    BY BuilderAssumption
  <1>2. PICK m \in Int : t - start = Spacing * m
    BY <1>1, Multiple
  <1>3. PICK n \in Int : u - start = Spacing * n
    BY <1>1, Multiple
  <1>4. Spacing * m < Spacing * n
    BY <1>2, <1>3
  <1>5. m < n
    <2>1. ~ (n <= m)
      <3>1. SUFFICES ASSUME n <= m PROVE Spacing * n <= Spacing * m
        BY <1>1, <1>4
      <3>2. m - n \in Nat /\ Spacing * m = Spacing * n + Spacing * (m - n)
        BY <1>1, <3>1
      <3>3. Spacing * (m - n) \in Nat
        BY <1>1, <3>2
      <3> QED BY <1>1, <3>2, <3>3
    <2> QED BY <2>1
  <1>6. Spacing * n >= Spacing * (m + 1)
    <2>1. n - (m + 1) \in Nat /\ Spacing * n = Spacing * (m + 1) + Spacing * (n - (m + 1))
      BY <1>1, <1>5
    <2>2. Spacing * (n - (m + 1)) \in Nat /\ Spacing * (m + 1) \in Int
      BY <1>1, <2>1
    <2> QED BY <2>1, <2>2
  <1>7. Spacing * (m + 1) = Spacing * m + Spacing
    BY <1>1
  <1> QED BY <1>1, <1>2, <1>3, <1>6, <1>7

-----------------------------------------------------------------------------
(* What was built can be built again. *)
BuilderInv ==
    /\ campaign \in Campaigns
    /\ Readable(readings) /\ Bounded(marks)
    /\ built \subseteq BuildSamples(campaign, readings, marks)
    /\ built # {} => Spacing >= Horizon

LEMMA BuilderStarts == BuilderInit => BuilderInv
  <1>1. SUFFICES ASSUME BuilderInit PROVE BuilderInv
    OBVIOUS
  <1>2. Bounded({}) /\ DeltaPairs({}) = {}
    <2>1. \A d : d \notin DeltaPairs({})
      BY DeltaIs DEF Follows
    <2> QED BY <2>1 DEF Bounded, Dated
  <1>3. campaign \in Campaigns
    BY <1>1, BuilderAssumption DEF BuilderInit, Campaigns
  <1> QED BY <1>1, <1>2, <1>3 DEF BuilderInit, BuilderInv, Readable

LEMMA BuilderSteps == BuilderInv /\ [BuilderNext]_builderVars => BuilderInv'
  <1>1. SUFFICES ASSUME BuilderInv, [BuilderNext]_builderVars PROVE BuilderInv'
    OBVIOUS
  <1> USE DEF BuilderInv
  <1>2. \A rows : Grows(rows, rows)
    BY DEF Grows
  <1>3. CASE \E t \in DOMAIN ReadingAt : CollectReading(t)
    <2>1. PICK t \in DOMAIN ReadingAt : CollectReading(t)
      BY <1>3
    <2>2. PICK row : row = [at |-> t, value |-> ReadingAt[t]]
      OBVIOUS
    <2>3. row.at \in Int /\ Later(readings, row.at)
      BY <2>1, <2>2, BuilderAssumption DEF CollectReading
    <2>4. /\ readings' = readings \cup {row} /\ marks' = marks /\ campaign' = campaign
          /\ built' = built
      BY <2>1, <2>2 DEF CollectReading
    <2>5. Readable(readings') /\ GrewTo(readings, readings')
      BY <1>1, <2>3, <2>4, RowsGrow, DeltasGrow DEF Readable, GrewTo
    <2>6. BuildSamples(campaign, readings, marks) \subseteq BuildSamples(campaign, readings', marks)
      BY <1>1, <1>2, <2>5, BuildGrows
    <2> QED BY <1>1, <2>4, <2>5, <2>6
  <1>4. CASE \E t \in DOMAIN MarkAt : CollectMark(t)
    <2>1. PICK t \in DOMAIN MarkAt : CollectMark(t)
      BY <1>4
    <2>2. PICK row : row = [at |-> t, value |-> MarkAt[t]]
      OBVIOUS
    <2>3. row.at \in Int /\ Later(marks, row.at)
      BY <2>1, <2>2, BuilderAssumption DEF CollectMark
    <2>4. /\ marks' = marks \cup {row} /\ readings' = readings /\ campaign' = campaign
          /\ built' = built
      BY <2>1, <2>2 DEF CollectMark
    <2>5. Bounded(marks') /\ Grows(marks, marks')
      BY <1>1, <2>3, <2>4, RowsGrow
    <2>6. GrewTo(readings, readings)
      BY <1>2 DEF GrewTo
    <2>7. BuildSamples(campaign, readings, marks) \subseteq BuildSamples(campaign, readings, marks')
      BY <1>1, <2>5, <2>6, BuildGrows
    <2> QED BY <1>1, <2>4, <2>5, <2>7
  <1>5. CASE RunBuild
    BY <1>1, <1>5 DEF RunBuild
  <1>6. CASE UNCHANGED builderVars
    BY <1>1, <1>6 DEF builderVars
  <1> QED BY <1>1, <1>3, <1>4, <1>5, <1>6 DEF BuilderNext

(* Reading on past t changes nothing that was read up to t. *)
LEMMA StoppedReading ==
    ASSUME NEW rows, Dated(rows), NEW t \in Int
    PROVE  Dated(UpTo(rows, t)) /\ SameUpTo(UpTo(rows, t), rows, t)
BY DEF Dated, UpTo, SameUpTo

LEMMA InvShowsNoHindsight == BuilderInv => SamplesStand
  <1>1. SUFFICES ASSUME BuilderInv PROVE SamplesStand
    OBVIOUS
  <1>2. Dated(readings) /\ Dated(marks)
    BY <1>1 DEF BuilderInv, Readable, Bounded
  <1>3. ASSUME NEW s \in built
        PROVE  \E kind, t : /\ t \in GridOf(campaign, readings, marks)
                            /\ SampledAt(s, kind, t, readings, marks)
    BY <1>1, BuildIs DEF BuilderInv
  <1>4. ASSUME NEW s \in built
        PROVE  /\ s.feature = FeatureAt(s.kind, UpTo(readings, s.at), s.at)
               /\ s.outcome = Realized(UpTo(marks, s.seen), s.at)
               /\ s.regime = RegimeLabel(UpTo(marks, s.at), s.at)
    <2>1. PICK kind, t : t \in GridOf(campaign, readings, marks) /\ SampledAt(s, kind, t, readings, marks)
      BY <1>3
    <2>2. t \in Int
      BY <1>1, <2>1, GridOfFacts DEF BuilderInv
    <2>3. /\ s.kind = kind /\ s.at = t /\ s.seen = t + Horizon
          /\ s.feature = FeatureAt(kind, readings, t) /\ s.outcome = Realized(marks, t)
          /\ s.regime = RegimeLabel(marks, t)
      BY <2>1 DEF SampledAt
    <2>4. FeatureAt(kind, UpTo(readings, t), t) = FeatureAt(kind, readings, t)
      BY <1>2, <2>2, StoppedReading, SameFeature
    <2>5. RegimeLabel(UpTo(marks, t), t) = RegimeLabel(marks, t)
      BY <1>2, <2>2, StoppedReading, SameRegime
    <2>6. Realized(UpTo(marks, t + Horizon), t) = Realized(marks, t)
      <3>1. t + Horizon \in Int
        BY <2>2, BuilderAssumption
      <3> QED BY <1>2, <2>2, <3>1, StoppedReading, SameOutcome
    <2> QED BY <2>3, <2>4, <2>5, <2>6
  <1>5. ASSUME NEW s \in built, NEW r \in built, r.at < s.at PROVE r.seen <= s.at
    <2>1. PICK k, t : t \in GridOf(campaign, readings, marks) /\ SampledAt(r, k, t, readings, marks)
      BY <1>3
    <2>2. PICK j, u : u \in GridOf(campaign, readings, marks) /\ SampledAt(s, j, u, readings, marks)
      BY <1>3
    <2>3. r.at = t /\ r.seen = t + Horizon /\ s.at = u
      BY <2>1, <2>2 DEF SampledAt
    <2>4. PICK start : start = StartOf(campaign, readings)
      OBVIOUS
    <2>5. start \in Int /\ t \in Int /\ (t - start) % Spacing = 0
      BY <1>1, <2>1, <2>4, GridOfFacts DEF BuilderInv
    <2>6. u \in Int /\ (u - start) % Spacing = 0
      BY <1>1, <2>2, <2>4, GridOfFacts DEF BuilderInv
    <2>7. t + Spacing <= u
      BY <1>5, <2>3, <2>5, <2>6, GridSpacing
    <2>8. Spacing >= Horizon /\ Spacing \in Nat /\ Horizon \in Nat
      BY <1>1, BuilderAssumption DEF BuilderInv
    <2> QED BY <2>3, <2>5, <2>6, <2>7, <2>8
  <1>6. built \subseteq BuildSamples(campaign, readings, marks)
    BY <1>1 DEF BuilderInv
  <1> QED BY <1>4, <1>5, <1>6 DEF SamplesStand

(* Whatever the series hold and however they grow, a sample build_samples  *)
(* made uses nothing observed after its instant (its outcome, nothing      *)
(* after the horizon), is made again unchanged from any longer series, and *)
(* its outcome does not overlap the next one's.                            *)
THEOREM NoHindsight == BuilderSpec => []SamplesStand
  <1> QED BY BuilderStarts, BuilderSteps, InvShowsNoHindsight, PTL DEF BuilderSpec
=============================================================================
