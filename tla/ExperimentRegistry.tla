------------------------- MODULE ExperimentRegistry -------------------------
(***************************************************************************)
(* The experiment registry of src/alpha_engine/registry: the log it keeps  *)
(* (storage.py), the records each process rebuilds from it (registry.py),  *)
(* the governance and degradation steps that move an experiment            *)
(* (governance, lifecycle), and the strategy that trades what is approved  *)
(* (execution_bridge).                                                     *)
(*                                                                         *)
(* The log is a sequence of lines.  A line is cut short when a write stops *)
(* half way; the next append goes on the same line.  A process checks its  *)
(* own memory, never the file, before it appends: the file lock is held    *)
(* for one append only.  A process that crashes takes no further step, so  *)
(* a restart is another process that starts.                               *)
(***************************************************************************)
EXTENDS Integers, Sequences, SequencesExt, FiniteSets

CONSTANTS Proc,        \* processes, each with a registry over the same file
          Experiment,  \* experiment ids
          Content,     \* specifications
          Outcome,     \* what a validation of a specification found
          Person,      \* researchers and reviewers
          Nil,         \* Python's None
          MaxWrites,   \* bound: MaxWrites[p], the entries p writes
          About,       \* bound: About[p], the experiments p writes about
          MaxFaults    \* bound: appends that do not complete

ASSUME RegistryAssumption ==
    /\ MaxWrites \in [Proc -> Nat] /\ MaxFaults \in Nat
    /\ About \in [Proc -> SUBSET Experiment]
    /\ Nil \notin Experiment \cup Content \cup Outcome \cup Person
    /\ Nil \notin Content \X Outcome

VARIABLES file,     \* the lines of the log
          open,     \* the last line has no newline yet
          mem,      \* mem[p]: whether p's registry is up, and its records
          pending,  \* pending[p]: a decision whose transition is not appended yet
          held,     \* held[p]: the specifications p's strategy was built with
          written,  \* every entry that was handed to an append that completed it
          writes,   \* writes[p]: the entries p has written
          traded,   \* the specifications some strategy has traded
          faults    \* appends that did not complete

vars == <<file, open, mem, pending, held, written, writes, traded, faults>>

-----------------------------------------------------------------------------
(* Lifecycle states and the moves between them *)

Governed == {"APPROVED", "REJECTED", "DEFERRED"}
LiveStates == {"SHAKEDOWN", "FULL_PRODUCTION"}
Tradeable == {"APPROVED"} \cup LiveStates

Moves ==
    {<<"PROPOSED", "VALIDATING">>, <<"PROPOSED", "WITHDRAWN">>,
     <<"VALIDATING", "EVIDENCE_SEALED">>, <<"VALIDATING", "WITHDRAWN">>,
     <<"EVIDENCE_SEALED", "IN_REVIEW">>,
     <<"APPROVED", "SHAKEDOWN">>,
     <<"SHAKEDOWN", "FULL_PRODUCTION">>, <<"SHAKEDOWN", "FROZEN">>,
     <<"SHAKEDOWN", "RETIRING">>,
     <<"FULL_PRODUCTION", "FROZEN">>, <<"FULL_PRODUCTION", "RETIRING">>,
     <<"FROZEN", "RETIRING">>, <<"RETIRING", "RETIRED">>}
    \cup {<<"IN_REVIEW", s>> : s \in Governed}

LifecycleState == {m[1] : m \in Moves} \cup {m[2] : m \in Moves}
IsLegalTransition(from, to) == <<from, to>> \in Moves

-----------------------------------------------------------------------------
(* Records and log entries *)

NoDecision == [verdict |-> Nil, evidence |-> Nil, proposer |-> Nil, reviewer |-> Nil]
Unknown == [known |-> FALSE, spec |-> Nil, parent |-> Nil, sealed |-> FALSE,
            evidence |-> Nil, state |-> "PROPOSED", decision |-> NoDecision]
NoRecords == [e \in Experiment |-> Unknown]

(* A package of evidence names the specification it was produced for; its  *)
(* fingerprint covers both.                                                *)
Evidence == Content \X Outcome

(* A decision as GovernanceDecision.__post_init__ lets one be made: nobody *)
(* reviews his own proposal.                                               *)
Decision ==
    {d \in [verdict : Governed, evidence : Evidence, proposer : Person, reviewer : Person] :
        d.proposer # d.reviewer}

Entry(type, e) == [type |-> type, id |-> e, spec |-> Nil, parent |-> Nil,
                   evidence |-> Nil, from |-> Nil, to |-> Nil, decision |-> NoDecision]
BadLine == Entry("bad", Nil)

(* _apply_entry: the checks a replayed entry must pass, and what it does. *)
Accepts(recs, en) ==
    LET r == recs[en.id]
    IN  CASE en.type = "created"  -> /\ ~ r.known
                                     /\ en.parent # Nil => recs[en.parent].known
          [] en.type = "sealed"   -> r.known /\ ~ r.sealed
          [] en.type = "evidence" -> r.known /\ r.sealed /\ r.evidence = Nil
          [] en.type = "state"    -> /\ r.known
                                     /\ r.state = en.from
                                     /\ IsLegalTransition(en.from, en.to)
                                     /\ en.to \in Governed => r.decision # NoDecision
          [] en.type = "decision" -> /\ r.known
                                     /\ r.state = "IN_REVIEW"
                                     /\ r.decision = NoDecision

Applied(recs, en) ==
    LET r == recs[en.id]
    IN  [recs EXCEPT ![en.id] =
            CASE en.type = "created"  -> [Unknown EXCEPT !.known = TRUE, !.spec = en.spec,
                                                         !.parent = en.parent]
              [] en.type = "sealed"   -> [r EXCEPT !.sealed = TRUE]
              [] en.type = "evidence" -> [r EXCEPT !.evidence = en.evidence]
              [] en.type = "state"    -> [r EXCEPT !.state = en.to]
              [] en.type = "decision" -> [r EXCEPT !.decision = en.decision]]

(* Slip: a line that does not parse is passed over wherever it stands. *)
ReadAllSkipsBad(lines) ==
    [ok |-> TRUE, entries |-> SelectSeq(lines, LAMBDA en : en # BadLine)]

(* read_all: a bad last line is a torn tail and dropped, a bad line before *)
(* it is corruption.                                                       *)
ReadAll(lines) ==
    LET torn == lines # << >> /\ Last(lines) = BadLine
        kept == IF torn THEN Front(lines) ELSE lines
    IN  [ok |-> BadLine \notin ToSet(kept), entries |-> kept]

(* _replay: entry by entry; one it cannot apply refuses the whole log. *)
Refused == [up |-> FALSE, recs |-> NoRecords]

ReplayEntry(acc, en) ==
    IF acc.up /\ Accepts(acc.recs, en) THEN [up |-> TRUE, recs |-> Applied(acc.recs, en)]
    ELSE Refused

Replayed(entries) ==
    LET after[n \in 0..Len(entries)] ==
            IF n = 0 THEN [up |-> TRUE, recs |-> NoRecords]
            ELSE ReplayEntry(after[n - 1], entries[n])
    IN  after

Replay(lines) ==
    LET got == ReadAll(lines)
    IN  IF got.ok THEN Replayed(got.entries)[Len(got.entries)] ELSE Refused

-----------------------------------------------------------------------------
Init ==
    /\ file = << >>
    /\ open = FALSE
    /\ mem = [p \in Proc |-> [up |-> FALSE, recs |-> NoRecords]]
    /\ pending = [p \in Proc |-> Nil]
    /\ held = [p \in Proc |-> {}]
    /\ written = << >>
    /\ writes = [p \in Proc |-> 0]
    /\ traded = {}
    /\ faults = 0

(* FileRegistryStorage.append.  It may stop with part of the line written, *)
(* with the line but not its newline, or after the line but before fsync   *)
(* returned; each time the caller gets an exception.                       *)
Ending == {"done", "part", "unended", "unsynced"}

Write(en, how) ==
    /\ how # "done" => faults < MaxFaults
    /\ file' = Append(IF open THEN Front(file) ELSE file,
                      IF open \/ how = "part" THEN BadLine ELSE en)
    /\ open' = (how \in {"part", "unended"})
    /\ written' = IF how = "part" THEN written ELSE Append(written, en)
    /\ faults' = IF how = "done" THEN faults ELSE faults + 1

(* Append first; memory follows only if the append returned. *)
Record(p, en) ==
    \E how \in Ending :
        /\ writes[p] < MaxWrites[p]
        /\ Write(en, how)
        /\ mem' = IF how = "done" THEN [mem EXCEPT ![p].recs = Applied(@, en)] ELSE mem
        /\ writes' = [writes EXCEPT ![p] = @ + 1]
        /\ UNCHANGED <<held, traded>>

(* A call waits for p's lock, which a decision half recorded still holds. *)
Ready(p) == mem[p].up /\ pending[p] = Nil
Rec(p, e) == mem[p].recs[e]

Create(p, e, spec, parent) ==
    /\ Ready(p)
    /\ ~ Rec(p, e).known
    /\ parent # Nil => Rec(p, parent).known
    /\ Record(p, [Entry("created", e) EXCEPT !.spec = spec, !.parent = parent])
    /\ UNCHANGED pending

Seal(p, e) ==
    /\ Ready(p)
    /\ Rec(p, e).known /\ ~ Rec(p, e).sealed
    /\ Record(p, Entry("sealed", e))
    /\ UNCHANGED pending

(* attach_evidence_package refuses evidence produced for another one. *)
ForItsSpecification(p, e, ev) == Rec(p, e).spec = ev[1]

(* Slip: evidence may be attached before the specification is sealed. *)
AttachUnsealed(p, e, ev) ==
    /\ Ready(p)
    /\ Rec(p, e).known /\ Rec(p, e).evidence = Nil
    /\ ForItsSpecification(p, e, ev)
    /\ Record(p, [Entry("evidence", e) EXCEPT !.evidence = ev])
    /\ UNCHANGED pending

(* attach_evidence_package, then attach_evidence. *)
AttachEvidence(p, e, ev) ==
    /\ Ready(p)
    /\ Rec(p, e).known /\ Rec(p, e).sealed /\ Rec(p, e).evidence = Nil
    /\ ForItsSpecification(p, e, ev)
    /\ Record(p, [Entry("evidence", e) EXCEPT !.evidence = ev])
    /\ UNCHANGED pending

(* _transition_locked *)
MayEnter(p, e, to) ==
    /\ IsLegalTransition(Rec(p, e).state, to)
    /\ to = "EVIDENCE_SEALED" => Rec(p, e).evidence # Nil

StateEntry(p, e, to) ==
    [Entry("state", e) EXCEPT !.from = Rec(p, e).state, !.to = to]

Transition(p, e, to) ==
    /\ Ready(p)
    /\ Rec(p, e).known
    /\ to \notin Governed
    /\ MayEnter(p, e, to)
    /\ Record(p, StateEntry(p, e, to))
    /\ UNCHANGED pending

(* freeze_degraded on what assess_degradation found of a live experiment:  *)
(* a recent result for the same specification that failed its criteria.    *)
(* The assessment may be old: only the transition's own guards apply.      *)
FreezeDegraded(p, e) == Transition(p, e, "FROZEN")

(* Slip: the decision may be about other evidence than the experiment's. *)
DecideOnAnyEvidence(p, e, d) ==
    /\ Ready(p)
    /\ Rec(p, e).known
    /\ Rec(p, e).state = "IN_REVIEW"
    /\ Rec(p, e).decision = NoDecision
    /\ Record(p, [Entry("decision", e) EXCEPT !.decision = d])
    /\ pending' = [pending EXCEPT ![p] = IF mem' = mem THEN Nil ELSE e]

(* record_governance_decision: the decision names the exact evidence. *)
OnItsEvidence(p, e, d) ==
    Rec(p, e).state = "IN_REVIEW" /\ Rec(p, e).evidence = d.evidence

(* apply_governance_decision up to the first of its two appends. *)
Decide(p, e, d) ==
    /\ Ready(p)
    /\ Rec(p, e).known
    /\ OnItsEvidence(p, e, d)
    /\ Rec(p, e).decision = NoDecision
    /\ Record(p, [Entry("decision", e) EXCEPT !.decision = d])
    /\ pending' = [pending EXCEPT ![p] = IF mem' = mem THEN Nil ELSE e]

(* The second append: the transition the decision stands for. *)
FinishDecision(p) ==
    LET e == pending[p]
    IN  /\ mem[p].up /\ e # Nil
        /\ Record(p, StateEntry(p, e, Rec(p, e).decision.verdict))
        /\ pending' = [pending EXCEPT ![p] = Nil]

(* list_experiments filtered by state, and approved_experiments. *)
ListExperiments(recs, states) == {e \in Experiment : recs[e].known /\ recs[e].state \in states}
ApprovedExperiments(recs) == ListExperiments(recs, Tradeable)
Approved(p) == {Rec(p, e).spec : e \in ApprovedExperiments(mem[p].recs)}

BuildStrategy(p) ==
    /\ Ready(p)
    /\ Approved(p) # held[p] /\ Approved(p) # {}
    /\ held' = [held EXCEPT ![p] = Approved(p)]
    /\ UNCHANGED <<file, open, mem, pending, written, writes, traded, faults>>

(* _live_specifications: those held that are still the specification of    *)
(* some approved experiment in p's records; generate_intents trades them.  *)
LiveSpecifications(p) == held[p] \cap Approved(p)

Trade(p, spec) ==
    /\ Ready(p)
    /\ spec \in LiveSpecifications(p)
    /\ traded' = traded \cup {spec}
    /\ UNCHANGED <<file, open, mem, pending, held, written, writes, faults>>

(* ExperimentRegistry.__init__; it raises on a log it cannot replay. *)
Start(p) ==
    /\ ~ mem[p].up
    /\ Replay(file).up
    /\ mem' = [mem EXCEPT ![p] = Replay(file)]
    /\ UNCHANGED <<file, open, pending, held, written, writes, traded, faults>>

Next ==
    \E p \in Proc :
        \/ \E e \in About[p] :
              \/ \E spec \in Content, parent \in Experiment \cup {Nil} :
                    Create(p, e, spec, parent)
              \/ Seal(p, e)
              \/ \E ev \in Evidence : AttachEvidence(p, e, ev)
              \/ \E to \in LifecycleState : Transition(p, e, to)
              \/ FreezeDegraded(p, e)
              \/ \E d \in Decision : Decide(p, e, d)
        \/ FinishDecision(p)
        \/ BuildStrategy(p)
        \/ \E spec \in Content : Trade(p, spec)
        \/ Start(p)

Spec == Init /\ [][Next]_vars

-----------------------------------------------------------------------------
(* What is traded was approved: an experiment of that specification was    *)
(* sealed, evidence for that very specification attached, and a person     *)
(* other than its proposer approved it on that evidence, all of it in the  *)
(* log, whatever processes wrote it and however often they restarted.      *)
TradedWasApproved ==
    \A spec \in traded :
        \E e \in Experiment, i, j, k \in DOMAIN written :
            /\ i < j /\ j < k
            /\ written[i].type = "created" /\ written[i].id = e /\ written[i].spec = spec
            /\ written[j].type = "evidence" /\ written[j].id = e
            /\ written[k].type = "decision" /\ written[k].id = e
            /\ written[k].decision.verdict = "APPROVED"
            /\ written[k].decision.evidence = written[j].evidence
            /\ written[j].evidence[1] = spec
            /\ written[k].decision.proposer # written[k].decision.reviewer

(* What a new process reads is a prefix of what was written: a damaged     *)
(* line may hide the end of the history, never something in its middle.    *)
ReadsAPrefix ==
    LET got == ReadAll(file) IN got.ok => IsPrefix(got.entries, written)

(* The guards of the calls are those of the replay: as long as one process *)
(* writes and every append completes, the log replays to its very records. *)
SoleWriterReplays ==
    \A p \in Proc :
        /\ mem[p].up /\ faults = 0
        /\ \A q \in Proc \ {p} : writes[q] = 0
        => Replay(file) = mem[p]
=============================================================================
