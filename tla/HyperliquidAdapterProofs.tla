---------------------- MODULE HyperliquidAdapterProofs ----------------------
(***************************************************************************)
(* Proofs about the exchange adapter's mutations, for any orders, clock    *)
(* readings, lives and venue: what is at the venue can be attributed, what *)
(* is reported cancelled is dead, no nonce is used twice, and an emergency *)
(* stop lets at most one request through.                                  *)
(***************************************************************************)
EXTENDS HyperliquidAdapter, SequenceTheorems, FiniteSetTheorems, TLAPS

Kind == {"place", "amend", "cancel", "cancel_all"}
CallRecord == [step : {"gated", "ready", "signed", "posted"}, kind : Kind, rid : Cid \cup Rid,
               cid : Cid \cup {None}, oid : Nat \cup {None}, nonce : Nat, targets : Seq(Nat)]
NetRequest == [kind : Kind, cid : Cid \cup {None}, targets : Seq(Nat), nonce : Nat, life : Nat]
VenueOrder == [cid : Cid, status : {"open", "filled", "cancelled"}]

(* The shape of what the adapter, the network and the venue keep. *)
Typed ==
    /\ call = None \/ call \in CallRecord
    /\ mapped \subseteq Cid
    /\ nonce \in Nat /\ spent \subseteq Nat /\ late \in Nat /\ life \in Nat
    /\ gateShut \in BOOLEAN
    /\ net \subseteq NetRequest
    /\ venue \in Seq(VenueOrder)
    /\ reported \subseteq Oids

-----------------------------------------------------------------------------
(* The inductive invariant, concern by concern *)

(* The token of an order is durable before the order is transmitted.       *)
TokensFirst ==
    /\ call # None /\ call.kind = "place" =>
          call.cid \in Cid /\ (call.step # "gated" => call.cid \in mapped)
    /\ \A req \in net : req.kind = "place" => req.cid \in mapped
    /\ \A o \in Oids : venue[o].cid \in mapped

(* The orders a request is about exist: a cancel or an amendment has one.  *)
Aimed(kind, targets) ==
    /\ \A i \in 1..Len(targets) : targets[i] \in Oids
    /\ kind \in {"cancel", "amend"} => Len(targets) = 1

TargetsExist ==
    /\ call # None => \A i \in 1..Len(call.targets) : call.targets[i] \in Oids
    /\ call # None /\ call.kind \in {"cancel", "amend"} =>
          call.oid \in Oids /\ (call.step # "gated" => call.targets = <<call.oid>>)
    /\ \A req \in net : Aimed(req.kind, req.targets)

(* Nonces grow within a life, and a request of this life spent its nonce. *)
NoncesGrow ==
    /\ \A n \in spent : n <= nonce
    /\ call # None /\ call.step = "signed" =>
          call.nonce <= nonce /\ \A n \in spent : n < call.nonce
    /\ \A req \in net : req.life <= life /\ (req.life = life => req.nonce \in spent)

(* What a call is waiting for, if it is still on its way, is its request.  *)
Waits(req) == call # None /\ call.step = "posted" /\ call.nonce = req.nonce /\ life = req.life
RequestsMatch ==
    \A req \in net : Waits(req) => req.kind = call.kind /\ req.targets = call.targets

(* An answer belongs to a call that waits, and the success it tells of has *)
(* happened.                                                               *)
AnswersAreTrue ==
    answer # None =>
        /\ call # None /\ call.step = "posted"
        /\ call.kind = "cancel" => answer \in {<<"success">>, <<"error">>}
        /\ call.kind \in {"cancel", "cancel_all"} =>
              \A i \in 1..Len(call.targets) :
                 i <= Len(answer) /\ answer[i] = "success" => ~ Open(call.targets[i])

(* A call holds no request id that has a stored result. *)
NotStored == call # None => call.rid \notin cache

(* What left after the boundary was revoked was the last to pass it.       *)
LastToPass ==
    /\ late > 0 => late = 1 /\ gateShut
    /\ late > 0 /\ call # None => call.step = "posted"

AdapterInv ==
    /\ Typed
    /\ TokensFirst
    /\ TargetsExist
    /\ NoncesGrow
    /\ RequestsMatch
    /\ AnswersAreTrue
    /\ CancelReportedIsDead
    /\ NotStored
    /\ LastToPass

-----------------------------------------------------------------------------
(* Steps of the adapter *)

(* A call begins or goes on towards its signature. *)
LEMMA CallMoves ==
    ASSUME AdapterInv, call' \in CallRecord, call'.step # "posted", answer = None, late = 0,
           mapped \subseteq mapped', mapped' \subseteq Cid, nonce' \in Nat, nonce <= nonce',
           UNCHANGED <<answer, net, venue, spent, life, late, reported, gateShut>>,
           call'.rid \notin cache',
           call'.kind = "place" => /\ call'.cid \in Cid
                                   /\ call'.step # "gated" => call'.cid \in mapped',
           \A i \in 1..Len(call'.targets) : call'.targets[i] \in Oids,
           call'.kind \in {"cancel", "amend"} =>
               call'.oid \in Oids /\ (call'.step # "gated" => call'.targets = <<call'.oid>>),
           call'.step = "signed" => call'.nonce <= nonce' /\ \A n \in spent : n < call'.nonce
    PROVE  AdapterInv'
  <1>1. Typed'
    BY DEF AdapterInv, Typed, Oids
  <1>2. TokensFirst'
    BY DEF AdapterInv, TokensFirst, Oids
  <1>3. TargetsExist'
    BY DEF AdapterInv, TargetsExist, Aimed, Oids
  <1>4. NoncesGrow'
    BY DEF AdapterInv, Typed, NoncesGrow
  <1>5. RequestsMatch' /\ AnswersAreTrue' /\ NotStored' /\ LastToPass'
    BY DEF AdapterInv, RequestsMatch, Waits, AnswersAreTrue, NotStored, LastToPass
  <1>6. CancelReportedIsDead'
    BY DEF AdapterInv, CancelReportedIsDead, Open
  <1> QED BY <1>1, <1>2, <1>3, <1>4, <1>5, <1>6 DEF AdapterInv

(* A call ends, with a result or an exception, or there is none. *)
LEMMA CallEnds ==
    ASSUME AdapterInv, call' = None, answer' = None, nonce' \in Nat, nonce <= nonce',
           UNCHANGED <<mapped, net, venue, spent, life, late>>,
           gateShut' \in BOOLEAN, gateShut => gateShut',
           reported' \subseteq Oids, \A o \in reported' : ~ Open(o)
    PROVE  AdapterInv'
  <1>1. Typed'
    BY DEF AdapterInv, Typed, Oids
  <1>2. TokensFirst' /\ TargetsExist'
    BY DEF AdapterInv, TokensFirst, TargetsExist, Aimed, Oids
  <1>3. NoncesGrow'
    BY DEF AdapterInv, Typed, NoncesGrow
  <1>4. RequestsMatch' /\ AnswersAreTrue' /\ NotStored' /\ LastToPass'
    BY DEF AdapterInv, RequestsMatch, Waits, AnswersAreTrue, NotStored, LastToPass
  <1>5. CancelReportedIsDead'
    BY DEF CancelReportedIsDead, Open
  <1> QED BY <1>1, <1>2, <1>3, <1>4, <1>5 DEF AdapterInv

(* What holds of a call before it is posted. *)
LEMMA BeforePost ==
    ASSUME AdapterInv, call # None, call.step # "posted"
    PROVE  call \in CallRecord /\ answer = None /\ late = 0
  BY DEF AdapterInv, Typed, AnswersAreTrue, LastToPass

(* What is at the venue are the orders 1, 2, ... *)
LEMMA VenueIsSeq ==
    ASSUME AdapterInv
    PROVE  /\ venue \in Seq(VenueOrder) /\ Len(venue) \in Nat /\ Oids = 1..Len(venue)
           /\ \A o \in Oids : venue[o] \in VenueOrder /\ o \in Nat
           /\ nonce \in Nat /\ nonce <= nonce /\ mapped \subseteq Cid /\ gateShut \in BOOLEAN
           /\ reported \subseteq Oids /\ \A o \in reported : ~ Open(o)
  <1>1. venue \in Seq(VenueOrder)
    BY DEF AdapterInv, Typed
  <1>2. Len(venue) \in Nat /\ Oids = 1..Len(venue) /\ venue \in [1..Len(venue) -> VenueOrder]
    BY <1>1, LenProperties DEF Oids
  <1> QED BY <1>1, <1>2 DEF AdapterInv, Typed, CancelReportedIsDead

(* A mutation passes the gate. *)
LEMMA BeginKeeps ==
    ASSUME AdapterInv, NEW kind \in Kind, NEW rid \in Cid \cup Rid, NEW cid \in Cid \cup {None},
           NEW oid \in Oids \cup {None}, Begin(kind, rid, cid, oid),
           kind = "place" => cid \in Cid, kind \in {"cancel", "amend"} => oid \in Oids
    PROVE  AdapterInv'
  <1>1. /\ call' = [step |-> "gated", kind |-> kind, rid |-> rid, cid |-> cid, oid |-> oid,
                    nonce |-> 0, targets |-> << >>]
        /\ call = None /\ rid \notin cache /\ ~ gateShut
        /\ UNCHANGED <<cache, mapped, nonce, gateShut, net, answer, venue, spent, reported,
                       late, life>>
    BY DEF Begin
  <1>2. answer = None /\ late = 0
    BY <1>1 DEF AdapterInv, AnswersAreTrue, LastToPass, Typed
  <1>3. << >> \in Seq(Nat) /\ Len(<< >>) = 0
    OBVIOUS
  <1>4. oid \in Nat \cup {None}
    BY VenueIsSeq
  <1>5. call' \in CallRecord
    BY <1>1, <1>3, <1>4 DEF CallRecord
  <1>6. /\ call'.step = "gated" /\ call'.kind = kind /\ call'.rid = rid /\ call'.cid = cid
        /\ call'.oid = oid /\ 1..Len(call'.targets) = {}
    BY <1>1, <1>3
  <1> HIDE <1>1
  <1>7. UNCHANGED <<cache, mapped, nonce, gateShut, net, answer, venue, spent, reported, late,
                    life>> /\ rid \notin cache
    BY <1>1
  <1> QED BY <1>2, <1>5, <1>6, <1>7, VenueIsSeq, CallMoves

(* The token is recorded. *)
LEMMA PreparePlaceKeeps ==
    ASSUME AdapterInv, PreparePlace PROVE AdapterInv'
  <1>1. /\ call # None /\ call.step = "gated" /\ call.kind = "place"
        /\ mapped' = mapped \cup {call.cid} /\ call' = [call EXCEPT !.step = "ready"]
        /\ UNCHANGED <<cache, nonce, gateShut, net, answer, venue, spent, reported, late, life>>
    BY DEF PreparePlace
  <1>2. call \in CallRecord /\ answer = None /\ late = 0
    BY <1>1, BeforePost
  <1>3. /\ call' \in CallRecord /\ call'.step = "ready" /\ call'.kind = "place"
        /\ call'.rid = call.rid /\ call'.cid = call.cid /\ call'.targets = call.targets
    BY <1>1, <1>2 DEF CallRecord
  <1>4. /\ call.cid \in Cid /\ call.rid \notin cache
        /\ \A i \in 1..Len(call.targets) : call.targets[i] \in Oids
    BY <1>1 DEF AdapterInv, TokensFirst, NotStored, TargetsExist
  <1> QED BY <1>1, <1>2, <1>3, <1>4, VenueIsSeq, CallMoves

(* The order a cancel or an amendment is about is read. *)
LEMMA PrepareByOidKeeps ==
    ASSUME AdapterInv, PrepareByOid PROVE AdapterInv'
  <1>1. /\ call # None /\ call.step = "gated" /\ call.kind \in {"cancel", "amend"}
        /\ call' = [call EXCEPT !.step = "ready", !.cid = venue[call.oid].cid,
                                !.targets = <<call.oid>>]
        /\ UNCHANGED <<cache, mapped, nonce, gateShut, net, answer, venue, spent, reported,
                       late, life>>
    BY DEF PrepareByOid
  <1>2. call \in CallRecord /\ answer = None /\ late = 0
    BY <1>1, BeforePost
  <1>3. call.oid \in Oids /\ call.rid \notin cache
    BY <1>1 DEF AdapterInv, NotStored, TargetsExist
  <1>4. call.oid \in Nat /\ venue[call.oid].cid \in Cid
    BY <1>3, VenueIsSeq DEF VenueOrder
  <1>5. <<call.oid>> \in Seq(Nat) /\ Len(<<call.oid>>) = 1 /\ <<call.oid>>[1] = call.oid
    BY <1>4
  <1>6. /\ call' \in CallRecord /\ call'.step = "ready" /\ call'.kind = call.kind
        /\ call'.rid = call.rid /\ call'.targets = <<call.oid>> /\ call'.oid = call.oid
    BY <1>1, <1>2, <1>4, <1>5 DEF CallRecord
  <1>7. \A i \in 1..Len(call'.targets) : call'.targets[i] \in Oids
    BY <1>3, <1>5, <1>6
  <1> QED BY <1>1, <1>2, <1>3, <1>6, <1>7, VenueIsSeq, CallMoves

(* The sequence of a finite set has its elements. *)
LEMMA SetToSeqIsSeq ==
    ASSUME NEW S, IsFiniteSet(S)
    PROVE  /\ SetToSeq(S) \in Seq(S)
           /\ \A i \in 1..Len(SetToSeq(S)) : SetToSeq(S)[i] \in S
  <1>1. Cardinality(S) \in Nat /\ ExistsBijection(1..Cardinality(S), S)
    BY FS_CardinalityType
  <1>2. \E f \in [1..Cardinality(S) -> S] : IsInjective(f)
    BY <1>1 DEF ExistsBijection, Bijection, Injection
  <1>3. SetToSeq(S) \in [1..Cardinality(S) -> S]
    BY <1>2 DEF SetToSeq
  <1>4. SetToSeq(S) \in Seq(S)
    BY <1>1, <1>3, SeqDef
  <1> QED BY <1>4, ElementOfSeq

(* The open orders of this engine are read. *)
LEMMA PrepareCancelAllKeeps ==
    ASSUME AdapterInv, PrepareCancelAll PROVE AdapterInv'
  <1>1. /\ call # None /\ call.step = "gated" /\ call.kind = "cancel_all"
        /\ UNCHANGED <<mapped, nonce, gateShut, net, venue, spent, reported, late, life>>
    BY DEF PrepareCancelAll
  <1>2. call \in CallRecord /\ answer = None /\ late = 0
    BY <1>1, BeforePost
  <1>3. CASE GetOrders = {}
    <2>1. call' = None /\ answer' = None
      BY <1>3 DEF PrepareCancelAll, Done
    <2> QED BY <1>1, <2>1, VenueIsSeq, CallEnds
  <1>4. CASE GetOrders # {}
    <2> DEFINE targets == SetToSeq(GetOrders)
    <2>1. call' = [call EXCEPT !.step = "ready", !.targets = targets] /\ UNCHANGED <<cache, answer>>
      BY <1>4 DEF PrepareCancelAll
    <2>2. GetOrders \subseteq Oids /\ Oids = 1..Len(venue) /\ Len(venue) \in Nat
      BY VenueIsSeq DEF GetOrders
    <2>3. IsFiniteSet(GetOrders)
      <3>1. ASSUME NEW k \in Nat PROVE IsFiniteSet(1..k)
        BY FS_Interval
      <3> QED BY <2>2, <3>1, FS_Subset
    <2>4. /\ targets \in Seq(GetOrders)
          /\ \A i \in 1..Len(targets) : targets[i] \in GetOrders
      BY <2>3, SetToSeqIsSeq
    <2>5. targets \in Seq(Nat) /\ \A i \in 1..Len(targets) : targets[i] \in Oids
      <3>1. GetOrders \subseteq Nat
        BY <2>2
      <3> HIDE DEF targets
      <3>2. targets \in Seq(Nat)
        BY <2>4, <3>1, SeqMonotonic
      <3> QED BY <2>2, <2>4, <3>2
    <2> HIDE DEF targets
    <2>6. /\ call' \in CallRecord /\ call'.step = "ready" /\ call'.kind = "cancel_all"
          /\ call'.rid = call.rid /\ call'.targets = targets
      BY <1>1, <1>2, <2>1, <2>5 DEF CallRecord
    <2>7. call.rid \notin cache
      BY <1>1 DEF AdapterInv, NotStored
    <2> QED BY <1>1, <1>2, <2>1, <2>5, <2>6, <2>7, VenueIsSeq, CallMoves
  <1> QED BY <1>3, <1>4

(* A nonce is larger than every nonce before it. *)
LEMMA NonceIsNew ==
    ASSUME AdapterInv, NEW now \in Clock
    PROVE  NextNonce(now) \in Nat /\ nonce < NextNonce(now)
  BY AdapterAssumption DEF NextNonce, AdapterInv, Typed

(* A request is signed, or the wallet is revoked. *)
LEMMA SignKeeps ==
    ASSUME AdapterInv, Sign PROVE AdapterInv'
  <1>1. PICK now \in Clock :
           /\ nonce' = NextNonce(now)
           /\ IF walletShut THEN Raise
              ELSE call' = [call EXCEPT !.step = "signed", !.nonce = NextNonce(now)]
                   /\ UNCHANGED answer
    BY DEF Sign
  <1>2. /\ call # None /\ call.step = "ready"
        /\ UNCHANGED <<cache, mapped, gateShut, net, venue, spent, reported, late, life>>
    BY DEF Sign
  <1>3. nonce' \in Nat /\ nonce <= nonce' /\ nonce < nonce'
    BY <1>1, NonceIsNew, VenueIsSeq
  <1>4. CASE walletShut
    BY <1>1, <1>2, <1>3, <1>4, VenueIsSeq, CallEnds DEF Raise
  <1>5. CASE ~ walletShut
    <2>1. call \in CallRecord /\ answer = None /\ late = 0
      BY <1>2, BeforePost
    <2>2. call' = [call EXCEPT !.step = "signed", !.nonce = nonce'] /\ UNCHANGED answer
      BY <1>1, <1>5
    <2>3. /\ call' \in CallRecord /\ call'.step = "signed" /\ call'.kind = call.kind
          /\ call'.rid = call.rid /\ call'.cid = call.cid /\ call'.targets = call.targets
          /\ call'.oid = call.oid /\ call'.nonce = nonce'
      BY <1>3, <2>1, <2>2 DEF CallRecord
    <2>4. \A n \in spent : n < nonce'
      BY <1>3, VenueIsSeq DEF AdapterInv, Typed, NoncesGrow
    <2>5. /\ call.rid \notin cache
          /\ call.kind = "place" => call.cid \in Cid /\ call.cid \in mapped
          /\ \A i \in 1..Len(call.targets) : call.targets[i] \in Oids
          /\ call.kind \in {"cancel", "amend"} =>
                call.oid \in Oids /\ call.targets = <<call.oid>>
      BY <1>2 DEF AdapterInv, TokensFirst, NotStored, TargetsExist
    <2> QED BY <1>2, <1>3, <2>1, <2>2, <2>3, <2>4, <2>5, VenueIsSeq, CallMoves
  <1> QED BY <1>4, <1>5

(* The request leaves: its nonce is new, so no other request is like it.   *)
LEMMA PostKeeps ==
    ASSUME AdapterInv, Post PROVE AdapterInv'
  <1> DEFINE req == [kind |-> call.kind, cid |-> call.cid, targets |-> call.targets,
                     nonce |-> call.nonce, life |-> life]
  <1>1. /\ call # None /\ call.step = "signed" /\ call' = [call EXCEPT !.step = "posted"]
        /\ net' = net \cup {req} /\ spent' = spent \cup {call.nonce}
        /\ late' = IF gateShut THEN late + 1 ELSE late
        /\ UNCHANGED <<cache, mapped, nonce, gateShut, answer, venue, reported, life>>
    BY DEF Post
  <1>2. call \in CallRecord /\ answer = None /\ late = 0
    BY <1>1, BeforePost
  <1>3. /\ req \in NetRequest /\ req.kind = call.kind /\ req.cid = call.cid
        /\ req.targets = call.targets /\ req.nonce = call.nonce /\ req.life = life
    BY <1>2 DEF CallRecord, NetRequest, AdapterInv, Typed
  <1> HIDE DEF req
  <1>4. /\ call' \in CallRecord /\ call'.step = "posted" /\ call'.kind = call.kind
        /\ call'.rid = call.rid /\ call'.cid = call.cid /\ call'.targets = call.targets
        /\ call'.oid = call.oid /\ call'.nonce = call.nonce
    BY <1>1, <1>2 DEF CallRecord
  <1>5. Typed'
    <2>1. spent' \subseteq Nat /\ late' \in Nat
      BY <1>1, <1>2 DEF CallRecord, AdapterInv, Typed
    <2> QED BY <1>1, <1>3, <1>4, <2>1 DEF AdapterInv, Typed, Oids
  <1>6. TokensFirst'
    BY <1>1, <1>3, <1>4 DEF AdapterInv, TokensFirst, Oids
  <1>7. TargetsExist'
    <2>1. Aimed(req.kind, req.targets)
      <3>1. call.kind \in {"cancel", "amend"} => Len(call.targets) = 1
        <4>1. call.kind \in {"cancel", "amend"} => call.targets = <<call.oid>>
          BY <1>1 DEF AdapterInv, TargetsExist
        <4>2. \A x : Len(<<x>>) = 1
          OBVIOUS
        <4> QED BY <4>1, <4>2
      <3> QED BY <1>1, <1>3, <3>1 DEF AdapterInv, TargetsExist, Aimed
    <2> QED BY <1>1, <1>3, <1>4, <2>1 DEF AdapterInv, TargetsExist, Aimed, Oids
  <1>8. NoncesGrow'
    BY <1>1, <1>3, <1>4 DEF AdapterInv, Typed, NoncesGrow
  <1>9. RequestsMatch'
    <2>1. \A r \in net : r.life = life => r.nonce # call.nonce
      BY <1>1, <1>2 DEF AdapterInv, Typed, NoncesGrow, CallRecord
    <2> QED BY <1>1, <1>3, <1>4, <2>1 DEF RequestsMatch, Waits
  <1>10. AnswersAreTrue' /\ NotStored'
    BY <1>1, <1>2, <1>4 DEF AdapterInv, AnswersAreTrue, NotStored
  <1>11. LastToPass'
    BY <1>1, <1>2, <1>4 DEF LastToPass
  <1>12. CancelReportedIsDead'
    BY <1>1 DEF AdapterInv, CancelReportedIsDead, Open
  <1> QED BY <1>5, <1>6, <1>7, <1>8, <1>9, <1>10, <1>11, <1>12 DEF AdapterInv

(* The call raises before or after the POST. *)
LEMMA FailKeeps ==
    ASSUME AdapterInv, Fail \/ Timeout PROVE AdapterInv'
  BY VenueIsSeq, CallEnds DEF Fail, Timeout, Raise

(* What is returned as cancelled was confirmed. *)
LEMMA ResultKeeps ==
    ASSUME AdapterInv, PlaceResult \/ CancelResult \/ CancelAllResult \/ AmendResult
    PROVE  AdapterInv'
  <1>1. /\ call # None /\ answer # None /\ call' = None /\ answer' = None
        /\ UNCHANGED <<mapped, nonce, net, venue, spent, life, late, gateShut>>
    BY DEF PlaceResult, CancelResult, CancelAllResult, AmendResult, Raise, Done, Answered
  <1>2. ASSUME NEW o \in reported' \ reported PROVE o \in Oids /\ ~ Open(o)
    <2>1. CASE CancelResult
      <3>1. /\ call.kind = "cancel" /\ answer # <<"error">> /\ o = call.oid
        BY <1>2, <2>1 DEF CancelResult, Answered, Refused
      <3>2. answer = <<"success">> /\ call.oid \in Oids /\ call.targets = <<call.oid>>
        BY <1>1, <3>1 DEF AdapterInv, AnswersAreTrue, TargetsExist
      <3>3. Len(answer) = 1 /\ answer[1] = "success" /\ Len(call.targets) = 1
            /\ call.targets[1] = call.oid
        BY <3>2
      <3>4. ~ Open(call.targets[1])
        BY <1>1, <3>1, <3>3 DEF AdapterInv, AnswersAreTrue
      <3> QED BY <3>1, <3>2, <3>3, <3>4
    <2>2. CASE CancelAllResult
      <3>1. call.kind = "cancel_all" /\ o \in Confirmed(call.targets, answer)
        BY <1>2, <2>2 DEF CancelAllResult, Answered
      <3>2. DOMAIN call.targets = 1..Len(call.targets)
        BY <1>1 DEF AdapterInv, Typed, CallRecord
      <3>3. PICK i \in 1..Len(call.targets) :
               o = call.targets[i] /\ i <= Len(answer) /\ answer[i] = "success"
        BY <3>1, <3>2 DEF Confirmed
      <3> QED BY <1>1, <3>1, <3>3 DEF AdapterInv, AnswersAreTrue, TargetsExist
    <2>3. CASE PlaceResult \/ AmendResult
      BY <1>2, <2>3 DEF PlaceResult, AmendResult
    <2> QED BY <2>1, <2>2, <2>3
  <1> QED BY <1>1, <1>2, VenueIsSeq, CallEnds

(* Connecting, disconnecting and an emergency stop touch no call. *)
LEMMA QuietKeeps ==
    ASSUME AdapterInv, gateShut' \in BOOLEAN, gateShut => gateShut',
           UNCHANGED <<call, cache, mapped, nonce, net, answer, venue, spent, reported, late, life>>
    PROVE  AdapterInv'
  BY DEF AdapterInv, Typed, TokensFirst, TargetsExist, Aimed, NoncesGrow, RequestsMatch, Waits,
         AnswersAreTrue, CancelReportedIsDead, NotStored, LastToPass, Oids, Open

(* A new process has spent no nonce; what is on its way is of an old one.  *)
LEMMA CrashKeeps ==
    ASSUME AdapterInv, Crash PROVE AdapterInv'
  <1>1. /\ life' = life + 1 /\ call' = None /\ nonce' = 0 /\ gateShut' = FALSE /\ late' = 0
        /\ answer' = None /\ spent' = {} /\ UNCHANGED <<mapped, net, venue, reported>>
    BY DEF Crash
  <1>2. Typed' /\ NoncesGrow'
    <2>1. life \in Nat /\ \A req \in net : req.life \in Nat /\ req.life <= life
      BY DEF AdapterInv, Typed, NetRequest, NoncesGrow
    <2>2. \A req \in net : req.life <= life' /\ req.life # life'
      BY <1>1, <2>1
    <2>3. NoncesGrow'
      BY <1>1, <2>2 DEF NoncesGrow
    <2>4. life' \in Nat /\ nonce' \in Nat /\ late' \in Nat /\ spent' \subseteq Nat
      BY <1>1, <2>1
    <2>5. gateShut' \in BOOLEAN
      BY <1>1, Zenon
    <2>6. Typed'
      BY <1>1, <2>4, <2>5 DEF AdapterInv, Typed, Oids
    <2> QED BY <2>3, <2>6
  <1>3. TokensFirst' /\ TargetsExist'
    BY <1>1 DEF AdapterInv, TokensFirst, TargetsExist, Aimed, Oids
  <1>4. RequestsMatch' /\ AnswersAreTrue' /\ NotStored' /\ LastToPass'
    BY <1>1 DEF RequestsMatch, Waits, AnswersAreTrue, NotStored, LastToPass
  <1>5. CancelReportedIsDead'
    BY <1>1 DEF AdapterInv, CancelReportedIsDead, Open
  <1> QED BY <1>2, <1>3, <1>4, <1>5 DEF AdapterInv

-----------------------------------------------------------------------------
(* Steps of the venue *)

(* The venue forgets no order, changes no owner and revives nothing. *)
VenueGoesOn ==
    /\ venue' \in Seq(VenueOrder)
    /\ Oids \subseteq Oids'
    /\ \A o \in Oids : venue'[o].cid = venue[o].cid /\ (Open(o)' => Open(o))
    /\ \A o \in Oids' \ Oids : venue'[o].cid \in mapped

(* A venue that goes on keeps everything but, perhaps, the answer. *)
LEMMA VenueStep ==
    ASSUME AdapterInv, UNCHANGED mine, net' \subseteq net, VenueGoesOn, AnswersAreTrue'
    PROVE  AdapterInv'
  <1>1. Typed'
    BY DEF AdapterInv, Typed, VenueGoesOn, mine
  <1>2. TokensFirst'
    BY DEF AdapterInv, TokensFirst, VenueGoesOn, mine
  <1>3. TargetsExist'
    BY DEF AdapterInv, TargetsExist, Aimed, VenueGoesOn, mine
  <1>4. NoncesGrow' /\ RequestsMatch' /\ NotStored' /\ LastToPass'
    BY DEF AdapterInv, NoncesGrow, RequestsMatch, Waits, NotStored, LastToPass, mine
  <1>5. CancelReportedIsDead'
    BY DEF AdapterInv, Typed, CancelReportedIsDead, VenueGoesOn, mine
  <1> QED BY <1>1, <1>2, <1>3, <1>4, <1>5 DEF AdapterInv

(* An answer that has arrived stays true. *)
LEMMA AnswerStays ==
    ASSUME AdapterInv, UNCHANGED mine, VenueGoesOn, UNCHANGED answer
    PROVE  AnswersAreTrue'
  <1>1. call # None => \A i \in 1..Len(call.targets) : call.targets[i] \in Oids
    BY DEF AdapterInv, TargetsExist
  <1> QED BY <1>1 DEF AdapterInv, AnswersAreTrue, VenueGoesOn, mine

(* The answer to a request that is neither a cancel nor a cancel_all. *)
LEMMA AnswerFits ==
    ASSUME AdapterInv, UNCHANGED mine, VenueGoesOn, NEW req \in net, NEW statuses,
           Answer(req, statuses), req.kind \in {"place", "amend"}
    PROVE  AdapterInv'
  <1>1. net' \subseteq net
    BY DEF Answer
  <1>2. CASE Waits(req)
    <2>1. call # None /\ call.step = "posted" /\ call.kind \in {"place", "amend"} /\ call' = call
      BY <1>2 DEF AdapterInv, RequestsMatch, Waits, mine
    <2>2. AnswersAreTrue'
      BY <2>1 DEF AnswersAreTrue
    <2> QED BY <1>1, <2>2, VenueStep
  <1>3. CASE ~ Waits(req)
    <2>1. UNCHANGED answer
      BY <1>3 DEF Answer, Waits
    <2> QED BY <1>1, <2>1, AnswerStays, VenueStep
  <1> QED BY <1>2, <1>3

(* An order the venue adds or changes by itself. *)
LEMMA AppendGoesOn ==
    ASSUME AdapterInv, NEW v \in Seq(VenueOrder), Len(v) = Len(venue),
           \A o \in Oids : v[o].cid = venue[o].cid /\ (v[o].status = "open" => Open(o)),
           NEW new \in VenueOrder, new.cid \in mapped, venue' = v \/ venue' = Append(v, new)
    PROVE  VenueGoesOn
  <1>1. Len(venue) \in Nat /\ Oids = 1..Len(venue)
    BY VenueIsSeq
  <1>2. CASE venue' = v
    <2>1. Oids' = Oids
      BY <1>1, <1>2 DEF Oids
    <2> QED BY <1>2, <2>1 DEF VenueGoesOn, Open
  <1>3. CASE venue' = Append(v, new)
    <2>1. venue' \in Seq(VenueOrder) /\ Oids' = 1..Len(venue) + 1
      BY <1>1, <1>3 DEF Oids
    <2>2. \A o \in Oids : venue'[o] = v[o]
      BY <1>1, <1>3
    <2>3. venue'[Len(venue) + 1] = new
      BY <1>1, <1>3
    <2>4. \A o \in Oids' \ Oids : o = Len(venue) + 1
      BY <1>1, <2>1
    <2> QED BY <1>1, <2>1, <2>2, <2>3, <2>4 DEF VenueGoesOn, Open
  <1> QED BY <1>2, <1>3

(* An order of the venue that becomes filled or cancelled. *)
LEMMA OneLess ==
    ASSUME AdapterInv, NEW o \in Oids, NEW status \in {"filled", "cancelled"}
    PROVE  LET v == [venue EXCEPT ![o].status = status]
           IN  /\ v \in Seq(VenueOrder) /\ Len(v) = Len(venue)
               /\ \A p \in Oids : v[p].cid = venue[p].cid /\ (v[p].status = "open" => Open(p))
  <1> DEFINE e == [venue[o] EXCEPT !.status = status]
             w == [venue EXCEPT ![o] = e]
  <1>1. venue[o] \in VenueOrder /\ venue \in Seq(VenueOrder) /\ Oids = 1..Len(venue)
    BY VenueIsSeq
  <1>2. e \in VenueOrder /\ e.cid = venue[o].cid /\ e.status # "open"
    BY <1>1 DEF VenueOrder
  <1>3. [venue EXCEPT ![o].status = status] = w
    BY <1>1
  <1> HIDE DEF e
  <1>4. /\ w \in Seq(VenueOrder) /\ Len(w) = Len(venue)
        /\ \A p \in 1..Len(venue) : w[p] = IF p = o THEN e ELSE venue[p]
    BY <1>1, <1>2, ExceptSeq
  <1> HIDE DEF w
  <1> QED BY <1>1, <1>2, <1>3, <1>4 DEF Open

(* The venue places an order or refuses it. *)
LEMMA VenuePlacesKeeps ==
    ASSUME AdapterInv, NEW req \in net, VenuePlaces(req) PROVE AdapterInv'
  <1>1. PICK s \in {"open", "filled", "error"} :
           /\ venue' = IF s = "error" THEN venue ELSE NewOrder(req.cid, s)
           /\ Answer(req, <<s>>)
    BY DEF VenuePlaces
  <1>2. req.kind = "place" /\ UNCHANGED mine
    BY DEF VenuePlaces
  <1>3. req.cid \in mapped /\ req.cid \in Cid
    BY <1>2 DEF AdapterInv, Typed, TokensFirst
  <1>4. VenueGoesOn
    <2>1. CASE s = "error"
      <3>1. [cid |-> req.cid, status |-> "open"] \in VenueOrder
        BY <1>3 DEF VenueOrder
      <3> QED BY <1>1, <1>3, <2>1, <3>1, VenueIsSeq, AppendGoesOn DEF Open
    <2>2. CASE s # "error"
      <3> DEFINE new == [cid |-> req.cid, status |-> s]
      <3>1. new \in VenueOrder /\ new.cid = req.cid
        BY <1>3, <2>2 DEF VenueOrder
      <3>2. venue' = Append(venue, new)
        BY <1>1, <2>2 DEF NewOrder
      <3> HIDE DEF new
      <3> QED BY <1>3, <3>1, <3>2, VenueIsSeq, AppendGoesOn DEF Open
    <2> QED BY <2>1, <2>2
  <1> QED BY <1>1, <1>2, <1>4, AnswerFits

(* The venue replaces an order that is open. *)
LEMMA VenueAmendsKeeps ==
    ASSUME AdapterInv, NEW req \in net, VenueAmends(req) PROVE AdapterInv'
  <1> DEFINE o == req.targets[1]
             v == [venue EXCEPT ![o].status = "cancelled"]
             new == [cid |-> venue[o].cid, status |-> "open"]
  <1>1. req.kind = "amend" /\ UNCHANGED mine
    BY DEF VenueAmends
  <1>2. o \in Oids
    BY <1>1 DEF AdapterInv, TargetsExist, Aimed
  <1>3. new \in VenueOrder /\ new.cid \in mapped
    BY <1>2 DEF AdapterInv, Typed, TokensFirst, VenueOrder
  <1>4. \/ venue' = Append(v, new) /\ Answer(req, <<"ok">>)
        \/ venue' = venue /\ Answer(req, <<"error">>)
    BY DEF VenueAmends
  <1>5. /\ v \in Seq(VenueOrder) /\ Len(v) = Len(venue)
        /\ \A p \in Oids : v[p].cid = venue[p].cid /\ (v[p].status = "open" => Open(p))
    BY <1>2, OneLess
  <1> HIDE DEF v, new, o
  <1>6. VenueGoesOn
    <2>1. CASE venue' = Append(v, new)
      BY <1>3, <1>5, <2>1, AppendGoesOn
    <2>2. CASE venue' = venue
      BY <1>3, <2>2, VenueIsSeq, AppendGoesOn DEF Open
    <2> QED BY <1>4, <2>1, <2>2
  <1> QED BY <1>1, <1>4, <1>6, AnswerFits

(* The venue fills an order. *)
LEMMA VenueFillsKeeps ==
    ASSUME AdapterInv, NEW o \in Oids, VenueFills(o) PROVE AdapterInv'
  <1> DEFINE v == [venue EXCEPT ![o].status = "filled"]
  <1>1. venue' = v /\ UNCHANGED mine /\ UNCHANGED <<net, answer>>
    BY DEF VenueFills
  <1>2. /\ v \in Seq(VenueOrder) /\ Len(v) = Len(venue)
        /\ \A p \in Oids : v[p].cid = venue[p].cid /\ (v[p].status = "open" => Open(p))
    BY OneLess
  <1>3. venue[o] \in VenueOrder /\ venue[o].cid \in mapped
    BY VenueIsSeq DEF AdapterInv, TokensFirst
  <1> HIDE DEF v
  <1>4. VenueGoesOn
    BY <1>1, <1>2, <1>3, AppendGoesOn
  <1> QED BY <1>1, <1>4, AnswerStays, VenueStep

(* The answer to a cancel or a cancel_all, which tells of what was done. *)
LEMMA CancelAnswerFits ==
    ASSUME AdapterInv, UNCHANGED mine, VenueGoesOn, NEW req \in net, NEW statuses,
           Answer(req, statuses), req.kind \in {"cancel", "cancel_all"},
           req.kind = "cancel" => statuses \in {<<"success">>, <<"error">>},
           \A i \in 1..Len(req.targets) :
              i <= Len(statuses) /\ statuses[i] = "success" => ~ Open(req.targets[i])'
    PROVE  AdapterInv'
  <1>1. net' \subseteq net
    BY DEF Answer
  <1>2. CASE Waits(req)
    <2>1. call # None /\ call.step = "posted" /\ call' = call
          /\ req.kind = call.kind /\ req.targets = call.targets
      BY <1>2 DEF AdapterInv, RequestsMatch, Waits, mine
    <2>2. answer' = statuses
      BY <1>2 DEF Answer, Waits
    <2>3. AnswersAreTrue'
      BY <2>1, <2>2 DEF AnswersAreTrue, Open
    <2> QED BY <1>1, <2>3, VenueStep
  <1>3. CASE ~ Waits(req)
    <2>1. UNCHANGED answer
      BY <1>3 DEF Answer, Waits
    <2> QED BY <1>1, <2>1, AnswerStays, VenueStep
  <1> QED BY <1>2, <1>3

(* The venue cancels the first of the targets that are open. *)
LEMMA VenueCancelsKeeps ==
    ASSUME AdapterInv, NEW req \in net, VenueCancels(req) PROVE AdapterInv'
  <1> DEFINE targets == req.targets
             full == [i \in DOMAIN targets |-> IF Open(targets[i]) THEN "success" ELSE "error"]
  <1>1. req.kind \in {"cancel", "cancel_all"} /\ UNCHANGED mine
    BY DEF VenueCancels
  <1>2. /\ targets \in Seq(Nat) /\ Len(targets) \in Nat /\ DOMAIN targets = 1..Len(targets)
        /\ \A i \in 1..Len(targets) : targets[i] \in Oids
        /\ req.kind = "cancel" => Len(targets) = 1
    <2>1. targets \in Seq(Nat)
      BY DEF AdapterInv, Typed, NetRequest
    <2> QED BY <2>1 DEF AdapterInv, TargetsExist, Aimed
  <1>3. /\ full \in Seq({"success", "error"}) /\ Len(full) = Len(targets)
        /\ \A i \in 1..Len(targets) :
              full[i] = IF Open(targets[i]) THEN "success" ELSE "error"
    <2>1. full \in [1..Len(targets) -> {"success", "error"}]
      BY <1>2
    <2>2. full \in Seq({"success", "error"})
      BY <1>2, <2>1, SeqDef
    <2> QED BY <1>2, <2>2
  <1>4. PICK done \in (IF req.kind = "cancel" THEN {1} ELSE 0..Len(full)) :
           /\ venue' = [o \in Oids |->
                   IF o \in ToSet(SubSeq(targets, 1, done)) /\ Open(o)
                   THEN [venue[o] EXCEPT !.status = "cancelled"] ELSE venue[o]]
           /\ \E n \in (IF req.kind = "cancel" THEN {1} ELSE 0..done) :
                   Answer(req, SubSeq(full, 1, n))
    BY DEF VenueCancels
  <1>5. PICK n \in (IF req.kind = "cancel" THEN {1} ELSE 0..done) :
           Answer(req, SubSeq(full, 1, n))
    BY <1>4
  <1> HIDE DEF full, targets
  <1>6. done \in 0..Len(targets) /\ n \in 0..done /\ (req.kind = "cancel" => n = 1)
    <2>1. CASE req.kind = "cancel"
      BY <1>2, <1>4, <1>5, <2>1
    <2>2. CASE req.kind # "cancel"
      BY <1>2, <1>3, <1>4, <1>5, <2>2
    <2> QED BY <2>1, <2>2
  <1>7. /\ SubSeq(targets, 1, done) \in Seq(Nat) /\ Len(SubSeq(targets, 1, done)) = done
        /\ \A i \in 1..done : SubSeq(targets, 1, done)[i] = targets[i]
    BY <1>2, <1>6
  <1>8. \A i \in 1..done : targets[i] \in ToSet(SubSeq(targets, 1, done))
    <2> DEFINE first == SubSeq(targets, 1, done)
    <2>1. DOMAIN first = 1..done /\ \A i \in 1..done : first[i] = targets[i]
      BY <1>7, LenProperties
    <2> HIDE DEF first
    <2>2. \A i \in 1..done : targets[i] \in ToSet(first)
      BY <2>1 DEF ToSet
    <2> QED BY <2>2 DEF first
  <1>9. /\ SubSeq(full, 1, n) \in Seq({"success", "error"}) /\ Len(SubSeq(full, 1, n)) = n
        /\ \A i \in 1..n : SubSeq(full, 1, n)[i] = full[i]
    BY <1>2, <1>3, <1>6
  <1>10. VenueGoesOn /\ \A i \in 1..done : ~ Open(targets[i])'
    <2>1. ASSUME NEW o \in Oids
          PROVE  /\ venue'[o] \in VenueOrder /\ venue'[o].cid = venue[o].cid
                 /\ venue'[o].status = "open" => Open(o)
                 /\ o \in ToSet(SubSeq(targets, 1, done)) => venue'[o].status # "open"
      <3>1. venue[o] \in VenueOrder
        BY VenueIsSeq
      <3>2. venue'[o] = IF o \in ToSet(SubSeq(targets, 1, done)) /\ Open(o)
                        THEN [venue[o] EXCEPT !.status = "cancelled"] ELSE venue[o]
        BY <1>4
      <3> QED BY <3>1, <3>2 DEF VenueOrder, Open
    <2>2. venue' \in [1..Len(venue) -> VenueOrder] /\ Len(venue) \in Nat
      BY <1>4, <2>1, VenueIsSeq
    <2>3. venue' \in Seq(VenueOrder)
      BY <2>2, SeqDef
    <2>4. Oids' = Oids
      BY <1>4 DEF Oids
    <2>5. VenueGoesOn
      BY <2>1, <2>3, <2>4 DEF VenueGoesOn, Open
    <2>6. ASSUME NEW i \in 1..done PROVE ~ Open(targets[i])'
      <3>1. targets[i] \in Oids
        BY <1>2, <1>6
      <3>2. venue'[targets[i]].status # "open"
        BY <1>8, <2>1, <3>1
      <3> QED BY <1>1, <3>2 DEF Open, targets
    <2> QED BY <2>5, <2>6
  <1>11. req.kind = "cancel" => SubSeq(full, 1, n) \in {<<"success">>, <<"error">>}
    <2> SUFFICES ASSUME req.kind = "cancel"
                 PROVE  SubSeq(full, 1, n) \in {<<"success">>, <<"error">>}
      OBVIOUS
    <2>1. n = 1
      BY <1>6
    <2>2. ASSUME NEW s \in Seq({"success", "error"}), Len(s) = 1
          PROVE  s \in {<<"success">>, <<"error">>}
      <3>1. s[1] \in {"success", "error"} /\ s = <<s[1]>>
        BY <2>2
      <3> QED BY <3>1
    <2> QED BY <1>9, <2>1, <2>2
  <1>12. \A i \in 1..Len(req.targets) :
            i <= Len(SubSeq(full, 1, n)) /\ SubSeq(full, 1, n)[i] = "success"
              => ~ Open(req.targets[i])'
    <2>1. \A i \in 1..Len(targets) : i <= n => i \in 1..done
      BY <1>2, <1>6
    <2> QED BY <1>9, <1>10, <2>1 DEF targets
  <1> DEFINE statuses == SubSeq(full, 1, n)
  <1>13. /\ Answer(req, statuses)
         /\ req.kind = "cancel" => statuses \in {<<"success">>, <<"error">>}
         /\ \A i \in 1..Len(req.targets) :
              i <= Len(statuses) /\ statuses[i] = "success" => ~ Open(req.targets[i])'
    BY <1>5, <1>11, <1>12
  <1> HIDE DEF statuses
  <1> QED BY <1>1, <1>10, <1>13, CancelAnswerFits

-----------------------------------------------------------------------------
(* Nothing has been called. *)
LEMMA InitAdapter == Init => AdapterInv
  <1> SUFFICES ASSUME Init PROVE AdapterInv
    OBVIOUS
  <1>1. venue = << >> /\ << >> \in Seq(VenueOrder) /\ Oids = {}
    BY DEF Init, Oids
  <1>2. gateShut \in BOOLEAN
    BY Zenon DEF Init
  <1> QED BY <1>1, <1>2 DEF Init, AdapterInv, Typed, TokensFirst, TargetsExist, NoncesGrow,
             RequestsMatch, AnswersAreTrue, CancelReportedIsDead, NotStored, LastToPass

(* Every step keeps the invariant. *)
LEMMA NextAdapter == AdapterInv /\ [Next]_vars => AdapterInv'
  <1> SUFFICES ASSUME AdapterInv, [Next]_vars PROVE AdapterInv'
    OBVIOUS
  <1>1. ASSUME NEW cid \in Cid, PlaceOrder(cid) PROVE AdapterInv'
    BY <1>1, BeginKeeps DEF PlaceOrder, Kind
  <1>2. ASSUME NEW rid \in Rid, NEW o \in Oids, AmendOrder(rid, o) \/ CancelOrder(rid, o)
        PROVE  AdapterInv'
    BY <1>2, BeginKeeps DEF AmendOrder, CancelOrder, Kind
  <1>3. ASSUME NEW rid \in Rid, CancelAll(rid) PROVE AdapterInv'
    BY <1>3, BeginKeeps DEF CancelAll, Kind
  <1>4. CASE Connect \/ Disconnect \/ RevokeWallet \/ UNCHANGED vars
    BY <1>4, QuietKeeps, VenueIsSeq DEF Connect, Disconnect, RevokeWallet, vars
  <1>5. CASE RevokeGate
    <2>1. gateShut' \in BOOLEAN /\ (gateShut => gateShut')
      BY <1>5, Zenon DEF RevokeGate
    <2> QED BY <1>5, <2>1, QuietKeeps DEF RevokeGate
  <1>6. ASSUME NEW req \in net, VenueDrops(req) PROVE AdapterInv'
    <2>1. UNCHANGED mine /\ UNCHANGED <<answer, venue>> /\ net' \subseteq net
      BY <1>6 DEF VenueDrops
    <2>2. VenueGoesOn
      BY <2>1, VenueIsSeq DEF VenueGoesOn, Oids, Open
    <2> QED BY <2>1, <2>2, AnswerStays, VenueStep
  <1> QED BY <1>1, <1>2, <1>3, <1>4, <1>5, <1>6, PreparePlaceKeeps, PrepareByOidKeeps,
             PrepareCancelAllKeeps, SignKeeps, PostKeeps, FailKeeps, ResultKeeps, CrashKeeps,
             VenuePlacesKeeps, VenueAmendsKeeps, VenueCancelsKeeps, VenueFillsKeeps DEF Next

(* The inductive invariant holds. *)
LEMMA AdapterIsOk == Spec => []AdapterInv
  BY InitAdapter, NextAdapter, PTL DEF Spec

-----------------------------------------------------------------------------
(* Whatever is at the venue, or may still get there, is found again by the *)
(* engine: OrderIdMapping.record is durable before a request is signed.    *)
THEOREM EveryOrderIsOurs == Spec => []Attributable
  <1>1. AdapterInv => Attributable
    <2> SUFFICES ASSUME AdapterInv PROVE Attributable
      OBVIOUS
    <2>1. ASSUME NEW o \in Oids
          PROVE  /\ o \in GetOrderStatus(o)
                 /\ venue[o].status # "cancelled" => o \in GetOrders \cup GetFills
      <3>1. venue[o] \in VenueOrder /\ Owned(o)
        BY VenueIsSeq DEF AdapterInv, TokensFirst, Owned
      <3> QED BY <3>1 DEF GetOrderStatus, GetOrders, GetFills, Open, VenueOrder
    <2> QED BY <2>1 DEF AdapterInv, TokensFirst, Attributable
  <1> QED BY <1>1, AdapterIsOk, PTL

(* An order returned as CANCELLED does not rest at the venue, although an  *)
(* answer may lack the tail of what was done or never arrive.              *)
THEOREM CancelledMeansDead == Spec => []CancelReportedIsDead
  <1>1. AdapterInv => CancelReportedIsDead
    BY DEF AdapterInv
  <1> QED BY <1>1, AdapterIsOk, PTL

(* NonceSource.next is monotonic whatever the clock reads, and a request   *)
(* id whose result is stored is never transmitted again.                   *)
THEOREM NoRequestTwice == Spec => []PostsAreFresh
  <1>1. AdapterInv => PostsAreFresh
    BY DEF AdapterInv, NoncesGrow, NotStored, PostsAreFresh
  <1> QED BY <1>1, AdapterIsOk, PTL

(* After an emergency stop revoked the boundary at most one request leaves,*)
(* wherever the stop falls between a call's gate and its POST.             *)
THEOREM StopLetsOneThrough == Spec => []StopIsTight
  <1>1. AdapterInv => StopIsTight
    BY DEF AdapterInv, Typed, LastToPass, StopIsTight
  <1> QED BY <1>1, AdapterIsOk, PTL
=============================================================================
