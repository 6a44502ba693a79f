------------------------- MODULE HyperliquidAdapter -------------------------
(***************************************************************************)
(* The exchange adapter's mutations: the template methods of               *)
(* src/exchange_adapter/adapter.py and their Hyperliquid transmission      *)
(* (src/hyperliquid_adapter: adapter, mapping, exchange, signing).         *)
(*                                                                         *)
(* One mutation at a time holds the mutation lock.  Its steps interleave   *)
(* with the venue, with an emergency stop that revokes first the signing   *)
(* boundary and then the wallet, and with crashes.  A request may arrive   *)
(* late, its answer may not arrive at all.                                 *)
(***************************************************************************)
EXTENDS Integers, Sequences, SequencesExt, FiniteSets

CONSTANTS Cid,       \* engine client order ids; each is also a request id
          Rid,       \* request ids of amends and cancels
          Clock,     \* readings of the millisecond clock, which may step back
          MaxOid,    \* bound: venue order ids
          MaxNonce,  \* bound: nonces
          MaxPosts,  \* bound: requests transmitted
          MaxLives,  \* bound: lives of the process
          None

ASSUME AdapterAssumption ==
    /\ Cid \cap Rid = {} /\ None \notin Cid \cup Rid
    /\ Clock \subseteq Nat \ {0}
    /\ MaxOid \in Nat /\ MaxNonce \in Nat /\ MaxPosts \in Nat /\ MaxLives \in Nat

VARIABLES connected,  \* _connected
          call,       \* the mutation that holds the lock, or None
          cache,      \* request ids with a stored result
          mapped,     \* engine ids whose venue token is durable
          nonce,      \* NonceSource._last
          gateShut,   \* the signing boundary's key is revoked
          walletShut, \* the wallet signer is revoked
          net,        \* requests on their way to the venue
          answer,     \* the answer to the request the call waits for, or None
          venue,      \* the venue's orders: venue[oid]
          spent,      \* nonces transmitted in this life
          posts,      \* requests transmitted
          reported,   \* venue ids of orders returned as CANCELLED
          late,       \* requests transmitted after an emergency stop revoked the boundary
          life

vars == <<connected, call, cache, mapped, nonce, gateShut, walletShut, net, answer,
          venue, spent, posts, reported, late, life>>

mine == <<connected, call, cache, mapped, nonce, gateShut, walletShut, reported, late, life,
          spent, posts>>

-----------------------------------------------------------------------------
(* What the adapter reads of the venue *)

Oids == DOMAIN venue
Open(o) == venue[o].status = "open"

(* parse_open_orders, parse_user_fills and parse_order_status keep what    *)
(* OrderIdMapping.resolve knows.                                           *)
Owned(o) == venue[o].cid \in mapped
GetOrders == {o \in Oids : Open(o) /\ Owned(o)}
GetFills == {o \in Oids : venue[o].status = "filled" /\ Owned(o)}
GetOrderStatus(oid) == {o \in Oids : o = oid /\ Owned(o)}

-----------------------------------------------------------------------------
Init ==
    /\ connected = FALSE
    /\ call = None
    /\ cache = {}
    /\ mapped = {}
    /\ nonce = 0
    /\ gateShut = FALSE /\ walletShut = FALSE
    /\ net = {} /\ answer = None
    /\ venue = << >>
    /\ spent = {} /\ posts = 0
    /\ reported = {}
    /\ late = 0
    /\ life = 1

(* connect signs with the boundary, then probes; either may raise. *)
Connect ==
    /\ ~ connected /\ ~ gateShut
    /\ connected' = TRUE
    /\ UNCHANGED <<call, cache, mapped, nonce, gateShut, walletShut, net, answer, venue,
                   spent, posts, reported, late, life>>

Disconnect ==
    /\ connected /\ call = None
    /\ connected' = FALSE
    /\ UNCHANGED <<call, cache, mapped, nonce, gateShut, walletShut, net, answer, venue,
                   spent, posts, reported, late, life>>

(* Slip: the boundary is asked only when the adapter connects. *)
BeginUngated(kind, rid, cid, oid) ==
    /\ call = None
    /\ rid \notin cache
    /\ connected
    /\ call' = [step |-> "gated", kind |-> kind, rid |-> rid, cid |-> cid, oid |-> oid,
                nonce |-> 0, targets |-> << >>]
    /\ UNCHANGED <<connected, cache, mapped, nonce, gateShut, walletShut, net, answer, venue,
                   spent, posts, reported, late, life>>

(* place_order, amend_order, cancel_order, cancel_all under the mutation   *)
(* lock: a stored result is returned; otherwise an audit record is made    *)
(* and the transmission begins with the checks and the boundary's gate.    *)
Begin(kind, rid, cid, oid) ==
    /\ call = None
    /\ rid \notin cache
    /\ connected /\ ~ gateShut
    /\ call' = [step |-> "gated", kind |-> kind, rid |-> rid, cid |-> cid, oid |-> oid,
                nonce |-> 0, targets |-> << >>]
    /\ UNCHANGED <<connected, cache, mapped, nonce, gateShut, walletShut, net, answer, venue,
                   spent, posts, reported, late, life>>

PlaceOrder(cid) == Begin("place", cid, cid, None)
AmendOrder(rid, oid) == oid \in Oids /\ Begin("amend", rid, None, oid)
CancelOrder(rid, oid) == oid \in Oids /\ Begin("cancel", rid, None, oid)
CancelAll(rid) == Begin("cancel_all", rid, None, None)

(* The call ends, with an exception or with a result that is stored. *)
Raise == call' = None /\ answer' = None
Done == cache' = cache \cup {call.rid} /\ call' = None /\ answer' = None

(* Slip: the mapping is left to be recorded when the answer arrives. *)
PrepareUnrecorded ==
    /\ call # None /\ call.step = "gated" /\ call.kind = "place"
    /\ call' = [call EXCEPT !.step = "ready"]
    /\ UNCHANGED <<connected, cache, mapped, nonce, gateShut, walletShut, net, answer, venue,
                   spent, posts, reported, late, life>>

(* _transmit_place_order up to signing: OrderIdMapping.record makes the    *)
(* token durable, or raises; then the asset's index is found.              *)
PreparePlace ==
    /\ call # None /\ call.step = "gated" /\ call.kind = "place"
    /\ mapped' = mapped \cup {call.cid}
    /\ call' = [call EXCEPT !.step = "ready"]
    /\ UNCHANGED <<connected, cache, nonce, gateShut, walletShut, net, answer, venue,
                   spent, posts, reported, late, life>>

(* _transmit_cancel_order, _transmit_amend_order: the order is read first. *)
PrepareByOid ==
    /\ call # None /\ call.step = "gated" /\ call.kind \in {"cancel", "amend"}
    /\ GetOrderStatus(call.oid) # {}
    /\ call' = [call EXCEPT !.step = "ready", !.cid = venue[call.oid].cid,
                            !.targets = <<call.oid>>]
    /\ UNCHANGED <<connected, cache, mapped, nonce, gateShut, walletShut, net, answer, venue,
                   spent, posts, reported, late, life>>

(* _transmit_cancel_all: the open orders of this engine; none is success. *)
PrepareCancelAll ==
    /\ call # None /\ call.step = "gated" /\ call.kind = "cancel_all"
    /\ IF GetOrders = {} THEN Done
       ELSE /\ call' = [call EXCEPT !.step = "ready", !.targets = SetToSeq(GetOrders)]
            /\ UNCHANGED <<cache, answer>>
    /\ UNCHANGED <<connected, mapped, nonce, gateShut, walletShut, net, venue,
                   spent, posts, reported, late, life>>

(* Slip: the nonce is the clock's reading. *)
NextNonceIsClock(now) == now

(* NonceSource.next *)
NextNonce(now) == IF now > nonce THEN now ELSE nonce + 1

(* _sign_and_post up to the signature: the nonce is taken, then the        *)
(* account is captured under the signer's lock, so a revocation that comes *)
(* later does not stop it.                                                 *)
Sign ==
    /\ call # None /\ call.step = "ready"
    /\ \E now \in Clock :
        /\ NextNonce(now) <= MaxNonce
        /\ nonce' = NextNonce(now)
        /\ IF walletShut THEN Raise
           ELSE call' = [call EXCEPT !.step = "signed", !.nonce = NextNonce(now)]
                /\ UNCHANGED answer
    /\ UNCHANGED <<connected, cache, mapped, gateShut, walletShut, net, venue,
                   spent, posts, reported, late, life>>

(* The POST leaves. *)
Post ==
    /\ call # None /\ call.step = "signed"
    /\ posts < MaxPosts
    /\ posts' = posts + 1
    /\ net' = net \cup {[kind |-> call.kind, cid |-> call.cid, targets |-> call.targets,
                         nonce |-> call.nonce, life |-> life]}
    /\ spent' = spent \cup {call.nonce}
    /\ late' = IF gateShut THEN late + 1 ELSE late
    /\ call' = [call EXCEPT !.step = "posted"]
    /\ UNCHANGED <<connected, cache, mapped, nonce, gateShut, walletShut, answer, venue,
                   reported, life>>

(* A step before the POST raises: a read fails, the order is unknown, the  *)
(* mapping's append fails, the asset has no index.  Nothing is cached.     *)
Fail ==
    /\ call # None /\ call.step # "posted"
    /\ Raise
    /\ UNCHANGED <<connected, cache, mapped, nonce, gateShut, walletShut, net, venue,
                   spent, posts, reported, late, life>>

(* post_json gives up on the answer; the request may still be on its way.  *)
Timeout ==
    /\ call # None /\ call.step = "posted" /\ answer = None
    /\ Raise
    /\ UNCHANGED <<connected, cache, mapped, nonce, gateShut, walletShut, net, venue,
                   spent, posts, reported, late, life>>

Refused == answer = <<"error">>
Answered(kind) == call # None /\ call.kind = kind /\ answer # None

(* _parse_place_result: resting or filled is a result, an error raises. *)
PlaceResult ==
    /\ Answered("place")
    /\ IF Refused THEN Raise /\ UNCHANGED cache ELSE Done
    /\ UNCHANGED <<connected, mapped, nonce, gateShut, walletShut, net, venue,
                   spent, posts, reported, late, life>>

(* An answer that carries no error is taken for success. *)
CancelResult ==
    /\ Answered("cancel")
    /\ IF Refused
       THEN Raise /\ UNCHANGED <<cache, reported>>
       ELSE Done /\ reported' = reported \cup {call.oid}
    /\ UNCHANGED <<connected, mapped, nonce, gateShut, walletShut, net, venue,
                   spent, posts, late, life>>

(* Slip: an order without an error is taken for cancelled. *)
ConfirmedUnlessError(targets, statuses) ==
    {targets[i] : i \in {j \in DOMAIN targets : j > Len(statuses) \/ statuses[j] # "error"}}

(* Only what the venue confirmed: a missing status confirms nothing. *)
Confirmed(targets, statuses) ==
    {targets[i] : i \in {j \in DOMAIN targets : j <= Len(statuses) /\ statuses[j] = "success"}}

CancelAllResult ==
    /\ Answered("cancel_all")
    /\ reported' = reported \cup Confirmed(call.targets, answer)
    /\ Done
    /\ UNCHANGED <<connected, mapped, nonce, gateShut, walletShut, net, venue,
                   spent, posts, late, life>>

(* A modify retires the id; the replacement is looked for among the open   *)
(* orders of the same engine id, and if it is not there the call raises.   *)
AmendResult ==
    /\ Answered("amend")
    /\ IF ~ Refused /\ \E o \in GetOrders : venue[o].cid = call.cid
       THEN Done ELSE Raise /\ UNCHANGED cache
    /\ UNCHANGED <<connected, mapped, nonce, gateShut, walletShut, net, venue,
                   spent, posts, reported, late, life>>

-----------------------------------------------------------------------------
(* emergency_stop: revoke_all on the boundary, then the wallet signer. *)
RevokeGate ==
    /\ ~ gateShut
    /\ gateShut' = TRUE
    /\ UNCHANGED <<connected, call, cache, mapped, nonce, walletShut, net, answer, venue,
                   spent, posts, reported, late, life>>

RevokeWallet ==
    /\ gateShut /\ ~ walletShut
    /\ walletShut' = TRUE
    /\ UNCHANGED <<connected, call, cache, mapped, nonce, gateShut, net, answer, venue,
                   spent, posts, reported, late, life>>

(* A new process has nothing but the durable mapping. *)
Crash ==
    /\ life < MaxLives
    /\ life' = life + 1
    /\ connected' = FALSE /\ call' = None /\ cache' = {} /\ nonce' = 0
    /\ gateShut' = FALSE /\ walletShut' = FALSE /\ late' = 0
    /\ answer' = None /\ spent' = {}
    /\ UNCHANGED <<mapped, net, venue, posts, reported>>

-----------------------------------------------------------------------------
(* The venue.  Its answer reaches the call that still waits for it. *)

Answer(req, statuses) ==
    /\ net' = net \ {req}
    /\ answer' = IF /\ call # None /\ call.step = "posted"
                     /\ call.nonce = req.nonce /\ life = req.life
                  THEN statuses ELSE answer

NewOrder(cid, status) == Append(venue, [cid |-> cid, status |-> status])

VenuePlaces(req) ==
    /\ req.kind = "place" /\ Len(venue) < MaxOid
    /\ \E s \in {"open", "filled", "error"} :
        /\ venue' = IF s = "error" THEN venue ELSE NewOrder(req.cid, s)
        /\ Answer(req, <<s>>)
    /\ UNCHANGED mine

VenueAmends(req) ==
    /\ req.kind = "amend" /\ Len(venue) < MaxOid
    /\ LET o == req.targets[1]
       IN  IF Open(o)
           THEN /\ venue' = Append([venue EXCEPT ![o].status = "cancelled"],
                                   [cid |-> venue[o].cid, status |-> "open"])
                /\ Answer(req, <<"ok">>)
           ELSE venue' = venue /\ Answer(req, <<"error">>)
    /\ UNCHANGED mine

(* The venue works through the targets and may stop early; the answer may  *)
(* lack the tail of what was done.                                         *)
VenueCancels(req) ==
    /\ req.kind \in {"cancel", "cancel_all"}
    /\ LET full == [i \in DOMAIN req.targets |->
                        IF Open(req.targets[i]) THEN "success" ELSE "error"]
       IN  \E done \in (IF req.kind = "cancel" THEN {1} ELSE 0..Len(full)) :
               /\ venue' = [o \in Oids |->
                       IF o \in ToSet(SubSeq(req.targets, 1, done)) /\ Open(o)
                       THEN [venue[o] EXCEPT !.status = "cancelled"] ELSE venue[o]]
               /\ \E n \in (IF req.kind = "cancel" THEN {1} ELSE 0..done) :
                       Answer(req, SubSeq(full, 1, n))
    /\ UNCHANGED mine

VenueFills(o) ==
    /\ Open(o)
    /\ venue' = [venue EXCEPT ![o].status = "filled"]
    /\ UNCHANGED mine
    /\ UNCHANGED <<net, answer>>

(* A request is lost, or refused before the venue acts on it. *)
VenueDrops(req) ==
    /\ net' = net \ {req}
    /\ UNCHANGED mine
    /\ UNCHANGED <<answer, venue>>

Next ==
    \/ Connect \/ Disconnect
    \/ \E cid \in Cid : PlaceOrder(cid)
    \/ \E rid \in Rid : \/ \E o \in Oids : AmendOrder(rid, o) \/ CancelOrder(rid, o)
                        \/ CancelAll(rid)
    \/ PreparePlace \/ PrepareByOid \/ PrepareCancelAll
    \/ Sign \/ Post \/ Fail \/ Timeout
    \/ PlaceResult \/ CancelResult \/ CancelAllResult \/ AmendResult
    \/ RevokeGate \/ RevokeWallet
    \/ Crash
    \/ \E req \in net : \/ VenuePlaces(req) \/ VenueAmends(req) \/ VenueCancels(req)
                        \/ VenueDrops(req)
    \/ \E o \in Oids : VenueFills(o)

Spec == Init /\ [][Next]_vars

-----------------------------------------------------------------------------
(* Whatever is at the venue, or may still get there, is found again by the *)
(* engine after any crash: its token is durable before it is transmitted.  *)
Attributable ==
    /\ \A o \in Oids : GetOrderStatus(o) # {}
    /\ \A o \in Oids : venue[o].status # "cancelled" => o \in GetOrders \cup GetFills
    /\ \A req \in net : req.kind = "place" => req.cid \in mapped

(* An order returned as CANCELLED, by a cancel or a cancel_all, does not   *)
(* rest at the venue, whatever the answer left out.                        *)
CancelReportedIsDead == \A o \in reported : ~ Open(o)

(* Within one life of the process no request carries a nonce that is not   *)
(* larger than those before it, though the clock may stand still or step   *)
(* back; and a request that succeeded is not transmitted again.            *)
PostsAreFresh ==
    /\ call # None /\ call.step = "signed" => \A n \in spent : n < call.nonce
    /\ call # None /\ call.step = "posted" => call.rid \notin cache

(* Once an emergency stop has revoked the boundary at most one request     *)
(* leaves, the one that had passed the gate, although the wallet itself is *)
(* revoked later and not under the mutation lock.                          *)
StopIsTight == late <= 1
=============================================================================
