---------------------------- MODULE TradingCycle -----------------------------
(***************************************************************************)
(* What an engine built by AppState.create sends to the venue, cycle after *)
(* cycle (src/app/runtime/state.py, src/trading_system): book the fills,   *)
(* ask the strategies, suppress what already rests at the venue, construct *)
(* and evaluate the requests, place the approved ones one by one.  The     *)
(* venue acts between any two steps.                                       *)
(*                                                                         *)
(* An order fills whole and at its own price, and an exit closes a whole   *)
(* position: Accounting and PositionManager have the parts.  Equity is the *)
(* deposit: profit and loss are PortfolioManager's.                        *)
(***************************************************************************)
EXTENDS EngineBuilder, AlphaStrategy

CONSTANTS Launch,      \* what create may be called with
          Market,      \* what the market may read in a cycle
          OtherIntents, \* what other strategies may ask for in a cycle
          NewPrice,    \* prices an order may be amended to
          Lacks,       \* features the venue does not support
          ExecState,   \* execution states a cycle may find
          Version,     \* versions of specifications
          MaxTime,     \* bound: the clock
          MaxOrders    \* bound: orders placed

(* What the types of the source give: symbols, specifications and intents  *)
(* are lists, a number has a denominator, a venue's rule is one it may     *)
(* have.  Bound: prices are Measurable.                                    *)
Listed(list) == list \in Seq(Range(list))

Number(x) == x = None \/ x \in Rational
Price(x) == x = None \/ Measurable(x)

SymbolsOf(l) == Get(Get(l.file.table, "universe", <<>>), "symbols", <<>>)

LaunchOk(l) ==
    LET profiles == Get(Get(l.file.table, "risk", <<>>), "profiles", <<>>)
    IN /\ SymbolsOf(l) \in Seq(Int)
       /\ \A name \in DOMAIN profiles : /\ Number(Get(profiles[name], "max_positions", None))
                                         /\ Number(Get(profiles[name], "risk_pct_per_trade", None))
       /\ Number(Get(l.env, "PORTFOLIO_INITIAL_DEPOSIT", None))
       /\ \A sym \in DOMAIN l.rules : l.rules[sym] \in 0..PriceMaxDecimals
       /\ Listed(l.meta) /\ Listed(l.specs)
       /\ \A i \in DOMAIN l.specs :
            /\ {"version", "cadence", "evalAt", "stop"} \subseteq DOMAIN l.specs[i]
            /\ l.specs[i].version \in Version
            /\ l.specs[i].cadence \in Int
            /\ Number(l.specs[i].stop)

WishOk(i) == i.reduce \in BOOLEAN /\ i.stop \in Rational /\ Number(i.conv) /\ Price(i.limit)

ASSUME CycleAssumption ==
    /\ Version \subseteq Nat
    /\ \A l \in Launch : LaunchOk(l)
    /\ \A l \in Launch, market \in Market :
         \A sym \in Range(SymbolsOf(l)) : sym > 0 => Price(market.mark[sym])
    /\ \A others \in OtherIntents : Listed(others) /\ \A k \in DOMAIN others : WishOk(others[k])
    /\ \A price \in NewPrice : Measurable(price)

VARIABLES
  engine,  \* what create returned
  specs,   \* the strategy's specifications
  now,     \* the clock
  lastAt,  \* _last_evaluated_at, by version
  orders,  \* every order placed, with what became of it
  eventAt, \* when the portfolio's last event was appended
  phase,   \* where the cycle is
  todo,    \* approved requests still to be placed
  audit    \* of the step just taken: verdicts, evaluations, what was sent

cycleVars == <<engine, specs, now, lastAt, orders, eventAt, phase, todo, audit>>

Off == [up |-> FALSE, why |-> "not built"]
NoAudit == [at |-> -1, live |-> {}, raised |-> FALSE, verdicts |-> {}, sent |-> <<>>]

CycleInit ==
    /\ engine = Off
    /\ specs = <<>>
    /\ now = 0
    /\ lastAt = [v \in Version |-> -1]
    /\ orders = <<>>
    /\ eventAt = 0
    /\ phase = "idle"
    /\ todo = <<>>
    /\ audit = NoAudit

(* AppState.create, with the strategy the deployment hands it; the deposit *)
(* is the portfolio's first event.                                         *)
Boot(l) ==
    /\ ~ engine.up
    /\ StrategyOk(l.specs, l.watchlist)
    /\ engine' = Create(l.file, l.env, l.meta, l.rules)
    /\ specs' = [i \in DOMAIN l.specs |-> [l.specs[i] EXCEPT !.evalAt = -1]]
    /\ eventAt' = now
    /\ UNCHANGED <<now, lastAt, orders, phase, todo, audit>>

-----------------------------------------------------------------------------
(* The books, as accounting keeps them. *)

Held(o) == ~ o.reduce /\ o.st = "booked"
Open == {n \in DOMAIN orders : Held(orders[n])}

Total(F(_), ids) == FoldLeft(LAMBDA sum, n : Plus(sum, F(n)), Zero, SetToSeq(ids))

Equity == IF Lt(Zero, engine.deposit) THEN engine.deposit ELSE Zero
OpenRisk(n) == Times(orders[n].quantity, orders[n].stopD)
OpenMargin(n) == Over(Times(orders[n].quantity, orders[n].price), engine.leverage)

(* sync: fills become positions, and a filled exit closes the first        *)
(* position open on the other side of its symbol.                          *)
ClosedBy(n) ==
    {p \in Open : orders[p].sym = orders[n].sym /\ orders[p].side # orders[n].side}
Closed ==
    {Min(ClosedBy(n)) : n \in {m \in DOMAIN orders : /\ orders[m].reduce
                                                     /\ orders[m].st = "filled"
                                                     /\ ClosedBy(m) # {}}}

(* An order that is over, or a position, leaves nothing behind. *)
Ended == [sym |-> 0, side |-> "", reduce |-> FALSE, quantity |-> Zero, price |-> Zero,
          stopD |-> Zero, st |-> "over", at |-> -1]

Booked ==
    [n \in DOMAIN orders |->
       IF n \in Closed \/ (orders[n].st = "filled" /\ orders[n].reduce) THEN Ended
       ELSE IF orders[n].st = "filled" THEN [orders[n] EXCEPT !.st = "booked", !.at = now]
       ELSE orders[n]]

(* run_one_cycle, before run_cycle: book fills, and with anything open or  *)
(* marked append the marks.                                                *)
BeginCycle ==
    /\ engine.up /\ phase = "idle"
    /\ Len(orders) < MaxOrders
    /\ orders' = Booked
    /\ eventAt' = IF Booked # orders \/ Open # {} THEN now ELSE eventAt
    /\ phase' = "booked"
    /\ audit' = NoAudit
    /\ UNCHANGED <<engine, specs, now, lastAt, todo>>

-----------------------------------------------------------------------------
(* run_cycle *)

(* Slip: a resting entry does not suppress another. *)
LiveExitKeys ==
    {<<orders[n].sym, orders[n].reduce>> : n \in {m \in DOMAIN orders : orders[m].st = "live" /\ orders[m].reduce}}

LiveOrderKeys ==
    {<<orders[n].sym, orders[n].reduce>> : n \in {m \in DOMAIN orders : orders[m].st = "live"}}

(* construct_trade_requests: one intent a symbol, the most convinced first, *)
(* of those in the universe that no resting order suppresses.               *)
ConvictionSortKey(i) == IF i.conv = None THEN Num(-1) ELSE Modulus(i.conv)

Weaker(i, j) == Lt(ConvictionSortKey(i), ConvictionSortKey(j))

(* max: the first of the most convinced of its symbol. *)
SameSymbol(intents, eligible, k) == {j \in eligible : intents[j].sym = intents[k].sym}
Wins(intents, eligible, k) ==
    /\ k \in eligible
    /\ \A j \in SameSymbol(intents, eligible, k) :
         IF j < k THEN Weaker(intents[j], intents[k]) ELSE ~ Weaker(intents[k], intents[j])

(* sort: stable, so a tie goes to the symbol that was seen first. *)
Ahead(intents, eligible, a, b) ==
    \/ Weaker(intents[b], intents[a])
    \/ /\ ~ Weaker(intents[a], intents[b])
       /\ Min(SameSymbol(intents, eligible, a)) < Min(SameSymbol(intents, eligible, b))

Ranked(list, k, intents, eligible) ==
    LET behind == {i \in DOMAIN list : Ahead(intents, eligible, k, list[i])}
    IN  IF behind = {} THEN Append(list, k) ELSE InsertAt(list, Min(behind), k)

(* The places of the survivors among the intents, the first to go first. *)
Survivors(intents, eligible) ==
    LET upto[k \in 0..Len(intents)] ==
            IF k = 0 THEN <<>>
            ELSE IF Wins(intents, eligible, k) THEN Ranked(upto[k - 1], k, intents, eligible)
            ELSE upto[k - 1]
    IN  upto[Len(intents)]

Seen(state) ==
    [at        |-> now,
     state     |-> state,
     ledger    |-> [at     |-> eventAt,
                    equity |-> Equity,
                    heat   |-> IF Equity = Zero THEN Zero ELSE Over(Total(OpenRisk, Open), Equity),
                    cash   |-> Minus(Equity, Total(OpenMargin, Open))],
     positions |-> [n \in Open |-> [at |-> orders[n].at]]]

(* An intent's way: sized and judged, skipped, or an error that ends the   *)
(* cycle.  The live venue stamps a rate when it answers, after the cycle   *)
(* read its clock; the paper venue's rates are as old as the market says.   *)
StampOf(market, sym) == IF engine.live THEN now + 1 ELSE now - market.age[sym]

Judged(i, market, state) ==
    LET price == IF i.limit # None THEN i.limit ELSE market.mark[i.sym]
        sized == IF price = None THEN [st |-> "raise"]
                 ELSE SizeIntent(i, Equity, engine.profile, price, engine.mmr, engine.leverage, None)
        funding == [rate |-> market.rate[i.sym], at |-> StampOf(market, i.sym)]
        correlation == [entries |-> {}, at |-> now]
    IN IF sized.st # "sized" THEN sized
       ELSE IF funding.rate = None THEN [st |-> "raise"]
       ELSE [st |-> "judged", request |-> sized.request, stamp |-> funding.at,
             verdict |-> Evaluate(sized.request, engine.profile, engine.limits, Seen(state),
                                  funding, correlation, Lacks)]

Construct(intents, tradable, market, state) ==
    LET inUniverse == {k \in tradable : intents[k].sym \in Range(engine.universe)}
        survivors == Survivors(intents, inUniverse)
    IN [r \in DOMAIN survivors |-> Judged(intents[survivors[r]], market, state)]

(* The verdicts a construction reached, with what there was to judge. *)
Verdicts(outcomes) ==
    {[open    |-> Cardinality(Open),
      stamps  |-> {outcomes[r].stamp, eventAt} \cup {orders[n].at : n \in Open},
      reasons |-> outcomes[r].verdict.reasons] :
     r \in {k \in DOMAIN outcomes : /\ outcomes[k].st = "judged"
                                    /\ \A j \in 1..k : outcomes[j].st # "raise"}}

Passes(outcome) == outcome.st = "judged" /\ outcome.verdict.decision = "APPROVED"
Approved(outcomes) ==
    LET upto[r \in 0..Len(outcomes)] ==
            IF r = 0 THEN <<>>
            ELSE IF Passes(outcomes[r]) THEN Append(upto[r - 1], outcomes[r].request)
            ELSE upto[r - 1]
    IN  upto[Len(outcomes)]

Tradable(intents) ==
    {k \in DOMAIN intents : <<intents[k].sym, intents[k].reduce>> \notin LiveOrderKeys}

(* The strategies speak, resting orders suppress, the rest is constructed. *)
(* live: the specifications the registry still approves.                   *)
Decide(live, market, others, state) ==
    LET universe == Range(engine.universe)
        stamped == [rate |-> market.rate, mark |-> market.mark,
                    at |-> [sym \in universe |-> StampOf(market, sym)]]
        pass == Evaluated(specs, live, lastAt, universe, now)
        evaluated == {specs[i] : i \in pass.ran}
    IN /\ phase = "booked"
       /\ \A k \in DOMAIN others : IntentOk(others[k])
       /\ lastAt' = pass.last
       /\ specs' = [i \in DOMAIN specs |-> IF i \in pass.ran
                                            THEN [specs[i] EXCEPT !.evalAt = now] ELSE specs[i]]
       /\ \E intents \in {GenerateIntents(evaluated, universe, stamped, now) \o others} :
            \E outcomes \in {Construct(intents, Tradable(intents), market, state)} :
              LET failed == pass.raised \/ \E r \in DOMAIN outcomes : outcomes[r].st = "raise"
              IN /\ todo' = IF failed THEN <<>> ELSE Approved(outcomes)
                 /\ phase' = IF failed THEN "idle" ELSE "placing"
                 /\ audit' = [NoAudit EXCEPT
                                 !.at = now, !.live = live, !.raised = pass.raised,
                                 !.verdicts = IF pass.raised THEN {} ELSE Verdicts(outcomes)]
       /\ UNCHANGED <<engine, now, orders, eventAt>>

(* execute_place and record_execution_levels; an error, here or at the     *)
(* venue, ends the cycle and leaves the rest unplaced.                     *)
NewOrder(q, sent) ==
    [sym |-> q.sym, side |-> q.side, reduce |-> q.reduce, quantity |-> sent.quantity,
     price |-> IF sent.price = None THEN q.entry ELSE sent.price,
     stopD |-> Modulus(Minus(q.entry, q.stop)), st |-> "live", at |-> -1]

PlaceNext ==
    LET q == Head(todo)
        sent == ExecutePlace(q, engine.rules)
    IN /\ phase = "placing" /\ todo # <<>>
       /\ sent.ok /\ Len(orders) < MaxOrders
       /\ orders' = Append(orders, NewOrder(q, sent))
       /\ todo' = Tail(todo)
       /\ audit' = [NoAudit EXCEPT !.sent = <<[asked |-> q, sent |-> sent]>>]
       /\ UNCHANGED <<engine, specs, now, lastAt, eventAt, phase>>

AbortCycle ==
    /\ phase = "placing" /\ todo # <<>>
    /\ phase' = "idle"
    /\ todo' = <<>>
    /\ audit' = NoAudit
    /\ UNCHANGED <<engine, specs, now, lastAt, orders, eventAt>>

(* The second sync. *)
EndCycle ==
    /\ phase = "placing" /\ todo = <<>>
    /\ orders' = Booked
    /\ eventAt' = IF Booked # orders THEN now ELSE eventAt
    /\ phase' = "idle"
    /\ audit' = NoAudit
    /\ UNCHANGED <<engine, specs, now, lastAt, todo>>

-----------------------------------------------------------------------------
(* Around the cycle *)

(* execute_amend of a resting order to another price. *)
Amend(n, price) ==
    LET asked == ExecuteAmend(orders[n], None, price, engine.rules)
    IN /\ engine.up /\ phase = "idle"
       /\ orders[n].st = "live"
       /\ asked.ok
       /\ orders' = [orders EXCEPT ![n].price = asked.price]
       /\ audit' = [NoAudit EXCEPT !.sent =
             <<[asked |-> [sym |-> orders[n].sym, side |-> orders[n].side,
                           quantity |-> orders[n].quantity, entry |-> price],
                sent  |-> [ok |-> TRUE, quantity |-> orders[n].quantity, price |-> asked.price]]>>]
       /\ UNCHANGED <<engine, specs, now, lastAt, eventAt, phase, todo>>

(* The venue fills an order, or cancels it. *)
VenueFills(n) ==
    /\ orders[n].st = "live"
    /\ orders' = [orders EXCEPT ![n].st = "filled"]
    /\ audit' = NoAudit
    /\ UNCHANGED <<engine, specs, now, lastAt, eventAt, phase, todo>>

VenueCancels(n) ==
    /\ orders[n].st = "live"
    /\ orders' = [orders EXCEPT ![n] = Ended]
    /\ audit' = NoAudit
    /\ UNCHANGED <<engine, specs, now, lastAt, eventAt, phase, todo>>

Tick ==
    /\ engine.up /\ phase = "idle" /\ now < MaxTime
    /\ now' = now + 1
    /\ audit' = NoAudit
    /\ UNCHANGED <<engine, specs, lastAt, orders, eventAt, phase, todo>>

CycleNext ==
    \/ \E l \in Launch : Boot(l)
    \/ BeginCycle
    \/ \E live \in SUBSET DOMAIN specs, market \in Market, others \in OtherIntents,
          state \in ExecState : Decide(live, market, others, state)
    \/ PlaceNext \/ AbortCycle \/ EndCycle
    \/ \E n \in DOMAIN orders, price \in NewPrice : Amend(n, price)
    \/ \E n \in DOMAIN orders : VenueFills(n) \/ VenueCancels(n)
    \/ Tick

CycleSpec == CycleInit /\ [][CycleNext]_cycleVars

-----------------------------------------------------------------------------
(* Properties *)

(* Entries the account answers for: held, filled but not booked, resting.  *)
Committed == {n \in DOMAIN orders : ~ orders[n].reduce /\ orders[n].st \in {"live", "filled", "booked"}}

(* However fills, cancels and cycles interleave, the entries the account   *)
(* answers for stay within max_positions - 1 plus two a symbol: requests   *)
(* of one cycle share a snapshot, and an order that fills after the books  *)
(* were read is neither open nor resting (construct_trade_requests,        *)
(* run_cycle).                                                             *)
BookIsBounded ==
    engine.up =>
      Cardinality(Committed) <= engine.profile.max_positions - 1 + 2 * Len(engine.universe)

(* What execute_place and execute_amend send is something, never more than *)
(* was approved and never at a worse price, whatever the sizing came to    *)
(* and the venue's grid is.                                                *)
NothingWorseIsSent ==
    \A k \in DOMAIN audit.sent :
      LET q == audit.sent[k].asked
          o == audit.sent[k].sent
      IN /\ Lt(Zero, o.quantity) /\ Leq(o.quantity, q.quantity)
         /\ o.price # None => IF q.side = "BUY" THEN Leq(o.price, q.entry) ELSE Leq(q.entry, o.price)

(* A price the venue takes: whole, or within both its limits. *)
Places(p) ==
    CHOOSE k \in 0..PriceMaxDecimals :
      Power(k) % p[2] = 0 /\ \A j \in 0..(k - 1) : Power(j) % p[2] # 0
OnGrid(p, decimals) == \E k \in 0..decimals : Power(k) % p[2] = 0
LegalPrice(p, sz) ==
    \/ p[2] = 1
    \/ /\ OnGrid(p, MaxPriceDecimals(sz))
       /\ Floor(Times(p, Num(Power(Places(p))))) < Power(PriceSigFigs)

Between(p, a, b) == (Lt(a, p) /\ Leq(p, b)) \/ (Leq(b, p) /\ Lt(p, a))

(* No price with the decimals, between the whole ones about entry, is a    *)
(* legal one nearer to it.                                                 *)
NearestLegal(price, entry, sz) ==
    LET unit == Power(MaxPriceDecimals(sz))
    IN /\ LegalPrice(price, sz)
       /\ \A c \in (Floor(entry) * unit)..(Ceiling(entry) * unit) :
            Between(Q(c, unit), price, entry) => ~ LegalPrice(Q(c, unit), sz)

(* A quantity the venue takes, and no larger one within what was asked.    *)
LargestFitting(quantity, asked, sz) ==
    LET unit == Power(sz)
    IN /\ OnGrid(quantity, sz)
       /\ \A c \in 0..(Ceiling(asked) * unit) :
            Leq(Q(c, unit), asked) => ~ Lt(quantity, Q(c, unit))

(* It is legal at the venue, by its decimals and its significant figures;  *)
(* no legal quantity lies between it and what was asked, and no legal      *)
(* price (quantize_size, quantize_price).                                  *)
NearestLegalIsSent ==
    \A k \in DOMAIN audit.sent :
      LET q == audit.sent[k].asked
          o == audit.sent[k].sent
      IN engine.rules # <<>> =>
           /\ LargestFitting(o.quantity, q.quantity, engine.rules[q.sym])
           /\ o.price # None => NearestLegal(o.price, q.entry, engine.rules[q.sym])

(* What goes out is the best legal order: no worse than what was approved, *)
(* and no further from it than the venue's grid demands (execute_place,    *)
(* execute_amend).                                                         *)
BestLegalIsSent == NothingWorseIsSent /\ NearestLegalIsSent

(* While equity is what the positions were sized by, the heat cap of an    *)
(* accepted configuration refuses no trade as long as the book has a free  *)
(* place, stacked fills included (_validate_risk_profile_params: "heat_cap *)
(* must leave real headroom above a fully-open book").                     *)
HeadroomHolds ==
    \A v \in audit.verdicts :
      v.open < engine.profile.max_positions => "PORTFOLIO_HEAT_EXCEEDED" \notin v.reasons

(* A live specification that shares its version with no other has been     *)
(* evaluated within its cadence when a pass ends (_is_due: "evaluated for  *)
(* the first time is always due").                                         *)
SpecsGetTheirTurn ==
    audit.at # -1 /\ ~ audit.raised =>
      \A i \in audit.live :
        (\A j \in DOMAIN specs : specs[j].version = specs[i].version => j = i)
          => specs[i].evalAt # -1 /\ audit.at - specs[i].evalAt < specs[i].cadence

(* An evaluation that fails safe on stale data was given data older than   *)
(* the limit.                                                              *)
StaleIsOld ==
    \A v \in audit.verdicts : "STALE_DATA" \in v.reasons =>
      \E t \in v.stamps : audit.at - t > engine.limits.max_stale_data_seconds
=============================================================================
