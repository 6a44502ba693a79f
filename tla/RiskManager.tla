----------------------------- MODULE RiskManager -----------------------------
(***************************************************************************)
(* From an intent to an order: sizing (src/trading_system/sizing), the     *)
(* veto (src/risk_manager) and the venue's grid (src/trading_system/       *)
(* execution).  All of it is pure; TradingCycle runs it.                   *)
(*                                                                         *)
(* An intent or a request is a record with the source's field names where  *)
(* the decision reads them: sym, side, type, tif, reduce, stop, conv,      *)
(* limit.  Times are whole numbers.                                        *)
(***************************************************************************)
EXTENDS Numbers, FiniteSets, SequencesExt

CONSTANTS PriceSigFigs,    \* PRICE_SIG_FIGS (5)
          PriceMaxDecimals \* PRICE_MAX_DECIMALS (6)

ASSUME GridAssumption == PriceSigFigs \in Nat \ {0} /\ PriceMaxDecimals \in Nat

(* TradeIntent.__post_init__ *)
IntentOk(i) ==
    /\ Lt(Zero, i.stop)
    /\ i.conv # None => Leq(Modulus(i.conv), One)
    /\ \A p \in {i.limit, i.t1, i.t2} \ {None} : Lt(Zero, p)

-----------------------------------------------------------------------------
(* size_intent: a request, a skip (SizingError, which the constructor      *)
(* catches) or a raise (TradeRequest.__post_init__, which it does not).    *)

SizingInputsOk(equity, price, mmr, leverage) ==
    /\ Lt(Zero, equity)
    /\ Lt(Zero, price)
    /\ Leq(Zero, mmr) /\ Lt(mmr, One)
    /\ Lt(Zero, leverage)

ModeInputsOk(i, mode, volatility) ==
    /\ mode = "conviction_weighted" => i.conv # None
    /\ mode = "vol_targeted" => volatility # None /\ Lt(Zero, volatility)

RiskAmount(i, equity, profile) ==
    LET full == Times(equity, profile.risk_pct_per_trade.text)
    IN IF profile.sizing_mode = "conviction_weighted" THEN Times(full, Modulus(i.conv)) ELSE full

Distance(i, entry, mode, volatility) ==
    IF mode = "vol_targeted" THEN Times(entry, volatility) ELSE Modulus(Minus(entry, i.stop))

EstimatedLiquidationPrice(side, entry, mmr, leverage) ==
    LET swing == Minus(Over(One, leverage), mmr)
    IN Times(entry, IF side = "BUY" THEN Minus(One, swing) ELSE Plus(One, swing))

SizeIntent(i, equity, profile, current, mmr, leverage, volatility) ==
    LET entry == IF i.limit # None THEN i.limit ELSE current
        mode == profile.sizing_mode
        risk == RiskAmount(i, equity, profile)
        distance == Distance(i, entry, mode, volatility)
        quantity == Over(risk, distance)
        notional == Times(quantity, entry)
    IN IF \/ ~ SizingInputsOk(equity, current, mmr, leverage)
          \/ ~ ModeInputsOk(i, mode, volatility)
          \/ ~ Lt(Zero, distance)
       THEN [st |-> "skip"]
       ELSE IF risk = Zero THEN [st |-> "raise"]
       ELSE [st |-> "sized",
             request |-> [sym |-> i.sym, side |-> i.side, type |-> i.type, tif |-> i.tif,
                          reduce |-> i.reduce, quantity |-> quantity, entry |-> entry,
                          stop |-> i.stop, risk |-> risk, notional |-> notional,
                          margin |-> Over(notional, leverage), leverage |-> leverage,
                          liquidation |-> EstimatedLiquidationPrice(i.side, entry, mmr, leverage)]]

-----------------------------------------------------------------------------
(* RiskManager.evaluate.  seen: what the cycle captured before the first   *)
(* request: the time, the execution state, the ledger, the open positions. *)

BlockingStates == {"SOFT_KILL", "HARD_KILL", "EMERGENCY_KILL", "STOPPED"}

(* A reading from after the evaluation counts as stale. *)
Stale(at, stamp, limits) == at - stamp < 0 \/ at - stamp > limits.max_stale_data_seconds

Timestamps(seen, funding, correlation) ==
    {seen.ledger.at, funding.at, correlation.at} \cup {seen.positions[p].at : p \in DOMAIN seen.positions}

FailSafeReasons(limits, seen, funding, correlation) ==
    {r \in {"STALE_DATA"} : \E t \in Timestamps(seen, funding, correlation) : Stale(seen.at, t, limits)}
      \cup {r \in {"NON_POSITIVE_EQUITY"} : ~ Lt(Zero, seen.ledger.equity)}

LiquidationBuffer(q) ==
    IF q.side = "BUY" THEN Minus(q.stop, q.liquidation) ELSE Minus(q.liquidation, q.stop)

(* Features the venue lacks, by name. *)
CapabilityViolation(q, lacks) ==
    \/ q.type \in lacks
    \/ q.reduce /\ "reduce_only" \in lacks
    \/ q.tif \in lacks

(* A fraction of the profile is a float and is compared as one. *)
Violations(q, profile, limits, seen, funding, correlation, lacks) ==
    LET heat == Over(q.risk, seen.ledger.equity)
        buffer == Times(limits.min_liquidation_buffer_pct, Modulus(Minus(q.entry, q.stop)))
        cost == IF q.side = "BUY" THEN funding.rate ELSE Minus(Zero, funding.rate)
        correlated == {e \in correlation.entries : Leq(Q(1, 2), Modulus(e.correlation))}
    IN {r \in {"RISK_PER_TRADE_EXCEEDED"} : Lt(profile.risk_pct_per_trade.exact, heat)}
         \cup {r \in {"PORTFOLIO_HEAT_EXCEEDED"} :
                 Lt(profile.heat_cap.exact, Plus(seen.ledger.heat, heat))}
         \cup {r \in {"MAX_POSITIONS_EXCEEDED"} :
                 Cardinality(DOMAIN seen.positions) >= profile.max_positions}
         \cup {r \in {"INSUFFICIENT_MARGIN"} : Lt(seen.ledger.cash, q.margin)}
         \cup {r \in {"LEVERAGE_EXCEEDED"} : Lt(limits.max_leverage, q.leverage)}
         \cup {r \in {"LIQUIDATION_TOO_CLOSE"} : Lt(LiquidationBuffer(q), buffer)}
         \cup {r \in {"FUNDING_RATE_TOO_HIGH"} : Lt(limits.max_funding_rate_abs, cost)}
         \cup {r \in {"CORRELATION_LIMIT_EXCEEDED"} :
                 Cardinality(correlated) > limits.max_correlated_positions}
         \cup {r \in {"EXCHANGE_CAPABILITY_UNSUPPORTED"} : CapabilityViolation(q, lacks)}

Evaluate(q, profile, limits, seen, funding, correlation, lacks) ==
    LET unsafe == FailSafeReasons(limits, seen, funding, correlation)
        broken == Violations(q, profile, limits, seen, funding, correlation, lacks)
    IN IF seen.state \in BlockingStates THEN [decision |-> "BLOCKED", reasons |-> {seen.state}]
       ELSE IF unsafe # {} THEN [decision |-> "FAIL_SAFE", reasons |-> unsafe]
       ELSE IF broken # {} THEN [decision |-> "REJECTED", reasons |-> broken]
       ELSE [decision |-> "APPROVED", reasons |-> {"OK"}]

-----------------------------------------------------------------------------
(* fetch_hyperliquid_rules.  An answer is a sequence of assets, each with  *)
(* a name (0 if it has none) and its size decimals; no answer is empty.    *)

RulesOk(meta) ==
    /\ meta # <<>>
    /\ \A i \in DOMAIN meta : meta[i].name # 0 /\ meta[i].szDecimals \in 0..PriceMaxDecimals

FetchRules(meta) ==
    [name \in {meta[i].name : i \in DOMAIN meta} |->
       meta[CHOOSE i \in DOMAIN meta :
              /\ meta[i].name = name
              /\ \A j \in DOMAIN meta : meta[j].name = name => j <= i].szDecimals]

(* The grid: sizes round down, prices never to the worse side. *)

MaxPriceDecimals(szDecimals) == PriceMaxDecimals - szDecimals

(* The multiple of 1 / Power(k) next to x. *)
Down(x, k) == Q(Floor(Times(x, Num(Power(k)))), Power(k))
Up(x, k) == Q(Ceiling(Times(x, Num(Power(k)))), Power(k))

QuantizeSize(quantity, szDecimals) == Down(quantity, szDecimals)

(* Slip: the significant figures are not counted. *)
QuantizePriceCapped(price, side, szDecimals) ==
    IF side = "BUY" THEN Down(price, MaxPriceDecimals(szDecimals))
                    ELSE Up(price, MaxPriceDecimals(szDecimals))

(* Places kept: significant figures, the decimals cap, never below 0. *)
QuantizePrice(price, side, szDecimals) ==
    LET bySigFigs == (PriceSigFigs - 1) - Adjusted(price)
        fewer == IF bySigFigs < MaxPriceDecimals(szDecimals) THEN bySigFigs
                                                             ELSE MaxPriceDecimals(szDecimals)
        places == IF fewer < 0 THEN 0 ELSE fewer
    IN IF price[2] = 1 THEN price
       ELSE IF side = "BUY" THEN Down(price, places) ELSE Up(price, places)

(* execute_place: the order, or a refusal with nothing recorded. *)
ExecutePlace(q, rules) ==
    LET sz == rules[q.sym]
        quantity == IF rules = <<>> THEN q.quantity ELSE QuantizeSize(q.quantity, sz)
        price == IF q.type # "LIMIT" THEN None
                 ELSE IF rules = <<>> THEN q.entry ELSE QuantizePrice(q.entry, q.side, sz)
    IN IF \/ rules # <<>> /\ q.sym \notin DOMAIN rules
          \/ ~ Lt(Zero, quantity)
          \/ price # None /\ ~ Lt(Zero, price)
       THEN [ok |-> FALSE]
       ELSE [ok |-> TRUE, quantity |-> quantity, price |-> price]

(* execute_amend: what an amendment asks of the venue. *)
ExecuteAmend(order, quantity, price, rules) ==
    LET q == IF rules = <<>> \/ quantity = None THEN quantity
             ELSE QuantizeSize(quantity, rules[order.sym])
        p == IF rules = <<>> \/ price = None THEN price
             ELSE QuantizePrice(price, order.side, rules[order.sym])
    IN IF \/ rules # <<>> /\ order.sym \notin DOMAIN rules
          \/ q # None /\ ~ Lt(Zero, q)
          \/ p # None /\ ~ Lt(Zero, p)
          \/ q = None /\ p = None
       THEN [ok |-> FALSE]
       ELSE [ok |-> TRUE, quantity |-> q, price |-> p]
=============================================================================
