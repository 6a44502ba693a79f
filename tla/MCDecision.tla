----------------------------- MODULE MCDecision ------------------------------
(* A small instance of TradingCycle for TLC. *)
EXTENDS TradingCycle

Profile(mode) ==
    [risk_pct_per_trade |-> Q(1, 4), max_positions |-> Num(2), sizing_mode |-> mode,
     heat_cap |-> Q(6, 10), ruin_threshold |-> Q(1, 2)]

Table(mode) ==
    [environment |-> [mode |-> "paper"],
     exchange    |-> [name |-> "hyperliquid", network |-> "testnet"],
     universe    |-> [symbols |-> <<1, 2>>],
     risk        |-> [profile |-> "BALANCED", profiles |-> [BALANCED |-> Profile(mode)],
                      max_daily_loss_pct |-> Q(1, 10), max_drawdown_from_peak_pct |-> Q(1, 4),
                      auto_flatten_enabled |-> "true", auto_flatten_confirmation_seconds |-> One],
     operational |-> [max_retries |-> Zero, retry_base_delay_seconds |-> One,
                      retry_max_delay_seconds |-> One, clock_drift_tolerance_ms |-> One,
                      data_staleness_price_ms |-> One, data_staleness_orderbook_ms |-> One,
                      data_staleness_position_ms |-> One],
     secrets     |-> [signing_key_ref |-> "key", telegram_bot_token_ref |-> "bot"],
     telegram    |-> [enabled |-> "false"],
     logging     |-> [level |-> "INFO", directory |-> "logs"]]

Env ==
    ("key" :> "secret") @@ ("CYCLE_INTERVAL_SECONDS" :> One) @@ ("RISK_MAX_STALE_DATA_SECONDS" :> Num(2))
      @@ ("CYCLE_TARGET_LEVERAGE" :> Num(4)) @@ ("PORTFOLIO_INITIAL_DEPOSIT" :> Num(16))

Meta == << [name |-> 1, szDecimals |-> 0], [name |-> 2, szDecimals |-> 1] >>

Specification(version, universe, cadence, threshold, convention) ==
    [version |-> version, universe |-> universe, cadence |-> cadence, threshold |-> threshold,
     convention |-> convention, owned |-> TRUE, stop |-> Q(1, 5), t1 |-> Q(1, 2), t2 |-> None,
     evalAt |-> -1]

Slow == Specification(1, <<1, 2>>, 2, Q(1, 1000), "contrarian")
Quick == Specification(2, <<2>>, 1, Q(1, 1000), "momentum")
Twin == Specification(1, <<2>>, 1, Q(1, 1000), "momentum")
Broken == Specification(3, <<1>>, 1, None, "contrarian")

Start(table, env, meta, rules, held) ==
    [file |-> [readable |-> TRUE, table |-> table], env |-> env, meta |-> meta, rules |-> rules,
     specs |-> held, watchlist |-> {1, 2}]

Without(t, section, field) == [t EXCEPT ![section] = [f \in DOMAIN @ \ {field} |-> @[f]]]
Having(t, section, field, value) == [t EXCEPT ![section] = With(@, field, value)]
Plain == Table("fixed")

(* One fault each. *)
FaultyTables ==
    {[s \in DOMAIN Plain \ {section} |-> Plain[s]] : section \in DOMAIN Plain}
      \cup {Without(Plain, "risk", "profiles"), Without(Plain, "secrets", "signing_key_ref"),
            Having(Plain, "universe", "symbols", <<1, 1>>), Having(Plain, "universe", "symbols", <<-1>>),
            Having(Plain, "risk", "profile", "GROWTH"),
            Having(Plain, "risk", "profiles", [BALANCED |-> [Profile("fixed") EXCEPT !.heat_cap = Q(1, 2)]]),
            Having(Plain, "risk", "profiles", [BALANCED |-> [Profile("fixed") EXCEPT !.heat_cap = Q(2, 5)]]),
            Having(Plain, "risk", "auto_flatten_confirmation_seconds", Zero),
            Having(Plain, "operational", "retry_base_delay_seconds", Num(2)),
            Having(Plain, "secrets", "wallet_key_ref", "raw"),
            Having(Plain, "telegram", "enabled", "true"),
            Having(Plain, "exchange", "network", "devnet")}

FaultyEnvs ==
    {With(Env, "CYCLE_INTERVAL_SECONDS", Num(2)), With(Env, "PORT", None), With(Env, "TELEGRAM_ENABLED", "true"),
     With(Env, "RISK_MAX_LEVERAGE", Zero), With(Env, "key", ""), With(Env, "mode", "live"),
     With(With(Env, "signing_key_ref", "odd"), "odd", "secret"), With(Env, "TURTLE_ENGINE_VERSION", "")}

LiveEnv == With(With(Env, "mode", "live"), "TURTLE_DEPLOYMENT_ACCOUNT_ADDRESS", "0x1")

Small ==
    Having(Having(Plain, "universe", "symbols", <<1>>), "risk", "profiles",
           [BALANCED |-> [Profile("fixed") EXCEPT !.max_positions = One]])

Launches ==
    {Start(Small, Env, <<>>, <<>>, <<Slow>>),
     Start(Plain, Env, <<>>, <<0, 1>>, <<Slow, Quick>>),
     Start(Table("conviction_weighted"), Env, <<>>, <<>>, <<Quick>>),
     Start(Table("vol_targeted"), Env, <<>>, <<>>, <<Slow, Twin>>),
     Start(Plain, LiveEnv, Meta, <<>>, <<Quick, Broken>>)}
      \cup {Start(t, Env, <<>>, <<>>, <<Slow>>) : t \in FaultyTables}
      \cup {Start(Plain, e, <<>>, <<>>, <<Slow>>) : e \in FaultyEnvs}
      \cup {Start(Plain, With(LiveEnv, "wallet_key_ref", "wallet") @@ k, Meta, <<>>, <<Slow>>) :
              k \in {"wallet" :> "", "wallet" :> "odd"}}
      \cup {Start(Plain, LiveEnv, m, <<>>, <<Slow>>) :
              m \in {<<>>, <<[name |-> 0, szDecimals |-> 0]>>, <<[name |-> 1, szDecimals |-> 9]>>}}

Read(rates, marks, ages) == [rate |-> rates, mark |-> marks, age |-> ages]
Markets ==
    {Read(<<Q(1, 100), Q(1, 100)>>, <<Q(5, 4), Q(247, 2)>>, <<0, 1>>),
     Read(<<Q(-1, 100), None>>, <<Q(5, 4), None>>, <<0, 3>>)}

Wish(sym, side, type, tif, reduce, stop, conv, limit) ==
    [sym |-> sym, side |-> side, type |-> type, tif |-> tif, reduce |-> reduce, stop |-> stop,
     conv |-> conv, limit |-> limit, t1 |-> None, t2 |-> None]

Wishes ==
    {<<>>,
     <<Wish(2, "BUY", "MARKET", "IOC", FALSE, Num(100), Q(-1, 2), None),
       Wish(1, "BUY", "LIMIT", "GTC", FALSE, One, One, Q(5, 4)),
       Wish(1, "BUY", "LIMIT", "GTC", FALSE, One, Q(1, 2), Q(3, 2))>>,
     <<Wish(3, "BUY", "MARKET", "IOC", FALSE, One, One, None),
       Wish(2, "BUY", "LIMIT", "FOK", FALSE, Num(100), Zero, Q(247, 2)),
       Wish(1, "SELL", "MARKET", "IOC", TRUE, Q(3, 2), One, None)>>}

(* A live engine. *)
LiveLaunches == {Start(Plain, LiveEnv, Meta, <<>>, <<Quick>>)}

Amendments == {Q(127, 100)}
Unsupported == {"FOK"}
States == {"READY", "HARD_KILL"}
Versions == 1..3
=============================================================================
