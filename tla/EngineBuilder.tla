---------------------------- MODULE EngineBuilder ----------------------------
(***************************************************************************)
(* AppState.create: settings from the environment, the configuration, the  *)
(* engine that composition_root wires, and the venue's quantization rules. *)
(* Any step may refuse; a refusal after the event store was opened closes  *)
(* it, or a corrected retry could never take its lock.                     *)
(*                                                                         *)
(* An environment maps the variables that are set to a text, a number or,  *)
(* where a number is asked for and none can be parsed, None.               *)
(***************************************************************************)
EXTENDS EngineConfig, RiskManager

-----------------------------------------------------------------------------
(* AppSettings.from_env *)

IntDefaults ==
    [PORT |-> Num(8000), CYCLE_INTERVAL_SECONDS |-> Num(60),
     RISK_MAX_CORRELATED_POSITIONS |-> Num(3), RISK_MAX_STALE_DATA_SECONDS |-> Num(150)]

DecimalDefaults ==
    [CYCLE_MAINTENANCE_MARGIN_RATE |-> Q(5, 1000), CYCLE_TARGET_LEVERAGE |-> One,
     PORTFOLIO_INITIAL_DEPOSIT |-> Zero, RISK_MAX_LEVERAGE |-> Num(10),
     RISK_MIN_LIQ_BUFFER_PCT |-> Q(1, 10), RISK_MAX_FUNDING_RATE_ABS |-> Q(5, 100)]

Setting(env, defaults, key) == Get(env, key, defaults[key])
IntSetting(env, key) == Setting(env, IntDefaults, key)
DecimalSetting(env, key) == Setting(env, DecimalDefaults, key)

SettingsOk(env) ==
    /\ \A key \in DOMAIN IntDefaults :
         IntSetting(env, key) # None /\ IntSetting(env, key)[2] = 1
    /\ \A key \in DOMAIN DecimalDefaults : DecimalSetting(env, key) # None
    /\ Get(env, "TELEGRAM_ENABLED", "false") = "true" =>
         IsText(Get(env, "TELEGRAM_BOT_TOKEN", "")) /\ IsText(Get(env, "TELEGRAM_CHAT_ID", ""))
    /\ Lt(IntSetting(env, "CYCLE_INTERVAL_SECONDS"), IntSetting(env, "RISK_MAX_STALE_DATA_SECONDS"))

RiskLimits(env) ==
    [max_leverage               |-> DecimalSetting(env, "RISK_MAX_LEVERAGE"),
     min_liquidation_buffer_pct |-> DecimalSetting(env, "RISK_MIN_LIQ_BUFFER_PCT"),
     max_funding_rate_abs       |-> DecimalSetting(env, "RISK_MAX_FUNDING_RATE_ABS"),
     max_correlated_positions   |-> IntSetting(env, "RISK_MAX_CORRELATED_POSITIONS")[1],
     max_stale_data_seconds     |-> IntSetting(env, "RISK_MAX_STALE_DATA_SECONDS")[1]]

(* RiskManagerLimits.__post_init__ *)
LimitsOk(limits) ==
    /\ Lt(Zero, limits.max_leverage)
    /\ Leq(Zero, limits.min_liquidation_buffer_pct)
    /\ Leq(Zero, limits.max_funding_rate_abs)
    /\ limits.max_correlated_positions >= 0
    /\ limits.max_stale_data_seconds > 0

-----------------------------------------------------------------------------
(* build_engine *)

(* validate_and_load: each reference is a variable that holds something.   *)
SecretLoads(env, ref) == IsText(Get(env, ref, ""))

(* SigningBoundary: a well-formed reference, a domain and the secret. *)
BoundaryOk(config, env) ==
    /\ config.signing # "odd"
    /\ IsText(Get(env, "TURTLE_ENGINE_VERSION", "1.0.0"))
    /\ SecretLoads(env, config.signing)

(* HyperliquidWalletSigner: the reference resolves to a valid key. *)
WalletOk(env, ref) == SecretLoads(env, ref) /\ env[ref] # "odd"

AccountAddress(env) == Get(env, "TURTLE_DEPLOYMENT_ACCOUNT_ADDRESS", "")

(* _build_adapter: the signer's network is derived from the configuration. *)
Adapter(config, env) ==
    IF config.environment # "live" THEN [ok |-> TRUE, venue |-> "mock", signer |-> "none"]
    ELSE [ok     |-> config.wallet = "" \/ WalletOk(env, config.wallet),
          venue  |-> config.network,
          signer |-> IF config.wallet = "" THEN "none" ELSE config.network]

EngineBuilds(config, env) ==
    /\ config.environment \in SUPPORTED_ENVIRONMENTS
    /\ config.environment = "live" => IsText(AccountAddress(env))
    /\ BoundaryOk(config, env)
    /\ Adapter(config, env).ok

-----------------------------------------------------------------------------
(* AppState.create: the engine, or why there is none.  given: rules the    *)
(* caller hands in.                                                        *)

Refused(why) == [up |-> FALSE, why |-> why]

Create(file, env, meta, given) ==
    LET loaded == LoadConfig(file, env)
        config == loaded.config
        live == config.environment = "live"
    IN IF ~ SettingsOk(env) THEN Refused("settings")
       ELSE IF ~ loaded.ok THEN Refused("config")
       ELSE IF ~ LimitsOk(RiskLimits(env)) THEN Refused("limits")
       ELSE IF ~ EngineBuilds(config, env) THEN Refused("engine")
       ELSE IF live /\ ~ RulesOk(meta) THEN Refused("rules")
       ELSE [up       |-> TRUE,
             live     |-> live,
             universe |-> config.symbols,
             profile  |-> config.profile,
             limits   |-> RiskLimits(env),
             mmr      |-> DecimalSetting(env, "CYCLE_MAINTENANCE_MARGIN_RATE"),
             leverage |-> DecimalSetting(env, "CYCLE_TARGET_LEVERAGE"),
             deposit  |-> DecimalSetting(env, "PORTFOLIO_INITIAL_DEPOSIT"),
             rules    |-> IF given # <<>> THEN given
                          ELSE IF live THEN FetchRules(meta) ELSE <<>>]
=============================================================================
