---------------------------- MODULE EngineConfig -----------------------------
(***************************************************************************)
(* How an engine comes to be: the TOML file (src/config/loader.py), the    *)
(* process environment (src/app/runtime/settings.py), the venue's metadata *)
(* (src/app/runtime/venue_rules.py) and what engine_builder.py makes of    *)
(* them.  A table is a function of the keys it holds, so a missing section *)
(* or field is one outside the domain.  A value of the wrong type is       *)
(* refused as a value out of range is, and is represented by one.          *)
(*                                                                         *)
(* A string is "" (empty or blank), "raw" (it looks like key material),    *)
(* "odd" (no reference a boundary accepts, no valid key) or a name.  A     *)
(* symbol is a number: positive in upper case, negative in lower case, 0   *)
(* blank.                                                                  *)
(***************************************************************************)
EXTENDS Numbers, FiniteSets, SequencesExt

SUPPORTED_ENVIRONMENTS == {"paper", "live"}
SUPPORTED_EXCHANGES == {"hyperliquid"}
SUPPORTED_NETWORKS == {"mainnet", "testnet"}
SUPPORTED_RISK_PROFILE_NAMES == {"GROWTH", "BALANCED", "CAPITAL_PRESERVATION"}
SUPPORTED_SIZING_MODES == {"fixed", "conviction_weighted", "vol_targeted"}
SUPPORTED_LOG_LEVELS == {"DEBUG", "INFO", "WARNING", "ERROR", "CRITICAL"}

Get(table, field, default) == IF field \in DOMAIN table THEN table[field] ELSE default

-----------------------------------------------------------------------------
(* _validate: every issue is collected, under the name of its field. *)

IsFraction(x) == x # None /\ Lt(Zero, x) /\ Leq(x, One)
IsPositive(x) == x # None /\ Lt(Zero, x)
IsNonnegative(x) == x # None /\ Leq(Zero, x)
IsText(s) == s # ""
LooksLikeRawSecret(s) == s = "raw"

(* The fields of a table whose values, None if missing, are not Ok. *)
Bad(table, fields, Ok(_)) == {f \in fields : ~ Ok(Get(table, f, None))}
BadText(table, fields, Ok(_)) == {f \in fields : ~ Ok(Get(table, f, ""))}

ValidateEnvironment(t) == BadText(t, {"mode"}, LAMBDA v : v \in SUPPORTED_ENVIRONMENTS)

ValidateExchange(t) ==
    BadText(t, {"name"}, LAMBDA v : v \in SUPPORTED_EXCHANGES)
      \cup BadText(t, {"network"}, LAMBDA v : v \in SUPPORTED_NETWORKS)

ValidateUniverse(t) ==
    LET symbols == Get(t, "symbols", <<>>)
        range == {symbols[i] : i \in DOMAIN symbols}
        sound == symbols # <<>> /\ 0 \notin range
        unique == Cardinality(range) = Len(symbols)
        upper == \A s \in range : s > 0
    IN IF sound /\ unique /\ upper THEN {} ELSE {"symbols"}

(* Slip: the cap is not compared with what a full book risks. *)
ValidateRiskProfileUncapped(p) ==
    Bad(p, {"risk_pct_per_trade", "heat_cap"}, IsFraction)
      \cup Bad(p, {"max_positions"}, LAMBDA n : IsPositive(n) /\ n[2] = 1)
      \cup BadText(p, {"sizing_mode"}, LAMBDA v : v \in SUPPORTED_SIZING_MODES)
      \cup Bad(p, {"ruin_threshold"}, LAMBDA x : IsFraction(x) /\ x # One)

(* The cap is compared with a product of floats. *)
ValidateRiskProfile(p) ==
    LET plain == Bad(p, {"risk_pct_per_trade", "heat_cap"}, IsFraction)
                   \cup Bad(p, {"max_positions"}, LAMBDA n : IsPositive(n) /\ n[2] = 1)
        headroom == Lt(Binary(Times(p.max_positions, Binary(p.risk_pct_per_trade))),
                       Binary(p.heat_cap))
    IN plain
         \cup (IF plain = {} /\ ~ headroom THEN {"heat_cap"} ELSE {})
         \cup BadText(p, {"sizing_mode"}, LAMBDA v : v \in SUPPORTED_SIZING_MODES)
         \cup Bad(p, {"ruin_threshold"}, LAMBDA x : IsFraction(x) /\ x # One)

ValidateRisk(t) ==
    LET active == Get(t, "profile", "")
        profiles == Get(t, "profiles", <<>>)
        flatten == Get(t, "auto_flatten_enabled", "")
        confirm == Get(t, "auto_flatten_confirmation_seconds", None)
    IN {x \in {"profile"} : active \notin SUPPORTED_RISK_PROFILE_NAMES \cap DOMAIN profiles}
         \cup {x \in {"profiles"} : DOMAIN profiles = {}}
         \cup UNION {ValidateRiskProfile(profiles[n]) : n \in DOMAIN profiles}
         \cup Bad(t, {"max_daily_loss_pct", "max_drawdown_from_peak_pct"}, IsFraction)
         \cup {x \in {"auto_flatten_enabled"} : flatten \notin {"true", "false"}}
         \cup {x \in {"auto_flatten_confirmation_seconds"} :
                 ~ IsNonnegative(confirm) \/ (flatten = "true" /\ confirm = Zero)}

ValidateOperational(t) ==
    LET base == Get(t, "retry_base_delay_seconds", None)
        most == Get(t, "retry_max_delay_seconds", None)
    IN Bad(t, {"max_retries"}, LAMBDA n : IsNonnegative(n) /\ n[2] = 1)
         \cup Bad(t, {"retry_base_delay_seconds", "retry_max_delay_seconds",
                      "clock_drift_tolerance_ms", "data_staleness_price_ms",
                      "data_staleness_orderbook_ms", "data_staleness_position_ms"}, IsPositive)
         \cup {x \in {"retry_base_delay_seconds"} :
                 IsPositive(base) /\ IsPositive(most) /\ Lt(most, base)}

ValidateSecrets(t) ==
    BadText(t, {"signing_key_ref", "telegram_bot_token_ref"} \cup ({"wallet_key_ref"} \cap DOMAIN t),
            LAMBDA v : IsText(v) /\ ~ LooksLikeRawSecret(v))

ValidateTelegram(t) ==
    BadText(t, {"enabled"}, LAMBDA v : v \in {"true", "false"})
      \cup {x \in {"chat_id"} : Get(t, "enabled", "") = "true" /\ ~ IsText(Get(t, "chat_id", ""))}

ValidateLogging(t) ==
    BadText(t, {"level"}, LAMBDA v : v \in SUPPORTED_LOG_LEVELS)
      \cup BadText(t, {"directory"}, IsText)

Section(raw, name, Check(_)) ==
    IF name \notin DOMAIN raw THEN {<<name>>}
                              ELSE {<<name, f>> : f \in Check(raw[name])}

Validate(raw) ==
    Section(raw, "environment", ValidateEnvironment)
      \cup Section(raw, "exchange", ValidateExchange)
      \cup Section(raw, "universe", ValidateUniverse)
      \cup Section(raw, "risk", ValidateRisk)
      \cup Section(raw, "operational", ValidateOperational)
      \cup Section(raw, "secrets", ValidateSecrets)
      \cup Section(raw, "telegram", ValidateTelegram)
      \cup Section(raw, "logging", ValidateLogging)

-----------------------------------------------------------------------------
(* load_config.  The environment may replace the mode and the references, *)
(* creating the section if the file has none.                              *)

With(table, field, value) ==
    [f \in DOMAIN table \cup {field} |-> IF f = field THEN value ELSE table[f]]

Overridden(raw, section, field, env) ==
    IF field \in DOMAIN env
    THEN With(raw, section, With(Get(raw, section, <<>>), field, env[field]))
    ELSE raw

ApplyEnvOverrides(raw, env) ==
    LET mode == Overridden(raw, "environment", "mode", env)
        signing == Overridden(mode, "secrets", "signing_key_ref", env)
        telegram == Overridden(signing, "secrets", "telegram_bot_token_ref", env)
    IN Overridden(telegram, "secrets", "wallet_key_ref", env)

(* _build, as far as an engine reads it: fractions become floats. *)
Build(raw) ==
    LET p == raw.risk.profiles[raw.risk.profile]
    IN [environment |-> raw.environment.mode,
        network     |-> raw.exchange.network,
        symbols     |-> raw.universe.symbols,
        signing     |-> raw.secrets.signing_key_ref,
        wallet      |-> Get(raw.secrets, "wallet_key_ref", ""),
        profile     |-> [risk_pct_per_trade |-> Float(p.risk_pct_per_trade),
                         max_positions      |-> p.max_positions[1],
                         sizing_mode        |-> p.sizing_mode,
                         heat_cap           |-> Float(p.heat_cap)]]

(* file: whether it could be read and parsed, and the table it holds. *)
LoadConfig(file, env) ==
    LET raw == ApplyEnvOverrides(file.table, env)
        issues == IF file.readable THEN Validate(raw) ELSE {<<"file">>}
    IN IF issues = {} THEN [ok |-> TRUE, issues |-> {}, config |-> Build(raw)]
                      ELSE [ok |-> FALSE, issues |-> issues]
=============================================================================
