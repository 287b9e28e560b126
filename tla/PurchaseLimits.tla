--------------------------- MODULE PurchaseLimits ---------------------------
(***************************************************************************)
(* Purchase limits: the admin's configuration, tier multipliers,           *)
(* exemptions and each buyer's running counters.                           *)
(*                                                                         *)
(* A limit of 0 means "no limit".  The weekly and monthly value limits and *)
(* the value multiplier are stored by the code and read by no check, so    *)
(* they are left out, as are the window starts: no code moves them and no  *)
(* counter is ever reset by the passing of time.                           *)
(***************************************************************************)
EXTENDS Eligibility, Integers

CONSTANTS
  MaxU32,           \* u32::MAX
  LimitConfigs,     \* records passed to set_purchase_limits
  Multipliers,      \* daily_shares_multiplier values passed to set_tier_limits
  ExemptSettings    \* values passed to set_limit_exempt

BasisPoints == 10000
Periods == 1..3     \* 1 daily, 2 weekly, 3 monthly

LimitConfig ==
  [enabled : BOOLEAN, perBuy : Nat, perBuyValue : Nat,
   dailyValue : Nat, shares : [Periods -> Nat]]

NoLimits ==
  [enabled |-> FALSE, perBuy |-> 0, perBuyValue |-> 0,
   dailyValue |-> 0, shares |-> [p \in Periods |-> 0]]

ASSUME LimitsAssumption ==
  /\ MaxU32 \in Nat \ {0}
  /\ LimitConfigs \subseteq LimitConfig
  /\ Multipliers \subseteq Nat
  /\ ExemptSettings \subseteq BOOLEAN

VARIABLES
  limits,           \* DataKey::PurchaseLimitConfig
  multiplier,       \* TierLimits(tier).daily_shares_multiplier, in basis points
  exempt,           \* addresses with DataKey::LimitExempt
  bought,           \* UserPurchaseHistory: shares per period and address
  spent             \* UserPurchaseHistory.daily_value per address

limitVars == <<limits, multiplier, exempt, bought, spent>>

LimitsTypeOK ==
  /\ limits \in LimitConfig
  /\ multiplier \in [1..2 -> Nat]
  /\ exempt \subseteq Holders
  /\ bought \in [Periods -> [Holders -> Nat]]
  /\ spent \in [Holders -> Nat]

LimitsInit ==
  /\ limits = NoLimits
  /\ multiplier = [t \in 1..2 |-> BasisPoints]
  /\ exempt = {}
  /\ bought = [p \in Periods |-> [h \in Holders |-> 0]]
  /\ spent = [h \in Holders |-> 0]

-----------------------------------------------------------------------------
Multiplier(b) == IF tier[b] = 0 THEN BasisPoints ELSE multiplier[tier[b]]

Scaled(limit, b) == (limit * Multiplier(b)) \div BasisPoints

Within(x, limit) == limit = 0 \/ x <= limit

Limited(b) == limits.enabled /\ b \notin exempt

(* The checks of _validate_purchase_limits. *)
PurchaseAllowed(b, n, cost) ==
  Limited(b) =>
    /\ Within(n, limits.perBuy)
    /\ Within(cost, limits.perBuyValue)
    /\ Within(spent[b] + cost, Scaled(limits.dailyValue, b))
    /\ \A p \in Periods : Within(bought[p][b] + n, Scaled(limits.shares[p], b))

(* The counters are u32 and added to without a check: Cargo.toml leaves    *)
(* overflow checks off in a release build.                                 *)
Wrapped(x) == x % (MaxU32 + 1)

(* Mutant of RecordPurchase: only the daily counter moves. *)
RecordDailyPurchase(b, n, cost) ==
  /\ bought' = IF Limited(b) THEN [bought EXCEPT ![1][b] = Wrapped(@ + n)] ELSE bought
  /\ spent' = IF Limited(b) THEN [spent EXCEPT ![b] = @ + cost] ELSE spent
  /\ UNCHANGED <<limits, multiplier, exempt>>

(* The history _update_purchase_history stores after a purchase. *)
RecordPurchase(b, n, cost) ==
  /\ bought' = IF Limited(b)
               THEN [p \in Periods |-> [bought[p] EXCEPT ![b] = Wrapped(@ + n)]]
               ELSE bought
  /\ spent' = IF Limited(b) THEN [spent EXCEPT ![b] = @ + cost] ELSE spent
  /\ UNCHANGED <<limits, multiplier, exempt>>

-----------------------------------------------------------------------------
SetPurchaseLimits(config) ==
  /\ limits' = config
  /\ UNCHANGED <<multiplier, exempt, bought, spent>>

SetPurchaseLimitsEnabled(enabled) ==
  /\ limits' = [limits EXCEPT !.enabled = enabled]
  /\ UNCHANGED <<multiplier, exempt, bought, spent>>

SetTierLimits(t, m) ==
  /\ multiplier' = [multiplier EXCEPT ![t] = m]
  /\ UNCHANGED <<limits, exempt, bought, spent>>

SetLimitExempt(a, isExempt) ==
  /\ exempt' = IF isExempt THEN exempt \cup {a} ELSE exempt \ {a}
  /\ UNCHANGED <<limits, multiplier, bought, spent>>

ResetUserPurchaseLimits(a, period) ==
  /\ bought' = [bought EXCEPT ![period][a] = 0]
  /\ spent' = IF period = 1 THEN [spent EXCEPT ![a] = 0] ELSE spent
  /\ UNCHANGED <<limits, multiplier, exempt>>

LimitsNext ==
  \/ \E config \in LimitConfigs : SetPurchaseLimits(config)
  \/ \E enabled \in {c.enabled : c \in LimitConfigs} :
       SetPurchaseLimitsEnabled(enabled)
  \/ \E t \in 1..2, m \in Multipliers : SetTierLimits(t, m)
  \/ \E a \in Holders :
       \/ \E isExempt \in ExemptSettings : SetLimitExempt(a, isExempt)
       \/ \E period \in Periods : ResetUserPurchaseLimits(a, period)
=============================================================================
