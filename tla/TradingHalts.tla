---------------------------- MODULE TradingHalts ----------------------------
(***************************************************************************)
(* The switches that stop trading: the global pause, the permanent         *)
(* wind-down and delisting flags, the per-function pause bitmask and the   *)
(* circuit breaker.  Every action is an admin or pauser call; the caller   *)
(* is taken to hold the role it needs.                                     *)
(***************************************************************************)
EXTENDS Naturals

CONSTANTS
  PausableFns,        \* function ids the admin may pause in a run
  BreakerSettings     \* values of `enabled` passed to configure_circuit_breaker

FN_BUY_SHARES == 0
FN_TRANSFER == 1
FN_TRANSFER_FROM == 2
FN_SELL_ORDER == 3
FN_DIVIDEND == 4
FN_BUYBACK == 5
FunctionIds == 0..5

ASSUME HaltsAssumption ==
  /\ PausableFns \subseteq FunctionIds
  /\ BreakerSettings \subseteq BOOLEAN

VARIABLES
  paused,             \* DataKey::Paused
  closed,             \* DataKey::IsClosed
  delisted,           \* DataKey::Delisted
  fnPaused,           \* the ids whose bit is set in DataKey::FunctionPauseFlags
  breakerEnabled,     \* CircuitBreakerConfig.enabled
  breakerTriggered    \* DataKey::CircuitBreakerTriggered

haltVars ==
  <<paused, closed, delisted, fnPaused, breakerEnabled, breakerTriggered>>

HaltsTypeOK ==
  /\ paused \in BOOLEAN
  /\ closed \in BOOLEAN
  /\ delisted \in BOOLEAN
  /\ fnPaused \subseteq FunctionIds
  /\ breakerEnabled \in BOOLEAN
  /\ breakerTriggered \in BOOLEAN

HaltsInit ==
  /\ paused = FALSE
  /\ closed = FALSE
  /\ delisted = FALSE
  /\ fnPaused = {}
  /\ breakerEnabled = FALSE
  /\ breakerTriggered = FALSE

-----------------------------------------------------------------------------
Pause ==
  /\ paused' = TRUE
  /\ UNCHANGED <<closed, delisted, fnPaused, breakerEnabled, breakerTriggered>>

Unpause ==
  /\ paused' = FALSE
  /\ UNCHANGED <<closed, delisted, fnPaused, breakerEnabled, breakerTriggered>>

WindDown ==
  /\ paused' = TRUE
  /\ closed' = TRUE
  /\ UNCHANGED <<delisted, fnPaused, breakerEnabled, breakerTriggered>>

PauseFunction(id) ==
  /\ fnPaused' = fnPaused \cup {id}
  /\ UNCHANGED <<paused, closed, delisted, breakerEnabled, breakerTriggered>>

UnpauseFunction(id) ==
  /\ fnPaused' = fnPaused \ {id}
  /\ UNCHANGED <<paused, closed, delisted, breakerEnabled, breakerTriggered>>

(* Reconfiguring does not clear a breaker that has triggered. *)
ConfigureCircuitBreaker(enabled) ==
  /\ breakerEnabled' = enabled
  /\ UNCHANGED <<paused, closed, delisted, fnPaused, breakerTriggered>>

TriggerCircuitBreaker ==
  /\ breakerEnabled
  /\ breakerTriggered' = TRUE
  /\ UNCHANGED <<paused, closed, delisted, fnPaused, breakerEnabled>>

ResetCircuitBreaker ==
  /\ breakerTriggered' = FALSE
  /\ UNCHANGED <<paused, closed, delisted, fnPaused, breakerEnabled>>

HaltsNext ==
  \/ Pause
  \/ Unpause
  \/ WindDown
  \/ \E id \in PausableFns : PauseFunction(id) \/ UnpauseFunction(id)
  \/ \E enabled \in BreakerSettings : ConfigureCircuitBreaker(enabled)
  \/ TriggerCircuitBreaker
  \/ ResetCircuitBreaker
=============================================================================
