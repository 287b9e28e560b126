----------------------------- MODULE SaleTerms -----------------------------
(***************************************************************************)
(* The terms every purchase reads: the admin's price, the oracle that      *)
(* overrides it, the per-address cap and the share-certificate contract.   *)
(***************************************************************************)
EXTENDS TradingHalts

CONSTANTS
  InitialPrice,     \* `price` given to init
  Prices,           \* prices passed to set_price and update_price
  OraclePrices,     \* what the oracle may answer; {} when no oracle is deployed
  UserCaps,         \* values passed to set_max_shares_per_user
  MintLimits        \* MAX_BATCH_MINT_SIZE of the certificate contracts in a run

ASSUME TermsAssumption ==
  /\ InitialPrice \in Nat \ {0}
  /\ Prices \subseteq Nat \ {0}
  /\ OraclePrices \subseteq Nat
  /\ UserCaps \subseteq Nat
  /\ MintLimits \subseteq Nat \ {0}

VARIABLES
  price,            \* DataKey::PricePerShare
  oracle,           \* whether DataKey::OracleAddress is set
  maxPerUser,       \* DataKey::MaxSharesPerUser, 0 for no cap
  mintLimit         \* batch limit of DataKey::NftContract, 0 when none is set

termVars == <<price, oracle, maxPerUser, mintLimit>>

TermsTypeOK ==
  /\ price \in Nat \ {0}
  /\ oracle \in BOOLEAN
  /\ maxPerUser \in UserCaps \cup {0}
  /\ mintLimit \in MintLimits \cup {0}

TermsInit ==
  /\ price = InitialPrice
  /\ oracle = FALSE
  /\ maxPerUser = 0
  /\ mintLimit = 0

-----------------------------------------------------------------------------
(* _get_current_price: the answer of the oracle when there is one. *)
CurrentPrices == IF oracle THEN OraclePrices ELSE {price}

(* batch_mint_to_single accepts at most its batch limit in one call. *)
CertificatesMintable(n) == mintLimit = 0 \/ n <= mintLimit

WithinUserCap(holding) == maxPerUser = 0 \/ holding <= maxPerUser

-----------------------------------------------------------------------------
SetPrice(p) ==
  /\ price' = p
  /\ UNCHANGED <<oracle, maxPerUser, mintLimit>>

UpdatePrice(p) ==
  /\ paused
  /\ price' = p
  /\ UNCHANGED <<oracle, maxPerUser, mintLimit>>

SetOracle ==
  /\ OraclePrices # {}
  /\ oracle' = TRUE
  /\ UNCHANGED <<price, maxPerUser, mintLimit>>

ClearOracle ==
  /\ oracle' = FALSE
  /\ UNCHANGED <<price, maxPerUser, mintLimit>>

SetMaxSharesPerUser(cap) ==
  /\ maxPerUser' = cap
  /\ UNCHANGED <<price, oracle, mintLimit>>

SetNftContract(limit) ==
  /\ mintLimit' = limit
  /\ UNCHANGED <<price, oracle, maxPerUser>>

TermsNext ==
  \/ \E p \in Prices : SetPrice(p) \/ UpdatePrice(p)
  \/ SetOracle
  \/ ClearOracle
  \/ \E cap \in UserCaps : SetMaxSharesPerUser(cap)
  \/ \E limit \in MintLimits : SetNftContract(limit)
=============================================================================
