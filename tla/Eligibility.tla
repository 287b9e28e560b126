---------------------------- MODULE Eligibility ----------------------------
(***************************************************************************)
(* Who may hold, buy and receive shares: the whitelist with its expiry and *)
(* tier, the opt-in gate on buy_shares, the transfer whitelist and the     *)
(* per-address transfer restrictions.                                      *)
(*                                                                         *)
(* The code reads the expiry in two ways.  is_whitelisted treats 0 as      *)
(* "never" and refuses at the expiry itself; _validate_whitelist compares  *)
(* any stored value, 0 included, and still accepts at the expiry.  Both    *)
(* readings are kept.                                                      *)
(***************************************************************************)
EXTENDS LedgerClock

CONSTANTS
  Holders,        \* addresses that may hold shares
  None,           \* an absent storage key
  Expiries,       \* timestamps passed to set_whitelist_expiry
  Tiers,          \* tiers passed to set_whitelist_tier
  GateSettings,   \* values passed to set_allowlist_enabled
  TransferGated,  \* addresses whose transfer whitelist entry is edited
  Restrictions    \* records passed to set_transfer_restrictions

TransferRestriction == [until : Nat, maxAmount : Nat, approval : BOOLEAN]

ASSUME EligibilityAssumption ==
  /\ None \notin Holders
  /\ Expiries \subseteq Nat
  /\ Tiers \subseteq 0..2
  /\ GateSettings \subseteq BOOLEAN
  /\ TransferGated \subseteq Holders
  /\ Restrictions \subseteq TransferRestriction

VARIABLES
  whitelisted,    \* addresses with DataKey::Whitelisted
  expiry,         \* DataKey::WhitelistExpiry, None when the key is absent
  tier,           \* DataKey::WhitelistTier, 0 when the key is absent
  gateOn,         \* DataKey::AllowlistEnabled
  transferEntry,  \* DataKey::TransferWhitelist, None when the key is absent
  restriction     \* DataKey::TransferRestrictions, None when absent

eligibilityVars ==
  <<whitelisted, expiry, tier, gateOn, transferEntry, restriction>>

EligibilityTypeOK ==
  /\ whitelisted \subseteq Holders
  /\ expiry \in [Holders -> Expiries \cup {None}]
  /\ tier \in [Holders -> 0..2]
  /\ gateOn \in BOOLEAN
  /\ transferEntry \in [Holders -> {TRUE, None}]
  /\ restriction \in [Holders -> Restrictions \cup {None}]

EligibilityInit ==
  /\ whitelisted = {}
  /\ expiry = [h \in Holders |-> None]
  /\ tier = [h \in Holders |-> 0]
  /\ gateOn = TRUE
  /\ transferEntry = [h \in Holders |-> None]
  /\ restriction = [h \in Holders |-> None]

-----------------------------------------------------------------------------
IsWhitelisted(a) ==
  /\ a \in whitelisted
  /\ expiry[a] \notin {None, 0} => now < expiry[a]

(* _validate_whitelist, the reading buy_shares uses. *)
ValidWhitelist(a) ==
  /\ a \in whitelisted
  /\ expiry[a] # None => now <= expiry[a]

(* The default of an absent entry is TRUE. *)
IsTransferWhitelisted(a) == transferEntry[a] \in {TRUE, None}

TransferUnrestricted(a, amount) ==
  restriction[a] # None =>
    /\ now >= restriction[a].until
    /\ restriction[a].maxAmount = 0 \/ amount <= restriction[a].maxAmount
    /\ ~restriction[a].approval

-----------------------------------------------------------------------------
AddToWhitelist(batch) ==
  /\ whitelisted' = whitelisted \cup batch
  /\ UNCHANGED <<expiry, tier, gateOn, transferEntry, restriction>>

(* Removing one address keeps its expiry and its tier in storage. *)
RemoveFromWhitelist(a) ==
  /\ whitelisted' = whitelisted \ {a}
  /\ UNCHANGED <<expiry, tier, gateOn, transferEntry, restriction>>

RemoveFromWhitelistBatch(batch) ==
  /\ whitelisted' = whitelisted \ batch
  /\ expiry' = [h \in Holders |-> IF h \in batch THEN None ELSE expiry[h]]
  /\ tier' = [h \in Holders |-> IF h \in batch THEN 0 ELSE tier[h]]
  /\ UNCHANGED <<gateOn, transferEntry, restriction>>

SetWhitelistExpiry(a, e) ==
  /\ expiry' = [expiry EXCEPT ![a] = e]
  /\ UNCHANGED <<whitelisted, tier, gateOn, transferEntry, restriction>>

SetWhitelistTier(a, t) ==
  /\ tier' = [tier EXCEPT ![a] = t]
  /\ UNCHANGED <<whitelisted, expiry, gateOn, transferEntry, restriction>>

SetAllowlistEnabled(enabled) ==
  /\ gateOn' = enabled
  /\ UNCHANGED <<whitelisted, expiry, tier, transferEntry, restriction>>

AddToTransferWhitelist(a) ==
  /\ transferEntry' = [transferEntry EXCEPT ![a] = TRUE]
  /\ UNCHANGED <<whitelisted, expiry, tier, gateOn, restriction>>

(* Removing deletes the key, it does not store FALSE. *)
RemoveFromTransferWhitelist(a) ==
  /\ transferEntry' = [transferEntry EXCEPT ![a] = None]
  /\ UNCHANGED <<whitelisted, expiry, tier, gateOn, restriction>>

SetTransferRestrictions(a, r) ==
  /\ restriction' = [restriction EXCEPT ![a] = r]
  /\ UNCHANGED <<whitelisted, expiry, tier, gateOn, transferEntry>>

RemoveTransferRestrictions(a) ==
  /\ restriction' = [restriction EXCEPT ![a] = None]
  /\ UNCHANGED <<whitelisted, expiry, tier, gateOn, transferEntry>>

EligibilityNext ==
  \/ \E batch \in SUBSET Holders :
       AddToWhitelist(batch) \/ RemoveFromWhitelistBatch(batch)
  \/ \E a \in Holders :
       \/ RemoveFromWhitelist(a)
       \/ \E e \in Expiries : SetWhitelistExpiry(a, e)
       \/ \E t \in Tiers : SetWhitelistTier(a, t)
       \/ \E r \in Restrictions : SetTransferRestrictions(a, r)
       \/ RemoveTransferRestrictions(a)
  \/ \E enabled \in GateSettings : SetAllowlistEnabled(enabled)
  \/ \E a \in TransferGated :
       AddToTransferWhitelist(a) \/ RemoveFromTransferWhitelist(a)
=============================================================================
