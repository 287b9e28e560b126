--------------------------- MODULE MCMarketplace ---------------------------
(***************************************************************************)
(* Inputs and state constraints for model-checking Marketplace.  Each run  *)
(* opens the calls its question is about and closes others with an empty   *)
(* input set or a constraint.                                              *)
(***************************************************************************)
EXTENDS Marketplace, TLC

CONSTANTS alice, bob

HolderPair == {alice, bob}
HolderSymmetry == Permutations(HolderPair)

SingleBuys == {<<1>>}
(* The second item fails on its own, the third on what the first left.     *)
MixedBuys == {<<2, 0, 1>>}

(* Two shares a day, one at a time; a multiplier of 5000 makes it one. *)
TwoADay ==
  [enabled |-> TRUE, perBuy |-> 1, perBuyValue |-> 1, dailyValue |-> 2,
   shares |-> [p \in Periods |-> IF p = 3 THEN 0 ELSE 2]]
LimitChoices == {TwoADay}

AfterTick == [until |-> 1, maxAmount |-> 1, approval |-> FALSE]
NeedsApproval == [until |-> 0, maxAmount |-> 0, approval |-> TRUE]
RestrictionChoices == {AfterTick, NeedsApproval}

OneOrder == {0}
TwoOrders == {0, 1}

(* Constraints.  A state outside is checked but not explored further.      *)
OpenMarket == ~paused /\ ~closed /\ ~delisted
AllOrNobodyWhitelisted == whitelisted \in {{}, Holders}
(* Rules that differ from what init stored. *)
ChangedRules ==
  {r \in 1..12 :
     \/ r = 1 /\ expiry # [h \in Holders |-> None]
     \/ r = 2 /\ tier # [h \in Holders |-> 0]
     \/ r = 3 /\ ~gateOn
     \/ r = 4 /\ transferEntry # [h \in Holders |-> None]
     \/ r = 5 /\ restriction # [h \in Holders |-> None]
     \/ r = 6 /\ price # InitialPrice
     \/ r = 7 /\ oracle
     \/ r = 8 /\ maxPerUser # 0
     \/ r = 9 /\ mintLimit # 0
     \/ r = 10 /\ limits # NoLimits
     \/ r = 11 /\ multiplier # [t \in 1..2 |-> BasisPoints]
     \/ r = 12 /\ exempt # {}}
(* The limits with a tier and its multiplier, or with any one other rule.  *)
RulesOnly ==
  /\ AllOrNobodyWhitelisted /\ OpenMarket
  /\ retired = 0
  /\ bought[2] = bought[3]
  /\ \A p \in Periods, h \in Holders : bought[p][h] <= 2 /\ spent[h] <= 2
  /\ ChangedRules \subseteq {2, 10, 11} \/ Cardinality(ChangedRules \ {10}) <= 1
  /\ multiplier[2] = BasisPoints

IncomeOnly == AllOrNobodyWhitelisted /\ OpenMarket
BooksOnly == AllOrNobodyWhitelisted /\ ~closed
=============================================================================
