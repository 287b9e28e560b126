-------------------------- MODULE Dividends_proofs --------------------------
(***************************************************************************)
(* Dividends, and the re-entrancy guard of the calls that pay them.        *)
(*                                                                         *)
(* Dividends: they leave the books and the income of the marketplace as    *)
(* consistent as without them, and what is paid and accrued stays within   *)
(* what was declared.  That needs the marketplace's own invariant: the     *)
(* slices of a distribution fit because the balances add up to at most the *)
(* total that the slices are divided by.                                   *)
(*                                                                         *)
(* The guard, for any entry points and any depth of nesting: that no two   *)
(* guarded bodies overlap is not inductive, it needs to know who holds the *)
(* flag.  A frame holds it once it has taken it at least once; at most one *)
(* frame does, and the flag is set exactly while one does.  A frame that   *)
(* still has takes to come holds nothing when it starts, and a frame in a  *)
(* guarded body always holds.                                              *)
(***************************************************************************)
EXTENDS MCDividends, Registry_proofs, SequenceTheorems, TLAPS

USE DEF Shares

(* The books and the income of the marketplace stay as consistent as       *)
(* without dividends, and dividends within what was declared.              *)
DividendsInv ==
  /\ MarketInv
  /\ DividendsTypeOK
  /\ DividendsWithinDeclared

-----------------------------------------------------------------------------
(* A part of at most the whole, in ten-thousandths. *)
LEMMA WithheldBound ==
  ASSUME NEW x \in Nat, NEW p \in Nat, p <= x * 10000
  PROVE  p \div 10000 \in 0..x
OBVIOUS

(* Rounded slices of an amount, one per balance, add up to at most the     *)
(* amount: the balances add up to at most the total.                       *)
LEMMA SlicesBound ==
  ASSUME DividendsInv, NEW amount \in Nat, total > 0,
         NEW slice \in [Holders -> Nat],
         \A h \in Holders : slice[h] \in {0, ProRata(amount, h)}
  PROVE  Total(slice) \in Nat /\ Total(slice) <= amount
<1>1. /\ total \in Nat \ {0} /\ balance \in [Holders -> Nat] /\ IsFiniteSet(Holders)
  BY MarketplaceAssumption DEF DividendsInv, MarketInv, BooksInv, BooksTypeOK
<1>2. Total(balance) \in Nat /\ Total(balance) <= total
  <2>1. /\ Total(balance) \in Nat /\ Total(balance) <= Issued
    BY BalancesIssued DEF DividendsInv, MarketInv
  <2>2. total \in Nat /\ available \in Nat
    BY MarketplaceAssumption DEF DividendsInv, MarketInv, BooksInv, BooksTypeOK
  <2> QED BY <2>1, <2>2 DEF Issued, SaturatingSub
<1> DEFINE scaled == [h \in Holders |-> slice[h] * total]
           share == [h \in Holders |-> balance[h] * amount]
<1>3. scaled \in [Holders -> Nat] /\ share \in [Holders -> Nat]
  BY <1>1
<1>4. ASSUME NEW h \in Holders PROVE scaled[h] <= share[h]
  <2>1. PICK x \in Nat : x = amount * balance[h]
    BY <1>1
  <2>2. x = share[h]
    BY <2>1, <1>1
  <2>3. (x \div total) * total <= x
    BY <1>1, QuotientBound
  <2>4. slice[h] \in {0, x \div total}
    BY <2>1 DEF ProRata
  <2> QED BY <1>1, <2>2, <2>3, <2>4
<1>5. Total(scaled) = Total(slice) * total
  BY <1>1, TotalScaled
<1>6. Total(share) = Total(balance) * amount
  BY <1>1, TotalScaled
<1>7. Total(slice) \in Nat /\ Total(scaled) \in Nat /\ Total(share) \in Nat
  BY <1>1, <1>3, TotalNat
<1>8. Total(scaled) <= Total(share)
  <2> HIDE DEF scaled, share
  <2> QED BY ONLY <1>1, <1>3, <1>4, TotalMonotone
<1> HIDE DEF scaled, share
<1>9. Total(balance) * amount <= total * amount
  BY <1>1, <1>2
<1>10. Total(slice) * total <= amount * total
  BY <1>1, <1>2, <1>5, <1>6, <1>7, <1>8, <1>9
<1> QED BY ONLY <1>1, <1>7, <1>10, amount \in Nat

-----------------------------------------------------------------------------
(* What a dividend step keeps of the marketplace: it moves only the        *)
(* contract's funds and the list of registered holders.                    *)
LEMMA OutsideBooks ==
  ASSUME MarketInv, custody' \in Nat, registered' \subseteq Holders,
         UNCHANGED <<total, available, balance, bridged, seller, escrow,
                     nextOrder, grant, unlockAt, retired>>,
         UNCHANGED <<acc, snapshot, pending, unclaimed, ruleVars>>
  PROVE  MarketInv'
<1> USE DEF MarketInv
<1>1. BooksTypeOK'
  BY DEF BooksInv, BooksTypeOK
<1>2. BooksInv'
  <2>1. BooksCoherent'
    BY DEF BooksInv, BooksCoherent, OrdersCoherent, GrantsCoherent
  <2>2. GrantRest' = GrantRest
    BY DEF GrantRest
  <2>3. SharesConserved'
    BY <2>2 DEF BooksInv, SharesConserved, Accounted
  <2>4. ClockTypeOK'
    BY DEF BooksInv, ClockTypeOK, ruleVars
  <2> QED BY <1>1, <2>1, <2>3, <2>4 DEF BooksInv
<1>3. RulesTypeOK'
  BY UnchangedRules DEF ruleVars
<1>4. IncomeInv'
  BY <1>1, UnchangedIncomeInv
<1> QED BY <1>2, <1>3, <1>4

(* The policy in force is one the code could have stored.                  *)
LEMMA PolicyType ==
  ASSUME DividendsTypeOK, NEW t \in Tokens
  PROVE  PolicyFor(t).token \in Tokens /\ PolicyFor(t).withholding \in 0..10000
BY DividendsAssumption DEF PolicyFor, DividendsTypeOK, Policy

(* A payment leaves both of the contract's balances natural numbers and    *)
(* is booked under its token.                                              *)
LEMMA PayOutEffect ==
  ASSUME DividendsTypeOK, NEW t \in Tokens, NEW n \in Nat, PayOut(t, n)
  PROVE  /\ custody' \in Nat /\ otherFunds' \in Nat /\ paidOut' \in [Tokens -> Nat]
         /\ paidOut'[1] + paidOut'[2] = paidOut[1] + paidOut[2] + n
<1>1. custody' \in Nat /\ otherFunds' \in Nat
  BY DEF PayOut, FundsIn, DividendsTypeOK
<1>2. paidOut' = [paidOut EXCEPT ![t] = @ + n] /\ paidOut \in [Tokens -> Nat]
  BY DEF PayOut, DividendsTypeOK
<1>3. paidOut' \in [Tokens -> Nat]
  BY <1>2
<1>4. paidOut'[1] + paidOut'[2] = paidOut[1] + paidOut[2] + n
  BY <1>2 DEF Tokens
<1> QED BY <1>1, <1>3, <1>4

(* A distribution splits every slice into what goes out and what accrues,  *)
(* so both together grow by no more than the amount declared.              *)
LEMMA DistributeInv ==
  ASSUME DividendsInv, NEW t \in Tokens, NEW amount \in Nat,
         Distribute(PolicyFor(t), amount), lastDistribution' \in {lastDistribution, now}
  PROVE  DividendsInv'
<1> DEFINE pol == PolicyFor(t)
           Accrues(h) == pol.withholding > 0 \/ pol.reinvest \/ h \in reinvests
           Withheld(h) == (ProRata(amount, h) * pol.withholding) \div 10000
           Outgoing(h) == IF Accrues(h) THEN Withheld(h) ELSE ProRata(amount, h)
           paid == [h \in ActiveHolders |-> Outgoing(h)]
           out == [h \in Holders |-> IF h \in ActiveHolders THEN Outgoing(h) ELSE 0]
           kept == [h \in Holders |-> IF h \in ActiveHolders /\ Accrues(h)
                                      THEN ProRata(amount, h) - Withheld(h) ELSE 0]
           slice == [h \in Holders |-> IF h \in ActiveHolders THEN ProRata(amount, h) ELSE 0]
<1>1. /\ total > 0 /\ PayOut(pol.token, Total(paid))
      /\ accrued' = [h \in Holders |->
                       IF h \in ActiveHolders /\ Accrues(h)
                       THEN accrued[h] + ProRata(amount, h) - Withheld(h)
                       ELSE accrued[h]]
      /\ registered' = ActiveHolders
      /\ declared' = [declared EXCEPT ![pol.token] = @ + amount]
      /\ UNCHANGED <<payToken, policy, reinvests, schedule>>
      /\ UNCHANGED <<total, available, balance, bridged, seller, escrow,
                     nextOrder, grant, unlockAt, retired>>
      /\ UNCHANGED <<acc, snapshot, pending, unclaimed, ruleVars>>
  BY DEF Distribute
<1>2. /\ DividendsTypeOK /\ ActiveHolders \subseteq Holders /\ IsFiniteSet(Holders)
      /\ accrued \in [Holders -> Nat] /\ total \in Nat \ {0} /\ balance \in [Holders -> Nat]
      /\ declared \in [Tokens -> Nat] /\ paidOut \in [Tokens -> Nat]
  BY <1>1, MarketplaceAssumption
     DEF DividendsInv, DividendsTypeOK, ActiveHolders, MarketInv, BooksInv, BooksTypeOK
<1>3. pol.token \in Tokens /\ pol.withholding \in 0..10000
  BY <1>2, PolicyType
<1> HIDE DEF pol
<1>4. ASSUME NEW h \in Holders
      PROVE  ProRata(amount, h) \in Nat /\ Withheld(h) \in 0..ProRata(amount, h)
  <2>1. amount * balance[h] \in Nat
    BY <1>2
  <2>2. ProRata(amount, h) \in Nat
    BY <1>2, <2>1, QuotientBound DEF ProRata
  <2>3. PICK x \in Nat : x = ProRata(amount, h)
    BY <2>2
  <2>4. PICK w \in 0..10000 : w = pol.withholding
    BY <1>3
  <2>5. PICK p \in Nat : p = x * w
    OBVIOUS
  <2>6. p <= x * 10000
    BY ONLY <2>5, x \in Nat, w \in 0..10000
  <2>7. p \div 10000 \in 0..x
    BY <2>6, WithheldBound
  <2>8. Withheld(h) = p \div 10000
    <3> HIDE DEF ProRata
    <3> QED BY ONLY <2>3, <2>4, <2>5 DEF Withheld
  <2> HIDE DEF Withheld
  <2> QED BY ONLY <2>2, <2>3, <2>7, <2>8
<1>5. ASSUME NEW h \in Holders
      PROVE  /\ out[h] \in Nat /\ kept[h] \in Nat /\ slice[h] \in Nat
             /\ slice[h] = out[h] + kept[h]
             /\ slice[h] \in {0, ProRata(amount, h)}
             /\ accrued'[h] = accrued[h] + kept[h]
             /\ h \in ActiveHolders => paid[h] = out[h] /\ paid[h] \in Nat
             /\ h \notin ActiveHolders => out[h] = 0
  <2> HIDE DEF ProRata
  <2>1. PICK x \in Nat, y \in Nat : y <= x /\ x = ProRata(amount, h) /\ y = Withheld(h)
    BY <1>4
  <2>2. accrued[h] \in Nat
    BY <1>2
  <2>3. accrued'[h] = IF h \in ActiveHolders /\ Accrues(h) THEN accrued[h] + x - y ELSE accrued[h]
    BY <1>1, <2>1
  <2>4. /\ out[h] = IF h \in ActiveHolders THEN IF Accrues(h) THEN y ELSE x ELSE 0
        /\ kept[h] = IF h \in ActiveHolders /\ Accrues(h) THEN x - y ELSE 0
        /\ slice[h] = IF h \in ActiveHolders THEN x ELSE 0
        /\ h \in ActiveHolders => paid[h] = IF Accrues(h) THEN y ELSE x
    BY <2>1
  <2> HIDE DEF out, kept, slice, paid, Accrues, Withheld
  <2>5. CASE h \in ActiveHolders /\ Accrues(h)
    BY ONLY <2>1, <2>2, <2>3, <2>4, <2>5
  <2>6. CASE h \in ActiveHolders /\ ~Accrues(h)
    BY ONLY <2>1, <2>2, <2>3, <2>4, <2>6
  <2>7. CASE h \notin ActiveHolders
    BY ONLY <2>1, <2>2, <2>3, <2>4, <2>7
  <2> QED BY <2>5, <2>6, <2>7
<1>6. /\ out \in [Holders -> Nat] /\ kept \in [Holders -> Nat] /\ slice \in [Holders -> Nat]
      /\ paid \in [ActiveHolders -> Nat]
  <2>1. /\ \A h \in Holders : out[h] \in Nat /\ kept[h] \in Nat /\ slice[h] \in Nat
        /\ \A h \in ActiveHolders : paid[h] \in Nat
    <3> HIDE DEF out, kept, slice, paid, Accrues, Withheld, Outgoing
    <3> QED BY ONLY <1>2, <1>5
  <2> HIDE DEF Accrues, Withheld, Outgoing, ProRata
  <2>2. DOMAIN out = Holders /\ out = [h \in DOMAIN out |-> out[h]]
    BY ONLY DEF out
  <2>3. DOMAIN kept = Holders /\ kept = [h \in DOMAIN kept |-> kept[h]]
    BY ONLY DEF kept
  <2>4. DOMAIN slice = Holders /\ slice = [h \in DOMAIN slice |-> slice[h]]
    BY ONLY DEF slice
  <2>5. DOMAIN paid = ActiveHolders /\ paid = [h \in DOMAIN paid |-> paid[h]]
    BY ONLY DEF paid
  <2> HIDE DEF out, kept, slice, paid
  <2>6. out \in [Holders -> Nat]
    BY ONLY <2>1, <2>2
  <2>7. kept \in [Holders -> Nat]
    BY ONLY <2>1, <2>3
  <2>8. slice \in [Holders -> Nat]
    BY ONLY <2>1, <2>4
  <2>9. paid \in [ActiveHolders -> Nat]
    BY ONLY <2>1, <2>5
  <2> QED BY <2>6, <2>7, <2>8, <2>9
<1>7. accrued' \in [Holders -> Nat]
  <2>1. DOMAIN accrued' = Holders /\ accrued' = [h \in DOMAIN accrued' |-> accrued'[h]]
    <3> HIDE DEF Accrues, Withheld, ProRata
    <3> QED BY ONLY <1>1
  <2>2. \A h \in Holders : accrued'[h] \in Nat
    <3> HIDE DEF out, kept, slice, paid, Accrues, Withheld, Outgoing
    <3> QED BY ONLY <1>2, <1>5
  <2> QED BY ONLY <2>1, <2>2
<1>8. Total(slice) = Total(out) + Total(kept) /\ Total(accrued') = Total(accrued) + Total(kept)
  <2> HIDE DEF out, kept, slice, paid, Accrues, Withheld
  <2>1. \A h \in Holders : slice[h] = out[h] + kept[h] /\ accrued'[h] = accrued[h] + kept[h]
    BY <1>5
  <2>2. Total(slice) = Total(out) + Total(kept)
    BY ONLY <1>2, <1>6, <2>1, TotalAdd
  <2>3. Total(accrued') = Total(accrued) + Total(kept)
    BY ONLY <1>2, <1>6, <1>7, <2>1, TotalAdd
  <2> QED BY <2>2, <2>3
<1>9. Total(paid) = Total(out)
  <2> HIDE DEF out, kept, slice, paid, Accrues, Withheld
  <2>1. \A h \in Holders : out[h] = IF h \in ActiveHolders THEN paid[h] ELSE 0
    BY <1>5
  <2>2. ActiveHolders \in SUBSET Holders
    BY <1>2
  <2> QED BY ONLY <1>6, <2>1, <2>2, TotalOfPart
<1>10. /\ Total(out) \in Nat /\ Total(kept) \in Nat /\ Total(accrued) \in Nat
       /\ Total(slice) \in Nat /\ Total(slice) <= amount
  <2> HIDE DEF out, kept, slice, paid, Accrues, Withheld
  <2>1. \A h \in Holders : slice[h] \in {0, ProRata(amount, h)}
    BY <1>5
  <2>2. Total(slice) \in Nat /\ Total(slice) <= amount
    BY <1>1, <1>6, <2>1, SlicesBound
  <2> QED BY <2>2, <1>2, <1>6, TotalNat
<1> HIDE DEF out, kept, slice, paid, Accrues, Withheld
<1>11. /\ custody' \in Nat /\ otherFunds' \in Nat /\ paidOut' \in [Tokens -> Nat]
       /\ paidOut'[1] + paidOut'[2] = paidOut[1] + paidOut[2] + Total(out)
  <2>1. Total(paid) \in Nat
    BY <1>9, <1>10
  <2> QED BY <1>1, <1>2, <1>3, <1>9, <2>1, PayOutEffect
<1>12. /\ declared' \in [Tokens -> Nat]
       /\ declared'[1] + declared'[2] = declared[1] + declared[2] + amount
  <2>1. /\ declared' \in [Tokens -> Nat]
    BY <1>1, <1>2, <1>3
  <2>2. declared'[1] + declared'[2] = declared[1] + declared[2] + amount
    BY <1>1, <1>2, <1>3 DEF Tokens
  <2> QED BY <2>1, <2>2
<1>13. MarketInv'
  BY <1>1, <1>2, <1>11, OutsideBooks DEF DividendsInv
<1>14. DividendsTypeOK'
  <2>1. now' = now /\ now \in Nat
    BY <1>1, MaxTimeAssumption DEF ruleVars, DividendsInv, MarketInv, BooksInv, ClockTypeOK
  <2>2. lastDistribution' \in 0..now'
    BY <1>2, <2>1 DEF DividendsTypeOK
  <2> QED BY <1>1, <1>2, <1>7, <1>11, <1>12, <2>2 DEF DividendsTypeOK
<1>15. DividendsWithinDeclared'
  <2>1. paidOut[1] + paidOut[2] + Total(accrued) <= declared[1] + declared[2]
    BY DEF DividendsInv, DividendsWithinDeclared
  <2>2. /\ paidOut[1] \in Nat /\ paidOut[2] \in Nat /\ declared[1] \in Nat /\ declared[2] \in Nat
        /\ paidOut'[1] \in Nat /\ paidOut'[2] \in Nat /\ declared'[1] \in Nat /\ declared'[2] \in Nat
    BY <1>2, <1>11, <1>12 DEF Tokens
  <2>3. paidOut'[1] + paidOut'[2] + Total(accrued') <= declared'[1] + declared'[2]
    BY ONLY <2>1, <2>2, <1>8, <1>10, <1>11, <1>12, amount \in Nat
  <2> QED BY <2>3 DEF DividendsWithinDeclared
<1> QED BY <1>13, <1>14, <1>15 DEF DividendsInv

(* A claim turns what accrued into what was paid. *)
LEMMA ClaimDividendsInv ==
  ASSUME DividendsInv, NEW h \in Holders, ClaimDividends(h)
  PROVE  DividendsInv'
<1> DEFINE t == PolicyFor(payToken).token
           n == accrued[h]
<1>1. /\ PayOut(t, n) /\ accrued' = [accrued EXCEPT ![h] = 0]
      /\ UNCHANGED <<bookVars, acc, snapshot, pending, unclaimed, ruleVars>>
      /\ UNCHANGED <<payToken, policy, reinvests, schedule, lastDistribution, declared>>
  BY DEF ClaimDividends
<1>2. /\ DividendsTypeOK /\ accrued \in [Holders -> Nat] /\ n \in Nat /\ IsFiniteSet(Holders)
      /\ payToken \in Tokens /\ declared \in [Tokens -> Nat] /\ paidOut \in [Tokens -> Nat]
      /\ registered \subseteq Holders
  BY MarketplaceAssumption DEF DividendsInv, DividendsTypeOK
<1>3. t \in Tokens
  BY <1>2, PolicyType
<1> HIDE DEF t, n
<1>4. /\ custody' \in Nat /\ otherFunds' \in Nat /\ paidOut' \in [Tokens -> Nat]
      /\ paidOut'[1] + paidOut'[2] = paidOut[1] + paidOut[2] + n
  BY <1>1, <1>2, <1>3, PayOutEffect
<1>5. accrued' \in [Holders -> Nat] /\ Total(accrued) = Total(accrued') + n
  <2>1. accrued' \in [Holders -> Nat] /\ accrued[h] = accrued'[h] + n
        /\ \A a \in Holders : a # h => accrued[a] = accrued'[a]
    BY <1>1, <1>2 DEF n
  <2> QED BY ONLY <1>2, <2>1, h \in Holders, TotalRaise
<1>6. Total(accrued') \in Nat
  BY <1>2, <1>5, TotalNat
<1>7. MarketInv'
  BY <1>1, <1>2, <1>4, OutsideBooks DEF bookVars, DividendsInv
<1>8. DividendsTypeOK'
  BY <1>1, <1>2, <1>4, <1>5 DEF DividendsTypeOK, bookVars, ruleVars
<1>9. DividendsWithinDeclared'
  <2>1. paidOut[1] + paidOut[2] + Total(accrued) <= declared[1] + declared[2]
    BY DEF DividendsInv, DividendsWithinDeclared
  <2>2. /\ paidOut[1] \in Nat /\ paidOut[2] \in Nat /\ declared[1] \in Nat /\ declared[2] \in Nat
        /\ paidOut'[1] \in Nat /\ paidOut'[2] \in Nat
    BY <1>2, <1>4 DEF Tokens
  <2>3. paidOut'[1] + paidOut'[2] + Total(accrued') <= declared[1] + declared[2]
    BY ONLY <2>1, <2>2, <1>2, <1>4, <1>5, <1>6
  <2> QED BY <2>3, <1>1 DEF DividendsWithinDeclared
<1> QED BY <1>7, <1>8, <1>9 DEF DividendsInv

(* Settings, migrations and payments in change no dividend.                *)
LEMMA SettingsKeepInv ==
  ASSUME DividendsInv,
         \/ \E p \in Policies : SetDividendPolicy(p)
         \/ \E h \in Holders, enabled \in ReinvestSettings : SetDividendReinvestment(h, enabled)
         \/ \E s \in Schedules : SetDividendSchedule(s)
         \/ UpdatePaymentToken
         \/ \E amount \in Funds : FundContractInOther(amount)
  PROVE  DividendsInv'
<1>1. /\ DividendsTypeOK /\ MarketInv /\ DividendsWithinDeclared
      /\ otherFunds \in Nat /\ custody \in Nat /\ registered \subseteq Holders
  BY DEF DividendsInv, DividendsTypeOK
<1>2. /\ UNCHANGED <<total, available, balance, bridged, seller, escrow,
                     nextOrder, grant, unlockAt, retired>>
      /\ UNCHANGED <<acc, snapshot, pending, unclaimed, ruleVars>>
      /\ UNCHANGED <<registered, accrued, lastDistribution, declared, paidOut>>
  BY DEF SetDividendPolicy, SetDividendReinvestment, SetDividendSchedule, UpdatePaymentToken,
         FundContractInOther, vars, bookVars, incomeVars, positionVars
<1>3. /\ custody' \in Nat /\ otherFunds' \in Nat
  BY <1>1, MarketplaceAssumption
     DEF SetDividendPolicy, SetDividendReinvestment, SetDividendSchedule, UpdatePaymentToken,
         FundContractInOther, vars, incomeVars
<1>4. /\ payToken' \in Tokens /\ policy' \in Policies \cup {None}
      /\ reinvests' \subseteq Holders /\ schedule' \in Schedules \cup {None}
  BY <1>1 DEF SetDividendPolicy, SetDividendReinvestment, SetDividendSchedule,
         UpdatePaymentToken, FundContractInOther, positionVars, Tokens, DividendsTypeOK
<1>5. MarketInv'
  BY <1>1, <1>2, <1>3, OutsideBooks
<1>6. DividendsTypeOK'
  BY <1>1, <1>2, <1>3, <1>4 DEF DividendsTypeOK, ruleVars
<1>7. DividendsWithinDeclared'
  BY <1>1, <1>2 DEF DividendsWithinDeclared
<1> QED BY <1>5, <1>6, <1>7 DEF DividendsInv

(* No operation on shares moves the ledger's time. *)
LEMMA ShareStepKeepsTime == ShareStep => now' = now
<1> SUFFICES ASSUME ShareStep PROVE now' = now
  OBVIOUS
<1>1. ASSUME NEW h \in Holders, NEW n \in Shares \ {0}, HolderStep(h, n)
      PROVE  now' = now
  <2>1. CASE BuyShares(h, n) \/ \E duration \in VestingTerms : BuyVestedShares(h, n, duration)
    BY <2>1 DEF BuyShares, BuyVestedShares
  <2>2. CASE PlaceSellOrder(h, n) \/ \E o \in OrderIds : BuyFromOrder(h, o, n)
    BY <2>2 DEF PlaceSellOrder, BuyFromOrder, ruleVars
  <2>3. CASE BuybackShares(h, n) \/ BurnShares(h, n)
    BY <2>3 DEF BuybackShares, BurnShares, ruleVars
  <2>4. CASE LockForBridge(h, n) \/ UnlockFromBridge(h, n)
    BY <2>4 DEF LockForBridge, UnlockFromBridge, ruleVars
  <2> QED BY <1>1, <2>1, <2>2, <2>3, <2>4 DEF HolderStep
<1>2. ASSUME NEW b \in Holders, NEW requests \in Batches, BatchBuyShares(b, requests)
      PROVE  now' = now
  BY <1>2 DEF BatchBuyShares, ruleVars
<1>3. ASSUME NEW h \in Holders, ClaimVestedShares(h) PROVE now' = now
  BY <1>3 DEF ClaimVestedShares, ruleVars
<1>4. ASSUME NEW o \in OrderIds, CancelSellOrder(o) PROVE now' = now
  BY <1>4 DEF CancelSellOrder, ReturnEscrow, ruleVars
<1>5. ASSUME NEW from \in Holders, NEW credit \in [Holders -> 0..balance[from]],
             BatchTransfer(from, credit)
      PROVE  now' = now
  BY <1>5 DEF BatchTransfer, ruleVars
<1>6. ASSUME NEW n \in Supplies, SetTotalShares(n) \/ IncreaseTotalShares(n)
      PROVE  now' = now
  BY <1>6 DEF SetTotalShares, IncreaseTotalShares, ruleVars
<1>7. CASE DelistAsset
  BY <1>7 DEF DelistAsset
<1> QED BY <1>1, <1>2, <1>3, <1>4, <1>5, <1>6, <1>7 DEF ShareStep

(* The ledger's time never runs backwards. *)
LEMMA TimePasses ==
  ASSUME MarketInv, MarketInv', [Next]_vars
  PROVE  now \in Nat /\ now' \in Nat /\ now <= now'
<1>1. now \in Nat /\ now' \in Nat
  BY MaxTimeAssumption DEF MarketInv, BooksInv, ClockTypeOK
<1>2. CASE RuleStep
  BY <1>1, <1>2 DEF RuleStep, Tick, ruleVars
<1>3. CASE MoneyStep
  BY <1>1, <1>3 DEF MoneyStep, DepositDistribution, ClaimDistribution, EmergencyWithdraw,
                    FundContract, ruleVars
<1>4. CASE ShareStep
  BY <1>1, <1>4, ShareStepKeepsTime
<1>5. CASE UNCHANGED vars
  BY <1>1, <1>5 DEF vars, ruleVars
<1> QED BY <1>2, <1>3, <1>4, <1>5 DEF Next

LEMMA DividendsInvInit == DividendsInit => DividendsInv
<1> SUFFICES ASSUME DividendsInit PROVE DividendsInv
  OBVIOUS
<1>1. MarketInv
  BY InitMarketInv DEF DividendsInit
<1>2. DividendsTypeOK
  BY MaxTimeAssumption DEF DividendsInit, Init, ClockInit, DividendsTypeOK, Tokens
<1>3. Total(accrued) = 0
  <2>1. accrued \in [Holders -> Nat] /\ \A h \in Holders : accrued[h] = 0
    BY DEF DividendsInit
  <2>2. IsFiniteSet(Holders)
    BY MarketplaceAssumption
  <2> QED BY ONLY <2>1, <2>2, TotalZero
<1>4. DividendsWithinDeclared
  BY <1>3 DEF DividendsInit, DividendsWithinDeclared, Tokens
<1> QED BY <1>1, <1>2, <1>4 DEF DividendsInv

LEMMA DividendsInvNext == DividendsInv /\ [DividendsNext]_allVars => DividendsInv'
<1> SUFFICES ASSUME DividendsInv, [DividendsNext]_allVars PROVE DividendsInv'
  OBVIOUS
<1>1. CASE (Next \/ UNCHANGED vars) /\ UNCHANGED dividendVars
  <2>1. MarketInv'
    BY <1>1, NextMarketInv DEF DividendsInv
  <2>2. now \in Nat /\ now' \in Nat /\ now <= now'
    BY <1>1, <2>1, TimePasses DEF DividendsInv
  <2>3. custody' \in Nat /\ registered' \subseteq Holders
    BY <2>1 DEF MarketInv, BooksInv, BooksTypeOK, IncomeInv, IncomeTypeOK
  <2>4. lastDistribution' \in 0..now'
    BY <1>1, <2>2 DEF DividendsInv, DividendsTypeOK, dividendVars
  <2>5. DividendsTypeOK'
    BY <1>1, <2>3, <2>4 DEF DividendsInv, DividendsTypeOK, dividendVars, positionVars
  <2>6. DividendsWithinDeclared'
    BY <1>1 DEF DividendsInv, DividendsWithinDeclared, dividendVars, positionVars
  <2> QED BY <2>1, <2>5, <2>6 DEF DividendsInv
<1>2. ASSUME NEW t \in DividendTokens, NEW amount \in DividendAmounts,
             DistributeDividends(t, amount)
      PROVE  DividendsInv'
  <2>1. t \in Tokens /\ amount \in Nat
    BY DividendsAssumption
  <2> QED BY <1>2, <2>1, DistributeInv DEF DistributeDividends
<1>3. CASE ProcessScheduledDividend
  <2>1. payToken \in Tokens /\ schedule \in Schedule /\ total \in Nat
    BY <1>3, DividendsAssumption, MarketplaceAssumption
       DEF ProcessScheduledDividend, DividendsInv, DividendsTypeOK, MarketInv, BooksInv, BooksTypeOK
  <2>2. schedule.perShare * total \in Nat
    BY <2>1 DEF Schedule
  <2> QED BY <1>3, <2>1, <2>2, DistributeInv DEF ProcessScheduledDividend
<1>4. CASE \E h \in Holders : ClaimDividends(h)
  BY <1>4, ClaimDividendsInv
<1>5. CASE \/ \E p \in Policies : SetDividendPolicy(p)
           \/ \E h \in Holders, enabled \in ReinvestSettings : SetDividendReinvestment(h, enabled)
           \/ \E s \in Schedules : SetDividendSchedule(s)
           \/ UpdatePaymentToken
           \/ \E amount \in Funds : FundContractInOther(amount)
  BY <1>5, SettingsKeepInv
<1>6. CASE DividendStep
  BY <1>2, <1>3, <1>4, <1>5, <1>6 DEF DividendStep
<1>7. CASE UNCHANGED allVars
  BY <1>1, <1>7 DEF allVars
<1> QED BY <1>1, <1>6, <1>7 DEF DividendsNext

(* With dividends, withholding, claims and migrations in between, the      *)
(* books and the income of the marketplace stay as they are without them:  *)
(* dividends move money, never shares.                                     *)
THEOREM DividendsInvariant == DividendsSpec => []DividendsInv
BY DividendsInvInit, DividendsInvNext, PTL DEF DividendsSpec

(* No sum of dividends goes negative, and the last distribution is never   *)
(* in the future.                                                          *)
THEOREM DividendsTyped == DividendsSpec => []DividendsTypeOK
<1>1. DividendsInv => DividendsTypeOK
  BY DEF DividendsInv
<1> QED BY <1>1, DividendsInvariant, PTL

(* What was paid, withheld or accrued stays within what was declared,      *)
(* however shares moved and the supply changed between distributions.      *)
THEOREM NeverMoreThanDeclared == DividendsSpec => []DividendsWithinDeclared
<1>1. DividendsInv => DividendsWithinDeclared
  BY DEF DividendsInv
<1> QED BY <1>1, DividendsInvariant, PTL

-----------------------------------------------------------------------------
(* The marketplace's promises with dividends running beside it.  They are  *)
(* about steps, and a dividend step is none of the marketplace's: what it  *)
(* leaves alone is all that those promises speak of.                       *)
ShareBooksKept ==
  /\ UNCHANGED <<total, available, balance, bridged, seller, escrow,
                 nextOrder, grant, unlockAt, retired>>
  /\ UNCHANGED <<acc, snapshot, pending, unclaimed, ruleVars>>

LEMMA DividendStepQuiet == DividendStep => ShareBooksKept
<1> USE DEF ShareBooksKept
<1>1. ASSUME NEW t \in DividendTokens, NEW amount \in DividendAmounts,
             DistributeDividends(t, amount)
      PROVE  ShareBooksKept
  BY <1>1 DEF DistributeDividends, Distribute
<1>2. CASE ProcessScheduledDividend
  BY <1>2 DEF ProcessScheduledDividend, Distribute
<1>3. ASSUME NEW h \in Holders, ClaimDividends(h) PROVE ShareBooksKept
  BY <1>3 DEF ClaimDividends, bookVars
<1>4. ASSUME UNCHANGED vars PROVE ShareBooksKept
  BY <1>4 DEF vars, bookVars, incomeVars
<1>5. CASE \/ \E p \in Policies : SetDividendPolicy(p)
           \/ \E h \in Holders, enabled \in ReinvestSettings :
                SetDividendReinvestment(h, enabled)
           \/ \E s \in Schedules : SetDividendSchedule(s)
           \/ \E amount \in Funds : FundContractInOther(amount)
  BY <1>4, <1>5 DEF SetDividendPolicy, SetDividendReinvestment, SetDividendSchedule,
                    FundContractInOther
<1>6. CASE UpdatePaymentToken
  BY <1>6 DEF UpdatePaymentToken, bookVars
<1> QED BY <1>1, <1>2, <1>3, <1>5, <1>6 DEF DividendStep

LEMMA MarketOrQuiet ==
  ASSUME [DividendsNext]_allVars
  PROVE  [Next]_vars \/ ShareBooksKept
BY DividendStepQuiet DEF DividendsNext, allVars

LEMMA QuietPositions ==
  ASSUME BooksInv, ShareBooksKept
  PROVE  PositionsKept /\ UNCHANGED Registry!registryVars
BY SamePositions, KeptIsStutter DEF ShareBooksKept

(* What no step of DividendsSpec does. *)
LEMMA MarketStepKept ==
  ASSUME DividendsInv, DividendsInv', [DividendsNext]_allVars
  PROVE  /\ [Registry!RegistryNext]_(Registry!registryVars)
         /\ EntitlementStep /\ LockupStep
         /\ PausedStep /\ ClosedStep /\ CountedStep
<1>1. BooksInv /\ MarketInv /\ MarketInv'
  BY DEF DividendsInv, MarketInv
<1>2. CASE [Next]_vars
  <2>1. [Registry!RegistryNext]_(Registry!registryVars)
    BY <1>1, <1>2, NextRegistry
  <2>2. EntitlementStep
    BY <1>1, <1>2, NextEntitlements
  <2>3. LockupStep
    <3>1. CASE UNCHANGED vars
      BY <1>1, <3>1, BalancesKept DEF vars, bookVars
    <3> QED BY <1>1, <1>2, <3>1, NextLockup
  <2>4. PausedStep /\ ClosedStep /\ CountedStep
    BY <1>1, <1>2, NextPaused, NextClosed, NextCounted
  <2> QED BY <2>1, <2>2, <2>3, <2>4
<1>3. CASE ShareBooksKept
  <2>1. PositionsKept /\ UNCHANGED Registry!registryVars
    BY <1>1, <1>3, QuietPositions
  <2>2. EntitlementStep
    BY <1>3 DEF ShareBooksKept, EntitlementStep, Claimable, Earned
  <2>3. LockupStep
    BY <1>1, <1>3, BalancesKept DEF ShareBooksKept
  <2>4. OrdersOnlyReturned /\ \A o \in OrderIds : escrow'[o] <= escrow[o]
    BY <1>1, <1>3, EscrowKept DEF ShareBooksKept
  <2>5. PausedStep
    BY <1>3, <2>4 DEF ShareBooksKept, PausedStep
  <2>6. ClosedStep
    <3>1. closed' = closed
      BY <1>3 DEF ShareBooksKept, ruleVars, haltVars
    <3>2. total \in Nat /\ available \in Nat
      BY <1>1, MarketplaceAssumption DEF BooksInv, BooksTypeOK
    <3> QED BY <1>3, <2>4, <3>1, <3>2 DEF ShareBooksKept, ClosedStep
  <2>7. CountedStep
    BY <1>1, <2>1, KeptBuysNothing DEF CountedStep, Bought
  <2> QED BY <2>1, <2>2, <2>3, <2>5, <2>6, <2>7
<1> QED BY <1>2, <1>3, MarketOrQuiet

LEMMA SchedulesUnderDividends ==
  ASSUME DividendsInv, VestingInv, [DividendsNext]_allVars
  PROVE  VestingInv' /\ ScheduleStep
<1>1. BooksInv
  BY DEF DividendsInv, MarketInv
<1>2. CASE [Next]_vars
  BY <1>1, <1>2, NextSchedules
<1>3. CASE ShareBooksKept
  <2>1. grant' = grant /\ now' = now /\ now \in Nat
    BY <1>1, <1>3, MaxTimeAssumption DEF ShareBooksKept, ruleVars, BooksInv, ClockTypeOK
  <2> QED BY <1>1, <2>1, SchedulesKept
<1> QED BY <1>2, <1>3, MarketOrQuiet

(* Dividends never move a share: with them, the marketplace still behaves  *)
(* as the share registry.                                                  *)
THEOREM DividendsKeepRegistry == DividendsSpec => ImplementsRegistry
<1>1. DividendsInit => Registry!RegistryInit
  BY InitRegistry DEF DividendsInit
<1>2. DividendsInv /\ DividendsInv' /\ [DividendsNext]_allVars
        => [Registry!RegistryNext]_(Registry!registryVars)
  BY MarketStepKept
<1> QED BY <1>1, <1>2, DividendsInvariant, PTL
        DEF DividendsSpec, ImplementsRegistry, Registry!RegistrySpec

(* Pushing dividends, withholding, accruing, claiming and migrating to     *)
(* another token change no distribution entitlement, lift no lock-up,      *)
(* release no vesting share early, trade nothing on a halted marketplace   *)
(* and hide no purchase from the limits; and the books stay conserved and  *)
(* the distribution solvent.                                               *)
THEOREM DividendsKeepPromises ==
  DividendsSpec => /\ EntitlementsExact /\ LockupHolds /\ VestingOnSchedule
                   /\ PausedMeansNoTrade /\ ClosedForGood /\ LimitedPurchasesCounted
                   /\ []SharesConserved /\ []DistributionSolvent
<1>1. DividendsInv /\ DividendsInv' /\ [DividendsNext]_allVars
        => /\ [EntitlementStep]_vars /\ [LockupStep]_vars /\ [PausedStep]_vars
           /\ [ClosedStep]_vars /\ [CountedStep]_vars
  BY MarketStepKept
<1>2. DividendsInit => VestingInv
  BY InitSchedules DEF DividendsInit
<1>3. DividendsInv /\ VestingInv /\ [DividendsNext]_allVars
        => VestingInv' /\ [ScheduleStep]_vars
  BY SchedulesUnderDividends
<1>4. DividendsInv => SharesConserved /\ DistributionSolvent
  BY DEF DividendsInv, MarketInv, BooksInv, IncomeInv
<1>5. DividendsSpec => []VestingInv /\ [][ScheduleStep]_vars
  BY <1>2, <1>3, DividendsInvariant, PTL DEF DividendsSpec
<1>6. DividendsSpec => /\ [][EntitlementStep]_vars /\ [][LockupStep]_vars
                       /\ [][PausedStep]_vars /\ [][ClosedStep]_vars /\ [][CountedStep]_vars
  BY <1>1, DividendsInvariant, PTL DEF DividendsSpec
<1>7. DividendsSpec => []SharesConserved /\ []DistributionSolvent
  BY <1>4, DividendsInvariant, PTL
<1> QED BY <1>5, <1>6, <1>7
        DEF EntitlementsExact, LockupHolds, VestingOnSchedule, PausedMeansNoTrade,
            ClosedForGood, LimitedPurchasesCounted, EntitlementStep, PausedStep,
            ClosedStep, CountedStep, ScheduleStep

-----------------------------------------------------------------------------
(* The guard. *)

Holds(frame) == frame.toTake < Entries[frame.fn]

OneHolder ==
  \A i, j \in 1..Len(stack) : Holds(stack[i]) /\ Holds(stack[j]) => i = j

FlagHeld == guard <=> \E i \in 1..Len(stack) : Holds(stack[i])

TakesLeft == \A i \in 1..Len(stack) : stack[i].toTake <= Entries[stack[i].fn]

GuardInv ==
  /\ GuardTypeOK
  /\ ~committed
  /\ TakesLeft
  /\ OneHolder
  /\ FlagHeld

-----------------------------------------------------------------------------
LEMMA TopFrame ==
  ASSUME GuardTypeOK, Running
  PROVE  /\ Len(stack) \in Nat \ {0}
         /\ Top \in Frame
  BY EmptySeq DEF GuardTypeOK, Running, Top

LEMMA AbortInv ==
  ASSUME GuardInv, NEW result \in Outcomes, Abort(result)
  PROVE  GuardInv'
<1>1. stack' = <<>> /\ ~guard' /\ ~committed' /\ outcome' \in Outcomes
  BY DEF GuardInv, Abort
<1>2. Len(<<>>) = 0 /\ <<>> \in Seq(Frame) /\ 0 <= MaxDepth
  BY GuardAssumption
<1> QED
  BY <1>1, <1>2, GuardAssumption
  DEF GuardInv, GuardTypeOK, TakesLeft, OneHolder, FlagHeld, Abort

LEMMA CallInv ==
  ASSUME GuardInv, NEW f \in EntryPoints, Call(f)
  PROVE  GuardInv'
<1> DEFINE frame == [fn |-> f, toTake |-> Entries[f]]
<1>1. frame \in Frame /\ ~Holds(frame)
  BY GuardAssumption DEF Frame, Holds
<1>2. /\ stack \in Seq(Frame)
      /\ stack' = Append(stack, frame)
      /\ Len(stack) < MaxDepth
      /\ UNCHANGED <<guard, committed, outcome>>
  BY DEF GuardInv, GuardTypeOK, Call
<1> HIDE DEF frame
<1>3. /\ stack' \in Seq(Frame)
      /\ Len(stack') = Len(stack) + 1
      /\ Len(stack) \in Nat
      /\ \A i \in 1..Len(stack) : stack'[i] = stack[i]
      /\ stack'[Len(stack) + 1] = frame
  BY <1>1, <1>2
<1>4. \A i \in 1..Len(stack') :
        Holds(stack'[i]) <=> i \in 1..Len(stack) /\ Holds(stack[i])
  BY <1>1, <1>3
<1>5. OneHolder'
  BY <1>4 DEF GuardInv, OneHolder, Holds
<1>6. FlagHeld'
  BY <1>2, <1>3, <1>4 DEF GuardInv, FlagHeld, Holds
<1>7. GuardTypeOK'
  BY <1>2, <1>3, GuardAssumption DEF GuardInv, GuardTypeOK
<1>8. TakesLeft'
  <2> frame.toTake <= Entries[frame.fn]
    BY GuardAssumption DEF frame
  <2> QED BY <1>3 DEF GuardInv, TakesLeft
<1> QED BY <1>2, <1>5, <1>6, <1>7, <1>8 DEF GuardInv

LEMMA TakeGuardInv ==
  ASSUME GuardInv, TakeGuard
  PROVE  GuardInv'
<1> DEFINE top == Len(stack)
           frame == [Top EXCEPT !.toTake = @ - 1]
<1>1. /\ stack \in Seq(Frame) /\ Len(stack) <= MaxDepth
      /\ top \in Nat \ {0} /\ top \in 1..Len(stack)
      /\ Top \in Frame /\ Top.toTake > 0
      /\ ~guard /\ guard'
      /\ UNCHANGED <<committed, outcome>>
  BY TopFrame DEF GuardInv, GuardTypeOK, TakeGuard
<1>2. \A i \in 1..Len(stack) : ~Holds(stack[i])
  BY <1>1 DEF GuardInv, FlagHeld
<1>3. frame \in Frame /\ frame.fn = Top.fn /\ frame.toTake = Top.toTake - 1
  BY <1>1 DEF Frame
<1>4. Top.toTake = Entries[Top.fn] /\ Entries[Top.fn] \in 0..2
  BY <1>1, <1>2, GuardAssumption DEF GuardInv, TakesLeft, Holds, Top, Frame
<1>5. stack' = [stack EXCEPT ![top] = frame]
  BY <1>1 DEF TakeGuard, Top, Frame
<1> HIDE DEF frame, top
<1>6. /\ stack' \in Seq(Frame)
      /\ Len(stack') = Len(stack)
      /\ \A i \in 1..Len(stack) : stack'[i] = IF i = top THEN frame ELSE stack[i]
  BY <1>1, <1>3, <1>5
<1>7. Holds(frame) /\ frame.toTake <= Entries[frame.fn]
  BY <1>1, <1>3, <1>4 DEF Holds, Frame
<1>8. \A i \in 1..Len(stack') : Holds(stack'[i]) <=> i = top
  BY <1>2, <1>6, <1>7
<1>9. OneHolder'
  BY <1>8 DEF OneHolder, Holds
<1>10. FlagHeld'
  BY <1>1, <1>6, <1>8 DEF FlagHeld, Holds
<1>11. TakesLeft'
  BY <1>6, <1>7 DEF GuardInv, TakesLeft
<1>12. GuardTypeOK'
  BY <1>1, <1>6 DEF GuardInv, GuardTypeOK
<1> QED BY <1>1, <1>9, <1>10, <1>11, <1>12 DEF GuardInv

LEMMA ReturnInv ==
  ASSUME GuardInv, Return
  PROVE  GuardInv'
<1> DEFINE top == Len(stack)
<1>1. /\ stack \in Seq(Frame) /\ Len(stack) <= MaxDepth
      /\ top \in Nat \ {0} /\ top \in 1..Len(stack)
      /\ Top \in Frame /\ Top = stack[top]
      /\ guard \in BOOLEAN /\ outcome \in Outcomes
  BY TopFrame DEF GuardInv, GuardTypeOK, Return, Top
<1>2. /\ Top.toTake = 0
      /\ guard' = IF Entries[Top.fn] > 0 THEN FALSE ELSE guard
      /\ stack' = SubSeq(stack, 1, top - 1)
      /\ IF top = 1 THEN committed' = guard' /\ outcome' = "ok"
         ELSE UNCHANGED <<committed, outcome>>
  BY DEF Return, InBody, Release, Guarded
<1> HIDE DEF top
<1>3. \A i \in 1..top - 1 : stack[i] \in Frame
  BY <1>1, ElementOfSeq DEF top
<1>4. /\ stack' \in Seq(Frame)
      /\ Len(stack') = top - 1
      /\ \A i \in 1..top - 1 : stack'[i] = stack[i]
  BY <1>1, <1>2, <1>3, SubSeqProperties
<1>5. Entries[Top.fn] \in 0..2
  BY <1>1, GuardAssumption DEF Frame
<1>6. Holds(Top) <=> Entries[Top.fn] > 0
  BY <1>2, <1>5 DEF Holds
<1>7. \A i \in 1..Len(stack') : Holds(stack'[i]) <=> Holds(stack[i])
  BY <1>1, <1>4
<1>8. OneHolder'
  BY <1>1, <1>4, <1>7 DEF GuardInv, OneHolder, Holds, top
<1>9. guard' <=> \E i \in 1..top - 1 : Holds(stack[i])
  BY <1>1, <1>2, <1>5, <1>6 DEF GuardInv, OneHolder, FlagHeld, top
<1>10. FlagHeld'
  BY <1>4, <1>9 DEF FlagHeld, Holds
<1>11. ~committed' /\ committed' \in BOOLEAN
  <2>1. CASE top = 1
    <3>1. ~guard'
      BY <1>9, <2>1
    <3>2. guard' = FALSE
      BY <1>1, <1>2, <3>1
    <3> QED BY <1>2, <2>1, <3>2
  <2>2. CASE top # 1
    <3>1. committed' = committed
      BY <1>2, <2>2
    <3> QED BY <3>1 DEF GuardInv, GuardTypeOK
  <2> QED BY <2>1, <2>2
<1>12. TakesLeft'
  BY <1>1, <1>4 DEF GuardInv, TakesLeft, top
<1>13. GuardTypeOK'
  <2>1. guard' \in BOOLEAN
    BY <1>1, <1>2
  <2>2. outcome' \in Outcomes
    BY <1>1, <1>2 DEF Outcomes
  <2>3. Len(stack') <= MaxDepth
    BY <1>1, <1>4, GuardAssumption DEF top
  <2> QED BY <1>4, <1>11, <2>1, <2>2, <2>3 DEF GuardTypeOK
<1> QED BY <1>8, <1>10, <1>11, <1>12, <1>13 DEF GuardInv

LEMMA NextGuardInv == GuardInv /\ [GuardNext]_guardVars => GuardInv'
<1> SUFFICES ASSUME GuardInv, [GuardNext]_guardVars PROVE GuardInv'
  OBVIOUS
<1>1. CASE \E f \in EntryPoints : Call(f)
  BY <1>1, CallInv
<1>2. CASE TakeGuard
  BY <1>2, TakeGuardInv
<1>3. CASE RefuseReentry
  <2>1. PICK result \in Outcomes : Abort(result)
    BY <1>3 DEF RefuseReentry, Outcomes
  <2> QED BY <2>1, AbortInv
<1>4. CASE Panic
  <2>1. PICK result \in Outcomes : Abort(result)
    BY <1>4 DEF Panic, Outcomes
  <2> QED BY <2>1, AbortInv
<1>5. CASE Return
  BY <1>5, ReturnInv
<1>6. CASE UNCHANGED guardVars
  BY <1>6 DEF guardVars, GuardInv, GuardTypeOK, TakesLeft, OneHolder, FlagHeld, Holds
<1> QED BY <1>1, <1>2, <1>3, <1>4, <1>5, <1>6 DEF GuardNext

LEMMA InitGuardInv == GuardInit => GuardInv
<1>1. Len(<<>>) = 0 /\ <<>> \in Seq(Frame) /\ 0 <= MaxDepth
  BY GuardAssumption
<1> SUFFICES ASSUME GuardInit PROVE GuardInv
  OBVIOUS
<1>2. GuardTypeOK
  BY <1>1 DEF GuardInit, GuardTypeOK, Outcomes
<1>3. ~committed /\ ~guard
  BY DEF GuardInit
<1>4. TakesLeft /\ OneHolder
  BY <1>1 DEF GuardInit, TakesLeft, OneHolder
<1>5. FlagHeld
  BY <1>1, <1>3 DEF GuardInit, FlagHeld
<1> QED BY <1>2, <1>3, <1>4, <1>5 DEF GuardInv

-----------------------------------------------------------------------------
(* The flag is set exactly while one frame holds it, and never between     *)
(* transactions: the inductive invariant of the guard.                     *)
THEOREM GuardInvariant == GuardSpec => []GuardInv
BY InitGuardInv, NextGuardInv, PTL DEF GuardSpec

(* No frame takes the flag more often than its entry point asks for.       *)
THEOREM GuardTyped == GuardSpec => []GuardTypeOK
<1>1. GuardInv => GuardTypeOK
  BY DEF GuardInv
<1> QED BY GuardInvariant, <1>1, PTL

(* However calls nest, return and panic, at most one guarded body runs.    *)
THEOREM GuardedBodiesExclude == GuardSpec => []OneGuardedBody
<1>1. GuardInv => OneGuardedBody
  <2> SUFFICES ASSUME GuardInv, NEW i \in 1..Len(stack), NEW j \in 1..Len(stack),
                      Guarded(stack[i]) /\ InBody(stack[i]),
                      Guarded(stack[j]) /\ InBody(stack[j])
               PROVE  i = j
    BY DEF OneGuardedBody
  <2>1. Holds(stack[i]) /\ Holds(stack[j])
    BY DEF Holds, Guarded, InBody
  <2> QED BY <2>1 DEF GuardInv, OneHolder
<1> QED BY GuardInvariant, <1>1, PTL

(* No sequence of nested calls, returns and panics leaves the flag set     *)
(* when the transaction is over.                                           *)
THEOREM GuardNeverStuck == GuardSpec => []NeverLockedOut
<1>1. GuardInv => NeverLockedOut
  <2> SUFFICES ASSUME GuardInv, stack = <<>> PROVE ~guard
    BY DEF NeverLockedOut, GuardInv
  <2>1. \A i \in 1..Len(stack) : FALSE
    OBVIOUS
  <2> QED BY <2>1 DEF GuardInv, FlagHeld
<1> QED BY GuardInvariant, <1>1, PTL

-----------------------------------------------------------------------------
(* The run of both.  What holds of dividends, or of the guard, holds there *)
(* too: each is free while the other stutters.                             *)
THEOREM ContractRunsBoth == ContractSpec => DividendsSpec /\ GuardSpec
<1>1. ContractInit => DividendsInit /\ GuardInit
  BY DEF ContractInit
<1>2. [ContractNext]_contractVars => [DividendsNext]_allVars /\ [GuardNext]_guardVars
  BY DEF ContractNext, contractVars
<1> QED BY <1>1, <1>2, PTL DEF ContractSpec, DividendsSpec, GuardSpec

(* Both keep to the values their code can store, for any entry points and  *)
(* any depth of calls, any amounts, policies and schedules.                *)
THEOREM ContractTyped == ContractSpec => []ContractTypeOK
<1>1. ContractTypeOK <=> DividendsTypeOK /\ GuardTypeOK
  BY DEF ContractTypeOK
<1> QED BY <1>1, ContractRunsBoth, DividendsTyped, GuardTyped, PTL
=============================================================================
