--------------------------- MODULE Income_proofs ---------------------------
(***************************************************************************)
(* Income distribution of Marketplace, for all values of the constants:    *)
(* what holders can claim is covered by what was deposited, and no share   *)
(* movement changes what anybody can claim.                                *)
(*                                                                         *)
(* Solvency is about the sum of what is owed, and a deposit adds to it one *)
(* rounded rate times the sum of the balances: it is covered only because  *)
(* that sum is at most the issued shares, which conservation of shares     *)
(* gives.  The rate applies to each balance since its snapshot, so every   *)
(* step that moves a balance must have settled it first; that one fact     *)
(* about steps, SettledFirst, carries both results.                        *)
(*                                                                         *)
(* Lock-up: whichever call is made while a holder is locked, the holder's  *)
(* liquid shares do not shrink, except by a burn or a bridge lock.  The    *)
(* argument is by action.  Three read the lock before they debit, two are  *)
(* the exceptions, and the rest leave balances alone or add to them.  The  *)
(* last needs BooksInv: a credit is a sum over orders, a batch or          *)
(* schedules, and adds only while every term of it is a natural number.    *)
(*                                                                         *)
(* Vesting: what a schedule has paid, times its duration, is at most its   *)
(* amount times the time elapsed.  No call but a claim moves it, time only *)
(* helps, and a claim rounds down.                                         *)
(***************************************************************************)
EXTENDS Marketplace_proofs

USE DEF Shares

RulesTypeOK ==
  /\ HaltsTypeOK
  /\ EligibilityTypeOK
  /\ TermsTypeOK
  /\ LimitsTypeOK

(* No holder's snapshot is ahead of the accumulator. *)
SnapshotsTaken == \A h \in Holders : snapshot[h] <= acc

IncomeInv ==
  /\ IncomeTypeOK
  /\ SnapshotsTaken
  /\ DistributionSolvent

MarketInv ==
  /\ BooksInv
  /\ RulesTypeOK
  /\ IncomeInv

-----------------------------------------------------------------------------
(* What one holder is owed, in units of 1 / Scale, and can claim. *)
LEMMA OwedType ==
  ASSUME BooksTypeOK, IncomeTypeOK, SnapshotsTaken, NEW h \in Holders
  PROVE  /\ balance[h] \in Nat /\ pending[h] \in Nat /\ snapshot[h] \in Nat
         /\ acc \in Nat /\ acc - snapshot[h] \in Nat
         /\ balance[h] * (acc - snapshot[h]) \in Nat
         /\ pending[h] * Scale \in Nat
         /\ Owed(h) \in Nat
<1>1. /\ balance[h] \in Nat /\ pending[h] \in Nat /\ snapshot[h] \in Nat /\ acc \in Nat
      /\ snapshot[h] <= acc /\ Scale \in Nat
  BY MarketplaceAssumption DEF BooksTypeOK, IncomeTypeOK, SnapshotsTaken
<1>2. acc - snapshot[h] \in Nat
  BY <1>1
<1>3. balance[h] * (acc - snapshot[h]) \in Nat /\ pending[h] * Scale \in Nat
  BY <1>1, <1>2
<1> QED BY <1>1, <1>2, <1>3 DEF Owed

(* A quotient times its divisor is at most the dividend. *)
LEMMA QuotientBound ==
  ASSUME NEW x \in Nat, NEW d \in Nat \ {0}
  PROVE  x \div d \in Nat /\ (x \div d) * d <= x
<1>1. PICK q \in Int : q = x \div d
  OBVIOUS
<1>2. q >= 0 /\ d * q <= x
  BY <1>1
<1> QED BY <1>1, <1>2

(* Rounding is in the contract's favour. *)
LEMMA ClaimableBound ==
  ASSUME BooksTypeOK, IncomeTypeOK, SnapshotsTaken, NEW h \in Holders
  PROVE  Claimable(h) \in Nat /\ Claimable(h) * Scale <= Owed(h)
<1> USE MarketplaceAssumption
<1>1. PICK x \in Nat : x = balance[h] * (acc - snapshot[h])
  BY OwedType
<1>2. PICK p \in Nat : p = pending[h]
  BY OwedType
<1>3. PICK q \in Nat : q = x \div Scale /\ q * Scale <= x
  BY <1>1, QuotientBound
<1>4. Claimable(h) = p \/ Claimable(h) = p + q
  BY <1>1, <1>2, <1>3 DEF Claimable, Earned
<1>5. Owed(h) = p * Scale + x
  BY <1>1, <1>2 DEF Owed
<1>6. (p + q) * Scale = p * Scale + q * Scale
  OBVIOUS
<1>7. p * Scale \in Nat /\ q * Scale \in Nat
  OBVIOUS
<1> QED BY <1>3, <1>4, <1>5, <1>6, <1>7

-----------------------------------------------------------------------------
(* The step settled every holder whose balance it moved, and touched no    *)
(* other part of the distribution.                                         *)
Untouched(h) ==
  balance'[h] = balance[h] /\ pending'[h] = pending[h] /\ snapshot'[h] = snapshot[h]
Settled(h) ==
  /\ pending'[h] = Claimable(h)
  /\ snapshot'[h] = IF acc > snapshot[h] THEN acc ELSE snapshot[h]
SettledFirst ==
  /\ acc' = acc /\ unclaimed' = unclaimed
  /\ pending' = [h \in Holders |-> pending'[h]]
  /\ snapshot' = [h \in Holders |-> snapshot'[h]]
  /\ \A h \in Holders : Untouched(h) \/ Settled(h)

LEMMA SettledOwed ==
  ASSUME BooksTypeOK, BooksTypeOK', IncomeTypeOK, SnapshotsTaken, SettledFirst,
         NEW h \in Holders
  PROVE  /\ pending'[h] \in Nat /\ snapshot'[h] \in Nat /\ snapshot'[h] <= acc
         /\ Claimable(h)' = Claimable(h)
         /\ Owed(h)' \in Nat /\ Owed(h)' <= Owed(h)
<1>1. acc' = acc
  BY DEF SettledFirst
<1>2. /\ Claimable(h) \in Nat /\ Claimable(h) * Scale <= Owed(h)
      /\ Owed(h) \in Nat
  BY ClaimableBound, OwedType
<1>3. snapshot[h] \in Nat /\ snapshot[h] <= acc /\ acc \in Nat /\ pending[h] \in Nat
  BY DEF IncomeTypeOK, SnapshotsTaken
<1>4. CASE Untouched(h)
  BY <1>1, <1>2, <1>3, <1>4 DEF Untouched, Claimable, Earned, Owed
<1>5. CASE Settled(h)
  <2>1. pending'[h] = Claimable(h) /\ snapshot'[h] = acc
    BY <1>3, <1>5 DEF Settled
  <2>2. Claimable(h)' = Claimable(h)
    BY <1>1, <1>3, <2>1 DEF Claimable
  <2>3. balance'[h] \in Nat
    BY MarketplaceAssumption DEF BooksTypeOK
  <2>4. Owed(h)' = Claimable(h) * Scale
    <3>1. Owed(h)' = pending'[h] * Scale + balance'[h] * (acc' - snapshot'[h])
      BY DEF Owed
    <3>2. balance'[h] * (acc' - snapshot'[h]) = 0
      BY <1>1, <1>3, <2>1, <2>3
    <3>3. Claimable(h) * Scale \in Nat
      BY <1>2, MarketplaceAssumption
    <3> QED BY <2>1, <3>1, <3>2, <3>3
  <2>5. Claimable(h) * Scale \in Nat
    BY <1>2, MarketplaceAssumption
  <2> QED BY <1>2, <1>3, <2>1, <2>2, <2>4, <2>5
<1> QED BY <1>4, <1>5 DEF SettledFirst

(* Such a step keeps the distribution solvent. *)
LEMMA SettledFirstInv ==
  ASSUME BooksInv, BooksTypeOK', IncomeInv, SettledFirst, custody' \in Nat
  PROVE  IncomeInv'
<1> USE DEF BooksInv, IncomeInv
<1>1. IncomeTypeOK'
  <2>1. \A h \in Holders : pending'[h] \in Nat /\ snapshot'[h] \in Nat
    BY SettledOwed
  <2> QED BY <2>1 DEF SettledFirst, IncomeTypeOK
<1>2. SnapshotsTaken'
  BY SettledOwed DEF SnapshotsTaken, SettledFirst
<1>3. DistributionSolvent'
  <2> DEFINE before == [h \in Holders |-> Owed(h)]
             after == [h \in Holders |-> Owed(h)']
  <2>1. \A h \in Holders : before[h] \in Nat /\ after[h] \in Nat /\ after[h] <= before[h]
    BY SettledOwed, OwedType
  <2>2. before \in [Holders -> Nat] /\ after \in [Holders -> Nat] /\ IsFiniteSet(Holders)
    BY <2>1, MarketplaceAssumption
  <2>3. Total(before) <= unclaimed * Scale
    BY DEF DistributionSolvent
  <2>4. unclaimed' * Scale = unclaimed * Scale /\ unclaimed * Scale \in Nat
    BY MarketplaceAssumption DEF SettledFirst, IncomeTypeOK
  <2>5. Total(after) = Total([h \in Holders |-> Owed(h)])'
    OBVIOUS
  <2> HIDE DEF before, after
  <2>6. Total(after) <= Total(before) /\ Total(after) \in Nat /\ Total(before) \in Nat
    BY <2>1, <2>2, TotalMonotone, TotalNat
  <2> QED BY <2>3, <2>4, <2>5, <2>6 DEF DistributionSolvent
<1> QED BY <1>1, <1>2, <1>3

-----------------------------------------------------------------------------
(* Settle, and leaving the distribution alone, in that form. *)
LEMMA SettleIsSettledFirst ==
  ASSUME BooksTypeOK, BooksTypeOK', NEW S \in SUBSET Holders, SettleOnly(S),
         \A h \in Holders \ S : balance'[h] = balance[h]
  PROVE  SettledFirst /\ custody' = custody
<1>1. /\ pending' = [h \in Holders |-> IF h \in S THEN Claimable(h) ELSE pending[h]]
      /\ snapshot' = [h \in Holders |->
                        IF h \in S /\ acc > snapshot[h] THEN acc ELSE snapshot[h]]
      /\ acc' = acc /\ unclaimed' = unclaimed /\ custody' = custody
  BY DEF SettleOnly, Settle
<1>2. \A h \in S : Settled(h)
  BY <1>1 DEF Settled
<1>3. \A h \in Holders \ S : Untouched(h)
  BY <1>1 DEF Untouched
<1>4. /\ pending' = [h \in Holders |-> pending'[h]]
      /\ snapshot' = [h \in Holders |-> snapshot'[h]]
  BY <1>1
<1> QED BY <1>1, <1>2, <1>3, <1>4 DEF SettledFirst

LEMMA OneSettled ==
  ASSUME BooksTypeOK, BooksTypeOK', NEW b \in Holders, SettleOnly({b}),
         NEW x, balance' = [balance EXCEPT ![b] = x]
  PROVE  SettledFirst /\ custody' = custody
<1>1. \A h \in Holders \ {b} : balance'[h] = balance[h]
  BY DEF BooksTypeOK
<1> QED BY <1>1, SettleIsSettledFirst

LEMMA UntouchedIsSettledFirst ==
  ASSUME IncomeTypeOK, UNCHANGED <<balance, pending, snapshot, acc, unclaimed>>
  PROVE  SettledFirst
<1>1. /\ pending = [h \in Holders |-> pending[h]]
      /\ snapshot = [h \in Holders |-> snapshot[h]]
  BY DEF IncomeTypeOK
<1> QED BY <1>1 DEF SettledFirst, Untouched

-----------------------------------------------------------------------------
(* Every call that moves shares is such a step. *)
LEMMA HolderSettledFirst ==
  ASSUME BooksInv, BooksTypeOK', RulesTypeOK, IncomeTypeOK,
         NEW h \in Holders, NEW n \in Shares \ {0}, HolderStep(h, n)
  PROVE  SettledFirst /\ custody' \in Nat
<1> USE DEF BooksInv
<1>1. custody \in Nat /\ n \in Nat
  BY MarketplaceAssumption DEF IncomeTypeOK
<1>2. CASE BuyShares(h, n)
  BY <1>1, <1>2, OneSettled DEF BuyShares
<1>3. CASE \E duration \in VestingTerms : BuyVestedShares(h, n, duration)
  BY <1>1, <1>3, UntouchedIsSettledFirst DEF BuyVestedShares, incomeVars
<1>4. CASE PlaceSellOrder(h, n)
  BY <1>1, <1>4, OneSettled DEF PlaceSellOrder
<1>5. CASE \E o \in OrderIds : BuyFromOrder(h, o, n)
  BY <1>1, <1>5, OneSettled DEF BuyFromOrder
<1>6. CASE BuybackShares(h, n)
  <2>1. custody' \in Nat
    <3>1. PICK p \in CurrentPrices : p * n <= custody /\ custody' = custody - p * n
      BY <1>6 DEF BuybackShares
    <3>2. p \in Nat
      BY TermsAssumption DEF CurrentPrices, RulesTypeOK, TermsTypeOK
    <3>3. p * n \in Nat
      BY <1>1, <3>2
    <3> QED BY <1>1, <3>1, <3>3
  <2>2. /\ Settle({h}) /\ balance' = [balance EXCEPT ![h] = @ - n]
        /\ UNCHANGED <<acc, unclaimed>>
    BY <1>6 DEF BuybackShares
  <2>3. Settled(h)
    BY <2>2 DEF Settle, Settled
  <2>4. \A a \in Holders \ {h} : Untouched(a)
    BY <2>2 DEF Settle, Untouched, BooksTypeOK
  <2>5. /\ pending' = [a \in Holders |-> pending'[a]]
        /\ snapshot' = [a \in Holders |-> snapshot'[a]]
    BY <2>2 DEF Settle
  <2> QED BY <2>1, <2>2, <2>3, <2>4, <2>5 DEF SettledFirst
<1>7. CASE BurnShares(h, n)
  BY <1>1, <1>7, OneSettled DEF BurnShares
<1>8. CASE LockForBridge(h, n)
  BY <1>1, <1>8, OneSettled DEF LockForBridge
<1>9. CASE UnlockFromBridge(h, n)
  BY <1>1, <1>9, OneSettled DEF UnlockFromBridge
<1> QED BY <1>2, <1>3, <1>4, <1>5, <1>6, <1>7, <1>8, <1>9 DEF HolderStep

LEMMA ShareSettledFirst ==
  ASSUME BooksInv, BooksTypeOK', RulesTypeOK, IncomeTypeOK, ShareStep
  PROVE  SettledFirst /\ custody' \in Nat
<1> USE DEF BooksInv
<1>1. custody \in Nat
  BY DEF IncomeTypeOK
<1>2. ASSUME NEW b \in Holders, NEW requests \in Batches, BatchBuyShares(b, requests)
      PROVE  SettledFirst /\ custody' \in Nat
  BY <1>1, <1>2, OneSettled DEF BatchBuyShares
<1>3. ASSUME NEW h \in Holders, ClaimVestedShares(h)
      PROVE  SettledFirst /\ custody' \in Nat
  BY <1>1, <1>3, OneSettled DEF ClaimVestedShares
<1>4. ASSUME NEW o \in OrderIds, CancelSellOrder(o)
      PROVE  SettledFirst /\ custody' \in Nat
  <2>1. seller[o] \in Holders
    BY <1>4 DEF CancelSellOrder, BooksTypeOK
  <2> QED BY <1>1, <1>4, <2>1, OneSettled DEF CancelSellOrder, ReturnEscrow
<1>5. ASSUME NEW from \in Holders, NEW credit \in [Holders -> 0..balance[from]],
             BatchTransfer(from, credit)
      PROVE  SettledFirst /\ custody' \in Nat
  <2> DEFINE S == {h \in Holders : credit[h] > 0} \cup {from}
  <2>1. SettleOnly(S) /\ S \in SUBSET Holders
    BY <1>5 DEF BatchTransfer
  <2>2. ASSUME NEW h \in Holders \ S PROVE balance'[h] = balance[h]
    <3>1. h # from /\ ~ (credit[h] > 0) /\ balance[h] \in Nat /\ balance[from] \in Nat
      BY MarketplaceAssumption DEF BooksTypeOK
    <3>2. credit[h] = 0
      BY <3>1
    <3>3. balance'[h] = balance[h] + credit[h]
      BY <1>5, <3>1 DEF BatchTransfer
    <3> QED BY <3>1, <3>2, <3>3
  <2> HIDE DEF S
  <2> QED BY <1>1, <2>1, <2>2, SettleIsSettledFirst
<1>6. ASSUME NEW n \in Supplies, SetTotalShares(n) \/ IncreaseTotalShares(n)
      PROVE  SettledFirst /\ custody' \in Nat
  BY <1>1, <1>6, UntouchedIsSettledFirst DEF SetTotalShares, IncreaseTotalShares, incomeVars
<1>7. ASSUME DelistAsset
      PROVE  SettledFirst /\ custody' \in Nat
  <2> DEFINE S == {h \in Holders : \E o \in OrderIds : seller[o] = h}
  <2>1. SettleOnly(S) /\ S \in SUBSET Holders
    BY <1>7 DEF DelistAsset
  <2>2. ASSUME NEW h \in Holders \ S PROVE balance'[h] = balance[h]
    <3>1. EscrowOf(h) = 0
      <4>1. \A o \in OrderIds : seller[o] # h
        OBVIOUS
      <4>2. /\ [o \in OrderIds |-> IF seller[o] = h THEN escrow[o] ELSE 0] \in [OrderIds -> Nat]
            /\ \A i \in OrderIds :
                 [o \in OrderIds |-> IF seller[o] = h THEN escrow[o] ELSE 0][i] = 0
        BY <4>1
      <4> QED BY <4>2, TotalZero DEF EscrowOf
    <3>2. balance'[h] = balance[h] + EscrowOf(h) /\ balance[h] \in Nat
      BY <1>7, MarketplaceAssumption DEF DelistAsset, Returned, BooksTypeOK
    <3> QED BY <3>1, <3>2
  <2> HIDE DEF S
  <2> QED BY <1>1, <2>1, <2>2, SettleIsSettledFirst
<1> QED BY <1>2, <1>3, <1>4, <1>5, <1>6, <1>7, HolderSettledFirst DEF ShareStep

-----------------------------------------------------------------------------
(* The shares in balances are issued shares: what a deposit divides by.    *)
LEMMA BalancesIssued ==
  ASSUME BooksInv
  PROVE  /\ Issued \in Nat /\ Total(balance) \in Nat
         /\ Total(balance) <= Issued
<1>1. /\ Total(balance) \in Nat /\ Total(bridged) \in Nat
      /\ Total(escrow) \in Nat /\ Total(GrantRest) \in Nat
  BY BookTotals DEF BooksInv, BooksCoherent
<1>2. total \in Nat /\ available \in Nat /\ retired \in Nat
  BY MarketplaceAssumption DEF BooksInv, BooksTypeOK
<1>3. PICK rest \in Nat : rest = Total(bridged) + Total(escrow) + Total(GrantRest)
  BY <1>1
<1>4. total - available = Total(balance) + rest + retired
  BY <1>1, <1>3 DEF BooksInv, SharesConserved, Accounted
<1>5. Issued = total - available
  BY <1>1, <1>2, <1>4 DEF Issued, SaturatingSub
<1> QED BY <1>1, <1>2, <1>4, <1>5

(* A deposit owes every balance the new rate; rounding the rate down keeps *)
(* the sum within the amount deposited.                                    *)
LEMMA DepositInv ==
  ASSUME BooksInv, IncomeInv, NEW amount \in Funds, DepositDistribution(amount)
  PROVE  IncomeInv'
<1> USE DEF BooksInv, IncomeInv
<1>1. /\ amount \in Nat /\ Scale \in Nat \ {0} /\ IsFiniteSet(Holders)
  BY MarketplaceAssumption
<1>2. Issued \in Nat \ {0} /\ Total(balance) \in Nat /\ Total(balance) <= Issued
  BY BalancesIssued DEF DepositDistribution
<1>3. PICK k \in Nat : k = (amount * Scale) \div Issued /\ k * Issued <= amount * Scale
  <2>1. amount * Scale \in Nat
    BY <1>1
  <2> QED BY <1>2, <2>1, QuotientBound
<1>4. /\ acc' = acc + k /\ unclaimed' = unclaimed + amount
      /\ custody' = IF custody < unclaimed + amount THEN unclaimed + amount ELSE custody
      /\ UNCHANGED <<balance, pending, snapshot>>
  BY <1>3 DEF DepositDistribution, bookVars
<1>5. /\ acc \in Nat /\ unclaimed \in Nat /\ custody \in Nat
      /\ \A h \in Holders : snapshot[h] \in Nat /\ snapshot[h] <= acc
  BY DEF IncomeTypeOK, SnapshotsTaken
<1>6. IncomeTypeOK'
  BY <1>1, <1>4, <1>5 DEF IncomeTypeOK
<1>7. SnapshotsTaken'
  BY <1>4, <1>5 DEF SnapshotsTaken
<1>8. DistributionSolvent'
  <2> DEFINE before == [h \in Holders |-> Owed(h)]
             after == [h \in Holders |-> Owed(h)']
             more == [h \in Holders |-> balance[h] * k]
  <2>1. ASSUME NEW h \in Holders
        PROVE  /\ before[h] \in Nat /\ more[h] \in Nat /\ after[h] \in Nat
               /\ after[h] = before[h] + more[h]
    <3>1. PICK b \in Nat : b = balance[h]
      BY OwedType
    <3>2. PICK d \in Nat : d = acc - snapshot[h]
      BY OwedType
    <3>3. PICK p \in Nat : p = pending[h] * Scale
      BY OwedType
    <3>4. before[h] = p + b * d
      BY <3>1, <3>2, <3>3 DEF Owed
    <3>5. acc' - snapshot'[h] = d + k
      BY <1>4, <1>5, <3>2
    <3>6. after[h] = p + b * (d + k)
      BY <1>4, <3>1, <3>3, <3>5 DEF Owed
    <3>7. more[h] = b * k
      BY <3>1
    <3>8. b * (d + k) = b * d + b * k /\ b * d \in Nat /\ b * k \in Nat
      OBVIOUS
    <3> QED BY <3>4, <3>6, <3>7, <3>8
  <2>2. /\ before \in [Holders -> Nat] /\ after \in [Holders -> Nat]
        /\ more \in [Holders -> Nat] /\ balance \in [Holders -> Nat]
    BY <2>1, MarketplaceAssumption DEF BooksTypeOK
  <2>3. Total(before) <= unclaimed * Scale
    BY DEF DistributionSolvent
  <2>4. Total(more) = Total(balance) * k
    BY ONLY <1>1, <2>2, TotalScaled
  <2>5. Total(after) = Total([h \in Holders |-> Owed(h)])'
    OBVIOUS
  <2> HIDE DEF before, after, more
  <2>6. Total(after) = Total(before) + Total(more)
    BY <1>1, <2>1, <2>2, TotalAdd
  <2>7. Total(before) \in Nat
    BY <1>1, <2>2, TotalNat
  <2>8. Total(balance) * k <= amount * Scale
    <3>1. PICK t \in Nat : t = Total(balance)
      BY <1>2
    <3>2. PICK i \in Nat : i = Issued
      BY <1>2
    <3>3. t <= i
      BY <1>2, <3>1, <3>2
    <3>4. t * k <= k * i
      BY ONLY <3>3, k \in Nat, t \in Nat, i \in Nat
    <3>5. k * i <= amount * Scale /\ k * i \in Nat /\ amount * Scale \in Nat /\ t * k \in Nat
      BY <1>1, <1>3, <3>2
    <3> QED BY <3>1, <3>4, <3>5
  <2>9. (unclaimed + amount) * Scale = unclaimed * Scale + amount * Scale
    BY <1>1, <1>5
  <2>10. /\ unclaimed * Scale \in Nat /\ amount * Scale \in Nat
         /\ Total(balance) * k \in Nat
    BY <1>1, <1>2, <1>5
  <2> QED BY <1>4, <2>3, <2>4, <2>5, <2>6, <2>7, <2>8, <2>9, <2>10
          DEF DistributionSolvent
<1> QED BY <1>6, <1>7, <1>8

(* A claim pays out at most what the claimant was owed. *)
LEMMA ClaimInv ==
  ASSUME BooksInv, IncomeInv, NEW h \in Holders, ClaimDistribution(h)
  PROVE  IncomeInv'
<1> USE DEF BooksInv, IncomeInv
<1> DEFINE before == [a \in Holders |-> Owed(a)]
           after == [a \in Holders |-> Owed(a)']
<1>1. Scale \in Nat \ {0} /\ IsFiniteSet(Holders)
  BY MarketplaceAssumption
<1>2. PICK amount \in Nat : amount = Claimable(h) /\ amount * Scale <= Owed(h)
  BY ClaimableBound
<1>3. /\ amount <= custody /\ unclaimed' = unclaimed - amount
      /\ custody' = custody - amount
      /\ pending' = [pending EXCEPT ![h] = 0]
      /\ snapshot' = [snapshot EXCEPT ![h] = IF acc > @ THEN acc ELSE @]
      /\ UNCHANGED <<balance, acc>>
  BY <1>2 DEF ClaimDistribution, bookVars
<1>4. /\ acc \in Nat /\ unclaimed \in Nat /\ custody \in Nat
      /\ pending \in [Holders -> Nat] /\ snapshot \in [Holders -> Nat]
      /\ snapshot[h] <= acc
  BY DEF IncomeTypeOK, SnapshotsTaken
<1>5. snapshot' = [snapshot EXCEPT ![h] = acc]
  <2>1. (IF acc > snapshot[h] THEN acc ELSE snapshot[h]) = acc
    BY <1>4
  <2>2. snapshot' = [snapshot EXCEPT ![h] = IF acc > snapshot[h] THEN acc ELSE snapshot[h]]
    BY <1>3
  <2> QED BY <2>1, <2>2
<1>6. \A a \in Holders : before[a] \in Nat
  BY OwedType
<1>7. \A a \in Holders : a # h => after[a] = before[a]
  BY <1>3, <1>4 DEF Owed
<1>8. after[h] = 0
  <2>1. balance[h] \in Nat
    BY OwedType
  <2>2. Owed(h)' = 0 * Scale + balance[h] * (acc - acc)
    BY <1>3, <1>4, <1>5 DEF Owed
  <2> QED BY <1>1, <1>4, <2>1, <2>2
<1>9. before \in [Holders -> Nat] /\ after \in [Holders -> Nat]
  BY <1>6, <1>7, <1>8
<1>10. before[h] = Owed(h) /\ Total(before) <= unclaimed * Scale
  BY DEF DistributionSolvent
<1>11. Total(after) = Total([a \in Holders |-> Owed(a)])'
  OBVIOUS
<1> HIDE DEF before, after
<1>12. Total(before) = Total(after) + before[h]
  BY ONLY <1>1, <1>6, <1>7, <1>8, <1>9, h \in Holders, TotalRaise
<1>13. Total(after) \in Nat /\ Total(before) \in Nat
  BY <1>1, <1>9, TotalNat
<1>14. PICK r \in Nat : r = before[h]
  BY <1>6
<1>15. Total(after) + amount * Scale <= unclaimed * Scale
  <2>1. amount * Scale <= r /\ Total(after) + r <= unclaimed * Scale
    BY <1>2, <1>10, <1>12, <1>14
  <2>2. amount * Scale \in Nat /\ unclaimed * Scale \in Nat
    BY <1>1, <1>2, <1>4
  <2> QED BY <1>13, <1>14, <2>1, <2>2
<1>16. amount <= unclaimed
  <2>1. SUFFICES ASSUME amount >= unclaimed + 1 PROVE FALSE
    BY <1>2, <1>4
  <2>2. amount * Scale >= (unclaimed + 1) * Scale
    <3>1. PICK u \in Nat : u = unclaimed
      BY <1>4
    <3>2. PICK e \in Nat : amount = (u + 1) + e
      <4>1. amount - (u + 1) \in Nat /\ amount = (u + 1) + (amount - (u + 1))
        BY <1>2, <2>1, <3>1
      <4> QED BY <4>1
    <3>3. ((u + 1) + e) * Scale = (u + 1) * Scale + e * Scale
      BY <1>1
    <3>4. e * Scale \in Nat /\ (u + 1) * Scale \in Nat
      BY <1>1
    <3> QED BY <3>1, <3>2, <3>3, <3>4
  <2>3. (unclaimed + 1) * Scale = unclaimed * Scale + Scale
    BY <1>1, <1>4
  <2>4. amount * Scale \in Nat /\ unclaimed * Scale \in Nat
    BY <1>1, <1>2, <1>4
  <2> QED BY <1>1, <1>13, <1>15, <2>2, <2>3, <2>4
<1>17. IncomeTypeOK'
  BY <1>2, <1>3, <1>4, <1>5, <1>16 DEF IncomeTypeOK
<1>18. SnapshotsTaken'
  BY <1>3, <1>4, <1>5 DEF SnapshotsTaken
<1>19. DistributionSolvent'
  <2>1. (unclaimed - amount) * Scale = unclaimed * Scale - amount * Scale
    BY <1>1, <1>2, <1>4
  <2>2. amount * Scale \in Nat /\ unclaimed * Scale \in Nat
    BY <1>1, <1>2, <1>4
  <2> QED BY <1>3, <1>11, <1>13, <1>15, <2>1, <2>2 DEF DistributionSolvent
<1> QED BY <1>17, <1>18, <1>19

(* A step that leaves the distribution and the balances alone. *)
LEMMA UnchangedIncomeInv ==
  ASSUME BooksInv, BooksTypeOK', IncomeInv, custody' \in Nat,
         UNCHANGED <<balance, pending, snapshot, acc, unclaimed>>
  PROVE  IncomeInv'
BY UntouchedIsSettledFirst, SettledFirstInv DEF IncomeInv

LEMMA MoneyIncomeInv ==
  ASSUME BooksInv, BooksTypeOK', IncomeInv, MoneyStep
  PROVE  IncomeInv'
<1>1. ASSUME NEW amount \in Funds, EmergencyWithdraw(amount) PROVE IncomeInv'
  <2>1. custody' \in Nat /\ UNCHANGED <<balance, pending, snapshot, acc, unclaimed>>
    BY <1>1, MarketplaceAssumption DEF EmergencyWithdraw, IncomeInv, IncomeTypeOK, bookVars
  <2> QED BY <2>1, UnchangedIncomeInv
<1>2. ASSUME NEW amount \in Funds, FundContract(amount) PROVE IncomeInv'
  <2>1. custody' \in Nat /\ UNCHANGED <<balance, pending, snapshot, acc, unclaimed>>
    BY <1>2, MarketplaceAssumption DEF FundContract, IncomeInv, IncomeTypeOK, bookVars
  <2> QED BY <2>1, UnchangedIncomeInv
<1> QED BY <1>1, <1>2, DepositInv, ClaimInv DEF MoneyStep

-----------------------------------------------------------------------------
(* The rules every call reads keep their types. *)
LEMMA RecordPurchaseType ==
  ASSUME LimitsTypeOK, NEW b \in Holders, NEW n \in Nat, NEW cost \in Nat,
         RecordPurchase(b, n, cost)
  PROVE  LimitsTypeOK'
<1>1. MaxU32 \in Nat
  BY MarketplaceAssumption
<1>2. \A x \in Nat : Wrapped(x) \in Nat
  BY <1>1 DEF Wrapped
<1>3. ASSUME NEW p \in Periods
      PROVE  [bought[p] EXCEPT ![b] = Wrapped(@ + n)] \in [Holders -> Nat]
  <2>1. bought[p] \in [Holders -> Nat]
    BY DEF LimitsTypeOK
  <2>2. bought[p][b] + n \in Nat
    BY <2>1
  <2>3. Wrapped(bought[p][b] + n) \in Nat
    BY <1>2, <2>2
  <2> QED BY <2>1, <2>3
<1>4. bought' \in [Periods -> [Holders -> Nat]]
  BY <1>3 DEF RecordPurchase, LimitsTypeOK
<1>5. spent' \in [Holders -> Nat]
  BY DEF RecordPurchase, LimitsTypeOK
<1> QED BY <1>4, <1>5 DEF RecordPurchase, LimitsTypeOK

LEMMA PurchaseRules ==
  ASSUME RulesTypeOK, NEW b \in Holders, NEW n \in Nat,
         NEW p \in CurrentPrices \cup Prices \cup {InitialPrice},
         RecordPurchase(b, n, p * n),
         UNCHANGED <<haltVars, eligibilityVars, termVars>>
  PROVE  RulesTypeOK'
<1>1. p \in Nat
  BY TermsAssumption DEF CurrentPrices, RulesTypeOK, TermsTypeOK
<1>2. p * n \in Nat
  BY <1>1
<1>3. LimitsTypeOK'
  BY <1>2, RecordPurchaseType DEF RulesTypeOK
<1> QED BY <1>3 DEF RulesTypeOK, HaltsTypeOK, EligibilityTypeOK, TermsTypeOK,
                    haltVars, eligibilityVars, termVars

LEMMA UnchangedRules ==
  ASSUME RulesTypeOK, UNCHANGED <<haltVars, eligibilityVars, termVars, limitVars>>
  PROVE  RulesTypeOK'
BY DEF RulesTypeOK, HaltsTypeOK, EligibilityTypeOK, TermsTypeOK, LimitsTypeOK,
       haltVars, eligibilityVars, termVars, limitVars

LEMMA RuleStepRules ==
  ASSUME RulesTypeOK, RuleStep
  PROVE  RulesTypeOK'
<1> USE DEF RulesTypeOK
<1>1. CASE Tick /\ UNCHANGED <<haltVars, eligibilityVars, termVars, limitVars>>
  BY <1>1, UnchangedRules
<1>2. CASE HaltsNext /\ UNCHANGED <<now, eligibilityVars, termVars, limitVars>>
  <2>1. HaltsTypeOK'
    BY <1>2, HaltsAssumption
    DEF HaltsTypeOK, HaltsNext, Pause, Unpause, WindDown, PauseFunction,
        UnpauseFunction, ConfigureCircuitBreaker, TriggerCircuitBreaker,
        ResetCircuitBreaker
  <2> QED BY <1>2, <2>1 DEF EligibilityTypeOK, TermsTypeOK, LimitsTypeOK,
                            eligibilityVars, termVars, limitVars
<1>3. CASE EligibilityNext /\ UNCHANGED <<now, haltVars, termVars, limitVars>>
  <2>1. EligibilityTypeOK'
    <3> USE DEF EligibilityTypeOK
    <3>1. ASSUME NEW batch \in SUBSET Holders,
                 AddToWhitelist(batch) \/ RemoveFromWhitelistBatch(batch)
          PROVE  EligibilityTypeOK'
      <4>1. CASE AddToWhitelist(batch)
        BY <4>1 DEF AddToWhitelist
      <4>2. CASE RemoveFromWhitelistBatch(batch)
        <5>1. tier' \in [Holders -> 0..2]
          BY <4>2 DEF RemoveFromWhitelistBatch
        <5>2. expiry' \in [Holders -> Expiries \cup {None}]
          BY <4>2 DEF RemoveFromWhitelistBatch
        <5> QED BY <4>2, <5>1, <5>2 DEF RemoveFromWhitelistBatch
      <4> QED BY <3>1, <4>1, <4>2
    <3>2. ASSUME NEW a \in Holders, RemoveFromWhitelist(a) \/ RemoveTransferRestrictions(a)
          PROVE  EligibilityTypeOK'
      BY <3>2 DEF RemoveFromWhitelist, RemoveTransferRestrictions
    <3>3. ASSUME NEW a \in Holders, NEW e \in Expiries, SetWhitelistExpiry(a, e)
          PROVE  EligibilityTypeOK'
      BY <3>3 DEF SetWhitelistExpiry
    <3>4. ASSUME NEW a \in Holders, NEW t \in Tiers, SetWhitelistTier(a, t)
          PROVE  EligibilityTypeOK'
      BY <3>4, EligibilityAssumption DEF SetWhitelistTier
    <3>5. ASSUME NEW a \in Holders, NEW r \in Restrictions, SetTransferRestrictions(a, r)
          PROVE  EligibilityTypeOK'
      BY <3>5 DEF SetTransferRestrictions
    <3>6. ASSUME NEW enabled \in GateSettings, SetAllowlistEnabled(enabled)
          PROVE  EligibilityTypeOK'
      BY <3>6, EligibilityAssumption DEF SetAllowlistEnabled
    <3>7. ASSUME NEW a \in TransferGated,
                 AddToTransferWhitelist(a) \/ RemoveFromTransferWhitelist(a)
          PROVE  EligibilityTypeOK'
      BY <3>7, EligibilityAssumption
      DEF AddToTransferWhitelist, RemoveFromTransferWhitelist
    <3> QED BY <1>3, <3>1, <3>2, <3>3, <3>4, <3>5, <3>6, <3>7 DEF EligibilityNext
  <2> QED BY <1>3, <2>1 DEF HaltsTypeOK, TermsTypeOK, LimitsTypeOK,
                            haltVars, termVars, limitVars
<1>4. CASE TermsNext /\ UNCHANGED <<now, haltVars, eligibilityVars, limitVars>>
  <2>1. TermsTypeOK'
    BY <1>4, TermsAssumption
    DEF TermsTypeOK, TermsNext, SetPrice, UpdatePrice, SetOracle, ClearOracle,
        SetMaxSharesPerUser, SetNftContract
  <2> QED BY <1>4, <2>1 DEF HaltsTypeOK, EligibilityTypeOK, LimitsTypeOK,
                            haltVars, eligibilityVars, limitVars
<1>5. CASE LimitsNext /\ UNCHANGED <<now, haltVars, eligibilityVars, termVars>>
  <2>1. LimitsTypeOK'
    <3> USE LimitsAssumption DEF LimitsTypeOK
    <3>1. ASSUME NEW config \in LimitConfigs, SetPurchaseLimits(config)
          PROVE  LimitsTypeOK'
      BY <3>1 DEF SetPurchaseLimits
    <3>2. ASSUME NEW c \in LimitConfigs, SetPurchaseLimitsEnabled(c.enabled)
          PROVE  LimitsTypeOK'
      BY <3>2 DEF SetPurchaseLimitsEnabled, LimitConfig
    <3>3. ASSUME NEW t \in 1..2, NEW m \in Multipliers, SetTierLimits(t, m)
          PROVE  LimitsTypeOK'
      BY <3>3 DEF SetTierLimits
    <3>4. ASSUME NEW a \in Holders, NEW isExempt \in ExemptSettings,
                 SetLimitExempt(a, isExempt)
          PROVE  LimitsTypeOK'
      BY <3>4 DEF SetLimitExempt
    <3>5. ASSUME NEW a \in Holders, NEW period \in Periods,
                 ResetUserPurchaseLimits(a, period)
          PROVE  LimitsTypeOK'
      <4>1. bought' \in [Periods -> [Holders -> Nat]]
        BY <3>5 DEF ResetUserPurchaseLimits
      <4>2. spent' \in [Holders -> Nat]
        BY <3>5 DEF ResetUserPurchaseLimits
      <4> QED BY <3>5, <4>1, <4>2 DEF ResetUserPurchaseLimits
    <3> QED BY <1>5, <3>1, <3>2, <3>3, <3>4, <3>5 DEF LimitsNext
  <2> QED BY <1>5, <2>1 DEF HaltsTypeOK, EligibilityTypeOK, TermsTypeOK,
                            haltVars, eligibilityVars, termVars
<1> QED BY <1>1, <1>2, <1>3, <1>4, <1>5 DEF RuleStep

LEMMA NextRules ==
  ASSUME RulesTypeOK, [Next]_vars
  PROVE  RulesTypeOK'
<1>1. ASSUME NEW h \in Holders, NEW n \in Shares \ {0}, HolderStep(h, n)
      PROVE  RulesTypeOK'
  <2>1. n \in Nat
    BY MarketplaceAssumption
  <2>2. CASE BuyShares(h, n)
    BY <2>1, <2>2, PurchaseRules DEF BuyShares
  <2>3. CASE \E duration \in VestingTerms : BuyVestedShares(h, n, duration)
    BY <2>1, <2>3, PurchaseRules DEF BuyVestedShares
  <2>4. CASE \E o \in OrderIds : BuyFromOrder(h, o, n)
    BY <2>1, <2>4, PurchaseRules DEF BuyFromOrder
  <2>5. CASE \/ PlaceSellOrder(h, n) \/ BuybackShares(h, n) \/ BurnShares(h, n)
             \/ LockForBridge(h, n) \/ UnlockFromBridge(h, n)
    BY <2>5, UnchangedRules DEF PlaceSellOrder, BuybackShares, BurnShares,
       LockForBridge, UnlockFromBridge, ruleVars
  <2> QED BY <1>1, <2>2, <2>3, <2>4, <2>5 DEF HolderStep
<1>2. ASSUME DelistAsset
      PROVE  RulesTypeOK'
  BY <1>2 DEF DelistAsset, RulesTypeOK, HaltsTypeOK, EligibilityTypeOK, TermsTypeOK,
              LimitsTypeOK, eligibilityVars, termVars, limitVars
<1>3. CASE ShareStep
  <2>1. ASSUME NEW b \in Holders, NEW requests \in Batches, BatchBuyShares(b, requests)
        PROVE  RulesTypeOK'
    BY <2>1, UnchangedRules DEF BatchBuyShares, ruleVars
  <2>2. ASSUME NEW h \in Holders, ClaimVestedShares(h)
        PROVE  RulesTypeOK'
    BY <2>2, UnchangedRules DEF ClaimVestedShares, ruleVars
  <2>3. ASSUME NEW o \in OrderIds, CancelSellOrder(o)
        PROVE  RulesTypeOK'
    BY <2>3, UnchangedRules DEF CancelSellOrder, ReturnEscrow, ruleVars
  <2>4. ASSUME NEW from \in Holders, NEW credit \in [Holders -> 0..balance[from]],
               BatchTransfer(from, credit)
        PROVE  RulesTypeOK'
    BY <2>4, UnchangedRules DEF BatchTransfer, ruleVars
  <2>5. ASSUME NEW n \in Supplies, SetTotalShares(n) \/ IncreaseTotalShares(n)
        PROVE  RulesTypeOK'
    BY <2>5, UnchangedRules DEF SetTotalShares, IncreaseTotalShares, ruleVars
  <2> QED BY <1>1, <1>2, <1>3, <2>1, <2>2, <2>3, <2>4, <2>5 DEF ShareStep
<1>4. CASE MoneyStep
  BY <1>4, UnchangedRules DEF MoneyStep, DepositDistribution, ClaimDistribution,
     EmergencyWithdraw, FundContract, ruleVars
<1>5. CASE UNCHANGED vars
  BY <1>5, UnchangedRules DEF vars, ruleVars
<1> QED BY <1>3, <1>4, <1>5, RuleStepRules DEF Next

-----------------------------------------------------------------------------
LEMMA InitMarketInv == Init => MarketInv
<1> SUFFICES ASSUME Init PROVE MarketInv
  OBVIOUS
<1>1. BooksInv
  BY InitBooksInv
<1>2. RulesTypeOK
  <2>1. HaltsTypeOK
    BY DEF Init, HaltsInit, HaltsTypeOK
  <2>2. TermsTypeOK
    BY TermsAssumption DEF Init, TermsInit, TermsTypeOK
  <2>3. EligibilityTypeOK
    <3>1. /\ tier = [h \in Holders |-> 0] /\ expiry = [h \in Holders |-> None]
          /\ transferEntry = [h \in Holders |-> None]
          /\ restriction = [h \in Holders |-> None]
          /\ whitelisted = {} /\ gateOn = TRUE
      BY DEF Init, EligibilityInit
    <3>2. tier \in [Holders -> 0..2]
      BY <3>1
    <3> QED BY <3>1, <3>2 DEF EligibilityTypeOK
  <2>4. LimitsTypeOK
    BY DEF Init, LimitsInit, LimitsTypeOK, NoLimits, LimitConfig, BasisPoints
  <2> QED BY <2>1, <2>2, <2>3, <2>4 DEF RulesTypeOK
<1>3. IncomeTypeOK /\ SnapshotsTaken
  BY DEF Init, IncomeTypeOK, SnapshotsTaken
<1>4. DistributionSolvent
  <2>1. [h \in Holders |-> Owed(h)] \in [Holders -> Nat]
    <3>1. \A h \in Holders : Owed(h) \in Nat
      BY <1>1, <1>3, OwedType DEF BooksInv
    <3> QED BY <3>1
  <2>2. ASSUME NEW h \in Holders PROVE Owed(h) = 0
    BY MarketplaceAssumption DEF Init, Owed
  <2>3. Total([h \in Holders |-> Owed(h)]) = 0
    <3>1. \A h \in Holders : [a \in Holders |-> Owed(a)][h] = 0
      BY <2>2
    <3> QED BY ONLY <2>1, <3>1, TotalZero
  <2>4. unclaimed * Scale = 0
    BY MarketplaceAssumption DEF Init
  <2> QED BY <2>3, <2>4 DEF DistributionSolvent
<1> QED BY <1>1, <1>2, <1>3, <1>4 DEF MarketInv, IncomeInv

LEMMA NextMarketInv == MarketInv /\ [Next]_vars => MarketInv'
<1> SUFFICES ASSUME MarketInv, [Next]_vars PROVE MarketInv'
  OBVIOUS
<1> USE DEF MarketInv
<1>1. BooksInv' /\ BooksTypeOK'
  BY NextBooksInv DEF BooksInv
<1>2. RulesTypeOK'
  BY NextRules
<1>3. IncomeInv'
  <2>1. CASE ShareStep
    BY <1>1, <2>1, ShareSettledFirst, SettledFirstInv DEF BooksInv, IncomeInv
  <2>2. CASE MoneyStep
    BY <1>1, <2>2, MoneyIncomeInv
  <2>3. CASE RuleStep \/ UNCHANGED vars
    <3>1. custody' \in Nat /\ UNCHANGED <<balance, pending, snapshot, acc, unclaimed>>
      BY <2>3 DEF RuleStep, vars, bookVars, incomeVars, IncomeInv, IncomeTypeOK
    <3> QED BY <1>1, <3>1, UnchangedIncomeInv
  <2> QED BY <2>1, <2>2, <2>3 DEF Next
<1> QED BY <1>1, <1>2, <1>3

(* In every reachable state the books, the rules and the distribution are  *)
(* well-typed and consistent: the inductive invariant of the whole module. *)
THEOREM MarketInvariant == Spec => []MarketInv
<1> QED BY InitMarketInv, NextMarketInv, PTL DEF Spec

(* No call drives a sum owed, the payment-token balance or a purchase      *)
(* counter below zero, or stores a share count outside u32.                *)
THEOREM MarketplaceTyped == Spec => []TypeOK
<1>1. MarketInv => TypeOK
  BY DEF MarketInv, BooksInv, RulesTypeOK, IncomeInv, TypeOK
<1> QED BY MarketInvariant, <1>1, PTL

(* Whatever deposits, claims and share movements have run, holders         *)
(* together are owed no more than was deposited and not yet paid.          *)
THEOREM DistributionAlwaysSolvent == Spec => []DistributionSolvent
<1>1. MarketInv => DistributionSolvent
  BY DEF MarketInv, IncomeInv
<1> QED BY MarketInvariant, <1>1, PTL

-----------------------------------------------------------------------------
(* A step that neither deposits nor pays out. *)
EntitlementStep ==
  unclaimed' = unclaimed => \A h \in Holders : Claimable(h)' = Claimable(h)

LEMMA NextEntitlements ==
  ASSUME MarketInv, MarketInv', [Next]_vars
  PROVE  EntitlementStep
<1> USE DEF MarketInv, BooksInv, IncomeInv
<1>1. ASSUME SettledFirst PROVE EntitlementStep
  BY <1>1, SettledOwed DEF EntitlementStep
<1>2. unclaimed \in Nat
  BY DEF IncomeTypeOK
<1>3. ASSUME NEW amount \in Funds, DepositDistribution(amount) PROVE EntitlementStep
  BY <1>2, <1>3, MarketplaceAssumption DEF EntitlementStep, DepositDistribution
<1>4. ASSUME NEW h \in Holders, ClaimDistribution(h) PROVE EntitlementStep
  BY <1>2, <1>4, ClaimableBound DEF EntitlementStep, ClaimDistribution
<1>5. ASSUME UNCHANGED <<balance, pending, snapshot, acc, unclaimed>> PROVE EntitlementStep
  BY <1>1, <1>5, UntouchedIsSettledFirst
<1>6. CASE MoneyStep
  BY <1>3, <1>4, <1>5, <1>6 DEF MoneyStep, EmergencyWithdraw, FundContract, bookVars
<1>7. CASE RuleStep \/ UNCHANGED vars
  BY <1>5, <1>7 DEF RuleStep, vars, bookVars, incomeVars
<1>8. CASE ShareStep
  BY <1>1, <1>8, ShareSettledFirst
<1> QED BY <1>6, <1>7, <1>8 DEF Next

(* Buying, selling, vesting, transferring, bridging or burning shares      *)
(* never changes what anybody can claim.                                   *)
THEOREM EntitlementsStayExact == Spec => EntitlementsExact
<1>1. MarketInv /\ MarketInv' /\ [Next]_vars => [EntitlementStep]_vars
  BY NextEntitlements
<1> QED BY MarketInvariant, <1>1, PTL DEF Spec, EntitlementsExact, EntitlementStep

-----------------------------------------------------------------------------
(* The four ways a step may treat a balance. *)
Credited(h) == balance'[h] \in Nat /\ balance'[h] >= balance[h]
DebitAllowed(h) ==
  \/ Unlocked(h)
  \/ bridged'[h] - bridged[h] = balance[h] - balance'[h]
  \/ retired' - retired = balance[h] - balance'[h]

LEMMA LockupByHolder ==
  ASSUME BooksInv, \A h \in Holders : Credited(h) \/ DebitAllowed(h)
  PROVE  LockupStep
<1> SUFFICES ASSUME NEW h \in Holders, balance'[h] < balance[h], now < unlockAt[h]
             PROVE  \/ bridged'[h] - bridged[h] = balance[h] - balance'[h]
                    \/ retired' - retired = balance[h] - balance'[h]
  BY DEF LockupStep
<1>1. balance[h] \in Nat /\ unlockAt[h] \in Nat /\ now \in Nat
  BY MarketplaceAssumption, MaxTimeAssumption DEF BooksInv, BooksTypeOK, ClockTypeOK
<1>2. ~ Credited(h)
  BY <1>1 DEF Credited
<1>3. ~ Unlocked(h)
  BY <1>1 DEF Unlocked
<1> QED BY <1>2, <1>3 DEF DebitAllowed

(* A balance in which one holder is credited. *)
LEMMA OneCredited ==
  ASSUME BooksInv, NEW b \in Holders, NEW n \in Nat,
         balance' = [balance EXCEPT ![b] = @ + n]
  PROVE  LockupStep
<1>1. balance \in [Holders -> Nat]
  BY MarketplaceAssumption DEF BooksInv, BooksTypeOK
<1>2. \A h \in Holders : Credited(h)
  BY <1>1 DEF Credited
<1> QED BY <1>2, LockupByHolder

(* A balance in which one holder is debited, by a call that may. *)
LEMMA OneDebited ==
  ASSUME BooksInv, NEW s \in Holders, NEW n \in Nat,
         balance' = [balance EXCEPT ![s] = @ - n], DebitAllowed(s)
  PROVE  LockupStep
<1>1. balance \in [Holders -> Nat]
  BY MarketplaceAssumption DEF BooksInv, BooksTypeOK
<1>2. \A h \in Holders : h # s => Credited(h)
  BY <1>1 DEF Credited
<1> QED BY <1>2, LockupByHolder

LEMMA BalancesKept ==
  ASSUME BooksInv, UNCHANGED balance
  PROVE  LockupStep
<1>1. balance \in [Holders -> Nat]
  BY MarketplaceAssumption DEF BooksInv, BooksTypeOK
<1>2. \A h \in Holders : Credited(h)
  BY <1>1 DEF Credited
<1> QED BY <1>2, LockupByHolder

-----------------------------------------------------------------------------
(* The calls of one holder, for one amount. *)
LEMMA HolderLockup ==
  ASSUME BooksInv, NEW h \in Holders, NEW n \in Shares \ {0}, HolderStep(h, n)
  PROVE  LockupStep
<1>1. n \in Nat
  BY MarketplaceAssumption
<1>2. balance[h] \in Nat /\ bridged[h] \in Nat /\ retired \in Nat
  BY MarketplaceAssumption DEF BooksInv, BooksTypeOK
<1>3. CASE BuyShares(h, n)
  BY <1>1, <1>3, OneCredited DEF BuyShares
<1>4. CASE \E duration \in VestingTerms : BuyVestedShares(h, n, duration)
  BY <1>4, BalancesKept DEF BuyVestedShares
<1>5. CASE PlaceSellOrder(h, n)
  <2>1. Unlocked(h) /\ balance' = [balance EXCEPT ![h] = @ - n]
    BY <1>5 DEF PlaceSellOrder, MayOffer
  <2> QED BY <1>1, <2>1, OneDebited DEF DebitAllowed
<1>6. CASE \E o \in OrderIds : BuyFromOrder(h, o, n)
  BY <1>1, <1>6, OneCredited DEF BuyFromOrder
<1>7. CASE BuybackShares(h, n)
  <2>1. Unlocked(h) /\ balance' = [balance EXCEPT ![h] = @ - n]
    BY <1>7 DEF BuybackShares
  <2> QED BY <1>1, <2>1, OneDebited DEF DebitAllowed
<1>8. CASE BurnShares(h, n)
  <2>1. /\ balance' = [balance EXCEPT ![h] = @ - n]
        /\ retired' = retired + n
    BY <1>8 DEF BurnShares
  <2>2. balance'[h] = balance[h] - n
    BY <2>1 DEF BooksInv, BooksTypeOK
  <2>3. retired' - retired = balance[h] - balance'[h]
    BY <1>1, <1>2, <2>1, <2>2
  <2> QED BY <1>1, <2>1, <2>3, OneDebited DEF DebitAllowed
<1>9. CASE LockForBridge(h, n)
  <2>1. /\ balance' = [balance EXCEPT ![h] = @ - n]
        /\ bridged' = [bridged EXCEPT ![h] = @ + n]
    BY <1>9 DEF LockForBridge
  <2>2. balance'[h] = balance[h] - n /\ bridged'[h] = bridged[h] + n
    BY <2>1 DEF BooksInv, BooksTypeOK
  <2>3. bridged'[h] - bridged[h] = balance[h] - balance'[h]
    BY <1>1, <1>2, <2>2
  <2> QED BY <1>1, <2>1, <2>3, OneDebited DEF DebitAllowed
<1>10. CASE UnlockFromBridge(h, n)
  BY <1>1, <1>10, OneCredited DEF UnlockFromBridge
<1> QED BY <1>3, <1>4, <1>5, <1>6, <1>7, <1>8, <1>9, <1>10 DEF HolderStep

(* A batch credits what its accepted items add up to. *)
LEMMA BatchBuyLockup ==
  ASSUME BooksInv, NEW b \in Holders, NEW requests \in Batches, BatchBuyShares(b, requests)
  PROVE  LockupStep
<1>1. requests \in Seq(Nat)
  BY MarketplaceAssumption
<1>2. PICK accepted \in SUBSET (DOMAIN requests) :
        /\ AcceptedItems(b, requests, accepted)
        /\ balance' = [balance EXCEPT ![b] = @ + Filled(requests, accepted)]
  BY DEF BatchBuyShares
<1>3. Filled(requests, accepted) \in Nat
  BY <1>1, <1>2, FilledBound
<1> QED BY <1>2, <1>3, OneCredited

(* A claim credits what the schedules give, or up to the top of u32. *)
LEMMA ClaimLockup ==
  ASSUME BooksInv, NEW h \in Holders, ClaimVestedShares(h)
  PROVE  LockupStep
<1> USE MarketplaceAssumption DEF BooksInv
<1>1. ClaimOf(h) \in [Grants -> Nat]
  <2>1. ClaimOf(h) = [g \in Grants |-> ClaimOf(h)[g]]
    BY DEF ClaimOf
  <2>2. \A g \in Grants : ClaimOf(h)[g] \in Nat
    BY ClaimOfBound
  <2> QED BY ONLY <2>1, <2>2
<1>2. PICK n \in Nat : n = Total(ClaimOf(h))
  BY <1>1, TotalNat
<1>3. balance' = [balance EXCEPT ![h] = SaturatingAdd(@, n, MaxU32)]
  BY <1>2 DEF ClaimVestedShares
<1>4. balance[h] \in Nat /\ balance[h] <= MaxU32
  BY DEF BooksTypeOK
<1>5. PICK d \in Nat : SaturatingAdd(balance[h], n, MaxU32) = balance[h] + d
  <2>1. n \in Nat /\ MaxU32 - balance[h] \in Nat
    BY <1>4
  <2>2. balance[h] + (MaxU32 - balance[h]) = MaxU32
    BY <1>4
  <2>3. \/ SaturatingAdd(balance[h], n, MaxU32) = balance[h] + n
        \/ SaturatingAdd(balance[h], n, MaxU32) = balance[h] + (MaxU32 - balance[h])
    BY <2>2 DEF SaturatingAdd
  <2> QED BY <2>1, <2>3
<1>6. balance' = [balance EXCEPT ![h] = @ + d]
  BY <1>3, <1>5
<1> QED BY <1>6, OneCredited

(* Orders only go back to the seller's balance. *)
LEMMA CancelLockup ==
  ASSUME BooksInv, NEW o \in OrderIds, CancelSellOrder(o)
  PROVE  LockupStep
<1>1. seller[o] \in Holders /\ escrow[o] \in Nat
  BY MarketplaceAssumption DEF CancelSellOrder, BooksInv, BooksTypeOK
<1>2. balance' = [balance EXCEPT ![seller[o]] = @ + escrow[o]]
  BY DEF CancelSellOrder, ReturnEscrow
<1> QED BY <1>1, <1>2, OneCredited

LEMMA DelistLockup ==
  ASSUME BooksInv, DelistAsset
  PROVE  LockupStep
<1>1. balance' = [h \in Holders |-> balance[h] + EscrowOf(h)]
  BY DEF DelistAsset, Returned
<1>2. \A h \in Holders : EscrowOf(h) \in Nat
  BY EscrowBySeller
<1>3. \A h \in Holders : balance[h] \in Nat
  BY MarketplaceAssumption DEF BooksInv, BooksTypeOK
<1>4. \A h \in Holders : Credited(h)
  BY <1>1, <1>2, <1>3 DEF Credited
<1> QED BY <1>4, LockupByHolder

(* A transfer debits its sender only, who is unlocked. *)
LEMMA TransferLockup ==
  ASSUME BooksInv, NEW from \in Holders, NEW credit \in [Holders -> 0..balance[from]],
         BatchTransfer(from, credit)
  PROVE  LockupStep
<1>1. /\ Unlocked(from)
      /\ \A h \in Holders : h # from => balance'[h] = balance[h] + credit[h]
  BY DEF BatchTransfer
<1>2. \A h \in Holders : balance[h] \in Nat
  BY MarketplaceAssumption DEF BooksInv, BooksTypeOK
<1>3. \A h \in Holders : credit[h] \in Nat
  BY <1>2
<1>4. \A h \in Holders : h # from => Credited(h)
  BY <1>1, <1>2, <1>3 DEF Credited
<1>5. DebitAllowed(from)
  BY <1>1 DEF DebitAllowed
<1> QED BY <1>4, <1>5, LockupByHolder

-----------------------------------------------------------------------------
LEMMA NextLockup ==
  ASSUME BooksInv, Next
  PROVE  LockupStep
<1>1. CASE MoneyStep \/ RuleStep
  <2>1. UNCHANGED balance
    BY <1>1 DEF MoneyStep, RuleStep, DepositDistribution, ClaimDistribution,
                EmergencyWithdraw, FundContract, bookVars
  <2> QED BY <2>1, BalancesKept
<1>2. ASSUME NEW n \in Supplies, SetTotalShares(n) \/ IncreaseTotalShares(n)
      PROVE  LockupStep
  BY <1>2, BalancesKept DEF SetTotalShares, IncreaseTotalShares
<1>3. CASE ShareStep
  BY <1>2, <1>3, HolderLockup, BatchBuyLockup, ClaimLockup, CancelLockup,
     TransferLockup, DelistLockup DEF ShareStep
<1> QED BY <1>1, <1>3 DEF Next

(* Before a holder's unlock time no sale, redemption or transfer takes     *)
(* shares from the holder's balance, whatever other calls have credited    *)
(* it, moved its lock or returned its orders in the meantime.              *)
THEOREM LockupAlwaysHolds == Spec => LockupHolds
<1>1. BooksInv /\ [Next]_vars => [LockupStep]_vars
  BY NextLockup
<1> QED BY BooksInvariant, <1>1, PTL DEF Spec, LockupHolds

-----------------------------------------------------------------------------
(* Vesting schedules. *)
PaidInTime(s, t) ==
  s.owner # None =>
    /\ s.cliff = 0 /\ s.duration > 0 /\ s.start <= t
    /\ s.claimed * s.duration <= s.amount * (t - s.start)
VestingInv == \A g \in Grants : PaidInTime(grant[g], now)

(* Whatever the elapsed time e, a fraction e / d of a, rounded down, is no *)
(* more than that fraction.                                                *)
LEMMA FractionRounds ==
  ASSUME NEW a \in Nat, NEW e \in Nat, NEW d \in Nat \ {0}
  PROVE  ((a * e) \div d) * d <= a * e
<1>1. PICK x \in Nat : x = a * e
  OBVIOUS
<1>2. PICK q \in Int : q = x \div d
  BY <1>1
<1>3. q >= 0 /\ d * q <= x
  BY <1>2
<1> QED BY <1>1, <1>2, <1>3

LEMMA VestedInTime ==
  ASSUME NEW s \in Grant, NEW t \in Nat, s.cliff = 0, s.duration > 0, s.start <= t
  PROVE  Vested(s, t) * s.duration <= s.amount * (t - s.start)
<1>1. PICK a \in Nat : a = s.amount
  BY MarketplaceAssumption DEF Grant
<1>2. PICK d \in Nat \ {0} : d = s.duration
  BY DEF Grant
<1>3. s.start \in Nat
  BY DEF Grant
<1>4. PICK e \in Nat : e = t - s.start
  BY <1>3
<1>5. CASE e >= d
  <2>1. Vested(s, t) = a
    BY <1>1, <1>2, <1>3, <1>4, <1>5 DEF Vested
  <2>2. a * d <= a * e
    BY <1>5
  <2> QED BY <1>1, <1>2, <1>4, <2>1, <2>2
<1>6. CASE e < d
  <2>1. Vested(s, t) = (a * e) \div d
    <3>1. /\ ~ (t < s.start + s.cliff) /\ ~ (t >= s.start + s.duration)
          /\ ~ (s.duration <= s.cliff)
          /\ t - (s.start + s.cliff) = e /\ s.duration - s.cliff = d
      BY <1>2, <1>3, <1>4, <1>6
    <3> QED BY <1>1, <3>1 DEF Vested
  <2> QED BY <1>1, <1>2, <1>4, <2>1, FractionRounds
<1> QED BY <1>5, <1>6

(* In terms of what is left: the unelapsed share is still there. *)
LEMMA LeftInTime ==
  ASSUME NEW a \in Nat, NEW c \in Nat, NEW d \in Nat, NEW e \in Nat, c * d <= a * e
  PROVE  (a - c) * d >= a * (d - e)
<1>1. (a - c) * d = a * d - c * d
  OBVIOUS
<1>2. a * (d - e) = a * d - a * e
  OBVIOUS
<1>3. PICK x \in Nat : x = a * d
  OBVIOUS
<1>4. PICK y \in Nat : y = c * d
  OBVIOUS
<1>5. PICK z \in Nat : z = a * e
  OBVIOUS
<1>6. x - y >= x - z
  BY <1>4, <1>5
<1> QED BY <1>1, <1>2, <1>3, <1>4, <1>5, <1>6

ScheduleStep ==
  \A g \in Grants :
    grant[g].owner # None =>
      GrantRest'[g] * grant[g].duration >=
        grant[g].amount * (grant[g].duration - (now - grant[g].start))

LEMMA GrantParts ==
  ASSUME BooksInv, VestingInv, NEW g \in Grants, grant[g].owner # None
  PROVE  /\ grant[g] \in Grant /\ now \in Nat
         /\ grant[g].amount \in Nat /\ grant[g].claimed \in Nat
         /\ grant[g].duration \in Nat \ {0} /\ grant[g].start \in Nat
         /\ grant[g].cliff = 0 /\ now - grant[g].start \in Nat
         /\ grant[g].claimed * grant[g].duration
              <= grant[g].amount * (now - grant[g].start)
<1>1. grant[g] \in Grant /\ now \in Nat
  BY MaxTimeAssumption DEF BooksInv, BooksTypeOK, ClockTypeOK
<1>2. /\ grant[g].cliff = 0 /\ grant[g].duration > 0 /\ grant[g].start <= now
      /\ grant[g].claimed * grant[g].duration
           <= grant[g].amount * (now - grant[g].start)
  BY DEF VestingInv, PaidInTime
<1>3. /\ grant[g].amount \in Nat /\ grant[g].claimed \in Nat
      /\ grant[g].duration \in Nat /\ grant[g].start \in Nat
  BY <1>1, MarketplaceAssumption DEF Grant
<1> QED BY <1>1, <1>2, <1>3

(* A schedule the step leaves alone. *)
LEMMA ScheduleKept ==
  ASSUME BooksInv, VestingInv, NEW g \in Grants, grant'[g] = grant[g],
         now' \in Nat, now' >= now
  PROVE  /\ PaidInTime(grant[g], now)'
         /\ grant[g].owner # None =>
              GrantRest'[g] * grant[g].duration >=
                grant[g].amount * (grant[g].duration - (now - grant[g].start))
<1> SUFFICES ASSUME grant[g].owner # None
             PROVE  /\ PaidInTime(grant[g], now)'
                    /\ GrantRest'[g] * grant[g].duration >=
                         grant[g].amount * (grant[g].duration - (now - grant[g].start))
  BY DEF PaidInTime
<1>1. PICK a \in Nat : a = grant[g].amount
  BY GrantParts
<1>2. PICK c \in Nat : c = grant[g].claimed
  BY GrantParts
<1>3. PICK d \in Nat \ {0} : d = grant[g].duration
  BY GrantParts
<1>4. PICK e \in Nat : e = now - grant[g].start
  BY GrantParts
<1>5. c * d <= a * e
  BY <1>1, <1>2, <1>3, <1>4, GrantParts
<1>6. (a - c) * d >= a * (d - e)
  BY <1>5, LeftInTime
<1>7. GrantRest'[g] = a - c
  BY <1>1, <1>2 DEF GrantRest
<1>8. PICK f \in Nat : f = now' - grant[g].start /\ e <= f
  BY <1>4, GrantParts
<1>9. c * d <= a * f
  <2>1. a * e <= a * f
    BY <1>8
  <2>2. c * d \in Nat /\ a * e \in Nat /\ a * f \in Nat
    OBVIOUS
  <2> QED BY <1>5, <2>1, <2>2
<1>10. grant[g].start <= now' /\ grant[g].cliff = 0
  BY GrantParts
<1> QED BY <1>1, <1>2, <1>3, <1>4, <1>6, <1>7, <1>8, <1>9, <1>10 DEF PaidInTime

LEMMA SchedulesKept ==
  ASSUME BooksInv, VestingInv, grant' = grant, now' \in Nat, now' >= now
  PROVE  VestingInv' /\ ScheduleStep
BY ScheduleKept DEF VestingInv, ScheduleStep

LEMMA BuyVestedSchedules ==
  ASSUME BooksInv, VestingInv, NEW b \in Holders, NEW n \in Shares \ {0},
         NEW duration \in VestingTerms, BuyVestedShares(b, n, duration)
  PROVE  VestingInv' /\ ScheduleStep
<1>1. PICK g \in Grants :
        /\ grant[g] = NoGrant
        /\ grant' = [grant EXCEPT ![g] =
                       [owner |-> b, start |-> now, cliff |-> 0,
                        duration |-> duration, amount |-> n, claimed |-> 0]]
  BY DEF BuyVestedShares
<1>2. /\ now' = now /\ now \in Nat /\ now' \in Nat /\ now' >= now
      /\ duration \in Nat \ {0} /\ n \in Nat
  BY MarketplaceAssumption, MaxTimeAssumption
  DEF BuyVestedShares, BooksInv, ClockTypeOK
<1>3. grant[g].owner = None
  BY <1>1 DEF NoGrant
<1>4. PaidInTime(grant[g], now)'
  <2>1. grant'[g] = [owner |-> b, start |-> now, cliff |-> 0,
                     duration |-> duration, amount |-> n, claimed |-> 0]
    BY <1>1 DEF BooksInv, BooksTypeOK
  <2>2. 0 * duration <= n * (now - now)
    BY <1>2
  <2> QED BY <1>2, <2>1, <2>2 DEF PaidInTime
<1>5. ASSUME NEW i \in Grants, i # g PROVE grant'[i] = grant[i]
  BY <1>1, <1>5 DEF BooksInv, BooksTypeOK
<1> QED BY <1>2, <1>3, <1>4, <1>5, ScheduleKept DEF VestingInv, ScheduleStep

(* A claim pays a schedule up to what has vested, rounded down.            *)
LEMMA ClaimSchedules ==
  ASSUME BooksInv, VestingInv, NEW h \in Holders, ClaimVestedShares(h)
  PROVE  VestingInv' /\ ScheduleStep
<1>1. /\ now' = now /\ now \in Nat /\ now' \in Nat /\ now' >= now
  BY MaxTimeAssumption DEF ClaimVestedShares, ruleVars, BooksInv, ClockTypeOK
<1>2. ASSUME NEW g \in Grants
      PROVE  grant'[g] = IF ClaimOf(h)[g] = 0 THEN grant[g]
                         ELSE IF grant[g].claimed + ClaimOf(h)[g] < grant[g].amount
                         THEN [grant[g] EXCEPT !.claimed = @ + ClaimOf(h)[g]]
                         ELSE NoGrant
  BY DEF ClaimVestedShares
<1>3. ASSUME NEW g \in Grants
      PROVE  /\ PaidInTime(grant[g], now)'
             /\ grant[g].owner # None =>
                  GrantRest'[g] * grant[g].duration >=
                    grant[g].amount * (grant[g].duration - (now - grant[g].start))
  <2>1. CASE ClaimOf(h)[g] = 0
    <3>1. grant'[g] = grant[g]
      BY <1>2, <2>1
    <3> QED BY <1>1, <3>1, ScheduleKept
  <2>2. CASE ClaimOf(h)[g] # 0
    <3>1. grant[g].owner = h
      BY <2>2 DEF ClaimOf
    <3>2. h # None
      BY EligibilityAssumption
    <3>3. PICK a \in Nat : a = grant[g].amount
      BY <3>1, <3>2, GrantParts
    <3>4. PICK c \in Nat : c = grant[g].claimed
      BY <3>1, <3>2, GrantParts
    <3>5. PICK d \in Nat \ {0} : d = grant[g].duration
      BY <3>1, <3>2, GrantParts
    <3>6. PICK e \in Nat : e = now - grant[g].start
      BY <3>1, <3>2, GrantParts
    <3>7. PICK v \in Nat : v = Vested(grant[g], now) /\ v <= a
      BY <3>1, <3>2, <3>3, GrantParts, VestedBound
    <3>8. v * d <= a * e
      <4>1. /\ grant[g] \in Grant /\ grant[g].cliff = 0 /\ grant[g].duration > 0
            /\ grant[g].start <= now
        BY <3>1, <3>2, GrantParts DEF VestingInv, PaidInTime
      <4> QED BY <1>1, <3>3, <3>5, <3>6, <3>7, <4>1, VestedInTime
    <3>9. ClaimOf(h)[g] = v - c /\ c + ClaimOf(h)[g] = v
      BY <2>2, <3>1, <3>4, <3>7 DEF ClaimOf, SaturatingSub
    <3>10. (a - v) * d >= a * (d - e)
      BY <3>8, LeftInTime
    <3>11. CASE v < a
      <4>1. grant'[g] = [grant[g] EXCEPT !.claimed = v]
        BY <1>2, <2>2, <3>3, <3>4, <3>9, <3>11
      <4>2. /\ grant[g] \in Grant /\ grant[g].cliff = 0 /\ grant[g].duration > 0
            /\ grant[g].start <= now
        BY <3>1, <3>2, GrantParts DEF VestingInv, PaidInTime
      <4>3. /\ grant'[g].claimed = v /\ grant'[g].amount = a /\ grant'[g].duration = d
            /\ grant'[g].start = grant[g].start /\ grant'[g].cliff = 0
        BY <3>3, <3>5, <4>1, <4>2 DEF Grant
      <4>4. GrantRest'[g] = a - v
        BY <4>3 DEF GrantRest
      <4>5. PaidInTime(grant[g], now)'
        BY <1>1, <3>5, <3>6, <3>8, <4>2, <4>3 DEF PaidInTime
      <4> QED BY <3>3, <3>5, <3>6, <3>10, <4>4, <4>5
    <3>12. CASE v = a
      <4>1. grant'[g] = NoGrant
        <5>1. ~ (grant[g].claimed + ClaimOf(h)[g] < grant[g].amount)
          BY <3>3, <3>4, <3>9, <3>12
        <5> QED BY <1>2, <2>2, <5>1
      <4>2. GrantRest'[g] = 0 /\ grant'[g].owner = None
        BY <4>1 DEF GrantRest, NoGrant
      <4>3. 0 * d >= a * (d - e)
        <5>1. a - v = 0
          BY <3>12
        <5> QED BY <3>10, <5>1
      <4> QED BY <3>3, <3>5, <3>6, <4>2, <4>3 DEF PaidInTime
    <3> QED BY <3>7, <3>11, <3>12
  <2> QED BY <2>1, <2>2
<1> QED BY <1>3 DEF VestingInv, ScheduleStep

LEMMA NextSchedules ==
  ASSUME BooksInv, VestingInv, [Next]_vars
  PROVE  VestingInv' /\ ScheduleStep
<1>1. now \in Nat
  BY MaxTimeAssumption DEF BooksInv, ClockTypeOK
<1>2. ASSUME UNCHANGED <<grant, now>> PROVE VestingInv' /\ ScheduleStep
  BY <1>1, <1>2, SchedulesKept
<1>3. ASSUME NEW h \in Holders, NEW n \in Shares \ {0}, HolderStep(h, n)
      PROVE  VestingInv' /\ ScheduleStep
  <2>1. CASE \E duration \in VestingTerms : BuyVestedShares(h, n, duration)
    BY <2>1, BuyVestedSchedules
  <2>2. CASE BuyShares(h, n)
    BY <1>2, <2>2 DEF BuyShares
  <2>3. CASE PlaceSellOrder(h, n)
    BY <1>2, <2>3 DEF PlaceSellOrder, ruleVars
  <2>4. CASE \E o \in OrderIds : BuyFromOrder(h, o, n)
    BY <1>2, <2>4 DEF BuyFromOrder
  <2>5. CASE BuybackShares(h, n) \/ BurnShares(h, n)
    BY <1>2, <2>5 DEF BuybackShares, BurnShares, ruleVars
  <2>6. CASE LockForBridge(h, n) \/ UnlockFromBridge(h, n)
    BY <1>2, <2>6 DEF LockForBridge, UnlockFromBridge, ruleVars
  <2> QED BY <1>3, <2>1, <2>2, <2>3, <2>4, <2>5, <2>6 DEF HolderStep
<1>4. ASSUME NEW b \in Holders, NEW requests \in Batches, BatchBuyShares(b, requests)
      PROVE  VestingInv' /\ ScheduleStep
  BY <1>2, <1>4 DEF BatchBuyShares, ruleVars
<1>5. ASSUME NEW h \in Holders, ClaimVestedShares(h) PROVE VestingInv' /\ ScheduleStep
  BY <1>5, ClaimSchedules
<1>6. ASSUME NEW o \in OrderIds, CancelSellOrder(o) PROVE VestingInv' /\ ScheduleStep
  BY <1>2, <1>6 DEF CancelSellOrder, ReturnEscrow, ruleVars
<1>7. ASSUME NEW from \in Holders, NEW credit \in [Holders -> 0..balance[from]],
             BatchTransfer(from, credit)
      PROVE  VestingInv' /\ ScheduleStep
  BY <1>2, <1>7 DEF BatchTransfer, ruleVars
<1>8. ASSUME NEW n \in Supplies, SetTotalShares(n) \/ IncreaseTotalShares(n)
      PROVE  VestingInv' /\ ScheduleStep
  BY <1>2, <1>8 DEF SetTotalShares, IncreaseTotalShares, ruleVars
<1>9. CASE DelistAsset
  BY <1>2, <1>9 DEF DelistAsset
<1>10. CASE MoneyStep
  BY <1>2, <1>10 DEF MoneyStep, DepositDistribution, ClaimDistribution,
         EmergencyWithdraw, FundContract, bookVars, ruleVars
<1>11. CASE RuleStep
  <2>1. grant' = grant /\ (now' = now \/ now' = now + 1)
    BY <1>11 DEF RuleStep, Tick, bookVars
  <2> QED BY <1>1, <2>1, SchedulesKept
<1>12. CASE UNCHANGED vars
  BY <1>2, <1>12 DEF vars, bookVars, ruleVars
<1> QED BY <1>3, <1>4, <1>5, <1>6, <1>7, <1>8, <1>9, <1>10, <1>11, <1>12
        DEF Next, ShareStep

LEMMA InitSchedules == Init => VestingInv
BY DEF Init, VestingInv, PaidInTime, NoGrant

(* However claims and time interleave, the share of a schedule's duration  *)
(* that has not elapsed is still unclaimed.                                *)
THEOREM VestingStaysOnSchedule == Spec => VestingOnSchedule
<1>1. BooksInv /\ VestingInv /\ [Next]_vars => VestingInv' /\ ScheduleStep
  BY NextSchedules
<1> QED BY BooksInvariant, InitSchedules, <1>1, PTL
        DEF Spec, VestingOnSchedule, ScheduleStep
=============================================================================
