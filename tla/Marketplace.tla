---------------------------- MODULE Marketplace ----------------------------
(***************************************************************************)
(* The RwaMarketplace contract's share ledger: primary sale, vesting,      *)
(* order book, transfers, buyback, burning, bridging and supply changes,   *)
(* with the pull-based income distribution that every balance change has   *)
(* to settle first.                                                        *)
(*                                                                         *)
(* A contract call is atomic: it commits as one step or panics and rolls   *)
(* back everything, so each action is one successful call and a panicking  *)
(* check is a missing conjunct's negation.  Wallets outside the contract   *)
(* are not kept: a payment a caller cannot make is a call that panics.     *)
(***************************************************************************)
EXTENDS ShareUnits, SaleTerms, PurchaseLimits, Sequences

CONSTANTS
  InitialShares,    \* `total_shares` given to init
  LockupPeriod,     \* `lockup_period` given to init, 0 for None
  Scale,            \* DIST_SCALE
  OrderIds,         \* order ids a run hands out, an initial segment of Nat
  Grants,           \* slots for vesting schedules
  VestingTerms,     \* durations passed to buy_vested_shares
  Supplies,         \* amounts passed to set_/increase_total_shares
  Bridging,         \* whether a run uses the bridge
  Batches,          \* request sequences passed to batch_buy_shares
  Funds,            \* payment-token amounts moved in or out of the contract
  MaxFunds,         \* bound on the contract's payment-token balance
  MaxAcc            \* bound on the distribution accumulator

ASSUME MarketplaceAssumption ==
  /\ IsFiniteSet(Holders)
  /\ MaxU32 \in Nat \ {0}
  /\ InitialShares \in 1..MaxU32
  /\ LockupPeriod \in Nat
  /\ Scale \in Nat \ {0}
  /\ IsFiniteSet(OrderIds) /\ OrderIds \subseteq Nat
  /\ IsFiniteSet(Grants)
  /\ VestingTerms \subseteq Nat \ {0}
  /\ Supplies \subseteq 0..MaxU32
  /\ Bridging \in BOOLEAN
  /\ Batches \subseteq Seq(Nat)
  /\ Funds \subseteq Nat \ {0}
  /\ MaxFunds \in Nat
  /\ MaxAcc \in Nat

Shares == 0..MaxU32

VARIABLES
  total,            \* DataKey::TotalShares
  available,        \* DataKey::AvailableShares
  balance,          \* DataKey::Balance per address
  bridged,          \* DataKey::BridgeLocked per address
  seller,           \* SellOrder(id).seller, None when the key is absent
  escrow,           \* SellOrder(id).amount, 0 when the key is absent
  nextOrder,        \* DataKey::NextOrderId
  grant,            \* the vesting schedules, by slot
  unlockAt,         \* DataKey::UnlockAt per address
  registered,       \* DataKey::Holders, as a set
  retired,          \* history: shares that left every book for good
  acc,              \* DataKey::DistributionAcc
  snapshot,         \* DataKey::DistributionSnapshot per address
  pending,          \* DataKey::DistributionPending per address
  unclaimed,        \* DataKey::DistributionUnclaimed
  custody           \* the contract's balance of the payment token

bookVars ==
  <<total, available, balance, bridged, seller, escrow, nextOrder, grant,
    unlockAt, registered, retired>>
incomeVars == <<acc, snapshot, pending, unclaimed, custody>>
ruleVars == <<now, haltVars, eligibilityVars, termVars, limitVars>>
vars == <<bookVars, incomeVars, ruleVars>>

Grant ==
  [owner : Holders \cup {None}, start : Nat, cliff : Nat, duration : Nat,
   amount : Shares, claimed : Shares]
NoGrant ==
  [owner |-> None, start |-> 0, cliff |-> 0, duration |-> 0,
   amount |-> 0, claimed |-> 0]

BooksTypeOK ==
  /\ total \in Shares
  /\ available \in Shares
  /\ balance \in [Holders -> Shares]
  /\ bridged \in [Holders -> Shares]
  /\ seller \in [OrderIds -> Holders \cup {None}]
  /\ escrow \in [OrderIds -> Shares]
  /\ nextOrder \in Nat
  /\ grant \in [Grants -> Grant]
  /\ unlockAt \in [Holders -> Nat]
  /\ registered \subseteq Holders
  /\ retired \in Nat

IncomeTypeOK ==
  /\ acc \in Nat
  /\ snapshot \in [Holders -> Nat]
  /\ pending \in [Holders -> Nat]
  /\ unclaimed \in Nat
  /\ custody \in Nat

(* Every variable holds a value the code could store: in particular no     *)
(* share count leaves the u32 range and no sum owed goes negative.         *)
TypeOK ==
  /\ BooksTypeOK
  /\ IncomeTypeOK
  /\ ClockTypeOK
  /\ HaltsTypeOK
  /\ EligibilityTypeOK
  /\ TermsTypeOK
  /\ LimitsTypeOK

Init ==
  /\ total = InitialShares
  /\ available = InitialShares
  /\ balance = [h \in Holders |-> 0]
  /\ bridged = [h \in Holders |-> 0]
  /\ seller = [o \in OrderIds |-> None]
  /\ escrow = [o \in OrderIds |-> 0]
  /\ nextOrder = 0
  /\ grant = [g \in Grants |-> NoGrant]
  /\ unlockAt = [h \in Holders |-> 0]
  /\ registered = {}
  /\ retired = 0
  /\ acc = 0
  /\ snapshot = [h \in Holders |-> 0]
  /\ pending = [h \in Holders |-> 0]
  /\ unclaimed = 0
  /\ custody = 0
  /\ ClockInit
  /\ HaltsInit
  /\ EligibilityInit
  /\ TermsInit
  /\ LimitsInit

-----------------------------------------------------------------------------
(* Where the shares are. *)

GrantRest == [g \in Grants |-> grant[g].amount - grant[g].claimed]

(* _issued_shares: everything that is not in the unsold pool. *)
Issued == SaturatingSub(total, available)

(* Shares some holder can point at: liquid, escrowed, vesting or bridged. *)
Accounted == Total(balance) + Total(bridged) + Total(escrow) + Total(GrantRest)

EscrowOf(h) == Total([o \in OrderIds |-> IF seller[o] = h THEN escrow[o] ELSE 0])
VestingOf(h) ==
  Total([g \in Grants |-> IF grant[g].owner = h THEN GrantRest[g] ELSE 0])
Position(h) == balance[h] + bridged[h] + EscrowOf(h) + VestingOf(h)

-----------------------------------------------------------------------------
(* Income distribution. *)

(* What h earned since its snapshot, at its present balance. *)
Earned(h) == (balance[h] * (acc - snapshot[h])) \div Scale

(* get_pending_distribution. *)
Claimable(h) == IF acc > snapshot[h] THEN pending[h] + Earned(h) ELSE pending[h]

(* Mutants of Settle: the call changes a balance and settles nothing, or   *)
(* moves the snapshot and drops what was earned before it.                 *)
SettleNothing(S) == UNCHANGED <<pending, snapshot>>
SettleSnapshotOnly(S) ==
  /\ pending' = pending
  /\ snapshot' = [h \in Holders |-> IF h \in S THEN acc ELSE snapshot[h]]

(* _settle_distribution for every holder in S, on the balances before the  *)
(* call changes them.                                                      *)
Settle(S) ==
  /\ pending' = [h \in Holders |-> IF h \in S THEN Claimable(h) ELSE pending[h]]
  /\ snapshot' = [h \in Holders |->
                    IF h \in S /\ acc > snapshot[h] THEN acc ELSE snapshot[h]]

SettleOnly(S) == Settle(S) /\ UNCHANGED <<acc, unclaimed, custody>>

-----------------------------------------------------------------------------
(* Lock-up. *)

Unlocked(h) == now >= unlockAt[h]

ApplyLockup(h) ==
  unlockAt' = IF LockupPeriod > 0 /\ now + LockupPeriod > unlockAt[h]
              THEN [unlockAt EXCEPT ![h] = now + LockupPeriod]
              ELSE unlockAt

-----------------------------------------------------------------------------
(* register_holder for each address of S. *)
Register(S) == registered' = registered \cup S

-----------------------------------------------------------------------------
(* Primary sale. *)

(* Mutant of SaleOpen: the pause a wind-down sets is taken to be enough. *)
SaleOpenIfUnpaused == ~paused

(* Unpausing does not reopen a wound-down marketplace. *)
SaleOpen == ~paused /\ ~closed

BuyShares(b, n) ==
  /\ SaleOpen
  /\ FN_BUY_SHARES \notin fnPaused
  /\ ~breakerTriggered
  /\ gateOn => ValidWhitelist(b)
  /\ n > 0 /\ n <= available
  /\ balance[b] + n <= MaxU32
  /\ WithinUserCap(balance[b] + n)
  /\ CertificatesMintable(n)
  /\ \E p \in CurrentPrices :
       PurchaseAllowed(b, n, p * n) /\ RecordPurchase(b, n, p * n)
  /\ available' = available - n
  /\ SettleOnly({b})
  /\ balance' = [balance EXCEPT ![b] = @ + n]
  /\ Register({b})
  /\ ApplyLockup(b)
  /\ UNCHANGED <<total, bridged, seller, escrow, nextOrder, grant, retired>>
  /\ UNCHANGED <<now, haltVars, eligibilityVars, termVars>>

(* The items of a batch that go through: each is tested against what the   *)
(* items before it left.  A request of 0 stands for any item that fails on *)
(* its own, for a zero amount or an unaccepted token.                      *)
Filled(requests, accepted) ==
  Total([i \in DOMAIN requests |-> IF i \in accepted THEN requests[i] ELSE 0])

AcceptedItems(b, requests, accepted) ==
  \A i \in DOMAIN requests :
    LET before == Filled(requests, {j \in accepted : j < i})
    IN  i \in accepted <=>
          /\ requests[i] > 0
          /\ requests[i] <= available - before
          /\ WithinUserCap(balance[b] + before + requests[i])

BatchBuyShares(b, requests) ==
  /\ SaleOpen
  /\ IsWhitelisted(b)
  /\ requests # <<>>
  /\ \E accepted \in SUBSET (DOMAIN requests) :
       LET n == Filled(requests, accepted)
       IN  /\ AcceptedItems(b, requests, accepted)
           /\ balance[b] + n <= MaxU32
           /\ available' = available - n
           /\ balance' = [balance EXCEPT ![b] = @ + n]
           /\ IF n > 0
              THEN Register({b}) /\ ApplyLockup(b)
              ELSE UNCHANGED <<registered, unlockAt>>
  /\ SettleOnly({b})
  /\ UNCHANGED <<total, bridged, seller, escrow, nextOrder, grant, retired>>
  /\ UNCHANGED ruleVars

-----------------------------------------------------------------------------
(* Vesting. *)

BuyVestedShares(b, n, duration) ==
  /\ SaleOpen
  /\ n > 0 /\ n <= available
  /\ \E p \in CurrentPrices :
       PurchaseAllowed(b, n, p * n) /\ RecordPurchase(b, n, p * n)
  /\ available' = available - n
  /\ \E g \in Grants :
       /\ grant[g] = NoGrant
       /\ grant' = [grant EXCEPT ![g] =
                      [owner |-> b, start |-> now, cliff |-> 0,
                       duration |-> duration, amount |-> n, claimed |-> 0]]
  /\ Register({b})
  /\ UNCHANGED <<total, balance, bridged, seller, escrow, nextOrder, unlockAt, retired>>
  /\ UNCHANGED <<incomeVars, now, haltVars, eligibilityVars, termVars>>

(* Mutant of Vested: the share of the elapsed time is rounded up. *)
VestedRoundedUp(s, t) ==
  IF t < s.start + s.cliff THEN 0
  ELSE IF t >= s.start + s.duration \/ s.duration <= s.cliff THEN s.amount
  ELSE (s.amount * (t - (s.start + s.cliff)) + s.duration - s.cliff - 1)
         \div (s.duration - s.cliff)

(* compute_vested_amount. *)
Vested(s, t) ==
  IF t < s.start + s.cliff THEN 0
  ELSE IF t >= s.start + s.duration \/ s.duration <= s.cliff THEN s.amount
  ELSE (s.amount * (t - (s.start + s.cliff))) \div (s.duration - s.cliff)

(* What a claim by h takes from each schedule. *)
ClaimOf(h) ==
  [g \in Grants |-> IF grant[g].owner = h
                    THEN SaturatingSub(Vested(grant[g], now), grant[g].claimed)
                    ELSE 0]

ClaimVestedShares(h) ==
  LET claim == ClaimOf(h)
      n == Total(claim)
  IN  /\ n > 0
      /\ SettleOnly({h})
      /\ balance' = [balance EXCEPT ![h] = SaturatingAdd(@, n, MaxU32)]
      /\ grant' = [g \in Grants |->
                     IF claim[g] = 0 THEN grant[g]
                     ELSE IF grant[g].claimed + claim[g] < grant[g].amount
                     THEN [grant[g] EXCEPT !.claimed = @ + claim[g]]
                     ELSE NoGrant]
      /\ UNCHANGED <<total, available, bridged, seller, escrow, nextOrder,
                     unlockAt, registered, retired>>
      /\ UNCHANGED ruleVars

-----------------------------------------------------------------------------
(* Order book.  Shares on offer are taken out of the seller's balance. *)

(* Mutants of MayOffer: the pause and the lock-up are not read. *)
MayOfferPaused(s) ==
  FN_SELL_ORDER \notin fnPaused /\ ~breakerTriggered /\ Unlocked(s)
MayOfferLocked(s) ==
  ~paused /\ FN_SELL_ORDER \notin fnPaused /\ ~breakerTriggered

MayOffer(s) ==
  ~paused /\ FN_SELL_ORDER \notin fnPaused /\ ~breakerTriggered /\ Unlocked(s)

PlaceSellOrder(s, n) ==
  /\ MayOffer(s)
  /\ n > 0 /\ n <= balance[s]
  /\ nextOrder \in OrderIds
  /\ SettleOnly({s})
  /\ balance' = [balance EXCEPT ![s] = @ - n]
  /\ seller' = [seller EXCEPT ![nextOrder] = s]
  /\ escrow' = [escrow EXCEPT ![nextOrder] = n]
  /\ nextOrder' = nextOrder + 1
  /\ UNCHANGED <<total, available, bridged, grant, unlockAt, registered, retired>>
  /\ UNCHANGED ruleVars

(* The order is gone and its shares are back in the seller's balance. *)
ReturnEscrow(o) ==
  /\ balance[seller[o]] + escrow[o] <= MaxU32
  /\ SettleOnly({seller[o]})
  /\ balance' = [balance EXCEPT ![seller[o]] = @ + escrow[o]]
  /\ seller' = [seller EXCEPT ![o] = None]
  /\ escrow' = [escrow EXCEPT ![o] = 0]
  /\ UNCHANGED <<total, available, bridged, nextOrder, grant, unlockAt,
                 registered, retired>>
  /\ UNCHANGED ruleVars

(* Mutant of CancelSellOrder: refused while the marketplace is paused. *)
CancelSellOrderUnpaused(o) == ~paused /\ seller[o] # None /\ ReturnEscrow(o)

CancelSellOrder(o) ==
  /\ seller[o] # None
  /\ ReturnEscrow(o)

(* Mutant of OrderAfterFill: an order filled to the last share stays open. *)
OrderKeptWhenEmpty(o, n) ==
  escrow' = [escrow EXCEPT ![o] = @ - n] /\ UNCHANGED seller

OrderAfterFill(o, n) ==
  /\ escrow' = [escrow EXCEPT ![o] = @ - n]
  /\ seller' = IF n = escrow[o] THEN [seller EXCEPT ![o] = None] ELSE seller

(* The price of an order is not kept: a fill may be at any asking price.   *)
BuyFromOrder(b, o, n) ==
  /\ SaleOpen
  /\ FN_BUY_SHARES \notin fnPaused
  /\ seller[o] # None
  /\ n > 0 /\ n <= escrow[o]
  /\ balance[b] + n <= MaxU32
  /\ \E ask \in Prices \cup {InitialPrice} :
       PurchaseAllowed(b, n, ask * n) /\ RecordPurchase(b, n, ask * n)
  /\ SettleOnly({b})
  /\ balance' = [balance EXCEPT ![b] = @ + n]
  /\ Register({b})
  /\ ApplyLockup(b)
  /\ OrderAfterFill(o, n)
  /\ UNCHANGED <<total, available, bridged, nextOrder, grant, retired>>
  /\ UNCHANGED <<now, haltVars, eligibilityVars, termVars>>

(* The call moves credit[h] to each recipient h.  Each credit is written   *)
(* when its turn comes, the debit last, from the balance read at the       *)
(* start: what a sender sends to itself is overwritten, and is gone.       *)
(* No pause, wind-down or breaker flag is read.                            *)
BatchTransfer(from, credit) ==
  LET recipients == {h \in Holders : credit[h] > 0}
      n == Total(credit)
  IN  /\ IsWhitelisted(from)
      /\ recipients # {}
      /\ \A h \in recipients : IsWhitelisted(h) /\ IsTransferWhitelisted(h)
      /\ n <= balance[from]
      /\ Unlocked(from)
      /\ TransferUnrestricted(from, n)
      /\ \A h \in recipients : balance[h] + credit[h] <= MaxU32
      /\ SettleOnly(recipients \cup {from})
      /\ balance' = [h \in Holders |-> IF h = from THEN balance[h] - n
                                       ELSE balance[h] + credit[h]]
      /\ Register(recipients)
      /\ retired' = retired + credit[from]
      /\ UNCHANGED <<total, available, bridged, seller, escrow, nextOrder,
                     grant, unlockAt>>
      /\ UNCHANGED ruleVars

-----------------------------------------------------------------------------
(* Redemption, claw-back and the bridge. *)

(* process_auto_buyback is this with an interval and a budget on top.      *)
BuybackShares(s, n) ==
  /\ ~paused
  /\ FN_BUYBACK \notin fnPaused
  /\ Unlocked(s)
  /\ n > 0 /\ n <= balance[s]
  /\ \E p \in CurrentPrices : p * n <= custody /\ custody' = custody - p * n
  /\ Settle({s})
  /\ balance' = [balance EXCEPT ![s] = @ - n]
  /\ available + n <= MaxU32
  /\ available' = available + n
  /\ UNCHANGED <<total, bridged, seller, escrow, nextOrder, grant, unlockAt,
                 registered, retired, acc, unclaimed>>
  /\ UNCHANGED ruleVars

(* Neither the total nor the unsold pool moves. *)
BurnShares(h, n) ==
  /\ n > 0 /\ n <= balance[h]
  /\ SettleOnly({h})
  /\ balance' = [balance EXCEPT ![h] = @ - n]
  /\ retired' = retired + n
  /\ UNCHANGED <<total, available, bridged, seller, escrow, nextOrder, grant,
                 unlockAt, registered>>
  /\ UNCHANGED ruleVars

LockForBridge(h, n) ==
  /\ n > 0 /\ n <= balance[h]
  /\ bridged[h] + n <= MaxU32
  /\ SettleOnly({h})
  /\ balance' = [balance EXCEPT ![h] = @ - n]
  /\ bridged' = [bridged EXCEPT ![h] = @ + n]
  /\ UNCHANGED <<total, available, seller, escrow, nextOrder, grant, unlockAt,
                 registered, retired>>
  /\ UNCHANGED ruleVars

UnlockFromBridge(h, n) ==
  /\ n > 0 /\ n <= bridged[h]
  /\ balance[h] + n <= MaxU32
  /\ SettleOnly({h})
  /\ bridged' = [bridged EXCEPT ![h] = @ - n]
  /\ balance' = [balance EXCEPT ![h] = @ + n]
  /\ UNCHANGED <<total, available, seller, escrow, nextOrder, grant, unlockAt,
                 registered, retired>>
  /\ UNCHANGED ruleVars

-----------------------------------------------------------------------------
(* Supply and delisting. *)

(* Mutant of SetTotalShares: the issued shares are not compared. *)
SetTotalSharesBelowIssued(n) ==
  /\ n >= available
  /\ total' = n
  /\ available' = n - (total - available)
  /\ UNCHANGED <<balance, bridged, seller, escrow, nextOrder, grant, unlockAt,
                 registered, retired, incomeVars, ruleVars>>

SetTotalShares(n) ==
  /\ available <= total
  /\ n >= available
  /\ n >= total - available
  /\ total' = n
  /\ available' = n - (total - available)
  /\ UNCHANGED <<balance, bridged, seller, escrow, nextOrder, grant, unlockAt,
                 registered, retired, incomeVars, ruleVars>>

(* Mutant of IncreaseTotalShares: the unsold pool is forgotten. *)
IncreaseTotalOnly(n) ==
  /\ paused
  /\ n > 0 /\ total + n <= MaxU32
  /\ total' = total + n
  /\ UNCHANGED <<available, balance, bridged, seller, escrow, nextOrder, grant,
                 unlockAt, registered, retired, incomeVars, ruleVars>>

IncreaseTotalShares(n) ==
  /\ paused
  /\ n > 0
  /\ ~delisted
  /\ total + n <= MaxU32 /\ available + n <= MaxU32
  /\ total' = total + n
  /\ available' = available + n
  /\ UNCHANGED <<balance, bridged, seller, escrow, nextOrder, grant, unlockAt,
                 registered, retired, incomeVars, ruleVars>>

(* Mutant of Returned: each order returned overwrites the balance read     *)
(* before the loop, so only the last order of a seller counts.             *)
ReturnedLastOrderOnly(h) ==
  LET mine == {o \in OrderIds : seller[o] = h}
  IN  IF mine = {} THEN 0
      ELSE escrow[CHOOSE o \in mine : \A x \in mine : x <= o]

(* What the cancellations of a delisting give back to h. *)
Returned(h) == EscrowOf(h)

(* Every order below NextOrderId that is still open goes back to its       *)
(* seller in the same call.                                                *)
DelistAsset ==
  /\ ~delisted
  /\ paused' = TRUE
  /\ delisted' = TRUE
  /\ \A h \in Holders : balance[h] + Returned(h) <= MaxU32
  /\ SettleOnly({h \in Holders : \E o \in OrderIds : seller[o] = h})
  /\ balance' = [h \in Holders |-> balance[h] + Returned(h)]
  /\ seller' = [o \in OrderIds |-> None]
  /\ escrow' = [o \in OrderIds |-> 0]
  /\ UNCHANGED <<total, available, bridged, nextOrder, grant, unlockAt,
                 registered, retired>>
  /\ UNCHANGED <<closed, fnPaused, breakerEnabled, breakerTriggered>>
  /\ UNCHANGED <<now, eligibilityVars, termVars, limitVars>>

-----------------------------------------------------------------------------
(* Money. *)

(* The admin pays in only what the contract's balance falls short of       *)
(* everything it owes.                                                     *)
DepositDistribution(amount) ==
  LET required == unclaimed + amount
  IN  /\ Issued > 0
      /\ required <= MaxFunds
      /\ custody' = IF custody < required THEN required ELSE custody
      /\ acc + (amount * Scale) \div Issued <= MaxAcc
      /\ acc' = acc + (amount * Scale) \div Issued
      /\ unclaimed' = required
      /\ UNCHANGED <<bookVars, snapshot, pending, ruleVars>>

ClaimDistribution(h) ==
  LET amount == Claimable(h)
  IN  /\ amount > 0
      /\ amount <= custody
      /\ pending' = [pending EXCEPT ![h] = 0]
      /\ snapshot' = [snapshot EXCEPT ![h] = IF acc > @ THEN acc ELSE @]
      /\ unclaimed' = unclaimed - amount
      /\ custody' = custody - amount
      /\ UNCHANGED <<bookVars, acc, ruleVars>>

EmergencyWithdraw(amount) ==
  /\ amount <= custody
  /\ custody' = custody - amount
  /\ UNCHANGED <<bookVars, acc, snapshot, pending, unclaimed, ruleVars>>

(* Anyone can send payment tokens to the contract's address. *)
FundContract(amount) ==
  /\ custody + amount <= MaxFunds
  /\ custody' = custody + amount
  /\ UNCHANGED <<bookVars, acc, snapshot, pending, unclaimed, ruleVars>>

-----------------------------------------------------------------------------
HolderStep(h, n) ==
  \/ BuyShares(h, n)
  \/ \E duration \in VestingTerms : BuyVestedShares(h, n, duration)
  \/ PlaceSellOrder(h, n)
  \/ \E o \in OrderIds : BuyFromOrder(h, o, n)
  \/ BuybackShares(h, n)
  \/ BurnShares(h, n)
  \/ Bridging /\ LockForBridge(h, n)
  \/ Bridging /\ UnlockFromBridge(h, n)

ShareStep ==
  \/ \E h \in Holders, n \in Shares \ {0} : HolderStep(h, n)
  \/ \E b \in Holders, requests \in Batches : BatchBuyShares(b, requests)
  \/ \E h \in Holders : ClaimVestedShares(h)
  \/ \E o \in OrderIds : CancelSellOrder(o)
  \/ \E from \in Holders : \E credit \in [Holders -> 0..balance[from]] :
       BatchTransfer(from, credit)
  \/ \E n \in Supplies : SetTotalShares(n) \/ IncreaseTotalShares(n)
  \/ DelistAsset

MoneyStep ==
  \/ \E amount \in Funds :
       \/ DepositDistribution(amount)
       \/ EmergencyWithdraw(amount)
       \/ FundContract(amount)
  \/ \E h \in Holders : ClaimDistribution(h)

(* A call that only edits the rules, or the passing of time. *)
RuleStep ==
  /\ UNCHANGED <<bookVars, incomeVars>>
  /\ \/ Tick /\ UNCHANGED <<haltVars, eligibilityVars, termVars, limitVars>>
     \/ HaltsNext /\ UNCHANGED <<now, eligibilityVars, termVars, limitVars>>
     \/ EligibilityNext /\ UNCHANGED <<now, haltVars, termVars, limitVars>>
     \/ TermsNext /\ UNCHANGED <<now, haltVars, eligibilityVars, limitVars>>
     \/ LimitsNext /\ UNCHANGED <<now, haltVars, eligibilityVars, termVars>>

Next == ShareStep \/ MoneyStep \/ RuleStep

Spec == Init /\ [][Next]_vars

-----------------------------------------------------------------------------
(* Safety. *)

(* Every share that is not in the unsold pool is in exactly one place: a   *)
(* balance, an open order, an unclaimed part of a vesting schedule, the    *)
(* bridge, or gone through a burn or a transfer to oneself.  Nine          *)
(* operations each update their own pair of storage keys.                  *)
SharesConserved == total - available = Accounted + retired

(* The storage keys of an order exist together, with a positive amount,    *)
(* and only under ids already handed out; a slot without a schedule holds  *)
(* nothing, and no schedule has paid out more than it holds.               *)
OrdersCoherent ==
  \A o \in OrderIds :
    /\ seller[o] = None <=> escrow[o] = 0
    /\ o >= nextOrder => seller[o] = None
GrantsCoherent ==
  \A g \in Grants :
    /\ grant[g].owner = None => grant[g] = NoGrant
    /\ grant[g].claimed <= grant[g].amount
BooksCoherent == OrdersCoherent /\ GrantsCoherent

(* What holders have been promised never exceeds what was deposited and    *)
(* not yet paid (comment at lib.rs:851): settled amounts plus what every   *)
(* balance has earned since its snapshot.                                  *)
Owed(h) == pending[h] * Scale + balance[h] * (acc - snapshot[h])
DistributionSolvent ==
  Total([h \in Holders |-> Owed(h)]) <= unclaimed * Scale

(* Moving shares never changes what anybody can claim: only a deposit adds *)
(* to it and only the holder's own claim takes from it.                    *)
EntitlementsExact ==
  [][unclaimed' = unclaimed =>
       \A h \in Holders : Claimable(h)' = Claimable(h)]_vars

(* A balance that shrinks before its unlock time was burned by the admin   *)
(* or locked for the bridge; no sale, redemption or transfer touches it.   *)
LockupStep ==
  \A h \in Holders :
    balance'[h] < balance[h] /\ now < unlockAt[h] =>
      \/ bridged'[h] - bridged[h] = balance[h] - balance'[h]
      \/ retired' - retired = balance[h] - balance'[h]
LockupHolds == [][LockupStep]_vars

(* Shares leave an order book entry only by going back to their seller.    *)
OrdersOnlyReturned ==
  \A o \in OrderIds, h \in Holders :
    seller[o] = h /\ escrow'[o] < escrow[o] =>
      /\ escrow'[o] = 0
      /\ Position(h)' = Position(h)

(* While the marketplace is paused nothing is sold, redeemed or offered,   *)
(* but sellers can take their shares back.                                 *)
PausedMeansNoTrade ==
  [][paused =>
       /\ total' - available' = total - available
       /\ OrdersOnlyReturned
       /\ \A o \in OrderIds : escrow'[o] <= escrow[o]]_vars

(* A wound-down marketplace never sells a share again, whatever else the   *)
(* admin does, unpausing included.                                         *)
ClosedForGood ==
  [][closed =>
       /\ closed'
       /\ total' - available' <= total - available
       /\ OrdersOnlyReturned]_vars

(* At any time at least the unelapsed share of a schedule's duration is    *)
(* still unclaimed: rounding never releases a share early.                 *)
VestingOnSchedule ==
  [][\A g \in Grants :
       grant[g].owner # None =>
         GrantRest'[g] * grant[g].duration >=
           grant[g].amount * (grant[g].duration - (now - grant[g].start))]_vars

(* A seller can take an open order back in every state: no pause,          *)
(* wind-down, delisting, breaker, lock-up or arithmetic check can stop it. *)
SellersCanAlwaysExit ==
  \A o \in OrderIds : seller[o] # None => ENABLED CancelSellOrder(o)

(* Every share a limited buyer buys counts against each of its three       *)
(* periods, through whichever purchase function it comes, as long as the   *)
(* counter does not wrap.  batch_buy_shares is not one of these functions: *)
(* it neither validates nor records a limit.                               *)
LimitedPurchasesCounted ==
  [][\A b \in Holders :
       LET n == Position(b)' - Position(b)
       IN  /\ Limited(b)
           /\ n > 0
           /\ \A h \in Holders \ {b} : balance'[h] >= balance[h]
           /\ ~ \E requests \in Batches : BatchBuyShares(b, requests)
           => \A p \in Periods :
                bought[p][b] + n <= MaxU32 => bought'[p][b] = bought[p][b] + n]_vars

(* The marketplace implements the share registry. *)
Registry ==
  INSTANCE ShareRegistry WITH
    pool <- available, position <- [h \in Holders |-> Position(h)]
ImplementsRegistry == Registry!RegistrySpec

-----------------------------------------------------------------------------
(* What the repository's comments say and the code does not do. *)

(* "Permanently delist the asset and halt all trading immediately" ...     *)
(* "destructive and irreversible" (lib.rs:2820-2824).                      *)
DelistedStaysHalted == delisted => paused
=============================================================================
