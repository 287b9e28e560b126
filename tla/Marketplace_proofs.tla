------------------------ MODULE Marketplace_proofs ------------------------
(***************************************************************************)
(* The share books of Marketplace, for every number of holders, orders and *)
(* schedules and every supply: types, coherence of orders and schedules,   *)
(* and conservation of shares.                                             *)
(*                                                                         *)
(* Conservation is not inductive alone.  A claim of vested shares credits  *)
(* with a saturating addition, exact only while balances stay below        *)
(* u32::MAX, which conservation itself gives; a new order may overwrite    *)
(* the keys of its id, empty only because ids at or above NextOrderId are  *)
(* free; and a schedule's slot is counted only through a difference that   *)
(* must not go negative.  BooksInv is the conjunction that is inductive.   *)
(***************************************************************************)
EXTENDS Marketplace, ShareUnits_proofs

BooksInv ==
  /\ BooksTypeOK
  /\ ClockTypeOK
  /\ BooksCoherent
  /\ SharesConserved

USE DEF Shares

-----------------------------------------------------------------------------
(* What is left of the schedules is a natural number in each slot. *)
LEMMA GrantRestType ==
  ASSUME BooksTypeOK, GrantsCoherent
  PROVE  GrantRest \in [Grants -> Shares]
<1> SUFFICES ASSUME NEW g \in Grants PROVE grant[g].amount - grant[g].claimed \in Shares
  BY DEF GrantRest
<1>1. grant[g].amount \in Shares /\ grant[g].claimed \in Shares
  BY DEF BooksTypeOK, Grant
<1>2. grant[g].claimed <= grant[g].amount
  BY DEF GrantsCoherent
<1>3. MaxU32 \in Nat
  BY MarketplaceAssumption
<1> QED BY <1>1, <1>2, <1>3

(* The sums over the four books are natural numbers. *)
LEMMA BookTotals ==
  ASSUME BooksTypeOK, GrantsCoherent
  PROVE  /\ Total(balance) \in Nat
         /\ Total(bridged) \in Nat
         /\ Total(escrow) \in Nat
         /\ Total(GrantRest) \in Nat
<1>1. /\ balance \in [Holders -> Nat] /\ bridged \in [Holders -> Nat]
      /\ escrow \in [OrderIds -> Nat] /\ GrantRest \in [Grants -> Nat]
  BY GrantRestType DEF BooksTypeOK
<1>2. IsFiniteSet(Holders) /\ IsFiniteSet(OrderIds) /\ IsFiniteSet(Grants)
  BY MarketplaceAssumption
<1> QED BY <1>1, <1>2, TotalNat

(* A credit to and a debit from one entry of a book move its sum alike. *)
LEMMA Credit ==
  ASSUME NEW S, IsFiniteSet(S), NEW f \in [S -> Nat], NEW g \in [S -> Nat],
         NEW b \in S, NEW n \in Nat, g = [f EXCEPT ![b] = @ + n]
  PROVE  Total(g) = Total(f) + n
<1>1. g[b] = f[b] + n /\ \A a \in S : a # b => g[a] = f[a]
  OBVIOUS
<1> QED BY ONLY <1>1, IsFiniteSet(S), TotalRaise

LEMMA Debit ==
  ASSUME NEW S, IsFiniteSet(S), NEW f \in [S -> Nat], NEW g \in [S -> Nat],
         NEW b \in S, NEW n \in Nat, g = [f EXCEPT ![b] = @ - n]
  PROVE  Total(g) = Total(f) + (0 - n)
<1>1. f[b] \in Nat /\ g[b] = f[b] - n /\ \A a \in S : a # b => f[a] = g[a]
  OBVIOUS
<1>2. f[b] = g[b] + n
  BY <1>1
<1>3. Total(f) = Total(g) + n
  BY ONLY <1>1, <1>2, IsFiniteSet(S), TotalRaise
<1>4. Total(f) \in Nat /\ Total(g) \in Nat
  BY TotalNat
<1> QED BY ONLY <1>3, <1>4

-----------------------------------------------------------------------------
(* The same for the balances, as a step. *)
LEMMA BalanceMoves ==
  ASSUME BooksTypeOK, BooksTypeOK', NEW h \in Holders, NEW n \in Nat
  PROVE  /\ balance' = [balance EXCEPT ![h] = @ + n] =>
              Total(balance') = Total(balance) + n
         /\ balance' = [balance EXCEPT ![h] = @ - n] =>
              Total(balance') = Total(balance) + (0 - n)
<1>1. /\ balance \in [Holders -> Nat] /\ balance' \in [Holders -> Nat]
      /\ IsFiniteSet(Holders)
  BY MarketplaceAssumption DEF BooksTypeOK
<1> QED BY <1>1, Credit, Debit

LEMMA BridgedMoves ==
  ASSUME BooksTypeOK, BooksTypeOK', NEW h \in Holders, NEW n \in Nat
  PROVE  /\ bridged' = [bridged EXCEPT ![h] = @ + n] =>
              Total(bridged') = Total(bridged) + n
         /\ bridged' = [bridged EXCEPT ![h] = @ - n] =>
              Total(bridged') = Total(bridged) + (0 - n)
<1>1. /\ bridged \in [Holders -> Nat] /\ bridged' \in [Holders -> Nat]
      /\ IsFiniteSet(Holders)
  BY MarketplaceAssumption DEF BooksTypeOK
<1> QED BY <1>1, Credit, Debit

LEMMA EscrowMoves ==
  ASSUME BooksTypeOK, BooksTypeOK', NEW o \in OrderIds, NEW n \in Nat
  PROVE  /\ escrow' = [escrow EXCEPT ![o] = @ + n] =>
              Total(escrow') = Total(escrow) + n
         /\ escrow' = [escrow EXCEPT ![o] = @ - n] =>
              Total(escrow') = Total(escrow) + (0 - n)
<1>1. /\ escrow \in [OrderIds -> Nat] /\ escrow' \in [OrderIds -> Nat]
      /\ IsFiniteSet(OrderIds)
  BY MarketplaceAssumption DEF BooksTypeOK
<1> QED BY <1>1, Credit, Debit

(* Conservation after a step, as arithmetic: the step moves the shares     *)
(* accounted for, and the shares retired, by as much as the shares that    *)
(* are not in the unsold pool.                                             *)
LEMMA ConservedStep ==
  ASSUME BooksInv, BooksTypeOK', NEW d \in Int, Accounted' = Accounted + d,
         total' - available' - retired' = (total - available - retired) + d
  PROVE  SharesConserved'
<1>1. /\ Total(balance) \in Nat /\ Total(bridged) \in Nat
      /\ Total(escrow) \in Nat /\ Total(GrantRest) \in Nat
  BY BookTotals DEF BooksInv, BooksCoherent
<1>2. /\ total \in Int /\ available \in Int /\ retired \in Int
      /\ total' \in Int /\ available' \in Int /\ retired' \in Int
  BY MarketplaceAssumption DEF BooksInv, BooksTypeOK
<1>3. Accounted \in Int
  BY <1>1 DEF Accounted
<1>4. total - available = Accounted + retired
  BY DEF BooksInv, SharesConserved
<1>5. PICK r \in Int : r = retired
  BY <1>2
<1>6. PICK s \in Int : s = retired'
  BY <1>2
<1>7. PICK u \in Int : u = total - available
  BY <1>2
<1>8. PICK t \in Int : t = total'
  BY <1>2
<1>9. PICK a \in Int : a = available'
  BY <1>2
<1>10. PICK p \in Int : p = Accounted
  BY <1>3
<1>11. t - a - s = (u - r) + d /\ u = p + r
  BY <1>4, <1>5, <1>6, <1>7, <1>8, <1>9, <1>10
<1>12. t - a = (p + d) + s
  BY ONLY <1>11
<1>13. total' - available' = Accounted' + retired'
  BY <1>6, <1>8, <1>9, <1>10, <1>12
<1> QED BY <1>13 DEF SharesConserved

(* The common case: of the books, only balances move. *)
LEMMA ConservedByBalance ==
  ASSUME BooksInv, NEW x \in Int, Total(balance') = Total(balance) + x,
         UNCHANGED <<bridged, escrow, grant>>,
         BooksTypeOK',
         total' - available' - retired' = (total - available - retired) + x
  PROVE  SharesConserved'
<1>1. UNCHANGED GrantRest
  BY DEF GrantRest
<1>2. /\ Total(balance) \in Nat /\ Total(bridged) \in Nat
      /\ Total(escrow) \in Nat /\ Total(GrantRest) \in Nat
  BY BookTotals DEF BooksInv, BooksCoherent
<1>3. Accounted' = Accounted + x
  BY <1>1, <1>2 DEF Accounted
<1> QED BY <1>3, ConservedStep

(* A step that leaves the books alone keeps the invariant. *)
LEMMA UnchangedBooksInv ==
  ASSUME BooksInv, UNCHANGED bookVars, ClockTypeOK'
  PROVE  BooksInv'
<1> USE DEF bookVars
<1>1. BooksTypeOK'
  BY DEF BooksInv, BooksTypeOK
<1>2. BooksCoherent'
  BY DEF BooksInv, BooksCoherent, OrdersCoherent, GrantsCoherent
<1>3. GrantRest' = GrantRest
  BY DEF GrantRest
<1>4. SharesConserved'
  BY <1>3 DEF BooksInv, SharesConserved, Accounted
<1> QED BY <1>1, <1>2, <1>4 DEF BooksInv

-----------------------------------------------------------------------------
(* The primary sale. *)
LEMMA BuySharesInv ==
  ASSUME BooksInv, NEW b \in Holders, NEW n \in Shares \ {0}, BuyShares(b, n)
  PROVE  BooksInv'
<1> USE MarketplaceAssumption DEF BooksInv
<1>1. BooksTypeOK'
  BY DEF BuyShares, BooksTypeOK, Register, ApplyLockup, ClockTypeOK
<1>2. ClockTypeOK'
  BY DEF BuyShares, ClockTypeOK
<1>3. BooksCoherent'
  BY DEF BuyShares, BooksCoherent, OrdersCoherent, GrantsCoherent
<1>4. Total(balance') = Total(balance) + n
  <2>1. n \in Nat /\ balance' = [balance EXCEPT ![b] = @ + n]
    BY DEF BuyShares
  <2> QED BY <1>1, <2>1, BalanceMoves
<1>5. SharesConserved'
  <2>1. UNCHANGED <<bridged, escrow, grant>>
    BY DEF BuyShares
  <2>2. total' - available' - retired' = total - available - retired + n
    BY DEF BuyShares, BooksTypeOK
  <2> QED BY <1>1, <1>4, <2>1, <2>2, ConservedByBalance
<1> QED BY <1>1, <1>2, <1>3, <1>5

-----------------------------------------------------------------------------
(* Shares that move between two books of holders. *)
LEMMA ConservedMove ==
  ASSUME BooksInv, UNCHANGED <<total, available, retired>>, Accounted' = Accounted
  PROVE  SharesConserved'
BY DEF BooksInv, SharesConserved

(* Burning: shares leave a balance for good. *)
LEMMA BurnSharesInv ==
  ASSUME BooksInv, NEW h \in Holders, NEW n \in Shares \ {0}, BurnShares(h, n)
  PROVE  BooksInv'
<1> USE MarketplaceAssumption DEF BooksInv
<1>1. BooksTypeOK'
  BY DEF BurnShares, BooksTypeOK
<1>2. ClockTypeOK' /\ BooksCoherent'
  BY DEF BurnShares, ClockTypeOK, ruleVars, BooksCoherent, OrdersCoherent, GrantsCoherent
<1>3. Total(balance') = Total(balance) + (0 - n)
  <2>1. n \in Nat /\ balance' = [balance EXCEPT ![h] = @ - n]
    BY DEF BurnShares
  <2> QED BY <1>1, <2>1, BalanceMoves
<1>4. total' - available' - retired' = (total - available - retired) + (0 - n)
  BY DEF BurnShares, BooksTypeOK
<1>5. UNCHANGED <<bridged, escrow, grant>>
  BY DEF BurnShares
<1>6. 0 - n \in Int
  OBVIOUS
<1>7. SharesConserved'
  BY <1>1, <1>3, <1>4, <1>5, <1>6, ConservedByBalance
<1> QED BY <1>1, <1>2, <1>7

(* Redemption: shares go from a balance back to the unsold pool. *)
LEMMA BuybackSharesInv ==
  ASSUME BooksInv, NEW h \in Holders, NEW n \in Shares \ {0}, BuybackShares(h, n)
  PROVE  BooksInv'
<1> USE MarketplaceAssumption DEF BooksInv
<1>1. BooksTypeOK'
  BY DEF BuybackShares, BooksTypeOK
<1>2. ClockTypeOK' /\ BooksCoherent'
  BY DEF BuybackShares, ClockTypeOK, ruleVars, BooksCoherent, OrdersCoherent,
         GrantsCoherent
<1>3. Total(balance') = Total(balance) + (0 - n)
  <2>1. n \in Nat /\ balance' = [balance EXCEPT ![h] = @ - n]
    BY DEF BuybackShares
  <2> QED BY <1>1, <2>1, BalanceMoves
<1>4. total' - available' - retired' = (total - available - retired) + (0 - n)
  BY DEF BuybackShares, BooksTypeOK
<1>5. UNCHANGED <<bridged, escrow, grant>>
  BY DEF BuybackShares
<1>6. 0 - n \in Int
  OBVIOUS
<1>7. SharesConserved'
  BY <1>1, <1>3, <1>4, <1>5, <1>6, ConservedByBalance
<1> QED BY <1>1, <1>2, <1>7

-----------------------------------------------------------------------------
(* The bridge. *)
LEMMA LockForBridgeInv ==
  ASSUME BooksInv, NEW h \in Holders, NEW n \in Shares \ {0}, LockForBridge(h, n)
  PROVE  BooksInv'
<1> USE MarketplaceAssumption DEF BooksInv
<1>1. BooksTypeOK'
  BY DEF LockForBridge, BooksTypeOK
<1>2. ClockTypeOK' /\ BooksCoherent'
  BY DEF LockForBridge, ClockTypeOK, ruleVars, BooksCoherent, OrdersCoherent,
         GrantsCoherent
<1>3. /\ n \in Nat
      /\ balance' = [balance EXCEPT ![h] = @ - n]
      /\ bridged' = [bridged EXCEPT ![h] = @ + n]
      /\ UNCHANGED <<total, available, retired, escrow, grant>>
  BY DEF LockForBridge
<1>4. Total(balance') = Total(balance) + (0 - n)
  BY <1>1, <1>3, BalanceMoves
<1>5. Total(bridged') = Total(bridged) + n
  BY <1>1, <1>3, BridgedMoves
<1>6. UNCHANGED GrantRest
  BY <1>3 DEF GrantRest
<1>7. Accounted' = Accounted
  BY <1>3, <1>4, <1>5, <1>6, BookTotals DEF Accounted, BooksCoherent
<1>8. SharesConserved'
  BY <1>3, <1>7, ConservedMove
<1> QED BY <1>1, <1>2, <1>8

LEMMA UnlockFromBridgeInv ==
  ASSUME BooksInv, NEW h \in Holders, NEW n \in Shares \ {0}, UnlockFromBridge(h, n)
  PROVE  BooksInv'
<1> USE MarketplaceAssumption DEF BooksInv
<1>1. BooksTypeOK'
  BY DEF UnlockFromBridge, BooksTypeOK
<1>2. ClockTypeOK' /\ BooksCoherent'
  BY DEF UnlockFromBridge, ClockTypeOK, ruleVars, BooksCoherent, OrdersCoherent,
         GrantsCoherent
<1>3. /\ n \in Nat
      /\ balance' = [balance EXCEPT ![h] = @ + n]
      /\ bridged' = [bridged EXCEPT ![h] = @ - n]
      /\ UNCHANGED <<total, available, retired, escrow, grant>>
  BY DEF UnlockFromBridge
<1>4. Total(balance') = Total(balance) + n
  BY <1>1, <1>3, BalanceMoves
<1>5. Total(bridged') = Total(bridged) + (0 - n)
  BY <1>1, <1>3, BridgedMoves
<1>6. UNCHANGED GrantRest
  BY <1>3 DEF GrantRest
<1>7. Accounted' = Accounted
  BY <1>3, <1>4, <1>5, <1>6, BookTotals DEF Accounted, BooksCoherent
<1>8. SharesConserved'
  BY <1>3, <1>7, ConservedMove
<1> QED BY <1>1, <1>2, <1>8

-----------------------------------------------------------------------------
(* Supply changes move the total and the unsold pool together. *)
LEMMA SetTotalSharesInv ==
  ASSUME BooksInv, NEW n \in Supplies, SetTotalShares(n)
  PROVE  BooksInv'
<1> USE MarketplaceAssumption DEF BooksInv
<1>1. BooksTypeOK'
  BY DEF SetTotalShares, BooksTypeOK
<1>2. ClockTypeOK' /\ BooksCoherent'
  BY DEF SetTotalShares, ClockTypeOK, ruleVars, BooksCoherent, OrdersCoherent,
         GrantsCoherent
<1>3. UNCHANGED <<balance, bridged, escrow, grant, retired>>
  BY DEF SetTotalShares
<1>4. Total(balance') = Total(balance) + 0
  BY <1>3, BookTotals DEF BooksCoherent
<1>5. total' - available' - retired' = (total - available - retired) + 0
  BY DEF SetTotalShares, BooksTypeOK
<1>6. SharesConserved'
  BY <1>1, <1>3, <1>4, <1>5, ConservedByBalance
<1> QED BY <1>1, <1>2, <1>6

LEMMA IncreaseTotalSharesInv ==
  ASSUME BooksInv, NEW n \in Supplies, IncreaseTotalShares(n)
  PROVE  BooksInv'
<1> USE MarketplaceAssumption DEF BooksInv
<1>1. BooksTypeOK'
  BY DEF IncreaseTotalShares, BooksTypeOK
<1>2. ClockTypeOK' /\ BooksCoherent'
  BY DEF IncreaseTotalShares, ClockTypeOK, ruleVars, BooksCoherent, OrdersCoherent,
         GrantsCoherent
<1>3. UNCHANGED <<balance, bridged, escrow, grant, retired>>
  BY DEF IncreaseTotalShares
<1>4. Total(balance') = Total(balance) + 0
  BY <1>3, BookTotals DEF BooksCoherent
<1>5. total' - available' - retired' = (total - available - retired) + 0
  BY DEF IncreaseTotalShares, BooksTypeOK
<1>6. SharesConserved'
  BY <1>1, <1>3, <1>4, <1>5, ConservedByBalance
<1> QED BY <1>1, <1>2, <1>6

-----------------------------------------------------------------------------
(* The order book. *)
LEMMA PlaceSellOrderInv ==
  ASSUME BooksInv, NEW h \in Holders, NEW n \in Shares \ {0}, PlaceSellOrder(h, n)
  PROVE  BooksInv'
<1> USE MarketplaceAssumption DEF BooksInv
<1>1. nextOrder \in OrderIds /\ seller[nextOrder] = None /\ escrow[nextOrder] = 0
  BY DEF PlaceSellOrder, BooksTypeOK, BooksCoherent, OrdersCoherent
<1>2. BooksTypeOK'
  BY <1>1 DEF PlaceSellOrder, BooksTypeOK
<1>3. ClockTypeOK' /\ GrantsCoherent'
  BY DEF PlaceSellOrder, ClockTypeOK, ruleVars, BooksCoherent, GrantsCoherent
<1>4. OrdersCoherent'
  <2> SUFFICES ASSUME NEW o \in OrderIds
               PROVE  /\ seller'[o] = None <=> escrow'[o] = 0
                      /\ o >= nextOrder' => seller'[o] = None
    BY DEF OrdersCoherent
  <2>1. h # None /\ n # 0
    BY EligibilityAssumption
  <2>2. nextOrder \in Nat /\ o \in Nat /\ nextOrder' = nextOrder + 1
    BY DEF BooksTypeOK, PlaceSellOrder
  <2>3. /\ seller' = [seller EXCEPT ![nextOrder] = h]
        /\ escrow' = [escrow EXCEPT ![nextOrder] = n]
    BY DEF PlaceSellOrder
  <2>4. /\ seller[o] = None <=> escrow[o] = 0
        /\ o >= nextOrder => seller[o] = None
    BY DEF BooksCoherent, OrdersCoherent
  <2>5. CASE o = nextOrder
    BY <1>1, <2>1, <2>2, <2>3, <2>5 DEF BooksTypeOK
  <2>6. CASE o # nextOrder
    BY <2>2, <2>3, <2>4, <2>6 DEF BooksTypeOK
  <2> QED BY <2>5, <2>6
<1>5. /\ n \in Nat
      /\ balance' = [balance EXCEPT ![h] = @ - n]
      /\ escrow' = [escrow EXCEPT ![nextOrder] = @ + n]
      /\ UNCHANGED <<total, available, retired, bridged, grant>>
  BY <1>1 DEF PlaceSellOrder, BooksTypeOK
<1>6. Total(balance') = Total(balance) + (0 - n)
  BY <1>2, <1>5, BalanceMoves
<1>7. Total(escrow') = Total(escrow) + n
  BY <1>1, <1>2, <1>5, EscrowMoves
<1>8. UNCHANGED GrantRest
  BY <1>5 DEF GrantRest
<1>9. Accounted' = Accounted
  BY <1>5, <1>6, <1>7, <1>8, BookTotals DEF Accounted, BooksCoherent
<1>10. SharesConserved'
  BY <1>5, <1>9, ConservedMove
<1> QED BY <1>2, <1>3, <1>4, <1>10 DEF BooksCoherent

LEMMA CancelSellOrderInv ==
  ASSUME BooksInv, NEW o \in OrderIds, CancelSellOrder(o)
  PROVE  BooksInv'
<1> USE MarketplaceAssumption DEF BooksInv
<1>1. seller[o] \in Holders /\ escrow[o] \in Nat
  BY DEF CancelSellOrder, BooksTypeOK
<1>2. BooksTypeOK'
  BY <1>1 DEF CancelSellOrder, ReturnEscrow, BooksTypeOK
<1>3. ClockTypeOK' /\ BooksCoherent'
  BY <1>1 DEF CancelSellOrder, ReturnEscrow, ClockTypeOK, ruleVars, BooksCoherent,
              OrdersCoherent, GrantsCoherent, BooksTypeOK
<1>4. /\ balance' = [balance EXCEPT ![seller[o]] = @ + escrow[o]]
      /\ escrow' = [escrow EXCEPT ![o] = @ - escrow[o]]
      /\ UNCHANGED <<total, available, retired, bridged, grant>>
  <2>1. escrow[o] - escrow[o] = 0
    BY <1>1
  <2> QED BY <2>1 DEF CancelSellOrder, ReturnEscrow
<1>5. Total(balance') = Total(balance) + escrow[o]
  BY <1>1, <1>2, <1>4, BalanceMoves
<1>6. Total(escrow') = Total(escrow) + (0 - escrow[o])
  BY <1>1, <1>2, <1>4, EscrowMoves
<1>7. UNCHANGED GrantRest
  BY <1>4 DEF GrantRest
<1>8. Accounted' = Accounted
  BY <1>1, <1>4, <1>5, <1>6, <1>7, BookTotals DEF Accounted, BooksCoherent
<1>9. SharesConserved'
  BY <1>4, <1>8, ConservedMove
<1> QED BY <1>2, <1>3, <1>9

LEMMA BuyFromOrderInv ==
  ASSUME BooksInv, NEW b \in Holders, NEW o \in OrderIds, NEW n \in Shares \ {0},
         BuyFromOrder(b, o, n)
  PROVE  BooksInv'
<1> USE MarketplaceAssumption DEF BooksInv
<1>1. /\ n \in Nat /\ n # 0 /\ n <= escrow[o] /\ seller[o] # None
      /\ balance[b] + n <= MaxU32
      /\ balance' = [balance EXCEPT ![b] = @ + n]
      /\ escrow' = [escrow EXCEPT ![o] = @ - n]
      /\ seller' = IF n = escrow[o] THEN [seller EXCEPT ![o] = None] ELSE seller
      /\ UNCHANGED <<total, available, retired, bridged, grant, nextOrder, now>>
      /\ Register({b}) /\ ApplyLockup(b)
  BY DEF BuyFromOrder, OrderAfterFill
<1>2. BooksTypeOK'
  <2>1. balance' \in [Holders -> Shares]
    BY <1>1 DEF BooksTypeOK
  <2>2. escrow[o] - n \in Shares
    BY <1>1 DEF BooksTypeOK
  <2>3. escrow' \in [OrderIds -> Shares] /\ seller' \in [OrderIds -> Holders \cup {None}]
    BY <1>1, <2>2 DEF BooksTypeOK
  <2>4. registered' \subseteq Holders
    BY <1>1 DEF BooksTypeOK, Register
  <2>5. unlockAt' \in [Holders -> Nat]
    <3>1. now + LockupPeriod \in Nat
      BY MaxTimeAssumption DEF ClockTypeOK
    <3> QED BY <1>1, <3>1 DEF BooksTypeOK, ApplyLockup
  <2> QED BY <1>1, <2>1, <2>3, <2>4, <2>5 DEF BooksTypeOK
<1>3. ClockTypeOK' /\ GrantsCoherent'
  BY <1>1 DEF ClockTypeOK, BooksCoherent, GrantsCoherent
<1>4. OrdersCoherent'
  <2> SUFFICES ASSUME NEW i \in OrderIds
               PROVE  /\ seller'[i] = None <=> escrow'[i] = 0
                      /\ i >= nextOrder' => seller'[i] = None
    BY DEF OrdersCoherent
  <2>1. /\ seller[i] = None <=> escrow[i] = 0
        /\ i >= nextOrder => seller[i] = None
    BY DEF BooksCoherent, OrdersCoherent
  <2>2. escrow[o] \in Nat
    BY DEF BooksTypeOK
  <2>3. CASE i = o
    BY <1>1, <2>1, <2>2, <2>3 DEF BooksTypeOK
  <2>4. CASE i # o
    BY <1>1, <2>1, <2>4 DEF BooksTypeOK
  <2> QED BY <2>3, <2>4
<1>5. Total(balance') = Total(balance) + n
  BY <1>1, <1>2, BalanceMoves
<1>6. Total(escrow') = Total(escrow) + (0 - n)
  BY <1>1, <1>2, EscrowMoves
<1>7. UNCHANGED GrantRest
  BY <1>1 DEF GrantRest
<1>8. Accounted' = Accounted
  BY <1>1, <1>5, <1>6, <1>7, BookTotals DEF Accounted, BooksCoherent
<1>9. SharesConserved'
  BY <1>1, <1>8, ConservedMove
<1> QED BY <1>2, <1>3, <1>4, <1>9 DEF BooksCoherent

-----------------------------------------------------------------------------
(* A batch transfer: what the recipients gain the sender loses, except for *)
(* what it sends to itself, which is retired.                              *)
LEMMA BatchTransferInv ==
  ASSUME BooksInv, NEW from \in Holders, NEW credit \in [Holders -> 0..balance[from]],
         BatchTransfer(from, credit)
  PROVE  BooksInv'
<1> DEFINE n == Total(credit)
           recipients == {h \in Holders : credit[h] > 0}
           mid == [h \in Holders |-> balance[h] + credit[h]]
<1> USE MarketplaceAssumption DEF BooksInv
<1>1. /\ n <= balance[from]
      /\ \A h \in recipients : balance[h] + credit[h] <= MaxU32
      /\ balance' = [h \in Holders |-> IF h = from THEN balance[h] - n
                                      ELSE balance[h] + credit[h]]
      /\ Register(recipients)
      /\ retired' = retired + credit[from]
      /\ UNCHANGED <<total, available, bridged, seller, escrow, nextOrder, grant,
                     unlockAt, now>>
  BY DEF BatchTransfer, ruleVars
<1>2. balance \in [Holders -> Nat] /\ credit \in [Holders -> Nat] /\ IsFiniteSet(Holders)
  BY DEF BooksTypeOK
<1>3. n \in Nat
  BY <1>2, TotalNat
<1>4. \A h \in Holders : credit[h] = 0 \/ h \in recipients
  BY <1>2
<1> HIDE DEF n
<1>5. balance' \in [Holders -> Shares]
  <2> SUFFICES ASSUME NEW h \in Holders PROVE balance'[h] \in Shares
    BY <1>1
  <2>1. balance[h] \in Shares /\ credit[h] \in Nat
    BY <1>2 DEF BooksTypeOK
  <2>2. CASE h = from
    BY <1>1, <1>3, <2>1, <2>2
  <2>3. CASE h # from
    BY <1>1, <1>4, <2>1, <2>3
  <2> QED BY <2>2, <2>3
<1>6. BooksTypeOK'
  BY <1>1, <1>2, <1>5 DEF BooksTypeOK, Register
<1>7. ClockTypeOK' /\ BooksCoherent'
  BY <1>1 DEF ClockTypeOK, BooksCoherent, OrdersCoherent, GrantsCoherent
<1>8. Total(balance') = Total(balance) + (0 - credit[from])
  <2>1. mid \in [Holders -> Nat] /\ \A h \in Holders : mid[h] = balance[h] + credit[h]
    BY <1>2
  <2>2. balance' \in [Holders -> Nat] /\ n + credit[from] \in Nat
    BY <1>2, <1>3, <1>5
  <2>3. mid[from] = balance'[from] + (n + credit[from])
    <3>1. balance'[from] = balance[from] - n
      BY <1>1
    <3>2. balance[from] \in Nat /\ credit[from] \in Nat
      BY <1>2
    <3>3. balance[from] + credit[from] = (balance[from] - n) + (n + credit[from])
      BY <1>3, <3>2
    <3> QED BY <2>1, <3>1, <3>3
  <2>4. \A h \in Holders : h # from => mid[h] = balance'[h]
    BY <1>1, <2>1
  <2> HIDE DEF mid
  <2>5. Total(mid) = Total(balance) + n
    <3>1. Total(mid) = Total(balance) + Total(credit)
      BY ONLY <1>2, <2>1, TotalAdd
    <3> QED BY <3>1 DEF n
  <2>6. Total(mid) = Total(balance') + (n + credit[from])
    BY ONLY <1>2, <2>1, <2>2, <2>3, <2>4, TotalRaise
  <2>7. Total(balance) \in Nat /\ Total(balance') \in Nat /\ credit[from] \in Nat
    BY <1>2, <2>2, TotalNat
  <2>8. PICK x \in Nat : x = Total(balance')
    BY <2>7
  <2>9. Total(balance) + n = x + (n + credit[from])
    BY <2>5, <2>6, <2>8
  <2>10. x = Total(balance) + (0 - credit[from])
    BY ONLY <1>3, <2>7, <2>9
  <2> QED BY <2>8, <2>10
<1>9. total' - available' - retired' = (total - available - retired) + (0 - credit[from])
  BY <1>1, <1>2 DEF BooksTypeOK
<1>10. 0 - credit[from] \in Int
  BY <1>2
<1>11. SharesConserved'
  BY <1>1, <1>6, <1>8, <1>9, <1>10, ConservedByBalance
<1> QED BY <1>6, <1>7, <1>11

-----------------------------------------------------------------------------
(* What the open orders return to their sellers is the whole escrow. *)
LEMMA EscrowBySeller ==
  ASSUME BooksInv
  PROVE  /\ [h \in Holders |-> EscrowOf(h)] \in [Holders -> Nat]
         /\ Total([h \in Holders |-> EscrowOf(h)]) = Total(escrow)
<1> DEFINE c == [h \in Holders |-> EscrowOf(h)]
<1>1. /\ escrow \in [OrderIds -> Nat] /\ IsFiniteSet(OrderIds) /\ IsFiniteSet(Holders)
      /\ seller \in [OrderIds -> Holders \cup {None}]
  BY MarketplaceAssumption DEF BooksInv, BooksTypeOK
<1>2. \A o \in OrderIds : escrow[o] # 0 => seller[o] \in Holders
  BY <1>1 DEF BooksInv, BooksCoherent, OrdersCoherent
<1>3. ASSUME NEW h \in Holders PROVE EscrowOf(h) \in Nat
  <2>1. [o \in OrderIds |-> IF seller[o] = h THEN escrow[o] ELSE 0] \in [OrderIds -> Nat]
    BY <1>1
  <2> QED BY <1>1, <2>1, TotalNat DEF EscrowOf
<1>4. c \in [Holders -> Nat]
  BY <1>3
<1>5. \A h \in Holders :
        c[h] = Total([o \in OrderIds |-> IF seller[o] = h THEN escrow[o] ELSE 0])
  BY DEF EscrowOf
<1> HIDE DEF c
<1>6. Total(c) = Total(escrow)
  BY ONLY <1>1, <1>2, <1>4, <1>5, TotalByClass
<1> QED BY <1>4, <1>6 DEF c

LEMMA DelistAssetInv ==
  ASSUME BooksInv, DelistAsset
  PROVE  BooksInv'
<1> DEFINE back == [h \in Holders |-> EscrowOf(h)]
<1> USE MarketplaceAssumption DEF BooksInv
<1>1. /\ \A h \in Holders : balance[h] + EscrowOf(h) <= MaxU32
      /\ balance' = [h \in Holders |-> balance[h] + EscrowOf(h)]
      /\ seller' = [o \in OrderIds |-> None]
      /\ escrow' = [o \in OrderIds |-> 0]
      /\ UNCHANGED <<total, available, bridged, nextOrder, grant, unlockAt,
                     registered, retired, now>>
  BY DEF DelistAsset, Returned
<1>2. back \in [Holders -> Nat] /\ Total(back) = Total(escrow)
  BY EscrowBySeller
<1>3. balance \in [Holders -> Shares]
  BY DEF BooksTypeOK
<1>4. \A h \in Holders : EscrowOf(h) \in Nat
  BY <1>2
<1>5. balance' \in [Holders -> Shares]
  BY <1>1, <1>3, <1>4
<1>6. BooksTypeOK'
  BY <1>1, <1>5 DEF BooksTypeOK
<1>7. ClockTypeOK' /\ BooksCoherent'
  BY <1>1 DEF ClockTypeOK, BooksCoherent, OrdersCoherent, GrantsCoherent
<1>8. Total(balance') = Total(balance) + Total(escrow)
  <2>1. /\ balance \in [Holders -> Nat] /\ balance' \in [Holders -> Nat]
        /\ \A h \in Holders : balance'[h] = balance[h] + back[h]
        /\ IsFiniteSet(Holders)
    BY <1>1, <1>3, <1>5
  <2> HIDE DEF back
  <2>2. Total(balance') = Total(balance) + Total(back)
    BY ONLY <1>2, <2>1, TotalAdd
  <2> QED BY <1>2, <2>2
<1>9. Total(escrow') = 0
  <2>1. escrow' \in [OrderIds -> Nat] /\ \A o \in OrderIds : escrow'[o] = 0
    BY <1>1
  <2> QED BY <2>1, TotalZero
<1>10. UNCHANGED GrantRest
  BY <1>1 DEF GrantRest
<1>11. Accounted' = Accounted
  BY <1>1, <1>8, <1>9, <1>10, BookTotals DEF Accounted, BooksCoherent
<1>12. SharesConserved'
  BY <1>1, <1>11, ConservedMove
<1> QED BY <1>6, <1>7, <1>12

-----------------------------------------------------------------------------
(* Vesting. *)
LEMMA BuyVestedSharesInv ==
  ASSUME BooksInv, NEW b \in Holders, NEW n \in Shares \ {0},
         NEW duration \in VestingTerms, BuyVestedShares(b, n, duration)
  PROVE  BooksInv'
<1> USE MarketplaceAssumption DEF BooksInv
<1>1. PICK g \in Grants :
        /\ grant[g] = NoGrant
        /\ grant' = [grant EXCEPT ![g] =
                       [owner |-> b, start |-> now, cliff |-> 0,
                        duration |-> duration, amount |-> n, claimed |-> 0]]
  BY DEF BuyVestedShares
<1>2. /\ n \in Nat /\ n <= available
      /\ available' = available - n
      /\ Register({b})
      /\ UNCHANGED <<total, balance, bridged, seller, escrow, nextOrder, unlockAt,
                     retired, now>>
  BY DEF BuyVestedShares
<1>3. now \in Nat /\ duration \in Nat /\ n \in Shares /\ b # None
  BY MaxTimeAssumption, EligibilityAssumption DEF ClockTypeOK
<1>4. grant' \in [Grants -> Grant]
  BY <1>1, <1>3 DEF BooksTypeOK, Grant
<1>5. BooksTypeOK'
  BY <1>2, <1>4 DEF BooksTypeOK, Register
<1>6. ClockTypeOK' /\ OrdersCoherent'
  BY <1>2 DEF ClockTypeOK, BooksCoherent, OrdersCoherent
<1>7. GrantsCoherent'
  BY <1>1, <1>2, <1>3 DEF BooksCoherent, GrantsCoherent, BooksTypeOK
<1>8. Total(GrantRest') = Total(GrantRest) + n
  <2>1. GrantRest \in [Grants -> Nat] /\ IsFiniteSet(Grants)
    BY GrantRestType DEF BooksCoherent
  <2>2. GrantRest[g] = 0 /\ GrantRest'[g] = n
    BY <1>1, <1>2 DEF GrantRest, NoGrant, BooksTypeOK
  <2>3. \A i \in Grants : i # g => GrantRest'[i] = GrantRest[i]
    BY <1>1 DEF GrantRest, BooksTypeOK
  <2>4. GrantRest'[g] = GrantRest[g] + n
    BY <1>2, <2>2
  <2>5. GrantRest' \in [Grants -> Nat]
    <3>1. \A i \in Grants : GrantRest'[i] \in Nat
      BY <1>2, <2>1, <2>2, <2>3
    <3>2. GrantRest' = [i \in Grants |-> GrantRest'[i]]
      BY DEF GrantRest
    <3> QED BY ONLY <3>1, <3>2
  <2> QED BY ONLY <1>2, <2>1, <2>3, <2>4, <2>5, TotalRaise
<1>9. Accounted' = Accounted + n
  BY <1>2, <1>8, BookTotals DEF Accounted, BooksCoherent
<1>10. total' - available' - retired' = (total - available - retired) + n
  BY <1>2 DEF BooksTypeOK
<1>11. SharesConserved'
  BY <1>2, <1>5, <1>9, <1>10, ConservedStep
<1> QED BY <1>5, <1>6, <1>7, <1>11 DEF BooksCoherent

(* A fraction of an amount, rounded down, is at most the amount. *)
LEMMA FractionBound ==
  ASSUME NEW a \in Nat, NEW e \in Nat, NEW d \in Nat \ {0}, e <= d
  PROVE  (a * e) \div d \in Nat /\ (a * e) \div d <= a
<1>1. a * e \in Nat /\ a * d \in Nat
  OBVIOUS
<1>2. a * e <= a * d
  OBVIOUS
<1>3. PICK x \in Nat : x = a * e
  BY <1>1
<1>4. PICK q \in Int : q = x \div d
  BY <1>3
<1>5. q >= 0 /\ d * q <= x
  BY <1>4
<1>6. d * q <= a * d
  BY <1>2, <1>3, <1>5
<1>7. q <= a
  <2>1. SUFFICES ASSUME q >= a + 1 PROVE FALSE
    BY <1>4
  <2>2. d * q >= d * (a + 1)
    BY <1>5, <2>1
  <2>3. d * (a + 1) = a * d + d
    OBVIOUS
  <2> QED BY <1>1, <1>6, <2>2, <2>3
<1> QED BY <1>3, <1>4, <1>5, <1>7

(* A schedule never has more vested than it holds. *)
LEMMA VestedBound ==
  ASSUME NEW s \in Grant, NEW t \in Nat
  PROVE  Vested(s, t) \in Nat /\ Vested(s, t) <= s.amount
<1>1. s.amount \in Nat /\ s.start \in Nat /\ s.cliff \in Nat /\ s.duration \in Nat
  BY MarketplaceAssumption DEF Grant
<1>2. CASE t < s.start + s.cliff
  BY <1>1, <1>2 DEF Vested
<1>3. CASE t >= s.start + s.cliff /\ (t >= s.start + s.duration \/ s.duration <= s.cliff)
  BY <1>1, <1>3 DEF Vested
<1>4. CASE t >= s.start + s.cliff /\ t < s.start + s.duration /\ s.duration > s.cliff
  <2> DEFINE e == t - (s.start + s.cliff)
             d == s.duration - s.cliff
  <2>1. e \in Nat /\ d \in Nat \ {0} /\ e <= d
    BY <1>1, <1>4
  <2>2. Vested(s, t) = (s.amount * e) \div d
    BY <1>1, <1>4 DEF Vested
  <2> HIDE DEF e, d
  <2> QED BY <1>1, <2>1, <2>2, FractionBound
<1> QED BY <1>1, <1>2, <1>3, <1>4

(* What a claim takes from a schedule is what the schedule loses. *)
LEMMA ClaimOfBound ==
  ASSUME BooksInv, NEW h \in Holders, NEW g \in Grants
  PROVE  /\ ClaimOf(h)[g] \in Nat
         /\ grant[g].claimed + ClaimOf(h)[g] <= grant[g].amount
<1>1. grant[g] \in Grant /\ now \in Nat
  BY MaxTimeAssumption DEF BooksInv, BooksTypeOK, ClockTypeOK
<1>2. /\ grant[g].claimed \in Nat /\ grant[g].amount \in Nat
      /\ grant[g].claimed <= grant[g].amount
  BY <1>1, MarketplaceAssumption DEF Grant, BooksInv, BooksCoherent, GrantsCoherent
<1>3. Vested(grant[g], now) \in Nat /\ Vested(grant[g], now) <= grant[g].amount
  BY <1>1, VestedBound
<1> QED BY <1>2, <1>3 DEF ClaimOf, SaturatingSub

(* A claim moves what it takes from the schedules to the balance, whole:   *)
(* the saturating addition does not saturate.                              *)
LEMMA ClaimVestedEffect ==
  ASSUME BooksInv, NEW h \in Holders, ClaimVestedShares(h)
  PROVE  /\ BooksInv'
         /\ ClaimOf(h) \in [Grants -> Nat] /\ Total(ClaimOf(h)) \in Nat
         /\ balance' = [balance EXCEPT ![h] = @ + Total(ClaimOf(h))]
         /\ \A g \in Grants :
              /\ GrantRest[g] = GrantRest'[g] + ClaimOf(h)[g]
              /\ GrantRest'[g] # 0 => grant'[g].owner = grant[g].owner
<1> DEFINE claim == ClaimOf(h)
           n == Total(claim)
           next(g) == IF claim[g] = 0 THEN grant[g]
                      ELSE IF grant[g].claimed + claim[g] < grant[g].amount
                      THEN [grant[g] EXCEPT !.claimed = @ + claim[g]]
                      ELSE NoGrant
<1> USE MarketplaceAssumption DEF BooksInv
<1>1. /\ n > 0
      /\ balance' = [balance EXCEPT ![h] = SaturatingAdd(@, n, MaxU32)]
      /\ grant' = [g \in Grants |-> next(g)]
      /\ UNCHANGED <<total, available, bridged, seller, escrow, nextOrder,
                     unlockAt, registered, retired, now>>
  BY DEF ClaimVestedShares, ruleVars
<1>2. \A g \in Grants : claim[g] \in Nat /\ grant[g].claimed + claim[g] <= grant[g].amount
  BY ClaimOfBound
<1>3. claim \in [Grants -> Nat]
  <2>1. claim = [g \in Grants |-> claim[g]]
    BY DEF ClaimOf
  <2> QED BY <1>2, <2>1
<1> HIDE DEF claim
<1>4. \A g \in Grants :
        /\ grant[g] \in Grant
        /\ grant[g].claimed \in Nat /\ grant[g].amount \in Nat /\ grant[g].amount \in Shares
        /\ grant[g].owner = None => grant[g] = NoGrant
  BY DEF BooksTypeOK, Grant, BooksCoherent, GrantsCoherent
<1>5. ASSUME NEW g \in Grants
      PROVE  /\ next(g) \in Grant
             /\ next(g).owner = None => next(g) = NoGrant
             /\ next(g).claimed <= next(g).amount
             /\ next(g).amount - next(g).claimed \in Nat
             /\ grant[g].amount - grant[g].claimed
                  = (next(g).amount - next(g).claimed) + claim[g]
             /\ next(g).amount - next(g).claimed # 0 => next(g).owner = grant[g].owner
  <2>1. /\ claim[g] \in Nat /\ grant[g].claimed + claim[g] <= grant[g].amount
        /\ grant[g] \in Grant
        /\ grant[g].claimed \in Nat /\ grant[g].amount \in Nat /\ grant[g].amount \in Shares
        /\ grant[g].owner = None => grant[g] = NoGrant
    BY <1>2, <1>4
  <2>2. CASE claim[g] = 0
    BY <2>1, <2>2
  <2>3. CASE claim[g] # 0 /\ grant[g].claimed + claim[g] < grant[g].amount
    <3>1. next(g) = [grant[g] EXCEPT !.claimed = @ + claim[g]]
      BY <2>3
    <3>2. grant[g].claimed + claim[g] \in Shares
      BY <2>1
    <3>3. next(g) \in Grant
      BY <2>1, <3>1, <3>2 DEF Grant
    <3>4. /\ next(g).owner = grant[g].owner /\ next(g).amount = grant[g].amount
          /\ next(g).claimed = grant[g].claimed + claim[g]
      BY <2>1, <3>1 DEF Grant
    <3>5. grant[g].owner # None
      BY <2>1, <2>3 DEF NoGrant
    <3> HIDE DEF next
    <3> QED BY <2>1, <3>3, <3>4, <3>5
  <2>4. CASE claim[g] # 0 /\ grant[g].claimed + claim[g] >= grant[g].amount
    <3>1. next(g) = NoGrant
      BY <2>1, <2>4
    <3>2. grant[g].claimed + claim[g] = grant[g].amount
      BY <2>1, <2>4
    <3> HIDE DEF next
    <3> QED BY <2>1, <3>1, <3>2 DEF NoGrant, Grant
  <2> HIDE DEF next
  <2> QED BY <2>1, <2>2, <2>3, <2>4
<1> HIDE DEF next
<1>6. grant' \in [Grants -> Grant] /\ GrantsCoherent'
  BY <1>1, <1>5 DEF GrantsCoherent
<1>7. \A g \in Grants :
         /\ GrantRest'[g] \in Nat /\ GrantRest[g] = GrantRest'[g] + claim[g]
         /\ GrantRest'[g] # 0 => grant'[g].owner = grant[g].owner
  BY <1>1, <1>5 DEF GrantRest
<1>8. Total(GrantRest') \in Nat /\ Total(GrantRest) = Total(GrantRest') + n
  <2>1. GrantRest \in [Grants -> Nat] /\ IsFiniteSet(Grants)
    BY GrantRestType DEF BooksCoherent
  <2>2. \A g \in Grants :
          GrantRest'[g] \in Nat /\ GrantRest[g] = GrantRest'[g] + claim[g]
    BY <1>7
  <2>3. GrantRest' = [g \in Grants |-> GrantRest'[g]]
    BY DEF GrantRest
  <2>4. GrantRest' \in [Grants -> Nat]
    BY ONLY <2>2, <2>3
  <2>5. Total(GrantRest) = Total(GrantRest') + Total(claim)
    BY ONLY <1>3, <2>1, <2>2, <2>4, TotalAdd
  <2>6. Total(GrantRest') \in Nat
    BY ONLY <2>1, <2>4, TotalNat
  <2> QED BY <2>5, <2>6
<1>9. n \in Nat
  BY <1>3, TotalNat
<1> HIDE DEF n
<1>10. balance[h] + n <= MaxU32
  <2>1. /\ Total(balance) \in Nat /\ Total(bridged) \in Nat
        /\ Total(escrow) \in Nat /\ Total(GrantRest) \in Nat
    BY BookTotals DEF BooksCoherent
  <2>2. balance[h] \in Nat /\ balance[h] <= Total(balance)
    <3>1. balance \in [Holders -> Nat] /\ IsFiniteSet(Holders)
      BY DEF BooksTypeOK
    <3> QED BY ONLY <3>1, h \in Holders, TotalBoundsValues
  <2>3. PICK rest \in Nat : Total(GrantRest) = rest + n
    BY <1>8
  <2>4. /\ total <= MaxU32 /\ total \in Nat /\ available \in Nat /\ retired \in Nat
        /\ total - available = Accounted + retired
    BY DEF BooksTypeOK, SharesConserved
  <2> QED BY <1>9, <2>1, <2>2, <2>3, <2>4 DEF Accounted
<1>11. balance' = [balance EXCEPT ![h] = @ + n] /\ balance[h] + n \in Shares
  <2>1. balance[h] \in Nat /\ balance[h] + n \in Shares
    BY <1>9, <1>10 DEF BooksTypeOK
  <2>2. SaturatingAdd(balance[h], n, MaxU32) = balance[h] + n
    BY <1>9, <1>10, <2>1 DEF SaturatingAdd
  <2> QED BY <1>1, <2>1, <2>2
<1>12. BooksTypeOK'
  BY <1>1, <1>6, <1>11 DEF BooksTypeOK
<1>13. ClockTypeOK' /\ OrdersCoherent'
  BY <1>1 DEF ClockTypeOK, BooksCoherent, OrdersCoherent
<1>14. Total(balance') = Total(balance) + n
  BY <1>9, <1>11, <1>12, BalanceMoves
<1>15. Accounted' = Accounted
  <2>2. PICK r \in Nat : r = Total(GrantRest')
    BY <1>8
  <2>3. Accounted' = Total(balance) + n + Total(bridged) + Total(escrow) + r
    BY <1>1, <1>14, <2>2 DEF Accounted
  <2>4. Accounted = Total(balance) + Total(bridged) + Total(escrow) + (r + n)
    BY <1>8, <2>2 DEF Accounted
  <2> QED BY <1>9, <2>3, <2>4, BookTotals DEF BooksCoherent
<1>16. SharesConserved'
  BY <1>1, <1>15, ConservedMove
<1>17. BooksInv'
  BY <1>6, <1>12, <1>13, <1>16 DEF BooksCoherent
<1> QED BY <1>3, <1>7, <1>9, <1>11, <1>17 DEF n, claim

LEMMA ClaimVestedSharesInv ==
  ASSUME BooksInv, NEW h \in Holders, ClaimVestedShares(h)
  PROVE  BooksInv'
BY ClaimVestedEffect

-----------------------------------------------------------------------------
(* A nonempty bounded set of numbers has a last element. *)
LEMMA LastOf ==
  ASSUME NEW A, A \subseteq Nat, A # {}, NEW k \in Nat, \A a \in A : a <= k
  PROVE  \E m \in A : \A a \in A : a <= m
<1> DEFINE R == {ss \in Nat \X Nat : ss[1] < ss[2]}
           T == {k - a : a \in A}
<1>1. IsWellFoundedOn(R, Nat)
  BY NatLessThanWellFounded DEF OpToRel
<1>2. T \subseteq Nat
  <2>1. \A a \in A : k - a \in Nat
    OBVIOUS
  <2> QED BY <2>1
<1>3. T # {}
  OBVIOUS
<1> HIDE DEF T, R
<1>4. \E x \in T : \A y \in T : ~ (<<y, x>> \in R)
  BY <1>1, <1>2, <1>3, WFMin, Zenon
<1>5. PICK x \in T : \A y \in T : ~ (<<y, x>> \in R)
  BY <1>4
<1>6. PICK m \in A : x = k - m
  BY DEF T
<1>7. ASSUME NEW a \in A PROVE a <= m
  <2>1. k - a \in T /\ k - a \in Nat /\ x \in Nat
    BY <1>2 DEF T
  <2>2. <<k - a, x>> \notin R
    BY <1>5, <2>1
  <2>3. ~ (k - a < x)
    BY <2>1, <2>2 DEF R
  <2> QED BY <1>6, <2>1, <2>3
<1> QED BY <1>7

(* A batch fills no more than was unsold: its last item was tested against *)
(* what the items before it left.                                          *)
LEMMA FilledBound ==
  ASSUME BooksInv, NEW b, NEW requests \in Seq(Nat),
         NEW accepted \in SUBSET DOMAIN requests, AcceptedItems(b, requests, accepted)
  PROVE  Filled(requests, accepted) \in Nat /\ Filled(requests, accepted) <= available
<1> DEFINE D == DOMAIN requests
           sum(a) == [i \in D |-> IF i \in a THEN requests[i] ELSE 0]
<1>1. D = 1..Len(requests) /\ Len(requests) \in Nat /\ requests \in [D -> Nat]
  OBVIOUS
<1>2. IsFiniteSet(D)
  BY <1>1, FS_Interval
<1>3. \A a \in SUBSET D : sum(a) \in [D -> Nat]
  BY <1>1
<1>4. \A a \in SUBSET D : Filled(requests, a) = Total(sum(a))
  BY DEF Filled
<1> HIDE DEF D
<1>5. \A a \in SUBSET D : Total(sum(a)) \in Nat
  BY ONLY <1>2, <1>3, TotalNat
<1>6. accepted \in SUBSET D
  BY DEF D
<1>7. available \in Nat
  BY MarketplaceAssumption DEF BooksInv, BooksTypeOK
<1>8. CASE accepted = {}
  <2>1. \A i \in D : sum(accepted)[i] = 0
    BY <1>8
  <2> HIDE DEF sum
  <2>2. Total(sum(accepted)) = 0
    BY ONLY <1>3, <1>6, <2>1, TotalZero
  <2> QED BY <1>4, <1>6, <1>7, <2>2
<1>9. CASE accepted # {}
  <2>1. PICK m \in accepted : \A i \in accepted : i <= m
    <3>1. accepted \subseteq Nat /\ \A i \in accepted : i <= Len(requests)
      BY <1>1, <1>6
    <3> QED BY ONLY <1>1, <1>9, <3>1, LastOf
  <2> DEFINE before == {j \in accepted : j < m}
  <2>2. before \in SUBSET D /\ m \in D /\ requests[m] \in Nat
    BY <1>1, <1>6
  <2>3. requests[m] <= available - Filled(requests, before)
    BY <2>1, <2>2 DEF AcceptedItems, D
  <2>4. \A i \in D : i \in accepted <=> i = m \/ i \in before
    BY <1>1, <1>6, <2>1
  <2>5. m \notin before
    BY <1>1, <2>2
  <2> HIDE DEF before
  <2>6. sum(accepted)[m] = sum(before)[m] + requests[m]
    BY <2>2, <2>5
  <2>7. \A i \in D : i # m => sum(accepted)[i] = sum(before)[i]
    BY <2>4
  <2>8. sum(accepted) \in [D -> Nat] /\ sum(before) \in [D -> Nat]
    BY <1>3, <1>6, <2>2
  <2> HIDE DEF sum
  <2>9. Total(sum(accepted)) = Total(sum(before)) + requests[m]
    BY ONLY <1>2, <2>2, <2>6, <2>7, <2>8, TotalRaise
  <2> QED BY <1>4, <1>5, <1>6, <1>7, <2>2, <2>3, <2>9
<1> QED BY <1>8, <1>9

LEMMA BatchBuySharesInv ==
  ASSUME BooksInv, NEW b \in Holders, NEW requests \in Batches, BatchBuyShares(b, requests)
  PROVE  BooksInv'
<1> USE MarketplaceAssumption DEF BooksInv
<1>1. PICK accepted \in SUBSET (DOMAIN requests) :
        /\ AcceptedItems(b, requests, accepted)
        /\ balance[b] + Filled(requests, accepted) <= MaxU32
        /\ available' = available - Filled(requests, accepted)
        /\ balance' = [balance EXCEPT ![b] = @ + Filled(requests, accepted)]
        /\ IF Filled(requests, accepted) > 0
           THEN Register({b}) /\ ApplyLockup(b)
           ELSE UNCHANGED <<registered, unlockAt>>
  BY DEF BatchBuyShares
<1>2. UNCHANGED <<total, bridged, seller, escrow, nextOrder, grant, retired, now>>
  BY DEF BatchBuyShares, ruleVars
<1>3. PICK n \in Nat : n = Filled(requests, accepted) /\ n <= available
  BY <1>1, FilledBound
<1>4. /\ balance[b] + n <= MaxU32
      /\ available' = available - n
      /\ balance' = [balance EXCEPT ![b] = @ + n]
  BY <1>1, <1>3
<1>5. registered' \subseteq Holders
  BY <1>1 DEF Register, BooksTypeOK
<1>6. unlockAt' \in [Holders -> Nat]
  <2>1. now + LockupPeriod \in Nat
    BY MaxTimeAssumption DEF ClockTypeOK
  <2> QED BY <1>1, <2>1 DEF ApplyLockup, BooksTypeOK
<1>7. BooksTypeOK'
  <2>1. balance' \in [Holders -> Shares] /\ available' \in Shares
    <3>1. balance[b] + n \in Shares /\ available - n \in Shares
      BY <1>3, <1>4 DEF BooksTypeOK
    <3> QED BY <1>4, <3>1 DEF BooksTypeOK
  <2> QED BY <1>2, <1>5, <1>6, <2>1 DEF BooksTypeOK
<1>8. ClockTypeOK' /\ BooksCoherent'
  BY <1>2 DEF ClockTypeOK, BooksCoherent, OrdersCoherent, GrantsCoherent
<1>9. Total(balance') = Total(balance) + n
  BY <1>4, <1>7, BalanceMoves
<1>10. total' - available' - retired' = (total - available - retired) + n
  BY <1>2, <1>4 DEF BooksTypeOK
<1>11. SharesConserved'
  BY <1>2, <1>7, <1>9, <1>10, ConservedByBalance
<1> QED BY <1>7, <1>8, <1>11

-----------------------------------------------------------------------------
LEMMA InitBooksInv == Init => BooksInv
<1> SUFFICES ASSUME Init PROVE BooksInv
  OBVIOUS
<1> USE MarketplaceAssumption, MaxTimeAssumption
<1>1. BooksTypeOK
  BY DEF Init, BooksTypeOK, Grant, NoGrant
<1>2. ClockTypeOK
  BY DEF Init, ClockInit, ClockTypeOK
<1>3. BooksCoherent
  BY DEF Init, BooksCoherent, OrdersCoherent, GrantsCoherent, NoGrant
<1>4. Total(balance) = 0 /\ Total(bridged) = 0
  <2>1. /\ balance \in [Holders -> Nat] /\ \A h \in Holders : balance[h] = 0
        /\ bridged \in [Holders -> Nat] /\ \A h \in Holders : bridged[h] = 0
    BY DEF Init
  <2> QED BY ONLY <2>1, TotalZero
<1>5. Total(escrow) = 0
  <2>1. escrow \in [OrderIds -> Nat] /\ \A o \in OrderIds : escrow[o] = 0
    BY DEF Init
  <2> QED BY ONLY <2>1, TotalZero
<1>6. Total(GrantRest) = 0
  <2>1. \A g \in Grants : grant[g].amount = 0 /\ grant[g].claimed = 0
    BY DEF Init, NoGrant
  <2>2. GrantRest \in [Grants -> Nat] /\ \A g \in Grants : GrantRest[g] = 0
    BY <2>1 DEF GrantRest
  <2> QED BY ONLY <2>2, TotalZero
<1>7. SharesConserved
  BY <1>4, <1>5, <1>6 DEF SharesConserved, Accounted, Init
<1> QED BY <1>1, <1>2, <1>3, <1>7 DEF BooksInv

LEMMA MoneyAndRulesInv ==
  ASSUME BooksInv, MoneyStep \/ RuleStep \/ UNCHANGED vars
  PROVE  BooksInv'
<1>1. UNCHANGED bookVars
  BY DEF MoneyStep, RuleStep, DepositDistribution, ClaimDistribution,
         EmergencyWithdraw, FundContract, vars
<1>2. ClockTypeOK'
  <2>1. CASE MoneyStep
    BY <2>1 DEF MoneyStep, DepositDistribution, ClaimDistribution,
                EmergencyWithdraw, FundContract, ruleVars, ClockTypeOK, BooksInv
  <2>2. CASE RuleStep
    BY <2>2, MaxTimeAssumption DEF RuleStep, Tick, ClockTypeOK, BooksInv
  <2>3. CASE UNCHANGED vars
    BY <2>3 DEF vars, ruleVars, ClockTypeOK, BooksInv
  <2> QED BY <2>1, <2>2, <2>3
<1> QED BY <1>1, <1>2, UnchangedBooksInv

LEMMA NextBooksInv == BooksInv /\ [Next]_vars => BooksInv'
<1> SUFFICES ASSUME BooksInv, [Next]_vars PROVE BooksInv'
  OBVIOUS
<1>1. ASSUME NEW h \in Holders, NEW n \in Shares \ {0}, HolderStep(h, n)
      PROVE  BooksInv'
  BY <1>1, BuySharesInv, BuyVestedSharesInv, PlaceSellOrderInv, BuyFromOrderInv,
     BuybackSharesInv, BurnSharesInv, LockForBridgeInv, UnlockFromBridgeInv
  DEF HolderStep
<1>2. ASSUME NEW b \in Holders, NEW requests \in Batches, BatchBuyShares(b, requests)
      PROVE  BooksInv'
  BY <1>2, BatchBuySharesInv
<1>3. ASSUME NEW h \in Holders, ClaimVestedShares(h) PROVE BooksInv'
  BY <1>3, ClaimVestedSharesInv
<1>4. ASSUME NEW o \in OrderIds, CancelSellOrder(o) PROVE BooksInv'
  BY <1>4, CancelSellOrderInv
<1>5. ASSUME NEW from \in Holders, NEW credit \in [Holders -> 0..balance[from]],
             BatchTransfer(from, credit)
      PROVE  BooksInv'
  BY <1>5, BatchTransferInv
<1>6. ASSUME NEW n \in Supplies, SetTotalShares(n) \/ IncreaseTotalShares(n)
      PROVE  BooksInv'
  BY <1>6, SetTotalSharesInv, IncreaseTotalSharesInv
<1>7. ASSUME DelistAsset PROVE BooksInv'
  BY <1>7, DelistAssetInv
<1>8. ASSUME MoneyStep \/ RuleStep \/ UNCHANGED vars PROVE BooksInv'
  BY <1>8, MoneyAndRulesInv
<1>9. CASE ShareStep
  BY <1>1, <1>2, <1>3, <1>4, <1>5, <1>6, <1>7, <1>9 DEF ShareStep
<1> QED BY <1>8, <1>9 DEF Next

-----------------------------------------------------------------------------
(* In every reachable state the share books are well-typed and coherent    *)
(* and account for every share: the inductive invariant of Marketplace.    *)
THEOREM BooksInvariant == Spec => []BooksInv
<1> QED BY InitBooksInv, NextBooksInv, PTL DEF Spec

(* No operation stores a share count outside u32, a half-deleted order or  *)
(* a schedule that has paid more than it holds.                            *)
THEOREM BooksTyped == Spec => []BooksTypeOK
<1>1. BooksInv => BooksTypeOK
  BY DEF BooksInv
<1> QED BY BooksInvariant, <1>1, PTL

(* The storage keys of an order and of a vesting schedule stay together.   *)
THEOREM BooksStayCoherent == Spec => []BooksCoherent
<1>1. BooksInv => BooksCoherent
  BY DEF BooksInv
<1> QED BY BooksInvariant, <1>1, PTL

(* Every share outside the unsold pool is in exactly one place, whatever   *)
(* sequence of purchases, claims, orders, transfers, redemptions, burns,   *)
(* bridge calls, supply changes and delistings has run.                    *)
THEOREM SharesAreConserved == Spec => []SharesConserved
<1>1. BooksInv => SharesConserved
  BY DEF BooksInv
<1> QED BY BooksInvariant, <1>1, PTL
=============================================================================
