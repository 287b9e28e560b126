-------------------------- MODULE Registry_proofs --------------------------
(***************************************************************************)
(* What each call does to the position of each holder, and from it, for    *)
(* all values of the constants: Marketplace implements ShareRegistry, and  *)
(* its halts and purchase counters keep their promises.                    *)
(*                                                                         *)
(* A position is a sum over four books, two of them kept by order and by   *)
(* schedule.  A call that moves shares between books must leave every      *)
(* position as it was: ClassRaise says what one order or schedule gives to *)
(* or takes from the sum of its holder, and BooksInv that the entry moved  *)
(* is counted for one holder at a time.                                    *)
(***************************************************************************)
EXTENDS Income_proofs

USE DEF Shares

Owners == [g \in Grants |-> grant[g].owner]

-----------------------------------------------------------------------------
(* The two books that are not kept by holder, as sums by class. *)
LEMMA BookClasses ==
  ASSUME NEW h \in Holders
  PROVE  /\ EscrowOf(h) = ClassTotal(OrderIds, seller, escrow, h)
         /\ VestingOf(h) = ClassTotal(Grants, Owners, GrantRest, h)
<1>1. [g \in Grants |-> IF grant[g].owner = h THEN GrantRest[g] ELSE 0]
        = [g \in Grants |-> IF Owners[g] = h THEN GrantRest[g] ELSE 0]
  BY DEF Owners
<1> QED BY <1>1 DEF EscrowOf, VestingOf, ClassTotal

LEMMA PositionParts ==
  ASSUME BooksInv, NEW h \in Holders
  PROVE  /\ balance[h] \in Nat /\ bridged[h] \in Nat
         /\ EscrowOf(h) \in Nat /\ VestingOf(h) \in Nat
         /\ Position(h) \in Nat /\ balance[h] <= Position(h)
<1>1. /\ balance[h] \in Nat /\ bridged[h] \in Nat
      /\ escrow \in [OrderIds -> Nat] /\ GrantRest \in [Grants -> Nat]
      /\ IsFiniteSet(OrderIds) /\ IsFiniteSet(Grants)
  BY GrantRestType, MarketplaceAssumption DEF BooksInv, BooksTypeOK, BooksCoherent
<1>2. /\ ClassTotal(OrderIds, seller, escrow, h) \in Nat
      /\ ClassTotal(Grants, Owners, GrantRest, h) \in Nat
  BY ONLY <1>1, ClassTotalNat
<1>3. EscrowOf(h) \in Nat /\ VestingOf(h) \in Nat
  BY <1>2, BookClasses
<1> QED BY <1>1, <1>3 DEF Position

(* The positions together are all the shares accounted for. *)
LEMMA PositionsSum ==
  ASSUME BooksInv
  PROVE  /\ [h \in Holders |-> Position(h)] \in [Holders -> Nat]
         /\ Total([h \in Holders |-> Position(h)]) = Accounted
<1> DEFINE p == [h \in Holders |-> Position(h)]
           e == [h \in Holders |-> EscrowOf(h)]
           v == [h \in Holders |-> VestingOf(h)]
           bb == [h \in Holders |-> balance[h] + bridged[h]]
           bbe == [h \in Holders |-> balance[h] + bridged[h] + EscrowOf(h)]
<1>1. \A h \in Holders :
        /\ balance[h] \in Nat /\ bridged[h] \in Nat
        /\ EscrowOf(h) \in Nat /\ VestingOf(h) \in Nat
  BY PositionParts
<1>2. /\ p \in [Holders -> Nat] /\ e \in [Holders -> Nat] /\ v \in [Holders -> Nat]
      /\ bb \in [Holders -> Nat] /\ bbe \in [Holders -> Nat]
  BY <1>1 DEF Position
<1>3. /\ balance \in [Holders -> Nat] /\ bridged \in [Holders -> Nat]
      /\ GrantRest \in [Grants -> Nat]
  BY GrantRestType, MarketplaceAssumption DEF BooksInv, BooksTypeOK, BooksCoherent
<1>4. IsFiniteSet(Holders) /\ IsFiniteSet(Grants)
  BY MarketplaceAssumption
<1>5. Total(e) = Total(escrow)
  BY EscrowBySeller
<1>6. Total(v) = Total(GrantRest)
  <2>1. \A g \in Grants : GrantRest[g] # 0 => Owners[g] \in Holders
    <3> SUFFICES ASSUME NEW g \in Grants, grant[g].owner \notin Holders
                 PROVE  grant[g].amount - grant[g].claimed = 0
      BY DEF GrantRest, Owners
    <3>1. grant[g].owner = None
      BY DEF BooksInv, BooksTypeOK, Grant
    <3>2. grant[g] = NoGrant
      BY <3>1 DEF BooksInv, BooksCoherent, GrantsCoherent
    <3> QED BY <3>2 DEF NoGrant
  <2>2. \A h \in Holders :
          v[h] = Total([g \in Grants |-> IF Owners[g] = h THEN GrantRest[g] ELSE 0])
    BY BookClasses DEF ClassTotal
  <2>3. v \in [Holders -> Nat] /\ GrantRest \in [Grants -> Nat]
    BY <1>2, <1>3
  <2> HIDE DEF p, e, v, bb, bbe
  <2> QED BY ONLY <1>4, <2>1, <2>2, <2>3, TotalByClass
<1>7. Total(p) = Total(bbe) + Total(v)
  <2>1. \A h \in Holders : p[h] = bbe[h] + v[h]
    BY DEF Position
  <2> HIDE DEF p, bbe, v
  <2> QED BY ONLY <1>2, <1>4, <2>1, TotalAdd
<1>8. Total(bbe) = Total(bb) + Total(e)
  <2>1. \A h \in Holders : bbe[h] = bb[h] + e[h]
    OBVIOUS
  <2> HIDE DEF bb, bbe, e
  <2> QED BY ONLY <1>2, <1>4, <2>1, TotalAdd
<1>9. Total(bb) = Total(balance) + Total(bridged)
  <2>1. \A h \in Holders : bb[h] = balance[h] + bridged[h]
    OBVIOUS
  <2>2. bb \in [Holders -> Nat]
    BY <1>2
  <2> HIDE DEF bb
  <2> QED BY ONLY <1>3, <1>4, <2>1, <2>2, TotalAdd
<1> HIDE DEF p, e, v, bb, bbe
<1>10. p \in [Holders -> Nat] /\ Total(p) = Accounted
  BY <1>2, <1>5, <1>6, <1>7, <1>8, <1>9 DEF Accounted
<1> QED BY <1>10 DEF p

-----------------------------------------------------------------------------
(* What a step does to the books kept by order and by schedule. *)
LEMMA BooksKept ==
  ASSUME NEW h \in Holders
  PROVE  /\ UNCHANGED <<seller, escrow>> => EscrowOf(h)' = EscrowOf(h)
         /\ UNCHANGED grant => VestingOf(h)' = VestingOf(h)
BY DEF EscrowOf, VestingOf, GrantRest

(* A new order adds to what its seller has on offer. *)
LEMMA EscrowPlaced ==
  ASSUME BooksInv, BooksInv', NEW o \in OrderIds, NEW n \in Nat, NEW h \in Holders,
         seller[o] = None, escrow[o] = 0,
         seller' = [seller EXCEPT ![o] = h], escrow' = [escrow EXCEPT ![o] = n]
  PROVE  \A x \in Holders : EscrowOf(x)' = EscrowOf(x) + (IF x = h THEN n ELSE 0)
<1> DEFINE c == [i \in OrderIds |-> IF i = o THEN n ELSE 0]
<1>1. /\ escrow \in [OrderIds -> Nat] /\ escrow' \in [OrderIds -> Nat]
      /\ c \in [OrderIds -> Nat] /\ IsFiniteSet(OrderIds)
  BY MarketplaceAssumption DEF BooksInv, BooksTypeOK
<1>2. /\ \A i \in OrderIds : escrow'[i] = escrow[i] + c[i]
      /\ \A i \in OrderIds : c[i] # 0 => seller'[i] = h
      /\ \A i \in OrderIds : escrow[i] # 0 => seller[i] = seller'[i]
  BY DEF BooksInv, BooksTypeOK
<1>3. Total(c) = n
  <2>1. c[o] = n /\ \A i \in OrderIds : i # o => c[i] = 0
    OBVIOUS
  <2> HIDE DEF c
  <2> QED BY <1>1, <2>1, TotalPoint
<1> HIDE DEF c
<1>4. /\ ClassTotal(OrderIds, seller', escrow', h)
           = ClassTotal(OrderIds, seller, escrow, h) + Total(c)
      /\ \A x : x # h => ClassTotal(OrderIds, seller', escrow', x)
                           = ClassTotal(OrderIds, seller, escrow, x)
  BY ONLY <1>1, <1>2, ClassRaise
<1>5. ASSUME NEW x \in Holders
      PROVE  /\ EscrowOf(x) = ClassTotal(OrderIds, seller, escrow, x)
             /\ EscrowOf(x)' = ClassTotal(OrderIds, seller', escrow', x)
             /\ EscrowOf(x) \in Nat
  BY PositionParts DEF EscrowOf, ClassTotal
<1> QED
  <2> TAKE x \in Holders
  <2>1. CASE x = h
    BY <1>3, <1>4, <1>5, <2>1
  <2>2. CASE x # h
    <3>1. EscrowOf(x)' = EscrowOf(x)
      BY ONLY <1>4, <1>5, <2>2, x \in Holders, Zenon
    <3> QED BY <1>5, <2>2, <3>1
  <2> QED BY <2>1, <2>2

(* What leaves an order leaves what its seller has on offer. *)
LEMMA EscrowTaken ==
  ASSUME BooksInv, BooksInv', NEW o \in OrderIds, NEW n \in Nat,
         seller[o] # None, n <= escrow[o],
         escrow' = [escrow EXCEPT ![o] = @ - n],
         \A i \in OrderIds : i # o => seller'[i] = seller[i],
         seller'[o] = seller[o] \/ escrow'[o] = 0
  PROVE  \A x \in Holders :
           /\ EscrowOf(x)' \in Nat
           /\ EscrowOf(x) = EscrowOf(x)' + (IF x = seller[o] THEN n ELSE 0)
<1> DEFINE c == [i \in OrderIds |-> IF i = o THEN n ELSE 0]
<1>1. /\ escrow \in [OrderIds -> Nat] /\ escrow' \in [OrderIds -> Nat]
      /\ c \in [OrderIds -> Nat] /\ IsFiniteSet(OrderIds)
  BY MarketplaceAssumption DEF BooksInv, BooksTypeOK
<1>2. /\ \A i \in OrderIds : escrow[i] = escrow'[i] + c[i]
      /\ \A i \in OrderIds : c[i] # 0 => seller[i] = seller[o]
      /\ \A i \in OrderIds : escrow'[i] # 0 => seller'[i] = seller[i]
  BY DEF BooksInv, BooksTypeOK
<1>3. Total(c) = n
  <2>1. c[o] = n /\ \A i \in OrderIds : i # o => c[i] = 0
    OBVIOUS
  <2> HIDE DEF c
  <2> QED BY <1>1, <2>1, TotalPoint
<1> HIDE DEF c
<1>4. /\ ClassTotal(OrderIds, seller, escrow, seller[o])
           = ClassTotal(OrderIds, seller', escrow', seller[o]) + Total(c)
      /\ \A x : x # seller[o] => ClassTotal(OrderIds, seller, escrow, x)
                                   = ClassTotal(OrderIds, seller', escrow', x)
  BY ONLY <1>1, <1>2, ClassRaise
<1>5. ASSUME NEW x \in Holders
      PROVE  /\ EscrowOf(x) = ClassTotal(OrderIds, seller, escrow, x)
             /\ EscrowOf(x)' = ClassTotal(OrderIds, seller', escrow', x)
             /\ EscrowOf(x)' \in Nat
  <2>1. ClassTotal(OrderIds, seller', escrow', x) \in Nat
    BY ONLY <1>1, ClassTotalNat
  <2> QED BY <2>1 DEF EscrowOf, ClassTotal
<1> QED
  <2> TAKE x \in Holders
  <2>1. CASE x = seller[o]
    BY <1>3, <1>4, <1>5, <2>1
  <2>2. CASE x # seller[o]
    <3>1. EscrowOf(x)' = EscrowOf(x)
      BY ONLY <1>4, <1>5, <2>2, x \in Holders, Zenon
    <3> QED BY <1>5, <2>2, <3>1
  <2> QED BY <2>1, <2>2

-----------------------------------------------------------------------------
(* What a step does to the positions. *)
Gains(h, d) ==
  \A x \in Holders : Position(x)' = Position(x) + (IF x = h THEN d ELSE 0)
PositionsKept == \A x \in Holders : Position(x)' = Position(x)

(* One of the four books of h changes by d. *)
LEMMA PositionChange ==
  ASSUME BooksInv, NEW h \in Holders, NEW d \in Int,
         \/ /\ balance'[h] = balance[h] + d
            /\ bridged'[h] = bridged[h]
            /\ EscrowOf(h)' = EscrowOf(h)
            /\ VestingOf(h)' = VestingOf(h)
         \/ /\ balance'[h] = balance[h]
            /\ bridged'[h] = bridged[h]
            /\ EscrowOf(h)' = EscrowOf(h) + d
            /\ VestingOf(h)' = VestingOf(h)
         \/ /\ balance'[h] = balance[h]
            /\ bridged'[h] = bridged[h]
            /\ EscrowOf(h)' = EscrowOf(h)
            /\ VestingOf(h)' = VestingOf(h) + d
  PROVE  Position(h)' = Position(h) + d
<1>1. PICK p \in Nat : p = balance[h]
  BY PositionParts
<1>2. PICK q \in Nat : q = bridged[h]
  BY PositionParts
<1>3. PICK r \in Nat : r = EscrowOf(h)
  BY PositionParts
<1>4. PICK s \in Nat : s = VestingOf(h)
  BY PositionParts
<1>5. Position(h) = p + q + r + s
  BY <1>1, <1>2, <1>3, <1>4 DEF Position
<1>6. \/ Position(h)' = (p + d) + q + r + s
      \/ Position(h)' = p + q + (r + d) + s
      \/ Position(h)' = p + q + r + (s + d)
  BY <1>1, <1>2, <1>3, <1>4 DEF Position
<1> QED BY ONLY <1>5, <1>6, d \in Int, p \in Nat, q \in Nat, r \in Nat, s \in Nat

(* What the balance of h gains by d another of its books loses. *)
LEMMA PositionExchange ==
  ASSUME BooksInv, NEW h \in Holders, NEW d \in Int,
         balance'[h] = balance[h] + d,
         \/ /\ bridged'[h] = bridged[h] - d
            /\ EscrowOf(h)' = EscrowOf(h)
            /\ VestingOf(h)' = VestingOf(h)
         \/ /\ bridged'[h] = bridged[h]
            /\ EscrowOf(h)' = EscrowOf(h) - d
            /\ VestingOf(h)' = VestingOf(h)
         \/ /\ bridged'[h] = bridged[h]
            /\ EscrowOf(h)' = EscrowOf(h)
            /\ VestingOf(h)' = VestingOf(h) - d
  PROVE  Position(h)' = Position(h)
<1>1. PICK p \in Nat : p = balance[h]
  BY PositionParts
<1>2. PICK q \in Nat : q = bridged[h]
  BY PositionParts
<1>3. PICK r \in Nat : r = EscrowOf(h)
  BY PositionParts
<1>4. PICK s \in Nat : s = VestingOf(h)
  BY PositionParts
<1>5. Position(h) = p + q + r + s
  BY <1>1, <1>2, <1>3, <1>4 DEF Position
<1>6. \/ Position(h)' = (p + d) + (q - d) + r + s
      \/ Position(h)' = (p + d) + q + (r - d) + s
      \/ Position(h)' = (p + d) + q + r + (s - d)
  BY <1>1, <1>2, <1>3, <1>4 DEF Position
<1> QED BY ONLY <1>5, <1>6, d \in Int, p \in Nat, q \in Nat, r \in Nat, s \in Nat

(* Only balances move. *)
LEMMA BalanceGains ==
  ASSUME BooksInv, NEW h \in Holders, NEW d \in Int,
         balance' = [balance EXCEPT ![h] = @ + d],
         UNCHANGED <<bridged, seller, escrow, grant>>
  PROVE  Gains(h, d)
<1> SUFFICES ASSUME NEW x \in Holders
             PROVE  Position(x)' = Position(x) + (IF x = h THEN d ELSE 0)
  BY DEF Gains
<1>1. /\ balance[x] \in Nat /\ bridged[x] \in Nat
      /\ EscrowOf(x) \in Nat /\ VestingOf(x) \in Nat
  BY PositionParts
<1>2. PICK b \in Int : b = (IF x = h THEN d ELSE 0)
  OBVIOUS
<1>3. /\ bridged'[x] = bridged[x]
      /\ EscrowOf(x)' = EscrowOf(x) /\ VestingOf(x)' = VestingOf(x)
  BY BooksKept
<1>4. balance'[x] = balance[x] + b
  BY <1>1, <1>2 DEF BooksInv, BooksTypeOK
<1>5. Position(x)' = Position(x) + b
  BY <1>3, <1>4, PositionChange
<1> QED BY <1>2, <1>5

LEMMA BalanceLoses ==
  ASSUME BooksInv, NEW h \in Holders, NEW n \in Nat,
         balance' = [balance EXCEPT ![h] = @ - n],
         UNCHANGED <<bridged, seller, escrow, grant>>
  PROVE  Gains(h, 0 - n)
<1>1. balance[h] \in Nat
  BY PositionParts
<1>2. balance[h] - n = balance[h] + (0 - n)
  BY <1>1
<1>3. balance' = [balance EXCEPT ![h] = @ + (0 - n)]
  BY <1>2
<1>4. 0 - n \in Int
  OBVIOUS
<1> QED BY <1>3, <1>4, BalanceGains

LEMMA SamePositions ==
  ASSUME UNCHANGED <<balance, bridged, seller, escrow, grant>>
  PROVE  PositionsKept
BY DEF PositionsKept, Position, EscrowOf, VestingOf, GrantRest

(* A purchase that vests. *)
LEMMA BuyVestedGains ==
  ASSUME BooksInv, NEW b \in Holders, NEW n \in Shares \ {0},
         NEW duration \in VestingTerms, BuyVestedShares(b, n, duration)
  PROVE  Gains(b, n)
<1>1. BooksInv'
  BY BuyVestedSharesInv
<1>2. PICK g \in Grants :
        /\ grant[g] = NoGrant
        /\ grant' = [grant EXCEPT ![g] =
                       [owner |-> b, start |-> now, cliff |-> 0,
                        duration |-> duration, amount |-> n, claimed |-> 0]]
  BY DEF BuyVestedShares
<1>3. UNCHANGED <<balance, bridged, seller, escrow>> /\ n \in Nat
  BY MarketplaceAssumption DEF BuyVestedShares
<1> DEFINE c == [i \in Grants |-> IF i = g THEN n ELSE 0]
<1>4. GrantRest \in [Grants -> Nat] /\ IsFiniteSet(Grants) /\ c \in [Grants -> Nat]
  BY <1>3, GrantRestType, MarketplaceAssumption DEF BooksInv, BooksCoherent
<1>5. ASSUME NEW i \in Grants
      PROVE  /\ GrantRest'[i] = GrantRest[i] + c[i]
             /\ c[i] # 0 => Owners'[i] = b
             /\ GrantRest[i] # 0 => Owners[i] = Owners'[i]
  <2>1. CASE i = g
    <3>1. GrantRest[g] = 0 /\ GrantRest'[g] = n /\ Owners'[g] = b
      BY <1>2, <1>3 DEF GrantRest, Owners, NoGrant, BooksInv, BooksTypeOK
    <3> QED BY <1>3, <2>1, <3>1
  <2>2. CASE i # g
    <3>1. grant'[i] = grant[i]
      BY <1>2, <2>2 DEF BooksInv, BooksTypeOK
    <3>2. GrantRest'[i] = GrantRest[i] /\ Owners'[i] = Owners[i] /\ c[i] = 0
      BY <2>2, <3>1 DEF GrantRest, Owners
    <3>3. GrantRest[i] \in Nat
      BY <1>4
    <3> QED BY <3>2, <3>3
  <2> QED BY <2>1, <2>2
<1>6. GrantRest' \in [Grants -> Nat]
  <2>1. \A i \in Grants : GrantRest'[i] \in Nat
    BY <1>4, <1>5
  <2>2. GrantRest' = [i \in Grants |-> GrantRest'[i]]
    BY DEF GrantRest
  <2> QED BY ONLY <2>1, <2>2
<1>7. Total(c) = n
  <2>1. c[g] = n /\ \A i \in Grants : i # g => c[i] = 0
    OBVIOUS
  <2> HIDE DEF c
  <2> QED BY <1>4, <2>1, TotalPoint
<1>8. /\ \A i \in Grants : GrantRest'[i] = GrantRest[i] + c[i]
      /\ \A i \in Grants : c[i] # 0 => Owners'[i] = b
      /\ \A i \in Grants : GrantRest[i] # 0 => Owners[i] = Owners'[i]
  BY <1>5
<1> HIDE DEF c
<1>9. /\ ClassTotal(Grants, Owners', GrantRest', b)
           = ClassTotal(Grants, Owners, GrantRest, b) + Total(c)
      /\ \A x : x # b => ClassTotal(Grants, Owners', GrantRest', x)
                           = ClassTotal(Grants, Owners, GrantRest, x)
  BY ONLY <1>4, <1>6, <1>8, ClassRaise
<1> SUFFICES ASSUME NEW x \in Holders
             PROVE  Position(x)' = Position(x) + (IF x = b THEN n ELSE 0)
  BY DEF Gains
<1>10. /\ VestingOf(x) = ClassTotal(Grants, Owners, GrantRest, x)
       /\ VestingOf(x)' = ClassTotal(Grants, Owners', GrantRest', x)
  <2>1. VestingOf(x) = ClassTotal(Grants, Owners, GrantRest, x)
    BY BookClasses
  <2>2. VestingOf(x)' = ClassTotal(Grants, Owners', GrantRest', x)
    <3>1. [i \in Grants |-> IF grant'[i].owner = x THEN GrantRest'[i] ELSE 0]
            = [i \in Grants |-> IF Owners'[i] = x THEN GrantRest'[i] ELSE 0]
      BY DEF Owners
    <3> QED BY <3>1 DEF VestingOf, ClassTotal
  <2> QED BY <2>1, <2>2
<1>11. /\ balance[x] \in Nat /\ bridged[x] \in Nat
       /\ EscrowOf(x) \in Nat /\ VestingOf(x) \in Nat
  BY PositionParts
<1>12. /\ balance'[x] = balance[x] /\ bridged'[x] = bridged[x]
       /\ EscrowOf(x)' = EscrowOf(x)
  BY <1>3, BooksKept
<1>13. PICK y \in Int : y = (IF x = b THEN n ELSE 0)
  BY <1>3
<1>14. VestingOf(x)' = VestingOf(x) + y
  <2>1. CASE x = b
    BY <1>7, <1>9, <1>10, <1>13, <2>1
  <2>2. CASE x # b
    <3>1. VestingOf(x)' = VestingOf(x)
      BY ONLY <1>9, <1>10, <2>2, Zenon
    <3> QED BY <1>11, <1>13, <2>2, <3>1
  <2> QED BY <2>1, <2>2
<1>15. Position(x)' = Position(x) + y
  BY <1>11, <1>12, <1>14, PositionChange
<1> QED BY <1>13, <1>15

-----------------------------------------------------------------------------
(* The calls that move shares between the books of one holder. *)
LEMMA PlaceSellOrderKeeps ==
  ASSUME BooksInv, NEW s \in Holders, NEW n \in Shares \ {0}, PlaceSellOrder(s, n)
  PROVE  PositionsKept
<1>1. BooksInv'
  BY PlaceSellOrderInv
<1>2. /\ n \in Nat /\ nextOrder \in OrderIds
      /\ seller[nextOrder] = None /\ escrow[nextOrder] = 0
      /\ balance' = [balance EXCEPT ![s] = @ - n]
      /\ seller' = [seller EXCEPT ![nextOrder] = s]
      /\ escrow' = [escrow EXCEPT ![nextOrder] = n]
      /\ UNCHANGED <<bridged, grant>>
  BY MarketplaceAssumption
  DEF PlaceSellOrder, BooksInv, BooksTypeOK, BooksCoherent, OrdersCoherent
<1>3. \A x \in Holders : EscrowOf(x)' = EscrowOf(x) + (IF x = s THEN n ELSE 0)
  BY <1>1, <1>2, EscrowPlaced
<1> SUFFICES ASSUME NEW x \in Holders PROVE Position(x)' = Position(x)
  BY DEF PositionsKept
<1>4. PICK d \in Int : d = (IF x = s THEN 0 - n ELSE 0)
  BY <1>2
<1>5. balance[x] \in Nat /\ EscrowOf(x) \in Nat
  BY PositionParts
<1>6. balance'[x] = balance[x] + d
  BY <1>2, <1>4, <1>5 DEF BooksInv, BooksTypeOK
<1>7. EscrowOf(x)' = EscrowOf(x) - d
  BY <1>2, <1>3, <1>4, <1>5
<1>8. bridged'[x] = bridged[x] /\ VestingOf(x)' = VestingOf(x)
  BY <1>2, BooksKept
<1> QED BY <1>6, <1>7, <1>8, PositionExchange

LEMMA CancelSellOrderKeeps ==
  ASSUME BooksInv, NEW o \in OrderIds, CancelSellOrder(o)
  PROVE  PositionsKept
<1>1. BooksInv'
  BY CancelSellOrderInv
<1>2. /\ seller[o] \in Holders /\ seller[o] # None /\ escrow[o] \in Nat
      /\ balance' = [balance EXCEPT ![seller[o]] = @ + escrow[o]]
      /\ seller' = [seller EXCEPT ![o] = None]
      /\ escrow' = [escrow EXCEPT ![o] = 0]
      /\ UNCHANGED <<bridged, grant>>
  BY MarketplaceAssumption DEF CancelSellOrder, ReturnEscrow, BooksInv, BooksTypeOK
<1>3. /\ escrow' = [escrow EXCEPT ![o] = @ - escrow[o]] /\ escrow'[o] = 0
      /\ \A i \in OrderIds : i # o => seller'[i] = seller[i]
  <2>1. escrow[o] - escrow[o] = 0
    BY <1>2
  <2>2. escrow' = [escrow EXCEPT ![o] = @ - escrow[o]]
    BY ONLY <1>2, <2>1
  <2> QED BY <1>2, <2>2 DEF BooksInv, BooksTypeOK
<1>4. escrow[o] <= escrow[o]
  BY <1>2
<1>5. \A x \in Holders :
        /\ EscrowOf(x)' \in Nat
        /\ EscrowOf(x) = EscrowOf(x)' + (IF x = seller[o] THEN escrow[o] ELSE 0)
  BY <1>1, <1>2, <1>3, <1>4, EscrowTaken
<1> SUFFICES ASSUME NEW x \in Holders PROVE Position(x)' = Position(x)
  BY DEF PositionsKept
<1>6. PICK d \in Int : d = (IF x = seller[o] THEN escrow[o] ELSE 0)
  BY <1>2
<1>7. balance[x] \in Nat /\ EscrowOf(x) \in Nat
  BY PositionParts
<1>8. balance'[x] = balance[x] + d
  BY <1>2, <1>6, <1>7 DEF BooksInv, BooksTypeOK
<1>9. EscrowOf(x)' = EscrowOf(x) - d
  BY <1>5, <1>6, <1>7
<1>10. bridged'[x] = bridged[x] /\ VestingOf(x)' = VestingOf(x)
  BY <1>2, BooksKept
<1> QED BY <1>8, <1>9, <1>10, PositionExchange

LEMMA DelistAssetKeeps ==
  ASSUME BooksInv, DelistAsset
  PROVE  PositionsKept
<1>1. /\ balance' = [h \in Holders |-> balance[h] + EscrowOf(h)]
      /\ seller' = [o \in OrderIds |-> None]
      /\ escrow' = [o \in OrderIds |-> 0]
      /\ UNCHANGED <<bridged, grant>>
  BY DEF DelistAsset, Returned
<1> SUFFICES ASSUME NEW x \in Holders PROVE Position(x)' = Position(x)
  BY DEF PositionsKept
<1>2. PICK d \in Nat : d = EscrowOf(x)
  BY PositionParts
<1>3. EscrowOf(x)' = 0
  <2> DEFINE f == [o \in OrderIds |-> IF seller'[o] = x THEN escrow'[o] ELSE 0]
  <2>1. f \in [OrderIds -> Nat] /\ \A o \in OrderIds : f[o] = 0
    BY <1>1
  <2>2. EscrowOf(x)' = Total(f)
    BY DEF EscrowOf
  <2> HIDE DEF f
  <2> QED BY <2>1, <2>2, TotalZero
<1>4. balance'[x] = balance[x] + d
  BY <1>1, <1>2
<1>5. EscrowOf(x)' = EscrowOf(x) - d
  BY <1>2, <1>3
<1>6. bridged'[x] = bridged[x] /\ VestingOf(x)' = VestingOf(x)
  BY <1>1, BooksKept
<1> QED BY <1>4, <1>5, <1>6, PositionExchange

LEMMA BridgeKeeps ==
  ASSUME BooksInv, NEW h \in Holders, NEW n \in Shares \ {0},
         LockForBridge(h, n) \/ UnlockFromBridge(h, n)
  PROVE  PositionsKept
<1> SUFFICES ASSUME NEW x \in Holders PROVE Position(x)' = Position(x)
  BY DEF PositionsKept
<1>1. n \in Nat /\ balance[x] \in Nat /\ bridged[x] \in Nat
  BY PositionParts, MarketplaceAssumption
<1>2. EscrowOf(x)' = EscrowOf(x) /\ VestingOf(x)' = VestingOf(x)
  BY BooksKept DEF LockForBridge, UnlockFromBridge
<1>3. CASE LockForBridge(h, n)
  <2>1. PICK d \in Int : d = (IF x = h THEN 0 - n ELSE 0)
    BY <1>1
  <2>2. balance'[x] = balance[x] + d /\ bridged'[x] = bridged[x] - d
    BY <1>1, <1>3, <2>1 DEF LockForBridge, BooksInv, BooksTypeOK
  <2> QED BY <1>2, <2>2, PositionExchange
<1>4. CASE UnlockFromBridge(h, n)
  <2>1. PICK d \in Int : d = (IF x = h THEN n ELSE 0)
    BY <1>1
  <2>2. balance'[x] = balance[x] + d /\ bridged'[x] = bridged[x] - d
    BY <1>1, <1>4, <2>1 DEF UnlockFromBridge, BooksInv, BooksTypeOK
  <2> QED BY <1>2, <2>2, PositionExchange
<1> QED BY <1>3, <1>4

LEMMA ClaimVestedKeeps ==
  ASSUME BooksInv, NEW h \in Holders, ClaimVestedShares(h)
  PROVE  PositionsKept
<1> DEFINE c == ClaimOf(h)
<1>1. /\ BooksInv' /\ c \in [Grants -> Nat] /\ Total(c) \in Nat
      /\ balance' = [balance EXCEPT ![h] = @ + Total(c)]
      /\ \A g \in Grants :
           /\ GrantRest[g] = GrantRest'[g] + c[g]
           /\ GrantRest'[g] # 0 => grant'[g].owner = grant[g].owner
  BY ClaimVestedEffect
<1>2. UNCHANGED <<bridged, seller, escrow>>
  BY DEF ClaimVestedShares
<1>3. \A g \in Grants : c[g] # 0 => Owners[g] = h
  BY DEF ClaimOf, Owners
<1>4. \A g \in Grants : GrantRest'[g] # 0 => Owners'[g] = Owners[g]
  BY <1>1 DEF Owners
<1> HIDE DEF c
<1>5. /\ GrantRest \in [Grants -> Nat] /\ GrantRest' \in [Grants -> Nat]
      /\ IsFiniteSet(Grants)
  <2>1. GrantRest \in [Grants -> Nat]
    BY GrantRestType, MarketplaceAssumption DEF BooksInv, BooksCoherent
  <2>2. ASSUME NEW g \in Grants PROVE GrantRest'[g] \in Nat
    <3>1. grant'[g].amount \in Nat /\ grant'[g].claimed \in Nat
      <4>1. grant' \in [Grants -> Grant]
        BY <1>1 DEF BooksInv, BooksTypeOK
      <4>2. grant'[g] \in Grant
        BY <4>1
      <4> QED BY <4>2, MarketplaceAssumption DEF Grant
    <3>2. grant'[g].claimed <= grant'[g].amount
      BY <1>1 DEF BooksInv, BooksCoherent, GrantsCoherent
    <3> QED BY <3>1, <3>2 DEF GrantRest
  <2>3. GrantRest' = [g \in Grants |-> GrantRest'[g]]
    BY DEF GrantRest
  <2>4. GrantRest' \in [Grants -> Nat]
    BY ONLY <2>2, <2>3
  <2> QED BY <2>1, <2>4, MarketplaceAssumption
<1>6. /\ ClassTotal(Grants, Owners, GrantRest, h)
           = ClassTotal(Grants, Owners', GrantRest', h) + Total(c)
      /\ \A x : x # h => ClassTotal(Grants, Owners, GrantRest, x)
                           = ClassTotal(Grants, Owners', GrantRest', x)
  <2>1. \A g \in Grants : GrantRest[g] = GrantRest'[g] + c[g]
    BY <1>1
  <2> QED BY ONLY <1>1, <1>3, <1>4, <1>5, <2>1, ClassRaise
<1> SUFFICES ASSUME NEW x \in Holders PROVE Position(x)' = Position(x)
  BY DEF PositionsKept
<1>7. /\ VestingOf(x) = ClassTotal(Grants, Owners, GrantRest, x)
      /\ VestingOf(x)' = ClassTotal(Grants, Owners', GrantRest', x)
      /\ VestingOf(x)' \in Nat
  <2>1. VestingOf(x) = ClassTotal(Grants, Owners, GrantRest, x)
    BY BookClasses
  <2>2. VestingOf(x)' = ClassTotal(Grants, Owners', GrantRest', x)
    <3>1. [i \in Grants |-> IF grant'[i].owner = x THEN GrantRest'[i] ELSE 0]
            = [i \in Grants |-> IF Owners'[i] = x THEN GrantRest'[i] ELSE 0]
      BY DEF Owners
    <3> QED BY <3>1 DEF VestingOf, ClassTotal
  <2>3. ClassTotal(Grants, Owners', GrantRest', x) \in Nat
    BY ONLY <1>5, ClassTotalNat
  <2> QED BY <2>1, <2>2, <2>3
<1>8. PICK d \in Nat : d = (IF x = h THEN Total(c) ELSE 0)
  BY <1>1
<1>9. balance[x] \in Nat /\ VestingOf(x) \in Nat
  BY PositionParts
<1>10. balance'[x] = balance[x] + d
  BY <1>1, <1>8, <1>9 DEF BooksInv, BooksTypeOK
<1>11. VestingOf(x)' = VestingOf(x) - d
  <2>1. CASE x = h
    BY <1>1, <1>6, <1>7, <1>8, <2>1
  <2>2. CASE x # h
    <3>1. VestingOf(x)' = VestingOf(x)
      BY ONLY <1>6, <1>7, <2>2, Zenon
    <3> QED BY <1>8, <1>9, <2>2, <3>1
  <2> QED BY <2>1, <2>2
<1>12. bridged'[x] = bridged[x] /\ EscrowOf(x)' = EscrowOf(x)
  BY <1>2, BooksKept
<1> QED BY <1>10, <1>11, <1>12, PositionExchange

-----------------------------------------------------------------------------
(* The calls that move shares between holders. *)

(* A fill moves n shares from the seller's order to the buyer, who may be  *)
(* the seller.                                                             *)
LEMMA BuyFromOrderMoves ==
  ASSUME BooksInv, NEW b \in Holders, NEW o \in OrderIds, NEW n \in Shares \ {0},
         BuyFromOrder(b, o, n)
  PROVE  /\ n \in Nat /\ seller[o] \in Holders /\ n <= Position(seller[o])
         /\ \A x \in Holders :
              Position(x)' = Position(x) + (IF x = b THEN n ELSE 0)
                                         - (IF x = seller[o] THEN n ELSE 0)
<1>1. BooksInv'
  BY BuyFromOrderInv
<1>2. /\ n \in Nat /\ n <= escrow[o] /\ escrow[o] \in Nat
      /\ seller[o] # None /\ seller[o] \in Holders
      /\ balance' = [balance EXCEPT ![b] = @ + n]
      /\ escrow' = [escrow EXCEPT ![o] = @ - n]
      /\ seller' = IF n = escrow[o] THEN [seller EXCEPT ![o] = None] ELSE seller
      /\ UNCHANGED <<bridged, grant>>
  BY MarketplaceAssumption
  DEF BuyFromOrder, OrderAfterFill, BooksInv, BooksTypeOK
<1>3. /\ \A i \in OrderIds : i # o => seller'[i] = seller[i]
      /\ seller'[o] = seller[o] \/ escrow'[o] = 0
  BY <1>2 DEF BooksInv, BooksTypeOK
<1>4. \A x \in Holders :
        /\ EscrowOf(x)' \in Nat
        /\ EscrowOf(x) = EscrowOf(x)' + (IF x = seller[o] THEN n ELSE 0)
  BY <1>1, <1>2, <1>3, EscrowTaken
<1>5. n <= Position(seller[o])
  <2>1. PICK y \in Nat : y = EscrowOf(seller[o])
    BY <1>2, PositionParts
  <2>2. n <= y
    BY <1>2, <1>4, <2>1
  <2>3. /\ balance[seller[o]] \in Nat /\ bridged[seller[o]] \in Nat
        /\ VestingOf(seller[o]) \in Nat
    BY <1>2, PositionParts
  <2> QED BY <1>2, <2>1, <2>2, <2>3 DEF Position
<1>6. ASSUME NEW x \in Holders
      PROVE  Position(x)' = Position(x) + (IF x = b THEN n ELSE 0)
                                        - (IF x = seller[o] THEN n ELSE 0)
  <2>1. PICK p \in Nat : p = balance[x]
    BY PositionParts
  <2>2. PICK q \in Nat : q = bridged[x]
    BY PositionParts
  <2>3. PICK r \in Nat : r = EscrowOf(x)
    BY PositionParts
  <2>4. PICK s \in Nat : s = VestingOf(x)
    BY PositionParts
  <2>5. PICK d \in Nat : d = (IF x = b THEN n ELSE 0)
    BY <1>2
  <2>6. PICK e \in Nat : e = (IF x = seller[o] THEN n ELSE 0)
    BY <1>2
  <2>7. balance'[x] = p + d
    BY <1>2, <2>1, <2>5 DEF BooksInv, BooksTypeOK
  <2>8. EscrowOf(x)' = r - e
    BY <1>4, <2>3, <2>6
  <2>9. bridged'[x] = q /\ VestingOf(x)' = s
    BY <1>2, <2>2, <2>4, BooksKept
  <2>10. Position(x) = p + q + r + s /\ Position(x)' = (p + d) + q + (r - e) + s
    BY <2>1, <2>2, <2>3, <2>4, <2>7, <2>8, <2>9 DEF Position
  <2>11. Position(x)' = Position(x) + d - e
    BY ONLY <2>10, p \in Nat, q \in Nat, r \in Nat, s \in Nat, d \in Nat, e \in Nat
  <2> QED BY <2>5, <2>6, <2>11
<1> QED BY <1>2, <1>5, <1>6

LEMMA BatchTransferMoves ==
  ASSUME BooksInv, NEW from \in Holders, NEW credit \in [Holders -> 0..balance[from]],
         BatchTransfer(from, credit)
  PROVE  /\ Total(credit) \in Nat /\ Total(credit) <= Position(from)
         /\ credit \in [Holders -> 0..MaxU32]
         /\ \A x \in Holders :
              Position(x)' = IF x = from THEN Position(x) - Total(credit)
                             ELSE Position(x) + credit[x]
<1>1. /\ Total(credit) <= balance[from]
      /\ balance' = [h \in Holders |-> IF h = from THEN balance[h] - Total(credit)
                                        ELSE balance[h] + credit[h]]
      /\ UNCHANGED <<bridged, seller, escrow, grant>>
  BY DEF BatchTransfer
<1>2. credit \in [Holders -> 0..MaxU32] /\ credit \in [Holders -> Nat]
  BY MarketplaceAssumption DEF BooksInv, BooksTypeOK
<1>3. PICK n \in Nat : n = Total(credit)
  BY <1>2, TotalNat, MarketplaceAssumption
<1>4. n <= Position(from)
  <2>1. balance[from] \in Nat /\ Position(from) \in Nat /\ balance[from] <= Position(from)
    BY PositionParts
  <2> QED BY <1>1, <1>3, <2>1
<1>5. ASSUME NEW x \in Holders
      PROVE  Position(x)' = IF x = from THEN Position(x) - n
                            ELSE Position(x) + credit[x]
  <2>1. PICK d \in Int : d = IF x = from THEN 0 - n ELSE credit[x]
    BY <1>2
  <2>2. balance'[x] = balance[x] + d
    <3>1. balance[x] \in Nat
      BY PositionParts
    <3> QED BY <1>1, <1>3, <2>1, <3>1
  <2>3. /\ bridged'[x] = bridged[x]
        /\ EscrowOf(x)' = EscrowOf(x) /\ VestingOf(x)' = VestingOf(x)
    BY <1>1, BooksKept
  <2>4. Position(x)' = Position(x) + d
    BY <2>2, <2>3, PositionChange
  <2>5. Position(x) \in Nat
    BY PositionParts
  <2> QED BY <2>1, <2>4, <2>5
<1> QED BY <1>2, <1>3, <1>4, <1>5

(* A batch purchase that fills nothing gains nothing. *)
LEMMA BatchBuyGains ==
  ASSUME BooksInv, NEW b \in Holders, NEW requests \in Batches, BatchBuyShares(b, requests)
  PROVE  \E n \in 0..MaxU32 :
           /\ n <= available /\ available' = available - n
           /\ UNCHANGED <<total, retired, seller, escrow>>
           /\ Gains(b, n)
<1>1. PICK accepted \in SUBSET (DOMAIN requests) :
        /\ AcceptedItems(b, requests, accepted)
        /\ available' = available - Filled(requests, accepted)
        /\ balance' = [balance EXCEPT ![b] = @ + Filled(requests, accepted)]
  BY DEF BatchBuyShares
<1>2. requests \in Seq(Nat)
  BY MarketplaceAssumption
<1>3. PICK n \in Nat : n = Filled(requests, accepted) /\ n <= available
  BY <1>1, <1>2, FilledBound
<1>4. n \in 0..MaxU32
  BY <1>3, MarketplaceAssumption DEF BooksInv, BooksTypeOK
<1>5. balance' = [balance EXCEPT ![b] = @ + n] /\ available' = available - n
  BY <1>1, <1>3
<1>6. UNCHANGED <<total, retired, bridged, seller, escrow, grant>>
  BY DEF BatchBuyShares
<1>7. Gains(b, n)
  <2>1. n \in Int
    OBVIOUS
  <2> QED BY <1>5, <1>6, <2>1, BalanceGains
<1> QED BY <1>3, <1>4, <1>5, <1>6, <1>7

-----------------------------------------------------------------------------
(* What the calls are to the share registry. *)
Positions == [h \in Holders |-> Position(h)]

LEMMA SameTotal ==
  ASSUME NEW f
  PROVE  Registry!Total(f) = Total(f)
BY DEF Registry!Total, Registry!Units, Total, Units,
       Registry!Cardinality, Cardinality

LEMMA PositionsOf ==
  ASSUME BooksInv
  PROVE  /\ Positions \in [Holders -> Nat]
         /\ \A h \in Holders : Positions[h] = Position(h) /\ Positions'[h] = Position(h)'
         /\ Positions' = [h \in Holders |-> Position(h)']
BY PositionParts DEF Positions

LEMMA KeptIsStutter ==
  ASSUME PositionsKept, UNCHANGED <<available, retired>>
  PROVE  UNCHANGED Registry!registryVars
BY DEF PositionsKept, Registry!registryVars

LEMMA GainsPositions ==
  ASSUME BooksInv, NEW h \in Holders, NEW d \in Int, Gains(h, d)
  PROVE  Positions' = [Positions EXCEPT ![h] = @ + d]
<1>1. \A x \in Holders : Position(x) \in Nat
  BY PositionParts
<1>2. \A x \in Holders : Position(x)' = IF x = h THEN Position(x) + d ELSE Position(x)
  BY <1>1 DEF Gains
<1> QED BY <1>2 DEF Positions

LEMMA SellStep ==
  ASSUME BooksInv, NEW h \in Holders, NEW n \in 1..MaxU32, Gains(h, n),
         n <= available, available' = available - n, retired' = retired
  PROVE  Registry!RegistryNext
<1>1. Positions' = [Positions EXCEPT ![h] = @ + n]
  BY GainsPositions
<1>2. Registry!Sell(h, n)
  BY <1>1 DEF Registry!Sell, Positions
<1> QED BY <1>2 DEF Registry!RegistryNext

LEMMA LosesPositions ==
  ASSUME BooksInv, NEW h \in Holders, NEW n \in Nat, Gains(h, 0 - n)
  PROVE  Positions' = [Positions EXCEPT ![h] = @ - n]
<1>1. \A x \in Holders : Position(x) \in Nat
  BY PositionParts
<1>2. \A x \in Holders : Position(x)' = IF x = h THEN Position(x) - n ELSE Position(x)
  BY <1>1 DEF Gains
<1> QED BY <1>2 DEF Positions

LEMMA RedeemStep ==
  ASSUME BooksInv, NEW h \in Holders, NEW n \in 1..MaxU32, Gains(h, 0 - n),
         n <= Position(h), available' = available + n, retired' = retired
  PROVE  Registry!RegistryNext
<1>1. Positions' = [Positions EXCEPT ![h] = @ - n]
  BY LosesPositions, MarketplaceAssumption
<1>2. Registry!Redeem(h, n)
  BY <1>1 DEF Registry!Redeem, Positions
<1> QED BY <1>2 DEF Registry!RegistryNext

LEMMA RetireStep ==
  ASSUME BooksInv, NEW h \in Holders, NEW n \in 1..MaxU32, Gains(h, 0 - n),
         n <= Position(h), available' = available, retired' = retired + n
  PROVE  Registry!RegistryNext
<1>1. Positions' = [Positions EXCEPT ![h] = @ - n]
  BY LosesPositions, MarketplaceAssumption
<1>2. Registry!Retire(h, n)
  BY <1>1 DEF Registry!Retire, Positions
<1> QED BY <1>2 DEF Registry!RegistryNext

LEMMA ResizeStep ==
  ASSUME BooksInv, NEW n \in 0..MaxU32, n + (total - available) <= MaxU32,
         available' = n, UNCHANGED <<balance, bridged, seller, escrow, grant, retired>>
  PROVE  Registry!RegistryNext
<1>1. Total([h \in Holders |-> Position(h)]) = Accounted
  BY PositionsSum
<1>2. total - available = Accounted + retired
  BY DEF BooksInv, SharesConserved
<1>3. /\ Total(balance) \in Nat /\ Total(bridged) \in Nat
      /\ Total(escrow) \in Nat /\ Total(GrantRest) \in Nat
  BY BookTotals DEF BooksInv, BooksCoherent
<1>4. PICK x \in Nat : x = Accounted
  BY <1>3 DEF Accounted
<1>5. n + x + retired <= MaxU32
  <2>1. /\ retired \in Nat /\ n \in Nat /\ MaxU32 \in Nat
        /\ total \in Nat /\ available \in Nat
    BY MarketplaceAssumption DEF BooksInv, BooksTypeOK
  <2> QED BY <1>2, <1>4, <2>1
<1>6. n + Registry!Total([h \in Holders |-> Position(h)]) + retired <= MaxU32
  BY <1>1, <1>4, <1>5, SameTotal
<1>7. PositionsKept
  BY SamePositions
<1>8. Registry!Resize(n)
  BY <1>6, <1>7 DEF Registry!Resize, PositionsKept
<1> QED BY <1>8 DEF Registry!RegistryNext

LEMMA ResellStep ==
  ASSUME BooksInv, NEW b \in Holders, NEW o \in OrderIds, NEW n \in Shares \ {0},
         BuyFromOrder(b, o, n)
  PROVE  [Registry!RegistryNext]_(Registry!registryVars)
<1> DEFINE s == seller[o]
<1>1. /\ n \in Nat /\ s \in Holders /\ n <= Position(s)
      /\ \A x \in Holders :
           Position(x)' = Position(x) + (IF x = b THEN n ELSE 0)
                                      - (IF x = s THEN n ELSE 0)
  BY BuyFromOrderMoves
<1>2. \A x \in Holders : Position(x) \in Nat
  BY PositionParts
<1>3. UNCHANGED <<available, retired>>
  BY DEF BuyFromOrder
<1> HIDE DEF s
<1>4. CASE s = b
  <2>1. PositionsKept
    BY <1>1, <1>2, <1>4 DEF PositionsKept
  <2> QED BY <1>3, <2>1, KeptIsStutter
<1>5. CASE s # b
  <2>1. \A x \in Holders : Position(x)' = IF x = b THEN Position(x) + n
                                           ELSE IF x = s THEN Position(x) - n
                                           ELSE Position(x)
    BY <1>1, <1>2, <1>5
  <2>2. Positions' = [Positions EXCEPT ![s] = @ - n, ![b] = @ + n]
    BY <1>1, <1>5, <2>1 DEF Positions
  <2>3. Registry!Resell(s, b, n)
    BY <1>1, <1>3, <1>5, <2>2 DEF Registry!Resell, Positions
  <2>4. n \in 1..MaxU32
    BY MarketplaceAssumption
  <2> QED BY <1>1, <2>3, <2>4 DEF Registry!RegistryNext
<1> QED BY <1>4, <1>5

LEMMA TransferStep ==
  ASSUME BooksInv, NEW from \in Holders, NEW credit \in [Holders -> 0..balance[from]],
         BatchTransfer(from, credit)
  PROVE  Registry!RegistryNext
<1>1. /\ Total(credit) \in Nat /\ Total(credit) <= Position(from)
      /\ credit \in [Holders -> 0..MaxU32]
      /\ \A x \in Holders :
           Position(x)' = IF x = from THEN Position(x) - Total(credit)
                          ELSE Position(x) + credit[x]
  BY BatchTransferMoves
<1>2. available' = available /\ retired' = retired + credit[from]
  BY DEF BatchTransfer
<1>3. Registry!Total(credit) = Total(credit)
  BY SameTotal
<1>4. Registry!Transfer(from, credit)
  BY <1>1, <1>2, <1>3 DEF Registry!Transfer
<1> QED BY <1>1, <1>4 DEF Registry!RegistryNext

LEMMA HolderRegistry ==
  ASSUME BooksInv, NEW h \in Holders, NEW n \in Shares \ {0}, HolderStep(h, n)
  PROVE  [Registry!RegistryNext]_(Registry!registryVars)
<1>1. n \in 1..MaxU32 /\ n \in Nat /\ n \in Int
  BY MarketplaceAssumption
<1>2. balance[h] \in Nat /\ Position(h) \in Nat /\ balance[h] <= Position(h)
  BY PositionParts
<1>3. CASE BuyShares(h, n)
  <2>1. Gains(h, n)
    BY <1>1, <1>3, BalanceGains DEF BuyShares
  <2> QED BY <1>1, <1>3, <2>1, SellStep DEF BuyShares
<1>4. CASE \E duration \in VestingTerms : BuyVestedShares(h, n, duration)
  <2>1. Gains(h, n)
    BY <1>4, BuyVestedGains
  <2> QED BY <1>1, <1>4, <2>1, SellStep DEF BuyVestedShares
<1>5. CASE PlaceSellOrder(h, n)
  <2>1. PositionsKept
    BY <1>5, PlaceSellOrderKeeps
  <2> QED BY <1>5, <2>1, KeptIsStutter DEF PlaceSellOrder
<1>6. CASE \E o \in OrderIds : BuyFromOrder(h, o, n)
  BY <1>6, ResellStep
<1>7. CASE BuybackShares(h, n)
  <2>1. Gains(h, 0 - n)
    BY <1>1, <1>7, BalanceLoses DEF BuybackShares
  <2>2. n <= Position(h)
    BY <1>1, <1>2, <1>7 DEF BuybackShares
  <2> QED BY <1>1, <1>7, <2>1, <2>2, RedeemStep DEF BuybackShares
<1>8. CASE BurnShares(h, n)
  <2>1. Gains(h, 0 - n)
    BY <1>1, <1>8, BalanceLoses DEF BurnShares
  <2>2. n <= Position(h)
    BY <1>1, <1>2, <1>8 DEF BurnShares
  <2> QED BY <1>1, <1>8, <2>1, <2>2, RetireStep DEF BurnShares
<1>9. CASE LockForBridge(h, n) \/ UnlockFromBridge(h, n)
  <2>1. PositionsKept
    BY <1>9, BridgeKeeps
  <2> QED BY <1>9, <2>1, KeptIsStutter DEF LockForBridge, UnlockFromBridge
<1> QED BY <1>3, <1>4, <1>5, <1>6, <1>7, <1>8, <1>9 DEF HolderStep

LEMMA SupplyRegistry ==
  ASSUME BooksInv, NEW n \in Supplies, SetTotalShares(n) \/ IncreaseTotalShares(n)
  PROVE  Registry!RegistryNext
<1>1. /\ n \in 0..MaxU32 /\ MaxU32 \in Nat
      /\ total \in Nat /\ available \in Nat
      /\ total <= MaxU32 /\ available <= MaxU32
  BY MarketplaceAssumption DEF BooksInv, BooksTypeOK
<1>2. UNCHANGED <<balance, bridged, seller, escrow, grant, retired>>
  BY DEF SetTotalShares, IncreaseTotalShares
<1>3. CASE SetTotalShares(n)
  <2>1. PICK m \in 0..MaxU32 : m = n - (total - available) /\ available' = m
    BY <1>1, <1>3 DEF SetTotalShares
  <2>2. m + (total - available) <= MaxU32
    BY <1>1, <2>1
  <2> QED BY <1>2, <2>1, <2>2, ResizeStep
<1>4. CASE IncreaseTotalShares(n)
  <2>1. PICK m \in 0..MaxU32 : m = available + n /\ available' = m
    BY <1>1, <1>4 DEF IncreaseTotalShares
  <2>2. m + (total - available) <= MaxU32
    BY <1>1, <1>4, <2>1 DEF IncreaseTotalShares
  <2> QED BY <1>2, <2>1, <2>2, ResizeStep
<1> QED BY <1>3, <1>4

LEMMA NextRegistry ==
  BooksInv /\ [Next]_vars => [Registry!RegistryNext]_(Registry!registryVars)
<1> SUFFICES ASSUME BooksInv, [Next]_vars
             PROVE  [Registry!RegistryNext]_(Registry!registryVars)
  OBVIOUS
<1>1. ASSUME NEW h \in Holders, NEW n \in Shares \ {0}, HolderStep(h, n)
      PROVE  [Registry!RegistryNext]_(Registry!registryVars)
  BY <1>1, HolderRegistry
<1>2. ASSUME NEW b \in Holders, NEW requests \in Batches, BatchBuyShares(b, requests)
      PROVE  [Registry!RegistryNext]_(Registry!registryVars)
  <2>1. PICK n \in 0..MaxU32 :
          /\ n <= available /\ available' = available - n
          /\ UNCHANGED <<total, retired, seller, escrow>>
          /\ Gains(b, n)
    BY <1>2, BatchBuyGains
  <2>2. CASE n = 0
    <3>1. available \in Nat /\ \A x \in Holders : Position(x) \in Nat
      BY MarketplaceAssumption, PositionParts DEF BooksInv, BooksTypeOK
    <3>2. PositionsKept /\ available' = available
      BY <2>1, <2>2, <3>1 DEF Gains, PositionsKept
    <3> QED BY <2>1, <3>2, KeptIsStutter
  <2>3. CASE n # 0
    <3>1. n \in 1..MaxU32
      BY <2>3, MarketplaceAssumption
    <3> QED BY <2>1, <3>1, SellStep
  <2> QED BY <2>2, <2>3
<1>3. ASSUME NEW h \in Holders, ClaimVestedShares(h)
      PROVE  [Registry!RegistryNext]_(Registry!registryVars)
  <2>1. PositionsKept
    BY <1>3, ClaimVestedKeeps
  <2>2. UNCHANGED <<available, retired>>
    BY <1>3 DEF ClaimVestedShares
  <2> QED BY <2>1, <2>2, KeptIsStutter
<1>4. ASSUME NEW o \in OrderIds, CancelSellOrder(o)
      PROVE  [Registry!RegistryNext]_(Registry!registryVars)
  <2>1. PositionsKept
    BY <1>4, CancelSellOrderKeeps
  <2>2. UNCHANGED <<available, retired>>
    BY <1>4 DEF CancelSellOrder, ReturnEscrow
  <2> QED BY <2>1, <2>2, KeptIsStutter
<1>5. ASSUME NEW from \in Holders, NEW credit \in [Holders -> 0..balance[from]],
             BatchTransfer(from, credit)
      PROVE  [Registry!RegistryNext]_(Registry!registryVars)
  BY <1>5, TransferStep
<1>6. ASSUME NEW n \in Supplies, SetTotalShares(n) \/ IncreaseTotalShares(n)
      PROVE  [Registry!RegistryNext]_(Registry!registryVars)
  BY <1>6, SupplyRegistry
<1>7. CASE DelistAsset
  <2>1. PositionsKept
    BY <1>7, DelistAssetKeeps
  <2> QED BY <1>7, <2>1, KeptIsStutter DEF DelistAsset
<1>8. CASE MoneyStep \/ RuleStep \/ UNCHANGED vars
  <2>1. UNCHANGED bookVars
    BY <1>8 DEF MoneyStep, RuleStep, DepositDistribution, ClaimDistribution,
         EmergencyWithdraw, FundContract, vars
  <2>2. PositionsKept
    BY <2>1, SamePositions DEF bookVars
  <2> QED BY <2>1, <2>2, KeptIsStutter DEF bookVars
<1> QED BY <1>1, <1>2, <1>3, <1>4, <1>5, <1>6, <1>7, <1>8 DEF Next, ShareStep

LEMMA InitRegistry == Init => Registry!RegistryInit
<1> SUFFICES ASSUME Init PROVE Registry!RegistryInit
  OBVIOUS
<1>1. BooksInv
  BY InitBooksInv
<1>2. ASSUME NEW h \in Holders PROVE Position(h) = 0
  <2>1. EscrowOf(h) = 0
    <3> DEFINE f == [o \in OrderIds |-> IF seller[o] = h THEN escrow[o] ELSE 0]
    <3>1. f \in [OrderIds -> Nat] /\ \A o \in OrderIds : f[o] = 0
      BY DEF Init
    <3> HIDE DEF f
    <3>2. Total(f) = 0
      BY ONLY <3>1, TotalZero
    <3> QED BY <3>2 DEF f, EscrowOf
  <2>2. VestingOf(h) = 0
    <3> DEFINE f == [g \in Grants |-> IF grant[g].owner = h THEN GrantRest[g] ELSE 0]
    <3>1. \A g \in Grants : GrantRest[g] = 0
      BY DEF Init, GrantRest, NoGrant
    <3>2. f \in [Grants -> Nat] /\ \A g \in Grants : f[g] = 0
      BY <3>1
    <3> HIDE DEF f
    <3>3. Total(f) = 0
      BY ONLY <3>2, TotalZero
    <3> QED BY <3>3 DEF f, VestingOf
  <2>3. balance[h] = 0 /\ bridged[h] = 0
    BY DEF Init
  <2> QED BY <2>1, <2>2, <2>3 DEF Position
<1>3. available \in 1..MaxU32 /\ retired = 0
  BY MarketplaceAssumption DEF Init
<1> QED BY <1>2, <1>3 DEF Registry!RegistryInit

(* Whatever books the shares are kept in, the marketplace behaves as the   *)
(* share registry: shares move only by a sale, a redemption, a retirement, *)
(* a resale or a transfer, each between the accounts it names.             *)
THEOREM MarketplaceImplementsRegistry == Spec => ImplementsRegistry
<1> QED BY InitRegistry, NextRegistry, BooksInvariant, PTL
        DEF Spec, ImplementsRegistry, Registry!RegistrySpec

-----------------------------------------------------------------------------
(* What leaves the order book. *)
LEMMA EscrowKept ==
  ASSUME BooksInv, escrow' = escrow
  PROVE  OrdersOnlyReturned /\ \A o \in OrderIds : escrow'[o] <= escrow[o]
<1>1. \A o \in OrderIds : escrow[o] \in Nat
  BY MarketplaceAssumption DEF BooksInv, BooksTypeOK
<1> QED BY <1>1 DEF OrdersOnlyReturned

LEMMA PlacedReturnsNothing ==
  ASSUME BooksInv, NEW h \in Holders, NEW n \in Shares \ {0}, PlaceSellOrder(h, n)
  PROVE  OrdersOnlyReturned
<1>1. /\ n \in Nat /\ nextOrder \in OrderIds /\ escrow[nextOrder] = 0
      /\ escrow' = [escrow EXCEPT ![nextOrder] = n]
      /\ \A o \in OrderIds : escrow[o] \in Nat
  BY MarketplaceAssumption
  DEF PlaceSellOrder, BooksInv, BooksTypeOK, BooksCoherent, OrdersCoherent
<1>2. \A o \in OrderIds : escrow'[o] = (IF o = nextOrder THEN n ELSE escrow[o])
  BY <1>1 DEF BooksInv, BooksTypeOK
<1>3. \A o \in OrderIds : ~ (escrow'[o] < escrow[o])
  BY <1>1, <1>2
<1> QED BY <1>3 DEF OrdersOnlyReturned

LEMMA CancelOnlyReturns ==
  ASSUME BooksInv, NEW o \in OrderIds, CancelSellOrder(o)
  PROVE  OrdersOnlyReturned /\ \A i \in OrderIds : escrow'[i] <= escrow[i]
<1>1. PositionsKept
  BY CancelSellOrderKeeps
<1>2. \A i \in OrderIds : escrow[i] \in Nat
  BY MarketplaceAssumption DEF BooksInv, BooksTypeOK
<1>3. \A i \in OrderIds : escrow'[i] = (IF i = o THEN 0 ELSE escrow[i])
  BY DEF CancelSellOrder, ReturnEscrow, BooksInv, BooksTypeOK
<1>4. \A i \in OrderIds : escrow'[i] < escrow[i] => escrow'[i] = 0
  BY <1>2, <1>3
<1> QED BY <1>1, <1>2, <1>3, <1>4 DEF OrdersOnlyReturned, PositionsKept

LEMMA DelistOnlyReturns ==
  ASSUME BooksInv, DelistAsset
  PROVE  OrdersOnlyReturned /\ \A i \in OrderIds : escrow'[i] <= escrow[i]
<1>1. PositionsKept
  BY DelistAssetKeeps
<1>2. \A i \in OrderIds : escrow[i] \in Nat
  BY MarketplaceAssumption DEF BooksInv, BooksTypeOK
<1>3. \A i \in OrderIds : escrow'[i] = 0
  BY DEF DelistAsset
<1> QED BY <1>1, <1>2, <1>3 DEF OrdersOnlyReturned, PositionsKept

-----------------------------------------------------------------------------
(* The steps that change what is issued or take from the order book, by    *)
(* what they need of the halts.                                            *)
Quiet ==
  /\ total' - available' = total - available
  /\ OrdersOnlyReturned
  /\ \A o \in OrderIds : escrow'[o] <= escrow[o]

Buyer(h) ==
  \E n \in Shares \ {0} :
    \/ BuyShares(h, n)
    \/ \E duration \in VestingTerms : BuyVestedShares(h, n, duration)
    \/ \E o \in OrderIds : BuyFromOrder(h, o, n)
BatchBuyer(h) == \E requests \in Batches : BatchBuyShares(h, requests)
Trader(h) ==
  \E n \in Shares \ {0} : PlaceSellOrder(h, n) \/ BuybackShares(h, n)

LEMMA StepByHalts ==
  ASSUME BooksInv, [Next]_vars
  PROVE  \/ Quiet
         \/ SaleOpen /\ \E h \in Holders : Buyer(h) \/ BatchBuyer(h)
         \/ ~paused /\ \E h \in Holders : Trader(h)
<1> DEFINE G == \/ Quiet
                \/ SaleOpen /\ \E h \in Holders : Buyer(h) \/ BatchBuyer(h)
                \/ ~paused /\ \E h \in Holders : Trader(h)
<1> SUFFICES G
  OBVIOUS
<1>1. ASSUME escrow' = escrow, UNCHANGED <<total, available>> PROVE Quiet
  BY <1>1, EscrowKept DEF Quiet
<1>2. ASSUME NEW h \in Holders, NEW n \in Shares \ {0}, HolderStep(h, n)
      PROVE  G
  <2>1. CASE \/ BuyShares(h, n)
             \/ \E duration \in VestingTerms : BuyVestedShares(h, n, duration)
             \/ \E o \in OrderIds : BuyFromOrder(h, o, n)
    <3>1. Buyer(h)
      BY <2>1 DEF Buyer
    <3>2. SaleOpen
      BY <2>1 DEF BuyShares, BuyVestedShares, BuyFromOrder
    <3> QED BY <3>1, <3>2
  <2>2. CASE PlaceSellOrder(h, n) \/ BuybackShares(h, n)
    <3>1. Trader(h)
      BY <2>2 DEF Trader
    <3>2. ~paused
      BY <2>2 DEF PlaceSellOrder, MayOffer, BuybackShares
    <3> QED BY <3>1, <3>2
  <2>3. CASE BurnShares(h, n) \/ LockForBridge(h, n) \/ UnlockFromBridge(h, n)
    BY <1>1, <2>3 DEF BurnShares, LockForBridge, UnlockFromBridge
  <2> QED BY <1>2, <2>1, <2>2, <2>3 DEF HolderStep
<1>3. ASSUME NEW b \in Holders, NEW requests \in Batches, BatchBuyShares(b, requests)
      PROVE  G
  BY <1>3 DEF BatchBuyer, BatchBuyShares
<1>4. ASSUME NEW h \in Holders, ClaimVestedShares(h) PROVE Quiet
  BY <1>1, <1>4 DEF ClaimVestedShares
<1>5. ASSUME NEW o \in OrderIds, CancelSellOrder(o) PROVE Quiet
  BY <1>5, CancelOnlyReturns DEF Quiet, CancelSellOrder, ReturnEscrow
<1>6. ASSUME NEW from \in Holders, NEW credit \in [Holders -> 0..balance[from]],
             BatchTransfer(from, credit)
      PROVE  Quiet
  BY <1>1, <1>6 DEF BatchTransfer
<1>7. ASSUME NEW n \in Supplies, SetTotalShares(n) \/ IncreaseTotalShares(n)
      PROVE  Quiet
  <2>1. escrow' = escrow
    BY <1>7 DEF SetTotalShares, IncreaseTotalShares
  <2>2. n \in Nat /\ total \in Nat /\ available \in Nat
    BY MarketplaceAssumption DEF BooksInv, BooksTypeOK
  <2>3. total' - available' = total - available
    BY <1>7, <2>2 DEF SetTotalShares, IncreaseTotalShares
  <2> QED BY <2>1, <2>3, EscrowKept DEF Quiet
<1>8. CASE DelistAsset
  BY <1>8, DelistOnlyReturns DEF Quiet, DelistAsset
<1>9. CASE MoneyStep \/ RuleStep \/ UNCHANGED vars
  <2>1. UNCHANGED bookVars
    BY <1>9 DEF MoneyStep, RuleStep, DepositDistribution, ClaimDistribution,
         EmergencyWithdraw, FundContract, vars
  <2> QED BY <1>1, <2>1 DEF bookVars
<1> HIDE DEF G
<1>10. Quiet => G
  BY DEF G
<1> QED BY <1>2, <1>3, <1>4, <1>5, <1>6, <1>7, <1>8, <1>9, <1>10 DEF Next, ShareStep

PausedStep ==
  paused =>
    /\ total' - available' = total - available
    /\ OrdersOnlyReturned
    /\ \A o \in OrderIds : escrow'[o] <= escrow[o]
ClosedStep ==
  closed =>
    /\ closed'
    /\ total' - available' <= total - available
    /\ OrdersOnlyReturned

LEMMA NextPaused == BooksInv /\ [Next]_vars => PausedStep
BY StepByHalts DEF PausedStep, Quiet, SaleOpen

LEMMA HolderHalts ==
  ASSUME NEW h \in Holders, NEW n \in Shares \ {0}, HolderStep(h, n)
  PROVE  UNCHANGED haltVars
<1>1. BuyShares(h, n) => UNCHANGED haltVars
  BY DEF BuyShares
<1>2. \A duration \in VestingTerms : BuyVestedShares(h, n, duration) => UNCHANGED haltVars
  BY DEF BuyVestedShares
<1>3. PlaceSellOrder(h, n) => UNCHANGED haltVars
  BY DEF PlaceSellOrder, ruleVars
<1>4. \A o \in OrderIds : BuyFromOrder(h, o, n) => UNCHANGED haltVars
  BY DEF BuyFromOrder
<1>5. BuybackShares(h, n) => UNCHANGED haltVars
  BY DEF BuybackShares, ruleVars
<1>6. BurnShares(h, n) => UNCHANGED haltVars
  BY DEF BurnShares, ruleVars
<1>7. LockForBridge(h, n) \/ UnlockFromBridge(h, n) => UNCHANGED haltVars
  BY DEF LockForBridge, UnlockFromBridge, ruleVars
<1> QED BY <1>1, <1>2, <1>3, <1>4, <1>5, <1>6, <1>7 DEF HolderStep

(* No call reopens a wound-down marketplace. *)
LEMMA ClosedStays ==
  ASSUME closed, [Next]_vars
  PROVE  closed'
<1>1. CASE ShareStep
  <2>1. ASSUME NEW h \in Holders, NEW n \in Shares \ {0}, HolderStep(h, n)
        PROVE  closed'
    BY <2>1, HolderHalts DEF haltVars
  <2>2. ASSUME NEW b \in Holders, NEW requests \in Batches, BatchBuyShares(b, requests)
        PROVE  closed'
    BY <2>2 DEF BatchBuyShares, ruleVars, haltVars
  <2>3. ASSUME NEW h \in Holders, ClaimVestedShares(h) PROVE closed'
    BY <2>3 DEF ClaimVestedShares, ruleVars, haltVars
  <2>4. ASSUME NEW o \in OrderIds, CancelSellOrder(o) PROVE closed'
    BY <2>4 DEF CancelSellOrder, ReturnEscrow, ruleVars, haltVars
  <2>5. ASSUME NEW from \in Holders, NEW credit \in [Holders -> 0..balance[from]],
               BatchTransfer(from, credit)
        PROVE  closed'
    BY <2>5 DEF BatchTransfer, ruleVars, haltVars
  <2>6. ASSUME NEW n \in Supplies, SetTotalShares(n) \/ IncreaseTotalShares(n)
        PROVE  closed'
    BY <2>6 DEF SetTotalShares, IncreaseTotalShares, ruleVars, haltVars
  <2>7. CASE DelistAsset
    BY <2>7 DEF DelistAsset
  <2> QED BY <1>1, <2>1, <2>2, <2>3, <2>4, <2>5, <2>6, <2>7 DEF ShareStep
<1>2. CASE MoneyStep
  BY <1>2 DEF MoneyStep, DepositDistribution, ClaimDistribution,
         EmergencyWithdraw, FundContract, ruleVars, haltVars
<1>3. CASE RuleStep
  BY <1>3 DEF RuleStep, HaltsNext, Pause, Unpause, WindDown, PauseFunction,
         UnpauseFunction, ConfigureCircuitBreaker, TriggerCircuitBreaker,
         ResetCircuitBreaker, haltVars
<1>4. CASE UNCHANGED vars
  BY <1>4 DEF vars, ruleVars, haltVars
<1> QED BY <1>1, <1>2, <1>3, <1>4 DEF Next

LEMMA NextClosed == BooksInv /\ [Next]_vars => ClosedStep
<1> SUFFICES ASSUME BooksInv, [Next]_vars, closed
             PROVE  /\ closed'
                    /\ total' - available' <= total - available
                    /\ OrdersOnlyReturned
  BY DEF ClosedStep
<1>1. closed'
  BY ClosedStays
<1>2. total \in Nat /\ available \in Nat
  BY MarketplaceAssumption DEF BooksInv, BooksTypeOK
<1>3. CASE Quiet
  BY <1>1, <1>2, <1>3 DEF Quiet
<1>4. ASSUME NEW h \in Holders, Trader(h)
      PROVE  total' - available' <= total - available /\ OrdersOnlyReturned
  <2>1. PICK n \in Shares \ {0} : PlaceSellOrder(h, n) \/ BuybackShares(h, n)
    BY <1>4 DEF Trader
  <2>2. n \in Nat
    BY MarketplaceAssumption
  <2>3. CASE PlaceSellOrder(h, n)
    <3>1. OrdersOnlyReturned
      BY <2>3, PlacedReturnsNothing
    <3>2. total' = total /\ available' = available
      BY <2>3 DEF PlaceSellOrder
    <3> QED BY <1>2, <3>1, <3>2
  <2>4. CASE BuybackShares(h, n)
    <3>1. OrdersOnlyReturned
      BY <2>4, EscrowKept DEF BuybackShares
    <3>2. total' = total /\ available' = available + n
      BY <2>4 DEF BuybackShares
    <3> QED BY <1>2, <2>2, <3>1, <3>2
  <2> QED BY <2>1, <2>3, <2>4
<1> QED BY <1>1, <1>3, <1>4, StepByHalts DEF SaleOpen

(* Pausing stops every sale, redemption and new offer, whatever calls      *)
(* still run, and leaves sellers able to take their shares back.           *)
THEOREM PausedNeverTrades == Spec => PausedMeansNoTrade
<1> QED BY BooksInvariant, NextPaused, PTL DEF Spec, PausedMeansNoTrade, PausedStep

(* A wound-down marketplace never sells again: there is no way back.       *)
THEOREM ClosedStaysClosed == Spec => ClosedForGood
<1> QED BY BooksInvariant, NextClosed, PTL DEF Spec, ClosedForGood, ClosedStep

-----------------------------------------------------------------------------
(* Purchase counters. *)
LEMMA NotWrapped ==
  ASSUME NEW x \in Nat, x <= MaxU32
  PROVE  Wrapped(x) = x
<1>1. PICK m \in Nat : m = MaxU32 + 1
  BY MarketplaceAssumption
<1>2. x < m /\ m # 0
  BY <1>1, MarketplaceAssumption
<1>3. x % m = x
  BY ONLY <1>2, x \in Nat, m \in Nat
<1> QED BY <1>1, <1>3 DEF Wrapped

(* What a purchase of n shares by b leaves in the counters of b. *)
CountedBy(b, n) ==
  \A p \in Periods : bought[p][b] + n <= MaxU32 => bought'[p][b] = bought[p][b] + n

LEMMA RecordCounts ==
  ASSUME LimitsTypeOK, NEW b \in Holders, NEW n \in Nat, NEW cost,
         Limited(b), RecordPurchase(b, n, cost)
  PROVE  CountedBy(b, n)
<1> SUFFICES ASSUME NEW p \in Periods, bought[p][b] + n <= MaxU32
             PROVE  bought'[p][b] = bought[p][b] + n
  BY DEF CountedBy
<1>1. bought[p] \in [Holders -> Nat] /\ bought[p][b] \in Nat
  BY DEF LimitsTypeOK
<1>2. bought' = [q \in Periods |-> [bought[q] EXCEPT ![b] = Wrapped(@ + n)]]
  BY DEF RecordPurchase
<1>3. bought'[p][b] = Wrapped(bought[p][b] + n)
  BY <1>1, <1>2
<1>4. bought[p][b] + n \in Nat
  BY <1>1
<1>5. Wrapped(bought[p][b] + n) = bought[p][b] + n
  BY <1>4, NotWrapped
<1> QED BY <1>3, <1>5

(* The position of b grew by what left no balance. *)
Bought(b) ==
  /\ Position(b)' - Position(b) > 0
  /\ \A h \in Holders \ {b} : balance'[h] >= balance[h]
CountedStep ==
  \A b \in Holders :
    LET n == Position(b)' - Position(b)
    IN  /\ Limited(b)
        /\ n > 0
        /\ \A h \in Holders \ {b} : balance'[h] >= balance[h]
        /\ ~ \E requests \in Batches : BatchBuyShares(b, requests)
        => \A p \in Periods :
             bought[p][b] + n <= MaxU32 => bought'[p][b] = bought[p][b] + n

LEMMA KeptBuysNothing ==
  ASSUME BooksInv, PositionsKept, NEW b \in Holders
  PROVE  ~ Bought(b)
BY PositionParts DEF Bought, PositionsKept

(* A purchase by h is counted, and nobody else bought anything. *)
LEMMA GainsCounted ==
  ASSUME BooksInv, NEW h \in Holders, NEW n \in Nat, Gains(h, n),
         NEW b \in Holders, Bought(b)
  PROVE  b = h /\ Position(b)' - Position(b) = n
<1>1. Position(b) \in Nat
  BY PositionParts
<1>2. Position(b)' = Position(b) + (IF b = h THEN n ELSE 0)
  BY DEF Gains
<1> QED BY <1>1, <1>2 DEF Bought

LEMMA LosesCounted ==
  ASSUME BooksInv, NEW h \in Holders, NEW n \in Nat, Gains(h, 0 - n), NEW b \in Holders
  PROVE  ~ Bought(b)
<1>1. Position(b) \in Nat
  BY PositionParts
<1>2. Position(b)' = Position(b) + (IF b = h THEN 0 - n ELSE 0)
  BY DEF Gains
<1> QED BY <1>1, <1>2 DEF Bought

LEMMA HolderCounted ==
  ASSUME BooksInv, LimitsTypeOK, NEW h \in Holders, NEW n \in Shares \ {0},
         HolderStep(h, n), NEW b \in Holders, Bought(b), Limited(b)
  PROVE  CountedBy(b, Position(b)' - Position(b))
<1> DEFINE G == CountedBy(b, Position(b)' - Position(b))
<1> SUFFICES G
  OBVIOUS
<1>1. n \in Nat /\ n \in Int
  BY MarketplaceAssumption
<1>2. ASSUME b = h, Position(b)' - Position(b) = n,
             NEW cost, RecordPurchase(h, n, cost)
      PROVE  G
  BY <1>1, <1>2, RecordCounts
<1> HIDE DEF G
<1>3. CASE BuyShares(h, n)
  <2>1. Gains(h, n)
    BY <1>1, <1>3, BalanceGains DEF BuyShares
  <2>2. b = h /\ Position(b)' - Position(b) = n
    BY <1>1, <2>1, GainsCounted
  <2>3. PICK p \in CurrentPrices : RecordPurchase(h, n, p * n)
    BY <1>3 DEF BuyShares
  <2> QED BY <1>2, <2>2, <2>3
<1>4. ASSUME NEW duration \in VestingTerms, BuyVestedShares(h, n, duration) PROVE G
  <2>1. Gains(h, n)
    BY <1>4, BuyVestedGains
  <2>2. b = h /\ Position(b)' - Position(b) = n
    BY <1>1, <2>1, GainsCounted
  <2>3. PICK p \in CurrentPrices : RecordPurchase(h, n, p * n)
    BY <1>4 DEF BuyVestedShares
  <2> QED BY <1>2, <2>2, <2>3
<1>5. CASE PlaceSellOrder(h, n)
  BY <1>5, PlaceSellOrderKeeps, KeptBuysNothing
<1>6. ASSUME NEW o \in OrderIds, BuyFromOrder(h, o, n) PROVE G
  <2>1. Position(b)' = Position(b) + (IF b = h THEN n ELSE 0)
                                   - (IF b = seller[o] THEN n ELSE 0)
    BY <1>6, BuyFromOrderMoves
  <2>2. Position(b) \in Nat
    BY PositionParts
  <2>3. b = h /\ b # seller[o]
    BY <1>1, <2>1, <2>2 DEF Bought
  <2>4. Position(b)' - Position(b) = n
    BY <1>1, <2>1, <2>2, <2>3
  <2>5. PICK ask \in Prices \cup {InitialPrice} : RecordPurchase(h, n, ask * n)
    BY <1>6 DEF BuyFromOrder
  <2> QED BY <1>2, <2>3, <2>4, <2>5
<1>7. CASE BuybackShares(h, n)
  <2>1. Gains(h, 0 - n)
    BY <1>1, <1>7, BalanceLoses DEF BuybackShares
  <2> QED BY <1>1, <2>1, LosesCounted
<1>8. CASE BurnShares(h, n)
  <2>1. Gains(h, 0 - n)
    BY <1>1, <1>8, BalanceLoses DEF BurnShares
  <2> QED BY <1>1, <2>1, LosesCounted
<1>9. CASE LockForBridge(h, n) \/ UnlockFromBridge(h, n)
  BY <1>9, BridgeKeeps, KeptBuysNothing
<1> QED BY <1>3, <1>4, <1>5, <1>6, <1>7, <1>8, <1>9 DEF HolderStep

(* Who receives a transfer takes it from the balance of another. *)
LEMMA TransferNotBought ==
  ASSUME BooksInv, NEW from \in Holders, NEW credit \in [Holders -> 0..balance[from]],
         BatchTransfer(from, credit), NEW b \in Holders
  PROVE  ~ Bought(b)
<1>1. /\ Total(credit) \in Nat
      /\ credit \in [Holders -> 0..MaxU32]
      /\ Position(b)' = IF b = from THEN Position(b) - Total(credit)
                        ELSE Position(b) + credit[b]
  BY BatchTransferMoves
<1>2. Position(b) \in Nat
  BY PositionParts
<1>3. CASE b = from
  BY <1>1, <1>2, <1>3 DEF Bought
<1>4. CASE b # from
  <2> SUFFICES ASSUME Bought(b) PROVE FALSE
    OBVIOUS
  <2>1. credit[b] > 0 /\ credit[b] \in Nat
    BY <1>1, <1>2, <1>4, MarketplaceAssumption DEF Bought
  <2>2. credit[b] <= Total(credit)
    <3>1. credit \in [Holders -> Nat]
      BY <1>1, MarketplaceAssumption
    <3> QED BY <3>1, MarketplaceAssumption, TotalBoundsValues
  <2>3. balance'[from] = balance[from] - Total(credit) /\ balance[from] \in Nat
    BY PositionParts DEF BatchTransfer
  <2>4. balance'[from] >= balance[from]
    BY <1>4 DEF Bought
  <2> QED BY <1>1, <2>1, <2>2, <2>3, <2>4
<1> QED BY <1>3, <1>4

LEMMA NextCounted == MarketInv /\ [Next]_vars => CountedStep
<1> SUFFICES ASSUME MarketInv, [Next]_vars, NEW b \in Holders, Limited(b), Bought(b),
                    ~ \E requests \in Batches : BatchBuyShares(b, requests)
             PROVE  CountedBy(b, Position(b)' - Position(b))
  BY DEF CountedStep, Bought, CountedBy
<1>1. BooksInv /\ LimitsTypeOK
  BY DEF MarketInv, RulesTypeOK
<1>2. ~ PositionsKept
  BY <1>1, KeptBuysNothing
<1>3. ASSUME NEW h \in Holders, NEW n \in Shares \ {0}, HolderStep(h, n)
      PROVE  CountedBy(b, Position(b)' - Position(b))
  BY <1>1, <1>3, HolderCounted
<1>4. ASSUME NEW h \in Holders, NEW requests \in Batches, BatchBuyShares(h, requests)
      PROVE  FALSE
  <2>1. PICK n \in 0..MaxU32 : Gains(h, n)
    BY <1>1, <1>4, BatchBuyGains
  <2>2. n \in Nat
    BY MarketplaceAssumption
  <2>3. b = h
    BY <1>1, <2>1, <2>2, GainsCounted
  <2> QED BY <1>4, <2>3
<1>5. ASSUME NEW h \in Holders, ClaimVestedShares(h) PROVE FALSE
  BY <1>1, <1>2, <1>5, ClaimVestedKeeps
<1>6. ASSUME NEW o \in OrderIds, CancelSellOrder(o) PROVE FALSE
  BY <1>1, <1>2, <1>6, CancelSellOrderKeeps
<1>7. ASSUME NEW from \in Holders, NEW credit \in [Holders -> 0..balance[from]],
             BatchTransfer(from, credit)
      PROVE  FALSE
  BY <1>1, <1>7, TransferNotBought
<1>8. ASSUME NEW n \in Supplies, SetTotalShares(n) \/ IncreaseTotalShares(n)
      PROVE  FALSE
  <2>1. UNCHANGED <<balance, bridged, seller, escrow, grant>>
    BY <1>8 DEF SetTotalShares, IncreaseTotalShares
  <2> QED BY <1>2, <2>1, SamePositions
<1>9. CASE DelistAsset
  BY <1>1, <1>2, <1>9, DelistAssetKeeps
<1>10. CASE MoneyStep \/ RuleStep \/ UNCHANGED vars
  <2>1. UNCHANGED bookVars
    BY <1>10 DEF MoneyStep, RuleStep, DepositDistribution, ClaimDistribution,
         EmergencyWithdraw, FundContract, vars
  <2> QED BY <1>2, <2>1, SamePositions DEF bookVars
<1> QED BY <1>3, <1>4, <1>5, <1>6, <1>7, <1>8, <1>9, <1>10 DEF Next, ShareStep

(* What a limited buyer buys, through whichever of the purchase functions  *)
(* that read the limits, is in all three counters.                         *)
THEOREM PurchasesAreCounted == Spec => LimitedPurchasesCounted
<1>1. MarketInv /\ [Next]_vars => CountedStep
  BY NextCounted
<1> QED BY MarketInvariant, <1>1, PTL DEF Spec, LimitedPurchasesCounted, CountedStep

-----------------------------------------------------------------------------
(* Returning shares never overflows: the arithmetic checks of              *)
(* cancel_sell_order, of the cancellations of a delisting, of a bridge     *)
(* unlock and of a claim of vested shares cannot panic or saturate.        *)
ReturnsFit ==
  /\ \A o \in OrderIds : seller[o] # None => balance[seller[o]] + escrow[o] <= MaxU32
  /\ \A h \in Holders :
       /\ balance[h] + Returned(h) <= MaxU32
       /\ balance[h] + bridged[h] <= MaxU32
       /\ balance[h] + VestingOf(h) <= MaxU32

LEMMA PositionFits ==
  ASSUME BooksInv, NEW h \in Holders
  PROVE  Position(h) \in Nat /\ Position(h) <= MaxU32
<1>1. /\ Positions \in [Holders -> Nat] /\ Positions[h] = Position(h)
      /\ IsFiniteSet(Holders)
  BY PositionsOf, MarketplaceAssumption
<1>2. Positions[h] <= Total(Positions)
  BY <1>1, TotalBoundsValues
<1>3. Total(Positions) = Accounted
  BY PositionsSum DEF Positions
<1>4. Total(Positions) \in Nat
  BY <1>1, TotalNat
<1>5. /\ total \in Nat /\ available \in Nat /\ retired \in Nat
      /\ total <= MaxU32 /\ MaxU32 \in Nat
  BY MarketplaceAssumption DEF BooksInv, BooksTypeOK
<1>6. total - available = Accounted + retired
  BY DEF BooksInv, SharesConserved
<1> QED BY <1>1, <1>2, <1>3, <1>4, <1>5, <1>6

LEMMA BooksReturnsFit == BooksInv => ReturnsFit
<1> SUFFICES ASSUME BooksInv PROVE ReturnsFit
  OBVIOUS
<1>1. ASSUME NEW h \in Holders
      PROVE  /\ balance[h] + EscrowOf(h) <= MaxU32
             /\ balance[h] + bridged[h] <= MaxU32
             /\ balance[h] + VestingOf(h) <= MaxU32
  <2>1. PICK p \in Nat : p = balance[h]
    BY PositionParts
  <2>2. PICK q \in Nat : q = bridged[h]
    BY PositionParts
  <2>3. PICK r \in Nat : r = EscrowOf(h)
    BY PositionParts
  <2>4. PICK s \in Nat : s = VestingOf(h)
    BY PositionParts
  <2>5. p + q + r + s <= MaxU32 /\ MaxU32 \in Nat
    BY <2>1, <2>2, <2>3, <2>4, PositionFits, MarketplaceAssumption DEF Position
  <2> QED BY <2>1, <2>2, <2>3, <2>4, <2>5
<1>2. ASSUME NEW o \in OrderIds, seller[o] # None
      PROVE  balance[seller[o]] + escrow[o] <= MaxU32
  <2>1. seller[o] \in Holders
    BY <1>2 DEF BooksInv, BooksTypeOK
  <2> DEFINE f == [i \in OrderIds |-> IF seller[i] = seller[o] THEN escrow[i] ELSE 0]
  <2>2. f \in [OrderIds -> Nat] /\ f[o] = escrow[o] /\ IsFiniteSet(OrderIds)
    BY MarketplaceAssumption DEF BooksInv, BooksTypeOK
  <2>3. EscrowOf(seller[o]) = Total(f)
    BY DEF EscrowOf
  <2> HIDE DEF f
  <2>4. f[o] <= Total(f) /\ Total(f) \in Nat
    BY <2>2, TotalBoundsValues, TotalNat
  <2>5. balance[seller[o]] + EscrowOf(seller[o]) <= MaxU32
    BY <1>1, <2>1
  <2>6. balance[seller[o]] \in Nat /\ escrow[o] \in Nat /\ MaxU32 \in Nat
    BY <2>1, MarketplaceAssumption DEF BooksInv, BooksTypeOK
  <2> QED BY <2>2, <2>3, <2>4, <2>5, <2>6
<1> QED BY <1>1, <1>2 DEF ReturnsFit, Returned

(* The u32 checks on the way back to a balance never fail, so cancelling   *)
(* an order, a delisting, a bridge unlock and a vesting claim are never    *)
(* refused for what other calls have done to the balance: of               *)
(* SellersCanAlwaysExit, this is the part that is not read off the guard.  *)
THEOREM ReturnsAlwaysFit == Spec => []ReturnsFit
<1> QED BY BooksInvariant, BooksReturnsFit, PTL
=============================================================================
