--------------------------- MODULE ShareRegistry ---------------------------
(***************************************************************************)
(* What the marketplace promises about shares, without its books: a pool   *)
(* of unsold shares, one position per holder, and the shares retired for   *)
(* good.  Shares move only by sale, redemption, retirement, resale or      *)
(* transfer, and only the size of the pool is the admin's to set.          *)
(***************************************************************************)
EXTENDS ShareUnits

CONSTANTS Holders, MaxU32

VARIABLES pool, position, retired

registryVars == <<pool, position, retired>>

RegistryInit ==
  /\ pool \in 1..MaxU32
  /\ position = [h \in Holders |-> 0]
  /\ retired = 0

Sell(h, n) ==
  /\ n <= pool
  /\ pool' = pool - n
  /\ position' = [position EXCEPT ![h] = @ + n]
  /\ UNCHANGED retired

Redeem(h, n) ==
  /\ n <= position[h]
  /\ pool' = pool + n
  /\ position' = [position EXCEPT ![h] = @ - n]
  /\ UNCHANGED retired

Retire(h, n) ==
  /\ n <= position[h]
  /\ position' = [position EXCEPT ![h] = @ - n]
  /\ retired' = retired + n
  /\ UNCHANGED pool

Resell(from, to, n) ==
  /\ from # to
  /\ n <= position[from]
  /\ position' = [position EXCEPT ![from] = @ - n, ![to] = @ + n]
  /\ UNCHANGED <<pool, retired>>

(* What a sender addresses to itself is retired.                           *)
Transfer(from, credit) ==
  /\ Total(credit) <= position[from]
  /\ position' = [h \in Holders |-> IF h = from
                                    THEN position[h] - Total(credit)
                                    ELSE position[h] + credit[h]]
  /\ retired' = retired + credit[from]
  /\ UNCHANGED pool

(* The admin resizes the pool; whoever holds shares keeps them, and shares *)
(* held, retired and unsold never exceed u32::MAX together.                *)
Resize(n) ==
  /\ n + Total(position) + retired <= MaxU32
  /\ pool' = n
  /\ UNCHANGED <<position, retired>>

RegistryNext ==
  \/ \E h \in Holders, n \in 1..MaxU32 : Sell(h, n) \/ Redeem(h, n) \/ Retire(h, n)
  \/ \E from, to \in Holders, n \in 1..MaxU32 : Resell(from, to, n)
  \/ \E from \in Holders : \E credit \in [Holders -> 0..MaxU32] :
       Transfer(from, credit)
  \/ \E n \in 0..MaxU32 : Resize(n)

RegistrySpec == RegistryInit /\ [][RegistryNext]_registryVars
=============================================================================
