---------------------------- MODULE Client_proofs ---------------------------
(***************************************************************************)
(* The live feed, the wallet session and the offline queue, for any        *)
(* sockets, topics, accounts, networks, actions, flushes and bounds.       *)
(*                                                                         *)
(* The feed: that browser and server agree on who listens to what is not   *)
(* inductive.  It takes the messages under way (Agreed: what the server    *)
(* has, changed by what is still to arrive, is what the hook asked for),   *)
(* and what the hook's socket reference follows (Follows).  The hub alone  *)
(* and the feed's own types come first, then the feed's halves of what     *)
(* TLC checks as liveness, then the wallet and the queue, then all of them *)
(* side by side.                                                           *)
(***************************************************************************)
EXTENDS MCClient, ShareUnits_proofs, SequenceTheorems, TLAPS

-----------------------------------------------------------------------------
(* The hub: the server's two books of who listens to what. *)

BookTypes ==
  /\ clientTopics \in [Sockets -> SUBSET Topics]
  /\ subscriptions \in [Topics -> SUBSET Sockets]

HubInv == BookTypes /\ SubscriptionsMirrored

(* Nobody is there at the start. *)
LEMMA HubInvInit == HubInit => HubInv
BY DEF HubInit, HubInv, BookTypes, SubscriptionsMirrored

(* A new connection listens to nothing; nothing it had is left over. *)
LEMMA ConnectionKeepsInv ==
  ASSUME HubInv, NEW s \in Sockets, Connection(s)
  PROVE  HubInv'
BY DEF Connection, HubInv, BookTypes, SubscriptionsMirrored

(* Both books strike out the clients that are gone, however many they are. *)
LEMMA DisconnectKeepsInv ==
  ASSUME HubInv, NEW gone, HandleDisconnect(gone)
  PROVE  HubInv'
<1>1. BookTypes'
  BY DEF HandleDisconnect, Without, HubInv, BookTypes
<1>2. SubscriptionsMirrored'
  BY DEF HandleDisconnect, Without, HubInv, BookTypes, SubscriptionsMirrored
<1> QED BY <1>1, <1>2 DEF HubInv

(* A subscription is entered on both sides, or on neither. *)
LEMMA SubscribeKeepsInv ==
  ASSUME HubInv, NEW s \in Sockets, NEW t \in Topics,
         Subscribe(s, t) \/ Unsubscribe(s, t)
  PROVE  HubInv'
<1>1. BookTypes'
  BY DEF Subscribe, Unsubscribe, HubInv, BookTypes
<1>2. SubscriptionsMirrored'
  BY DEF Subscribe, Unsubscribe, HubInv, BookTypes, SubscriptionsMirrored
<1> QED BY <1>1, <1>2 DEF HubInv

(* Every step of the hub keeps the invariant. *)
LEMMA HubInvNext == HubInv /\ [HubNext]_hubVars => HubInv'
<1> SUFFICES ASSUME HubInv, [HubNext]_hubVars PROVE HubInv'
  OBVIOUS
<1>1. CASE UNCHANGED hubVars
  BY <1>1 DEF hubVars, HubInv, BookTypes, SubscriptionsMirrored
<1>2. ASSUME NEW s \in Sockets, StopsBeingReady(s) PROVE HubInv'
  BY <1>2 DEF StopsBeingReady, HubInv, BookTypes, SubscriptionsMirrored
<1>3. ASSUME NEW s \in Sockets, SocketCloses(s) PROVE HubInv'
  BY <1>3, DisconnectKeepsInv DEF SocketCloses
<1>4. ASSUME NEW t \in Topics, NEW failing, Broadcast(t, failing) PROVE HubInv'
  BY <1>4, DisconnectKeepsInv DEF Broadcast
<1>5. ASSUME NEW t \in Topics, Ages(t) PROVE HubInv'
  BY <1>5 DEF Ages, HubInv, BookTypes, SubscriptionsMirrored
<1>6. ASSUME NEW t \in Topics, NEW failing, RemoteBroadcast(t, failing) PROVE HubInv'
  BY <1>6, DisconnectKeepsInv DEF RemoteBroadcast
<1> QED BY <1>1, <1>2, <1>3, <1>4, <1>5, <1>6, ConnectionKeepsInv, SubscribeKeepsInv
        DEF HubNext, HubStep

(* Whatever closes, throws or comes late, the topics of a client and the   *)
(* subscribers of a topic are two views of one relation.                   *)
THEOREM BooksAgree == HubSpec => []SubscriptionsMirrored
<1>1. HubInv => SubscriptionsMirrored
  BY DEF HubInv
<1> QED BY HubInvInit, HubInvNext, <1>1, PTL DEF HubSpec

-----------------------------------------------------------------------------
(* The hub: what it keeps to be replayed.  The buffer may hold messages    *)
(* past their time, which only the next broadcast takes out: the invariant *)
(* says which it must hold and which it may.                               *)

(* In an ascending sequence those above the p-th are the ones behind it.   *)
Strict(s) == \A i, j \in DOMAIN s : i < j => s[i] < s[j]

LEMMA CountBehind ==
  ASSUME NEW s \in Seq(Nat), Strict(s), NEW p \in 1..Len(s)
  PROVE  Cardinality({x \in ToSet(s) : x > s[p]}) = Len(s) - p
<1>1. PICK n \in Nat : n = Len(s) /\ DOMAIN s = 1..n
  BY LenProperties
<1>2. \A i \in 1..n : s[i] \in Nat
  BY <1>1
<1>3. \A i, j \in 1..n : i < j => s[i] < s[j]
  BY <1>1 DEF Strict
<1> DEFINE T == {x \in ToSet(s) : x > s[p]}
           f == [i \in (p + 1)..n |-> s[i]]
<1>4. p \in 1..n /\ p \in Nat /\ p <= n
  BY <1>1
<1>5. \A x : x \in ToSet(s) <=> \E i \in 1..n : x = s[i]
  BY <1>1 DEF ToSet
<1>6. f \in Bijection((p + 1)..n, T)
  <2>1. ASSUME NEW i \in (p + 1)..n PROVE f[i] \in T
    <3>1. i \in 1..n /\ p < i /\ f[i] = s[i]
      BY <1>4
    <3>2. s[p] < s[i] /\ s[p] \in Nat /\ s[i] \in Nat
      BY <1>2, <1>3, <1>4, <3>1
    <3> QED BY <1>5, <3>1, <3>2
  <2>2. ASSUME NEW i \in (p + 1)..n, NEW j \in (p + 1)..n, f[i] = f[j] PROVE i = j
    <3>1. i \in 1..n /\ j \in 1..n /\ s[i] = s[j]
      BY <1>4, <2>2
    <3>2. i < j \/ j < i \/ i = j
      BY <3>1
    <3> QED BY <1>2, <1>3, <3>1, <3>2
  <2>3. ASSUME NEW x \in T PROVE \E i \in (p + 1)..n : f[i] = x
    <3>1. PICK i \in 1..n : x = s[i]
      BY <1>5
    <3>2. s[i] > s[p] /\ s[i] \in Nat /\ s[p] \in Nat
      BY <1>2, <1>4, <3>1
    <3>3. ~ (i < p) /\ i # p
      BY <1>3, <1>4, <3>2
    <3>4. i \in (p + 1)..n
      BY <1>4, <3>3
    <3> QED BY <3>1, <3>4
  <2> HIDE DEF T
  <2>4. f \in [(p + 1)..n -> T]
    BY <2>1
  <2> QED BY <2>2, <2>3, <2>4, Fun_IsBij
<1> HIDE DEF T, f
<1>7. IsFiniteSet((p + 1)..n) /\ Cardinality((p + 1)..n) = n - p
  <2>1. p + 1 \in Int /\ n \in Int
    BY <1>4
  <2>2. Cardinality((p + 1)..n) = IF p + 1 > n THEN 0 ELSE n - (p + 1) + 1
    BY <2>1, FS_Interval
  <2> QED BY <1>4, <2>1, <2>2, FS_Interval
<1>8. ExistsBijection((p + 1)..n, T)
  BY <1>6 DEF ExistsBijection
<1>9. Cardinality(T) = Cardinality((p + 1)..n)
  BY <1>7, <1>8, FS_Bijection
<1> QED BY <1>1, <1>7, <1>9 DEF T

(* A filter of an ascending sequence ascends, and holds what it lets pass. *)
LEMMA FilterStrict ==
  ASSUME NEW s \in Seq(Nat), Strict(s), NEW K, NEW at \in SUBSET (DOMAIN s),
         \A i \in DOMAIN s : i \in at <=> s[i] \in K
  PROVE  /\ Picked(s, at) \in Seq(Nat) /\ Strict(Picked(s, at))
         /\ \A x : x \in ToSet(Picked(s, at)) <=> x \in ToSet(s) /\ x \in K
<1>1. PICK t : t = Picked(s, at)
  OBVIOUS
<1>2. /\ t \in Seq(Nat)
      /\ \A k \in DOMAIN t : \E i \in at : t[k] = s[i]
      /\ \A k, l \in DOMAIN t : k < l =>
           \E i, j \in at : i < j /\ t[k] = s[i] /\ t[l] = s[j]
  BY <1>1, PickedOrder
<1>3. \A i \in at : \E k \in DOMAIN t : t[k] = s[i]
  BY <1>1, PickedAll
<1>4. Strict(t)
  BY <1>2 DEF Strict
<1>5. \A x : x \in ToSet(t) <=> x \in ToSet(s) /\ x \in K
  BY <1>2, <1>3 DEF ToSet
<1> QED BY <1>1, <1>2, <1>4, <1>5

(* The latest messages of H, a buffer B that holds them as far as they are *)
(* above x, and the last number n.                                         *)
Latest(H) == {m \in H : Cardinality({k \in H : k > m}) < BufferSize}

BufferOK(B, H, x, n) ==
  /\ n \in Nat /\ x \in 0..n /\ H \subseteq 1..n
  /\ B \in Seq(Nat) /\ Strict(B)
  /\ ToSet(B) \subseteq Latest(H)
  /\ \A m \in Latest(H) : m > x => m \in ToSet(B)

LEMMA AboveFinite ==
  ASSUME NEW n \in Nat, NEW H \in SUBSET (1..n), NEW m
  PROVE  /\ IsFiniteSet(H) /\ IsFiniteSet({k \in H : k > m})
         /\ Cardinality({k \in H : k > m}) \in Nat
<1>1. 1 \in Int /\ n \in Int
  OBVIOUS
<1>2. IsFiniteSet(1..n)
  BY <1>1, FS_Interval
<1>3. IsFiniteSet(H)
  BY <1>2, FS_Subset
<1> DEFINE T == {k \in H : k > m}
<1>4. T \in SUBSET H
  OBVIOUS
<1> HIDE DEF T
<1>5. IsFiniteSet(T) /\ Cardinality(T) \in Nat
  BY <1>3, <1>4, FS_Subset, FS_CardinalityType
<1> QED BY <1>3, <1>5 DEF T

(* A newer message is among the latest, one later than a latest as well,   *)
(* and no other becomes one of them.                                       *)
LEMMA LatestGrows ==
  ASSUME NEW n \in Nat, NEW H \in SUBSET (1..n)
  PROVE  /\ \A m \in Latest(H), k \in H : k > m => k \in Latest(H)
         /\ n + 1 \in Latest(H \cup {n + 1})
         /\ \A m \in Latest(H \cup {n + 1}) : m = n + 1 \/ m \in Latest(H)
<1> DEFINE G == H \cup {n + 1}
           Above(S, m) == {k \in S : k > m}
<1>1. G \in SUBSET (1..(n + 1)) /\ n + 1 \in Nat /\ \A k \in G : k \in Nat /\ k <= n + 1
  OBVIOUS
<1>2. \A m : /\ IsFiniteSet(Above(H, m)) /\ Cardinality(Above(H, m)) \in Nat
             /\ IsFiniteSet(Above(G, m)) /\ Cardinality(Above(G, m)) \in Nat
  <2>1. \A m : IsFiniteSet(Above(H, m)) /\ Cardinality(Above(H, m)) \in Nat
    BY AboveFinite
  <2>2. \A m : IsFiniteSet(Above(G, m)) /\ Cardinality(Above(G, m)) \in Nat
    <3> HIDE DEF G
    <3> QED BY <1>1, AboveFinite
  <2> QED BY <2>1, <2>2
<1>3. BufferSize \in Nat \ {0}
  BY HubAssumption
<1>4. ASSUME NEW m \in Latest(H), NEW k \in H, k > m PROVE k \in Latest(H)
  <2>1. m \in H /\ Cardinality(Above(H, m)) < BufferSize
    BY DEF Latest
  <2>2. Above(H, k) \in SUBSET Above(H, m)
    <3>1. m \in Nat /\ k \in Nat /\ \A j \in H : j \in Nat
      BY <1>1, <2>1
    <3>2. \A j \in H : j > k => j > m
      BY <1>4, <3>1
    <3> QED BY <3>2
  <2>3. Cardinality(Above(H, k)) <= Cardinality(Above(H, m))
    <3> HIDE DEF Above
    <3> QED BY <1>2, <2>2, FS_Subset
  <2>4. Cardinality(Above(H, k)) < BufferSize
    <3> HIDE DEF Above
    <3> QED BY <1>2, <1>3, <2>1, <2>3
  <2> QED BY <2>4 DEF Latest
<1>5. n + 1 \in Latest(G)
  <2>1. Above(G, n + 1) = {}
    <3>1. \A k \in G : ~ (k > n + 1)
      BY <1>1
    <3> QED BY <3>1
  <2>2. Cardinality(Above(G, n + 1)) < BufferSize
    BY <1>3, <2>1, FS_EmptySet
  <2> QED BY <2>2 DEF Latest
<1>6. ASSUME NEW m \in Latest(G), m # n + 1 PROVE m \in Latest(H)
  <2>1. m \in H /\ Cardinality(Above(G, m)) < BufferSize
    BY <1>6 DEF Latest
  <2>2. Above(H, m) \in SUBSET Above(G, m)
    OBVIOUS
  <2>3. Cardinality(Above(H, m)) <= Cardinality(Above(G, m))
    <3> HIDE DEF Above
    <3> QED BY <1>2, <2>2, FS_Subset
  <2>4. Cardinality(Above(H, m)) < BufferSize
    <3> HIDE DEF Above, G
    <3> QED BY <1>2, <1>3, <2>1, <2>3
  <2> QED BY <2>1, <2>4 DEF Latest
<1> QED BY <1>4, <1>5, <1>6

(* The last messages of an ascending sequence, down to the buffer's size.  *)
LEMMA TrimmedLast ==
  ASSUME NEW s \in Seq(Nat), Strict(s)
  PROVE  /\ Trimmed(s) \in Seq(Nat) /\ Strict(Trimmed(s))
         /\ \A x : x \in ToSet(Trimmed(s)) <=>
              \E p \in 1..Len(s) : x = s[p] /\ Len(s) - p < BufferSize
<1>1. PICK n \in Nat : n = Len(s) /\ DOMAIN s = 1..n
  BY LenProperties
<1>2. BufferSize \in Nat \ {0}
  BY HubAssumption
<1>3. CASE n > BufferSize
  <2>1. PICK a \in Nat : a = n - BufferSize /\ a + BufferSize = n
    BY <1>2, <1>3
  <2>2. PICK t : t = SubSeq(s, a + 1, n)
    OBVIOUS
  <2>3. Trimmed(s) = t
    BY <1>1, <1>3, <2>1, <2>2 DEF Trimmed
  <2>4. t \in Seq(Nat) /\ Len(t) = BufferSize /\ \A i \in 1..BufferSize : t[i] = s[a + i]
    <3>1. a + 1 \in Int /\ n \in Int /\ \A i \in (a + 1)..n : s[i] \in Nat
      BY <1>1
    <3>2. /\ SubSeq(s, a + 1, n) \in Seq(Nat)
          /\ Len(SubSeq(s, a + 1, n)) = IF a + 1 <= n THEN n - (a + 1) + 1 ELSE 0
          /\ \A i \in 1..(n - (a + 1) + 1) : SubSeq(s, a + 1, n)[i] = s[(a + 1) + i - 1]
      BY ONLY <3>1, SubSeqProperties
    <3>3. n - (a + 1) + 1 = BufferSize /\ a + 1 <= n
      BY <1>2, <2>1
    <3>4. \A i \in 1..BufferSize : (a + 1) + i - 1 = a + i
      BY <1>2
    <3> QED BY ONLY <2>2, <3>2, <3>3, <3>4
  <2>5. DOMAIN t = 1..BufferSize
    BY <2>4, LenProperties
  <2>6. \A i \in 1..BufferSize : a + i \in 1..n
    BY <1>2, <2>1
  <2>7. Strict(t)
    <3>1. ASSUME NEW i \in 1..BufferSize, NEW j \in 1..BufferSize, i < j PROVE t[i] < t[j]
      <4>1. a + i \in 1..n /\ a + j \in 1..n /\ a + i < a + j
        BY <2>6, <3>1
      <4>2. s[a + i] < s[a + j]
        BY <1>1, <4>1 DEF Strict
      <4> QED BY <2>4, <4>2
    <3> QED BY <2>5, <3>1 DEF Strict
  <2>8. ASSUME NEW x, NEW i \in 1..BufferSize, x = t[i]
        PROVE  \E p \in 1..n : x = s[p] /\ n - p < BufferSize
    <3>1. a + i \in 1..n /\ n - (a + i) < BufferSize
      BY <1>2, <2>1, <2>6
    <3> QED BY <2>4, <2>8, <3>1
  <2>9. ASSUME NEW x, NEW p \in 1..n, x = s[p], n - p < BufferSize
        PROVE  \E i \in 1..BufferSize : x = t[i]
    <3>1. p - a \in 1..BufferSize /\ a + (p - a) = p
      BY <1>2, <2>1, <2>9
    <3>2. t[p - a] = s[a + (p - a)]
      BY <2>4, <3>1
    <3> QED BY <2>9, <3>1, <3>2
  <2> QED BY <1>1, <2>3, <2>4, <2>5, <2>7, <2>8, <2>9 DEF ToSet
<1>4. CASE ~ (n > BufferSize)
  <2>1. Trimmed(s) = s
    BY <1>1, <1>4 DEF Trimmed
  <2>2. \A p \in 1..n : n - p < BufferSize
    BY <1>2, <1>4
  <2> QED BY <1>1, <2>1, <2>2 DEF ToSet
<1> QED BY <1>3, <1>4

(* A message is stored: the expired ones go, then the oldest one too many. *)
LEMMA StoredOK ==
  ASSUME NEW B, NEW H, NEW x, NEW n, BufferOK(B, H, x, n),
         NEW C, C = Append(B, n + 1),
         NEW U, U = Picked(C, {i \in DOMAIN C : C[i] > x})
  PROVE  BufferOK(Trimmed(U), H \cup {n + 1}, x, n + 1)
<1>1. /\ n \in Nat /\ x \in 0..n /\ H \in SUBSET (1..n)
      /\ B \in Seq(Nat) /\ Strict(B) /\ ToSet(B) \subseteq Latest(H)
      /\ \A m \in Latest(H) : m > x => m \in ToSet(B)
      /\ n + 1 \in Nat /\ BufferSize \in Nat \ {0}
  BY HubAssumption DEF BufferOK
<1> DEFINE G == H \cup {n + 1}
<1>2. PICK b \in Nat : b = Len(B) /\ DOMAIN B = 1..b
  BY <1>1, LenProperties
<1>3. /\ C \in Seq(Nat) /\ DOMAIN C = 1..(b + 1) /\ C[b + 1] = n + 1
      /\ \A i \in 1..b : C[i] = B[i]
  <2>1. C \in Seq(Nat) /\ Len(C) = b + 1 /\ C[b + 1] = n + 1 /\ \A i \in 1..b : C[i] = B[i]
    BY <1>1, <1>2, AppendProperties
  <2> QED BY <2>1, LenProperties
<1>4. \A i \in 1..b : B[i] \in Latest(H) /\ B[i] \in Nat /\ B[i] <= n
  <2>1. \A i \in 1..b : B[i] \in Latest(H)
    BY <1>1, <1>2 DEF ToSet
  <2>2. Latest(H) \subseteq 1..n
    BY <1>1 DEF Latest
  <2> QED BY <1>1, <2>1, <2>2
<1>5. Strict(C)
  <2>1. ASSUME NEW i \in 1..(b + 1), NEW j \in 1..(b + 1), i < j PROVE C[i] < C[j]
    <3>1. i \in 1..b
      BY <2>1
    <3>2. CASE j \in 1..b
      BY <1>1, <1>2, <1>3, <2>1, <3>1, <3>2 DEF Strict
    <3>3. CASE j = b + 1
      BY <1>1, <1>3, <1>4, <3>1, <3>3
    <3>4. j \in 1..b \/ j = b + 1
      OBVIOUS
    <3> QED BY <3>2, <3>3, <3>4
  <2> QED BY <1>3, <2>1 DEF Strict
<1>6. \A m : m \in ToSet(C) <=> m \in ToSet(B) \/ m = n + 1
  <2>1. \A m : m \in ToSet(C) <=> \E i \in 1..(b + 1) : m = C[i]
    BY <1>3 DEF ToSet
  <2>2. \A m : m \in ToSet(B) <=> \E i \in 1..b : m = B[i]
    BY <1>2 DEF ToSet
  <2>3. b + 1 \in 1..(b + 1) /\ \A i \in 1..b : i \in 1..(b + 1)
    OBVIOUS
  <2>4. \A i \in 1..(b + 1) : i \in 1..b \/ i = b + 1
    OBVIOUS
  <2> QED BY ONLY <1>3, <2>1, <2>2, <2>3, <2>4
<1>7. /\ U \in Seq(Nat) /\ Strict(U)
      /\ \A m : m \in ToSet(U) <=> m \in ToSet(C) /\ m > x
  <2> DEFINE K == {m \in Nat : m > x}
             at == {i \in DOMAIN C : C[i] > x}
  <2>1. \A i \in DOMAIN C : i \in at <=> C[i] \in K
    BY <1>3
  <2>2. at \in SUBSET (DOMAIN C) /\ U = Picked(C, at)
    OBVIOUS
  <2>3. \A m : m \in ToSet(C) => m \in Nat
    BY <1>3 DEF ToSet
  <2>4. /\ U \in Seq(Nat) /\ Strict(U)
        /\ \A m : m \in ToSet(U) <=> m \in ToSet(C) /\ m \in K
    <3> HIDE DEF K, at
    <3> QED BY ONLY <1>3, <1>5, <2>1, <2>2, FilterStrict
  <2> QED BY <2>3, <2>4
<1>8. \A m : m \in ToSet(U) <=> m > x /\ (m \in Latest(H) \/ m = n + 1)
  BY <1>1, <1>6, <1>7
<1>9. G \in SUBSET (1..(n + 1)) /\ x \in 0..(n + 1)
  BY <1>1
<1>10. x \in Nat /\ \A k \in G : k \in Nat /\ k <= n + 1 /\ (k # n + 1 => k \in H)
  BY <1>1, <1>9
<1>11. PICK N \in Nat : N = Len(U) /\ DOMAIN U = 1..N
  BY <1>7, LenProperties
<1>12. ASSUME NEW p \in 1..N
       PROVE  /\ U[p] \in G /\ U[p] > x
              /\ U[p] \in Latest(G) <=> N - p < BufferSize
  <2>1. U[p] \in ToSet(U) /\ U[p] \in Nat
    <3>1. p \in DOMAIN U /\ U[p] \in Nat
      BY ONLY <1>7, <1>11, p \in 1..N
    <3> QED BY ONLY <3>1 DEF ToSet
  <2>2. U[p] > x /\ (U[p] \in Latest(H) \/ U[p] = n + 1)
    BY <1>8, <2>1
  <2>3. U[p] \in G
    BY <2>2 DEF Latest
  <2>4. {k \in G : k > U[p]} = {k \in ToSet(U) : k > U[p]}
    <3>1. ASSUME NEW k \in G, k > U[p] PROVE k \in ToSet(U)
      <4>1. k \in Nat /\ k > x
        <5>1. k \in Nat
          BY <1>10
        <5> QED BY ONLY <1>10, <2>1, <2>2, <3>1, <5>1
      <4>2. k \in Latest(H) \/ k = n + 1
        <5>1. CASE U[p] \in Latest(H)
          BY <1>1, <1>10, <3>1, <5>1, LatestGrows
        <5>2. CASE U[p] = n + 1
          <6>1. k \in Nat /\ k <= n + 1 /\ k > n + 1
            BY <1>10, <3>1, <5>2
          <6> QED BY ONLY <1>1, <6>1
        <5> QED BY <2>2, <5>1, <5>2
      <4> QED BY <1>8, <4>1, <4>2
    <3>2. ASSUME NEW k \in ToSet(U) PROVE k \in G
      BY <1>8 DEF Latest
    <3> QED BY <3>1, <3>2
  <2>5. Cardinality({k \in ToSet(U) : k > U[p]}) = N - p
    BY <1>7, <1>11, CountBehind
  <2>6. U[p] \in Latest(G) <=> Cardinality({k \in G : k > U[p]}) < BufferSize
    BY <2>3 DEF Latest
  <2> QED BY <2>2, <2>3, <2>4, <2>5, <2>6
<1>13. /\ Trimmed(U) \in Seq(Nat) /\ Strict(Trimmed(U))
       /\ \A m : m \in ToSet(Trimmed(U)) <=>
            \E p \in 1..N : m = U[p] /\ N - p < BufferSize
  BY <1>7, <1>11, TrimmedLast
<1>14. ToSet(Trimmed(U)) \subseteq Latest(G)
  <2> HIDE DEF G
  <2> QED BY <1>12, <1>13
<1>15. ASSUME NEW m \in Latest(G), m > x PROVE m \in ToSet(Trimmed(U))
  <2>1. m = n + 1 \/ m \in Latest(H)
    BY <1>1, LatestGrows
  <2>2. m \in ToSet(U)
    BY <1>8, <1>15, <2>1
  <2>3. PICK p \in 1..N : m = U[p]
    BY <1>11, <2>2 DEF ToSet
  <2> HIDE DEF G
  <2> QED BY <1>12, <1>13, <2>3
<1> HIDE DEF G
<1>16. BufferOK(Trimmed(U), G, x, n + 1)
  BY <1>1, <1>9, <1>13, <1>14, <1>15 DEF BufferOK
<1> QED BY <1>16 DEF G

ReplayInv ==
  /\ DOMAIN sequence = Topics /\ DOMAIN buffer = Topics
  /\ DOMAIN expired = Topics /\ DOMAIN heard = Topics
  /\ \A t \in Topics : /\ sequence[t] <= MaxBroadcasts
                       /\ BufferOK(buffer[t], heard[t], expired[t], sequence[t])

LEMMA BroadcastKeepsReplay ==
  ASSUME ReplayInv, NEW t \in Topics, NEW failing, Broadcast(t, failing)
  PROVE  ReplayInv'
<1> DEFINE n == sequence[t] + 1
           C == Append(buffer[t], n)
           U == Unexpired(t, C)
<1>1. /\ sequence[t] \in Nat /\ sequence[t] < MaxBroadcasts /\ MaxBroadcasts \in Nat
      /\ BufferOK(buffer[t], heard[t], expired[t], sequence[t])
  BY HubAssumption DEF ReplayInv, BufferOK, Broadcast
<1>2. /\ sequence' = [sequence EXCEPT ![t] = n] /\ expired' = expired
      /\ \/ UNCHANGED <<buffer, heard>>
         \/ /\ buffer' = [buffer EXCEPT ![t] = Trimmed(U)]
            /\ heard' = [heard EXCEPT ![t] = @ \cup {n}]
  BY DEF Broadcast
<1>3. /\ DOMAIN sequence' = Topics /\ DOMAIN buffer' = Topics
      /\ DOMAIN expired' = Topics /\ DOMAIN heard' = Topics
      /\ sequence'[t] = n /\ expired'[t] = expired[t]
      /\ \/ buffer'[t] = buffer[t] /\ heard'[t] = heard[t]
         \/ buffer'[t] = Trimmed(U) /\ heard'[t] = heard[t] \cup {n}
      /\ \A u \in Topics : u # t => /\ sequence'[u] = sequence[u] /\ buffer'[u] = buffer[u]
                                   /\ expired'[u] = expired[u] /\ heard'[u] = heard[u]
  <2> HIDE DEF n, U, C
  <2> QED BY <1>2 DEF ReplayInv
<1>4. BufferOK(Trimmed(U), heard[t] \cup {n}, expired[t], n)
  <2>1. U = Picked(C, {i \in DOMAIN C : C[i] > expired[t]})
    BY DEF Unexpired
  <2> HIDE DEF U
  <2> QED BY <1>1, <2>1, StoredOK
<1>5. BufferOK(buffer[t], heard[t], expired[t], n)
  BY <1>1 DEF BufferOK
<1>6. n <= MaxBroadcasts
  BY <1>1
<1>7. ASSUME NEW u \in Topics
      PROVE  sequence'[u] <= MaxBroadcasts /\ BufferOK(buffer'[u], heard'[u], expired'[u], sequence'[u])
  <2> HIDE DEF n, U, C
  <2>1. CASE u = t
    BY <1>3, <1>4, <1>5, <1>6, <2>1
  <2>2. CASE u # t
    BY <1>3, <2>2 DEF ReplayInv
  <2> QED BY <2>1, <2>2
<1> QED BY <1>3, <1>7 DEF ReplayInv

LEMMA AgesKeepsReplay ==
  ASSUME ReplayInv, NEW t \in Topics, Ages(t)
  PROVE  ReplayInv'
<1>1. /\ expired[t] < sequence[t] /\ expired' = [expired EXCEPT ![t] = @ + 1]
      /\ UNCHANGED <<sequence, buffer, heard>>
  BY DEF Ages
<1>2. BufferOK(buffer[t], heard[t], expired[t], sequence[t])
  BY DEF ReplayInv
<1>3. BufferOK(buffer[t], heard[t], expired[t] + 1, sequence[t])
  <2>1. expired[t] + 1 \in 0..sequence[t] /\ expired[t] \in Nat
    BY <1>1, <1>2 DEF BufferOK
  <2>2. \A m \in Latest(heard[t]) : m > expired[t] + 1 => m > expired[t]
    <3>1. \A m \in Latest(heard[t]) : m \in Nat
      BY <1>2 DEF BufferOK, Latest
    <3> QED BY <2>1, <3>1
  <2> QED BY <1>2, <2>1, <2>2 DEF BufferOK
<1>4. /\ DOMAIN expired' = Topics /\ expired'[t] = expired[t] + 1
      /\ \A u \in Topics : u # t => expired'[u] = expired[u]
  BY <1>1 DEF ReplayInv
<1>5. ASSUME NEW u \in Topics
      PROVE  sequence'[u] <= MaxBroadcasts /\ BufferOK(buffer'[u], heard'[u], expired'[u], sequence'[u])
  <2>1. CASE u = t
    BY <1>1, <1>3, <1>4, <2>1 DEF ReplayInv
  <2>2. CASE u # t
    BY <1>1, <1>4, <2>2 DEF ReplayInv
  <2> QED BY <2>1, <2>2
<1> QED BY <1>1, <1>4, <1>5 DEF ReplayInv

LEMMA ReplayInvNext == ReplayInv /\ [HubNext]_hubVars => ReplayInv'
<1> SUFFICES ASSUME ReplayInv, [HubNext]_hubVars PROVE ReplayInv'
  OBVIOUS
<1>1. CASE UNCHANGED storeVars
  BY <1>1 DEF storeVars, ReplayInv
<1>2. CASE UNCHANGED hubVars
  BY <1>1, <1>2 DEF hubVars, storeVars
<1>3. ASSUME NEW s \in Sockets,
             \/ Connection(s) \/ StopsBeingReady(s) \/ SocketCloses(s)
             \/ \E t \in Topics : Subscribe(s, t) \/ Unsubscribe(s, t)
      PROVE  ReplayInv'
  BY <1>1, <1>3 DEF Connection, StopsBeingReady, SocketCloses, Subscribe, Unsubscribe
<1>4. ASSUME NEW t \in Topics, NEW failing, Broadcast(t, failing) PROVE ReplayInv'
  BY <1>4, BroadcastKeepsReplay
<1>5. ASSUME NEW t \in Topics, Ages(t) PROVE ReplayInv'
  BY <1>5, AgesKeepsReplay
<1>6. ASSUME NEW t \in Topics, NEW failing, RemoteBroadcast(t, failing) PROVE ReplayInv'
  BY <1>1, <1>6 DEF RemoteBroadcast
<1> QED BY <1>2, <1>3, <1>4, <1>5, <1>6 DEF HubNext, HubStep

LEMMA ReplayInvInit == HubInit => ReplayInv
<1> SUFFICES ASSUME HubInit PROVE ReplayInv
  OBVIOUS
<1>1. <<>> \in Seq(Nat) /\ DOMAIN <<>> = {} /\ 0 \in 0..0 /\ MaxBroadcasts \in Nat
  BY HubAssumption
<1>2. BufferOK(<<>>, {}, 0, 0)
  BY <1>1 DEF BufferOK, Strict, ToSet, Latest
<1> QED BY <1>1, <1>2 DEF HubInit, ReplayInv

(* What the invariant says of the buffer, the filters of a replay make exact. *)
LEMMA ReplaySuffices == ReplayInv => ReplayExact
<1> SUFFICES ASSUME ReplayInv, NEW t \in Topics
             PROVE  LET replay == Replay(t, 1, MaxBroadcasts)
                    IN  /\ ToSet(replay) = {n \in Latest(heard[t]) : n > expired[t]}
                        /\ \A i, j \in DOMAIN replay : i < j => replay[i] < replay[j]
  BY DEF ReplayExact, Latest
<1> DEFINE B == buffer[t]
           x == expired[t]
           live == Unexpired(t, B)
           replay == Replay(t, 1, MaxBroadcasts)
           Young == {m \in Nat : m > x}
           Known == {m \in Nat : 1 <= m /\ m <= MaxBroadcasts}
<1>1. /\ BufferOK(B, heard[t], x, sequence[t]) /\ sequence[t] <= MaxBroadcasts
      /\ MaxBroadcasts \in Nat
  BY HubAssumption DEF ReplayInv
<1>2. B \in Seq(Nat) /\ Strict(B) /\ \A i \in DOMAIN B : B[i] \in Nat
  BY <1>1 DEF BufferOK
<1>3. /\ live \in Seq(Nat) /\ Strict(live)
      /\ \A m : m \in ToSet(live) <=> m \in ToSet(B) /\ m \in Young
  <2> DEFINE at == {i \in DOMAIN B : B[i] > x}
  <2>1. at \in SUBSET (DOMAIN B) /\ \A i \in DOMAIN B : i \in at <=> B[i] \in Young
    BY <1>2
  <2>2. live = Picked(B, at)
    BY DEF Unexpired
  <2> HIDE DEF Young, at, live, B
  <2> QED BY ONLY <1>2, <2>1, <2>2, FilterStrict
<1>4. /\ replay \in Seq(Nat) /\ Strict(replay)
      /\ \A m : m \in ToSet(replay) <=> m \in ToSet(live) /\ m \in Known
  <2> DEFINE at == {i \in DOMAIN live : 1 <= live[i] /\ live[i] <= MaxBroadcasts}
  <2>1. replay = Picked(live, at)
    BY DEF Replay
  <2> HIDE DEF live, replay
  <2>2. at \in SUBSET (DOMAIN live) /\ \A i \in DOMAIN live : i \in at <=> live[i] \in Known
    BY <1>3
  <2> HIDE DEF Known, at
  <2> QED BY ONLY <1>3, <2>1, <2>2, FilterStrict
<1>5. ASSUME NEW m
      PROVE  m \in ToSet(replay) <=> m \in Latest(heard[t]) /\ m > x
  <2>1. m \in Latest(heard[t]) => m \in Nat /\ 1 <= m /\ m <= MaxBroadcasts
    BY <1>1 DEF BufferOK, Latest
  <2>2. m \in ToSet(B) => m \in Latest(heard[t])
    BY <1>1 DEF BufferOK
  <2>3. m \in Latest(heard[t]) /\ m > x => m \in ToSet(B)
    BY <1>1 DEF BufferOK
  <2> HIDE DEF B, live, replay
  <2> QED BY <1>3, <1>4, <2>1, <2>2, <2>3
<1> HIDE DEF replay
<1>6. \A i, j \in DOMAIN replay : i < j => replay[i] < replay[j]
  BY <1>4 DEF Strict
<1>7. ToSet(replay) = {n \in Latest(heard[t]) : n > x}
  BY <1>5
<1> QED BY <1>6, <1>7 DEF replay

(* A replay is the latest messages of a topic that had a subscriber and    *)
(* are not too old, all of them and in order, whatever the sizes, ages and *)
(* gaps in the numbers.                                                    *)
THEOREM ReplaysAreExact == HubSpec => []ReplayExact
BY ReplayInvInit, ReplayInvNext, ReplaySuffices, PTL DEF HubSpec

-----------------------------------------------------------------------------
(* The hub's types. *)

Members ==
  /\ clients \subseteq Sockets /\ ready \subseteq Sockets
  /\ sequence = [t \in Topics |-> sequence[t]] /\ expired = [t \in Topics |-> expired[t]]
  /\ buffer = [t \in Topics |-> buffer[t]] /\ heard = [t \in Topics |-> heard[t]]

LEMMA MembersInit == HubInit => Members
BY DEF HubInit, Members

LEMMA MembersNext == Members /\ [HubNext]_hubVars => Members'
<1> SUFFICES ASSUME Members, [HubNext]_hubVars PROVE Members'
  OBVIOUS
<1>1. ASSUME NEW s \in Sockets,
             \/ Connection(s) \/ StopsBeingReady(s) \/ SocketCloses(s)
             \/ \E t \in Topics : Subscribe(s, t) \/ Unsubscribe(s, t)
      PROVE  Members'
  <2>1. UNCHANGED <<sequence, expired, buffer, heard>>
    BY <1>1 DEF Connection, StopsBeingReady, SocketCloses, Subscribe, Unsubscribe, storeVars
  <2>2. clients' \subseteq Sockets /\ ready' \subseteq Sockets
    BY <1>1 DEF Connection, StopsBeingReady, SocketCloses, HandleDisconnect, Subscribe,
                Unsubscribe, Members
  <2> QED BY <2>1, <2>2 DEF Members
<1>2. ASSUME NEW t \in Topics, NEW failing, Broadcast(t, failing) PROVE Members'
  <2>1. clients' \subseteq Sockets /\ ready' \subseteq Sockets /\ UNCHANGED expired
    BY <1>2 DEF Broadcast, HandleDisconnect, Members
  <2>2. sequence' = [u \in Topics |-> sequence'[u]]
    BY <1>2 DEF Broadcast, Members
  <2>3. buffer' = [u \in Topics |-> buffer'[u]] /\ heard' = [u \in Topics |-> heard'[u]]
    BY <1>2 DEF Broadcast, Members
  <2> QED BY <2>1, <2>2, <2>3 DEF Members
<1>3. ASSUME NEW t \in Topics, Ages(t) PROVE Members'
  BY <1>3 DEF Ages, Members
<1>4. CASE UNCHANGED hubVars
  BY <1>4 DEF hubVars, Members
<1>5. ASSUME NEW t \in Topics, NEW failing, RemoteBroadcast(t, failing) PROVE Members'
  BY <1>5 DEF RemoteBroadcast, HandleDisconnect, storeVars, Members
<1> QED BY <1>1, <1>2, <1>3, <1>4, <1>5 DEF HubNext, HubStep

(* A buffer is never longer than its size, expired messages included. *)
LEMMA BufferFits ==
  ASSUME NEW B, NEW H, NEW x, NEW n, BufferOK(B, H, x, n)
  PROVE  Len(B) <= BufferSize
<1>1. B \in Seq(Nat) /\ Strict(B) /\ n \in Nat /\ H \in SUBSET (1..n)
  BY DEF BufferOK
<1>2. Len(B) \in Nat /\ DOMAIN B = 1..Len(B) /\ BufferSize \in Nat \ {0}
  BY <1>1, LenProperties, HubAssumption
<1>3. CASE Len(B) = 0
  BY <1>2, <1>3
<1>4. CASE Len(B) # 0
  <2>1. 1 \in 1..Len(B) /\ B[1] \in ToSet(B)
    BY <1>2, <1>4 DEF ToSet
  <2> DEFINE behind == {k \in ToSet(B) : k > B[1]}
             above == {k \in H : k > B[1]}
  <2>2. Cardinality(behind) = Len(B) - 1
    BY <1>1, <2>1, CountBehind
  <2>3. ToSet(B) \subseteq Latest(H) /\ Latest(H) \subseteq H
    BY DEF BufferOK, Latest
  <2>4. behind \in SUBSET above
    BY <2>3
  <2>5. Cardinality(above) < BufferSize
    BY <2>1, <2>3 DEF Latest
  <2> HIDE DEF behind, above
  <2>6. IsFiniteSet(above)
    BY <1>1, AboveFinite DEF above
  <2>7. Cardinality(behind) <= Cardinality(above) /\ Cardinality(above) \in Nat
    BY <2>4, <2>6, FS_Subset, FS_CardinalityType
  <2> QED BY ONLY <1>2, <2>2, <2>5, <2>7
<1> QED BY <1>3, <1>4

LEMMA HubWellTyped == HubInv /\ ReplayInv /\ Members => HubTypeOK
<1> SUFFICES ASSUME HubInv, ReplayInv, Members PROVE HubTypeOK
  OBVIOUS
<1>1. ASSUME NEW t \in Topics
      PROVE  /\ sequence[t] \in Seqs /\ expired[t] \in Seqs /\ heard[t] \subseteq Seqs
             /\ buffer[t] \in Seq(Seqs) /\ Len(buffer[t]) <= BufferSize
  <2>1. /\ BufferOK(buffer[t], heard[t], expired[t], sequence[t])
        /\ sequence[t] <= MaxBroadcasts
    BY DEF ReplayInv
  <2>2. /\ sequence[t] \in Nat /\ expired[t] \in 0..sequence[t]
        /\ heard[t] \subseteq 1..sequence[t] /\ buffer[t] \in Seq(Nat)
        /\ ToSet(buffer[t]) \subseteq Latest(heard[t])
    BY <2>1 DEF BufferOK
  <2>3. \A k \in 0..sequence[t] : k \in Seqs
    BY <2>1, <2>2, HubAssumption DEF Seqs
  <2>4. heard[t] \subseteq Seqs /\ sequence[t] \in Seqs
    BY <2>2, <2>3
  <2>5. \A i \in DOMAIN buffer[t] : buffer[t][i] \in Seqs
    BY <2>2, <2>4 DEF ToSet, Latest
  <2>6. buffer[t] \in Seq(Seqs)
    BY <2>2, <2>5
  <2> QED BY <2>1, <2>2, <2>3, <2>4, <2>6, BufferFits
<1>3. /\ sequence \in [Topics -> Seqs] /\ expired \in [Topics -> Seqs]
      /\ buffer \in [Topics -> Seq(Seqs)] /\ heard \in [Topics -> SUBSET Seqs]
  BY <1>1 DEF Members
<1> QED BY <1>1, <1>3 DEF HubInv, BookTypes, Members, HubTypeOK

-----------------------------------------------------------------------------
(* The hook: types, and the timers, sockets and topics it can have. *)

(* SetToSeq gives each element of a finite set a place. *)
LEMMA SetToSeqIs ==
  ASSUME NEW S, IsFiniteSet(S)
  PROVE  /\ SetToSeq(S) \in Seq(S)
         /\ \A x \in S : \E i \in DOMAIN SetToSeq(S) : SetToSeq(S)[i] = x
<1> DEFINE n == Cardinality(S)
<1>1. n \in Nat /\ ExistsBijection(1..n, S)
  BY FS_NatBijection, FS_CardinalityType
<1>2. PICK b : b \in Bijection(1..n, S)
  BY <1>1 DEF ExistsBijection
<1>3. b \in [1..n -> S] /\ IsInjective(b)
  BY <1>2 DEF Bijection, Injection, IsInjective
<1>4. SetToSeq(S) \in [1..n -> S] /\ IsInjective(SetToSeq(S))
  <2> HIDE DEF n
  <2>1. \E f \in [1..n -> S] : IsInjective(f)
    BY <1>3
  <2>2. SetToSeq(S) = CHOOSE f \in [1..n -> S] : IsInjective(f)
    BY DEF SetToSeq, n
  <2> QED BY <2>1, <2>2
<1> DEFINE q == SetToSeq(S)
<1> HIDE DEF q
<1>5. q \in Injection(1..n, S)
  BY <1>4 DEF Injection, IsInjective, q
<1>6. IsFiniteSet(1..n) /\ Cardinality(1..n) = n
  <2>1. 1 \in Int /\ n \in Int /\ (1 > n => n = 0) /\ (1 <= n => (n - 1) + 1 = n)
    BY <1>1
  <2> QED BY <2>1, FS_Interval
<1>7. q \in Surjection(1..n, S)
  BY <1>5, <1>6, FS_Injection
<1>8. q \in Seq(S) /\ DOMAIN q = 1..n
  BY <1>1, <1>4 DEF q
<1>9. \A x \in S : \E i \in 1..n : q[i] = x
  BY <1>7 DEF Surjection
<1> QED BY <1>8, <1>9 DEF q

SocketStates == {"connecting", "open", "closing", "closed"}
Closed(socks) == {s \in DOMAIN socks : socks[s] = "closed"}

(* The reference names a socket that is not over. *)
RefOK(socks, ref) ==
  /\ socks \in Seq(SocketStates) /\ Len(socks) <= MaxSockets
  /\ ref \in 0..Len(socks)
  /\ ref # 0 => socks[ref] # "closed"

(* Every timer was set by the close event of a socket of its own. *)
TimersOK(socks, n, one) ==
  /\ n \in Nat /\ n <= Cardinality(Closed(socks))
  /\ one \in BOOLEAN /\ (one => n > 0)

Message == [action : {"subscribe", "unsubscribe"}, topic : AssetTopics]

TopicsOK ==
  /\ topics \subseteq AssetTopics /\ IsFiniteSet(topics)
  /\ shown \in AssetTopics
  /\ effect \in [connected : BOOLEAN, topic : AssetTopics]
  /\ mail \in [1..MaxSockets -> Seq(Message)]

FlagsOK ==
  /\ active \in BOOLEAN /\ manual \in BOOLEAN /\ connected \in BOOLEAN
  /\ superseded \in BOOLEAN /\ refused \in BOOLEAN
  /\ disturbances \in 0..MaxDisturbances

BrowserInv ==
  /\ RefOK(sock, wsRef)
  /\ TimersOK(sock, timers, tracked)
  /\ TopicsOK /\ FlagsOK

LEMMA ClosedFinite ==
  ASSUME NEW socks \in Seq(SocketStates)
  PROVE  IsFiniteSet(Closed(socks)) /\ Cardinality(Closed(socks)) \in 0..Len(socks)
<1>1. Len(socks) \in Nat /\ DOMAIN socks = 1..Len(socks) /\ 1 \in Int /\ Len(socks) \in Int
  OBVIOUS
<1>2. IsFiniteSet(1..Len(socks)) /\ Cardinality(1..Len(socks)) = Len(socks)
  <2>1. (1 > Len(socks) => Len(socks) = 0) /\ (1 <= Len(socks) => (Len(socks) - 1) + 1 = Len(socks))
    BY <1>1
  <2> QED BY <1>1, <2>1, FS_Interval
<1>3. Closed(socks) \in SUBSET (1..Len(socks))
  BY <1>1 DEF Closed
<1>4. IsFiniteSet(Closed(socks)) /\ Cardinality(Closed(socks)) <= Len(socks)
  BY ONLY <1>2, <1>3, FS_Subset
<1>5. Cardinality(Closed(socks)) \in Nat
  BY <1>4, FS_CardinalityType
<1> QED BY <1>1, <1>4, <1>5

LEMMA BrowserWellTyped == BrowserInv => BrowserTypeOK
<1> SUFFICES ASSUME BrowserInv PROVE BrowserTypeOK
  OBVIOUS
<1>1. Cardinality(Closed(sock)) \in 0..Len(sock)
  BY ClosedFinite DEF BrowserInv, RefOK
<1>2. timers \in 0..MaxSockets
  BY <1>1, BrowserAssumption DEF BrowserInv, RefOK, TimersOK
<1> QED BY <1>2 DEF BrowserInv, RefOK, TimersOK, TopicsOK, FlagsOK, BrowserTypeOK,
                   SocketStates, Message

(* A socket that opens, closes or begins to close. *)
LEMMA OneSocketMoves ==
  ASSUME NEW socks, NEW ref, RefOK(socks, ref), NEW s \in DOMAIN socks, socks[s] # "closed",
         NEW state \in SocketStates \ {"closed"}
  PROVE  LET q == [socks EXCEPT ![s] = state]
         IN  q \in Seq(SocketStates) /\ Len(q) = Len(socks) /\ Closed(q) = Closed(socks)
             /\ RefOK(q, ref) /\ RefOK(q, 0)
<1> DEFINE q == [socks EXCEPT ![s] = state]
<1>1. q \in Seq(SocketStates) /\ Len(q) = Len(socks) /\ DOMAIN q = DOMAIN socks
  BY DEF RefOK
<1>2. \A i \in DOMAIN socks : q[i] = IF i = s THEN state ELSE socks[i]
  BY DEF RefOK
<1> HIDE DEF q
<1>3. Closed(q) = Closed(socks)
  BY <1>1, <1>2 DEF Closed
<1>4. RefOK(q, ref) /\ RefOK(q, 0)
  BY <1>1, <1>2 DEF RefOK
<1> QED BY <1>1, <1>3, <1>4 DEF q

LEMMA ClosingKeeps ==
  ASSUME RefOK(sock, wsRef)
  PROVE  Closing \in Seq(SocketStates) /\ Len(Closing) = Len(sock)
         /\ Closed(Closing) = Closed(sock) /\ RefOK(Closing, 0)
<1>1. CASE wsRef = 0
  BY <1>1 DEF Closing, RefOK
<1>2. CASE wsRef # 0
  <2>1. wsRef \in DOMAIN sock /\ sock[wsRef] # "closed"
    BY <1>2 DEF RefOK
  <2>2. "closing" \in SocketStates \ {"closed"}
    BY DEF SocketStates
  <2>3. Closing = [sock EXCEPT ![wsRef] = "closing"]
    BY <1>2 DEF Closing
  <2> QED BY <2>1, <2>2, <2>3, OneSocketMoves
<1> QED BY <1>1, <1>2

LEMMA MakeSocketKeeps ==
  ASSUME NEW socks, RefOK(socks, 0), MakeSocket(socks)
  PROVE  RefOK(sock', wsRef') /\ Closed(sock') = Closed(socks)
<1>1. socks \in Seq(SocketStates) /\ Len(socks) \in Nat /\ DOMAIN socks = 1..Len(socks)
  BY DEF RefOK
<1>2. sock' = Append(socks, "connecting") /\ wsRef' = Len(socks) + 1 /\ Len(socks) < MaxSockets
  BY DEF MakeSocket
<1>3. "connecting" \in SocketStates
  BY DEF SocketStates
<1>4. /\ sock' \in Seq(SocketStates) /\ Len(sock') = Len(socks) + 1
      /\ DOMAIN sock' = 1..(Len(socks) + 1)
      /\ \A i \in DOMAIN sock' : sock'[i] = IF i = Len(socks) + 1 THEN "connecting" ELSE socks[i]
  BY <1>1, <1>2, <1>3, AppendProperties
<1>5. Closed(sock') = Closed(socks)
  BY <1>1, <1>4 DEF Closed
<1>6. RefOK(sock', wsRef')
  BY <1>1, <1>2, <1>4, BrowserAssumption DEF RefOK
<1> QED BY <1>5, <1>6

LEMMA ClearTimerKeeps ==
  ASSUME TimersOK(sock, timers, tracked), RefOK(sock, wsRef), ClearTimer
  PROVE  TimersOK(sock, timers', tracked')
<1>1. Cardinality(Closed(sock)) \in Nat
  BY ClosedFinite DEF RefOK
<1>2. CASE tracked
  <2>1. timers' = timers - 1 /\ tracked' = FALSE
    BY <1>2 DEF ClearTimer
  <2>2. timers \in Nat /\ timers > 0 /\ timers <= Cardinality(Closed(sock))
    BY <1>2 DEF TimersOK
  <2>3. timers' \in Nat /\ timers' <= Cardinality(Closed(sock))
    BY ONLY <1>1, <2>1, <2>2
  <2> QED BY <2>1, <2>3 DEF TimersOK
<1>3. CASE ~tracked
  <2>1. timers' = timers /\ tracked' = FALSE
    BY <1>3 DEF ClearTimer
  <2> QED BY <2>1 DEF TimersOK
<1> QED BY <1>2, <1>3

(* Only the number of closed sockets matters to the timers. *)
LEMMA SameTimers ==
  ASSUME NEW p, NEW q, Closed(p) = Closed(q), NEW n, NEW one, TimersOK(p, n, one)
  PROVE  TimersOK(q, n, one)
BY DEF TimersOK

LEMMA MailKeeps ==
  ASSUME NEW box \in [1..MaxSockets -> Seq(Message)], NEW s \in 1..MaxSockets,
         NEW q \in Seq(Message)
  PROVE  [box EXCEPT ![s] = @ \o q] \in [1..MaxSockets -> Seq(Message)]
<1>1. box[s] \o q \in Seq(Message)
  OBVIOUS
<1> HIDE DEF Message
<1> QED BY <1>1

LEMMA ActivateKeeps ==
  ASSUME BrowserInv, Activate
  PROVE  BrowserInv'
<1>1. CASE wsRef = 0
  <2>1. MakeSocket(sock) /\ effect' = TopicDeps
    BY <1>1 DEF Activate
  <2>2. RefOK(sock, 0)
    BY <1>1 DEF BrowserInv
  <2>3. RefOK(sock', wsRef') /\ Closed(sock') = Closed(sock)
    BY <2>1, <2>2, MakeSocketKeeps
  <2>4. TimersOK(sock', timers', tracked')
    <3>1. UNCHANGED <<timers, tracked>>
      BY DEF Activate
    <3> QED BY <2>3, <3>1, SameTimers DEF BrowserInv
  <2>5. TopicsOK' /\ FlagsOK'
    BY <2>1, <1>1 DEF Activate, TopicDeps, TopicsOK, FlagsOK, BrowserInv, MakeSocket
  <2> QED BY <2>3, <2>4, <2>5 DEF BrowserInv
<1>2. CASE wsRef # 0
  <2>1. UNCHANGED <<sock, wsRef, timers, tracked>>
    BY <1>2 DEF Activate
  <2>2. TopicsOK' /\ FlagsOK'
    BY <1>2 DEF Activate, TopicsOK, FlagsOK, BrowserInv
  <2> QED BY <2>1, <2>2 DEF BrowserInv
<1> QED BY <1>1, <1>2

LEMMA DisturbKeeps ==
  ASSUME FlagsOK, Disturb
  PROVE  disturbances' \in 0..MaxDisturbances
BY BrowserAssumption DEF FlagsOK, Disturb

LEMMA DeactivateKeeps ==
  ASSUME BrowserInv, Deactivate
  PROVE  BrowserInv'
<1>1. /\ sock' = Closing /\ wsRef' = 0 /\ ClearTimer
  BY DEF Deactivate
<1>2. RefOK(sock', wsRef') /\ Closed(sock') = Closed(sock)
  BY <1>1, ClosingKeeps DEF BrowserInv
<1>3. TimersOK(sock', timers', tracked')
  BY <1>1, <1>2, ClearTimerKeeps, SameTimers DEF BrowserInv
<1>4. TopicsOK' /\ FlagsOK'
  BY DisturbKeeps DEF Deactivate, TopicDeps, TopicsOK, FlagsOK, BrowserInv
<1> QED BY <1>2, <1>3, <1>4 DEF BrowserInv

LEMMA RerunKeeps ==
  ASSUME BrowserInv, Rerun
  PROVE  BrowserInv'
<1>1. MakeSocket(Closing) /\ ClearTimer
  BY DEF Rerun
<1>2. RefOK(sock', wsRef') /\ Closed(sock') = Closed(sock)
  BY <1>1, ClosingKeeps, MakeSocketKeeps DEF BrowserInv
<1>3. TimersOK(sock', timers', tracked')
  BY <1>1, <1>2, ClearTimerKeeps, SameTimers DEF BrowserInv
<1>4. superseded' \in BOOLEAN
  BY <1>1 DEF MakeSocket, BrowserInv, FlagsOK
<1>5. TopicsOK' /\ FlagsOK'
  BY <1>4, DisturbKeeps DEF Rerun, TopicDeps, TopicsOK, FlagsOK, BrowserInv
<1> QED BY <1>2, <1>3, <1>5 DEF BrowserInv

LEMMA DisconnectPageKeeps ==
  ASSUME BrowserInv, Disconnect
  PROVE  BrowserInv'
<1>1. /\ sock' = Closing /\ wsRef' = 0 /\ ClearTimer
  BY DEF Disconnect
<1>2. RefOK(sock', wsRef') /\ Closed(sock') = Closed(sock)
  BY <1>1, ClosingKeeps DEF BrowserInv
<1>3. TimersOK(sock', timers', tracked')
  BY <1>1, <1>2, ClearTimerKeeps, SameTimers DEF BrowserInv
<1>4. TopicsOK' /\ FlagsOK'
  BY DisturbKeeps, FS_EmptySet DEF Disconnect, TopicsOK, FlagsOK, BrowserInv
<1> QED BY <1>2, <1>3, <1>4 DEF BrowserInv

(* What is sent again is a subscription per topic, each once. *)
LEMMA ResubscriptionIs ==
  ASSUME TopicsOK
  PROVE  LET subs == {[action |-> "subscribe", topic |-> t] : t \in topics}
             q == SetToSeq(subs)
         IN  /\ q \in Seq(Message)
             /\ \A i \in DOMAIN q : q[i].action = "subscribe" /\ q[i].topic \in topics
             /\ \A t \in topics : \E i \in DOMAIN q : q[i].topic = t
<1> DEFINE subs == {[action |-> "subscribe", topic |-> t] : t \in topics}
           q == SetToSeq(subs)
           f == [t \in topics |-> [action |-> "subscribe", topic |-> t]]
<1>1. IsFiniteSet(subs)
  <2>1. f \in Surjection(topics, subs)
    BY DEF Surjection
  <2> QED BY <2>1, FS_Surjection DEF TopicsOK
<1>2. q \in Seq(subs) /\ \A x \in subs : \E i \in DOMAIN q : q[i] = x
  BY <1>1, SetToSeqIs
<1>3. subs \subseteq Message
  BY DEF TopicsOK, Message
<1>4. \A t \in topics : [action |-> "subscribe", topic |-> t] \in subs
  OBVIOUS
<1>5. \A x \in subs : x.action = "subscribe" /\ x.topic \in topics
  OBVIOUS
<1> HIDE DEF subs, q
<1>6. \A i \in DOMAIN q : q[i] \in subs
  BY <1>2
<1>7. q \in Seq(Message)
  BY <1>2, <1>3
<1>8. ASSUME NEW t \in topics PROVE \E i \in DOMAIN q : q[i].topic = t
  <2>1. PICK i \in DOMAIN q : q[i] = [action |-> "subscribe", topic |-> t]
    BY <1>2, <1>4
  <2> QED BY <2>1
<1> QED BY <1>5, <1>6, <1>7, <1>8 DEF q, subs

LEMMA OpensKeeps ==
  ASSUME BrowserInv, NEW s, Opens(s)
  PROVE  BrowserInv'
<1>1. s \in DOMAIN sock /\ sock[s] = "connecting" /\ sock' = [sock EXCEPT ![s] = "open"]
      /\ UNCHANGED <<wsRef, timers, tracked>>
  BY DEF Opens
<1>2. "open" \in SocketStates \ {"closed"}
  BY DEF SocketStates
<1>3. RefOK(sock', wsRef') /\ Closed(sock') = Closed(sock)
  BY <1>1, <1>2, OneSocketMoves DEF BrowserInv
<1>4. TimersOK(sock', timers', tracked')
  BY <1>1, <1>3, SameTimers DEF BrowserInv
<1>5. mail' \in [1..MaxSockets -> Seq(Message)]
  <2>1. CASE OpenRef(sock')
    <3> DEFINE q == SetToSeq({[action |-> "subscribe", topic |-> t] : t \in topics})
    <3>1. mail' = [mail EXCEPT ![wsRef] = @ \o q]
      BY <2>1 DEF Opens, Resubscribe
    <3>2. q \in Seq(Message)
      BY ResubscriptionIs DEF BrowserInv
    <3> HIDE DEF q
    <3>3. wsRef \in 1..MaxSockets
      BY <2>1, BrowserAssumption DEF OpenRef, BrowserInv, RefOK
    <3> QED BY <3>1, <3>2, <3>3, MailKeeps DEF BrowserInv, TopicsOK
  <2>2. CASE ~OpenRef(sock')
    BY <2>2 DEF Opens, Resubscribe, BrowserInv, TopicsOK
  <2> QED BY <2>1, <2>2
<1>6. TopicsOK' /\ FlagsOK'
  <2>1. TopicsOK'
    BY <1>5 DEF Opens, TopicsOK, BrowserInv
  <2>2. FlagsOK'
    BY DEF Opens, FlagsOK, BrowserInv
  <2> QED BY <2>1, <2>2
<1> QED BY <1>3, <1>4, <1>6 DEF BrowserInv

LEMMA DropKeeps ==
  ASSUME BrowserInv, NEW s, Drop(s)
  PROVE  BrowserInv'
<1>1. /\ s \in DOMAIN sock /\ sock[s] # "closed" /\ sock' = [sock EXCEPT ![s] = "closing"]
      /\ UNCHANGED <<wsRef, timers, tracked>>
  BY DEF Drop
<1>2. "closing" \in SocketStates \ {"closed"}
  BY DEF SocketStates
<1>3. RefOK(sock', wsRef') /\ Closed(sock') = Closed(sock)
  BY <1>1, <1>2, OneSocketMoves DEF BrowserInv
<1>4. TimersOK(sock', timers', tracked')
  BY <1>1, <1>3, SameTimers DEF BrowserInv
<1>5. mail' \in [1..MaxSockets -> Seq(Message)]
  <2>1. mail' = [mail EXCEPT ![s] = <<>>] /\ <<>> \in Seq(Message)
    BY DEF Drop
  <2> QED BY <2>1 DEF BrowserInv, TopicsOK
<1>6. TopicsOK' /\ FlagsOK'
  BY <1>5, DisturbKeeps DEF Drop, TopicsOK, FlagsOK, BrowserInv
<1> QED BY <1>3, <1>4, <1>6 DEF BrowserInv

(* A close event closes one socket more, and may set one timer more. *)
LEMMA OnCloseKeeps ==
  ASSUME BrowserInv, NEW s, OnClose(s)
  PROVE  BrowserInv'
<1>1. /\ s \in DOMAIN sock /\ sock[s] = "closing" /\ sock' = [sock EXCEPT ![s] = "closed"]
      /\ wsRef' = 0
  BY DEF OnClose
<1>2. sock \in Seq(SocketStates) /\ Len(sock) <= MaxSockets /\ "closed" \in SocketStates
  BY DEF BrowserInv, RefOK, SocketStates
<1>3. /\ sock' \in Seq(SocketStates) /\ Len(sock') = Len(sock) /\ DOMAIN sock' = DOMAIN sock
      /\ \A i \in DOMAIN sock : sock'[i] = IF i = s THEN "closed" ELSE sock[i]
  BY <1>1, <1>2
<1>4. RefOK(sock', wsRef')
  BY <1>1, <1>2, <1>3 DEF RefOK
<1>5. Closed(sock') = Closed(sock) \cup {s} /\ s \notin Closed(sock)
  BY <1>1, <1>3 DEF Closed
<1>6. Cardinality(Closed(sock)) \in Nat /\ IsFiniteSet(Closed(sock))
  BY <1>2, ClosedFinite
<1>7. Cardinality(Closed(sock')) = Cardinality(Closed(sock)) + 1
  BY <1>5, <1>6, FS_AddElement
<1>8. TimersOK(sock', timers', tracked')
  <2>1. timers \in Nat /\ timers <= Cardinality(Closed(sock))
    BY DEF BrowserInv, TimersOK
  <2>2. CASE manual
    <3>1. UNCHANGED <<timers, tracked>>
      BY <2>2 DEF OnClose
    <3>2. timers <= Cardinality(Closed(sock'))
      BY ONLY <1>6, <1>7, <2>1
    <3> QED BY <3>1, <3>2 DEF BrowserInv, TimersOK
  <2>3. CASE ~manual
    <3>1. timers' = timers + 1 /\ tracked' = (timers' > 0)
      BY <2>3 DEF OnClose, Scheduled
    <3>2. timers' \in Nat /\ timers' > 0 /\ timers' <= Cardinality(Closed(sock'))
      BY ONLY <1>6, <1>7, <2>1, <3>1
    <3> QED BY <3>1, <3>2 DEF TimersOK
  <2> QED BY <2>2, <2>3
<1>9. topics' \in {topics, {}} /\ IsFiniteSet({})
  BY FS_EmptySet DEF OnClose
<1>10. TopicsOK' /\ FlagsOK'
  BY <1>9 DEF OnClose, TopicsOK, FlagsOK, BrowserInv
<1> QED BY <1>4, <1>8, <1>10 DEF BrowserInv

LEMMA TimerFiresKeeps ==
  ASSUME BrowserInv, TimerFires
  PROVE  BrowserInv'
<1>1. RefOK(sock', wsRef') /\ Closed(sock') = Closed(sock) /\ superseded' \in BOOLEAN
  <2>1. CASE wsRef # 0 \/ manual
    BY <2>1 DEF TimerFires, Connect, BrowserInv, FlagsOK
  <2>2. CASE ~(wsRef # 0 \/ manual)
    <3>1. wsRef = 0 /\ MakeSocket(sock)
      BY <2>2 DEF TimerFires, Connect
    <3>2. superseded' \in BOOLEAN
      BY <3>1 DEF MakeSocket, BrowserInv, FlagsOK
    <3> QED BY <3>1, <3>2, MakeSocketKeeps DEF BrowserInv
  <2> QED BY <2>1, <2>2
<1>2. TimersOK(sock, timers', tracked')
  <2>1. timers \in Nat /\ timers <= Cardinality(Closed(sock)) /\ tracked \in BOOLEAN
    BY DEF BrowserInv, TimersOK
  <2>2. timers > 0 /\ timers' = timers - 1
    BY DEF TimerFires
  <2>3. Cardinality(Closed(sock)) \in Nat
    BY ClosedFinite DEF BrowserInv, RefOK
  <2>4. timers' \in Nat /\ timers' <= Cardinality(Closed(sock)) /\ (timers > 1 => timers' > 0)
    BY ONLY <2>1, <2>2, <2>3
  <2>5. tracked' \in BOOLEAN /\ (tracked' => timers > 1)
    BY Zenon DEF TimerFires
  <2> QED BY <2>4, <2>5 DEF TimersOK
<1>3. TimersOK(sock', timers', tracked')
  BY <1>1, <1>2, SameTimers
<1>4. TopicsOK' /\ FlagsOK'
  BY <1>1 DEF TimerFires, TopicsOK, FlagsOK, BrowserInv
<1> QED BY <1>1, <1>3, <1>4 DEF BrowserInv

LEMMA ShowKeeps ==
  ASSUME BrowserInv, NEW t \in AssetTopics, Show(t)
  PROVE  BrowserInv'
<1>1. RefOK(sock, wsRef)' /\ TimersOK(sock, timers, tracked)'
  BY DEF Show, BrowserInv
<1>2. TopicsOK' /\ FlagsOK'
  BY DisturbKeeps DEF Show, TopicsOK, FlagsOK, BrowserInv
<1> QED BY <1>1, <1>2 DEF BrowserInv

(* What the topic effect sends when the socket is open. *)
EffectLeaves == effect.connected /\ OpenRef(sock)
EffectKept == IF EffectLeaves THEN topics \ {effect.topic} ELSE topics
EffectJoins == connected /\ OpenRef(sock) /\ shown \notin EffectKept
EffectMail ==
  (IF EffectLeaves THEN <<[action |-> "unsubscribe", topic |-> effect.topic]>> ELSE <<>>)
    \o (IF EffectJoins THEN <<[action |-> "subscribe", topic |-> shown]>> ELSE <<>>)

LEMMA TopicEffectIs ==
  ASSUME BrowserInv, TopicEffect
  PROVE  /\ effect' = TopicDeps
         /\ topics' = IF EffectJoins THEN EffectKept \cup {shown} ELSE EffectKept
         /\ EffectMail \in Seq(Message)
         /\ mail' = IF ~OpenRef(sock) THEN mail ELSE [mail EXCEPT ![wsRef] = @ \o EffectMail]
         /\ UNCHANGED <<active, sock, wsRef, timers, tracked, manual, connected, shown,
                        disturbances, superseded, refused>>
<1> DEFINE off == IF EffectLeaves THEN <<[action |-> "unsubscribe", topic |-> effect.topic]>>
                  ELSE <<>>
           on == IF EffectJoins THEN <<[action |-> "subscribe", topic |-> shown]>> ELSE <<>>
<1>1. off \in Seq(Message) /\ on \in Seq(Message)
  <2>1. [action |-> "unsubscribe", topic |-> effect.topic] \in Message
        /\ [action |-> "subscribe", topic |-> shown] \in Message
    BY DEF BrowserInv, TopicsOK, Message
  <2> HIDE DEF Message
  <2>2. <<[action |-> "unsubscribe", topic |-> effect.topic]>> \in Seq(Message)
        /\ <<[action |-> "subscribe", topic |-> shown]>> \in Seq(Message)
        /\ <<>> \in Seq(Message)
    BY <2>1
  <2> QED BY ONLY <2>2 DEF off, on
<1>2. EffectMail = off \o on
  BY DEF EffectMail
<1>3. mail' = IF ~OpenRef(sock) THEN mail ELSE [mail EXCEPT ![wsRef] = @ \o off \o on]
  BY DEF TopicEffect, EffectLeaves, EffectJoins, EffectKept
<1> HIDE DEF off, on
<1>4. EffectMail \in Seq(Message)
  BY <1>1, <1>2
<1>5. mail' = IF ~OpenRef(sock) THEN mail ELSE [mail EXCEPT ![wsRef] = @ \o EffectMail]
  <2>1. CASE OpenRef(sock)
    <3>1. wsRef \in 1..MaxSockets
      BY <2>1, BrowserAssumption DEF OpenRef, BrowserInv, RefOK
    <3>2. mail[wsRef] \in Seq(Message)
      BY <3>1 DEF BrowserInv, TopicsOK
    <3>3. (mail[wsRef] \o off) \o on = mail[wsRef] \o (off \o on)
      <4> DEFINE box == mail[wsRef]
      <4>1. box \in Seq(Message)
        BY <3>2
      <4> HIDE DEF box
      <4>2. (box \o off) \o on = box \o (off \o on)
        BY <1>1, <4>1, ConcatAssociative
      <4> QED BY <4>2 DEF box
    <3> QED BY <1>2, <1>3, <2>1, <3>3
  <2> QED BY <1>3, <2>1
<1>6. topics' = IF EffectJoins THEN EffectKept \cup {shown} ELSE EffectKept
  BY DEF TopicEffect, EffectLeaves, EffectJoins, EffectKept
<1> QED BY <1>4, <1>5, <1>6 DEF TopicEffect

LEMMA TopicEffectKeeps ==
  ASSUME BrowserInv, TopicEffect
  PROVE  BrowserInv'
<1>1. UNCHANGED <<sock, wsRef, timers, tracked, active, manual, connected, shown,
                  disturbances, superseded, refused>>
  BY TopicEffectIs
<1>2. RefOK(sock, wsRef)' /\ TimersOK(sock, timers, tracked)' /\ FlagsOK'
  BY <1>1 DEF BrowserInv, FlagsOK
<1>3. mail' \in [1..MaxSockets -> Seq(Message)]
  <2>1. CASE OpenRef(sock)
    <3>1. wsRef \in 1..MaxSockets
      BY <2>1, BrowserAssumption DEF OpenRef, BrowserInv, RefOK
    <3>2. EffectMail \in Seq(Message) /\ mail' = [mail EXCEPT ![wsRef] = @ \o EffectMail]
      BY <2>1, TopicEffectIs
    <3>3. mail \in [1..MaxSockets -> Seq(Message)]
      BY DEF BrowserInv, TopicsOK
    <3> QED BY ONLY <3>1, <3>2, <3>3, MailKeeps
  <2> QED BY <2>1, TopicEffectIs DEF BrowserInv, TopicsOK
<1>4. topics' \subseteq AssetTopics /\ IsFiniteSet(topics')
  <2>1. EffectKept \subseteq topics /\ IsFiniteSet(topics) /\ topics \subseteq AssetTopics
        /\ shown \in AssetTopics
    BY DEF EffectKept, BrowserInv, TopicsOK
  <2>2. IsFiniteSet(EffectKept)
    BY <2>1, FS_Subset
  <2>3. IsFiniteSet(EffectKept \cup {shown})
    BY <2>2, FS_AddElement
  <2> QED BY <2>1, <2>2, <2>3, TopicEffectIs
<1>5. effect' \in [connected : BOOLEAN, topic : AssetTopics]
  BY TopicEffectIs DEF TopicDeps, BrowserInv, TopicsOK, FlagsOK
<1>6. TopicsOK'
  BY <1>1, <1>3, <1>4, <1>5 DEF BrowserInv, TopicsOK
<1> QED BY <1>2, <1>6 DEF BrowserInv

LEMMA BrowserInvQuiet ==
  ASSUME BrowserInv, BrowserQuietNext
  PROVE  BrowserInv'
BY ActivateKeeps, DeactivateKeeps, RerunKeeps, DisconnectPageKeeps, TimerFiresKeeps,
   TopicEffectKeeps, ShowKeeps, OnCloseKeeps, DropKeeps DEF BrowserQuietNext

LEMMA BrowserInvInit == BrowserInit => BrowserInv
<1> SUFFICES ASSUME BrowserInit PROVE BrowserInv
  OBVIOUS
<1>1. sock = <<>> /\ wsRef = 0 /\ timers = 0 /\ tracked = FALSE
  BY DEF BrowserInit
<1>2. RefOK(sock, wsRef)
  BY <1>1, BrowserAssumption DEF RefOK
<1>3. TimersOK(sock, timers, tracked)
  <2>1. Cardinality(Closed(sock)) \in 0..Len(sock) /\ Len(sock) \in Nat
    BY <1>2, ClosedFinite DEF RefOK
  <2>2. 0 <= Cardinality(Closed(sock)) /\ 0 \in Nat
    BY ONLY <2>1
  <2> QED BY ONLY <1>1, <2>2 DEF TimersOK
<1>4. TopicsOK
  <2>1. <<>> \in Seq(Message)
    OBVIOUS
  <2> QED BY <2>1, FS_EmptySet DEF BrowserInit, TopicsOK
<1>5. FlagsOK
  <2>1. disturbances = 0 /\ 0 \in 0..MaxDisturbances
    BY BrowserAssumption DEF BrowserInit
  <2> QED BY <2>1 DEF BrowserInit, FlagsOK
<1> QED BY <1>2, <1>3, <1>4, <1>5 DEF BrowserInv

LEMMA BrowserStays ==
  ASSUME BrowserInv, UNCHANGED browserVars
  PROVE  BrowserInv'
BY DEF browserVars, BrowserInv, TopicsOK, FlagsOK

-----------------------------------------------------------------------------
(* The two ends together. *)

FeedTypes == BrowserInv /\ HubInv /\ ReplayInv /\ Members

(* The server knows, and has mail of, only sockets that were opened. *)
Ends ==
  /\ \A s \in clients \cup ready : s \in DOMAIN sock /\ sock[s] # "connecting"
  /\ \A s \in 1..MaxSockets : mail[s] # <<>> => s \in DOMAIN sock /\ sock[s] # "connecting"

(* A socket that was ever opened is not a new one again. *)
GoesOn(old, new) ==
  \A s \in DOMAIN old : s \in DOMAIN new /\ (old[s] # "connecting" => new[s] # "connecting")

LEMMA ClosingGoesOn ==
  ASSUME RefOK(sock, wsRef)
  PROVE  GoesOn(sock, Closing) /\ DOMAIN Closing = DOMAIN sock
<1>1. DOMAIN Closing = DOMAIN sock
  BY DEF Closing, RefOK
<1>2. \A s \in DOMAIN sock : Closing[s] = IF s = wsRef THEN "closing" ELSE sock[s]
  BY DEF Closing, RefOK
<1> QED BY <1>1, <1>2 DEF GoesOn

LEMMA MakeSocketGoesOn ==
  ASSUME NEW socks, RefOK(socks, 0), MakeSocket(socks)
  PROVE  /\ wsRef' = Len(socks) + 1 /\ Len(socks) < MaxSockets
         /\ DOMAIN socks = 1..Len(socks) /\ DOMAIN sock' = 1..(Len(socks) + 1)
         /\ Len(sock') = Len(socks) + 1
         /\ \A s \in DOMAIN socks : sock'[s] = socks[s]
         /\ sock'[wsRef'] = "connecting"
         /\ GoesOn(socks, sock')
<1>1. socks \in Seq(SocketStates) /\ Len(socks) \in Nat /\ DOMAIN socks = 1..Len(socks)
  BY DEF RefOK
<1>2. sock' = Append(socks, "connecting") /\ wsRef' = Len(socks) + 1 /\ Len(socks) < MaxSockets
  BY DEF MakeSocket
<1>3. "connecting" \in SocketStates
  BY DEF SocketStates
<1>4. /\ Len(sock') = Len(socks) + 1
      /\ DOMAIN sock' = 1..(Len(socks) + 1)
      /\ \A i \in DOMAIN sock' : sock'[i] = IF i = Len(socks) + 1 THEN "connecting" ELSE socks[i]
  BY <1>1, <1>2, <1>3, AppendProperties
<1>5. \A s \in DOMAIN socks : s \in DOMAIN sock' /\ sock'[s] = socks[s]
  BY <1>1, <1>4
<1>6. sock'[wsRef'] = "connecting"
  BY <1>1, <1>2, <1>4
<1> QED BY <1>1, <1>2, <1>4, <1>5, <1>6 DEF GoesOn

(* What a step of the page does to the sockets: nothing, or one socket     *)
(* moves on, or the current one is told to close, or a new one is made.    *)
LEMMA SocketsMove ==
  ASSUME BrowserInv, BrowserQuietNext \/ \E s : Opens(s)
  PROVE  GoesOn(sock, sock')
<1>1. ASSUME NEW s \in DOMAIN sock, NEW state \in SocketStates \ {"connecting"},
             sock' = [sock EXCEPT ![s] = state]
      PROVE  GoesOn(sock, sock')
  BY <1>1 DEF GoesOn, BrowserInv, RefOK
<1>2. CASE UNCHANGED sock
  BY <1>2 DEF GoesOn
<1>3. CASE sock' = Closing
  BY <1>3, ClosingGoesOn DEF BrowserInv
<1>4. CASE MakeSocket(Closing)
  <2>1. RefOK(Closing, 0)
    BY ClosingKeeps DEF BrowserInv
  <2>2. GoesOn(Closing, sock')
    BY <1>4, <2>1, MakeSocketGoesOn
  <2> QED BY <2>2, ClosingGoesOn DEF BrowserInv, GoesOn
<1>5. CASE wsRef = 0 /\ MakeSocket(sock)
  BY <1>5, MakeSocketGoesOn DEF BrowserInv
<1>6. {"open", "closing", "closed"} \subseteq SocketStates \ {"connecting"}
  BY DEF SocketStates
<1>7. CASE Activate
  BY <1>2, <1>5, <1>7 DEF Activate
<1>8. CASE Deactivate \/ Disconnect
  BY <1>3, <1>8 DEF Deactivate, Disconnect
<1>9. CASE Rerun
  BY <1>4, <1>9 DEF Rerun
<1>10. CASE TimerFires
  BY <1>2, <1>5, <1>10 DEF TimerFires, Connect
<1>11. CASE TopicEffect \/ \E t \in AssetTopics : Show(t)
  BY <1>2, <1>11 DEF TopicEffect, Show
<1>12. CASE \E s : OnClose(s) \/ Drop(s) \/ Opens(s)
  <2>1. PICK s : OnClose(s) \/ Drop(s) \/ Opens(s)
    BY <1>12
  <2>2. s \in DOMAIN sock /\ \E state \in {"open", "closing", "closed"} :
                               sock' = [sock EXCEPT ![s] = state]
    BY <2>1 DEF OnClose, Drop, Opens
  <2> QED BY <1>1, <1>6, <2>2
<1> QED BY <1>7, <1>8, <1>9, <1>10, <1>11, <1>12 DEF BrowserQuietNext

(* Only the socket in use is written to, when it is open. *)
LEMMA MailGrows ==
  ASSUME BrowserInv, BrowserQuietNext \/ \E s : Opens(s),
         NEW s \in 1..MaxSockets, mail'[s] # <<>>, mail[s] = <<>>
  PROVE  wsRef' = s /\ OpenRef(sock)'
<1>0. mail \in [1..MaxSockets -> Seq(Message)]
  BY DEF BrowserInv, TopicsOK
<1>1. CASE \E u : Opens(u)
  <2>1. PICK u : Opens(u)
    BY <1>1
  <2>2. OpenRef(sock') /\ wsRef' = wsRef
    BY <2>1 DEF Opens, Resubscribe
  <2>3. wsRef = s
    BY <1>0, <2>1, <2>2 DEF Opens, Resubscribe
  <2> QED BY <2>2, <2>3 DEF OpenRef
<1>2. CASE TopicEffect
  <2>1. UNCHANGED <<sock, wsRef>>
        /\ mail' = IF ~OpenRef(sock) THEN mail ELSE [mail EXCEPT ![wsRef] = @ \o EffectMail]
    BY <1>2, TopicEffectIs
  <2>2. OpenRef(sock) /\ wsRef = s
    BY <1>0, <2>1
  <2> QED BY <2>1, <2>2 DEF OpenRef
<1>3. CASE \E u : Drop(u)
  BY <1>0, <1>3 DEF Drop
<1>4. CASE UNCHANGED mail
  BY <1>4
<1> QED BY <1>1, <1>2, <1>3, <1>4
        DEF BrowserQuietNext, Activate, Deactivate, Rerun, Disconnect, TimerFires, Show,
            OnClose

LEMMA EndsQuiet ==
  ASSUME BrowserInv, Ends, BrowserQuietNext \/ \E s : Opens(s), UNCHANGED <<clients, ready>>
  PROVE  Ends'
<1>1. GoesOn(sock, sock')
  BY SocketsMove
<1>2. ASSUME NEW s \in 1..MaxSockets, mail'[s] # <<>>
      PROVE  s \in DOMAIN sock' /\ sock'[s] # "connecting"
  <2>1. CASE mail[s] # <<>>
    BY <1>1, <2>1 DEF Ends, GoesOn
  <2>2. CASE mail[s] = <<>>
    <3>1. wsRef' = s /\ sock'[s] = "open"
      BY <1>2, <2>2, MailGrows DEF OpenRef
    <3>2. BrowserInv'
      BY BrowserInvQuiet, OpensKeeps
    <3>3. RefOK(sock, wsRef)'
      BY <3>2 DEF BrowserInv
    <3> QED BY <3>1, <3>3 DEF RefOK
  <2> QED BY <2>1, <2>2
<1>3. ASSUME NEW s \in clients' \cup ready' PROVE s \in DOMAIN sock' /\ sock'[s] # "connecting"
  BY <1>1, <1>3 DEF Ends, GoesOn
<1> QED BY <1>2, <1>3 DEF Ends

FeedInv == FeedTypes /\ Ends

(* What the server handles is a message the page sent. *)
LEMMA DeliveredIs ==
  ASSUME FeedTypes, NEW s \in Sockets, Delivered(s)
  PROVE  /\ s \in 1..MaxSockets /\ mail[s] \in Seq(Message) /\ mail[s] # <<>>
         /\ mail' = [mail EXCEPT ![s] = Tail(mail[s])]
         /\ Head(mail[s]) \in Message
         /\ \/ Head(mail[s]).action = "subscribe" /\ Subscribe(s, Head(mail[s]).topic)
            \/ Head(mail[s]).action = "unsubscribe" /\ Unsubscribe(s, Head(mail[s]).topic)
         /\ Head(mail[s]).topic \in AssetTopics /\ Head(mail[s]).topic \in Topics
<1>1. s \in 1..MaxSockets
  BY FeedAssumption
<1>2. mail \in [1..MaxSockets -> Seq(Message)]
  BY DEF FeedTypes, BrowserInv, TopicsOK
<1>3. mail[s] \in Seq(Message)
  BY <1>1, <1>2
<1>4. mail[s] # <<>> /\ mail' = [mail EXCEPT ![s] = Tail(mail[s])]
  BY DEF Delivered
<1>5. \/ Head(mail[s]).action = "subscribe" /\ Subscribe(s, Head(mail[s]).topic)
      \/ Head(mail[s]).action = "unsubscribe" /\ Unsubscribe(s, Head(mail[s]).topic)
  BY DEF Delivered
<1>6. Head(mail[s]) \in Message
  BY <1>3, <1>4
<1>7. Head(mail[s]).topic \in AssetTopics
  BY <1>6 DEF Message
<1> QED BY <1>1, <1>3, <1>4, <1>5, <1>6, <1>7, FeedAssumption

(* Every step of the two is a step of the hub, or none: a handshake is a   *)
(* new connection, a message is about a topic there is.                    *)
LEMMA FeedStepIsHubStep == FeedInv /\ [FeedNext]_feedVars => [HubNext]_hubVars
<1> SUFFICES ASSUME FeedInv, [FeedNext]_feedVars PROVE [HubNext]_hubVars
  OBVIOUS
<1>1. CASE UNCHANGED hubVars
  BY <1>1
<1>2. CASE UNCHANGED feedVars
  BY <1>1, <1>2 DEF feedVars
<1>3. ASSUME NEW s \in Sockets, Handshake(s) PROVE HubNext
  <2>1. s \notin clients /\ Connection(s)
    BY <1>3 DEF Handshake, Opens, FeedInv, Ends
  <2> QED BY <2>1 DEF HubNext, HubStep
<1>4. ASSUME NEW s \in Sockets, Delivered(s) PROVE [HubNext]_hubVars
  <2> DEFINE t == Head(mail[s]).topic
  <2>1. t \in Topics /\ (Subscribe(s, t) \/ Unsubscribe(s, t))
    BY <1>4, DeliveredIs DEF FeedInv
  <2> HIDE DEF t
  <2>2. CASE s \in clients
    BY <2>1, <2>2 DEF HubNext, HubStep
  <2>3. CASE s \notin clients
    BY <2>1, <2>3 DEF Subscribe, Unsubscribe, hubVars, storeVars
  <2> QED BY <2>2, <2>3
<1>5. ASSUME NEW s \in Sockets, ServerNotices(s) PROVE HubNext
  BY <1>5 DEF ServerNotices, HubNext, HubStep
<1>6. ASSUME NEW t \in Topics,
             \/ \E failing \in SUBSET Sockets : Broadcast(t, failing) \/ RemoteBroadcast(t, failing)
             \/ Ages(t)
      PROVE  HubNext
  BY <1>6 DEF HubNext, HubStep
<1> QED BY <1>1, <1>2, <1>3, <1>4, <1>5, <1>6 DEF FeedNext

LEMMA HubStepsTyped ==
  ASSUME HubInv, ReplayInv, Members, [HubNext]_hubVars
  PROVE  HubInv' /\ ReplayInv' /\ Members'
BY HubInvNext, ReplayInvNext, MembersNext

LEMMA DeliveredKeeps ==
  ASSUME FeedInv, NEW s \in Sockets, Delivered(s)
  PROVE  BrowserInv' /\ Ends'
<1>1. /\ UNCHANGED <<active, sock, wsRef, timers, tracked, manual, connected, topics, shown,
                     effect, disturbances, superseded, refused, clients, ready>>
  BY DEF Delivered, Subscribe, Unsubscribe
<1>2. mail \in [1..MaxSockets -> Seq(Message)]
  BY DEF FeedInv, FeedTypes, BrowserInv, TopicsOK
<1>3. Tail(mail[s]) \in Seq(Message)
  <2>1. mail[s] \in Seq(Message) /\ mail[s] # <<>>
    BY DeliveredIs DEF FeedInv
  <2> DEFINE box == mail[s]
  <2>2. box \in Seq(Message) /\ box # <<>>
    BY <2>1
  <2> HIDE DEF box
  <2>3. Tail(box) \in Seq(Message)
    BY <2>2
  <2> QED BY <2>3 DEF box
<1>4. mail' = [mail EXCEPT ![s] = Tail(mail[s])] /\ s \in 1..MaxSockets /\ mail[s] # <<>>
  BY DeliveredIs DEF FeedInv
<1>5. mail' \in [1..MaxSockets -> Seq(Message)]
  BY <1>2, <1>3, <1>4
<1>6. BrowserInv'
  BY <1>1, <1>5 DEF FeedInv, FeedTypes, BrowserInv, TopicsOK, FlagsOK
<1>7. \A u \in 1..MaxSockets : mail'[u] # <<>> => mail[u] # <<>>
  BY <1>2, <1>4
<1>8. Ends'
  BY <1>1, <1>7 DEF FeedInv, Ends
<1> QED BY <1>6, <1>8

LEMMA HandshakeKeeps ==
  ASSUME FeedInv, NEW s \in Sockets, Handshake(s)
  PROVE  BrowserInv' /\ Ends'
<1>1. BrowserInv' /\ GoesOn(sock, sock')
  BY OpensKeeps, SocketsMove DEF Handshake, FeedInv, FeedTypes
<1>2. s \in DOMAIN sock' /\ sock'[s] = "open"
  BY DEF Handshake, Opens, FeedInv, FeedTypes, BrowserInv, RefOK
<1>3. clients' = clients \cup {s} /\ ready' = ready \cup {s}
  BY DEF Handshake, Connection
<1>4. ASSUME NEW u \in clients' \cup ready' PROVE u \in DOMAIN sock' /\ sock'[u] # "connecting"
  BY <1>1, <1>2, <1>3, <1>4 DEF FeedInv, Ends, GoesOn
<1>5. ASSUME NEW u \in 1..MaxSockets, mail'[u] # <<>>
      PROVE  u \in DOMAIN sock' /\ sock'[u] # "connecting"
  <2>1. CASE mail[u] # <<>>
    BY <1>1, <2>1 DEF FeedInv, Ends, GoesOn
  <2>2. CASE mail[u] = <<>>
    <3>1. wsRef' = u /\ sock'[u] = "open"
      BY <1>5, <2>2, MailGrows DEF OpenRef, Handshake, FeedInv, FeedTypes
    <3>2. RefOK(sock, wsRef)'
      BY <1>1 DEF BrowserInv
    <3> QED BY <3>1, <3>2 DEF RefOK
  <2> QED BY <2>1, <2>2
<1> QED BY <1>1, <1>4, <1>5 DEF Ends

LEMMA FeedInvNext == FeedInv /\ [FeedNext]_feedVars => FeedInv'
<1> SUFFICES ASSUME FeedInv, [FeedNext]_feedVars PROVE FeedInv'
  OBVIOUS
<1>1. HubInv' /\ ReplayInv' /\ Members'
  BY FeedStepIsHubStep, HubStepsTyped DEF FeedInv, FeedTypes
<1>2. BrowserInv' /\ Ends'
  <2>1. CASE UNCHANGED browserVars /\ clients' \cup ready' \subseteq clients \cup ready
    <3>1. Ends'
      BY <2>1 DEF FeedInv, Ends, browserVars
    <3> QED BY <2>1, <3>1, BrowserStays DEF FeedInv, FeedTypes
  <2>2. CASE UNCHANGED feedVars
    BY <2>1, <2>2 DEF feedVars, hubVars
  <2>3. CASE BrowserQuietNext /\ UNCHANGED hubVars
    BY <2>3, BrowserInvQuiet, EndsQuiet DEF hubVars, FeedInv, FeedTypes
  <2>4. ASSUME NEW s \in Sockets, ServerNotices(s)
        PROVE  UNCHANGED browserVars /\ clients' \cup ready' \subseteq clients \cup ready
    BY <2>4 DEF ServerNotices, StopsBeingReady, SocketCloses, HandleDisconnect
  <2>5. ASSUME NEW t \in Topics,
               \/ \E failing \in SUBSET Sockets : Broadcast(t, failing) \/ RemoteBroadcast(t, failing)
               \/ Ages(t)
        PROVE  clients' \cup ready' \subseteq clients \cup ready
    BY <2>5 DEF Broadcast, RemoteBroadcast, Ages, HandleDisconnect
  <2> QED BY <2>1, <2>2, <2>3, <2>4, <2>5, DeliveredKeeps, HandshakeKeeps DEF FeedNext
<1> QED BY <1>1, <1>2 DEF FeedInv, FeedTypes

LEMMA FeedInvInit == FeedInit => FeedInv
<1> SUFFICES ASSUME FeedInit PROVE FeedInv
  OBVIOUS
<1>1. FeedTypes
  BY BrowserInvInit, HubInvInit, ReplayInvInit, MembersInit DEF FeedInit, FeedTypes
<1>2. Ends
  BY DEF FeedInit, HubInit, BrowserInit, Ends
<1> QED BY <1>1, <1>2 DEF FeedInv

(* With the browser at the other end the hub is still the hub: whatever    *)
(* the page opens, loses, replaces and sends, the server sees connections  *)
(* that are new, messages about topics there are, and ends of connections. *)
(* What is proved of the hub alone holds of it there.                      *)
THEOREM FeedRunsTheHub == FeedSpec => HubSpec
<1>1. FeedInit => HubInit
  BY DEF FeedInit
<1> QED BY <1>1, FeedInvInit, FeedInvNext, FeedStepIsHubStep, PTL DEF FeedSpec, HubSpec

-----------------------------------------------------------------------------
(* The last word about a topic. *)

AboutIn(box, t) == {i \in DOMAIN box : box[i].topic = t}

(* Who reads box, having believed `before`, believes LastWord at the end.  *)
LastWord(box, t, before) ==
  IF AboutIn(box, t) = {} THEN before
  ELSE \E i \in AboutIn(box, t) : /\ box[i].action = "subscribe"
                                  /\ \A j \in AboutIn(box, t) : j <= i

LEMMA WillListenIs ==
  ASSUME NEW s, NEW t
  PROVE  WillListen(s, t) <=> LastWord(mail[s], t, s \in subscriptions[t])
BY DEF WillListen, LastWord, AboutIn

(* A message that is handled counts no less than when it was on its way. *)
LEMMA HeadHandled ==
  ASSUME NEW box \in Seq(Message), box # <<>>, NEW t, NEW before, NEW after,
         after <=> IF Head(box).topic = t THEN Head(box).action = "subscribe" ELSE before
  PROVE  LastWord(Tail(box), t, after) <=> LastWord(box, t, before)
<1> DEFINE q == Tail(box)
<1>1. /\ Len(box) \in Nat /\ DOMAIN box = 1..Len(box) /\ 1 \in DOMAIN box
      /\ Len(q) = Len(box) - 1 /\ DOMAIN q = 1..(Len(box) - 1)
      /\ \A i \in DOMAIN q : q[i] = box[i + 1]
      /\ Head(box) = box[1]
  BY DEF Message
<1> HIDE DEF q
<1>2. \A i \in DOMAIN q : i \in Nat /\ i + 1 \in DOMAIN box /\ i + 1 > 1
  BY <1>1
<1>3. \A i \in DOMAIN box : i = 1 \/ (i - 1 \in DOMAIN q /\ (i - 1) + 1 = i)
  BY <1>1
<1>4. \A i \in DOMAIN q : i \in AboutIn(q, t) <=> i + 1 \in AboutIn(box, t)
  BY <1>1, <1>2 DEF AboutIn
<1>5. CASE AboutIn(q, t) = {}
  <2>1. AboutIn(box, t) = IF box[1].topic = t THEN {1} ELSE {}
    <3>1. \A i \in AboutIn(box, t) : i = 1
      BY <1>3, <1>4, <1>5 DEF AboutIn
    <3>2. 1 \in AboutIn(box, t) <=> box[1].topic = t
      BY <1>1 DEF AboutIn
    <3> QED BY <3>1, <3>2
  <2>2. LastWord(q, t, after) <=> after
    BY <1>5 DEF LastWord
  <2>3. CASE box[1].topic = t
    <3>1. LastWord(box, t, before) <=> box[1].action = "subscribe"
      BY <2>1, <2>3 DEF LastWord
    <3> QED BY <1>1, <2>2, <2>3, <3>1 DEF q
  <2>4. CASE box[1].topic # t
    <3>1. LastWord(box, t, before) <=> before
      BY <2>1, <2>4 DEF LastWord
    <3> QED BY <1>1, <2>2, <2>4, <3>1 DEF q
  <2> QED BY <2>3, <2>4
<1>6. CASE AboutIn(q, t) # {}
  <2>1. AboutIn(box, t) # {} /\ AboutIn(q, t) \subseteq DOMAIN q
        /\ AboutIn(box, t) \subseteq DOMAIN box
    BY <1>4, <1>6 DEF AboutIn
  <2>2. ASSUME NEW i \in AboutIn(q, t), q[i].action = "subscribe",
               \A j \in AboutIn(q, t) : j <= i
        PROVE  /\ i + 1 \in AboutIn(box, t) /\ box[i + 1].action = "subscribe"
               /\ \A j \in AboutIn(box, t) : j <= i + 1
    <3>1. i + 1 \in AboutIn(box, t) /\ box[i + 1].action = "subscribe" /\ i \in Nat
      BY <1>1, <1>2, <1>4, <2>1, <2>2
    <3>2. ASSUME NEW j \in AboutIn(box, t), j # 1 PROVE j <= i + 1
      <4>1. j - 1 \in DOMAIN q /\ (j - 1) + 1 = j
        BY <1>3, <2>1, <3>2
      <4>2. j - 1 \in AboutIn(q, t)
        BY <1>4, <4>1
      <4>3. j - 1 <= i /\ j - 1 \in Nat
        BY <2>2, <4>2, <4>1, <1>2
      <4> QED BY ONLY <3>1, <4>1, <4>3
    <3>3. 1 <= i + 1
      BY <3>1
    <3> QED BY <3>1, <3>2, <3>3
  <2>3. ASSUME NEW i \in AboutIn(box, t), box[i].action = "subscribe",
               \A j \in AboutIn(box, t) : j <= i
        PROVE  /\ i - 1 \in AboutIn(q, t) /\ q[i - 1].action = "subscribe"
               /\ \A j \in AboutIn(q, t) : j <= i - 1
    <3>1. PICK k \in AboutIn(q, t) : TRUE
      BY <1>6
    <3>2. k + 1 \in AboutIn(box, t) /\ k + 1 > 1
      BY <1>2, <1>4, <2>1, <3>1
    <3>3. i # 1
      <4>1. k + 1 <= i
        BY <2>3, <3>2
      <4> QED BY <1>2, <2>1, <3>2, <4>1
    <3>4. i - 1 \in DOMAIN q /\ (i - 1) + 1 = i
      BY <1>3, <2>1, <3>3
    <3>5. i - 1 \in AboutIn(q, t) /\ q[i - 1].action = "subscribe"
      BY <1>1, <1>4, <2>3, <3>4
    <3>6. ASSUME NEW j \in AboutIn(q, t) PROVE j <= i - 1
      <4>1. j \in Nat /\ j + 1 \in AboutIn(box, t)
        BY <1>2, <1>4, <2>1
      <4>2. j + 1 <= i /\ i \in Nat
        BY <1>1, <2>1, <2>3, <4>1
      <4> QED BY ONLY <4>1, <4>2
    <3> QED BY <3>5, <3>6
  <2>4. (\E i \in AboutIn(q, t) : q[i].action = "subscribe" /\ \A j \in AboutIn(q, t) : j <= i)
        <=> (\E i \in AboutIn(box, t) : box[i].action = "subscribe"
                                        /\ \A j \in AboutIn(box, t) : j <= i)
    BY <2>2, <2>3
  <2> QED BY <1>6, <2>1, <2>4 DEF LastWord, q
<1> QED BY <1>5, <1>6

(* What is sent later is read later. *)
LEMMA SentLater ==
  ASSUME NEW box \in Seq(Message), NEW q \in Seq(Message), NEW t, NEW before
  PROVE  LastWord(box \o q, t, before) <=> LastWord(q, t, LastWord(box, t, before))
<1> DEFINE all == box \o q
           n == Len(box)
<1>1. /\ n \in Nat /\ Len(q) \in Nat /\ DOMAIN box = 1..n /\ DOMAIN q = 1..Len(q)
      /\ DOMAIN all = 1..(n + Len(q))
      /\ \A i \in DOMAIN box : all[i] = box[i]
      /\ \A i \in DOMAIN q : all[n + i] = q[i]
  BY ConcatProperties
<1> HIDE DEF all, n
<1>2. \A i \in DOMAIN box : i \in DOMAIN all /\ i <= n /\ i \in Nat
  BY <1>1
<1>3. \A i \in DOMAIN q : n + i \in DOMAIN all /\ n + i > n /\ i \in Nat
  BY <1>1
<1>4. \A i \in DOMAIN all : i \in DOMAIN box \/ (i - n \in DOMAIN q /\ n + (i - n) = i)
  BY <1>1
<1>5. /\ \A i \in DOMAIN box : i \in AboutIn(box, t) <=> i \in AboutIn(all, t)
      /\ \A i \in DOMAIN q : i \in AboutIn(q, t) <=> n + i \in AboutIn(all, t)
  BY <1>1, <1>2, <1>3 DEF AboutIn
<1>6. /\ AboutIn(all, t) \subseteq DOMAIN all /\ AboutIn(q, t) \subseteq DOMAIN q
      /\ AboutIn(box, t) \subseteq DOMAIN box
  BY DEF AboutIn
<1>7. CASE AboutIn(q, t) = {}
  <2>1. AboutIn(all, t) = AboutIn(box, t)
    <3>1. \A i \in AboutIn(all, t) : i \in AboutIn(box, t)
      BY <1>4, <1>5, <1>6, <1>7
    <3>2. \A i \in AboutIn(box, t) : i \in AboutIn(all, t)
      BY <1>5, <1>6
    <3> QED BY <3>1, <3>2
  <2>2. \A i \in AboutIn(box, t) : all[i] = box[i]
    BY <1>1, <1>6
  <2>3. LastWord(all, t, before) <=> LastWord(box, t, before)
    BY <2>1, <2>2 DEF LastWord
  <2> QED BY <1>7, <2>3 DEF LastWord, all
<1>8. CASE AboutIn(q, t) # {}
  <2>1. AboutIn(all, t) # {}
    BY <1>5, <1>6, <1>8
  <2>2. ASSUME NEW i \in AboutIn(q, t), q[i].action = "subscribe",
               \A j \in AboutIn(q, t) : j <= i
        PROVE  /\ n + i \in AboutIn(all, t) /\ all[n + i].action = "subscribe"
               /\ \A j \in AboutIn(all, t) : j <= n + i
    <3>1. n + i \in AboutIn(all, t) /\ all[n + i].action = "subscribe" /\ i \in Nat
      BY <1>1, <1>3, <1>5, <1>6, <2>2
    <3>2. ASSUME NEW j \in AboutIn(all, t) PROVE j <= n + i
      <4>1. CASE j \in DOMAIN box
        <5>1. j <= n /\ j \in Nat
          BY <1>2, <4>1
        <5> QED BY <1>1, <3>1, <5>1
      <4>2. CASE j - n \in DOMAIN q /\ n + (j - n) = j
        <5>1. j - n \in AboutIn(q, t)
          BY <1>5, <4>2
        <5>2. j - n <= i /\ j - n \in Nat
          BY <1>3, <2>2, <4>2, <5>1
        <5>3. n + (j - n) <= n + i
          BY <1>1, <3>1, <5>2
        <5> QED BY <4>2, <5>3
      <4> QED BY <1>4, <1>6, <4>1, <4>2
    <3> QED BY <3>1, <3>2
  <2>3. ASSUME NEW i \in AboutIn(all, t), all[i].action = "subscribe",
               \A j \in AboutIn(all, t) : j <= i
        PROVE  /\ i - n \in AboutIn(q, t) /\ q[i - n].action = "subscribe"
               /\ \A j \in AboutIn(q, t) : j <= i - n
    <3>1. PICK k \in AboutIn(q, t) : TRUE
      BY <1>8
    <3>2. n + k <= i /\ n + k > n /\ k \in Nat /\ i \in Nat
      BY <1>1, <1>3, <1>5, <1>6, <2>3, <3>1
    <3>3. i \notin DOMAIN box
      BY <1>1, <1>2, <3>2
    <3>4. i - n \in DOMAIN q /\ n + (i - n) = i
      BY <1>4, <1>6, <3>3
    <3>5. i - n \in AboutIn(q, t) /\ q[i - n].action = "subscribe"
      BY <1>1, <1>5, <2>3, <3>4
    <3>6. ASSUME NEW j \in AboutIn(q, t) PROVE j <= i - n
      <4>1. n + j <= i /\ j \in Nat
        BY <1>3, <1>5, <1>6, <2>3
      <4> QED BY <1>1, <3>2, <4>1
    <3> QED BY <3>5, <3>6
  <2>4. (\E i \in AboutIn(q, t) : q[i].action = "subscribe" /\ \A j \in AboutIn(q, t) : j <= i)
        <=> (\E i \in AboutIn(all, t) : all[i].action = "subscribe"
                                        /\ \A j \in AboutIn(all, t) : j <= i)
    BY <2>2, <2>3
  <2> QED BY <1>8, <2>1, <2>4 DEF LastWord, all
<1> QED BY <1>7, <1>8

(* A word for a topic, once for all. *)
LEMMA AllSubscribe ==
  ASSUME NEW q \in Seq(Message), NEW t, NEW before,
         \A i \in DOMAIN q : q[i].action = "subscribe"
  PROVE  LastWord(q, t, before) <=> before \/ \E i \in DOMAIN q : q[i].topic = t
<1>1. CASE AboutIn(q, t) = {}
  BY <1>1 DEF LastWord, AboutIn
<1>2. CASE AboutIn(q, t) # {}
  <2>1. Len(q) \in Nat /\ DOMAIN q = 1..Len(q)
    OBVIOUS
  <2>2. AboutIn(q, t) \in SUBSET (1..Len(q))
    BY <2>1 DEF AboutIn
  <2>3. PICK i \in AboutIn(q, t) : \A j \in AboutIn(q, t) : j <= i
    BY <1>2, <2>1, <2>2, LastPosition
  <2>4. i \in DOMAIN q /\ q[i].topic = t /\ q[i].action = "subscribe"
    BY <2>3 DEF AboutIn
  <2> QED BY <1>2, <2>3, <2>4 DEF LastWord
<1> QED BY <1>1, <1>2

-----------------------------------------------------------------------------
(* What the page believes and what the server will have. *)

Agreed ==
  OpenRef(sock) /\ wsRef \in clients =>
    \A t \in AssetTopics : t \in topics <=> WillListen(wsRef, t)

LEMMA OpenRefIn ==
  ASSUME BrowserInv, OpenRef(sock)
  PROVE  wsRef \in 1..MaxSockets /\ wsRef \in DOMAIN sock
BY BrowserAssumption DEF OpenRef, BrowserInv, RefOK

(* A new connection has the topics of the page sent on it; one that was    *)
(* there is told again what it was told.                                   *)
LEMMA HandshakeAgrees ==
  ASSUME FeedInv, Agreed, NEW s \in Sockets, Handshake(s)
  PROVE  Agreed'
<1> SUFFICES ASSUME OpenRef(sock)', wsRef' \in clients', NEW t \in AssetTopics
             PROVE  t \in topics' <=> WillListen(wsRef, t)'
  BY DEF Agreed
<1> DEFINE q == SetToSeq({[action |-> "subscribe", topic |-> u] : u \in topics})
           box == mail[wsRef]
           was == wsRef \in subscriptions[t]
<1>1. /\ UNCHANGED <<wsRef, topics, subscriptions>> /\ Opens(s) /\ clients' = clients \cup {s}
      /\ sock' = [sock EXCEPT ![s] = "open"] /\ s \in DOMAIN sock /\ sock[s] = "connecting"
  BY DEF Handshake, Opens, Connection
<1>2. BrowserInv /\ OpenRef(sock')
  BY <1>1 DEF FeedInv, FeedTypes, OpenRef
<1>3. wsRef \in 1..MaxSockets
  BY <1>2, BrowserAssumption DEF OpenRef, BrowserInv, RefOK
<1>4. /\ q \in Seq(Message)
      /\ \A i \in DOMAIN q : q[i].action = "subscribe" /\ q[i].topic \in topics
      /\ \A u \in topics : \E i \in DOMAIN q : q[i].topic = u
  BY <1>2, ResubscriptionIs DEF BrowserInv
<1>5. mail \in [1..MaxSockets -> Seq(Message)]
  BY <1>2 DEF BrowserInv, TopicsOK
<1>6. mail'[wsRef] = box \o q /\ box \in Seq(Message)
  <2>1. mail' = [mail EXCEPT ![wsRef] = @ \o q]
    BY <1>1, <1>2 DEF Opens, Resubscribe
  <2> HIDE DEF q
  <2> QED BY <2>1, <1>3, <1>5
<1> HIDE DEF q, box, was
<1>7. LastWord(box \o q, t, was) <=> LastWord(box, t, was) \/ t \in topics
  <2>1. LastWord(box \o q, t, was) <=> LastWord(q, t, LastWord(box, t, was))
    BY <1>4, <1>6, SentLater
  <2>2. LastWord(q, t, LastWord(box, t, was))
          <=> LastWord(box, t, was) \/ \E i \in DOMAIN q : q[i].topic = t
    BY <1>4, AllSubscribe
  <2>3. (\E i \in DOMAIN q : q[i].topic = t) <=> t \in topics
    BY <1>4
  <2> QED BY <2>1, <2>2, <2>3
<1>8. LastWord(box, t, was) => t \in topics
  <2>1. CASE wsRef = s
    <3>1. s \notin clients /\ box = <<>>
      BY <1>1, <1>3, <2>1 DEF FeedInv, Ends, box
    <3>2. ~was
      BY <2>1, <3>1, FeedAssumption DEF FeedInv, FeedTypes, HubInv, SubscriptionsMirrored, was
    <3> QED BY <3>1, <3>2 DEF LastWord, AboutIn
  <2>2. CASE wsRef # s
    <3>1. OpenRef(sock) /\ wsRef \in clients
      BY <1>1, <1>2, <2>2 DEF OpenRef, BrowserInv, RefOK
    <3>2. t \in topics <=> WillListen(wsRef, t)
      BY <3>1 DEF Agreed
    <3> QED BY <3>2, WillListenIs DEF box, was
  <2> QED BY <2>1, <2>2
<1>9. WillListen(wsRef, t)' <=> LastWord(mail'[wsRef], t, wsRef \in subscriptions'[t])
  BY <1>1 DEF WillListen, LastWord, AboutIn
<1>10. WillListen(wsRef, t)' <=> LastWord(box \o q, t, was)
  BY <1>1, <1>6, <1>9 DEF was
<1> QED BY <1>1, <1>7, <1>8, <1>10

(* The server reads its mail in order. *)
LEMMA DeliveredAgrees ==
  ASSUME FeedInv, Agreed, NEW s \in Sockets, Delivered(s)
  PROVE  Agreed'
<1> SUFFICES ASSUME OpenRef(sock)', wsRef' \in clients', NEW t \in AssetTopics
             PROVE  t \in topics' <=> WillListen(wsRef, t)'
  BY DEF Agreed
<1> DEFINE box == mail[wsRef]
           m == Head(mail[s])
           was == wsRef \in subscriptions[t]
           is == wsRef \in subscriptions'[t]
<1>1. UNCHANGED <<sock, wsRef, topics, clients>>
  BY DEF Delivered, Subscribe, Unsubscribe
<1>2. OpenRef(sock) /\ wsRef \in clients /\ (t \in topics <=> LastWord(box, t, was))
  BY <1>1, WillListenIs DEF OpenRef, Agreed
<1>3. wsRef \in 1..MaxSockets /\ mail \in [1..MaxSockets -> Seq(Message)]
  BY <1>2, OpenRefIn DEF FeedInv, FeedTypes, BrowserInv, TopicsOK
<1>4. /\ mail' = [mail EXCEPT ![s] = Tail(mail[s])] /\ mail[s] # <<>>
      /\ \/ m.action = "subscribe" /\ Subscribe(s, m.topic)
         \/ m.action = "unsubscribe" /\ Unsubscribe(s, m.topic)
  BY DeliveredIs DEF FeedInv
<1>5. subscriptions \in [Topics -> SUBSET Sockets] /\ t \in Topics /\ m.topic \in Topics
  BY FeedAssumption, DeliveredIs DEF FeedInv, FeedTypes, HubInv, BookTypes
<1>6. is <=> IF s = wsRef /\ m.topic = t THEN m.action = "subscribe" ELSE was
  BY <1>2, <1>4, <1>5 DEF Subscribe, Unsubscribe
<1>7. mail'[wsRef] = IF s = wsRef THEN Tail(box) ELSE box
  BY <1>3, <1>4
<1>8. box \in Seq(Message) /\ (s = wsRef => box # <<>> /\ m = Head(box))
  BY <1>3, <1>4
<1>9. WillListen(wsRef, t)' <=> LastWord(mail'[wsRef], t, is)
  BY <1>1 DEF WillListen, LastWord, AboutIn
<1> HIDE DEF box, was, is, m
<1>10. CASE s = wsRef
  <2>1. LastWord(Tail(box), t, is) <=> LastWord(box, t, was)
    <3>1. is <=> IF Head(box).topic = t THEN Head(box).action = "subscribe" ELSE was
      BY <1>6, <1>8, <1>10
    <3> QED BY <1>8, <1>10, <3>1, HeadHandled
  <2> QED BY <1>1, <1>2, <1>7, <1>9, <1>10, <2>1
<1>11. CASE s # wsRef
  <2>1. LastWord(box, t, is) <=> LastWord(box, t, was)
    BY <1>6, <1>11 DEF LastWord
  <2> QED BY <1>1, <1>2, <1>7, <1>9, <1>11, <2>1
<1> QED BY <1>10, <1>11

(* Words of one message or none, one after the other. *)
LEMMA ShortWords ==
  ASSUME NEW S, NEW a \in S, NEW b \in S
  PROVE  /\ <<a>> \o <<b>> = <<a, b>> /\ <<a>> \o <<>> = <<a>>
         /\ <<>> \o <<b>> = <<b>> /\ <<>> \o <<>> = <<>>
<1>1. <<a>> \in Seq(S) /\ <<b>> \in Seq(S) /\ <<>> \in Seq(S) /\ <<a,b>> \in Seq(S)
  OBVIOUS
<1>2. <<a>> \o <<b>> = <<a, b>>
  <2> DEFINE both == <<a>> \o <<b>>
  <2>1. both \in Seq(S) /\ Len(both) = 2 /\ both[1] = a /\ both[2] = b
    BY <1>1, ConcatProperties
  <2> HIDE DEF both
  <2>2. Len(<<a, b>>) = 2 /\ <<a, b>>[1] = a /\ <<a, b>>[2] = b
    OBVIOUS
  <2>3. \A i \in 1..2 : i = 1 \/ i = 2
    OBVIOUS
  <2>4. \A i \in 1..Len(both) : both[i] = <<a, b>>[i]
    BY <2>1, <2>2, <2>3
  <2>5. both = <<a, b>>
    BY <1>1, <2>1, <2>2, <2>4, SeqEqual
  <2> QED BY <2>5 DEF both
<1>3. <<a>> \o <<>> = <<a>>
  BY <1>1, ConcatEmptySeq
<1>4. <<>> \o <<b>> = <<b>>
  BY <1>1, ConcatEmptySeq
<1>5. <<>> \o <<>> = <<>>
  BY <1>1, ConcatEmptySeq
<1> QED BY <1>2, <1>3, <1>4, <1>5

(* The topic effect sends what it does to the page's own set. *)
LEMMA TopicEffectAgrees ==
  ASSUME BrowserInv, Agreed, TopicEffect, UNCHANGED hubVars
  PROVE  Agreed'
<1> SUFFICES ASSUME OpenRef(sock)', wsRef' \in clients', NEW t \in AssetTopics
             PROVE  t \in topics' <=> WillListen(wsRef, t)'
  BY DEF Agreed
<1> DEFINE box == mail[wsRef]
           was == wsRef \in subscriptions[t]
<1>1. /\ UNCHANGED <<sock, wsRef, clients, subscriptions>>
      /\ topics' = IF EffectJoins THEN EffectKept \cup {shown} ELSE EffectKept
      /\ EffectMail \in Seq(Message)
      /\ mail' = IF ~OpenRef(sock) THEN mail ELSE [mail EXCEPT ![wsRef] = @ \o EffectMail]
  BY TopicEffectIs DEF hubVars
<1>2. OpenRef(sock) /\ wsRef \in clients /\ (t \in topics <=> LastWord(box, t, was))
  BY <1>1, WillListenIs DEF OpenRef, Agreed
<1>3. wsRef \in 1..MaxSockets /\ mail \in [1..MaxSockets -> Seq(Message)]
  BY <1>2, OpenRefIn DEF BrowserInv, TopicsOK
<1>4. mail'[wsRef] = box \o EffectMail /\ box \in Seq(Message)
  BY <1>1, <1>2, <1>3
<1>5. WillListen(wsRef, t)' <=> LastWord(mail'[wsRef], t, was)
  BY <1>1 DEF WillListen, LastWord, AboutIn
<1> DEFINE off == [action |-> "unsubscribe", topic |-> effect.topic]
           on == [action |-> "subscribe", topic |-> shown]
<1> HIDE DEF box, was
<1>6. LastWord(box \o EffectMail, t, was) <=> LastWord(EffectMail, t, t \in topics)
  <2>1. LastWord(box \o EffectMail, t, was) <=> LastWord(EffectMail, t, LastWord(box, t, was))
    BY <1>1, <1>4, SentLater
  <2> QED BY <1>2, <2>1 DEF LastWord
<1>7. EffectMail = IF EffectLeaves THEN IF EffectJoins THEN <<off, on>> ELSE <<off>>
                   ELSE IF EffectJoins THEN <<on>> ELSE <<>>
  <2> DEFINE first == IF EffectLeaves THEN <<off>> ELSE <<>>
             second == IF EffectJoins THEN <<on>> ELSE <<>>
  <2>1. EffectMail = first \o second
    BY DEF EffectMail
  <2> HIDE DEF off, on
  <2>2. <<off>> \o <<on>> = <<off, on>> /\ <<off>> \o <<>> = <<off>>
        /\ <<>> \o <<on>> = <<on>> /\ <<>> \o <<>> = <<>>
    <3>1. off \in {off, on} /\ on \in {off, on}
      OBVIOUS
    <3> QED BY ONLY <3>1, ShortWords
  <2> QED BY <2>1, <2>2
<1>8. t \in topics' <=> LastWord(EffectMail, t, t \in topics)
  <2>1. CASE EffectLeaves /\ EffectJoins
    <3>1. EffectMail = <<off, on>> /\ DOMAIN <<off, on>> = {1, 2}
          /\ <<off, on>>[1] = off /\ <<off, on>>[2] = on
      BY <1>7, <2>1
    <3>2. topics' = (topics \ {effect.topic}) \cup {shown}
      BY <1>1, <2>1 DEF EffectKept
    <3>3. CASE t = shown
      <4>1. 2 \in AboutIn(EffectMail, t) /\ AboutIn(EffectMail, t) \subseteq {1, 2}
        BY <3>1, <3>3 DEF AboutIn
      <4>2. \A j \in AboutIn(EffectMail, t) : j <= 2
        BY <4>1
      <4>3. EffectMail[2].action = "subscribe"
        BY <3>1
      <4> QED BY <3>2, <3>3, <4>1, <4>2, <4>3 DEF LastWord
    <3>4. CASE t # shown /\ t = effect.topic
      <4>1. AboutIn(EffectMail, t) = {1} /\ EffectMail[1].action = "unsubscribe"
        BY <3>1, <3>4 DEF AboutIn
      <4> QED BY <3>2, <3>4, <4>1 DEF LastWord
    <3>5. CASE t # shown /\ t # effect.topic
      <4>1. AboutIn(EffectMail, t) = {}
        BY <3>1, <3>5 DEF AboutIn
      <4> QED BY <3>2, <3>5, <4>1 DEF LastWord
    <3> QED BY <3>3, <3>4, <3>5
  <2>2. CASE EffectLeaves /\ ~EffectJoins
    <3>1. EffectMail = <<off>> /\ DOMAIN <<off>> = {1} /\ <<off>>[1] = off
      BY <1>7, <2>2
    <3>2. topics' = topics \ {effect.topic}
      BY <1>1, <2>2 DEF EffectKept
    <3>3. AboutIn(EffectMail, t) = IF t = effect.topic THEN {1} ELSE {}
      BY <3>1 DEF AboutIn
    <3> QED BY <3>1, <3>2, <3>3 DEF LastWord
  <2>3. CASE ~EffectLeaves /\ EffectJoins
    <3>1. EffectMail = <<on>> /\ DOMAIN <<on>> = {1} /\ <<on>>[1] = on
      BY <1>7, <2>3
    <3>2. topics' = topics \cup {shown}
      BY <1>1, <2>3 DEF EffectKept
    <3>3. AboutIn(EffectMail, t) = IF t = shown THEN {1} ELSE {}
      BY <3>1 DEF AboutIn
    <3> QED BY <3>1, <3>2, <3>3 DEF LastWord
  <2>4. CASE ~EffectLeaves /\ ~EffectJoins
    <3>1. EffectMail = <<>> /\ topics' = topics
      BY <1>1, <1>7, <2>4 DEF EffectKept
    <3>2. AboutIn(EffectMail, t) = {}
      BY <3>1 DEF AboutIn
    <3> QED BY <3>1, <3>2 DEF LastWord
  <2> QED BY <2>1, <2>2, <2>3, <2>4
<1> QED BY <1>4, <1>5, <1>6, <1>8

(* No other step of the page speaks on an open socket it goes on using. *)
LEMMA QuietAgrees ==
  ASSUME BrowserInv, Agreed, BrowserQuietNext, UNCHANGED hubVars
  PROVE  Agreed'
<1>0. UNCHANGED <<clients, subscriptions>>
  BY DEF hubVars
<1>1. CASE TopicEffect
  BY <1>1, TopicEffectAgrees
<1>2. CASE ~OpenRef(sock)'
  BY <1>2 DEF Agreed
<1>3. CASE /\ UNCHANGED <<wsRef, topics>> /\ (OpenRef(sock)' => OpenRef(sock))
           /\ (OpenRef(sock)' => mail'[wsRef] = mail[wsRef])
  BY <1>0, <1>3 DEF Agreed, WillListen
<1>4. ASSUME NEW socks, RefOK(socks, 0), MakeSocket(socks) PROVE ~OpenRef(sock)'
  BY <1>4, MakeSocketGoesOn DEF OpenRef
<1>5. CASE Activate
  <2>1. CASE wsRef = 0
    BY <1>2, <1>4, <1>5, <2>1 DEF Activate, BrowserInv
  <2>2. CASE wsRef # 0
    BY <1>3, <1>5, <2>2 DEF Activate, OpenRef
  <2> QED BY <2>1, <2>2
<1>6. CASE Rerun
  BY <1>2, <1>4, <1>6, ClosingKeeps DEF Rerun, BrowserInv
<1>7. CASE Deactivate \/ Disconnect \/ \E s : OnClose(s)
  BY <1>2, <1>7 DEF Deactivate, Disconnect, OnClose, OpenRef
<1>8. CASE TimerFires
  <2>1. CASE wsRef # 0 \/ manual
    BY <1>3, <1>8, <2>1 DEF TimerFires, Connect, OpenRef
  <2>2. CASE ~(wsRef # 0 \/ manual)
    BY <1>2, <1>4, <1>8, <2>2 DEF TimerFires, Connect, BrowserInv
  <2> QED BY <2>1, <2>2
<1>9. CASE \E t \in AssetTopics : Show(t)
  BY <1>3, <1>9 DEF Show, OpenRef
<1>10. ASSUME NEW s, Drop(s) PROVE Agreed'
  <2>1. /\ UNCHANGED <<wsRef, topics>> /\ sock' = [sock EXCEPT ![s] = "closing"]
        /\ mail' = [mail EXCEPT ![s] = <<>>]
    BY <1>10 DEF Drop
  <2>2. CASE s = wsRef
    BY <1>2, <2>1, <2>2 DEF OpenRef, BrowserInv, RefOK
  <2>3. CASE s # wsRef
    BY <1>3, <2>1, <2>3 DEF OpenRef, BrowserInv, RefOK
  <2> QED BY <2>2, <2>3
<1> QED BY <1>1, <1>5, <1>6, <1>7, <1>8, <1>9, <1>10 DEF BrowserQuietNext

-----------------------------------------------------------------------------
(* As long as no socket is replaced before its close event, the page       *)
(* follows one socket, and its effect the state of that socket.            *)

(* All the sockets but the last are over; the last one that is not         *)
(* closing is the one in use.                                              *)
OneLive ==
  \A s \in DOMAIN sock : sock[s] # "closed" =>
    s = Len(sock) /\ (sock[s] # "closing" => s = wsRef)

AllClosed(socks) == \A s \in DOMAIN socks : socks[s] = "closed"

(* The React state lags, but says connected of a socket that is open, and  *)
(* not of sockets that are all over.                                       *)
StateFollows ==
  /\ OpenRef(sock) => connected
  /\ AllClosed(sock) => ~connected

(* The effect has run without a connection before a socket opens, and with *)
(* one it keeps its topic among the subscribed ones.                       *)
EffectFollows ==
  /\ wsRef # 0 /\ sock[wsRef] = "connecting" => ~connected /\ ~effect.connected
  /\ OpenRef(sock) /\ effect.connected => effect.topic \in topics

Follows == StateFollows /\ (~superseded => OneLive /\ EffectFollows)

LEMMA FollowsInit == BrowserInit => Follows
BY DEF BrowserInit, Follows, StateFollows, OneLive, EffectFollows, OpenRef, AllClosed

(* A socket that is made when none is closing is made when all are over.   *)
LEMMA MadeAlone ==
  ASSUME BrowserInv, NEW socks, socks = Closing \/ (wsRef = 0 /\ socks = sock),
         MakeSocket(socks), ~superseded',
         Follows
  PROVE  ~superseded /\ AllClosed(socks) /\ AllClosed(sock) /\ ~connected
<1>1. ~superseded /\ \A s \in DOMAIN socks : socks[s] # "closing"
  BY DEF MakeSocket, BrowserInv, FlagsOK
<1>2. OneLive /\ (AllClosed(sock) => ~connected)
  BY <1>1 DEF Follows, StateFollows
<1>3. CASE wsRef = 0
  <2>1. socks = sock
    BY <1>3 DEF Closing
  <2>2. \A s \in DOMAIN sock : s # wsRef
    BY <1>3 DEF BrowserInv, RefOK
  <2> QED BY <1>1, <1>2, <2>1, <2>2 DEF OneLive, AllClosed
<1>4. CASE wsRef # 0
  <2>1. socks = [sock EXCEPT ![wsRef] = "closing"] /\ wsRef \in DOMAIN sock
    BY <1>4 DEF Closing, BrowserInv, RefOK
  <2>2. wsRef \in DOMAIN socks /\ socks[wsRef] = "closing"
    BY <2>1
  <2> QED BY <1>1, <2>2
<1> QED BY <1>1, <1>2, <1>3, <1>4

(* The new socket is the only one, and not open yet. *)
LEMMA MakeSocketFollows ==
  ASSUME BrowserInv, NEW socks, socks = Closing \/ (wsRef = 0 /\ socks = sock),
         MakeSocket(socks), Follows, connected' = connected,
         effect' = TopicDeps \/ (effect = TopicDeps /\ effect' = effect)
  PROVE  Follows'
<1>1. RefOK(socks, 0)
  BY ClosingKeeps DEF BrowserInv
<1>2. /\ wsRef' = Len(socks) + 1 /\ Len(socks) < MaxSockets
      /\ DOMAIN socks = 1..Len(socks) /\ DOMAIN sock' = 1..(Len(socks) + 1)
      /\ Len(sock') = Len(socks) + 1
      /\ \A s \in DOMAIN socks : sock'[s] = socks[s]
      /\ sock'[wsRef'] = "connecting"
  BY <1>1, MakeSocketGoesOn
<1>3. Len(socks) \in Nat
  BY <1>1 DEF RefOK
<1>4. wsRef' \in DOMAIN sock' /\ \A s \in DOMAIN sock' : s # wsRef' => s \in DOMAIN socks
  BY <1>2, <1>3
<1>5. StateFollows'
  BY <1>2, <1>4 DEF StateFollows, OpenRef, AllClosed
<1>6. ASSUME ~superseded' PROVE OneLive' /\ EffectFollows'
  <2>1. AllClosed(socks) /\ ~connected
    BY <1>6, MadeAlone
  <2>2. OneLive'
    BY <1>2, <1>4, <2>1 DEF OneLive, AllClosed
  <2>3. effect'.connected = connected
    BY DEF TopicDeps
  <2>4. EffectFollows'
    BY <1>2, <2>1, <2>3 DEF EffectFollows, OpenRef
  <2> QED BY <2>2, <2>4
<1> QED BY <1>5, <1>6 DEF Follows

(* The page lets go of its socket. *)
LEMMA ClosingFollows ==
  ASSUME BrowserInv, Follows, sock' = Closing, wsRef' = 0, superseded' = superseded,
         connected' \in {connected, FALSE}
  PROVE  Follows'
<1>1. DOMAIN sock' = DOMAIN sock /\ Len(sock') = Len(sock)
      /\ \A s \in DOMAIN sock : sock'[s] = IF s = wsRef THEN "closing" ELSE sock[s]
  BY DEF Closing, BrowserInv, RefOK
<1>2. wsRef # 0 => wsRef \in DOMAIN sock
  BY DEF BrowserInv, RefOK
<1>3. AllClosed(sock') => AllClosed(sock)
  BY <1>1, <1>2 DEF AllClosed
<1>4. StateFollows'
  <2>1. ~OpenRef(sock)'
    BY DEF OpenRef
  <2>2. AllClosed(sock)' => ~connected
    BY <1>3 DEF Follows, StateFollows
  <2>3. ~connected => ~connected'
    BY Zenon
  <2> QED BY <2>1, <2>2, <2>3 DEF StateFollows
<1>5. ASSUME ~superseded PROVE OneLive' /\ EffectFollows'
  <2>1. OneLive
    BY <1>5 DEF Follows
  <2>2. ASSUME NEW s \in DOMAIN sock', sock'[s] # "closed"
        PROVE  s = Len(sock') /\ sock'[s] = "closing"
    <3>1. sock[s] # "closed"
      BY <1>1, <2>2 DEF BrowserInv, RefOK
    <3>2. s = Len(sock) /\ (sock[s] # "closing" => s = wsRef)
      BY <1>1, <2>1, <3>1 DEF OneLive
    <3> QED BY <1>1, <3>2
  <2>3. OneLive'
    BY <2>2 DEF OneLive
  <2> QED BY <2>3 DEF EffectFollows, OpenRef
<1> QED BY <1>4, <1>5 DEF Follows

LEMMA OpensFollows ==
  ASSUME BrowserInv, Follows, NEW s, Opens(s)
  PROVE  Follows'
<1>1. /\ s \in DOMAIN sock /\ sock[s] = "connecting" /\ sock' = [sock EXCEPT ![s] = "open"]
      /\ connected' = TRUE /\ UNCHANGED <<wsRef, topics, effect, superseded>>
  BY DEF Opens
<1>2. DOMAIN sock' = DOMAIN sock /\ Len(sock') = Len(sock)
      /\ \A u \in DOMAIN sock : sock'[u] = IF u = s THEN "open" ELSE sock[u]
  BY <1>1 DEF BrowserInv, RefOK
<1>3. StateFollows'
  BY <1>1, <1>2 DEF StateFollows, AllClosed
<1>4. ASSUME ~superseded PROVE OneLive' /\ EffectFollows'
  <2>1. OneLive /\ EffectFollows
    BY <1>4 DEF Follows
  <2>2. s = Len(sock) /\ s = wsRef
    BY <1>1, <2>1 DEF OneLive
  <2>3. OneLive'
    BY <1>1, <1>2, <2>1, <2>2 DEF OneLive
  <2>4. ~effect.connected
    BY <1>1, <2>1, <2>2, <1>1 DEF EffectFollows, BrowserInv, RefOK
  <2>5. EffectFollows'
    BY <1>1, <1>2, <2>2, <2>4 DEF EffectFollows
  <2> QED BY <2>3, <2>5
<1> QED BY <1>1, <1>3, <1>4 DEF Follows

LEMMA DropFollows ==
  ASSUME BrowserInv, Follows, NEW s, Drop(s)
  PROVE  Follows'
<1>1. /\ s \in DOMAIN sock /\ sock[s] # "closed" /\ sock' = [sock EXCEPT ![s] = "closing"]
      /\ UNCHANGED <<wsRef, topics, effect, superseded, connected>>
  BY DEF Drop
<1>2. DOMAIN sock' = DOMAIN sock /\ Len(sock') = Len(sock)
      /\ \A u \in DOMAIN sock : sock'[u] = IF u = s THEN "closing" ELSE sock[u]
  BY <1>1 DEF BrowserInv, RefOK
<1>3. wsRef # 0 => wsRef \in DOMAIN sock
  BY DEF BrowserInv, RefOK
<1>4. StateFollows'
  BY <1>1, <1>2, <1>3 DEF Follows, StateFollows, AllClosed, OpenRef
<1>5. ASSUME ~superseded PROVE OneLive' /\ EffectFollows'
  BY <1>1, <1>2, <1>3, <1>5 DEF Follows, OneLive, EffectFollows, OpenRef
<1> QED BY <1>1, <1>4, <1>5 DEF Follows

LEMMA OnCloseFollows ==
  ASSUME BrowserInv, Follows, NEW s, OnClose(s)
  PROVE  Follows'
<1>1. /\ s \in DOMAIN sock /\ sock[s] = "closing" /\ sock' = [sock EXCEPT ![s] = "closed"]
      /\ wsRef' = 0 /\ connected' = FALSE /\ UNCHANGED superseded
  BY DEF OnClose
<1>2. DOMAIN sock' = DOMAIN sock /\ Len(sock') = Len(sock)
      /\ \A u \in DOMAIN sock : sock'[u] = IF u = s THEN "closed" ELSE sock[u]
  BY <1>1 DEF BrowserInv, RefOK
<1>3. StateFollows' /\ EffectFollows'
  BY <1>1 DEF StateFollows, EffectFollows, OpenRef
<1>4. ASSUME ~superseded PROVE OneLive'
  <2>1. \A u \in DOMAIN sock : u # s => sock[u] = "closed"
    BY <1>1, <1>4 DEF Follows, OneLive
  <2> QED BY <1>2, <2>1 DEF OneLive
<1> QED BY <1>1, <1>3, <1>4 DEF Follows

LEMMA TopicEffectFollows ==
  ASSUME BrowserInv, Follows, TopicEffect
  PROVE  Follows'
<1>1. /\ UNCHANGED <<sock, wsRef, connected, superseded>> /\ effect' = TopicDeps
      /\ topics' = IF EffectJoins THEN EffectKept \cup {shown} ELSE EffectKept
  BY TopicEffectIs
<1>2. StateFollows'
  BY <1>1 DEF Follows, StateFollows, AllClosed, OpenRef
<1>3. ASSUME ~superseded PROVE OneLive' /\ EffectFollows'
  <2>1. OneLive'
    BY <1>1, <1>3 DEF Follows, OneLive
  <2>2. effect'.connected = connected /\ effect'.topic = shown
    BY <1>1 DEF TopicDeps
  <2>3. OpenRef(sock) /\ connected => shown \in topics'
    BY <1>1 DEF EffectJoins
  <2>4. EffectFollows'
    BY <1>1, <1>3, <2>2, <2>3 DEF Follows, EffectFollows, OpenRef
  <2> QED BY <2>1, <2>4
<1> QED BY <1>1, <1>2, <1>3 DEF Follows

LEMMA FollowsQuiet ==
  ASSUME BrowserInv, Follows, BrowserQuietNext
  PROVE  Follows'
<1>1. CASE UNCHANGED <<sock, wsRef, connected, topics, effect, superseded>>
  BY <1>1 DEF Follows, StateFollows, OneLive, EffectFollows, AllClosed, OpenRef
<1>2. CASE Activate
  <2>1. CASE wsRef = 0
    <3>1. MakeSocket(sock) /\ effect' = TopicDeps /\ connected' = connected
      BY <1>2, <2>1 DEF Activate
    <3> QED BY <2>1, <3>1, MakeSocketFollows
  <2>2. CASE wsRef # 0
    BY <1>1, <1>2, <2>2 DEF Activate
  <2> QED BY <2>1, <2>2
<1>3. CASE Deactivate \/ Disconnect
  <2>1. sock' = Closing /\ wsRef' = 0 /\ superseded' = superseded
        /\ connected' \in {connected, FALSE}
    BY <1>3 DEF Deactivate, Disconnect
  <2> QED BY <2>1, ClosingFollows
<1>4. CASE Rerun
  <2>1. MakeSocket(Closing) /\ effect' = TopicDeps /\ connected' = connected
    BY <1>4 DEF Rerun
  <2> QED BY <2>1, MakeSocketFollows
<1>5. CASE TimerFires
  <2>1. effect = TopicDeps /\ effect' = effect /\ connected' = connected /\ topics' = topics
        /\ Connect
    BY <1>5 DEF TimerFires
  <2>2. CASE wsRef # 0 \/ manual
    BY <1>1, <2>1, <2>2 DEF Connect
  <2>3. CASE ~(wsRef # 0 \/ manual)
    <3>1. wsRef = 0 /\ MakeSocket(sock)
      BY <2>1, <2>3 DEF Connect
    <3> QED BY <2>1, <3>1, MakeSocketFollows
  <2> QED BY <2>2, <2>3
<1>6. CASE \E t \in AssetTopics : Show(t)
  BY <1>1, <1>6 DEF Show
<1> QED BY <1>2, <1>3, <1>4, <1>5, <1>6, TopicEffectFollows, DropFollows, OnCloseFollows
        DEF BrowserQuietNext

-----------------------------------------------------------------------------
(* The two ends of a socket agree: the inductive invariant of the feed. *)
AgreementInv == FeedInv /\ Agreed /\ Follows

LEMMA AgreementInvInit == FeedInit => AgreementInv
<1> SUFFICES ASSUME FeedInit PROVE AgreementInv
  OBVIOUS
<1>1. Agreed
  BY DEF FeedInit, BrowserInit, Agreed, OpenRef
<1> QED BY <1>1, FeedInvInit, FollowsInit DEF FeedInit, AgreementInv

(* What the server does by itself is about other sockets, or ends this one. *)
LEMMA ServerAgrees ==
  ASSUME FeedInv, Agreed, UNCHANGED browserVars,
         \/ \E s \in Sockets : ServerNotices(s)
         \/ \E t \in Topics, failing \in SUBSET Sockets :
              Broadcast(t, failing) \/ RemoteBroadcast(t, failing)
         \/ \E t \in Topics : Ages(t)
  PROVE  Agreed'
<1>1. UNCHANGED <<sock, wsRef, topics, mail>>
  BY DEF browserVars
<1>2. subscriptions \in [Topics -> SUBSET Sockets]
  BY DEF FeedInv, FeedTypes, HubInv, BookTypes
<1>3. CASE UNCHANGED <<clients, subscriptions>>
  BY <1>1, <1>3 DEF Agreed, WillListen, OpenRef
<1>4. ASSUME NEW gone, HandleDisconnect(gone) PROVE Agreed'
  <2> SUFFICES ASSUME OpenRef(sock)', wsRef' \in clients', NEW t \in AssetTopics
               PROVE  t \in topics' <=> WillListen(wsRef, t)'
    BY DEF Agreed
  <2>1. wsRef \in clients /\ wsRef \notin gone /\ OpenRef(sock)
    BY <1>1, <1>4 DEF HandleDisconnect, OpenRef
  <2>2. t \in Topics
    BY FeedAssumption
  <2>3. wsRef \in subscriptions'[t] <=> wsRef \in subscriptions[t]
    BY <1>4, <2>1, <2>2 DEF HandleDisconnect, Without
  <2>4. WillListen(wsRef, t)' <=> WillListen(wsRef, t)
    BY <1>1, <2>3 DEF WillListen
  <2> QED BY <1>1, <2>1, <2>4 DEF Agreed
<1>5. ASSUME NEW s \in Sockets, ServerNotices(s) PROVE Agreed'
  BY <1>3, <1>4, <1>5 DEF ServerNotices, StopsBeingReady, SocketCloses
<1>6. ASSUME NEW t \in Topics, NEW failing,
             Broadcast(t, failing) \/ RemoteBroadcast(t, failing) \/ Ages(t)
      PROVE  Agreed'
  BY <1>3, <1>4, <1>6 DEF Broadcast, RemoteBroadcast, Ages
<1> QED BY <1>5, <1>6

LEMMA AgreementInvNext == AgreementInv /\ [FeedNext]_feedVars => AgreementInv'
<1> SUFFICES ASSUME AgreementInv, [FeedNext]_feedVars PROVE AgreementInv'
  OBVIOUS
<1>1. FeedInv' /\ FeedInv /\ BrowserInv
  BY FeedInvNext DEF AgreementInv, FeedInv, FeedTypes
<1>2. UNCHANGED browserVars => Follows'
  BY DEF AgreementInv, Follows, StateFollows, OneLive, EffectFollows, AllClosed, OpenRef,
         browserVars
<1>3. CASE UNCHANGED feedVars
  <2>1. Agreed'
    BY <1>3 DEF AgreementInv, Agreed, WillListen, OpenRef, feedVars, hubVars, browserVars
  <2> QED BY <1>1, <1>2, <1>3, <2>1 DEF AgreementInv, feedVars
<1>4. CASE BrowserQuietNext /\ UNCHANGED hubVars
  BY <1>1, <1>4, QuietAgrees, FollowsQuiet DEF AgreementInv
<1>5. ASSUME NEW s \in Sockets, Handshake(s) PROVE AgreementInv'
  BY <1>1, <1>5, HandshakeAgrees, OpensFollows DEF AgreementInv, Handshake
<1>6. ASSUME NEW s \in Sockets, Delivered(s) PROVE AgreementInv'
  <2>1. Follows'
    BY <1>6 DEF Delivered, AgreementInv, Follows, StateFollows, OneLive, EffectFollows,
                AllClosed, OpenRef
  <2> QED BY <1>1, <1>6, <2>1, DeliveredAgrees DEF AgreementInv
<1>7. ASSUME UNCHANGED browserVars,
             \/ \E s \in Sockets : ServerNotices(s)
             \/ \E t \in Topics, failing \in SUBSET Sockets :
                  Broadcast(t, failing) \/ RemoteBroadcast(t, failing)
             \/ \E t \in Topics : Ages(t)
      PROVE  AgreementInv'
  BY <1>1, <1>2, <1>7, ServerAgrees DEF AgreementInv
<1>8. ASSUME NEW s \in Sockets, ServerNotices(s) PROVE UNCHANGED browserVars
  BY <1>8 DEF ServerNotices
<1> QED BY <1>3, <1>4, <1>5, <1>6, <1>7, <1>8 DEF FeedNext

LEMMA AgreementSuffices == AgreementInv => BothEndsAgree
<1> SUFFICES ASSUME AgreementInv, OpenRef(sock), wsRef \in clients
             PROVE  /\ \A t \in AssetTopics : t \in topics <=> WillListen(wsRef, t)
                    /\ ~superseded /\ effect = TopicDeps => shown \in topics
  BY DEF BothEndsAgree
<1>1. \A t \in AssetTopics : t \in topics <=> WillListen(wsRef, t)
  BY DEF AgreementInv, Agreed
<1>2. ASSUME ~superseded, effect = TopicDeps PROVE shown \in topics
  <2>1. effect.connected = connected /\ effect.topic = shown
    BY <1>2 DEF TopicDeps
  <2>2. connected /\ (effect.connected => effect.topic \in topics)
    BY <1>2 DEF AgreementInv, Follows, StateFollows, EffectFollows
  <2> QED BY <2>1, <2>2
<1> QED BY <1>1, <1>2

(* Through drops, handshakes, renders, navigation, disconnections, sends   *)
(* that throw and whatever is on its way, the page and the server never    *)
(* disagree about what an open socket is subscribed to; and a page that    *)
(* has settled has asked for its asset, if no socket was ever replaced     *)
(* before its close event.  This is the safety that TopicRestored rests on.*)
THEOREM SubscriptionsAgree == FeedSpec => []BothEndsAgree
BY AgreementInvInit, AgreementInvNext, AgreementSuffices, PTL DEF FeedSpec

-----------------------------------------------------------------------------
(* The hook's own promise. *)

StrandedInv == (manual => refused) /\ (active /\ ~refused => wsRef # 0 \/ timers > 0)

LEMMA StrandedInvInit == BrowserInit => StrandedInv
BY DEF BrowserInit, StrandedInv

LEMMA StrandedInvNext ==
  ASSUME BrowserInv, StrandedInv, BrowserQuietNext \/ \E s : Opens(s)
  PROVE  StrandedInv'
<1>1. ASSUME NEW socks, RefOK(socks, 0), MakeSocket(socks) PROVE wsRef' # 0
  BY <1>1, MakeSocketGoesOn DEF RefOK
<1>2. RefOK(Closing, 0) /\ (wsRef = 0 => RefOK(sock, 0))
  BY ClosingKeeps DEF BrowserInv
<1>3. CASE Activate
  BY <1>1, <1>2, <1>3 DEF Activate, StrandedInv
<1>4. CASE Deactivate
  BY <1>4 DEF Deactivate, StrandedInv
<1>5. CASE Rerun
  BY <1>1, <1>2, <1>5 DEF Rerun, StrandedInv
<1>6. CASE Disconnect
  BY <1>6 DEF Disconnect, StrandedInv
<1>7. CASE TimerFires
  <2>1. (manual => refused)'
    BY <1>7 DEF TimerFires, StrandedInv
  <2>2. ASSUME active, ~refused PROVE wsRef' # 0
    <3>1. CASE wsRef # 0 \/ manual
      BY <1>7, <2>2, <3>1 DEF TimerFires, Connect, StrandedInv
    <3>2. CASE ~(wsRef # 0 \/ manual)
      BY <1>1, <1>2, <1>7, <3>2 DEF TimerFires, Connect
    <3> QED BY <3>1, <3>2
  <2> QED BY <1>7, <2>1, <2>2 DEF TimerFires, StrandedInv
<1>8. CASE TopicEffect \/ (\E t \in AssetTopics : Show(t)) \/ \E s : Drop(s)
  <2>1. UNCHANGED <<active, manual, refused, wsRef, timers>>
    BY <1>8, TopicEffectIs DEF Show, Drop
  <2> QED BY <2>1 DEF StrandedInv
<1>9. CASE \E s : Opens(s)
  BY <1>9 DEF Opens, StrandedInv
<1>10. CASE \E s : OnClose(s)
  <2>1. UNCHANGED <<active, manual, refused>> /\ wsRef' = 0
        /\ (~manual => timers' = Scheduled(timers))
    BY <1>10 DEF OnClose
  <2>2. timers \in Nat
    BY DEF BrowserInv, TimersOK
  <2>3. Scheduled(timers) > 0
    BY <2>2 DEF Scheduled
  <2> QED BY <2>1, <2>3 DEF StrandedInv
<1> QED BY <1>3, <1>4, <1>5, <1>6, <1>7, <1>8, <1>9, <1>10 DEF BrowserQuietNext

(* A hook that is mounted and was not told to disconnect has a socket or a *)
(* timer that will make one, and nothing will stop it from connecting.     *)
(* This is the safety that FeedRecovers rests on.                          *)
THEOREM HookIsNeverStranded == FeedSpec => []NeverStranded
<1>1. FeedInit => FeedInv /\ StrandedInv
  BY FeedInvInit, StrandedInvInit DEF FeedInit
<1>2. FeedInv /\ StrandedInv /\ [FeedNext]_feedVars => FeedInv' /\ StrandedInv'
  <2> SUFFICES ASSUME FeedInv, StrandedInv, [FeedNext]_feedVars PROVE StrandedInv'
    BY FeedInvNext
  <2>1. CASE UNCHANGED <<active, manual, refused, wsRef, timers>>
    BY <2>1 DEF StrandedInv
  <2>2. CASE BrowserQuietNext \/ \E s : Opens(s)
    BY <2>2, StrandedInvNext DEF FeedInv, FeedTypes
  <2> QED BY <2>1, <2>2 DEF FeedNext, Handshake, Delivered, ServerNotices, feedVars, browserVars
<1>3. FeedInv /\ StrandedInv => NeverStranded
  BY DEF StrandedInv, NeverStranded
<1> QED BY <1>1, <1>2, <1>3, PTL DEF FeedSpec

-----------------------------------------------------------------------------
(* The wallet session: what the page holds in each state of its machine. *)

(* The key of the page goes with the state of the machine; the shape of    *)
(* the two is all the induction needs.                                     *)
WalletInv ==
  /\ machine \in {"Disconnected", "RequestingAccess", "Connected", "NetworkMismatch"}
  /\ KeyOnlyWhileLinked

(* At the start there is no key and no connection. *)
LEMMA WalletInvInit == WalletInit => WalletInv
BY DEF WalletInit, WalletInv, KeyOnlyWhileLinked

(* Refusals and timeouts take the key away with the request.               *)
LEMMA GiveUpKeepsInv == WalletInv /\ EventGiveUp => WalletInv'
BY DEF WalletInv, KeyOnlyWhileLinked, EventGiveUp

(* A request that is granted brings a key, in whatever state it finds the  *)
(* machine.                                                                *)
LEMMA ResolveKeepsInv ==
  ASSUME NEW key \in Accounts, NEW n, WalletInv, EventResolve(key, n)
  PROVE  WalletInv'
BY WalletAssumption DEF WalletInv, KeyOnlyWhileLinked, EventResolve

(* Every step of the session keeps the invariant. *)
LEMMA WalletInvNext == WalletInv /\ [WalletNext]_walletVars => WalletInv'
<1> SUFFICES ASSUME WalletInv, [WalletNext]_walletVars PROVE WalletInv'
  OBVIOUS
<1>1. CASE ConnectWallet
  BY <1>1 DEF ConnectWallet, EventConnect, WalletInv, KeyOnlyWhileLinked
<1>2. CASE TimeoutFires
  BY <1>2, GiveUpKeepsInv DEF TimeoutFires
<1>3. CASE DisconnectWallet
  BY <1>3 DEF DisconnectWallet, EventDisconnect, WalletInv, KeyOnlyWhileLinked
<1>4. ASSUME NEW r \in 1..MaxRequests, Answered(r) PROVE WalletInv'
  BY <1>4, GiveUpKeepsInv, ResolveKeepsInv DEF Answered
<1>5. ASSUME NEW n \in Networks \cup {Null}, NotifyNetworkChange(n) PROVE WalletInv'
  BY <1>5 DEF NotifyNetworkChange, EventNetworkChange, WalletInv, KeyOnlyWhileLinked
<1>6. CASE UNCHANGED walletVars
  BY <1>6 DEF walletVars, WalletInv, KeyOnlyWhileLinked
<1> QED BY <1>1, <1>2, <1>3, <1>4, <1>5, <1>6 DEF WalletNext

(* A page that says connected has an account, one that says disconnected   *)
(* has none: late answers of abandoned requests included.                  *)
THEOREM LinkedPagesHaveKeys == WalletSpec => []KeyOnlyWhileLinked
<1>1. WalletInv => KeyOnlyWhileLinked
  BY DEF WalletInv
<1> QED BY WalletInvInit, WalletInvNext, <1>1, PTL DEF WalletSpec

-----------------------------------------------------------------------------
(* The session: types, and the timer of a request. *)

WalletTyped == WalletTypeOK /\ RequestsTimed

LEMMA WalletTypedInit == WalletInit => WalletTyped
<1> SUFFICES ASSUME WalletInit PROVE WalletTyped
  OBVIOUS
<1>1. 0 \in 0..MaxRequests /\ 0 \in 0..MaxMoves
  BY WalletAssumption
<1>2. /\ asked \in 0..MaxRequests /\ moves \in 0..MaxMoves /\ requests \subseteq 1..asked
      /\ expected \in {DefaultNetwork, ExpectedNetwork}
  BY <1>1 DEF WalletInit
<1> QED BY <1>2 DEF WalletInit, WalletTyped, WalletTypeOK, RequestsTimed

LEMMA WalletTypedNext == WalletTyped /\ [WalletNext]_walletVars => WalletTyped'
<1> SUFFICES ASSUME WalletTyped, [WalletNext]_walletVars PROVE WalletTyped'
  OBVIOUS
<1>0. MaxRequests \in Nat /\ MaxMoves \in Nat
  BY WalletAssumption
<1>1. CASE UNCHANGED walletVars
  BY <1>1 DEF walletVars, WalletTyped, WalletTypeOK, RequestsTimed
<1>2. CASE ConnectWallet
  <2>1. asked' = asked + 1 /\ asked \in Nat /\ asked < MaxRequests
        /\ requests' = requests \cup {asked'} /\ requests \subseteq 1..asked
    BY <1>2, <1>0 DEF ConnectWallet, WalletTyped, WalletTypeOK
  <2>2. asked' \in 0..MaxRequests /\ requests' \subseteq 1..asked'
    BY <1>0, <2>1
  <2>3. timeoutSet' = TRUE /\ UNCHANGED <<moves, publicKey, network, expected>>
        /\ machine' \in {machine, "RequestingAccess"}
    BY <1>2 DEF ConnectWallet, EventConnect, ArmTimeout
  <2> QED BY <2>2, <2>3 DEF WalletTyped, WalletTypeOK, RequestsTimed
<1>3. EventGiveUp => /\ machine' \in {machine, "Disconnected"} /\ machine' # "RequestingAccess"
                     /\ publicKey' \in {publicKey, Null} /\ UNCHANGED <<network, expected>>
  BY DEF EventGiveUp
<1>4. CASE TimeoutFires
  BY <1>3, <1>4 DEF TimeoutFires, WalletTyped, WalletTypeOK, RequestsTimed
<1>5. ASSUME NEW r \in 1..MaxRequests, Answered(r) PROVE WalletTyped'
  <2>1. requests' = requests \ {r} /\ timeoutSet' = FALSE /\ UNCHANGED <<asked, moves>>
    BY <1>5 DEF Answered
  <2>2. CASE EventGiveUp
    BY <1>3, <2>1, <2>2 DEF WalletTyped, WalletTypeOK, RequestsTimed
  <2>3. ASSUME NEW key \in Accounts, NEW n \in Networks \cup {Null}, EventResolve(key, n)
        PROVE  WalletTyped'
    <3>1. /\ machine' \in {machine, "Connected", "NetworkMismatch"}
          /\ machine' # "RequestingAccess"
          /\ publicKey' \in {publicKey, key} /\ network' \in {network, n} /\ UNCHANGED expected
      BY <2>3 DEF EventResolve
    <3> QED BY <2>1, <3>1 DEF WalletTyped, WalletTypeOK, RequestsTimed
  <2> QED BY <1>5, <2>2, <2>3 DEF Answered
<1>6. WalletMove => moves' \in 0..MaxMoves /\ UNCHANGED <<requests, asked>>
  BY <1>0 DEF WalletMove, WalletTyped, WalletTypeOK
<1>7. CASE DisconnectWallet
  <2>1. /\ machine' = "Disconnected" /\ publicKey' \in {publicKey, Null}
        /\ network' \in {network, Null} /\ expected' \in {expected, DefaultNetwork}
        /\ timeoutSet' = FALSE
    BY <1>7 DEF DisconnectWallet, EventDisconnect
  <2> QED BY <1>6, <1>7, <2>1 DEF DisconnectWallet, WalletTyped, WalletTypeOK, RequestsTimed
<1>8. ASSUME NEW n \in Networks \cup {Null}, NotifyNetworkChange(n) PROVE WalletTyped'
  <2>1. /\ machine' = machine \/ machine' \in {"Connected", "NetworkMismatch"}
        /\ network' \in {network, n} /\ UNCHANGED <<publicKey, expected, timeoutSet>>
    BY <1>8 DEF NotifyNetworkChange, EventNetworkChange
  <2>2. moves' \in 0..MaxMoves /\ UNCHANGED <<requests, asked>>
    BY <1>6, <1>8 DEF NotifyNetworkChange
  <2>3. machine \in {"Disconnected", "RequestingAccess", "Connected", "NetworkMismatch"}
        /\ (machine = "RequestingAccess" => timeoutSet) /\ timeoutSet \in BOOLEAN
    BY DEF WalletTyped, WalletTypeOK, RequestsTimed
  <2>4. machine' \in {"Disconnected", "RequestingAccess", "Connected", "NetworkMismatch"}
    BY ONLY <2>1, <2>3
  <2>5. machine' = "RequestingAccess" => machine = "RequestingAccess"
    BY ONLY <2>1
  <2>6. RequestsTimed'
    BY <2>1, <2>3, <2>5 DEF RequestsTimed
  <2>7. network' \in Networks \cup {Null}
    BY <2>1 DEF WalletTyped, WalletTypeOK
  <2> QED BY <2>1, <2>2, <2>3, <2>4, <2>6, <2>7 DEF WalletTyped, WalletTypeOK
<1> QED BY <1>1, <1>2, <1>4, <1>5, <1>7, <1>8 DEF WalletNext

(* Whichever request an answer belongs to and whichever timer it clears,   *)
(* the machine asks for access only while a timer runs that will end it.   *)
(* This is the safety that RequestsEnd rests on.                           *)
THEOREM RequestsAreTimed == WalletSpec => []RequestsTimed
<1>1. WalletTyped => RequestsTimed
  BY DEF WalletTyped
<1> QED BY WalletTypedInit, WalletTypedNext, <1>1, PTL DEF WalletSpec

-----------------------------------------------------------------------------
(* The offline queue: no action is dropped that the server has not carried *)
(* out.                                                                    *)

(* A flush past a good answer is about an action that was carried out.     *)
SuccessesExecuted ==
  \A f \in Flushes : stage[f] = "succeeded" =>
    (Head(todo[f]) \in Actions => executed[Head(todo[f])] > 0)

(* The types the argument needs; what is in the snapshots is not one.      *)
QueueTypes ==
  /\ status \in [Actions -> {"absent", "pending", "completed", "failed"}]
  /\ executed \in [Actions -> Nat]
  /\ queued \subseteq Actions
  /\ stage \in [Flushes -> Stages]
  /\ DOMAIN todo = Flushes

OfflineInv ==
  /\ QueueTypes
  /\ SuccessesExecuted
  /\ ClearedWasExecuted

(* Counting one more, of whatever is counted. *)
LEMMA CountingUp ==
  ASSUME NEW S, NEW F \in [S -> Nat], NEW x, NEW G, G = [F EXCEPT ![x] = @ + 1]
  PROVE  /\ G \in [S -> Nat]
         /\ \A b \in S : G[b] >= F[b]
         /\ x \in S => G[x] > 0
<1>1. \A b \in S : F[b] \in Nat /\ G[b] = IF b = x THEN F[b] + 1 ELSE F[b]
  OBVIOUS
<1>2. DOMAIN G = S /\ G = [b \in DOMAIN G |-> G[b]]
  OBVIOUS
<1>3. \A b \in S : G[b] \in Nat /\ G[b] >= F[b]
  BY <1>1
<1>4. x \in S => G[x] > 0
  BY <1>1
<1>5. G \in [S -> Nat]
  BY <1>2, <1>3
<1> QED BY <1>3, <1>4, <1>5

(* Before anything is queued there is nothing to lose. *)
LEMMA OfflineInvInit == OfflineInit => OfflineInv
BY DEF OfflineInit, OfflineInv, QueueTypes, SuccessesExecuted, ClearedWasExecuted, Stages

(* A new entry is pending; the others keep what they have. *)
LEMMA QueueingKeepsInv ==
  ASSUME OfflineInv, NEW a \in Actions, QueueAction(a)
  PROVE  OfflineInv'
BY DEF QueueAction, OfflineInv, QueueTypes, SuccessesExecuted, ClearedWasExecuted

(* Starting, losing and ending flushes touches no entry. *)
LEMMA BookkeepingKeepsInv ==
  ASSUME OfflineInv,
         \/ HandleOffline \/ Reload
         \/ \E f \in Flushes : \/ HandleOnline(f) \/ ProcessQueue(f)
                               \/ StorageFails(f) \/ TransactionAborts(f) \/ EndFlush(f)
  PROVE  OfflineInv'
<1>1. CASE HandleOffline
  BY <1>1 DEF HandleOffline, OfflineInv, QueueTypes, SuccessesExecuted, ClearedWasExecuted
<1>2. CASE Reload
  BY <1>2 DEF Reload, OfflineInv, QueueTypes, SuccessesExecuted, ClearedWasExecuted, Stages
<1>3. ASSUME NEW f \in Flushes, HandleOnline(f) \/ ProcessQueue(f) PROVE OfflineInv'
  BY <1>3 DEF HandleOnline, ProcessQueue, StartFlush, OfflineInv, QueueTypes,
              SuccessesExecuted, ClearedWasExecuted, Stages
<1>4. ASSUME NEW f \in Flushes, StorageFails(f) PROVE OfflineInv'
  BY <1>4 DEF StorageFails, OfflineInv, QueueTypes, SuccessesExecuted,
              ClearedWasExecuted, Stages
<1>5. ASSUME NEW f \in Flushes, EndFlush(f) PROVE OfflineInv'
  BY <1>5 DEF EndFlush, OfflineInv, QueueTypes, SuccessesExecuted, ClearedWasExecuted, Stages
<1>6. ASSUME NEW f \in Flushes, TransactionAborts(f) PROVE OfflineInv'
  BY <1>6 DEF TransactionAborts, OfflineInv, QueueTypes, SuccessesExecuted,
              ClearedWasExecuted, Stages
<1> QED BY <1>1, <1>2, <1>3, <1>4, <1>5, <1>6

(* A snapshot is taken whatever it holds. *)
LEMMA ListingKeepsInv ==
  ASSUME OfflineInv, NEW f \in Flushes, ListPending(f)
  PROVE  OfflineInv'
<1> DEFINE order == InKeyOrder({a \in Actions : status[a] = "pending"})
           next == IF {a \in Actions : status[a] = "pending"} = {} THEN "clearing" ELSE "asking"
<1>1. /\ todo' = [todo EXCEPT ![f] = order]
      /\ stage' = [stage EXCEPT ![f] = next]
      /\ UNCHANGED <<status, queued, executed>>
  BY Zenon DEF ListPending
<1>2. next \in {"clearing", "asking"}
  OBVIOUS
<1> HIDE DEF order, next
<1> QED BY <1>1, <1>2 DEF OfflineInv, QueueTypes, SuccessesExecuted, ClearedWasExecuted, Stages

(* A good answer means that the server has acted, and what it has carried  *)
(* out stays carried out.                                                  *)
LEMMA AskingKeepsInv ==
  ASSUME OfflineInv, NEW f \in Flushes, Ask(f)
  PROVE  OfflineInv'
<1> DEFINE a == Head(todo[f])
<1>1. PICK answer \in {"ok", "refused", "lost"}, acted \in BOOLEAN :
        /\ answer = "ok" => acted
        /\ executed' = IF acted THEN [executed EXCEPT ![a] = @ + 1] ELSE executed
        /\ stage' = [stage EXCEPT ![f] = Verdict(answer)]
  BY DEF Ask
<1>2. UNCHANGED <<status, queued, todo>>
  BY DEF Ask
<1> HIDE DEF a
<1>3. /\ executed' \in [Actions -> Nat]
      /\ \A b \in Actions : executed'[b] >= executed[b]
      /\ acted /\ a \in Actions => executed'[a] > 0
  <2>1. executed \in [Actions -> Nat]
    BY DEF OfflineInv, QueueTypes
  <2>2. CASE acted
    <3>1. executed' = [executed EXCEPT ![a] = @ + 1]
      BY <1>1, <2>2
    <3>2. PICK old, new, x : old = executed /\ new = executed' /\ x = a
      OBVIOUS
    <3>3. old \in [Actions -> Nat] /\ new = [old EXCEPT ![x] = @ + 1]
      BY <3>1, <3>2, <2>1
    <3>4. new \in [Actions -> Nat]
      BY ONLY <3>3, CountingUp
    <3>5. \A b \in Actions : new[b] >= old[b]
      BY ONLY <3>3, CountingUp
    <3>6. x \in Actions => new[x] > 0
      BY ONLY <3>3, CountingUp
    <3> QED BY <3>2, <3>4, <3>5, <3>6
  <2>3. CASE ~acted
    <3>1. executed' = executed
      BY <1>1, <2>3
    <3> QED BY <3>1, <2>1, <2>3
  <2> QED BY <2>2, <2>3
<1>4. QueueTypes'
  BY <1>1, <1>2, <1>3 DEF OfflineInv, QueueTypes, Verdict, Stages
<1>5. SuccessesExecuted'
  <2> SUFFICES ASSUME NEW g \in Flushes, stage'[g] = "succeeded", Head(todo[g]) \in Actions
               PROVE  executed'[Head(todo[g])] > 0
    BY <1>2 DEF SuccessesExecuted
  <2>1. CASE g = f
    BY <2>1, <1>1, <1>3 DEF OfflineInv, QueueTypes, Verdict, a
  <2>2. CASE g # f
    <3>1. executed[Head(todo[g])] > 0
      BY <2>2, <1>1 DEF OfflineInv, QueueTypes, SuccessesExecuted
    <3> QED BY <3>1, <1>3 DEF OfflineInv, QueueTypes
  <2> QED BY <2>1, <2>2
<1>6. ClearedWasExecuted'
  BY <1>2, <1>3 DEF OfflineInv, QueueTypes, ClearedWasExecuted
<1> QED BY <1>4, <1>5, <1>6 DEF OfflineInv

(* Marking an action completed, by the flush whose answer was good. *)
LEMMA MarkingCompletedKeepsInv ==
  ASSUME OfflineInv, NEW f \in Flushes, MarkCompleted(f)
  PROVE  OfflineInv'
<1> DEFINE a == Head(todo[f])
<1>1. stage[f] = "succeeded" /\ (a \in Actions => executed[a] > 0)
  BY DEF MarkCompleted, OfflineInv, SuccessesExecuted
<1>2. UNCHANGED <<queued, executed>>
  BY DEF MarkCompleted
<1>3. CASE /\ status' = [status EXCEPT ![a] = IF @ = "absent" THEN @ ELSE "completed"]
           /\ Advance(f)
  <2>1. QueueTypes' /\ SuccessesExecuted'
    BY <1>2, <1>3 DEF Advance, OfflineInv, QueueTypes, SuccessesExecuted, Stages
  <2> HIDE DEF a
  <2>2. ClearedWasExecuted'
    BY <1>1, <1>2, <1>3 DEF OfflineInv, QueueTypes, ClearedWasExecuted
  <2> QED BY <2>1, <2>2 DEF OfflineInv
<1>4. CASE stage' = [stage EXCEPT ![f] = "refused"] /\ UNCHANGED <<status, todo>>
  BY <1>2, <1>4 DEF OfflineInv, QueueTypes, SuccessesExecuted, ClearedWasExecuted, Stages
<1> QED BY <1>3, <1>4 DEF MarkCompleted

(* Marking a failure never makes an entry look done. *)
LEMMA MarkingFailedKeepsInv ==
  ASSUME OfflineInv, NEW f \in Flushes, MarkFailed(f)
  PROVE  OfflineInv'
<1> DEFINE a == Head(todo[f])
<1>1. UNCHANGED <<queued, executed>> /\ Advance(f)
  BY DEF MarkFailed
<1>2. \/ status' = status
      \/ status' = [status EXCEPT ![a] = "failed"]
      \/ status' = [status EXCEPT ![a] = @]
  BY DEF MarkFailed
<1>3. QueueTypes' /\ SuccessesExecuted'
  BY <1>1, <1>2 DEF Advance, OfflineInv, QueueTypes, SuccessesExecuted, Stages
<1> HIDE DEF a
<1>4. ClearedWasExecuted'
  BY <1>1, <1>2 DEF OfflineInv, QueueTypes, ClearedWasExecuted
<1> QED BY <1>3, <1>4 DEF OfflineInv

(* Only completed entries are cleared. *)
LEMMA ClearingKeepsInv ==
  ASSUME OfflineInv, NEW f \in Flushes, ClearCompleted(f)
  PROVE  OfflineInv'
BY DEF ClearCompleted, OfflineInv, QueueTypes, SuccessesExecuted, ClearedWasExecuted, Stages

(* A replay carries out one more action. *)
LEMMA ReplayingKeepsInv ==
  ASSUME OfflineInv, NEW a \in Actions, ReplayInBackground(a)
  PROVE  OfflineInv'
<1>1. executed' = [executed EXCEPT ![a] = @ + 1] /\ UNCHANGED <<status, queued, stage, todo>>
  BY DEF ReplayInBackground
<1>2. executed' \in [Actions -> Nat] /\ \A b \in Actions : executed'[b] >= executed[b]
  BY <1>1 DEF OfflineInv, QueueTypes
<1>3. SuccessesExecuted'
  BY <1>1, <1>2 DEF OfflineInv, QueueTypes, SuccessesExecuted
<1> QED BY <1>1, <1>2, <1>3 DEF OfflineInv, QueueTypes, ClearedWasExecuted

(* Every step keeps the invariant. *)
LEMMA OfflineInvNext == OfflineInv /\ [OfflineNext]_offlineVars => OfflineInv'
<1> SUFFICES ASSUME OfflineInv, [OfflineNext]_offlineVars PROVE OfflineInv'
  OBVIOUS
<1>1. CASE UNCHANGED offlineVars
  BY <1>1 DEF offlineVars, OfflineInv, QueueTypes, SuccessesExecuted, ClearedWasExecuted
<1>2. ASSUME NEW f \in Flushes, FlushStep(f) PROVE OfflineInv'
  BY <1>2, ListingKeepsInv, AskingKeepsInv, MarkingCompletedKeepsInv,
     MarkingFailedKeepsInv, ClearingKeepsInv, BookkeepingKeepsInv DEF FlushStep
<1> QED BY <1>1, <1>2, QueueingKeepsInv, ReplayingKeepsInv, BookkeepingKeepsInv
        DEF OfflineNext

(* No queued action is dropped before the server has carried it out,       *)
(* however many flushes overlap and wherever one of them is cut off.       *)
THEOREM NoActionDropped == OfflineSpec => []ClearedWasExecuted
<1>1. OfflineInv => ClearedWasExecuted
  BY DEF OfflineInv
<1> QED BY OfflineInvInit, OfflineInvNext, <1>1, PTL DEF OfflineSpec

-----------------------------------------------------------------------------
(* The queue: types, and what each flush has in hand. *)

Working == {"asking", "succeeded", "refused"}

QueueSizes ==
  /\ online \in BOOLEAN /\ syncing \in BOOLEAN /\ hung \in BOOLEAN
  /\ retries \in [Actions -> Nat]
  /\ faults \in 0..MaxFaults
  /\ \E n \in Nat : queued \subseteq 1..n
  /\ \A a \in Actions : status[a] # "absent" => a \in queued

InHand ==
  /\ replays \subseteq queued
  /\ todo \in [Flushes -> Seq(queued)]
  /\ \A f \in Flushes : stage[f] \in Working <=> todo[f] # <<>>

OfflineTyped == QueueTypes /\ QueueSizes /\ InHand

LEMMA OfflineWellTyped == OfflineTyped => OfflineTypeOK
BY DEF OfflineTyped, QueueTypes, QueueSizes, InHand, Working, OfflineTypeOK

LEMMA OfflineTypedInit == OfflineInit => OfflineTyped
<1> SUFFICES ASSUME OfflineInit PROVE OfflineTyped
  OBVIOUS
<1>1. QueueTypes
  BY DEF OfflineInit, QueueTypes, Stages
<1>2. \E n \in Nat : queued \subseteq 1..n
  <2>1. queued \subseteq 1..0 /\ 0 \in Nat
    BY DEF OfflineInit
  <2> QED BY <2>1
<1>3. QueueSizes
  <2>1. 0 \in 0..MaxFaults
    BY OfflineAssumption
  <2> QED BY <1>2, <2>1 DEF OfflineInit, QueueSizes
<1>4. InHand
  <2>1. <<>> \in Seq(queued)
    OBVIOUS
  <2> QED BY <2>1 DEF OfflineInit, InHand, Working
<1> QED BY <1>1, <1>3, <1>4 DEF OfflineTyped

(* The keys of a finite set, in order: each is one of them. *)
LEMMA KeysInOrder ==
  ASSUME NEW n \in Nat, NEW ids \in SUBSET (1..n)
  PROVE  /\ InKeyOrder(ids) \in Seq(ids)
         /\ InKeyOrder(ids) = <<>> <=> ids = {}
         /\ Len(InKeyOrder(ids)) = Cardinality(ids)
<1> DEFINE N == Cardinality(ids)
           pick == [k \in 1..N |-> CHOOSE i \in ids : Cardinality({j \in ids : j <= i}) = k]
<1>1. 1 \in Int /\ n \in Int
  OBVIOUS
<1>2. IsFiniteSet(ids) /\ N \in Nat
  BY <1>1, FS_Interval, FS_Subset, FS_CardinalityType
<1>3. N = 0 <=> ids = {}
  BY <1>2, FS_EmptySet
<1>4. \A k \in 1..N : \E i \in ids : Cardinality({j \in ids : j <= i}) = k
  BY KthExists
<1>5. \A k \in 1..N : pick[k] \in ids
  BY <1>4
<1>6. InKeyOrder(ids) = [k \in 1..N |-> [a \in ids |-> a][CHOOSE i \in ids :
                                            Cardinality({j \in ids : j <= i}) = k]]
  BY DEF InKeyOrder, Picked
<1>7. InKeyOrder(ids) = [k \in 1..N |-> [a \in ids |-> a][pick[k]]]
  BY <1>6
<1> HIDE DEF N, pick
<1>8. InKeyOrder(ids) \in [1..N -> ids] /\ DOMAIN InKeyOrder(ids) = 1..N
  BY <1>5, <1>7
<1>9. InKeyOrder(ids) \in Seq(ids) /\ Len(InKeyOrder(ids)) = N
  BY <1>2, <1>8
<1>10. InKeyOrder(ids) = <<>> <=> N = 0
  BY <1>2, <1>9, EmptySeq
<1> QED BY <1>3, <1>9, <1>10 DEF N

LEMMA SeqGrows ==
  ASSUME NEW S, NEW T, S \subseteq T
  PROVE  Seq(S) \subseteq Seq(T)
OBVIOUS

LEMMA QueueingTyped ==
  ASSUME OfflineTyped, NEW a \in Actions, QueueAction(a)
  PROVE  OfflineTyped'
<1>1. /\ queued' = queued \cup {a} /\ status' = [status EXCEPT ![a] = "pending"]
      /\ UNCHANGED <<online, retries, syncing, hung, stage, todo, replays, executed, faults>>
  BY DEF QueueAction
<1>2. QueueTypes'
  BY <1>1 DEF OfflineTyped, QueueTypes
<1>3. \E n \in Nat : queued' \subseteq 1..n
  <2>1. PICK n \in Nat : queued \subseteq 1..n
    BY DEF OfflineTyped, QueueSizes
  <2>2. a \in Nat \ {0}
    BY OfflineAssumption
  <2>3. PICK m \in Nat : m >= n /\ m >= a
    <3>1. n + a \in Nat /\ n + a >= n /\ n + a >= a
      BY <2>2
    <3> QED BY <3>1
  <2>4. \A x \in 1..n : x \in 1..m
    BY <2>3
  <2>5. a \in 1..m
    BY <2>2, <2>3
  <2> QED BY <1>1, <2>1, <2>3, <2>4, <2>5
<1>4. QueueSizes'
  BY <1>1, <1>3 DEF OfflineTyped, QueueTypes, QueueSizes
<1>5. InHand'
  <2>1. Seq(queued) \subseteq Seq(queued')
    BY <1>1, SeqGrows
  <2>2. todo' \in [Flushes -> Seq(queued')]
    BY <1>1, <2>1 DEF OfflineTyped, InHand
  <2> QED BY <1>1, <2>2 DEF OfflineTyped, InHand
<1> QED BY <1>2, <1>4, <1>5 DEF OfflineTyped

LEMMA FaultTyped ==
  ASSUME OfflineTyped, Fault
  PROVE  faults' \in 0..MaxFaults
BY OfflineAssumption DEF OfflineTyped, QueueSizes, Fault

(* What is left of a snapshot, and whether a flush is at work on it. *)
LEMMA StageMoves ==
  ASSUME OfflineTyped, NEW f \in Flushes, NEW next, NEW rest \in Seq(queued),
         next \in Working <=> rest # <<>>,
         stage' = [stage EXCEPT ![f] = next], todo' = [todo EXCEPT ![f] = rest],
         queued' = queued, replays' \subseteq queued
  PROVE  InHand'
<1>1. todo \in [Flushes -> Seq(queued)] /\ stage \in [Flushes -> Stages]
      /\ \A g \in Flushes : stage[g] \in Working <=> todo[g] # <<>>
  BY DEF OfflineTyped, QueueTypes, InHand
<1>2. todo' \in [Flushes -> Seq(queued)]
  BY <1>1
<1>3. \A g \in Flushes : stage'[g] = (IF g = f THEN next ELSE stage[g])
                         /\ todo'[g] = (IF g = f THEN rest ELSE todo[g])
  BY <1>1
<1>4. \A g \in Flushes : stage'[g] \in Working <=> todo'[g] # <<>>
  BY <1>1, <1>3
<1> QED BY <1>2, <1>4 DEF InHand

(* The stage changes and what is in hand does not. *)
LEMMA SameWork ==
  ASSUME OfflineTyped, NEW f \in Flushes, NEW next,
         next \in Working <=> stage[f] \in Working,
         stage' = [stage EXCEPT ![f] = next], todo' = todo,
         queued' = queued, replays' \subseteq queued
  PROVE  InHand'
<1>1. todo[f] \in Seq(queued) /\ todo' = [todo EXCEPT ![f] = todo[f]]
      /\ (stage[f] \in Working <=> todo[f] # <<>>)
  BY DEF OfflineTyped, InHand
<1> QED BY <1>1, StageMoves

LEMMA AdvanceInHand ==
  ASSUME OfflineTyped, NEW f \in Flushes, stage[f] \in Working, Advance(f),
         queued' = queued, replays' = replays
  PROVE  InHand'
<1>1. todo[f] \in Seq(queued) /\ todo[f] # <<>> /\ replays \subseteq queued
  BY DEF OfflineTyped, InHand
<1> DEFINE box == todo[f]
           next == IF Len(box) = 1 THEN "clearing" ELSE "asking"
<1>2. stage' = [stage EXCEPT ![f] = next] /\ todo' = [todo EXCEPT ![f] = Tail(box)]
  BY DEF Advance
<1>3. box \in Seq(queued) /\ box # <<>>
  BY <1>1
<1> HIDE DEF box
<1>4. Tail(box) \in Seq(queued) /\ Len(box) \in Nat \ {0} /\ Len(Tail(box)) = Len(box) - 1
  BY <1>3
<1>5. Tail(box) # <<>> <=> Len(box) # 1
  <2> DEFINE rest == Tail(box)
  <2>1. rest \in Seq(queued)
    BY <1>4
  <2>2. Len(rest) = Len(box) - 1 /\ Len(box) \in Nat \ {0}
    BY <1>4
  <2> HIDE DEF rest
  <2>3. rest = <<>> <=> Len(rest) = 0
    BY ONLY <2>1, EmptySeq
  <2>4. Len(rest) = 0 <=> Len(box) = 1
    BY ONLY <2>2
  <2> QED BY <2>3, <2>4 DEF rest
<1>6. next \in Working <=> Tail(box) # <<>>
  BY <1>5 DEF Working
<1> HIDE DEF next
<1> QED BY <1>1, <1>2, <1>4, <1>6, StageMoves

LEMMA FlushStepTyped ==
  ASSUME OfflineTyped, NEW f \in Flushes, FlushStep(f)
  PROVE  QueueSizes' /\ InHand'
<1>0. /\ stage \in [Flushes -> Stages] /\ status \in [Actions -> {"absent", "pending", "completed", "failed"}]
      /\ retries \in [Actions -> Nat] /\ queued \subseteq Actions
      /\ todo \in [Flushes -> Seq(queued)] /\ replays \subseteq queued
      /\ faults \in 0..MaxFaults
  BY DEF OfflineTyped, QueueTypes, QueueSizes, InHand
<1>1. queued' = queued
  BY DEF FlushStep, ListPending, Ask, MarkCompleted, MarkFailed, ClearCompleted, StorageFails,
         TransactionAborts, EndFlush
<1>2. ASSUME UNCHANGED <<online, retries, status>>, syncing' \in BOOLEAN, hung' \in BOOLEAN,
             faults' \in 0..MaxFaults
      PROVE  QueueSizes'
  BY <1>1, <1>2 DEF OfflineTyped, QueueSizes
<1>3. CASE ListPending(f)
  <2> DEFINE pending == {a \in Actions : status[a] = "pending"}
             next == IF pending = {} THEN "clearing" ELSE "asking"
  <2>1. stage' = [stage EXCEPT ![f] = next] /\ todo' = [todo EXCEPT ![f] = InKeyOrder(pending)]
        /\ UNCHANGED <<online, status, retries, queued, syncing, hung, replays, faults>>
    BY <1>3, Zenon DEF ListPending
  <2>2. pending \subseteq queued /\ \E n \in Nat : queued \subseteq 1..n
    BY DEF OfflineTyped, QueueSizes
  <2> HIDE DEF pending
  <2>3. InKeyOrder(pending) \in Seq(pending) /\ (InKeyOrder(pending) = <<>> <=> pending = {})
    <3>1. PICK n \in Nat : pending \in SUBSET (1..n)
      BY <2>2
    <3> QED BY <3>1, KeysInOrder
  <2>4. InKeyOrder(pending) \in Seq(queued)
    BY <2>2, <2>3, SeqGrows
  <2>5. next \in Working <=> InKeyOrder(pending) # <<>>
    BY <2>3 DEF Working
  <2> HIDE DEF next
  <2>6. InHand'
    BY <1>0, <2>1, <2>4, <2>5, StageMoves
  <2>7. QueueSizes'
    BY <1>0, <1>2, <2>1 DEF OfflineTyped, QueueSizes
  <2> QED BY <2>6, <2>7
<1>4. CASE Ask(f)
  <2> DEFINE a == Head(todo[f])
  <2>1. PICK answer \in {"ok", "refused", "lost"}, acted \in BOOLEAN :
          /\ IF answer = "ok" \/ ~online THEN UNCHANGED faults ELSE Fault
          /\ replays' = IF answer = "lost" THEN replays \cup {a} ELSE replays
          /\ stage' = [stage EXCEPT ![f] = Verdict(answer)]
    BY <1>4 DEF Ask
  <2>2. stage[f] = "asking" /\ UNCHANGED <<online, status, retries, syncing, hung, todo>>
    BY <1>4 DEF Ask
  <2>3. todo[f] # <<>> /\ todo[f] \in Seq(queued)
    BY <1>0, <2>2 DEF OfflineTyped, InHand, Working
  <2>4. a \in queued
    BY <2>3
  <2> HIDE DEF a
  <2>5. replays' \subseteq queued
    BY <1>0, <2>1, <2>4
  <2>6. Verdict(answer) \in Working
    BY DEF Verdict, Working
  <2>7. InHand'
    BY <1>1, <2>1, <2>2, <2>5, <2>6, SameWork DEF Working
  <2>8. faults' \in 0..MaxFaults
    BY <1>0, <2>1, FaultTyped
  <2>9. syncing' \in BOOLEAN /\ hung' \in BOOLEAN
    BY <2>2 DEF OfflineTyped, QueueSizes
  <2> QED BY <1>2, <2>2, <2>7, <2>8, <2>9
<1>5. CASE MarkCompleted(f)
  <2> DEFINE a == Head(todo[f])
  <2>1. stage[f] = "succeeded" /\ UNCHANGED <<online, retries, syncing, hung, replays>>
    BY <1>5 DEF MarkCompleted
  <2>2. CASE /\ status' = [status EXCEPT ![a] = IF @ = "absent" THEN @ ELSE "completed"]
             /\ Advance(f) /\ UNCHANGED faults
    <3>1. InHand'
      BY <1>1, <2>1, <2>2, AdvanceInHand DEF Working
    <3>2. \A b \in Actions : status'[b] # "absent" => status[b] # "absent"
      BY <1>0, <2>2
    <3>3. QueueSizes'
      BY <1>0, <1>1, <2>1, <2>2, <3>2 DEF OfflineTyped, QueueSizes
    <3> QED BY <3>1, <3>3
  <2>3. CASE Fault /\ stage' = [stage EXCEPT ![f] = "refused"] /\ UNCHANGED <<status, todo>>
    <3>1. InHand'
      BY <1>0, <1>1, <2>1, <2>3, SameWork DEF Working
    <3>2. syncing' \in BOOLEAN /\ hung' \in BOOLEAN
      BY <2>1 DEF OfflineTyped, QueueSizes
    <3> QED BY <1>2, <2>1, <2>3, <3>1, <3>2, FaultTyped
  <2> QED BY <1>5, <2>2, <2>3 DEF MarkCompleted
<1>6. CASE MarkFailed(f)
  <2> DEFINE a == Head(todo[f])
             n == retries[a] + 1
  <2>1. stage[f] = "refused" /\ Advance(f) /\ UNCHANGED <<online, syncing, hung, replays, faults>>
    BY <1>6 DEF MarkFailed
  <2>2. InHand'
    BY <1>1, <2>1, AdvanceInHand DEF Working
  <2>3. todo[f] # <<>> /\ todo[f] \in Seq(queued)
    BY <1>0, <2>1 DEF OfflineTyped, InHand, Working
  <2>4. a \in queued
    BY <2>3
  <2>5. n \in Nat
    BY <1>0, <2>4
  <2>6. \/ UNCHANGED <<status, retries>>
        \/ /\ status[a] # "absent" /\ retries' = [retries EXCEPT ![a] = n]
           /\ \/ status' = [status EXCEPT ![a] = "failed"]
              \/ status' = [status EXCEPT ![a] = @]
    BY <1>6 DEF MarkFailed
  <2> HIDE DEF a, n
  <2>7. retries' \in [Actions -> Nat]
    BY <1>0, <2>5, <2>6
  <2>8. \A b \in Actions : status'[b] # "absent" => status[b] # "absent"
    BY <1>0, <2>6
  <2>9. QueueSizes'
    BY <1>1, <2>1, <2>7, <2>8 DEF OfflineTyped, QueueSizes
  <2> QED BY <2>2, <2>9
<1>7. CASE ClearCompleted(f)
  <2>1. /\ stage[f] = "clearing" /\ stage' = [stage EXCEPT ![f] = "ending"]
        /\ UNCHANGED <<online, retries, syncing, hung, todo, replays, faults>>
    BY <1>7 DEF ClearCompleted
  <2>2. InHand'
    BY <1>0, <1>1, <2>1, SameWork DEF Working
  <2>3. \A b \in Actions : status'[b] # "absent" => status[b] # "absent"
    BY <1>7 DEF ClearCompleted
  <2>4. QueueSizes'
    BY <1>1, <2>1, <2>3 DEF OfflineTyped, QueueSizes
  <2> QED BY <2>2, <2>4
<1>8. CASE StorageFails(f)
  <2>1. /\ Fault /\ stage' = [stage EXCEPT ![f] = "ending"] /\ todo' = [todo EXCEPT ![f] = <<>>]
        /\ UNCHANGED <<online, status, retries, syncing, hung, replays>>
    BY <1>8 DEF StorageFails
  <2>2. <<>> \in Seq(queued) /\ "ending" \notin Working
    BY DEF Working
  <2>3. InHand'
    BY <1>0, <1>1, <2>1, <2>2, StageMoves
  <2>4. syncing' \in BOOLEAN /\ hung' \in BOOLEAN
    BY <2>1 DEF OfflineTyped, QueueSizes
  <2> QED BY <1>2, <2>1, <2>3, <2>4, FaultTyped
<1>9. CASE EndFlush(f)
  <2>1. /\ stage[f] = "ending" /\ syncing' = FALSE /\ hung' = FALSE
        /\ stage' = [stage EXCEPT ![f] = "idle"]
        /\ UNCHANGED <<online, status, retries, todo, replays, faults>>
    BY <1>9 DEF EndFlush, Finally
  <2>2. InHand'
    BY <1>0, <1>1, <2>1, SameWork DEF Working
  <2> QED BY <1>0, <1>2, <2>1, <2>2
<1>10. CASE TransactionAborts(f)
  <2>1. /\ Fault /\ stage' = [stage EXCEPT ![f] = "idle"] /\ todo' = [todo EXCEPT ![f] = <<>>]
        /\ hung' = syncing /\ UNCHANGED <<online, status, retries, syncing, replays>>
    BY <1>10 DEF TransactionAborts
  <2>2. <<>> \in Seq(queued) /\ "idle" \notin Working
    BY DEF Working
  <2>3. InHand'
    BY <1>0, <1>1, <2>1, <2>2, StageMoves
  <2>4. syncing' \in BOOLEAN /\ hung' \in BOOLEAN
    BY <2>1 DEF OfflineTyped, QueueSizes
  <2> QED BY <1>2, <2>1, <2>3, <2>4, FaultTyped
<1> QED BY <1>3, <1>4, <1>5, <1>6, <1>7, <1>8, <1>9, <1>10 DEF FlushStep

LEMMA OfflineTypedNext ==
  OfflineInv /\ OfflineTyped /\ [OfflineNext]_offlineVars => OfflineTyped'
<1> SUFFICES ASSUME OfflineInv, OfflineTyped, [OfflineNext]_offlineVars PROVE OfflineTyped'
  OBVIOUS
<1>0. QueueTypes'
  BY OfflineInvNext DEF OfflineInv
<1>1. CASE UNCHANGED offlineVars
  BY <1>1 DEF offlineVars, OfflineTyped, QueueTypes, QueueSizes, InHand
<1>2. ASSUME NEW f \in Flushes, StartFlush(f), online' \in BOOLEAN, faults' \in 0..MaxFaults,
             UNCHANGED <<status, retries, queued, hung, todo, replays>>
      PROVE  OfflineTyped'
  <2>1. stage[f] = "idle" /\ stage' = [stage EXCEPT ![f] = "listing"] /\ syncing' = TRUE
    BY <1>2 DEF StartFlush
  <2>2. replays \subseteq queued
    BY DEF OfflineTyped, InHand
  <2>3. InHand'
    BY <1>2, <2>1, <2>2, SameWork DEF Working
  <2>4. QueueSizes'
    BY <1>2, <2>1 DEF OfflineTyped, QueueSizes
  <2> QED BY <1>0, <2>3, <2>4 DEF OfflineTyped
<1>3. ASSUME NEW f \in Flushes, HandleOnline(f) PROVE OfflineTyped'
  <2>1. online' \in BOOLEAN /\ faults' \in 0..MaxFaults
    BY <1>3 DEF HandleOnline, OfflineTyped, QueueSizes
  <2> QED BY <1>2, <1>3, <2>1 DEF HandleOnline
<1>4. ASSUME NEW f \in Flushes, ProcessQueue(f) PROVE OfflineTyped'
  <2>1. online' \in BOOLEAN /\ faults' \in 0..MaxFaults
    BY <1>4, FaultTyped DEF ProcessQueue, OfflineTyped, QueueSizes
  <2> QED BY <1>2, <1>4, <2>1 DEF ProcessQueue
<1>5. CASE HandleOffline
  <2>1. faults' \in 0..MaxFaults
    BY <1>5, FaultTyped DEF HandleOffline
  <2> QED BY <1>0, <1>5, <2>1 DEF HandleOffline, OfflineTyped, QueueSizes, InHand
<1>6. CASE Reload
  <2>1. faults' \in 0..MaxFaults
    BY <1>6, FaultTyped DEF Reload
  <2>2. QueueSizes'
    BY <1>6, <2>1 DEF Reload, OfflineTyped, QueueSizes
  <2>3. todo' \in [Flushes -> Seq(queued)]
    BY <1>6 DEF Reload
  <2>4. InHand'
    BY <1>6, <2>3 DEF Reload, OfflineTyped, InHand, Working
  <2> QED BY <1>0, <2>2, <2>4 DEF OfflineTyped
<1>7. ASSUME NEW a \in Actions, ReplayInBackground(a) PROVE OfflineTyped'
  BY <1>0, <1>7 DEF ReplayInBackground, OfflineTyped, QueueSizes, InHand
<1>8. ASSUME NEW f \in Flushes, FlushStep(f) PROVE OfflineTyped'
  BY <1>0, <1>8, FlushStepTyped DEF OfflineTyped
<1> QED BY <1>1, <1>3, <1>4, <1>5, <1>6, <1>7, <1>8, QueueingTyped DEF OfflineNext

-----------------------------------------------------------------------------
(* What a flush still has to do. *)

(* The rank of a flush at its stage, with so many actions left. *)
RankAt(st, len, most) ==
  CASE st = "idle"      -> 0
    [] st = "ending"    -> 1
    [] st = "clearing"  -> 2
    [] st = "refused"   -> 3 * len
    [] st = "succeeded" -> 3 * len + 1
    [] st = "asking"    -> 3 * len + 2
    [] st = "listing"   -> 3 * most + 3

LEMMA FlushRankIs ==
  ASSUME NEW f
  PROVE  FlushRank(f) = RankAt(stage[f], Len(todo[f]), Cardinality(queued))
BY DEF FlushRank, RankAt

LEMMA RanksAre ==
  ASSUME NEW len, NEW most
  PROVE  /\ RankAt("idle", len, most) = 0 /\ RankAt("ending", len, most) = 1
         /\ RankAt("clearing", len, most) = 2 /\ RankAt("refused", len, most) = 3 * len
         /\ RankAt("succeeded", len, most) = 3 * len + 1
         /\ RankAt("asking", len, most) = 3 * len + 2
         /\ RankAt("listing", len, most) = 3 * most + 3
BY DEF RankAt

LEMMA AdvanceShrinks ==
  ASSUME OfflineTyped, NEW f \in Flushes, stage[f] \in {"succeeded", "refused"}, Advance(f)
  PROVE  FlushRank(f)' < FlushRank(f)
<1>1. /\ stage \in [Flushes -> Stages] /\ todo \in [Flushes -> Seq(queued)]
      /\ todo[f] # <<>>
  BY DEF OfflineTyped, QueueTypes, InHand, Working
<1> DEFINE box == todo[f]
<1>2. box \in Seq(queued) /\ box # <<>>
  BY <1>1
<1>3. /\ todo'[f] = Tail(box)
      /\ stage'[f] = IF Len(box) = 1 THEN "clearing" ELSE "asking"
  BY <1>1 DEF Advance
<1> HIDE DEF box
<1>4. Len(box) \in Nat \ {0} /\ Len(Tail(box)) = Len(box) - 1
  BY <1>2
<1>5. FlushRank(f)' = RankAt(stage'[f], Len(todo'[f]), Cardinality(queued'))
  BY FlushRankIs DEF FlushRank, RankAt
<1>6. FlushRank(f) \in {3 * Len(box), 3 * Len(box) + 1}
  BY FlushRankIs, RanksAre DEF box
<1>7. CASE Len(box) = 1
  <2>1. FlushRank(f)' = 2
    BY <1>3, <1>5, <1>7, RanksAre
  <2> QED BY <1>6, <1>7, <2>1
<1>8. CASE Len(box) # 1
  <2>1. FlushRank(f)' = 3 * (Len(box) - 1) + 2
    BY <1>3, <1>4, <1>5, <1>8, RanksAre
  <2>2. FlushRank(f)' = 3 * Len(box) - 1 /\ Len(box) \in Nat
    BY ONLY <1>4, <2>1
  <2> QED BY ONLY <1>6, <2>2
<1> QED BY <1>7, <1>8

LEMMA FlushStepShrinks ==
  ASSUME OfflineTyped, NEW f \in Flushes, FlushStep(f)
  PROVE  FlushRank(f)' < FlushRank(f)
<1>1. /\ stage \in [Flushes -> Stages] /\ todo \in [Flushes -> Seq(queued)]
      /\ stage[f] \in Working <=> todo[f] # <<>>
  BY DEF OfflineTyped, QueueTypes, InHand
<1>2. Len(todo[f]) \in Nat /\ (stage[f] \in Working => Len(todo[f]) > 0)
  <2> DEFINE box == todo[f]
  <2>1. box \in Seq(queued)
    BY <1>1
  <2>2. Len(box) \in Nat /\ (box # <<>> => Len(box) > 0)
    <3> HIDE DEF box
    <3> QED BY <2>1, EmptySeq
  <2> QED BY <1>1, <2>2
<1>3. FlushRank(f)' = RankAt(stage'[f], Len(todo'[f]), Cardinality(queued'))
  BY DEF FlushRank, RankAt
<1>4. FlushRank(f) = RankAt(stage[f], Len(todo[f]), Cardinality(queued))
  BY FlushRankIs
<1>5. CASE ListPending(f)
  <2> DEFINE pending == {a \in Actions : status[a] = "pending"}
             next == IF pending = {} THEN "clearing" ELSE "asking"
  <2>1. stage' = [stage EXCEPT ![f] = next] /\ todo' = [todo EXCEPT ![f] = InKeyOrder(pending)]
        /\ queued' = queued /\ stage[f] = "listing"
    BY <1>5, Zenon DEF ListPending
  <2>2. pending \subseteq queued
    BY DEF OfflineTyped, QueueSizes
  <2> HIDE DEF pending, next
  <2>3. PICK n \in Nat : queued \in SUBSET (1..n)
    BY DEF OfflineTyped, QueueSizes
  <2>4. Len(InKeyOrder(pending)) = Cardinality(pending)
    BY <2>2, <2>3, KeysInOrder
  <2>5. IsFiniteSet(queued)
    <3>1. 1 \in Int /\ n \in Int
      OBVIOUS
    <3>2. IsFiniteSet(1..n)
      BY <3>1, FS_Interval
    <3> QED BY <2>3, <3>2, FS_Subset
  <2>6. /\ Cardinality(pending) \in Nat /\ Cardinality(queued) \in Nat
        /\ Cardinality(pending) <= Cardinality(queued)
    BY <2>2, <2>5, FS_Subset, FS_CardinalityType
  <2>7. stage'[f] = next /\ todo'[f] = InKeyOrder(pending)
    BY <1>1, <2>1
  <2>8. FlushRank(f) = 3 * Cardinality(queued) + 3
    BY <1>4, <2>1, RanksAre
  <2>9. FlushRank(f)' \in {2, 3 * Cardinality(pending) + 2}
    BY <1>3, <2>4, <2>7, RanksAre DEF next
  <2> QED BY ONLY <2>6, <2>8, <2>9
<1>6. CASE Ask(f)
  <2>1. stage[f] = "asking" /\ UNCHANGED <<todo, queued>>
        /\ \E answer : stage' = [stage EXCEPT ![f] = Verdict(answer)]
    BY <1>6 DEF Ask
  <2>2. stage'[f] \in {"succeeded", "refused"}
    BY <1>1, <2>1 DEF Verdict
  <2>3. FlushRank(f)' \in {3 * Len(todo[f]) + 1, 3 * Len(todo[f])}
    BY <1>3, <2>1, <2>2, RanksAre
  <2>4. FlushRank(f) = 3 * Len(todo[f]) + 2
    BY <1>4, <2>1, RanksAre
  <2> QED BY ONLY <1>2, <2>3, <2>4
<1>7. CASE MarkCompleted(f)
  <2>1. stage[f] = "succeeded"
        /\ (Advance(f) \/ (stage' = [stage EXCEPT ![f] = "refused"] /\ todo' = todo))
    BY <1>7 DEF MarkCompleted
  <2>2. CASE Advance(f)
    BY <2>1, <2>2, AdvanceShrinks
  <2>3. CASE stage' = [stage EXCEPT ![f] = "refused"] /\ todo' = todo
    <3>1. stage'[f] = "refused"
      BY <1>1, <2>3
    <3>2. FlushRank(f)' = 3 * Len(todo[f]) /\ FlushRank(f) = 3 * Len(todo[f]) + 1
      BY <1>3, <1>4, <2>1, <2>3, <3>1, RanksAre
    <3> QED BY ONLY <1>2, <3>2
  <2> QED BY <2>1, <2>2, <2>3
<1>8. CASE MarkFailed(f)
  BY <1>8, AdvanceShrinks DEF MarkFailed
<1>9. CASE ClearCompleted(f)
  <2>1. stage[f] = "clearing" /\ stage' = [stage EXCEPT ![f] = "ending"]
    BY <1>9 DEF ClearCompleted
  <2>2. FlushRank(f)' = 1 /\ FlushRank(f) = 2
    BY <1>1, <1>3, <1>4, <2>1, RanksAre
  <2> QED BY <2>2
<1>10. CASE StorageFails(f)
  <2>1. stage[f] \in {"listing", "refused", "clearing"} /\ stage' = [stage EXCEPT ![f] = "ending"]
    BY <1>10 DEF StorageFails
  <2>2. FlushRank(f)' = 1
    BY <1>1, <1>3, <2>1, RanksAre
  <2>3. PICK n \in Nat : queued \in SUBSET (1..n)
    BY DEF OfflineTyped, QueueSizes
  <2>4. Cardinality(queued) \in Nat
    <3>1. 1 \in Int /\ n \in Int
      OBVIOUS
    <3>2. IsFiniteSet(1..n)
      BY <3>1, FS_Interval
    <3> QED BY <2>3, <3>2, FS_Subset, FS_CardinalityType
  <2>5. CASE stage[f] = "refused"
    <3>1. FlushRank(f) = 3 * Len(todo[f]) /\ Len(todo[f]) > 0
      BY <1>2, <1>4, <2>5, RanksAre DEF Working
    <3> QED BY ONLY <1>2, <2>2, <3>1
  <2>6. CASE stage[f] = "listing"
    <3>1. FlushRank(f) = 3 * Cardinality(queued) + 3
      BY <1>4, <2>6, RanksAre
    <3> QED BY ONLY <2>2, <2>4, <3>1
  <2>7. CASE stage[f] = "clearing"
    <3>1. FlushRank(f) = 2
      BY <1>4, <2>7, RanksAre
    <3> QED BY ONLY <2>2, <3>1
  <2> QED BY <2>1, <2>5, <2>6, <2>7
<1>11. CASE EndFlush(f)
  <2>1. stage[f] = "ending" /\ stage' = [stage EXCEPT ![f] = "idle"]
    BY <1>11 DEF EndFlush
  <2>2. FlushRank(f)' = 0 /\ FlushRank(f) = 1
    BY <1>1, <1>3, <1>4, <2>1, RanksAre
  <2> QED BY <2>2
<1>12. CASE TransactionAborts(f)
  <2>1. /\ stage[f] \in {"succeeded", "refused", "clearing"}
        /\ stage' = [stage EXCEPT ![f] = "idle"]
    BY <1>12 DEF TransactionAborts
  <2>2. FlushRank(f)' = 0
    BY <1>1, <1>3, <2>1, RanksAre
  <2>3. CASE stage[f] = "clearing"
    BY <1>4, <2>2, <2>3, RanksAre
  <2>4. CASE stage[f] \in {"succeeded", "refused"}
    <3>1. FlushRank(f) \in {3 * Len(todo[f]), 3 * Len(todo[f]) + 1} /\ Len(todo[f]) > 0
      BY <1>2, <1>4, <2>4, RanksAre DEF Working
    <3> QED BY ONLY <1>2, <2>2, <3>1
  <2> QED BY <2>1, <2>3, <2>4
<1> QED BY <1>5, <1>6, <1>7, <1>8, <1>9, <1>10, <1>11, <1>12 DEF FlushStep

(* A flush goes on to another stage, runs its finally block or hangs.      *)
LEMMA FlushGoesOn ==
  ASSUME NEW f \in Flushes, FlushStep(f)
  PROVE  \/ \E next \in Stages \ {"idle"} : stage' = [stage EXCEPT ![f] = next]
         \/ EndFlush(f) \/ TransactionAborts(f)
<1>1. CASE ListPending(f)
  <2> DEFINE next == IF {a \in Actions : status[a] = "pending"} = {} THEN "clearing"
                     ELSE "asking"
  <2>1. stage' = [stage EXCEPT ![f] = next]
    BY <1>1, Zenon DEF ListPending
  <2>2. next \in Stages \ {"idle"}
    BY DEF Stages
  <2> QED BY <2>1, <2>2
<1>2. CASE Ask(f)
  <2>1. PICK answer : stage' = [stage EXCEPT ![f] = Verdict(answer)]
    BY <1>2 DEF Ask
  <2>2. Verdict(answer) \in Stages \ {"idle"}
    BY DEF Verdict, Stages
  <2> QED BY <2>1, <2>2
<1>3. CASE Advance(f)
  <2> DEFINE next == IF Len(todo[f]) = 1 THEN "clearing" ELSE "asking"
  <2>1. stage' = [stage EXCEPT ![f] = next] /\ next \in Stages \ {"idle"}
    BY <1>3 DEF Advance, Stages
  <2> QED BY <2>1
<1>4. CASE MarkCompleted(f) \/ MarkFailed(f)
  <2>1. Advance(f) \/ stage' = [stage EXCEPT ![f] = "refused"]
    BY <1>4 DEF MarkCompleted, MarkFailed
  <2>2. "refused" \in Stages \ {"idle"}
    BY DEF Stages
  <2> QED BY <1>3, <2>1, <2>2
<1>5. CASE ClearCompleted(f) \/ StorageFails(f)
  <2>1. stage' = [stage EXCEPT ![f] = "ending"] /\ "ending" \in Stages \ {"idle"}
    BY <1>5 DEF ClearCompleted, StorageFails, Stages
  <2> QED BY <2>1
<1> QED BY <1>1, <1>2, <1>4, <1>5 DEF FlushStep

(* A flush is over only once it has cleared `syncing`, or hung.            *)
LEMMA FlushEndsOrHangs ==
  ASSUME OfflineTyped, NEW f \in Flushes, FlushStep(f), stage'[f] = "idle"
  PROVE  ~syncing' \/ hung'
<1>1. EndFlush(f) \/ TransactionAborts(f)
  <2>1. stage \in [Flushes -> Stages]
    BY DEF OfflineTyped, QueueTypes
  <2> QED BY <2>1, FlushGoesOn
<1>2. CASE EndFlush(f)
  BY <1>2 DEF EndFlush, Finally
<1>3. CASE TransactionAborts(f)
  BY <1>3 DEF TransactionAborts
<1> QED BY <1>1, <1>2, <1>3

(* Every step of a flush leaves it less to do, however long the queue is,  *)
(* whatever fails and whatever the other flushes do to the same entries,   *)
(* and it is over only by its finally block or by hanging in a transaction *)
(* that aborted.                                                           *)
THEOREM FlushesEndOrHang == OfflineSpec => FlushesShrink
<1>1. OfflineInit => OfflineInv /\ OfflineTyped
  BY OfflineInvInit, OfflineTypedInit
<1>2. OfflineInv /\ OfflineTyped /\ [OfflineNext]_offlineVars => OfflineInv' /\ OfflineTyped'
  BY OfflineInvNext, OfflineTypedNext
<1>3. OfflineTyped => [\A f \in Flushes : FlushStep(f) =>
                         /\ FlushRank(f)' < FlushRank(f)
                         /\ stage'[f] = "idle" => ~syncing' \/ hung']_offlineVars
  BY FlushStepShrinks, FlushEndsOrHangs
<1> QED BY <1>1, <1>2, <1>3, PTL DEF OfflineSpec, FlushesShrink

(* No step but the end of a flush, a hang or a reload makes a flush idle.  *)
LEMMA SyncingNext ==
  OfflineInv /\ SyncingIsFlushing /\ [OfflineNext]_offlineVars => SyncingIsFlushing'
<1> SUFFICES ASSUME OfflineInv, SyncingIsFlushing, [OfflineNext]_offlineVars, syncing', ~hung'
             PROVE  \E f \in Flushes : stage'[f] # "idle"
  BY DEF SyncingIsFlushing
<1>1. stage \in [Flushes -> Stages]
  BY DEF OfflineInv, QueueTypes
<1>2. CASE UNCHANGED <<stage, syncing, hung>>
  BY <1>2 DEF SyncingIsFlushing
<1>3. ASSUME NEW f \in Flushes, NEW next, next # "idle", stage' = [stage EXCEPT ![f] = next]
      PROVE  \E g \in Flushes : stage'[g] # "idle"
  <2>1. stage'[f] = next
    BY <1>1, <1>3
  <2> QED BY <1>3, <2>1
<1>4. ASSUME NEW f \in Flushes, HandleOnline(f) \/ ProcessQueue(f)
      PROVE  \E g \in Flushes : stage'[g] # "idle"
  <2>1. stage' = [stage EXCEPT ![f] = "listing"]
    BY <1>4 DEF HandleOnline, ProcessQueue, StartFlush
  <2> QED BY <2>1, <1>3
<1>5. ASSUME NEW f \in Flushes, FlushStep(f)
      PROVE  \E g \in Flushes : stage'[g] # "idle"
  <2>1. ~EndFlush(f)
    BY DEF EndFlush, Finally
  <2>2. ASSUME TransactionAborts(f) PROVE FALSE
    <3>1. hung' = syncing /\ syncing' = syncing
      BY <2>2 DEF TransactionAborts
    <3>2. hung' = syncing'
      BY <3>1
    <3> QED BY <3>2, Zenon
  <2> QED BY <1>3, <1>5, <2>1, <2>2, FlushGoesOn
<1>6. CASE Reload
  BY <1>6 DEF Reload
<1>7. CASE HandleOffline \/ \E a \in Actions : QueueAction(a) \/ ReplayInBackground(a)
  BY <1>2, <1>7 DEF HandleOffline, QueueAction, ReplayInBackground
<1> QED BY <1>2, <1>4, <1>5, <1>6, <1>7 DEF OfflineNext, offlineVars

(* The page shows itself syncing only while a flush runs, or since one of  *)
(* them hung in a transaction that aborted.  With FlushesEndOrHang this is *)
(* the safety that FlushesSettle rests on.                                 *)
THEOREM SyncingPagesFlush == OfflineSpec => []SyncingIsFlushing
<1>1. OfflineInit => OfflineInv /\ SyncingIsFlushing
  BY OfflineInvInit DEF OfflineInit, SyncingIsFlushing
<1> QED BY <1>1, OfflineInvNext, SyncingNext, PTL DEF OfflineSpec

-----------------------------------------------------------------------------
(* The run that holds all four. *)

SideInv ==
  /\ FeedTypes
  /\ side = "hub" => wsRef = 0
  /\ side # "hub" => AgreementInv
  /\ WalletInv /\ WalletTyped
  /\ OfflineInv /\ OfflineTyped

LEMMA SideInvInit == SideInit => SideInv
<1> SUFFICES ASSUME SideInit PROVE SideInv
  OBVIOUS
<1>1. FeedInit /\ WalletInit /\ OfflineInit
  BY DEF SideInit
<1>2. AgreementInv /\ FeedTypes
  BY <1>1, AgreementInvInit DEF AgreementInv, FeedInv
<1>3. wsRef = 0
  BY <1>1 DEF FeedInit, BrowserInit
<1> QED BY <1>1, <1>2, <1>3, WalletInvInit, WalletTypedInit, OfflineInvInit, OfflineTypedInit
        DEF SideInv

LEMMA SideInvNext == SideInv /\ [SideNext]_sideVars => SideInv'
<1> SUFFICES ASSUME SideInv, [SideNext]_sideVars PROVE SideInv'
  OBVIOUS
<1>1. UNCHANGED side
  BY DEF SideNext, sideVars
<1>2. /\ [WalletNext]_walletVars /\ [OfflineNext]_offlineVars
  BY DEF SideNext, sideVars
<1>3. WalletInv' /\ WalletTyped' /\ OfflineInv' /\ OfflineTyped'
  BY <1>2, WalletInvNext, WalletTypedNext, OfflineInvNext, OfflineTypedNext DEF SideInv
<1>4. CASE side # "hub"
  <2>1. [FeedNext]_feedVars
    BY <1>4 DEF SideNext, sideVars, FeedNext
  <2>2. AgreementInv'
    BY <1>4, <2>1, AgreementInvNext DEF SideInv
  <2>3. FeedTypes'
    BY <2>2 DEF AgreementInv, FeedInv
  <2> QED BY <1>1, <1>3, <1>4, <2>2, <2>3 DEF SideInv
<1>5. CASE side = "hub"
  <2>1. UNCHANGED browserVars /\ (HubStep({1, 2}) \/ UNCHANGED hubVars)
    BY <1>5 DEF SideNext, sideVars, feedVars
  <2>2. {1, 2} \subseteq Sockets
    BY FeedAssumption, SideAssumption, BrowserAssumption
  <2>3. [HubNext]_hubVars
    BY <2>1, <2>2 DEF HubNext, HubStep
  <2>4. HubInv' /\ ReplayInv' /\ Members'
    BY <2>3, HubStepsTyped DEF SideInv, FeedTypes
  <2>5. BrowserInv'
    BY <2>1, BrowserStays DEF SideInv, FeedTypes
  <2>6. wsRef' = 0
    BY <1>5, <2>1 DEF browserVars, SideInv
  <2> QED BY <1>1, <1>3, <1>5, <2>4, <2>5, <2>6 DEF SideInv, FeedTypes
<1> QED BY <1>4, <1>5

(* The types of the hub, the hook, the session and the queue. *)
THEOREM ClientTyped == SideSpec => []ClientTypeOK
<1>1. SideInv => ClientTypeOK
  BY HubWellTyped, BrowserWellTyped, OfflineWellTyped
     DEF SideInv, FeedTypes, WalletTyped, ClientTypeOK, FeedTypeOK
<1> QED BY SideInvInit, SideInvNext, <1>1, PTL DEF SideSpec

(* Whichever of the four a behaviour of the run follows, what each of them *)
(* promises by itself holds of it.                                         *)
THEOREM SideKeepsPromises ==
  SideSpec => /\ []SubscriptionsMirrored /\ []ReplayExact /\ []BothEndsAgree
              /\ []KeyOnlyWhileLinked /\ []ClearedWasExecuted
<1>1. SideInv => BothEndsAgree
  BY AgreementSuffices DEF SideInv, BothEndsAgree, OpenRef
<1>2. SideInv => /\ SubscriptionsMirrored /\ KeyOnlyWhileLinked /\ ClearedWasExecuted
  BY DEF SideInv, FeedTypes, HubInv, WalletInv, OfflineInv
<1>3. SideInv => ReplayExact
  BY ReplaySuffices DEF SideInv, FeedTypes
<1> QED BY SideInvInit, SideInvNext, <1>1, <1>2, <1>3, PTL DEF SideSpec
=============================================================================
