---------------------------- MODULE Engines_proofs ---------------------------
(***************************************************************************)
(* The two engines of the backend, for all values of the constants.        *)
(*                                                                         *)
(* Indexing: the worker pool is full whenever tasks wait, and the indexed  *)
(* ledger is the tip of the history.  The first needs to know that what a  *)
(* worker holds is what was posted to it and nothing else; the second that *)
(* the history ascends, which a reorganisation keeps only because a ledger *)
(* follows its parent.  That the events served are those of the history    *)
(* needs both: in an ascending history a rollback keeps a prefix of the    *)
(* ledgers, and of their events, though it filters the two apart.          *)
(*                                                                         *)
(* Matching: shares of orders are conserved, books stay uncrossed and no   *)
(* trade passes over an order with priority.  The invariant says that a    *)
(* book is ranked: then its head stands for all the orders behind it, and  *)
(* what the loop of addOrder tests of the head holds of the whole book.    *)
(* The loop itself is a recursive function; WalkInv holds after each of    *)
(* its iterations, by induction on their number.                           *)
(***************************************************************************)
EXTENDS MCEngines, ShareUnits_proofs, SequenceTheorems, TLAPS

-----------------------------------------------------------------------------
(* The pool. *)
PoolType ==
  [queue : Seq(CallIds), pending : SUBSET CallIds, active : Nat, next : Workers,
   inbox : [Workers -> Seq(CallIds)]]

(* The calls that wait in a pool or for one of its workers. *)
Tasks(p) == {p.queue[i] : i \in DOMAIN p.queue} \cup p.pending

(* A task is queued or posted, once, and what was posted is what is        *)
(* counted.                                                                *)
PoolOK(p) ==
  /\ p \in PoolType
  /\ p.active = Cardinality(p.pending) /\ p.active <= NumWorkers
  /\ \A i \in DOMAIN p.queue : p.queue[i] \notin p.pending
  /\ \A i, j \in DOMAIN p.queue : p.queue[i] = p.queue[j] => i = j
  /\ \A w \in Workers : \A i \in DOMAIN p.inbox[w] : p.inbox[w][i] \in p.pending
  /\ \A v, w \in Workers : \A i \in DOMAIN p.inbox[v], j \in DOMAIN p.inbox[w] :
       p.inbox[v][i] = p.inbox[w][j] => v = w /\ i = j

Full(p) == p.queue # <<>> => p.active = NumWorkers

(* At most one free worker, or at most one task to give it. *)
NearlyFull(p) == Len(p.queue) > 1 => p.active >= NumWorkers - 1

LEMMA PendingFinite ==
  ASSUME NEW s \in SUBSET CallIds
  PROVE  IsFiniteSet(s) /\ Cardinality(s) \in Nat
<1>1. 1 \in Int /\ MaxCalls \in Int
  BY IndexAssumption
<1>2. IsFiniteSet(CallIds)
  BY <1>1, FS_Interval DEF CallIds
<1> QED BY <1>2, FS_Subset, FS_CardinalityType

LEMMA NextWorker ==
  ASSUME NEW n \in Workers
  PROVE  (n + 1) % NumWorkers \in Workers
BY IndexAssumption DEF Workers

(* Posting one task keeps the pool right, and fills it if it was nearly    *)
(* full.                                                                   *)
LEMMA PostNextOK ==
  ASSUME NEW p, PoolOK(p), NearlyFull(p)
  PROVE  /\ PoolOK(PostNext(p)) /\ Full(PostNext(p))
         /\ Tasks(PostNext(p)) = Tasks(p)
<1>1. /\ p.queue \in Seq(CallIds) /\ p.pending \in SUBSET CallIds /\ p.active \in Nat
      /\ p.next \in Workers /\ p.inbox \in [Workers -> Seq(CallIds)]
      /\ NumWorkers \in Nat \ {0} /\ p.active <= NumWorkers
  BY IndexAssumption DEF PoolOK, PoolType
<1>2. CASE p.queue = <<>> \/ p.active >= NumWorkers
  <2>1. PostNext(p) = p
    BY <1>2 DEF PostNext
  <2>2. Full(p)
    BY <1>1, <1>2 DEF Full
  <2> QED BY <2>1, <2>2
<1>3. CASE p.queue # <<>> /\ p.active < NumWorkers
  <2> DEFINE c == Head(p.queue)
             rest == Tail(p.queue)
             q == PostNext(p)
             in == [p.inbox EXCEPT ![p.next] = Append(@, c)]
  <2>1. /\ c \in CallIds /\ rest \in Seq(CallIds) /\ Len(rest) = Len(p.queue) - 1
        /\ Len(p.queue) \in Nat \ {0} /\ c = p.queue[1]
        /\ \A i \in 1..Len(rest) : rest[i] = p.queue[i + 1]
        /\ DOMAIN p.queue = 1..Len(p.queue) /\ DOMAIN rest = 1..Len(rest)
    BY <1>1, <1>3, HeadTailProperties
  <2>2. /\ q.queue = rest /\ q.pending = p.pending \cup {c} /\ q.active = p.active + 1
        /\ q.next = (p.next + 1) % NumWorkers /\ q.inbox = in
        /\ q = [queue |-> q.queue, pending |-> q.pending, active |-> q.active,
                next |-> q.next, inbox |-> q.inbox]
    <3>1. ~(p.queue = <<>> \/ p.active >= NumWorkers)
      BY <1>1, <1>3
    <3>2. q = [queue |-> rest, pending |-> p.pending \cup {c}, active |-> p.active + 1,
               next |-> (p.next + 1) % NumWorkers, inbox |-> in]
      BY ONLY <3>1 DEF PostNext
    <3> HIDE DEF q, rest, in, c
    <3> QED BY ONLY <3>2
  <2>3. c \notin p.pending
    BY <2>1 DEF PoolOK
  <2>4. in \in [Workers -> Seq(CallIds)]
    BY <1>1, <2>1
  <2>5. q \in PoolType
    <3> HIDE DEF c, rest, in, q
    <3> QED BY <1>1, <2>1, <2>2, <2>4, NextWorker DEF PoolType
  <2>6. q.active = Cardinality(q.pending) /\ q.active <= NumWorkers
    <3>1. Cardinality(p.pending \cup {c}) = Cardinality(p.pending) + 1
      BY <1>1, <2>3, PendingFinite, FS_AddElement
    <3>2. p.active = Cardinality(p.pending)
      BY DEF PoolOK
    <3> HIDE DEF c, q
    <3> QED BY <1>1, <1>3, <2>2, <3>1, <3>2
  <2>7. /\ \A i \in DOMAIN q.queue : q.queue[i] \notin q.pending
        /\ \A i, j \in DOMAIN q.queue : q.queue[i] = q.queue[j] => i = j
    <3>1. /\ \A i \in 1..Len(p.queue) : p.queue[i] \notin p.pending
          /\ \A i, j \in 1..Len(p.queue) : p.queue[i] = p.queue[j] => i = j
      BY <2>1 DEF PoolOK
    <3> HIDE DEF c, rest, in, q
    <3>2. ASSUME NEW i \in 1..Len(rest)
          PROVE  rest[i] = p.queue[i + 1] /\ i + 1 \in 1..Len(p.queue) /\ i + 1 # 1
      BY <2>1
    <3>3. 1 \in 1..Len(p.queue)
      BY <2>1
    <3> QED BY <2>1, <2>2, <3>1, <3>2, <3>3
  <2>8. ASSUME NEW w \in Workers, NEW i \in DOMAIN in[w]
        PROVE  \/ i \in DOMAIN p.inbox[w] /\ in[w][i] = p.inbox[w][i]
               \/ w = p.next /\ i = Len(p.inbox[w]) + 1 /\ in[w][i] = c
    <3>1. CASE w # p.next
      BY <1>1, <3>1
    <3>2. CASE w = p.next
      <4> HIDE DEF c
      <4>1. in[w] = Append(p.inbox[w], c) /\ p.inbox[w] \in Seq(CallIds)
        BY <1>1, <3>2
      <4> HIDE DEF in
      <4>2. /\ Len(in[w]) = Len(p.inbox[w]) + 1 /\ Len(p.inbox[w]) \in Nat
            /\ DOMAIN in[w] = 1..Len(in[w]) /\ DOMAIN p.inbox[w] = 1..Len(p.inbox[w])
            /\ \A j \in 1..Len(p.inbox[w]) : in[w][j] = p.inbox[w][j]
            /\ in[w][Len(p.inbox[w]) + 1] = c
        BY <2>1, <4>1, AppendProperties, LenProperties
      <4> QED BY <3>2, <4>2
    <3> QED BY <3>1, <3>2
  <2>9. /\ \A w \in Workers : \A i \in DOMAIN p.inbox[w] : p.inbox[w][i] \in p.pending
        /\ \A v, w \in Workers : \A i \in DOMAIN p.inbox[v], j \in DOMAIN p.inbox[w] :
             p.inbox[v][i] = p.inbox[w][j] => v = w /\ i = j
    BY DEF PoolOK
  <2>10. /\ \A w \in Workers : \A i \in DOMAIN in[w] : in[w][i] \in p.pending \cup {c}
         /\ \A v, w \in Workers : \A i \in DOMAIN in[v], j \in DOMAIN in[w] :
              in[v][i] = in[w][j] => v = w /\ i = j
    <3> HIDE DEF c, in, rest, q
    <3>1. \A w \in Workers : \A i \in DOMAIN in[w] : in[w][i] \in p.pending \cup {c}
      BY <2>8, <2>9
    <3>2. ASSUME NEW v \in Workers, NEW w \in Workers, NEW i \in DOMAIN in[v],
                 NEW j \in DOMAIN in[w], in[v][i] = in[w][j]
          PROVE  v = w /\ i = j
      <4>1. \/ i \in DOMAIN p.inbox[v] /\ in[v][i] = p.inbox[v][i]
            \/ v = p.next /\ i = Len(p.inbox[v]) + 1 /\ in[v][i] = c
        BY <2>8
      <4>2. \/ j \in DOMAIN p.inbox[w] /\ in[w][j] = p.inbox[w][j]
            \/ w = p.next /\ j = Len(p.inbox[w]) + 1 /\ in[w][j] = c
        BY <2>8
      <4> QED BY <2>3, <2>9, <3>2, <4>1, <4>2
    <3> QED BY <3>1, <3>2
  <2>11. Tasks(q) = Tasks(p)
    <3> HIDE DEF c, in, rest, q
    <3>1. \A i \in 1..Len(p.queue) : i = 1 \/ (i - 1 \in 1..Len(rest) /\ p.queue[i] = rest[i - 1])
      BY <2>1
    <3>2. \A i \in 1..Len(rest) : i + 1 \in 1..Len(p.queue)
      BY <2>1
    <3>3. 1 \in 1..Len(p.queue)
      BY <2>1
    <3>4. ASSUME NEW x \in Tasks(p) PROVE x \in Tasks(q)
      <4>1. CASE x \in p.pending
        BY <2>2, <4>1 DEF Tasks
      <4>2. CASE \E i \in DOMAIN p.queue : x = p.queue[i]
        BY <2>1, <2>2, <3>1, <4>2 DEF Tasks
      <4> QED BY <4>1, <4>2 DEF Tasks
    <3>5. ASSUME NEW x \in Tasks(q) PROVE x \in Tasks(p)
      <4>1. CASE x \in q.pending
        BY <2>1, <2>2, <3>3, <4>1 DEF Tasks
      <4>2. CASE \E i \in DOMAIN q.queue : x = q.queue[i]
        BY <2>1, <2>2, <3>2, <4>2 DEF Tasks
      <4> QED BY <4>1, <4>2 DEF Tasks
    <3> QED BY <3>4, <3>5
  <2>12. Full(q)
    <3> HIDE DEF c, in, rest, q
    <3>1. rest # <<>> => Len(p.queue) > 1
      <4>1. CASE Len(rest) = 0
        BY <4>1, <2>1, EmptySeq
      <4>2. CASE Len(rest) # 0
        BY <4>2, <2>1
      <4> QED BY <4>1, <4>2
    <3> QED BY <1>1, <1>3, <2>2, <3>1 DEF Full, NearlyFull
  <2>13. PoolOK(q)
    <3> HIDE DEF c, in, rest, q
    <3> QED BY <2>2, <2>5, <2>6, <2>7, <2>10 DEF PoolOK
  <2> QED BY <2>11, <2>12, <2>13
<1> QED BY <1>1, <1>2, <1>3

(* A task that is new to the pool joins it. *)
LEMMA EnqueueOK ==
  ASSUME NEW p, PoolOK(p), Full(p), NEW c \in CallIds, c \notin Tasks(p)
  PROVE  /\ PoolOK(Enqueue(p, c)) /\ Full(Enqueue(p, c))
         /\ Tasks(Enqueue(p, c)) = Tasks(p) \cup {c}
<1> DEFINE q == [p EXCEPT !.queue = Append(@, c)]
<1>1. /\ p.queue \in Seq(CallIds) /\ p.pending \in SUBSET CallIds /\ p.active \in Nat
      /\ p.next \in Workers /\ p.inbox \in [Workers -> Seq(CallIds)]
      /\ NumWorkers \in Nat \ {0} /\ p.active <= NumWorkers
  BY IndexAssumption DEF PoolOK, PoolType
<1>2. /\ q.queue = Append(p.queue, c) /\ q.pending = p.pending /\ q.active = p.active
      /\ q.next = p.next /\ q.inbox = p.inbox
  BY DEF PoolOK, PoolType
<1>3. q \in PoolType
  <2>1. Append(p.queue, c) \in Seq(CallIds)
    BY <1>1
  <2> QED BY <2>1 DEF PoolOK, PoolType
<1> HIDE DEF q
<1>4. /\ Len(p.queue) \in Nat /\ Len(q.queue) = Len(p.queue) + 1
      /\ DOMAIN p.queue = 1..Len(p.queue) /\ DOMAIN q.queue = 1..(Len(p.queue) + 1)
      /\ \A i \in 1..Len(p.queue) : q.queue[i] = p.queue[i]
      /\ q.queue[Len(p.queue) + 1] = c
  BY <1>1, <1>2
<1>5. \A i \in 1..Len(p.queue) : p.queue[i] # c /\ c \notin p.pending
  BY <1>4 DEF Tasks
<1>6. c \notin p.pending
  BY DEF Tasks
<1>7. /\ \A i \in DOMAIN q.queue : q.queue[i] \notin q.pending
      /\ \A i, j \in DOMAIN q.queue : q.queue[i] = q.queue[j] => i = j
  <2>1. \A i \in DOMAIN q.queue : i \in 1..Len(p.queue) \/ i = Len(p.queue) + 1
    BY <1>4
  <2>2. /\ \A i \in 1..Len(p.queue) : p.queue[i] \notin p.pending
        /\ \A i, j \in 1..Len(p.queue) : p.queue[i] = p.queue[j] => i = j
    BY <1>4 DEF PoolOK
  <2> QED BY <1>2, <1>4, <1>5, <1>6, <2>1, <2>2
<1>8. PoolOK(q)
  BY <1>2, <1>3, <1>7 DEF PoolOK
<1>9. NearlyFull(q)
  <2>1. Len(q.queue) > 1 => p.queue # <<>>
    BY <1>4, EmptySeq
  <2> QED BY <1>1, <1>2, <2>1 DEF NearlyFull, Full
<1>10. Tasks(q) = Tasks(p) \cup {c}
  <2>1. \A i \in DOMAIN q.queue : i \in DOMAIN p.queue \/ i = Len(p.queue) + 1
    BY <1>4
  <2>2. \A i \in DOMAIN p.queue : i \in DOMAIN q.queue /\ q.queue[i] = p.queue[i]
    BY <1>4
  <2>3. Len(p.queue) + 1 \in DOMAIN q.queue
    BY <1>4
  <2> QED BY <1>2, <1>4, <2>1, <2>2, <2>3 DEF Tasks
<1>11. Enqueue(p, c) = PostNext(q)
  BY DEF Enqueue, q
<1> QED BY <1>8, <1>9, <1>10, <1>11, PostNextOK

(* An answered task leaves the pool, and the next one is posted. *)
LEMMA AnsweredOK ==
  ASSUME NEW p, PoolOK(p), Full(p), NEW w \in Workers, p.inbox[w] # <<>>,
         NEW c, c = Head(p.inbox[w])
  PROVE  /\ c \in Tasks(p) /\ c \in CallIds
         /\ PoolOK(Answered(p, w, c)) /\ Full(Answered(p, w, c))
         /\ Tasks(Answered(p, w, c)) = Tasks(p) \ {c}
<1> DEFINE q == [p EXCEPT !.pending = @ \ {c}, !.active = @ - 1, !.inbox[w] = Tail(@)]
           in == [p.inbox EXCEPT ![w] = Tail(@)]
<1>1. /\ p.queue \in Seq(CallIds) /\ p.pending \in SUBSET CallIds /\ p.active \in Nat
      /\ p.next \in Workers /\ p.inbox \in [Workers -> Seq(CallIds)]
      /\ NumWorkers \in Nat \ {0} /\ p.active <= NumWorkers
  BY IndexAssumption DEF PoolOK, PoolType
<1>2. /\ q.queue = p.queue /\ q.pending = p.pending \ {c} /\ q.active = p.active - 1
      /\ q.next = p.next /\ q.inbox = in
      /\ q = [queue |-> q.queue, pending |-> q.pending, active |-> q.active,
              next |-> q.next, inbox |-> q.inbox]
  <2>1. q = [queue |-> p.queue, pending |-> p.pending \ {c}, active |-> p.active - 1,
             next |-> p.next, inbox |-> in]
    <3>1. p = [queue |-> p.queue, pending |-> p.pending, active |-> p.active,
               next |-> p.next, inbox |-> p.inbox]
      BY DEF PoolOK, PoolType
    <3> DEFINE s == p.pending \ {c}
               a == p.active - 1
    <3>2. q = [p EXCEPT !.pending = s, !.active = a, !.inbox = in]
      BY ONLY DEF q, s, a, in
    <3> HIDE DEF q, s, a, in
    <3>3. q = [queue |-> p.queue, pending |-> s, active |-> a, next |-> p.next, inbox |-> in]
      BY ONLY <3>1, <3>2
    <3> QED BY ONLY <3>3 DEF s, a
  <2> HIDE DEF q, in
  <2> QED BY ONLY <2>1
<1>3. /\ p.inbox[w] \in Seq(CallIds) /\ c = p.inbox[w][1] /\ 1 \in DOMAIN p.inbox[w]
      /\ Tail(p.inbox[w]) \in Seq(CallIds)
      /\ \A i \in DOMAIN Tail(p.inbox[w]) :
           i + 1 \in DOMAIN p.inbox[w] /\ i \in Nat \ {0}
           /\ Tail(p.inbox[w])[i] = p.inbox[w][i + 1]
  <2>1. p.inbox[w] \in Seq(CallIds)
    BY <1>1
  <2> QED BY <2>1, HeadTailProperties, LenProperties
<1>4. c \in p.pending
  BY <1>3 DEF PoolOK
<1>5. in \in [Workers -> Seq(CallIds)]
  BY <1>1, <1>3
<1>6. /\ IsFiniteSet(p.pending) /\ p.active = Cardinality(p.pending)
      /\ Cardinality(p.pending \ {c}) = p.active - 1 /\ Cardinality(p.pending \ {c}) \in Nat
  <2>1. IsFiniteSet(p.pending) /\ p.pending \ {c} \in SUBSET CallIds
    BY <1>1, PendingFinite
  <2> QED BY <1>4, <2>1, PendingFinite, FS_RemoveElement DEF PoolOK
<1>7. q \in PoolType
  <2> HIDE DEF q, in
  <2> QED BY <1>1, <1>2, <1>5, <1>6 DEF PoolType
<1>8. ASSUME NEW v \in Workers, NEW i \in DOMAIN in[v]
      PROVE  \E j \in DOMAIN p.inbox[v] :
               in[v][i] = p.inbox[v][j] /\ j = (IF v = w THEN i + 1 ELSE i)
               /\ in[v][i] # c /\ in[v][i] \in p.pending /\ (v = w => i \in Nat \ {0})
  <2>1. \A u \in Workers : \A j \in DOMAIN p.inbox[u] :
          p.inbox[u][j] \in p.pending /\ (p.inbox[u][j] = c => u = w /\ j = 1)
    BY <1>3 DEF PoolOK
  <2>2. CASE v = w
    <3>1. in[v] = Tail(p.inbox[w])
      BY <1>1, <2>2
    <3> HIDE DEF in
    <3>2. i + 1 \in DOMAIN p.inbox[v] /\ in[v][i] = p.inbox[v][i + 1] /\ i \in Nat \ {0}
      BY <1>3, <2>2, <3>1
    <3>3. i + 1 # 1
      BY <3>2
    <3> QED BY <2>1, <2>2, <3>2, <3>3
  <2>3. CASE v # w
    <3>1. in[v] = p.inbox[v]
      BY <1>1, <2>3
    <3> HIDE DEF in
    <3> QED BY <2>1, <2>3, <3>1
  <2> QED BY <2>2, <2>3
<1> HIDE DEF q, in
<1>9. /\ \A v \in Workers : \A i \in DOMAIN in[v] : in[v][i] \in p.pending \ {c}
      /\ \A u, v \in Workers : \A i \in DOMAIN in[u], j \in DOMAIN in[v] :
           in[u][i] = in[v][j] => u = v /\ i = j
  <2>1. \A v \in Workers : \A i \in DOMAIN in[v] : in[v][i] \in p.pending \ {c}
    BY <1>8
  <2>2. ASSUME NEW u \in Workers, NEW v \in Workers, NEW i \in DOMAIN in[u],
               NEW j \in DOMAIN in[v], in[u][i] = in[v][j]
        PROVE  u = v /\ i = j
    <3>1. PICK k \in DOMAIN p.inbox[u] :
            in[u][i] = p.inbox[u][k] /\ k = (IF u = w THEN i + 1 ELSE i)
            /\ (u = w => i \in Nat \ {0})
      BY <1>8
    <3>2. PICK l \in DOMAIN p.inbox[v] :
            in[v][j] = p.inbox[v][l] /\ l = (IF v = w THEN j + 1 ELSE j)
            /\ (v = w => j \in Nat \ {0})
      BY <1>8
    <3>3. u = v /\ k = l
      <4>1. p.inbox[u][k] = p.inbox[v][l]
        BY <2>2, <3>1, <3>2
      <4> QED BY <4>1 DEF PoolOK
    <3> QED BY <3>1, <3>2, <3>3
  <2> QED BY <2>1, <2>2
<1>10. PoolOK(q)
  BY <1>1, <1>2, <1>6, <1>7, <1>9 DEF PoolOK
<1>11. NearlyFull(q)
  <2>1. Len(q.queue) > 1 => p.queue # <<>>
    BY <1>1, <1>2, EmptySeq
  <2> QED BY <1>1, <1>2, <2>1 DEF NearlyFull, Full
<1>12. Tasks(q) = Tasks(p) \ {c}
  BY <1>2, <1>4 DEF Tasks, PoolOK
<1>13. Answered(p, w, c) = PostNext(q)
  BY DEF Answered, q
<1>14. c \in Tasks(p) /\ c \in CallIds
  BY <1>1, <1>4 DEF Tasks
<1> QED BY <1>10, <1>11, <1>12, <1>13, <1>14, PostNextOK

-----------------------------------------------------------------------------
(* The chain. *)

(* Ledgers of a history go up; only ledger 1 can be there more than once.  *)
Ascending(h) ==
  \A i, j \in DOMAIN h : i < j => h[i].seq < h[j].seq \/ (h[i].seq = 1 /\ h[j].seq = 1)

ChainOK ==
  /\ chainHead = IF ledgerHistory = <<>> THEN NoBlock ELSE Last(ledgerHistory)
  /\ Ascending(ledgerHistory)

IndexInv ==
  /\ IndexTypeOK
  /\ PoolOK(Pool) /\ Full(Pool) /\ Tasks(Pool) \subseteq DOMAIN calls
  /\ Len(calls) <= MaxCalls
  /\ ChainOK

LEMMA LedgerParts ==
  ASSUME NEW b \in Ledgers
  PROVE  /\ b.seq \in Nat \ {0} /\ b.xdr \in BOOLEAN /\ b # NoBlock
         /\ \A a \in Ledgers : b.prev = a.hash => a.seq < b.seq
<1>1. b \in Ledger
  BY IndexAssumption
<1>2. b.seq \in Nat \ {0} /\ b.xdr \in BOOLEAN
  BY <1>1 DEF Ledger
<1>3. NoBlock.seq = 0
  BY DEF NoBlock
<1> QED BY <1>2, <1>3, IndexAssumption

LEMMA EventsType ==
  ASSUME NEW b \in Ledgers
  PROVE  EventsOf(b) \in Seq(Event)
<1>1. /\ [hash |-> b.hash, seq |-> b.seq, decoded |-> FALSE] \in Event
      /\ [hash |-> b.hash, seq |-> b.seq, decoded |-> TRUE] \in Event
  BY LedgerParts DEF Event
<1> QED BY <1>1 DEF EventsOf

(* A rollback keeps nothing as high as the block that caused it, except    *)
(* that ledger 1 stays.                                                    *)
LEMMA AncestorBelow ==
  ASSUME ledgerHistory \in Seq(Ledgers), NEW b \in Ledgers
  PROVE  /\ CommonAncestor(b) \in Nat \ {0}
         /\ CommonAncestor(b) < b.seq \/ (CommonAncestor(b) = 1 /\ b.seq = 1)
<1> DEFINE parents == {i \in DOMAIN ledgerHistory : ledgerHistory[i].hash = b.prev}
<1>1. CASE parents # {}
  <2>1. Len(ledgerHistory) \in Nat /\ parents \in SUBSET (1..Len(ledgerHistory))
    OBVIOUS
  <2>2. \E i \in parents : \A j \in parents : j <= i
    BY <1>1, <2>1, LastPosition
  <2>3. PICK i \in parents : CommonAncestor(b) = ledgerHistory[i].seq
    BY <1>1, <2>2 DEF CommonAncestor
  <2>4. ledgerHistory[i] \in Ledgers /\ ledgerHistory[i].hash = b.prev
    BY <2>1
  <2> QED BY <2>3, <2>4, LedgerParts
<1>2. CASE parents = {}
  <2>1. CommonAncestor(b) = IF b.seq > 1 THEN b.seq - 1 ELSE 1
    BY <1>2 DEF CommonAncestor
  <2> QED BY <2>1, LedgerParts
<1> QED BY <1>1, <1>2

LEMMA AppendAscending ==
  ASSUME NEW h \in Seq(Ledgers), Ascending(h), NEW b \in Ledgers,
         \A i \in DOMAIN h : h[i].seq < b.seq \/ (h[i].seq = 1 /\ b.seq = 1)
  PROVE  Ascending(Append(h, b)) /\ Append(h, b) \in Seq(Ledgers)
         /\ Append(h, b) # <<>> /\ Last(Append(h, b)) = b
<1>1. /\ Append(h, b) \in Seq(Ledgers) /\ Append(h, b) # <<>> /\ Len(h) \in Nat
      /\ DOMAIN h = 1..Len(h) /\ DOMAIN Append(h, b) = 1..(Len(h) + 1)
      /\ \A i \in 1..Len(h) : Append(h, b)[i] = h[i]
      /\ Append(h, b)[Len(h) + 1] = b /\ Len(Append(h, b)) = Len(h) + 1
  OBVIOUS
<1>2. ASSUME NEW i \in 1..(Len(h) + 1), NEW j \in 1..(Len(h) + 1), i < j
      PROVE  \/ Append(h, b)[i].seq < Append(h, b)[j].seq
             \/ Append(h, b)[i].seq = 1 /\ Append(h, b)[j].seq = 1
  <2>1. i \in 1..Len(h)
    BY <1>1, <1>2
  <2>2. CASE j \in 1..Len(h)
    BY <1>1, <1>2, <2>1, <2>2 DEF Ascending
  <2>3. CASE j = Len(h) + 1
    BY <1>1, <2>1, <2>3
  <2> QED BY <1>1, <2>2, <2>3
<1>3. Ascending(Append(h, b))
  BY <1>1, <1>2 DEF Ascending
<1> QED BY <1>1, <1>3 DEF Last

LEMMA ExtendChain ==
  ASSUME IndexInv, NEW b \in Ledgers, NEW c, Extend(c, b)
  PROVE  /\ ChainOK' /\ chainHead' \in Ledgers /\ ledgerHistory' \in Seq(Ledgers)
         /\ indexedEvents' \in Seq(Event) /\ reorgInProgress' \in BOOLEAN
         /\ undecoded' \subseteq Nat
<1> DEFINE h == ledgerHistory
<1>1. /\ h \in Seq(Ledgers) /\ Ascending(h) /\ Len(h) \in Nat /\ DOMAIN h = 1..Len(h)
      /\ chainHead = IF h = <<>> THEN NoBlock ELSE h[Len(h)]
  BY DEF IndexInv, IndexTypeOK, ChainOK, Last
<1>2. \A i \in DOMAIN h : h[i] \in Ledgers
  BY <1>1
<1>3. ASSUME NEW i \in DOMAIN h PROVE h[i].seq < b.seq
  <2>1. h # <<>> /\ Len(h) \in DOMAIN h
    BY <1>1
  <2>2. chainHead = h[Len(h)] /\ h[Len(h)] \in Ledgers /\ h[i] \in Ledgers
    BY <1>1, <1>2, <2>1
  <2>3. chainHead.hash = b.prev
    BY <2>2, LedgerParts DEF Extend
  <2>4. h[Len(h)].seq < b.seq /\ h[Len(h)].seq \in Nat \ {0} /\ b.seq \in Nat /\ h[i].seq \in Nat
    BY <2>2, <2>3, LedgerParts
  <2>5. i = Len(h) \/ i < Len(h)
    BY <1>1
  <2>6. i < Len(h) => h[i].seq <= h[Len(h)].seq
    BY <1>1, <2>1, <2>4 DEF Ascending
  <2> QED BY <2>4, <2>5, <2>6
<1>4. /\ ledgerHistory' = Append(h, b) /\ chainHead' = b /\ reorgInProgress' = reorgInProgress
      /\ indexedEvents' = indexedEvents \o EventsOf(b) /\ undecoded' = undecoded
  BY DEF Extend
<1>5. /\ Ascending(Append(h, b)) /\ Append(h, b) \in Seq(Ledgers)
      /\ Append(h, b) # <<>> /\ Last(Append(h, b)) = b
  BY <1>1, <1>3, AppendAscending
<1>6. indexedEvents \in Seq(Event) /\ EventsOf(b) \in Seq(Event)
  BY EventsType DEF IndexInv, IndexTypeOK
<1>7. indexedEvents' \in Seq(Event)
  BY <1>4, <1>6
<1> QED BY <1>4, <1>5, <1>7 DEF ChainOK, IndexInv, IndexTypeOK

LEMMA ReorganiseChain ==
  ASSUME IndexInv, NEW b \in Ledgers, NEW c, Reorganise(c, b)
  PROVE  /\ ChainOK' /\ chainHead' \in Ledgers /\ ledgerHistory' \in Seq(Ledgers)
         /\ indexedEvents' \in Seq(Event) /\ reorgInProgress' \in BOOLEAN
         /\ undecoded' \subseteq Nat
<1> DEFINE h == ledgerHistory
           last == CommonAncestor(b)
           at == {i \in DOMAIN h : h[i].seq <= last}
           kept == Picked(h, at)
           atEvents == {i \in DOMAIN indexedEvents : indexedEvents[i].seq <= last}
<1>1. h \in Seq(Ledgers) /\ Ascending(h) /\ indexedEvents \in Seq(Event)
  BY DEF IndexInv, IndexTypeOK, ChainOK
<1>2. /\ ledgerHistory' = Append(kept, b) /\ chainHead' = b /\ reorgInProgress' = b.xdr
      /\ indexedEvents' = Picked(indexedEvents, atEvents) \o IF b.xdr THEN <<>> ELSE EventsOf(b)
      /\ undecoded' \subseteq undecoded
  BY DEF Reorganise, KeptLedgers, KeptEvents
<1>3. last \in Nat \ {0} /\ (last < b.seq \/ (last = 1 /\ b.seq = 1)) /\ b.seq \in Nat
  BY <1>1, AncestorBelow, LedgerParts
<1>4. at \in SUBSET (DOMAIN h) /\ atEvents \in SUBSET (DOMAIN indexedEvents)
  OBVIOUS
<1>5. \A i \in at : h[i] \in Ledgers /\ h[i].seq \in Nat \ {0} /\ h[i].seq <= last
  BY <1>1, LedgerParts
<1> HIDE DEF at, atEvents, last
<1>6. /\ kept \in Seq(Ledgers)
      /\ \A k \in DOMAIN kept : \E i \in at : kept[k] = h[i]
      /\ \A k, l \in DOMAIN kept : k < l =>
           \E i, j \in at : i < j /\ kept[k] = h[i] /\ kept[l] = h[j]
  BY <1>1, <1>4, PickedOrder
<1> HIDE DEF kept
<1>7. Ascending(kept)
  BY <1>1, <1>4, <1>6 DEF Ascending
<1>8. \A k \in DOMAIN kept : kept[k].seq < b.seq \/ (kept[k].seq = 1 /\ b.seq = 1)
  BY <1>3, <1>5, <1>6
<1>9. /\ Ascending(Append(kept, b)) /\ Append(kept, b) \in Seq(Ledgers)
      /\ Append(kept, b) # <<>> /\ Last(Append(kept, b)) = b
  BY <1>6, <1>7, <1>8, AppendAscending
<1>10. indexedEvents' \in Seq(Event)
  <2>1. Picked(indexedEvents, atEvents) \in Seq(Event)
    BY <1>1, <1>4, PickedOrder
  <2>2. EventsOf(b) \in Seq(Event) /\ <<>> \in Seq(Event)
    BY EventsType
  <2> QED BY <1>2, <2>1, <2>2
<1>11. b.xdr \in BOOLEAN
  BY LedgerParts
<1> QED BY <1>2, <1>9, <1>10, <1>11 DEF ChainOK, IndexInv, IndexTypeOK

-----------------------------------------------------------------------------
(* Steps. *)
Call == [block : Ledgers, phase : Phases]

LEMMA SetPoolIsPool ==
  ASSUME NEW p, PoolOK(p), SetPool(p)
  PROVE  Pool' = p
<1>1. p = [queue |-> p.queue, pending |-> p.pending, active |-> p.active,
           next |-> p.next, inbox |-> p.inbox]
  BY DEF PoolOK, PoolType
<1> QED BY <1>1 DEF SetPool, Pool

(* A call is registered, or moves to another phase. *)
LEMMA PhaseSet ==
  ASSUME IndexInv, NEW c \in 1..(Len(calls) + 1), c <= MaxCalls, NEW b \in Ledgers,
         NEW phase \in Phases, SetPhase(c, b, phase)
  PROVE  /\ calls' \in Seq(Call) /\ Len(calls') <= MaxCalls
         /\ DOMAIN calls \subseteq DOMAIN calls' /\ c \in DOMAIN calls'
<1>1. calls \in Seq(Call) /\ Len(calls) \in Nat /\ Len(calls) <= MaxCalls
  BY DEF IndexInv, IndexTypeOK, Call
<1>2. CASE c > Len(calls)
  <2> DEFINE new == [block |-> b, phase |-> phase]
  <2>1. new \in Call /\ calls' = Append(calls, new) /\ c = Len(calls) + 1
    BY <1>1, <1>2 DEF SetPhase, Call
  <2> HIDE DEF new
  <2> QED BY <1>1, <2>1, AppendProperties
<1>3. CASE ~ (c > Len(calls))
  <2>1. c \in 1..Len(calls) /\ calls' = [calls EXCEPT ![c].phase = phase]
    BY <1>1, <1>3 DEF SetPhase
  <2>2. calls[c] \in Call
    BY <1>1, <2>1
  <2>3. [calls[c] EXCEPT !.phase = phase] \in Call
    BY <2>2 DEF Call
  <2>4. calls' = [calls EXCEPT ![c] = [calls[c] EXCEPT !.phase = phase]]
    BY <2>1
  <2>5. calls' \in Seq(Call) /\ Len(calls') = Len(calls)
    BY <1>1, <2>1, <2>3, <2>4, ExceptSeq
  <2> QED BY <1>1, <2>1, <2>5
<1> QED BY <1>2, <1>3

(* What a step owes the invariant when it has seen to the chain. *)
LEMMA IndexInvFrom ==
  ASSUME IndexInv, NEW p, PoolOK(p), Full(p), SetPool(p),
         calls' \in Seq(Call), Len(calls') <= MaxCalls, Tasks(p) \subseteq DOMAIN calls',
         ChainOK', chainHead' \in Ledgers \cup {NoBlock}, ledgerHistory' \in Seq(Ledgers),
         indexedEvents' \in Seq(Event), reorgInProgress' \in BOOLEAN,
         undecoded' \subseteq Nat, dead' \subseteq Workers, overlapped' \in BOOLEAN
  PROVE  IndexInv'
<1>1. Pool' = p
  BY SetPoolIsPool
<1>2. PoolOK(Pool)' /\ Full(Pool)' /\ (Tasks(Pool) \subseteq DOMAIN calls)'
  BY <1>1 DEF PoolOK, Full, Tasks
<1>3. IndexTypeOK'
  <2>1. /\ p.queue \in Seq(CallIds) /\ p.pending \in SUBSET CallIds /\ p.active \in Nat
        /\ p.next \in Workers /\ p.inbox \in [Workers -> Seq(CallIds)]
        /\ NumWorkers \in Nat \ {0} /\ p.active <= NumWorkers
    BY IndexAssumption DEF PoolOK, PoolType
  <2>2. /\ taskQueue' \in Seq(CallIds) /\ pendingTasks' \subseteq CallIds
        /\ activeWorkers' \in 0..NumWorkers /\ nextWorker' \in Workers
        /\ inbox' \in [Workers -> Seq(CallIds)]
    BY <2>1 DEF SetPool
  <2> QED BY <2>2 DEF IndexTypeOK, Call
<1> QED BY <1>2, <1>3 DEF IndexInv

(* The pool may hold any calls made but the one that goes on. *)
LEMMA ContinueInv ==
  ASSUME IndexInv, NEW b \in Ledgers, NEW c \in 1..(Len(calls) + 1), c <= MaxCalls,
         NEW p, PoolOK(p), Full(p), Tasks(p) \subseteq DOMAIN calls, c \notin Tasks(p),
         Continue(c, b, p), dead' \subseteq Workers, overlapped' \in BOOLEAN
  PROVE  IndexInv'
<1>1. c \in CallIds
  BY IndexAssumption DEF CallIds, IndexInv, IndexTypeOK
<1>2. CASE Extend(c, b) /\ SetPool(p)
  <2>1. calls' \in Seq(Call) /\ Len(calls') <= MaxCalls /\ DOMAIN calls \subseteq DOMAIN calls'
    BY <1>2, PhaseSet DEF Extend, Phases
  <2>2. Tasks(p) \subseteq DOMAIN calls'
    BY <2>1
  <2> QED BY <1>2, <2>1, <2>2, ExtendChain, IndexInvFrom
<1>3. CASE /\ Reorganise(c, b)
           /\ SetPool(IF b.xdr THEN Enqueue(p, c) ELSE p)
  <2> DEFINE q == IF b.xdr THEN Enqueue(p, c) ELSE p
  <2>1. PoolOK(q) /\ Full(q) /\ Tasks(q) \subseteq Tasks(p) \cup {c} /\ SetPool(q)
    BY <1>1, <1>3, EnqueueOK
  <2>2. /\ calls' \in Seq(Call) /\ Len(calls') <= MaxCalls /\ DOMAIN calls \subseteq DOMAIN calls'
        /\ c \in DOMAIN calls'
    <3>1. PICK phase \in Phases : SetPhase(c, b, phase)
      BY <1>3 DEF Reorganise, Phases
    <3> QED BY <3>1, PhaseSet
  <2>3. Tasks(q) \subseteq DOMAIN calls'
    BY <2>1, <2>2
  <2> HIDE DEF q
  <2> QED BY <1>3, <2>1, <2>2, <2>3, ReorganiseChain, IndexInvFrom
<1> QED BY <1>2, <1>3 DEF Continue

LEMMA ProcessBlockInv ==
  ASSUME IndexInv, NEW b \in Ledgers, ProcessBlock(b)
  PROVE  IndexInv'
<1> DEFINE c == Len(calls) + 1
<1>1. /\ c \in 1..(Len(calls) + 1) /\ c <= MaxCalls /\ c \notin DOMAIN calls
      /\ c \in CallIds /\ Len(calls) \in Nat
  BY IndexAssumption DEF ProcessBlock, IndexInv, IndexTypeOK, CallIds
<1>2. dead' \subseteq Workers /\ overlapped' \in BOOLEAN
  BY DEF ProcessBlock, IndexInv, IndexTypeOK
<1>3. PoolOK(Pool) /\ Full(Pool) /\ Tasks(Pool) \subseteq DOMAIN calls /\ c \notin Tasks(Pool)
  BY <1>1 DEF IndexInv
<1> HIDE DEF c
<1>4. CASE b.xdr
  <2>1. SetPhase(c, b, "decoding") /\ SetPool(Enqueue(Pool, c)) /\ UNCHANGED chainVars
    BY <1>4 DEF ProcessBlock, c
  <2>2. /\ PoolOK(Enqueue(Pool, c)) /\ Full(Enqueue(Pool, c))
        /\ Tasks(Enqueue(Pool, c)) = Tasks(Pool) \cup {c}
    BY <1>1, <1>3, EnqueueOK
  <2>3. /\ calls' \in Seq(Call) /\ Len(calls') <= MaxCalls /\ DOMAIN calls \subseteq DOMAIN calls'
        /\ c \in DOMAIN calls'
    BY <1>1, <2>1, PhaseSet DEF Phases
  <2>4. /\ ChainOK' /\ chainHead' \in Ledgers \cup {NoBlock} /\ ledgerHistory' \in Seq(Ledgers)
        /\ indexedEvents' \in Seq(Event) /\ reorgInProgress' \in BOOLEAN
        /\ undecoded' \subseteq Nat
    BY <2>1 DEF chainVars, IndexInv, IndexTypeOK, ChainOK
  <2>5. Tasks(Enqueue(Pool, c)) \subseteq DOMAIN calls'
    BY <1>3, <2>2, <2>3
  <2> QED BY <1>2, <2>1, <2>2, <2>3, <2>4, <2>5, IndexInvFrom
<1>5. CASE ~ b.xdr
  <2>1. Continue(c, b, Pool)
    BY <1>5 DEF ProcessBlock, c
  <2> QED BY <1>1, <1>2, <1>3, <2>1, ContinueInv
<1> QED BY <1>4, <1>5

LEMMA WorkerAnswersInv ==
  ASSUME IndexInv, NEW w \in Workers, WorkerSucceeds(w) \/ WorkerFails(w)
  PROVE  IndexInv'
<1> DEFINE c == Head(inbox[w])
           p == Answered(Pool, w, c)
<1>1. /\ PoolOK(Pool) /\ Full(Pool) /\ Tasks(Pool) \subseteq DOMAIN calls
      /\ Pool.inbox[w] # <<>> /\ c = Head(Pool.inbox[w])
      /\ dead' \subseteq Workers /\ overlapped' \in BOOLEAN
  BY DEF IndexInv, IndexTypeOK, WorkerSucceeds, WorkerFails, Pool
<1>2. /\ c \in Tasks(Pool) /\ PoolOK(p) /\ Full(p) /\ Tasks(p) = Tasks(Pool) \ {c}
  <2> HIDE DEF c
  <2> QED BY <1>1, AnsweredOK
<1>3. /\ c \in DOMAIN calls /\ c \in 1..(Len(calls) + 1) /\ c <= MaxCalls
      /\ calls[c] \in Call /\ calls[c].block \in Ledgers
      /\ Tasks(p) \subseteq DOMAIN calls /\ c \notin Tasks(p)
  <2>1. calls \in Seq(Call) /\ Len(calls) <= MaxCalls /\ Len(calls) \in Nat
    BY DEF IndexInv, IndexTypeOK, Call
  <2>2. c \in DOMAIN calls /\ Tasks(p) \subseteq DOMAIN calls /\ c \notin Tasks(p)
    BY <1>1, <1>2
  <2> HIDE DEF c, p
  <2>3. c \in 1..Len(calls) /\ calls[c] \in Call
    BY <2>1, <2>2
  <2>4. MaxCalls \in Nat
    BY IndexAssumption
  <2> QED BY <2>1, <2>2, <2>3, <2>4 DEF Call
<1>4. CASE calls[c].phase = "decoding" /\ Continue(c, calls[c].block, p)
  <2> HIDE DEF c, p
  <2> QED BY <1>1, <1>2, <1>3, <1>4, ContinueInv
<1>5. ASSUME SetPool(p), NEW phase \in Phases, SetPhase(c, calls[c].block, phase),
             UNCHANGED <<chainHead, ledgerHistory>>, indexedEvents' \in Seq(Event),
             reorgInProgress' \in BOOLEAN, undecoded' \subseteq Nat
      PROVE  IndexInv'
  <2> HIDE DEF c, p
  <2>1. calls' \in Seq(Call) /\ Len(calls') <= MaxCalls /\ DOMAIN calls \subseteq DOMAIN calls'
    BY <1>3, <1>5, PhaseSet
  <2>2. ChainOK' /\ chainHead' \in Ledgers \cup {NoBlock} /\ ledgerHistory' \in Seq(Ledgers)
    BY <1>5 DEF IndexInv, IndexTypeOK, ChainOK
  <2>3. Tasks(p) \subseteq DOMAIN calls'
    BY <1>3, <2>1
  <2> QED BY <1>1, <1>2, <1>5, <2>1, <2>2, <2>3, IndexInvFrom
<1>6. CASE WorkerSucceeds(w)
  <2>1. CASE calls[c].phase = "decoding" /\ Continue(c, calls[c].block, p)
    BY <1>4, <2>1
  <2>2. CASE /\ indexedEvents' = indexedEvents \o EventsOf(calls[c].block)
             /\ reorgInProgress' = FALSE
             /\ SetPhase(c, calls[c].block, "indexed")
             /\ SetPool(p)
             /\ UNCHANGED <<chainHead, ledgerHistory, undecoded>>
    <3> HIDE DEF c, p
    <3>1. indexedEvents \in Seq(Event) /\ EventsOf(calls[c].block) \in Seq(Event)
      BY <1>3, EventsType DEF IndexInv, IndexTypeOK
    <3>2. indexedEvents' \in Seq(Event)
      BY <2>2, <3>1
    <3> QED BY <1>5, <2>2, <3>2 DEF IndexInv, IndexTypeOK, Phases
  <2> QED BY <1>6, <2>1, <2>2 DEF WorkerSucceeds
<1>7. CASE WorkerFails(w)
  <2>1. /\ SetPhase(c, calls[c].block, "failed") /\ SetPool(p)
        /\ reorgInProgress' = (reorgInProgress /\ ~(calls[c].phase = "resyncing"))
        /\ undecoded' = IF calls[c].phase = "resyncing"
                        THEN undecoded \cup {Len(ledgerHistory)} ELSE undecoded
        /\ UNCHANGED <<chainHead, ledgerHistory, indexedEvents>>
    BY <1>7 DEF WorkerFails
  <2> HIDE DEF c, p
  <2>2. undecoded' \subseteq Nat /\ reorgInProgress' \in BOOLEAN
        /\ indexedEvents' \in Seq(Event)
    BY <2>1, LenProperties DEF IndexInv, IndexTypeOK
  <2> QED BY <1>5, <2>1, <2>2 DEF Phases
<1> QED BY <1>6, <1>7

LEMMA NextIndexInv == IndexInv /\ [IndexNext]_indexVars => IndexInv'
<1> SUFFICES ASSUME IndexInv, [IndexNext]_indexVars PROVE IndexInv'
  OBVIOUS
<1>1. ASSUME NEW b \in Ledgers, ProcessBlock(b) PROVE IndexInv'
  BY <1>1, ProcessBlockInv
<1>2. ASSUME NEW w \in Workers, WorkerSucceeds(w) \/ WorkerFails(w) PROVE IndexInv'
  BY <1>2, WorkerAnswersInv
<1>3. ASSUME UNCHANGED <<chainVars, poolVars, calls, overlapped>>, dead' \subseteq Workers
      PROVE  IndexInv'
  BY <1>3 DEF IndexInv, IndexTypeOK, ChainOK, PoolOK, Full, Tasks, Pool, chainVars, poolVars
<1>4. ASSUME NEW w \in Workers, WorkerExits(w) PROVE IndexInv'
  BY <1>3, <1>4 DEF WorkerExits, IndexInv, IndexTypeOK
<1>5. CASE UNCHANGED indexVars
  BY <1>3, <1>5 DEF indexVars, IndexInv, IndexTypeOK
<1> QED BY <1>1, <1>2, <1>4, <1>5 DEF IndexNext

LEMMA InitIndexInv == IndexInit => IndexInv
<1> SUFFICES ASSUME IndexInit PROVE IndexInv
  OBVIOUS
<1>1. NumWorkers \in Nat \ {0} /\ MaxCalls \in Nat
  BY IndexAssumption
<1>2. IndexTypeOK
  <2>1. inbox \in [Workers -> Seq(CallIds)]
    BY DEF IndexInit
  <2>2. activeWorkers \in 0..NumWorkers /\ nextWorker \in Workers
    BY <1>1 DEF IndexInit, Workers
  <2>3. /\ ledgerHistory \in Seq(Ledgers) /\ indexedEvents \in Seq(Event)
        /\ taskQueue \in Seq(CallIds) /\ calls \in Seq([block : Ledgers, phase : Phases])
    <3>1. \A S : <<>> \in Seq(S)
      OBVIOUS
    <3> QED BY <3>1 DEF IndexInit
  <2> QED BY <2>1, <2>2, <2>3 DEF IndexInit, IndexTypeOK
<1>3. PoolOK(Pool)
  <2>1. Pool \in PoolType
    BY <1>2 DEF Pool, PoolType, IndexTypeOK
  <2>2. Cardinality({}) = 0
    BY FS_EmptySet
  <2>3. /\ Pool.queue = <<>> /\ Pool.pending = {} /\ Pool.active = 0
        /\ \A w \in Workers : Pool.inbox[w] = <<>>
    BY DEF IndexInit, Pool
  <2> QED BY <1>1, <2>1, <2>2, <2>3 DEF PoolOK
<1>4. Full(Pool) /\ Tasks(Pool) \subseteq DOMAIN calls /\ Len(calls) <= MaxCalls
  BY <1>1 DEF IndexInit, Pool, Full, Tasks
<1>5. ChainOK
  BY DEF IndexInit, ChainOK, Ascending
<1> QED BY <1>2, <1>3, <1>4, <1>5 DEF IndexInv

(* Tasks, answers and the history stay consistent through rollbacks,       *)
(* failed decodings and dead workers: the inductive invariant.             *)
THEOREM IndexInvariant == IndexSpec => []IndexInv
BY InitIndexInv, NextIndexInv, PTL DEF IndexSpec

(* The counter of busy workers is never below zero or above the pool, and  *)
(* only known calls wait for a worker.                                     *)
THEOREM IndexWellTyped == IndexSpec => []IndexTypeOK
<1>1. IndexInv => IndexTypeOK
  BY DEF IndexInv
<1> QED BY <1>1, IndexInvariant, PTL

(* However calls, answers and re-organisations interleave, the counter     *)
(* agrees with the tasks posted and no task waits while a slot is free.    *)
THEOREM PoolStaysFull == IndexSpec => []PoolFull
<1>1. IndexInv => PoolFull
  BY DEF IndexInv, PoolOK, Full, Pool, PoolFull
<1> QED BY <1>1, IndexInvariant, PTL

(* The head is the last ledger of the history and the history goes up,     *)
(* whatever blocks arrive in whatever order.                               *)
THEOREM HeadStaysTip == IndexSpec => []HeadIsTip
<1>1. IndexInv => HeadIsTip
  BY DEF IndexInv, ChainOK, Ascending, HeadIsTip
<1> QED BY <1>1, IndexInvariant, PTL

-----------------------------------------------------------------------------
(* The events of a history h, of which the ledgers at the positions in u   *)
(* were not decoded: w[n] is what its first n ledgers bring.               *)
EventsAt(h, u, n) == IF n \in u THEN <<>> ELSE EventsOf(h[n])

Upto(h, u, w) ==
  /\ w \in [0..Len(h) -> Seq(Event)]
  /\ w[0] = <<>>
  /\ \A n \in 1..Len(h) : w[n] = w[n - 1] \o EventsAt(h, u, n)

LEMMA EventsAtType ==
  ASSUME NEW h \in Seq(Ledgers), NEW u, NEW n \in 1..Len(h)
  PROVE  /\ EventsAt(h, u, n) \in Seq(Event)
         /\ \A i \in 1..Len(EventsAt(h, u, n)) : EventsAt(h, u, n)[i].seq = h[n].seq
<1>1. h[n] \in Ledgers /\ EventsOf(h[n]) \in Seq(Event) /\ <<>> \in Seq(Event)
  BY EventsType
<1>2. \A i \in 1..Len(EventsOf(h[n])) : EventsOf(h[n])[i].seq = h[n].seq
  <2>1. PICK x, y, s : /\ x = <<[hash |-> h[n].hash, seq |-> h[n].seq, decoded |-> FALSE]>>
                    /\ y = <<[hash |-> h[n].hash, seq |-> h[n].seq, decoded |-> TRUE]>>
                    /\ s = h[n].seq
    OBVIOUS
  <2>2. CASE h[n].xdr
    <3>1. EventsOf(h[n]) = x \o y
      BY <2>1, <2>2 DEF EventsOf
    <3>2. /\ Len(x \o y) = 2 /\ (x \o y)[1].seq = s /\ (x \o y)[2].seq = s
      BY <2>1
    <3> QED BY <2>1, <3>1, <3>2
  <2>3. CASE ~h[n].xdr
    <3>1. EventsOf(h[n]) = x \o <<>>
      BY <2>1, <2>3 DEF EventsOf
    <3>2. /\ Len(x \o <<>>) = 1 /\ (x \o <<>>)[1].seq = s
      BY <2>1
    <3> QED BY <2>1, <3>1, <3>2
  <2> QED BY <2>2, <2>3
<1> QED BY <1>1, <1>2 DEF EventsAt

(* x is what ledger b brings behind h. *)
Brings(x, h, u, b) ==
  x \in Seq(Event) /\ x = IF Len(h) + 1 \in u THEN <<>> ELSE EventsOf(b)

LEMMA UptoAppend ==
  ASSUME NEW h \in Seq(Ledgers), NEW u, NEW w, Upto(h, u, w), NEW b \in Ledgers,
         NEW x, Brings(x, h, u, b)
  PROVE  \E v : /\ Upto(Append(h, b), u, v)
                /\ v[Len(h) + 1] = w[Len(h)] \o x
<1> USE DEF Brings
<1>1. /\ Len(h) \in Nat /\ Len(Append(h, b)) = Len(h) + 1 /\ Append(h, b) \in Seq(Ledgers)
      /\ \A i \in 1..Len(h) : Append(h, b)[i] = h[i]
      /\ Append(h, b)[Len(h) + 1] = b
  BY AppendProperties, LenProperties
<1>2. PICK g : g = Append(h, b)
  OBVIOUS
<1>3. PICK N \in Nat : N = Len(h) /\ Len(g) = N + 1
  BY <1>1, <1>2
<1> DEFINE v == [n \in 0..(N + 1) |-> IF n = N + 1 THEN w[N] \o x ELSE w[n]]
<1>4. ASSUME NEW n \in 0..N
      PROVE  n \in 0..(N + 1) /\ n # N + 1 /\ w[n] \in Seq(Event) /\ v[n] = w[n]
  <2>1. n \in 0..(N + 1) /\ n # N + 1
    OBVIOUS
  <2>2. w[n] \in Seq(Event)
    BY <1>3 DEF Upto
  <2> QED BY <2>1, <2>2
<1>5. x \in Seq(Event) /\ w[N] \in Seq(Event) /\ w[N] \o x \in Seq(Event)
  <2>1. N \in 0..N
    OBVIOUS
  <2>2. x \in Seq(Event) /\ w[N] \in Seq(Event)
    BY <1>4, <2>1
  <2> QED BY ONLY <2>2, ConcatProperties
<1>6. v[N + 1] = w[N] \o x /\ v[N] = w[N]
  BY <1>4
<1>7. v \in [0..(N + 1) -> Seq(Event)]
  <2>1. \A n \in 0..(N + 1) : n # N + 1 => n \in 0..N
    OBVIOUS
  <2> QED BY <1>4, <1>5, <2>1
<1>8. v[0] = <<>>
  BY <1>3, <1>4 DEF Upto
<1>9. ASSUME NEW n \in 1..(N + 1) PROVE v[n] = v[n - 1] \o EventsAt(g, u, n)
  <2>1. CASE n = N + 1
    <3>1. EventsAt(g, u, n) = x /\ n - 1 = N
      BY <1>1, <1>2, <1>3, <2>1 DEF EventsAt
    <3> HIDE DEF v
    <3> QED BY <1>6, <2>1, <3>1
  <2>2. CASE n # N + 1
    <3>1. n \in 1..N /\ n \in 0..N /\ n - 1 \in 0..N
      BY <2>2
    <3>2. v[n] = w[n] /\ v[n - 1] = w[n - 1]
      BY <1>4, <3>1
    <3>3. g[n] = h[n]
      BY <1>1, <1>2, <1>3, <3>1
    <3>4. w[n] = w[n - 1] \o EventsAt(h, u, n)
      BY <1>3, <3>1 DEF Upto
    <3> HIDE DEF v
    <3> QED BY <3>2, <3>3, <3>4 DEF EventsAt
  <2> QED BY <2>1, <2>2
<1> HIDE DEF v
<1>10. Upto(g, u, v)
  BY <1>3, <1>7, <1>8, <1>9 DEF Upto
<1> QED BY <1>2, <1>3, <1>6, <1>10

(* g is the first k ledgers of h, of which z says the same as u.            *)
Prefix(g, z, h, u, k) ==
  /\ k \in 0..Len(h) /\ Len(g) = k
  /\ \A i \in 1..k : g[i] = h[i] /\ (i \in z <=> i \in u)

LEMMA UptoPrefix ==
  ASSUME NEW h \in Seq(Ledgers), NEW u, NEW w, Upto(h, u, w),
         NEW k, NEW g, NEW z, Prefix(g, z, h, u, k)
  PROVE  \E v : Upto(g, z, v) /\ v[k] = w[k]
<1> USE DEF Prefix
<1>1. Len(h) \in Nat /\ k \in Nat
  BY LenProperties
<1> DEFINE v == [n \in 0..k |-> w[n]]
<1>2. ASSUME NEW n \in 0..k PROVE n \in 0..Len(h) /\ v[n] = w[n] /\ w[n] \in Seq(Event)
  <2>1. n \in 0..Len(h) /\ v[n] = w[n]
    BY <1>1
  <2> QED BY <2>1 DEF Upto
<1>3. v \in [0..k -> Seq(Event)] /\ v[0] = <<>> /\ v[k] = w[k]
  BY <1>1, <1>2 DEF Upto
<1>4. ASSUME NEW n \in 1..k PROVE v[n] = v[n - 1] \o EventsAt(g, z, n)
  <2>1. n \in 0..k /\ n - 1 \in 0..k /\ n \in 1..Len(h)
    BY <1>1
  <2>2. EventsAt(g, z, n) = EventsAt(h, u, n)
    BY DEF EventsAt
  <2>3. w[n] = w[n - 1] \o EventsAt(h, u, n)
    BY <2>1 DEF Upto
  <2> HIDE DEF v
  <2> QED BY <1>2, <2>1, <2>2, <2>3
<1> HIDE DEF v
<1>5. Upto(g, z, v)
  BY <1>3, <1>4 DEF Upto
<1> QED BY <1>3, <1>5

(* The last ledger is decoded after all. *)
LEMMA UptoResync ==
  ASSUME NEW h \in Seq(Ledgers), h # <<>>, NEW u, Len(h) \notin u,
         NEW w, Upto(h, u \cup {Len(h)}, w)
  PROVE  \E v : Upto(h, u, v) /\ v[Len(h)] = w[Len(h)] \o EventsOf(h[Len(h)])
<1>1. PICK N \in Nat \ {0} : N = Len(h)
  BY EmptySeq, LenProperties
<1>2. PICK x \in Seq(Event) : x = EventsOf(h[N])
  <2>1. h[N] \in Ledgers
    BY <1>1
  <2> QED BY <2>1, EventsType
<1> DEFINE v == [n \in 0..N |-> IF n = N THEN w[N] \o x ELSE w[n]]
<1>3. \A n \in 0..N : w[n] \in Seq(Event)
  BY <1>1 DEF Upto
<1>4. N \in 0..N /\ N - 1 \in 0..N /\ 0 \in 0..N /\ 0 # N
  OBVIOUS
<1>5. w[N] \in Seq(Event) /\ w[N - 1] \in Seq(Event) /\ w[N] \o x \in Seq(Event)
  <2>1. w[N] \in Seq(Event) /\ w[N - 1] \in Seq(Event) /\ x \in Seq(Event)
    BY <1>2, <1>3, <1>4
  <2> QED BY ONLY <2>1, ConcatProperties
<1>6. v \in [0..N -> Seq(Event)]
  BY <1>3, <1>5
<1>7. v[N] = w[N] \o x /\ v[0] = <<>> /\ \A n \in 0..N : n # N => v[n] = w[n]
  BY <1>1, <1>4 DEF Upto
<1>8. w[N] = w[N - 1]
  <2>1. N \in 1..N /\ EventsAt(h, u \cup {N}, N) = <<>>
    BY DEF EventsAt
  <2>2. w[N] = w[N - 1] \o <<>>
    BY <1>1, <2>1 DEF Upto
  <2>3. w[N - 1] \o <<>> = w[N - 1]
    BY ONLY <1>5, ConcatEmptySeq
  <2> QED BY <2>2, <2>3
<1> HIDE DEF v
<1>9. ASSUME NEW n \in 1..N PROVE v[n] = v[n - 1] \o EventsAt(h, u, n)
  <2>1. n \in 0..N /\ n - 1 \in 0..N /\ n - 1 # N
    OBVIOUS
  <2>2. CASE n = N
    <3>1. EventsAt(h, u, n) = x
      BY <1>1, <1>2, <2>2 DEF EventsAt
    <3>2. v[n - 1] = w[N]
      BY <1>7, <1>8, <2>1, <2>2
    <3> QED BY <1>7, <2>2, <3>1, <3>2
  <2>3. CASE n # N
    <3>1. EventsAt(h, u, n) = EventsAt(h, u \cup {N}, n)
      BY <2>3 DEF EventsAt
    <3>2. w[n] = w[n - 1] \o EventsAt(h, u \cup {N}, n)
      BY <1>1 DEF Upto
    <3> QED BY <1>7, <2>1, <2>3, <3>1, <3>2
  <2> QED BY <2>2, <2>3
<1>10. Upto(h, u, v)
  BY <1>1, <1>6, <1>7, <1>9 DEF Upto
<1> QED BY <1>1, <1>2, <1>7, <1>10

LEMMA EventsBehind ==
  ASSUME NEW s \in Seq(Event), NEW t \in Seq(Event), NEW q,
         \A i \in 1..Len(t) : t[i].seq = q, NEW c, c = s \o t
  PROVE  /\ c \in Seq(Event) /\ Len(s) \in Nat /\ Len(c) \in Nat /\ Len(s) <= Len(c)
         /\ \A i \in 1..Len(s) : c[i] = s[i]
         /\ \A i \in 1..Len(c) : ~ (i <= Len(s)) => c[i].seq = q
<1>1. PICK m \in Nat, n \in Nat : m = Len(s) /\ n = Len(t)
  BY LenProperties
<1>2. /\ c \in Seq(Event) /\ Len(c) = m + n
      /\ \A i \in 1..(m + n) : c[i] = IF i <= m THEN s[i] ELSE t[i - m]
  BY <1>1, ConcatProperties
<1>3. ASSUME NEW i \in 1..m PROVE c[i] = s[i]
  <2>1. i \in 1..(m + n) /\ i <= m
    OBVIOUS
  <2> QED BY ONLY <1>2, <2>1
<1>4. ASSUME NEW i \in 1..(m + n), ~ (i <= m) PROVE c[i].seq = q
  <2>1. i - m \in 1..n
    BY <1>4
  <2>2. c[i] = t[i - m]
    BY ONLY <1>2, <1>4, i \in 1..(m + n)
  <2> QED BY <1>1, <2>1, <2>2
<1> QED BY ONLY <1>1, <1>2, <1>3, <1>4

(* The ledgers of h up to sequence last are its first k.                   *)
CutAt(h, last, k) ==
  k \in 0..Len(h) /\ \A i \in 1..Len(h) : h[i].seq <= last <=> i <= k

(* What the first ledgers bring comes first, and is as high as they are.   *)
LEMMA UptoOrder ==
  ASSUME NEW h \in Seq(Ledgers), NEW u, NEW w, Upto(h, u, w), NEW last \in Nat,
         NEW k, CutAt(h, last, k)
  PROVE  /\ w[k] \in Seq(Event) /\ w[Len(h)] \in Seq(Event)
         /\ Len(w[k]) <= Len(w[Len(h)])
         /\ \A i \in 1..Len(w[k]) : w[Len(h)][i] = w[k][i]
         /\ \A i \in 1..Len(w[Len(h)]) : w[Len(h)][i].seq <= last <=> i <= Len(w[k])
<1> USE DEF CutAt
<1>1. PICK N \in Nat : N = Len(h)
  BY LenProperties
<1>2. k \in Nat /\ k <= N /\ k \in 0..N /\ N \in 0..N
  BY <1>1
<1>3. \A n \in 0..N : w[n] \in Seq(Event)
  BY <1>1 DEF Upto
<1>4. ASSUME NEW n \in Nat, n + 1 \in 0..N
      PROVE  /\ w[n] \in Seq(Event) /\ w[n + 1] \in Seq(Event)
             /\ Len(w[n]) \in Nat /\ Len(w[n + 1]) \in Nat /\ Len(w[n]) <= Len(w[n + 1])
             /\ \A i \in 1..Len(w[n]) : w[n + 1][i] = w[n][i]
             /\ \A i \in 1..Len(w[n + 1]) :
                  ~ (i <= Len(w[n])) => w[n + 1][i].seq = h[n + 1].seq
  <2>1. n \in 0..N /\ n + 1 \in 1..N /\ (n + 1) - 1 = n
    BY <1>1, <1>4
  <2>2. PICK s, t : s = w[n] /\ t = EventsAt(h, u, n + 1)
    OBVIOUS
  <2>3. /\ s \in Seq(Event) /\ t \in Seq(Event)
        /\ \A i \in 1..Len(t) : t[i].seq = h[n + 1].seq
    BY <1>1, <1>3, <2>1, <2>2, EventsAtType
  <2>4. w[n + 1] = s \o t
    BY <1>1, <2>1, <2>2 DEF Upto
  <2>5. PICK c, q : c = w[n + 1] /\ q = h[n + 1].seq
    OBVIOUS
  <2>6. /\ c \in Seq(Event) /\ Len(s) \in Nat /\ Len(c) \in Nat /\ Len(s) <= Len(c)
        /\ \A i \in 1..Len(s) : c[i] = s[i]
        /\ \A i \in 1..Len(c) : ~ (i <= Len(s)) => c[i].seq = q
    BY ONLY <2>3, <2>4, <2>5, EventsBehind
  <2> QED BY ONLY <2>2, <2>3, <2>5, <2>6
<1> DEFINE Low(n) == \A i \in 1..Len(w[n]) : w[n][i].seq <= last
           Cut(n) == /\ Len(w[k]) <= Len(w[n])
                     /\ \A i \in 1..Len(w[k]) : w[n][i] = w[k][i]
                     /\ \A i \in 1..Len(w[n]) : w[n][i].seq <= last <=> i <= Len(w[k])
           A == {n \in Nat : n \in 0..N => (n <= k => Low(n)) /\ (k <= n => Cut(n))}
<1>5. ASSUME k <= k => Low(k) PROVE Cut(k)
  <2>1. Len(w[k]) \in Nat
    BY <1>2, <1>3
  <2> QED BY <1>2, <1>5, <2>1
<1>6. 0 \in A
  <2>1. w[0] = <<>> /\ Len(w[0]) = 0
    BY DEF Upto
  <2>2. Low(0)
    BY <2>1
  <2>3. k <= 0 => k = 0
    BY <1>2
  <2> HIDE DEF Low, Cut
  <2> QED BY <1>5, <2>2, <2>3
<1>7. ASSUME NEW n \in Nat, n \in A PROVE n + 1 \in A
  <2> SUFFICES ASSUME n + 1 \in 0..N
               PROVE  (n + 1 <= k => Low(n + 1)) /\ (k <= n + 1 => Cut(n + 1))
    OBVIOUS
  <2>1. n \in 0..N /\ n + 1 \in 1..Len(h)
    BY <1>1
  <2>2. n + 1 <= k => n <= k
    BY <1>2
  <2>3. ASSUME n + 1 <= k PROVE Low(n + 1)
    <3>1. Low(n)
      BY <1>7, <2>1, <2>2, <2>3
    <3>2. h[n + 1].seq <= last
      BY <2>1, <2>3
    <3>3. /\ Len(w[n]) \in Nat /\ Len(w[n + 1]) \in Nat
          /\ \A i \in 1..Len(w[n]) : w[n + 1][i] = w[n][i]
          /\ \A i \in 1..Len(w[n + 1]) :
               ~ (i <= Len(w[n])) => w[n + 1][i].seq = h[n + 1].seq
      BY <1>4
    <3>4. ASSUME NEW i \in 1..Len(w[n + 1]) PROVE w[n + 1][i].seq <= last
      <4>1. CASE i <= Len(w[n])
        <5>1. i \in 1..Len(w[n])
          BY <3>3, <4>1
        <5> QED BY <3>1, <3>3, <5>1
      <4>2. CASE ~ (i <= Len(w[n]))
        BY <3>2, <3>3, <4>2
      <4> QED BY <4>1, <4>2
    <3> QED BY <3>4
  <2>4. ASSUME k <= n PROVE Cut(n + 1)
    <3>1. Cut(n)
      BY <1>7, <2>1, <2>4
    <3>2. ~ (n + 1 <= k)
      BY <1>2, <2>4
    <3>3. ~ (h[n + 1].seq <= last)
      BY <2>1, <3>2
    <3>4. Len(w[k]) \in Nat
      BY <1>2, <1>3
    <3>5. Len(w[k]) <= Len(w[n])
      BY <3>1
    <3>6. Len(w[n]) \in Nat /\ Len(w[n + 1]) \in Nat /\ Len(w[n]) <= Len(w[n + 1])
      BY <1>4
    <3>7. ASSUME NEW i \in 1..Len(w[k]) PROVE w[n + 1][i] = w[k][i]
      <4>1. i \in 1..Len(w[n])
        BY <3>4, <3>5, <3>6
      <4> QED BY <1>4, <3>1, <4>1
    <3>8. ASSUME NEW i \in 1..Len(w[n + 1]) PROVE w[n + 1][i].seq <= last <=> i <= Len(w[k])
      <4>1. CASE i <= Len(w[n])
        <5>1. i \in 1..Len(w[n])
          BY <3>6, <4>1
        <5>2. w[n + 1][i] = w[n][i]
          BY <1>4, <5>1
        <5> QED BY <3>1, <5>1, <5>2
      <4>2. CASE ~ (i <= Len(w[n]))
        <5>1. w[n + 1][i].seq = h[n + 1].seq
          BY <1>4, <4>2
        <5>2. ~ (i <= Len(w[k]))
          BY <3>4, <3>5, <3>6, <4>2
        <5> QED BY <3>3, <5>1, <5>2
      <4> QED BY <4>1, <4>2
    <3> QED BY <3>4, <3>5, <3>6, <3>7, <3>8
  <2>5. k <= n + 1 => k <= n \/ k = n + 1
    BY <1>2
  <2> HIDE DEF Low, Cut
  <2>6. ASSUME k = n + 1 PROVE Cut(n + 1)
    <3>1. n + 1 <= k
      BY <1>2, <2>6
    <3> QED BY <1>5, <2>3, <2>6, <3>1
  <2> QED BY <2>3, <2>4, <2>5, <2>6
<1>8. N \in A
  <2> HIDE DEF A
  <2> QED BY <1>6, <1>7, NatSetInduction
<1>9. Cut(N)
  <2> HIDE DEF Cut, Low
  <2> QED BY <1>2, <1>8
<1> QED BY <1>1, <1>2, <1>3, <1>9

(* e is what the ledgers of h bring, of which those at u were not decoded. *)
Serves(e, h, u) == \E w : Upto(h, u, w) /\ e = w[Len(h)]

LEMMA ServesType ==
  ASSUME NEW h \in Seq(Ledgers), NEW u, NEW e, Serves(e, h, u)
  PROVE  e \in Seq(Event)
<1>1. PICK w : Upto(h, u, w) /\ e = w[Len(h)]
  BY DEF Serves
<1>2. Len(h) \in 0..Len(h)
  BY LenProperties
<1> QED BY <1>1, <1>2 DEF Upto

LEMMA ServesSame ==
  ASSUME NEW h \in Seq(Ledgers), NEW u, NEW z, NEW e, Serves(e, h, u),
         \A i \in 1..Len(h) : i \in z <=> i \in u
  PROVE  Serves(e, h, z)
<1>1. PICK w : Upto(h, u, w) /\ e = w[Len(h)]
  BY DEF Serves
<1>2. Prefix(h, z, h, u, Len(h))
  BY LenProperties DEF Prefix
<1>3. \E v : Upto(h, z, v) /\ v[Len(h)] = w[Len(h)]
  BY ONLY <1>1, <1>2, h \in Seq(Ledgers), UptoPrefix
<1> QED BY <1>1, <1>3 DEF Serves

(* A ledger is appended, decoded or not. *)
LEMMA ServesAppended ==
  ASSUME NEW h \in Seq(Ledgers), NEW u, NEW e, Serves(e, h, u), NEW b \in Ledgers,
         Len(h) + 1 \notin u
  PROVE  /\ Serves(e \o EventsOf(b), Append(h, b), u)
         /\ Serves(e, Append(h, b), u \cup {Len(h) + 1})
<1>1. EventsOf(b) \in Seq(Event) /\ e \in Seq(Event) /\ <<>> \in Seq(Event)
  BY EventsType, ServesType
<1>2. Len(Append(h, b)) = Len(h) + 1 /\ Len(h) \in Nat
  BY AppendProperties, LenProperties
<1>3. ASSUME NEW z, NEW x, Serves(e, h, z), Brings(x, h, z, b)
      PROVE  Serves(e \o x, Append(h, b), z)
  <2>1. PICK w : Upto(h, z, w) /\ e = w[Len(h)]
    BY <1>3 DEF Serves
  <2>2. \E v : Upto(Append(h, b), z, v) /\ v[Len(h) + 1] = w[Len(h)] \o x
    BY ONLY <1>3, <2>1, h \in Seq(Ledgers), b \in Ledgers, UptoAppend
  <2> QED BY <1>2, <2>1, <2>2 DEF Serves
<1>4. Serves(e \o EventsOf(b), Append(h, b), u)
  <2>1. Brings(EventsOf(b), h, u, b)
    BY <1>1 DEF Brings
  <2> QED BY <1>3, <2>1
<1>5. Serves(e, h, u \cup {Len(h) + 1})
  BY <1>2, ServesSame
<1>6. Serves(e \o <<>>, Append(h, b), u \cup {Len(h) + 1})
  <2>1. Brings(<<>>, h, u \cup {Len(h) + 1}, b)
    BY <1>1 DEF Brings
  <2> QED BY <1>3, <1>5, <2>1
<1>7. e \o <<>> = e
  BY <1>1, ConcatEmptySeq
<1> QED BY <1>4, <1>6, <1>7

(* The last ledger is decoded after all. *)
LEMMA ServesResynced ==
  ASSUME NEW h \in Seq(Ledgers), h # <<>>, NEW u, Len(h) \notin u,
         NEW e, Serves(e, h, u \cup {Len(h)})
  PROVE  Serves(e \o EventsOf(h[Len(h)]), h, u)
<1>1. PICK w : Upto(h, u \cup {Len(h)}, w) /\ e = w[Len(h)]
  BY DEF Serves
<1>2. \E v : Upto(h, u, v) /\ v[Len(h)] = w[Len(h)] \o EventsOf(h[Len(h)])
  BY <1>1, UptoResync
<1> QED BY <1>1, <1>2 DEF Serves

(* A rollback, that filters ledgers and events by sequence, leaves the     *)
(* events of the ledgers it leaves.                                        *)
LEMMA ServesKept ==
  ASSUME NEW h \in Seq(Ledgers), Ascending(h), NEW u, NEW e, Serves(e, h, u),
         NEW last \in Nat \ {0}, NEW g, NEW f,
         g = Picked(h, {i \in DOMAIN h : h[i].seq <= last}),
         f = Picked(e, {i \in DOMAIN e : e[i].seq <= last})
  PROVE  g \in Seq(Ledgers) /\ Serves(f, g, u \cap DOMAIN g)
<1>1. PICK w : Upto(h, u, w) /\ e = w[Len(h)]
  BY DEF Serves
<1>2. PICK N \in Nat : N = Len(h) /\ DOMAIN h = 1..N
  BY LenProperties
<1> DEFINE at == {i \in DOMAIN h : h[i].seq <= last}
<1>3. \A i \in 1..N : h[i] \in Ledgers /\ h[i].seq \in Nat \ {0}
  <2>1. \A i \in 1..N : h[i] \in Ledgers
    BY <1>2
  <2> QED BY <2>1, LedgerParts
<1>4. at \in SUBSET (1..N) /\ \A i \in at : \A j \in 1..N : j < i => j \in at
  <2>1. ASSUME NEW i \in at, NEW j \in 1..N, j < i PROVE h[j].seq <= last
    <3>1. i \in 1..N /\ h[i].seq <= last
      BY <1>2
    <3>2. h[j].seq < h[i].seq \/ (h[j].seq = 1 /\ h[i].seq = 1)
      BY <1>2, <2>1, <3>1 DEF Ascending
    <3> QED BY <1>3, <3>1, <3>2
  <2> QED BY <1>2, <2>1
<1>5. PICK k \in 0..N : at = 1..k
  <2> HIDE DEF at
  <2> QED BY <1>4, DownwardClosed
<1>6. k \in Nat /\ k <= N
  OBVIOUS
<1>7. \A i \in 1..Len(h) : h[i].seq <= last <=> i <= k
  <2>1. \A i \in 1..N : h[i].seq <= last <=> i \in 1..k
    BY <1>2, <1>5
  <2> QED BY <1>2, <1>6, <2>1
<1>8. /\ w[k] \in Seq(Event) /\ e \in Seq(Event)
      /\ Len(w[k]) <= Len(e)
      /\ \A i \in 1..Len(w[k]) : e[i] = w[k][i]
      /\ \A i \in 1..Len(e) : e[i].seq <= last <=> i <= Len(w[k])
  <2>1. CutAt(h, last, k) /\ last \in Nat
    BY <1>2, <1>7 DEF CutAt
  <2> QED BY ONLY <1>1, <2>1, h \in Seq(Ledgers), UptoOrder
<1>9. g \in Seq(Ledgers) /\ Len(g) = k /\ \A i \in 1..k : g[i] = h[i]
  <2>1. g = Picked(h, 1..k) /\ k \in 0..Len(h)
    BY <1>2, <1>5
  <2> QED BY ONLY <2>1, h \in Seq(Ledgers), PickedPrefix
<1>10. f = w[k]
  <2>1. PICK m \in Nat, n \in Nat : m = Len(w[k]) /\ n = Len(e) /\ DOMAIN e = 1..n
    BY <1>8, LenProperties
  <2>2. {i \in DOMAIN e : e[i].seq <= last} = 1..m
    <3>1. ASSUME NEW i \in DOMAIN e PROVE e[i].seq <= last <=> i \in 1..m
      BY <1>8, <2>1
    <3>2. 1..m \subseteq DOMAIN e
      BY <1>8, <2>1
    <3> QED BY <3>1, <3>2
  <2>3. f = Picked(e, 1..m) /\ m \in 0..Len(e)
    <3>1. m \in 0..Len(e)
      BY <1>8, <2>1
    <3> QED BY <2>2, <3>1
  <2>4. f \in Seq(Event) /\ Len(f) = m /\ \A i \in 1..m : f[i] = e[i]
    BY ONLY <1>8, <2>3, PickedPrefix
  <2> QED BY <1>8, <2>1, <2>4, SeqEqual
<1>11. DOMAIN g = 1..k
  BY <1>9, LenProperties
<1>12. \E v : Upto(g, u \cap DOMAIN g, v) /\ v[k] = w[k]
  <2>1. Prefix(g, u \cap DOMAIN g, h, u, k)
    BY <1>2, <1>9, <1>11 DEF Prefix
  <2> QED BY ONLY <1>1, <2>1, h \in Seq(Ledgers), UptoPrefix
<1> QED BY <1>9, <1>10, <1>12 DEF Serves

(* Read together, they are the sequence of what each ledger brings.        *)
LEMMA ServesFlat ==
  ASSUME NEW h \in Seq(Ledgers), NEW u, NEW e, Serves(e, h, u)
  PROVE  e = FlattenSeq([i \in DOMAIN h |-> IF i \in u THEN <<>> ELSE EventsOf(h[i])])
<1>1. PICK w : Upto(h, u, w) /\ e = w[Len(h)]
  BY DEF Serves
<1>2. PICK N \in Nat : N = Len(h) /\ DOMAIN h = 1..N
  BY LenProperties
<1> DEFINE s == [i \in DOMAIN h |-> IF i \in u THEN <<>> ELSE EventsOf(h[i])]
           Steps(f) == f = [i \in 1..Len(s) |-> IF i = 1 THEN s[i] ELSE f[i - 1] \o s[i]]
<1>3. Len(s) = N /\ \A i \in 1..N : s[i] = EventsAt(h, u, i)
  BY <1>2 DEF EventsAt
<1>4. /\ w[0] = <<>>
      /\ \A i \in 1..N : w[i] = w[i - 1] \o s[i]
      /\ \A i \in 1..N : s[i] \in Seq(Event)
  <2> HIDE DEF s
  <2>1. \A i \in 1..N : EventsAt(h, u, i) \in Seq(Event)
    BY <1>2, EventsAtType
  <2>2. /\ w[0] = <<>>
        /\ \A i \in 1..N : w[i] = w[i - 1] \o EventsAt(h, u, i)
    BY <1>1, <1>2 DEF Upto
  <2> QED BY <1>3, <2>1, <2>2
<1>5. CASE N = 0
  <2>1. h = <<>>
    BY <1>2, <1>5, EmptySeq
  <2>2. s = <<>>
    BY <1>2, <1>5
  <2>3. FlattenSeq(s) = s
    BY <1>3, <1>5 DEF FlattenSeq
  <2> QED BY <1>1, <1>2, <1>4, <1>5, <2>2, <2>3
<1>6. CASE N # 0
  <2> DEFINE g == [i \in 1..N |-> w[i]]
  <2>1. ASSUME NEW i \in 1..N PROVE g[i] = IF i = 1 THEN s[i] ELSE g[i - 1] \o s[i]
    <3>1. CASE i = 1
      <4> HIDE DEF s
      <4>1. w[i] = w[0] \o s[i] /\ s[i] \in Seq(Event)
        <5>1. w[i] = w[i - 1] \o s[i] /\ s[i] \in Seq(Event)
          BY <1>4
        <5>2. i - 1 = 0
          BY <3>1
        <5> QED BY ONLY <5>1, <5>2
      <4>2. w[0] \o s[i] = s[i]
        BY <1>4, <4>1, ConcatEmptySeq
      <4> QED BY <3>1, <4>1, <4>2
    <3>2. CASE i # 1
      <4>1. i - 1 \in 1..N
        BY <3>2
      <4> HIDE DEF s
      <4> QED BY <1>4, <3>2, <4>1
    <3> QED BY <3>1, <3>2
  <2> HIDE DEF s
  <2>2. Steps(g)
    BY <1>3, <2>1
  <2>3. PICK f : Steps(f) /\ FlattenSeq(s) = f[N]
    <3>1. FlattenSeq(s) = (CHOOSE f : Steps(f))[Len(s)]
      BY <1>3, <1>6 DEF FlattenSeq
    <3>2. Steps(CHOOSE f : Steps(f))
      <4> HIDE DEF Steps
      <4> QED BY <2>2
    <3> QED BY <1>3, <3>1, <3>2
  <2> DEFINE A == {n \in Nat : n \in 1..N => f[n] = w[n]}
  <2>4. 0 \in A
    OBVIOUS
  <2>5. ASSUME NEW n \in Nat, n \in A PROVE n + 1 \in A
    <3> SUFFICES ASSUME n + 1 \in 1..N PROVE f[n + 1] = w[n + 1]
      OBVIOUS
    <3>1. f[n + 1] = IF n + 1 = 1 THEN s[n + 1] ELSE f[(n + 1) - 1] \o s[n + 1]
      BY <1>3, <2>3
    <3>2. w[n + 1] = w[n] \o s[n + 1] /\ s[n + 1] \in Seq(Event) /\ (n + 1) - 1 = n
      <4>1. (n + 1) - 1 = n
        OBVIOUS
      <4>2. w[n + 1] = w[(n + 1) - 1] \o s[n + 1] /\ s[n + 1] \in Seq(Event)
        BY <1>4
      <4> QED BY <4>1, <4>2
    <3>3. CASE n = 0
      <4>1. w[0] \o s[n + 1] = s[n + 1]
        BY <1>4, <3>2, ConcatEmptySeq
      <4>2. n + 1 = 1
        BY <3>3
      <4>3. w[n + 1] = w[0] \o s[n + 1]
        BY <3>2, <3>3
      <4> QED BY ONLY <3>1, <4>1, <4>2, <4>3
    <3>4. CASE n # 0
      <4>1. n \in 1..N /\ n + 1 # 1
        BY <3>4
      <4> QED BY <2>5, <3>1, <3>2, <4>1
    <3> QED BY <3>3, <3>4
  <2>6. N \in A
    <3> HIDE DEF A
    <3> QED BY <2>4, <2>5, NatSetInduction
  <2>7. N \in 1..N
    BY <1>6
  <2> QED BY <1>1, <1>2, <2>3, <2>6, <2>7 DEF s
<1> QED BY <1>5, <1>6

(* While a re-organisation is in progress its block is the last ledger,    *)
(* not decoded yet, and the call that resyncs it is the only one.          *)
ServedInv ==
  ~overlapped =>
    /\ undecoded \subseteq 0..Len(ledgerHistory)
    /\ \A c, d \in UnderWay : c = d
    /\ \A c \in UnderWay : calls[c].phase = "resyncing" => reorgInProgress
    /\ reorgInProgress =>
         /\ ledgerHistory # <<>> /\ Len(ledgerHistory) \notin undecoded
         /\ \E c \in UnderWay : /\ calls[c].phase = "resyncing"
                               /\ calls[c].block = ledgerHistory[Len(ledgerHistory)]
    /\ Serves(indexedEvents, ledgerHistory,
              IF reorgInProgress THEN undecoded \cup {Len(ledgerHistory)} ELSE undecoded)

(* The calls under way after one of them moves to another phase.           *)
LEMMA PhaseMoved ==
  ASSUME IndexInv, NEW c \in 1..(Len(calls) + 1), NEW b, c \in DOMAIN calls => b = calls[c].block,
         NEW phase, SetPhase(c, b, phase)
  PROVE  /\ calls'[c].block = b /\ calls'[c].phase = phase
         /\ UnderWay' = IF phase \in {"decoding", "resyncing"} THEN UnderWay \cup {c}
                        ELSE UnderWay \ {c}
         /\ \A d \in UnderWay : d # c => calls'[d] = calls[d]
<1>1. calls \in Seq(Call) /\ Len(calls) \in Nat /\ DOMAIN calls = 1..Len(calls)
  BY DEF IndexInv, IndexTypeOK, Call
<1>2. /\ DOMAIN calls' = DOMAIN calls \cup {c}
      /\ calls'[c].block = b /\ calls'[c].phase = phase
      /\ \A d \in DOMAIN calls : d # c => calls'[d] = calls[d]
  <2>1. CASE c > Len(calls)
    <3>1. c = Len(calls) + 1 /\ calls' = Append(calls, [block |-> b, phase |-> phase])
      BY <1>1, <2>1 DEF SetPhase
    <3> QED BY <1>1, <3>1
  <2>2. CASE ~ (c > Len(calls))
    <3>1. c \in DOMAIN calls /\ calls' = [calls EXCEPT ![c].phase = phase]
      BY <1>1, <2>2 DEF SetPhase
    <3>2. calls[c] \in Call
      BY <1>1, <3>1
    <3>3. DOMAIN calls' = DOMAIN calls /\ calls'[c] = [calls[c] EXCEPT !.phase = phase]
          /\ \A d \in DOMAIN calls : d # c => calls'[d] = calls[d]
      BY <1>1, <3>1
    <3>4. calls'[c].block = calls[c].block /\ calls'[c].phase = phase
      BY <3>2, <3>3 DEF Call
    <3> QED BY <3>1, <3>3, <3>4
  <2> QED BY <2>1, <2>2
<1>3. ASSUME NEW d
      PROVE  d \in UnderWay' <=> IF d = c THEN phase \in {"decoding", "resyncing"}
                                 ELSE d \in UnderWay
  <2>1. d \in UnderWay' <=>
          d \in DOMAIN calls' /\ calls'[d].phase \in {"decoding", "resyncing"}
    BY DEF UnderWay
  <2>2. d \in UnderWay <=>
          d \in DOMAIN calls /\ calls[d].phase \in {"decoding", "resyncing"}
    BY DEF UnderWay
  <2> QED BY <1>2, <2>1, <2>2
<1>4. \A d \in UnderWay : d \in DOMAIN calls
  BY DEF UnderWay
<1>5. UnderWay' = IF phase \in {"decoding", "resyncing"} THEN UnderWay \cup {c}
                  ELSE UnderWay \ {c}
  BY <1>3
<1> QED BY <1>2, <1>4, <1>5

(* The only call under way has its block decoded and is carried on.        *)
LEMMA ServedContinued ==
  ASSUME IndexInv, ServedInv, ~overlapped, ~reorgInProgress,
         NEW c \in 1..(Len(calls) + 1), UnderWay \subseteq {c},
         NEW b \in Ledgers, c \in DOMAIN calls => b = calls[c].block,
         Extend(c, b) \/ Reorganise(c, b)
  PROVE  ServedInv'
<1> DEFINE h == ledgerHistory
           N == Len(h)
<1>1. /\ undecoded \subseteq 0..N /\ Serves(indexedEvents, h, undecoded)
      /\ h \in Seq(Ledgers) /\ Ascending(h) /\ N \in Nat /\ indexedEvents \in Seq(Event)
  BY LenProperties DEF ServedInv, IndexInv, IndexTypeOK, ChainOK
<1>2. CASE Extend(c, b)
  <2>1. /\ h' = Append(h, b) /\ indexedEvents' = indexedEvents \o EventsOf(b)
        /\ reorgInProgress' = FALSE /\ undecoded' = undecoded
        /\ SetPhase(c, b, "indexed")
    BY <1>2 DEF Extend, IndexInv, IndexTypeOK
  <2>2. UnderWay' = {}
    BY <2>1, PhaseMoved
  <2>3. N + 1 \notin undecoded
    BY <1>1
  <2>4. Serves(indexedEvents', h', undecoded')
    BY <1>1, <2>1, <2>3, ServesAppended
  <2>5. undecoded' \subseteq 0..Len(h')
    <3>1. Len(h') = N + 1
      BY <1>1, <2>1, AppendProperties
    <3> QED BY <1>1, <2>1, <3>1
  <2> QED BY <2>1, <2>2, <2>4, <2>5 DEF ServedInv
<1>3. CASE Reorganise(c, b)
  <2> DEFINE last == CommonAncestor(b)
             g == KeptLedgers(last)
             f == KeptEvents(last)
             z == undecoded \cap DOMAIN g
             phase == IF b.xdr THEN "resyncing" ELSE "indexed"
  <2>1. /\ h' = Append(g, b) /\ indexedEvents' = f \o IF b.xdr THEN <<>> ELSE EventsOf(b)
        /\ undecoded' = z /\ reorgInProgress' = b.xdr /\ SetPhase(c, b, phase)
    BY <1>3 DEF Reorganise
  <2>2. last \in Nat \ {0}
    BY <1>1, AncestorBelow
  <2>3. g \in Seq(Ledgers) /\ Serves(f, g, z)
    <3> HIDE DEF last
    <3>1. g = Picked(h, {i \in DOMAIN h : h[i].seq <= last})
      BY DEF KeptLedgers
    <3>2. f = Picked(indexedEvents, {i \in DOMAIN indexedEvents : indexedEvents[i].seq <= last})
      BY DEF KeptEvents
    <3> HIDE DEF g, f, h
    <3> QED BY ONLY <1>1, <2>2, <3>1, <3>2, ServesKept
  <2> HIDE DEF g, f
  <2>4. PICK k \in Nat : k = Len(g) /\ DOMAIN g = 1..k
    BY <2>3, LenProperties
  <2>5. /\ h' \in Seq(Ledgers) /\ h' # <<>> /\ Len(h') = k + 1 /\ h'[k + 1] = b
    BY <2>1, <2>3, <2>4, AppendProperties
  <2>6. z \subseteq 1..k /\ k + 1 \notin z
    BY <2>4
  <2>7. Serves(f \o EventsOf(b), h', z) /\ Serves(f, h', z \cup {k + 1})
    <3> HIDE DEF z
    <3> QED BY <2>1, <2>3, <2>4, <2>6, ServesAppended
  <2>8. f \in Seq(Event)
    BY <2>3, ServesType
  <2>9. Serves(indexedEvents', h',
               IF reorgInProgress' THEN undecoded' \cup {Len(h')} ELSE undecoded')
    <3>1. CASE b.xdr
      <4>1. f \o <<>> = f
        BY <2>8, ConcatEmptySeq
      <4> HIDE DEF z, h
      <4> QED BY <2>1, <2>5, <2>7, <3>1, <4>1
    <3>2. CASE ~ b.xdr
      <4> HIDE DEF z, h
      <4> QED BY <2>1, <2>7, <3>2
    <3> QED BY <3>1, <3>2
  <2>10. undecoded' \subseteq 0..Len(h') /\ Len(h') \notin undecoded'
    <3>1. 1..k \subseteq 0..(k + 1)
      OBVIOUS
    <3> QED BY <2>1, <2>5, <2>6, <3>1
  <2>11. /\ UnderWay' \subseteq {c} /\ calls'[c].block = b /\ calls'[c].phase = phase
         /\ b.xdr => c \in UnderWay'
         /\ ~ b.xdr => UnderWay' = {}
    BY <2>1, PhaseMoved
  <2>12. \A d \in UnderWay' : b.xdr
    BY <2>11
  <2> HIDE DEF z, phase
  <2>13. reorgInProgress' => \E d \in UnderWay' : /\ calls'[d].phase = "resyncing"
                                               /\ calls'[d].block = h'[Len(h')]
    BY <2>1, <2>5, <2>11 DEF phase
  <2> QED BY <2>1, <2>5, <2>9, <2>10, <2>11, <2>12, <2>13 DEF ServedInv
<1> QED BY <1>2, <1>3

LEMMA InboxCall ==
  ASSUME IndexInv, NEW w \in Workers, inbox[w] # <<>>
  PROVE  /\ Head(inbox[w]) \in DOMAIN calls /\ Head(inbox[w]) \in 1..(Len(calls) + 1)
         /\ calls[Head(inbox[w])].block \in Ledgers
<1> DEFINE c == Head(inbox[w])
<1>1. /\ PoolOK(Pool) /\ Full(Pool) /\ Tasks(Pool) \subseteq DOMAIN calls
      /\ Pool.inbox[w] # <<>> /\ c = Head(Pool.inbox[w])
  BY DEF IndexInv, Pool
<1>2. c \in Tasks(Pool)
  <2> HIDE DEF c
  <2> QED BY <1>1, AnsweredOK
<1> HIDE DEF c
<1>3. calls \in Seq(Call) /\ Len(calls) \in Nat
  BY DEF IndexInv, IndexTypeOK, Call
<1>4. c \in 1..Len(calls) /\ calls[c] \in Call
  BY <1>1, <1>2, <1>3
<1> QED BY <1>1, <1>2, <1>3, <1>4 DEF c, Call

LEMMA ProcessBlockServed ==
  ASSUME IndexInv, ServedInv, NEW b \in Ledgers, ProcessBlock(b)
  PROVE  ServedInv'
<1> SUFFICES ASSUME ~overlapped' PROVE ServedInv'
  BY DEF ServedInv
<1> DEFINE c == Len(calls) + 1
<1>1. ~overlapped /\ UnderWay = {}
  BY DEF ProcessBlock
<1>2. ~reorgInProgress
  BY <1>1 DEF ServedInv
<1>3. c \in 1..(Len(calls) + 1) /\ c \notin DOMAIN calls
  BY DEF IndexInv, IndexTypeOK
<1>4. CASE b.xdr
  <2>1. SetPhase(c, b, "decoding") /\ UNCHANGED chainVars
    BY <1>4 DEF ProcessBlock
  <2> HIDE DEF c
  <2>2. UnderWay' = {c} /\ calls'[c].phase = "decoding"
    BY <1>1, <1>3, <2>1, PhaseMoved
  <2> QED BY <1>1, <1>2, <2>1, <2>2 DEF ServedInv, chainVars
<1>5. CASE ~ b.xdr
  <2>1. Extend(c, b) \/ Reorganise(c, b)
    BY <1>5 DEF ProcessBlock, Continue
  <2> HIDE DEF c
  <2>2. UnderWay \subseteq {c}
    BY <1>1
  <2> QED BY <1>1, <1>2, <1>3, <2>1, <2>2, ServedContinued
<1> QED BY <1>4, <1>5

LEMMA WorkerSucceedsServed ==
  ASSUME IndexInv, ServedInv, NEW w \in Workers, WorkerSucceeds(w)
  PROVE  ServedInv'
<1> SUFFICES ASSUME ~overlapped' PROVE ServedInv'
  BY DEF ServedInv
<1> DEFINE c == Head(inbox[w])
           b == calls[c].block
<1>1. ~overlapped /\ inbox[w] # <<>>
  BY DEF WorkerSucceeds
<1>2. c \in DOMAIN calls /\ c \in 1..(Len(calls) + 1) /\ b \in Ledgers
  BY <1>1, InboxCall
<1>3. CASE calls[c].phase = "decoding" /\ Continue(c, b, Answered(Pool, w, c))
  <2> HIDE DEF c
  <2>1. c \in UnderWay
    BY <1>2, <1>3 DEF UnderWay
  <2>2. UnderWay \subseteq {c} /\ ~reorgInProgress
    BY <1>1, <1>3, <2>1 DEF ServedInv
  <2>3. Extend(c, b) \/ Reorganise(c, b)
    BY <1>3 DEF Continue
  <2> HIDE DEF b
  <2>4. c \in DOMAIN calls => b = calls[c].block
    BY DEF b
  <2> QED BY <1>1, <1>2, <2>2, <2>3, <2>4, ServedContinued
<1>4. CASE /\ calls[c].phase = "resyncing"
           /\ indexedEvents' = indexedEvents \o EventsOf(b)
           /\ reorgInProgress' = FALSE
           /\ SetPhase(c, b, "indexed")
           /\ UNCHANGED <<chainHead, ledgerHistory, undecoded>>
  <2> HIDE DEF c
  <2>1. c \in UnderWay
    BY <1>2, <1>4 DEF UnderWay
  <2>2. UnderWay \subseteq {c} /\ reorgInProgress
    BY <1>1, <1>4, <2>1 DEF ServedInv
  <2>3. /\ ledgerHistory # <<>> /\ Len(ledgerHistory) \notin undecoded
        /\ b = ledgerHistory[Len(ledgerHistory)]
        /\ Serves(indexedEvents, ledgerHistory, undecoded \cup {Len(ledgerHistory)})
        /\ undecoded \subseteq 0..Len(ledgerHistory)
    BY <1>1, <2>2 DEF ServedInv
  <2>4. ledgerHistory \in Seq(Ledgers)
    BY DEF IndexInv, IndexTypeOK
  <2> HIDE DEF b
  <2>5. Serves(indexedEvents', ledgerHistory', undecoded')
    BY <1>4, <2>3, <2>4, ServesResynced
  <2>6. UnderWay' = {}
    <3>1. c \in DOMAIN calls => b = calls[c].block
      BY DEF b
    <3> QED BY <1>2, <1>4, <2>2, <3>1, PhaseMoved
  <2> QED BY <1>4, <2>3, <2>5, <2>6 DEF ServedInv
<1> QED BY <1>3, <1>4 DEF WorkerSucceeds

LEMMA WorkerFailsServed ==
  ASSUME IndexInv, ServedInv, NEW w \in Workers, WorkerFails(w)
  PROVE  ServedInv'
<1> SUFFICES ASSUME ~overlapped' PROVE ServedInv'
  BY DEF ServedInv
<1> DEFINE c == Head(inbox[w])
           b == calls[c].block
           N == Len(ledgerHistory)
<1>1. /\ ~overlapped /\ inbox[w] # <<>>
      /\ SetPhase(c, b, "failed")
      /\ reorgInProgress' = (reorgInProgress /\ ~(calls[c].phase = "resyncing"))
      /\ undecoded' = IF calls[c].phase = "resyncing" THEN undecoded \cup {N} ELSE undecoded
      /\ UNCHANGED <<ledgerHistory, indexedEvents>>
  BY DEF WorkerFails
<1>2. c \in DOMAIN calls /\ c \in 1..(Len(calls) + 1) /\ b = calls[c].block
  BY <1>1, InboxCall
<1> HIDE DEF c, b
<1>3. /\ UnderWay' = UnderWay \ {c}
      /\ \A d \in UnderWay : d # c => calls'[d] = calls[d]
  BY <1>1, <1>2, PhaseMoved
<1>4. N \in Nat
  BY LenProperties DEF IndexInv, IndexTypeOK
<1>5. CASE calls[c].phase = "resyncing"
  <2>1. c \in UnderWay
    BY <1>2, <1>5 DEF UnderWay
  <2>2. UnderWay' = {} /\ reorgInProgress
    BY <1>1, <1>3, <1>5, <2>1 DEF ServedInv
  <2>3. undecoded' \subseteq 0..N
    BY <1>1, <1>4, <1>5 DEF ServedInv
  <2>4. Serves(indexedEvents, ledgerHistory, undecoded \cup {N})
    BY <1>1, <2>2 DEF ServedInv
  <2> QED BY <1>1, <1>5, <2>2, <2>3, <2>4 DEF ServedInv
<1>6. CASE calls[c].phase # "resyncing"
  <2>1. UNCHANGED <<reorgInProgress, undecoded, ledgerHistory, indexedEvents>>
    BY <1>1, <1>6 DEF IndexInv, IndexTypeOK
  <2>2. \A d \in UnderWay : calls[d].phase = "resyncing" => d \in UnderWay' /\ calls'[d] = calls[d]
    BY <1>3, <1>6
  <2>3. \A d \in UnderWay' : d \in UnderWay /\ calls'[d] = calls[d]
    BY <1>3
  <2> QED BY <1>1, <2>1, <2>2, <2>3 DEF ServedInv
<1> QED BY <1>5, <1>6

LEMMA NextServedInv == IndexInv /\ ServedInv /\ [IndexNext]_indexVars => ServedInv'
<1> SUFFICES ASSUME IndexInv, ServedInv, [IndexNext]_indexVars PROVE ServedInv'
  OBVIOUS
<1>1. ASSUME NEW b \in Ledgers, ProcessBlock(b) PROVE ServedInv'
  BY <1>1, ProcessBlockServed
<1>2. ASSUME NEW w \in Workers, WorkerSucceeds(w) PROVE ServedInv'
  BY <1>2, WorkerSucceedsServed
<1>3. ASSUME NEW w \in Workers, WorkerFails(w) PROVE ServedInv'
  BY <1>3, WorkerFailsServed
<1>4. CASE UNCHANGED <<chainVars, calls, overlapped>>
  BY <1>4 DEF ServedInv, UnderWay, chainVars
<1>5. ASSUME NEW w \in Workers, WorkerExits(w) PROVE ServedInv'
  BY <1>4, <1>5 DEF WorkerExits
<1>6. CASE UNCHANGED indexVars
  BY <1>4, <1>6 DEF indexVars
<1> QED BY <1>1, <1>2, <1>3, <1>5, <1>6 DEF IndexNext

LEMMA InitServedInv == IndexInit => ServedInv
<1> SUFFICES ASSUME IndexInit PROVE ServedInv
  OBVIOUS
<1>1. UnderWay = {}
  BY DEF IndexInit, UnderWay
<1>2. Serves(<<>>, <<>>, {})
  <2> DEFINE w == [n \in {0} |-> <<>>]
  <2>1. Len(<<>>) = 0 /\ 0..0 = {0} /\ 1..0 = {} /\ \A S : <<>> \in Seq(S)
    OBVIOUS
  <2>2. w \in [{0} -> Seq(Event)] /\ w[0] = <<>>
    BY <2>1
  <2> HIDE DEF w
  <2>3. Upto(<<>>, {}, w)
    BY <2>1, <2>2 DEF Upto
  <2> QED BY <2>1, <2>2, <2>3 DEF Serves
<1> QED BY <1>1, <1>2 DEF IndexInit, ServedInv

(* A caller that waits for its blocks never sees an event of an orphaned   *)
(* ledger, nor misses one of a ledger in the history, after however many   *)
(* rollbacks and failed decodings.                                         *)
THEOREM ServedEventsStayExact == IndexSpec => []ServedEventsExact
<1>1. IndexInit => IndexInv /\ ServedInv
  BY InitIndexInv, InitServedInv
<1>2. IndexInv /\ ServedInv /\ [IndexNext]_indexVars => (IndexInv /\ ServedInv)'
  BY NextIndexInv, NextServedInv
<1>3. IndexInv /\ ServedInv => ServedEventsExact
  <2> SUFFICES ASSUME IndexInv, ServedInv, ~overlapped, ~reorgInProgress
               PROVE  indexedEvents = FlattenSeq([i \in DOMAIN ledgerHistory |->
                        IF i \in undecoded THEN <<>> ELSE EventsOf(ledgerHistory[i])])
    BY DEF ServedEventsExact
  <2>1. ledgerHistory \in Seq(Ledgers) /\ Serves(indexedEvents, ledgerHistory, undecoded)
    BY DEF IndexInv, IndexTypeOK, ServedInv
  <2> QED BY <2>1, ServesFlat
<1> QED BY <1>1, <1>2, <1>3, PTL DEF IndexSpec

-----------------------------------------------------------------------------
(* h is s, of length m, followed by t, of length n. *)
Joins(h, s, t, m, n) ==
  /\ m \in Nat /\ n \in Nat
  /\ s \in [1..m -> Nat] /\ t \in [1..n -> Nat] /\ h \in [1..(m + n) -> Nat]
  /\ \A i \in 1..(m + n) : h[i] = IF i \in 1..m THEN s[i] ELSE t[i - m]

LEMMA TotalJoins ==
  ASSUME NEW h, NEW s, NEW t, NEW m, NEW n, Joins(h, s, t, m, n)
  PROVE  Total(h) = Total(s) + Total(t)
<1> USE DEF Joins
<1>1. /\ IsFiniteSet(1..m) /\ IsFiniteSet(1..n) /\ IsFiniteSet(1..(m + n))
      /\ 1..m \in SUBSET (1..(m + n))
  <2>1. 1 \in Int /\ m \in Int /\ n \in Int /\ m + n \in Int
    OBVIOUS
  <2>2. IsFiniteSet(1..m) /\ IsFiniteSet(1..n) /\ IsFiniteSet(1..(m + n))
    BY ONLY <2>1, FS_Interval
  <2> QED BY <2>2
<1>2. PICK S, A, B, w : /\ S = 1..(m + n) /\ A = 1..m /\ B = 1..n
                        /\ w = [i \in B |-> i + m]
  OBVIOUS
<1>3. IsFiniteSet(S) /\ IsFiniteSet(B) /\ A \in SUBSET S
  BY <1>1, <1>2
<1>4. s \in [A -> Nat] /\ t \in [B -> Nat] /\ h \in [S -> Nat]
  BY <1>2
<1>5. w \in [B -> S \ A] /\ \A b, c \in B : w[b] = w[c] => b = c
  BY <1>2
<1>6. \A a \in A : h[a] = s[a]
  BY <1>2
<1>7. ASSUME NEW b \in B PROVE h[w[b]] = t[b]
  <2>1. /\ w[b] = b + m /\ b + m \in 1..(m + n)
        /\ b + m \notin 1..m /\ (b + m) - m = b
    BY <1>2
  <2> QED BY <1>2, <2>1
<1>8. ASSUME NEW a \in S \ A PROVE \E b \in B : w[b] = a
  <2>1. a - m \in B /\ (a - m) + m = a
    BY <1>2
  <2> QED BY <1>2, <2>1
<1>9. PICK ss, tt, hh : ss = s /\ tt = t /\ hh = h
  OBVIOUS
<1>10. ss \in [A -> Nat] /\ tt \in [B -> Nat] /\ hh \in [S -> Nat]
  BY <1>4, <1>9
<1>11. /\ \A a \in A : hh[a] = ss[a]
       /\ \A b \in B : hh[w[b]] = tt[b]
  BY <1>6, <1>7, <1>9
<1>12. Total(hh) = Total(ss) + Total(tt)
  BY ONLY <1>3, <1>5, <1>8, <1>10, <1>11, TotalJoined
<1> QED BY <1>9, <1>12

-----------------------------------------------------------------------------
(* What an order has at rest in a book, and in trades. *)
Rests(id, book) == [i \in DOMAIN book |-> IF book[i].id = id THEN book[i].amount ELSE 0]
InTrades(id, log) ==
  [i \in DOMAIN log |-> IF id \in {log[i].maker, log[i].taker} THEN log[i].amount ELSE 0]

LEMMA OneValue ==
  ASSUME NEW n \in Nat, NEW f, f = [i \in {1} |-> n]
  PROVE  Total(f) = n
<1>1. IsFiniteSet({1}) /\ 1 \in {1}
  BY FS_Singleton
<1>2. f \in [{1} -> Nat] /\ \A a \in {1} : a # 1 => f[a] = 0
  OBVIOUS
<1>3. Total(f) = f[1]
  BY ONLY <1>1, <1>2, TotalPoint
<1> QED BY <1>3

LEMMA AtRestNat ==
  ASSUME NEW b \in Seq(Order), NEW id
  PROVE  AtRest(id, b) \in Nat
<1>1. /\ Rests(id, b) \in [1..Len(b) -> Nat] /\ Len(b) \in Nat
  <2>1. \A x \in Order : x.amount \in Nat
    BY DEF Order
  <2>2. DOMAIN b = 1..Len(b) /\ Len(b) \in Nat /\ \A i \in 1..Len(b) : b[i].amount \in Nat
    BY <2>1, LenProperties
  <2> QED BY <2>2 DEF Rests
<1>2. IsFiniteSet(1..Len(b))
  <2>1. 1 \in Int /\ Len(b) \in Int
    BY <1>1
  <2> QED BY <2>1, FS_Interval
<1>3. Total(Rests(id, b)) \in Nat
  BY ONLY <1>1, <1>2, TotalNat
<1> QED BY <1>3 DEF AtRest, Rests

LEMMA TradedNat ==
  ASSUME NEW log \in Seq(Trade), NEW id
  PROVE  TradedAmount(id, log) \in Nat
<1>1. /\ InTrades(id, log) \in [1..Len(log) -> Nat] /\ Len(log) \in Nat
  <2>1. \A x \in Trade : x.amount \in Nat
    BY DEF Trade
  <2>2. DOMAIN log = 1..Len(log) /\ Len(log) \in Nat /\ \A i \in 1..Len(log) : log[i].amount \in Nat
    BY <2>1, LenProperties
  <2> QED BY <2>2 DEF InTrades
<1>2. IsFiniteSet(1..Len(log))
  <2>1. 1 \in Int /\ Len(log) \in Int
    BY <1>1
  <2> QED BY <2>1, FS_Interval
<1>3. Total(InTrades(id, log)) \in Nat
  BY ONLY <1>1, <1>2, TotalNat
<1> QED BY <1>3 DEF TradedAmount, InTrades

LEMMA AtRestJoined ==
  ASSUME NEW a \in Seq(Order), NEW b \in Seq(Order), NEW id
  PROVE  AtRest(id, a \o b) = AtRest(id, a) + AtRest(id, b)
<1>1. /\ Len(a) \in Nat /\ Len(b) \in Nat /\ DOMAIN a = 1..Len(a) /\ DOMAIN b = 1..Len(b)
      /\ DOMAIN (a \o b) = 1..(Len(a) + Len(b))
      /\ \A i \in 1..Len(a) : a[i].amount \in Nat
      /\ \A i \in 1..Len(b) : b[i].amount \in Nat
  <2>1. a \o b \in Seq(Order) /\ Len(a \o b) = Len(a) + Len(b)
    BY ConcatProperties
  <2>2. \A x \in Order : x.amount \in Nat
    BY DEF Order
  <2> QED BY <2>1, <2>2, LenProperties
<1>2. \A i \in 1..(Len(a) + Len(b)) :
        (a \o b)[i] = IF i \in 1..Len(a) THEN a[i] ELSE b[i - Len(a)]
  <2>1. \A i \in 1..(Len(a) + Len(b)) :
          (a \o b)[i] = IF i <= Len(a) THEN a[i] ELSE b[i - Len(a)]
    BY ConcatProperties
  <2> QED BY <1>1, <2>1
<1>3. Joins(Rests(id, a \o b), Rests(id, a), Rests(id, b), Len(a), Len(b))
  <2>1. \A i \in 1..(Len(a) + Len(b)) : i \in 1..Len(a) \/ i - Len(a) \in 1..Len(b)
    BY <1>1
  <2>2. Rests(id, a) \in [1..Len(a) -> Nat] /\ Rests(id, b) \in [1..Len(b) -> Nat]
    BY <1>1 DEF Rests
  <2>3. \A i \in 1..(Len(a) + Len(b)) :
          Rests(id, a \o b)[i] = IF i \in 1..Len(a) THEN Rests(id, a)[i] ELSE Rests(id, b)[i - Len(a)]
    BY <1>1, <1>2, <2>1 DEF Rests
  <2>4. Rests(id, a \o b) \in [1..(Len(a) + Len(b)) -> Nat]
    BY <1>1, <1>2, <2>1 DEF Rests
  <2> QED BY <1>1, <2>2, <2>3, <2>4 DEF Joins
<1>4. Total(Rests(id, a \o b)) = Total(Rests(id, a)) + Total(Rests(id, b))
  BY ONLY <1>3, TotalJoins
<1> QED BY <1>4 DEF AtRest, Rests

LEMMA TradedJoined ==
  ASSUME NEW a \in Seq(Trade), NEW b \in Seq(Trade), NEW id
  PROVE  TradedAmount(id, a \o b) = TradedAmount(id, a) + TradedAmount(id, b)
<1>1. /\ Len(a) \in Nat /\ Len(b) \in Nat /\ DOMAIN a = 1..Len(a) /\ DOMAIN b = 1..Len(b)
      /\ DOMAIN (a \o b) = 1..(Len(a) + Len(b))
      /\ \A i \in 1..Len(a) : a[i].amount \in Nat
      /\ \A i \in 1..Len(b) : b[i].amount \in Nat
  <2>1. a \o b \in Seq(Trade) /\ Len(a \o b) = Len(a) + Len(b)
    BY ConcatProperties
  <2>2. \A x \in Trade : x.amount \in Nat
    BY DEF Trade
  <2> QED BY <2>1, <2>2, LenProperties
<1>2. \A i \in 1..(Len(a) + Len(b)) :
        (a \o b)[i] = IF i \in 1..Len(a) THEN a[i] ELSE b[i - Len(a)]
  <2>1. \A i \in 1..(Len(a) + Len(b)) :
          (a \o b)[i] = IF i <= Len(a) THEN a[i] ELSE b[i - Len(a)]
    BY ConcatProperties
  <2> QED BY <1>1, <2>1
<1>3. Joins(InTrades(id, a \o b), InTrades(id, a), InTrades(id, b), Len(a), Len(b))
  <2>1. \A i \in 1..(Len(a) + Len(b)) : i \in 1..Len(a) \/ i - Len(a) \in 1..Len(b)
    BY <1>1
  <2>2. InTrades(id, a) \in [1..Len(a) -> Nat] /\ InTrades(id, b) \in [1..Len(b) -> Nat]
    BY <1>1 DEF InTrades
  <2>3. \A i \in 1..(Len(a) + Len(b)) :
          InTrades(id, a \o b)[i] =
            IF i \in 1..Len(a) THEN InTrades(id, a)[i] ELSE InTrades(id, b)[i - Len(a)]
    BY <1>1, <1>2, <2>1 DEF InTrades
  <2>4. InTrades(id, a \o b) \in [1..(Len(a) + Len(b)) -> Nat]
    BY <1>1, <1>2, <2>1 DEF InTrades
  <2> QED BY <1>1, <2>2, <2>3, <2>4 DEF Joins
<1>4. Total(InTrades(id, a \o b)) = Total(InTrades(id, a)) + Total(InTrades(id, b))
  BY ONLY <1>3, TotalJoins
<1> QED BY <1>4 DEF TradedAmount, InTrades

LEMMA AtRestOne ==
  ASSUME NEW x \in Order, NEW id
  PROVE  AtRest(id, <<x>>) = IF x.id = id THEN x.amount ELSE 0
<1> DEFINE n == IF x.id = id THEN x.amount ELSE 0
<1>1. n \in Nat
  BY DEF Order
<1>2. DOMAIN <<x>> = {1} /\ <<x>>[1] = x
  OBVIOUS
<1>3. Rests(id, <<x>>) = [i \in {1} |-> n]
  BY <1>2 DEF Rests
<1> HIDE DEF n
<1>4. Total(Rests(id, <<x>>)) = n
  BY ONLY <1>1, <1>3, OneValue
<1> QED BY <1>4 DEF AtRest, Rests, n

LEMMA TradedOne ==
  ASSUME NEW x \in Trade, NEW id
  PROVE  TradedAmount(id, <<x>>) = IF id \in {x.maker, x.taker} THEN x.amount ELSE 0
<1> DEFINE n == IF id \in {x.maker, x.taker} THEN x.amount ELSE 0
<1>1. n \in Nat
  BY DEF Trade
<1>2. DOMAIN <<x>> = {1} /\ <<x>>[1] = x
  OBVIOUS
<1>3. InTrades(id, <<x>>) = [i \in {1} |-> n]
  BY <1>2 DEF InTrades
<1> HIDE DEF n
<1>4. Total(InTrades(id, <<x>>)) = n
  BY ONLY <1>1, <1>3, OneValue
<1> QED BY <1>4 DEF TradedAmount, InTrades, n

LEMMA AtRestNone ==
  ASSUME NEW b \in Seq(Order), NEW id, \A i \in 1..Len(b) : b[i].id # id
  PROVE  AtRest(id, b) = 0
<1>1. Units(Rests(id, b)) = {}
  BY DEF Units, Rests
<1>2. Cardinality({}) = 0
  BY FS_EmptySet
<1> QED BY <1>1, <1>2 DEF AtRest, Rests, Total

LEMMA TradedNone ==
  ASSUME NEW log \in Seq(Trade), NEW id,
         \A i \in 1..Len(log) : log[i].maker # id /\ log[i].taker # id
  PROVE  TradedAmount(id, log) = 0
<1>1. Units(InTrades(id, log)) = {}
  BY DEF Units, InTrades
<1>2. Cardinality({}) = 0
  BY FS_EmptySet
<1> QED BY <1>1, <1>2 DEF TradedAmount, InTrades, Total

-----------------------------------------------------------------------------
(* x is order y, whatever has been traded of either. *)
SameTerms(x, y) ==
  /\ x.id = y.id /\ x.contract = y.contract /\ x.side = y.side
  /\ x.price = y.price /\ x.timestamp = y.timestamp

(* What is at rest when the best order is taken away, or is reduced.       *)
LEMMA AtRestTail ==
  ASSUME NEW b \in Seq(Order), b # <<>>, NEW id
  PROVE  AtRest(id, b) = (IF Head(b).id = id THEN Head(b).amount ELSE 0) + AtRest(id, Tail(b))
<1>1. /\ Head(b) \in Order /\ Tail(b) \in Seq(Order)
      /\ b = <<Head(b)>> \o Tail(b)
  BY HeadTailProperties
<1>2. <<Head(b)>> \in Seq(Order)
  BY <1>1
<1>3. AtRest(id, <<Head(b)>> \o Tail(b)) = AtRest(id, <<Head(b)>>) + AtRest(id, Tail(b))
  BY ONLY <1>1, <1>2, AtRestJoined
<1>4. AtRest(id, <<Head(b)>>) = IF Head(b).id = id THEN Head(b).amount ELSE 0
  BY ONLY <1>1, AtRestOne
<1> QED BY ONLY <1>1, <1>3, <1>4

LEMMA Reduced ==
  ASSUME NEW b \in Seq(Order), b # <<>>, NEW n \in 0..Head(b).amount,
         NEW c, c = [b EXCEPT ![1].amount = @ - n]
  PROVE  /\ c \in Seq(Order) /\ c # <<>> /\ Len(c) = Len(b) /\ Tail(c) = Tail(b)
         /\ Head(c) = [Head(b) EXCEPT !.amount = @ - n]
         /\ \A i \in 1..Len(b) : SameTerms(c[i], b[i])
<1>1. /\ Len(b) \in Nat /\ 1 \in 1..Len(b) /\ Head(b) = b[1] /\ b[1] \in Order
      /\ DOMAIN b = 1..Len(b)
  BY EmptySeq, LenProperties
<1>2. \A x \in Order : x.amount \in Nat /\ \A k \in Nat : [x EXCEPT !.amount = k] \in Order
  BY DEF Order
<1>3. b[1].amount - n \in Nat
  BY <1>1, <1>2
<1>4. [b[1] EXCEPT !.amount = @ - n] \in Order
  BY <1>1, <1>2, <1>3
<1>5. PICK y \in Order : y = [b[1] EXCEPT !.amount = @ - n]
  BY <1>4
<1>6. c = [b EXCEPT ![1] = y]
  BY ONLY <1>5, c = [b EXCEPT ![1].amount = @ - n]
<1>7. c \in Seq(Order) /\ Len(c) = Len(b)
  BY <1>1, <1>6, ExceptSeq
<1>8. /\ c[1] = y /\ \A i \in 1..Len(b) : i # 1 => c[i] = b[i]
  BY <1>1, <1>6
<1>9. c # <<>> /\ Head(c) = y
  BY <1>1, <1>7, <1>8
<1>10. Tail(c) = Tail(b)
  BY <1>1, <1>7, <1>8 
<1>11. SameTerms(y, b[1])
  <2>1. \A x \in Order : \A k : SameTerms([x EXCEPT !.amount = k], x)
    BY DEF Order, SameTerms
  <2>2. PICK x, k : x \in Order /\ x = b[1] /\ y = [x EXCEPT !.amount = k]
    BY <1>1, <1>5
  <2>3. SameTerms(y, x)
    BY ONLY <2>1, <2>2
  <2> QED BY <2>2, <2>3
<1>12. \A i \in 1..Len(b) : SameTerms(c[i], b[i])
  BY <1>8, <1>11 DEF SameTerms
<1> QED BY <1>1, <1>5, <1>7, <1>8, <1>9, <1>10, <1>12

LEMMA AtRestReduced ==
  ASSUME NEW b \in Seq(Order), b # <<>>, NEW n \in 0..Head(b).amount, NEW id
  PROVE  AtRest(id, b) = (IF Head(b).id = id THEN n ELSE 0)
                           + AtRest(id, [b EXCEPT ![1].amount = @ - n])
<1> DEFINE c == [b EXCEPT ![1].amount = @ - n]
<1>1. /\ c \in Seq(Order) /\ c # <<>> /\ Tail(c) = Tail(b)
      /\ Head(c) = [Head(b) EXCEPT !.amount = @ - n]
  BY Reduced
<1>2. Head(b) \in Order /\ Tail(b) \in Seq(Order)
  BY HeadTailProperties
<1>3. /\ Head(c).id = Head(b).id /\ Head(c).amount = Head(b).amount - n
      /\ Head(b).amount \in Nat
  BY <1>1, <1>2 DEF Order
<1>4. AtRest(id, c) = (IF Head(c).id = id THEN Head(c).amount ELSE 0) + AtRest(id, Tail(c))
  BY ONLY <1>1, AtRestTail
<1>5. AtRest(id, b) = (IF Head(b).id = id THEN Head(b).amount ELSE 0) + AtRest(id, Tail(b))
  BY AtRestTail
<1>6. AtRest(id, Tail(b)) \in Nat
  BY ONLY <1>2, AtRestNat
<1> HIDE DEF c
<1>7. AtRest(id, b) = (IF Head(b).id = id THEN n ELSE 0) + AtRest(id, c)
  <2>1. CASE Head(b).id = id
    <3>1. Head(b).amount \in Nat /\ n \in Nat /\ n <= Head(b).amount
      BY <1>3
    <3>2. /\ AtRest(id, c) = (Head(b).amount - n) + AtRest(id, Tail(b))
          /\ AtRest(id, b) = Head(b).amount + AtRest(id, Tail(b))
      BY <1>1, <1>3, <1>4, <1>5, <2>1
    <3>3. AtRest(id, b) = n + AtRest(id, c)
      BY ONLY <1>6, <3>1, <3>2
    <3> QED BY <2>1, <3>3
  <2>2. CASE Head(b).id # id
    <3>1. AtRest(id, c) = 0 + AtRest(id, Tail(b)) /\ AtRest(id, b) = 0 + AtRest(id, Tail(b))
      BY <1>1, <1>3, <1>4, <1>5, <2>2
    <3>2. AtRest(id, b) = 0 + AtRest(id, c)
      BY ONLY <1>6, <3>1
    <3> QED BY <2>2, <3>2
  <2> QED BY <2>1, <2>2
<1> QED BY <1>7 DEF c

(* What is at rest when an order is inserted. *)
LEMMA AtRestInserted ==
  ASSUME NEW b \in Seq(Order), NEW k \in 0..Len(b), NEW x \in Order, NEW id
  PROVE  /\ InsertAt(b, k + 1, x) \in Seq(Order)
         /\ AtRest(id, InsertAt(b, k + 1, x)) =
              AtRest(id, b) + (IF x.id = id THEN x.amount ELSE 0)
<1> DEFINE u == SubSeq(b, 1, k)
           v == SubSeq(b, k + 1, Len(b))
<1>1. u \in Seq(Order) /\ v \in Seq(Order) /\ u \o v = b
  <2>1. Len(b) \in Nat
    BY LenProperties
  <2>2. u \in Seq(Order) /\ v \in Seq(Order)
    BY <2>1, SubSeqProperties
  <2>3. u \o v = SubSeq(b, 1, Len(b))
    <3>1. /\ 1 \in 1..Len(b) + 1 /\ k \in (1 - 1)..Len(b) /\ Len(b) \in k..Len(b)
      BY <2>1
    <3> QED BY ONLY <3>1, b \in Seq(Order), ConcatAdjacentSubSeq
  <2>4. SubSeq(b, 1, Len(b)) = b
    BY SubSeqFull
  <2> QED BY <2>2, <2>3, <2>4
<1>2. InsertAt(b, k + 1, x) = (u \o <<x>>) \o v
  <2>1. SubSeq(b, 1, (k + 1) - 1) = SubSeq(b, 1, k)
    BY (k + 1) - 1 = k
  <2> QED BY <2>1 DEF InsertAt
<1> HIDE DEF u, v
<1>3. <<x>> \in Seq(Order) /\ u \o <<x>> \in Seq(Order)
  BY <1>1, ConcatProperties
<1>4. (u \o <<x>>) \o v \in Seq(Order)
  BY <1>1, <1>3, ConcatProperties
<1>5. AtRest(id, (u \o <<x>>) \o v) = AtRest(id, u \o <<x>>) + AtRest(id, v)
  BY ONLY <1>1, <1>3, AtRestJoined
<1>6. AtRest(id, u \o <<x>>) = AtRest(id, u) + AtRest(id, <<x>>)
  BY ONLY <1>1, <1>3, AtRestJoined
<1>7. AtRest(id, u \o v) = AtRest(id, u) + AtRest(id, v)
  BY ONLY <1>1, AtRestJoined
<1>8. /\ AtRest(id, u) \in Nat /\ AtRest(id, v) \in Nat
  BY ONLY <1>1, AtRestNat
<1>9. AtRest(id, <<x>>) = IF x.id = id THEN x.amount ELSE 0
  BY ONLY AtRestOne, x \in Order
<1>10. AtRest(id, <<x>>) \in Nat
  BY ONLY <1>3, AtRestNat
<1>11. AtRest(id, (u \o <<x>>) \o v) = AtRest(id, u \o v) + AtRest(id, <<x>>)
  BY ONLY <1>5, <1>6, <1>7, <1>8, <1>10
<1> QED BY ONLY <1>1, <1>2, <1>4, <1>9, <1>11

-----------------------------------------------------------------------------
(* b is a book of contract c and side s: its orders are orders of the log, *)
(* each outranks those behind it.                                          *)
Booked(b, c, s, log) ==
  /\ b \in Seq(Order)
  /\ \A i \in 1..Len(b) :
       /\ b[i].contract = c /\ b[i].side = s
       /\ b[i].id \in 1..Len(log) /\ SameTerms(b[i], log[b[i].id])
  /\ \A i, j \in 1..Len(b) : i < j => Outranks(b[i], b[j])

(* The log gives every order its place as its id. *)
Logged(log) == /\ log \in Seq(Order)
               /\ \A id \in 1..Len(log) : log[id].id = id

LEMMA OutranksTerms ==
  ASSUME NEW x, NEW y, NEW z, SameTerms(x, y)
  PROVE  /\ Outranks(x, z) <=> Outranks(y, z)
         /\ Outranks(z, x) <=> Outranks(z, y)
BY DEF SameTerms, Outranks

LEMMA OrderNumbers ==
  \A z \in Order : z.price \in Nat /\ z.timestamp \in Nat /\ z.id \in Nat
<1>1. \A z \in Order : z.price \in LimitPrices /\ z.timestamp \in Timestamps /\ z.id \in 1..MaxOrders
  BY DEF Order
<1>2. LimitPrices \subseteq Nat /\ Timestamps \subseteq Nat /\ MaxOrders \in Nat
  BY MatchAssumption
<1>3. ASSUME NEW z \in Order PROVE z.price \in Nat /\ z.timestamp \in Nat
  BY <1>1, <1>2
<1>4. ASSUME NEW z \in Order PROVE z.id \in Nat
  BY <1>1, <1>2
<1> QED BY <1>3, <1>4

LEMMA OutranksAsymmetric ==
  ASSUME NEW x \in Order, NEW y \in Order, x.side = y.side, Outranks(x, y)
  PROVE  ~Outranks(y, x)
BY OrderNumbers DEF Outranks

LEMMA BookedTail ==
  ASSUME NEW b, NEW c, NEW s, NEW log, Booked(b, c, s, log), b # <<>>
  PROVE  Booked(Tail(b), c, s, log)
<1>1. b \in Seq(Order) /\ Len(b) \in Nat /\ b # <<>>
  BY LenProperties DEF Booked
<1>2. /\ Tail(b) \in Seq(Order) /\ Len(Tail(b)) = Len(b) - 1
      /\ \A i \in 1..Len(Tail(b)) : Tail(b)[i] = b[i + 1] /\ i + 1 \in 1..Len(b)
  BY <1>1, HeadTailProperties
<1>3. \A i, j \in 1..Len(Tail(b)) : i < j => i + 1 < j + 1
  BY <1>1, <1>2
<1> QED BY <1>2, <1>3 DEF Booked

LEMMA BookedReduced ==
  ASSUME NEW b \in Seq(Order), b # <<>>, NEW n \in 0..Head(b).amount,
         NEW c, NEW s, NEW log, Booked(b, c, s, log)
  PROVE  Booked([b EXCEPT ![1].amount = @ - n], c, s, log)
<1>1. b \in Seq(Order) /\ Len(b) \in Nat /\ b # <<>> /\ 1 \in 1..Len(b) /\ Head(b) = b[1]
  BY EmptySeq, LenProperties DEF Booked
<1> DEFINE r == [b EXCEPT ![1].amount = @ - n]
<1>3. r \in Seq(Order) /\ Len(r) = Len(b)
  BY Reduced
<1>5. \A i \in 1..Len(b) : SameTerms(r[i], b[i])
  BY Reduced
<1> HIDE DEF r
<1>6. ASSUME NEW i \in 1..Len(b), NEW j \in 1..Len(b), i < j PROVE Outranks(r[i], r[j])
  BY <1>5, <1>6, OutranksTerms DEF Booked
<1>7. ASSUME NEW i \in 1..Len(b)
      PROVE  /\ r[i].contract = c /\ r[i].side = s
             /\ r[i].id \in 1..Len(log) /\ SameTerms(r[i], log[r[i].id])
  BY <1>5 DEF Booked, SameTerms
<1>8. Booked(r, c, s, log)
  BY <1>3, <1>6, <1>7 DEF Booked
<1> QED BY <1>8 DEF r

-----------------------------------------------------------------------------
(* The loop of addOrder ends here: nothing is left of o, or the best order *)
(* does not reach it.                                                      *)
Stopped(o, d) == d.rest = 0 \/ (d.book # <<>> /\ ~Crosses(o, Head(d.book)))

(* A trade of o with an order of the other side which nothing left in the  *)
(* book outranks.                                                          *)
Due(t, o, book, log) ==
  /\ t.contract = o.contract /\ t.taker = o.id
  /\ t.maker \in 1..Len(log)
  /\ log[t.maker].contract = o.contract /\ log[t.maker].side = Opposite(o.side)
  /\ \A j \in 1..Len(book) : ~Outranks(book[j], log[t.maker])

(* Every share at rest before is at rest or traded, and every share of o   *)
(* is left or traded.                                                      *)
Kept(o, resting, log, d) ==
  /\ \A id \in 1..Len(log) : AtRest(id, resting) = AtRest(id, d.book) + TradedAmount(id, d.trades)
  /\ o.amount = d.rest + TradedAmount(o.id, d.trades)

(* What the loop of addOrder keeps after i iterations. *)
WalkInv(o, resting, log, i, d) ==
  /\ d.rest \in 0..o.amount
  /\ Booked(d.book, o.contract, Opposite(o.side), log)
  /\ \A j \in 1..Len(d.book) : \E k \in 1..Len(resting) : d.book[j].price = resting[k].price
  /\ d.trades \in Seq(Trade)
  /\ \A k \in 1..Len(d.trades) : Due(d.trades[k], o, d.book, log)
  /\ Kept(o, resting, log, d)
  /\ Len(d.book) >= Len(resting) - i
  /\ Stopped(o, d) \/ Len(d.book) = Len(resting) - i

(* o is the next order of the log. *)
Entering(o, log) == /\ Logged(log) /\ o \in Order /\ o.id = Len(log) + 1

LEMMA BestDue ==
  ASSUME NEW log, NEW o, Entering(o, log), NEW b, NEW c,
         Booked(b, o.contract, Opposite(o.side), log), b # <<>>, NEW t,
         t.contract = o.contract, t.taker = o.id, t.maker = Head(b).id,
         \/ c = Tail(b)
         \/ Len(c) = Len(b) /\ \A i \in 1..Len(b) : SameTerms(c[i], b[i])
  PROVE  Due(t, o, c, log)
<1>1. /\ b \in Seq(Order) /\ Len(b) \in Nat /\ 1 \in 1..Len(b) /\ Head(b) = b[1]
      /\ log \in Seq(Order)
  BY EmptySeq, LenProperties DEF Booked, Entering, Logged
<1>2. /\ t.maker \in 1..Len(log) /\ SameTerms(b[1], log[t.maker])
      /\ log[t.maker].contract = o.contract /\ log[t.maker].side = Opposite(o.side)
  BY <1>1 DEF Booked, SameTerms
<1>3. ASSUME NEW i \in 1..Len(b) PROVE ~Outranks(b[i], b[1])
  <2>1. b[i] \in Order /\ b[1] \in Order /\ b[i].side = b[1].side
    BY <1>1 DEF Booked
  <2>2. \A z \in Order : z.price \in Nat /\ z.timestamp \in Nat /\ z.id \in Nat
    BY OrderNumbers
  <2>3. CASE i = 1
    BY <2>1, <2>2, <2>3 DEF Outranks
  <2>4. CASE i # 1
    <3>1. Outranks(b[1], b[i])
      BY <1>1, <2>4 DEF Booked
    <3> QED BY <2>1, <3>1, OutranksAsymmetric
  <2> QED BY <2>3, <2>4
<1>4. ASSUME NEW i \in 1..Len(b) PROVE ~Outranks(b[i], log[t.maker])
  BY <1>2, <1>3 DEF SameTerms, Outranks
<1>5. ASSUME NEW j \in 1..Len(c) PROVE ~Outranks(c[j], log[t.maker])
  <2>1. CASE c = Tail(b)
    <3>1. j + 1 \in 1..Len(b) /\ c[j] = b[j + 1]
      BY <1>1, <2>1, HeadTailProperties
    <3> QED BY <1>4, <3>1
  <2>2. CASE Len(c) = Len(b) /\ \A i \in 1..Len(b) : SameTerms(c[i], b[i])
    BY <1>4, <2>2, OutranksTerms
  <2> QED BY <2>1, <2>2
<1> QED BY <1>2, <1>5 DEF Due

LEMMA StillDue ==
  ASSUME NEW log, NEW o, NEW b, NEW c, b \in Seq(Order), b # <<>>, NEW t,
         Due(t, o, b, log),
         \/ c = Tail(b)
         \/ Len(c) = Len(b) /\ \A i \in 1..Len(b) : SameTerms(c[i], b[i])
  PROVE  Due(t, o, c, log)
<1>1. ASSUME NEW j \in 1..Len(c) PROVE ~Outranks(c[j], log[t.maker])
  <2>1. CASE c = Tail(b)
    <3>1. j + 1 \in 1..Len(b) /\ c[j] = b[j + 1]
      BY <2>1, HeadTailProperties, LenProperties
    <3> QED BY <3>1 DEF Due
  <2>2. CASE Len(c) = Len(b) /\ \A i \in 1..Len(b) : SameTerms(c[i], b[i])
    BY <2>2, OutranksTerms DEF Due
  <2> QED BY <2>1, <2>2
<1> QED BY <1>1 DEF Due

-----------------------------------------------------------------------------
(* One iteration of the loop keeps WalkInv. *)
LEMMA WalkStep ==
  ASSUME NEW log, NEW o, Entering(o, log), Len(log) < MaxOrders,
         NEW resting \in Seq(Order),
         NEW i \in 0..(Len(resting) - 1), NEW d, WalkInv(o, resting, log, i, d)
  PROVE  WalkInv(o, resting, log, i + 1, MatchBest(o, d))
<1>1. /\ d.book \in Seq(Order) /\ d.book # <<>> /\ Len(d.book) \in Nat \ {0} /\ Len(resting) \in Nat
      /\ Head(d.book) \in Order
  <2>1. d.book \in Seq(Order) /\ Len(d.book) >= Len(resting) - i
    BY DEF WalkInv, Booked
  <2>2. Len(resting) \in Nat /\ Len(d.book) \in Nat /\ Len(d.book) > 0
    BY <2>1, LenProperties
  <2> QED BY <2>1, <2>2, HeadTailProperties
<1>2. CASE Stopped(o, d)
  <2>1. MatchBest(o, d) = d
    BY <1>1, <1>2 DEF Stopped, MatchBest
  <2>2. Len(d.book) >= Len(resting) - (i + 1)
    BY <1>1 DEF WalkInv
  <2> QED BY <1>2, <2>1, <2>2 DEF WalkInv
<1>3. CASE ~Stopped(o, d)
  <2> DEFINE best == Head(d.book)
  <2>1. PICK n : n = IF d.rest < best.amount THEN d.rest ELSE best.amount
    OBVIOUS
  <2>2. /\ d.rest \in Nat /\ o.amount \in Nat /\ d.rest <= o.amount /\ best.amount \in Nat
        /\ n \in 0..best.amount /\ n \in 0..d.rest
    <3>1. \A z \in Order : z.amount \in Nat
      BY DEF Order
    <3>2. o.amount \in Nat /\ best.amount \in Nat /\ d.rest \in 0..o.amount
      BY <1>1, <3>1 DEF WalkInv, Entering
    <3> QED BY ONLY <2>1, <3>2
  <2>3. PICK c : c = IF n = best.amount THEN Tail(d.book)
                     ELSE [d.book EXCEPT ![1].amount = @ - n]
    OBVIOUS
  <2>4. PICK t : t = [contract |-> o.contract, maker |-> best.id,
                      taker |-> o.id, price |-> best.price, amount |-> n]
    OBVIOUS
  <2>5. MatchBest(o, d) = [rest |-> d.rest - n, book |-> c, trades |-> Append(d.trades, t)]
    BY <1>1, <1>3, <2>1, <2>3, <2>4 DEF Stopped, MatchBest
  <2>6. PICK e : e = MatchBest(o, d)
    OBVIOUS
  <2>7. e.rest = d.rest - n /\ e.book = c /\ e.trades = Append(d.trades, t)
    BY ONLY <2>5, <2>6
  <2>8. t \in Trade
    <3>1. o.contract \in Contracts /\ best.id \in 1..MaxOrders /\ o.id \in 1..MaxOrders
          /\ best.price \in LimitPrices
      BY <1>1 DEF Entering, Order
    <3>2. n \in Nat
      BY <2>2
    <3> QED BY <2>4, <3>1, <3>2 DEF Trade
  <2>9. d.trades \in Seq(Trade) /\ Append(d.trades, t) = d.trades \o <<t>> /\ <<t>> \in Seq(Trade)
    BY <2>8, AppendIsConcat DEF WalkInv
  <2>10. e.trades \in Seq(Trade)
    BY <2>7, <2>8, <2>9, AppendProperties
  <2>11. \/ c = Tail(d.book)
         \/ c \in Seq(Order) /\ Len(c) = Len(d.book) /\ \A k \in 1..Len(d.book) : SameTerms(c[k], d.book[k])
    BY <1>1, <2>2, <2>3, Reduced
  <2>12. Booked(c, o.contract, Opposite(o.side), log)
    BY <1>1, <2>2, <2>3, BookedTail, BookedReduced DEF WalkInv
  <2>13. \A j \in 1..Len(c) : \E k \in 1..Len(resting) : c[j].price = resting[k].price
    <3>1. CASE c = Tail(d.book)
      BY <1>1, <3>1, HeadTailProperties DEF WalkInv
    <3>2. CASE Len(c) = Len(d.book) /\ \A k \in 1..Len(d.book) : SameTerms(c[k], d.book[k])
      BY <3>2 DEF WalkInv, SameTerms
    <3> QED BY <2>11, <3>1, <3>2
  <2>14. Due(t, o, c, log)
    BY <1>1, <2>4, <2>11, BestDue DEF WalkInv
  <2>15. \A k \in 1..Len(d.trades) : Due(d.trades[k], o, c, log)
    BY <1>1, <2>11, StillDue DEF WalkInv
  <2>16. \A k \in 1..Len(e.trades) : Due(e.trades[k], o, c, log)
    BY <2>7, <2>8, <2>9, <2>14, <2>15, AppendProperties
  <2>17. \A id : TradedAmount(id, e.trades)
                   = TradedAmount(id, d.trades) + (IF id \in {best.id, o.id} THEN n ELSE 0)
    <3>1. ASSUME NEW id PROVE TradedAmount(id, d.trades \o <<t>>)
                                = TradedAmount(id, d.trades) + TradedAmount(id, <<t>>)
      BY ONLY <2>9, TradedJoined
    <3>2. ASSUME NEW id PROVE TradedAmount(id, <<t>>) = IF id \in {t.maker, t.taker} THEN t.amount ELSE 0
      BY ONLY <2>8, TradedOne
    <3> QED BY <2>4, <2>7, <2>9, <3>1, <3>2
  <2>18. ASSUME NEW id PROVE AtRest(id, d.book) = (IF best.id = id THEN n ELSE 0) + AtRest(id, c)
    <3>1. CASE n = best.amount
      BY <1>1, <2>3, <3>1, AtRestTail
    <3>2. CASE n # best.amount
      <4>1. c = [d.book EXCEPT ![1].amount = @ - n]
        BY <2>3, <3>2
      <4>2. AtRest(id, d.book) = (IF best.id = id THEN n ELSE 0)
                                   + AtRest(id, [d.book EXCEPT ![1].amount = @ - n])
        BY <1>1, <2>2, AtRestReduced
      <4> QED BY <4>1, <4>2
    <3> QED BY <3>1, <3>2
  <2>19. Kept(o, resting, log, e)
    <3>1. ASSUME NEW id PROVE TradedAmount(id, d.trades) \in Nat /\ AtRest(id, c) \in Nat
      <4>1. c \in Seq(Order)
        BY <2>12 DEF Booked
      <4> QED BY ONLY <2>9, <4>1, AtRestNat, TradedNat
    <3>2. best.id \in 1..Len(log) /\ o.id \notin 1..Len(log)
      <4>1. d.book[1] = best /\ 1 \in 1..Len(d.book)
        BY <1>1
      <4>2. best.id \in 1..Len(log) /\ Len(log) \in Nat
        BY <4>1, LenProperties DEF WalkInv, Booked, Entering, Logged
      <4> QED BY <4>2 DEF Entering
    <3>3. ASSUME NEW id \in 1..Len(log)
          PROVE  AtRest(id, resting) = AtRest(id, c) + TradedAmount(id, e.trades)
      <4>1. PICK m \in Nat : m = (IF best.id = id THEN n ELSE 0)
        BY <2>2
      <4>2. TradedAmount(id, e.trades) = TradedAmount(id, d.trades) + m
        BY <2>17, <3>2, <4>1
      <4>3. AtRest(id, d.book) = m + AtRest(id, c)
        BY <2>18, <4>1
      <4>4. AtRest(id, resting) = AtRest(id, d.book) + TradedAmount(id, d.trades)
        BY DEF WalkInv, Kept
      <4> QED BY ONLY <3>1, <4>2, <4>3, <4>4, m \in Nat
    <3>4. o.amount = (d.rest - n) + TradedAmount(o.id, e.trades)
      <4>1. TradedAmount(o.id, e.trades) = TradedAmount(o.id, d.trades) + n
        BY <2>17, <3>2
      <4>2. o.amount = d.rest + TradedAmount(o.id, d.trades)
        BY DEF WalkInv, Kept
      <4>3. n \in Nat
        BY <2>2
      <4> QED BY ONLY <2>2, <3>1, <4>1, <4>2, <4>3
    <3> QED BY <2>7, <3>3, <3>4 DEF Kept
  <2>20. /\ Len(c) >= Len(resting) - (i + 1)
         /\ e.rest = 0 \/ Len(c) = Len(resting) - (i + 1)
    <3>1. CASE n = best.amount
      <4>1. Len(c) = Len(d.book) - 1
        BY <1>1, <2>3, <3>1, HeadTailProperties
      <4>2. Len(d.book) = Len(resting) - i
        BY <1>3 DEF WalkInv
      <4> QED BY <1>1, <4>1, <4>2
    <3>2. CASE n # best.amount
      <4>1. Len(c) = Len(d.book)
        BY <1>1, <2>2, <2>3, <3>2, Reduced
      <4>2. n = d.rest
        BY <2>1, <3>2
      <4> QED BY <1>1, <2>2, <2>7, <4>1, <4>2 DEF WalkInv
    <3> QED BY <3>1, <3>2
  <2>21. e.rest \in 0..o.amount
    BY <2>2, <2>7
  <2>22. Stopped(o, e) \/ Len(e.book) = Len(resting) - (i + 1)
    BY <2>7, <2>20 DEF Stopped
  <2>23. WalkInv(o, resting, log, i + 1, e)
    BY <2>7, <2>10, <2>12, <2>13, <2>16, <2>19, <2>20, <2>21, <2>22 DEF WalkInv
  <2> QED BY <2>6, <2>23
<1> QED BY <1>2, <1>3

-----------------------------------------------------------------------------
(* The loop of addOrder as a function of the iterations made. *)
Walk(o, resting, w, n) ==
  w = [i \in 0..n |-> IF i = 0 THEN [rest |-> o.amount, book |-> resting, trades |-> <<>>]
                      ELSE MatchBest(o, w[i - 1])]

LEMMA WalkExists ==
  ASSUME NEW o, NEW resting
  PROVE  \A n \in Nat : \E w : Walk(o, resting, w, n)
<1> DEFINE A == {n \in Nat : \E w : Walk(o, resting, w, n)}
           start == [rest |-> o.amount, book |-> resting, trades |-> <<>>]
<1>1. 0 \in A
  <2>1. Walk(o, resting, [i \in 0..0 |-> start], 0)
    BY DEF Walk
  <2> QED BY <2>1
<1>2. ASSUME NEW k \in Nat, k \in A PROVE k + 1 \in A
  <2>1. PICK w : Walk(o, resting, w, k)
    BY <1>2
  <2> DEFINE v == [i \in 0..(k + 1) |-> IF i = k + 1 THEN MatchBest(o, w[k]) ELSE w[i]]
  <2>2. \A i \in 0..k : w[i] = IF i = 0 THEN start ELSE MatchBest(o, w[i - 1])
    BY <2>1 DEF Walk
  <2>3. ASSUME NEW i \in 0..(k + 1)
        PROVE  v[i] = IF i = 0 THEN start ELSE MatchBest(o, v[i - 1])
    <3>1. CASE i = k + 1
      <4>1. v[i] = MatchBest(o, w[k]) /\ i # 0 /\ i - 1 = k /\ v[i - 1] = w[k]
        BY <3>1
      <4> QED BY ONLY <4>1
    <3>2. CASE i # k + 1 /\ i # 0
      <4>1. i \in 0..k /\ i - 1 \in 0..k /\ v[i] = w[i] /\ v[i - 1] = w[i - 1]
        BY <3>2
      <4> QED BY <2>2, <3>2, <4>1
    <3>3. CASE i = 0
      <4>1. i \in 0..k /\ v[i] = w[i]
        BY <3>3
      <4> QED BY <2>2, <3>3, <4>1
    <3> QED BY <3>1, <3>2, <3>3
  <2>4. v = [i \in 0..(k + 1) |-> v[i]]
    OBVIOUS
  <2> HIDE DEF v
  <2>5. Walk(o, resting, v, k + 1)
    BY <2>3, <2>4 DEF Walk
  <2> QED BY <2>5
<1>3. Nat \subseteq A
  <2> HIDE DEF A
  <2> QED BY <1>1, <1>2, NatSetInduction
<1> QED BY <1>3

LEMMA MatchedWalk ==
  ASSUME NEW o, NEW resting, Len(resting) \in Nat
  PROVE  \E w : Walk(o, resting, w, Len(resting)) /\ Matched(o, resting) = w[Len(resting)]
<1> DEFINE W == CHOOSE w : w = [i \in 0..Len(resting) |->
                   IF i = 0 THEN [rest |-> o.amount, book |-> resting, trades |-> <<>>]
                   ELSE MatchBest(o, w[i - 1])]
<1>1. \E w : Walk(o, resting, w, Len(resting))
  BY WalkExists
<1>2. Walk(o, resting, W, Len(resting))
  BY <1>1 DEF Walk
<1>3. Matched(o, resting) = W[Len(resting)]
  BY DEF Matched
<1> QED BY <1>2, <1>3

LEMMA WalkStarts ==
  ASSUME NEW log, NEW o, Entering(o, log), NEW resting,
         Booked(resting, o.contract, Opposite(o.side), log),
         NEW d, d = [rest |-> o.amount, book |-> resting, trades |-> <<>>]
  PROVE  WalkInv(o, resting, log, 0, d)
<1>1. d.rest = o.amount /\ d.book = resting /\ d.trades = <<>>
  OBVIOUS
<1>2. resting \in Seq(Order) /\ Len(resting) \in Nat
  BY LenProperties DEF Booked
<1>3. d.trades \in Seq(Trade) /\ Len(d.trades) = 0
  BY <1>1
<1>4. ASSUME NEW id PROVE TradedAmount(id, d.trades) = 0
  <2>1. \A k \in 1..Len(d.trades) : d.trades[k].maker # id /\ d.trades[k].taker # id
    BY <1>3
  <2> QED BY ONLY <1>3, <2>1, TradedNone
<1>5. \A id : AtRest(id, resting) \in Nat
  BY <1>2, AtRestNat
<1>6. o.amount \in Nat
  BY DEF Entering, Order
<1>7. Kept(o, resting, log, d)
  BY <1>1, <1>4, <1>5, <1>6 DEF Kept
<1> QED BY <1>1, <1>2, <1>3, <1>6, <1>7 DEF WalkInv

(* What addOrder does to the other side. *)
LEMMA MatchedOK ==
  ASSUME NEW log, NEW o, Entering(o, log), Len(log) < MaxOrders,
         NEW resting, Booked(resting, o.contract, Opposite(o.side), log)
  PROVE  WalkInv(o, resting, log, Len(resting), Matched(o, resting))
<1>1. resting \in Seq(Order) /\ Len(resting) \in Nat
  BY LenProperties DEF Booked
<1>2. PICK w : Walk(o, resting, w, Len(resting)) /\ Matched(o, resting) = w[Len(resting)]
  BY <1>1, MatchedWalk
<1> DEFINE A == {i \in Nat : i <= Len(resting) => WalkInv(o, resting, log, i, w[i])}
<1>3. 0 \in A
  <2>1. w[0] = [rest |-> o.amount, book |-> resting, trades |-> <<>>]
    BY <1>1, <1>2 DEF Walk
  <2>2. WalkInv(o, resting, log, 0, w[0])
    BY <2>1, WalkStarts
  <2> QED BY <2>2
<1>4. ASSUME NEW k \in Nat, k \in A PROVE k + 1 \in A
  <2> SUFFICES ASSUME k + 1 <= Len(resting) PROVE WalkInv(o, resting, log, k + 1, w[k + 1])
    OBVIOUS
  <2>1. k + 1 \in 0..Len(resting) /\ k + 1 # 0 /\ (k + 1) - 1 = k /\ k \in 0..(Len(resting) - 1)
    BY <1>1
  <2>2. w[k + 1] = MatchBest(o, w[k])
    BY <1>2, <2>1 DEF Walk
  <2>3. WalkInv(o, resting, log, k, w[k])
    BY <1>1, <1>4
  <2>4. WalkInv(o, resting, log, k + 1, MatchBest(o, w[k]))
    BY <1>1, <2>1, <2>3, WalkStep
  <2> QED BY <2>2, <2>4
<1>5. Nat \subseteq A
  <2> HIDE DEF A
  <2> QED BY <1>3, <1>4, NatSetInduction
<1>6. WalkInv(o, resting, log, Len(resting), w[Len(resting)])
  BY <1>1, <1>5
<1> QED BY <1>2, <1>6

-----------------------------------------------------------------------------
(* push and sort: the new order goes behind all the orders it does not     *)
(* outrank.                                                                *)
LEMMA OutranksTransitive ==
  ASSUME NEW x \in Order, NEW y \in Order, NEW z \in Order,
         x.side = y.side, Outranks(x, y), Outranks(y, z)
  PROVE  Outranks(x, z)
BY OrderNumbers DEF Outranks

(* r is b with x inserted behind its first k orders. *)
InsertedBehind(r, b, k, x) ==
  b \in Seq(Order) /\ k \in 0..Len(b) /\ x \in Order /\ r = InsertAt(b, k + 1, x)

LEMMA InsertPositions ==
  ASSUME NEW b, NEW k, NEW x, NEW r, InsertedBehind(r, b, k, x)
  PROVE  /\ r \in Seq(Order) /\ Len(r) = Len(b) + 1
         /\ \A i \in 1..k : r[i] = b[i]
         /\ r[k + 1] = x
         /\ \A i \in (k + 2)..(Len(b) + 1) : r[i] = b[i - 1]
<1>0. b \in Seq(Order) /\ k \in 0..Len(b) /\ x \in Order /\ r = InsertAt(b, k + 1, x)
  BY DEF InsertedBehind
<1> USE <1>0
<1> DEFINE u == SubSeq(b, 1, k)
           v == SubSeq(b, k + 1, Len(b))
<1>1. Len(b) \in Nat /\ \A i \in 1..Len(b) : b[i] \in Order
  BY LenProperties
<1>2. /\ u \in Seq(Order) /\ Len(u) = k /\ \A i \in 1..k : u[i] = b[i]
  <2>1. 1 \in Int /\ k \in Int /\ \A i \in 1..k : b[i] \in Order
    BY <1>1
  <2>2. /\ u \in Seq(Order) /\ Len(u) = (IF 1 <= k THEN (k - 1) + 1 ELSE 0)
        /\ \A i \in 1..((k - 1) + 1) : u[i] = b[(1 + i) - 1]
    BY <2>1, SubSeqProperties
  <2> HIDE DEF u
  <2> QED BY <1>1, <2>2
<1>3. /\ v \in Seq(Order) /\ Len(v) = Len(b) - k /\ \A i \in 1..(Len(b) - k) : v[i] = b[k + i]
  <2>1. k + 1 \in Int /\ Len(b) \in Int /\ \A i \in (k + 1)..Len(b) : b[i] \in Order
    BY <1>1
  <2>2. /\ v \in Seq(Order)
        /\ Len(v) = (IF k + 1 <= Len(b) THEN (Len(b) - (k + 1)) + 1 ELSE 0)
        /\ \A i \in 1..((Len(b) - (k + 1)) + 1) : v[i] = b[((k + 1) + i) - 1]
    BY <2>1, SubSeqProperties
  <2> HIDE DEF v
  <2>3. Len(v) = Len(b) - k
    BY <1>1, <2>2
  <2>4. ASSUME NEW i \in 1..(Len(b) - k) PROVE v[i] = b[k + i]
    <3>1. i \in 1..((Len(b) - (k + 1)) + 1) /\ ((k + 1) + i) - 1 = k + i
      BY <1>1
    <3> QED BY <2>2, <3>1
  <2> QED BY <2>2, <2>3, <2>4
<1>4. r = (u \o <<x>>) \o v
  <2>1. SubSeq(b, 1, (k + 1) - 1) = SubSeq(b, 1, k)
    BY (k + 1) - 1 = k
  <2> QED BY <2>1 DEF InsertAt
<1> HIDE DEF u, v
<1>5. /\ u \o <<x>> \in Seq(Order) /\ Len(u \o <<x>>) = k + 1
      /\ \A i \in 1..k : (u \o <<x>>)[i] = b[i]
      /\ (u \o <<x>>)[k + 1] = x
  <2>1. PICK y : y = <<x>> /\ y \in Seq(Order) /\ Len(y) = 1 /\ y[1] = x
    <3>1. <<x>> \in Seq(Order) /\ Len(<<x>>) = 1 /\ <<x>>[1] = x
      OBVIOUS
    <3> QED BY <3>1
  <2>2. /\ u \o y \in Seq(Order) /\ Len(u \o y) = Len(u) + Len(y)
        /\ \A i \in 1..(Len(u) + Len(y)) :
             (u \o y)[i] = IF i <= Len(u) THEN u[i] ELSE y[i - Len(u)]
    BY <1>2, <2>1, ConcatProperties
  <2> QED BY <1>1, <1>2, <2>1, <2>2
<1>6. PICK a : a = u \o <<x>>
  OBVIOUS
<1>7. /\ a \o v \in Seq(Order) /\ Len(a \o v) = Len(a) + Len(v)
      /\ \A i \in 1..(Len(a) + Len(v)) :
           (a \o v)[i] = IF i <= Len(a) THEN a[i] ELSE v[i - Len(a)]
  <2>1. a \in Seq(Order) /\ v \in Seq(Order)
    BY <1>3, <1>5, <1>6
  <2> QED BY ONLY <2>1, ConcatProperties
<1>8. \A i \in 1..k : r[i] = b[i]
  BY <1>1, <1>3, <1>4, <1>5, <1>6, <1>7
<1>9. ASSUME NEW i \in (k + 2)..(Len(b) + 1) PROVE r[i] = b[i - 1]
  <2>1. /\ Len(a) = k + 1 /\ i - (k + 1) \in 1..(Len(b) - k) /\ k + (i - (k + 1)) = i - 1
        /\ i \in 1..(Len(a) + Len(v)) /\ ~(i <= k + 1)
    BY <1>1, <1>3, <1>5, <1>6
  <2> QED BY <1>3, <1>4, <1>6, <1>7, <2>1
<1>10. r \in Seq(Order) /\ Len(r) = Len(b) + 1 /\ r[k + 1] = x
  <2>1. Len(a) = k + 1 /\ Len(v) = Len(b) - k /\ r = a \o v /\ a[k + 1] = x
    BY <1>3, <1>4, <1>5, <1>6
  <2>2. Len(r) = Len(b) + 1 /\ k + 1 \in 1..(Len(a) + Len(v)) /\ k + 1 <= Len(a)
    BY <1>1, <1>7, <2>1
  <2> QED BY <1>7, <2>1, <2>2
<1> QED BY <1>8, <1>9, <1>10

LEMMA LogAppend ==
  ASSUME NEW log \in Seq(Order), NEW o \in Order
  PROVE  /\ Append(log, o) \in Seq(Order) /\ Len(Append(log, o)) = Len(log) + 1
         /\ Len(log) \in Nat
         /\ Append(log, o)[Len(log) + 1] = o
         /\ \A id \in 1..Len(log) : id \in 1..(Len(log) + 1) /\ Append(log, o)[id] = log[id]
BY AppendProperties, LenProperties

LEMMA LogGrows ==
  ASSUME NEW log, NEW o, Entering(o, log), NEW b, NEW c, NEW s, Booked(b, c, s, log)
  PROVE  Booked(b, c, s, Append(log, o)) /\ Logged(Append(log, o))
<1>1. log \in Seq(Order) /\ o \in Order
  BY DEF Entering, Logged
<1>2. Booked(b, c, s, Append(log, o))
  BY <1>1, LogAppend DEF Booked
<1>3. Logged(Append(log, o))
  BY <1>1, LogAppend DEF Entering, Logged
<1> QED BY <1>2, <1>3

LEMMA InsertedOK ==
  ASSUME NEW log, NEW o, Entering(o, log), NEW b, NEW c, NEW s, Booked(b, c, s, log),
         o.contract = c, o.side = s, NEW x \in Order, SameTerms(x, o)
  PROVE  /\ Booked(Inserted(x, b), c, s, Append(log, o))
         /\ \E k \in 0..Len(b) : Inserted(x, b) = InsertAt(b, k + 1, x)
         /\ \A i \in 1..Len(Inserted(x, b)) :
              Inserted(x, b)[i] = x \/ \E j \in 1..Len(b) : Inserted(x, b)[i] = b[j]
<1>1. /\ b \in Seq(Order) /\ Len(b) \in Nat /\ \A i \in 1..Len(b) : b[i] \in Order
      /\ log \in Seq(Order) /\ Len(log) \in Nat /\ o \in Order
  BY LenProperties DEF Booked, Entering, Logged
<1> DEFINE p == {i \in 1..Len(b) : Precedes(b[i], x)}
<1>2. ASSUME NEW i \in 1..Len(b)
      PROVE  /\ b[i].side = x.side /\ b[i].id < x.id
             /\ Precedes(b[i], x) <=> Outranks(b[i], x)
             /\ ~Precedes(b[i], x) => Outranks(x, b[i])
  <2>1. b[i].side = x.side /\ b[i].id \in 1..Len(log) /\ x.id = Len(log) + 1
    BY DEF Booked, Entering, SameTerms
  <2>2. /\ b[i].price \in Nat /\ b[i].timestamp \in Nat /\ b[i].id \in Nat
        /\ x.price \in Nat /\ x.timestamp \in Nat /\ x.id \in Nat
    BY <1>1, OrderNumbers
  <2> QED BY <1>1, <2>1, <2>2 DEF Precedes, Outranks
<1>3. ASSUME NEW i \in p, NEW j \in 1..Len(b), j < i PROVE j \in p
  <2>1. Outranks(b[j], b[i]) /\ Outranks(b[i], x) /\ b[j].side = b[i].side
    BY <1>2, <1>3 DEF Booked
  <2>2. Outranks(b[j], x)
    BY <1>1, <2>1, OutranksTransitive
  <2> QED BY <1>2, <2>2
<1>4. PICK k : k = Cardinality(p)
  OBVIOUS
<1>5. p = 1..k /\ k \in 0..Len(b)
  <2>1. p \in SUBSET (1..Len(b)) /\ \A i \in p : \A j \in 1..Len(b) : j < i => j \in p
    BY <1>3
  <2> HIDE DEF p
  <2> QED BY <1>1, <1>4, <2>1, DownwardClosed
<1>6. Inserted(x, b) = InsertAt(b, k + 1, x)
  BY <1>4 DEF Inserted
<1>7. PICK r : r = Inserted(x, b)
  OBVIOUS
<1>8. /\ r \in Seq(Order) /\ Len(r) = Len(b) + 1
      /\ \A i \in 1..k : r[i] = b[i]
      /\ r[k + 1] = x
      /\ \A i \in (k + 2)..(Len(b) + 1) : r[i] = b[i - 1]
  <2>1. r = InsertAt(b, k + 1, x) /\ b \in Seq(Order) /\ k \in 0..Len(b)
    BY <1>1, <1>5, <1>6, <1>7
  <2>2. InsertedBehind(r, b, k, x)
    BY <2>1 DEF InsertedBehind
  <2> QED BY ONLY <2>2, InsertPositions
<1>9. ASSUME NEW i \in 1..Len(b) PROVE (i <= k => Outranks(b[i], x)) /\ (i > k => Outranks(x, b[i]))
  <2>1. k \in Nat /\ (i \in p <=> i <= k) /\ (i > k <=> ~(i <= k))
    BY <1>5
  <2>2. i \in p <=> Precedes(b[i], x)
    OBVIOUS
  <2> HIDE DEF p
  <2>3. ASSUME i <= k PROVE Outranks(b[i], x)
    BY <1>2, <2>1, <2>2, <2>3
  <2>4. ASSUME i > k PROVE Outranks(x, b[i])
    BY <1>2, <2>1, <2>2, <2>4
  <2> QED BY <2>3, <2>4
<1>10. ASSUME NEW i \in 1..(Len(b) + 1)
       PROVE  \/ i \in 1..k /\ i \in 1..Len(b)
              \/ i = k + 1
              \/ i \in (k + 2)..(Len(b) + 1) /\ i - 1 \in 1..Len(b) /\ i - 1 > k
  BY <1>1, <1>5
<1>11. ASSUME NEW i \in 1..(Len(b) + 1) PROVE r[i] = x \/ \E j \in 1..Len(b) : r[i] = b[j]
  BY <1>8, <1>10
<1>12. PICK l : l = Append(log, o)
  OBVIOUS
<1>13. /\ Len(l) = Len(log) + 1 /\ l[Len(log) + 1] = o
       /\ \A id \in 1..Len(log) : id \in 1..(Len(log) + 1) /\ l[id] = log[id]
  BY <1>1, <1>12, LogAppend
<1>14. ASSUME NEW i \in 1..(Len(b) + 1)
       PROVE  r[i].contract = c /\ r[i].side = s /\ r[i].id \in 1..Len(l) /\ SameTerms(r[i], l[r[i].id])
  <2>1. CASE r[i] = x
    <3>1. x.contract = c /\ x.side = s /\ x.id = Len(log) + 1
      BY DEF SameTerms, Entering
    <3>2. x.id \in 1..Len(l) /\ l[x.id] = o
      BY <1>1, <1>13, <3>1
    <3> QED BY <2>1, <3>1, <3>2
  <2>2. ASSUME NEW j \in 1..Len(b), r[i] = b[j]
        PROVE  r[i].contract = c /\ r[i].side = s /\ r[i].id \in 1..Len(l) /\ SameTerms(r[i], l[r[i].id])
    <3>1. /\ b[j].contract = c /\ b[j].side = s
          /\ b[j].id \in 1..Len(log) /\ SameTerms(b[j], log[b[j].id])
      BY DEF Booked
    <3> QED BY <1>13, <2>2, <3>1
  <2> QED BY <1>11, <2>1, <2>2
<1>15. ASSUME NEW i \in 1..(Len(b) + 1), NEW j \in 1..(Len(b) + 1), i < j
       PROVE  Outranks(r[i], r[j])
  <2>1. \A m, n \in 1..Len(b) : m < n => Outranks(b[m], b[n])
    BY DEF Booked
  <2>2. CASE i \in 1..k /\ j \in 1..k
    <3>1. r[i] = b[i] /\ r[j] = b[j] /\ i \in 1..Len(b) /\ j \in 1..Len(b)
      BY <1>1, <1>5, <1>8, <2>2
    <3> QED BY <1>15, <2>1, <3>1
  <2>3. CASE i \in 1..k /\ j = k + 1
    <3>1. r[i] = b[i] /\ r[j] = x /\ i \in 1..Len(b) /\ i <= k
      BY <1>1, <1>5, <1>8, <2>3
    <3> QED BY <1>9, <3>1
  <2>4. CASE i \in 1..k /\ j \in (k + 2)..(Len(b) + 1)
    <3>1. r[i] = b[i] /\ r[j] = b[j - 1] /\ i \in 1..Len(b) /\ j - 1 \in 1..Len(b) /\ i < j - 1
      BY <1>1, <1>5, <1>8, <2>4
    <3> QED BY <2>1, <3>1
  <2>5. CASE i = k + 1 /\ j \in (k + 2)..(Len(b) + 1)
    <3>1. r[i] = x /\ r[j] = b[j - 1] /\ j - 1 \in 1..Len(b) /\ j - 1 > k
      BY <1>1, <1>5, <1>8, <2>5
    <3> QED BY <1>9, <3>1
  <2>6. CASE i \in (k + 2)..(Len(b) + 1) /\ j \in (k + 2)..(Len(b) + 1)
    <3>1. /\ r[i] = b[i - 1] /\ r[j] = b[j - 1] /\ i - 1 \in 1..Len(b) /\ j - 1 \in 1..Len(b)
          /\ i - 1 < j - 1
      BY <1>1, <1>5, <1>8, <1>15, <2>6
    <3> QED BY <2>1, <3>1
  <2> QED BY <1>1, <1>5, <1>10, <1>15, <2>2, <2>3, <2>4, <2>5, <2>6
<1>16. Booked(r, c, s, l)
  BY <1>8, <1>14, <1>15 DEF Booked
<1>17. Booked(Inserted(x, b), c, s, Append(log, o))
  BY <1>7, <1>12, <1>16
<1>18. \A i \in 1..Len(Inserted(x, b)) :
              Inserted(x, b)[i] = x \/ \E j \in 1..Len(b) : Inserted(x, b)[i] = b[j]
  BY <1>7, <1>8, <1>11
<1> QED BY <1>5, <1>6, <1>17, <1>18

-----------------------------------------------------------------------------
(* Both orders of every trade have been submitted. *)
Known(ts, log) ==
  \A k \in 1..Len(ts) : ts[k].maker \in 1..Len(log) /\ ts[k].taker \in 1..Len(log)

(* The inductive invariant. *)
MatchInv ==
  /\ MatchTypeOK
  /\ Logged(submitted)
  /\ \A c \in Contracts, s \in Sides : Booked(books[c][s], c, s, submitted)
  /\ Known(trades, submitted) /\ Known(settled, submitted)
  /\ OrdersConserved
  /\ BooksUncrossed

(* What submitting o does: d is the end of the loop against the other      *)
(* side, r the side of o afterwards.                                       *)
Added(o, d, r) ==
  LET other == books[o.contract][Opposite(o.side)]
      own == books[o.contract][o.side]
  IN  /\ Entering(o, submitted)
      /\ o.contract \in Contracts /\ o.side \in Sides
      /\ WalkInv(o, other, submitted, Len(other), d)
      /\ \/ d.rest = 0 /\ r = own
         \/ /\ d.rest # 0
            /\ \E x \in Order, k \in 0..Len(own) :
                 SameTerms(x, o) /\ x.amount = d.rest /\ r = InsertAt(own, k + 1, x)
            /\ \A i \in 1..Len(r) : SameTerms(r[i], o) \/ \E j \in 1..Len(own) : r[i] = own[j]
      /\ Booked(r, o.contract, o.side, submitted')
      /\ \A c \in Contracts, s \in Sides :
           books'[c][s] = IF c = o.contract
                          THEN IF s = o.side THEN r ELSE d.book
                          ELSE books[c][s]
      /\ trades' = trades \o d.trades
      /\ submitted' = Append(submitted, o)
      /\ settled' = settled

LEMMA OppositeSide ==
  ASSUME NEW s \in Sides
  PROVE  /\ Opposite(s) \in Sides /\ Opposite(s) # s
         /\ \A z \in Sides : z # s => z = Opposite(s)
BY DEF Sides, Opposite

LEMMA AddOrderAdded ==
  ASSUME MatchInv, NEW o, Entering(o, submitted), Len(submitted) < MaxOrders, AddOrder(o)
  PROVE  /\ \E d, r : Added(o, d, r)
         /\ books' \in [Contracts -> [Sides -> Seq(Order)]]
<1> DEFINE other == books[o.contract][Opposite(o.side)]
           own == books[o.contract][o.side]
<1>1. /\ o \in Order /\ o.contract \in Contracts /\ o.side \in Sides
      /\ submitted \in Seq(Order) /\ Len(submitted) \in Nat
  BY LenProperties DEF Entering, Logged, Order
<1>2. /\ Opposite(o.side) \in Sides /\ Opposite(o.side) # o.side
      /\ \A z \in Sides : z # o.side => z = Opposite(o.side)
  BY <1>1, OppositeSide
<1>3. /\ Booked(other, o.contract, Opposite(o.side), submitted)
      /\ Booked(own, o.contract, o.side, submitted)
  BY <1>1, <1>2 DEF MatchInv
<1>4. PICK d : d = Matched(o, other)
  OBVIOUS
<1>5. WalkInv(o, other, submitted, Len(other), d)
  <2> HIDE DEF other
  <2> QED BY <1>3, <1>4, MatchedOK
<1>6. d.rest \in 0..o.amount /\ d.rest \in Nat /\ d.book \in Seq(Order)
  <2>1. o.amount \in Nat
    BY <1>1 DEF Order
  <2> QED BY <1>5, <2>1 DEF WalkInv, Booked
<1>7. PICK x : x = [o EXCEPT !.amount = d.rest]
  OBVIOUS
<1>8. x \in Order /\ SameTerms(x, o) /\ x.amount = d.rest
  BY <1>1, <1>6, <1>7 DEF Order, SameTerms
<1>9. PICK r : r = IF d.rest > 0 THEN Inserted(x, own) ELSE own
  OBVIOUS
<1>10. /\ books' = [books EXCEPT ![o.contract][Opposite(o.side)] = d.book,
                                 ![o.contract][o.side] = r]
       /\ trades' = trades \o d.trades
       /\ submitted' = Append(submitted, o)
       /\ settled' = settled
  <2>1. books \in [Contracts -> [Sides -> Seq(Order)]]
    BY DEF MatchInv, MatchTypeOK
  <2> QED BY <1>1, <1>2, <1>4, <1>7, <1>9, <2>1 DEF AddOrder
<1>11. /\ Booked(r, o.contract, o.side, submitted')
       /\ \/ d.rest = 0 /\ r = own
          \/ /\ d.rest # 0
             /\ \E y \in Order, k \in 0..Len(own) :
                  SameTerms(y, o) /\ y.amount = d.rest /\ r = InsertAt(own, k + 1, y)
             /\ \A i \in 1..Len(r) : SameTerms(r[i], o) \/ \E j \in 1..Len(own) : r[i] = own[j]
  <2> HIDE DEF own
  <2>1. CASE d.rest = 0
    <3>1. r = own
      BY <1>9, <2>1
    <3>2. Booked(own, o.contract, o.side, Append(submitted, o))
      BY <1>3, LogGrows
    <3> QED BY <1>10, <2>1, <3>1, <3>2
  <2>2. CASE d.rest # 0
    <3>1. r = Inserted(x, own)
      BY <1>6, <1>9, <2>2
    <3>2. /\ Booked(Inserted(x, own), o.contract, o.side, Append(submitted, o))
          /\ \E k \in 0..Len(own) : Inserted(x, own) = InsertAt(own, k + 1, x)
          /\ \A i \in 1..Len(Inserted(x, own)) :
               Inserted(x, own)[i] = x \/ \E j \in 1..Len(own) : Inserted(x, own)[i] = own[j]
      BY <1>3, <1>8, InsertedOK
    <3> QED BY <1>8, <1>10, <2>2, <3>1, <3>2
  <2> QED BY <2>1, <2>2
<1>12. r \in Seq(Order)
  BY <1>11 DEF Booked
<1>13. /\ books' \in [Contracts -> [Sides -> Seq(Order)]]
       /\ \A c \in Contracts, s \in Sides :
           books'[c][s] = IF c = o.contract
                          THEN IF s = o.side THEN r ELSE d.book
                          ELSE books[c][s]
  <2>1. books \in [Contracts -> [Sides -> Seq(Order)]]
    BY DEF MatchInv, MatchTypeOK
  <2> QED BY <1>1, <1>2, <1>6, <1>10, <1>12, <2>1
<1>14. Added(o, d, r)
  BY <1>1, <1>5, <1>10, <1>11, <1>13 DEF Added
<1> QED BY <1>13, <1>14

LEMMA AddedBooked ==
  ASSUME MatchInv, NEW o, NEW d, NEW r, Added(o, d, r)
  PROVE  /\ \A c \in Contracts, s \in Sides : Booked(books'[c][s], c, s, submitted')
         /\ Logged(submitted')
<1>1. Entering(o, submitted) /\ submitted' = Append(submitted, o)
  BY DEF Added
<1>2. Booked(d.book, o.contract, Opposite(o.side), submitted)
  BY DEF Added, WalkInv
<1>3. Booked(d.book, o.contract, Opposite(o.side), Append(submitted, o))
  BY ONLY <1>1, <1>2, LogGrows
<1>4. ASSUME NEW c \in Contracts, NEW s \in Sides
      PROVE  Booked(books'[c][s], c, s, submitted')
  <2>1. CASE c = o.contract /\ s = o.side
    BY <2>1 DEF Added
  <2>2. CASE c = o.contract /\ s # o.side
    <3>1. s = Opposite(o.side)
      BY <2>2, OppositeSide DEF Added
    <3> QED BY <1>1, <1>3, <2>2, <3>1 DEF Added
  <2>3. CASE c # o.contract
    <3>1. books'[c][s] = books[c][s]
      BY <2>3 DEF Added
    <3>2. Booked(books[c][s], c, s, Append(submitted, o))
      BY <1>1, LogGrows DEF MatchInv
    <3> QED BY <1>1, <3>1, <3>2
  <2> QED BY <2>1, <2>2, <2>3
<1>5. Logged(Append(submitted, o))
  BY <1>1, <1>2, LogGrows
<1> QED BY <1>1, <1>4, <1>5

LEMMA AddedKnown ==
  ASSUME MatchInv, NEW o, NEW d, NEW r, Added(o, d, r)
  PROVE  Known(trades', submitted') /\ Known(settled', submitted') /\ trades' \in Seq(Trade)
<1>1. /\ submitted \in Seq(Order) /\ o \in Order /\ o.id = Len(submitted) + 1
      /\ submitted' = Append(submitted, o)
      /\ trades' = trades \o d.trades /\ settled' = settled
  BY DEF Added, Entering, Logged
<1>2. Len(submitted') = Len(submitted) + 1 /\ Len(submitted) \in Nat
  BY <1>1, LogAppend
<1>3. trades \in Seq(Trade) /\ d.trades \in Seq(Trade)
  BY DEF MatchInv, MatchTypeOK, Added, WalkInv
<1>4. /\ trades' \in Seq(Trade) /\ Len(trades') = Len(trades) + Len(d.trades)
      /\ \A k \in 1..(Len(trades) + Len(d.trades)) :
           trades'[k] = IF k <= Len(trades) THEN trades[k] ELSE d.trades[k - Len(trades)]
  BY <1>1, <1>3, ConcatProperties
<1>5. \A k \in 1..Len(trades) : trades[k].maker \in 1..Len(submitted') /\ trades[k].taker \in 1..Len(submitted')
  BY <1>2 DEF MatchInv, Known
<1>6. \A k \in 1..Len(d.trades) :
        d.trades[k].maker \in 1..Len(submitted') /\ d.trades[k].taker \in 1..Len(submitted')
  BY <1>1, <1>2 DEF Added, WalkInv, Due
<1>7. ASSUME NEW k \in 1..Len(trades')
      PROVE  trades'[k].maker \in 1..Len(submitted') /\ trades'[k].taker \in 1..Len(submitted')
  <2>1. Len(trades) \in Nat /\ Len(d.trades) \in Nat
    BY <1>3, LenProperties
  <2>2. CASE k <= Len(trades)
    BY <1>4, <1>5, <2>1, <2>2
  <2>3. CASE ~(k <= Len(trades))
    <3>1. k - Len(trades) \in 1..Len(d.trades)
      BY <1>4, <2>1, <2>3
    <3> QED BY <1>4, <1>6, <2>3, <3>1
  <2> QED BY <2>2, <2>3
<1>8. Known(settled', submitted')
  BY <1>1, <1>2 DEF MatchInv, Known
<1> QED BY <1>4, <1>7, <1>8 DEF Known

LEMMA AddedUncrossed ==
  ASSUME MatchInv, NEW o, NEW d, NEW r, Added(o, d, r)
  PROVE  BooksUncrossed'
<1> DEFINE other == books[o.contract][Opposite(o.side)]
           own == books[o.contract][o.side]
<1>1. /\ o \in Order /\ o.contract \in Contracts /\ o.side \in Sides /\ o.price \in Nat
      /\ Booked(d.book, o.contract, Opposite(o.side), submitted) /\ d.book \in Seq(Order)
      /\ Opposite(o.side) \in Sides
      /\ own \in Seq(Order) /\ other \in Seq(Order) /\ Len(other) \in Nat /\ Len(d.book) \in Nat
  <2>1. o \in Order /\ o.contract \in Contracts /\ o.side \in Sides
    BY DEF Added, Entering
  <2>2. Booked(d.book, o.contract, Opposite(o.side), submitted)
    BY DEF Added, WalkInv
  <2>3. books \in [Contracts -> [Sides -> Seq(Order)]]
    BY DEF MatchInv, MatchTypeOK
  <2>4. d.book \in Seq(Order)
    BY <2>2 DEF Booked
  <2>5. Opposite(o.side) \in Sides /\ o.price \in Nat
    BY <2>1, OppositeSide, OrderNumbers
  <2>6. own \in Seq(Order) /\ other \in Seq(Order)
    BY <2>1, <2>3, <2>5
  <2>7. Len(other) \in Nat /\ Len(d.book) \in Nat
    BY <2>4, <2>6, LenProperties
  <2> QED BY <2>1, <2>2, <2>4, <2>5, <2>6, <2>7
<1>2. ASSUME NEW i \in 1..Len(d.book), d.rest # 0 PROVE ~Crosses(o, d.book[i])
  <2>1. /\ d.book # <<>> /\ ~Crosses(o, Head(d.book)) /\ Head(d.book) = d.book[1]
        /\ 1 \in 1..Len(d.book)
    <3>1. d.book # <<>> /\ 1 \in 1..Len(d.book) /\ Head(d.book) = d.book[1]
      BY <1>1
    <3>2. Stopped(o, d)
      <4>1. Len(d.book) # Len(other) - Len(other)
        BY <1>1
      <4> QED BY <4>1 DEF Added, WalkInv
    <3> QED BY <1>2, <3>1, <3>2 DEF Stopped
  <2>2. i = 1 \/ Outranks(d.book[1], d.book[i])
    BY <1>1, <2>1 DEF Booked
  <2>3. d.book[1].side = Opposite(o.side) /\ d.book[1].price \in Nat /\ d.book[i].price \in Nat
    BY <1>1, <2>1, OrderNumbers DEF Booked
  <2> QED BY <1>1, <2>1, <2>2, <2>3 DEF Crosses, Outranks, Opposite, Sides
<1>3. ASSUME NEW i \in 1..Len(d.book), NEW j \in 1..Len(own)
      PROVE  /\ o.side = "buy" => own[j].price < d.book[i].price
             /\ o.side = "sell" => d.book[i].price < own[j].price
  <2>1. PICK k \in 1..Len(other) : d.book[i].price = other[k].price
    BY DEF Added, WalkInv
  <2> QED BY <1>1, <2>1 DEF MatchInv, BooksUncrossed, Opposite
<1>4. ASSUME NEW i \in 1..Len(d.book), NEW j \in 1..Len(r)
      PROVE  /\ o.side = "buy" => r[j].price < d.book[i].price
             /\ o.side = "sell" => d.book[i].price < r[j].price
  <2>1. CASE d.rest = 0
    <3>1. r = own
      BY <2>1 DEF Added
    <3> QED BY <1>3, <3>1
  <2>2. CASE d.rest # 0
    <3>1. SameTerms(r[j], o) \/ \E k \in 1..Len(own) : r[j] = own[k]
      BY <2>2 DEF Added
    <3>2. CASE SameTerms(r[j], o)
      <4>1. ~Crosses(o, d.book[i]) /\ d.book[i].price \in Nat /\ r[j].price = o.price
        BY <1>1, <1>2, <2>2, <3>2, OrderNumbers DEF SameTerms
      <4> QED BY <1>1, <4>1 DEF Crosses
    <3> QED BY <1>3, <3>1, <3>2
  <2> QED BY <2>1, <2>2
<1>5. ASSUME NEW c \in Contracts, NEW i \in 1..Len(books'[c]["buy"]), NEW j \in 1..Len(books'[c]["sell"])
      PROVE  books'[c]["buy"][i].price < books'[c]["sell"][j].price
  <2>0. "buy" \in Sides /\ "sell" \in Sides
    BY DEF Sides
  <2>1. CASE c # o.contract
    BY <2>0, <2>1 DEF Added, MatchInv, BooksUncrossed
  <2>2. CASE c = o.contract /\ o.side = "buy"
    <3>1. books'[c]["buy"] = r /\ books'[c]["sell"] = d.book
      BY <2>0, <2>2 DEF Added
    <3> QED BY <1>4, <2>2, <3>1
  <2>3. CASE c = o.contract /\ o.side = "sell"
    <3>1. books'[c]["sell"] = r /\ books'[c]["buy"] = d.book
      BY <2>0, <2>3 DEF Added
    <3> QED BY <1>4, <2>3, <3>1
  <2> QED BY <1>1, <2>1, <2>2, <2>3 DEF Sides
<1> QED BY <1>5 DEF BooksUncrossed

(* What the trades of one order take is at rest no more: o itself has      *)
(* nothing at rest or traded before, and every other order of its side     *)
(* keeps what it has.                                                      *)
LEMMA AddedOwnSide ==
  ASSUME MatchInv, NEW o, NEW d, NEW r, Added(o, d, r), NEW id
  PROVE  LET own == books[o.contract][o.side]
         IN  /\ id \in 1..Len(submitted) => AtRest(id, r) = AtRest(id, own)
             /\ id = o.id => AtRest(id, r) = d.rest
<1> DEFINE own == books[o.contract][o.side]
<1>1. /\ o \in Order /\ o.contract \in Contracts /\ o.side \in Sides
      /\ o.id = Len(submitted) + 1 /\ Len(submitted) \in Nat
  BY LenProperties DEF Added, Entering, Logged
<1>2. own \in Seq(Order) /\ \A i \in 1..Len(own) : own[i].id \in 1..Len(submitted)
  BY <1>1 DEF MatchInv, Booked
<1>3. AtRest(id, own) \in Nat
  BY <1>2, AtRestNat
<1>4. ASSUME id = o.id PROVE AtRest(id, own) = 0
  <2>1. \A i \in 1..Len(own) : own[i].id # id
    BY <1>1, <1>2, <1>4
  <2> HIDE DEF own
  <2> QED BY <1>2, <2>1, AtRestNone
<1>5. CASE d.rest = 0 /\ r = own
  BY <1>4, <1>5
<1>6. ASSUME NEW x \in Order, NEW k \in 0..Len(own),
             d.rest # 0, SameTerms(x, o), x.amount = d.rest, r = InsertAt(own, k + 1, x)
      PROVE  /\ id \in 1..Len(submitted) => AtRest(id, r) = AtRest(id, own)
             /\ id = o.id => AtRest(id, r) = d.rest
  <2> HIDE DEF own
  <2>1. AtRest(id, r) = AtRest(id, own) + (IF x.id = id THEN x.amount ELSE 0)
    BY <1>2, <1>6, AtRestInserted
  <2>2. x.id = o.id /\ x.amount \in Nat
    BY <1>6 DEF SameTerms, Order
  <2>3. ASSUME id \in 1..Len(submitted) PROVE AtRest(id, r) = AtRest(id, own)
    <3>1. x.id # id
      BY <1>1, <2>2, <2>3
    <3>2. AtRest(id, r) = AtRest(id, own) + 0
      BY <2>1, <3>1
    <3> QED BY ONLY <1>3, <3>2
  <2>4. ASSUME id = o.id PROVE AtRest(id, r) = d.rest
    <3>1. AtRest(id, r) = 0 + x.amount
      BY <1>4, <2>1, <2>2, <2>4
    <3> QED BY <1>6, <2>2, <3>1
  <2> QED BY <2>3, <2>4
<1>7. \/ d.rest = 0 /\ r = own
      \/ d.rest # 0 /\ \E x \in Order, k \in 0..Len(own) :
            SameTerms(x, o) /\ x.amount = d.rest /\ r = InsertAt(own, k + 1, x)
  BY DEF Added
<1>8. /\ id \in 1..Len(submitted) => AtRest(id, r) = AtRest(id, own)
      /\ id = o.id => AtRest(id, r) = d.rest
  BY ONLY <1>5, <1>6, <1>7, <1>4
<1> QED BY <1>8

LEMMA AddedConserves ==
  ASSUME MatchInv, NEW o, NEW d, NEW r, Added(o, d, r)
  PROVE  OrdersConserved'
<1> DEFINE other == books[o.contract][Opposite(o.side)]
           own == books[o.contract][o.side]
           opp == Opposite(o.side)
<1>1. /\ o \in Order /\ o.contract \in Contracts /\ o.side \in Sides /\ opp \in Sides /\ opp # o.side
      /\ submitted \in Seq(Order) /\ Len(submitted) \in Nat /\ o.id = Len(submitted) + 1
      /\ submitted' = Append(submitted, o) /\ trades' = trades \o d.trades /\ settled' = settled
  BY OppositeSide, LenProperties DEF Added, Entering, Logged
<1>2. /\ Len(submitted') = Len(submitted) + 1 /\ submitted'[Len(submitted) + 1] = o
      /\ \A id \in 1..Len(submitted) : submitted'[id] = submitted[id]
  BY <1>1, LogAppend
<1>3. trades \in Seq(Trade) /\ d.trades \in Seq(Trade) /\ settled \in Seq(Trade)
  BY DEF MatchInv, MatchTypeOK, Added, WalkInv
<1>4. ASSUME NEW id PROVE TradedAmount(id, trades \o d.trades)
                            = TradedAmount(id, trades) + TradedAmount(id, d.trades)
  BY ONLY <1>3, TradedJoined
<1>5. ASSUME NEW id PROVE /\ TradedAmount(id, trades) \in Nat
                          /\ TradedAmount(id, d.trades) \in Nat
                          /\ TradedAmount(id, settled) \in Nat
  BY ONLY <1>3, TradedNat
<1>6. ASSUME NEW id \in 1..Len(submitted)
      PROVE  submitted'[id].amount =
               RestingAmount(id)' + TradedAmount(id, trades') + TradedAmount(id, settled')
  <2> DEFINE c == submitted[id].contract
             s == submitted[id].side
  <2>1. c \in Contracts /\ s \in Sides
    <3>1. submitted[id] \in Order
      BY <1>1, LenProperties
    <3> QED BY <3>1 DEF Order
  <2>2. /\ RestingAmount(id)' = AtRest(id, books'[c][s])
        /\ RestingAmount(id) = AtRest(id, books[c][s])
    BY <1>2 DEF RestingAmount
  <2>3. submitted[id].amount =
          AtRest(id, books[c][s]) + TradedAmount(id, trades) + TradedAmount(id, settled)
    BY <2>2 DEF MatchInv, OrdersConserved
  <2>4. AtRest(id, books[c][s]) = AtRest(id, books'[c][s]) + TradedAmount(id, d.trades)
    <3>1. CASE c = o.contract /\ s = opp
      <4>1. books'[c][s] = d.book
        BY <1>1, <3>1 DEF Added
      <4>2. AtRest(id, other) = AtRest(id, d.book) + TradedAmount(id, d.trades)
        BY DEF Added, WalkInv, Kept
      <4> QED BY <3>1, <4>1, <4>2
    <3>2. CASE ~(c = o.contract /\ s = opp)
      <4>1. TradedAmount(id, d.trades) = 0
        <5>1. ASSUME NEW k \in 1..Len(d.trades) PROVE d.trades[k].maker # id /\ d.trades[k].taker # id
          <6>1. Due(d.trades[k], o, d.book, submitted)
            BY DEF Added, WalkInv
          <6>2. d.trades[k].taker # id
            BY <1>1, <6>1 DEF Due
          <6> QED BY <3>2, <6>1, <6>2 DEF Due
        <5> QED BY ONLY <1>3, <5>1, TradedNone
      <4>2. AtRest(id, books'[c][s]) = AtRest(id, books[c][s])
        <5>1. CASE c # o.contract
          BY <2>1, <5>1 DEF Added
        <5>2. CASE c = o.contract /\ s = o.side
          <6>1. books'[c][s] = r
            BY <2>1, <5>2 DEF Added
          <6> QED BY <5>2, <6>1, AddedOwnSide
        <5>3. s = o.side \/ s = opp
          BY <1>1, <2>1, OppositeSide
        <5> QED BY <3>2, <5>1, <5>2, <5>3
      <4>3. AtRest(id, books[c][s]) \in Nat
        <5>1. books[c][s] \in Seq(Order)
          BY <2>1 DEF MatchInv, Booked
        <5> QED BY ONLY <5>1, AtRestNat
      <4> QED BY ONLY <4>1, <4>2, <4>3
    <3> QED BY <3>1, <3>2
  <2>5. AtRest(id, books'[c][s]) \in Nat
    <3>1. books'[c][s] \in Seq(Order)
      BY <2>1, AddedBooked DEF Booked
    <3> QED BY ONLY <3>1, AtRestNat
  <2>6. TradedAmount(id, trades') = TradedAmount(id, trades) + TradedAmount(id, d.trades)
    BY <1>1, <1>4
  <2> HIDE DEF c, s
  <2>7. submitted[id].amount =
          AtRest(id, books'[c][s]) + TradedAmount(id, trades') + TradedAmount(id, settled)
    BY ONLY <1>5, <2>3, <2>4, <2>5, <2>6
  <2> QED BY <1>1, <1>2, <2>2, <2>7
<1>7. o.amount = RestingAmount(o.id)' + TradedAmount(o.id, trades') + TradedAmount(o.id, settled')
  <2>1. RestingAmount(o.id)' = AtRest(o.id, r)
    <3>1. submitted'[o.id] = o
      BY <1>1, <1>2
    <3>2. books'[o.contract][o.side] = r
      BY <1>1 DEF Added
    <3> QED BY <3>1, <3>2 DEF RestingAmount
  <2>2. AtRest(o.id, r) = d.rest
    BY AddedOwnSide
  <2>3. TradedAmount(o.id, trades) = 0
    <3>1. \A k \in 1..Len(trades) : trades[k].maker # o.id /\ trades[k].taker # o.id
      BY <1>1 DEF MatchInv, Known
    <3> QED BY ONLY <1>3, <3>1, TradedNone
  <2>4. TradedAmount(o.id, settled) = 0
    <3>1. \A k \in 1..Len(settled) : settled[k].maker # o.id /\ settled[k].taker # o.id
      BY <1>1 DEF MatchInv, Known
    <3> QED BY ONLY <1>3, <3>1, TradedNone
  <2>5. o.amount = d.rest + TradedAmount(o.id, d.trades) /\ d.rest \in Nat
    <3>1. o.amount \in Nat
      BY <1>1 DEF Order
    <3> QED BY <3>1 DEF Added, WalkInv, Kept
  <2>6. TradedAmount(o.id, trades') = TradedAmount(o.id, trades) + TradedAmount(o.id, d.trades)
    BY <1>1, <1>4
  <2>7. TradedAmount(o.id, d.trades) \in Nat
    BY <1>5
  <2>8. o.amount = d.rest + TradedAmount(o.id, trades') + TradedAmount(o.id, settled)
    BY ONLY <2>3, <2>4, <2>5, <2>6, <2>7
  <2> QED BY <1>1, <2>1, <2>2, <2>8
<1>8. ASSUME NEW id \in 1..Len(submitted')
      PROVE  submitted'[id].amount =
               RestingAmount(id)' + TradedAmount(id, trades') + TradedAmount(id, settled')
  <2>1. id \in 1..Len(submitted) \/ id = o.id
    BY <1>1, <1>2
  <2>2. CASE id = o.id
    <3>1. submitted'[id] = o
      BY <1>1, <1>2, <2>2
    <3> QED BY <1>7, <2>2, <3>1
  <2> QED BY <1>6, <2>1, <2>2
<1> QED BY <1>8 DEF OrdersConserved

(* PriceTimePriority of one step. *)
LEMMA AddedPriority ==
  ASSUME MatchInv, NEW o, NEW d, NEW r, Added(o, d, r),
         NEW i \in (Len(trades) + 1)..Len(trades')
  PROVE  LET t == trades'[i]
             maker == submitted'[t.maker]
         IN  \A j \in 1..Len(books'[t.contract][maker.side]) :
               ~Outranks(submitted'[books'[t.contract][maker.side][j].id], maker)
<1>1. /\ o \in Order /\ o.contract \in Contracts /\ o.side \in Sides
      /\ Opposite(o.side) \in Sides /\ Opposite(o.side) # o.side
      /\ submitted \in Seq(Order) /\ Len(submitted) \in Nat
      /\ submitted' = Append(submitted, o) /\ trades' = trades \o d.trades
  BY OppositeSide, LenProperties DEF Added, Entering, Logged
<1>2. \A id \in 1..Len(submitted) : submitted'[id] = submitted[id]
  BY <1>1, LogAppend
<1>3. trades \in Seq(Trade) /\ d.trades \in Seq(Trade)
  BY DEF MatchInv, MatchTypeOK, Added, WalkInv
<1>4. PICK k : k \in 1..Len(d.trades) /\ trades'[i] = d.trades[k]
  <2>1. /\ Len(trades') = Len(trades) + Len(d.trades)
        /\ \A n \in 1..(Len(trades) + Len(d.trades)) :
             trades'[n] = IF n <= Len(trades) THEN trades[n] ELSE d.trades[n - Len(trades)]
    BY <1>1, <1>3, ConcatProperties
  <2>2. Len(trades) \in Nat /\ Len(d.trades) \in Nat
    BY <1>3, LenProperties
  <2>3. i - Len(trades) \in 1..Len(d.trades) /\ ~(i <= Len(trades)) /\ i \in 1..(Len(trades) + Len(d.trades))
    BY <2>1, <2>2
  <2> QED BY <2>1, <2>3
<1>5. PICK t : t = trades'[i]
  OBVIOUS
<1>6. Due(t, o, d.book, submitted)
  BY <1>4, <1>5 DEF Added, WalkInv
<1>7. PICK maker : maker = submitted'[t.maker]
  OBVIOUS
<1>8. maker = submitted[t.maker] /\ maker.side = Opposite(o.side) /\ t.contract = o.contract
  BY <1>2, <1>6, <1>7 DEF Due
<1>9. books'[t.contract][maker.side] = d.book
  BY <1>1, <1>8 DEF Added
<1>10. ASSUME NEW j \in 1..Len(d.book) PROVE ~Outranks(submitted'[d.book[j].id], maker)
  <2>1. Booked(d.book, o.contract, Opposite(o.side), submitted)
    BY DEF Added, WalkInv
  <2>2. SameTerms(d.book[j], submitted'[d.book[j].id])
    BY <1>2, <2>1 DEF Booked
  <2>3. ~Outranks(d.book[j], maker)
    BY <1>6, <1>8 DEF Due
  <2> QED BY <2>2, <2>3, OutranksTerms
<1> QED BY <1>5, <1>7, <1>9, <1>10

-----------------------------------------------------------------------------
LEMMA InitMatchInv == MatchInit => MatchInv
<1> SUFFICES ASSUME MatchInit PROVE MatchInv
  OBVIOUS
<1> USE DEF MatchInit
<1>1. /\ \A S : <<>> \in Seq(S)
      /\ Len(<<>>) = 0 /\ 1..0 = {}
  OBVIOUS
<1>2. 0 <= MaxOrders
  BY MatchAssumption
<1>3. books \in [Contracts -> [Sides -> Seq(Order)]]
  BY <1>1
<1>4. MatchTypeOK
  BY <1>1, <1>2, <1>3 DEF MatchTypeOK
<1>5. \A c \in Contracts, s \in Sides : books[c][s] = <<>>
  OBVIOUS
<1>6. \A c \in Contracts, s \in Sides : Booked(books[c][s], c, s, submitted)
  BY <1>1, <1>5 DEF Booked
<1>7. Logged(submitted) /\ Known(trades, submitted) /\ Known(settled, submitted)
  BY <1>1 DEF Logged, Known
<1>8. OrdersConserved
  BY <1>1 DEF OrdersConserved
<1>9. BooksUncrossed
  BY <1>1, <1>5 DEF BooksUncrossed, Sides
<1> QED BY <1>4, <1>6, <1>7, <1>8, <1>9 DEF MatchInv

LEMMA SubmitInv ==
  ASSUME MatchInv, SubmitOrder
  PROVE  \E o, d, r : Entering(o, submitted) /\ Added(o, d, r) /\ MatchInv'
<1>1. /\ Len(submitted) < MaxOrders /\ submitted \in Seq(Order) /\ Len(submitted) \in Nat
      /\ MaxOrders \in Nat /\ OrderAmounts \subseteq Nat
  BY LenProperties, MatchAssumption DEF SubmitOrder, MatchInv, MatchTypeOK
<1>2. PICK c \in Contracts, s \in Sides, p \in LimitPrices, n \in OrderAmounts, t \in Timestamps :
        AddOrder([id |-> Len(submitted) + 1, contract |-> c, side |-> s,
                  price |-> p, amount |-> n, timestamp |-> t])
  BY DEF SubmitOrder
<1>3. PICK o : o = [id |-> Len(submitted) + 1, contract |-> c, side |-> s,
                    price |-> p, amount |-> n, timestamp |-> t]
  OBVIOUS
<1>4. Entering(o, submitted) /\ AddOrder(o)
  <2>1. Len(submitted) + 1 \in 1..MaxOrders /\ n \in Nat
    BY <1>1
  <2>2. o \in Order /\ o.id = Len(submitted) + 1
    BY <1>3, <2>1 DEF Order
  <2> QED BY <1>2, <1>3, <2>2 DEF Entering, MatchInv
<1>5. PICK d, r : Added(o, d, r)
  BY <1>1, <1>4, AddOrderAdded
<1>6. MatchTypeOK'
  <2>1. books' \in [Contracts -> [Sides -> Seq(Order)]]
    BY <1>1, <1>4, AddOrderAdded
  <2>2. o \in Order
    BY <1>4 DEF Entering
  <2>3. submitted' \in Seq(Order) /\ Len(submitted') = Len(submitted) + 1
    BY <1>1, <1>4, <2>2, LogAppend DEF AddOrder
  <2>4. worker' = worker /\ settled' = settled
    BY <1>4 DEF AddOrder
  <2>5. trades' \in Seq(Trade)
    BY <1>5, AddedKnown
  <2>6. Len(submitted') <= MaxOrders
    BY <1>1, <2>3
  <2> QED BY <2>1, <2>3, <2>4, <2>5, <2>6 DEF MatchInv, MatchTypeOK
<1>7. MatchInv'
  BY <1>5, <1>6, AddedBooked, AddedKnown, AddedConserves, AddedUncrossed DEF MatchInv
<1> QED BY <1>4, <1>5, <1>7

LEMMA KeepInv ==
  ASSUME MatchInv, UNCHANGED <<books, trades, submitted, settled>>,
         worker' \in BOOLEAN
  PROVE  MatchInv'
<1>1. MatchTypeOK'
  BY DEF MatchInv, MatchTypeOK
<1>2. OrdersConserved'
  BY DEF MatchInv, OrdersConserved, RestingAmount
<1>3. BooksUncrossed'
  BY DEF MatchInv, BooksUncrossed
<1> QED BY <1>1, <1>2, <1>3 DEF MatchInv

LEMMA SettleInv ==
  ASSUME MatchInv, SettleBatch
  PROVE  MatchInv'
<1>1. /\ trades \in Seq(Trade) /\ settled \in Seq(Trade)
      /\ trades' = <<>> /\ settled' = settled \o trades
      /\ UNCHANGED <<books, worker, submitted>>
  BY DEF MatchInv, MatchTypeOK, SettleBatch
<1>2. /\ settled' \in Seq(Trade) /\ Len(settled') = Len(settled) + Len(trades)
      /\ Len(settled) \in Nat /\ Len(trades) \in Nat
      /\ \A k \in 1..(Len(settled) + Len(trades)) :
           settled'[k] = IF k <= Len(settled) THEN settled[k] ELSE trades[k - Len(settled)]
  BY <1>1, ConcatProperties, LenProperties
<1>3. trades' \in Seq(Trade) /\ Len(trades') = 0
  BY <1>1
<1>4. MatchTypeOK'
  BY <1>1, <1>2, <1>3 DEF MatchInv, MatchTypeOK
<1>5. Known(trades', submitted')
  BY <1>3 DEF Known
<1>6. ASSUME NEW k \in 1..Len(settled')
      PROVE  settled'[k].maker \in 1..Len(submitted') /\ settled'[k].taker \in 1..Len(submitted')
  <2>1. CASE k <= Len(settled)
    <3>1. k \in 1..Len(settled) /\ settled'[k] = settled[k]
      BY <1>2, <2>1
    <3> QED BY <1>1, <3>1 DEF MatchInv, Known
  <2>2. CASE ~(k <= Len(settled))
    <3>1. k - Len(settled) \in 1..Len(trades) /\ settled'[k] = trades[k - Len(settled)]
      BY <1>2, <2>2
    <3> QED BY <1>1, <3>1 DEF MatchInv, Known
  <2> QED BY <2>1, <2>2
<1>7. ASSUME NEW id \in 1..Len(submitted')
      PROVE  submitted'[id].amount =
               RestingAmount(id)' + TradedAmount(id, trades') + TradedAmount(id, settled')
  <2>1. submitted'[id] = submitted[id] /\ RestingAmount(id)' = RestingAmount(id)
    BY <1>1 DEF RestingAmount
  <2>2. submitted[id].amount =
          RestingAmount(id) + TradedAmount(id, trades) + TradedAmount(id, settled)
    BY <1>1 DEF MatchInv, OrdersConserved
  <2>3. TradedAmount(id, settled') = TradedAmount(id, settled) + TradedAmount(id, trades)
    <3>1. TradedAmount(id, settled \o trades) = TradedAmount(id, settled) + TradedAmount(id, trades)
      BY ONLY <1>1, TradedJoined
    <3> QED BY <1>1, <3>1
  <2>4. TradedAmount(id, trades') = 0
    <3>1. \A k \in 1..Len(trades') : trades'[k].maker # id /\ trades'[k].taker # id
      BY <1>3
    <3> QED BY ONLY <1>3, <3>1, TradedNone
  <2>5. TradedAmount(id, settled) \in Nat /\ TradedAmount(id, trades) \in Nat
    BY ONLY <1>1, TradedNat
  <2>6. RestingAmount(id) \in Nat
    <3>1. submitted[id] \in Order
      BY <1>1, LenProperties DEF MatchInv, MatchTypeOK
    <3>2. submitted[id].contract \in Contracts /\ submitted[id].side \in Sides
      BY <3>1 DEF Order
    <3>3. books[submitted[id].contract][submitted[id].side] \in Seq(Order)
      BY <3>2 DEF MatchInv, Booked
    <3>4. AtRest(id, books[submitted[id].contract][submitted[id].side]) \in Nat
      BY ONLY <3>3, AtRestNat
    <3> QED BY <3>4 DEF RestingAmount
  <2> QED BY <2>1, <2>2, <2>3, <2>4, <2>5, <2>6
<1>8. BooksUncrossed'
  BY <1>1 DEF MatchInv, BooksUncrossed
<1>9. OrdersConserved'
  BY <1>7 DEF OrdersConserved
<1>10. Known(settled', submitted')
  BY <1>6 DEF Known
<1> QED BY <1>1, <1>4, <1>5, <1>8, <1>9, <1>10 DEF MatchInv

LEMMA NextMatchInv == MatchInv /\ [MatchNext]_matchVars => MatchInv'
<1> SUFFICES ASSUME MatchInv, [MatchNext]_matchVars PROVE MatchInv'
  OBVIOUS
<1>1. CASE SubmitOrder
  BY <1>1, SubmitInv
<1>2. CASE StartWorker \/ StopWorker
  BY <1>2, KeepInv DEF StartWorker, StopWorker, MatchInv, MatchTypeOK
<1>3. CASE SettleBatch
  BY <1>3, SettleInv
<1>4. CASE UNCHANGED matchVars
  BY <1>4, KeepInv DEF matchVars, MatchInv, MatchTypeOK
<1> QED BY <1>1, <1>2, <1>3, <1>4 DEF MatchNext

(* The engine keeps its orders: every book is ranked and made of orders as *)
(* they were submitted, with MatchTypeOK, OrdersConserved, BooksUncrossed. *)
THEOREM MatchInvariant == MatchSpec => []MatchInv
<1> QED BY InitMatchInv, NextMatchInv, PTL DEF MatchSpec

THEOREM MatchWellTyped == MatchSpec => []MatchTypeOK
<1>1. MatchInv => MatchTypeOK
  BY DEF MatchInv
<1> QED BY <1>1, MatchInvariant, PTL

(* Every share of every order is at rest or in exactly one trade, whatever *)
(* the orders and partial fills, and whenever the worker takes the trades  *)
(* (addOrder and settle).                                                  *)
THEOREM OrdersStayConserved == MatchSpec => []OrdersConserved
<1>1. MatchInv => OrdersConserved
  BY DEF MatchInv
<1> QED BY <1>1, MatchInvariant, PTL

(* addOrder never leaves a bid that reaches an ask. *)
THEOREM BooksStayUncrossed == MatchSpec => []BooksUncrossed
<1>1. MatchInv => BooksUncrossed
  BY DEF MatchInv
<1> QED BY <1>1, MatchInvariant, PTL

(* No trade of addOrder passes over an order with priority over the maker. *)
THEOREM PriorityHolds == MatchSpec => PriceTimePriority
<1> DEFINE Respected ==
      \A i \in (Len(trades) + 1)..Len(trades') :
       LET t == trades'[i]
           maker == submitted'[t.maker]
       IN  \A j \in 1..Len(books'[t.contract][maker.side]) :
             ~Outranks(submitted'[books'[t.contract][maker.side][j].id], maker)
<1>1. MatchInv /\ [MatchNext]_matchVars => [Respected]_matchVars
  <2> SUFFICES ASSUME MatchInv, MatchNext PROVE Respected
    OBVIOUS
  <2>1. CASE SubmitOrder
    <3>1. PICK o, d, r : Added(o, d, r)
      BY <2>1, SubmitInv
    <3> QED BY <3>1, AddedPriority
  <2>2. ASSUME trades' = trades \/ trades' = <<>> PROVE Respected
    <3>1. (Len(trades) + 1)..Len(trades') = {}
      <4>1. Len(trades) \in Nat
        BY LenProperties DEF MatchInv, MatchTypeOK
      <4> QED BY <2>2, <4>1
    <3> QED BY <3>1
  <2>3. CASE StartWorker \/ StopWorker
    BY <2>2, <2>3 DEF StartWorker, StopWorker
  <2>4. CASE SettleBatch
    BY <2>2, <2>4 DEF SettleBatch
  <2> QED BY <2>1, <2>3, <2>4 DEF MatchNext
<1>2. MatchSpec => [][Respected]_matchVars
  BY <1>1, MatchInvariant, PTL DEF MatchSpec
<1> QED BY <1>2 DEF PriceTimePriority

-----------------------------------------------------------------------------
(* The run of both engines is a run of each. *)
THEOREM EnginesRunBoth == EnginesSpec => MatchSpec /\ IndexSpec
<1>1. EnginesInit => MatchInit /\ IndexInit
  BY DEF EnginesInit
<1>2. [EnginesNext]_enginesVars => [MatchNext]_matchVars /\ [IndexNext]_indexVars
  BY DEF EnginesNext, enginesVars
<1> QED BY <1>1, <1>2, PTL DEF EnginesSpec, MatchSpec, IndexSpec

(* Both engines keep the types of their state. *)
THEOREM EnginesWellTyped == EnginesSpec => []EnginesTypeOK
<1>1. MatchTypeOK /\ IndexTypeOK => EnginesTypeOK
  BY DEF EnginesTypeOK
<1> QED BY <1>1, EnginesRunBoth, MatchWellTyped, IndexWellTyped, PTL
=============================================================================
