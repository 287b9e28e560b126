--------------------------- MODULE LedgerIndexing ---------------------------
(***************************************************************************)
(* The ledger indexer (src/backend/src/services/indexingEngine.js): blocks *)
(* of the chain are decoded by a pool of worker threads, appended to a     *)
(* history, and rolled back when a block does not follow the head.         *)
(*                                                                         *)
(* A call of processLedgerBlock is cut in two or three by its awaits.  A   *)
(* worker's answer is handled together with the continuation it wakes, as  *)
(* the event loop does.                                                    *)
(***************************************************************************)
EXTENDS Integers, SequencesExt, ShareUnits

CONSTANTS
  Ledgers,          \* blocks: hash, hash of the parent, sequence, and
                    \* whether the block carries XDR to decode
  NumWorkers,       \* size of the pool: the number of cores
  MaxCalls,         \* bound on the calls of processLedgerBlock
  MaxExits          \* bound on the workers that die

Ledger == [hash : Nat, prev : Nat, seq : Nat \ {0}, xdr : BOOLEAN]

(* On the chain a ledger comes after the one it names as its parent. *)
ASSUME IndexAssumption ==
  /\ NumWorkers \in Nat \ {0}
  /\ MaxCalls \in Nat /\ MaxExits \in Nat
  /\ Ledgers \subseteq Ledger
  /\ \A a, b \in Ledgers : b.prev = a.hash => a.seq < b.seq

VARIABLES
  chainHead,        \* this.chainHead
  ledgerHistory,    \* this.ledgerHistory
  indexedEvents,    \* this.indexedEvents
  reorgInProgress,  \* the module's flag, read by reorgGuardMiddleware
  taskQueue,        \* this.taskQueue: calls whose block waits for a worker
  pendingTasks,     \* this.pendingTasks: calls whose block was posted
  activeWorkers,    \* this.activeWorkers
  nextWorker,       \* this.nextWorkerId
  inbox,            \* messages posted to each worker thread, not yet answered
  dead,             \* worker threads that exited
  calls,            \* calls of processLedgerBlock: the block, where it stands
  overlapped,       \* history: two calls were ever under way together
  undecoded         \* history: positions in ledgerHistory of the blocks put
                    \* in by a re-organisation whose decoding then failed

chainVars == <<chainHead, ledgerHistory, indexedEvents, reorgInProgress, undecoded>>
poolVars == <<taskQueue, pendingTasks, activeWorkers, nextWorker, inbox>>
indexVars == <<chainVars, poolVars, dead, calls, overlapped>>

NoBlock == [hash |-> 0, prev |-> 0, seq |-> 0, xdr |-> FALSE]
Workers == 0 .. NumWorkers - 1
Phases == {"decoding", "resyncing", "indexed", "failed"}
CallIds == 1..MaxCalls
Event == [hash : {b.hash : b \in Ledgers}, seq : Nat, decoded : BOOLEAN]

IndexInit ==
  /\ chainHead = NoBlock
  /\ ledgerHistory = <<>>
  /\ indexedEvents = <<>>
  /\ reorgInProgress = FALSE
  /\ taskQueue = <<>>
  /\ pendingTasks = {}
  /\ activeWorkers = 0
  /\ nextWorker = 0
  /\ inbox = [w \in Workers |-> <<>>]
  /\ dead = {}
  /\ calls = <<>>
  /\ overlapped = FALSE
  /\ undecoded = {}

-----------------------------------------------------------------------------
(* One event listed with the block, one more when its XDR was decoded. *)
EventsOf(b) ==
  <<[hash |-> b.hash, seq |-> b.seq, decoded |-> FALSE]>>
    \o IF b.xdr THEN <<[hash |-> b.hash, seq |-> b.seq, decoded |-> TRUE]>> ELSE <<>>

(* Mutant of PostNext: a task is posted even when every worker is busy. *)
PostNextAnyway(pool) ==
  IF pool.queue = <<>> THEN pool
  ELSE [queue |-> Tail(pool.queue),
        pending |-> pool.pending \cup {Head(pool.queue)},
        active |-> pool.active + 1,
        next |-> (pool.next + 1) % NumWorkers,
        inbox |-> [pool.inbox EXCEPT ![pool.next] = Append(@, Head(pool.queue))]]

(* processTaskQueue: at most one task leaves the queue, round-robin. *)
PostNext(pool) ==
  IF pool.queue = <<>> \/ pool.active >= NumWorkers THEN pool
  ELSE [queue |-> Tail(pool.queue),
        pending |-> pool.pending \cup {Head(pool.queue)},
        active |-> pool.active + 1,
        next |-> (pool.next + 1) % NumWorkers,
        inbox |-> [pool.inbox EXCEPT ![pool.next] = Append(@, Head(pool.queue))]]

Pool == [queue |-> taskQueue, pending |-> pendingTasks, active |-> activeWorkers,
         next |-> nextWorker, inbox |-> inbox]

SetPool(pool) ==
  /\ taskQueue' = pool.queue
  /\ pendingTasks' = pool.pending
  /\ activeWorkers' = pool.active
  /\ nextWorker' = pool.next
  /\ inbox' = pool.inbox

(* parseBlockAsync *)
Enqueue(pool, c) == PostNext([pool EXCEPT !.queue = Append(@, c)])

(* Mutant of Answered: the answer does not start the next task. *)
AnsweredOnly(pool, w, c) ==
  [pool EXCEPT !.pending = @ \ {c}, !.active = @ - 1, !.inbox[w] = Tail(@)]

(* handleWorkerMessage *)
Answered(pool, w, c) ==
  PostNext([pool EXCEPT !.pending = @ \ {c}, !.active = @ - 1, !.inbox[w] = Tail(@)])

SetPhase(c, b, phase) ==
  calls' = IF c > Len(calls) THEN Append(calls, [block |-> b, phase |-> phase])
           ELSE [calls EXCEPT ![c].phase = phase]

-----------------------------------------------------------------------------
(* Mutant of CommonAncestor: without a parent in the history nothing of    *)
(* the block's own height is rolled back.                                  *)
CommonAncestorAtBlock(b) ==
  LET parents == {i \in DOMAIN ledgerHistory : ledgerHistory[i].hash = b.prev}
  IN  IF parents # {} THEN ledgerHistory[CHOOSE i \in parents : \A j \in parents : j <= i].seq
      ELSE b.seq

(* The sequence to roll back to: the ledger the block names as its parent, *)
(* or, if that is not in the history, the one just before the block.       *)
CommonAncestor(b) ==
  LET parents == {i \in DOMAIN ledgerHistory : ledgerHistory[i].hash = b.prev}
  IN  IF parents # {} THEN ledgerHistory[CHOOSE i \in parents : \A j \in parents : j <= i].seq
      ELSE IF b.seq > 1 THEN b.seq - 1 ELSE 1

(* Mutant of KeptEvents: the purge of events is forgotten. *)
KeptEventsAll(last) == indexedEvents

KeptEvents(last) ==
  Picked(indexedEvents, {i \in DOMAIN indexedEvents : indexedEvents[i].seq <= last})

KeptLedgers(last) ==
  Picked(ledgerHistory, {i \in DOMAIN ledgerHistory : ledgerHistory[i].seq <= last})

(* The block follows the head, or is the first. *)
Extend(c, b) ==
  /\ chainHead = NoBlock \/ chainHead.hash = b.prev
  /\ chainHead' = b
  /\ ledgerHistory' = Append(ledgerHistory, b)
  /\ indexedEvents' = indexedEvents \o EventsOf(b)
  /\ SetPhase(c, b, "indexed")
  /\ UNCHANGED <<reorgInProgress, undecoded>>

(* handleLedgerReorg up to its await: the rollback, and the block as the   *)
(* new head before its events are known.                                   *)
Reorganise(c, b) ==
  /\ chainHead # NoBlock /\ chainHead.hash # b.prev
  /\ LET last == CommonAncestor(b)
     IN  /\ ledgerHistory' = Append(KeptLedgers(last), b)
         /\ indexedEvents' = KeptEvents(last) \o IF b.xdr THEN <<>> ELSE EventsOf(b)
         /\ undecoded' = undecoded \cap DOMAIN KeptLedgers(last)
  /\ chainHead' = b
  /\ reorgInProgress' = b.xdr     \* without XDR the flag falls again at once
  /\ SetPhase(c, b, IF b.xdr THEN "resyncing" ELSE "indexed")

(* processLedgerBlock after the decoding, and the pool as that leaves it:  *)
(* a re-organisation sends the block to the pool a second time.            *)
Continue(c, b, pool) ==
  \/ Extend(c, b) /\ SetPool(pool)
  \/ /\ Reorganise(c, b)
     /\ SetPool(IF b.xdr THEN Enqueue(pool, c) ELSE pool)

UnderWay == {c \in DOMAIN calls : calls[c].phase \in {"decoding", "resyncing"}}

(* processLedgerBlock is called, by a caller that may or may not wait for  *)
(* the answer to the last block.                                           *)
ProcessBlock(b) ==
  /\ Len(calls) < MaxCalls
  /\ overlapped' = (overlapped \/ UnderWay # {})
  /\ LET c == Len(calls) + 1
     IN  IF b.xdr
         THEN /\ SetPhase(c, b, "decoding")
              /\ SetPool(Enqueue(Pool, c))
              /\ UNCHANGED chainVars
         ELSE Continue(c, b, Pool)
  /\ UNCHANGED dead

(* A worker answers; the call that waits for it goes on. *)
WorkerSucceeds(w) ==
  /\ w \notin dead /\ inbox[w] # <<>>
  /\ LET c == Head(inbox[w])
         b == calls[c].block
     IN  \/ /\ calls[c].phase = "decoding"
            /\ Continue(c, b, Answered(Pool, w, c))
         \/ /\ calls[c].phase = "resyncing"
            /\ indexedEvents' = indexedEvents \o EventsOf(b)
            /\ reorgInProgress' = FALSE
            /\ SetPhase(c, b, "indexed")
            /\ SetPool(Answered(Pool, w, c))
            /\ UNCHANGED <<chainHead, ledgerHistory, undecoded>>
  /\ UNCHANGED <<dead, overlapped>>

(* The decoder threw: the promise is rejected, and the finally clause      *)
(* lowers the flag if the block was being resynced.                        *)
WorkerFails(w) ==
  /\ w \notin dead /\ inbox[w] # <<>>
  /\ LET c == Head(inbox[w])
         resyncing == calls[c].phase = "resyncing"
     IN  /\ SetPhase(c, calls[c].block, "failed")
         /\ reorgInProgress' = (reorgInProgress /\ ~resyncing)
         /\ undecoded' = IF resyncing THEN undecoded \cup {Len(ledgerHistory)} ELSE undecoded
         /\ SetPool(Answered(Pool, w, c))
  /\ UNCHANGED <<chainHead, ledgerHistory, indexedEvents, dead, overlapped>>

(* A worker thread dies; the pool only logs it and goes on posting to it.  *)
WorkerExits(w) ==
  /\ w \notin dead /\ Cardinality(dead) < MaxExits
  /\ dead' = dead \cup {w}
  /\ UNCHANGED <<chainVars, poolVars, calls, overlapped>>

IndexNext ==
  \/ \E b \in Ledgers : ProcessBlock(b)
  \/ \E w \in Workers : WorkerSucceeds(w) \/ WorkerFails(w) \/ WorkerExits(w)

WorkerAnswers(w) == WorkerSucceeds(w) \/ WorkerFails(w)

IndexSpec == IndexInit /\ [][IndexNext]_indexVars

(* A live worker thread answers the messages posted to it. *)
IndexFairness == \A w \in Workers : WF_indexVars(WorkerAnswers(w))

-----------------------------------------------------------------------------
IndexTypeOK ==
  /\ chainHead \in Ledgers \cup {NoBlock}
  /\ ledgerHistory \in Seq(Ledgers)
  /\ indexedEvents \in Seq(Event)
  /\ reorgInProgress \in BOOLEAN
  /\ taskQueue \in Seq(CallIds) /\ pendingTasks \subseteq CallIds
  /\ activeWorkers \in 0..NumWorkers /\ nextWorker \in Workers
  /\ inbox \in [Workers -> Seq(CallIds)]
  /\ dead \subseteq Workers
  /\ calls \in Seq([block : Ledgers, phase : Phases])
  /\ overlapped \in BOOLEAN /\ undecoded \subseteq Nat

(* The pool's counter agrees with the tasks it has posted, and a task is   *)
(* queued only while every worker slot is taken: processTaskQueue starts   *)
(* one task per event, so an event that forgot it would strand the queue.  *)
PoolFull ==
  /\ activeWorkers = Cardinality(pendingTasks)
  /\ taskQueue # <<>> => activeWorkers = NumWorkers

(* The head is always the last ledger of the history, and ledgers are      *)
(* there in ascending order, through rollbacks, gaps and blocks decoded    *)
(* out of order.  Ledger 1 is the exception: max(1, ...) cannot roll it    *)
(* back.                                                                   *)
HeadIsTip ==
  /\ chainHead = IF ledgerHistory = <<>> THEN NoBlock ELSE Last(ledgerHistory)
  /\ \A i, j \in DOMAIN ledgerHistory :
       i < j => ledgerHistory[i].seq < ledgerHistory[j].seq \/ ledgerHistory[j].seq = 1

(* A caller that waits for each block and is let through by the re-org     *)
(* guard sees exactly the events of the ledgers in the history, each once  *)
(* and in order: no event of an orphaned ledger is left and none is        *)
(* missing, except those of a block whose decoding failed.                 *)
ServedEventsExact ==
  ~overlapped /\ ~reorgInProgress =>
    indexedEvents = FlattenSeq([i \in DOMAIN ledgerHistory |->
      IF i \in undecoded THEN <<>> ELSE EventsOf(ledgerHistory[i])])

(* Every call is answered, however many are under way, unless a worker     *)
(* thread has died.                                                        *)
BlocksAnswered ==
  \A c \in CallIds : (c \in UnderWay) ~> (c \notin UnderWay \/ dead # {})
=============================================================================
