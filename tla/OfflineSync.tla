----------------------------- MODULE OfflineSync ----------------------------
(***************************************************************************)
(* Actions queued while offline: the queue of services/offlineQueue.js in  *)
(* IndexedDB, flushed by hooks/useOfflineSync.js, with the service         *)
(* worker's background sync underneath (src/frontend/src).                 *)
(* The queued actions are POSTs to /api/, which the service worker routes  *)
(* through its NetworkFirst strategy with background sync.                 *)
(*                                                                         *)
(* The 'online' handler keeps the processQueue of the first render, whose  *)
(* `syncing` is false for ever, so its flushes overlap with each other and *)
(* with the ones the page starts.  A page may be reloaded at any point.    *)
(***************************************************************************)
EXTENDS Integers, Sequences, ShareUnits

CONSTANTS
  Actions,        \* ids of the actions the page may queue
  Flushes,        \* flushes that may run at once
  MaxRetries,     \* maxRetries of an action
  MaxFaults       \* bound on network, storage and page failures, and flips

(* IndexedDB numbers its entries from 1. *)
ASSUME OfflineAssumption ==
  /\ Actions \subseteq Nat \ {0}
  /\ MaxRetries \in Nat \ {0} /\ MaxFaults \in Nat

VARIABLES
  online,         \* navigator.onLine
  status, retries,    \* the stored entries; "absent" before and after
  queued,         \* history: the actions ever queued
  syncing,        \* the React state
  hung,           \* history: `syncing` was left set by a flush that hung
  stage, todo,    \* what each flush is about to do, and its snapshot
  replays,        \* requests the service worker keeps for a later replay
  executed,       \* history: how often the server carried out each action
  faults

offlineVars == <<online, status, retries, queued, syncing, hung, stage, todo, replays,
              executed, faults>>

Stages == {"idle", "listing", "asking", "succeeded", "refused", "clearing", "ending"}

OfflineInit ==
  /\ online = TRUE
  /\ status = [a \in Actions |-> "absent"] /\ retries = [a \in Actions |-> 0]
  /\ queued = {}
  /\ syncing = FALSE /\ hung = FALSE
  /\ stage = [f \in Flushes |-> "idle"] /\ todo = [f \in Flushes |-> <<>>]
  /\ replays = {}
  /\ executed = [a \in Actions |-> 0]
  /\ faults = 0

Fault == faults < MaxFaults /\ faults' = faults + 1

-----------------------------------------------------------------------------
(* queueAction, which the page may call at any time and cacheAndQueue only  *)
(* calls offline: the action is queued once it is stored.                  *)
QueueAction(a) ==
  /\ a \notin queued
  /\ queued' = queued \cup {a}
  /\ status' = [status EXCEPT ![a] = "pending"]
  /\ UNCHANGED <<online, retries, syncing, hung, stage, todo, replays, executed, faults>>

(* processQueue past its guard. *)
StartFlush(f) ==
  /\ stage[f] = "idle"
  /\ stage' = [stage EXCEPT ![f] = "listing"]
  /\ syncing' = TRUE

(* The 'online' event: its processQueue sees no other flush. *)
HandleOnline(f) ==
  /\ ~online /\ online' = TRUE
  /\ StartFlush(f)
  /\ UNCHANGED <<status, retries, queued, hung, todo, replays, executed, faults>>

HandleOffline ==
  /\ online /\ online' = FALSE /\ Fault
  /\ UNCHANGED <<status, retries, queued, syncing, hung, stage, todo, replays, executed>>

(* processQueue called by the page, with the current `syncing`. *)
ProcessQueue(f) ==
  /\ ~syncing /\ Fault
  /\ StartFlush(f)
  /\ UNCHANGED <<online, status, retries, queued, hung, todo, replays, executed>>

(* The order of an index of the store. *)
InKeyOrder(ids) == Picked([a \in ids |-> a], ids)

(* getPendingActions *)
ListPending(f) ==
  /\ stage[f] = "listing"
  /\ LET pending == {a \in Actions : status[a] = "pending"}
     IN  /\ todo' = [todo EXCEPT ![f] = InKeyOrder(pending)]
         /\ stage' = [stage EXCEPT ![f] = IF pending = {} THEN "clearing" ELSE "asking"]
  /\ UNCHANGED <<online, status, retries, queued, syncing, hung, replays, executed, faults>>

-----------------------------------------------------------------------------
(* Mutant of Verdict: response.ok is not looked at. *)
VerdictAnyAnswer(answer) == IF answer = "lost" THEN "refused" ELSE "succeeded"

(* The executor throws unless the response is ok. *)
Verdict(answer) == IF answer = "ok" THEN "succeeded" ELSE "refused"

(* fetch: the server answers, and an answer that is not ok may follow an    *)
(* action that was carried out; or the network fails, before or after the  *)
(* server acted, and then the service worker keeps the request as well.    *)
Ask(f) ==
  /\ stage[f] = "asking"
  /\ LET a == Head(todo[f])
     IN  \E answer \in {"ok", "refused", "lost"}, acted \in BOOLEAN :
           /\ answer # "lost" \/ acted => online
           /\ answer = "ok" => acted
           /\ IF answer = "ok" \/ ~online THEN UNCHANGED faults ELSE Fault
           /\ executed' = IF acted THEN [executed EXCEPT ![a] = @ + 1] ELSE executed
           /\ replays' = IF answer = "lost" THEN replays \cup {a} ELSE replays
           /\ stage' = [stage EXCEPT ![f] = Verdict(answer)]
  /\ UNCHANGED <<online, status, retries, queued, syncing, hung, todo>>

Advance(f) ==
  /\ todo' = [todo EXCEPT ![f] = Tail(@)]
  /\ stage' = [stage EXCEPT ![f] = IF Len(todo[f]) = 1 THEN "clearing" ELSE "asking"]

(* markActionCompleted; if the database or the entry cannot be read, the    *)
(* same catch as a refusal marks the action failed next.                   *)
MarkCompleted(f) ==
  /\ stage[f] = "succeeded"
  /\ LET a == Head(todo[f])
     IN  \/ /\ status' = [status EXCEPT ![a] = IF @ = "absent" THEN @ ELSE "completed"]
            /\ Advance(f) /\ UNCHANGED faults
         \/ /\ Fault
            /\ stage' = [stage EXCEPT ![f] = "refused"]
            /\ UNCHANGED <<status, todo>>
  /\ UNCHANGED <<online, retries, queued, syncing, hung, replays, executed>>

(* markActionFailed: one more retry, whatever the status has become.       *)
MarkFailed(f) ==
  /\ stage[f] = "refused"
  /\ LET a == Head(todo[f])
         n == retries[a] + 1
     IN  IF status[a] = "absent" THEN UNCHANGED <<status, retries>>
         ELSE /\ retries' = [retries EXCEPT ![a] = n]
              /\ status' = [status EXCEPT ![a] = IF n >= MaxRetries THEN "failed" ELSE @]
  /\ Advance(f)
  /\ UNCHANGED <<online, queued, syncing, hung, replays, executed, faults>>

(* clearCompletedActions *)
ClearCompleted(f) ==
  /\ stage[f] = "clearing"
  /\ status' = [a \in Actions |-> IF status[a] = "completed" THEN "absent" ELSE status[a]]
  /\ stage' = [stage EXCEPT ![f] = "ending"]
  /\ UNCHANGED <<online, retries, queued, syncing, hung, todo, replays, executed, faults>>

(* The database cannot be opened, or the first request of the transaction   *)
(* fails: the promise rejects and the flush goes to its finally block.     *)
StorageFails(f) ==
  /\ stage[f] \in {"listing", "refused", "clearing"} /\ Fault
  /\ stage' = [stage EXCEPT ![f] = "ending"]
  /\ todo' = [todo EXCEPT ![f] = <<>>]
  /\ UNCHANGED <<online, status, retries, queued, syncing, hung, replays, executed>>

(* A later request or the commit of a writing transaction fails.  It is    *)
(* rolled back, and its promise, which waits for oncomplete and hears of   *)
(* no abort, never settles: nothing of the flush runs any more, not even   *)
(* its finally block.                                                      *)
TransactionAborts(f) ==
  /\ stage[f] \in {"succeeded", "refused", "clearing"} /\ Fault
  /\ stage' = [stage EXCEPT ![f] = "idle"]
  /\ todo' = [todo EXCEPT ![f] = <<>>]
  /\ hung' = syncing
  /\ UNCHANGED <<online, status, retries, queued, syncing, replays, executed>>

(* Mutant of Finally: setSyncing(false) only after a flush with work. *)
FinallyIfWorked(f) == syncing' = (syncing /\ queued = {})

(* The finally block, in whichever flush ends first. *)
Finally(f) == syncing' = FALSE

EndFlush(f) ==
  /\ stage[f] = "ending"
  /\ Finally(f) /\ hung' = FALSE
  /\ stage' = [stage EXCEPT ![f] = "idle"]
  /\ UNCHANGED <<online, status, retries, queued, todo, replays, executed, faults>>

(* The page is reloaded: its flushes are gone, the stored queue is not,    *)
(* and nothing flushes it before the next 'online' event.                  *)
Reload ==
  /\ Fault
  /\ stage' = [f \in Flushes |-> "idle"] /\ todo' = [f \in Flushes |-> <<>>]
  /\ syncing' = FALSE /\ hung' = FALSE
  /\ UNCHANGED <<online, status, retries, queued, replays, executed>>

(* Background sync replays a request it kept. *)
ReplayInBackground(a) ==
  /\ online /\ a \in replays
  /\ replays' = replays \ {a}
  /\ executed' = [executed EXCEPT ![a] = @ + 1]
  /\ UNCHANGED <<online, status, retries, queued, syncing, hung, stage, todo, faults>>

FlushStep(f) ==
  \/ ListPending(f) \/ Ask(f) \/ MarkCompleted(f) \/ MarkFailed(f) \/ ClearCompleted(f)
  \/ StorageFails(f) \/ TransactionAborts(f) \/ EndFlush(f)

OfflineNext ==
  \/ \E a \in Actions : QueueAction(a) \/ ReplayInBackground(a)
  \/ \E f \in Flushes : HandleOnline(f) \/ ProcessQueue(f) \/ FlushStep(f)
  \/ HandleOffline \/ Reload

(* A fetch is answered or fails, and a transaction completes, fails at its *)
(* first request or aborts; after an abort the flush has no step left.     *)
OfflineFairness == \A f \in Flushes : WF_offlineVars(FlushStep(f))

OfflineSpec == OfflineInit /\ [][OfflineNext]_offlineVars /\ OfflineFairness

-----------------------------------------------------------------------------
OfflineTypeOK ==
  /\ online \in BOOLEAN /\ syncing \in BOOLEAN /\ hung \in BOOLEAN
  /\ status \in [Actions -> {"absent", "pending", "completed", "failed"}]
  /\ retries \in [Actions -> Nat]
  /\ queued \subseteq Actions /\ replays \subseteq queued
  /\ stage \in [Flushes -> Stages]
  /\ todo \in [Flushes -> Seq(queued)]
  /\ \A f \in Flushes : stage[f] \in {"asking", "succeeded", "refused"} <=> todo[f] # <<>>
  /\ executed \in [Actions -> Nat]
  /\ faults \in 0..MaxFaults

(* No queued action is dropped unless the server has carried it out: not   *)
(* by overlapping flushes that mark and clear each other's entries, not by *)
(* a reload, a lost answer or a failed transaction.                        *)
ClearedWasExecuted ==
  \A a \in queued : status[a] \in {"absent", "completed"} => executed[a] > 0

(* What a flush still has to do, at most: three steps for each action of   *)
(* its snapshot, which is at most what was queued when it is taken.        *)
FlushRank(f) ==
  LET left == 3 * Len(todo[f])
  IN  CASE stage[f] = "idle"      -> 0
        [] stage[f] = "ending"    -> 1
        [] stage[f] = "clearing"  -> 2
        [] stage[f] = "refused"   -> left
        [] stage[f] = "succeeded" -> left + 1
        [] stage[f] = "asking"    -> left + 2
        [] stage[f] = "listing"   -> 3 * Cardinality(queued) + 3

(* Each step of a flush leaves it less to do, whatever fails on the way    *)
(* and whatever the other flushes do to its entries; and a flush is over   *)
(* only once it has cleared `syncing`, or hung.                            *)
FlushesShrink ==
  [][\A f \in Flushes :
       FlushStep(f) => /\ FlushRank(f)' < FlushRank(f)
                       /\ stage'[f] = "idle" => ~syncing' \/ hung']_offlineVars

(* The page shows itself syncing only while a flush runs, or since one of  *)
(* them hung.                                                              *)
SyncingIsFlushing == syncing => hung \/ \E f \in Flushes : stage[f] # "idle"

(* No flush goes on for ever, and the page does not stay in its syncing    *)
(* state, unless a transaction aborted under a flush: then it does, until  *)
(* another flush ends or the page is reloaded.                             *)
FlushesSettle == []<>((syncing => hung) /\ \A f \in Flushes : stage[f] = "idle")
=============================================================================
