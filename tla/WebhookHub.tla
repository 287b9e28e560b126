----------------------------- MODULE WebhookHub -----------------------------
(***************************************************************************)
(* The webhooks of src/backend/index.js: a JSON file of registrations that *)
(* every handler loads, changes and saves whole, and firings that load it, *)
(* wait for all their deliveries with retries, and then save what they had *)
(* loaded, with the failures counted.  The waits between attempts are not  *)
(* steps of their own: nothing can tell them from a slow attempt.  Of a    *)
(* registration the url and the secret are left out.                       *)
(***************************************************************************)
EXTENDS Integers, SequencesExt

CONSTANTS
  Hooks,            \* ids of webhooks; generated, so each is used once
  Events,           \* WEBHOOK_EVENTS
  MaxAttempts,      \* maxRetries = 3
  FailureLimit,     \* a webhook is disabled after 5 failures
  MaxEdits,         \* bound on the registrations, changes and deletions
  MaxFirings        \* bound on the firings

ASSUME HookAssumption ==
  /\ MaxAttempts \in Nat \ {0} /\ FailureLimit \in Nat \ {0}
  /\ MaxEdits \in Nat /\ MaxFirings \in Nat

VARIABLES
  hooks,            \* webhooks.json: a registration or None per id
  firings,          \* calls of fireWebhooks: the file each has loaded, and how
                    \* its deliveries stand
  edits,
  used,             \* history: ids given out
  live,             \* history: ids registered and not deleted
  row,              \* history: failed firings in a row, per webhook
  switchedOn,       \* history: webhooks at the limit switched on by hand
  overwritten       \* history: webhooks that a firing put back to what it had
                    \* loaded, over a later save

historyVars == <<used, live, row, switchedOn, overwritten>>
hookVars == <<hooks, firings, edits, historyVars>>

None == [present |-> FALSE, events |-> {}, active |-> FALSE, failureCount |-> 0]
Hook == [present : BOOLEAN, events : SUBSET Events, active : BOOLEAN,
         failureCount : 0..MaxFirings]
Delivery == [attempt : 1..MaxAttempts, status : {"trying", "fulfilled", "rejected"}]

HookInit ==
  /\ hooks = [h \in Hooks |-> None]
  /\ firings = <<>>
  /\ edits = 0
  /\ used = {} /\ live = {} /\ switchedOn = {} /\ overwritten = {}
  /\ row = [h \in Hooks |-> 0]

(* Firings whose deliveries are not all settled and saved. *)
Waiting == {f \in DOMAIN firings : ~firings[f].over}

(* saveWebhooks by a handler that awaits nothing. *)
Edit(h, r) ==
  /\ edits < MaxEdits
  /\ edits' = edits + 1
  /\ hooks' = [hooks EXCEPT ![h] = r]
  /\ UNCHANGED <<firings, row, overwritten>>

(* POST /webhooks, active or not *)
RegisterHook(h, events, active) ==
  /\ h \notin used /\ events # {}
  /\ used' = used \cup {h} /\ live' = live \cup {h}
  /\ Edit(h, [present |-> TRUE, events |-> events, active |-> active, failureCount |-> 0])
  /\ UNCHANGED switchedOn

(* PATCH /webhooks/:id changes what it is given, unchecked: the events may  *)
(* become none, and a disabled webhook may be switched on again, with the  *)
(* failures it had.                                                        *)
PatchHook(h, events, active) ==
  /\ hooks[h] # None
  /\ Edit(h, [hooks[h] EXCEPT !.events = events, !.active = active])
  /\ switchedOn' = IF active /\ row[h] >= FailureLimit THEN switchedOn \cup {h}
                   ELSE switchedOn
  /\ UNCHANGED <<used, live>>

(* DELETE /webhooks/:id *)
DeleteHook(h) ==
  /\ hooks[h] # None
  /\ Edit(h, None)
  /\ live' = live \ {h}
  /\ UNCHANGED <<used, switchedOn>>

-----------------------------------------------------------------------------
Addressed(file, event) == {h \in Hooks : file[h].active /\ event \in file[h].events}

(* fireWebhooks up to its await.  Nobody waits for the call. *)
Fire(event) ==
  IF Addressed(hooks, event) = {} THEN UNCHANGED hookVars
  ELSE /\ Len(firings) < MaxFirings
       /\ firings' = Append(firings,
            [loaded |-> hooks, over |-> FALSE,
             deliveries |-> [h \in Addressed(hooks, event) |->
                               [attempt |-> 1, status |-> "trying"]]])
       /\ UNCHANGED <<hooks, edits, historyVars>>

(* Mutant of AfterFailure: after the last attempt it starts over. *)
AfterFailureForEver(d) ==
  [d EXCEPT !.attempt = IF @ < MaxAttempts THEN @ + 1 ELSE 1]

(* Mutant of AfterFailure: one attempt too many. *)
AfterFailureOnceMore(d) ==
  IF d.attempt <= MaxAttempts THEN [d EXCEPT !.attempt = @ + 1]
  ELSE [d EXCEPT !.status = "rejected"]

(* deliverWebhookWithRetry's catch block *)
AfterFailure(d) ==
  IF d.attempt < MaxAttempts THEN [d EXCEPT !.attempt = @ + 1]
  ELSE [d EXCEPT !.status = "rejected"]

(* An attempt is answered, or fails: an error, a status that is not 2xx, or *)
(* postWebhook's time limit.                                               *)
AttemptOver(f, h, ok) ==
  /\ f \in Waiting /\ h \in DOMAIN firings[f].deliveries
  /\ firings[f].deliveries[h].status = "trying"
  /\ firings' = [firings EXCEPT ![f].deliveries[h] =
       IF ok THEN [@ EXCEPT !.status = "fulfilled"] ELSE AfterFailure(@)]
  /\ UNCHANGED <<hooks, edits, historyVars>>

(* Mutant of Counted: a delivery that succeeds leaves the count. *)
CountedForGood(file, deliveries) ==
  [h \in Hooks |->
     IF h \notin DOMAIN deliveries \/ file[h] = None
        \/ deliveries[h].status = "fulfilled" THEN file[h]
     ELSE [file[h] EXCEPT !.failureCount = @ + 1,
                          !.active = @ /\ file[h].failureCount + 1 < FailureLimit]]

(* The file after a firing: failures counted, or the count reset, and a    *)
(* webhook that reaches the limit switched off.                            *)
Counted(file, deliveries) ==
  [h \in Hooks |->
     IF h \notin DOMAIN deliveries \/ file[h] = None THEN file[h]
     ELSE IF deliveries[h].status = "fulfilled" THEN [file[h] EXCEPT !.failureCount = 0]
     ELSE [file[h] EXCEPT !.failureCount = @ + 1,
                          !.active = @ /\ file[h].failureCount + 1 < FailureLimit]]

(* All deliveries are settled: the file loaded when the firing began is    *)
(* updated and saved.                                                      *)
FiringEnds(f) ==
  /\ f \in Waiting
  /\ LET d == firings[f].deliveries
     IN  /\ \A h \in DOMAIN d : d[h].status # "trying"
         /\ hooks' = Counted(firings[f].loaded, d)
         /\ overwritten' = overwritten
                \cup {h \in Hooks : hooks[h] # firings[f].loaded[h]}
         /\ row' = [h \in Hooks |-> IF h \notin DOMAIN d THEN row[h]
                                    ELSE IF d[h].status = "rejected" THEN row[h] + 1 ELSE 0]
         /\ switchedOn' = switchedOn \ {h \in DOMAIN d : d[h].status = "rejected"}
  /\ firings' = [firings EXCEPT ![f].over = TRUE]
  /\ UNCHANGED <<edits, used, live>>

HookQuietNext ==
  \/ \E h \in Hooks : \/ \E events \in SUBSET Events, active \in BOOLEAN :
                           RegisterHook(h, events, active) \/ PatchHook(h, events, active)
                      \/ DeleteHook(h)
  \/ \E f \in 1..MaxFirings : \/ \E h \in Hooks, ok \in BOOLEAN : AttemptOver(f, h, ok)
                              \/ FiringEnds(f)

HookNext == HookQuietNext \/ \E event \in Events : Fire(event)

HookSpec == HookInit /\ [][HookNext]_hookVars

(* Every attempt ends, if only by its time limit. *)
HookFairness ==
  \A f \in 1..MaxFirings :
    /\ WF_hookVars(FiringEnds(f))
    /\ \A h \in Hooks : WF_hookVars(\E ok \in BOOLEAN : AttemptOver(f, h, ok))

-----------------------------------------------------------------------------
HookTypeOK ==
  /\ hooks \in [Hooks -> Hook]
  /\ \A f \in DOMAIN firings :
       /\ firings[f].loaded \in [Hooks -> Hook] /\ firings[f].over \in BOOLEAN
       /\ firings[f].deliveries \in UNION {[hs -> Delivery] : hs \in SUBSET Hooks}
  /\ edits \in 0..MaxEdits /\ live \subseteq used /\ used \subseteq Hooks
  /\ row \in [Hooks -> 0..MaxFirings]
  /\ switchedOn \subseteq Hooks /\ overwritten \subseteq Hooks

(* A webhook is in the file from its registration to its deletion, its     *)
(* count is that of its failed firings in a row, and at the limit it is    *)
(* off unless somebody switched it on again since: firings that wait while *)
(* others end and while webhooks are edited lose nothing, except for those *)
(* that a firing put back to what it had loaded.                           *)
FailuresCounted ==
  \A h \in Hooks \ overwritten :
    /\ h \in live <=> hooks[h] # None
    /\ h \in live => /\ hooks[h].failureCount = row[h]
                     /\ row[h] >= FailureLimit /\ hooks[h].active => h \in switchedOn

(* Every firing ends: no delivery is tried for ever. *)
FiringsEnd == \A f \in 1..MaxFirings : (f \in Waiting) ~> (f \notin Waiting)
=============================================================================
