----------------------------- MODULE SocketHook -----------------------------
(***************************************************************************)
(* The browser's side of the live feed: the useWebSocket hook with the     *)
(* useAssetWebSocket effect that keeps one topic subscribed                *)
(* (src/frontend/src/hooks/useWebSocket.js).  Refs are shared by all the   *)
(* sockets the hook ever made; a socket's close event comes some time      *)
(* after it was told to close, whatever the hook has done since.           *)
(*                                                                         *)
(* reconnectAttempts has its default, Infinity.  Pings are left out.       *)
(***************************************************************************)
EXTENDS Integers, SequencesExt

CONSTANTS
  AssetTopics,      \* topics of the assets that may be shown
  MaxSockets,       \* bound on the sockets made
  MaxDisturbances   \* bound on drops, renders, disconnects and navigation

ASSUME BrowserAssumption ==
  MaxSockets \in Nat /\ MaxDisturbances \in Nat

VARIABLES
  active,           \* the hook is mounted and enabled
  sock,             \* every socket made, with its readyState
  wsRef,            \* wsRef: the number of a socket, or 0
  timers,           \* reconnection timers that have not fired
  tracked,          \* reconnectTimeoutRef holds one of them
  manual,           \* manualDisconnectRef
  connected,        \* the React state
  topics,           \* subscriptionsRef
  shown,            \* the topic of the asset on the page
  effect,           \* the topic effect as it last ran: connected, topic
  mail,             \* messages sent on each socket, not yet received
  disturbances,
  superseded,       \* history: a socket was made while another was closing
  refused           \* history: disconnect() was called since the effect ran

browserVars == <<active, sock, wsRef, timers, tracked, manual, connected, topics, shown,
              effect, mail, disturbances, superseded, refused>>

BrowserInit ==
  /\ active = FALSE
  /\ sock = <<>> /\ wsRef = 0
  /\ timers = 0 /\ tracked = FALSE
  /\ manual = FALSE /\ connected = FALSE
  /\ topics = {}
  /\ shown \in AssetTopics
  /\ effect = [connected |-> FALSE, topic |-> shown]
  /\ mail = [s \in 1..MaxSockets |-> <<>>]
  /\ disturbances = 0
  /\ superseded = FALSE /\ refused = FALSE

Disturb ==
  /\ disturbances < MaxDisturbances
  /\ disturbances' = disturbances + 1

-----------------------------------------------------------------------------
(* wsRef.current.close() *)
Closing == IF wsRef = 0 THEN sock ELSE [sock EXCEPT ![wsRef] = "closing"]

(* new WebSocket(wsUrl) *)
MakeSocket(socks) ==
  /\ Len(socks) < MaxSockets
  /\ sock' = Append(socks, "connecting")
  /\ wsRef' = Len(socks) + 1
  /\ superseded' = (superseded \/ \E s \in DOMAIN socks : socks[s] = "closing")

(* connect() *)
Connect ==
  IF wsRef # 0 \/ manual THEN UNCHANGED <<sock, wsRef, superseded>> ELSE MakeSocket(sock)

(* clearTimeout(reconnectTimeoutRef.current): a timer set before the last  *)
(* one is out of reach.                                                    *)
ClearTimer ==
  /\ timers' = IF tracked THEN timers - 1 ELSE timers
  /\ tracked' = FALSE

OpenRef(socks) == wsRef # 0 /\ socks[wsRef] = "open"

(* What the topic effect depends on.  A render that leaves wsRef without   *)
(* an open socket runs it to no avail: neither call sends anything.        *)
TopicDeps == [connected |-> connected, topic |-> shown]

-----------------------------------------------------------------------------
(* The effect runs: the hook is mounted or enabled. *)
Activate ==
  /\ ~active
  /\ active' = TRUE
  /\ manual' = FALSE /\ refused' = FALSE
  /\ IF wsRef = 0 THEN MakeSocket(sock) /\ effect' = TopicDeps
     ELSE UNCHANGED <<sock, wsRef, superseded, effect>>
  /\ UNCHANGED <<timers, tracked, connected, topics, shown, mail, disturbances>>

(* The cleanup of the effect; and if the hook is disabled, not unmounted,  *)
(* the effect runs once more and only forgets a disconnect().              *)
Deactivate ==
  /\ active /\ Disturb
  /\ active' = FALSE
  /\ ClearTimer
  /\ sock' = Closing /\ wsRef' = 0
  /\ effect' = TopicDeps
  /\ \/ UNCHANGED <<manual, refused>>
     \/ manual' = FALSE /\ refused' = FALSE
  /\ UNCHANGED <<connected, topics, shown, mail, superseded>>

(* A render in which a callback has changed: cleanup, then the effect.     *)
Rerun ==
  /\ active /\ Disturb
  /\ ClearTimer
  /\ manual' = FALSE /\ refused' = FALSE
  /\ MakeSocket(Closing)
  /\ effect' = TopicDeps
  /\ UNCHANGED <<active, connected, topics, shown, mail>>

(* disconnect() *)
Disconnect ==
  /\ active /\ Disturb
  /\ manual' = TRUE /\ refused' = TRUE
  /\ ClearTimer
  /\ sock' = Closing /\ wsRef' = 0
  /\ connected' = FALSE
  /\ topics' = {}
  /\ UNCHANGED <<active, shown, effect, mail, superseded>>

(* Mutant of Resubscribe: a new connection starts with no subscription. *)
ResubscribeNothing(socks) == UNCHANGED mail

(* resubscribeToTopics, on whatever socket wsRef holds. *)
Resubscribe(socks) ==
  IF OpenRef(socks)
  THEN mail' = [mail EXCEPT ![wsRef] = @ \o
                  SetToSeq({[action |-> "subscribe", topic |-> t] : t \in topics})]
  ELSE UNCHANGED mail

(* onopen *)
Opens(s) ==
  /\ s \in DOMAIN sock /\ sock[s] = "connecting"
  /\ sock' = [sock EXCEPT ![s] = "open"]
  /\ manual' = FALSE
  /\ connected' = TRUE
  /\ Resubscribe(sock')
  /\ UNCHANGED <<active, wsRef, timers, tracked, topics, shown, effect, disturbances,
                 superseded, refused>>

(* The connection is lost, or the attempt fails, with what was sent on it. *)
Drop(s) ==
  /\ s \in DOMAIN sock /\ sock[s] \in {"connecting", "open"} /\ Disturb
  /\ sock' = [sock EXCEPT ![s] = "closing"]
  /\ mail' = [mail EXCEPT ![s] = <<>>]
  /\ UNCHANGED <<active, wsRef, timers, tracked, manual, connected, topics, shown,
                 effect, superseded, refused>>

(* Mutant of Scheduled: no timer is set. *)
ScheduledNever(n) == n

Scheduled(n) == n + 1

(* onclose, of whichever socket: wsRef is emptied and a reconnection is    *)
(* scheduled, without a look at the timer that may be there or at whether  *)
(* the hook is still mounted.                                              *)
OnClose(s) ==
  /\ s \in DOMAIN sock /\ sock[s] = "closing"
  /\ sock' = [sock EXCEPT ![s] = "closed"]
  /\ connected' = FALSE
  /\ wsRef' = 0
  /\ IF manual
     THEN topics' = {} /\ UNCHANGED <<timers, tracked>>
     ELSE /\ timers' = Scheduled(timers)
          /\ tracked' = (timers' > 0)
          /\ UNCHANGED topics
  /\ UNCHANGED <<active, manual, shown, effect, mail, disturbances, superseded,
                 refused>>

(* A timer fires: the last one that was set, or one that was forgotten.    *)
(* The delay is a second or more: the page has rendered by then.           *)
TimerFires ==
  /\ timers > 0 /\ effect = TopicDeps
  /\ timers' = timers - 1
  /\ tracked' \in IF tracked /\ timers > 1 THEN BOOLEAN ELSE {FALSE}
  /\ Connect
  /\ UNCHANGED <<active, manual, connected, topics, shown, effect, mail, disturbances,
                 refused>>

(* The page turns to another asset. *)
Show(t) ==
  /\ t # shown /\ Disturb
  /\ shown' = t
  /\ UNCHANGED <<active, sock, wsRef, timers, tracked, manual, connected, topics, effect,
                 mail, superseded, refused>>

(* The topic effect runs after a render that changed what it depends on:   *)
(* unsubscribe from the old topic and subscribe to the new, each only if   *)
(* the socket in wsRef is open.                                            *)
TopicEffect ==
  /\ effect # TopicDeps
  /\ effect' = TopicDeps
  /\ LET leaves == effect.connected /\ OpenRef(sock)
         kept == IF leaves THEN topics \ {effect.topic} ELSE topics
         joins == connected /\ OpenRef(sock) /\ shown \notin kept
     IN  /\ topics' = IF joins THEN kept \cup {shown} ELSE kept
         /\ mail' = IF ~OpenRef(sock) THEN mail
              ELSE [mail EXCEPT ![wsRef] = @
                \o (IF leaves THEN <<[action |-> "unsubscribe", topic |-> effect.topic]>>
                    ELSE <<>>)
                \o (IF joins THEN <<[action |-> "subscribe", topic |-> shown]>> ELSE <<>>)]
  /\ UNCHANGED <<active, sock, wsRef, timers, tracked, manual, connected, shown,
                 disturbances, superseded, refused>>

(* What the hook does by itself, with no socket event. *)
BrowserQuietNext ==
  \/ Activate \/ Deactivate \/ Rerun \/ Disconnect \/ TimerFires \/ TopicEffect
  \/ \E t \in AssetTopics : Show(t)
  \/ \E s \in 1..MaxSockets : OnClose(s) \/ Drop(s)

BrowserTypeOK ==
  /\ active \in BOOLEAN /\ manual \in BOOLEAN /\ connected \in BOOLEAN
  /\ sock \in Seq({"connecting", "open", "closing", "closed"})
  /\ wsRef \in 0..Len(sock)
  /\ wsRef # 0 => sock[wsRef] # "closed"
  /\ timers \in 0..MaxSockets /\ tracked \in BOOLEAN /\ (tracked => timers > 0)
  /\ topics \subseteq AssetTopics /\ shown \in AssetTopics
  /\ effect \in [connected : BOOLEAN, topic : AssetTopics]
  /\ mail \in [1..MaxSockets ->
                 Seq([action : {"subscribe", "unsubscribe"}, topic : AssetTopics])]
  /\ disturbances \in 0..MaxDisturbances
  /\ superseded \in BOOLEAN /\ refused \in BOOLEAN

(* A hook that is wanted always holds a socket or a timer that will make   *)
(* one, and may connect: whatever a late close event of a socket it has    *)
(* replaced empties, whichever timers are cleared or forgotten.            *)
NeverStranded ==
  active /\ ~refused => ~manual /\ (wsRef # 0 \/ timers > 0)
=============================================================================
