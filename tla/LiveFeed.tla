------------------------------ MODULE LiveFeed ------------------------------
(***************************************************************************)
(* The live feed from end to end: a browser's hook and the server's hub.   *)
(* The n-th socket the hook makes is client n of the hub.  Each side       *)
(* learns in its own time that a connection is over.                       *)
(***************************************************************************)
EXTENDS SocketHub, SocketHook

ASSUME FeedAssumption ==
  Sockets = 1..MaxSockets /\ AssetTopics \subseteq Topics

feedVars == <<hubVars, browserVars>>

FeedInit == HubInit /\ BrowserInit

(* The handshake: the server's 'connection' event, the browser's onopen. *)
Handshake(s) == Opens(s) /\ Connection(s)

(* The server handles the next message of a socket. *)
Delivered(s) ==
  /\ mail[s] # <<>>
  /\ mail' = [mail EXCEPT ![s] = Tail(@)]
  /\ LET m == Head(mail[s])
     IN  \/ m.action = "subscribe" /\ Subscribe(s, m.topic)
         \/ m.action = "unsubscribe" /\ Unsubscribe(s, m.topic)
  /\ UNCHANGED <<active, sock, wsRef, timers, tracked, manual, connected, topics, shown,
                 effect, disturbances, superseded, refused>>

(* The server notices that the other side is closing, then drops it. *)
ServerNotices(s) ==
  /\ s \in DOMAIN sock /\ sock[s] \in {"closing", "closed"}
  /\ StopsBeingReady(s) \/ SocketCloses(s)
  /\ UNCHANGED browserVars

FeedNext ==
  \/ BrowserQuietNext /\ UNCHANGED hubVars
  \/ \E s \in Sockets : Handshake(s) \/ Delivered(s) \/ ServerNotices(s)
  \/ /\ \E t \in Topics :
          \/ \E failing \in SUBSET Sockets : Broadcast(t, failing) \/ RemoteBroadcast(t, failing)
          \/ Ages(t)
     /\ UNCHANGED browserVars

(* Sockets open and close, messages arrive, timers fire and effects run.   *)
FeedFairness ==
  /\ \A s \in Sockets :
       /\ WF_feedVars(Handshake(s)) /\ WF_feedVars(Delivered(s))
       /\ WF_feedVars(OnClose(s) /\ UNCHANGED hubVars)
       /\ WF_feedVars(ServerNotices(s))
  /\ WF_feedVars(TimerFires /\ UNCHANGED hubVars)
  /\ WF_feedVars(TopicEffect /\ UNCHANGED hubVars)

FeedSpec == FeedInit /\ [][FeedNext]_feedVars /\ FeedFairness

-----------------------------------------------------------------------------
FeedTypeOK == HubTypeOK /\ BrowserTypeOK

(* Whether the server will have s subscribed to t once it has handled the  *)
(* messages on their way: the last one about t decides.                    *)
WillListen(s, t) ==
  LET about == {i \in DOMAIN mail[s] : mail[s][i].topic = t}
  IN  IF about = {} THEN s \in subscriptions[t]
      ELSE \E i \in about : /\ mail[s][i].action = "subscribe"
                            /\ \A j \in about : j <= i

(* While the hook's socket is open and the server knows it, what the page  *)
(* believes to be subscribed is what the server will have, message by      *)
(* message; and a page that has settled has asked for the asset it shows,  *)
(* unless a socket was ever replaced before its close event.               *)
BothEndsAgree ==
  OpenRef(sock) /\ wsRef \in clients =>
    /\ \A t \in AssetTopics : t \in topics <=> WillListen(wsRef, t)
    /\ ~superseded /\ effect = TopicDeps => shown \in topics

Wanted == active /\ ~refused

(* Once drops, renders and navigation are over, a hook that is wanted      *)
(* holds an open socket for good: through close events of sockets it has   *)
(* replaced, which empty wsRef under the new one, and forgotten timers.    *)
FeedRecovers == <>[]Wanted => <>[](wsRef # 0 /\ sock[wsRef] = "open")

(* A send to s threw: the hub has dropped the client but not its socket,   *)
(* and the browser is not told.                                            *)
CutOff(s) == s \in ready /\ s \notin clients

(* And the server has it subscribed to the asset on the page, with two     *)
(* exceptions.  If a socket was ever replaced before its close event, the  *)
(* effect may run while wsRef is empty, and nothing makes it run again.    *)
(* If the socket is cut off by a send that threw, the hook keeps it and    *)
(* hears nothing more, until it is closed for another reason.              *)
TopicRestored ==
  <>[](Wanted /\ ~superseded /\ ~CutOff(wsRef)) =>
    <>[](\E s \in clients : s = wsRef /\ s \in subscriptions[shown])
=============================================================================
