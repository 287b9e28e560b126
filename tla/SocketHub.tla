------------------------------ MODULE SocketHub -----------------------------
(***************************************************************************)
(* The server's side of the live feed: the WebSocketManager of             *)
(* src/backend/websocket.js with the replay buffer of                      *)
(* websocketDLQService.js, which index.js never connects to Redis, so that *)
(* it works in memory and its awaits never let another event in between.   *)
(* A client id is given per connection: here both are a Socket.            *)
(*                                                                         *)
(* clientLastSeqId is left out (nothing reads it), and so are pings.  The  *)
(* hub is one instance's: its broadcasts are also published to the other   *)
(* instances through Redis, and theirs arrive here as RemoteBroadcast.     *)
(***************************************************************************)
EXTENDS Integers, FiniteSets, SequencesExt, ShareUnits

CONSTANTS
  Sockets,          \* connections, each used once
  Topics,
  BufferSize,       \* messages kept per topic: 1000 by default
  MaxBroadcasts     \* bound on the broadcasts of each topic

ASSUME HubAssumption ==
  BufferSize \in Nat \ {0} /\ MaxBroadcasts \in Nat

VARIABLES
  clients,          \* this.clients
  ready,            \* sockets whose readyState is OPEN
  clientTopics,     \* client.subscriptions
  subscriptions,    \* this.subscriptions: a topic with no subscriber has no entry
  sequence,         \* sequenceNumbers
  buffer,           \* memoryBuffers: sequence numbers, oldest first
  expired,          \* the last sequence number that is past the time to live
  heard             \* history: the broadcasts that had a subscriber

hubVars == <<clients, ready, clientTopics, subscriptions, sequence, buffer, expired, heard>>
storeVars == <<sequence, buffer, expired, heard>>

Seqs == 0..MaxBroadcasts

HubInit ==
  /\ clients = {} /\ ready = {}
  /\ clientTopics = [s \in Sockets |-> {}]
  /\ subscriptions = [t \in Topics |-> {}]
  /\ sequence = [t \in Topics |-> 0]
  /\ buffer = [t \in Topics |-> <<>>]
  /\ expired = [t \in Topics |-> 0]
  /\ heard = [t \in Topics |-> {}]

-----------------------------------------------------------------------------
Connection(s) ==
  /\ clients' = clients \cup {s}
  /\ ready' = ready \cup {s}
  /\ UNCHANGED <<clientTopics, subscriptions, storeVars>>

(* The socket begins to close; its 'close' event comes later. *)
StopsBeingReady(s) ==
  /\ s \in ready
  /\ ready' = ready \ {s}
  /\ UNCHANGED <<clients, clientTopics, subscriptions, storeVars>>

(* Mutant of Without: only the client's last topic is given up. *)
WithoutOne(gone) ==
  [t \in Topics |-> IF t = CHOOSE u \in Topics : TRUE THEN subscriptions[t] \ gone
                    ELSE subscriptions[t]]

(* The subscriptions once some clients have left every topic. *)
Without(gone) == [t \in Topics |-> subscriptions[t] \ gone]

(* handleDisconnect, for the clients whose send threw or whose socket      *)
(* closed.  The client's own set goes with its entry.                      *)
HandleDisconnect(gone) ==
  /\ clients' = clients \ gone
  /\ subscriptions' = Without(gone)
  /\ clientTopics' = [s \in Sockets |-> IF s \in gone THEN {} ELSE clientTopics[s]]

SocketCloses(s) ==
  /\ s \in clients \ ready
  /\ HandleDisconnect({s})
  /\ UNCHANGED <<ready, storeVars>>

(* handleMessage: subscribe.  The message of a client that was dropped is  *)
(* ignored.                                                                *)
Subscribe(s, t) ==
  /\ IF s \in clients
     THEN /\ clientTopics' = [clientTopics EXCEPT ![s] = @ \cup {t}]
          /\ subscriptions' = [subscriptions EXCEPT ![t] = @ \cup {s}]
     ELSE UNCHANGED <<clientTopics, subscriptions>>
  /\ UNCHANGED <<clients, ready, storeVars>>

(* handleMessage: unsubscribe. *)
Unsubscribe(s, t) ==
  /\ IF s \in clients
     THEN /\ clientTopics' = [clientTopics EXCEPT ![s] = @ \ {t}]
          /\ subscriptions' = [subscriptions EXCEPT ![t] = @ \ {s}]
     ELSE UNCHANGED <<clientTopics, subscriptions>>
  /\ UNCHANGED <<clients, ready, storeVars>>

-----------------------------------------------------------------------------
Unexpired(t, msgs) == Picked(msgs, {i \in DOMAIN msgs : msgs[i] > expired[t]})

(* Mutant of Trimmed: the newest messages are cut off. *)
TrimmedAtTheEnd(msgs) ==
  IF Len(msgs) > BufferSize THEN SubSeq(msgs, 1, BufferSize) ELSE msgs

(* Mutant of Trimmed: one message too many is kept. *)
TrimmedLate(msgs) == IF Len(msgs) > BufferSize + 1 THEN Tail(msgs) ELSE msgs

(* The buffer kept to its size from the front. *)
Trimmed(msgs) ==
  IF Len(msgs) > BufferSize THEN SubSeq(msgs, Len(msgs) - BufferSize + 1, Len(msgs))
  ELSE msgs

(* broadcast: the number is taken, and unless nobody is subscribed the     *)
(* message is stored and sent.  A send may throw; those clients go.        *)
Broadcast(t, failing) ==
  /\ sequence[t] < MaxBroadcasts
  /\ failing \subseteq subscriptions[t] \cap ready
  /\ LET n == sequence[t] + 1
     IN  /\ sequence' = [sequence EXCEPT ![t] = n]
         /\ IF subscriptions[t] = {} THEN UNCHANGED <<buffer, heard>>
            ELSE /\ buffer' = [buffer EXCEPT ![t] = Trimmed(Unexpired(t, Append(@, n)))]
                 /\ heard' = [heard EXCEPT ![t] = @ \cup {n}]
  /\ HandleDisconnect(failing)
  /\ UNCHANGED <<ready, expired>>

(* handleRemoteBroadcast: a message of another instance is sent on without *)
(* a number or a place in the buffer of this one.  Only a send that throws *)
(* leaves a trace.                                                         *)
RemoteBroadcast(t, failing) ==
  /\ failing # {} /\ failing \subseteq subscriptions[t] \cap ready
  /\ HandleDisconnect(failing)
  /\ UNCHANGED <<ready, storeVars>>

(* Time passes: the oldest live message of the topic is past its time. *)
Ages(t) ==
  /\ expired[t] < sequence[t]
  /\ expired' = [expired EXCEPT ![t] = @ + 1]
  /\ UNCHANGED <<clients, ready, clientTopics, subscriptions, sequence, buffer, heard>>

(* getMessagesInRange, as request_missing_messages gets it. *)
Replay(t, from, to) ==
  LET live == Unexpired(t, buffer[t])
  IN  Picked(live, {i \in DOMAIN live : from <= live[i] /\ live[i] <= to})

(* The clients in `some` do what they like. *)
HubStep(some) ==
  \/ \E s \in some : \/ s \notin clients /\ Connection(s)
                     \/ StopsBeingReady(s) \/ SocketCloses(s)
                     \/ s \in clients /\ \E t \in Topics : Subscribe(s, t) \/ Unsubscribe(s, t)
  \/ \E t \in Topics :
       \/ \E failing \in SUBSET some : Broadcast(t, failing) \/ RemoteBroadcast(t, failing)
       \/ Ages(t)

HubNext == HubStep(Sockets)

HubSpec == HubInit /\ [][HubNext]_hubVars

-----------------------------------------------------------------------------
HubTypeOK ==
  /\ clients \subseteq Sockets /\ ready \subseteq Sockets
  /\ clientTopics \in [Sockets -> SUBSET Topics]
  /\ subscriptions \in [Topics -> SUBSET Sockets]
  /\ sequence \in [Topics -> Seqs] /\ expired \in [Topics -> Seqs]
  /\ buffer \in [Topics -> Seq(Seqs)] /\ \A t \in Topics : Len(buffer[t]) <= BufferSize
  /\ heard \in [Topics -> SUBSET Seqs]

(* The two books of who listens to what agree, and name only clients that  *)
(* are there: through closing sockets, sends that throw in the middle of a *)
(* broadcast and messages of clients that were dropped.                    *)
SubscriptionsMirrored ==
  \A s \in Sockets, t \in Topics :
    /\ s \in subscriptions[t] <=> t \in clientTopics[s]
    /\ s \in subscriptions[t] => s \in clients

(* What a client can have replayed is exactly the latest messages that had *)
(* a subscriber and are not too old, in order: a broadcast that had none   *)
(* is not there, though it took a number.                                  *)
ReplayExact ==
  \A t \in Topics :
    LET replay == Replay(t, 1, MaxBroadcasts)
        latest == {n \in heard[t] : Cardinality({m \in heard[t] : m > n}) < BufferSize}
    IN  /\ ToSet(replay) = {n \in latest : n > expired[t]}
        /\ \A i, j \in DOMAIN replay : i < j => replay[i] < replay[j]
=============================================================================
