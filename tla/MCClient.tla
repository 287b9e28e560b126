------------------------------ MODULE MCClient ------------------------------
(***************************************************************************)
(* The parts of the browser, and the hub that one of them talks to, in one *)
(* run.  A behaviour runs one of four: the hub alone, with clients that    *)
(* send what they like and broadcasts; a hook and the hub, where a         *)
(* connection may be lost, renewed and replaced at any time, or cut off by *)
(* a send that throws; the wallet session; the offline queue.  They share  *)
(* no state.  To the hook a broadcast is like a message of another         *)
(* instance, which needs no number.                                        *)
(***************************************************************************)
EXTENDS LiveFeed, WalletSession, OfflineSync

(* Sockets 1 and 2 are the clients of the hub when it runs alone. *)
ASSUME SideAssumption == MaxSockets >= 2

VARIABLE side       \* "hub", "feed", "wallet" or "offline"

sideVars == <<feedVars, walletVars, offlineVars, side>>

SideInit ==
  /\ FeedInit /\ WalletInit /\ OfflineInit
  /\ side \in {"hub", "feed", "wallet", "offline"}
  /\ side # "feed" => shown = CHOOSE t \in AssetTopics : TRUE

SideNext ==
  /\ UNCHANGED side
  /\ \/ /\ side = "hub" /\ HubStep({1, 2})
        /\ UNCHANGED <<browserVars, walletVars, offlineVars>>
     \/ /\ side = "feed"
        /\ \/ BrowserQuietNext /\ UNCHANGED hubVars
           \/ \E s \in Sockets : Handshake(s) \/ Delivered(s) \/ ServerNotices(s)
           \/ /\ \E t \in Topics, failing \in SUBSET Sockets : RemoteBroadcast(t, failing)
              /\ UNCHANGED browserVars
        /\ UNCHANGED <<walletVars, offlineVars>>
     \/ side = "wallet" /\ WalletNext /\ UNCHANGED <<feedVars, offlineVars>>
     \/ side = "offline" /\ OfflineNext /\ UNCHANGED <<feedVars, walletVars>>

SideSpec ==
  /\ SideInit /\ [][SideNext]_sideVars
  /\ FeedFairness /\ WalletFairness /\ OfflineFairness

ClientTypeOK == FeedTypeOK /\ WalletTypeOK /\ OfflineTypeOK
=============================================================================
