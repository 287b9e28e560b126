---------------------------- MODULE WalletSession ---------------------------
(***************************************************************************)
(* The wallet in the browser: the state machine of                         *)
(* src/frontend/src/machines/freighterWalletMachine.js driven by the       *)
(* provider of context/FreighterWalletContext.jsx.  A request to the       *)
(* extension is answered late or never, and nothing withdraws it: its      *)
(* answer is dispatched whatever the machine has been through since.       *)
(***************************************************************************)
EXTENDS Integers, FiniteSets

CONSTANTS
  Accounts,         \* keys the extension may report
  Networks,         \* networks the extension may be on
  DefaultNetwork,   \* 'TESTNET' of initialWalletContext
  ExpectedNetwork,  \* the provider's expectedNetwork
  Null,             \* null
  MaxRequests,      \* bound on calls of connectWallet
  MaxMoves          \* bound on disconnections and network changes

ASSUME WalletAssumption ==
  /\ {DefaultNetwork, ExpectedNetwork} \subseteq Networks
  /\ Null \notin Accounts \cup Networks
  /\ MaxRequests \in Nat /\ MaxMoves \in Nat

VARIABLES
  machine,          \* currentState
  publicKey, network, expected,     \* the machine's context
  timeoutSet,       \* timeoutRef holds a timer that has not fired
  requests,         \* requests the extension has not answered
  asked,            \* connectWallet calls so far
  moves

walletVars == <<machine, publicKey, network, expected, timeoutSet, requests, asked, moves>>

WalletInit ==
  /\ machine = "Disconnected"
  /\ publicKey = Null /\ network = Null
  /\ expected = ExpectedNetwork
  /\ timeoutSet = FALSE
  /\ requests = {} /\ asked = 0 /\ moves = 0

(* On RESOLVE_ACCESS an unreported network is taken as the right one.      *)
NetworkMatches(n) == n \in {Null, expected}

-----------------------------------------------------------------------------
(* The reducer: what each event does, and nothing in the other states.     *)

EventConnect ==
  /\ machine' = IF machine \in {"Disconnected", "NetworkMismatch"}
                THEN "RequestingAccess" ELSE machine
  /\ UNCHANGED <<publicKey, network, expected>>

EventResolve(key, n) ==
  IF machine = "RequestingAccess"
  THEN /\ machine' = IF NetworkMatches(n) THEN "Connected" ELSE "NetworkMismatch"
       /\ publicKey' = key /\ network' = n
       /\ UNCHANGED expected
  ELSE UNCHANGED <<machine, publicKey, network, expected>>

(* Mutant of EventGiveUp: the key of the session before is kept. *)
EventGiveUpKeepingKey ==
  /\ machine' = IF machine = "RequestingAccess" THEN "Disconnected" ELSE machine
  /\ UNCHANGED <<publicKey, network, expected>>

(* REJECT_ACCESS and TIMEOUT. *)
EventGiveUp ==
  IF machine = "RequestingAccess"
  THEN machine' = "Disconnected" /\ publicKey' = Null /\ UNCHANGED <<network, expected>>
  ELSE UNCHANGED <<machine, publicKey, network, expected>>

(* DISCONNECT goes back to the initial context, default network included.  *)
EventDisconnect ==
  IF machine # "Disconnected"
  THEN /\ machine' = "Disconnected"
       /\ publicKey' = Null /\ network' = Null
       /\ expected' = DefaultNetwork
  ELSE UNCHANGED <<machine, publicKey, network, expected>>

(* NETWORK_CHANGE; here an unreported network is not the right one, and in *)
(* NetworkMismatch another wrong one is not even recorded.                 *)
EventNetworkChange(n) ==
  LET rejoins == machine = "NetworkMismatch" /\ n = expected
  IN  /\ machine' = IF rejoins THEN "Connected"
                     ELSE IF machine = "Connected" /\ n # expected THEN "NetworkMismatch"
                     ELSE machine
      /\ network' = IF rejoins \/ machine = "Connected" THEN n ELSE network
      /\ UNCHANGED <<publicKey, expected>>

-----------------------------------------------------------------------------
(* Mutant of ArmTimeout: the timer of the call before is cleared only.     *)
ArmTimeoutOnce == timeoutSet' = (asked = 0)

(* clearWalletTimeout, then setTimeout *)
ArmTimeout == timeoutSet' = TRUE

(* connectWallet, up to the await. *)
ConnectWallet ==
  /\ asked < MaxRequests
  /\ asked' = asked + 1
  /\ EventConnect
  /\ ArmTimeout
  /\ requests' = requests \cup {asked'}
  /\ UNCHANGED moves

(* The extension answers request r: access granted, or refused, or failed. *)
(* Whichever timer is set is cleared.  If getNetwork fails the provider's  *)
(* own expected network stands in.                                         *)
Answered(r) ==
  /\ r \in requests
  /\ requests' = requests \ {r}
  /\ timeoutSet' = FALSE
  /\ \/ \E key \in Accounts, n \in Networks \cup {Null} : EventResolve(key, n)
     \/ EventGiveUp
  /\ UNCHANGED <<asked, moves>>

TimeoutFires ==
  /\ timeoutSet /\ timeoutSet' = FALSE
  /\ EventGiveUp
  /\ UNCHANGED <<requests, asked, moves>>

WalletMove ==
  /\ moves < MaxMoves /\ moves' = moves + 1
  /\ UNCHANGED <<requests, asked>>

DisconnectWallet == WalletMove /\ EventDisconnect /\ timeoutSet' = FALSE

NotifyNetworkChange(n) == WalletMove /\ EventNetworkChange(n) /\ UNCHANGED timeoutSet

WalletNext ==
  \/ ConnectWallet \/ TimeoutFires \/ DisconnectWallet
  \/ \E r \in 1..MaxRequests : Answered(r)
  \/ \E n \in Networks \cup {Null} : NotifyNetworkChange(n)

(* Timers fire.  The extension may never answer. *)
WalletFairness == WF_walletVars(TimeoutFires)

WalletSpec == WalletInit /\ [][WalletNext]_walletVars /\ WalletFairness

-----------------------------------------------------------------------------
WalletTypeOK ==
  /\ machine \in {"Disconnected", "RequestingAccess", "Connected", "NetworkMismatch"}
  /\ publicKey \in Accounts \cup {Null}
  /\ network \in Networks \cup {Null}
  /\ expected \in {DefaultNetwork, ExpectedNetwork}
  /\ timeoutSet \in BOOLEAN
  /\ asked \in 0..MaxRequests /\ requests \subseteq 1..asked
  /\ moves \in 0..MaxMoves

(* A page that says connected has an account to act for, and one that says *)
(* disconnected holds none, whichever request the last answer was for.     *)
KeyOnlyWhileLinked ==
  /\ machine \in {"Connected", "NetworkMismatch"} => publicKey # Null
  /\ machine = "Disconnected" => publicKey = Null

(* Whoever asks for access has a timer running, whichever answers of       *)
(* earlier requests have cleared one.                                      *)
RequestsTimed == machine = "RequestingAccess" => timeoutSet

(* Asking for access never lasts for ever, even when the extension stays   *)
(* silent and answers of earlier requests clear the timer of the last one. *)
RequestsEnd == machine = "RequestingAccess" ~> machine # "RequestingAccess"

(* The machine's header: being on another network than the expected one is *)
(* always NetworkMismatch.                                                 *)
ConnectedOnExpectedNetwork ==
  machine = "Connected" => network \in {Null, ExpectedNetwork}
=============================================================================
