---------------------------- MODULE LedgerClock ----------------------------
(***************************************************************************)
(* The ledger timestamp every time-dependent rule of the contract reads    *)
(* (env.ledger().timestamp()).  The network moves it; no call does.        *)
(***************************************************************************)
EXTENDS Naturals

CONSTANT MaxTime                 \* bound on the timestamps a run explores
ASSUME MaxTimeAssumption == MaxTime \in Nat

VARIABLE now

ClockTypeOK == now \in 0..MaxTime

ClockInit == now = 0

Tick == now < MaxTime /\ now' = now + 1
=============================================================================
