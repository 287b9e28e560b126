---------------------------- MODULE MCCallGuard ----------------------------
(***************************************************************************)
(* The entry points that differ in how they take the guard: one that never *)
(* does, three that take it once and the two transfers, that take it twice.*)
(***************************************************************************)
EXTENDS CallGuard, TLC

SomeEntries ==
  "place_sell_order" :> 0 @@ "buy_shares" :> 1 @@ "batch_transfer" :> 1
    @@ "emergency_withdraw" :> 1 @@ "transfer_shares" :> 2
    @@ "transfer_shares_from" :> 2
=============================================================================
