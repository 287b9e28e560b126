----------------------------- MODULE CallGuard -----------------------------
(***************************************************************************)
(* The re-entrancy guard, step by step: how a call takes the flag, calls   *)
(* the token contract (which may call back into the marketplace), and      *)
(* releases the flag; and how a panic rolls the transaction back.          *)
(*                                                                         *)
(* The other modules treat a call as one step.  This one is why they may:  *)
(* while a guarded call is in its body no other guarded body runs, and no  *)
(* path leaves the flag set.                                               *)
(***************************************************************************)
EXTENDS Naturals, Sequences

CONSTANTS
  Entries,        \* Entries[f]: how often entry point f takes the guard
  MaxDepth        \* bound on nested calls

EntryPoints == DOMAIN Entries

ASSUME GuardAssumption ==
  /\ Entries \in [EntryPoints -> 0..2]
  /\ MaxDepth \in Nat \ {0}

VARIABLES
  guard,          \* DataKey::ReentrancyGuard, as the transaction sees it
  committed,      \* the same flag in the ledger
  stack,          \* frames, innermost last: the entry point, how many times
                  \* it still has to take the guard, and whether it took it
  outcome         \* how the last transaction ended

guardVars == <<guard, committed, stack, outcome>>

Frame == [fn : EntryPoints, toTake : 0..2]
Outcomes == {"none", "ok", "panicked", "reentrancy", "reentrancy at the top"}

GuardInit ==
  /\ guard = FALSE
  /\ committed = FALSE
  /\ stack = <<>>
  /\ outcome = "none"

Running == stack # <<>>
Top == stack[Len(stack)]
InBody(frame) == frame.toTake = 0
Guarded(frame) == Entries[frame.fn] > 0

-----------------------------------------------------------------------------
(* The host rolls back every write of a transaction that panics. *)
Abort(result) ==
  /\ stack' = <<>>
  /\ guard' = committed
  /\ outcome' = result
  /\ UNCHANGED committed

(* A transaction starts, or the token called by the innermost body calls   *)
(* back.                                                                   *)
Call(f) ==
  /\ Running => InBody(Top)
  /\ Len(stack) < MaxDepth
  /\ stack' = Append(stack, [fn |-> f, toTake |-> Entries[f]])
  /\ UNCHANGED <<guard, committed, outcome>>

(* Mutant of TakeGuard: the flag is set without being tested. *)
TakeGuardBlindly ==
  /\ Running /\ Top.toTake > 0
  /\ guard' = TRUE
  /\ stack' = [stack EXCEPT ![Len(stack)].toTake = @ - 1]
  /\ UNCHANGED <<committed, outcome>>

(* reentrancy_guard_enter, once per call of it in the entry point. *)
TakeGuard ==
  /\ Running /\ Top.toTake > 0
  /\ ~guard
  /\ guard' = TRUE
  /\ stack' = [stack EXCEPT ![Len(stack)].toTake = @ - 1]
  /\ UNCHANGED <<committed, outcome>>

RefuseReentry ==
  /\ Running /\ Top.toTake > 0
  /\ guard
  /\ Abort(IF Len(stack) = 1 THEN "reentrancy at the top" ELSE "reentrancy")

(* A failed check: whether or not it clears the flag first, as most early  *)
(* exits do, the panic that follows undoes it.                             *)
Panic == Running /\ InBody(Top) /\ Abort("panicked")

(* Mutant of Release: an exit path forgets the flag. *)
ReleaseNothing == guard

(* The flag after the innermost call returns. *)
Release == IF Guarded(Top) THEN FALSE ELSE guard

Return ==
  /\ Running /\ InBody(Top)
  /\ guard' = Release
  /\ stack' = SubSeq(stack, 1, Len(stack) - 1)
  /\ IF Len(stack) = 1
     THEN committed' = guard' /\ outcome' = "ok"
     ELSE UNCHANGED <<committed, outcome>>

GuardNext ==
  \/ \E f \in EntryPoints : Call(f)
  \/ TakeGuard
  \/ RefuseReentry
  \/ Panic
  \/ Return

GuardSpec == GuardInit /\ [][GuardNext]_guardVars

-----------------------------------------------------------------------------
(* Every variable holds a value the guard's code can store: no frame takes *)
(* the flag more often than its entry point asks.                          *)
GuardTypeOK ==
  /\ guard \in BOOLEAN
  /\ committed \in BOOLEAN
  /\ stack \in Seq(Frame) /\ Len(stack) <= MaxDepth
  /\ outcome \in Outcomes

(* No two guarded bodies are on the stack together, so no callback of a    *)
(* token sees a guarded call half done.                                    *)
OneGuardedBody ==
  \A i, j \in 1..Len(stack) :
    /\ Guarded(stack[i]) /\ InBody(stack[i])
    /\ Guarded(stack[j]) /\ InBody(stack[j])
    => i = j

(* Between transactions the flag is clear: no sequence of nested calls,    *)
(* returns and panics can lock the guarded entry points for good.          *)
NeverLockedOut == stack = <<>> => ~guard /\ ~committed

(* A call that no other call is running around is never refused as         *)
(* re-entrant (the basic transfer test, lib.rs:6536).                      *)
TopLevelNeverRefused == outcome # "reentrancy at the top"
=============================================================================
