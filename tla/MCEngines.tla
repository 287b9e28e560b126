----------------------------- MODULE MCEngines -----------------------------
(***************************************************************************)
(* The two engines of the backend in one run.  They share no state, so a   *)
(* behaviour runs one of them; the other keeps its initial state.          *)
(***************************************************************************)
EXTENDS MatchingEngine, LedgerIndexing

VARIABLE engine     \* which engine this behaviour runs

(* A chain 1-2-3 and a fork 1-4; some blocks bring XDR to decode. *)
SomeLedgers ==
  {[hash |-> 1, prev |-> 9, seq |-> 1, xdr |-> TRUE],
   [hash |-> 2, prev |-> 1, seq |-> 2, xdr |-> FALSE],
   [hash |-> 3, prev |-> 2, seq |-> 3, xdr |-> TRUE],
   [hash |-> 4, prev |-> 1, seq |-> 2, xdr |-> TRUE]}

EnginesInit == MatchInit /\ IndexInit /\ engine \in {"matching", "indexing"}

EnginesNext ==
  \/ engine = "matching" /\ MatchNext /\ UNCHANGED <<indexVars, engine>>
  \/ engine = "indexing" /\ IndexNext /\ UNCHANGED <<matchVars, engine>>

enginesVars == <<matchVars, indexVars, engine>>

EnginesSpec == EnginesInit /\ [][EnginesNext]_enginesVars /\ IndexFairness

EnginesTypeOK == MatchTypeOK /\ IndexTypeOK
=============================================================================
