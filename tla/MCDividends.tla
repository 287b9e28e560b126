---------------------------- MODULE MCDividends ----------------------------
(***************************************************************************)
(* Inputs and state constraints for model-checking Dividends, in one run   *)
(* with the re-entrancy guard: a behaviour is about one of the two.        *)
(***************************************************************************)
EXTENDS MCMarketplace, MCCallGuard, Dividends

VARIABLE part       \* which of the two a behaviour is about

contractVars == <<allVars, guardVars, part>>

ContractInit ==
  /\ DividendsInit /\ GuardInit
  /\ part \in {"dividends", "guard"}

ContractNext ==
  \/ part = "dividends" /\ DividendsNext /\ UNCHANGED <<guardVars, part>>
  \/ part = "guard" /\ GuardNext /\ UNCHANGED <<allVars, part>>

ContractSpec == ContractInit /\ [][ContractNext]_contractVars

(* Dividends and the guard hold what their code can store: no sum of money *)
(* goes negative, no distribution lies in the future, and no frame takes   *)
(* the flag more often than its entry point asks.                          *)
ContractTypeOK == DividendsTypeOK /\ GuardTypeOK

Half == [token |-> 1, withholding |-> 5000, reinvest |-> FALSE]
PolicyChoices == {Half}

Yearly == [perShare |-> 1, interval |-> 1]
ScheduleChoices == {Yearly}

(* Dividends come and go; the income of deposit_distribution stays out.    *)
(* A migration comes while no order is open, and brings the other token.   *)
DividendsOnly ==
  /\ AllOrNobodyWhitelisted /\ ~closed /\ ~delisted
  /\ retired = 0
  /\ Total(accrued) <= 3
  /\ whitelisted = {} => balance = [h \in Holders |-> 0] /\ ~paused
  /\ paused \/ payToken = 2 => seller = [o \in OrderIds |-> None]
  /\ paused => custody = 0 \/ payToken = 2
  /\ otherFunds > 0 => paused /\ payToken = 1
=============================================================================
