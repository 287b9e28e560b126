----------------------------- MODULE Dividends -----------------------------
(***************************************************************************)
(* Push dividends on top of the marketplace: distribution to the list of   *)
(* registered holders, scheduled distribution, withholding, accrual and    *)
(* claims, the dividend policy, and the migration to another payment       *)
(* token.                                                                  *)
(*                                                                         *)
(* There are two tokens.  `custody` of Marketplace is the contract's       *)
(* balance of whichever is the payment token, otherFunds that of the       *)
(* other.  Dividends read the marketplace's balances and total and change  *)
(* two things of it: its funds and the list of registered holders.         *)
(***************************************************************************)
EXTENDS Marketplace

CONSTANTS
  DividendAmounts,    \* amounts passed to distribute_dividends
  DividendTokens,     \* tokens passed to distribute_dividends
  Policies,           \* records passed to set_dividend_policy
  ReinvestSettings,   \* values passed to set_dividend_reinvestment
  Schedules,          \* records passed to set_dividend_schedule
  Migrating,          \* whether a run calls update_payment_token
  MaxDeclared         \* bound on the dividends a run declares in one token

Tokens == {1, 2}
Policy == [token : Tokens, withholding : 0..10000, reinvest : BOOLEAN]
Schedule == [perShare : Nat \ {0}, interval : Nat \ {0}]

ASSUME DividendsAssumption ==
  /\ DividendAmounts \subseteq Nat \ {0}
  /\ DividendTokens \subseteq Tokens
  /\ Policies \subseteq Policy
  /\ ReinvestSettings \subseteq BOOLEAN
  /\ Schedules \subseteq Schedule
  /\ Migrating \in BOOLEAN
  /\ MaxDeclared \in Nat

VARIABLES
  payToken,           \* DataKey::PaymentToken
  otherFunds,         \* the contract's balance of the other token
  policy,             \* DataKey::DividendPolicy, None when absent
  accrued,            \* DividendPosition.accrued_amount per address
  reinvests,          \* addresses with DividendPosition.reinvestment_enabled
  schedule,           \* DataKey::DividendSchedule, None when absent
  lastDistribution,   \* DataKey::LastDistribution
  declared,           \* sum of DividendHistoryEntry.total_amount per token
  paidOut             \* history: dividends that left the contract per token

positionVars == <<accrued, reinvests>>
dividendVars ==
  <<payToken, otherFunds, policy, positionVars, schedule, lastDistribution,
    declared, paidOut>>
allVars == <<vars, dividendVars>>

(* Every variable holds a value the code could store: no sum of money goes *)
(* negative and the last distribution is not in the future.                *)
DividendsTypeOK ==
  /\ payToken \in Tokens
  /\ otherFunds \in Nat
  /\ custody \in Nat
  /\ registered \subseteq Holders
  /\ policy \in Policies \cup {None}
  /\ accrued \in [Holders -> Nat]
  /\ reinvests \subseteq Holders
  /\ schedule \in Schedules \cup {None}
  /\ lastDistribution \in 0..now
  /\ declared \in [Tokens -> Nat]
  /\ paidOut \in [Tokens -> Nat]

DividendsInit ==
  /\ Init
  /\ payToken = 1
  /\ otherFunds = 0
  /\ policy = None
  /\ accrued = [h \in Holders |-> 0]
  /\ reinvests = {}
  /\ schedule = None
  /\ lastDistribution = 0
  /\ declared = [t \in Tokens |-> 0]
  /\ paidOut = [t \in Tokens |-> 0]

-----------------------------------------------------------------------------
(* _resolve_dividend_policy: without a stored policy, cash in token t. *)
PolicyFor(t) ==
  IF policy = None THEN [token |-> t, withholding |-> 0, reinvest |-> FALSE]
  ELSE policy

FundsIn(t) == IF t = payToken THEN custody ELSE otherFunds

(* n units of t leave the contract, as dividends; the token refuses a      *)
(* transfer the contract cannot cover.                                     *)
PayOut(t, n) ==
  /\ n <= FundsIn(t)
  /\ custody' = IF t = payToken THEN custody - n ELSE custody
  /\ otherFunds' = IF t = payToken THEN otherFunds ELSE otherFunds - n
  /\ paidOut' = [paidOut EXCEPT ![t] = @ + n]

(* Mutant of ProRata: the slice is rounded up. *)
ProRataRoundedUp(amount, h) == (amount * balance[h] + total - 1) \div total

(* _calculate_pro_rata_amount. *)
ProRata(amount, h) == (amount * balance[h]) \div total

(* The registered holders with liquid shares: who is paid, and who is      *)
(* still in the list afterwards.                                           *)
ActiveHolders == {h \in registered : balance[h] > 0}

(* The loop of a distribution.  A holder whose dividend accrues is         *)
(* credited the net amount and the withheld part goes to the admin; any    *)
(* other holder is paid the whole slice.                                   *)
Distribute(pol, amount) ==
  LET Accrues(h) == pol.withholding > 0 \/ pol.reinvest \/ h \in reinvests
      Withheld(h) == (ProRata(amount, h) * pol.withholding) \div 10000
      Outgoing(h) == IF Accrues(h) THEN Withheld(h) ELSE ProRata(amount, h)
  IN  /\ total > 0
      /\ registered # {}
      /\ declared[pol.token] + amount <= MaxDeclared
      /\ PayOut(pol.token, Total([h \in ActiveHolders |-> Outgoing(h)]))
      /\ accrued' = [h \in Holders |->
                       IF h \in ActiveHolders /\ Accrues(h)
                       THEN accrued[h] + ProRata(amount, h) - Withheld(h)
                       ELSE accrued[h]]
      /\ registered' = ActiveHolders
      /\ declared' = [declared EXCEPT ![pol.token] = @ + amount]
      /\ UNCHANGED <<payToken, policy, reinvests, schedule>>
      /\ UNCHANGED <<total, available, balance, bridged, seller, escrow,
                     nextOrder, grant, unlockAt, retired>>
      /\ UNCHANGED <<acc, snapshot, pending, unclaimed, ruleVars>>

DistributeDividends(t, amount) ==
  /\ FN_DIVIDEND \notin fnPaused
  /\ Distribute(PolicyFor(t), amount)
  /\ UNCHANGED lastDistribution

(* Mutant of ProcessScheduledDividend: the next due time is stored. *)
ProcessScheduledDividendAhead ==
  /\ schedule # None
  /\ now >= lastDistribution + schedule.interval
  /\ Distribute(PolicyFor(payToken), schedule.perShare * total)
  /\ lastDistribution' = now + schedule.interval

(* Callable by anyone, and the function pause is not read. *)
ProcessScheduledDividend ==
  /\ schedule # None
  /\ now >= lastDistribution + schedule.interval
  /\ Distribute(PolicyFor(payToken), schedule.perShare * total)
  /\ lastDistribution' = now

(* Paid in the token of the policy in force now, whichever token the       *)
(* dividend accrued in.                                                    *)
ClaimDividends(h) ==
  /\ accrued[h] > 0
  /\ PayOut(PolicyFor(payToken).token, accrued[h])
  /\ accrued' = [accrued EXCEPT ![h] = 0]
  /\ UNCHANGED <<bookVars, acc, snapshot, pending, unclaimed, ruleVars>>
  /\ UNCHANGED <<payToken, policy, reinvests, schedule, lastDistribution, declared>>

-----------------------------------------------------------------------------
SetDividendPolicy(p) ==
  /\ policy' = p
  /\ UNCHANGED <<vars, payToken, otherFunds, positionVars, schedule,
                 lastDistribution, declared, paidOut>>

SetDividendReinvestment(h, enabled) ==
  /\ reinvests' = IF enabled THEN reinvests \cup {h} ELSE reinvests \ {h}
  /\ UNCHANGED <<vars, payToken, otherFunds, policy, accrued, schedule,
                 lastDistribution, declared, paidOut>>

SetDividendSchedule(s) ==
  /\ schedule' = s
  /\ UNCHANGED <<vars, payToken, otherFunds, policy, positionVars,
                 lastDistribution, declared, paidOut>>

(* _assert_no_outstanding_unclaimed: what it looks at is the contract's    *)
(* balance and, for registered holders, what is settled or accrued.        *)
NothingOutstanding ==
  /\ custody = 0
  /\ \A h \in registered :
       /\ pending[h] = 0
       /\ policy # None =>
            (policy.token = payToken => accrued[h] = 0)

(* The other token becomes the payment token. *)
UpdatePaymentToken ==
  /\ paused
  /\ ~delisted
  /\ NothingOutstanding
  /\ payToken' = 3 - payToken
  /\ custody' = otherFunds
  /\ otherFunds' = custody
  /\ UNCHANGED <<bookVars, acc, snapshot, pending, unclaimed, ruleVars>>
  /\ UNCHANGED <<policy, positionVars, schedule, lastDistribution, declared, paidOut>>

(* Anyone can send the other token to the contract's address. *)
FundContractInOther(amount) ==
  /\ otherFunds + amount <= MaxFunds
  /\ otherFunds' = otherFunds + amount
  /\ UNCHANGED <<vars, payToken, policy, positionVars, schedule,
                 lastDistribution, declared, paidOut>>

DividendStep ==
  \/ \E t \in DividendTokens, amount \in DividendAmounts :
       DistributeDividends(t, amount)
  \/ ProcessScheduledDividend
  \/ \E h \in Holders : ClaimDividends(h)
  \/ \E p \in Policies : SetDividendPolicy(p)
  \/ \E h \in Holders, enabled \in ReinvestSettings :
       SetDividendReinvestment(h, enabled)
  \/ \E s \in Schedules : SetDividendSchedule(s)
  \/ Migrating /\ UpdatePaymentToken
  \/ Migrating /\ \E amount \in Funds : FundContractInOther(amount)

DividendsNext ==
  \/ Next /\ UNCHANGED dividendVars
  \/ DividendStep

DividendsSpec == DividendsInit /\ [][DividendsNext]_allVars

-----------------------------------------------------------------------------
(* Safety. *)

(* "Integer division truncates, so the sum of all slices never exceeds     *)
(* total_amount" (lib.rs:990-991): what was paid, what was                 *)
(* withheld and what is still accrued stay within what was declared,       *)
(* whatever was bought, burned, escrowed or re-sized between distributions *)
(* and however often the policy changed.  Units of both tokens are counted *)
(* alike, because a claim may pay in another token than the one accrued.   *)
DividendsWithinDeclared ==
  paidOut[1] + paidOut[2] + Total(accrued) <= declared[1] + declared[2]
=============================================================================
