-------------------------- MODULE BalanceDecisions --------------------------
(***************************************************************************)
(* Every decision of BalancePolicy over every combination of a receivable  *)
(* estimate, a custodial balance and a requested amount drawn from Amounts.*)
(* The variables are the arguments the wallet would read from its two      *)
(* backends; a step is another reading, since both backends change behind  *)
(* the wallet's back.                                                      *)
(***************************************************************************)
EXTENDS BalancePolicy

CONSTANT Amounts

ASSUME AmountsAssumption == Amounts \subseteq Nat

VARIABLES receivable, custodial, requested

vars == <<receivable, custodial, requested>>

Init ==
    /\ receivable \in Amounts
    /\ custodial \in Amounts
    /\ requested \in Amounts

Next ==
    /\ receivable' \in Amounts
    /\ custodial' \in Amounts
    /\ requested' \in Amounts

Spec == Init /\ [][Next]_vars

transfer == get_balance_amt(receivable, custodial)

uri == SingleUseReceiveUri(receivable, requested)

\* Moving the amount get_balance_amt names leaves at most the limit in custody,
\* and when it names none the custodial balance is at most rebalance_min above
\* the limit: the cap on what is entrusted to the custodian.
CustodyCapped ==
    /\ transfer # None => custodial - transfer <= custodial_balance_limit
    /\ transfer = None =>
          custodial <= custodial_balance_limit + rebalance_min

\* A transfer either drains the custodial balance or stays clear of the margin
\* by which the receivable amount may be overestimated: the wallet never names
\* an amount that is neither worth a channel nor sure to fit the existing ones.
TransferFitsOrDrains ==
    transfer # None =>
       \/ transfer = custodial
       \/ transfer + rebalance_min <= receivable

\* One transfer settles the matter: whether it used up the channel's inbound
\* capacity or bought a channel of any size, the balances it leaves behind call
\* for no further transfer. The monitor asks every second, so a policy without
\* this would shuttle money, and fees, for ever.
TransferSettles ==
    transfer # None =>
       IF transfer <= receivable
       THEN get_balance_amt(receivable - transfer, custodial - transfer) = None
       ELSE \A opened \in Amounts :
               get_balance_amt(opened, custodial - transfer) = None

\* Receiving an amount the custodian may hold never costs a new channel: when
\* the custodial side does not take it, the channels' estimate covers it.
SmallReceiveNeedsNoChannel ==
    requested <= custodial_balance_limit => uri.invoice # "Bolt11Jit"

=============================================================================
