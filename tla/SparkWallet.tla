---------------------------- MODULE SparkWallet ----------------------------
(***************************************************************************)
(* The custodial wallet: the adapter of custodial_wallet.rs together with  *)
(* the Spark service behind it, as the wallet sees both.  The service is   *)
(* outside the repository; its transfers and the locally known balance are *)
(* modelled from what the adapter calls and returns.                       *)
(***************************************************************************)
EXTENDS WalletIds

CONSTANT DepositId      \* ids of transfers into the wallet; the rest pay out of it

ASSUME DepositAssumption == DepositId \subseteq CustId

VARIABLES transfer,     \* the service's transfers, by id
          balance       \* get_balance: funds claimed and not spent

sparkVars == <<transfer, balance>>

\* dest is the lightning invoice a payment out of the custodial wallet is for,
\* when that invoice is the wallet's own. A "Returned" payment is TxStatus
\* Failed whose funds have not been claimed back yet.
Transfer == [dir: {"unused", "in", "out"}, amount: Nat,
             status: {"Pending", "Returned", "Completed", "Failed"},
             dest: LnId \cup {NoId}]

UnusedTransfer ==
    [dir |-> "unused", amount |-> 0, status |-> "Pending", dest |-> NoId]

SparkInit ==
    /\ transfer = [c \in CustId |-> UnusedTransfer]
    /\ balance = 0

SparkTypeOK ==
    /\ transfer \in [CustId -> Transfer]
    /\ balance \in Nat

UnusedCustIds == {c \in CustId \ DepositId : transfer[c].dir = "unused"}

\* list_payments, without the outbound transfers the monitor skips.
ListedInbound == {c \in DepositId : transfer[c].dir = "in"}

-----------------------------------------------------------------------------
\* pay hands on the invoice, not the amount its caller gives: what is paid is
\* what the invoice asks for. pay_lightning_invoice accepts the payment, which is
\* then under way, and its funds are no longer part of the balance.
SparkPay(c, dest, asked) ==
    /\ c \in UnusedCustIds
    /\ asked <= balance
    /\ transfer' = [transfer EXCEPT ![c] =
                       [dir |-> "out", amount |-> asked,
                        status |-> "Pending", dest |-> dest]]
    /\ balance' = balance - asked

\* The call answers Err: nothing was sent. Besides errors the environment is
\* said to produce, it does so for want of funds (or of ids, a model bound), and
\* when the invoice names no amount, since nobody tells the service one.
SparkPayFails(amounts) ==
    /\ \/ "err" \in Environment
       \/ \A asked \in amounts : asked > balance
       \/ UnusedCustIds = {}
    /\ UNCHANGED sparkVars

\* Somebody pays an invoice of the custodial wallet.
SparkDeposit(c, amount) ==
    /\ c \in DepositId
    /\ transfer[c].dir = "unused"
    /\ transfer' = [transfer EXCEPT ![c] =
                       [dir |-> "in", amount |-> amount,
                        status |-> "Pending", dest |-> NoId]]
    /\ UNCHANGED balance

\* sync_wallet claims the transfers that wait for it, one after the other:
\* deposits, and payments that came back.
Claimable == {c \in CustId :
                \/ transfer[c].dir = "in" /\ transfer[c].status = "Pending"
                \/ transfer[c].dir = "out" /\ transfer[c].status = "Returned"}

SparkClaim(c) ==
    /\ c \in Claimable
    /\ transfer' = [transfer EXCEPT ![c].status =
                       IF @ = "Pending" THEN "Completed" ELSE "Failed"]
    /\ balance' = balance + transfer[c].amount

\* A payment out of the custodial wallet reaches its destination or comes back.
SparkSettle(c, status) ==
    /\ transfer[c].dir = "out"
    /\ transfer[c].status = "Pending"
    /\ transfer' = [transfer EXCEPT ![c].status = status]
    /\ UNCHANGED balance

=============================================================================
