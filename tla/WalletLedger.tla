---------------------------- MODULE WalletLedger ----------------------------
(***************************************************************************)
(* The wallet, with its concurrent rebalances, its three writes for each   *)
(* transfer and its crashes, keeps a TransferLedger.                       *)
(***************************************************************************)
EXTENDS Wallet

StateOf(c) ==
    CASE transfer[c].status = "Pending" -> "moving"
      [] transfer[c].status = "Completed" -> "arrived"
      [] OTHER -> "returned"

\* By the wallet's own invoice, the custodial payment to it.
Transfers ==
    [l \in LnId |->
        LET payments == {c \in CustId \ DepositId : transfer[c].dest = l} IN
        IF payments = {} THEN [state |-> "none", by |-> NoId]
        ELSE LET c == CHOOSE c \in payments : TRUE
             IN [state |-> StateOf(c), by |-> c]]

\* The transfer of the task that is past its payment and not yet done.
Current ==
    LET owners == {t \in Task : pc[t] \in LegPc}
    IN IF owners = {} THEN NoId ELSE invoice[CHOOSE t \in owners : TRUE]

\* A transfer is entered when both of its sides have the entry and the payment
\* it blames is marked.
Entered(e) ==
    /\ e.ty = "Transfer"
    /\ tx_metadata[e.custodial_payment] = e
    /\ tx_metadata[e.lightning_payment] = e
    /\ tx_metadata[e.payment_triggering_transfer].ty = "Trigger"

Entries ==
    {[lightning |-> e.lightning_payment, custodial |-> e.custodial_payment,
      cause |-> e.payment_triggering_transfer] :
        e \in {f \in {tx_metadata[l] : l \in LnId} : Entered(f)}}

Deaths == <<crashes, {t \in Task : pc[t] = "panicked"}>>

Ledger == INSTANCE TransferLedger
             WITH transfers <- Transfers, current <- Current,
                  ledger <- Entries, deaths <- Deaths

\* The rebalances of the monitor and of any number of payments, each with awaits
\* and three separate writes, keep their book as if they were one task that makes
\* one transfer at a time and enters it in one step: none is given up that could
\* still arrive, none is entered before it has arrived, or halfway, or twice, or
\* with a cause that another has, and only deaths leave one without its entry.
KeepsLedger == Ledger!LedgerSpec

=============================================================================
