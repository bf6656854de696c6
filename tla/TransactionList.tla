--------------------------- MODULE TransactionList ---------------------------
(***************************************************************************)
(* Wallet::list_transactions (libbtcwallet/src/lib.rs), called while the   *)
(* wallet is at work.  It reads the custodial payments (an await), then the*)
(* lightning payments, and only then takes the metadata's read lock and    *)
(* folds the two lists into what the user sees: three moments of a wallet  *)
(* that moves on in between.  The debug assertions of the fold are not     *)
(* executed, as in a release build.                                        *)
(***************************************************************************)
EXTENDS WalletFunds

VARIABLES
    listPc,                 \* where the call is
    custodial_payments,     \* the two lists as they were read
    lightning_payments

listVars == <<listPc, custodial_payments, lightning_payments>>

ListInit ==
    /\ listPc = "idle"
    /\ custodial_payments = {}
    /\ lightning_payments = <<>>

-----------------------------------------------------------------------------
(* The fold.                                                               *)

\* What the backends answer, as far as the fold looks at it: the ids of the
\* custodial payments, and whether each lightning payment is complete.
CustodialAnswer == {c \in CustId : transfer[c].dir # "unused"}
LightningAnswer ==
    [l \in {k \in LnId : lnPay[k].dir # "unused"} |-> lnPay[l].status = "Succeeded"]

OfType(ids, ty) == {k \in ids : tx_metadata[k].ty = ty}

\* The fees internal_transfers gathers for a trigger: those of the sides of
\* transfers that are listed and blamed on it.
TransferFees(ids, id) ==
    {k \in OfType(ids, "Transfer") : tx_metadata[k].payment_triggering_transfer = id}

\* Transactions of the result: each is a payment as its backend has it, with
\* the fees of transfers added to its own.
Plainly(ids) == {[id |-> k, fees |-> {}] : k \in ids}
WithTransferFees(ids) ==
    {[id |-> k, fees |-> TransferFees(ids, k)] : k \in OfType(ids, "Trigger")}

\* Mutants of Transactions: a payment that caused a transfer is not listed; the
\* node's unpaid invoices are.
TransactionsUntriggered(custodial, lightning) ==
    LET ids == custodial \cup DOMAIN lightning IN
    Plainly(OfType(ids, "Payment"))
       \cup Plainly({l \in OfType(DOMAIN lightning, "None") : lightning[l]})

TransactionsUnpaid(custodial, lightning) ==
    LET ids == custodial \cup DOMAIN lightning IN
    Plainly(OfType(ids, "Payment")) \cup WithTransferFees(ids)
       \cup Plainly(OfType(DOMAIN lightning, "None"))

\* Payments are listed, and triggers with the fees of their transfer; the two
\* sides of a transfer are not. Without metadata, custodial payments are passed
\* over, and the node's are unless they are complete.
Transactions(custodial, lightning) ==
    LET ids == custodial \cup DOMAIN lightning IN
    Plainly(OfType(ids, "Payment")) \cup WithTransferFees(ids)
       \cup Plainly({l \in OfType(DOMAIN lightning, "None") : lightning[l]})

-----------------------------------------------------------------------------
ListCustodial ==
    /\ listPc = "idle"
    /\ custodial_payments' = CustodialAnswer
    /\ listPc' = "lightning"
    /\ UNCHANGED lightning_payments

\* .. Err: the call ends.
ListCustodialFails ==
    /\ listPc = "idle"
    /\ "err" \in Environment
    /\ UNCHANGED listVars

ListLightning ==
    /\ listPc = "lightning"
    /\ lightning_payments' = LightningAnswer
    /\ listPc' = "fold"
    /\ UNCHANGED custodial_payments

\* The call is over, or its process is: its lists are dropped.
Drop ==
    /\ listPc' = "idle"
    /\ custodial_payments' = {}
    /\ lightning_payments' = <<>>

\* Under the read lock: Ok(Transactions(custodial_payments, lightning_payments))
Fold ==
    /\ listPc = "fold"
    /\ Drop

ListTransactions == ListCustodial \/ ListCustodialFails \/ ListLightning \/ Fold

ListNext ==
    \/ Next /\ IF crashes' = crashes THEN UNCHANGED listVars ELSE Drop
    \/ ListTransactions /\ UNCHANGED vars

ListSpec == Init /\ ListInit /\ [][ListNext]_<<vars, listVars>>

-----------------------------------------------------------------------------
\* The fee of a transfer never falls off the list: when the fold finds the
\* custodial side of a transfer, it also finds the payment to blame, as a
\* trigger and in the lists, whichever side that is on and however old they are
\* (the entry's transaction is there; with the lightning list read first, or the
\* trigger marked last, it might not be).
TransferFeesCharged ==
    listPc = "fold" =>
       \A c \in OfType(custodial_payments, "Transfer") :
          \E t \in Transactions(custodial_payments, lightning_payments) : c \in t.fees

\* The lists are read before the metadata, so a transfer that was recorded
\* before the fold is not shown as income, however old the list: the wallet's
\* own invoice is a line of the result only while a task is still to record it
\* or died before it had.
TransfersAreNotIncome ==
    listPc = "fold" =>
       \A t \in Transactions(custodial_payments, lightning_payments) :
          t.id \in LnId /\ lnPay[t.id].dir = "in" =>
             \/ \E u \in Task : pc[u] \in LegPc /\ invoice[u] = t.id
             \/ \E leg \in orphaned : leg.invoice = t.id

\* With nothing under way, what is listed is what there is: the completed
\* receipts, less the payments that have not failed, are the balances of both
\* wallets, through transfers, returned payments and repaid invoices.
Settled ==
    /\ listPc = "idle"
    /\ orphaned = {}
    /\ \A t \in Task : pc[t] \notin LegPc
    /\ \A p \in Payer : payPc[p] \notin {"record", "lost"}
    /\ \A c \in CustId :
          /\ transfer[c].dir = "in" /\ transfer[c].status = "Completed" => Has(c)
          /\ transfer[c].status # "Returned"

Now == Transactions(CustodialAnswer, LightningAnswer)

ListAddsUp ==
    Settled =>
       balance + outbound + onchain
          = InitialFunds.outbound + InitialFunds.onchain
               + SumFunction([k \in {t.id : t \in Now} |-> Worth(k)])

\* What the user could once see does not vanish, whatever is written about it
\* later and whoever is blamed, except for the wallet's own invoices. (A call
\* that is under way changes none of this, so the steps between calls will do.)
Shown == {k \in {t.id : t \in Now} : k \in CustId \/ lnPay[k].dir = "out"}

ShownStays == [][listPc = "idle" => Shown \subseteq Shown']_<<vars, listVars>>

=============================================================================
