----------------------------- MODULE Rebalance -----------------------------
(***************************************************************************)
(* do_custodial_rebalance (libbtcwallet/src/lib.rs): under balance_mutex,  *)
(* pay an invoice of the lightning wallet out of the custodial wallet, wait*)
(* until it is received, and record the transfer.  The monitor task runs   *)
(* it, and so does the task that each successful lightning payment spawns. *)
(*                                                                         *)
(* Every await of the code ends an action, and so does every write to the  *)
(* metadata, since the runtime has several threads.  The synchronous reads *)
(* of get_balance_amt are one step.                                        *)
(***************************************************************************)
EXTENDS BalancePolicy, SparkWallet, LightningWallet, TxMetadata

CONSTANT InvoiceHash    \* ids that are payment hashes of other people's invoices

ASSUME InvoiceAssumption == InvoiceHash \subseteq LnId

VARIABLES
    pc,         \* where the monitor and each spawned task are
    mutex,      \* who holds balance_mutex
    trigger,    \* triggering_transaction_id of each task's rebalance
    amount,     \* transfer_amt
    invoice,    \* inv, by its payment hash
    rebalance,  \* rebalance_id
    orphaned    \* history: transfers whose task died before it had recorded them

walletVars == <<sparkVars, lightningVars, tx_metadata>>
localVars == <<amount, invoice, rebalance>>
rebalanceVars == <<pc, mutex, trigger, localVars, orphaned>>

RebalancePc == {"lock", "check", "invoice", "custpay", "poll", "subscribe",
                "wait", "mark", "insertC", "insertL"}

\* The task holds the mutex.
LockedPc == RebalancePc \ {"lock"}

\* The custodial payment is made and its two entries are not both written.
LegPc == LockedPc \ {"check", "invoice", "custpay"}

Leg == [trigger: PaymentId, rebalance: CustId, invoice: LnId]

LegOf(t) == [trigger |-> trigger[t], rebalance |-> rebalance[t], invoice |-> invoice[t]]

RebalanceInit ==
    /\ mutex = NoTask
    /\ trigger = [t \in Task |-> NoId]
    /\ amount = [t \in Task |-> 0]
    /\ invoice = [t \in Task |-> NoId]
    /\ rebalance = [t \in Task |-> NoId]
    /\ orphaned = {}

\* The rebalance tasks are within their code, holding what they need there.
RebalanceTypeOK ==
    /\ mutex \in Task \cup {NoTask}
    /\ orphaned \subseteq Leg
    /\ amount \in [Task -> Nat]
    /\ trigger \in [Task -> PaymentId \cup {NoId}]
    /\ invoice \in [Task -> LnId \cup {NoId}]
    /\ rebalance \in [Task -> CustId \cup {NoId}]
    /\ \A t \in Task :
          /\ pc[t] \in RebalancePc => trigger[t] \in PaymentId
          /\ pc[t] \in LegPc \cup {"custpay"} => invoice[t] \in LnId
          /\ pc[t] \in LegPc => rebalance[t] \in CustId

-----------------------------------------------------------------------------
Goto(t, label) == pc' = [pc EXCEPT ![t] = label]

\* Where the caller goes on once the rebalance returns: the monitor to the
\* sleep of its loop, a spawned task to its end.
AfterRebalance(t) == IF t = Monitor THEN "sync" ELSE "finished"

\* A mutant of Return: the mutex is kept.
ReturnHolding(t) ==
    /\ Goto(t, AfterRebalance(t))
    /\ UNCHANGED mutex

\* Returning drops the mutex guard.
Return(t) ==
    /\ Goto(t, AfterRebalance(t))
    /\ mutex' = NoTask

\* What one pass over ln_wallet.list_payments concludes about the invoice: only
\* a payment of kind Bolt11 with its hash is looked at.
ReceivedStatus(t) ==
    IF lnPay[invoice[t]].kind = "Bolt11" THEN lnPay[invoice[t]].status ELSE "Pending"

-----------------------------------------------------------------------------
(* Mutants of the steps below: the mutex taken while another task holds it;*)
(* the wait for the receipt cut short; the trigger not told.               *)

LockAnyway(t) ==
    /\ pc[t] = "lock"
    /\ mutex' = t
    /\ Goto(t, "check")
    /\ UNCHANGED <<walletVars, trigger, localVars, orphaned>>

PollOnce(t) ==
    /\ pc[t] = "poll"
    /\ \/ /\ ReceivedStatus(t) = "Succeeded"
          /\ Goto(t, "mark")
          /\ UNCHANGED mutex
       \/ /\ ReceivedStatus(t) # "Succeeded"
          /\ Return(t)
    /\ UNCHANGED <<walletVars, trigger, localVars, orphaned>>

MarkNothing(t) ==
    /\ pc[t] = "mark"
    /\ Goto(t, "insertC")
    /\ UNCHANGED <<walletVars, mutex, trigger, localVars, orphaned>>

-----------------------------------------------------------------------------
Lock(t) ==
    /\ pc[t] = "lock"
    /\ mutex = NoTask
    /\ mutex' = t
    /\ Goto(t, "check")
    /\ UNCHANGED <<walletVars, trigger, localVars, orphaned>>

Check(t) ==
    /\ pc[t] = "check"
    /\ LET transfer_amt == get_balance_amt(inbound, balance) IN
       \/ /\ transfer_amt # None
          /\ amount' = [amount EXCEPT ![t] = transfer_amt]
          /\ Goto(t, "invoice")
          /\ UNCHANGED mutex
       \/ /\ transfer_amt = None
          /\ Return(t)
          /\ UNCHANGED amount
    /\ UNCHANGED <<walletVars, trigger, invoice, rebalance, orphaned>>

OwnInvoiceIds == UnusedLnIds \ InvoiceHash

\* ln_wallet.get_bolt11_invoice: Ok
GetInvoice(t) ==
    /\ pc[t] = "invoice"
    /\ \E l \in OwnInvoiceIds :
          /\ LnInvoice(l, amount[t])
          /\ invoice' = [invoice EXCEPT ![t] = l]
    /\ Goto(t, "custpay")
    /\ UNCHANGED <<sparkVars, tx_metadata, mutex, trigger, amount, rebalance, orphaned>>

\* .. Err (or no id is left, a bound of the model)
GetInvoiceFails(t) ==
    /\ pc[t] = "invoice"
    /\ "err" \in Environment \/ OwnInvoiceIds = {}
    /\ Return(t)
    /\ UNCHANGED <<walletVars, trigger, localVars, orphaned>>

\* custodial.pay: Ok(rebalance_id). The invoice says how much.
CustodialPay(t) ==
    /\ pc[t] = "custpay"
    /\ \E c \in UnusedCustIds :
          /\ SparkPay(c, invoice[t], lnPay[invoice[t]].amount)
          /\ rebalance' = [rebalance EXCEPT ![t] = c]
    /\ Goto(t, "poll")
    /\ UNCHANGED <<lightningVars, tx_metadata, mutex, trigger, amount, invoice, orphaned>>

\* .. Err
CustodialPayFails(t) ==
    /\ pc[t] = "custpay"
    /\ SparkPayFails({lnPay[invoice[t]].amount})
    /\ Return(t)
    /\ UNCHANGED <<lightningVars, tx_metadata, trigger, localVars, orphaned>>

Poll(t) ==
    /\ pc[t] = "poll"
    /\ \/ /\ ReceivedStatus(t) = "Succeeded"
          /\ Goto(t, "mark")
          /\ UNCHANGED mutex
       \/ /\ ReceivedStatus(t) = "Pending"
          /\ Goto(t, "subscribe")
          /\ UNCHANGED mutex
       \/ /\ ReceivedStatus(t) = "Failed"
          /\ Return(t)
    /\ UNCHANGED <<walletVars, trigger, localVars, orphaned>>

Subscribe(t) ==
    /\ pc[t] = "subscribe"
    /\ CloneReceiver(t)
    /\ Goto(t, "wait")
    /\ UNCHANGED <<sparkVars, tx_metadata, mutex, trigger, localVars, orphaned>>

Wake(t) ==
    /\ pc[t] = "wait"
    /\ ReceiptSeen(t)
    /\ Goto(t, "poll")
    /\ UNCHANGED <<sparkVars, tx_metadata, mutex, trigger, localVars, orphaned>>

\* set_tx_caused_rebalance(..).expect(..): Ok
Mark(t) ==
    /\ pc[t] = "mark"
    /\ set_tx_caused_rebalance(trigger[t])
    /\ Goto(t, "insertC")
    /\ UNCHANGED <<sparkVars, lightningVars, mutex, trigger, localVars, orphaned>>

\* .. Err: the task panics, unwinding drops the guard.
MarkPanics(t) ==
    /\ pc[t] = "mark"
    /\ set_tx_caused_rebalance_fails(trigger[t])
    /\ Goto(t, "panicked")
    /\ mutex' = NoTask
    /\ orphaned' = orphaned \cup {LegOf(t)}
    /\ UNCHANGED <<sparkVars, lightningVars, trigger, localVars>>

RebalanceMetadata(t) ==
    TransferToNonCustodial(rebalance[t], invoice[t], trigger[t])

\* A mutant of InsertCustodial: the entry is written for the trigger.
InsertAtTrigger(t) ==
    /\ pc[t] = "insertC"
    /\ do_set(trigger[t], RebalanceMetadata(t))
    /\ Goto(t, "insertL")
    /\ UNCHANGED <<sparkVars, lightningVars, mutex, trigger, localVars, orphaned>>

InsertCustodial(t) ==
    /\ pc[t] = "insertC"
    /\ do_set(rebalance[t], RebalanceMetadata(t))
    /\ Goto(t, "insertL")
    /\ UNCHANGED <<sparkVars, lightningVars, mutex, trigger, localVars, orphaned>>

InsertLightning(t) ==
    /\ pc[t] = "insertL"
    /\ do_set(invoice[t], RebalanceMetadata(t))
    /\ Return(t)
    /\ UNCHANGED <<sparkVars, lightningVars, trigger, localVars, orphaned>>

\* What a task that holds the mutex does next.
Holding(t) ==
    \/ Check(t)
    \/ GetInvoice(t) \/ GetInvoiceFails(t)
    \/ CustodialPay(t) \/ CustodialPayFails(t)
    \/ Poll(t) \/ Subscribe(t) \/ Wake(t)
    \/ Mark(t) \/ MarkPanics(t)
    \/ InsertCustodial(t) \/ InsertLightning(t)

=============================================================================
