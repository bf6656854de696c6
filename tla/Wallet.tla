------------------------------- MODULE Wallet -------------------------------
(***************************************************************************)
(* The wallet at work (libbtcwallet/src/lib.rs): the monitor task, the     *)
(* calls of Wallet::pay and the rebalances they bring about, over the two  *)
(* backends and the transaction metadata they share, with ldk-node's event *)
(* task, the networks, and a process that may die and be started again.    *)
(***************************************************************************)
EXTENDS MonitorTask, PayCall, FiniteSets

CONSTANTS
    DepositAmounts,     \* amounts deposited at the custodial service
    InitialFunds,       \* the node's balances and capacity from its channels so far
    MaxCrashes          \* bound: crashes of the process

ASSUME WalletAssumption ==
    /\ DepositAmounts \subseteq Nat
    /\ InitialFunds \in [inbound: Nat, outbound: Nat, onchain: Nat]
    /\ MaxCrashes \in Nat

VARIABLE crashes        \* crashes so far

taskVars == <<tx_metadata, rebalanceVars, monitorVars, payVars, crashes>>
vars == <<sparkVars, lightningVars, taskVars>>

Init ==
    /\ SparkInit
    /\ LightningInit(InitialFunds.inbound, InitialFunds.outbound, InitialFunds.onchain)
    /\ MetadataInit
    /\ RebalanceInit
    /\ MonitorInit
    /\ PayInit
    /\ pc = [t \in Task |-> IF t = Monitor THEN "list" ELSE "none"]
    /\ crashes = 0

EventTask == HandleEvent /\ UNCHANGED <<sparkVars, taskVars>>

Deposit ==
    /\ \E c \in DepositId, a \in DepositAmounts : SparkDeposit(c, a)
    /\ UNCHANGED <<lightningVars, taskVars>>

\* A payment out of the custodial wallet is delivered; for one of the wallet's
\* own invoices that is its receipt.
Delivered(c) ==
    /\ SparkSettle(c, "Completed")
    /\ \/ transfer[c].dest = NoId /\ UNCHANGED lightningVars
       \/ transfer[c].dest # NoId /\ LnReceive(transfer[c].dest)
    /\ UNCHANGED taskVars

\* .. or it is not: the service returns it, and the node may or may not have
\* seen the failed attempt.
Undelivered(c) ==
    /\ "route" \in Environment
    /\ SparkSettle(c, "Returned")
    /\ \/ UNCHANGED lightningVars
       \/ transfer[c].dest # NoId /\ LnReceiveFails(transfer[c].dest)
    /\ UNCHANGED taskVars

LightningSent(l) == LnSent(l) /\ UNCHANGED <<sparkVars, taskVars>>

LightningSendFails(l) ==
    /\ "route" \in Environment
    /\ LnSendFails(l)
    /\ UNCHANGED <<sparkVars, taskVars>>

OtherLightningReceipt == OtherReceipt /\ UNCHANGED <<sparkVars, taskVars>>

Network ==
    \/ Deposit
    \/ \E c \in CustId : Delivered(c) \/ Undelivered(c)
    \/ \E l \in LnId : LightningSent(l) \/ LightningSendFails(l)
    \/ OtherLightningReceipt

\* The process dies and Wallet::new runs again: tasks, mutex and channel are
\* new, the metadata is read back from the store, the backends live on.
CrashAndRestart ==
    /\ "crash" \in Environment
    /\ crashes < MaxCrashes
    /\ crashes' = crashes + 1
    /\ orphaned' = orphaned \cup {LegOf(t) : t \in {u \in Task : pc[u] \in LegPc}}
    /\ pc' = [t \in Task |-> IF t = Monitor THEN "list"
                             ELSE IF pc[t] = "none" THEN "none" ELSE "finished"]
    /\ mutex' = NoTask
    /\ receiver' = [t \in Task |-> "none"]
    /\ todo' = {} /\ current' = NoId /\ new_txn' = {} /\ old_txn' = {}
    /\ payPc' = [p \in Payer |->
                   IF payPc[p] \in {"attempt", "send", "record"} THEN "lost" ELSE payPc[p]]
    /\ UNCHANGED <<sparkVars, nodeVars, events, tx_metadata, trigger, localVars,
                   snapshot, loop, idx, sent>>

LockStep(t) == Lock(t) /\ UNCHANGED <<monitorVars, payVars, crashes>>
HoldingStep(t) == Holding(t) /\ UNCHANGED <<monitorVars, payVars, crashes>>
MonitorLoop == MonitorStep /\ UNCHANGED <<payVars, crashes>>
PayStep(p) == Pay(p) /\ UNCHANGED <<monitorVars, crashes>>

Next ==
    \/ MonitorLoop
    \/ \E t \in Task : LockStep(t) \/ HoldingStep(t)
    \/ \E p \in Payer : PayStep(p)
    \/ EventTask
    \/ Network
    \/ CrashAndRestart

Spec == Init /\ [][Next]_vars

\* The runtime runs every task that can run; balance_mutex is queued for in
\* order, so a task that waits for it gets it if it keeps being released; and
\* the services deliver, and other receipts arrive, without end.
Fairness ==
    /\ WF_vars(MonitorLoop)
    /\ \A t \in Task : SF_vars(LockStep(t)) /\ WF_vars(HoldingStep(t))
    /\ \A p \in Payer : WF_vars(PayStep(p) /\ payPc[p] # "idle")
    /\ WF_vars(EventTask)
    /\ \A c \in CustId : WF_vars(Delivered(c))
    /\ WF_vars(OtherLightningReceipt)

LiveSpec == Spec /\ Fairness

-----------------------------------------------------------------------------
\* Every variable within its type, every task within its code.
TypeOK ==
    /\ SparkTypeOK /\ LightningTypeOK /\ MetadataTypeOK
    /\ pc \in [Task -> MonitorPc \cup RebalancePc \cup {"none", "finished", "panicked"}]
    /\ RebalanceTypeOK /\ MonitorTypeOK /\ PayTypeOK
    /\ crashes \in Nat

\* Whenever TxMetadataStore::insert is called the key is new: its assertion that
\* it overwrites nothing holds for the monitor, for both entries of a transfer
\* and for a custodial payment, whatever the interleaving and after a restart.
InsertsAreNew ==
    /\ pc[Monitor] = "insert" => ~Has(current)
    /\ \A t \in Task : pc[t] = "insertC" => ~Has(rebalance[t])
    /\ \A t \in Task : pc[t] \in {"insertC", "insertL"} => ~Has(invoice[t])
    /\ \A p \in Payer :
          payPc[p] = "record" /\ sent[p] \in CustId => ~Has(sent[p])

\* The balance mutex keeps every rebalance's money apart: a transfer between
\* the two sides that is under way is the one the holder of the mutex waits for,
\* or its task is dead. No two rebalances ever move the same balance at once.
OneInFlight ==
    \A c \in CustId :
       LET dest == transfer[c].dest IN
       transfer[c].dir = "out" /\ dest # NoId /\ transfer[c].status = "Pending" =>
          \/ \E leg \in orphaned : leg.invoice = dest
          \/ \E t \in Task : /\ mutex = t
                             /\ pc[t] \in LegPc
                             /\ invoice[t] = dest

\* No received transfer is forgotten: its lightning side is recorded as a
\* transfer, or a live task is still about to record it, or its task is dead.
\* A task never gives up a transfer that can still arrive.
ReceivedTransfersAccounted ==
    \A l \in LnId :
       lnPay[l].dir = "in" /\ lnPay[l].status = "Succeeded" =>
          \/ tx_metadata[l].ty = "Transfer"
          \/ \E t \in Task : pc[t] \in LegPc /\ invoice[t] = l
          \/ \E leg \in orphaned : leg.invoice = l

\* The three writes of a finished rebalance agree, although each takes the
\* metadata lock by itself: an entry of a transfer names a custodial payment to
\* the wallet's own received invoice, the custodial side is there whenever the
\* lightning side is, the lightning side follows unless its task is dead, and
\* the payment that is to blame says so.
TransferPaired ==
    \A k \in PaymentId :
       tx_metadata[k].ty = "Transfer" =>
          LET e == tx_metadata[k] IN
          /\ k \in {e.custodial_payment, e.lightning_payment}
          /\ transfer[e.custodial_payment].dest = e.lightning_payment
          /\ lnPay[e.lightning_payment].status = "Succeeded"
          /\ tx_metadata[e.custodial_payment] = e
          /\ tx_metadata[e.payment_triggering_transfer].ty = "Trigger"
          /\ \/ tx_metadata[e.lightning_payment] = e
             \/ \E t \in Task : pc[t] = "insertL" /\ invoice[t] = e.lightning_payment
             \/ \E leg \in orphaned : leg.invoice = e.lightning_payment

\* A payment is to blame for at most one transfer, so no fee is shown twice.
OneTransferPerTrigger ==
    \A j, k \in PaymentId :
       /\ tx_metadata[j].ty = "Transfer"
       /\ tx_metadata[k].ty = "Transfer"
       /\ tx_metadata[j].payment_triggering_transfer = tx_metadata[k].payment_triggering_transfer
       => tx_metadata[j] = tx_metadata[k]

\* set_tx_caused_rebalance finds its trigger to be a plain Payment, so the
\* expect(..) around it never panics ("TODO: This is race-y").
MarkSucceeds ==
    \A t \in Task : pc[t] = "mark" => tx_metadata[trigger[t]].ty = "Payment"

\* However many rebalances wait, a crash leaves at most one transfer without
\* its record.
CrashLosesAtMostOne == Cardinality(orphaned) <= crashes

\* A call of pay pays at most once, and when it answers Err, or is about to try
\* another method, it has paid nothing: each payment out of either side is the
\* one some call has sent and not given up, and Ok means it is on record.
PaysAtMostOnce ==
    LET Owns(p, id) == sent[p] = id /\ payPc[p] \in {"record", "ok", "lost"} IN
    /\ \A c \in CustId : transfer[c].dir = "out" /\ transfer[c].dest = NoId =>
          \E p \in Payer : Owns(p, c)
    /\ \A l \in LnId : lnPay[l].dir = "out" => \E p \in Payer : Owns(p, l)
    /\ \A p \in Payer : payPc[p] = "ok" => Has(sent[p])

\* What is on record stays, through every interleaving and every crash, but for
\* two things. A payment becomes the trigger of a transfer; and "the Payment Id can
\* be repeated if we make a payment, it fails, then we attempt to pay the same
\* (BOLT 11) invoice again": the upsert of a second call makes a trigger a payment
\* again. It only ever does so to the record of another call that returned Ok: no
\* entry of a transfer, no deposit and no custodial payment is lost to it.
OnlyRepayingOverwrites ==
    [][\A k \in PaymentId : Has(k) /\ tx_metadata'[k] # tx_metadata[k] =>
          \/ tx_metadata[k].ty = "Payment" /\ tx_metadata'[k].ty = "Trigger"
          \/ /\ tx_metadata[k].ty = "Trigger" /\ tx_metadata'[k].ty = "Payment"
             /\ \E p, q \in Payer :
                   /\ p # q /\ sent[p] = k /\ sent[q] = k
                   /\ payPc[q] = "ok"
                   /\ payPc[p] = "record" /\ payPc'[p] = "ok"]_vars

-----------------------------------------------------------------------------
\* Every rebalance that is asked for ends, however many wait for the mutex, as
\* long as other receipts keep waking those that wait for their transfer.
RebalancesEnd == \A t \in Task : pc[t] \in RebalancePc ~> pc[t] \notin RebalancePc

\* Every deposit gets its metadata, although the monitor's loop is held up by
\* its rebalances and by the mutex.
DepositsRecorded == \A c \in DepositId : transfer[c].dir = "in" ~> Has(c)

\* "deposits are automatically shifted to minimize fees and ensure maximal
\* security": a custodial balance above the limit does not stay.
LargeBalancesShift ==
    balance > custodial_balance_limit ~> balance <= custodial_balance_limit

-----------------------------------------------------------------------------
(* What the code says of itself and does not keep.                         *)

\* "We cannot have a balance if we have no transactions": the monitor always
\* finds a transaction to blame for a rebalance, and never panics.
MonitorLives == pc[Monitor] # "panicked"

\* "then pay on-chain out of the lightning wallet": a call with an on-chain
\* method only fails if the lightning wallet's on-chain balance is too small.
OnChainFundsPay ==
    \A p \in Payer :
       /\ payPc[p] = "err"
       /\ \E i \in 1..Len(instructions[p]) : instructions[p][i].type = "OnChain"
       => pay_amount[p] > onchain

=============================================================================
