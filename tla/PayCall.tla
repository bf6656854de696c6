------------------------------ MODULE PayCall ------------------------------
(***************************************************************************)
(* Calls of Wallet::pay (libbtcwallet/src/lib.rs).  A call reads both      *)
(* balances once, then tries the payment methods one after the other in    *)
(* four loops: custodial lightning, own lightning, custodial on-chain, own *)
(* on-chain.  It takes no lock against the rebalances.                     *)
(***************************************************************************)
EXTENDS Rebalance, Sequences

CONSTANTS
    instructions,       \* the payment methods of each call, in order
    pay_amount,         \* the amount of each call
    FeeEstimates        \* fees the custodial estimate_fee may answer

\* What a method asks for: an amount, or any.
Asked == {amounts \in SUBSET Nat : \A a, b \in amounts : a = b}

Method == [type: {"Bolt11"}, hash: InvoiceHash, amount: Asked]
             \cup [type: {"Bolt12", "OnChain"}, hash: {NoId}, amount: Asked]

ASSUME PayAssumption ==
    /\ instructions \in [Payer -> Seq(Method)]
    /\ \A p \in Payer : Len(instructions[p]) > 0
    /\ pay_amount \in [Payer -> Nat]
    /\ FeeEstimates \subseteq Nat

VARIABLES
    payPc,      \* where each call is
    snapshot,   \* custodial_balance and available_ln, read when it began
    loop, idx,  \* which of the four loops, and which method of it
    sent        \* the id of the payment it sent

payVars == <<payPc, snapshot, loop, idx, sent>>
payRest == <<pc, mutex, trigger, localVars, orphaned>>

PayPc == {"idle", "attempt", "send", "record", "ok", "err", "lost"}

PayInit ==
    /\ payPc = [p \in Payer |-> "idle"]
    /\ snapshot = [p \in Payer |-> [custodial |-> 0, lightning |-> 0]]
    /\ loop = [p \in Payer |-> 1]
    /\ idx = [p \in Payer |-> 1]
    /\ sent = [p \in Payer |-> NoId]

\* The loops stay within the methods; what is recorded was sent.
PayTypeOK ==
    /\ payPc \in [Payer -> PayPc]
    /\ snapshot \in [Payer -> [custodial: Nat, lightning: Nat]]
    /\ loop \in [Payer -> 1..5]
    /\ idx \in [Payer -> Nat \ {0}]
    /\ sent \in [Payer -> PaymentId \cup {NoId}]
    /\ \A p \in Payer :
          /\ idx[p] <= Len(instructions[p])
          /\ payPc[p] = "send" => loop[p] <= 4
          /\ payPc[p] \in {"record", "ok"} => sent[p] \in PaymentId

Custodial(p) == loop[p] \in {1, 3}
MethodOf(p) == instructions[p][idx[p]]
Fits(p) == loop[p] \in {1, 2} <=> MethodOf(p).type # "OnChain"
Available(p) == IF Custodial(p) THEN snapshot[p].custodial ELSE snapshot[p].lightning
Fees(p) == IF Custodial(p) THEN FeeEstimates ELSE {0}

PayGoto(p, label) == payPc' = [payPc EXCEPT ![p] = label]

NextMethod(p) ==
    IF idx[p] < Len(instructions[p])
    THEN /\ idx' = [idx EXCEPT ![p] = @ + 1]
         /\ UNCHANGED loop
    ELSE /\ idx' = [idx EXCEPT ![p] = 1]
         /\ loop' = [loop EXCEPT ![p] = @ + 1]

-----------------------------------------------------------------------------
PayStart(p) ==
    /\ payPc[p] = "idle"
    /\ snapshot' = [snapshot EXCEPT ![p] = [custodial |-> balance, lightning |-> outbound]]
    /\ PayGoto(p, "attempt")
    /\ UNCHANGED <<walletVars, loop, idx, sent, payRest>>

\* The method is not for this loop, or does not pass the checks before paying:
\* the balance read at the start, the fee estimate (the custodial service only
\* estimates BOLT 11, and may answer Err), and the sum of the two.
PaySkip(p) ==
    /\ payPc[p] = "attempt"
    /\ loop[p] <= 4
    /\ \/ ~Fits(p)
       \/ pay_amount[p] > Available(p)
       \/ Custodial(p) /\ ("err" \in Environment \/ MethodOf(p).type # "Bolt11")
       \/ \E fee \in Fees(p) : fee + pay_amount[p] > Available(p)
    /\ NextMethod(p)
    /\ UNCHANGED <<walletVars, payPc, snapshot, sent, payRest>>

\* The checks pass; the lightning wallet estimates every fee as zero.
PayEstimate(p) ==
    /\ payPc[p] = "attempt"
    /\ loop[p] <= 4
    /\ Fits(p)
    /\ Custodial(p) => MethodOf(p).type = "Bolt11"
    /\ \E fee \in Fees(p) : fee + pay_amount[p] <= Available(p)
    /\ PayGoto(p, "send")
    /\ UNCHANGED <<walletVars, snapshot, loop, idx, sent, payRest>>

\* pay_custodial's custodial.pay: Ok(id). The amount of the call was compared
\* with the balance; what is paid is the invoice's.
PaySendCustodial(p) ==
    /\ payPc[p] = "send"
    /\ Custodial(p)
    /\ \E c \in UnusedCustIds, asked \in MethodOf(p).amount :
          /\ SparkPay(c, NoId, asked)
          /\ sent' = [sent EXCEPT ![p] = c]
    /\ PayGoto(p, "record")
    /\ UNCHANGED <<lightningVars, tx_metadata, snapshot, loop, idx, payRest>>

\* The payment id: a BOLT 11 invoice's own hash, a new one for other methods.
LnIdsOf(method) ==
    IF method.type = "Bolt11" THEN {method.hash} ELSE OwnInvoiceIds

\* A mutant of PaySendLightning: the loop goes on although the payment is sent.
PaySendOn(p) ==
    /\ payPc[p] = "send"
    /\ ~Custodial(p)
    /\ \E l \in LnIdsOf(MethodOf(p)) :
          /\ LnSend(l, MethodOf(p).type, MethodOf(p).amount, pay_amount[p])
          /\ sent' = [sent EXCEPT ![p] = l]
    /\ PayGoto(p, "attempt")
    /\ NextMethod(p)
    /\ UNCHANGED <<sparkVars, tx_metadata, snapshot, payRest>>

\* pay_lightning's ln_wallet.pay: Ok(id)
PaySendLightning(p) ==
    /\ payPc[p] = "send"
    /\ ~Custodial(p)
    /\ \E l \in LnIdsOf(MethodOf(p)) :
          /\ LnSend(l, MethodOf(p).type, MethodOf(p).amount, pay_amount[p])
          /\ sent' = [sent EXCEPT ![p] = l]
    /\ PayGoto(p, "record")
    /\ UNCHANGED <<sparkVars, tx_metadata, snapshot, loop, idx, payRest>>

\* Either answers Err: on to the next method.
PaySendFails(p) ==
    /\ payPc[p] = "send"
    /\ \/ Custodial(p) /\ SparkPayFails(MethodOf(p).amount)
       \/ /\ ~Custodial(p)
          /\ \/ "err" \in Environment
             \/ \A l \in LnIdsOf(MethodOf(p)) :
                   ~LnPayable(l, MethodOf(p).type, MethodOf(p).amount, pay_amount[p])
          /\ UNCHANGED sparkVars
    /\ PayGoto(p, "attempt")
    /\ NextMethod(p)
    /\ UNCHANGED <<lightningVars, tx_metadata, snapshot, sent, payRest>>

\* insert of a custodial payment; pay returns Ok.
PayRecordCustodial(p) ==
    /\ payPc[p] = "record"
    /\ sent[p] \in CustId
    /\ do_set(sent[p], Plain("Payment"))
    /\ PayGoto(p, "ok")
    /\ UNCHANGED <<sparkVars, lightningVars, snapshot, loop, idx, sent, payRest>>

\* upsert of a lightning payment; pay spawns a rebalance it is to blame for and
\* returns Ok.
PayRecordLightning(p) ==
    /\ payPc[p] = "record"
    /\ sent[p] \in LnId
    /\ do_set(sent[p], Plain("Payment"))
    /\ Goto(p, "lock")
    /\ trigger' = [trigger EXCEPT ![p] = sent[p]]
    /\ PayGoto(p, "ok")
    /\ UNCHANGED <<sparkVars, lightningVars, snapshot, loop, idx, sent,
                   mutex, localVars, orphaned>>

PayGivesUp(p) ==
    /\ payPc[p] = "attempt"
    /\ loop[p] > 4
    /\ PayGoto(p, "err")
    /\ UNCHANGED <<walletVars, snapshot, loop, idx, sent, payRest>>

Pay(p) ==
    \/ PayStart(p) \/ PaySkip(p) \/ PayEstimate(p)
    \/ PaySendCustodial(p) \/ PaySendLightning(p) \/ PaySendFails(p)
    \/ PayRecordCustodial(p) \/ PayRecordLightning(p) \/ PayGivesUp(p)

=============================================================================
