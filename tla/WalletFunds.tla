----------------------------- MODULE WalletFunds -----------------------------
(***************************************************************************)
(* What the payments of both backends add up to.  How they keep their      *)
(* balances is theirs: this is the bookkeeping of the model's services, and*)
(* says nothing of the wallet's code.  It is what a list of payments, that *)
(* the code does make, is compared with (ListAddsUp of TransactionList).   *)
(***************************************************************************)
EXTENDS WalletInvariant, Integers, FiniteSetsExt

\* A payment as its backend has it.
Stored(k) == IF k \in CustId THEN transfer[k] ELSE lnPay[k]

UsedIds == {k \in PaymentId : Stored(k).dir # "unused"}

\* What a payment has added to the balance of its own side. A payment out takes
\* its amount when it is sent and gives it back when it has failed.
Worth(k) ==
    CASE Stored(k).dir = "in" /\ Stored(k).status \in {"Completed", "Succeeded"} ->
            Stored(k).amount
      [] Stored(k).dir = "out" /\ Stored(k).status # "Failed" -> -Stored(k).amount
      [] OTHER -> 0

\* What it has added to the two balances together: nothing if it is a side of a
\* transfer between them that has arrived, or has yet to arrive on the other
\* side. (The wallet's own invoices are the only receipts of the node that the
\* model tells apart.)
Effect(k) ==
    IF IF k \in CustId THEN ToInvoice(k) /\ transfer[k].status = "Completed"
                       ELSE lnPay[k].dir = "in"
    THEN 0 ELSE Worth(k)

Effects == [k \in UsedIds |-> Effect(k)]

\* The two balances are what they were at first and what the payments have
\* added since. A transfer under way is on neither side.
MoneyKept ==
    balance + outbound + onchain
       = InitialFunds.outbound + InitialFunds.onchain + SumFunction(Effects)

\* An invoice of the wallet is paid with the amount it asks for.
AmountsAgree ==
    \A c \in CustId : ToInvoice(c) => transfer[c].amount = lnPay[transfer[c].dest].amount

\* With the types and SafetyInv this is inductive.
FundsInv == IsFiniteSet(UsedIds) /\ AmountsAgree /\ MoneyKept

=============================================================================
