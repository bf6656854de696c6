--------------------------- MODULE TransferLedger ---------------------------
(***************************************************************************)
(* What rebalances promise, as one task with one book would keep it: a     *)
(* transfer is paid out of the custodial wallet for an invoice of the      *)
(* lightning wallet, arrives or comes back, and is then entered, as a      *)
(* whole and once, or given up, before the next one begins.  Only when     *)
(* somebody dies may a transfer be left without its entry.                 *)
(***************************************************************************)
EXTENDS WalletIds

VARIABLES transfers,    \* by invoice: where the transfer to it is, and what paid it
          current,      \* the invoice of the transfer that is kept track of, or NoId
          ledger,       \* the entries
          deaths        \* tasks and processes that died, told apart only

ledgerVars == <<transfers, current, ledger, deaths>>

At(state, custodial_payment) == [state |-> state, by |-> custodial_payment]

LedgerInit ==
    /\ transfers = [l \in LnId |-> At("none", NoId)]
    /\ current = NoId
    /\ ledger = {}

Begin ==
    /\ current = NoId
    /\ current' # NoId
    /\ \E l \in LnId, c \in CustId :
          /\ current' = l
          /\ transfers[l].state = "none"
          /\ \A k \in LnId : transfers[k].by # c
          /\ transfers' = [transfers EXCEPT ![l] = At("moving", c)]
    /\ UNCHANGED <<ledger, deaths>>

\* A transfer arrives or comes back, whether or not it is kept track of.
End ==
    /\ \E l \in {k \in LnId : transfers[k].state = "moving"} :
          /\ transfers'[l].state \in {"arrived", "returned"}
          /\ transfers' = [transfers EXCEPT ![l].state = transfers'[l].state]
    /\ UNCHANGED <<current, ledger, deaths>>

\* What has arrived is entered, with a payment to blame that no other entry blames.
Enter ==
    /\ current # NoId
    /\ current' = NoId
    /\ transfers[current].state = "arrived"
    /\ \E cause \in PaymentId :
          /\ \A entry \in ledger : entry.cause # cause
          /\ ledger' = ledger \cup {[lightning |-> current, cause |-> cause,
                                     custodial |-> transfers[current].by]}
    /\ UNCHANGED <<transfers, deaths>>

\* What came back is given up.
GiveUp ==
    /\ current # NoId
    /\ current' = NoId
    /\ transfers[current].state = "returned"
    /\ UNCHANGED <<transfers, ledger, deaths>>

\* Whoever dies may have been the one to keep track.
Die ==
    /\ deaths' # deaths
    /\ current' \in {current, NoId}
    /\ UNCHANGED <<transfers, ledger>>

LedgerNext == Begin \/ End \/ Enter \/ GiveUp \/ Die

LedgerSpec == LedgerInit /\ [][LedgerNext]_ledgerVars

=============================================================================
