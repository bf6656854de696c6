---------------------------- MODULE MonitorTask ----------------------------
(***************************************************************************)
(* The task Wallet::new spawns (libbtcwallet/src/lib.rs): every second it  *)
(* lists the custodial payments, gives the inbound ones metadata, decides  *)
(* whether the custodial balance is worth moving, runs the rebalance, and  *)
(* synchronises the custodial wallet.                                      *)
(***************************************************************************)
EXTENDS Rebalance

VARIABLES
    todo,       \* inbound payments of the list not looked at yet
    current,    \* the payment it found no metadata for
    new_txn,    \* payments it inserted metadata for
    old_txn     \* payments with metadata of type Payment (latest_tx)

monitorVars == <<todo, current, new_txn, old_txn>>
monitorRest == <<lightningVars, mutex, localVars, orphaned>>

MonitorPc == {"list", "scan", "insert", "decide", "sync"}

MonitorInit == todo = {} /\ current = NoId /\ new_txn = {} /\ old_txn = {}

\* What the monitor remembers of the list are deposits, and it has one in hand
\* when it is about to insert its metadata.
MonitorTypeOK ==
    /\ todo \subseteq DepositId
    /\ new_txn \subseteq DepositId
    /\ old_txn \subseteq DepositId
    /\ current \in DepositId \cup {NoId}
    /\ pc[Monitor] = "insert" => current \in DepositId

\* custodial.list_payments: Ok
List ==
    /\ pc[Monitor] = "list"
    /\ todo' = ListedInbound
    /\ new_txn' = {} /\ old_txn' = {}
    /\ Goto(Monitor, "scan")
    /\ UNCHANGED <<sparkVars, tx_metadata, trigger, current, monitorRest>>

\* .. Err
ListFails ==
    /\ pc[Monitor] = "list"
    /\ "err" \in Environment
    /\ Goto(Monitor, "sync")
    /\ UNCHANGED <<sparkVars, tx_metadata, trigger, monitorVars, monitorRest>>

\* Mutants of Scan: known payments are taken for new, and payments of every
\* type for candidates to be blamed.
ScanForgets ==
    /\ pc[Monitor] = "scan"
    /\ \E c \in todo :
          /\ todo' = todo \ {c}
          /\ current' = c
    /\ Goto(Monitor, "insert")
    /\ UNCHANGED <<sparkVars, tx_metadata, trigger, new_txn, old_txn, monitorRest>>

ScanAnyType ==
    /\ pc[Monitor] = "scan"
    /\ \E c \in todo :
          /\ todo' = todo \ {c}
          /\ \/ /\ Has(c)
                /\ old_txn' = old_txn \cup {c}
                /\ UNCHANGED <<pc, current>>
             \/ /\ ~Has(c)
                /\ current' = c
                /\ Goto(Monitor, "insert")
                /\ UNCHANGED old_txn
    /\ UNCHANGED <<sparkVars, tx_metadata, trigger, new_txn, monitorRest>>

\* One payment of the list is looked up in the metadata.
Scan ==
    /\ pc[Monitor] = "scan"
    /\ \E c \in todo :
          /\ todo' = todo \ {c}
          /\ \/ /\ Has(c)
                /\ old_txn' = old_txn \cup {d \in {c} : tx_metadata[d].ty = "Payment"}
                /\ UNCHANGED <<pc, current>>
             \/ /\ ~Has(c)
                /\ current' = c
                /\ Goto(Monitor, "insert")
                /\ UNCHANGED old_txn
    /\ UNCHANGED <<sparkVars, tx_metadata, trigger, new_txn, monitorRest>>

\* It has none: the payment is new.
InsertIncoming ==
    /\ pc[Monitor] = "insert"
    /\ do_set(current, Plain("Payment"))
    /\ new_txn' = new_txn \cup {current}
    /\ current' = NoId
    /\ Goto(Monitor, "scan")
    /\ UNCHANGED <<sparkVars, trigger, todo, old_txn, monitorRest>>

ScanDone ==
    /\ pc[Monitor] = "scan"
    /\ todo = {}
    /\ Goto(Monitor, "decide")
    /\ UNCHANGED <<sparkVars, tx_metadata, trigger, monitorVars, monitorRest>>

WorthRebalancing == get_balance_amt(inbound, balance) # None

\* The payments a rebalance may be blamed on: a smallest new one, else the
\* latest known one. The wall clock that dates metadata may step or tie, so
\* any known one can be the latest.
Victims ==
    IF new_txn # {}
    THEN {c \in new_txn : \A d \in new_txn : transfer[c].amount <= transfer[d].amount}
    ELSE old_txn

\* Mutants of DecideNot and DecideRebalance: the loop is left for good when
\* there is nothing to move, and nobody is blamed when there is no candidate.
DecideNeverAgain ==
    /\ pc[Monitor] = "decide"
    /\ ~WorthRebalancing
    /\ Goto(Monitor, "finished")
    /\ UNCHANGED <<sparkVars, tx_metadata, trigger, monitorVars, monitorRest>>

DecideOnNobody ==
    /\ pc[Monitor] = "decide"
    /\ WorthRebalancing
    /\ \E victim \in IF Victims = {} THEN {NoId} ELSE Victims :
          trigger' = [trigger EXCEPT ![Monitor] = victim]
    /\ Goto(Monitor, "lock")
    /\ UNCHANGED <<sparkVars, tx_metadata, monitorVars, monitorRest>>

DecideNot ==
    /\ pc[Monitor] = "decide"
    /\ ~WorthRebalancing
    /\ Goto(Monitor, "sync")
    /\ UNCHANGED <<sparkVars, tx_metadata, trigger, monitorVars, monitorRest>>

DecideRebalance ==
    /\ pc[Monitor] = "decide"
    /\ WorthRebalancing
    /\ \E victim \in Victims : trigger' = [trigger EXCEPT ![Monitor] = victim]
    /\ Goto(Monitor, "lock")
    /\ UNCHANGED <<sparkVars, tx_metadata, monitorVars, monitorRest>>

\* latest_tx.expect(..) finds none: the monitor panics.
DecidePanics ==
    /\ pc[Monitor] = "decide"
    /\ WorthRebalancing
    /\ Victims = {}
    /\ Goto(Monitor, "panicked")
    /\ UNCHANGED <<sparkVars, tx_metadata, trigger, monitorVars, monitorRest>>

\* custodial.sync claims what waits to be claimed ..
SyncClaim ==
    /\ pc[Monitor] = "sync"
    /\ \E c \in CustId : SparkClaim(c)
    /\ UNCHANGED <<tx_metadata, pc, trigger, monitorVars, monitorRest>>

\* .. and returns when nothing is left, or with an error that is ignored.
SyncDone ==
    /\ pc[Monitor] = "sync"
    /\ "err" \in Environment \/ Claimable = {}
    /\ Goto(Monitor, "list")
    /\ UNCHANGED <<sparkVars, tx_metadata, trigger, monitorVars, monitorRest>>

MonitorStep ==
    \/ List \/ ListFails \/ Scan \/ InsertIncoming \/ ScanDone
    \/ DecideNot \/ DecideRebalance \/ DecidePanics
    \/ SyncClaim \/ SyncDone

=============================================================================
