------------------------------ MODULE MCWallet ------------------------------
(* Small instances of Wallet: who calls pay and with what, which funds there *)
(* are, and which of the environment's hazards are at work.                  *)
EXTENDS TransferInvariant, WalletLedger, TLC

CONSTANTS d1, d2, c1, c2, l1, l2, h1, h2, p1, p2

NoHazard == {}
FaultHazards == {"err", "route", "crash"}
RouteHazard == {"route"}
CrashOnly == {"crash"}
Receipts == {"receipts"}

\* Every call pays the same invoice, which asks for what is paid or for nothing in
\* particular; two calls pay one each; every kind of method is tried in turn, of
\* which those over lightning ask for less than the one on-chain.
Bolt11(h, asked) == [type |-> "Bolt11", hash |-> h, amount |-> asked]
PayInvoice == [p \in Payer |-> <<Bolt11(h1, {3})>>]
PayAmountless == [p \in Payer |-> <<Bolt11(h1, {})>>]
PayTwoInvoices == [p \in Payer |-> <<Bolt11(IF p = p1 THEN h1 ELSE h2, {3})>>]
PayAnyWay == [p \in Payer |-> <<[type |-> "OnChain", hash |-> NoId, amount |-> {3}],
                                [type |-> "Bolt12", hash |-> NoId, amount |-> {2}],
                                Bolt11(h1, {2})>>]
PayThree == [p \in Payer |-> 3]

\* Channels that can take every transfer, channels that cannot, and only
\* on-chain funds.
Funds(in, out, chain) == [inbound |-> in, outbound |-> out, onchain |-> chain]
RoomyFunds == Funds(20, 5, 5)
TightFunds == Funds(5, 5, 5)
OnChainFunds == Funds(0, 0, 5)

\* Ids of outbound custodial transfers, and of the wallet's own invoices, are
\* interchangeable.
Ids == Permutations(CustId \ DepositId) \cup Permutations(LnId \ InvoiceHash)

\* So are two calls that pay an invoice each, together with their invoices.
SwapCalls == p1 :> p2 @@ p2 :> p1 @@ h1 :> h2 @@ h2 :> h1
IdsAndCalls == Ids \cup {SwapCalls}

=============================================================================
