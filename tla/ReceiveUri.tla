----------------------------- MODULE ReceiveUri -----------------------------
(***************************************************************************)
(* The text of Wallet::get_single_use_receive_uri, read back by another    *)
(* wallet's payment instructions parser: the amounts of the URI were       *)
(* rounded on their way into it, and by different code for each method.    *)
(* An amount that may be missing is a set of at most one.                  *)
(***************************************************************************)
EXTENDS BalanceDecisions, PaymentInstructions

CONSTANT enable_amountless_receive_on_chain     \* of the Tunables

ASSUME AmountlessAssumption == enable_amountless_receive_on_chain \in BOOLEAN

\* Nobody asks for more than there is, which is a number of whole satoshis; rounding
\* up to a satoshi is within what the methods of a URI may differ by; and a request
\* for nothing is not one for an on-chain payment.
ASSUME UriAssumption ==
    /\ Amounts \subseteq 0..MAX_MSATS
    /\ MAX_MSATS % MsatsPerSat = 0
    /\ MsatsPerSat <= MAX_AMOUNT_DIFFERENCE + 1
    /\ onchain_receive_threshold > 0

InvoiceOf(amount) ==
    [kind |-> "invoice", network |-> network, amount |-> amount, desc |-> {}]

\* The custodial service's invoice; one for 0 satoshis is taken to have no amount.
create_lightning_invoice(sats) == InvoiceOf(IF sats = 0 THEN {} ELSE {from_sats(sats)})

\* amount.unwrap_or(0): the wallet asks for the same invoice for 0 and for no amount.
OrZero(amount) == IF amount = {} THEN 0 ELSE Least(amount)

\* A mutant of CustodialInvoice: rounds down to whole satoshis.
CustodialInvoiceOfLess(amount) == create_lightning_invoice(OrZero(amount) \div MsatsPerSat)

CustodialInvoice(amount) == create_lightning_invoice(sats_rounding_up(OrZero(amount)))

OnChainAddress == [kind |-> "address", network |-> network, bc1 |-> FALSE]

Written(key, value) == [key |-> key, req |-> FALSE, value |-> value]

UriText(onchain, amount, invoice) ==
    [form |-> "uri",
     body |-> IF onchain THEN OnChainAddress ELSE [kind |-> "none"],
     params |->
        IF onchain /\ amount # {}
        THEN <<Written("amount", [kind |-> "sats",
                                  sats |-> from_str_in(FormattedAmount(Least(amount)))]),
               Written("lightning", invoice)>>
        ELSE <<Written("lightning", invoice)>>]

\* get_single_use_receive_uri
OwnUri(amount) ==
    IF amount = {}
    THEN UriText(enable_amountless_receive_on_chain, {}, CustodialInvoice({}))
    ELSE LET decided == SingleUseReceiveUri(receivable, Least(amount))
         IN UriText(decided.onchain, amount,
                    IF decided.invoice = "Custodial"
                    THEN CustodialInvoice(amount) ELSE InvoiceOf(amount))

Read(amount) == parse_resolved_instructions(OwnUri(amount), FALSE)

-----------------------------------------------------------------------------
\* The wallet's own URI can be paid by this very code, for any amount that
\* bitcoin has: the payer's parser finds its methods consistent, although each
\* was rounded by itself, and set_amount takes the amount that the payer shows.
OwnUriPayable ==
    \A amount \in {{}, {requested}} :
       /\ Read(amount).error = Ok
       /\ \A a \in max_amount(Read(amount)) : set_amount(Read(amount), a)

\* Whichever method the payer chooses, it asks for what was requested or for the
\* rest of a satoshi more, and a URI without an amount asks for none.
OwnUriAsksEnough ==
    /\ AmountsOf(Read({}).methods) = {}
    /\ \A i \in DOMAIN Read({requested}).methods :
          \A a \in Read({requested}).methods[i].amount :
             requested <= a /\ a < requested + MsatsPerSat

=============================================================================
