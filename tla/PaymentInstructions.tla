------------------------ MODULE PaymentInstructions ------------------------
(***************************************************************************)
(* The parser of bitcoin-payment-instructions/src/lib.rs: from a text to   *)
(* the methods by which it can be paid, and from those to a payment of a   *)
(* certain amount (PaymentInfo::set_amount of libbtcwallet).               *)
(*                                                                         *)
(* A text is what the code's splitting and the decoders of addresses,      *)
(* invoices and offers, which are libraries, find in it:                   *)
(*   [form |-> "uri", body |-> a value, params |-> a sequence of           *)
(*       [key, req, value]]      bitcoin:body?key=value&req-key=value      *)
(*   [form |-> "lightning", value |-> a value]         lightning:value     *)
(*   [form |-> "bare", value |-> a value]              the value alone     *)
(*   [form |-> "name", value |-> a value]              user@domain         *)
(* A value is a record with a kind ("none" if nothing is there, "garbage", *)
(* "address", "invoice", "offer", "sats", "callback", or what only the     *)
(* other parser knows) and fields that depend on it.  What may be missing  *)
(* is a set of at most one element.                                        *)
(***************************************************************************)
EXTENDS Amount, Sequences

CONSTANTS network,              \* the network to be paid on
          MAX_AMOUNT_DIFFERENCE \* between the methods of one URI, in milli-satoshis

ASSUME DifferenceAssumption == MAX_AMOUNT_DIFFERENCE \in Nat

\* What every text is, whatever its values are.
IsValue(v) ==
    /\ v.kind \in {"invoice", "offer"} =>
          v.amount \subseteq Nat /\ \A a, b \in v.amount : a = b
    /\ v.kind = "sats" => v.sats \in Nat

IsText(text) ==
    IF text.form = "uri"
    THEN /\ IsValue(text.body)
         /\ DOMAIN text.params \subseteq Nat \ {0}
         /\ \A i \in DOMAIN text.params : IsValue(text.params[i].value)
    ELSE IsValue(text.value)

Ok == "Ok"

Least(S) == CHOOSE a \in S : \A b \in S : a <= b
Greatest(S) == CHOOSE a \in S : \A b \in S : a >= b

\* Of checks made one after the other, the first that fails.
FirstError(checks) ==
    LET failing == {i \in DOMAIN checks : checks[i] # Ok}
    IN IF failing = {} THEN Ok ELSE checks[Least(failing)]

-----------------------------------------------------------------------------
(* What a value can be used for, and the method it is then.                *)

AddressError(v) ==
    IF v.kind # "address" THEN "InvalidOnChain"
    ELSE IF v.network # network THEN "WrongNetwork" ELSE Ok

\* Bolt11Invoice::from_str and instructions_from_bolt11
InvoiceError(v) ==
    IF v.kind # "invoice" THEN "InvalidBolt11"
    ELSE IF v.network # network THEN "WrongNetwork" ELSE Ok

OfferError(v) ==
    IF v.kind # "offer" THEN "InvalidBolt12"
    ELSE IF network \notin v.networks THEN "WrongNetwork" ELSE Ok

\* Both digits of an escape must be decimal, and the result UTF-8.
un_percent_encode(v) == v.escapes \subseteq {"decimal"}

CallbackError(v) ==
    IF v.kind = "callback" /\ un_percent_encode(v) /\ v.opens = "local app"
    THEN Ok ELSE "InvalidInstructions"

\* PaymentMethod; an offer in another currency has no amount.
Method(v) ==
    CASE v.kind = "address" -> [type |-> "OnChain", amount |-> {}]
      [] v.kind = "invoice" -> [type |-> "LightningBolt11", amount |-> v.amount]
      [] v.kind = "offer" -> [type |-> "LightningBolt12", amount |-> v.amount]

IsLightning(method) == method.type # "OnChain"

-----------------------------------------------------------------------------
(* bitcoin: URIs. The first loop reads methods, description and callback.  *)

\* The prefix that `bc` asks for.
IsBc1(v) == v.kind \in {"address", "garbage"} /\ v.bc1

KnownKeys(supports_pops) ==
    {"bc", "lightning", "lno", "amount", "label", "message"}
       \cup IF supports_pops THEN {"pop"} ELSE {}

UnknownRequired(p, supports_pops) == p.req /\ p.key \notin KnownKeys(supports_pops)

ParamError(p, supports_pops) ==
    LET v == p.value IN
    IF UnknownRequired(p, supports_pops) THEN "UnknownRequiredParameter"
    ELSE IF p.key \in {"bc", "lightning", "lno", "pop"} /\ v.kind = "none"
    THEN "InvalidInstructions"
    ELSE CASE p.key = "bc" -> IF IsBc1(v) THEN AddressError(v) ELSE "InvalidInstructions"
           [] p.key = "lightning" -> InvoiceError(v)
           [] p.key = "lno" -> OfferError(v)
           [] p.key = "pop" -> CallbackError(v)
           [] OTHER -> Ok

\* Where in the URI parameters of these keys stand.
ParamsOf(text, keys) == {i \in DOMAIN text.params : text.params[i].key \in keys}

\* The second loop: one amount, and no label or message after one with a value.
AmountError(text) ==
    LET amounts == ParamsOf(text, {"amount"}) IN
    IF \/ \E i, j \in amounts : i # j
       \/ \E i \in amounts : text.params[i].value.kind # "sats"
    THEN "InvalidInstructions" ELSE Ok

RepeatError(text, key) ==
    IF \E i, j \in ParamsOf(text, {key}) : i < j /\ text.params[i].value.kind # "none"
    THEN "InvalidInstructions" ELSE Ok

\* The amount parameter, and the places of the methods: the body's is 0.
UriAmount(text) ==
    {from_sats(text.params[i].value.sats) : i \in ParamsOf(text, {"amount"})}

MethodPlaces(text) ==
    {i \in {0} : text.body.kind # "none"} \cup ParamsOf(text, {"bc", "lightning", "lno"})

ValueAt(text, i) == IF i = 0 THEN text.body ELSE text.params[i].value

\* A mutant of UriMethods: the amount is applied to the body's address alone.
UriMethodsOfBody(text) ==
    [i \in MethodPlaces(text) |->
        IF i = 0 THEN [type |-> "OnChain", amount |-> UriAmount(text)]
        ELSE Method(ValueAt(text, i))]

\* The methods at their places, the amount parameter applied to those on-chain.
UriMethods(text) ==
    [i \in MethodPlaces(text) |->
        IF ValueAt(text, i).kind = "address"
        THEN [type |-> "OnChain", amount |-> UriAmount(text)]
        ELSE Method(ValueAt(text, i))]

-----------------------------------------------------------------------------
(* .. and then the amounts of the methods must agree.                      *)

AmountsOf(methods) == UNION {methods[i].amount : i \in DOMAIN methods}

\* Two lightning methods that ask for different amounts.
LightningDiffers(methods, i, j) ==
    /\ IsLightning(methods[i]) /\ IsLightning(methods[j])
    /\ methods[i].amount # {} /\ methods[j].amount # {}
    /\ methods[i].amount # methods[j].amount

\* A mutant of MethodError: a method is only compared with the one before it.
MethodErrorAdjacent(methods, i) ==
    LET before == {j \in DOMAIN methods : j < i} IN
    IF \E a \in methods[i].amount : a > MAX_MSATS THEN "InvalidInstructions"
    ELSE IF before # {} /\ LightningDiffers(methods, Greatest(before), i)
    THEN "InconsistentInstructions" ELSE Ok

\* No more than 21 million bitcoin, and over lightning the same as before.
MethodError(methods, i) ==
    IF \E a \in methods[i].amount : a > MAX_MSATS THEN "InvalidInstructions"
    ELSE IF \E j \in DOMAIN methods : j < i /\ LightningDiffers(methods, j, i)
    THEN "InconsistentInstructions" ELSE Ok

\* A mutant of MixError: an amount of zero passes for none.
MixErrorOfMore(methods) ==
    IF AmountsOf(methods) \ {0} # {} /\ \E i \in DOMAIN methods : methods[i].amount = {}
    THEN "InconsistentInstructions" ELSE Ok

\* Some methods have an amount and some have none. The extremes start out
\* as MAX_MSATS and 0, which tells whether there was any amount.
MixError(methods) ==
    LET min_amt == Least(AmountsOf(methods) \cup {MAX_MSATS})
        max_amt == Greatest(AmountsOf(methods) \cup {0})
    IN IF /\ min_amt # MAX_MSATS \/ max_amt # 0
          /\ \E i \in DOMAIN methods : methods[i].amount = {}
       THEN "InconsistentInstructions" ELSE Ok

SpreadError(methods) ==
    LET min_amt == Least(AmountsOf(methods) \cup {MAX_MSATS})
        max_amt == Greatest(AmountsOf(methods) \cup {0})
    IN IF max_amt > min_amt + MAX_AMOUNT_DIFFERENCE
       THEN "InconsistentInstructions" ELSE Ok

\* All checks of a bitcoin: URI, in order: those of the body, of each
\* parameter, of the parameters together, and of the methods together.
ReadError(text, supports_pops) ==
    FirstError(<<IF text.body.kind = "none" THEN Ok ELSE AddressError(text.body),
                 FirstError([i \in DOMAIN text.params |->
                                ParamError(text.params[i], supports_pops)]),
                 AmountError(text), RepeatError(text, "label"),
                 RepeatError(text, "message")>>)

MethodsError(methods) ==
    IF DOMAIN methods = {} THEN "UnknownPaymentInstructions"
    ELSE FirstError(<<FirstError([i \in DOMAIN methods |-> MethodError(methods, i)]),
                      MixError(methods), SpreadError(methods)>>)

UriError(text, supports_pops) ==
    LET read == ReadError(text, supports_pops)
    IN IF read # Ok THEN read ELSE MethodsError(UriMethods(text))

-----------------------------------------------------------------------------
(* parse_resolved_instructions *)

\* The methods of a payment are a function of their places.
Err(error) == [error |-> error, methods |-> <<>>, description |-> {}, pop_callback |-> {}]

PaymentOf(methods, description, pop_callback) ==
    [error |-> Ok, methods |-> methods, description |-> description,
     pop_callback |-> pop_callback]

\* The last callback, and the last description that an invoice or an offer has.
UriPayment(text) ==
    LET pops == ParamsOf(text, {"pop"})
        described == {i \in ParamsOf(text, {"lightning", "lno"}) :
                         text.params[i].value.desc # {}}
    IN PaymentOf(UriMethods(text),
                 IF described = {} THEN {} ELSE text.params[Greatest(described)].value.desc,
                 IF pops = {} THEN {} ELSE {text.params[Greatest(pops)].value})

DescriptionOf(v) == IF v.kind = "address" THEN {} ELSE v.desc

ValueError(text) ==
    LET v == text.value IN
    IF text.form = "lightning" THEN InvoiceError(v)
    ELSE CASE v.kind = "address" -> AddressError(v)
           [] v.kind = "invoice" -> InvoiceError(v)
           [] v.kind = "offer" -> OfferError(v)
           [] OTHER -> "UnknownPaymentInstructions"

parse_resolved_instructions(text, supports_pops) ==
    IF text.form = "uri"
    THEN LET error == UriError(text, supports_pops)
         IN IF error = Ok THEN UriPayment(text) ELSE Err(error)
    ELSE IF ValueError(text) = Ok
         THEN PaymentOf(<<Method(text.value)>>, DescriptionOf(text.value), {})
         ELSE Err(ValueError(text))

-----------------------------------------------------------------------------
(* What the methods ask for.                                               *)

\* The amount of the first method of a kind, which is that of all of them.
AmountOfFirst(payment, lightning) ==
    LET found == {i \in DOMAIN payment.methods :
                     IsLightning(payment.methods[i]) = lightning}
    IN IF found = {} THEN {} ELSE payment.methods[Least(found)].amount

ln_payment_amount(payment) == AmountOfFirst(payment, TRUE)
onchain_payment_amount(payment) == AmountOfFirst(payment, FALSE)

max_amount(payment) ==
    LET amounts == AmountsOf(payment.methods)
    IN IF amounts = {} THEN {} ELSE {Greatest(amounts)}

\* A mutant of set_amount: paying more than is asked is fine.
set_amount_or_more(payment, amount) ==
    LET asked == ln_payment_amount(payment) \cup onchain_payment_amount(payment)
    IN asked = {} \/ amount >= Least(asked)

\* PaymentInfo::set_amount: any amount, unless a method asks for another one.
set_amount(payment, amount) ==
    LET asked == ln_payment_amount(payment) \cup onchain_payment_amount(payment)
    IN asked = {} \/ amount \in asked

=============================================================================
