----------------------------- MODULE ParseCall -----------------------------
(***************************************************************************)
(* PaymentInstructions::parse_payment_instructions: a call that parses a   *)
(* text, after having it resolved if it is a human-readable name, by one   *)
(* of the two resolvers.  What a name resolves to is parsed as it is, and  *)
(* not resolved again.                                                     *)
(***************************************************************************)
EXTENDS PaymentInstructions, HTTPHrnResolver, OnionMessageResolver, Functions

CONSTANTS Texts,            \* what users scan, and what names resolve to
          Resolvable        \* the latter

ASSUME ParseCallAssumption ==
    /\ \A t \in Texts : IsText(t)
    /\ Resolvable \subseteq Texts

VARIABLES text, supports_pops,  \* the arguments of the call
          parsePc,              \* where the call is
          result                \* what it answers

callVars == <<text, supports_pops>>
vars == <<callVars, parsePc, result, httpVars, message_queue>>

Init ==
    /\ text \in Texts
    /\ supports_pops \in BOOLEAN
    /\ parsePc = "parse"
    /\ result = Err("none")
    /\ HttpInit
    /\ OnionInit

Answer(payment) == parsePc' = "done" /\ result' = payment

ParseText ==
    /\ parsePc = "parse"
    /\ text.form # "name"
    /\ Answer(parse_resolved_instructions(text, supports_pops))
    /\ UNCHANGED <<callVars, httpVars, message_queue>>

\* HTTPHrnResolver; the name may be too long for DNS.
ResolveByHttp ==
    /\ parsePc = "parse"
    /\ text.form = "name"
    /\ \/ /\ HttpStart
          /\ parsePc' = "resolve"
          /\ UNCHANGED result
       \/ /\ Answer(Err("HrnResolutionError"))
          /\ UNCHANGED httpVars
    /\ UNCHANGED <<callVars, message_queue>>

HttpStep ==
    /\ HttpRequest \/ HttpAnswer
    /\ UNCHANGED <<callVars, parsePc, result, message_queue>>

\* A failed request or answer, too many queries, a proof that does not verify,
\* or none or several TXT records, or one that is not a string.
ResolutionFails ==
    /\ HttpFails \/ HttpFinish
    /\ HttpEnd
    /\ Answer(Err("HrnResolutionError"))
    /\ UNCHANGED <<callVars, message_queue>>

\* One verified TXT record: its text is parsed.
ResolutionSucceeds ==
    /\ HttpFinish
    /\ ~proof_builder.gaveUp
    /\ HttpEnd
    /\ \E resolved \in Resolvable :
          Answer(parse_resolved_instructions(resolved, supports_pops))
    /\ UNCHANGED <<callVars, message_queue>>

\* LDKOnionMessageDNSSECHrnResolver
ResolveByOnion ==
    /\ parsePc = "parse"
    /\ text.form = "name"
    /\ Len(message_queue) <= MaxQueued
    /\ OnionLookup
    /\ Answer(Err("HrnResolutionError"))
    /\ UNCHANGED <<callVars, httpVars>>

Messenger == release_pending_messages /\ UNCHANGED <<callVars, parsePc, result, httpVars>>

\* The user tries the name again: another call.
Retry ==
    /\ parsePc = "done"
    /\ text.form = "name"
    /\ parsePc' = "parse"
    /\ result' = Err("none")
    /\ UNCHANGED <<callVars, httpVars, message_queue>>

Next ==
    \/ ParseText
    \/ ResolveByHttp \/ HttpStep \/ ResolutionFails \/ ResolutionSucceeds
    \/ ResolveByOnion \/ Messenger
    \/ Retry

\* The resolving task runs, and the server answers each request or fails it.
Fairness == WF_vars(HttpStep \/ ResolutionFails \/ ResolutionSucceeds)

Spec == Init /\ [][Next]_vars /\ Fairness

-----------------------------------------------------------------------------
Parsed == parsePc = "done" /\ result.error = Ok

\* Whatever the URI combines, the payer is asked for one amount: lightning
\* methods all for the same, on-chain methods all for the same, the two within
\* MAX_AMOUNT_DIFFERENCE, and none of them for nothing while another asks.
MethodsAgree ==
    Parsed => \A i, j \in DOMAIN result.methods :
       LET m == result.methods[i]
           n == result.methods[j]
       IN /\ IsLightning(m) = IsLightning(n) => m.amount = n.amount
          /\ m.amount = {} <=> n.amount = {}
          /\ \A a \in m.amount, b \in n.amount : a <= b + MAX_AMOUNT_DIFFERENCE

\* set_amount takes what max_amount tells the user, and no amount it takes is
\* further than MAX_AMOUNT_DIFFERENCE from what the method that pay will choose
\* asks for: pay hands one amount to whichever method works.
AmountsPayable ==
    Parsed =>
       /\ \A a \in max_amount(result) : set_amount(result, a)
       /\ \A a \in 0..MAX_MSATS, b \in AmountsOf(result.methods) :
             set_amount(result, a) => /\ a <= b + MAX_AMOUNT_DIFFERENCE
                                      /\ b <= a + MAX_AMOUNT_DIFFERENCE

\* The amount parameter, wherever it stands, reaches every on-chain method as it
\* is written, unless it overflows 64 bits in milli-satoshis.
AmountAsWritten ==
    Parsed /\ text.form = "uri" =>
       LET written == {text.params[i].value.sats : i \in ParamsOf(text, {"amount"})} IN
       (\A sats \in written : sats * MsatsPerSat < U64) =>
          \A i \in DOMAIN result.methods :
             result.methods[i].type = "OnChain" =>
                result.methods[i].amount = {sats * MsatsPerSat : sats \in written}

Reordered(uri, order) ==
    [form |-> "uri", body |-> uri.body,
     params |-> [i \in DOMAIN uri.params |-> uri.params[order[i]]]]

\* The order of the parameters of a URI does not matter, although two loops read
\* them and checks compare a method with those before it. (A label or message
\* without a value, which may only come before one with a value, is excepted.)
ParamOrderIrrelevant ==
    /\ Parsed
    /\ text.form = "uri"
    /\ \A i \in ParamsOf(text, {"label", "message"}) : text.params[i].value.kind # "none"
    => \A order \in Bijection(DOMAIN text.params, DOMAIN text.params) :
          LET again == parse_resolved_instructions(Reordered(text, order), supports_pops)
          IN /\ again.error = Ok
             /\ Range(again.methods) = Range(result.methods)
             /\ max_amount(again) = max_amount(result)

\* When the resolver finishes its proof, every query that the builder asked for
\* has been answered: none got lost on the stack.
ProofComplete == HttpFinish => proof_builder.open = 0

\* A name's resolution ends: the queries it takes do not go on for ever.
ResolutionEnds == parsePc = "resolve" ~> parsePc = "done"

=============================================================================
