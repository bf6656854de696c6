-------------------------- MODULE ParseCall_proofs --------------------------
(***************************************************************************)
(* What every call of parse_payment_instructions answers, for all texts    *)
(* and all that names may resolve to; what the two resolvers do meanwhile. *)
(***************************************************************************)
EXTENDS ParseCall, PaymentInstructions_proofs

\* The answer is that of the parser, for the text or for what its name
\* resolved to.
ResultInv ==
    /\ text \in Texts
    /\ httpPc # "idle" => parsePc = "resolve" /\ text.form = "name"
    /\ parsePc = "done" =>
          \/ text.form # "name" /\ result = parse_resolved_instructions(text, supports_pops)
          \/ /\ text.form = "name"
             /\ \/ result.error # Ok
                \/ \E resolved \in Resolvable :
                      result = parse_resolved_instructions(resolved, supports_pops)

\* What is on the stack or sent off is what the builder waits for, and it has
\* asked for it.
HttpInv ==
    /\ proof_builder = [asked |-> proof_builder.asked, open |-> proof_builder.open,
                        gaveUp |-> proof_builder.gaveUp]
    /\ proof_builder.asked \in Nat /\ proof_builder.open \in Nat
    /\ pending_queries \in Nat
    /\ httpPc = "next" => pending_queries = proof_builder.open
    /\ httpPc = "request" => pending_queries + 1 = proof_builder.open

-----------------------------------------------------------------------------
(* Every step keeps them.                                                  *)

LEMMA FailingNames == Err("HrnResolutionError").error # Ok
  BY DEF Err, Ok

LEMMA ResultStep == ResultInv /\ [Next]_vars => ResultInv'
  <1> SUFFICES ASSUME ResultInv, [Next]_vars PROVE ResultInv'
    OBVIOUS
  <1>1. UNCHANGED <<text, supports_pops>>
    BY DEF Next, vars, callVars, ParseText, ResolveByHttp, HttpStep, ResolutionFails,
           ResolutionSucceeds, ResolveByOnion, Messenger, Retry
  <1>2. CASE ParseText
    BY <1>1, <1>2 DEF ParseText, Answer, ResultInv, httpVars
  <1>3. CASE ResolveByHttp
    BY <1>1, <1>3, FailingNames DEF ResolveByHttp, HttpStart, Answer, ResultInv, httpVars
  <1>4. CASE HttpStep
    BY <1>1, <1>4 DEF HttpStep, HttpRequest, HttpAnswer, ResultInv
  <1>5. CASE ResolutionFails
    BY <1>1, <1>5, FailingNames
       DEF ResolutionFails, HttpFails, HttpFinish, HttpEnd, Answer, ResultInv
  <1>6. CASE ResolutionSucceeds
    BY <1>1, <1>6 DEF ResolutionSucceeds, HttpFinish, HttpEnd, Answer, ResultInv
  <1>7. CASE ResolveByOnion
    BY <1>1, <1>7, FailingNames DEF ResolveByOnion, Answer, ResultInv, httpVars
  <1>8. CASE Messenger \/ Retry
    BY <1>1, <1>8 DEF Messenger, Retry, ResultInv, httpVars
  <1>9. CASE UNCHANGED vars
    BY <1>9 DEF vars, callVars, httpVars, ResultInv
  <1> QED BY <1>2, <1>3, <1>4, <1>5, <1>6, <1>7, <1>8, <1>9 DEF Next

LEMMA HttpStepInv == HttpInv /\ [Next]_vars => HttpInv'
  <1> SUFFICES ASSUME HttpInv, [Next]_vars PROVE HttpInv'
    OBVIOUS
  <1>1. CASE UNCHANGED httpVars
    BY <1>1 DEF httpVars, HttpInv
  <1>2. CASE HttpStart
    BY <1>2 DEF HttpStart, HttpInv
  <1>3. CASE HttpRequest
    BY <1>3 DEF HttpRequest, HttpInv
  <1>4. CASE HttpAnswer
    <2> DEFINE asked == proof_builder.asked
               open == proof_builder.open
               gaveUp == proof_builder.gaveUp
    <2>1. PICK n \in 0..2 :
             /\ proof_builder' = Processed(n)
             /\ pending_queries' = pending_queries + (proof_builder'.asked - proof_builder.asked)
      BY <1>4 DEF HttpAnswer
    <2>2. /\ proof_builder = [asked |-> asked, open |-> open, gaveUp |-> gaveUp]
          /\ asked \in Nat /\ open \in Nat /\ pending_queries \in Nat
          /\ pending_queries + 1 = open
      BY <1>4 DEF HttpAnswer, HttpInv
    <2>3. \/ proof_builder' = [asked |-> asked, open |-> open - 1, gaveUp |-> TRUE]
          \/ proof_builder' = [asked |-> asked + n, open |-> open - 1 + n, gaveUp |-> gaveUp]
      <3> HIDE DEF asked, open, gaveUp
      <3> QED BY <2>1, <2>2 DEF Processed
    <2>4. httpPc' = "next"
      BY <1>4 DEF HttpAnswer
    <2> HIDE DEF asked, open, gaveUp
    <2>5. CASE proof_builder' = [asked |-> asked, open |-> open - 1, gaveUp |-> TRUE]
      BY <2>1, <2>2, <2>4, <2>5 DEF HttpInv, asked
    <2>6. CASE proof_builder' = [asked |-> asked + n, open |-> open - 1 + n, gaveUp |-> gaveUp]
      BY <2>1, <2>2, <2>4, <2>6 DEF HttpInv, asked
    <2> QED BY <2>3, <2>5, <2>6
  <1>5. CASE HttpEnd
    BY <1>5 DEF HttpEnd, HttpInv
  <1> QED BY <1>1, <1>2, <1>3, <1>4, <1>5
      DEF Next, vars, ParseText, ResolveByHttp, HttpStep, ResolutionFails, ResolutionSucceeds,
          ResolveByOnion, Messenger, Retry

LEMMA ParseCallInv == Spec => [](ResultInv /\ HttpInv)
  <1>1. Init => ResultInv /\ HttpInv
    BY DEF Init, HttpInit, ResultInv, HttpInv
  <1> QED BY <1>1, ResultStep, HttpStepInv, PTL DEF Spec

-----------------------------------------------------------------------------
(* What the answers have in common.                                        *)

\* What is parsed is the text, or what its name resolved to.
LEMMA ParsedFrom ==
    ASSUME ResultInv, Parsed
    PROVE  \E t \in Texts :
              /\ IsText(t)
              /\ result = parse_resolved_instructions(t, supports_pops)
              /\ text.form # "name" => t = text
  BY ParseCallAssumption DEF ResultInv, Parsed

\* Whatever parse_payment_instructions accepts asks for one amount, within the
\* tolerance, whichever method is used to pay it: the loop over the methods, which
\* looks at each once, and the extremes that it keeps catch every disagreement.
THEOREM ParsedMethodsAgree == Spec => []MethodsAgree
  <1>1. ResultInv => MethodsAgree
    <2> SUFFICES ASSUME ResultInv, Parsed PROVE MethodsAgree
      BY DEF MethodsAgree
    <2>1. Agreeing(result.methods)
      BY ParsedFrom, ParsedAgrees DEF Parsed
    <2> QED BY <2>1 DEF MethodsAgree, Agreeing
  <1> QED BY <1>1, ParseCallInv, PTL

\* max_amount tells the user an amount that set_amount takes, and set_amount takes
\* none that is further than the tolerance from what any method asks for.
THEOREM ParsedAmountsPayable == Spec => []AmountsPayable
  <1>1. ResultInv => AmountsPayable
    <2> SUFFICES ASSUME ResultInv, Parsed PROVE AmountsPayable
      BY DEF AmountsPayable
    <2>1. Agreeing(result.methods)
      BY ParsedFrom, ParsedAgrees DEF Parsed
    <2> QED BY <2>1, AgreeingIsPayable DEF AmountsPayable
  <1> QED BY <1>1, ParseCallInv, PTL

\* An amount parameter that does not overflow is that of each on-chain method,
\* although it is read by a second loop, after the methods.
THEOREM ParsedAmountAsWritten == Spec => []AmountAsWritten
  <1>1. ResultInv => AmountAsWritten
    <2> DEFINE written == {text.params[i].value.sats : i \in ParamsOf(text, {"amount"})}
    <2> SUFFICES ASSUME ResultInv, Parsed, text.form = "uri",
                        \A sats \in written : sats * MsatsPerSat < U64,
                        NEW i \in DOMAIN result.methods, result.methods[i].type = "OnChain"
                 PROVE  result.methods[i].amount = {sats * MsatsPerSat : sats \in written}
      BY DEF AmountAsWritten
    <2>1. IsText(text) /\ result = parse_resolved_instructions(text, supports_pops)
      BY ParsedFrom
    <2>2. UriError(text, supports_pops) = Ok
      BY <2>1 DEF parse_resolved_instructions, Err, Parsed
    <2>3. result.methods = UriMethods(text) /\ ReadError(text, supports_pops) = Ok
      BY <2>1, <2>2 DEF parse_resolved_instructions, UriPayment, PaymentOf, UriError
    <2>4. i \in MethodPlaces(text)
      BY <2>3 DEF UriMethods
    <2>5. result.methods[i].amount = UriAmount(text)
      BY <2>1, <2>3, <2>4, MethodShapes
    <2>6. AmountError(text) = Ok
      BY <2>1, <2>3, ReadWithoutError
    <2>7. \A sats \in written : sats \in Nat
      BY <2>1, <2>6 DEF AmountError, Ok, IsText, IsValue, ParamsOf
    <2>8. \A sats \in written : from_sats(sats) = sats * MsatsPerSat
      <3> SUFFICES ASSUME NEW sats \in written PROVE from_sats(sats) = sats * MsatsPerSat
        OBVIOUS
      <3>1. sats * MsatsPerSat \in Nat /\ U64 \in Nat \ {0} /\ sats * MsatsPerSat < U64
        BY <2>7, AmountAssumption
      <3> QED BY <3>1, NoWrap DEF from_sats
    <2>9. UriAmount(text) = {from_sats(sats) : sats \in written}
      BY DEF UriAmount
    <2> HIDE DEF written
    <2> QED BY <2>5, <2>8, <2>9
  <1> QED BY <1>1, ParseCallInv, PTL

\* resolve_dns finishes a proof only with its stack empty, and then every query
\* that the builder has asked for is answered.
THEOREM FinishedProofComplete == Spec => []ProofComplete
  <1>1. HttpInv => ProofComplete
    BY DEF HttpInv, ProofComplete, HttpFinish
  <1> QED BY <1>1, ParseCallInv, PTL

-----------------------------------------------------------------------------
(* The order of the parameters of a URI.                                   *)

\* Methods that are the same in other places are as consistent.
LEMMA ConsistentInPlace ==
    ASSUME NEW methods, NEW again,
           NEW place \in [DOMAIN again -> DOMAIN methods],
           \A i \in DOMAIN methods : \E j \in DOMAIN again : place[j] = i,
           \A j \in DOMAIN again : again[j] = methods[place[j]]
    PROVE  /\ Range(again) = Range(methods)
           /\ AmountsOf(again) = AmountsOf(methods)
           /\ Consistent(methods) => Consistent(again)
  <1>1. Range(again) = Range(methods)
    BY DEF Range
  <1>2. AmountsOf(again) = AmountsOf(methods)
    BY DEF AmountsOf
  <1>3. \A i, j \in DOMAIN again :
           LightningDiffers(again, i, j) => LightningDiffers(methods, place[i], place[j])
    BY DEF LightningDiffers
  <1>4. DOMAIN methods # {} => DOMAIN again # {}
    OBVIOUS
  <1> QED BY <1>1, <1>2, <1>3, <1>4 DEF Consistent

\* A URI whose parameters are reordered, next to itself.
LEMMA ReorderedParams ==
    ASSUME NEW uri, uri.form = "uri", IsText(uri),
           NEW order \in Bijection(DOMAIN uri.params, DOMAIN uri.params)
    PROVE  LET again == Reordered(uri, order) IN
           /\ again.form = "uri" /\ again.body = uri.body
           /\ DOMAIN again.params = DOMAIN uri.params
           /\ \A i \in DOMAIN uri.params : again.params[i] = uri.params[order[i]]
           /\ IsText(again)
           /\ order \in [DOMAIN uri.params -> DOMAIN uri.params]
           /\ \A i, j \in DOMAIN uri.params : order[i] = order[j] => i = j
           /\ \A j \in DOMAIN uri.params : \E i \in DOMAIN uri.params : order[i] = j
           /\ \A keys : \A i \in DOMAIN uri.params :
                 i \in ParamsOf(again, keys) <=> order[i] \in ParamsOf(uri, keys)
  <1> DEFINE again == Reordered(uri, order)
  <1>1. /\ again.form = "uri" /\ again.body = uri.body
        /\ DOMAIN again.params = DOMAIN uri.params
        /\ \A i \in DOMAIN uri.params : again.params[i] = uri.params[order[i]]
    BY DEF Reordered
  <1>2. order \in [DOMAIN uri.params -> DOMAIN uri.params]
    BY DEF Bijection, Injection
  <1>3. \A i, j \in DOMAIN uri.params : order[i] = order[j] => i = j
    BY DEF Bijection, Injection, IsInjective
  <1>4. \A j \in DOMAIN uri.params : \E i \in DOMAIN uri.params : order[i] = j
    BY DEF Bijection, Surjection
  <1> HIDE DEF again
  <1>5. IsText(again)
    BY <1>1, <1>2 DEF IsText
  <1>6. \A keys : \A i \in DOMAIN uri.params :
           i \in ParamsOf(again, keys) <=> order[i] \in ParamsOf(uri, keys)
    BY <1>1, <1>2 DEF ParamsOf
  <1> QED BY <1>1, <1>2, <1>3, <1>4, <1>5, <1>6 DEF again

\* It is read as well as before, and has the same amount.
LEMMA ReorderedRead ==
    ASSUME NEW uri, NEW pops, uri.form = "uri", IsText(uri), ReadError(uri, pops) = Ok,
           \A i \in ParamsOf(uri, {"label", "message"}) : uri.params[i].value.kind # "none",
           NEW order \in Bijection(DOMAIN uri.params, DOMAIN uri.params)
    PROVE  /\ ReadError(Reordered(uri, order), pops) = Ok
           /\ UriAmount(Reordered(uri, order)) = UriAmount(uri)
  <1> DEFINE again == Reordered(uri, order)
             D == DOMAIN uri.params
  <1>1. /\ again.form = "uri" /\ again.body = uri.body
        /\ DOMAIN again.params = D
        /\ \A i \in D : again.params[i] = uri.params[order[i]]
        /\ IsText(again)
        /\ \A i \in D : order[i] \in D
        /\ \A i, j \in D : order[i] = order[j] => i = j
        /\ \A j \in D : \E i \in D : order[i] = j
        /\ \A keys : \A i \in D : i \in ParamsOf(again, keys) <=> order[i] \in ParamsOf(uri, keys)
    BY ReorderedParams
  <1>2. D \subseteq Nat /\ \A keys : ParamsOf(uri, keys) \subseteq D /\ ParamsOf(again, keys) \subseteq D
    BY <1>1 DEF IsText, ParamsOf
  <1>3. /\ uri.body.kind = "none" \/ AddressError(uri.body) = Ok
        /\ \A i \in D : ParamError(uri.params[i], pops) = Ok
        /\ AmountError(uri) = Ok
        /\ RepeatError(uri, "label") = Ok
        /\ RepeatError(uri, "message") = Ok
    BY ReadWithoutError
  <1> HIDE DEF again, D
  <1>4. AmountError(again) = Ok
    <2> DEFINE before == ParamsOf(uri, {"amount"})
               after == ParamsOf(again, {"amount"})
    <2>1. /\ \A i, j \in before : i = j
          /\ \A i \in before : uri.params[i].value.kind = "sats"
      BY <1>3 DEF AmountError, Ok
    <2>2. after \subseteq D /\ \A i \in D : i \in after <=> order[i] \in before
      BY <1>1, <1>2
    <2> HIDE DEF before, after
    <2>3. \A i, j \in after : i = j
      BY <1>1, <2>1, <2>2
    <2>4. \A i \in after : again.params[i].value.kind = "sats"
      BY <1>1, <2>1, <2>2
    <2> QED BY <2>3, <2>4 DEF AmountError, Ok, after
  <1>5. ASSUME NEW key \in {"label", "message"}
        PROVE  RepeatError(again, key) = Ok
    <2> DEFINE before == ParamsOf(uri, {key})
               after == ParamsOf(again, {key})
    <2>1. \A i \in before : uri.params[i].value.kind # "none"
      BY DEF ParamsOf
    <2>2. RepeatError(uri, key) = Ok
      BY <1>3, <1>5
    <2>3. \A i, j \in before : ~(i < j)
      BY <2>1, <2>2 DEF RepeatError, Ok
    <2>4. before \subseteq Nat /\ after \subseteq D
          /\ \A i \in D : i \in after <=> order[i] \in before
      BY <1>1, <1>2
    <2> HIDE DEF before, after
    <2>5. \A i, j \in before : i = j
      BY <2>3, <2>4
    <2>6. ASSUME NEW i \in after, NEW j \in after
          PROVE  i = j
      <3>1. i \in D /\ j \in D
        BY <2>4
      <3>2. order[i] \in before /\ order[j] \in before
        BY <2>4, <3>1
      <3>3. order[i] = order[j]
        BY <2>5, <3>2
      <3>4. \A k, l \in D : order[k] = order[l] => k = l
        BY <1>1
      <3> QED BY <3>1, <3>3, <3>4
    <2>7. \A i, j \in after : ~(i < j)
      BY <1>2, <2>4, <2>6
    <2> QED BY <2>7 DEF RepeatError, Ok, after
  <1>6. \A i \in D : ParamError(again.params[i], pops) = Ok
    BY <1>1, <1>3
  <1>7. ReadError(again, pops) = Ok
    BY <1>1, <1>3, <1>4, <1>5, <1>6, ReadWithoutError
  <1>8. UriAmount(again) = UriAmount(uri)
    <2> DEFINE before == ParamsOf(uri, {"amount"})
               after == ParamsOf(again, {"amount"})
    <2>1. before \subseteq D /\ after \subseteq D /\ \A i \in D : i \in after <=> order[i] \in before
      BY <1>1, <1>2
    <2> HIDE DEF before, after
    <2>2. \A i \in after : /\ order[i] \in before
                          /\ again.params[i].value.sats = uri.params[order[i]].value.sats
      BY <1>1, <2>1
    <2>3. \A j \in before : \E i \in after :
             again.params[i].value.sats = uri.params[j].value.sats
      <3> SUFFICES ASSUME NEW j \in before
                   PROVE  \E i \in after : again.params[i].value.sats = uri.params[j].value.sats
        OBVIOUS
      <3>1. PICK i \in D : order[i] = j
        BY <1>1, <2>1
      <3>2. i \in after /\ again.params[i] = uri.params[j]
        BY <1>1, <2>1, <3>1
      <3> QED BY <3>2
    <2> QED BY <2>2, <2>3 DEF UriAmount, before, after
  <1> QED BY <1>7, <1>8 DEF again

\* Its methods are those of before, in other places.
LEMMA ReorderedMethods ==
    ASSUME NEW uri, NEW pops, uri.form = "uri", IsText(uri), UriError(uri, pops) = Ok,
           \A i \in ParamsOf(uri, {"label", "message"}) : uri.params[i].value.kind # "none",
           NEW order \in Bijection(DOMAIN uri.params, DOMAIN uri.params)
    PROVE  LET methods == UriMethods(uri)
               again == UriMethods(Reordered(uri, order))
           IN  /\ UriError(Reordered(uri, order), pops) = Ok
               /\ Range(again) = Range(methods)
               /\ AmountsOf(again) = AmountsOf(methods)
  <1> DEFINE R == Reordered(uri, order)
             methods == UriMethods(uri)
             again == UriMethods(R)
             D == DOMAIN uri.params
             place == [i \in MethodPlaces(R) |-> IF i = 0 THEN 0 ELSE order[i]]
  <1>1. /\ R.form = "uri" /\ R.body = uri.body
        /\ \A i \in D : R.params[i] = uri.params[order[i]]
        /\ IsText(R)
        /\ \A i \in D : order[i] \in D
        /\ \A j \in D : \E i \in D : order[i] = j
        /\ \A keys : \A i \in D : i \in ParamsOf(R, keys) <=> order[i] \in ParamsOf(uri, keys)
        /\ \A keys : ParamsOf(uri, keys) \subseteq D /\ ParamsOf(R, keys) \subseteq D
    BY ReorderedParams DEF ParamsOf
  <1>2. D \subseteq Nat \ {0}
    BY DEF IsText
  <1>3. ReadError(uri, pops) = Ok /\ MethodsError(methods) = Ok
    BY DEF UriError
  <1>4. ReadError(R, pops) = Ok /\ UriAmount(R) = UriAmount(uri)
    BY <1>3, ReorderedRead
  <1> HIDE DEF R, D
  <1>5. \A i \in MethodPlaces(R) : place[i] \in MethodPlaces(uri)
    BY <1>1, <1>2 DEF MethodPlaces
  <1>6. \A j \in MethodPlaces(uri) : \E i \in MethodPlaces(R) : place[i] = j
    BY <1>1, <1>2 DEF MethodPlaces
  <1>7. \A i \in MethodPlaces(R) : ValueAt(R, i) = ValueAt(uri, place[i])
    BY <1>1, <1>2 DEF MethodPlaces, ValueAt
  <1>8. \A i \in MethodPlaces(R) : again[i] = methods[place[i]]
    BY <1>4, <1>5, <1>7 DEF UriMethods
  <1>9. DOMAIN again = MethodPlaces(R) /\ DOMAIN methods = MethodPlaces(uri)
    BY DEF UriMethods
  <1>10. place \in [DOMAIN again -> DOMAIN methods]
    BY <1>5, <1>9
  <1>11. /\ Agreeing(methods)
         /\ DOMAIN methods \subseteq Nat /\ AmountsOf(methods) \subseteq Nat
    BY UriAgrees DEF Agreeing, AmountsOf
  <1>12. DOMAIN again \subseteq Nat
    BY <1>1, <1>4, <1>9, MethodValues
  <1> HIDE DEF methods, again, place
  <1>13. /\ Range(again) = Range(methods)
         /\ AmountsOf(again) = AmountsOf(methods)
         /\ Consistent(methods) => Consistent(again)
    BY <1>6, <1>8, <1>9, <1>10, ConsistentInPlace
  <1>14. MethodsError(again) = Ok
    BY <1>3, <1>11, <1>12, <1>13, MethodsConsistent
  <1>15. UriError(R, pops) = Ok
    BY <1>4, <1>14 DEF UriError, again
  <1> QED BY <1>13, <1>15 DEF methods, again, R

\* However the parameters of a URI are ordered, of any number, the parser accepts
\* it again, with the same methods and the same amount: neither its two loops nor
\* its comparisons with earlier methods depend on the order.
THEOREM ParsedInAnyOrder == Spec => []ParamOrderIrrelevant
  <1>1. ResultInv => ParamOrderIrrelevant
    <2> SUFFICES ASSUME ResultInv, Parsed, text.form = "uri",
                        \A i \in ParamsOf(text, {"label", "message"}) :
                           text.params[i].value.kind # "none",
                        NEW order \in Bijection(DOMAIN text.params, DOMAIN text.params)
                 PROVE  LET again == parse_resolved_instructions(Reordered(text, order),
                                                                 supports_pops)
                        IN  /\ again.error = Ok
                            /\ Range(again.methods) = Range(result.methods)
                            /\ max_amount(again) = max_amount(result)
      BY DEF ParamOrderIrrelevant
    <2> DEFINE R == Reordered(text, order)
               again == parse_resolved_instructions(R, supports_pops)
    <2>1. IsText(text) /\ result = parse_resolved_instructions(text, supports_pops)
      BY ParsedFrom
    <2>2. UriError(text, supports_pops) = Ok
      BY <2>1 DEF parse_resolved_instructions, Err, Parsed
    <2>3. result.methods = UriMethods(text)
      BY <2>1, <2>2 DEF parse_resolved_instructions, UriPayment, PaymentOf
    <2>4. /\ UriError(R, supports_pops) = Ok
          /\ Range(UriMethods(R)) = Range(UriMethods(text))
          /\ AmountsOf(UriMethods(R)) = AmountsOf(UriMethods(text))
      BY <2>1, <2>2, ReorderedMethods
    <2>5. R.form = "uri"
      BY DEF Reordered
    <2> HIDE DEF R
    <2>6. again.error = Ok /\ again.methods = UriMethods(R)
      BY <2>4, <2>5 DEF parse_resolved_instructions, UriPayment, PaymentOf
    <2> QED BY <2>3, <2>4, <2>6 DEF max_amount, R
  <1> QED BY <1>1, ParseCallInv, PTL

=============================================================================
