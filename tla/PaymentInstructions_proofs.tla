--------------------- MODULE PaymentInstructions_proofs ---------------------
(***************************************************************************)
(* What the parser's checks amount to, for every text: the first error of  *)
(* a sequence of checks, and the conditions under which the methods of a   *)
(* URI pass.  The rounding of amounts to whole satoshis.                   *)
(***************************************************************************)
EXTENDS PaymentInstructions, WellFoundedInduction, TLAPS

-----------------------------------------------------------------------------
(* Least and greatest numbers.                                             *)

LEMMA LeastIsLeast ==
    ASSUME NEW S, S \subseteq Nat, S # {}
    PROVE  Least(S) \in S /\ \A b \in S : Least(S) <= b
  <1>1. PICK a \in S : \A b \in S : ~(<<b, a>> \in OpToRel(<, Nat))
    BY NatLessThanWellFounded, WFMin
  <1>2. \A x, y \in Nat : x < y => <<x, y>> \in OpToRel(<, Nat)
    BY DEF OpToRel
  <1>3. \A b \in S : a <= b
    <2> SUFFICES ASSUME NEW b \in S, b < a PROVE FALSE
      OBVIOUS
    <2> QED BY <1>1, <1>2
  <1> QED BY <1>3 DEF Least

LEMMA GreatestIsGreatest ==
    ASSUME NEW S, S \subseteq Nat, S # {}, NEW n \in Nat, \A a \in S : a <= n
    PROVE  Greatest(S) \in S /\ \A b \in S : Greatest(S) >= b
  <1> DEFINE T == {n - a : a \in S}
  <1>1. T \subseteq Nat /\ T # {}
    <2>1. \A a \in S : n - a \in Nat
      OBVIOUS
    <2> QED BY <2>1
  <1>2. Least(T) \in T /\ \A b \in T : Least(T) <= b
    BY <1>1, LeastIsLeast
  <1>3. PICK a \in S : Least(T) = n - a
    BY <1>2
  <1>4. \A b \in S : n - b \in T
    OBVIOUS
  <1>5. \A b \in S : a >= b
    <2> HIDE DEF T
    <2>1. \A b \in S : n - a <= n - b
      BY <1>2, <1>3, <1>4
    <2> QED BY <2>1
  <1> QED BY <1>5 DEF Greatest

\* No check fails if and only if there is no first error.
LEMMA NoFirstError ==
    ASSUME NEW checks, DOMAIN checks \subseteq Nat
    PROVE  FirstError(checks) = Ok <=> \A i \in DOMAIN checks : checks[i] = Ok
  <1> DEFINE failing == {i \in DOMAIN checks : checks[i] # Ok}
  <1>1. failing # {} => Least(failing) \in failing
    BY LeastIsLeast
  <1> QED BY <1>1 DEF FirstError

-----------------------------------------------------------------------------
(* When the methods of a URI pass.                                         *)

\* The order of the methods plays no part.
Consistent(methods) ==
    /\ DOMAIN methods # {}
    /\ \A a \in AmountsOf(methods) : a <= MAX_MSATS
    /\ \A i, j \in DOMAIN methods : ~LightningDiffers(methods, i, j)
    /\ AmountsOf(methods) # {} => \A i \in DOMAIN methods : methods[i].amount # {}
    /\ \A a, b \in AmountsOf(methods) : a <= b + MAX_AMOUNT_DIFFERENCE

\* Each method by itself: the later of two different ones is found.
LEMMA NoMethodError ==
    ASSUME NEW methods, DOMAIN methods \subseteq Nat, AmountsOf(methods) \subseteq Nat
    PROVE  FirstError([i \in DOMAIN methods |-> MethodError(methods, i)]) = Ok <=>
              /\ \A a \in AmountsOf(methods) : a <= MAX_MSATS
              /\ \A i, j \in DOMAIN methods : ~LightningDiffers(methods, i, j)
  <1> DEFINE checks == [i \in DOMAIN methods |-> MethodError(methods, i)]
  <1>1. FirstError(checks) = Ok <=> \A i \in DOMAIN methods : MethodError(methods, i) = Ok
    BY NoFirstError
  <1>2. \A i \in DOMAIN methods : MethodError(methods, i) = Ok <=>
           /\ ~ \E a \in methods[i].amount : a > MAX_MSATS
           /\ \A j \in DOMAIN methods : j < i => ~LightningDiffers(methods, j, i)
    BY DEF MethodError, Ok
  <1>3. \A i, j \in DOMAIN methods :
           LightningDiffers(methods, i, j) => LightningDiffers(methods, j, i) /\ i # j
    BY DEF LightningDiffers
  <1>4. (\A i, j \in DOMAIN methods : j < i => ~LightningDiffers(methods, j, i)) <=>
           \A i, j \in DOMAIN methods : ~LightningDiffers(methods, i, j)
    BY <1>3
  <1>5. (\A i \in DOMAIN methods : ~ \E a \in methods[i].amount : a > MAX_MSATS) <=>
           \A a \in AmountsOf(methods) : a <= MAX_MSATS
    <2>1. \A a \in AmountsOf(methods) : ~(a > MAX_MSATS) <=> a <= MAX_MSATS
      BY AmountAssumption
    <2> QED BY <2>1 DEF AmountsOf
  <1> HIDE DEF checks
  <1>6. FirstError(checks) = Ok <=>
           /\ \A i \in DOMAIN methods : ~ \E a \in methods[i].amount : a > MAX_MSATS
           /\ \A i, j \in DOMAIN methods : j < i => ~LightningDiffers(methods, j, i)
    BY <1>1, <1>2
  <1> QED BY <1>4, <1>5, <1>6 DEF checks

\* The extremes of the amounts, and what they tell.
LEMMA NoMixNoSpread ==
    ASSUME NEW methods, AmountsOf(methods) \subseteq Nat,
           \A a \in AmountsOf(methods) : a <= MAX_MSATS
    PROVE  /\ MixError(methods) = Ok <=>
                 (AmountsOf(methods) # {} =>
                     \A i \in DOMAIN methods : methods[i].amount # {})
           /\ SpreadError(methods) = Ok <=>
                 \A a, b \in AmountsOf(methods) : a <= b + MAX_AMOUNT_DIFFERENCE
  <1> DEFINE A == AmountsOf(methods)
             min == Least(A \cup {MAX_MSATS})
             max == Greatest(A \cup {0})
  <1>1. MAX_MSATS \in Nat /\ MAX_MSATS > 0 /\ MAX_AMOUNT_DIFFERENCE \in Nat
    BY AmountAssumption, DifferenceAssumption
  <1>2. min \in A \cup {MAX_MSATS} /\ \A a \in A \cup {MAX_MSATS} : min <= a
    BY <1>1, LeastIsLeast
  <1>3. max \in A \cup {0} /\ \A a \in A \cup {0} : max >= a
    <2>1. \A a \in A \cup {0} : a <= MAX_MSATS
      BY <1>1
    <2> QED BY <1>1, <2>1, GreatestIsGreatest
  <1>4. MixError(methods) = Ok <=>
           ~ /\ min # MAX_MSATS \/ max # 0
             /\ \E i \in DOMAIN methods : methods[i].amount = {}
    BY DEF MixError, Ok
  <1>5. SpreadError(methods) = Ok <=> ~(max > min + MAX_AMOUNT_DIFFERENCE)
    BY DEF SpreadError, Ok
  <1>6. A \subseteq Nat /\ \A a \in A : a <= MAX_MSATS
    OBVIOUS
  <1> HIDE DEF A, min, max
  <1>7. (min # MAX_MSATS \/ max # 0) <=> A # {}
    <2>1. A = {} => min = MAX_MSATS /\ max = 0
      BY <1>2, <1>3
    <2>2. ASSUME NEW a \in A PROVE min # MAX_MSATS \/ max # 0
      <3>1. min <= a /\ max >= a /\ a \in Nat
        BY <1>2, <1>3, <1>6
      <3> QED BY <1>1, <3>1
    <2> QED BY <2>1, <2>2
  <1>8. min \in Nat /\ max \in Nat
    BY <1>1, <1>2, <1>3, <1>6
  <1>9. A # {} => min \in A /\ max \in A
    <2> SUFFICES ASSUME NEW a \in A PROVE min \in A /\ max \in A
      OBVIOUS
    <2>1. min <= a /\ a <= max /\ a <= MAX_MSATS /\ a \in Nat
      BY <1>2, <1>3, <1>6
    <2>2. CASE min = MAX_MSATS
      BY <1>1, <1>3, <1>8, <2>1, <2>2
    <2>3. CASE max = 0
      BY <1>1, <1>2, <1>8, <2>1, <2>3
    <2> QED BY <1>2, <1>3, <2>2, <2>3
  <1>10. ~(max > min + MAX_AMOUNT_DIFFERENCE) <=>
            \A a, b \in A : a <= b + MAX_AMOUNT_DIFFERENCE
    <2>1. CASE A = {}
      BY <1>1, <1>3, <1>8, <2>1
    <2>2. CASE A # {}
      <3>1. \A a, b \in A : a <= max /\ min <= b /\ a \in Nat /\ b \in Nat
        BY <1>2, <1>3, <1>6
      <3>2. ~(max > min + MAX_AMOUNT_DIFFERENCE) =>
               \A a, b \in A : a <= b + MAX_AMOUNT_DIFFERENCE
        BY <1>1, <1>8, <3>1
      <3>3. (\A a, b \in A : a <= b + MAX_AMOUNT_DIFFERENCE) =>
               max <= min + MAX_AMOUNT_DIFFERENCE
        BY <1>9, <2>2
      <3> QED BY <1>1, <1>8, <3>2, <3>3
    <2> QED BY <2>1, <2>2
  <1> QED BY <1>4, <1>5, <1>7, <1>10 DEF A

\* All of them together.
LEMMA MethodsConsistent ==
    ASSUME NEW methods, DOMAIN methods \subseteq Nat, AmountsOf(methods) \subseteq Nat
    PROVE  MethodsError(methods) = Ok <=> Consistent(methods)
  <1> DEFINE each == FirstError([i \in DOMAIN methods |-> MethodError(methods, i)])
             checks == <<each, MixError(methods), SpreadError(methods)>>
  <1>1. FirstError(checks) = Ok <=> \A i \in DOMAIN checks : checks[i] = Ok
    <2>1. DOMAIN checks \subseteq Nat
      OBVIOUS
    <2> HIDE DEF checks
    <2> QED BY <2>1, NoFirstError
  <1>2. MethodsError(methods) = Ok <=> DOMAIN methods # {} /\ FirstError(checks) = Ok
    BY DEF MethodsError, Ok
  <1> HIDE DEF each
  <1>3. (\A i \in DOMAIN checks : checks[i] = Ok) <=>
           each = Ok /\ MixError(methods) = Ok /\ SpreadError(methods) = Ok
    OBVIOUS
  <1> HIDE DEF checks
  <1>4. MethodsError(methods) = Ok <=>
           /\ DOMAIN methods # {}
           /\ each = Ok /\ MixError(methods) = Ok /\ SpreadError(methods) = Ok
    BY <1>1, <1>2, <1>3
  <1>5. each = Ok <=> /\ \A a \in AmountsOf(methods) : a <= MAX_MSATS
                     /\ \A i, j \in DOMAIN methods : ~LightningDiffers(methods, i, j)
    BY NoMethodError DEF each
  <1> QED BY <1>4, <1>5, NoMixNoSpread DEF Consistent

-----------------------------------------------------------------------------
(* What the methods of a text are, once it has been read.                  *)

\* A URI is read without error if none of its checks finds one.
LEMMA ReadWithoutError ==
    ASSUME NEW text, NEW pops, text.form = "uri", IsText(text)
    PROVE  ReadError(text, pops) = Ok <=>
              /\ text.body.kind = "none" \/ AddressError(text.body) = Ok
              /\ \A i \in DOMAIN text.params : ParamError(text.params[i], pops) = Ok
              /\ AmountError(text) = Ok
              /\ RepeatError(text, "label") = Ok
              /\ RepeatError(text, "message") = Ok
  <1> DEFINE body == IF text.body.kind = "none" THEN Ok ELSE AddressError(text.body)
             each == FirstError([i \in DOMAIN text.params |-> ParamError(text.params[i], pops)])
             label == RepeatError(text, "label")
             message == RepeatError(text, "message")
             checks == <<body, each, AmountError(text), label, message>>
  <1>1. FirstError(checks) = Ok <=> \A i \in DOMAIN checks : checks[i] = Ok
    <2>1. DOMAIN checks \subseteq Nat
      OBVIOUS
    <2> HIDE DEF checks
    <2> QED BY <2>1, NoFirstError
  <1>2. ReadError(text, pops) = FirstError(checks)
    BY DEF ReadError
  <1>3. each = Ok <=> \A i \in DOMAIN text.params : ParamError(text.params[i], pops) = Ok
    <2> DEFINE params == [i \in DOMAIN text.params |-> ParamError(text.params[i], pops)]
    <2>1. DOMAIN params \subseteq Nat
      BY DEF IsText
    <2>2. FirstError(params) = Ok <=> \A i \in DOMAIN params : params[i] = Ok
      <3> HIDE DEF params
      <3> QED BY <2>1, NoFirstError
    <2> QED BY <2>2
  <1>4. body = Ok <=> text.body.kind = "none" \/ AddressError(text.body) = Ok
    OBVIOUS
  <1> HIDE DEF body, each, label, message
  <1>5. (\A i \in DOMAIN checks : checks[i] = Ok) <=>
           body = Ok /\ each = Ok /\ AmountError(text) = Ok /\ label = Ok /\ message = Ok
    OBVIOUS
  <1> HIDE DEF checks
  <1>6. ReadError(text, pops) = Ok <=>
           body = Ok /\ each = Ok /\ AmountError(text) = Ok /\ label = Ok /\ message = Ok
    BY <1>1, <1>2, <1>5
  <1> QED BY <1>3, <1>4, <1>6 DEF label, message

\* The amount of a URI that has been read is one number, if it has any.
LEMMA OneUriAmount ==
    ASSUME NEW text, text.form = "uri", IsText(text), AmountError(text) = Ok
    PROVE  UriAmount(text) \subseteq Nat /\ \A a, b \in UriAmount(text) : a = b
  <1>1. /\ \A i, j \in ParamsOf(text, {"amount"}) : i = j
        /\ \A i \in ParamsOf(text, {"amount"}) : text.params[i].value.sats \in Nat
    BY DEF AmountError, Ok, IsText, IsValue, ParamsOf
  <1>2. \A sats \in Nat : from_sats(sats) \in Nat
    <2> SUFFICES ASSUME NEW sats \in Nat PROVE from_sats(sats) \in Nat
      OBVIOUS
    <2>1. sats * MsatsPerSat \in Nat /\ U64 \in Nat \ {0}
      BY AmountAssumption
    <2> QED BY <2>1 DEF from_sats
  <1> QED BY <1>1, <1>2 DEF UriAmount

\* A value that passes as an address, an invoice or an offer is one.
LEMMA MethodValues ==
    ASSUME NEW text, NEW pops, text.form = "uri", IsText(text), ReadError(text, pops) = Ok,
           NEW i \in MethodPlaces(text)
    PROVE  /\ i \in Nat
           /\ IsValue(ValueAt(text, i))
           /\ ValueAt(text, i).kind \in {"address", "invoice", "offer"}
  <1>1. CASE i \in ParamsOf(text, {"bc", "lightning", "lno"})
    <2>1. i \in DOMAIN text.params /\ text.params[i].key \in {"bc", "lightning", "lno"}
      BY <1>1 DEF ParamsOf
    <2>2. i \in Nat \ {0} /\ IsValue(text.params[i].value)
      BY <2>1 DEF IsText
    <2>3. ParamError(text.params[i], pops) = Ok
      BY <2>1, ReadWithoutError
    <2>4. text.params[i].value.kind \in {"address", "invoice", "offer"}
      BY <2>1, <2>3 DEF ParamError, AddressError, InvoiceError, OfferError, Ok
    <2> QED BY <2>2, <2>4 DEF ValueAt
  <1>2. CASE i = 0 /\ text.body.kind # "none"
    <2>1. AddressError(text.body) = Ok
      BY <1>2, ReadWithoutError
    <2>2. text.body.kind = "address"
      BY <2>1 DEF AddressError, Ok
    <2> QED BY <1>2, <2>2 DEF ValueAt, IsText
  <1> QED BY <1>1, <1>2 DEF MethodPlaces

\* A method asks for at most one amount, and the on-chain methods of a URI all
\* for the same.
LEMMA MethodShapes ==
    ASSUME NEW text, NEW pops, text.form = "uri", IsText(text), ReadError(text, pops) = Ok,
           NEW i \in MethodPlaces(text)
    PROVE  LET m == UriMethods(text)[i] IN
           /\ m.amount \subseteq Nat /\ \A a, b \in m.amount : a = b
           /\ m.type = "OnChain" => m.amount = UriAmount(text)
  <1> DEFINE v == ValueAt(text, i)
  <1>1. IsValue(v) /\ v.kind \in {"address", "invoice", "offer"}
    BY MethodValues
  <1>2. AmountError(text) = Ok
    BY ReadWithoutError
  <1>3. UriMethods(text)[i] = IF v.kind = "address"
                              THEN [type |-> "OnChain", amount |-> UriAmount(text)]
                              ELSE Method(v)
    BY DEF UriMethods
  <1>4. CASE v.kind = "address"
    BY <1>2, <1>3, <1>4, OneUriAmount
  <1>5. CASE v.kind = "invoice"
    BY <1>1, <1>3, <1>5 DEF Method, IsValue
  <1>6. CASE v.kind = "offer"
    BY <1>1, <1>3, <1>6 DEF Method, IsValue
  <1> QED BY <1>1, <1>4, <1>5, <1>6

\* What the methods of every payment have in common.
Agreeing(methods) ==
    /\ DOMAIN methods \subseteq Nat
    /\ \A i \in DOMAIN methods : methods[i].amount \subseteq Nat
    /\ \A i, j \in DOMAIN methods :
          /\ IsLightning(methods[i]) = IsLightning(methods[j]) =>
                methods[i].amount = methods[j].amount
          /\ methods[i].amount = {} <=> methods[j].amount = {}
          /\ \A a \in methods[i].amount, b \in methods[j].amount :
                a <= b + MAX_AMOUNT_DIFFERENCE

LEMMA UriAgrees ==
    ASSUME NEW text, NEW pops, text.form = "uri", IsText(text), UriError(text, pops) = Ok
    PROVE  Agreeing(UriMethods(text))
  <1> DEFINE methods == UriMethods(text)
  <1>1. ReadError(text, pops) = Ok /\ MethodsError(methods) = Ok
    BY DEF UriError
  <1>2. DOMAIN methods = MethodPlaces(text) /\ DOMAIN methods \subseteq Nat
    BY <1>1, MethodValues DEF UriMethods
  <1>3. \A i \in DOMAIN methods :
           /\ methods[i].amount \subseteq Nat /\ \A a, b \in methods[i].amount : a = b
           /\ methods[i].type = "OnChain" => methods[i].amount = UriAmount(text)
    BY <1>1, <1>2, MethodShapes
  <1> HIDE DEF methods
  <1>4. AmountsOf(methods) \subseteq Nat
    BY <1>3 DEF AmountsOf
  <1>5. Consistent(methods)
    BY <1>1, <1>2, <1>4, MethodsConsistent
  <1>6. \A i, j \in DOMAIN methods : methods[i].amount = {} <=> methods[j].amount = {}
    BY <1>5 DEF Consistent, AmountsOf
  <1>7. \A i, j \in DOMAIN methods : \A a \in methods[i].amount, b \in methods[j].amount :
           a <= b + MAX_AMOUNT_DIFFERENCE
    BY <1>5 DEF Consistent, AmountsOf
  <1>8. ASSUME NEW i \in DOMAIN methods, NEW j \in DOMAIN methods,
               IsLightning(methods[i]) = IsLightning(methods[j])
        PROVE  methods[i].amount = methods[j].amount
    <2>1. CASE IsLightning(methods[i]) /\ IsLightning(methods[j])
      BY <1>5, <1>6, <2>1 DEF Consistent, LightningDiffers
    <2>2. CASE methods[i].type = "OnChain" /\ methods[j].type = "OnChain"
      BY <1>3, <2>2
    <2> QED BY <1>8, <2>1, <2>2 DEF IsLightning
  <1>9. \A i \in DOMAIN methods : methods[i].amount \subseteq Nat
    BY <1>3
  <1>10. Agreeing(methods)
    BY <1>2, <1>6, <1>7, <1>8, <1>9 DEF Agreeing
  <1> QED BY <1>10 DEF methods

LEMMA ParsedAgrees ==
    ASSUME NEW text, NEW pops, IsText(text),
           parse_resolved_instructions(text, pops).error = Ok
    PROVE  Agreeing(parse_resolved_instructions(text, pops).methods)
  <1> DEFINE payment == parse_resolved_instructions(text, pops)
  <1>1. CASE text.form = "uri"
    <2>1. UriError(text, pops) = Ok
      BY <1>1 DEF parse_resolved_instructions, Err
    <2>2. payment.methods = UriMethods(text)
      BY <1>1, <2>1 DEF parse_resolved_instructions, UriPayment, PaymentOf
    <2> QED BY <1>1, <2>1, <2>2, UriAgrees
  <1>2. CASE text.form # "uri"
    <2>1. ValueError(text) = Ok
      BY <1>2 DEF parse_resolved_instructions, Err
    <2>2. payment.methods = <<Method(text.value)>>
      BY <1>2, <2>1 DEF parse_resolved_instructions, PaymentOf
    <2>3. text.value.kind \in {"address", "invoice", "offer"}
      BY <2>1 DEF ValueError, InvoiceError, Ok
    <2>4. Method(text.value).amount \subseteq Nat
          /\ \A a, b \in Method(text.value).amount : a = b
      BY <1>2, <2>3 DEF Method, IsText, IsValue
    <2> DEFINE m == Method(text.value)
    <2> HIDE DEF m
    <2>5. Agreeing(<<m>>)
      <3>1. \A a, b \in m.amount : a <= b + MAX_AMOUNT_DIFFERENCE
        BY <2>4, DifferenceAssumption DEF m
      <3>2. DOMAIN <<m>> = {1} /\ <<m>>[1] = m
        OBVIOUS
      <3> QED BY <2>4, <3>1, <3>2 DEF Agreeing, m
    <2> QED BY <2>2, <2>5 DEF m
  <1> QED BY <1>1, <1>2

-----------------------------------------------------------------------------
(* What can be paid.                                                       *)

\* The first method of a kind speaks for all of them.
LEMMA FirstSpeaksForAll ==
    ASSUME NEW payment, Agreeing(payment.methods), NEW i \in DOMAIN payment.methods
    PROVE  AmountOfFirst(payment, IsLightning(payment.methods[i])) = payment.methods[i].amount
  <1> DEFINE lightning == IsLightning(payment.methods[i])
             found == {j \in DOMAIN payment.methods :
                          IsLightning(payment.methods[j]) = lightning}
  <1>1. i \in found /\ found \subseteq Nat
    BY DEF Agreeing
  <1>2. Least(found) \in found
    <2> HIDE DEF found
    <2> QED BY <1>1, LeastIsLeast
  <1>3. payment.methods[Least(found)].amount = payment.methods[i].amount
    BY <1>2 DEF Agreeing
  <1>4. AmountOfFirst(payment, lightning) =
           IF found = {} THEN {} ELSE payment.methods[Least(found)].amount
    BY DEF AmountOfFirst
  <1> HIDE DEF found
  <1> QED BY <1>1, <1>3, <1>4

\* The first methods of both kinds ask for what is asked.
LEMMA AskedIsAll ==
    ASSUME NEW payment, Agreeing(payment.methods)
    PROVE  ln_payment_amount(payment) \cup onchain_payment_amount(payment)
              = AmountsOf(payment.methods)
  <1> DEFINE methods == payment.methods
             found(lightning) == {j \in DOMAIN methods : IsLightning(methods[j]) = lightning}
  <1>1. ASSUME NEW lightning \in BOOLEAN
        PROVE  AmountOfFirst(payment, lightning) \subseteq AmountsOf(methods)
    <2>1. found(lightning) \subseteq Nat
      BY DEF Agreeing
    <2>2. found(lightning) # {} => Least(found(lightning)) \in found(lightning)
      <3> DEFINE S == found(lightning)
      <3>1. S \subseteq Nat
        BY <2>1
      <3> HIDE DEF S
      <3>2. S # {} => Least(S) \in S
        BY <3>1, LeastIsLeast
      <3> QED BY <3>2 DEF S
    <2> QED BY <2>2 DEF AmountOfFirst, AmountsOf
  <1>2. ASSUME NEW i \in DOMAIN methods
        PROVE  \/ methods[i].amount = AmountOfFirst(payment, TRUE)
               \/ methods[i].amount = AmountOfFirst(payment, FALSE)
    <2>1. IsLightning(methods[i]) \in BOOLEAN
      BY DEF IsLightning
    <2> QED BY <2>1, FirstSpeaksForAll
  <1>3. AmountsOf(methods) \subseteq AmountOfFirst(payment, TRUE) \cup AmountOfFirst(payment, FALSE)
    BY <1>2 DEF AmountsOf
  <1> QED BY <1>1, <1>3 DEF ln_payment_amount, onchain_payment_amount

LEMMA AgreeingIsPayable ==
    ASSUME NEW payment, Agreeing(payment.methods)
    PROVE  /\ \A a \in max_amount(payment) : set_amount(payment, a)
           /\ \A a, b : b \in AmountsOf(payment.methods) /\ set_amount(payment, a) =>
                 /\ a \in AmountsOf(payment.methods)
                 /\ a <= b + MAX_AMOUNT_DIFFERENCE
                 /\ b <= a + MAX_AMOUNT_DIFFERENCE
  <1> DEFINE A == AmountsOf(payment.methods)
  <1>1. A \subseteq Nat /\ \A a, b \in A : a <= b + MAX_AMOUNT_DIFFERENCE
    BY DEF Agreeing, AmountsOf
  <1>2. \A a : set_amount(payment, a) <=> A = {} \/ a \in A
    BY AskedIsAll DEF set_amount
  <1>3. max_amount(payment) = IF A = {} THEN {} ELSE {Greatest(A)}
    BY DEF max_amount
  <1> HIDE DEF A
  <1>4. ASSUME A # {} PROVE Greatest(A) \in A
    <2>1. PICK b \in A : TRUE
      BY <1>4
    <2>2. b + MAX_AMOUNT_DIFFERENCE \in Nat /\ \A a \in A : a <= b + MAX_AMOUNT_DIFFERENCE
      BY <1>1, DifferenceAssumption
    <2> QED BY <1>1, <1>4, <2>2, GreatestIsGreatest
  <1>5. \A a \in max_amount(payment) : set_amount(payment, a)
    BY <1>2, <1>3, <1>4
  <1>6. \A a, b : b \in A /\ set_amount(payment, a) =>
           a \in A /\ a <= b + MAX_AMOUNT_DIFFERENCE /\ b <= a + MAX_AMOUNT_DIFFERENCE
    BY <1>1, <1>2
  <1> QED BY <1>5, <1>6 DEF A

-----------------------------------------------------------------------------
(* Rounding.                                                               *)

\* What division by a positive number leaves over, from its definition.
LEMMA Division ==
    ASSUME NEW n \in Nat, NEW d \in Nat \ {0}
    PROVE  /\ n \div d \in Nat
           /\ n % d \in 0..d-1
           /\ n = d * (n \div d) + (n % d)
BY SMT

\* What is below a modulus does not wrap.
LEMMA NoWrap ==
    ASSUME NEW n \in Nat, NEW d \in Nat \ {0}, n < d
    PROVE  n % d = n
BY SMT

\* The whole satoshis that sats_rounding_up makes of any amount up to 21 million
\* bitcoin are at least that amount and less than a satoshi more, when they are
\* read back by from_sats; neither computation overflows. The wallet writes
\* amounts into URIs and custodial invoices this way.
THEOREM RoundingUpCovers ==
    ASSUME NEW msats \in 0..MAX_MSATS
    PROVE  LET rounded == from_sats(sats_rounding_up(msats)) IN
           msats <= rounded /\ rounded < msats + MsatsPerSat
<1> DEFINE up == msats + (MsatsPerSat - 1)
           sats == up \div MsatsPerSat
<1>1. /\ MsatsPerSat \in Nat \ {0} /\ U64 \in Nat \ {0} /\ MAX_MSATS \in Nat
      /\ MAX_MSATS + MsatsPerSat <= U64
    BY AmountAssumption
<1>2. up \in Nat /\ up < U64
    BY <1>1
<1>3. up % U64 = up
    BY <1>1, <1>2, NoWrap
<1>4. sats_rounding_up(msats) = sats
    BY <1>3 DEF sats_rounding_up
<1>5. sats \in Nat /\ up % MsatsPerSat \in 0..MsatsPerSat-1
      /\ up = MsatsPerSat * sats + (up % MsatsPerSat)
    BY <1>1, <1>2, Division
<1> HIDE DEF sats
<1>6. sats * MsatsPerSat = MsatsPerSat * sats /\ sats * MsatsPerSat \in Nat
    BY <1>1, <1>5
<1>7. msats <= sats * MsatsPerSat /\ sats * MsatsPerSat < msats + MsatsPerSat
    BY <1>1, <1>5, <1>6
<1>8. (sats * MsatsPerSat) % U64 = sats * MsatsPerSat
    BY <1>1, <1>6, <1>7, NoWrap
<1> QED
    BY <1>4, <1>7, <1>8 DEF from_sats

=============================================================================
