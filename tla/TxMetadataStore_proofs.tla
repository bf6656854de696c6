----------------------- MODULE TxMetadataStore_proofs -----------------------
(***************************************************************************)
(* TxMetadataStore implements MetadataService, for any tasks, keys and     *)
(* values: an inductive invariant about the lock, the memory and the       *)
(* store, and from it every step's abstract counterpart.                   *)
(***************************************************************************)
EXTENDS TxMetadataStore, TLAPS

MapValue == StoredValue \cup {Plain("None")}

PC == {"idle", "lock", "locked", "write", "written", "reading", "ending", "dead"}

DiskOK == /\ DOMAIN disk \subseteq KeyString
          /\ \A s \in DOMAIN disk : \E v \in StoredValue : disk[s] = encode(v)

StoreTypeOK ==
    /\ tx_metadata \in [PaymentId -> MapValue]
    /\ DiskOK
    /\ writer \in Task \cup {NoTask}
    /\ readers \subseteq Task
    /\ poisoned \in BOOLEAN
    /\ pc \in [Task -> PC]
    /\ request \in [Task -> Request \cup {NoRequest}]
    /\ ok \in [Task -> BOOLEAN]
    /\ seen \in [Task -> [PaymentId -> MapValue]]
    /\ unread \in [Task -> SUBSET PaymentId]

\* A writer is alone, and a poisoned lock is held by nobody.
LockInv ==
    /\ \A t \in Task : pc[t] \in {"locked", "write", "written"} => writer = t
    /\ \A t \in Task : pc[t] = "reading" => t \in readers
    /\ writer # NoTask => readers = {}
    /\ poisoned => writer = NoTask /\ readers = {}

\* What a call knows, by where it is.
CallInv ==
    \A t \in Task :
       /\ pc[t] \in {"idle", "lock", "locked", "write"} => ok[t] = FALSE /\ seen[t] = Unread
       /\ pc[t] = "idle" => request[t] = NoRequest
       /\ pc[t] \in {"lock", "locked", "write", "reading"} => request[t] \in Request
       /\ pc[t] \in {"locked", "write"} => request[t].op # "read"
       /\ pc[t] = "reading" =>
             /\ request[t].op = "read"
             /\ ok[t] = TRUE
             /\ \A k \in PaymentId \ unread[t] : seen[t][k] = tx_metadata[k]

\* While a value is in the memory and not in the store, the two differ by it alone.
WriteInv ==
    \A t \in Task : pc[t] = "write" =>
       /\ tx_metadata = [Loaded(disk) EXCEPT ![request[t].key] = tx_metadata[request[t].key]]
       /\ request[t].op = "do_set" => tx_metadata[request[t].key] = request[t].value
       /\ request[t].op = "mark" =>
             /\ tx_metadata[request[t].key] = Plain("Trigger")
             /\ Loaded(disk)[request[t].key].ty = "Payment"

StoreInv == StoreTypeOK /\ LockInv /\ CallInv /\ WriteInv /\ MemoryIsStore

-----------------------------------------------------------------------------
(* The conversions.                                                        *)

\* A key string is read back as the id it was made from: the tag tells the two kinds
\* apart, and within a kind the digits tell the ids apart.
LEMMA KeyRoundTrip == \A k \in PaymentId : from_str(to_string(k)) = k
<1>1. ASSUME NEW c \in CustId PROVE from_str(to_string(c)) = c
  <2> DEFINE s == to_string(c)
  <2>1. s[1] = "CU-" /\ s[2] = uuid(c)
    BY DEF to_string
  <2>2. \A d \in CustId : uuid(c) = uuid(d) <=> d = c
    BY DEF uuid
  <2>3. (CHOOSE d \in CustId : s[2] = uuid(d)) = c
    BY <2>1, <2>2
  <2> HIDE DEF s
  <2>4. from_str(s) = CHOOSE d \in CustId : s[2] = uuid(d)
    BY <2>1 DEF from_str, Uuid
  <2> QED BY <2>3, <2>4 DEF s
<1>2. ASSUME NEW l \in LnId PROVE from_str(to_string(l)) = l
  <2> DEFINE s == to_string(l)
  <2>1. s[1] = "LN-" /\ s[2] = as_hex(l)
    BY IdsAssumption DEF to_string
  <2>2. \A d \in LnId : as_hex(l) = as_hex(d) <=> d = l
    BY DEF as_hex
  <2>3. (CHOOSE d \in LnId : s[2] = as_hex(d)) = l
    BY <2>1, <2>2
  <2> HIDE DEF s
  <2>4. from_str(s) = CHOOSE d \in LnId : s[2] = as_hex(d)
    BY <2>1 DEF from_str, Hex
  <2> QED BY <2>3, <2>4 DEF s
<1> QED BY <1>1, <1>2 DEF PaymentId

\* So is the id in a value, whose variant tells the kinds apart.
LEMMA IdRoundTrip == \A k \in PaymentId : decode_id(encode_id(k)) = k
BY DEF PaymentId, decode_id, encode_id

\* A serialised value is read back as it was.
LEMMA ValueRoundTrip == \A v \in StoredValue : decode(encode(v)) = v
<1>1. decode(encode(Plain("Payment"))) = Plain("Payment")
  BY DEF Plain, encode, decode
<1>2. decode(encode(Plain("Trigger"))) = Plain("Trigger")
  BY DEF Plain, encode, decode
<1>3. ASSUME NEW c \in CustId, NEW l \in LnId, NEW k \in PaymentId
      PROVE  decode(encode(TransferToNonCustodial(c, l, k))) = TransferToNonCustodial(c, l, k)
  <2>1. encode(TransferToNonCustodial(c, l, k)) =
           [type |-> 0, custodial_payment |-> c, lightning_payment |-> l,
            payment_triggering_transfer |-> encode_id(k)]
    BY DEF TransferToNonCustodial, encode
  <2>2. decode_id(encode_id(k)) = k /\ k # NoId
    BY IdRoundTrip, IdsAssumption
  <2> QED BY <2>1, <2>2 DEF decode
<1> QED BY <1>1, <1>2, <1>3 DEF StoredValue

\* Every stored value is a value of the map, and so is what the wallet inserts.
LEMMA StoredValues ==
    /\ Plain("Payment") \in StoredValue
    /\ Plain("Trigger") \in StoredValue
    /\ Written \subseteq StoredValue
    /\ StoredValue \subseteq MapValue
    /\ Plain("None") \in MapValue
    /\ \A v \in StoredValue : v.ty # "None"
BY WrittenAssumption DEF StoredValue, MapValue, Plain, TransferToNonCustodial

\* What a restart loads for one key: the value at its key string.
LEMMA LoadedAt ==
    ASSUME NEW d, DOMAIN d \subseteq KeyString, NEW k \in PaymentId
    PROVE  Loaded(d)[k] = IF to_string(k) \in DOMAIN d
                          THEN decode(d[to_string(k)]) ELSE Plain("None")
<1>1. \A s \in DOMAIN d : from_str(s) = k <=> s = to_string(k)
  BY KeyRoundTrip DEF KeyString
<1>2. CASE to_string(k) \in DOMAIN d
  <2>1. (CHOOSE s \in DOMAIN d : from_str(s) = k) = to_string(k)
    BY <1>1, <1>2
  <2>2. \E s \in DOMAIN d : from_str(s) = k
    BY <1>1, <1>2
  <2> QED BY <1>2, <2>1, <2>2 DEF Loaded
<1>3. CASE to_string(k) \notin DOMAIN d
  BY <1>1, <1>3 DEF Loaded
<1> QED BY <1>2, <1>3

\* What the program wrote, it can read: a restart does not panic.
LEMMA DiskLoads ==
    ASSUME DiskOK
    PROVE  Loads(disk)
<1> SUFFICES ASSUME NEW s \in DOMAIN disk
             PROVE  from_str(s) # NoId /\ decode(disk[s]) # Plain("None")
  BY DEF Loads
<1>1. PICK k \in PaymentId : s = to_string(k)
  BY DEF DiskOK, KeyString
<1>2. from_str(s) # NoId
  BY <1>1, KeyRoundTrip, IdsAssumption
<1>3. PICK v \in StoredValue : disk[s] = encode(v)
  BY DEF DiskOK
<1>4. decode(disk[s]) = v /\ v.ty # "None"
  BY <1>3, ValueRoundTrip, StoredValues
<1>5. Plain("None").ty = "None"
  BY DEF Plain
<1> QED BY <1>2, <1>4, <1>5

\* The loaded map is a map of values.
LEMMA LoadedType ==
    ASSUME DiskOK
    PROVE  Loaded(disk) \in [PaymentId -> MapValue]
<1>1. ASSUME NEW k \in PaymentId PROVE Loaded(disk)[k] \in MapValue
  <2>1. Loaded(disk)[k] = IF to_string(k) \in DOMAIN disk
                          THEN decode(disk[to_string(k)]) ELSE Plain("None")
    BY LoadedAt DEF DiskOK
  <2>2. to_string(k) \in DOMAIN disk =>
           \E v \in StoredValue : disk[to_string(k)] = encode(v)
    BY DEF DiskOK
  <2> QED BY <2>1, <2>2, ValueRoundTrip, StoredValues
<1> QED BY <1>1 DEF Loaded

\* A write to the store changes the map to be loaded at its key, to its value.
LEMMA LoadedWrite ==
    ASSUME DiskOK, NEW k \in PaymentId, NEW v \in StoredValue, kv_write(k, v)
    PROVE  DiskOK' /\ Loaded(disk)' = [Loaded(disk) EXCEPT ![k] = v]
<1>1. DOMAIN disk' = DOMAIN disk \cup {to_string(k)}
  BY DEF kv_write
<1>2. \A s \in DOMAIN disk' : disk'[s] = IF s = to_string(k) THEN encode(v) ELSE disk[s]
  BY DEF kv_write
<1>3. DiskOK'
  BY <1>1, <1>2 DEF DiskOK, KeyString
<1>4. ASSUME NEW j \in PaymentId
      PROVE  Loaded(disk')[j] = [Loaded(disk) EXCEPT ![k] = v][j]
  <2>1. Loaded(disk)[j] = IF to_string(j) \in DOMAIN disk
                          THEN decode(disk[to_string(j)]) ELSE Plain("None")
    BY LoadedAt DEF DiskOK
  <2>2. Loaded(disk')[j] = IF to_string(j) \in DOMAIN disk'
                           THEN decode(disk'[to_string(j)]) ELSE Plain("None")
    BY <1>3, LoadedAt DEF DiskOK
  <2>3. to_string(j) = to_string(k) <=> j = k
    BY KeyRoundTrip
  <2>4. DOMAIN Loaded(disk) = PaymentId
    BY DEF Loaded
  <2>5. CASE j = k
    <3>1. Loaded(disk')[j] = decode(encode(v))
      BY <1>1, <1>2, <2>2, <2>5
    <3> QED BY <2>4, <2>5, <3>1, ValueRoundTrip
  <2>6. CASE j # k
    <3>1. Loaded(disk')[j] = Loaded(disk)[j]
      BY <1>1, <1>2, <2>1, <2>2, <2>3, <2>6
    <3> QED BY <2>4, <2>6, <3>1
  <2> QED BY <2>5, <2>6
<1>5. Loaded(disk') = [Loaded(disk) EXCEPT ![k] = v]
  BY <1>4 DEF Loaded
<1> QED BY <1>3, <1>5 DEF Loaded

-----------------------------------------------------------------------------
(* The invariant.                                                          *)

\* A request names a key, except that to read.
LEMMA Requests ==
    ASSUME NEW r \in Request
    PROVE  /\ r.op \in {"do_set", "mark", "read"}
           /\ r.op # "read" => r.key \in PaymentId
           /\ r.op = "do_set" => r.value \in Written
BY DEF Request

LEMMA InitInv == Init => StoreInv
<1> SUFFICES ASSUME Init PROVE StoreInv
  OBVIOUS
<1>1. Unread \in [PaymentId -> MapValue]
  BY StoredValues DEF Unread
<1>2. DOMAIN disk = {}
  BY DEF Init
<1>3. DiskOK
  BY <1>2 DEF DiskOK
<1>4. StoreTypeOK
  BY <1>1, <1>3 DEF Init, StoreTypeOK, MetadataInit, Unread, PC
<1>5. Loaded(disk) = Unread
  BY <1>2 DEF Loaded, Unread
<1>6. tx_metadata = Loaded(disk)
  BY <1>5 DEF Init, MetadataInit, Unread
<1> QED
  BY <1>4, <1>6 DEF Init, StoreInv, LockInv, CallInv, WriteInv, MemoryIsStore

\* A step that leaves the memory, the store and the writing task alone.
LEMMA QuietStep ==
    ASSUME WriteInv, MemoryIsStore,
           UNCHANGED <<tx_metadata, disk, poisoned>>,
           \A u \in Task : /\ (pc'[u] = "write") = (pc[u] = "write")
                           /\ pc[u] = "write" => request'[u] = request[u]
    PROVE  WriteInv' /\ MemoryIsStore'
<1>1. /\ Loaded(disk') = Loaded(disk)
      /\ tx_metadata' = tx_metadata
      /\ poisoned' = poisoned
  OBVIOUS
<1>2. ASSUME NEW u \in Task, pc'[u] = "write"
      PROVE  WriteInv!(u)'
  <2>1. pc[u] = "write" /\ request'[u] = request[u]
    BY <1>2
  <2> QED BY <1>1, <2>1 DEF WriteInv
<1>3. WriteInv'
  BY <1>2 DEF WriteInv
<1>4. MemoryIsStore'
  BY <1>1 DEF MemoryIsStore
<1> QED BY <1>3, <1>4

LEMMA CallStep ==
    ASSUME StoreInv, NEW t \in Task, Call(t)
    PROVE  StoreInv'
<1>1. PICK r \in Request : request' = [request EXCEPT ![t] = r]
  BY DEF Call
<1>2. /\ pc[t] = "idle" /\ pc' = [pc EXCEPT ![t] = "lock"]
      /\ UNCHANGED <<tx_metadata, disk, lockVars, answerVars>>
  BY DEF Call
<1>3. StoreTypeOK'
  BY <1>1, <1>2 DEF StoreInv, StoreTypeOK, DiskOK, PC, lockVars, answerVars
<1>4. LockInv'
  BY <1>2 DEF StoreInv, StoreTypeOK, LockInv, lockVars
<1>5. CallInv'
  BY <1>1, <1>2 DEF StoreInv, StoreTypeOK, CallInv, answerVars
<1>6. WriteInv' /\ MemoryIsStore'
  BY <1>1, <1>2, QuietStep DEF StoreInv, StoreTypeOK, lockVars
<1> QED BY <1>3, <1>4, <1>5, <1>6 DEF StoreInv

LEMMA LockWriteStep ==
    ASSUME StoreInv, NEW t \in Task, LockWrite(t)
    PROVE  StoreInv'
<1>1. /\ pc[t] = "lock" /\ pc' = [pc EXCEPT ![t] = "locked"]
      /\ request[t].op # "read"
      /\ writer = NoTask /\ readers = {} /\ ~poisoned /\ writer' = t
      /\ UNCHANGED <<tx_metadata, disk, readers, poisoned, request, answerVars>>
  BY DEF LockWrite
<1>2. StoreTypeOK'
  BY <1>1 DEF StoreInv, StoreTypeOK, DiskOK, PC, answerVars
<1>3. LockInv'
  BY <1>1, IdsAssumption DEF StoreInv, StoreTypeOK, LockInv
<1>4. CallInv'
  BY <1>1 DEF StoreInv, StoreTypeOK, CallInv, answerVars
<1>5. WriteInv' /\ MemoryIsStore'
  BY <1>1, QuietStep DEF StoreInv, StoreTypeOK
<1> QED BY <1>2, <1>3, <1>4, <1>5 DEF StoreInv

LEMMA LockReadStep ==
    ASSUME StoreInv, NEW t \in Task, LockRead(t)
    PROVE  StoreInv'
<1>1. /\ pc[t] = "lock" /\ pc' = [pc EXCEPT ![t] = "reading"]
      /\ request[t].op = "read"
      /\ writer = NoTask /\ ~poisoned
      /\ readers' = readers \cup {t}
      /\ ok' = [ok EXCEPT ![t] = TRUE]
      /\ unread' = [unread EXCEPT ![t] = PaymentId]
      /\ UNCHANGED <<tx_metadata, disk, writer, poisoned, request, seen>>
  BY DEF LockRead
<1>2. StoreTypeOK'
  BY <1>1 DEF StoreInv, StoreTypeOK, DiskOK, PC
<1>3. LockInv'
  BY <1>1 DEF StoreInv, StoreTypeOK, LockInv
<1>4. CallInv'
  BY <1>1 DEF StoreInv, StoreTypeOK, CallInv
<1>5. WriteInv' /\ MemoryIsStore'
  BY <1>1, QuietStep DEF StoreInv, StoreTypeOK
<1> QED BY <1>2, <1>3, <1>4, <1>5 DEF StoreInv

\* What a call that dies leaves in its variables.
LEMMA DeadTypes ==
    ASSUME StoreTypeOK, NEW t \in Task, Dead(t)
    PROVE  /\ pc' \in [Task -> PC]
           /\ request' \in [Task -> Request \cup {NoRequest}]
           /\ ok' \in [Task -> BOOLEAN]
           /\ seen' \in [Task -> [PaymentId -> MapValue]]
           /\ unread' \in [Task -> SUBSET PaymentId]
<1>1. Unread \in [PaymentId -> MapValue]
  BY StoredValues DEF Unread
<1> QED BY <1>1 DEF StoreTypeOK, Dead, PC

LEMMA LockPanicsStep ==
    ASSUME StoreInv, NEW t \in Task, LockPanics(t)
    PROVE  StoreInv'
<1>1. /\ pc[t] = "lock" /\ poisoned /\ Dead(t)
      /\ UNCHANGED <<tx_metadata, disk, lockVars>>
  BY DEF LockPanics
<1>2. StoreTypeOK'
  BY <1>1, DeadTypes DEF StoreInv, StoreTypeOK, DiskOK, lockVars
<1>3. LockInv'
  BY <1>1 DEF StoreInv, StoreTypeOK, LockInv, lockVars, Dead
<1>4. CallInv'
  BY <1>1 DEF StoreInv, StoreTypeOK, CallInv, Dead
<1>5. WriteInv' /\ MemoryIsStore'
  BY <1>1, QuietStep DEF StoreInv, StoreTypeOK, lockVars, Dead
<1> QED BY <1>2, <1>3, <1>4, <1>5 DEF StoreInv

LEMMA ReadKeyStep ==
    ASSUME StoreInv, NEW t \in Task, ReadKey(t)
    PROVE  StoreInv'
<1>1. PICK k \in unread[t] : /\ seen' = [seen EXCEPT ![t][k] = tx_metadata[k]]
                             /\ unread' = [unread EXCEPT ![t] = @ \ {k}]
  BY DEF ReadKey
<1>2. pc[t] = "reading" /\ UNCHANGED <<tx_metadata, disk, lockVars, pc, request, ok>>
  BY DEF ReadKey
<1>3. k \in PaymentId /\ tx_metadata[k] \in MapValue
  BY DEF StoreInv, StoreTypeOK
<1>4. StoreTypeOK'
  <2>1. seen' \in [Task -> [PaymentId -> MapValue]]
    <3>1. [seen[t] EXCEPT ![k] = tx_metadata[k]] \in [PaymentId -> MapValue]
      BY <1>3 DEF StoreInv, StoreTypeOK
    <3> QED BY <1>1, <3>1 DEF StoreInv, StoreTypeOK
  <2>2. unread' \in [Task -> SUBSET PaymentId]
    BY <1>1 DEF StoreInv, StoreTypeOK
  <2> QED BY <1>2, <2>1, <2>2 DEF StoreInv, StoreTypeOK, DiskOK, lockVars
<1>5. LockInv'
  BY <1>2 DEF StoreInv, LockInv, lockVars
<1>6. CallInv'
  <2> SUFFICES ASSUME NEW u \in Task PROVE CallInv!(u)'
    BY DEF CallInv
  <2>1. CASE u # t
    <3>1. seen'[u] = seen[u] /\ unread'[u] = unread[u]
      BY <1>1, <2>1 DEF StoreInv, StoreTypeOK
    <3> QED BY <1>2, <3>1 DEF StoreInv, CallInv
  <2>2. CASE u = t
    <3>1. /\ seen'[t] = [seen[t] EXCEPT ![k] = tx_metadata[k]]
          /\ unread'[t] = unread[t] \ {k}
      BY <1>1 DEF StoreInv, StoreTypeOK
    <3>2. ASSUME NEW j \in PaymentId \ unread'[t]
          PROVE  seen'[t][j] = tx_metadata'[j]
      BY <1>2, <1>3, <3>1 DEF StoreInv, StoreTypeOK, CallInv
    <3> QED BY <1>2, <2>2, <3>2 DEF StoreInv, CallInv
  <2> QED BY <2>1, <2>2
<1>7. WriteInv' /\ MemoryIsStore'
  BY <1>2, QuietStep DEF StoreInv, lockVars
<1> QED BY <1>4, <1>5, <1>6, <1>7 DEF StoreInv

LEMMA EndReadStep ==
    ASSUME StoreInv, NEW t \in Task, EndRead(t)
    PROVE  StoreInv'
<1>1. /\ pc[t] = "reading" /\ pc' = [pc EXCEPT ![t] = "ending"]
      /\ readers' = readers \ {t}
      /\ UNCHANGED <<tx_metadata, disk, writer, poisoned, request, answerVars>>
  BY DEF EndRead
<1>2. StoreTypeOK'
  BY <1>1 DEF StoreInv, StoreTypeOK, DiskOK, PC, answerVars
<1>3. LockInv'
  BY <1>1 DEF StoreInv, StoreTypeOK, LockInv
<1>4. CallInv'
  BY <1>1 DEF StoreInv, StoreTypeOK, CallInv, answerVars
<1>5. WriteInv' /\ MemoryIsStore'
  BY <1>1, QuietStep DEF StoreInv, StoreTypeOK
<1> QED BY <1>2, <1>3, <1>4, <1>5 DEF StoreInv

LEMMA ChangeMemoryStep ==
    ASSUME StoreInv, NEW t \in Task, ChangeMemory(t)
    PROVE  StoreInv'
<1> DEFINE k == request[t].key
           v == IF request[t].op = "do_set" THEN request[t].value ELSE Plain("Trigger")
<1>1. /\ pc[t] = "locked" /\ pc' = [pc EXCEPT ![t] = "write"]
      /\ UNCHANGED <<disk, lockVars, request, answerVars>>
  BY DEF ChangeMemory
<1>2. /\ request[t] \in Request /\ request[t].op # "read"
      /\ ok[t] = FALSE /\ seen[t] = Unread
      /\ writer = t /\ readers = {} /\ ~poisoned
  BY <1>1, IdsAssumption DEF StoreInv, CallInv, LockInv
<1>3. k \in PaymentId /\ v \in StoredValue /\ v \in MapValue
  BY <1>2, Requests, StoredValues
<1>4. /\ tx_metadata' = [tx_metadata EXCEPT ![k] = v]
      /\ request[t].op = "mark" => tx_metadata[k].ty = "Payment"
      /\ request[t].op \in {"do_set", "mark"}
  BY <1>2, Requests DEF ChangeMemory, do_set, set_tx_caused_rebalance
<1>5. \A u \in Task : pc[u] \in {"locked", "write", "written"} => u = t
  BY <1>2 DEF StoreInv, LockInv
<1>6. \A u \in Task : pc[u] # "reading"
  BY <1>2 DEF StoreInv, LockInv
<1>7. tx_metadata = Loaded(disk)
  BY <1>1, <1>2, <1>5 DEF StoreInv, MemoryIsStore
<1>8. StoreTypeOK'
  BY <1>1, <1>3, <1>4
     DEF StoreInv, StoreTypeOK, DiskOK, PC, lockVars, answerVars
<1>9. LockInv'
  BY <1>1, <1>2, <1>5 DEF StoreInv, StoreTypeOK, LockInv, lockVars
<1>10. CallInv'
  BY <1>1, <1>2, <1>6 DEF StoreInv, StoreTypeOK, CallInv, answerVars
<1>11. Loaded(disk)' = Loaded(disk)
  BY <1>1 DEF Loaded
<1>12. tx_metadata'[k] = v
  BY <1>3, <1>4 DEF StoreInv, StoreTypeOK
<1>13. tx_metadata' = [Loaded(disk) EXCEPT ![k] = tx_metadata'[k]]
  BY <1>4, <1>7, <1>12
<1>14. WriteInv'
  <2> SUFFICES ASSUME NEW u \in Task, pc'[u] = "write"
               PROVE  WriteInv!(u)'
    BY DEF WriteInv
  <2>1. u = t /\ request' = request
    BY <1>1, <1>5 DEF StoreInv, StoreTypeOK
  <2>2. request[t].op = "do_set" => tx_metadata'[k] = request[t].value
    BY <1>12
  <2>3. request[t].op = "mark" =>
           tx_metadata'[k] = Plain("Trigger") /\ Loaded(disk)[k].ty = "Payment"
    BY <1>4, <1>7, <1>12
  <2> HIDE DEF k, v
  <2> QED BY <1>11, <1>13, <2>1, <2>2, <2>3 DEF k
<1>15. MemoryIsStore'
  <2>1. pc'[t] = "write"
    BY <1>1 DEF StoreInv, StoreTypeOK
  <2> QED BY <2>1 DEF MemoryIsStore
<1> QED BY <1>8, <1>9, <1>10, <1>14, <1>15 DEF StoreInv

LEMMA MarkFailsStep ==
    ASSUME StoreInv, NEW t \in Task, MarkFails(t)
    PROVE  StoreInv'
<1>1. /\ pc[t] = "locked" /\ pc' = [pc EXCEPT ![t] = "ending"]
      /\ writer' = NoTask
      /\ UNCHANGED <<tx_metadata, disk, readers, poisoned, request, answerVars>>
  BY DEF MarkFails, set_tx_caused_rebalance_fails
<1>2. StoreTypeOK'
  BY <1>1 DEF StoreInv, StoreTypeOK, DiskOK, PC, answerVars
<1>3. LockInv'
  BY <1>1 DEF StoreInv, StoreTypeOK, LockInv
<1>4. CallInv'
  BY <1>1 DEF StoreInv, StoreTypeOK, CallInv, answerVars
<1>5. WriteInv' /\ MemoryIsStore'
  BY <1>1, QuietStep DEF StoreInv, StoreTypeOK
<1> QED BY <1>2, <1>3, <1>4, <1>5 DEF StoreInv

\* WriteStore makes the store's map what the memory already is.
LEMMA WriteStoreLoads ==
    ASSUME StoreInv, NEW t \in Task, WriteStore(t)
    PROVE  /\ request[t].key \in PaymentId
           /\ tx_metadata[request[t].key] \in StoredValue
           /\ DiskOK'
           /\ Loaded(disk)' = [Loaded(disk) EXCEPT
                                 ![request[t].key] = tx_metadata[request[t].key]]
           /\ tx_metadata' = Loaded(disk)'
<1>1. /\ pc[t] = "write" /\ tx_metadata' = tx_metadata
      /\ kv_write(request[t].key, tx_metadata[request[t].key])
  BY DEF WriteStore
<1>2. /\ request[t] \in Request /\ request[t].op # "read"
      /\ request[t].op = "do_set" => tx_metadata[request[t].key] = request[t].value
      /\ request[t].op = "mark" => tx_metadata[request[t].key] = Plain("Trigger")
      /\ tx_metadata = [Loaded(disk) EXCEPT ![request[t].key] = tx_metadata[request[t].key]]
  BY <1>1 DEF StoreInv, CallInv, WriteInv
<1>3. request[t].key \in PaymentId /\ tx_metadata[request[t].key] \in StoredValue
  BY <1>2, Requests, StoredValues
<1>4. DiskOK
  BY DEF StoreInv, StoreTypeOK
<1> QED BY <1>1, <1>2, <1>3, <1>4, LoadedWrite

LEMMA WriteStoreStep ==
    ASSUME StoreInv, NEW t \in Task, WriteStore(t)
    PROVE  StoreInv'
<1>1. /\ pc[t] = "write" /\ pc' = [pc EXCEPT ![t] = "written"]
      /\ ok' = [ok EXCEPT ![t] = TRUE]
      /\ UNCHANGED <<tx_metadata, lockVars, request, seen, unread>>
  BY DEF WriteStore
<1>2. DiskOK' /\ tx_metadata' = Loaded(disk)'
  BY WriteStoreLoads
<1>3. \A u \in Task : pc[u] \in {"locked", "write", "written"} => u = t
  BY <1>1 DEF StoreInv, LockInv
<1>4. StoreTypeOK'
  BY <1>1, <1>2 DEF StoreInv, StoreTypeOK, PC, lockVars
<1>5. LockInv'
  BY <1>1 DEF StoreInv, StoreTypeOK, LockInv, lockVars
<1>6. CallInv'
  BY <1>1 DEF StoreInv, StoreTypeOK, CallInv
<1>7. \A u \in Task : pc'[u] # "write"
  BY <1>1, <1>3 DEF StoreInv, StoreTypeOK
<1>8. WriteInv'
  BY <1>7 DEF WriteInv
<1>9. MemoryIsStore'
  BY <1>2 DEF MemoryIsStore
<1> QED BY <1>4, <1>5, <1>6, <1>8, <1>9 DEF StoreInv

LEMMA UnlockWriteStep ==
    ASSUME StoreInv, NEW t \in Task, UnlockWrite(t)
    PROVE  StoreInv'
<1>1. /\ pc[t] = "written" /\ pc' = [pc EXCEPT ![t] = "ending"]
      /\ writer' = NoTask
      /\ UNCHANGED <<tx_metadata, disk, readers, poisoned, request, answerVars>>
  BY DEF UnlockWrite
<1>2. StoreTypeOK'
  BY <1>1 DEF StoreInv, StoreTypeOK, DiskOK, PC, answerVars
<1>3. LockInv'
  BY <1>1 DEF StoreInv, StoreTypeOK, LockInv
<1>4. CallInv'
  BY <1>1 DEF StoreInv, StoreTypeOK, CallInv, answerVars
<1>5. WriteInv' /\ MemoryIsStore'
  BY <1>1, QuietStep DEF StoreInv, StoreTypeOK
<1> QED BY <1>2, <1>3, <1>4, <1>5 DEF StoreInv

LEMMA WriteStoreFailsStep ==
    ASSUME StoreInv, NEW t \in Task, WriteStoreFails(t)
    PROVE  StoreInv'
<1>1. /\ pc[t] \in {"write", "written"} /\ Dead(t)
      /\ writer' = NoTask /\ poisoned' = TRUE
      /\ UNCHANGED <<tx_metadata, disk, readers>>
  BY DEF WriteStoreFails
<1>2. writer = t /\ readers = {}
  BY <1>1, IdsAssumption DEF StoreInv, LockInv
<1>3. \A u \in Task : pc[u] \in {"locked", "write", "written"} => u = t
  BY <1>2 DEF StoreInv, LockInv
<1>4. StoreTypeOK'
  BY <1>1, DeadTypes DEF StoreInv, StoreTypeOK, DiskOK
<1>5. LockInv'
  BY <1>1, <1>2, <1>3 DEF StoreInv, StoreTypeOK, LockInv, Dead
<1>6. CallInv'
  BY <1>1 DEF StoreInv, StoreTypeOK, CallInv, Dead
<1>7. \A u \in Task : pc'[u] # "write"
  BY <1>1, <1>3 DEF StoreInv, StoreTypeOK, Dead
<1>8. WriteInv' /\ MemoryIsStore'
  BY <1>1, <1>7 DEF WriteInv, MemoryIsStore
<1> QED BY <1>4, <1>5, <1>6, <1>8 DEF StoreInv

LEMMA ReturnStep ==
    ASSUME StoreInv, NEW t \in Task, Return(t)
    PROVE  StoreInv'
<1>1. /\ pc[t] = "ending" /\ pc' = [pc EXCEPT ![t] = "idle"]
      /\ request' = [request EXCEPT ![t] = NoRequest]
      /\ ok' = [ok EXCEPT ![t] = FALSE]
      /\ seen' = [seen EXCEPT ![t] = Unread]
      /\ UNCHANGED <<tx_metadata, disk, lockVars, unread>>
  BY DEF Return
<1>2. Unread \in [PaymentId -> MapValue]
  BY StoredValues DEF Unread
<1>3. StoreTypeOK'
  BY <1>1, <1>2 DEF StoreInv, StoreTypeOK, DiskOK, PC, lockVars
<1>4. LockInv'
  BY <1>1 DEF StoreInv, StoreTypeOK, LockInv, lockVars
<1>5. CallInv'
  BY <1>1 DEF StoreInv, StoreTypeOK, CallInv
<1>6. WriteInv' /\ MemoryIsStore'
  BY <1>1, QuietStep DEF StoreInv, StoreTypeOK, lockVars
<1> QED BY <1>3, <1>4, <1>5, <1>6 DEF StoreInv

LEMMA RestartStep ==
    ASSUME StoreInv, Restart
    PROVE  StoreInv'
<1>1. Unread \in [PaymentId -> MapValue]
  BY StoredValues DEF Unread
<1>2. DiskOK' /\ Loaded(disk) \in [PaymentId -> MapValue]
  BY LoadedType DEF StoreInv, StoreTypeOK, DiskOK, Restart
<1>3. tx_metadata' = Loaded(disk) /\ Loaded(disk)' = Loaded(disk)
  BY DEF Restart, Loaded
<1>0. pc' = [t \in Task |-> "idle"]
  BY DiskLoads DEF StoreInv, StoreTypeOK, Restart
<1>4. StoreTypeOK'
  BY <1>0, <1>1, <1>2, <1>3 DEF Restart, StoreTypeOK, PC
<1>5. LockInv' /\ CallInv'
  BY <1>0 DEF Restart, LockInv, CallInv
<1>6. \A u \in Task : pc'[u] # "write"
  BY <1>0
<1>7. WriteInv'
  BY <1>6 DEF WriteInv
<1>8. MemoryIsStore'
  BY <1>3 DEF MemoryIsStore
<1> QED BY <1>4, <1>5, <1>7, <1>8 DEF StoreInv

LEMMA StutterStep ==
    ASSUME StoreInv, UNCHANGED vars
    PROVE  StoreInv'
<1>1. StoreTypeOK' /\ LockInv' /\ CallInv'
  BY DEF vars, lockVars, answerVars, StoreInv, StoreTypeOK, DiskOK, LockInv, CallInv
<1>2. WriteInv' /\ MemoryIsStore'
  BY QuietStep DEF vars, lockVars, StoreInv
<1> QED BY <1>1, <1>2 DEF StoreInv

\* The memory is what a restart would load whenever it can be used, however
\* tasks, failures and restarts follow on each other.
LEMMA StoreInvariant == Spec => []StoreInv
<1>1. ASSUME StoreInv, [Next]_vars
      PROVE  StoreInv'
  <2>1. ASSUME NEW t \in Task, Call(t) \/ LockWrite(t) \/ LockRead(t) \/ LockPanics(t)
        PROVE  StoreInv'
    BY <1>1, <2>1, CallStep, LockWriteStep, LockReadStep, LockPanicsStep
  <2>2. ASSUME NEW t \in Task, Locked(t)
        PROVE  StoreInv'
    BY <1>1, <2>2, ReadKeyStep, EndReadStep, ChangeMemoryStep, MarkFailsStep,
       WriteStoreStep, UnlockWriteStep, WriteStoreFailsStep DEF Locked
  <2>3. ASSUME NEW t \in Task, Return(t)
        PROVE  StoreInv'
    BY <1>1, <2>3, ReturnStep
  <2> QED BY <1>1, <2>1, <2>2, <2>3, RestartStep, StutterStep DEF Next
<1> QED BY InitInv, <1>1, PTL DEF Spec

\* TxMetadataStore: the map that tasks use is the one on disk.
THEOREM MemoryIsAlwaysStore == Spec => []MemoryIsStore
<1>1. StoreInv => MemoryIsStore
  BY DEF StoreInv
<1> QED BY <1>1, StoreInvariant, PTL

\* However calls end, by their answer, an error, a panic or a restart, the lock is
\* free or held by calls that have yet to release it, whose steps wait for nobody.
THEOREM StoreHoldersInCall == Spec => []HoldersInCall
<1>1. Init => HoldersInCall
  BY DEF Init, HoldersInCall
<1>2. StoreInv /\ HoldersInCall /\ [Next]_vars => HoldersInCall'
  <2> SUFFICES ASSUME StoreInv, HoldersInCall, [Next]_vars PROVE HoldersInCall'
    OBVIOUS
  <2> USE DEF HoldersInCall
  <2>1. /\ pc = [t \in Task |-> pc[t]]
        /\ writer \in Task \cup {NoTask} /\ readers \subseteq Task
    BY DEF StoreInv, StoreTypeOK
  <2>2. ASSUME NEW t \in Task,
               Call(t) \/ LockPanics(t) \/ Return(t) \/ ReadKey(t) \/ ChangeMemory(t) \/ WriteStore(t)
        PROVE  HoldersInCall'
    <3>1. UNCHANGED <<writer, readers>>
      BY <2>2 DEF Call, LockPanics, Return, ReadKey, ChangeMemory, WriteStore, lockVars
    <3>2. PICK s : /\ pc' = [pc EXCEPT ![t] = s] \/ pc' = pc
                   /\ \/ pc[t] \in {"idle", "lock", "ending"}
                      \/ s \in {"write", "written"} /\ pc[t] \in {"locked", "write"}
                      \/ pc' = pc
      BY <2>2 DEF Call, LockPanics, Return, ReadKey, ChangeMemory, WriteStore, Dead
    <3> QED BY <2>1, <3>1, <3>2
  <2>3. ASSUME NEW t \in Task, LockWrite(t) \/ LockRead(t)
        PROVE  HoldersInCall'
    BY <2>1, <2>3 DEF LockWrite, LockRead, lockVars
  <2>4. ASSUME NEW t \in Task, EndRead(t)
        PROVE  HoldersInCall'
    BY <2>1, <2>4 DEF EndRead, StoreInv, LockInv
  <2>5. ASSUME NEW t \in Task, MarkFails(t) \/ UnlockWrite(t) \/ WriteStoreFails(t)
        PROVE  HoldersInCall'
    BY <2>1, <2>5 DEF MarkFails, UnlockWrite, WriteStoreFails, Dead
  <2>6. CASE Restart \/ UNCHANGED vars
    BY <2>6 DEF Restart, vars, lockVars
  <2> QED BY <2>2, <2>3, <2>4, <2>5, <2>6 DEF Next, Locked
<1> QED BY <1>1, <1>2, StoreInvariant, PTL DEF Spec

-----------------------------------------------------------------------------
(* The refinement.                                                         *)

\* The service speaks of the same tasks, requests and values.
LEMMA SameNames ==
    /\ Service!Task = Task
    /\ Service!Request = Request
    /\ Service!Unread = Unread
    /\ Service!NoRequest = NoRequest
    /\ Service!Plain("Trigger") = Plain("Trigger")
    /\ Service!Idle = [phase |-> "idle", request |-> NoRequest, ok |-> FALSE, seen |-> Unread]
BY DEF Service!Task, Task, Service!Request, Request, Service!PaymentId, PaymentId,
       Service!Unread, Unread, Service!NoRequest, NoRequest, Service!Plain, Plain,
       Service!Idle, Service!At

\* A step of one task changes one call.
LEMMA CallsChange ==
    ASSUME NEW t \in Task,
           \A u \in Task : u # t => CallOf(u)' = CallOf(u)
    PROVE  Calls' = [Calls EXCEPT ![t] = CallOf(t)']
BY DEF Calls

\* A call depends on the variables of its task, and on the memory while it reads.
LEMMA CallKept ==
    ASSUME NEW u \in Task,
           pc'[u] = pc[u], request'[u] = request[u], ok'[u] = ok[u], seen'[u] = seen[u],
           pc[u] = "reading" => tx_metadata' = tx_metadata
    PROVE  CallOf(u)' = CallOf(u)
BY DEF CallOf, Phase

\* What becomes of the call of a task that died.
LEMMA DeadCall ==
    ASSUME StoreInv, NEW t \in Task, Dead(t)
    PROVE  /\ CallOf(t)' = [phase |-> "dead", request |-> NoRequest,
                            ok |-> FALSE, seen |-> Unread]
           /\ \A u \in Task : u # t => /\ pc'[u] = pc[u]
                                       /\ request'[u] = request[u]
                                       /\ ok'[u] = ok[u]
                                       /\ seen'[u] = seen[u]
BY DEF Dead, CallOf, Phase, StoreInv, StoreTypeOK

\* The service's step for a death.
LEMMA DieRefines ==
    ASSUME StoreInv, NEW t \in Task, Dead(t), UNCHANGED <<tx_metadata, disk>>,
           pc[t] \in {"lock", "write", "written"}
    PROVE  Service!Die(t)
<1>1. Calls' = [Calls EXCEPT ![t] = CallOf(t)']
  BY DeadCall, CallKept, CallsChange
<1>2. Calls[t].phase \in {"called", "done"}
  BY DEF Calls, CallOf, Phase
<1>3. Loaded(disk)' = Loaded(disk)
  BY DEF Loaded
<1> QED BY <1>1, <1>2, <1>3, DeadCall, SameNames DEF Service!Die, Service!At

LEMMA CallRefines ==
    ASSUME StoreInv, NEW t \in Task, Call(t)
    PROVE  \E r \in Request : Service!Call(t, r)
<1>1. PICK r \in Request : request' = [request EXCEPT ![t] = r]
  BY DEF Call
<1>2. /\ pc[t] = "idle" /\ pc' = [pc EXCEPT ![t] = "lock"]
      /\ UNCHANGED <<tx_metadata, disk, lockVars, answerVars>>
  BY DEF Call
<1>3. Calls' = [Calls EXCEPT ![t] = CallOf(t)']
  BY <1>1, <1>2, CallKept, CallsChange DEF StoreInv, StoreTypeOK, answerVars
<1>4. CallOf(t)' = [phase |-> "called", request |-> r, ok |-> FALSE, seen |-> Unread]
  BY <1>1, <1>2 DEF StoreInv, StoreTypeOK, CallInv, CallOf, Phase, answerVars
<1>5. Calls[t].phase = "idle"
  BY <1>2 DEF Calls, CallOf, Phase
<1>6. Loaded(disk)' = Loaded(disk)
  BY <1>2 DEF Loaded
<1> QED BY <1>3, <1>4, <1>5, <1>6, SameNames DEF Service!Call, Service!At

LEMMA LockWriteRefines ==
    ASSUME StoreInv, NEW t \in Task, LockWrite(t)
    PROVE  UNCHANGED Calls
<1>1. /\ pc[t] = "lock" /\ pc' = [pc EXCEPT ![t] = "locked"]
      /\ UNCHANGED <<tx_metadata, request, answerVars>>
  BY DEF LockWrite
<1>2. CallOf(t)' = CallOf(t)
  BY <1>1 DEF StoreInv, StoreTypeOK, CallOf, Phase, answerVars
<1>3. \A u \in Task : u # t => CallOf(u)' = CallOf(u)
  BY <1>1, CallKept DEF StoreInv, StoreTypeOK, answerVars
<1> QED BY <1>2, <1>3 DEF Calls

LEMMA LockReadRefines ==
    ASSUME StoreInv, NEW t \in Task, LockRead(t)
    PROVE  Service!Effect(t)
<1>1. /\ pc[t] = "lock" /\ pc' = [pc EXCEPT ![t] = "reading"]
      /\ request[t].op = "read"
      /\ writer = NoTask /\ ~poisoned
      /\ ok' = [ok EXCEPT ![t] = TRUE]
      /\ UNCHANGED <<tx_metadata, disk, request, seen>>
  BY DEF LockRead
<1>2. tx_metadata = Loaded(disk)
  <2>1. \A u \in Task : pc[u] # "write"
    BY <1>1, IdsAssumption DEF StoreInv, LockInv
  <2> QED BY <1>1, <2>1 DEF StoreInv, MemoryIsStore
<1>3. Calls' = [Calls EXCEPT ![t] = CallOf(t)']
  BY <1>1, CallKept, CallsChange DEF StoreInv, StoreTypeOK
<1>4. CallOf(t)' = [phase |-> "done", request |-> request[t],
                    ok |-> TRUE, seen |-> Loaded(disk)]
  BY <1>1, <1>2 DEF StoreInv, StoreTypeOK, CallOf, Phase
<1>5. Calls[t].phase = "called" /\ Calls[t].request = request[t]
  BY <1>1 DEF Calls, CallOf, Phase
<1>6. Loaded(disk)' = Loaded(disk)
  BY <1>1 DEF Loaded
<1> QED BY <1>1, <1>3, <1>4, <1>5, <1>6
        DEF Service!Effect, Service!Answered, Service!At

LEMMA ReadKeyRefines ==
    ASSUME StoreInv, NEW t \in Task, ReadKey(t)
    PROVE  UNCHANGED Calls
<1>1. PICK k \in unread[t] : seen' = [seen EXCEPT ![t][k] = tx_metadata[k]]
  BY DEF ReadKey
<1>2. pc[t] = "reading" /\ UNCHANGED <<tx_metadata, pc, request, ok>>
  BY DEF ReadKey
<1>3. CallOf(t)' = CallOf(t)
  BY <1>2 DEF CallOf, Phase
<1>4. \A u \in Task : u # t => CallOf(u)' = CallOf(u)
  BY <1>1, <1>2, CallKept DEF StoreInv, StoreTypeOK
<1> QED BY <1>3, <1>4 DEF Calls

LEMMA EndReadRefines ==
    ASSUME StoreInv, NEW t \in Task, EndRead(t)
    PROVE  UNCHANGED Calls
<1>1. /\ pc[t] = "reading" /\ pc' = [pc EXCEPT ![t] = "ending"]
      /\ unread[t] = {}
      /\ UNCHANGED <<tx_metadata, request, answerVars>>
  BY DEF EndRead
<1>2. seen[t] = tx_metadata
  <2>1. \A k \in PaymentId : seen[t][k] = tx_metadata[k]
    BY <1>1 DEF StoreInv, CallInv
  <2> QED BY <2>1 DEF StoreInv, StoreTypeOK
<1>3. CallOf(t)' = CallOf(t)
  BY <1>1, <1>2 DEF StoreInv, StoreTypeOK, CallOf, Phase, answerVars
<1>4. \A u \in Task : u # t => CallOf(u)' = CallOf(u)
  BY <1>1, CallKept DEF StoreInv, StoreTypeOK, answerVars
<1> QED BY <1>3, <1>4 DEF Calls

LEMMA ChangeMemoryRefines ==
    ASSUME StoreInv, NEW t \in Task, ChangeMemory(t)
    PROVE  UNCHANGED Calls
<1>1. /\ pc[t] = "locked" /\ pc' = [pc EXCEPT ![t] = "write"]
      /\ UNCHANGED <<request, answerVars>>
  BY DEF ChangeMemory
<1>2. \A u \in Task : pc[u] # "reading"
  BY <1>1, IdsAssumption DEF StoreInv, LockInv
<1>3. CallOf(t)' = CallOf(t)
  BY <1>1 DEF StoreInv, StoreTypeOK, CallOf, Phase, answerVars
<1>4. \A u \in Task : u # t => CallOf(u)' = CallOf(u)
  BY <1>1, <1>2, CallKept DEF StoreInv, StoreTypeOK, answerVars
<1> QED BY <1>3, <1>4 DEF Calls

LEMMA MarkFailsRefines ==
    ASSUME StoreInv, NEW t \in Task, MarkFails(t)
    PROVE  Service!Effect(t)
<1>1. /\ pc[t] = "locked" /\ pc' = [pc EXCEPT ![t] = "ending"]
      /\ request[t].op = "mark"
      /\ tx_metadata[request[t].key].ty # "Payment"
      /\ UNCHANGED <<tx_metadata, disk, request, answerVars>>
  BY DEF MarkFails, set_tx_caused_rebalance_fails
<1>2. tx_metadata = Loaded(disk)
  <2>1. writer = t /\ ~poisoned
    BY <1>1, IdsAssumption DEF StoreInv, LockInv
  <2>2. \A u \in Task : pc[u] # "write"
    BY <1>1, <2>1 DEF StoreInv, LockInv
  <2> QED BY <2>1, <2>2 DEF StoreInv, MemoryIsStore
<1>3. Calls' = [Calls EXCEPT ![t] = CallOf(t)']
  BY <1>1, CallKept, CallsChange DEF StoreInv, StoreTypeOK, answerVars
<1>4. CallOf(t)' = [phase |-> "done", request |-> request[t],
                    ok |-> FALSE, seen |-> Unread]
  BY <1>1 DEF StoreInv, StoreTypeOK, CallInv, CallOf, Phase, answerVars
<1>5. Calls[t].phase = "called" /\ Calls[t].request = request[t]
  BY <1>1 DEF Calls, CallOf, Phase
<1>6. Loaded(disk)' = Loaded(disk)
  BY <1>1 DEF Loaded
<1>7. Service!set_tx_caused_rebalance_fails(request[t].key)
  BY <1>1, <1>2, <1>6 DEF Service!set_tx_caused_rebalance_fails
<1>8. Service!Answered(t, FALSE, Service!Unread)
  BY <1>3, <1>4, <1>5, SameNames DEF Service!Answered, Service!At
<1> QED BY <1>1, <1>5, <1>7, <1>8 DEF Service!Effect

LEMMA WriteStoreRefines ==
    ASSUME StoreInv, NEW t \in Task, WriteStore(t)
    PROVE  Service!Effect(t)
<1> DEFINE k == request[t].key
<1>1. /\ pc[t] = "write" /\ pc' = [pc EXCEPT ![t] = "written"]
      /\ ok' = [ok EXCEPT ![t] = TRUE]
      /\ UNCHANGED <<tx_metadata, request, seen, unread>>
  BY DEF WriteStore
<1>2. /\ request[t] \in Request /\ request[t].op # "read" /\ seen[t] = Unread
      /\ request[t].op = "do_set" => tx_metadata[k] = request[t].value
      /\ request[t].op = "mark" => /\ tx_metadata[k] = Plain("Trigger")
                                   /\ Loaded(disk)[k].ty = "Payment"
  BY <1>1 DEF StoreInv, CallInv, WriteInv
<1>3. Loaded(disk)' = [Loaded(disk) EXCEPT ![k] = tx_metadata[k]]
  BY WriteStoreLoads
<1>4. Calls' = [Calls EXCEPT ![t] = CallOf(t)']
  BY <1>1, CallKept, CallsChange DEF StoreInv, StoreTypeOK
<1>5. CallOf(t)' = [phase |-> "done", request |-> request[t],
                    ok |-> TRUE, seen |-> Unread]
  BY <1>1, <1>2 DEF StoreInv, StoreTypeOK, CallOf, Phase
<1>6. Calls[t].phase = "called" /\ Calls[t].request = request[t]
  BY <1>1 DEF Calls, CallOf, Phase
<1>7. Service!Answered(t, TRUE, Service!Unread)
  BY <1>4, <1>5, <1>6, SameNames DEF Service!Answered, Service!At
<1>8. CASE request[t].op = "do_set"
  <2>1. Service!do_set(k, request[t].value)
    BY <1>2, <1>3, <1>8 DEF Service!do_set
  <2> QED BY <1>6, <1>7, <1>8, <2>1 DEF Service!Effect
<1>9. CASE request[t].op = "mark"
  <2>1. Service!set_tx_caused_rebalance(k)
    BY <1>2, <1>3, <1>9, SameNames
       DEF Service!set_tx_caused_rebalance, Service!do_set
  <2> QED BY <1>6, <1>7, <1>9, <2>1 DEF Service!Effect
<1> QED BY <1>2, <1>8, <1>9, Requests

LEMMA UnlockWriteRefines ==
    ASSUME StoreInv, NEW t \in Task, UnlockWrite(t)
    PROVE  UNCHANGED Calls
<1>1. /\ pc[t] = "written" /\ pc' = [pc EXCEPT ![t] = "ending"]
      /\ UNCHANGED <<tx_metadata, request, answerVars>>
  BY DEF UnlockWrite
<1>2. CallOf(t)' = CallOf(t)
  BY <1>1 DEF StoreInv, StoreTypeOK, CallOf, Phase, answerVars
<1>3. \A u \in Task : u # t => CallOf(u)' = CallOf(u)
  BY <1>1, CallKept DEF StoreInv, StoreTypeOK, answerVars
<1> QED BY <1>2, <1>3 DEF Calls

LEMMA ReturnRefines ==
    ASSUME StoreInv, NEW t \in Task, Return(t)
    PROVE  Service!Return(t)
<1>1. /\ pc[t] = "ending" /\ pc' = [pc EXCEPT ![t] = "idle"]
      /\ request' = [request EXCEPT ![t] = NoRequest]
      /\ ok' = [ok EXCEPT ![t] = FALSE]
      /\ seen' = [seen EXCEPT ![t] = Unread]
      /\ UNCHANGED <<tx_metadata, disk>>
  BY DEF Return
<1>2. Calls' = [Calls EXCEPT ![t] = CallOf(t)']
  BY <1>1, CallKept, CallsChange DEF StoreInv, StoreTypeOK
<1>3. CallOf(t)' = [phase |-> "idle", request |-> NoRequest, ok |-> FALSE, seen |-> Unread]
  BY <1>1 DEF StoreInv, StoreTypeOK, CallOf, Phase
<1>4. Calls[t].phase = "done"
  BY <1>1 DEF Calls, CallOf, Phase
<1>5. Loaded(disk)' = Loaded(disk)
  BY <1>1 DEF Loaded
<1> QED BY <1>2, <1>3, <1>4, <1>5, SameNames DEF Service!Return

LEMMA RestartRefines ==
    ASSUME StoreInv, Restart
    PROVE  Service!Restart
<1>1. Calls' = [t \in Task |->
                  [phase |-> "idle", request |-> NoRequest, ok |-> FALSE, seen |-> Unread]]
  <2>1. pc' = [t \in Task |-> "idle"]
    BY DiskLoads DEF StoreInv, StoreTypeOK, Restart
  <2> QED BY <2>1 DEF Restart, Calls, CallOf, Phase
<1>2. Loaded(disk)' = Loaded(disk)
  BY DEF Restart, Loaded
<1> QED BY <1>1, <1>2, SameNames DEF Service!Restart

LEMMA InitRefines == Init => Service!ServiceInit
<1> SUFFICES ASSUME Init PROVE Service!ServiceInit
  OBVIOUS
<1>1. Loaded(disk) = Unread
  BY DEF Init, Loaded, Unread
<1>2. Calls = [t \in Task |->
                 [phase |-> "idle", request |-> NoRequest, ok |-> FALSE, seen |-> Unread]]
  BY DEF Init, Calls, CallOf, Phase
<1>3. Service!MetadataInit
  BY <1>1 DEF Service!MetadataInit, Service!PaymentId, PaymentId, Service!Plain, Plain, Unread
<1> QED BY <1>2, <1>3, SameNames DEF Service!ServiceInit

\* The store implements the service: every call is atomic and durable, for any
\* number of tasks, keys and values, with writes that fail and restarts.
THEOREM StoreImplementsService == Spec => Implements
<1>1. ASSUME StoreInv, [Next]_vars
      PROVE  [Service!ServiceNext]_Service!serviceVars
  <2> USE SameNames
  <2> DEFINE Quiet == UNCHANGED Calls /\ Loaded(disk)' = Loaded(disk)
  <2>1. ASSUME NEW t \in Task, Call(t)
        PROVE  Service!ServiceNext
    BY <1>1, <2>1, CallRefines DEF Service!ServiceNext
  <2>2. ASSUME NEW t \in Task,
               LockWrite(t) \/ ReadKey(t) \/ EndRead(t) \/ ChangeMemory(t) \/ UnlockWrite(t)
        PROVE  Quiet
    <3>1. UNCHANGED Calls
      BY <1>1, <2>2, LockWriteRefines, ReadKeyRefines, EndReadRefines,
         ChangeMemoryRefines, UnlockWriteRefines
    <3>2. disk' = disk
      BY <2>2 DEF LockWrite, ReadKey, EndRead, ChangeMemory, UnlockWrite
    <3> QED BY <3>1, <3>2 DEF Loaded
  <2>3. ASSUME NEW t \in Task, LockRead(t) \/ MarkFails(t) \/ WriteStore(t)
        PROVE  Service!ServiceNext
    BY <1>1, <2>3, LockReadRefines, MarkFailsRefines, WriteStoreRefines
       DEF Service!ServiceNext
  <2>4. ASSUME NEW t \in Task, LockPanics(t) \/ WriteStoreFails(t)
        PROVE  Service!ServiceNext
    <3>1. Service!Die(t)
      BY <1>1, <2>4, DieRefines DEF LockPanics, WriteStoreFails
    <3> QED BY <3>1 DEF Service!ServiceNext
  <2>5. ASSUME NEW t \in Task, Return(t)
        PROVE  Service!ServiceNext
    BY <1>1, <2>5, ReturnRefines DEF Service!ServiceNext
  <2>6. ASSUME Restart
        PROVE  Service!ServiceNext
    BY <1>1, <2>6, RestartRefines DEF Service!ServiceNext
  <2>7. ASSUME UNCHANGED vars
        PROVE  Quiet
    BY <2>7 DEF vars, answerVars, Calls, CallOf, Phase, Loaded
  <2>8. Quiet => UNCHANGED Service!serviceVars
    BY DEF Service!serviceVars
  <2> HIDE DEF Quiet
  <2> QED BY <1>1, <2>1, <2>2, <2>3, <2>4, <2>5, <2>6, <2>7, <2>8 DEF Next, Locked
<1> QED BY InitRefines, <1>1, StoreInvariant, PTL
        DEF Spec, Implements, Service!ServiceSpec

=============================================================================
