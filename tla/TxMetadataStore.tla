--------------------------- MODULE TxMetadataStore ---------------------------
(***************************************************************************)
(* store.rs: the transaction metadata is held twice, in a map behind a     *)
(* reader-writer lock and in a key-value store.  A task that writes holds  *)
(* the lock, changes the memory and then the store; if the store fails it  *)
(* panics with the lock held, which poisons it: the memory is ahead of the *)
(* store, and every later call panics.  A restart reads the map back.      *)
(***************************************************************************)
EXTENDS MetadataRequests

VARIABLES disk,         \* the key-value store: from key strings to encodings
          writer,       \* the RwLock: who holds it for writing,
          readers,      \* .. for reading,
          poisoned,     \* .. and whether a writer panicked
          pc, request,  \* of each task: where it is in a call, and in which
          ok, seen,     \* .. what it will be told, and what it has read
          unread        \* .. and the keys it has not read yet

lockVars == <<writer, readers, poisoned>>
answerVars == <<ok, seen, unread>>
vars == <<tx_metadata, disk, lockVars, pc, request, answerVars>>

-----------------------------------------------------------------------------
(* The PaymentId in a key string, and the serialised TxMetadata.           *)

\* What is written after the tag: 64 hex digits, or a hyphenated uuid.
as_hex(l) == <<"hex", l>>
uuid(c) == <<"uuid", c>>

Hex == {as_hex(l) : l \in LnId}
Uuid == {uuid(c) : c \in CustId}

to_string(k) == IF k \in CustId THEN <<"CU-", uuid(k)>> ELSE <<"LN-", as_hex(k)>>

KeyString == {to_string(k) : k \in PaymentId}

\* Err, which is NoId, unless the rest is of the form the tag announces.
from_str(s) ==
    CASE s[1] = "LN-" /\ s[2] \in Hex -> CHOOSE l \in LnId : s[2] = as_hex(l)
      [] s[1] = "CU-" /\ s[2] \in Uuid -> CHOOSE c \in CustId : s[2] = uuid(c)
      [] OTHER -> NoId

\* A PaymentId inside a value is not a string but a variant's number and its bytes,
\* 32 or 16 of them; other numbers and lengths are Err.
encode_id(k) == [type |-> IF k \in LnId THEN 0 ELSE 1, bytes |-> k]

decode_id(e) ==
    IF \/ e.type = 0 /\ e.bytes \in LnId
       \/ e.type = 1 /\ e.bytes \in CustId
    THEN e.bytes ELSE NoId

\* Each variant of TxType has its number, and its fields theirs.
encode(v) ==
    CASE v.ty = "Transfer" ->
            [type |-> 0, custodial_payment |-> v.custodial_payment,
             lightning_payment |-> v.lightning_payment,
             payment_triggering_transfer |-> encode_id(v.payment_triggering_transfer)]
      [] v.ty = "Trigger" -> [type |-> 1]
      [] v.ty = "Payment" -> [type |-> 2]

\* Err is no value.
decode(e) ==
    CASE e.type = 0 /\ decode_id(e.payment_triggering_transfer) # NoId ->
            TransferToNonCustodial(e.custodial_payment, e.lightning_payment,
                                   decode_id(e.payment_triggering_transfer))
      [] e.type = 1 -> Plain("Trigger")
      [] e.type = 2 -> Plain("Payment")
      [] OTHER -> Plain("None")

\* Neither expect of TxMetadataStore::new panics.
Loads(d) == \A s \in DOMAIN d : from_str(s) # NoId /\ decode(d[s]) # Plain("None")

\* The map that it builds from the store.
Loaded(d) ==
    [k \in PaymentId |->
        IF \E s \in DOMAIN d : from_str(s) = k
        THEN decode(d[CHOOSE s \in DOMAIN d : from_str(s) = k])
        ELSE Plain("None")]

\* KVStore::write, which replaces a value as a whole or not at all.
kv_write(k, v) ==
    disk' = [s \in DOMAIN disk \cup {to_string(k)} |->
                IF s = to_string(k) THEN encode(v) ELSE disk[s]]

\* The abstract service: its map is the store's, a write takes effect when it
\* reaches the store, and a read when it gets the lock.
Phase(t) ==
    CASE pc[t] \in {"lock", "locked", "write"} -> "called"
      [] pc[t] \in {"reading", "written", "ending"} -> "done"
      [] OTHER -> pc[t]

CallOf(t) ==
    [phase |-> Phase(t), request |-> request[t], ok |-> ok[t],
     seen |-> IF pc[t] = "reading" THEN tx_metadata ELSE seen[t]]

Calls == [t \in Task |-> CallOf(t)]

Service == INSTANCE MetadataService WITH tx_metadata <- Loaded(disk), call <- Calls

-----------------------------------------------------------------------------
Init ==
    /\ MetadataInit
    /\ disk = [s \in {} |-> Plain("None")]
    /\ writer = NoTask
    /\ readers = {}
    /\ poisoned = FALSE
    /\ pc = [t \in Task |-> "idle"]
    /\ request = [t \in Task |-> NoRequest]
    /\ ok = [t \in Task |-> FALSE]
    /\ seen = [t \in Task |-> Unread]
    /\ unread = [t \in Task |-> {}]

\* A task calls read, insert or upsert, or set_tx_caused_rebalance.
Call(t) ==
    /\ pc[t] = "idle"
    /\ pc' = [pc EXCEPT ![t] = "lock"]
    /\ \E r \in Request : request' = [request EXCEPT ![t] = r]
    /\ UNCHANGED <<tx_metadata, disk, lockVars, answerVars>>

\* write().unwrap()
LockWrite(t) ==
    /\ pc[t] = "lock"
    /\ request[t].op # "read"
    /\ writer = NoTask /\ readers = {} /\ ~poisoned
    /\ writer' = t
    /\ pc' = [pc EXCEPT ![t] = "locked"]
    /\ UNCHANGED <<tx_metadata, disk, readers, poisoned, request, answerVars>>

\* read().unwrap()
LockRead(t) ==
    /\ pc[t] = "lock"
    /\ request[t].op = "read"
    /\ writer = NoTask /\ ~poisoned
    /\ readers' = readers \cup {t}
    /\ ok' = [ok EXCEPT ![t] = TRUE]
    /\ unread' = [unread EXCEPT ![t] = PaymentId]
    /\ pc' = [pc EXCEPT ![t] = "reading"]
    /\ UNCHANGED <<tx_metadata, disk, writer, poisoned, request, seen>>

Dead(t) ==
    /\ pc' = [pc EXCEPT ![t] = "dead"]
    /\ request' = [request EXCEPT ![t] = NoRequest]
    /\ ok' = [ok EXCEPT ![t] = FALSE]
    /\ seen' = [seen EXCEPT ![t] = Unread]
    /\ unread' = [unread EXCEPT ![t] = {}]

\* The unwrap of either, on a poisoned lock.
LockPanics(t) ==
    /\ pc[t] = "lock"
    /\ poisoned
    /\ Dead(t)
    /\ UNCHANGED <<tx_metadata, disk, lockVars>>

\* Under the guard, the caller looks up key after key.
ReadKey(t) ==
    /\ pc[t] = "reading"
    /\ \E k \in unread[t] :
          /\ seen' = [seen EXCEPT ![t][k] = tx_metadata[k]]
          /\ unread' = [unread EXCEPT ![t] = @ \ {k}]
    /\ UNCHANGED <<tx_metadata, disk, lockVars, pc, request, ok>>

EndRead(t) ==
    /\ pc[t] = "reading"
    /\ unread[t] = {}
    /\ readers' = readers \ {t}
    /\ pc' = [pc EXCEPT ![t] = "ending"]
    /\ UNCHANGED <<tx_metadata, disk, writer, poisoned, request, answerVars>>

\* do_set and set_tx_caused_rebalance change the memory first.
ChangeMemory(t) ==
    /\ pc[t] = "locked"
    /\ \/ request[t].op = "do_set" /\ do_set(request[t].key, request[t].value)
       \/ request[t].op = "mark" /\ set_tx_caused_rebalance(request[t].key)
    /\ pc' = [pc EXCEPT ![t] = "write"]
    /\ UNCHANGED <<disk, lockVars, request, answerVars>>

\* There is no payment to be marked: Err, and the lock is released.
MarkFails(t) ==
    /\ pc[t] = "locked"
    /\ request[t].op = "mark"
    /\ set_tx_caused_rebalance_fails(request[t].key)
    /\ writer' = NoTask
    /\ pc' = [pc EXCEPT ![t] = "ending"]
    /\ UNCHANGED <<disk, readers, poisoned, request, answerVars>>

\* A mutant of WriteStore: what was marked is not written.
WriteStoreOfInserts(t) ==
    /\ pc[t] = "write"
    /\ IF request[t].op = "mark" THEN UNCHANGED disk
       ELSE kv_write(request[t].key, tx_metadata[request[t].key])
    /\ ok' = [ok EXCEPT ![t] = TRUE]
    /\ pc' = [pc EXCEPT ![t] = "written"]
    /\ UNCHANGED <<tx_metadata, lockVars, request, seen, unread>>

\* The value that is now in the memory reaches the store.
WriteStore(t) ==
    /\ pc[t] = "write"
    /\ kv_write(request[t].key, tx_metadata[request[t].key])
    /\ ok' = [ok EXCEPT ![t] = TRUE]
    /\ pc' = [pc EXCEPT ![t] = "written"]
    /\ UNCHANGED <<tx_metadata, lockVars, request, seen, unread>>

\* store.write returns Ok; the guard is dropped on return.
UnlockWrite(t) ==
    /\ pc[t] = "written"
    /\ writer' = NoTask
    /\ pc' = [pc EXCEPT ![t] = "ending"]
    /\ UNCHANGED <<tx_metadata, disk, readers, poisoned, request, answerVars>>

\* A mutant of WriteStoreFails: the panic does not release the lock.
WriteStoreFailsLocked(t) ==
    /\ pc[t] \in {"write", "written"}
    /\ Dead(t)
    /\ poisoned' = TRUE
    /\ UNCHANGED <<tx_metadata, disk, writer, readers>>

\* A mutant of WriteStoreFails: the lock is not poisoned.
WriteStoreFailsQuietly(t) ==
    /\ pc[t] \in {"write", "written"}
    /\ Dead(t)
    /\ writer' = NoTask
    /\ UNCHANGED <<tx_metadata, disk, readers, poisoned>>

\* store.write returns Err, whether or not the value reached the store, and the
\* expect panics.
WriteStoreFails(t) ==
    /\ pc[t] \in {"write", "written"}
    /\ Dead(t)
    /\ writer' = NoTask
    /\ poisoned' = TRUE
    /\ UNCHANGED <<tx_metadata, disk, readers>>

Return(t) ==
    /\ pc[t] = "ending"
    /\ pc' = [pc EXCEPT ![t] = "idle"]
    /\ request' = [request EXCEPT ![t] = NoRequest]
    /\ ok' = [ok EXCEPT ![t] = FALSE]
    /\ seen' = [seen EXCEPT ![t] = Unread]
    /\ UNCHANGED <<tx_metadata, disk, lockVars, unread>>

\* The process dies at any step, and TxMetadataStore::new loads the store, or panics
\* for what it cannot read.
Restart ==
    /\ tx_metadata' = Loaded(disk)
    /\ writer' = NoTask
    /\ readers' = {}
    /\ poisoned' = FALSE
    /\ pc' = [t \in Task |-> IF Loads(disk) THEN "idle" ELSE "dead"]
    /\ request' = [t \in Task |-> NoRequest]
    /\ ok' = [t \in Task |-> FALSE]
    /\ seen' = [t \in Task |-> Unread]
    /\ unread' = [t \in Task |-> {}]
    /\ UNCHANGED disk

\* The steps of a task that holds the lock, none of which waits for anyone.
Locked(t) ==
    \/ ReadKey(t) \/ EndRead(t)
    \/ ChangeMemory(t) \/ MarkFails(t)
    \/ WriteStore(t) \/ UnlockWrite(t) \/ WriteStoreFails(t)

Next ==
    \/ \E t \in Task : \/ Call(t) \/ LockWrite(t) \/ LockRead(t) \/ LockPanics(t)
                       \/ Locked(t) \/ Return(t)
    \/ Restart

Spec == Init /\ [][Next]_vars /\ \A t \in Task : WF_vars(Locked(t))

-----------------------------------------------------------------------------
\* Every call is atomic and durable for its callers, through readers that look up
\* key after key, writes that fail, a poisoned lock and restarts: what was read
\* or answered was on disk, and stays there.
Implements == Service!ServiceSpec

\* Whoever may use the memory finds in it what a restart would load.
MemoryIsStore ==
    ~poisoned /\ (\A t \in Task : pc[t] # "write") => tx_metadata = Loaded(disk)

\* The lock is never left behind: who holds it is in a call that has it.
HoldersInCall ==
    /\ writer # NoTask => pc[writer] \in {"locked", "write", "written"}
    /\ \A t \in readers : pc[t] = "reading"

\* The lock is released by whoever holds it, a task that panics included.
LockIsReleased == \A t \in Task : writer = t ~> writer # t

=============================================================================
