------------------------------- MODULE Manager -------------------------------
(***************************************************************************)
(* The Manager of src/manager.rs: the state this PKCS #11 module keeps on  *)
(* its single manager thread.  It knows which sessions are open, which     *)
(* search, sign, decrypt and encrypt operations are pending, and which     *)
(* objects of the operating system's certificate store have a handle.      *)
(*                                                                         *)
(* The manager thread runs one call at a time, so every call is one step.  *)
(* ManagerProxy models the threads and channels in front of it.            *)
(***************************************************************************)
EXTENDS Naturals, Sequences, FiniteSets

CONSTANTS
  Id,              \* identifiers of certificates, keys and trust records
  Flags,           \* session flags, opaque here
  Listings,        \* the lists of objects list_objects() may return
  Template,        \* search templates: are all attributes supported, what matches
  Mechanism,       \* mechanisms and their parameters, opaque here
  Byte,            \* payload units
  Message,         \* the pieces of data a client passes to an update
  MaxTotal,        \* MAX_TOTAL_OPERATION_DATA_LEN, in units
  SearchInterval,  \* 250 ms, in ticks: the throttle of a rescan by start_search
  SessionInterval, \* 3 s, in ticks: the throttle of a rescan by open_session
  MaxSession,      \* bound: number of session handles ever handed out
  MaxBatch,        \* bound: number of handles one search call asks for
  MaxLoad          \* bound: searches and operations pending at the same time

Class == {"Cert", "Key", "Trust"}
Object == [class : Class, id : Id]
OpKind == {"sign", "decrypt", "encrypt"}
Result == {"ok", "Err", "OperationFailed", "InvalidKey", "DataTooLarge", "BackendError"}

ASSUME ManagerAssumption ==
  /\ Listings # {} /\ Listings \subseteq Seq(Object)
  /\ Template \subseteq [supported : BOOLEAN, matches : SUBSET Object]
  /\ Message \subseteq Seq(Byte)
  /\ MaxTotal \in Nat
  /\ SearchInterval \in Nat /\ SessionInterval \in Nat
  /\ SearchInterval <= SessionInterval
  /\ MaxSession \in Nat /\ MaxBatch \in Nat /\ MaxLoad \in Nat

\* The session handles a client may pass in: opened, closed or not yet opened.
SessionHandle == 1 .. MaxSession

VARIABLES
  store,       \* environment: what list_objects() would return now
  age,         \* ticks since last_scan_time, saturating at SessionInterval
  sessions,    \* open sessions and the flags they were opened with
  searches,    \* session -> handles still to be returned (the vector is ascending)
  ops,         \* kind -> session -> pending operation: signs, decrypts, encrypts
  objects,     \* object handle -> object
  ids,         \* class -> identifiers seen: cert_ids, key_ids, trust_ids
  nextSession,
  nextHandle,
  result       \* what the last call returned

table == <<objects, ids, nextHandle, age>>
work == <<sessions, searches, ops, nextSession>>
vars == <<store, age, sessions, searches, ops, objects, ids, nextSession, nextHandle, result>>

-----------------------------------------------------------------------------
(* Maps, as the code's HashMap and BTreeMap use them. *)

NoEntries == [x \in {} |-> x]
Put(f, k, v) == [x \in DOMAIN f \cup {k} |-> IF x = k THEN v ELSE f[x]]
Drop(f, k) == [x \in DOMAIN f \ {k} |-> f[x]]
IsMap(f, D, R) == DOMAIN f \subseteq D /\ f \in [DOMAIN f -> R]

Op == [key : Nat, mech : Mechanism, buffer : Seq(Byte)]

-----------------------------------------------------------------------------
(* Scanning the backend for new objects. *)

\* The positions of a listing whose object is new: its identifier is not known
\* in its class, and no earlier position of the listing has it.
FreshIndices_IgnoresKnown(listing, known) ==
  {i \in DOMAIN listing : \A j \in 1 .. (i - 1) : listing[j] # listing[i]}
FreshIndices(listing, known) ==
  {i \in DOMAIN listing : /\ listing[i].id \notin known[listing[i].class]
                          /\ \A j \in 1 .. (i - 1) : listing[j] # listing[i]}

\* get_next_handle: fresh objects are numbered in listing order.
HandleOf(i, fresh, next) == next + Cardinality({j \in fresh : j < i})

\* The object table after the fresh positions of a listing have been inserted.
Adopt(objs, next, listing, fresh) ==
  [h \in DOMAIN objs \cup {HandleOf(i, fresh, next) : i \in fresh} |->
     IF h \in DOMAIN objs
     THEN objs[h]
     ELSE listing[CHOOSE i \in fresh : HandleOf(i, fresh, next) = h]]

Learn(known, listing, fresh) ==
  [c \in Class |-> known[c] \cup {listing[i].id : i \in {j \in fresh : listing[j].class = c}}]

FindNewObjects_Rebuild ==
  LET fresh == FreshIndices(store, [c \in Class |-> {}])
  IN  /\ objects' = Adopt(NoEntries, 1, store, fresh)
      /\ ids' = Learn([c \in Class |-> {}], store, fresh)
      /\ nextHandle' = 1 + Cardinality(fresh)
      /\ age' = 0

FindNewObjects_HandleNotAdvanced ==
  LET fresh == FreshIndices(store, ids)
  IN  /\ objects' = Adopt(objects, nextHandle, store, fresh)
      /\ ids' = Learn(ids, store, fresh)
      /\ age' = 0
      /\ UNCHANGED nextHandle

FindNewObjects ==
  LET fresh == FreshIndices(store, ids)
  IN  /\ objects' = Adopt(objects, nextHandle, store, fresh)
      /\ ids' = Learn(ids, store, fresh)
      /\ nextHandle' = nextHandle + Cardinality(fresh)
      /\ age' = 0

MaybeFindNewObjects_Restart(minInterval) ==
  \/ age >= minInterval /\ FindNewObjects
  \/ age < minInterval /\ age' = 0 /\ UNCHANGED <<objects, ids, nextHandle>>

\* Nothing happens when the previous scan is younger than minInterval.
MaybeFindNewObjects(minInterval) ==
  \/ age >= minInterval /\ FindNewObjects
  \/ age < minInterval /\ UNCHANGED table

-----------------------------------------------------------------------------
(* Manager::new(): empty maps and a first scan. *)

Init ==
  /\ store \in Listings
  /\ LET fresh == FreshIndices(store, [c \in Class |-> {}])
     IN  /\ objects = Adopt(NoEntries, 1, store, fresh)
         /\ ids = Learn([c \in Class |-> {}], store, fresh)
         /\ nextHandle = 1 + Cardinality(fresh)
  /\ age = 0
  /\ sessions = NoEntries
  /\ searches = NoEntries
  /\ ops = [k \in OpKind |-> NoEntries]
  /\ nextSession = 1
  /\ result = "ok"

-----------------------------------------------------------------------------
(* The environment: time passes, the certificate store changes. *)

Tick ==
  /\ age < SessionInterval
  /\ age' = age + 1
  /\ UNCHANGED <<store, work, objects, ids, nextHandle, result>>

ChangeStore ==
  /\ store' \in Listings \ {store}
  /\ UNCHANGED <<work, table, result>>

-----------------------------------------------------------------------------
(* Sessions. *)

OpenSession_ReusesHandle(flags) ==
  /\ \E s \in SessionHandle \ DOMAIN sessions : sessions' = Put(sessions, s, flags)
  /\ MaybeFindNewObjects(SessionInterval)
  /\ UNCHANGED <<store, searches, ops, nextSession>>
  /\ result' = "ok"

\* A rescan throws away the searches made against the older table.
OpenSession_EndsSearches(flags) ==
  /\ nextSession <= MaxSession
  /\ MaybeFindNewObjects(SessionInterval)
  /\ sessions' = Put(sessions, nextSession, flags)
  /\ nextSession' = nextSession + 1
  /\ searches' = IF age >= SessionInterval THEN NoEntries ELSE searches
  /\ result' = "ok"
  /\ UNCHANGED <<store, ops>>

OpenSession(flags) ==
  /\ nextSession <= MaxSession
  /\ MaybeFindNewObjects(SessionInterval)
  /\ sessions' = Put(sessions, nextSession, flags)
  /\ nextSession' = nextSession + 1
  /\ result' = "ok"
  /\ UNCHANGED <<store, searches, ops>>

GetSessionInfo(s) ==
  /\ result' = IF s \in DOMAIN sessions THEN "ok" ELSE "Err"
  /\ UNCHANGED <<store, work, table>>

CloseSession_KeepsSearch(s) ==
  /\ s \in DOMAIN sessions
  /\ sessions' = Drop(sessions, s)
  /\ ops' = [k \in OpKind |-> Drop(ops[k], s)]
  /\ result' = "ok"
  /\ UNCHANGED <<store, table, nextSession, searches>>

\* Closing an open session also ends whatever is pending on it.
CloseSession(s) ==
  \/ /\ s \in DOMAIN sessions
     /\ sessions' = Drop(sessions, s)
     /\ searches' = Drop(searches, s)
     /\ ops' = [k \in OpKind |-> Drop(ops[k], s)]
     /\ result' = "ok"
     /\ UNCHANGED <<store, table, nextSession>>
  \/ /\ s \notin DOMAIN sessions
     /\ result' = "Err"
     /\ UNCHANGED <<store, work, table>>

CloseAllSessions ==
  /\ sessions' = NoEntries
  /\ searches' = NoEntries
  /\ ops' = [k \in OpKind |-> NoEntries]
  /\ result' = "ok"
  /\ UNCHANGED <<store, table, nextSession>>

-----------------------------------------------------------------------------
(* Searches and attributes. *)

\* The client's restraint: it keeps at most MaxLoad searches and operations pending.
Load == Cardinality(DOMAIN searches) + Cardinality(DOMAIN ops["sign"])
        + Cardinality(DOMAIN ops["decrypt"]) + Cardinality(DOMAIN ops["encrypt"])

MatchingHandles(objs, t) == {h \in DOMAIN objs : objs[h] \in t.matches}

StartSearch_NoRescan(s, t) ==
  /\ s \notin DOMAIN searches /\ Load < MaxLoad
  /\ searches' = Put(searches, s, IF t.supported THEN MatchingHandles(objects, t) ELSE {})
  /\ result' = "ok"
  /\ UNCHANGED <<store, sessions, ops, nextSession, table>>

\* A template with an unsupported attribute matches nothing; one that finds nothing
\* in the table is tried once more after a rescan.  The session is not looked at.
StartSearch(s, t) ==
  \/ /\ s \in DOMAIN searches
     /\ result' = "Err"
     /\ UNCHANGED <<store, work, table>>
  \/ /\ s \notin DOMAIN searches /\ Load < MaxLoad
     /\ IF t.supported /\ MatchingHandles(objects, t) = {}
        THEN MaybeFindNewObjects(SearchInterval)
        ELSE UNCHANGED table
     /\ searches' = Put(searches, s,
                        IF t.supported THEN MatchingHandles(objects', t) ELSE {})
     /\ result' = "ok"
     /\ UNCHANGED <<store, sessions, ops, nextSession>>

\* split_off: the last handles of the ascending vector, at most n of them.
LastHandles(pending, n) ==
  {h \in pending : Cardinality({g \in pending : g > h}) < n}

Search(s, n) ==
  \/ /\ n > 0 /\ s \in DOMAIN searches
     /\ searches' = Put(searches, s, searches[s] \ LastHandles(searches[s], n))
     /\ result' = "ok"
     /\ UNCHANGED <<store, sessions, ops, nextSession, table>>
  \/ /\ n = 0 \/ s \notin DOMAIN searches
     /\ result' = "Err"
     /\ UNCHANGED <<store, work, table>>

ClearSearch(s) ==
  /\ searches' = Drop(searches, s)
  /\ result' = "ok"
  /\ UNCHANGED <<store, sessions, ops, nextSession, table>>

GetAttributes(h) ==
  /\ result' = IF h \in DOMAIN objects THEN "ok" ELSE "Err"
  /\ UNCHANGED <<store, work, table>>

-----------------------------------------------------------------------------
(* Sign, decrypt and encrypt operations. *)

\* The classes of object an operation may be started with.
Usable(k) == IF k = "encrypt" THEN {"Cert", "Key"} ELSE {"Key"}
Resolves(k, h) == h \in DOMAIN objects /\ objects[h].class \in Usable(k)

Refuse(why) == result' = why /\ UNCHANGED <<store, work, table>>

SetOp(k, s, op) ==
  /\ ops' = [ops EXCEPT ![k] = Put(ops[k], s, op)]
  /\ UNCHANGED <<store, sessions, searches, nextSession, table>>

StartOperation_AnyObject(k, s, h, m) ==
  /\ s \notin DOMAIN ops[k] /\ h \in DOMAIN objects /\ Load < MaxLoad
  /\ SetOp(k, s, [key |-> h, mech |-> m, buffer |-> <<>>])
  /\ result' = "ok"

\* The session is not looked at: the handle may be closed or not handed out yet.
StartOperation(k, s, h, m) ==
  \/ s \in DOMAIN ops[k] /\ Refuse("OperationFailed")
  \/ s \notin DOMAIN ops[k] /\ ~Resolves(k, h) /\ Refuse("InvalidKey")
  \/ /\ s \notin DOMAIN ops[k] /\ Resolves(k, h) /\ Load < MaxLoad
     /\ SetOp(k, s, [key |-> h, mech |-> m, buffer |-> <<>>])
     /\ result' = "ok"

StartSign(s, h, m) == StartOperation("sign", s, h, m)
StartDecrypt(s, h, m) == StartOperation("decrypt", s, h, m)
StartEncrypt(s, h, m) == StartOperation("encrypt", s, h, m)

\* A length query asks the backend and leaves the operation alone.
MeasureOperation(k, s) ==
  \/ s \notin DOMAIN ops[k] /\ Refuse("OperationFailed")
  \/ /\ s \in DOMAIN ops[k]
     /\ IF Resolves(k, ops[k][s].key)
        THEN Refuse("ok") \/ Refuse("BackendError")
        ELSE Refuse("InvalidKey")

GetSignatureLength(s) == MeasureOperation("sign", s)
GetDecryptedLength(s) == MeasureOperation("decrypt", s)
GetEncryptedLength(s) == MeasureOperation("encrypt", s)
GetFinalSignatureLength(s) == MeasureOperation("sign", s)
GetFinalDecryptedLength(s) == MeasureOperation("decrypt", s)
GetFinalEncryptedLength(s) == MeasureOperation("encrypt", s)

UpdateOperation_ChecksPartOnly(k, s, data) ==
  /\ s \in DOMAIN ops[k] /\ Len(data) <= MaxTotal
  /\ SetOp(k, s, [ops[k][s] EXCEPT !.buffer = @ \o data])
  /\ result' = "ok"

UpdateOperation_Prepends(k, s, data) ==
  /\ s \in DOMAIN ops[k]
  /\ Len(ops[k][s].buffer) + Len(data) <= MaxTotal
  /\ SetOp(k, s, [ops[k][s] EXCEPT !.buffer = data \o @])
  /\ result' = "ok"

UpdateOperation(k, s, data) ==
  \/ s \notin DOMAIN ops[k] /\ Refuse("OperationFailed")
  \/ /\ s \in DOMAIN ops[k]
     /\ Len(ops[k][s].buffer) + Len(data) > MaxTotal
     /\ Refuse("DataTooLarge")
  \/ /\ s \in DOMAIN ops[k]
     /\ Len(ops[k][s].buffer) + Len(data) <= MaxTotal
     /\ SetOp(k, s, [ops[k][s] EXCEPT !.buffer = @ \o data])
     /\ result' = "ok"

SignUpdate(s, data) == UpdateOperation("sign", s, data)
DecryptUpdate(s, data) == UpdateOperation("decrypt", s, data)
EncryptUpdate(s, data) == UpdateOperation("encrypt", s, data)

\* Removed first, then the key is looked up and the backend called: the operation is
\* over even when the backend fails.  A single-part call hands its own data to the
\* backend and discards the buffer, a final call hands over the buffer.
FinishOperation(k, s) ==
  \/ s \notin DOMAIN ops[k] /\ Refuse("OperationFailed")
  \/ /\ s \in DOMAIN ops[k]
     /\ ops' = [ops EXCEPT ![k] = Drop(ops[k], s)]
     /\ IF Resolves(k, ops[k][s].key)
        THEN result' \in {"ok", "BackendError"}
        ELSE result' = "InvalidKey"
     /\ UNCHANGED <<store, sessions, searches, nextSession, table>>

Sign(s) == FinishOperation("sign", s)
Decrypt(s) == FinishOperation("decrypt", s)
Encrypt(s) == FinishOperation("encrypt", s)
SignFinal(s) == FinishOperation("sign", s)
DecryptFinal(s) == FinishOperation("decrypt", s)
EncryptFinal(s) == FinishOperation("encrypt", s)

-----------------------------------------------------------------------------

Environment == Tick \/ ChangeStore

SessionCall ==
  \/ \E flags \in Flags : OpenSession(flags)
  \/ \E s \in SessionHandle : GetSessionInfo(s) \/ CloseSession(s)
  \/ CloseAllSessions

ObjectCall ==
  \/ \E s \in SessionHandle, t \in Template : StartSearch(s, t)
  \/ \E s \in SessionHandle, n \in 0 .. MaxBatch : Search(s, n)
  \/ \E s \in SessionHandle : ClearSearch(s)
  \/ \E h \in 1 .. nextHandle : GetAttributes(h)

\* A client may pass any object handle; nextHandle stands for the unknown ones.
SignCall ==
  \E s \in SessionHandle :
    \/ \E h \in 1 .. nextHandle, m \in Mechanism : StartSign(s, h, m)
    \/ \E data \in Message : SignUpdate(s, data)
    \/ GetSignatureLength(s) \/ GetFinalSignatureLength(s)
    \/ Sign(s) \/ SignFinal(s)

DecryptCall ==
  \E s \in SessionHandle :
    \/ \E h \in 1 .. nextHandle, m \in Mechanism : StartDecrypt(s, h, m)
    \/ \E data \in Message : DecryptUpdate(s, data)
    \/ GetDecryptedLength(s) \/ GetFinalDecryptedLength(s)
    \/ Decrypt(s) \/ DecryptFinal(s)

EncryptCall ==
  \E s \in SessionHandle :
    \/ \E h \in 1 .. nextHandle, m \in Mechanism : StartEncrypt(s, h, m)
    \/ \E data \in Message : EncryptUpdate(s, data)
    \/ GetEncryptedLength(s) \/ GetFinalEncryptedLength(s)
    \/ Encrypt(s) \/ EncryptFinal(s)

Next == Environment \/ SessionCall \/ ObjectCall \/ SignCall \/ DecryptCall \/ EncryptCall

Spec == Init /\ [][Next]_vars

-----------------------------------------------------------------------------
(* Properties. *)

TypeOK ==
  /\ store \in Listings
  /\ age \in 0 .. SessionInterval
  /\ nextSession \in 1 .. (MaxSession + 1)
  /\ nextHandle \in Nat \ {0}
  /\ IsMap(sessions, SessionHandle, Flags)
  /\ IsMap(searches, SessionHandle, SUBSET Nat)
  /\ DOMAIN ops = OpKind /\ \A k \in OpKind : IsMap(ops[k], SessionHandle, Op)
  /\ IsMap(objects, 1 .. (nextHandle - 1), Object)
  /\ ids \in [Class -> SUBSET Id]
  /\ result \in Result

\* However often the store is rescanned and whatever a listing repeats, an object has
\* one handle, and an identifier counts as known in a class exactly when an object of
\* that class has it (maybe_find_new_objects; a certificate and its key share an id).
OneHandlePerObject ==
  /\ \A g, h \in DOMAIN objects : objects[g] = objects[h] => g = h
  /\ \A c \in Class, x \in Id :
       x \in ids[c] <=> \E h \in DOMAIN objects : objects[h] = [class |-> c, id |-> x]

\* The key a pending operation was started with is still there, and still of a class
\* that can do the work: the InvalidKey arms of the length, single-part and final calls
\* are never taken, so a rescan can not break an operation started before it.
OperationsResolve ==
  \A k \in OpKind : \A s \in DOMAIN ops[k] : Resolves(k, ops[k][s].key)

\* Every handle a pending search will still return names an object: C_FindObjects never
\* returns a handle that C_GetAttributeValue or an Init call then does not know.
SearchesResolve ==
  \A s \in DOMAIN searches : searches[s] \subseteq DOMAIN objects

\* The parts accumulated by the update calls never exceed the documented bound.
BuffersBounded ==
  \A k \in OpKind : \A s \in DOMAIN ops[k] : Len(ops[k][s].buffer) <= MaxTotal

\* A handle means the same object for as long as the module is initialized, through any
\* number of rescans and store changes: NSS caches handles across calls.
HandlesStable ==
  [][\A h \in DOMAIN objects : h \in DOMAIN objects' /\ objects'[h] = objects[h]]_vars

\* A session handle is never handed out twice: each new one is the counter's, which has
\* moved past it afterwards and never goes back, whatever is closed in between.  Operations
\* may still be filed under a closed handle (StartOperation does not look at the session).
SessionHandlesFresh ==
  [][/\ nextSession' >= nextSession
     /\ \A s \in DOMAIN sessions' \ DOMAIN sessions : s = nextSession /\ s < nextSession']_vars

\* Session s has just been closed by its own call, or with all the others.
Closes(s) == s \in DOMAIN sessions \ DOMAIN sessions' \/ CloseAllSessions

\* While an operation or a search stays pending it stays the same one: no call swaps its
\* key or mechanism, the buffer only grows at its end, a search only gets shorter.  It ends
\* by a single-part or final call of its own kind and session (C_FindObjectsFinal for a
\* search), which touches no other, or because its session is closed: not by a rescan, not
\* by another session's calls, and not by a call that is refused (wrong handle, nothing or
\* already something pending, too much data, no key).
PendingStable ==
  [][/\ \A k \in OpKind : \A s \in DOMAIN ops[k] \cap DOMAIN ops'[k] :
          LET old == ops[k][s]
              new == ops'[k][s]
          IN  /\ new.key = old.key /\ new.mech = old.mech
              /\ Len(old.buffer) <= Len(new.buffer)
              /\ SubSeq(new.buffer, 1, Len(old.buffer)) = old.buffer
     /\ \A s \in DOMAIN searches \cap DOMAIN searches' : searches'[s] \subseteq searches[s]
     /\ \A k \in OpKind : \A s \in DOMAIN ops[k] \ DOMAIN ops'[k] :
          FinishOperation(k, s) \/ Closes(s)
     /\ \A s \in DOMAIN searches \ DOMAIN searches' : ClearSearch(s) \/ Closes(s)
     /\ result' \notin {"ok", "BackendError"} => UNCHANGED <<searches, ops>>]_vars

\* What f has for a session, if anything.
EntryOf(f, s) == IF s \in DOMAIN f THEN {f[s]} ELSE {}

\* When a session stops being open, nothing stays pending on it, and the sessions that stay
\* open keep all they have pending.
CloseEndsPending ==
  [][\A s \in DOMAIN sessions \ DOMAIN sessions' :
        /\ s \notin DOMAIN searches' /\ \A k \in OpKind : s \notin DOMAIN ops'[k]
        /\ \A r \in DOMAIN sessions' :
             /\ EntryOf(searches', r) = EntryOf(searches, r)
             /\ \A k \in OpKind : EntryOf(ops'[k], r) = EntryOf(ops[k], r)]_vars

\* A search that comes up empty was made against a table at most 250 ms old, or nothing
\* in the store matches it: the miss is not an artefact of the 3 s throttle.
MissIsFresh ==
  [][\A s \in SessionHandle, t \in Template :
        (/\ s \in DOMAIN searches' \ DOMAIN searches
         /\ searches'[s] = {} /\ t.supported /\ StartSearch(s, t))
        => \/ age < SearchInterval
           \/ \A i \in DOMAIN store : store[i] \notin t.matches]_vars

=============================================================================
