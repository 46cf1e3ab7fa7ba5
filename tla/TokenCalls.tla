----------------------------- MODULE TokenCalls -----------------------------
(***************************************************************************)
(* The functions of lib.rs by which NSS looks at the token: sessions,      *)
(* searches and attributes, on top of the Manager, with the attributes of  *)
(* the objects and the way templates are compared with them                *)
(* (backend_windows.rs).  Two applications' worth of calls interleave: one *)
(* polls with a targeted search, as the comment in start_search describes, *)
(* the others do anything.  A call with a null pointer, an unreasonable    *)
(* count or a wrong slot, and a search for no handles, return before they  *)
(* reach the Manager.                                                      *)
(***************************************************************************)
EXTENDS Manager, Integers

CONSTANTS
  Contents,   \* object -> attribute type -> value: what get_attribute returns
  Length,     \* value -> its length
  Supported,  \* SUPPORTED_ATTRIBUTES
  Requests,   \* search templates as passed in: attribute type -> form and value
  Reads,      \* sets of attribute types a client asks C_GetAttributeValue for
  Room,       \* buffer lengths a client offers
  Poller,     \* the session of the polling client
  Polled      \* the search it repeats

VARIABLES
  found,     \* session -> the handles C_FindObjects has returned since C_FindObjectsInit
  expected,  \* history: session -> those whose attributes read as the template says, then
  query,     \* the client's last successful length query: handle and slots
  answer     \* what the last call gave back

tokenVars == <<vars, found, expected, query, answer>>

NoAnswer == [rv |-> "none"]
NoQuery == [handle |-> 0]
Null == -2         \* no buffer is passed
Unavailable == -1  \* CK_UNAVAILABLE_INFORMATION

-----------------------------------------------------------------------------
(* Templates. *)

\* The attributes that `matches` compares.  A trust record has more that can be read.
Comparable(o) ==
  IF o.class = "Trust" THEN DOMAIN Contents[o] \cap {"class", "token", "issuer", "serial"}
  ELSE DOMAIN Contents[o]

Booleans == {"token", "private", "sign", "decrypt", "sensitive", "extractable",
             "alwaysAuthenticate", "local"}

\* bool_attr_matches also takes a CK_ULONG, serial_number_matches also the DER encoding.
Forms(a) ==
  CASE a \in Booleans -> {"plain", "ulong"}
    [] a = "serial"   -> {"plain", "der"}
    [] OTHER          -> {"plain"}

Matches_FirstOnly(o, request) ==
  \E a \in DOMAIN request \cap Comparable(o) :
    request[a].form \in Forms(a) /\ request[a].value = Contents[o][a]

Matches(o, request) ==
  \A a \in DOMAIN request :
    a \in Comparable(o) /\ request[a].form \in Forms(a) /\ request[a].value = Contents[o][a]

TemplateOf(request) ==
  [supported |-> DOMAIN request \subseteq Supported,
   matches |-> {o \in DOMAIN Contents : Matches(o, request)}]

TemplateFor == [r \in Requests |-> TemplateOf(r)]

\* Every listed object has its attributes, of which a search may use those that `matches` compares;
\* clients write the values of a template in one of the forms that are understood.
ASSUME TokenAssumption ==
  /\ DOMAIN Contents \subseteq Object /\ Listings \subseteq Seq(DOMAIN Contents)
  /\ \A o \in DOMAIN Contents : \A a \in DOMAIN Contents[o] :
       /\ Length[Contents[o][a]] \in Nat
       /\ a \in Supported => a \in Comparable(o)
  /\ \A r \in Requests : \A a \in DOMAIN r : r[a].form \in Forms(a)
  /\ Template = {TemplateFor[r] : r \in Requests}
  /\ Poller \in SessionHandle /\ Polled \in Requests

-----------------------------------------------------------------------------

TokenInit ==
  /\ Init
  /\ found = NoEntries
  /\ expected = NoEntries
  /\ query = NoQuery
  /\ answer = NoAnswer

Says(a) == answer' = a
Rv(ok, otherwise) == Says([rv |-> IF result' = "ok" THEN ok ELSE otherwise])

(* Sessions. *)

C_OpenSession(flags) ==
  /\ IF "serial" \in flags
     THEN OpenSession(flags) /\ Says([rv |-> "OK", session |-> nextSession])
     ELSE Says([rv |-> "ARGUMENTS_BAD"]) /\ UNCHANGED vars
  /\ UNCHANGED <<found, expected, query>>

C_CloseSession(s) ==
  /\ CloseSession(s)
  /\ Rv("OK", "SESSION_HANDLE_INVALID")
  /\ found' = IF result' = "ok" THEN Drop(found, s) ELSE found
  /\ expected' = IF result' = "ok" THEN Drop(expected, s) ELSE expected
  /\ UNCHANGED query

C_CloseAllSessions ==
  /\ CloseAllSessions
  /\ Rv("OK", "DEVICE_ERROR")
  /\ found' = NoEntries
  /\ expected' = NoEntries
  /\ UNCHANGED query

C_GetSessionInfo(s) ==
  /\ GetSessionInfo(s)
  /\ Says(IF result' = "ok"
          THEN [rv |-> "OK", flags |-> sessions[s] \cup {"serial"},
                state |-> IF "rw" \in sessions[s] THEN "RW_PUBLIC" ELSE "RO_PUBLIC"]
          ELSE [rv |-> "SESSION_HANDLE_INVALID"])
  /\ UNCHANGED <<found, expected, query>>

(* Searches. *)

\* What the client means by its template: the objects that read as it says.
ReadsAs(o, request) ==
  \A a \in DOMAIN request : a \in DOMAIN Contents[o] /\ Contents[o][a] = request[a].value
Meant(objs, request) ==
  IF DOMAIN request \subseteq Supported THEN {h \in DOMAIN objs : ReadsAs(objs[h], request)} ELSE {}

C_FindObjectsInit(s, request) ==
  /\ StartSearch(s, TemplateFor[request])
  /\ Rv("OK", "ARGUMENTS_BAD")
  /\ found' = IF result' = "ok" THEN Put(found, s, {}) ELSE found
  /\ expected' = IF result' = "ok" THEN Put(expected, s, Meant(objects', request)) ELSE expected
  /\ UNCHANGED query

C_FindObjects(s, max) ==
  /\ Search(s, max)
  /\ IF result' = "ok"
     THEN LET handles == searches[s] \ searches'[s] IN
            /\ Says([rv |-> "OK", handles |-> handles, fresh |-> handles \cap found[s] = {}])
            /\ found' = Put(found, s, found[s] \cup handles)
     ELSE Says([rv |-> "ARGUMENTS_BAD"]) /\ UNCHANGED found
  /\ UNCHANGED <<expected, query>>

\* Permissive: there need not be a search.
C_FindObjectsFinal(s) ==
  /\ ClearSearch(s)
  /\ Rv("OK", "DEVICE_ERROR")
  /\ found' = Drop(found, s)
  /\ expected' = Drop(expected, s)
  /\ UNCHANGED query

(* Attributes. *)

\* One attribute of the object, for a buffer of that length.
Slot_KeepsRoom(contents, a, room) ==
  IF a \notin DOMAIN contents THEN [length |-> Unavailable, copied |-> {}]
  ELSE IF room = Null \/ room < Length[contents[a]]
  THEN [length |-> Length[contents[a]], copied |-> {}]
  ELSE [length |-> room, copied |-> {contents[a]}]

Slot(contents, a, room) ==
  IF a \notin DOMAIN contents THEN [length |-> Unavailable, copied |-> {}]
  ELSE [length |-> Length[contents[a]],
        copied |-> IF room # Null /\ room >= Length[contents[a]] THEN {contents[a]} ELSE {}]

\* C_GetAttributeValue.  An attribute whose buffer is too small does not keep the others from
\* being copied; one the object does not have is no error.
GetAttributeValue(h, rooms) ==
  /\ GetAttributes(h)
  /\ IF result' = "ok"
     THEN LET contents == Contents[objects[h]]
              slots == [a \in DOMAIN rooms |-> Slot(contents, a, rooms[a])]
              short == \E a \in DOMAIN rooms \cap DOMAIN contents :
                         rooms[a] # Null /\ slots[a].copied = {}
          IN  Says([rv |-> IF short THEN "BUFFER_TOO_SMALL" ELSE "OK", slots |-> slots])
     ELSE Says([rv |-> "ARGUMENTS_BAD"])
  /\ UNCHANGED <<found, expected>>

\* The first of two calls: without buffers, or with some that turn out too small.
QueryAttributes(h, types) ==
  \E rooms \in [types -> {Null} \cup Room] :
    /\ GetAttributeValue(h, rooms)
    /\ query' = IF result' = "ok" THEN [handle |-> h, slots |-> answer'.slots] ELSE NoQuery

\* The second: with buffers of the lengths the first reported, or longer.
FetchAttributes(extra) ==
  /\ query # NoQuery
  /\ GetAttributeValue(query.handle,
       [a \in DOMAIN query.slots |->
          IF query.slots[a].length = Unavailable THEN Null ELSE query.slots[a].length + extra])
  /\ UNCHANGED query

-----------------------------------------------------------------------------

\* The polling client: C_FindObjectsInit, and C_FindObjectsFinal once it has seen the result.
Poll ==
  /\ \/ Poller \notin DOMAIN searches /\ StartSearch(Poller, TemplateFor[Polled])
     \/ Poller \in DOMAIN searches /\ ClearSearch(Poller)
  /\ UNCHANGED <<found, expected, query, answer>>

\* The others, on any session but that one.
OtherCall ==
  \/ \E flags \in Flags : C_OpenSession(flags)
  \/ C_CloseAllSessions
  \/ \E s \in SessionHandle \ {Poller} :
       \/ C_CloseSession(s)
       \/ C_GetSessionInfo(s)
       \/ \E request \in Requests : C_FindObjectsInit(s, request)
       \/ \E max \in 1 .. MaxBatch : C_FindObjects(s, max)
       \/ C_FindObjectsFinal(s)
  \/ \E h \in 1 .. nextHandle, types \in Reads : QueryAttributes(h, types)
  \/ \E extra \in {0, 1} : FetchAttributes(extra)

TimePasses == Tick /\ UNCHANGED <<found, expected, query, answer>>
StoreChanges == ChangeStore /\ UNCHANGED <<found, expected, query, answer>>

TokenNext ==
  \/ TimePasses
  \/ StoreChanges
  \/ Poll
  \/ OtherCall

\* Time passes, and the client goes on polling; nothing is assumed of the others.
TokenSpec == TokenInit /\ [][TokenNext]_tokenVars /\ WF_tokenVars(TimePasses) /\ WF_tokenVars(Poll)

-----------------------------------------------------------------------------
(* What NSS relies on. *)

\* However the calls of C_FindObjects are cut into batches, and whatever other sessions do and
\* rescans add in between: what has been returned and what is still to come is exactly what the
\* template meant when the search began, an object that can be read as the template says is among
\* it, and none comes twice.  (Manager::search, `matches` against get_attribute.)
SearchEnumerates ==
  /\ \A s \in DOMAIN found : s \in DOMAIN searches /\ found[s] \cup searches[s] = expected[s]
  /\ "fresh" \in DOMAIN answer => answer.fresh

\* The two calls of C_GetAttributeValue fit together: with buffers of the lengths that the first
\* reported, or longer ones, the second copies every attribute the object has and reports the
\* same lengths, also when certificates have come and gone and the table was scanned again.
AttributesStay ==
  [][ \A extra \in {0, 1} : FetchAttributes(extra) =>
        /\ answer'.rv = "OK"
        /\ \A a \in DOMAIN query.slots :
             /\ answer'.slots[a].length = query.slots[a].length
             /\ query.slots[a].length # Unavailable => answer'.slots[a].copied # {}
    ]_tokenVars

\* A match that stays in the store is found by a client that keeps searching for it on a session
\* it opened before: no pattern of throttled searches, its own or others', can put the rescan off
\* for ever (start_search, maybe_find_new_objects).
ListedIsFound ==
  <>[](\E i \in DOMAIN store : store[i] \in TemplateFor[Polled].matches)
  => <>(Poller \in DOMAIN searches /\ searches[Poller] # {})
=============================================================================
