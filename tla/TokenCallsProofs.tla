--------------------------- MODULE TokenCallsProofs ---------------------------
(***************************************************************************)
(* The search and attribute functions are calls of the Manager, so that    *)
(* ManagerProofs applies to them; and what NSS relies on holds for any     *)
(* objects, templates, batches and sessions.                               *)
(***************************************************************************)
EXTENDS TokenCalls, ManagerProofs

-----------------------------------------------------------------------------
(* The inductive invariant. *)

LengthOf(o, a) == IF a \in DOMAIN Contents[o] THEN Length[Contents[o][a]] ELSE Unavailable

\* Every object has its attributes.
ContentsOK == \A h \in DOMAIN objects : objects[h] \in DOMAIN Contents

\* What a client remembers of a length query is what the object has.
QueryOK ==
  query # NoQuery =>
    /\ query.handle \in DOMAIN objects
    /\ \A a \in DOMAIN query.slots :
         query.slots[a].length = LengthOf(objects[query.handle], a)

\* What a search has returned and what is still to come are parts of what its template meant.
FoundOK ==
  /\ DOMAIN found = DOMAIN searches \ {Poller} /\ DOMAIN expected = DOMAIN found
  /\ \A s \in DOMAIN found :
       found[s] \cup searches[s] = expected[s] /\ found[s] \cap searches[s] = {}

AnswerOK == "fresh" \in DOMAIN answer => answer.fresh

TInv == IInv /\ ContentsOK /\ QueryOK /\ FoundOK /\ AnswerOK

-----------------------------------------------------------------------------
(* Templates. *)

\* What start_search collects for a template is what the template means.
LEMMA TemplateMeans ==
  ASSUME NEW r \in Requests, NEW objs, \A h \in DOMAIN objs : objs[h] \in DOMAIN Contents
  PROVE  /\ TemplateFor[r] \in Template
         /\ (IF TemplateFor[r].supported THEN MatchingHandles(objs, TemplateFor[r]) ELSE {})
              = Meant(objs, r)
<1>1. /\ TemplateFor[r] \in Template /\ TemplateFor[r].supported = (DOMAIN r \subseteq Supported)
      /\ TemplateFor[r].matches = {o \in DOMAIN Contents : Matches(o, r)}
  BY TokenAssumption DEF TemplateFor, TemplateOf
<1>2. ASSUME DOMAIN r \subseteq Supported, NEW o \in DOMAIN Contents
      PROVE  Matches(o, r) <=> ReadsAs(o, r)
  <2>1. \A a \in DOMAIN r : r[a].form \in Forms(a)
    BY TokenAssumption
  <2>2. ASSUME NEW a \in DOMAIN r, a \in DOMAIN Contents[o] PROVE a \in Comparable(o)
    BY <1>2, <2>2, TokenAssumption
  <2>3. ASSUME NEW a \in DOMAIN r, a \in Comparable(o) PROVE a \in DOMAIN Contents[o]
    BY <2>3 DEF Comparable
  <2>4. QED
    BY <2>1, <2>2, <2>3 DEF Matches, ReadsAs
<1>3. QED
  BY <1>1, <1>2 DEF MatchingHandles, Meant

-----------------------------------------------------------------------------
(* The object table. *)

\* A scan takes its objects from the listing.
LEMMA AdoptedFromListing ==
  ASSUME NEW objs, NEW next, NEW listing, NEW fresh,
         NEW h \in DOMAIN Adopt(objs, next, listing, fresh), h \notin DOMAIN objs
  PROVE  \E i \in fresh : Adopt(objs, next, listing, fresh)[h] = listing[i]
<1>1. /\ Adopt(objs, next, listing, fresh)[h] = listing[CHOOSE i \in fresh : HandleOf(i, fresh, next) = h]
      /\ \E i \in fresh : HandleOf(i, fresh, next) = h
  BY DEF Adopt
<1>2. (CHOOSE i \in fresh : HandleOf(i, fresh, next) = h) \in fresh
  BY <1>1
<1>3. QED
  BY <1>1, <1>2

LEMMA ListedHaveContents ==
  ASSUME store \in Listings, NEW known, NEW i \in FreshIndices(store, known)
  PROVE  store[i] \in DOMAIN Contents
BY TokenAssumption DEF FreshIndices

LEMMA ScanKeepsContents ==
  ASSUME IInv, ContentsOK, NEW minInterval, MaybeFindNewObjects(minInterval)
  PROVE  ContentsOK'
<1>1. CASE FindNewObjects
  <2> DEFINE fresh == FreshIndices(store, ids)
  <2>1. objects' = Adopt(objects, nextHandle, store, fresh)
    BY <1>1 DEF FindNewObjects
  <2>2. store \in Listings
    BY DEF IInv, EnvOK
  <2>3. ASSUME NEW h \in DOMAIN objects' PROVE objects'[h] \in DOMAIN Contents
    <3>1. CASE h \in DOMAIN objects
      <4>1. objects'[h] = objects[h]
        BY <2>1, <2>3, <3>1 DEF Adopt
      <4>2. QED
        BY <3>1, <4>1 DEF ContentsOK
    <3>2. CASE h \notin DOMAIN objects
      <4>1. PICK i \in fresh : objects'[h] = store[i]
        BY <2>1, <2>3, <3>2, AdoptedFromListing
      <4>2. QED
        BY <2>2, <4>1, ListedHaveContents
    <3>3. QED
      BY <3>1, <3>2
  <2>4. QED
    BY <2>3 DEF ContentsOK
<1>2. CASE UNCHANGED table
  BY <1>2 DEF table, ContentsOK
<1>3. QED
  BY <1>1, <1>2 DEF MaybeFindNewObjects

LEMMA TokenInitEstablishes == TokenInit => TInv
<1> SUFFICES ASSUME TokenInit PROVE TInv
  OBVIOUS
<1>1. IInv
  BY InitEstablishesIInv DEF TokenInit
<1>2. ContentsOK
  <2> DEFINE fresh == FreshIndices(store, [c \in Class |-> {}])
  <2>1. store \in Listings /\ objects = Adopt(NoEntries, 1, store, fresh)
    BY DEF TokenInit, Init
  <2>2. ASSUME NEW h \in DOMAIN objects PROVE objects[h] \in DOMAIN Contents
    <3>1. h \notin DOMAIN NoEntries
      BY DEF NoEntries
    <3>2. PICK i \in fresh : objects[h] = store[i]
      BY <2>1, <2>2, <3>1, AdoptedFromListing
    <3>3. QED
      BY <2>1, <3>2, ListedHaveContents
  <2>3. QED
    BY <2>2 DEF ContentsOK
<1>3. QueryOK /\ AnswerOK
  BY DEF TokenInit, QueryOK, AnswerOK, NoAnswer
<1>4. FoundOK
  BY DEF TokenInit, Init, FoundOK, NoEntries
<1>5. QED
  BY <1>1, <1>2, <1>3, <1>4 DEF TInv
-----------------------------------------------------------------------------
(* Every step is a step of the Manager. *)

LEMMA CallsOfManager ==
  ASSUME TInv, OtherCall \/ Poll
  PROVE  SessionCall \/ ObjectCall \/ UNCHANGED vars
<1>1. \A s \in SessionHandle, r \in Requests :
        StartSearch(s, TemplateFor[r]) => ObjectCall
  <2> SUFFICES ASSUME NEW s \in SessionHandle, NEW r \in Requests, StartSearch(s, TemplateFor[r])
               PROVE  ObjectCall
    OBVIOUS
  <2>1. TemplateFor[r] \in Template
    BY TokenAssumption
  <2>2. QED
    BY <2>1 DEF ObjectCall
<1>2. \A s \in SessionHandle : ClearSearch(s) => ObjectCall
  BY DEF ObjectCall
<1>3. \A h \in 1 .. nextHandle : GetAttributes(h) => ObjectCall
  BY DEF ObjectCall
<1>4. \A s \in SessionHandle : \A max \in 1 .. MaxBatch : Search(s, max) => ObjectCall
  <2> SUFFICES ASSUME NEW s \in SessionHandle, NEW max \in 1 .. MaxBatch, Search(s, max)
               PROVE  ObjectCall
    OBVIOUS
  <2>1. max \in 0 .. MaxBatch
    BY ManagerAssumption
  <2>2. QED
    BY <2>1 DEF ObjectCall
<1>5. CASE Poll
  BY <1>1, <1>2, <1>5, TokenAssumption DEF Poll
<1>6. ASSUME NEW flags \in Flags, C_OpenSession(flags) PROVE SessionCall \/ UNCHANGED vars
  BY <1>6 DEF C_OpenSession, SessionCall
<1>7. CASE C_CloseAllSessions
  BY <1>7 DEF C_CloseAllSessions, SessionCall
<1>8. ASSUME NEW s \in SessionHandle \ {Poller}, C_CloseSession(s) \/ C_GetSessionInfo(s)
      PROVE  SessionCall
  BY <1>8 DEF C_CloseSession, C_GetSessionInfo, SessionCall
<1>9. ASSUME NEW s \in SessionHandle \ {Poller},
             \/ \E request \in Requests : C_FindObjectsInit(s, request)
             \/ \E max \in 1 .. MaxBatch : C_FindObjects(s, max)
             \/ C_FindObjectsFinal(s)
      PROVE  ObjectCall
  BY <1>1, <1>2, <1>4, <1>9 DEF C_FindObjectsInit, C_FindObjects, C_FindObjectsFinal
<1>10. ASSUME NEW h \in 1 .. nextHandle, NEW types, QueryAttributes(h, types) PROVE ObjectCall
  BY <1>3, <1>10 DEF QueryAttributes, GetAttributeValue
<1>11. ASSUME NEW extra, FetchAttributes(extra) PROVE ObjectCall
  <2>1. query.handle \in DOMAIN objects
    BY <1>11 DEF FetchAttributes, TInv, QueryOK
  <2>2. DOMAIN objects \subseteq 1 .. (nextHandle - 1) /\ nextHandle \in Nat
    BY DEF TInv, IInv, TableOK, IsMap
  <2>3. query.handle \in 1 .. nextHandle
    BY <2>1, <2>2
  <2>4. QED
    BY <1>3, <1>11, <2>3 DEF FetchAttributes, GetAttributeValue
<1>12. QED
  BY <1>5, <1>6, <1>7, <1>8, <1>9, <1>10, <1>11 DEF OtherCall

LEMMA StepOfManager == TInv /\ [TokenNext]_tokenVars => [Next]_vars
<1>1. ASSUME TInv, TokenNext PROVE [Next]_vars
  <2>1. CASE TimePasses \/ StoreChanges
    BY <2>1 DEF TimePasses, StoreChanges, Next, Environment
  <2>2. CASE Poll \/ OtherCall
    BY <1>1, <2>2, CallsOfManager DEF Next
  <2>3. QED
    BY <1>1, <2>1, <2>2 DEF TokenNext
<1>2. ASSUME UNCHANGED tokenVars PROVE [Next]_vars
  BY <1>2 DEF tokenVars
<1>3. QED
  BY <1>1, <1>2
-----------------------------------------------------------------------------
(* What a step keeps. *)

LEMMA ScanOrNot ==
  ASSUME Environment \/ SessionCall \/ ObjectCall \/ UNCHANGED vars
  PROVE  UNCHANGED objects \/ \E minInterval : MaybeFindNewObjects(minInterval)
<1>1. CASE Environment \/ UNCHANGED vars
  BY <1>1 DEF Environment, Tick, ChangeStore, table, vars
<1>2. CASE SessionCall
  BY <1>2 DEF SessionCall, OpenSession, GetSessionInfo, CloseSession, CloseAllSessions, table
<1>3. CASE ObjectCall
  BY <1>3 DEF ObjectCall, StartSearch, Search, ClearSearch, GetAttributes, table
<1>4. QED
  BY <1>1, <1>2, <1>3

LEMMA StepKeepsContents == TInv /\ [TokenNext]_tokenVars => ContentsOK'
<1> SUFFICES ASSUME TInv, [TokenNext]_tokenVars PROVE ContentsOK'
  OBVIOUS
<1>1. Environment \/ SessionCall \/ ObjectCall \/ UNCHANGED vars
  BY CallsOfManager DEF TokenNext, TimePasses, StoreChanges, Environment, tokenVars
<1>2. CASE UNCHANGED objects
  BY <1>2 DEF TInv, ContentsOK
<1>3. CASE \E minInterval : MaybeFindNewObjects(minInterval)
  BY <1>3, ScanKeepsContents DEF TInv
<1>4. QED
  BY <1>1, <1>2, <1>3, ScanOrNot

\* What a read returns for an attribute.
LEMMA SlotLength ==
  ASSUME NEW o, NEW a, NEW room
  PROVE  Slot(Contents[o], a, room).length = LengthOf(o, a)
BY DEF Slot, LengthOf

LEMMA AttributesAnswered ==
  ASSUME NEW h \in DOMAIN objects, NEW rooms, GetAttributeValue(h, rooms)
  PROVE  LET slots == [a \in DOMAIN rooms |-> Slot(Contents[objects[h]], a, rooms[a])] IN
           /\ answer'.slots = slots
           /\ (\A a \in DOMAIN rooms \cap DOMAIN Contents[objects[h]] :
                 rooms[a] = Null \/ slots[a].copied # {}) => answer'.rv = "OK"
<1>1. result' = "ok"
  BY DEF GetAttributeValue, GetAttributes
<1> DEFINE slots == [a \in DOMAIN rooms |-> Slot(Contents[objects[h]], a, rooms[a])]
           short == \E a \in DOMAIN rooms \cap DOMAIN Contents[objects[h]] :
                      rooms[a] # Null /\ slots[a].copied = {}
<1>2. answer' = [rv |-> IF short THEN "BUFFER_TOO_SMALL" ELSE "OK", slots |-> slots]
  BY <1>1 DEF GetAttributeValue, Says
<1>3. (\A a \in DOMAIN rooms \cap DOMAIN Contents[objects[h]] :
         rooms[a] = Null \/ slots[a].copied # {}) => ~short
  OBVIOUS
<1> HIDE DEF slots, short
<1>4. answer'.slots = slots /\ (~short => answer'.rv = "OK")
  BY <1>2
<1>5. QED
  BY <1>3, <1>4 DEF slots

LEMMA StepKeepsQuery == TInv /\ [TokenNext]_tokenVars => QueryOK'
<1> SUFFICES ASSUME TInv, [TokenNext]_tokenVars PROVE QueryOK'
  OBVIOUS
<1>1. CASE UNCHANGED query
  <2>1. Extended
    BY StepOfManager, StepKeepsIInv DEF TInv
  <2>2. QED
    BY <1>1, <2>1 DEF TInv, QueryOK, Extended, LengthOf
<1>2. ASSUME NEW h \in 1 .. nextHandle, NEW types \in Reads, QueryAttributes(h, types)
      PROVE  QueryOK'
  <2>1. PICK rooms \in [types -> {Null} \cup Room] :
          /\ GetAttributeValue(h, rooms)
          /\ query' = IF result' = "ok" THEN [handle |-> h, slots |-> answer'.slots] ELSE NoQuery
    BY <1>2 DEF QueryAttributes
  <2>2. UNCHANGED objects /\ (result' = "ok" => h \in DOMAIN objects)
    BY <2>1 DEF GetAttributeValue, GetAttributes, table
  <2>3. CASE result' = "ok"
    <3>1. answer'.slots = [a \in DOMAIN rooms |-> Slot(Contents[objects[h]], a, rooms[a])]
      BY <2>1, <2>3 DEF GetAttributeValue, Says
    <3>2. query'.handle = h /\ query'.slots = answer'.slots
      BY <2>1, <2>3
    <3>3. ASSUME NEW a \in DOMAIN query'.slots
          PROVE  query'.slots[a].length = LengthOf(objects[h], a)
      <4>1. query'.slots[a] = Slot(Contents[objects[h]], a, rooms[a])
        BY <3>1, <3>2
      <4>2. QED
        BY <4>1, SlotLength
    <3>4. QED
      BY <2>2, <2>3, <3>2, <3>3 DEF QueryOK, LengthOf
  <2>4. CASE result' # "ok"
    BY <2>1, <2>4 DEF QueryOK
  <2>5. QED
    BY <2>3, <2>4
<1>3. UNCHANGED query \/ \E h \in 1 .. nextHandle, types \in Reads : QueryAttributes(h, types)
  BY DEF TokenNext, TimePasses, StoreChanges, Poll, OtherCall, tokenVars, C_OpenSession,
         C_CloseAllSessions, C_CloseSession, C_GetSessionInfo, C_FindObjectsInit, C_FindObjects,
         C_FindObjectsFinal, FetchAttributes
<1>4. QED
  BY <1>1, <1>2, <1>3

-----------------------------------------------------------------------------
(* Searches. *)

\* What is done with the poller's own search, or with none, is nothing to the others.
LEMMA OtherSearchesUntouched ==
  ASSUME TInv, UNCHANGED <<found, expected>>,
         DOMAIN searches' \ {Poller} = DOMAIN searches \ {Poller},
         \A s \in DOMAIN searches \ {Poller} : searches'[s] = searches[s]
  PROVE  FoundOK'
BY DEF TInv, FoundOK

LEMMA SearchBegun ==
  ASSUME TInv, NEW s \in SessionHandle \ {Poller}, NEW r \in Requests, C_FindObjectsInit(s, r),
         ContentsOK'
  PROVE  FoundOK'
<1>1. CASE result' = "ok"
  <2>1. searches' = Put(searches, s, Meant(objects', r))
    <3>1. /\ searches' = Put(searches, s,
                 IF TemplateFor[r].supported THEN MatchingHandles(objects', TemplateFor[r]) ELSE {})
      BY <1>1 DEF C_FindObjectsInit, StartSearch
    <3>2. \A h \in DOMAIN objects' : objects'[h] \in DOMAIN Contents
      BY DEF ContentsOK
    <3>3. QED
      BY <3>1, <3>2, TemplateMeans
  <2>2. found' = Put(found, s, {}) /\ expected' = Put(expected, s, Meant(objects', r))
    BY <1>1 DEF C_FindObjectsInit
  <2>3. QED
    BY <2>1, <2>2 DEF TInv, FoundOK, Put
<1>2. CASE result' # "ok"
  <2>1. UNCHANGED <<searches, found, expected>>
    BY <1>2 DEF C_FindObjectsInit, StartSearch, work
  <2>2. QED
    BY <2>1, OtherSearchesUntouched
<1>3. QED
  BY <1>1, <1>2

LEMMA SearchContinued ==
  ASSUME TInv, NEW s \in SessionHandle \ {Poller}, NEW max, C_FindObjects(s, max)
  PROVE  FoundOK' /\ AnswerOK'
<1>1. CASE result' = "ok"
  <2> DEFINE handles == searches[s] \ searches'[s]
  <2>1. s \in DOMAIN searches /\ s \in DOMAIN found /\ DOMAIN searches' = DOMAIN searches
    BY <1>1 DEF C_FindObjects, Search, TInv, FoundOK, Put
  <2>2. searches'[s] \subseteq searches[s]
    BY <1>1, <2>1 DEF C_FindObjects, Search, Put
  <2>3. \A x \in DOMAIN searches \ {s} : searches'[x] = searches[x]
    BY <1>1 DEF C_FindObjects, Search, Put
  <2>4. /\ found' = Put(found, s, found[s] \cup handles)
        /\ answer' = [rv |-> "OK", handles |-> handles, fresh |-> handles \cap found[s] = {}]
        /\ UNCHANGED expected
    BY <1>1 DEF C_FindObjects, Says
  <2>5. found[s] \cup searches[s] = expected[s] /\ found[s] \cap searches[s] = {}
    BY <2>1 DEF TInv, FoundOK
  <2>6. AnswerOK'
    <3>1. handles \cap found[s] = {}
      BY <2>5
    <3>2. answer'.fresh = TRUE
      BY <2>4, <3>1
    <3>3. QED
      BY <3>2 DEF AnswerOK
  <2>7. (found[s] \cup handles) \cup searches'[s] = expected[s]
    BY <2>2, <2>5
  <2>8. (found[s] \cup handles) \cap searches'[s] = {}
    BY <2>2, <2>5
  <2>9. FoundOK'
    <3>1. DOMAIN found' = DOMAIN found /\ found'[s] = found[s] \cup handles
      BY <2>1, <2>4 DEF Put
    <3>2. \A x \in DOMAIN found \ {s} : found'[x] = found[x]
      BY <2>4 DEF Put
    <3> HIDE DEF handles
    <3>3. QED
      BY <2>1, <2>3, <2>4, <2>7, <2>8, <3>1, <3>2 DEF TInv, FoundOK
  <2>10. QED
    BY <2>6, <2>9
<1>2. CASE result' # "ok"
  <2>1. UNCHANGED <<searches, found, expected>> /\ answer' = [rv |-> "ARGUMENTS_BAD"]
    BY <1>2 DEF C_FindObjects, Search, work, Says
  <2>2. QED
    BY <2>1, OtherSearchesUntouched DEF AnswerOK
<1>3. QED
  BY <1>1, <1>2

LEMMA SearchEnded ==
  ASSUME TInv, NEW s,
         searches' = Drop(searches, s), found' = Drop(found, s), expected' = Drop(expected, s)
  PROVE  FoundOK'
BY DEF TInv, FoundOK, Drop
LEMMA CallKeepsFound == TInv /\ ContentsOK' /\ (Poll \/ OtherCall) => FoundOK' /\ AnswerOK'
<1> SUFFICES ASSUME TInv, ContentsOK', Poll \/ OtherCall PROVE FoundOK' /\ AnswerOK'
  OBVIOUS
<1>1. CASE Poll
  <2>1. UNCHANGED <<found, expected, answer>>
    BY <1>1 DEF Poll
  <2>2. /\ DOMAIN searches' \ {Poller} = DOMAIN searches \ {Poller}
        /\ \A s \in DOMAIN searches \ {Poller} : searches'[s] = searches[s]
    BY <1>1 DEF Poll, StartSearch, ClearSearch, Put, Drop
  <2>3. QED
    BY <2>1, <2>2, OtherSearchesUntouched DEF TInv, AnswerOK
<1>2. ASSUME NEW flags \in Flags, C_OpenSession(flags) PROVE FoundOK' /\ AnswerOK'
  <2>1. UNCHANGED <<searches, found, expected>>
    BY <1>2 DEF C_OpenSession, OpenSession, vars
  <2>2. AnswerOK'
    BY <1>2 DEF C_OpenSession, Says, AnswerOK
  <2>3. QED
    BY <2>1, <2>2, OtherSearchesUntouched
<1>3. CASE C_CloseAllSessions
  <2>1. /\ searches' = NoEntries /\ found' = NoEntries /\ expected' = NoEntries
        /\ AnswerOK'
    BY <1>3 DEF C_CloseAllSessions, CloseAllSessions, Rv, Says, AnswerOK
  <2>2. QED
    BY <2>1 DEF FoundOK, NoEntries
<1>4. ASSUME NEW s \in SessionHandle \ {Poller}, C_CloseSession(s) PROVE FoundOK' /\ AnswerOK'
  <2>1. AnswerOK'
    BY <1>4 DEF C_CloseSession, Rv, Says, AnswerOK
  <2>2. CASE result' = "ok"
    <3>1. searches' = Drop(searches, s) /\ found' = Drop(found, s) /\ expected' = Drop(expected, s)
      BY <1>4, <2>2 DEF C_CloseSession, CloseSession
    <3>2. QED
      BY <2>1, <3>1, SearchEnded
  <2>3. CASE result' # "ok"
    <3>1. UNCHANGED <<searches, found, expected>>
      BY <1>4, <2>3 DEF C_CloseSession, CloseSession, work
    <3>2. QED
      BY <2>1, <3>1, OtherSearchesUntouched
  <2>4. QED
    BY <2>2, <2>3
<1>5. ASSUME NEW s \in SessionHandle \ {Poller}, C_GetSessionInfo(s) PROVE FoundOK' /\ AnswerOK'
  <2>1. UNCHANGED <<searches, found, expected>>
    BY <1>5 DEF C_GetSessionInfo, GetSessionInfo, work
  <2>2. AnswerOK'
    BY <1>5 DEF C_GetSessionInfo, Says, AnswerOK
  <2>3. QED
    BY <2>1, <2>2, OtherSearchesUntouched
<1>6. ASSUME NEW s \in SessionHandle \ {Poller}, NEW r \in Requests, C_FindObjectsInit(s, r)
      PROVE  FoundOK' /\ AnswerOK'
  <2>1. AnswerOK'
    BY <1>6 DEF C_FindObjectsInit, Rv, Says, AnswerOK
  <2>2. QED
    BY <1>6, <2>1, SearchBegun
<1>7. ASSUME NEW s \in SessionHandle \ {Poller}, C_FindObjectsFinal(s) PROVE FoundOK' /\ AnswerOK'
  <2>1. /\ searches' = Drop(searches, s) /\ found' = Drop(found, s) /\ expected' = Drop(expected, s)
        /\ AnswerOK'
    BY <1>7 DEF C_FindObjectsFinal, ClearSearch, Rv, Says, AnswerOK
  <2>2. QED
    BY <2>1, SearchEnded
<1>8. ASSUME NEW h, NEW rooms, GetAttributeValue(h, rooms) PROVE FoundOK' /\ AnswerOK'
  <2>1. UNCHANGED <<searches, found, expected>>
    BY <1>8 DEF GetAttributeValue, GetAttributes, work
  <2>2. AnswerOK'
    BY <1>8 DEF GetAttributeValue, Says, AnswerOK
  <2>3. QED
    BY <2>1, <2>2, OtherSearchesUntouched
<1>9. QED
  BY <1>1, <1>2, <1>3, <1>4, <1>5, <1>6, <1>7, <1>8, SearchContinued
     DEF OtherCall, QueryAttributes, FetchAttributes

LEMMA StepKeepsTInv == TInv /\ [TokenNext]_tokenVars => TInv'
<1> SUFFICES ASSUME TInv, [TokenNext]_tokenVars PROVE TInv'
  OBVIOUS
<1>1. IInv'
  BY StepOfManager, StepKeepsIInv DEF TInv
<1>2. ContentsOK' /\ QueryOK'
  BY StepKeepsContents, StepKeepsQuery
<1>3. CASE Poll \/ OtherCall
  BY <1>1, <1>2, <1>3, CallKeepsFound DEF TInv
<1>4. CASE TimePasses \/ StoreChanges \/ UNCHANGED tokenVars
  <2>1. UNCHANGED <<searches, found, expected, answer>>
    BY <1>4 DEF TimePasses, StoreChanges, Tick, ChangeStore, work, tokenVars, vars
  <2>2. FoundOK' /\ AnswerOK'
    BY <2>1, OtherSearchesUntouched DEF TInv, AnswerOK
  <2>3. QED
    BY <1>1, <1>2, <2>2 DEF TInv
<1>5. QED
  BY <1>3, <1>4 DEF TokenNext

-----------------------------------------------------------------------------
(* The theorems. *)

LEMMA TokenInvariant == TokenSpec => []TInv
<1>1. TokenInit => TInv
  BY TokenInitEstablishes
<1>2. TInv /\ [TokenNext]_tokenVars => TInv'
  BY StepKeepsTInv
<1>3. QED
  BY <1>1, <1>2, PTL DEF TokenSpec

\* The search and attribute functions use the Manager as its own specification says: whatever
\* ManagerProofs shows of it holds under them.
THEOREM TokenImplementsManager == TokenSpec => Spec
<1>1. TokenInit => Init
  BY DEF TokenInit
<1>2. TInv /\ [TokenNext]_tokenVars => [Next]_vars
  BY StepOfManager
<1>3. QED
  BY <1>1, <1>2, TokenInvariant, PTL DEF TokenSpec, Spec

\* Whatever the objects, the templates and the batches: what C_FindObjects has returned and what
\* is still to come is what the template meant when the search began, and none comes twice.
THEOREM SearchesEnumerate == TokenSpec => []SearchEnumerates
<1>1. TInv => SearchEnumerates
  BY DEF TInv, FoundOK, AnswerOK, SearchEnumerates
<1>2. QED
  BY <1>1, TokenInvariant, PTL

\* Whatever the attributes and their lengths, and whatever is scanned between the two calls of
\* C_GetAttributeValue: the buffers the first asked for are enough for the second.
THEOREM AttributesAgree == TokenSpec => AttributesStay
<1> DEFINE Agree ==
      \A extra \in {0, 1} : FetchAttributes(extra) =>
        /\ answer'.rv = "OK"
        /\ \A a \in DOMAIN query.slots :
             /\ answer'.slots[a].length = query.slots[a].length
             /\ query.slots[a].length # Unavailable => answer'.slots[a].copied # {}
<1>1. TInv => Agree
  <2> SUFFICES ASSUME TInv, NEW extra \in {0, 1}, FetchAttributes(extra)
               PROVE  /\ answer'.rv = "OK"
                      /\ \A a \in DOMAIN query.slots :
                           /\ answer'.slots[a].length = query.slots[a].length
                           /\ query.slots[a].length # Unavailable
                                => answer'.slots[a].copied # {}
    OBVIOUS
  <2> DEFINE contents == Contents[objects[query.handle]]
             rooms == [a \in DOMAIN query.slots |->
                         IF query.slots[a].length = Unavailable THEN Null
                         ELSE query.slots[a].length + extra]
             slots == [a \in DOMAIN rooms |-> Slot(contents, a, rooms[a])]
  <2>1. query # NoQuery /\ GetAttributeValue(query.handle, rooms)
    BY DEF FetchAttributes
  <2>2. /\ query.handle \in DOMAIN objects /\ objects[query.handle] \in DOMAIN Contents
        /\ \A a \in DOMAIN query.slots :
             query.slots[a].length = LengthOf(objects[query.handle], a)
    BY <2>1 DEF TInv, QueryOK, ContentsOK
  <2>3. ASSUME NEW a \in DOMAIN query.slots
        PROVE  /\ slots[a].length = query.slots[a].length
               /\ a \in DOMAIN contents =>
                    slots[a].copied = {contents[a]} /\ rooms[a] # Null
    <3>1. slots[a] = Slot(contents, a, rooms[a])
      OBVIOUS
    <3>2. slots[a].length = query.slots[a].length
      <4>1. Slot(contents, a, rooms[a]).length = LengthOf(objects[query.handle], a)
        BY SlotLength
      <4> HIDE DEF contents, rooms, slots
      <4>2. QED
        BY <2>2, <3>1, <4>1
    <3>3. ASSUME a \in DOMAIN contents
          PROVE  slots[a].copied = {contents[a]} /\ rooms[a] # Null
      <4>1. query.slots[a].length = Length[contents[a]] /\ Length[contents[a]] \in Nat
        BY <2>2, <3>3, TokenAssumption DEF LengthOf
      <4>2. rooms[a] = Length[contents[a]] + extra
        BY <4>1 DEF Unavailable
      <4>3. rooms[a] # Null /\ rooms[a] >= Length[contents[a]]
        BY <4>1, <4>2 DEF Null
      <4>4. QED
        BY <3>1, <3>3, <4>3 DEF Slot
    <3>4. QED
      BY <3>2, <3>3
  <2>4. ASSUME NEW a \in DOMAIN rooms \cap DOMAIN contents PROVE slots[a].copied # {}
    <3>1. a \in DOMAIN query.slots
      OBVIOUS
    <3> HIDE DEF slots, rooms, contents
    <3>2. QED
      BY <2>3, <3>1
  <2>5. /\ answer'.slots = slots
        /\ (\A a \in DOMAIN rooms \cap DOMAIN contents :
              rooms[a] = Null \/ slots[a].copied # {}) => answer'.rv = "OK"
    <3> HIDE DEF rooms
    <3>1. QED
      BY <2>1, <2>2, AttributesAnswered
  <2> HIDE DEF slots, rooms, contents
  <2>6. answer'.rv = "OK"
    BY <2>4, <2>5
  <2>7. \A a \in DOMAIN query.slots :
          query.slots[a].length # Unavailable => slots[a].copied # {}
    <3>1. \A a \in DOMAIN query.slots :
            query.slots[a].length # Unavailable => a \in DOMAIN contents
      BY <2>2 DEF LengthOf, contents
    <3>2. QED
      BY <2>3, <3>1
  <2>8. QED
    BY <2>3, <2>5, <2>6, <2>7
<1>2. TInv /\ [TokenNext]_tokenVars => [Agree]_tokenVars
  BY <1>1
<1>3. QED
  BY <1>2, TokenInvariant, PTL DEF TokenSpec, AttributesStay
-----------------------------------------------------------------------------
(* A miss is not an artefact of the throttle. *)

\* Whatever the template and the listings: a search that comes up empty was made against a table
\* at most SearchInterval old, or nothing in the store matches it.
THEOREM MissesAreFresh == TokenSpec => MissIsFresh
<1> DEFINE Fresh ==
      \A s \in SessionHandle, t \in Template :
        (/\ s \in DOMAIN searches' \ DOMAIN searches
         /\ searches'[s] = {} /\ t.supported /\ StartSearch(s, t))
        => \/ age < SearchInterval
           \/ \A i \in DOMAIN store : store[i] \notin t.matches
<1>1. TInv => Fresh
  <2> SUFFICES ASSUME TInv, NEW s \in SessionHandle, NEW t \in Template,
                      s \in DOMAIN searches' \ DOMAIN searches,
                      searches'[s] = {}, t.supported, StartSearch(s, t),
                      ~(age < SearchInterval),
                      NEW i \in DOMAIN store, store[i] \in t.matches
               PROVE  FALSE
    OBVIOUS
  <2>1. MatchingHandles(objects', t) = {}
    BY DEF StartSearch, Put
  <2>2. MatchingHandles(objects, t) = {}
    BY <2>1 DEF StartSearch, MatchingHandles, table
  <2>3. FindNewObjects
    BY <2>2 DEF StartSearch, MaybeFindNewObjects
  <2>4. store \in Seq(Object) /\ TableOK(objects, ids, nextHandle)
    BY ManagerAssumption DEF TInv, IInv, EnvOK
  <2>5. \E h \in DOMAIN objects' : objects'[h] = store[i]
    BY <2>3, <2>4, ScanTakesAll DEF FindNewObjects
  <2>6. QED
    BY <2>1, <2>5 DEF MatchingHandles
<1>2. TInv => [Fresh]_vars
  BY <1>1
<1>3. QED
  BY <1>2, TokenInvariant, PTL DEF MissIsFresh
=============================================================================
