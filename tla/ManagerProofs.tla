---------------------------- MODULE ManagerProofs ----------------------------
(***************************************************************************)
(* What Manager keeps for every store, every template, every bound and     *)
(* every number of calls.                                                  *)
(***************************************************************************)
EXTENDS Manager, FiniteSetTheorems, SequenceTheorems, WellFoundedInduction, TLAPS

-----------------------------------------------------------------------------
(* The object table. *)

\* The object table and the identifier sets agree and number each object once.
TableOK(objs, known, next) ==
  /\ next \in Nat \ {0}
  /\ IsMap(objs, 1 .. (next - 1), Object)
  /\ known \in [Class -> SUBSET Id]
  /\ \A g, h \in DOMAIN objs : objs[g] = objs[h] => g = h
  /\ \A c \in Class, x \in Id :
       x \in known[c] <=> \E h \in DOMAIN objs : objs[h] = [class |-> c, id |-> x]

\* Numbering the fresh positions in listing order gives each a handle of its own, and
\* all of them handles that get_next_handle has not given out before.
LEMMA HandleNumbering ==
  ASSUME NEW len \in Nat, NEW fresh \in SUBSET (1 .. len), NEW next \in Nat \ {0}
  PROVE  /\ Cardinality(fresh) \in Nat
         /\ \A i \in fresh : HandleOf(i, fresh, next) \in next .. (next + Cardinality(fresh) - 1)
         /\ \A i, j \in fresh : HandleOf(i, fresh, next) = HandleOf(j, fresh, next) => i = j
<1> DEFINE Below(i) == {j \in fresh : j < i}
<1>0. \A i \in fresh : i \in Nat
  OBVIOUS
<1>1. IsFiniteSet(fresh) /\ Cardinality(fresh) \in Nat
  <2>1. IsFiniteSet(1 .. len)
    BY FS_Interval
  <2>2. IsFiniteSet(fresh)
    BY <2>1, FS_Subset
  <2>3. QED
    BY <2>2, FS_CardinalityType
<1>2. \A i \in fresh : IsFiniteSet(Below(i)) /\ Cardinality(Below(i)) \in Nat
  <2>1. ASSUME NEW i \in fresh PROVE IsFiniteSet(Below(i)) /\ Cardinality(Below(i)) \in Nat
    <3>1. Below(i) \in SUBSET fresh
      OBVIOUS
    <3>2. IsFiniteSet(Below(i))
      BY <1>1, <3>1, FS_Subset
    <3>3. QED
      BY <3>2, FS_CardinalityType
  <2>2. QED
    BY <2>1
<1>3. \A i \in fresh : Cardinality(Below(i)) < Cardinality(fresh)
  <2>1. ASSUME NEW i \in fresh PROVE Cardinality(Below(i)) < Cardinality(fresh)
    <3>1. Below(i) \in SUBSET fresh /\ Below(i) # fresh
      OBVIOUS
    <3>2. Cardinality(Below(i)) <= Cardinality(fresh)
      BY <1>1, <3>1, FS_Subset
    <3>3. Cardinality(Below(i)) # Cardinality(fresh)
      BY <1>1, <3>1, FS_Subset
    <3>4. QED
      BY <1>1, <1>2, <3>2, <3>3
  <2>2. QED
    BY <2>1
<1>4. ASSUME NEW i \in fresh, NEW j \in fresh, i < j
      PROVE  Cardinality(Below(i)) < Cardinality(Below(j))
  <2>1. Below(i) \in SUBSET Below(j) /\ i \in Below(j) \ Below(i)
    <3>1. \A k \in fresh : k < i => k < j
      BY <1>0, <1>4
    <3>2. ~(i < i)
      BY <1>0
    <3>3. QED
      BY <1>4, <3>1, <3>2
  <2>2. Cardinality(Below(i)) <= Cardinality(Below(j))
    BY <1>2, <2>1, FS_Subset
  <2>3. Cardinality(Below(i)) # Cardinality(Below(j))
    BY <1>2, <2>1, FS_Subset
  <2>4. QED
    BY <1>2, <2>2, <2>3
<1>5. \A i \in fresh : HandleOf(i, fresh, next) = next + Cardinality(Below(i))
  BY DEF HandleOf
<1>6. \A i \in fresh : HandleOf(i, fresh, next) \in next .. (next + Cardinality(fresh) - 1)
  <2>1. ASSUME NEW i \in fresh
        PROVE  HandleOf(i, fresh, next) \in next .. (next + Cardinality(fresh) - 1)
    <3> DEFINE b == Cardinality(Below(i))
               n == Cardinality(fresh)
    <3>1. b \in Nat /\ n \in Nat /\ b < n /\ HandleOf(i, fresh, next) = next + b
      BY <1>1, <1>2, <1>3, <1>5
    <3> HIDE DEF b
    <3>2. next + b \in next .. (next + n - 1)
      <4> HIDE DEF n
      <4> QED
        BY <3>1
    <3>3. QED
      BY <3>1, <3>2
  <2>2. QED
    BY <2>1
<1>7. ASSUME NEW i \in fresh, NEW j \in fresh, HandleOf(i, fresh, next) = HandleOf(j, fresh, next)
      PROVE  i = j
  <2>1. Cardinality(Below(i)) = Cardinality(Below(j))
    BY <1>2, <1>5, <1>7
  <2>2. ~(i < j) /\ ~(j < i)
    BY <1>2, <1>4, <2>1
  <2>3. QED
    BY <2>2
<1>8. QED
  BY <1>1, <1>6, <1>7

\* A scan (the loop of maybe_find_new_objects) keeps every handle's object, and keeps the
\* table consistent: for any table and any listing, with repetitions or without.
LEMMA AdoptKeepsTable ==
  ASSUME NEW objs, NEW known, NEW next, TableOK(objs, known, next),
         NEW listing \in Seq(Object)
  PROVE  LET fresh == FreshIndices(listing, known)
             after == Adopt(objs, next, listing, fresh)
         IN  /\ TableOK(after, Learn(known, listing, fresh), next + Cardinality(fresh))
             /\ \A h \in DOMAIN objs : h \in DOMAIN after /\ after[h] = objs[h]
<1> DEFINE fresh == FreshIndices(listing, known)
           after == Adopt(objs, next, listing, fresh)
           H(i) == HandleOf(i, fresh, next)
<1>1. fresh \in SUBSET (1 .. Len(listing)) /\ Len(listing) \in Nat
  BY DEF FreshIndices
<1>2. /\ Cardinality(fresh) \in Nat
      /\ \A i \in fresh : H(i) \in next .. (next + Cardinality(fresh) - 1)
      /\ \A i, j \in fresh : H(i) = H(j) => i = j
  BY <1>1, HandleNumbering DEF TableOK
<1>3. \A i \in DOMAIN listing : listing[i] \in Object
  OBVIOUS
<1>4. DOMAIN after = DOMAIN objs \cup {H(i) : i \in fresh}
  BY DEF Adopt
<1>5. \A i \in fresh : H(i) \notin DOMAIN objs
  BY <1>2 DEF TableOK, IsMap
<1>6. \A h \in DOMAIN objs : h \in DOMAIN after /\ after[h] = objs[h]
  BY DEF Adopt
<1>7. ASSUME NEW i \in fresh PROVE H(i) \in DOMAIN after /\ after[H(i)] = listing[i]
  <2>1. (CHOOSE j \in fresh : H(j) = H(i)) = i
    BY <1>2
  <2>2. QED
    BY <1>4, <1>5, <2>1 DEF Adopt
<1>8. ASSUME NEW h \in DOMAIN after \ DOMAIN objs
      PROVE  \E i \in fresh : h = H(i) /\ after[h] = listing[i]
  BY <1>4, <1>7
<1>9. IsMap(after, 1 .. (next + Cardinality(fresh) - 1), Object)
  <2>1. DOMAIN after \subseteq 1 .. (next + Cardinality(fresh) - 1)
    BY <1>2, <1>4 DEF TableOK, IsMap
  <2>2. \A h \in DOMAIN after : after[h] \in Object
    BY <1>1, <1>3, <1>6, <1>8 DEF TableOK, IsMap
  <2>3. after = [h \in DOMAIN after |-> after[h]]
    BY DEF Adopt
  <2>4. QED
    BY <2>1, <2>2, <2>3 DEF IsMap
<1>10. \A i \in fresh : /\ listing[i].id \notin known[listing[i].class]
                       /\ \A j \in 1 .. (i - 1) : listing[j] # listing[i]
  BY DEF FreshIndices
<1>11. ASSUME NEW o \in Object
       PROVE  o.class \in Class /\ o.id \in Id /\ o = [class |-> o.class, id |-> o.id]
  BY DEF Object
<1>12. ASSUME NEW g \in DOMAIN objs, NEW i \in fresh PROVE objs[g] # listing[i]
  <2>1. objs[g] \in Object
    BY DEF TableOK, IsMap
  <2>2. objs[g].id \in known[objs[g].class]
    BY <1>11, <2>1 DEF TableOK
  <2>3. QED
    BY <1>10, <2>2
<1>13. ASSUME NEW g \in DOMAIN after, NEW h \in DOMAIN after, after[g] = after[h]
       PROVE  g = h
  <2>1. CASE g \in DOMAIN objs /\ h \in DOMAIN objs
    BY <1>6, <1>13, <2>1 DEF TableOK
  <2>2. CASE g \in DOMAIN objs /\ h \notin DOMAIN objs
    BY <1>6, <1>8, <1>12, <1>13, <2>2
  <2>3. CASE g \notin DOMAIN objs /\ h \in DOMAIN objs
    BY <1>6, <1>8, <1>12, <1>13, <2>3
  <2>4. CASE g \notin DOMAIN objs /\ h \notin DOMAIN objs
    <3>1. PICK i \in fresh : g = H(i) /\ after[g] = listing[i]
      BY <1>8, <2>4
    <3>2. PICK j \in fresh : h = H(j) /\ after[h] = listing[j]
      BY <1>8, <2>4
    <3>3. listing[i] = listing[j]
      BY <1>13, <3>1, <3>2
    <3>4. ~(i < j) /\ ~(j < i)
      BY <1>1, <1>10, <3>3
    <3>5. i = j
      BY <1>1, <3>4
    <3>6. QED
      BY <3>1, <3>2, <3>5
  <2>5. QED
    BY <2>1, <2>2, <2>3, <2>4
<1>14. Learn(known, listing, fresh) \in [Class -> SUBSET Id]
  BY <1>1, <1>3, <1>11 DEF Learn, TableOK
<1>15. ASSUME NEW c \in Class, NEW x \in Id
       PROVE  x \in Learn(known, listing, fresh)[c]
              <=> \E h \in DOMAIN after : after[h] = [class |-> c, id |-> x]
  <2>1. x \in Learn(known, listing, fresh)[c]
        <=> x \in known[c] \/ \E i \in fresh : listing[i].class = c /\ listing[i].id = x
    BY DEF Learn
  <2>2. ASSUME NEW i \in fresh
        PROVE  (listing[i].class = c /\ listing[i].id = x)
               <=> listing[i] = [class |-> c, id |-> x]
    BY <1>1, <1>3, <1>11
  <2>3. (\E h \in DOMAIN after : after[h] = [class |-> c, id |-> x])
        <=> \/ \E h \in DOMAIN objs : objs[h] = [class |-> c, id |-> x]
            \/ \E i \in fresh : listing[i] = [class |-> c, id |-> x]
    BY <1>6, <1>7, <1>8
  <2>4. QED
    BY <2>1, <2>2, <2>3 DEF TableOK
<1>16. TableOK(after, Learn(known, listing, fresh), next + Cardinality(fresh))
  BY <1>2, <1>9, <1>13, <1>14, <1>15 DEF TableOK
<1>17. QED
  BY <1>6, <1>16

-----------------------------------------------------------------------------
(* The inductive invariant. *)

EnvOK == store \in Listings /\ age \in 0 .. SessionInterval /\ result \in Result

\* Session numbers are handed out in ascending order.
SessionsOK ==
  /\ nextSession \in 1 .. (MaxSession + 1)
  /\ IsMap(sessions, SessionHandle, Flags)
  /\ \A s \in DOMAIN sessions : s < nextSession

SearchesOK == IsMap(searches, SessionHandle, SUBSET Nat) /\ SearchesResolve

OpOK(k, op) == op \in Op /\ Resolves(k, op.key) /\ Len(op.buffer) <= MaxTotal

OpsOK ==
  /\ DOMAIN ops = OpKind
  /\ \A k \in OpKind : /\ IsMap(ops[k], SessionHandle, Op)
                       /\ \A s \in DOMAIN ops[k] : OpOK(k, ops[k][s])

\* What every call keeps: the table is sound, and whatever is pending points into it.
IInv == EnvOK /\ TableOK(objects, ids, nextHandle) /\ SessionsOK /\ SearchesOK /\ OpsOK

\* A handle keeps its object.
Extended == \A h \in DOMAIN objects : h \in DOMAIN objects' /\ objects'[h] = objects[h]

LEMMA PutKeepsMap ==
  ASSUME NEW D, NEW R, NEW f, IsMap(f, D, R), NEW k \in D, NEW v \in R
  PROVE  IsMap(Put(f, k, v), D, R)
BY DEF IsMap, Put

LEMMA DropKeepsMap ==
  ASSUME NEW D, NEW R, NEW f, IsMap(f, D, R), NEW k
  PROVE  /\ IsMap(Drop(f, k), D, R)
         /\ \A x \in DOMAIN Drop(f, k) : x \in DOMAIN f \ {k} /\ Drop(f, k)[x] = f[x]
BY DEF IsMap, Drop

\* The invariant's parts give back the properties the model checker evaluates.
LEMMA InvariantGivesProperties ==
  IInv => TypeOK /\ OneHandlePerObject /\ OperationsResolve /\ SearchesResolve /\ BuffersBounded
BY DEF IInv, EnvOK, TableOK, SessionsOK, SearchesOK, OpsOK, OpOK,
       TypeOK, OneHandlePerObject, OperationsResolve, BuffersBounded

\* Manager::new() numbers the first listing from 1.
LEMMA InitEstablishesIInv == Init => IInv
<1> SUFFICES ASSUME Init PROVE IInv
  OBVIOUS
<1> USE ManagerAssumption
<1> DEFINE none == [c \in Class |-> {}]
<1>1. TableOK(NoEntries, none, 1)
  BY DEF TableOK, NoEntries, IsMap
<1>2. store \in Seq(Object)
  BY DEF Init
<1>3. TableOK(objects, ids, nextHandle)
  BY <1>1, <1>2, AdoptKeepsTable DEF Init
<1>4. EnvOK
  BY DEF Init, EnvOK, Result
<1>5. SessionsOK /\ SearchesOK /\ OpsOK
  BY DEF Init, SessionsOK, SearchesOK, OpsOK, NoEntries, IsMap, SearchesResolve
<1>6. QED
  BY <1>3, <1>4, <1>5 DEF IInv

-----------------------------------------------------------------------------
(* Steps on the table, and what they leave to the pending work. *)

\* A scan, or a scan that the throttle skips, keeps the table and every handle in it.
LEMMA ScanKeepsTable ==
  ASSUME IInv, NEW minInterval, MaybeFindNewObjects(minInterval)
  PROVE  /\ TableOK(objects', ids', nextHandle') /\ age' \in 0 .. SessionInterval
         /\ Extended
<1> USE ManagerAssumption
<1>1. CASE FindNewObjects
  <2>1. store \in Seq(Object) /\ TableOK(objects, ids, nextHandle)
    BY DEF IInv, EnvOK
  <2>2. QED
    BY <1>1, <2>1, AdoptKeepsTable DEF FindNewObjects, Extended
<1>2. CASE UNCHANGED table
  BY <1>2 DEF table, IInv, EnvOK, Extended
<1>3. QED
  BY <1>1, <1>2 DEF MaybeFindNewObjects

\* Pending work that resolves still does when handles keep their objects.
LEMMA ExtensionKeepsWork ==
  ASSUME IInv, Extended
  PROVE  /\ \A k \in OpKind, h \in Nat : Resolves(k, h) => Resolves(k, h)'
         /\ ops' = ops => OpsOK'
         /\ searches' = searches => SearchesOK'
         /\ \A s \in DOMAIN searches : searches[s] \subseteq DOMAIN objects'
<1>1. \A k \in OpKind, h \in Nat : Resolves(k, h) => Resolves(k, h)'
  BY DEF Extended, Resolves
<1>2. ops' = ops => OpsOK'
  BY <1>1 DEF IInv, OpsOK, OpOK, Op, IsMap
<1>3. \A s \in DOMAIN searches : searches[s] \subseteq DOMAIN objects'
  BY DEF IInv, SearchesOK, SearchesResolve, Extended
<1>4. searches' = searches => SearchesOK'
  BY <1>3 DEF IInv, SearchesOK, SearchesResolve
<1>5. QED
  BY <1>1, <1>2, <1>3, <1>4

\* A call that leaves the table alone leaves the rest of the invariant to its own parts.
LEMMA TableUnchanged ==
  ASSUME IInv, UNCHANGED <<store, table>>, result' \in Result
  PROVE  EnvOK' /\ TableOK(objects', ids', nextHandle') /\ Extended
BY DEF IInv, EnvOK, table, Extended

LEMMA NothingChanged ==
  ASSUME IInv, UNCHANGED <<store, work, table>>, result' \in Result
  PROVE  IInv' /\ Extended
<1>1. EnvOK' /\ TableOK(objects', ids', nextHandle') /\ Extended
  BY TableUnchanged
<1>2. OpsOK' /\ SearchesOK'
  BY <1>1, ExtensionKeepsWork DEF work
<1>3. SessionsOK'
  BY DEF IInv, SessionsOK, work
<1>4. QED
  BY <1>1, <1>2, <1>3 DEF IInv

-----------------------------------------------------------------------------
(* Every step keeps the invariant and every handle's object. *)

LEMMA EnvironmentSteps == IInv /\ Environment => IInv' /\ Extended
<1> SUFFICES ASSUME IInv, Environment PROVE IInv' /\ Extended
  OBVIOUS
<1> USE ManagerAssumption
<1>1. Extended
  BY DEF Environment, Tick, ChangeStore, table, Extended
<1>2. OpsOK' /\ SearchesOK'
  BY <1>1, ExtensionKeepsWork DEF Environment, Tick, ChangeStore, work
<1>3. SessionsOK'
  BY DEF IInv, SessionsOK, Environment, Tick, ChangeStore, work
<1>4. TableOK(objects', ids', nextHandle')
  BY DEF IInv, Environment, Tick, ChangeStore, table
<1>5. EnvOK'
  <2>1. CASE Tick
    BY <2>1 DEF IInv, EnvOK, Tick
  <2>2. CASE ChangeStore
    BY <2>2 DEF IInv, EnvOK, ChangeStore, table
  <2>3. QED
    BY <2>1, <2>2 DEF Environment
<1>6. QED
  BY <1>1, <1>2, <1>3, <1>4, <1>5 DEF IInv

LEMMA SessionSteps == IInv /\ SessionCall => IInv' /\ Extended
<1> SUFFICES ASSUME IInv, SessionCall PROVE IInv' /\ Extended
  OBVIOUS
<1>1. ASSUME NEW flags \in Flags, OpenSession(flags) PROVE IInv' /\ Extended
  <2>1. TableOK(objects', ids', nextHandle') /\ age' \in 0 .. SessionInterval /\ Extended
    BY <1>1, ScanKeepsTable DEF OpenSession
  <2>2. OpsOK' /\ SearchesOK'
    BY <1>1, <2>1, ExtensionKeepsWork DEF OpenSession
  <2>3. SessionsOK'
    <3>1. nextSession \in SessionHandle /\ nextSession + 1 \in 1 .. (MaxSession + 1)
      BY <1>1, ManagerAssumption DEF IInv, SessionsOK, OpenSession, SessionHandle
    <3>2. /\ IsMap(sessions', SessionHandle, Flags)
          /\ DOMAIN sessions' = DOMAIN sessions \cup {nextSession}
      <4>1. sessions' = Put(sessions, nextSession, flags) /\ IsMap(sessions, SessionHandle, Flags)
        BY <1>1 DEF IInv, SessionsOK, OpenSession
      <4>2. IsMap(Put(sessions, nextSession, flags), SessionHandle, Flags)
        BY <3>1, <4>1, PutKeepsMap
      <4>3. DOMAIN Put(sessions, nextSession, flags) = DOMAIN sessions \cup {nextSession}
        BY DEF Put
      <4>4. QED
        BY <4>1, <4>2, <4>3
    <3>3. \A s \in DOMAIN sessions' : s < nextSession'
      BY <1>1, <3>1, <3>2, ManagerAssumption
      DEF IInv, SessionsOK, IsMap, SessionHandle, OpenSession
    <3>4. QED
      BY <1>1, <3>1, <3>2, <3>3 DEF SessionsOK, OpenSession
  <2>4. EnvOK'
    BY <1>1, <2>1 DEF IInv, EnvOK, OpenSession, Result
  <2>5. QED
    BY <2>1, <2>2, <2>3, <2>4 DEF IInv
<1>2. ASSUME NEW s \in SessionHandle, GetSessionInfo(s) PROVE IInv' /\ Extended
  BY <1>2, NothingChanged DEF GetSessionInfo, Result
<1>3. ASSUME NEW s \in SessionHandle, CloseSession(s) PROVE IInv' /\ Extended
  <2>1. CASE s \notin DOMAIN sessions
    BY <1>3, <2>1, NothingChanged DEF CloseSession, Result
  <2>2. CASE s \in DOMAIN sessions
    <3>1. EnvOK' /\ TableOK(objects', ids', nextHandle') /\ Extended
      BY <1>3, <2>2, TableUnchanged DEF CloseSession, Result
    <3>2. SessionsOK'
      <4> DEFINE new == Drop(sessions, s)
      <4>a. IsMap(sessions, SessionHandle, Flags)
        BY DEF IInv, SessionsOK
      <4>0. IsMap(new, SessionHandle, Flags) /\ DOMAIN new \subseteq DOMAIN sessions
        BY <4>a, DropKeepsMap
      <4>1. /\ IsMap(sessions', SessionHandle, Flags)
            /\ DOMAIN sessions' \subseteq DOMAIN sessions
        BY <1>3, <2>2, <4>0 DEF CloseSession
      <4>2. QED
        BY <1>3, <2>2, <4>1 DEF IInv, SessionsOK, CloseSession
    <3>3. SearchesOK'
      <4> DEFINE new == Drop(searches, s)
      <4>a. IsMap(searches, SessionHandle, SUBSET Nat)
        BY DEF IInv, SearchesOK
      <4>0. /\ IsMap(new, SessionHandle, SUBSET Nat)
            /\ \A x \in DOMAIN new : x \in DOMAIN searches /\ new[x] = searches[x]
        BY <4>a, DropKeepsMap
      <4>1. /\ IsMap(searches', SessionHandle, SUBSET Nat)
            /\ \A x \in DOMAIN searches' : x \in DOMAIN searches /\ searches'[x] = searches[x]
        BY <1>3, <2>2, <4>0 DEF CloseSession
      <4>2. QED
        BY <3>1, <4>1, ExtensionKeepsWork DEF SearchesOK, SearchesResolve
    <3>4. OpsOK'
      <4>1. ASSUME NEW k \in OpKind
            PROVE  /\ IsMap(ops'[k], SessionHandle, Op)
                   /\ \A x \in DOMAIN ops'[k] : x \in DOMAIN ops[k] /\ ops'[k][x] = ops[k][x]
        <5> DEFINE new == Drop(ops[k], s)
        <5>a. IsMap(ops[k], SessionHandle, Op)
          BY DEF IInv, OpsOK
        <5>1. /\ IsMap(new, SessionHandle, Op)
              /\ \A x \in DOMAIN new : x \in DOMAIN ops[k] /\ new[x] = ops[k][x]
          BY <5>a, DropKeepsMap
        <5>2. ops'[k] = new
          BY <1>3, <2>2 DEF CloseSession
        <5>3. QED
          BY <5>1, <5>2
      <4>2. \A k \in OpKind : \A x \in DOMAIN ops'[k] : OpOK(k, ops[k][x])'
        BY <3>1, <4>1, ExtensionKeepsWork DEF IInv, OpsOK, OpOK, Op
      <4>3. QED
        BY <1>3, <2>2, <4>1, <4>2 DEF OpsOK, OpOK, CloseSession
    <3>5. QED
      BY <3>1, <3>2, <3>3, <3>4 DEF IInv
  <2>3. QED
    BY <2>1, <2>2
<1>4. CASE CloseAllSessions
  <2>1. EnvOK' /\ TableOK(objects', ids', nextHandle') /\ Extended
    BY <1>4, TableUnchanged DEF CloseAllSessions, Result
  <2>2. SessionsOK' /\ SearchesOK' /\ OpsOK'
    BY <1>4 DEF CloseAllSessions, IInv, SessionsOK, SearchesOK, SearchesResolve, OpsOK,
                NoEntries, IsMap
  <2>3. QED
    BY <2>1, <2>2 DEF IInv
<1>5. QED
  BY <1>1, <1>2, <1>3, <1>4 DEF SessionCall

\* A search is replaced by one whose handles the table knows.
LEMMA PutSearch ==
  ASSUME IInv, Extended, NEW s \in SessionHandle, NEW found \in SUBSET Nat,
         found \subseteq DOMAIN objects', searches' = Put(searches, s, found)
  PROVE  SearchesOK'
<1>1. IsMap(searches, SessionHandle, SUBSET Nat)
  BY DEF IInv, SearchesOK
<1>2. IsMap(Put(searches, s, found), SessionHandle, SUBSET Nat)
  BY <1>1, PutKeepsMap
<1>3. \A x \in DOMAIN searches' : searches'[x] \subseteq DOMAIN objects'
  BY ExtensionKeepsWork DEF Put
<1>4. QED
  BY <1>2, <1>3 DEF SearchesOK, SearchesResolve

LEMMA ObjectSteps == IInv /\ ObjectCall => IInv' /\ Extended
<1> SUFFICES ASSUME IInv, ObjectCall PROVE IInv' /\ Extended
  OBVIOUS
<1>1. ASSUME NEW s \in SessionHandle, NEW t \in Template, StartSearch(s, t)
      PROVE  IInv' /\ Extended
  <2>1. CASE s \in DOMAIN searches
    BY <1>1, <2>1, NothingChanged DEF StartSearch, Result
  <2>2. CASE s \notin DOMAIN searches
    <3> DEFINE found == IF t.supported THEN MatchingHandles(objects', t) ELSE {}
    <3>1. /\ TableOK(objects', ids', nextHandle') /\ age' \in 0 .. SessionInterval /\ Extended
      <4>1. CASE UNCHANGED table
        BY <4>1 DEF table, IInv, EnvOK, Extended
      <4>2. CASE MaybeFindNewObjects(SearchInterval)
        BY <4>2, ScanKeepsTable
      <4>3. QED
        BY <1>1, <2>2, <4>1, <4>2 DEF StartSearch
    <3>2. found \subseteq DOMAIN objects' /\ found \in SUBSET Nat
      BY <3>1 DEF MatchingHandles, TableOK, IsMap
    <3>3. searches' = Put(searches, s, found)
      BY <1>1, <2>2 DEF StartSearch
    <3>4. SearchesOK'
      BY <3>1, <3>2, <3>3, PutSearch
    <3>5. OpsOK' /\ SessionsOK'
      BY <1>1, <2>2, <3>1, ExtensionKeepsWork DEF StartSearch, IInv, SessionsOK
    <3>6. EnvOK'
      BY <1>1, <2>2, <3>1 DEF StartSearch, IInv, EnvOK, Result
    <3>7. QED
      BY <3>1, <3>4, <3>5, <3>6 DEF IInv
  <2>3. QED
    BY <2>1, <2>2
<1>2. ASSUME NEW s \in SessionHandle, NEW n \in 0 .. MaxBatch, Search(s, n)
      PROVE  IInv' /\ Extended
  <2>1. CASE n = 0 \/ s \notin DOMAIN searches
    BY <1>2, <2>1, NothingChanged DEF Search, Result
  <2>2. CASE n > 0 /\ s \in DOMAIN searches
    <3> DEFINE rest == searches[s] \ LastHandles(searches[s], n)
    <3>1. EnvOK' /\ TableOK(objects', ids', nextHandle') /\ Extended
      BY <1>2, <2>2, TableUnchanged DEF Search, Result
    <3>2. rest \in SUBSET Nat /\ rest \subseteq DOMAIN objects'
      BY <2>2, <3>1, ExtensionKeepsWork DEF IInv, SearchesOK, IsMap
    <3>3. searches' = Put(searches, s, rest)
      BY <1>2, <2>2 DEF Search
    <3>4. SearchesOK'
      BY <3>1, <3>2, <3>3, PutSearch
    <3>5. OpsOK' /\ SessionsOK'
      BY <1>2, <2>2, <3>1, ExtensionKeepsWork DEF Search, IInv, SessionsOK
    <3>6. QED
      BY <3>1, <3>4, <3>5 DEF IInv
  <2>3. n > 0 \/ n = 0
    OBVIOUS
  <2>4. QED
    BY <2>1, <2>2, <2>3
<1>3. ASSUME NEW s \in SessionHandle, ClearSearch(s) PROVE IInv' /\ Extended
  <2>1. EnvOK' /\ TableOK(objects', ids', nextHandle') /\ Extended
    BY <1>3, TableUnchanged DEF ClearSearch, Result
  <2>2. OpsOK' /\ SessionsOK'
    BY <1>3, <2>1, ExtensionKeepsWork DEF ClearSearch, IInv, SessionsOK
  <2>3. SearchesOK'
    <3> DEFINE new == Drop(searches, s)
    <3>1. IsMap(searches, SessionHandle, SUBSET Nat)
      BY DEF IInv, SearchesOK
    <3>2. /\ IsMap(new, SessionHandle, SUBSET Nat)
          /\ \A x \in DOMAIN new : x \in DOMAIN searches /\ new[x] = searches[x]
      BY <3>1, DropKeepsMap
    <3>3. /\ IsMap(searches', SessionHandle, SUBSET Nat)
          /\ \A x \in DOMAIN searches' : x \in DOMAIN searches /\ searches'[x] = searches[x]
      BY <1>3, <3>2 DEF ClearSearch
    <3>4. QED
      BY <2>1, <3>3, ExtensionKeepsWork DEF SearchesOK, SearchesResolve
  <2>4. QED
    BY <2>1, <2>2, <2>3 DEF IInv
<1>4. ASSUME NEW h \in 1 .. nextHandle, GetAttributes(h) PROVE IInv' /\ Extended
  BY <1>4, NothingChanged DEF GetAttributes, Result
<1>5. QED
  BY <1>1, <1>2, <1>3, <1>4 DEF ObjectCall

-----------------------------------------------------------------------------
(* Sign, decrypt and encrypt share their bookkeeping. *)

LEMMA RefusedCall ==
  ASSUME IInv, NEW why \in Result, Refuse(why)
  PROVE  IInv' /\ Extended
BY NothingChanged DEF Refuse

\* Filing an operation that resolves and fits, under any session handle.
LEMMA FiledOperation ==
  ASSUME IInv, NEW k \in OpKind, NEW s \in SessionHandle, NEW op, OpOK(k, op),
         SetOp(k, s, op), result' = "ok"
  PROVE  IInv' /\ Extended
<1>1. EnvOK' /\ TableOK(objects', ids', nextHandle') /\ Extended
  BY TableUnchanged DEF SetOp, Result
<1>2. SearchesOK' /\ SessionsOK'
  BY <1>1, ExtensionKeepsWork DEF SetOp, IInv, SessionsOK
<1>3. ASSUME NEW j \in OpKind
      PROVE  /\ IsMap(ops'[j], SessionHandle, Op)
             /\ \A x \in DOMAIN ops'[j] : OpOK(j, ops'[j][x])
  <2>1. IsMap(ops[j], SessionHandle, Op) /\ \A x \in DOMAIN ops[j] : OpOK(j, ops[j][x])
    BY DEF IInv, OpsOK
  <2>2. CASE j # k
    <3>1. ops'[j] = ops[j]
      BY <2>2 DEF SetOp
    <3>2. QED
      BY <2>1, <3>1
  <2>3. CASE j = k
    <3> DEFINE new == Put(ops[k], s, op)
    <3>1. op \in Op
      BY DEF OpOK
    <3>2. IsMap(new, SessionHandle, Op)
      BY <2>1, <2>3, <3>1, PutKeepsMap
    <3>3. \A x \in DOMAIN new : OpOK(k, new[x])
      BY <2>1, <2>3 DEF Put
    <3>4. ops'[k] = new
      BY DEF SetOp, IInv, OpsOK
    <3>5. QED
      BY <2>3, <3>2, <3>3, <3>4
  <2>4. QED
    BY <2>2, <2>3
<1>4. \A j \in OpKind : \A o : OpOK(j, o) => OpOK(j, o)'
  BY <1>1, ExtensionKeepsWork DEF OpOK, Op
<1>5. DOMAIN ops' = OpKind
  BY DEF SetOp, IInv, OpsOK
<1>6. OpsOK'
  BY <1>3, <1>4, <1>5 DEF OpsOK
<1>7. QED
  BY <1>1, <1>2, <1>6 DEF IInv

\* Removing an operation, whatever the backend made of it.
LEMMA FinishedOperation ==
  ASSUME IInv, NEW k \in OpKind, NEW s \in SessionHandle, FinishOperation(k, s)
  PROVE  IInv' /\ Extended
<1>1. CASE Refuse("OperationFailed")
  BY <1>1, RefusedCall DEF Result
<1>2. CASE s \in DOMAIN ops[k] /\ ops' = [ops EXCEPT ![k] = Drop(ops[k], s)]
  <2>1. UNCHANGED <<store, sessions, searches, nextSession, table>> /\ result' \in Result
    BY <1>2 DEF FinishOperation, Refuse, work, table, Result
  <2>2. EnvOK' /\ TableOK(objects', ids', nextHandle') /\ Extended
    BY <2>1, TableUnchanged
  <2>3. SearchesOK' /\ SessionsOK'
    BY <2>1, <2>2, ExtensionKeepsWork DEF IInv, SessionsOK
  <2>4. ASSUME NEW j \in OpKind
        PROVE  /\ IsMap(ops'[j], SessionHandle, Op)
               /\ \A x \in DOMAIN ops'[j] : x \in DOMAIN ops[j] /\ ops'[j][x] = ops[j][x]
    <3>1. IsMap(ops[j], SessionHandle, Op)
      BY DEF IInv, OpsOK
    <3>2. CASE j # k
      <4>1. ops'[j] = ops[j]
        BY <1>2, <3>2
      <4>2. QED
        BY <3>1, <4>1
    <3>3. CASE j = k
      <4> DEFINE new == Drop(ops[k], s)
      <4>1. /\ IsMap(new, SessionHandle, Op)
            /\ \A x \in DOMAIN new : x \in DOMAIN ops[k] /\ new[x] = ops[k][x]
        BY <3>1, <3>3, DropKeepsMap
      <4>2. ops'[k] = new
        BY <1>2 DEF IInv, OpsOK
      <4>3. QED
        BY <3>3, <4>1, <4>2
    <3>4. QED
      BY <3>2, <3>3
  <2>5. \A j \in OpKind : \A x \in DOMAIN ops'[j] : OpOK(j, ops[j][x])'
    BY <2>2, <2>4, ExtensionKeepsWork DEF IInv, OpsOK, OpOK, Op
  <2>6. OpsOK'
    BY <1>2, <2>4, <2>5 DEF IInv, OpsOK, OpOK
  <2>7. QED
    BY <2>2, <2>3, <2>6 DEF IInv
<1>3. QED
  BY <1>1, <1>2 DEF FinishOperation

LEMMA StartedOperation ==
  ASSUME IInv, NEW k \in OpKind, NEW s \in SessionHandle, NEW h \in 1 .. nextHandle,
         NEW m \in Mechanism, StartOperation(k, s, h, m)
  PROVE  IInv' /\ Extended
<1>1. CASE Refuse("OperationFailed") \/ Refuse("InvalidKey")
  BY <1>1, RefusedCall DEF Result
<1>2. CASE /\ Resolves(k, h) /\ result' = "ok"
           /\ SetOp(k, s, [key |-> h, mech |-> m, buffer |-> <<>>])
  <2> DEFINE op == [key |-> h, mech |-> m, buffer |-> <<>>]
  <2>1. h \in Nat /\ MaxTotal \in Nat
    BY ManagerAssumption DEF IInv, TableOK
  <2>2. OpOK(k, op)
    BY <1>2, <2>1 DEF OpOK, Op
  <2>3. QED
    BY <1>2, <2>2, FiledOperation
<1>3. QED
  BY <1>1, <1>2 DEF StartOperation

LEMMA MeasuredOperation ==
  ASSUME IInv, NEW k \in OpKind, NEW s \in SessionHandle, MeasureOperation(k, s)
  PROVE  IInv' /\ Extended
<1>1. \E why \in Result : Refuse(why)
  BY DEF MeasureOperation, Result
<1>2. QED
  BY <1>1, RefusedCall

\* The bound on the accumulated parts is checked before the part is appended.
LEMMA UpdatedOperation ==
  ASSUME IInv, NEW k \in OpKind, NEW s \in SessionHandle, NEW data \in Message,
         UpdateOperation(k, s, data)
  PROVE  IInv' /\ Extended
<1>1. CASE Refuse("OperationFailed") \/ Refuse("DataTooLarge")
  BY <1>1, RefusedCall DEF Result
<1>2. CASE /\ s \in DOMAIN ops[k] /\ result' = "ok"
           /\ Len(ops[k][s].buffer) + Len(data) <= MaxTotal
           /\ SetOp(k, s, [ops[k][s] EXCEPT !.buffer = @ \o data])
  <2> DEFINE old == ops[k][s]
             new == [old EXCEPT !.buffer = @ \o data]
  <2>1. old \in Op /\ Resolves(k, old.key)
    BY <1>2 DEF IInv, OpsOK, OpOK
  <2>2. old.buffer \in Seq(Byte) /\ data \in Seq(Byte)
    BY <2>1, ManagerAssumption DEF Op
  <2>3. /\ old.buffer \o data \in Seq(Byte)
        /\ Len(old.buffer \o data) = Len(old.buffer) + Len(data)
    BY <2>2
  <2>4. new \in Op /\ new.key = old.key /\ new.buffer = old.buffer \o data
    BY <2>1, <2>3 DEF Op
  <2>5. OpOK(k, new)
    BY <1>2, <2>1, <2>3, <2>4 DEF OpOK
  <2>6. QED
    BY <1>2, <2>5, FiledOperation
<1>3. QED
  BY <1>1, <1>2 DEF UpdateOperation

\* The eighteen functions are four, each for three kinds of operation.
LEMMA OperationOfKind ==
  ASSUME SignCall \/ DecryptCall \/ EncryptCall
  PROVE  \E k \in OpKind, s \in SessionHandle :
           \/ \E h \in 1 .. nextHandle, m \in Mechanism : StartOperation(k, s, h, m)
           \/ \E data \in Message : UpdateOperation(k, s, data)
           \/ MeasureOperation(k, s)
           \/ FinishOperation(k, s)
<1>1. CASE SignCall
  BY <1>1 DEF SignCall, StartSign, SignUpdate, GetSignatureLength, GetFinalSignatureLength,
              Sign, SignFinal, OpKind
<1>2. CASE DecryptCall
  BY <1>2 DEF DecryptCall, StartDecrypt, DecryptUpdate, GetDecryptedLength,
              GetFinalDecryptedLength, Decrypt, DecryptFinal, OpKind
<1>3. CASE EncryptCall
  BY <1>3 DEF EncryptCall, StartEncrypt, EncryptUpdate, GetEncryptedLength,
              GetFinalEncryptedLength, Encrypt, EncryptFinal, OpKind
<1>4. QED
  BY <1>1, <1>2, <1>3

LEMMA OperationSteps == IInv /\ (SignCall \/ DecryptCall \/ EncryptCall) => IInv' /\ Extended
<1> SUFFICES ASSUME IInv, SignCall \/ DecryptCall \/ EncryptCall PROVE IInv' /\ Extended
  OBVIOUS
<1>1. QED
  BY OperationOfKind, StartedOperation, MeasuredOperation, UpdatedOperation, FinishedOperation

LEMMA StepKeepsIInv == IInv /\ [Next]_vars => IInv' /\ Extended
<1> SUFFICES ASSUME IInv, [Next]_vars PROVE IInv' /\ Extended
  OBVIOUS
<1>1. CASE Next
  BY <1>1, EnvironmentSteps, SessionSteps, ObjectSteps, OperationSteps DEF Next
<1>2. CASE UNCHANGED vars
  <2>1. result' \in Result /\ UNCHANGED <<store, work, table>>
    BY <1>2 DEF vars, work, table, IInv, EnvOK
  <2>2. QED
    BY <2>1, NothingChanged
<1>3. QED
  BY <1>1, <1>2

-----------------------------------------------------------------------------
(* The theorems. *)

\* The invariant holds in every state of every behaviour.
THEOREM InvariantHolds == Spec => []IInv
<1>1. Init => IInv
  BY InitEstablishesIInv
<1>2. IInv /\ [Next]_vars => IInv'
  BY StepKeepsIInv
<1>3. QED
  BY <1>1, <1>2, PTL DEF Spec

\* The manager's maps always have the types the code declares for them.
THEOREM TypeCorrect == Spec => []TypeOK
<1>1. IInv => TypeOK
  BY InvariantGivesProperties
<1>2. QED
  BY <1>1, InvariantHolds, PTL

\* However many scans, of whatever listings, run: every object has exactly one handle, and
\* cert_ids, key_ids and trust_ids hold exactly the identifiers of the objects in the table.
THEOREM OneHandle == Spec => []OneHandlePerObject
<1>1. IInv => OneHandlePerObject
  BY InvariantGivesProperties
<1>2. QED
  BY <1>1, InvariantHolds, PTL

\* The key of every pending operation is in the table and can do the work, and so no
\* length, single-part or final call ever fails for want of its key.
THEOREM OperationsKeepTheirKey == Spec => []OperationsResolve
<1>1. IInv => OperationsResolve
  BY InvariantGivesProperties
<1>2. QED
  BY <1>1, InvariantHolds, PTL

\* A search only ever returns handles of objects that are in the table.
THEOREM SearchHandlesKnown == Spec => []SearchesResolve
<1>1. IInv => SearchesResolve
  BY InvariantGivesProperties
<1>2. QED
  BY <1>1, InvariantHolds, PTL

\* No sequence of update calls makes the parts of one operation exceed the bound.
THEOREM AccumulationBounded == Spec => []BuffersBounded
<1>1. IInv => BuffersBounded
  BY InvariantGivesProperties
<1>2. QED
  BY <1>1, InvariantHolds, PTL

\* No step takes a handle away or lets it name another object.
THEOREM HandlesKeepTheirObject == Spec => HandlesStable
<1>1. IInv /\ [Next]_vars => [Extended]_vars
  BY StepKeepsIInv
<1>2. QED
  BY <1>1, InvariantHolds, PTL DEF Spec, HandlesStable, Extended

\* Only C_OpenSession adds a session handle, the counter's, and moves the counter past it.  No
\* call moves the counter back, so a handle that was handed out stays below it for good and is
\* never the one handed out next.
THEOREM SessionHandlesNeverReused == Spec => SessionHandlesFresh
<1> DEFINE Fresh ==
             /\ nextSession' >= nextSession
             /\ \A s \in DOMAIN sessions' \ DOMAIN sessions : s = nextSession /\ s < nextSession'
<1>1. IInv /\ [Next]_vars => [Fresh]_vars
  <2> SUFFICES ASSUME IInv, Next PROVE Fresh
    BY DEF vars
  <2>1. nextSession \in Nat
    BY ManagerAssumption DEF IInv, SessionsOK
  <2>2. CASE UNCHANGED nextSession /\ DOMAIN sessions' \subseteq DOMAIN sessions
    BY <2>1, <2>2
  <2>3. CASE Environment \/ ObjectCall
    BY <2>2, <2>3 DEF Environment, Tick, ChangeStore, ObjectCall, StartSearch, Search,
                      ClearSearch, GetAttributes, work
  <2>4. CASE SessionCall
    <3>1. ASSUME NEW flags \in Flags, OpenSession(flags) PROVE Fresh
      BY <2>1, <3>1 DEF OpenSession, Put
    <3>2. ASSUME NEW s \in SessionHandle, GetSessionInfo(s) \/ CloseSession(s) PROVE Fresh
      BY <2>2, <3>2 DEF GetSessionInfo, CloseSession, Drop, work
    <3>3. CASE CloseAllSessions
      BY <2>2, <3>3 DEF CloseAllSessions, NoEntries
    <3>4. QED
      BY <2>4, <3>1, <3>2, <3>3 DEF SessionCall
  <2>5. CASE SignCall \/ DecryptCall \/ EncryptCall
    <3>1. UNCHANGED <<sessions, nextSession>>
      BY <2>5, OperationOfKind DEF StartOperation, MeasureOperation, UpdateOperation,
                                   FinishOperation, SetOp, Refuse, work
    <3>2. QED
      BY <2>2, <3>1
  <2>6. QED
    BY <2>3, <2>4, <2>5 DEF Next
<1>2. QED
  BY <1>1, InvariantHolds, PTL DEF Spec, SessionHandlesFresh

-----------------------------------------------------------------------------
(* What no step does to the work that is pending. *)

\* An operation goes on as another: same key and mechanism, parts only added at the end.
Continues(old, new) ==
  /\ new.key = old.key /\ new.mech = old.mech
  /\ Len(old.buffer) <= Len(new.buffer)
  /\ SubSeq(new.buffer, 1, Len(old.buffer)) = old.buffer

OpsContinue ==
  \A k \in OpKind : \A s \in DOMAIN ops[k] \cap DOMAIN ops'[k] : Continues(ops[k][s], ops'[k][s])
SearchesShrink ==
  \A s \in DOMAIN searches \cap DOMAIN searches' : searches'[s] \subseteq searches[s]
RefusalKeeps == result' \notin {"ok", "BackendError"} => UNCHANGED <<searches, ops>>

\* What is over was finished by its own call, or its session was closed.
EndsAreCalled ==
  /\ \A k \in OpKind : \A s \in DOMAIN ops[k] \ DOMAIN ops'[k] : FinishOperation(k, s) \/ Closes(s)
  /\ \A s \in DOMAIN searches \ DOMAIN searches' : ClearSearch(s) \/ Closes(s)

-----------------------------------------------------------------------------

LEMMA ContinuesItself ==
  ASSUME NEW op \in Op
  PROVE  Continues(op, op)
<1>1. op.buffer \in Seq(Byte)
  BY DEF Op
<1>2. SubSeq(op.buffer, 1, Len(op.buffer)) = op.buffer
  BY <1>1, SubSeqFull
<1>3. QED
  BY <1>1, <1>2 DEF Continues

LEMMA ContinuesWithMore ==
  ASSUME NEW op \in Op, NEW data \in Seq(Byte)
  PROVE  Continues(op, [op EXCEPT !.buffer = @ \o data])
<1> DEFINE more == op.buffer \o data
<1>1. op.buffer \in Seq(Byte)
  BY DEF Op
<1>2. Len(op.buffer) <= Len(more) /\ Len(op.buffer) \in Nat
  BY <1>1
<1>3. SubSeq(more, 1, Len(op.buffer)) = op.buffer
  <2>1. CASE Len(op.buffer) = 0
    BY <1>1, <2>1
  <2>2. CASE Len(op.buffer) > 0
    <3>1. SubSeq(more, 1, Len(op.buffer)) = SubSeq(op.buffer, 1, Len(op.buffer))
      BY <1>1, <1>2, <2>2, SubSeqOfConcat1
    <3>2. QED
      BY <1>1, <3>1, SubSeqFull
  <2>3. QED
    BY <1>2, <2>1, <2>2
<1>4. /\ [op EXCEPT !.buffer = @ \o data].key = op.key
      /\ [op EXCEPT !.buffer = @ \o data].mech = op.mech
      /\ [op EXCEPT !.buffer = @ \o data].buffer = more
  BY DEF Op
<1> HIDE DEF more
<1>5. QED
  BY <1>2, <1>3, <1>4 DEF Continues

\* Operations that stay are in the table, so they have the type that Continues speaks of.
LEMMA SameOpsContinue ==
  ASSUME IInv, NEW k \in OpKind, NEW s \in DOMAIN ops[k]
  PROVE  ops[k][s] \in Op /\ Continues(ops[k][s], ops[k][s])
BY ContinuesItself DEF IInv, OpsOK, OpOK

LEMMA NothingPendingChanged ==
  ASSUME IInv, UNCHANGED <<searches, ops>>
  PROVE  OpsContinue /\ SearchesShrink /\ RefusalKeeps
<1>1. OpsContinue
  BY SameOpsContinue DEF OpsContinue
<1>2. QED
  BY <1>1 DEF SearchesShrink, RefusalKeeps

\* The work of one kind, and of one session, is what changes.
LEMMA SetOpContinues ==
  ASSUME IInv, NEW k \in OpKind, NEW s \in SessionHandle, NEW op, SetOp(k, s, op), result' = "ok",
         s \in DOMAIN ops[k] => Continues(ops[k][s], op)
  PROVE  OpsContinue /\ SearchesShrink /\ RefusalKeeps
<1>1. DOMAIN ops = OpKind
  BY DEF IInv, OpsOK
<1>2. ASSUME NEW j \in OpKind, NEW x \in DOMAIN ops[j] \cap DOMAIN ops'[j]
      PROVE  Continues(ops[j][x], ops'[j][x])
  <2>1. CASE j = k /\ x = s
    <3>1. ops'[j][x] = op
      BY <1>1, <2>1 DEF SetOp, Put
    <3>2. QED
      BY <2>1, <3>1
  <2>2. CASE ~(j = k /\ x = s)
    <3>1. ops'[j][x] = ops[j][x]
      BY <1>1, <2>2 DEF SetOp, Put
    <3>2. QED
      BY <3>1, SameOpsContinue
  <2>3. QED
    BY <2>1, <2>2
<1>3. SearchesShrink /\ RefusalKeeps
  BY DEF SetOp, SearchesShrink, RefusalKeeps
<1>4. QED
  BY <1>2, <1>3 DEF OpsContinue

LEMMA FinishContinues ==
  ASSUME IInv, NEW k \in OpKind, NEW s \in SessionHandle, FinishOperation(k, s)
  PROVE  OpsContinue /\ SearchesShrink /\ RefusalKeeps
<1>1. CASE Refuse("OperationFailed")
  BY <1>1, NothingPendingChanged DEF Refuse, work
<1>2. CASE s \in DOMAIN ops[k] /\ ops' = [ops EXCEPT ![k] = Drop(ops[k], s)]
  <2>1. Resolves(k, ops[k][s].key)
    BY <1>2 DEF IInv, OpsOK, OpOK
  <2>2. searches' = searches /\ result' \in {"ok", "BackendError"}
    BY <1>2, <2>1 DEF FinishOperation, Refuse, work
  <2>3. ASSUME NEW j \in OpKind, NEW x \in DOMAIN ops[j] \cap DOMAIN ops'[j]
        PROVE  ops'[j][x] = ops[j][x]
    BY <1>2 DEF IInv, OpsOK, Drop
  <2>4. OpsContinue
    BY <2>3, SameOpsContinue DEF OpsContinue
  <2>5. QED
    BY <2>2, <2>4 DEF SearchesShrink, RefusalKeeps
<1>3. QED
  BY <1>1, <1>2 DEF FinishOperation

LEMMA OperationsContinue ==
  IInv /\ (SignCall \/ DecryptCall \/ EncryptCall) => OpsContinue /\ SearchesShrink /\ RefusalKeeps
<1> SUFFICES ASSUME IInv, SignCall \/ DecryptCall \/ EncryptCall
             PROVE  OpsContinue /\ SearchesShrink /\ RefusalKeeps
  OBVIOUS
<1>1. PICK k \in OpKind, s \in SessionHandle :
        \/ \E h \in 1 .. nextHandle, m \in Mechanism : StartOperation(k, s, h, m)
        \/ \E data \in Message : UpdateOperation(k, s, data)
        \/ MeasureOperation(k, s)
        \/ FinishOperation(k, s)
  BY OperationOfKind
<1>2. ASSUME NEW h, NEW m, StartOperation(k, s, h, m)
      PROVE  OpsContinue /\ SearchesShrink /\ RefusalKeeps
  <2>1. CASE s \notin DOMAIN ops[k] /\ result' = "ok"
             /\ SetOp(k, s, [key |-> h, mech |-> m, buffer |-> <<>>])
    BY <2>1, SetOpContinues
  <2>2. CASE Refuse("OperationFailed") \/ Refuse("InvalidKey")
    BY <2>2, NothingPendingChanged DEF Refuse, work
  <2>3. QED
    BY <1>2, <2>1, <2>2 DEF StartOperation
<1>3. ASSUME NEW data \in Message, UpdateOperation(k, s, data)
      PROVE  OpsContinue /\ SearchesShrink /\ RefusalKeeps
  <2>1. CASE s \in DOMAIN ops[k] /\ result' = "ok"
             /\ SetOp(k, s, [ops[k][s] EXCEPT !.buffer = @ \o data])
    <3>1. Continues(ops[k][s], [ops[k][s] EXCEPT !.buffer = @ \o data])
      BY <2>1, SameOpsContinue, ContinuesWithMore, ManagerAssumption
    <3>2. QED
      BY <2>1, <3>1, SetOpContinues
  <2>2. CASE Refuse("OperationFailed") \/ Refuse("DataTooLarge")
    BY <2>2, NothingPendingChanged DEF Refuse, work
  <2>3. QED
    BY <1>3, <2>1, <2>2 DEF UpdateOperation
<1>4. CASE MeasureOperation(k, s)
  BY <1>4, NothingPendingChanged DEF MeasureOperation, Refuse, work
<1>5. QED
  BY <1>1, <1>2, <1>3, <1>4, FinishContinues

LEMMA SessionsContinue == IInv /\ SessionCall => OpsContinue /\ SearchesShrink /\ RefusalKeeps
<1> SUFFICES ASSUME IInv, SessionCall PROVE OpsContinue /\ SearchesShrink /\ RefusalKeeps
  OBVIOUS
<1>1. CASE UNCHANGED <<searches, ops>>
  BY <1>1, NothingPendingChanged
<1>2. ASSUME NEW s \in DOMAIN sessions, CloseSession(s)
      PROVE  OpsContinue /\ SearchesShrink /\ RefusalKeeps
  <2>1. /\ searches' = Drop(searches, s) /\ result' = "ok"
        /\ ops' = [k \in OpKind |-> Drop(ops[k], s)]
    BY <1>2 DEF CloseSession
  <2>2. \A k \in OpKind : \A x \in DOMAIN ops'[k] : x \in DOMAIN ops[k] /\ ops'[k][x] = ops[k][x]
    BY <2>1 DEF Drop
  <2>3. OpsContinue
    BY <2>2, SameOpsContinue DEF OpsContinue
  <2>4. QED
    BY <2>1, <2>3 DEF SearchesShrink, RefusalKeeps, Drop
<1>3. CASE CloseAllSessions
  BY <1>3 DEF CloseAllSessions, NoEntries, OpsContinue, SearchesShrink, RefusalKeeps
<1>4. QED
  BY <1>1, <1>2, <1>3 DEF SessionCall, OpenSession, GetSessionInfo, CloseSession, work

LEMMA SearchesContinue == IInv /\ ObjectCall => OpsContinue /\ SearchesShrink /\ RefusalKeeps
<1> SUFFICES ASSUME IInv, ObjectCall PROVE OpsContinue /\ SearchesShrink /\ RefusalKeeps
  OBVIOUS
<1>1. CASE UNCHANGED <<searches, ops>>
  BY <1>1, NothingPendingChanged
<1>2. CASE /\ ops' = ops /\ result' = "ok"
           /\ \E s \in SessionHandle, found \in SUBSET Nat :
                /\ searches' = Put(searches, s, found)
                /\ s \in DOMAIN searches => found \subseteq searches[s]
  <2>1. OpsContinue
    BY <1>2, SameOpsContinue DEF OpsContinue
  <2>2. QED
    BY <1>2, <2>1 DEF SearchesShrink, RefusalKeeps, Put
<1>3. ASSUME NEW s \in SessionHandle, ClearSearch(s)
      PROVE  OpsContinue /\ SearchesShrink /\ RefusalKeeps
  <2>1. OpsContinue
    BY <1>3, SameOpsContinue DEF OpsContinue, ClearSearch
  <2>2. QED
    BY <1>3, <2>1 DEF SearchesShrink, RefusalKeeps, Drop, ClearSearch
<1>4. ASSUME NEW s \in SessionHandle, NEW t \in Template, StartSearch(s, t)
      PROVE  OpsContinue /\ SearchesShrink /\ RefusalKeeps
  <2>1. CASE s \in DOMAIN searches
    BY <1>1, <1>4, <2>1 DEF StartSearch, work
  <2>2. CASE s \notin DOMAIN searches
    <3> DEFINE found == IF t.supported THEN MatchingHandles(objects', t) ELSE {}
    <3>1. IInv'
      BY <1>4, StepKeepsIInv DEF Next, ObjectCall
    <3>2. found \in SUBSET Nat
      BY <3>1 DEF MatchingHandles, IInv, TableOK, IsMap
    <3>3. searches' = Put(searches, s, found) /\ ops' = ops /\ result' = "ok"
      BY <1>4, <2>2 DEF StartSearch
    <3> HIDE DEF found
    <3>4. QED
      BY <1>2, <2>2, <3>2, <3>3
  <2>3. QED
    BY <2>1, <2>2
<1>5. ASSUME NEW s \in SessionHandle, NEW n \in 0 .. MaxBatch, Search(s, n)
      PROVE  OpsContinue /\ SearchesShrink /\ RefusalKeeps
  <2>1. CASE UNCHANGED <<searches, ops>>
    BY <1>1, <2>1
  <2>2. CASE s \in DOMAIN searches /\ result' = "ok" /\ ops' = ops
             /\ searches' = Put(searches, s, searches[s] \ LastHandles(searches[s], n))
    <3>1. searches[s] \in SUBSET Nat
      BY <2>2 DEF IInv, SearchesOK, IsMap
    <3>2. QED
      BY <1>2, <2>2, <3>1
  <2>3. QED
    BY <1>5, <2>1, <2>2 DEF Search, work
<1>6. QED
  BY <1>1, <1>3, <1>4, <1>5 DEF ObjectCall, GetAttributes, work

-----------------------------------------------------------------------------
(* The theorems. *)

\* Of the operations, only those that finish take one away, and only the one they are about.
LEMMA OperationsEndByCalls == IInv /\ (SignCall \/ DecryptCall \/ EncryptCall) => EndsAreCalled
<1> SUFFICES ASSUME IInv, SignCall \/ DecryptCall \/ EncryptCall PROVE EndsAreCalled
  OBVIOUS
<1>1. PICK k \in OpKind, s \in SessionHandle :
        \/ \E h \in 1 .. nextHandle, m \in Mechanism : StartOperation(k, s, h, m)
        \/ \E data \in Message : UpdateOperation(k, s, data)
        \/ MeasureOperation(k, s)
        \/ FinishOperation(k, s)
  BY OperationOfKind
<1>2. UNCHANGED searches /\ DOMAIN ops = OpKind
  BY <1>1 DEF StartOperation, UpdateOperation, MeasureOperation, FinishOperation, SetOp, Refuse,
              work, IInv, OpsOK
<1>3. CASE UNCHANGED ops
  BY <1>2, <1>3 DEF EndsAreCalled
<1>4. ASSUME NEW op, SetOp(k, s, op) PROVE EndsAreCalled
  <2>1. \A j \in OpKind : DOMAIN ops[j] \subseteq DOMAIN ops'[j]
    BY <1>2, <1>4 DEF SetOp, Put
  <2>2. QED
    BY <1>2, <2>1 DEF EndsAreCalled
<1>5. CASE FinishOperation(k, s) /\ ops' = [ops EXCEPT ![k] = Drop(ops[k], s)]
  <2>1. ASSUME NEW j \in OpKind, NEW x \in DOMAIN ops[j] \ DOMAIN ops'[j] PROVE j = k /\ x = s
    BY <1>2, <1>5 DEF Drop
  <2>2. QED
    BY <1>2, <1>5, <2>1 DEF EndsAreCalled
<1>6. QED
  BY <1>1, <1>3, <1>4, <1>5
  DEF StartOperation, UpdateOperation, MeasureOperation, FinishOperation, Refuse, work

LEMMA WorkEndsByCalls == IInv /\ Next => EndsAreCalled
<1> SUFFICES ASSUME IInv, Next PROVE EndsAreCalled
  OBVIOUS
<1>1. CASE UNCHANGED <<searches, ops>>
  BY <1>1 DEF EndsAreCalled
<1>2. CASE Environment
  BY <1>1, <1>2 DEF Environment, Tick, ChangeStore, work
<1>3. ASSUME NEW s \in DOMAIN sessions, CloseSession(s) PROVE EndsAreCalled
  <2>1. /\ sessions' = Drop(sessions, s) /\ searches' = Drop(searches, s)
        /\ ops' = [k \in OpKind |-> Drop(ops[k], s)]
    BY <1>3 DEF CloseSession
  <2>2. Closes(s)
    BY <2>1 DEF Closes, Drop
  <2>3. /\ \A x \in DOMAIN searches \ DOMAIN searches' : x = s
        /\ \A k \in OpKind : \A x \in DOMAIN ops[k] \ DOMAIN ops'[k] : x = s
    BY <2>1 DEF Drop
  <2>4. QED
    BY <2>2, <2>3 DEF EndsAreCalled
<1>4. CASE SessionCall
  BY <1>1, <1>3, <1>4
  DEF SessionCall, OpenSession, GetSessionInfo, CloseSession, EndsAreCalled, Closes, work
<1>5. CASE ObjectCall
  <2>1. ASSUME NEW s \in SessionHandle, ClearSearch(s) PROVE EndsAreCalled
    BY <2>1 DEF ClearSearch, Drop, EndsAreCalled
  <2>2. CASE UNCHANGED ops /\ \E s, found : searches' = Put(searches, s, found)
    BY <2>2 DEF Put, EndsAreCalled
  <2>3. QED
    BY <1>1, <1>5, <2>1, <2>2 DEF ObjectCall, StartSearch, Search, GetAttributes, work
<1>6. QED
  BY <1>2, <1>4, <1>5, OperationsEndByCalls DEF Next

\* No call swaps or shortens what is pending, and nothing but the call that finishes it, or that
\* closes its session, ends it: for every number of sessions, every data and every order of
\* calls, scans and changes of the store.
THEOREM PendingWorkKept == Spec => PendingStable
<1>1. IInv /\ [Next]_vars => [OpsContinue /\ SearchesShrink /\ RefusalKeeps /\ EndsAreCalled]_vars
  <2> SUFFICES ASSUME IInv, Next
               PROVE  OpsContinue /\ SearchesShrink /\ RefusalKeeps /\ EndsAreCalled
    BY DEF vars
  <2>1. CASE Environment
    BY <2>1, NothingPendingChanged, WorkEndsByCalls DEF Environment, Tick, ChangeStore, work
  <2>2. QED
    BY <2>1, SessionsContinue, SearchesContinue, OperationsContinue, WorkEndsByCalls DEF Next
<1>2. QED
  BY <1>1, InvariantHolds, PTL
  DEF Spec, PendingStable, OpsContinue, SearchesShrink, RefusalKeeps, Continues, EndsAreCalled

ClosingEnds ==
  \A s \in DOMAIN sessions \ DOMAIN sessions' :
    /\ s \notin DOMAIN searches' /\ \A k \in OpKind : s \notin DOMAIN ops'[k]
    /\ \A r \in DOMAIN sessions' :
         /\ EntryOf(searches', r) = EntryOf(searches, r)
         /\ \A k \in OpKind : EntryOf(ops'[k], r) = EntryOf(ops[k], r)

\* C_CloseSession and C_CloseAllSessions end everything that is pending on what they close and
\* nothing of a session that stays open, and no other call closes a session.
THEOREM CloseEndsAll == Spec => CloseEndsPending
<1> DEFINE Ended(s) == s \notin DOMAIN searches' /\ \A k \in OpKind : s \notin DOMAIN ops'[k]
           Kept(r) == /\ EntryOf(searches', r) = EntryOf(searches, r)
                      /\ \A k \in OpKind : EntryOf(ops'[k], r) = EntryOf(ops[k], r)
           Closed == \A s \in DOMAIN sessions \ DOMAIN sessions' :
                       Ended(s) /\ \A r \in DOMAIN sessions' : Kept(r)
<1>1. [Next]_vars => [ClosingEnds]_vars
  <2> SUFFICES ASSUME Next PROVE Closed
    BY DEF vars, ClosingEnds
  <2>1. CASE DOMAIN sessions \subseteq DOMAIN sessions'
    BY <2>1
  <2>2. CASE Environment \/ ObjectCall
    BY <2>1, <2>2 DEF Environment, Tick, ChangeStore, ObjectCall, StartSearch, Search,
                      ClearSearch, GetAttributes, work
  <2>3. CASE SessionCall
    <3>1. ASSUME NEW flags \in Flags, OpenSession(flags) PROVE Closed
      BY <2>1, <3>1 DEF OpenSession, Put
    <3>2. ASSUME NEW s \in SessionHandle, GetSessionInfo(s) \/ CloseSession(s) PROVE Closed
      <4>1. CASE UNCHANGED work
        BY <2>1, <4>1 DEF work
      <4>2. CASE /\ sessions' = Drop(sessions, s) /\ searches' = Drop(searches, s)
                 /\ ops' = [k \in OpKind |-> Drop(ops[k], s)]
        <5>1. /\ \A r \in DOMAIN sessions \ DOMAIN sessions' : r = s
              /\ \A r \in DOMAIN sessions' : r # s
          BY <4>2 DEF Drop
        <5>2. ASSUME NEW f
              PROVE  /\ s \notin DOMAIN Drop(f, s)
                     /\ \A r : r # s => EntryOf(Drop(f, s), r) = EntryOf(f, r)
          BY DEF Drop, EntryOf
        <5>3. \A k \in OpKind : ops'[k] = Drop(ops[k], s)
          BY <4>2
        <5>4. Ended(s)
          BY <4>2, <5>2, <5>3
        <5>5. ASSUME NEW r \in DOMAIN sessions' PROVE Kept(r)
          <6>1. EntryOf(Drop(searches, s), r) = EntryOf(searches, r)
            BY <5>1, <5>2
          <6>2. ASSUME NEW k \in OpKind PROVE EntryOf(Drop(ops[k], s), r) = EntryOf(ops[k], r)
            BY <5>1, <5>2
          <6>3. QED
            BY <4>2, <5>3, <6>1, <6>2
        <5>6. QED
          BY <5>1, <5>4, <5>5
      <4>3. QED
        BY <3>2, <4>1, <4>2 DEF GetSessionInfo, CloseSession
    <3>3. CASE CloseAllSessions
      BY <3>3 DEF CloseAllSessions, NoEntries
    <3>4. QED
      BY <2>3, <3>1, <3>2, <3>3 DEF SessionCall
  <2>4. CASE SignCall \/ DecryptCall \/ EncryptCall
    <3>1. sessions' = sessions
      BY <2>4, OperationOfKind DEF StartOperation, MeasureOperation, UpdateOperation,
                                   FinishOperation, SetOp, Refuse, work
    <3>2. QED
      BY <2>1, <3>1
  <2>5. QED
    BY <2>2, <2>3, <2>4 DEF Next
<1>2. QED
  BY <1>1, PTL DEF Spec, CloseEndsPending, ClosingEnds

-----------------------------------------------------------------------------
(* What a scan finds. *)

LEMMA LeastElement ==
  ASSUME NEW S \in SUBSET Nat, S # {}
  PROVE  \E n \in S : \A m \in S : n <= m
<1> DEFINE R == OpToRel(<, Nat)
<1>1. IsWellFoundedOn(R, Nat)
  BY NatLessThanWellFounded
<1>2. ASSUME NEW m \in Nat, NEW n \in Nat, m < n PROVE <<m, n>> \in R
  BY <1>2 DEF OpToRel
<1> HIDE DEF R
<1>3. PICK n \in S : \A m \in S : ~(<<m, n>> \in R)
  BY <1>1, WFMin
<1>4. \A m \in S : ~(m < n)
  BY <1>2, <1>3
<1>5. QED
  BY <1>3, <1>4

\* After a scan everything that was listed has a handle: the first position with an object is
\* fresh unless its identifier is known, and then the object was in the table already.
LEMMA ScanTakesAll ==
  ASSUME NEW objs, NEW known, NEW next, TableOK(objs, known, next),
         NEW listing \in Seq(Object), NEW i \in DOMAIN listing
  PROVE  LET after == Adopt(objs, next, listing, FreshIndices(listing, known))
         IN  \E h \in DOMAIN after : after[h] = listing[i]
<1> DEFINE fresh == FreshIndices(listing, known)
           after == Adopt(objs, next, listing, fresh)
           learnt == Learn(known, listing, fresh)
           o == listing[i]
<1>1. o \in Object /\ o = [class |-> o.class, id |-> o.id] /\ o.class \in Class /\ o.id \in Id
  <2>1. o \in Object
    OBVIOUS
  <2> HIDE DEF o
  <2>2. QED
    BY <2>1 DEF Object
<1>2. TableOK(after, learnt, next + Cardinality(fresh))
  BY AdoptKeepsTable
<1>3. o.id \in learnt[o.class]
  <2>1. CASE o.id \in known[o.class]
    BY <1>1, <2>1 DEF Learn
  <2>2. CASE o.id \notin known[o.class]
    <3> DEFINE same == {j \in DOMAIN listing : listing[j] = o}
    <3>1. DOMAIN listing = 1 .. Len(listing) /\ Len(listing) \in Nat
      OBVIOUS
    <3>2. same \in SUBSET Nat /\ i \in same
      BY <3>1
    <3>3. PICK j \in same : \A k \in same : j <= k
      BY <3>2, LeastElement
    <3>4. ASSUME NEW k \in 1 .. (j - 1) PROVE listing[k] # listing[j]
      BY <3>1, <3>3
    <3>5. j \in fresh
      BY <2>2, <3>3, <3>4 DEF FreshIndices
    <3>6. QED
      BY <1>1, <3>3, <3>5 DEF Learn
  <2>3. QED
    BY <2>1, <2>2
<1>4. PICK h \in DOMAIN after : after[h] = [class |-> o.class, id |-> o.id]
  BY <1>1, <1>2, <1>3 DEF TableOK
<1>5. QED
  BY <1>1, <1>4

-----------------------------------------------------------------------------
(* Keys and their certificates. *)

\* A listing, or a table, in which every key has its certificate beside it.
PairedListing(listing) ==
  \A i \in DOMAIN listing :
    listing[i].class = "Key" =>
      \E j \in DOMAIN listing : listing[j] = [class |-> "Cert", id |-> listing[i].id]

PairedTable(objs) ==
  \A h \in DOMAIN objs :
    objs[h].class = "Key" =>
      \E g \in DOMAIN objs : objs[g] = [class |-> "Cert", id |-> objs[h].id]

LEMMA AdoptKeepsPairs ==
  ASSUME NEW objs, NEW known, NEW next, TableOK(objs, known, next), PairedTable(objs),
         NEW listing \in Seq(Object), PairedListing(listing)
  PROVE  PairedTable(Adopt(objs, next, listing, FreshIndices(listing, known)))
<1> DEFINE fresh == FreshIndices(listing, known)
           after == Adopt(objs, next, listing, fresh)
<1>1. \A h \in DOMAIN objs : h \in DOMAIN after /\ after[h] = objs[h]
  BY AdoptKeepsTable
<1>2. \A j \in DOMAIN listing : \E g \in DOMAIN after : after[g] = listing[j]
  BY ScanTakesAll
<1>3. ASSUME NEW h \in DOMAIN after \ DOMAIN objs
      PROVE  \E i \in DOMAIN listing : after[h] = listing[i]
  <2>1. PICK i \in fresh : h = HandleOf(i, fresh, next)
    BY <1>3 DEF Adopt
  <2>2. (CHOOSE j \in fresh : HandleOf(j, fresh, next) = h) \in fresh
    BY <2>1
  <2>3. QED
    BY <1>3, <2>2 DEF Adopt, FreshIndices
<1> HIDE DEF after
<1>4. ASSUME NEW h \in DOMAIN after, after[h].class = "Key"
      PROVE  \E g \in DOMAIN after : after[g] = [class |-> "Cert", id |-> after[h].id]
  <2>1. CASE h \in DOMAIN objs
    BY <1>1, <1>4, <2>1 DEF PairedTable
  <2>2. CASE h \notin DOMAIN objs
    BY <1>2, <1>3, <1>4, <2>2 DEF PairedListing
  <2>3. QED
    BY <2>1, <2>2
<1>5. PairedTable(after)
  BY <1>4 DEF PairedTable
<1>6. QED
  BY <1>5 DEF after

\* The table is only changed by scans.
LEMMA OnlyScansChange ==
  ASSUME IInv, [Next]_vars
  PROVE  FindNewObjects \/ UNCHANGED objects
<1>1. CASE Environment \/ UNCHANGED vars
  BY <1>1 DEF Environment, Tick, ChangeStore, table, vars
<1>2. CASE SessionCall
  BY <1>2 DEF SessionCall, OpenSession, GetSessionInfo, CloseSession, CloseAllSessions,
              MaybeFindNewObjects, table
<1>3. CASE ObjectCall
  BY <1>3 DEF ObjectCall, StartSearch, Search, ClearSearch, GetAttributes, MaybeFindNewObjects, table
<1>4. CASE SignCall \/ DecryptCall \/ EncryptCall
  <2>1. UNCHANGED table
    BY <1>4, OperationOfKind DEF StartOperation, MeasureOperation, UpdateOperation,
                                 FinishOperation, SetOp, Refuse
  <2>2. QED
    BY <2>1 DEF table
<1>5. QED
  BY <1>1, <1>2, <1>3, <1>4 DEF Next

\* If list_objects never lists a key without its certificate, then a client that has the handle of a
\* key finds a certificate with the same CKA_ID, at any time: after any rescans, with any other
\* objects known before, and also when both have left the store (maybe_find_new_objects, which
\* looks at certificates and keys separately).
THEOREM KeysHaveCertificates ==
  ASSUME \A listing \in Listings : PairedListing(listing)
  PROVE  Spec => []PairedTable(objects)
<1>1. Init => PairedTable(objects)
  <2> SUFFICES ASSUME Init PROVE PairedTable(objects)
    OBVIOUS
  <2> DEFINE none == [c \in Class |-> {}]
  <2>1. TableOK(NoEntries, none, 1) /\ PairedTable(NoEntries)
    BY DEF TableOK, NoEntries, IsMap, PairedTable
  <2>2. store \in Seq(Object) /\ PairedListing(store)
    BY ManagerAssumption DEF Init
  <2>3. QED
    BY <2>1, <2>2, AdoptKeepsPairs DEF Init
<1>2. IInv /\ PairedTable(objects) /\ [Next]_vars => PairedTable(objects)'
  <2> SUFFICES ASSUME IInv, PairedTable(objects), [Next]_vars PROVE PairedTable(objects)'
    OBVIOUS
  <2>1. CASE FindNewObjects
    <3>1. store \in Seq(Object) /\ PairedListing(store) /\ TableOK(objects, ids, nextHandle)
      BY ManagerAssumption DEF IInv, EnvOK
    <3>2. PairedTable(objects')
      BY <2>1, <3>1, AdoptKeepsPairs DEF FindNewObjects
    <3>3. QED
      BY <3>2 DEF PairedTable
  <2>2. CASE UNCHANGED objects
    BY <2>2 DEF PairedTable
  <2>3. QED
    BY <2>1, <2>2, OnlyScansChange
<1>3. QED
  BY <1>1, <1>2, InvariantHolds, PTL DEF Spec
=============================================================================
