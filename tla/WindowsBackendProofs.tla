------------------------- MODULE WindowsBackendProofs -------------------------
(***************************************************************************)
(* The Windows backend.  First its scans: what a scan of the stores keeps, *)
(* for all stores, however the certificates sign one another, and whatever *)
(* MAX_CHAIN_DEPTH is.  Then its operations with keys: what every one of   *)
(* them keeps, for all keys, all mechanisms and whatever Windows answers.  *)
(***************************************************************************)
EXTENDS WindowsListing, KeyOperation, SequenceTheorems, TLAPS

-----------------------------------------------------------------------------
(* Scans: the inductive invariant. *)

ChainPart == (2 * Len(leaves) + 1) .. Len(objects)

\* A certificate above a leaf whose walk has begun.
Reached(c) == \E j \in 1 .. Len(leaves) : j <= pos /\ j \notin skipped /\ c \in Above(collection, leaves[j])

\* Before the walk nothing comes after the pairs.
KeysOK ==
  phase = "keys" =>
    Len(objects) = 2 * Len(leaves) /\ processed = {} /\ current = NoCert /\ skipped = {}

\* Each object of the walk stands for an issuer that was processed.
ProcessedOK ==
  /\ \A i \in ChainPart :
       /\ objects[i].id \in processed
       /\ objects[i].class = "Trust" => objects[i].id \in roots /\ PermitsEmail(objects[i].id)
  /\ \A c \in processed : Reached(c)

\* The walk is `hops` issuers above the leaf it began at, and did not pass a self-signed one.
WalkOK ==
  current # NoCert =>
    \E j \in 1 .. Len(leaves) :
      /\ j <= pos /\ j \notin skipped
      /\ AtHop(collection, leaves[j], hops, current)
      /\ hops > 0 => current \notin SelfSigned

LInv ==
  /\ ListingTypeOK /\ LeavesPaired /\ EachOnce
  /\ KeysOK /\ ProcessedOK /\ WalkOK
  /\ skipped \subseteq 1 .. pos

-----------------------------------------------------------------------------
(* One hop up a chain. *)

\* An issuer that is found is a certificate.
LEMMA IssuerIsCert ==
  ASSUME NEW c \in Cert, NEW store, IssuerOf(c, store) # NoCert
  PROVE  IssuerOf(c, store) \in Cert
<1>1. Candidates[c] \cap store # {} /\ Candidates[c] \subseteq Cert
  BY ListingAssumption DEF IssuerOf
<1>2. PICK d \in Candidates[c] : d \in store
  BY <1>1
<1>3. IssuerOf(c, store) = CHOOSE i \in Candidates[c] : i \in store
  BY <1>1 DEF IssuerOf
<1>4. (CHOOSE i \in Candidates[c] : i \in store) \in Candidates[c]
  BY <1>2
<1>5. QED
  BY <1>1, <1>3, <1>4

\* A leaf is at its own chain's beginning.
LEMMA LeafAtStart ==
  ASSUME NEW leaf \in Cert, NEW store
  PROVE  AtHop(store, leaf, 0, leaf)
<1> DEFINE path == [k \in 0 .. 0 |-> leaf]
<1>1. path \in [0 .. 0 -> Cert] /\ path[0] = leaf
  OBVIOUS
<1> HIDE DEF path
<1>2. \A i \in 0 .. (0 - 1) : FALSE
  OBVIOUS
<1>3. QED
  BY <1>1, <1>2 DEF AtHop

\* The issuer of a certificate that is on a chain, and not its end, is one hop further up.
LEMMA HopExtends ==
  ASSUME NEW leaf \in Cert, NEW n \in Nat, NEW c \in Cert, NEW store, AtHop(store, leaf, n, c),
         n > 0 => c \notin SelfSigned,
         IssuerOf(c, store) # NoCert
  PROVE  AtHop(store, leaf, n + 1, IssuerOf(c, store))
<1> DEFINE up == IssuerOf(c, store)
<1>1. up \in Cert
  BY IssuerIsCert
<1>2. PICK path \in [0 .. n -> Cert] :
        /\ path[0] = leaf
        /\ path[n] = c
        /\ \A i \in 0 .. (n - 1) :
             path[i + 1] = IssuerOf(path[i], store) /\ (i > 0 => path[i] \notin SelfSigned)
  BY DEF AtHop
<1> DEFINE longer == [k \in 0 .. (n + 1) |-> IF k = n + 1 THEN up ELSE path[k]]
<1> HIDE DEF up
<1>3. longer \in [0 .. (n + 1) -> Cert]
  BY <1>1, <1>2
<1>4. longer[0] = leaf /\ longer[n + 1] = up
  BY <1>2
<1>5. ASSUME NEW i \in 0 .. n
      PROVE  /\ longer[i + 1] = IssuerOf(longer[i], store)
             /\ i > 0 => longer[i] \notin SelfSigned
  <2>1. CASE i = n
    BY <1>2, <2>1 DEF up
  <2>2. CASE i # n
    <3>1. i \in 0 .. (n - 1) /\ i + 1 \in 0 .. n /\ i \in 0 .. n
      BY <2>2
    <3>2. longer[i] = path[i] /\ longer[i + 1] = path[i + 1]
      BY <3>1
    <3> HIDE DEF longer
    <3>3. QED
      BY <1>2, <3>1, <3>2
  <2>3. QED
    BY <2>1, <2>2
<1>6. (n + 1) - 1 = n
  OBVIOUS
<1> HIDE DEF longer
<1>7. QED
  BY <1>3, <1>4, <1>5, <1>6 DEF AtHop, up

-----------------------------------------------------------------------------
(* What an issuer adds to the list. *)

LEMMA ExposedShape ==
  ASSUME NEW c \in Cert
  PROVE  /\ Exposed(c) \in Seq([class : ObjectClass, id : Cert])
         /\ \A i \in 1 .. Len(Exposed(c)) :
              /\ Exposed(c)[i].id = c
              /\ Exposed(c)[i].class # "Key"
              /\ Exposed(c)[i].class = "Trust" => c \in roots /\ PermitsEmail(c)
         /\ \A i, j \in 1 .. Len(Exposed(c)) : Exposed(c)[i] = Exposed(c)[j] => i = j
<1> DEFINE cert == Entry("Cert", c)
           trust == Entry("Trust", c)
<1>1. /\ cert \in [class : ObjectClass, id : Cert] /\ trust \in [class : ObjectClass, id : Cert]
      /\ cert.id = c /\ trust.id = c /\ cert.class = "Cert" /\ trust.class = "Trust"
  BY DEF Entry, ObjectClass
<1> HIDE DEF cert, trust
<1> DEFINE first == IF c \in Named THEN <<cert>> ELSE <<>>
           second == IF c \in roots /\ PermitsEmail(c) THEN <<trust>> ELSE <<>>
           Shape == [class : ObjectClass, id : Cert]
<1>2. Exposed(c) = first \o second
  BY DEF Exposed, cert, trust
<1>3. /\ first \in Seq(Shape) /\ Len(first) \in 0 .. 1 /\ second \in Seq(Shape) /\ Len(second) \in 0 .. 1
      /\ Len(first) = 1 => first[1] = cert
      /\ Len(second) = 1 => second[1] = trust /\ c \in roots /\ PermitsEmail(c)
  <2>0. cert \in Shape /\ trust \in Shape
    BY <1>1
  <2> HIDE DEF Shape
  <2>1. <<cert>> \in Seq(Shape) /\ <<trust>> \in Seq(Shape) /\ <<>> \in Seq(Shape)
    BY <2>0
  <2>2. /\ Len(<<cert>>) = 1 /\ Len(<<trust>>) = 1 /\ Len(<<>>) = 0
        /\ <<cert>>[1] = cert /\ <<trust>>[1] = trust
        /\ 0 \in 0 .. 1 /\ 1 \in 0 .. 1 /\ 0 # 1
    OBVIOUS
  <2>3. first = <<cert>> \/ first = <<>>
    OBVIOUS
  <2>4. (second = <<trust>> /\ c \in roots /\ PermitsEmail(c)) \/ second = <<>>
    OBVIOUS
  <2> HIDE DEF first, second
  <2>5. first \in Seq(Shape) /\ Len(first) \in 0 .. 1 /\ (Len(first) = 1 => first[1] = cert)
    BY <2>1, <2>2, <2>3, Zenon
  <2>6. /\ second \in Seq(Shape) /\ Len(second) \in 0 .. 1
        /\ Len(second) = 1 => second[1] = trust /\ c \in roots /\ PermitsEmail(c)
    BY <2>1, <2>2, <2>4, Zenon
  <2>7. QED
    BY <2>5, <2>6
<1> HIDE DEF first, second, Shape
<1>4. /\ Exposed(c) \in Seq(Shape) /\ Len(Exposed(c)) = Len(first) + Len(second)
      /\ \A i \in 1 .. Len(Exposed(c)) :
           Exposed(c)[i] = IF i <= Len(first) THEN first[i] ELSE second[i - Len(first)]
  BY <1>2, <1>3, ConcatProperties
<1>5. \A i \in 1 .. Len(Exposed(c)) :
        \/ i = 1 /\ Len(first) = 1 /\ Exposed(c)[i] = cert
        \/ i = Len(first) + 1 /\ Len(second) = 1 /\ Exposed(c)[i] = trust
  BY <1>3, <1>4
<1>6. QED
  BY <1>1, <1>3, <1>4, <1>5 DEF Shape

-----------------------------------------------------------------------------
(* The walk's progress. *)

\* A leaf whose walk has begun stays one, and what was above it stays above it.
LEMMA ReachedStays ==
  ASSUME UNCHANGED <<leaves, collection>>, pos \in Nat, pos' \in Nat, pos <= pos',
         \A j \in 1 .. pos : j \notin skipped => j \notin skipped',
         NEW c, Reached(c)
  PROVE  Reached(c)'
<1>1. PICK j \in 1 .. Len(leaves) : j <= pos /\ j \notin skipped /\ c \in Above(collection, leaves[j])
  BY DEF Reached
<1>2. leaves' = leaves /\ collection' = collection
  OBVIOUS
<1>3. j \in 1 .. Len(leaves') /\ j <= pos' /\ j \notin skipped'
  BY <1>1, <1>2
<1>5. QED
  BY <1>1, <1>2, <1>3 DEF Reached

\* The objects that are listed stay what they are when the chains' state only moves on.
LEMMA ProcessedStays ==
  ASSUME ProcessedOK, UNCHANGED <<leaves, objects, collection, roots, processed>>,
         pos \in Nat, pos' \in Nat, pos <= pos',
         \A j \in 1 .. pos : j \notin skipped => j \notin skipped'
  PROVE  ProcessedOK'
<1>1. \A c \in processed : Reached(c)'
  BY ReachedStays DEF ProcessedOK
<1>2. QED
  BY <1>1 DEF ProcessedOK, ChainPart, PermitsEmail

-----------------------------------------------------------------------------
(* The steps. *)

\* At its beginning a scan has nothing.
LEMMA EmptyScan ==
  ASSUME StartScan, phase' \in {"idle", "keys"}, system' \in Systems, mine' \in Seq(Cert)
  PROVE  LInv'
<1>1. /\ leaves' = <<>> /\ objects' = <<>> /\ Len(leaves') = 0 /\ Len(objects') = 0
      /\ processed' = {} /\ current' = NoCert /\ skipped' = {} /\ pos' = 0 /\ hops' = 0
      /\ collection' = {} /\ roots' = {}
  BY DEF StartScan
<1>2. ListingTypeOK'
  <2>1. leaves' \in Seq(Cert) /\ objects' \in Seq([class : ObjectClass, id : Cert])
    BY <1>1
  <2>2. 0 \in 0 .. MaxDepth
    BY ListingAssumption
  <2>3. QED
    BY <1>1, <2>1, <2>2 DEF ListingTypeOK
<1>3. LeavesPaired' /\ EachOnce'
  BY <1>1 DEF LeavesPaired, EachOnce
<1>4. KeysOK' /\ ProcessedOK' /\ WalkOK'
  BY <1>1 DEF KeysOK, ProcessedOK, ChainPart, WalkOK
<1>5. QED
  BY <1>1, <1>2, <1>3, <1>4 DEF LInv

LEMMA ListingInitEstablishes == ListingInit => LInv
<1> SUFFICES ASSUME ListingInit PROVE LInv
  OBVIOUS
<1>1. /\ leaves = <<>> /\ objects = <<>> /\ Len(leaves) = 0 /\ Len(objects) = 0 /\ mine = <<>>
      /\ processed = {} /\ current = NoCert /\ skipped = {} /\ pos = 0 /\ hops = 0
      /\ collection = {} /\ roots = {} /\ phase = "idle" /\ system \in Systems
  BY DEF ListingInit
<1>2. ListingTypeOK
  <2>1. leaves \in Seq(Cert) /\ objects \in Seq([class : ObjectClass, id : Cert]) /\ mine \in Seq(Cert)
    BY <1>1
  <2>2. 0 \in 0 .. MaxDepth
    BY ListingAssumption
  <2>3. QED
    BY <1>1, <2>1, <2>2 DEF ListingTypeOK
<1>3. LeavesPaired /\ EachOnce
  BY <1>1 DEF LeavesPaired, EachOnce
<1>4. KeysOK /\ ProcessedOK /\ WalkOK
  BY <1>1 DEF KeysOK, ProcessedOK, ChainPart, WalkOK
<1>5. QED
  BY <1>1, <1>2, <1>3, <1>4 DEF LInv

LEMMA StartKeepsLInv == LInv /\ (ListObjects \/ ListObjectsFails) => LInv'
<1> SUFFICES ASSUME LInv, ListObjects \/ ListObjectsFails PROVE LInv'
  OBVIOUS
<1>1. system \in Systems /\ system.my \in Seq(Cert)
  BY ListingAssumption DEF LInv, ListingTypeOK
<1>2. CASE ListObjects
  BY <1>1, <1>2, EmptyScan DEF ListObjects
<1>3. CASE ListObjectsFails
  <2>1. mine' \in Seq(Cert)
    BY <1>3 DEF ListObjectsFails
  <2>2. QED
    BY <1>1, <1>3, <2>1, EmptyScan DEF ListObjectsFails
<1>4. QED
  BY <1>2, <1>3

\* A step that leaves the scan's state alone, except for the phase, leaves the invariant.
LEMMA PhaseChange ==
  ASSUME LInv, system' \in Systems, phase' \in {"idle", "keys", "chains"},
         phase' = "keys" => phase = "keys",
         UNCHANGED <<mine, leaves, pos, objects, collection, roots, processed, current, hops, skipped>>
  PROVE  LInv'
<1>1. ListingTypeOK' /\ LeavesPaired' /\ EachOnce' /\ KeysOK'
  BY DEF LInv, ListingTypeOK, LeavesPaired, EachOnce, KeysOK
<1>2. ProcessedOK'
  BY ProcessedStays DEF LInv, ListingTypeOK
<1>3. WalkOK'
  BY DEF LInv, WalkOK
<1>4. QED
  BY <1>1, <1>2, <1>3 DEF LInv

LEMMA OpenStoresKeepsLInv == LInv /\ OpenStores => LInv'
<1> SUFFICES ASSUME LInv, OpenStores PROVE LInv'
  OBVIOUS
<1>1. PICK added \in SUBSET {"My", "CA", "ROOT"} :
        collection' = UNION {Snapshot(name) : name \in added}
  BY DEF OpenStores
<1>2. /\ processed = {} /\ current = NoCert /\ skipped = {} /\ Len(objects) = 2 * Len(leaves)
      /\ leaves \in Seq(Cert) /\ system \in Systems
  BY DEF OpenStores, LInv, KeysOK, ListingTypeOK
<1>3. /\ system.my \in Seq(Cert) /\ system.keyless \subseteq Cert
      /\ system.ca \subseteq Cert /\ system.root \subseteq Cert
  BY <1>2, ListingAssumption
<1>4. \A name \in {"My", "CA", "ROOT"} : Snapshot(name) \subseteq Cert
  BY <1>3 DEF Snapshot, Members
<1>5. collection' \subseteq Cert
  BY <1>1, <1>4
<1>6. ListingTypeOK'
  BY <1>3, <1>5 DEF OpenStores, LInv, ListingTypeOK
<1>7. LeavesPaired' /\ EachOnce'
  BY DEF OpenStores, LInv, LeavesPaired, EachOnce
<1>8. KeysOK' /\ WalkOK'
  BY <1>2 DEF OpenStores, KeysOK, WalkOK
<1>9. ProcessedOK'
  BY <1>2 DEF OpenStores, ProcessedOK, ChainPart
<1>10. (skipped \subseteq 1 .. pos)'
  BY <1>2 DEF OpenStores
<1>11. QED
  BY <1>6, <1>7, <1>8, <1>9, <1>10 DEF LInv

\* Both halves of a certificate that can be listed, or none: the pairs stay pairs.
LEMMA NextCertKeepsLInv == LInv /\ NextCert => LInv'
<1> SUFFICES ASSUME LInv, NextCert PROVE LInv'
  OBVIOUS
<1> DEFINE c == mine[pos + 1]
           cert == Entry("Cert", c)
           key == Entry("Key", c)
           Shape == [class : ObjectClass, id : Cert]
<1>1. /\ phase = "keys" /\ pos < Len(mine) /\ pos' = pos + 1 /\ pos \in Nat
      /\ UNCHANGED <<system, phase, mine, collection, roots, processed, current, hops, skipped>>
      /\ Len(objects) = 2 * Len(leaves) /\ processed = {} /\ current = NoCert /\ skipped = {}
      /\ leaves \in Seq(Cert) /\ mine \in Seq(Cert) /\ objects \in Seq(Shape)
  BY DEF NextCert, LInv, KeysOK, ListingTypeOK
<1>2. c \in Cert
  BY <1>1
<1>3. cert \in Shape /\ key \in Shape /\ cert.class = "Cert" /\ key.class = "Key"
  BY <1>2 DEF Entry, ObjectClass
<1>4. CASE Listable(c)
  <2>1. leaves' = Append(leaves, c) /\ objects' = objects \o <<cert, key>>
    BY <1>4 DEF NextCert
  <2> HIDE DEF cert, key, Shape
  <2>2. /\ <<cert, key>> \in Seq(Shape) /\ Len(<<cert, key>>) = 2
        /\ <<cert, key>>[1] = cert /\ <<cert, key>>[2] = key
    BY <1>3
  <2>3. /\ objects' \in Seq(Shape) /\ Len(objects') = Len(objects) + 2
        /\ \A i \in 1 .. Len(objects) + 2 :
             objects'[i] = IF i <= Len(objects) THEN objects[i] ELSE <<cert, key>>[i - Len(objects)]
    BY <1>1, <2>1, <2>2, ConcatProperties
  <2>4. /\ leaves' \in Seq(Cert) /\ Len(leaves') = Len(leaves) + 1
        /\ \A i \in 1 .. Len(leaves) : leaves'[i] = leaves[i]
        /\ leaves'[Len(leaves) + 1] = c
    BY <1>1, <1>2, <2>1
  <2> DEFINE n == Len(leaves)
  <2>5. n \in Nat /\ Len(objects) = 2 * n /\ Len(objects') = 2 * n + 2 /\ Len(leaves') = n + 1
    BY <1>1, <2>3, <2>4
  <2>6. objects'[2 * n + 1] = cert /\ objects'[2 * n + 2] = key
    <3>1. /\ 2 * n + 1 \in 1 .. Len(objects) + 2 /\ ~(2 * n + 1 <= Len(objects))
          /\ 2 * n + 2 \in 1 .. Len(objects) + 2 /\ ~(2 * n + 2 <= Len(objects))
          /\ (2 * n + 1) - Len(objects) = 1 /\ (2 * n + 2) - Len(objects) = 2
      BY <2>5
    <3> HIDE DEF n
    <3>2. QED
      BY <2>2, <2>3, <3>1
  <2>7. ASSUME NEW i \in 1 .. n
        PROVE  objects'[2 * i - 1] = objects[2 * i - 1] /\ objects'[2 * i] = objects[2 * i]
    <3>1. /\ 2 * i - 1 \in 1 .. Len(objects) + 2 /\ 2 * i - 1 <= Len(objects)
          /\ 2 * i \in 1 .. Len(objects) + 2 /\ 2 * i <= Len(objects)
      BY <2>5
    <3>2. QED
      BY <2>3, <3>1
  <2>8. LeavesPaired'
    <3>1. Len(objects') >= 2 * Len(leaves')
      BY <2>5
    <3>2. ASSUME NEW i \in 1 .. Len(leaves')
          PROVE  /\ Listable(leaves'[i])
                 /\ objects'[2 * i - 1] = Entry("Cert", leaves'[i])
                 /\ objects'[2 * i] = Entry("Key", leaves'[i])
      <4>1. CASE i = n + 1
        <5>1. 2 * i - 1 = 2 * n + 1 /\ 2 * i = 2 * n + 2
          BY <2>5, <4>1
        <5>2. QED
          BY <1>4, <2>4, <2>6, <4>1, <5>1 DEF cert, key
      <4>2. CASE i \in 1 .. n
        BY <2>4, <2>7, <4>2 DEF LInv, LeavesPaired
      <4>3. QED
        BY <2>5, <4>1, <4>2
    <3>3. \A i \in (2 * Len(leaves') + 1) .. Len(objects') : FALSE
      BY <2>5
    <3>4. QED
      BY <3>1, <3>2, <3>3 DEF LeavesPaired, Listable
  <2>9. EachOnce'
    BY <2>5 DEF EachOnce
  <2>10. ListingTypeOK'
    BY <1>1, <2>3, <2>4 DEF LInv, ListingTypeOK, Shape
  <2>11. KeysOK' /\ ProcessedOK' /\ WalkOK'
    BY <1>1, <2>5 DEF KeysOK, ProcessedOK, ChainPart, WalkOK
  <2>12. QED
    BY <1>1, <2>8, <2>9, <2>10, <2>11 DEF LInv
<1>5. CASE ~Listable(c)
  <2>1. leaves' = leaves /\ objects' = objects
    BY <1>5 DEF NextCert
  <2>2. ListingTypeOK' /\ LeavesPaired' /\ EachOnce' /\ KeysOK'
    BY <1>1, <2>1 DEF LInv, ListingTypeOK, LeavesPaired, EachOnce, KeysOK, Listable
  <2>3. ProcessedOK' /\ WalkOK'
    BY <1>1, <2>1 DEF ProcessedOK, ChainPart, WalkOK
  <2>4. QED
    BY <1>1, <2>2, <2>3 DEF LInv
<1>6. QED
  BY <1>4, <1>5

\* The walk begins at the next leaf, or passes over it.
LEMMA LeafStepsKeepLInv == LInv /\ (NextLeaf \/ SkipLeaf) => LInv'
<1> SUFFICES ASSUME LInv, NextLeaf \/ SkipLeaf PROVE LInv'
  OBVIOUS
<1>1. /\ phase = "chains" /\ current = NoCert /\ pos < Len(leaves) /\ pos' = pos + 1 /\ pos \in Nat
      /\ UNCHANGED <<system, phase, mine, leaves, objects, collection, roots, processed>>
      /\ leaves \in Seq(Cert) /\ skipped \subseteq 1 .. pos
  BY DEF NextLeaf, SkipLeaf, LInv, ListingTypeOK
<1>2. leaves[pos + 1] \in Cert /\ pos + 1 \in 1 .. Len(leaves)
  BY <1>1
<1>3. skipped' \subseteq 1 .. pos' /\ \A j \in 1 .. pos : j \notin skipped => j \notin skipped'
  <2>1. skipped' = skipped \/ skipped' = skipped \cup {pos + 1}
    BY DEF NextLeaf, SkipLeaf
  <2>2. 1 .. pos' = (1 .. pos) \cup {pos + 1} /\ pos + 1 \notin 1 .. pos
    BY <1>1
  <2>3. QED
    BY <1>1, <2>1, <2>2, Zenon
<1>4. LeavesPaired' /\ EachOnce' /\ KeysOK'
  BY <1>1 DEF LInv, LeavesPaired, EachOnce, KeysOK, Listable
<1>5. ProcessedOK'
  BY <1>1, <1>3, ProcessedStays DEF LInv
<1>6. CASE NextLeaf
  <2>1. current' = leaves[pos + 1] /\ hops' = 0 /\ skipped' = skipped
    BY <1>6 DEF NextLeaf
  <2>2. 0 \in 0 .. MaxDepth
    BY ListingAssumption
  <2>3. ListingTypeOK'
    BY <1>1, <1>2, <2>1, <2>2 DEF LInv, ListingTypeOK
  <2>4. pos + 1 \notin skipped' /\ pos + 1 <= pos'
    BY <1>1, <2>1
  <2>5. AtHop(collection, leaves[pos + 1], 0, leaves[pos + 1])
    BY <1>2, LeafAtStart
  <2>6. AtHop(collection', leaves'[pos + 1], hops', current')
    BY <1>1, <2>1, <2>5
  <2>7. WalkOK'
    <3>1. pos + 1 \in 1 .. Len(leaves') /\ ~(hops' > 0)
      BY <1>1, <1>2, <2>1
    <3>2. QED
      BY <2>4, <2>6, <3>1 DEF WalkOK
  <2>8. QED
    BY <1>3, <1>4, <1>5, <2>3, <2>7 DEF LInv
<1>7. CASE SkipLeaf
  <2>1. current' = NoCert /\ hops' = hops /\ skipped' = skipped \cup {pos + 1}
    BY <1>1, <1>7 DEF SkipLeaf
  <2>2. ListingTypeOK'
    BY <1>1, <2>1 DEF LInv, ListingTypeOK
  <2>3. WalkOK'
    BY <2>1 DEF WalkOK
  <2>4. QED
    BY <1>3, <1>4, <1>5, <2>2, <2>3 DEF LInv
<1>8. QED
  BY <1>6, <1>7

\* What the walk does to the list when it meets an issuer for the first time.
LEMMA ExposingKeepsList ==
  ASSUME LInv, NEW c \in Cert, c \notin processed,
         objects' = objects \o Exposed(c), processed' = processed \cup {c},
         UNCHANGED <<leaves, roots>>
  PROVE  /\ objects' \in Seq([class : ObjectClass, id : Cert])
         /\ LeavesPaired' /\ EachOnce'
         /\ \A i \in ChainPart' :
              /\ objects'[i].id \in processed'
              /\ objects'[i].class = "Trust" => objects'[i].id \in roots /\ PermitsEmail(objects'[i].id)
<1> DEFINE Shape == [class : ObjectClass, id : Cert]
           new == Exposed(c)
           n == Len(objects)
           d == 2 * Len(leaves)
<1>1. /\ objects \in Seq(Shape) /\ new \in Seq(Shape) /\ n \in Nat /\ d \in Nat /\ d <= n
      /\ leaves \in Seq(Cert) /\ leaves' = leaves /\ Len(new) \in Nat
  <2>1. objects \in Seq(Shape) /\ leaves \in Seq(Cert) /\ n >= d
    BY DEF LInv, ListingTypeOK, LeavesPaired
  <2>2. new \in Seq(Shape)
    BY ExposedShape
  <2>3. QED
    BY <2>1, <2>2
<1>2. /\ objects' \in Seq(Shape) /\ Len(objects') = n + Len(new)
      /\ \A i \in 1 .. Len(objects') : objects'[i] = IF i <= n THEN objects[i] ELSE new[i - n]
  <2> HIDE DEF Shape, new
  <2>1. QED
    BY <1>1, ConcatProperties DEF new
<1>3. /\ \A i \in 1 .. Len(new) :
            /\ new[i].id = c /\ new[i].class # "Key"
            /\ new[i].class = "Trust" => c \in roots /\ PermitsEmail(c)
      /\ \A i, j \in 1 .. Len(new) : new[i] = new[j] => i = j
  BY ExposedShape
<1> HIDE DEF new, Shape
<1>4. ASSUME NEW i \in (d + 1) .. Len(objects')
      PROVE  \/ i \in (d + 1) .. n /\ objects'[i] = objects[i]
             \/ i - n \in 1 .. Len(new) /\ objects'[i] = new[i - n]
  BY <1>1, <1>2
<1>5. LeavesPaired'
  <2>1. ASSUME NEW i \in 1 .. Len(leaves)
        PROVE  /\ Listable(leaves[i])
               /\ objects'[2 * i - 1] = Entry("Cert", leaves[i])
               /\ objects'[2 * i] = Entry("Key", leaves[i])
    <3>1. /\ 2 * i - 1 \in 1 .. Len(objects') /\ 2 * i \in 1 .. Len(objects')
          /\ 2 * i - 1 <= n /\ 2 * i <= n
      BY <1>1, <1>2
    <3>2. objects'[2 * i - 1] = objects[2 * i - 1] /\ objects'[2 * i] = objects[2 * i]
      BY <1>2, <3>1
    <3>3. QED
      BY <3>2 DEF LInv, LeavesPaired
  <2>2. \A i \in (d + 1) .. n : objects[i].class # "Key"
    BY DEF LInv, LeavesPaired
  <2>3. \A i \in (d + 1) .. Len(objects') : objects'[i].class # "Key"
    BY <1>3, <1>4, <2>2
  <2>4. Len(objects') >= 2 * Len(leaves)
    BY <1>1, <1>2
  <2>5. QED
    BY <1>1, <2>1, <2>3, <2>4 DEF LeavesPaired, Listable
<1>6. \A i \in (d + 1) .. n :
        /\ objects[i].id \in processed
        /\ objects[i].class = "Trust" => objects[i].id \in roots /\ PermitsEmail(objects[i].id)
  BY DEF LInv, ProcessedOK, ChainPart
<1>7. EachOnce'
  <2>1. ASSUME NEW i \in (d + 1) .. Len(objects'), NEW j \in (d + 1) .. Len(objects'),
               objects'[i] = objects'[j]
        PROVE  i = j
    <3>1. \A k, l \in (d + 1) .. n : objects[k] = objects[l] => k = l
      BY DEF LInv, EachOnce
    <3>2. CASE i \in (d + 1) .. n /\ objects'[i] = objects[i]
      <4>1. CASE j \in (d + 1) .. n /\ objects'[j] = objects[j]
        BY <2>1, <3>1, <3>2, <4>1
      <4>2. CASE j - n \in 1 .. Len(new) /\ objects'[j] = new[j - n]
        BY <1>3, <1>6, <2>1, <3>2, <4>2
      <4>3. QED
        BY <1>4, <4>1, <4>2
    <3>3. CASE i - n \in 1 .. Len(new) /\ objects'[i] = new[i - n]
      <4>1. CASE j \in (d + 1) .. n /\ objects'[j] = objects[j]
        BY <1>3, <1>6, <2>1, <3>3, <4>1
      <4>2. CASE j - n \in 1 .. Len(new) /\ objects'[j] = new[j - n]
        <5>1. i - n = j - n
          BY <1>3, <2>1, <3>3, <4>2
        <5>2. QED
          BY <1>1, <5>1
      <4>3. QED
        BY <1>4, <4>1, <4>2
    <3>4. QED
      BY <1>4, <3>2, <3>3
  <2>2. QED
    BY <1>1, <2>1 DEF EachOnce
<1>8. \A i \in (d + 1) .. Len(objects') :
        /\ objects'[i].id \in processed'
        /\ objects'[i].class = "Trust" => objects'[i].id \in roots /\ PermitsEmail(objects'[i].id)
  BY <1>3, <1>4, <1>6
<1>9. QED
  BY <1>1, <1>2, <1>5, <1>7, <1>8 DEF ChainPart, Shape

\* One round of the walk.
LEMMA HopKeepsLInv == LInv /\ Hop => LInv'
<1> SUFFICES ASSUME LInv, Hop PROVE LInv'
  OBVIOUS
<1> DEFINE up == IssuerOf(current, collection)
<1>1. /\ phase = "chains" /\ current # NoCert /\ current \in Cert /\ pos \in Nat
      /\ UNCHANGED <<system, phase, mine, leaves, pos, collection, roots, skipped>>
      /\ hops \in 0 .. MaxDepth /\ MaxDepth \in Nat /\ leaves \in Seq(Cert)
  BY ListingAssumption DEF Hop, LInv, ListingTypeOK
<1>2. CASE up = NoCert \/ hops = MaxDepth
  <2>1. EndOfChain
    BY <1>2 DEF Hop
  <2>2. ListingTypeOK' /\ LeavesPaired' /\ EachOnce' /\ KeysOK'
    BY <1>1, <2>1 DEF EndOfChain, LInv, ListingTypeOK, LeavesPaired, EachOnce, KeysOK, Listable
  <2>3. ProcessedOK'
    BY <1>1, <2>1, ProcessedStays DEF EndOfChain, LInv
  <2>4. WalkOK'
    BY <2>1 DEF EndOfChain, WalkOK
  <2>5. QED
    BY <1>1, <2>2, <2>3, <2>4 DEF LInv
<1>3. CASE up # NoCert /\ hops # MaxDepth
  <2>1. /\ objects' = IF up \in processed THEN objects ELSE objects \o Exposed(up)
        /\ processed' = processed \cup {up}
        /\ current' = IF up \in SelfSigned THEN NoCert ELSE up
        /\ hops' = hops + 1
    BY <1>3 DEF Hop
  <2>2. up \in Cert
    BY <1>1, <1>3, IssuerIsCert
  <2>3. PICK j \in 1 .. Len(leaves) :
          /\ j <= pos /\ j \notin skipped
          /\ AtHop(collection, leaves[j], hops, current)
          /\ hops > 0 => current \notin SelfSigned
    BY <1>1 DEF LInv, WalkOK
  <2>4. leaves[j] \in Cert /\ hops \in Nat /\ hops + 1 \in 1 .. MaxDepth
    BY <1>1, <1>3
  <2>5. AtHop(collection, leaves[j], hops + 1, up)
    BY <1>1, <1>3, <2>3, <2>4, HopExtends
  <2>6. up \in Above(collection, leaves[j])
    BY <2>2, <2>4, <2>5 DEF Above
  <2>7. ASSUME NEW c \in processed' PROVE Reached(c)'
    <3>1. CASE c \in processed
      BY <1>1, <3>1, ReachedStays DEF LInv, ProcessedOK
    <3>2. CASE c = up
      <4>1. j \in 1 .. Len(leaves') /\ j <= pos' /\ j \notin skipped'
        BY <1>1, <2>3
      <4>2. c \in Above(collection', leaves'[j])
        BY <1>1, <2>6, <3>2
      <4>3. QED
        BY <4>1, <4>2 DEF Reached
    <3>3. QED
      BY <2>1, <3>1, <3>2
  <2>8. WalkOK'
    <3> HIDE DEF up
    <3>1. current' # NoCert => current' = up /\ up \notin SelfSigned
      BY <2>1
    <3>2. QED
      BY <1>1, <2>1, <2>3, <2>5, <3>1 DEF WalkOK
  <2> HIDE DEF up
  <2>9. /\ objects' \in Seq([class : ObjectClass, id : Cert])
        /\ LeavesPaired' /\ EachOnce'
        /\ \A i \in ChainPart' :
             /\ objects'[i].id \in processed'
             /\ objects'[i].class = "Trust" => objects'[i].id \in roots /\ PermitsEmail(objects'[i].id)
    <3>1. CASE up \notin processed
      <4>1. objects' = objects \o Exposed(up)
        BY <2>1, <3>1
      <4>2. QED
        BY <1>1, <2>1, <2>2, <3>1, <4>1, ExposingKeepsList
    <3>2. CASE up \in processed
      <4>1. objects' = objects /\ processed' = processed
        BY <2>1, <3>2
      <4>2. QED
        BY <1>1, <4>1
        DEF LInv, ListingTypeOK, LeavesPaired, EachOnce, ProcessedOK, ChainPart, Listable
    <3>3. QED
      BY <3>1, <3>2
  <2>10. ListingTypeOK'
    <3>1. hops' \in 0 .. MaxDepth /\ processed' \subseteq Cert /\ current' \in Cert \cup {NoCert}
      BY <1>1, <2>1, <2>2, <2>4 DEF LInv, ListingTypeOK
    <3>2. QED
      BY <1>1, <2>9, <3>1 DEF LInv, ListingTypeOK
  <2>11. KeysOK'
    BY <1>1 DEF KeysOK
  <2>12. ProcessedOK'
    BY <1>1, <2>7, <2>9 DEF ProcessedOK, PermitsEmail
  <2>13. QED
    BY <1>1, <2>8, <2>9, <2>10, <2>11, <2>12 DEF LInv
<1>4. QED
  BY <1>2, <1>3

\* The steps put together.
LEMMA ListingStepKeepsLInv == LInv /\ [ListingNext]_listingVars => LInv'
<1> SUFFICES ASSUME LInv, [ListingNext]_listingVars PROVE LInv'
  OBVIOUS
<1>1. CASE ChangeSystem
  BY <1>1, PhaseChange DEF ChangeSystem, scan, LInv, ListingTypeOK
<1>2. CASE ListObjects \/ ListObjectsFails
  BY <1>2, StartKeepsLInv
<1>3. CASE NextCert
  BY <1>3, NextCertKeepsLInv
<1>4. CASE OpenStores
  BY <1>4, OpenStoresKeepsLInv
<1>5. CASE OpenStoresFails \/ ListObjectsReturns
  BY <1>5, PhaseChange DEF OpenStoresFails, ListObjectsReturns, LInv, ListingTypeOK
<1>6. CASE NextLeaf \/ SkipLeaf
  BY <1>6, LeafStepsKeepLInv
<1>7. CASE Hop
  BY <1>7, HopKeepsLInv
<1>8. CASE UNCHANGED listingVars
  BY <1>8, PhaseChange DEF listingVars, scan, LInv, ListingTypeOK
<1>9. QED
  BY <1>1, <1>2, <1>3, <1>4, <1>5, <1>6, <1>7, <1>8 DEF ListingNext, ScanStep

-----------------------------------------------------------------------------
(* Completeness: nothing that is due is missing once a scan is over. *)

Seen == IF phase = "keys" THEN pos ELSE Len(mine)
LeavesAre == Members(leaves) = {mine[k] : k \in 1 .. Seen} \cap Named \cap Usable

Due ==
  {Entry("Cert", c) : c \in Members(leaves)} \cup {Entry("Key", c) : c \in Members(leaves)}
    \cup {Entry("Cert", c) : c \in processed \cap Named}
    \cup {Entry("Trust", c) : c \in {r \in processed \cap roots : PermitsEmail(r)}}
ObjectsAre == Members(objects) = Due

\* What lies above a leaf is processed when its walk has come past it.
Covered ==
  \A j \in 1 .. Len(leaves), n \in 1 .. MaxDepth, c \in Cert :
    j <= pos /\ j \notin skipped /\ AtHop(collection, leaves[j], n, c) =>
      c \in processed \/ (current # NoCert /\ j = pos /\ n > hops)

\* A chain does not fork: the walk is at the only certificate it can be at.
WalkIs ==
  current # NoCert =>
    /\ phase = "chains" /\ pos \in 1 .. Len(leaves)
    /\ \A c \in Cert : AtHop(collection, leaves[pos], hops, c) => c = current

ScanOver ==
  /\ phase = "keys" => collection = {}
  /\ phase = "idle" => current = NoCert /\ (collection = {} \/ pos = Len(leaves))

CompleteInv == LeavesAre /\ ObjectsAre /\ Covered /\ WalkIs /\ ScanOver

LEMMA MembersOfConcat ==
  ASSUME NEW S, NEW s \in Seq(S), NEW t \in Seq(S)
  PROVE  Members(s \o t) = Members(s) \cup Members(t)
<1>1. /\ s \o t \in Seq(S) /\ Len(s \o t) = Len(s) + Len(t) /\ Len(s) \in Nat /\ Len(t) \in Nat
      /\ \A i \in 1 .. Len(s) + Len(t) : (s \o t)[i] = IF i <= Len(s) THEN s[i] ELSE t[i - Len(s)]
  BY ConcatProperties
<1>2. ASSUME NEW x \in Members(s \o t) PROVE x \in Members(s) \cup Members(t)
  <2>1. PICK i \in 1 .. Len(s) + Len(t) : x = (s \o t)[i]
    BY <1>1 DEF Members
  <2>2. CASE i <= Len(s)
    BY <1>1, <2>1, <2>2 DEF Members
  <2>3. CASE ~(i <= Len(s))
    <3>1. i - Len(s) \in 1 .. Len(t) /\ x = t[i - Len(s)]
      BY <1>1, <2>1, <2>3
    <3>2. QED
      BY <3>1 DEF Members
  <2>4. QED
    BY <2>2, <2>3
<1>3. ASSUME NEW x \in Members(s) PROVE x \in Members(s \o t)
  <2>1. PICK i \in 1 .. Len(s) : x = s[i]
    BY DEF Members
  <2>2. i \in 1 .. Len(s \o t) /\ (s \o t)[i] = x
    BY <1>1, <2>1
  <2>3. QED
    BY <2>2 DEF Members
<1>4. ASSUME NEW x \in Members(t) PROVE x \in Members(s \o t)
  <2>1. PICK i \in 1 .. Len(t) : x = t[i]
    BY DEF Members
  <2>2. i + Len(s) \in 1 .. Len(s) + Len(t) /\ ~(i + Len(s) <= Len(s)) /\ (i + Len(s)) - Len(s) = i
    BY <1>1
  <2>3. (s \o t)[i + Len(s)] = x
    BY <1>1, <2>1, <2>2
  <2>4. QED
    BY <1>1, <2>2, <2>3 DEF Members
<1>5. QED
  BY <1>2, <1>3, <1>4

\* A chain's beginnings are chains, and only its last certificate can be self-signed.
LEMMA HopPrefix ==
  ASSUME NEW leaf \in Cert, NEW store, NEW n \in Nat, NEW c \in Cert, AtHop(store, leaf, n, c),
         NEW m \in 0 .. (n - 1)
  PROVE  \E b \in Cert : \E d \in Cert :
           /\ AtHop(store, leaf, m, b) /\ AtHop(store, leaf, m + 1, d)
           /\ d = IssuerOf(b, store)
           /\ m + 1 < n => d \notin SelfSigned
           /\ m + 1 = n => d = c
<1>1. PICK path \in [0 .. n -> Cert] :
        /\ path[0] = leaf
        /\ path[n] = c
        /\ \A i \in 0 .. (n - 1) :
             path[i + 1] = IssuerOf(path[i], store) /\ (i > 0 => path[i] \notin SelfSigned)
  BY DEF AtHop
<1>2. ASSUME NEW k \in 0 .. n PROVE AtHop(store, leaf, k, path[k])
  <2> DEFINE short == [i \in 0 .. k |-> path[i]]
  <2>1. /\ short \in [0 .. k -> Cert] /\ short[0] = leaf /\ short[k] = path[k]
        /\ \A i \in 0 .. k : short[i] = path[i]
    BY <1>1
  <2> HIDE DEF short
  <2>2. ASSUME NEW i \in 0 .. (k - 1)
        PROVE  short[i + 1] = IssuerOf(short[i], store) /\ (i > 0 => short[i] \notin SelfSigned)
    <3>1. i \in 0 .. (n - 1) /\ i \in 0 .. k /\ i + 1 \in 0 .. k
      OBVIOUS
    <3>2. QED
      BY <1>1, <2>1, <3>1
  <2>3. QED
    BY <2>1, <2>2 DEF AtHop
<1>3. m \in 0 .. n /\ m + 1 \in 0 .. n /\ (m + 1 < n => m + 1 \in 0 .. (n - 1) /\ m + 1 > 0)
  OBVIOUS
<1>4. path[m] \in Cert /\ path[m + 1] \in Cert /\ path[m + 1] = IssuerOf(path[m], store)
  BY <1>1, <1>3
<1>5. m + 1 < n => path[m + 1] \notin SelfSigned
  BY <1>1, <1>3
<1>6. AtHop(store, leaf, m, path[m]) /\ AtHop(store, leaf, m + 1, path[m + 1])
  BY <1>2, <1>3
<1>7. QED
  BY <1>1, <1>4, <1>5, <1>6

\* Without issuers there are no chains.
LEMMA NothingAboveInEmpty ==
  ASSUME NEW leaf \in Cert, NEW n \in Nat \ {0}, NEW c \in Cert
  PROVE  ~AtHop({}, leaf, n, c)
<1>1. SUFFICES ASSUME AtHop({}, leaf, n, c) PROVE FALSE
  OBVIOUS
<1>2. PICK b \in Cert : \E d \in Cert : d = IssuerOf(b, {})
  <2>1. 0 \in 0 .. (n - 1)
    OBVIOUS
  <2>2. QED
    BY <1>1, <2>1, HopPrefix
<1>3. IssuerOf(b, {}) = NoCert
  BY DEF IssuerOf
<1>4. QED
  BY <1>2, <1>3, ListingAssumption

\* Nothing has been found yet.
LEMMA EmptyIsComplete ==
  ASSUME StartScan, phase' \in {"idle", "keys"}, phase' = "idle" => mine' = <<>>
  PROVE  CompleteInv'
<1>1. /\ leaves' = <<>> /\ objects' = <<>> /\ Len(leaves') = 0 /\ Len(objects') = 0
      /\ processed' = {} /\ current' = NoCert /\ pos' = 0 /\ collection' = {}
  BY DEF StartScan
<1>2. Members(leaves)' = {} /\ Members(objects)' = {}
  BY <1>1 DEF Members
<1>3. Seen' = 0
  BY <1>1 DEF Seen
<1>4. LeavesAre'
  BY <1>2, <1>3 DEF LeavesAre
<1>5. ObjectsAre'
  BY <1>1, <1>2 DEF ObjectsAre, Due
<1>6. Covered' /\ WalkIs' /\ ScanOver'
  BY <1>1 DEF Covered, WalkIs, ScanOver
<1>7. QED
  BY <1>4, <1>5, <1>6 DEF CompleteInv

LEMMA ListingInitIsComplete == ListingInit => CompleteInv
<1> SUFFICES ASSUME ListingInit PROVE CompleteInv
  OBVIOUS
<1>1. /\ leaves = <<>> /\ objects = <<>> /\ Len(leaves) = 0 /\ Len(objects) = 0
      /\ processed = {} /\ current = NoCert /\ pos = 0 /\ collection = {} /\ phase = "idle"
      /\ mine = <<>> /\ Len(mine) = 0
  BY DEF ListingInit
<1>2. Members(leaves) = {} /\ Members(objects) = {} /\ Seen = 0
  BY <1>1 DEF Members, Seen
<1>3. LeavesAre /\ ObjectsAre
  BY <1>1, <1>2 DEF LeavesAre, ObjectsAre, Due
<1>4. Covered /\ WalkIs /\ ScanOver
  BY <1>1 DEF Covered, WalkIs, ScanOver
<1>5. QED
  BY <1>3, <1>4 DEF CompleteInv

\* What is listed only depends on the lists.
LEMMA ListedStays ==
  ASSUME CompleteInv, UNCHANGED <<mine, leaves, objects, processed>>, Seen' = Seen,
         roots' = roots \/ processed = {}
  PROVE  LeavesAre' /\ ObjectsAre'
<1>1. LeavesAre'
  BY DEF CompleteInv, LeavesAre
<1>2. Due' = Due
  BY DEF Due, PermitsEmail
<1>3. ObjectsAre'
  BY <1>2 DEF CompleteInv, ObjectsAre
<1>4. QED
  BY <1>1, <1>3

\* One certificate of "My" more.
LEMMA NextCertComplete == LInv /\ CompleteInv /\ NextCert => CompleteInv'
<1> SUFFICES ASSUME LInv, CompleteInv, NextCert PROVE CompleteInv'
  OBVIOUS
<1> DEFINE c == mine[pos + 1]
           cert == Entry("Cert", c)
           key == Entry("Key", c)
           Shape == [class : ObjectClass, id : Cert]
<1>1. /\ phase = "keys" /\ pos < Len(mine) /\ pos' = pos + 1 /\ pos \in Nat
      /\ UNCHANGED <<system, phase, mine, collection, roots, processed, current, hops, skipped>>
      /\ processed = {} /\ current = NoCert /\ collection = {}
      /\ leaves \in Seq(Cert) /\ mine \in Seq(Cert) /\ objects \in Seq(Shape)
  BY DEF NextCert, LInv, KeysOK, ListingTypeOK, CompleteInv, ScanOver
<1>2. c \in Cert /\ cert \in Shape /\ key \in Shape
  BY <1>1 DEF Entry, ObjectClass
<1>3. Seen = pos /\ Seen' = pos + 1
  BY <1>1 DEF Seen
<1>4. {mine'[k] : k \in 1 .. Seen'} = {mine[k] : k \in 1 .. Seen} \cup {c}
  <2>1. 1 .. (pos + 1) = (1 .. pos) \cup {pos + 1}
    BY <1>1
  <2>2. QED
    BY <1>1, <1>3, <2>1
<1>5. Due = {Entry("Cert", d) : d \in Members(leaves)} \cup {Entry("Key", d) : d \in Members(leaves)}
  BY <1>1 DEF Due
<1>6. Due' = {Entry("Cert", d) : d \in Members(leaves')} \cup {Entry("Key", d) : d \in Members(leaves')}
  BY <1>1 DEF Due
<1>7. LeavesAre' /\ ObjectsAre'
  <2>1. CASE Listable(c)
    <3>1. leaves' = Append(leaves, c) /\ objects' = objects \o <<cert, key>>
      BY <2>1 DEF NextCert
    <3> DEFINE one == <<c>>
               two == <<cert, key>>
    <3>2. one \in Seq(Cert) /\ two \in Seq(Shape) /\ leaves' = leaves \o one
      BY <1>1, <1>2, <3>1
    <3>3. Members(one) = {c} /\ Members(two) = {cert, key}
      <4> HIDE DEF c, cert, key
      <4>1. Len(one) = 1 /\ one[1] = c /\ Len(two) = 2 /\ two[1] = cert /\ two[2] = key
        OBVIOUS
      <4> HIDE DEF one, two
      <4>2. 1 .. 1 = {1} /\ 1 .. 2 = {1, 2}
        OBVIOUS
      <4>3. QED
        BY <4>1, <4>2 DEF Members
    <3> HIDE DEF one, Shape
    <3>4. Members(leaves') = Members(leaves) \cup {c}
      BY <1>1, <3>2, <3>3, MembersOfConcat
    <3>5. Members(objects') = Members(objects) \cup {cert, key}
      <4> HIDE DEF two
      <4>1. objects' = objects \o two
        BY <3>1 DEF two
      <4>2. QED
        BY <1>1, <3>2, <3>3, <4>1, MembersOfConcat
    <3>6. LeavesAre'
      BY <1>4, <2>1, <3>4 DEF CompleteInv, LeavesAre, Listable
    <3>7. Due' = Due \cup {cert, key}
      BY <1>5, <1>6, <3>4
    <3>8. ObjectsAre'
      BY <3>5, <3>7 DEF CompleteInv, ObjectsAre
    <3>9. QED
      BY <3>6, <3>8
  <2>2. CASE ~Listable(c)
    <3>1. leaves' = leaves /\ objects' = objects
      BY <2>2 DEF NextCert
    <3>2. LeavesAre'
      BY <1>4, <2>2, <3>1 DEF CompleteInv, LeavesAre, Listable
    <3>3. ObjectsAre'
      BY <1>5, <1>6, <3>1 DEF CompleteInv, ObjectsAre
    <3>4. QED
      BY <3>2, <3>3
  <2>3. QED
    BY <2>1, <2>2
<1>8. Covered'
  <2>1. SUFFICES ASSUME NEW j \in 1 .. Len(leaves'), NEW n \in 1 .. MaxDepth, NEW d \in Cert
                 PROVE  ~AtHop(collection', leaves'[j], n, d)
    BY DEF Covered
  <2>2. leaves' \in Seq(Cert)
    <3>1. Listable(c) => leaves' = Append(leaves, c)
      BY DEF NextCert
    <3>2. ~Listable(c) => leaves' = leaves
      BY DEF NextCert
    <3> HIDE DEF c
    <3>3. c \in Cert /\ leaves \in Seq(Cert)
      BY <1>1, <1>2
    <3>4. Append(leaves, c) \in Seq(Cert)
      BY <3>3
    <3>5. QED
      BY <3>1, <3>2, <3>3, <3>4
  <2>3. leaves'[j] \in Cert /\ n \in Nat \ {0}
    BY <2>2, ListingAssumption
  <2>4. QED
    BY <1>1, <2>3, NothingAboveInEmpty
<1>9. WalkIs' /\ ScanOver'
  BY <1>1 DEF WalkIs, ScanOver
<1>10. QED
  BY <1>7, <1>8, <1>9 DEF CompleteInv

\* The steps that only change the phase, and the opening of the stores.
LEMMA PhasesComplete ==
  ASSUME LInv, CompleteInv,
         OpenStores \/ OpenStoresFails \/ ListObjectsReturns \/ ChangeSystem \/ UNCHANGED listingVars
  PROVE  CompleteInv'
<1>1. CASE OpenStores
  <2>1. /\ phase = "keys" /\ pos = Len(mine) /\ phase' = "chains" /\ pos' = 0
        /\ processed = {} /\ current = NoCert
        /\ UNCHANGED <<mine, leaves, objects, processed, current>>
    BY <1>1 DEF OpenStores, LInv, KeysOK
  <2>2. Seen' = Seen
    BY <2>1 DEF Seen
  <2>3. LeavesAre' /\ ObjectsAre'
    BY <2>1, <2>2, ListedStays
  <2>4. Covered' /\ WalkIs' /\ ScanOver'
    BY <2>1 DEF Covered, WalkIs, ScanOver
  <2>5. QED
    BY <2>3, <2>4 DEF CompleteInv
<1>2. CASE OpenStoresFails
  <2>1. /\ phase = "keys" /\ pos = Len(mine) /\ phase' = "idle" /\ collection = {} /\ current = NoCert
        /\ UNCHANGED <<mine, leaves, pos, objects, collection, roots, processed, current, hops, skipped>>
    BY <1>2 DEF OpenStoresFails, LInv, KeysOK, CompleteInv, ScanOver
  <2>2. Seen' = Seen
    BY <2>1 DEF Seen
  <2>3. LeavesAre' /\ ObjectsAre'
    BY <2>1, <2>2, ListedStays
  <2>4. Covered' /\ WalkIs' /\ ScanOver'
    BY <2>1 DEF CompleteInv, Covered, WalkIs, ScanOver
  <2>5. QED
    BY <2>3, <2>4 DEF CompleteInv
<1>3. CASE ListObjectsReturns
  <2>1. /\ phase = "chains" /\ current = NoCert /\ pos = Len(leaves) /\ phase' = "idle"
        /\ UNCHANGED <<mine, leaves, pos, objects, collection, roots, processed, current, hops, skipped>>
    BY <1>3 DEF ListObjectsReturns
  <2>2. Seen' = Seen
    BY <2>1 DEF Seen
  <2>3. LeavesAre' /\ ObjectsAre'
    BY <2>1, <2>2, ListedStays
  <2>4. Covered' /\ WalkIs' /\ ScanOver'
    BY <2>1 DEF CompleteInv, Covered, WalkIs, ScanOver
  <2>5. QED
    BY <2>3, <2>4 DEF CompleteInv
<1>4. CASE UNCHANGED scan
  <2>1. UNCHANGED <<phase, mine, leaves, pos, objects, collection, roots, processed, current, hops, skipped>>
    BY <1>4 DEF scan
  <2>2. Seen' = Seen
    BY <2>1 DEF Seen
  <2>3. LeavesAre' /\ ObjectsAre'
    BY <2>1, <2>2, ListedStays
  <2>4. Covered' /\ WalkIs' /\ ScanOver'
    BY <2>1 DEF CompleteInv, Covered, WalkIs, ScanOver
  <2>5. QED
    BY <2>3, <2>4 DEF CompleteInv
<1>5. QED
  BY <1>1, <1>2, <1>3, <1>4 DEF ChangeSystem, listingVars

\* A walk begins with everything above its leaf still to come.
LEMMA LeafStepsComplete == LInv /\ CompleteInv /\ (NextLeaf \/ SkipLeaf) => CompleteInv'
<1> SUFFICES ASSUME LInv, CompleteInv, NextLeaf \/ SkipLeaf PROVE CompleteInv'
  OBVIOUS
<1>1. /\ phase = "chains" /\ current = NoCert /\ pos < Len(leaves) /\ pos' = pos + 1 /\ pos \in Nat
      /\ UNCHANGED <<system, phase, mine, leaves, objects, collection, roots, processed>>
      /\ leaves \in Seq(Cert)
  BY DEF NextLeaf, SkipLeaf, LInv, ListingTypeOK
<1>2. Seen' = Seen
  BY <1>1 DEF Seen
<1>3. LeavesAre' /\ ObjectsAre'
  BY <1>1, <1>2, ListedStays
<1>4. ScanOver'
  BY <1>1 DEF ScanOver
<1>5. ASSUME NEW j \in 1 .. Len(leaves), NEW n \in 1 .. MaxDepth, NEW c \in Cert,
             j <= pos, j \notin skipped, AtHop(collection, leaves[j], n, c)
      PROVE  c \in processed
  BY <1>1, <1>5 DEF CompleteInv, Covered
<1>6. CASE NextLeaf
  <2>1. current' = leaves[pos + 1] /\ hops' = 0 /\ skipped' = skipped
    BY <1>6 DEF NextLeaf
  <2>2. leaves[pos + 1] \in Cert /\ leaves[pos + 1] # NoCert /\ pos + 1 \in 1 .. Len(leaves)
    BY <1>1, ListingAssumption
  <2>3. Covered'
    <3>1. SUFFICES ASSUME NEW j \in 1 .. Len(leaves), NEW n \in 1 .. MaxDepth, NEW c \in Cert,
                          j <= pos + 1, j \notin skipped, AtHop(collection, leaves[j], n, c)
                   PROVE  c \in processed \/ (j = pos + 1 /\ n > 0)
      BY <1>1, <2>1, <2>2 DEF Covered
    <3>2. j <= pos \/ j = pos + 1
      BY <1>1, <3>1
    <3>3. n > 0
      BY ListingAssumption
    <3>4. QED
      BY <1>5, <3>1, <3>2, <3>3
  <2>4. WalkIs'
    <3>1. \A c \in Cert : AtHop(collection, leaves[pos + 1], 0, c) => c = leaves[pos + 1]
      BY DEF AtHop
    <3>2. QED
      BY <1>1, <2>1, <2>2, <3>1 DEF WalkIs
  <2>5. QED
    BY <1>3, <1>4, <2>3, <2>4 DEF CompleteInv
<1>7. CASE SkipLeaf
  <2>1. current' = NoCert /\ skipped' = skipped \cup {pos + 1}
    BY <1>1, <1>7 DEF SkipLeaf
  <2>2. Covered'
    <3>1. SUFFICES ASSUME NEW j \in 1 .. Len(leaves), NEW n \in 1 .. MaxDepth, NEW c \in Cert,
                          j <= pos + 1, j \notin skipped \cup {pos + 1},
                          AtHop(collection, leaves[j], n, c)
                   PROVE  c \in processed
      BY <1>1, <2>1 DEF Covered
    <3>2. j <= pos
      BY <1>1, <3>1
    <3>3. QED
      BY <1>5, <3>1, <3>2
  <2>3. WalkIs'
    BY <2>1 DEF WalkIs
  <2>4. QED
    BY <1>3, <1>4, <2>2, <2>3 DEF CompleteInv
<1>8. QED
  BY <1>6, <1>7

\* One round of the walk covers what is one hop further up, or finds that there is nothing.
LEMMA HopComplete == LInv /\ CompleteInv /\ Hop => CompleteInv'
<1> SUFFICES ASSUME LInv, CompleteInv, Hop PROVE CompleteInv'
  OBVIOUS
<1> DEFINE up == IssuerOf(current, collection)
           leaf == leaves[pos]
<1>1. /\ phase = "chains" /\ current # NoCert /\ current \in Cert /\ pos \in 1 .. Len(leaves)
      /\ UNCHANGED <<system, phase, mine, leaves, pos, collection, roots, skipped>>
      /\ hops \in 0 .. MaxDepth /\ MaxDepth \in Nat /\ leaves \in Seq(Cert)
      /\ \A c \in Cert : AtHop(collection, leaf, hops, c) => c = current
  BY ListingAssumption DEF Hop, LInv, ListingTypeOK, CompleteInv, WalkIs
<1>2. leaf \in Cert
  BY <1>1
<1> HIDE DEF leaf
<1>3. Seen' = Seen
  BY <1>1 DEF Seen
<1>4. ScanOver'
  BY <1>1 DEF ScanOver
\* Whatever is above the present one is above its issuer, or is the issuer.
<1>5. ASSUME NEW n \in 1 .. MaxDepth, NEW c \in Cert, AtHop(collection, leaf, n, c), n > hops
      PROVE  /\ up # NoCert
             /\ n = hops + 1 => c = up
             /\ n > hops + 1 => up \notin SelfSigned
  <2>1. hops \in 0 .. (n - 1) /\ n \in Nat
    BY <1>1, <1>5
  <2>2. PICK b \in Cert, d \in Cert :
          /\ AtHop(collection, leaf, hops, b)
          /\ d = IssuerOf(b, collection)
          /\ hops + 1 < n => d \notin SelfSigned
          /\ hops + 1 = n => d = c
    BY <1>2, <1>5, <2>1, HopPrefix
  <2>3. b = current
    BY <1>1, <2>2
  <2>4. QED
    BY <1>1, <2>1, <2>2, <2>3, ListingAssumption
<1>6. \A d \in Cert : AtHop(collection, leaf, hops + 1, d) => d = up
  <2>1. SUFFICES ASSUME NEW d \in Cert, AtHop(collection, leaf, hops + 1, d) PROVE d = up
    OBVIOUS
  <2>2. hops \in 0 .. (hops + 1 - 1) /\ hops + 1 \in Nat
    BY <1>1
  <2>3. PICK b \in Cert, e \in Cert :
          AtHop(collection, leaf, hops, b) /\ e = IssuerOf(b, collection) /\ e = d
    BY <1>2, <2>1, <2>2, HopPrefix
  <2>4. QED
    BY <1>1, <2>3
<1> HIDE DEF up
\* What was covered before is covered still.
<1>7. ASSUME NEW j \in 1 .. Len(leaves), NEW n \in 1 .. MaxDepth, NEW c \in Cert,
             j <= pos, j \notin skipped, AtHop(collection, leaves[j], n, c), c \notin processed
      PROVE  j = pos /\ n > hops /\ AtHop(collection, leaf, n, c)
  BY <1>7 DEF CompleteInv, Covered, leaf
<1>8. CASE up = NoCert \/ hops = MaxDepth
  <2>1. current' = NoCert /\ UNCHANGED <<objects, processed>>
    BY <1>8 DEF Hop, EndOfChain, up
  <2>2. LeavesAre' /\ ObjectsAre'
    BY <1>1, <1>3, <2>1, ListedStays
  <2>3. ASSUME NEW j \in 1 .. Len(leaves), NEW n \in 1 .. MaxDepth, NEW c \in Cert,
               j <= pos, j \notin skipped, AtHop(collection, leaves[j], n, c), c \notin processed
        PROVE  FALSE
    BY <1>1, <1>5, <1>7, <1>8, <2>3
  <2>4. Covered'
    BY <1>1, <2>1, <2>3 DEF Covered
  <2>5. WalkIs'
    BY <2>1 DEF WalkIs
  <2>6. QED
    BY <1>4, <2>2, <2>4, <2>5 DEF CompleteInv
<1>9. CASE up # NoCert /\ hops # MaxDepth
  <2>1. /\ objects' = IF up \in processed THEN objects ELSE objects \o Exposed(up)
        /\ processed' = processed \cup {up}
        /\ current' = IF up \in SelfSigned THEN NoCert ELSE up
        /\ hops' = hops + 1
    BY <1>9 DEF Hop, up
  <2>2. up \in Cert
    BY <1>1, <1>9, IssuerIsCert DEF up
  <2>3. LeavesAre'
    BY <1>1, <1>3 DEF CompleteInv, LeavesAre
  <2>4. ObjectsAre'
    <3>1. CASE up \in processed
      <4>1. objects' = objects /\ processed' = processed
        BY <2>1, <3>1
      <4>2. QED
        BY <1>1, <1>3, <4>1, ListedStays
    <3>2. CASE up \notin processed
      <4> DEFINE Shape == [class : ObjectClass, id : Cert]
                 certs == {Entry("Cert", c) : c \in {up} \cap Named}
                 trusts == {Entry("Trust", c) : c \in {r \in {up} \cap roots : PermitsEmail(r)}}
      <4>1. objects \in Seq(Shape) /\ Exposed(up) \in Seq(Shape) /\ objects' = objects \o Exposed(up)
        BY <2>1, <2>2, <3>2, ExposedShape DEF LInv, ListingTypeOK
      <4>2. Members(objects') = Members(objects) \cup Members(Exposed(up))
        <5> HIDE DEF Shape
        <5>1. QED
          BY <4>1, MembersOfConcat
      <4>3. Members(Exposed(up)) = certs \cup trusts
        <5> DEFINE cert == Entry("Cert", up)
                   trust == Entry("Trust", up)
                   first == IF up \in Named THEN <<cert>> ELSE <<>>
                   second == IF up \in roots /\ PermitsEmail(up) THEN <<trust>> ELSE <<>>
        <5>1. Exposed(up) = first \o second
          BY DEF Exposed
        <5>2. cert \in Shape /\ trust \in Shape
          BY <2>2 DEF Entry, ObjectClass
        <5>3. certs = (IF up \in Named THEN {cert} ELSE {})
          OBVIOUS
        <5>4. trusts = (IF up \in roots /\ PermitsEmail(up) THEN {trust} ELSE {})
          OBVIOUS
        <5> HIDE DEF cert, trust, Shape, certs, trusts
        <5>5. \A x : Len(<<x>>) = 1 /\ <<x>>[1] = x
          OBVIOUS
        <5>6. \A x : Members(<<x>>) = {x}
          <6>1. 1 .. 1 = {1}
            OBVIOUS
          <6>2. QED
            BY <5>5, <6>1 DEF Members
        <5>7. Members(<<>>) = {}
          BY DEF Members
        <5>8. Members(first) = certs /\ Members(second) = trusts
          BY <5>3, <5>4, <5>6, <5>7
        <5>9. first \in Seq(Shape) /\ second \in Seq(Shape)
          BY <5>2
        <5> HIDE DEF first, second
        <5>10. QED
          BY <5>1, <5>8, <5>9, MembersOfConcat
      <4>4. Due' = Due \cup certs \cup trusts
        BY <1>1, <2>1 DEF Due, PermitsEmail
      <4>5. QED
        BY <4>2, <4>3, <4>4 DEF CompleteInv, ObjectsAre
    <3>3. QED
      BY <3>1, <3>2
  <2>5. ASSUME NEW j \in 1 .. Len(leaves), NEW n \in 1 .. MaxDepth, NEW c \in Cert,
               j <= pos, j \notin skipped, AtHop(collection, leaves[j], n, c), c \notin processed'
        PROVE  current' # NoCert /\ j = pos /\ n > hops'
    <3>1. c \notin processed /\ c # up
      BY <2>1, <2>5
    <3>2. j = pos /\ n > hops /\ AtHop(collection, leaf, n, c)
      BY <1>7, <2>5, <3>1
    <3>3. n > hops + 1 /\ up \notin SelfSigned
      <4>1. n # hops + 1
        BY <1>5, <3>1, <3>2
      <4>2. n > hops + 1
        BY <1>1, <3>2, <4>1
      <4>3. QED
        BY <1>5, <3>2, <4>2
    <3>4. QED
      BY <1>9, <2>1, <3>2, <3>3
  <2>6. Covered'
    BY <1>1, <2>5 DEF Covered
  <2>7. WalkIs'
    <3>1. current' # NoCert => current' = up
      BY <2>1
    <3>2. \A d \in Cert : AtHop(collection', leaves'[pos'], hops', d) => d = up
      BY <1>1, <1>6, <2>1 DEF leaf
    <3>3. QED
      BY <1>1, <3>1, <3>2 DEF WalkIs
  <2>8. QED
    BY <1>4, <2>3, <2>4, <2>6, <2>7 DEF CompleteInv
<1>10. QED
  BY <1>8, <1>9

LEMMA ListingStepKeepsComplete ==
  LInv /\ CompleteInv /\ [ListingNext]_listingVars => CompleteInv'
<1> SUFFICES ASSUME LInv, CompleteInv, [ListingNext]_listingVars PROVE CompleteInv'
  OBVIOUS
<1>1. CASE ListObjects \/ ListObjectsFails
  BY <1>1, EmptyIsComplete DEF ListObjects, ListObjectsFails
<1>2. CASE NextCert
  BY <1>2, NextCertComplete
<1>3. CASE NextLeaf \/ SkipLeaf
  BY <1>3, LeafStepsComplete
<1>4. CASE Hop
  BY <1>4, HopComplete
<1>5. CASE OpenStores \/ OpenStoresFails \/ ListObjectsReturns \/ ChangeSystem \/ UNCHANGED listingVars
  BY <1>5, PhasesComplete
<1>6. QED
  BY <1>1, <1>2, <1>3, <1>4, <1>5 DEF ListingNext, ScanStep

\* When the scan is over, what is processed is what lies above the walked leaves.
LEMMA CompleteGivesListsAll == LInv /\ CompleteInv => ListsAll
<1> SUFFICES ASSUME LInv, CompleteInv, phase = "idle"
             PROVE  Members(objects) =
                      {Entry("Cert", c) : c \in Listed} \cup {Entry("Key", c) : c \in Listed}
                        \cup {Entry("Cert", c) : c \in Issuers \cap Named}
                        \cup {Entry("Trust", c) : c \in {r \in Issuers \cap roots : PermitsEmail(r)}}
  BY DEF ListsAll
<1>1. current = NoCert /\ (collection = {} \/ pos = Len(leaves)) /\ leaves \in Seq(Cert)
      /\ MaxDepth \in Nat
  BY ListingAssumption DEF CompleteInv, ScanOver, LInv, ListingTypeOK
<1>2. Members(leaves) = Listed
  <2>1. {mine[k] : k \in 1 .. Seen} = Members(mine)
    BY DEF Seen, Members
  <2>2. QED
    BY <2>1 DEF CompleteInv, LeavesAre, Listed
<1>3. ASSUME NEW c \in Issuers PROVE c \in processed
  <2>1. PICK j \in (1 .. Len(leaves)) \ skipped : c \in Above(collection, leaves[j])
    BY DEF Issuers, Walked
  <2>2. PICK n \in 1 .. MaxDepth : AtHop(collection, leaves[j], n, c)
    BY <2>1 DEF Above
  <2>3. c \in Cert /\ leaves[j] \in Cert /\ n \in Nat \ {0}
    BY <1>1, <2>1 DEF Above
  <2>4. collection # {}
    BY <2>2, <2>3, NothingAboveInEmpty
  <2>5. j <= pos
    BY <1>1, <2>1, <2>4
  <2>6. QED
    BY <1>1, <2>1, <2>2, <2>3, <2>5 DEF CompleteInv, Covered
<1>4. ASSUME NEW c \in processed PROVE c \in Issuers
  <2>1. Reached(c)
    BY DEF LInv, ProcessedOK
  <2>2. QED
    BY <2>1 DEF Reached, Issuers, Walked
<1>5. processed = Issuers
  BY <1>3, <1>4
<1>6. QED
  BY <1>2, <1>5 DEF CompleteInv, ObjectsAre, Due

-----------------------------------------------------------------------------
(* Termination: how many rounds of its loops a scan still has before it. *)

Rounds == MaxDepth + 2
RoundsLeft ==
  CASE phase = "idle" -> 0
    [] phase = "keys" -> 2 + (Len(mine) - pos) * (Rounds + 1) + Len(leaves) * Rounds
    [] phase = "chains" -> 1 + (Len(leaves) - pos) * Rounds
                             + (IF current = NoCert THEN 0 ELSE MaxDepth + 1 - hops)
ScanLength == 2 + Len(mine) * (Rounds + 1)

\* No loop has run past its end.
LoopsOK ==
  /\ phase = "keys" => pos <= Len(mine) /\ Len(leaves) <= pos
  /\ phase = "chains" => pos <= Len(leaves) /\ Len(leaves) <= Len(mine)

\* What the loops do next does not depend on anything but the scan itself.
GoesOn ==
  \/ phase = "keys" /\ pos <= Len(mine)
  \/ phase = "chains" /\ (current # NoCert \/ pos <= Len(leaves))

RoundsShrink == phase # "idle" => UNCHANGED scan \/ RoundsLeft' < RoundsLeft

\* The arithmetic of the rounds.
LEMMA OneRoundLess ==
  ASSUME NEW m \in Nat, NEW n \in Nat, NEW r \in Nat, n < m
  PROVE  /\ (m - n) * r \in Nat /\ m * r \in Nat
         /\ (m - n) * r = (m - (n + 1)) * r + r
         /\ (m + 1) * r = m * r + r
BY SMT

LEMMA RoundsBounded ==
  ASSUME LInv, LoopsOK
  PROVE  RoundsLeft \in Nat /\ RoundsLeft <= ScanLength
<1>1. /\ pos \in Nat /\ Len(mine) \in Nat /\ Len(leaves) \in Nat /\ hops \in 0 .. MaxDepth
      /\ phase \in {"idle", "keys", "chains"} /\ MaxDepth \in Nat
  BY ListingAssumption DEF LInv, ListingTypeOK
<1>2. \A a, b \in Nat : a * b \in Nat
  BY SMT
<1>3. \A a, b, r \in Nat : a <= b => (b - a) * (r + 1) + a * r <= b * (r + 1)
  <2>1. ASSUME NEW a \in Nat, NEW b \in Nat, NEW r \in Nat, a <= b
        PROVE  (b - a) * (r + 1) + a * r <= b * (r + 1)
    <3>1. (b - a) * (r + 1) = b * (r + 1) - (a * r + a)
      BY <2>1, SMT
    <3>2. a * r \in Nat /\ b * (r + 1) \in Nat
      BY <1>2
    <3>3. QED
      BY <3>1, <3>2
  <2>2. QED
    BY <2>1
<1>4. CASE phase = "idle"
  BY <1>1, <1>2, <1>4 DEF RoundsLeft, ScanLength, Rounds
<1>5. CASE phase = "keys"
  <2> DEFINE k == Len(mine)
             n == Len(leaves)
             r == Rounds
  <2>1. k \in Nat /\ n \in Nat /\ r \in Nat /\ n <= pos /\ pos <= k /\ pos \in Nat
    BY <1>1, <1>5 DEF LoopsOK, Rounds
  <2>2. RoundsLeft = 2 + (k - pos) * (r + 1) + n * r /\ ScanLength = 2 + k * (r + 1)
    BY <1>5 DEF RoundsLeft, ScanLength
  <2> HIDE DEF k, n, r
  <2>3. (k - pos) * (r + 1) \in Nat /\ n * r \in Nat /\ pos * r \in Nat /\ k * (r + 1) \in Nat
    BY <1>2, <2>1
  <2>4. n * r <= pos * r
    <3>1. pos * r = n * r + (pos - n) * r
      BY <2>1, SMT
    <3>2. (pos - n) * r \in Nat
      BY <1>2, <2>1
    <3>3. QED
      BY <2>3, <3>1, <3>2
  <2>5. (k - pos) * (r + 1) + pos * r <= k * (r + 1)
    BY <1>3, <2>1
  <2>6. QED
    BY <2>2, <2>3, <2>4, <2>5
<1>6. CASE phase = "chains"
  <2> DEFINE k == Len(mine)
             n == Len(leaves)
             r == Rounds
             w == IF current = NoCert THEN 0 ELSE MaxDepth + 1 - hops
  <2>1. k \in Nat /\ n \in Nat /\ r \in Nat /\ pos <= n /\ n <= k /\ pos \in Nat
    BY <1>1, <1>6 DEF LoopsOK, Rounds
  <2>2. RoundsLeft = 1 + (n - pos) * r + w /\ ScanLength = 2 + k * (r + 1)
    BY <1>6 DEF RoundsLeft, ScanLength
  <2>3. w \in Nat /\ w <= r /\ (w > 0 => pos >= 1)
    <3>1. current # NoCert => pos >= 1
      BY <1>1 DEF LInv, WalkOK
    <3>2. QED
      BY <1>1, <3>1 DEF Rounds
  <2> HIDE DEF k, n, r, w
  <2>4. (n - pos) * r \in Nat /\ k * r \in Nat /\ pos * r \in Nat /\ k * (r + 1) = k * r + k
    BY <1>2, <2>1, SMT
  <2>5. (n - pos) * r + pos * r <= k * r
    <3>1. k * r = (n - pos) * r + pos * r + (k - n) * r
      BY <2>1, SMT
    <3>2. (k - n) * r \in Nat
      BY <1>2, <2>1
    <3>3. QED
      BY <2>4, <3>1, <3>2
  <2>6. w <= pos * r
    <3>1. CASE w = 0
      BY <2>4, <3>1
    <3>2. CASE w > 0
      <4>1. pos * r = r + (pos - 1) * r /\ (pos - 1) * r \in Nat
        <5>1. pos - 1 \in Nat
          BY <2>1, <2>3, <3>2
        <5>2. QED
          BY <1>2, <2>1, <5>1, SMT
      <4>2. QED
        BY <2>1, <2>3, <2>4, <4>1
    <3>3. QED
      BY <2>3, <3>1, <3>2
  <2>7. QED
    BY <2>1, <2>2, <2>3, <2>4, <2>5, <2>6
<1>7. QED
  BY <1>1, <1>4, <1>5, <1>6

LEMMA LoopsKept == LInv /\ LoopsOK /\ [ListingNext]_listingVars => LoopsOK'
<1> SUFFICES ASSUME LInv, LoopsOK, [ListingNext]_listingVars PROVE LoopsOK'
  OBVIOUS
<1>1. /\ pos \in Nat /\ Len(mine) \in Nat /\ Len(leaves) \in Nat
      /\ mine \in Seq(Cert) /\ leaves \in Seq(Cert)
  BY DEF LInv, ListingTypeOK
<1>2. CASE UNCHANGED <<phase, mine, leaves, pos>>
  BY <1>2 DEF LoopsOK
<1>3. CASE ListObjects \/ ListObjectsFails
  <2>1. phase' \in {"keys", "idle"} /\ pos' = 0 /\ leaves' = <<>> /\ Len(mine') \in Nat
    BY <1>3 DEF ListObjects, ListObjectsFails, StartScan, LInv, ListingTypeOK, ListingAssumption
  <2>2. QED
    BY <2>1 DEF LoopsOK
<1>4. CASE NextCert
  <2>1. phase = "keys" /\ phase' = "keys" /\ pos' = pos + 1 /\ pos < Len(mine) /\ mine' = mine
    BY <1>4 DEF NextCert
  <2>2. Len(leaves') <= Len(leaves) + 1
    <3>1. CASE leaves' = leaves
      BY <1>1, <3>1
    <3>2. CASE leaves' = Append(leaves, mine[pos + 1])
      <4>1. mine[pos + 1] \in Cert
        BY <1>1, <2>1
      <4>2. QED
        BY <1>1, <3>2, <4>1
    <3>3. QED
      BY <1>4, <3>1, <3>2 DEF NextCert
  <2>3. Len(leaves') \in Nat
    <3>1. leaves' \in Seq(Cert)
      BY <1>4, NextCertKeepsLInv DEF LInv, ListingTypeOK
    <3>2. QED
      BY <3>1
  <2>4. QED
    BY <1>1, <2>1, <2>2, <2>3 DEF LoopsOK
<1>5. CASE OpenStores
  BY <1>1, <1>5 DEF OpenStores, LoopsOK
<1>6. CASE OpenStoresFails \/ ListObjectsReturns
  BY <1>6 DEF OpenStoresFails, ListObjectsReturns, LoopsOK
<1>7. CASE NextLeaf \/ SkipLeaf
  BY <1>1, <1>7 DEF NextLeaf, SkipLeaf, LoopsOK
<1>8. QED
  BY <1>2, <1>3, <1>4, <1>5, <1>6, <1>7
     DEF ListingNext, ScanStep, ChangeSystem, Hop, listingVars, scan

LEMMA StepShrinks == LInv /\ LoopsOK /\ [ListingNext]_listingVars => RoundsShrink
<1> SUFFICES ASSUME LInv, LoopsOK, [ListingNext]_listingVars, phase # "idle", ~UNCHANGED scan
             PROVE  RoundsLeft' < RoundsLeft
  BY DEF RoundsShrink
<1> DEFINE r == Rounds
<1>1. /\ pos \in Nat /\ Len(mine) \in Nat /\ Len(leaves) \in Nat /\ r \in Nat
      /\ mine \in Seq(Cert) /\ leaves \in Seq(Cert) /\ hops \in 0 .. MaxDepth
      /\ MaxDepth \in Nat /\ r = MaxDepth + 2
  BY ListingAssumption DEF LInv, ListingTypeOK, Rounds
<1>2. ScanStep
  BY DEF ListingNext, ChangeSystem, ListObjects, ListObjectsFails, listingVars
<1>3. RoundsLeft \in Nat
  BY RoundsBounded
<1>4. CASE NextCert
  <2> DEFINE a == Len(mine)
             n == Len(leaves)
             n1 == Len(leaves')
  <2>1. /\ phase = "keys" /\ phase' = "keys" /\ pos' = pos + 1 /\ pos < a /\ mine' = mine
    BY <1>4 DEF NextCert
  <2>2. n1 = n \/ n1 = n + 1
    BY <1>1, <1>4 DEF NextCert
  <2>3. /\ RoundsLeft = 2 + (a - pos) * (r + 1) + n * r
        /\ RoundsLeft' = 2 + (a - (pos + 1)) * (r + 1) + n1 * r
    BY <2>1 DEF RoundsLeft, Rounds
  <2> HIDE DEF a, n, n1, r
  <2>4. a \in Nat /\ n \in Nat /\ r + 1 \in Nat
    BY <1>1 DEF a, n
  <2>5. /\ (a - pos) * (r + 1) = (a - (pos + 1)) * (r + 1) + (r + 1)
        /\ (a - pos) * (r + 1) \in Nat
        /\ n * r \in Nat /\ (n + 1) * r = n * r + r
    BY <1>1, <2>1, <2>4, OneRoundLess
  <2>6. (a - (pos + 1)) * (r + 1) \in Int
    BY <1>1, <2>4
  <2>7. QED
    BY <1>1, <2>2, <2>3, <2>5, <2>6
<1>5. CASE OpenStores
  <2> DEFINE a == Len(mine)
             n == Len(leaves)
  <2>1. /\ phase = "keys" /\ phase' = "chains" /\ pos = a /\ pos' = 0 /\ leaves' = leaves
        /\ mine' = mine /\ current' = current /\ current = NoCert
    BY <1>5 DEF OpenStores, LInv, KeysOK
  <2>2. RoundsLeft = 2 + (a - a) * (r + 1) + n * r /\ RoundsLeft' = 1 + (n - 0) * r + 0
    BY <2>1 DEF RoundsLeft, Rounds
  <2> HIDE DEF a, n, r
  <2>3. a \in Nat /\ n \in Nat
    BY <1>1 DEF a, n
  <2>4. (a - a) * (r + 1) = 0 /\ (n - 0) * r = n * r /\ n * r \in Nat
    BY <1>1, <2>3, SMT
  <2>5. QED
    BY <2>2, <2>4
<1>6. CASE OpenStoresFails \/ ListObjectsReturns
  <2>1. phase' = "idle"
    BY <1>6 DEF OpenStoresFails, ListObjectsReturns
  <2>2. RoundsLeft' = 0
    BY <2>1 DEF RoundsLeft
  <2>3. RoundsLeft > 0
    <3>1. \A m, n \in Nat : n <= m => (m - n) * (r + 1) \in Nat /\ (m - n) * r \in Nat /\ n * r \in Nat
      <4> HIDE DEF r
      <4>1. \A m, n \in Nat : n <= m => m - n \in Nat
        OBVIOUS
      <4>2. \A m, n \in Nat : m * n \in Nat
        BY SMT
      <4>3. QED
        BY <1>1, <4>1, <4>2
    <3>2. CASE phase = "keys"
      <4>1. (Len(mine) - pos) * (r + 1) \in Nat /\ Len(leaves) * r \in Nat
        BY <1>1, <3>1, <3>2 DEF LoopsOK
      <4>2. QED
        BY <3>2, <4>1 DEF RoundsLeft
    <3>3. CASE phase = "chains"
      <4>1. (Len(leaves) - pos) * r \in Nat
        BY <1>1, <3>1, <3>3 DEF LoopsOK
      <4>2. (IF current = NoCert THEN 0 ELSE MaxDepth + 1 - hops) \in Nat
        BY <1>1
      <4>3. QED
        BY <3>3, <4>1, <4>2 DEF RoundsLeft
    <3>4. QED
      BY <3>2, <3>3 DEF LInv, ListingTypeOK
  <2>4. QED
    BY <2>2, <2>3
<1>7. CASE NextLeaf \/ SkipLeaf
  <2> DEFINE n == Len(leaves)
             w1 == IF current' = NoCert THEN 0 ELSE MaxDepth + 1 - hops'
  <2>1. /\ phase = "chains" /\ phase' = "chains" /\ current = NoCert /\ pos' = pos + 1 /\ pos < n
        /\ leaves' = leaves
        /\ current' = NoCert \/ hops' = 0
    BY <1>7 DEF NextLeaf, SkipLeaf
  <2>2. RoundsLeft = 1 + (n - pos) * r + 0 /\ RoundsLeft' = 1 + (n - (pos + 1)) * r + w1
    BY <2>1 DEF RoundsLeft, Rounds
  <2>3. w1 \in Nat /\ w1 < r
    BY <1>1, <2>1
  <2> HIDE DEF n, w1, r
  <2>4. n \in Nat
    BY <1>1 DEF n
  <2>5. (n - pos) * r = (n - (pos + 1)) * r + r /\ (n - pos) * r \in Nat
    BY <1>1, <2>1, <2>4, OneRoundLess
  <2>6. (n - (pos + 1)) * r \in Int
    BY <1>1, <2>4
  <2>7. QED
    BY <1>1, <2>2, <2>3, <2>5, <2>6
<1>8. CASE Hop
  <2> DEFINE p == (Len(leaves) - pos) * r
             w1 == IF current' = NoCert THEN 0 ELSE MaxDepth + 1 - hops'
  <2>1. /\ phase = "chains" /\ phase' = "chains" /\ current # NoCert /\ pos' = pos
        /\ leaves' = leaves /\ (current' = NoCert \/ hops' = hops + 1)
    BY <1>8 DEF Hop, EndOfChain
  <2>2. RoundsLeft = 1 + p + (MaxDepth + 1 - hops) /\ RoundsLeft' = 1 + p + w1
    BY <2>1 DEF RoundsLeft, Rounds
  <2>3. w1 < MaxDepth + 1 - hops /\ w1 \in Int
    BY <1>1, <2>1
  <2>4. p \in Int
    BY <1>1
  <2> HIDE DEF p, w1, r
  <2>5. QED
    BY <1>1, <2>2, <2>3, <2>4
<1>9. QED
  BY <1>2, <1>4, <1>5, <1>6, <1>7, <1>8 DEF ScanStep

-----------------------------------------------------------------------------
(* The theorems. *)

\* What is listed from the chains lies on the chain of a leaf whose walk has begun.
LEMMA LInvGivesOnlyFromChains == LInv => OnlyFromChains
<1> SUFFICES ASSUME LInv PROVE OnlyFromChains
  OBVIOUS
<1>1. ASSUME NEW i \in ChainPart
      PROVE  \E leaf \in Walked : objects[i].id \in Above(collection, leaf)
  <2>1. Reached(objects[i].id)
    BY DEF LInv, ProcessedOK
  <2>2. QED
    BY <2>1 DEF Reached, Walked
<1>2. QED
  BY <1>1 DEF OnlyFromChains, ChainPart, LInv, ProcessedOK

\* The inductive invariant holds throughout: list_objects and list_root_trust_objects keep the
\* pairs, the set of processed issuers and the path of the walk in step.
THEOREM ScanInvariant == ListingSpec => []LInv
<1>1. ListingInit => LInv
  BY ListingInitEstablishes
<1>2. LInv /\ [ListingNext]_listingVars => LInv'
  BY ListingStepKeepsLInv
<1>3. QED
  BY <1>1, <1>2, PTL DEF ListingSpec

\* The state of a scan stays well typed, and no walk counts beyond MAX_CHAIN_DEPTH.
THEOREM ListingTypes == ListingSpec => []ListingTypeOK
<1>1. LInv => ListingTypeOK
  BY DEF LInv
<1>2. QED
  BY <1>1, ScanInvariant, PTL

\* Every certificate of "My" that is listed is followed by its key, and no other key is listed,
\* whatever certificates can not be read and however often the walk goes over them.
THEOREM KeysComeWithCertificates == ListingSpec => []LeavesPaired
<1>1. LInv => LeavesPaired
  BY DEF LInv
<1>2. QED
  BY <1>1, ScanInvariant, PTL

\* What a scan hands over has a certificate for every key in it: what KeysHaveCertificates of
\* ManagerProofs asks of a listing, the entries of which are the Manager's objects.
ListsPairs ==
  \A i \in DOMAIN objects :
    objects[i].class = "Key" =>
      \E j \in DOMAIN objects : objects[j] = [class |-> "Cert", id |-> objects[i].id]

THEOREM ListingsArePaired == ListingSpec => []ListsPairs
<1>1. LInv => ListsPairs
  <2> SUFFICES ASSUME LInv, NEW i \in DOMAIN objects, objects[i].class = "Key"
               PROVE  \E j \in DOMAIN objects : objects[j] = [class |-> "Cert", id |-> objects[i].id]
    BY DEF ListsPairs
  <2>1. /\ LeavesPaired /\ Len(objects) \in Nat /\ Len(leaves) \in Nat
        /\ DOMAIN objects = 1 .. Len(objects)
    BY DEF LInv, ListingTypeOK
  <2>2. i \in 1 .. 2 * Len(leaves)
    BY <2>1 DEF LeavesPaired
  <2>3. PICK k \in 1 .. Len(leaves) : i = 2 * k - 1 \/ i = 2 * k
    <3>1. CASE i % 2 = 0
      <4>1. i = 2 * (i \div 2) /\ i \div 2 \in 1 .. Len(leaves)
        BY <2>1, <2>2, <3>1
      <4>2. QED
        BY <4>1
    <3>2. CASE i % 2 # 0
      <4>1. i = 2 * ((i + 1) \div 2) - 1 /\ (i + 1) \div 2 \in 1 .. Len(leaves)
        BY <2>1, <2>2, <3>2
      <4>2. QED
        BY <4>1
    <3>3. QED
      BY <3>1, <3>2
  <2>4. /\ objects[2 * k - 1] = Entry("Cert", leaves[k]) /\ objects[2 * k] = Entry("Key", leaves[k])
        /\ 2 * k - 1 \in DOMAIN objects
    BY <2>1, <2>3 DEF LeavesPaired
  <2>5. objects[i] = Entry("Key", leaves[k])
    BY <2>3, <2>4 DEF Entry
  <2>6. QED
    BY <2>4, <2>5 DEF Entry
<1>2. QED
  BY <1>1, ScanInvariant, PTL

\* No number of leaves and no cycle of issuers makes the walk list an issuer twice.
THEOREM IssuersOnce == ListingSpec => []EachOnce
<1>1. LInv => EachOnce
  BY DEF LInv
<1>2. QED
  BY <1>1, ScanInvariant, PTL

\* No trust record is made for anything but an email root above one of the user's own
\* certificates, in any store.
THEOREM TrustOnlyFromChains == ListingSpec => []OnlyFromChains
<1>1. LInv => OnlyFromChains
  BY LInvGivesOnlyFromChains
<1>2. QED
  BY <1>1, ScanInvariant, PTL

\* A scan that is over has listed all there was to list and nothing else: the shortcut over issuers
\* met before, the bound on the walk and the failing calls lose nothing of the other chains.
THEOREM NothingIsMissed == ListingSpec => []ListsAll
<1>1. ListingInit => CompleteInv
  BY ListingInitIsComplete
<1>2. LInv /\ LInv' /\ CompleteInv /\ [ListingNext]_listingVars => CompleteInv'
  BY ListingStepKeepsComplete
<1>3. LInv /\ CompleteInv => ListsAll
  BY CompleteGivesListsAll
<1>4. QED
  BY <1>1, <1>2, <1>3, ScanInvariant, PTL DEF ListingSpec

\* A scan ends, however the certificates sign one another: as long as it is under way one of its
\* loops can go on (the calls of Windows return, well or badly), each round brings it nearer to its
\* end whatever happens to the stores meanwhile, and it has not more than ScanLength of them, which
\* "My" and MAX_CHAIN_DEPTH alone determine (the loops of list_objects and
\* list_root_trust_objects).
THEOREM ScanEnds ==
  ListingSpec => /\ [](RoundsLeft \in Nat /\ RoundsLeft <= ScanLength)
                 /\ [](phase # "idle" => GoesOn)
                 /\ [][RoundsShrink]_listingVars
<1>1. ListingInit => LoopsOK
  BY DEF ListingInit, LoopsOK
<1>2. LInv /\ LoopsOK /\ [ListingNext]_listingVars => LoopsOK' /\ RoundsShrink
  BY LoopsKept, StepShrinks
<1>3. LInv /\ LoopsOK => RoundsLeft \in Nat /\ RoundsLeft <= ScanLength
  BY RoundsBounded
<1>4. LInv /\ LoopsOK => (phase # "idle" => GoesOn)
  BY DEF LInv, ListingTypeOK, LoopsOK, GoesOn
<1>5. QED
  BY <1>1, <1>2, <1>3, <1>4, ScanInvariant, PTL DEF ListingSpec

-----------------------------------------------------------------------------
(* Operations with keys. *)


Kind == {"sign", "decrypt", "encrypt"}

\* The operation carries what was parsed from its request, and only what was accepted.
OpOK ==
  op # NoOp =>
    /\ op.kind \in Kind /\ op.key \in Key
    /\ op.parsed = Parse(op.kind, op.request) /\ "error" \notin DOMAIN op.parsed
    /\ op.plain \in Nat

\* A call is idle, on its way, or has measured; and it belongs to an operation.
CallOK ==
  /\ \/ call = NoCall
     \/ call \in [at : {"entered", "typed", "acquired", "padded"}, output : BOOLEAN]
     \/ call \in [at : {"measured"}, output : {TRUE}, size : Nat]
  /\ call # NoCall => op # NoOp
  /\ call.at = "measured" /\ op.kind # "decrypt" => call.size = Size[op.key]

\* What is owned at each point of the way.
HeldOK ==
  /\ held \subseteq Resource
  /\ open = [r \in Resource |-> IF r \in held THEN 1 ELSE 0]
  /\ call.at \in {"idle", "entered"} => held = {}
  /\ call.at = "typed" => held \subseteq {"context"} /\ (op.kind = "decrypt" => held = {})
  /\ call.at = "padded" /\ op.kind = "decrypt" => held = {}

\* Every length reported so far has room for the output.
ReportOK ==
  /\ reported \in Int
  /\ op # NoOp /\ reported # NoReport =>
       reported >= (IF op.kind = "decrypt" THEN op.plain ELSE Size[op.key])

\* Output is the end of an operation.
LastOK == "written" \in DOMAIN last => op = NoOp /\ LengthKept

KInv == OpOK /\ CallOK /\ HeldOK /\ ReportOK /\ LastOK

-----------------------------------------------------------------------------
(* Mechanisms. *)

\* parse_rsa_cipher_mechanism loses no field of what it accepts.
LEMMA CipherKept ==
  ASSUME NEW m, "error" \notin DOMAIN ParseCipher(m)
  PROVE  \/ m.type = "PKCS" /\ ParseCipher(m).padding = "PKCS1"
         \/ /\ m.type = "OAEP" /\ ParseCipher(m).padding = "OAEP"
            /\ ParseCipher(m).hash = m.hash /\ m.hash \in Supported /\ m.mgf = m.hash
            /\ ParseCipher(m).label = (IF m.length = 0 THEN "empty" ELSE m.label)
<1>1. \A x : "error" \in DOMAIN [error |-> x]
  OBVIOUS
<1>2. CASE m.type = "PKCS"
  <2>1. ParseCipher(m) = [padding |-> "PKCS1"] \/ \E x : ParseCipher(m) = [error |-> x]
    BY <1>2 DEF ParseCipher
  <2>2. QED
    BY <1>1, <1>2, <2>1
<1>3. CASE m.type # "PKCS"
  <2> DEFINE accepted == [padding |-> "OAEP", hash |-> m.hash,
                          label |-> IF m.length = 0 THEN "empty" ELSE m.label]
  <2>1. \/ \E x : ParseCipher(m) = [error |-> x]
        \/ /\ ParseCipher(m) = accepted
           /\ m.type = "OAEP" /\ m.hash \in Supported /\ m.mgf = m.hash
    BY <1>3 DEF ParseCipher
  <2>2. QED
    BY <1>1, <2>1
<1>4. QED
  BY <1>2, <1>3

LEMMA OpGivesRequest ==
  ASSUME OpOK, op # NoOp, op.kind # "sign"
  PROVE  /\ op.parsed = ParseCipher(op.request)
         /\ "error" \notin DOMAIN ParseCipher(op.request)
BY DEF OpOK, Parse

LEMMA KInvGivesProperties ==
  KInv => HandlesReturned /\ CngDoesAsAsked /\ AcceptedIsUsable /\ LengthKept
<1> SUFFICES ASSUME KInv PROVE HandlesReturned /\ CngDoesAsAsked /\ AcceptedIsUsable /\ LengthKept
  OBVIOUS
<1>1. HandlesReturned
  BY DEF KInv, HeldOK, HandlesReturned, NoCall
<1>2. CngDoesAsAsked
  <2> SUFFICES ASSUME call # NoCall, op.kind # "sign"
               PROVE  \/ op.request.type = "PKCS" /\ op.parsed.padding = "PKCS1"
                      \/ /\ op.request.type = "OAEP"
                         /\ op.parsed.padding = "OAEP"
                         /\ op.parsed.hash = op.request.hash
                         /\ op.request.mgf = op.parsed.hash
                         /\ op.parsed.label = (IF op.request.length = 0 THEN "empty" ELSE op.request.label)
    BY DEF CngDoesAsAsked
  <2>1. op # NoOp
    BY DEF KInv, CallOK
  <2>2. QED
    BY <2>1, OpGivesRequest, CipherKept DEF KInv
<1>3. AcceptedIsUsable
  <2> SUFFICES ASSUME call # NoCall, op.kind # "sign" PROVE PaddingFits(op.kind, op.key, op.parsed)
    BY DEF AcceptedIsUsable
  <2>1. op # NoOp
    BY DEF KInv, CallOK
  <2>2. op.parsed.padding = "PKCS1" \/ op.parsed.hash \in Supported
    BY <2>1, OpGivesRequest, CipherKept DEF KInv
  <2>3. QED
    BY <2>2 DEF PaddingFits
<1>4. LengthKept
  BY DEF KInv, LastOK, LengthKept
<1>5. QED
  BY <1>1, <1>2, <1>3, <1>4

-----------------------------------------------------------------------------
(* The steps. *)

LEMMA KeyInitEstablishes == KeyInit => KInv
<1> SUFFICES ASSUME KeyInit PROVE KInv
  OBVIOUS
<1>1. op = NoOp /\ call = NoCall /\ held = {} /\ open = [r \in Resource |-> 0]
      /\ last = NoReturn /\ reported = NoReport
  BY DEF KeyInit
<1>2. OpOK /\ CallOK
  BY <1>1 DEF OpOK, CallOK, NoCall
<1>3. HeldOK
  BY <1>1 DEF HeldOK, NoCall
<1>4. ReportOK /\ LastOK
  BY <1>1 DEF ReportOK, LastOK, NoReport, NoReturn
<1>5. QED
  BY <1>2, <1>3, <1>4 DEF KInv

LEMMA BeginKeepsKInv ==
  ASSUME KInv, NEW kind \in Kind, NEW key \in Key, NEW object, NEW m, NEW plain \in Nat,
         BeginOperation(kind, key, object, m, plain)
  PROVE  KInv'
<1> DEFINE parsed == Parse(kind, m)
<1>1. op = NoOp /\ reported' = NoReport /\ UNCHANGED <<call, held, open>>
  BY DEF BeginOperation
<1>2. call = NoCall /\ held = {}
  BY <1>1 DEF KInv, CallOK, HeldOK, NoCall
<1>3. CASE "error" \in DOMAIN parsed
  <2>1. op' = NoOp /\ last' = [code |-> parsed.error, cause |-> "request"]
    BY <1>1, <1>3 DEF BeginOperation
  <2>2. "written" \notin DOMAIN last'
    BY <2>1
  <2>3. QED
    BY <1>1, <1>2, <2>1, <2>2
    DEF KInv, OpOK, CallOK, HeldOK, ReportOK, LastOK, NoCall, NoReport
<1>4. CASE "error" \notin DOMAIN parsed
  <2>1. /\ op' = [kind |-> kind, key |-> key, object |-> object, request |-> m,
                  parsed |-> parsed, plain |-> plain]
        /\ last' = [code |-> "OK"]
    BY <1>4 DEF BeginOperation
  <2>2. "written" \notin DOMAIN last'
    BY <2>1
  <2>3. OpOK'
    BY <1>4, <2>1 DEF OpOK
  <2>4. QED
    BY <1>1, <1>2, <2>2, <2>3 DEF KInv, CallOK, HeldOK, ReportOK, LastOK, NoCall, NoReport
<1>5. QED
  BY <1>3, <1>4

LEMMA CallBackendKeepsKInv ==
  ASSUME KInv, NEW output \in BOOLEAN, CallBackend(output)
  PROVE  KInv'
<1>1. /\ op # NoOp /\ call = NoCall /\ call' = [at |-> "entered", output |-> output]
      /\ UNCHANGED <<op, held, open, last, reported>>
  BY DEF CallBackend
<1>2. held = {}
  BY <1>1 DEF KInv, HeldOK, NoCall
<1>3. OpOK' /\ ReportOK' /\ LastOK'
  BY <1>1 DEF KInv, OpOK, ReportOK, LastOK, LengthKept
<1>4. CallOK' /\ HeldOK'
  BY <1>1, <1>2 DEF KInv, CallOK, HeldOK
<1>5. QED
  BY <1>3, <1>4 DEF KInv

\* Whatever a call returns, it has freed what it owned.
LEMMA ReturnsKeepsKInv ==
  ASSUME KInv, NEW ret, Returns(ret), ReportOK', LastOK'
  PROVE  KInv'
<1>1. call' = NoCall /\ held' = {} /\ (op' = NoOp \/ op' = op)
  BY DEF Returns
<1>2. open' = [r \in Resource |-> 0]
  <2>1. \A r \in Resource : open[r] - (IF r \in held THEN 1 ELSE 0) = 0
    BY DEF KInv, HeldOK
  <2>2. QED
    BY <2>1 DEF Returns
<1>3. OpOK'
  BY <1>1 DEF KInv, OpOK
<1>4. CallOK' /\ HeldOK'
  BY <1>1, <1>2 DEF CallOK, HeldOK, NoCall
<1>5. QED
  BY <1>3, <1>4 DEF KInv

LEMMA FailsKeepsKInv ==
  ASSUME KInv, NEW code, NEW cause, Fails(code, cause)
  PROVE  KInv'
<1> DEFINE ret == [code |-> code, cause |-> cause]
<1>1. Returns(ret) /\ reported' = reported /\ last' = ret /\ (op' = NoOp \/ op' = op)
  BY DEF Fails, Returns
<1>2. "written" \notin DOMAIN last'
  BY <1>1
<1>3. ReportOK' /\ LastOK'
  BY <1>1, <1>2 DEF KInv, ReportOK, LastOK
<1> HIDE DEF ret
<1>4. QED
  BY <1>1, <1>3, ReturnsKeepsKInv

\* A step that only goes on.
LEMMA GoesKeepsKInv ==
  ASSUME KInv, call.at \in {"entered", "typed", "acquired", "padded"},
         NEW at \in {"typed", "acquired", "padded"}, Goes(at),
         UNCHANGED <<op, last, reported>>,
         held' \subseteq Resource, open' = [r \in Resource |-> IF r \in held' THEN 1 ELSE 0],
         at = "typed" => held' \subseteq {"context"} /\ (op.kind = "decrypt" => held' = {}),
         at = "padded" /\ op.kind = "decrypt" => held' = {}
  PROVE  KInv'
<1>1. call \in [at : {"entered", "typed", "acquired", "padded"}, output : BOOLEAN] /\ call # NoCall
  <2>1. call # NoCall
    BY DEF NoCall
  <2>2. call \notin [at : {"measured"}, output : {TRUE}, size : Nat]
    <3>1. \A c \in [at : {"measured"}, output : {TRUE}, size : Nat] : c.at = "measured"
      OBVIOUS
    <3>2. QED
      BY <3>1
  <2>3. QED
    BY <2>1, <2>2 DEF KInv, CallOK
<1>2. call' \in [at : {"entered", "typed", "acquired", "padded"}, output : BOOLEAN] /\ call'.at = at
  BY <1>1 DEF Goes
<1>3. CallOK' /\ HeldOK'
  BY <1>1, <1>2 DEF KInv, CallOK, HeldOK
<1>4. OpOK' /\ ReportOK' /\ LastOK'
  BY DEF KInv, OpOK, ReportOK, LastOK, LengthKept
<1>5. QED
  BY <1>3, <1>4 DEF KInv

\* Taking what is not held yet.
LEMMA OwnCounts ==
  ASSUME KInv, NEW r \in Resource, r \notin held, Own(r)
  PROVE  /\ held' = held \cup {r} /\ held' \subseteq Resource
         /\ open' = [q \in Resource |-> IF q \in held' THEN 1 ELSE 0]
<1>1. open = [q \in Resource |-> IF q \in held THEN 1 ELSE 0] /\ held \subseteq Resource
  BY DEF KInv, HeldOK
<1>2. held' = held \cup {r} /\ open' = [open EXCEPT ![r] = @ + 1]
  BY DEF Own
<1>3. open' = [q \in Resource |-> IF q = r THEN 1 ELSE open[q]]
  BY <1>1, <1>2
<1>4. QED
  BY <1>1, <1>2, <1>3

LEMMA CheckKeyTypeKeeps == KInv /\ CheckKeyType => KInv'
<1> SUFFICES ASSUME KInv, CheckKeyType PROVE KInv'
  OBVIOUS
<1>1. CASE Fails(InvalidKey, "key")
  BY <1>1, FailsKeepsKInv
<1>2. CASE Goes("typed") /\ UNCHANGED <<op, held, open, last, reported>>
  <2>1. held = {} /\ open = [r \in Resource |-> IF r \in held THEN 1 ELSE 0]
    BY DEF CheckKeyType, KInv, HeldOK
  <2>2. QED
    BY <1>2, <2>1, GoesKeepsKInv DEF CheckKeyType
<1>3. QED
  BY <1>1, <1>2 DEF CheckKeyType

LEMMA MakeContextKeeps == KInv /\ MakeContext => KInv'
<1> SUFFICES ASSUME KInv, MakeContext PROVE KInv'
  OBVIOUS
<1>1. CASE \E status \in Status : Fails(StatusCode(status), "windows")
  BY <1>1, FailsKeepsKInv
<1>2. CASE Own("context") /\ Goes("typed") /\ UNCHANGED <<op, last, reported>>
  <2>1. held = {} /\ "context" \in Resource /\ op.kind = "encrypt" /\ call.at = "entered"
    BY DEF MakeContext, KInv, HeldOK, Resource
  <2>2. /\ held' = {"context"} /\ held' \subseteq Resource
        /\ open' = [q \in Resource |-> IF q \in held' THEN 1 ELSE 0]
    BY <1>2, <2>1, OwnCounts
  <2>3. QED
    BY <1>2, <2>1, <2>2, GoesKeepsKInv
<1>3. QED
  BY <1>1, <1>2 DEF MakeContext

LEMMA AcquireKeyKeeps == KInv /\ AcquireKey => KInv'
<1> SUFFICES ASSUME KInv, AcquireKey PROVE KInv'
  OBVIOUS
<1>1. CASE \E code : Fails(code, "windows")
  BY <1>1, FailsKeepsKInv
<1>2. CASE Own("privateKey") /\ Goes("acquired") /\ UNCHANGED <<op, last, reported>>
  <2>1. held = {} /\ "privateKey" \in Resource /\ call.at \in {"entered", "padded"}
    BY DEF AcquireKey, AboutToAcquire, KInv, HeldOK, Resource
  <2>2. /\ held' \subseteq Resource
        /\ open' = [q \in Resource |-> IF q \in held' THEN 1 ELSE 0]
    BY <1>2, <2>1, OwnCounts
  <2>3. QED
    BY <1>2, <2>1, <2>2, GoesKeepsKInv
<1>3. QED
  BY <1>1, <1>2 DEF AcquireKey

LEMMA ImportPublicKeyKeeps == KInv /\ ImportPublicKey => KInv'
<1> SUFFICES ASSUME KInv, ImportPublicKey PROVE KInv'
  OBVIOUS
<1>1. CASE \E status \in Status : Fails(StatusCode(status), "windows")
  BY <1>1, FailsKeepsKInv
<1>2. CASE Own("publicKey") /\ Goes("acquired") /\ UNCHANGED <<op, last, reported>>
  <2>1. "publicKey" \notin held /\ "publicKey" \in Resource /\ call.at \in {"entered", "typed"}
    BY DEF ImportPublicKey, KInv, HeldOK, Resource
  <2>2. /\ held' \subseteq Resource
        /\ open' = [q \in Resource |-> IF q \in held' THEN 1 ELSE 0]
    BY <1>2, <2>1, OwnCounts
  <2>3. QED
    BY <1>2, <2>1, <2>2, GoesKeepsKInv
<1>3. QED
  BY <1>1, <1>2 DEF ImportPublicKey

LEMMA BuildPaddingKeeps == KInv /\ BuildPadding => KInv'
<1> SUFFICES ASSUME KInv, BuildPadding PROVE KInv'
  OBVIOUS
<1>1. CASE \E code : Fails(code, "request")
  BY <1>1, FailsKeepsKInv
<1>2. CASE Goes("padded") /\ UNCHANGED <<op, held, open, last, reported>>
  <2>1. /\ held \subseteq Resource /\ open = [r \in Resource |-> IF r \in held THEN 1 ELSE 0]
        /\ op.kind = "decrypt" => held = {}
        /\ call.at \in {"typed", "acquired"}
    BY DEF BuildPadding, KInv, HeldOK
  <2>2. QED
    BY <1>2, <2>1, GoesKeepsKInv
<1>3. QED
  BY <1>1, <1>2 DEF BuildPadding

LEMMA MeasureKeeps == KInv /\ call # NoCall /\ Measure => KInv'
<1> SUFFICES ASSUME KInv, call # NoCall, Measure PROVE KInv'
  OBVIOUS
<1>1. CASE \E status \in Status : Fails(StatusCode(status), "windows")
  BY <1>1, FailsKeepsKInv
<1>2. /\ op # NoOp /\ op.key \in Key /\ op.plain \in Nat /\ Size[op.key] \in Nat
      /\ call.at \in {"acquired", "padded"}
  BY KeyAssumption DEF KInv, CallOK, OpOK, Measure, Ready
<1>3. \A n \in Lengths : n \in Nat /\ n >= (IF op.kind = "decrypt" THEN op.plain ELSE Size[op.key])
  BY <1>2 DEF Lengths
<1>4. ASSUME NEW n \in Lengths, call' = [at |-> "measured", output |-> TRUE, size |-> n],
             UNCHANGED <<op, held, open, last, reported>>
      PROVE  KInv'
  <2>1. n \in Nat /\ (op.kind # "decrypt" => n = Size[op.key])
    BY <1>3 DEF Lengths
  <2>2. CallOK'
    BY <1>2, <1>4, <2>1 DEF CallOK
  <2>3. HeldOK'
    BY <1>4 DEF KInv, HeldOK
  <2>4. OpOK' /\ ReportOK' /\ LastOK'
    BY <1>4 DEF KInv, OpOK, ReportOK, LastOK, LengthKept
  <2>5. QED
    BY <2>2, <2>3, <2>4 DEF KInv
<1>5. ASSUME NEW n \in Lengths, Returns([code |-> "OK", length |-> n]),
             reported' = IF reported = NoReport \/ n < reported THEN n ELSE reported
      PROVE  KInv'
  <2> DEFINE ret == [code |-> "OK", length |-> n]
  <2>1. Returns(ret) /\ last' = ret /\ (op' = NoOp \/ op' = op)
    BY <1>5 DEF Returns
  <2>2. "written" \notin DOMAIN last'
    BY <2>1
  <2>3. LastOK'
    BY <2>2 DEF LastOK
  <2>4. ReportOK'
    BY <1>2, <1>3, <1>5, <2>1 DEF KInv, ReportOK
  <2> HIDE DEF ret
  <2>5. QED
    BY <2>1, <2>3, <2>4, ReturnsKeepsKInv
<1>6. QED
  BY <1>1, <1>4, <1>5 DEF Measure

LEMMA ProduceKeeps == KInv /\ call # NoCall /\ Produce => KInv'
<1> SUFFICES ASSUME KInv, call # NoCall, Produce PROVE KInv'
  OBVIOUS
<1>1. CASE \E code : Fails(code, "windows")
  BY <1>1, FailsKeepsKInv
<1>2. /\ op # NoOp /\ op.key \in Key /\ op.plain \in Nat /\ Size[op.key] \in Nat
      /\ call.at = "measured" /\ call.output = TRUE /\ call.size \in Nat
      /\ op.kind # "decrypt" => call.size = Size[op.key]
  BY KeyAssumption DEF KInv, CallOK, OpOK, Produce, NoCall
<1>3. ASSUME NEW written \in (IF op.kind = "decrypt" THEN {op.plain} ELSE 1 .. call.size),
             op.kind = "decrypt" \/ written = call.size,
             Returns([code |-> "OK", length |-> written, written |-> written]),
             reported' = reported
      PROVE  KInv'
  <2> DEFINE ret == [code |-> "OK", length |-> written, written |-> written]
  <2>1. Returns(ret) /\ last' = ret /\ op' = NoOp
    BY <1>2, <1>3 DEF Returns
  <2>2. last'.length = written /\ last'.written = written
    BY <2>1
  <2>3. written = IF op.kind = "decrypt" THEN op.plain ELSE Size[op.key]
    BY <1>2, <1>3
  <2>4. reported # NoReport => written <= reported
    BY <1>2, <2>3 DEF KInv, ReportOK
  <2>5. LastOK'
    BY <1>3, <2>1, <2>2, <2>4 DEF LastOK, LengthKept
  <2>6. ReportOK'
    BY <1>3, <2>1 DEF KInv, ReportOK
  <2> HIDE DEF ret
  <2>7. QED
    BY <2>1, <2>5, <2>6, ReturnsKeepsKInv
<1>4. QED
  BY <1>1, <1>3 DEF Produce

LEMMA KeyStepKeepsKInv == KInv /\ [KeyNext]_keyVars => KInv'
<1> SUFFICES ASSUME KInv, [KeyNext]_keyVars PROVE KInv'
  OBVIOUS
<1>1. ASSUME NEW kind \in Kind, NEW key \in Key, NEW object \in {"key", "cert"}, NEW m \in Request,
             NEW plain \in (IF kind = "decrypt" THEN 0 .. Size[key] ELSE {0}),
             BeginOperation(kind, key, object, m, plain)
      PROVE  KInv'
  <2>1. plain \in Nat
    BY KeyAssumption
  <2>2. QED
    BY <1>1, <2>1, BeginKeepsKInv
<1>2. ASSUME NEW output \in BOOLEAN, CallBackend(output) PROVE KInv'
  BY <1>2, CallBackendKeepsKInv
<1>3. CASE BackendStep
  BY <1>3, CheckKeyTypeKeeps, MakeContextKeeps, AcquireKeyKeeps, ImportPublicKeyKeeps,
     BuildPaddingKeeps, MeasureKeeps, ProduceKeeps DEF BackendStep
<1>4. CASE UNCHANGED keyVars
  BY <1>4 DEF keyVars, KInv, OpOK, CallOK, HeldOK, ReportOK, LastOK, LengthKept
<1>5. QED
  BY <1>1, <1>2, <1>3, <1>4 DEF KeyNext, Kind

-----------------------------------------------------------------------------
(* The theorems. *)

\* The operation, the call and what it owns stay in step on every path through the backend.
THEOREM KeyInvariant == KeySpec => []KInv
<1>1. KeyInit => KInv
  BY KeyInitEstablishes
<1>2. KInv /\ [KeyNext]_keyVars => KInv'
  BY KeyStepKeepsKInv
<1>3. QED
  BY <1>1, <1>2, PTL DEF KeySpec

\* No way out of a call, whatever fails in it, leaks a certificate context or a key handle, or
\* frees one twice or one that is not the module's.
THEOREM NoHandleLeaks == KeySpec => []HandlesReturned
<1>1. KInv => HandlesReturned
  BY KInvGivesProperties
<1>2. QED
  BY <1>1, KeyInvariant, PTL

\* An encryption or decryption never reaches CNG with other parameters than were asked for.
THEOREM ParametersKept == KeySpec => []CngDoesAsAsked
<1>1. KInv => CngDoesAsAsked
  BY KInvGivesProperties
<1>2. QED
  BY <1>1, KeyInvariant, PTL

\* What C_EncryptInit and C_DecryptInit accept, the backend has a name for.
THEOREM AcceptedMechanismsWork == KeySpec => []AcceptedIsUsable
<1>1. KInv => AcceptedIsUsable
  BY KInvGivesProperties
<1>2. QED
  BY <1>1, KeyInvariant, PTL

\* The output fits every length that was reported for the operation, although each call measures
\* it anew.
THEOREM OutputFitsReports == KeySpec => []LengthKept
<1>1. KInv => LengthKept
  BY KInvGivesProperties
<1>2. QED
  BY <1>1, KeyInvariant, PTL
=============================================================================
