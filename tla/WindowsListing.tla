--------------------------- MODULE WindowsListing ---------------------------
(***************************************************************************)
(* list_objects of backend_windows.rs: what one scan of the Windows        *)
(* certificate stores hands to the Manager.  First the certificates of     *)
(* "My" that have a private key, each followed by its key, then, for each  *)
(* of them, the certificates of its issuer chain and the trust records of  *)
(* those Windows trusts as roots.                                          *)
(*                                                                         *)
(* An opened store is a snapshot, so the stores can change between the two *)
(* times a scan opens them.  A certificate stands for its DER bytes: what  *)
(* is read out of it alone never changes.                                  *)
(***************************************************************************)
EXTENDS Integers, Sequences

CONSTANTS
  Cert,        \* certificates
  NoCert,      \* no issuer was found
  Candidates,  \* certificate -> the certificates whose name and key make them its issuer
  SelfSigned,  \* those with the issuer name equal to the subject name
  Named,       \* those whose subject name CertNameToStrA can write
  Usable,      \* those with an elliptic curve key, or an RSA key that reads as DER
  Purposes,    \* certificate -> the usages its EKU extension lists; none when there is no extension
  Unqueried,   \* those whose EKU extension can not be read
  Systems,     \* the contents of the stores: "My" with keys in order, "My" without, "CA", "ROOT"
  MaxDepth     \* MAX_CHAIN_DEPTH

ASSUME ListingAssumption ==
  /\ NoCert \notin Cert
  /\ Candidates \in [Cert -> SUBSET Cert]
  /\ SelfSigned \subseteq Cert /\ Named \subseteq Cert /\ Usable \subseteq Cert
  /\ Unqueried \subseteq Cert
  /\ Systems \subseteq
       [my : Seq(Cert), keyless : SUBSET Cert, ca : SUBSET Cert, root : SUBSET Cert]
  /\ MaxDepth \in Nat \ {0}

VARIABLES
  system,      \* what the stores hold now
  phase,       \* where the scan is
  mine,        \* the snapshot of "My" the scan enumerates
  leaves,      \* leaf_cert_values: the certificates listed with their key
  pos,         \* how far the loop over the one or the other has come
  objects,     \* the list under construction; once the scan is over, its result
  collection,  \* the union of the snapshots the issuers are looked up in
  roots,       \* the snapshot of "ROOT"
  processed,   \* the issuers met so far
  current,     \* the certificate whose issuer is next, if a chain is being walked
  hops,        \* the issuers of this chain so far
  skipped      \* history: positions of leaves whose certificate context could not be made

scan == <<phase, mine, leaves, pos, objects, collection, roots, processed, current, hops, skipped>>
listingVars == <<system, scan>>

Entry(class, c) == [class |-> class, id |-> c]
ObjectClass == {"Cert", "Key", "Trust"}
Members(s) == {s[i] : i \in 1 .. Len(s)}

\* Cert::new needs the name alone, Key::new the key as well.
Listable(c) == c \in Named /\ c \in Usable

\* eku_permits_email_protection
PermitsEmail(c) == c \notin Unqueried /\ (Purposes[c] = {} \/ "emailProtection" \in Purposes[c])

\* CertGetIssuerCertificateFromStore picks one of several, for the same store the same.
IssuerOf(c, store) ==
  IF Candidates[c] \cap store = {} THEN NoCert ELSE CHOOSE i \in Candidates[c] : i \in store

ListingInit ==
  /\ system \in Systems
  /\ phase = "idle"
  /\ mine = <<>> /\ leaves = <<>> /\ pos = 0 /\ objects = <<>>
  /\ collection = {} /\ roots = {} /\ processed = {}
  /\ current = NoCert /\ hops = 0 /\ skipped = {}

\* Certificates come and go, and Windows receives roots, at any time.
ChangeSystem ==
  /\ system' \in Systems
  /\ UNCHANGED scan

-----------------------------------------------------------------------------
(* The certificates with keys. *)

StartScan ==
  /\ leaves' = <<>> /\ pos' = 0 /\ objects' = <<>>
  /\ collection' = {} /\ roots' = {} /\ processed' = {}
  /\ current' = NoCert /\ hops' = 0 /\ skipped' = {}

\* list_objects is called: "My" opens ...
ListObjects ==
  /\ phase = "idle"
  /\ phase' = "keys"
  /\ mine' = system.my
  /\ StartScan
  /\ UNCHANGED system

\* ... or does not, and the list is empty.
ListObjectsFails ==
  /\ phase = "idle"
  /\ phase' = "idle"
  /\ mine' = <<>>
  /\ StartScan
  /\ UNCHANGED system

NextCert_Halves ==
  /\ phase = "keys"
  /\ pos < Len(mine)
  /\ LET c == mine[pos + 1] IN
       /\ leaves' = IF c \in Named THEN Append(leaves, c) ELSE leaves
       /\ objects' = objects \o (IF Listable(c) THEN <<Entry("Cert", c), Entry("Key", c)>>
                                 ELSE IF c \in Named THEN <<Entry("Cert", c)>> ELSE <<>>)
  /\ pos' = pos + 1
  /\ UNCHANGED <<system, phase, mine, collection, roots, processed, current, hops, skipped>>

\* One round of the enumeration.  If either half fails, neither is listed.
NextCert ==
  /\ phase = "keys"
  /\ pos < Len(mine)
  /\ LET c == mine[pos + 1] IN
       IF Listable(c)
       THEN /\ leaves' = Append(leaves, c)
            /\ objects' = objects \o <<Entry("Cert", c), Entry("Key", c)>>
       ELSE UNCHANGED <<leaves, objects>>
  /\ pos' = pos + 1
  /\ UNCHANGED <<system, phase, mine, collection, roots, processed, current, hops, skipped>>

-----------------------------------------------------------------------------
(* The issuer chains: list_root_trust_objects. *)

\* The snapshot a store handle stands for.
Snapshot(name) ==
  CASE name = "My"   -> Members(system.my) \cup system.keyless
    [] name = "CA"   -> system.ca
    [] name = "ROOT" -> system.root

\* All stores open.  One that can not be added to the collection is left out of it.
OpenStores ==
  /\ phase = "keys"
  /\ pos = Len(mine)
  /\ phase' = "chains"
  /\ pos' = 0
  /\ roots' = system.root
  /\ \E added \in SUBSET {"My", "CA", "ROOT"} :
       collection' = UNION {Snapshot(name) : name \in added}
  /\ UNCHANGED <<system, mine, leaves, objects, processed, current, hops, skipped>>

\* One of the stores or the collection does not open: the keys are listed alone.
OpenStoresFails ==
  /\ phase = "keys"
  /\ pos = Len(mine)
  /\ phase' = "idle"
  /\ UNCHANGED <<system, mine, leaves, pos, objects, collection, roots, processed, current, hops,
                 skipped>>

NextLeaf ==
  /\ phase = "chains"
  /\ current = NoCert
  /\ pos < Len(leaves)
  /\ pos' = pos + 1
  /\ current' = leaves[pos + 1]
  /\ hops' = 0
  /\ UNCHANGED <<system, phase, mine, leaves, objects, collection, roots, processed, skipped>>

\* CertCreateCertificateContext returns null.
SkipLeaf ==
  /\ phase = "chains"
  /\ current = NoCert
  /\ pos < Len(leaves)
  /\ pos' = pos + 1
  /\ skipped' = skipped \cup {pos + 1}
  /\ UNCHANGED <<system, phase, mine, leaves, objects, collection, roots, processed, current, hops>>

Exposed_Untested(i) ==
  (IF i \in Named THEN <<Entry("Cert", i)>> ELSE <<>>)
    \o (IF PermitsEmail(i) THEN <<Entry("Trust", i)>> ELSE <<>>)

\* What an issuer met for the first time adds to the list.
Exposed(i) ==
  (IF i \in Named THEN <<Entry("Cert", i)>> ELSE <<>>)
    \o (IF i \in roots /\ PermitsEmail(i) THEN <<Entry("Trust", i)>> ELSE <<>>)

EndOfChain ==
  /\ current' = NoCert
  /\ UNCHANGED <<objects, processed, hops>>

Hop_StopsAtProcessed ==
  /\ phase = "chains"
  /\ current # NoCert
  /\ LET i == IssuerOf(current, collection) IN
       IF i = NoCert \/ hops = MaxDepth \/ i \in processed
       THEN EndOfChain
       ELSE /\ objects' = objects \o Exposed(i)
            /\ processed' = processed \cup {i}
            /\ current' = IF i \in SelfSigned THEN NoCert ELSE i
            /\ hops' = hops + 1
  /\ UNCHANGED <<system, phase, mine, leaves, pos, collection, roots, skipped>>

Hop_ListsAgain ==
  /\ phase = "chains"
  /\ current # NoCert
  /\ LET i == IssuerOf(current, collection) IN
       IF i = NoCert \/ hops = MaxDepth
       THEN EndOfChain
       ELSE /\ objects' = objects \o Exposed(i)
            /\ processed' = processed \cup {i}
            /\ current' = IF i \in SelfSigned THEN NoCert ELSE i
            /\ hops' = hops + 1
  /\ UNCHANGED <<system, phase, mine, leaves, pos, collection, roots, skipped>>

Hop_Unbounded ==
  /\ phase = "chains"
  /\ current # NoCert
  /\ LET i == IssuerOf(current, collection) IN
       IF i = NoCert
       THEN EndOfChain
       ELSE /\ objects' = IF i \in processed THEN objects ELSE objects \o Exposed(i)
            /\ processed' = processed \cup {i}
            /\ current' = IF i \in SelfSigned THEN NoCert ELSE i
            /\ UNCHANGED hops
  /\ UNCHANGED <<system, phase, mine, leaves, pos, collection, roots, skipped>>

\* One round of the walk.  An issuer met before adds nothing, but the walk goes on past it.
Hop ==
  /\ phase = "chains"
  /\ current # NoCert
  /\ LET i == IssuerOf(current, collection) IN
       IF i = NoCert \/ hops = MaxDepth
       THEN EndOfChain
       ELSE /\ objects' = IF i \in processed THEN objects ELSE objects \o Exposed(i)
            /\ processed' = processed \cup {i}
            /\ current' = IF i \in SelfSigned THEN NoCert ELSE i
            /\ hops' = hops + 1
  /\ UNCHANGED <<system, phase, mine, leaves, pos, collection, roots, skipped>>

ListObjectsReturns ==
  /\ phase = "chains"
  /\ current = NoCert
  /\ pos = Len(leaves)
  /\ phase' = "idle"
  /\ UNCHANGED <<system, mine, leaves, pos, objects, collection, roots, processed, current, hops,
                 skipped>>

ScanStep ==
  \/ NextCert
  \/ OpenStores
  \/ OpenStoresFails
  \/ NextLeaf
  \/ SkipLeaf
  \/ Hop
  \/ ListObjectsReturns

ListingNext == ChangeSystem \/ ListObjects \/ ListObjectsFails \/ ScanStep

\* The thread that scans is not stopped, and the calls it makes return.
ListingSpec == ListingInit /\ [][ListingNext]_listingVars /\ WF_listingVars(ScanStep)

-----------------------------------------------------------------------------
(* What a scan promises. *)

\* In a store, the certificates up to MaxDepth issuers above a leaf, with a self-signed one as the last.
AtHop(store, leaf, n, c) ==
  \E path \in [0 .. n -> Cert] :
    /\ path[0] = leaf
    /\ path[n] = c
    /\ \A i \in 0 .. (n - 1) :
         /\ path[i + 1] = IssuerOf(path[i], store)
         /\ i > 0 => path[i] \notin SelfSigned
Above(store, leaf) == {c \in Cert : \E n \in 1 .. MaxDepth : AtHop(store, leaf, n, c)}

Listed == Members(mine) \cap Named \cap Usable
Walked == {leaves[i] : i \in (1 .. Len(leaves)) \ skipped}
Issuers == UNION {Above(collection, leaf) : leaf \in Walked}

\* Types of the scan's state; the walk never counts beyond MAX_CHAIN_DEPTH.
ListingTypeOK ==
  /\ system \in Systems
  /\ phase \in {"idle", "keys", "chains"}
  /\ mine \in Seq(Cert)
  /\ leaves \in Seq(Cert)
  /\ pos \in Nat
  /\ objects \in Seq([class : ObjectClass, id : Cert])
  /\ collection \subseteq Cert /\ roots \subseteq Cert /\ processed \subseteq Cert
  /\ current \in Cert \cup {NoCert}
  /\ hops \in 0 .. MaxDepth
  /\ skipped \subseteq Nat

\* The list starts with the certificates that have a key and their keys, in pairs: no key comes
\* without the certificate that NSS needs to find it, and no certificate of "My" is listed as
\* one's own when its key is not (the two `continue`s of list_objects come before both pushes).
LeavesPaired ==
  /\ Len(objects) >= 2 * Len(leaves)
  /\ \A i \in 1 .. Len(leaves) :
       /\ Listable(leaves[i])
       /\ objects[2 * i - 1] = Entry("Cert", leaves[i])
       /\ objects[2 * i] = Entry("Key", leaves[i])
  /\ \A i \in (2 * Len(leaves) + 1) .. Len(objects) : objects[i].class # "Key"

\* What the chains add is added once, however many leaves share an issuer and even if the issuers
\* run in a circle (the HashSet `processed` of list_root_trust_objects).
EachOnce ==
  \A i, j \in (2 * Len(leaves) + 1) .. Len(objects) : objects[i] = objects[j] => i = j

\* A trust record is only made for a certificate above a listed one that Windows has among its
\* roots and whose usages do not exclude email; whatever else the walk adds lies on a chain too.
OnlyFromChains ==
  \A i \in (2 * Len(leaves) + 1) .. Len(objects) :
    LET c == objects[i].id IN
      /\ \E leaf \in Walked : c \in Above(collection, leaf)
      /\ objects[i].class = "Trust" => c \in roots /\ PermitsEmail(c)

\* A scan that is over has listed exactly the certificates with keys and, when the stores opened,
\* every certificate on one of their chains and every trust record due: an issuer that an earlier
\* leaf has met must not end the walk of a later one, which may come from another side and be the
\* one to reach the root.
ListsAll ==
  phase = "idle" =>
    Members(objects) =
      {Entry("Cert", c) : c \in Listed} \cup {Entry("Key", c) : c \in Listed}
        \cup {Entry("Cert", c) : c \in Issuers \cap Named}
        \cup {Entry("Trust", c) : c \in {r \in Issuers \cap roots : PermitsEmail(r)}}

\* Each scan returns, also when certificates that sign one another run in a circle.
ScanReturns == (phase # "idle") ~> (phase = "idle")
=============================================================================
