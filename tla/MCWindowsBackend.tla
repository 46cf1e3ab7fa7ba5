-------------------------- MODULE MCWindowsBackend --------------------------
(***************************************************************************)
(* The Windows backend for TLC, its scans and its operations with keys.    *)
(* They share no variable and the manager thread is in one call of the     *)
(* backend at a time, so what the one part has left behind makes no        *)
(* difference to the other: here a behaviour is one of scans or one of     *)
(* operations, with the other part at its start.                           *)
(*                                                                         *)
(* The stores hold a chain l1 - ca - mid - top - root that is longer than  *)
(* the walk, a second leaf l2 below mid that reaches the root, a bridge    *)
(* that signs mid and is signed by mid, and a certificate `odd` whose key  *)
(* can not be used.  The operations have an RSA and an elliptic curve key, *)
(* one hash that CNG knows and one that it does not, and every shape of    *)
(* request that the parsing tells apart.                                   *)
(***************************************************************************)
EXTENDS WindowsListing, KeyOperation

CONSTANTS l1, l2, ca, mid, top, root, bridge, odd

MCCert == {l1, l2, ca, mid, top, root, bridge, odd}
MCCandidates ==
  [c \in MCCert |->
     CASE c \in {l1, odd} -> {ca}
       [] c \in {l2, ca, bridge} -> {mid}
       [] c = mid -> {top, bridge}
       [] c = top -> {root}
       [] c = root -> {}]
MCSelfSigned == {root}
MCNamed == MCCert \ {bridge}
MCUsable == MCCert \ {odd}
MCPurposes ==
  [c \in MCCert |-> CASE c = bridge -> {"codeSigning"}
                      [] c = mid -> {"emailProtection", "codeSigning"}
                      [] OTHER -> {}]
MCUnqueried == {ca}
MCSystems ==
  { [my |-> <<l1, odd, l2>>, keyless |-> {}, ca |-> {ca, mid, top}, root |-> {root}],
    \* an issuer with a key of its own
    [my |-> <<l2, ca, l1>>, keyless |-> {}, ca |-> {mid, top}, root |-> {root, mid, ca}],
    \* a circle
    [my |-> <<l1, l2>>, keyless |-> {}, ca |-> {ca, mid, bridge}, root |-> {bridge}],
    [my |-> <<l2, root>>, keyless |-> {mid, top}, ca |-> {}, root |-> {root}],
    [my |-> <<>>, keyless |-> {}, ca |-> {}, root |-> {root}] }

-----------------------------------------------------------------------------
CONSTANTS rsa, ec, sha256, sha512, sha224

MCKey == {rsa, ec}
MCKeyType == [k \in MCKey |-> IF k = rsa THEN "RSA" ELSE "EC"]
MCSize == [k \in MCKey |-> IF k = rsa THEN 3 ELSE 2]
MCSupported == {sha256, sha512}
MCHash == {sha256, sha512, sha224}
MCRequest ==
  [type : {"PKCS"}, params : {"none", "some"}]
    \cup [type : {"OAEP"}, params : {"wellFormed"}, source : {"specified"}, hash : MCHash,
          mgf : MCHash, label : {"null", "given"}, length : {0, 2, 3}]
    \cup {[type |-> "OAEP", params |-> p, source |-> src, hash |-> sha256, mgf |-> sha256,
           label |-> "null", length |-> 0] : p \in {"wellFormed", "short"}, src \in {"specified", "none"}}
    \cup [type : {"PSS"}, params : {"wellFormed", "short"}, hash : MCHash]
    \cup {[type |-> "ECDSA"]}
MCHanded ==
  [spec : {"ncrypt"}, mustFree : BOOLEAN] \cup {[spec |-> "legacy", mustFree |-> FALSE]}

-----------------------------------------------------------------------------
BackendInit == ListingInit /\ KeyInit

\* The operations do not read the stores: any one content of them will do.
BackendNext ==
  \/ KeyInit /\ ListingNext /\ UNCHANGED keyVars
  \/ /\ ListingInit /\ system = CHOOSE s \in Systems : TRUE
     /\ KeyNext /\ UNCHANGED listingVars

BackendSpec ==
  BackendInit /\ [][BackendNext]_<<listingVars, keyVars>> /\ WF_listingVars(ScanStep)
=============================================================================
