------------------------------ MODULE MCManager ------------------------------
(* Manager for TLC: a leaf certificate with its key, and a small internal CA, whose  *)
(* own key is in the store too.  Its certificate is listed twice, once as one of the *)
(* user's own and once as the issuer of the leaf, and it has a trust record.         *)
EXTENDS Manager

CONSTANTS leaf, ca, b, m, rw

LeafCert == [class |-> "Cert", id |-> leaf]
LeafKey == [class |-> "Key", id |-> leaf]
CACert == [class |-> "Cert", id |-> ca]
CAKey == [class |-> "Key", id |-> ca]
CATrust == [class |-> "Trust", id |-> ca]

MCId == {leaf, ca}
MCByte == {b}
MCMessage == {<<b>>}
MCMechanism == {m}
MCFlags == {rw}

MCListings == {<<LeafCert, LeafKey>>, <<CACert, CAKey, LeafCert, LeafKey, CACert, CATrust>>}

AllCerts == [supported |-> TRUE, matches |-> {LeafCert, CACert}]
CATrustOnly == [supported |-> TRUE, matches |-> {CATrust}]
Unsupported == [supported |-> FALSE, matches |-> {LeafCert}]
MCTemplate == {AllCerts, CATrustOnly, Unsupported}
=============================================================================
