---------------------------- MODULE MCTokenCalls ----------------------------
(* TokenCalls for TLC: the user's certificate and key, and a CA whose certificate and trust       *)
(* record join the store, leave it again and at some time stay.  One session beside the polling's.*)
EXTENDS TokenCalls

CONSTANTS leaf, ca, m, serialL, serialC, hash

LeafCert == [class |-> "Cert", id |-> leaf]
LeafKey == [class |-> "Key", id |-> leaf]
CACert == [class |-> "Cert", id |-> ca]
CATrust == [class |-> "Trust", id |-> ca]

MCId == {leaf, ca}
MCFlags == {{"serial", "rw"}, {}}
MCMechanism == {m}
MCNone == {}
MCListings == {<<LeafCert, LeafKey>>, <<LeafCert, LeafKey, CACert, CATrust>>}

Pairs(o) ==
  CASE o = LeafCert -> <<"Cert", TRUE, serialL, leaf>>
    [] o = LeafKey  -> <<"Key", TRUE, serialL, leaf>>
    [] o = CACert   -> <<"Cert", TRUE, serialC, ca>>
    [] o = CATrust  -> <<"Trust", TRUE, serialC, hash>>
Types(o) ==
  CASE o.class = "Cert"  -> {"class", "token", "serial", "value"}
    [] o.class = "Key"   -> {"class", "token", "serial", "sign"}
    [] o.class = "Trust" -> {"class", "token", "serial", "sha1Hash"}
ValueOf(o, a) ==
  CASE a = "class" -> Pairs(o)[1] [] a = "serial" -> Pairs(o)[3]
    [] a \in {"token", "sign"} -> "true" [] OTHER -> Pairs(o)[4]
MCContents ==
  [o \in {LeafCert, LeafKey, CACert, CATrust} |-> [a \in Types(o) |-> ValueOf(o, a)]]
MCLength ==
  [v \in {"Cert", "Key", "Trust", "true", serialL, serialC, leaf, ca, hash} |->
     CASE v = leaf -> 2 [] v = ca -> 3 [] OTHER -> 1]
MCSupported == {"class", "token", "serial", "value", "sign"}

Plain(v) == [form |-> "plain", value |-> v]
AllCerts ==
  [a \in {"class", "token"} |->
     IF a = "class" THEN Plain("Cert") ELSE [form |-> "ulong", value |-> "true"]]
CATrustOnly ==
  [a \in {"class", "serial"} |->
     IF a = "class" THEN Plain("Trust") ELSE [form |-> "der", value |-> serialC]]
ByHash == [a \in {"sha1Hash"} |-> Plain(hash)]
MCRequests == {AllCerts, CATrustOnly, ByHash}
MCTemplate == {TemplateFor[r] : r \in MCRequests}

\* A buffer of 2 is enough for the class, and not for the value of the CA; a key has no value.
MCReads == {{"class", "value"}}
=============================================================================
