--------------------------- MODULE MCCert9Cleanup ---------------------------
(* Cert9Cleanup for TLC: the user's own certificate, its issuer and a correspondent's, two        *)
(* profiles, and profiles.ini with and without an Install section and a default.                  *)
EXTENDS Cert9Cleanup

CONSTANTS own, issuer, other, p1, p2

MCCert == {own, issuer, other}
MCStores ==
  {[keyed |-> {own}, issuers |-> {issuer}],
   [keyed |-> {own, other}, issuers |-> {}],
   [keyed |-> {}, issuers |-> {}]}
MCProfile == {p1, p2}
Section(k, d, p) == [kind |-> k, default |-> d, path |-> p]
MCInis ==
  {<<Section("Profile", FALSE, p1), Section("Profile", TRUE, p2), Section("General", FALSE, NoPath)>>,
   <<Section("Profile", TRUE, p2), Section("Install", TRUE, p1)>>,
   <<Section("Profile", FALSE, NoPath), Section("Profile", FALSE, "elsewhere")>>}
=============================================================================
