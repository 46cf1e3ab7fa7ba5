-------------------------- MODULE MCCertCleanupAddon --------------------------
(* CertCleanupAddon for TLC: two windows, of which one can send, and one address with an
   old and a renewed certificate, of which both are on the token. *)
EXTENDS CertCleanupAddon

CONSTANTS w1, w2, old, renewed, mine

MCWindow == {w1, w2}
MCSendable == {w1}
MCCert == {old, renewed}
MCAddress == {mine}
MCAddressOf == [c \in MCCert |-> mine]
=============================================================================
