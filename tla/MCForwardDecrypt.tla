-------------------------- MODULE MCForwardDecrypt --------------------------
(* ForwardDecrypt for TLC: an encrypted message inside of a container, which is redirected, and   *)
(* one whose encrypted part lies deeper, which is rebuilt.                                        *)
EXTENDS ForwardDecrypt

CONSTANTS embedded, nested

MCMessage == {embedded, nested}
JustEmbedded == {embedded}
=============================================================================
