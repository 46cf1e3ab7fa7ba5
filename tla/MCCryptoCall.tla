----------------------------- MODULE MCCryptoCall -----------------------------
(* CryptoCall for TLC: two threads, and a store that has a key with its certificate, both *)
(* with a short output, or has a certificate without key and with a long output as well,  *)
(* listed before them.  A table rebuilt from the longer listing would put the long one    *)
(* behind the handle of the short one.  With intervals of 0 every C_OpenSession scans:    *)
(* the throttle is the matter of Manager and TokenCalls.                                  *)
EXTENDS CryptoCall, TLC

CONSTANTS short, long, b1, b2, m, rw, c1, c2

Cert(x) == [class |-> "Cert", id |-> x]
Key(x) == [class |-> "Key", id |-> x]
MCId == {short, long}
MCListings == {<<Cert(short), Key(short)>>, <<Cert(long), Cert(short), Key(short)>>}
MCNone == {}
MCByte == {b1, b2}
MCMessage == {<<b1>>, <<b2>>}
MCMechanism == {m}
MCFlags == {rw}
MCClient == {c1, c2}
OwnSessions == [c \in MCClient |-> IF c = c1 THEN {1} ELSE {2}]
MCModulus == [x \in MCId |-> IF x = short THEN 1 ELSE 2]

\* Nothing but the order of the bytes matters.
Bytes == Permutations(MCByte)
=============================================================================
