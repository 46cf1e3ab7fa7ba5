---------------------------- MODULE MCManagerProxy ----------------------------
(* ManagerProxy for TLC: the Manager is a counter modulo 3, so that a lost, doubled or  *)
(* swapped call shows in a later reply.                                                 *)
EXTENDS ManagerProxy

CONSTANTS next, read

MCRequest == {next, read}
MCState == 0 .. 2
MCEffect ==
  [p \in MCState \X MCRequest |->
     IF p[2] = next THEN [state |-> (p[1] + 1) % 3, value |-> 10 + p[1]]
                    ELSE [state |-> p[1], value |-> p[1]]]
MCValue == MCState \cup {10 + s : s \in MCState}
=============================================================================
