------------------------------ MODULE MCListSort -------------------------------
(***************************************************************************)
(* Nodes with equal keys, and with a key that is less than those before.   *)
(***************************************************************************)
EXTENDS ListSort

CONSTANTS n1, n2, n3, n4

MCNodes == {n1, n2, n3, n4}

MCKey == [n \in MCNodes |-> IF n = n1 THEN 2 ELSE IF n = n4 THEN 0 ELSE 1]
================================================================================
