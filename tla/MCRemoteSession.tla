---------------------------- MODULE MCRemoteSession ----------------------------
(***************************************************************************)
(* Instances of RemoteSession for TLC: file contents are byte sequences    *)
(* over one value, and every file starts absent, empty or with contents.   *)
(***************************************************************************)
EXTENDS RemoteSession

CONSTANTS MaxLen, Byte

MCBodies == {[i \in 1 .. n |-> Byte] : n \in 0 .. MaxLen}
================================================================================
