----------------------------- MODULE MCRemoteFile -----------------------------
(***************************************************************************)
(* Instances of RemoteFile for TLC: one file or two on the server, and     *)
(* contents over the zero byte and one other, up to MaxSize bytes.         *)
(***************************************************************************)
EXTENDS RemoteFile

MCBodies == UNION {[1 .. n -> Bytes] : n \in 0 .. MaxSize}

MCWrites == {<<b>> : b \in Bytes \ {ZeroByte}}
================================================================================
