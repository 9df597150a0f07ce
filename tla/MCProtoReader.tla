---------------------------- MODULE MCProtoReader ----------------------------
(* Instances of ProtoReader for TLC; the constants are in the .cfg files. *)
EXTENDS ProtoReader
===============================================================================
