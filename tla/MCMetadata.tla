----------------------------- MODULE MCMetadata -----------------------------
(***************************************************************************)
(* The file names for the runs of MetadataLink, for a receiver with room   *)
(* for three characters or for many: one that fits, two that are cut in    *)
(* front of a letter or of a digit, one with a space, one that needs a     *)
(* large block, and one that leaves no room for all fields there.          *)
(***************************************************************************)
EXTENDS MetadataLink

MCNames ==
  {<<97, 98>>, <<97, 98, 99, 100>>, <<97, 98, 99, 55>>, <<97, 32, 98, 99, 32, 49>>,
   [i \in 1 .. 26 |-> 97], [i \in 1 .. 54 |-> 97]}
=============================================================================
