------------------------------ MODULE MCBytes ------------------------------
(***************************************************************************)
(* The files for the runs of XModemBytes: all of four bytes made of A and  *)
(* of 4, which is an EOT when it is read as a header.                      *)
(***************************************************************************)
EXTENDS XModemBytes

MCFiles == [1 .. 4 -> {4, 65}]

(* Two of them whose blocks differ, with a 4 in front and behind an A.     *)
MCSlowFiles == {<<4, 65, 65, 4>>, <<65, 4, 4, 4>>}
=============================================================================
