---------------------------- MODULE FileTransfer ----------------------------
(***************************************************************************)
(* What a file transfer promises, whatever the protocol: the receiver's    *)
(* copy grows by the blocks of the file, in order, none missing and none   *)
(* twice; the transfer may fail at any time, but it is reported complete   *)
(* only when the copy is the whole file.                                   *)
(***************************************************************************)
EXTENDS Naturals, Sequences

VARIABLES
  file,     \* the blocks of the file to send
  copy,     \* the blocks the receiver has stored
  status    \* "running", "complete" or "failed"

ftVars == <<file, copy, status>>

Init == copy = <<>> /\ status = "running"

StoreNext ==
  /\ status = "running"
  /\ Len(copy) < Len(file)
  /\ copy' = Append(copy, file[Len(copy) + 1])
  /\ UNCHANGED <<file, status>>

Complete ==
  /\ status = "running"
  /\ copy = file
  /\ status' = "complete"
  /\ UNCHANGED <<file, copy>>

Fail ==
  /\ status = "running"
  /\ status' = "failed"
  /\ UNCHANGED <<file, copy>>

Next == StoreNext \/ Complete \/ Fail

Spec == Init /\ [][Next]_ftVars
=============================================================================
