----------------------------- MODULE LModemLine -----------------------------
(***************************************************************************)
(* The serial line between an emitter and a receiver, as the library sees  *)
(* it through its two callbacks: putchar (fire and forget, its outcome is  *)
(* not reported) and getchar (the requested bytes, or nothing after a      *)
(* timeout).  tools/serial.c is the implementation of the callbacks the    *)
(* repository ships.                                                       *)
(*                                                                         *)
(* The line is modelled frame by frame.  What one putchar of the emitter   *)
(* sends is one element of toRx: a data frame (its header byte and the     *)
(* body that follows) or one control character.  What the receiver sends   *)
(* are single characters, the elements of toTx.                            *)
(***************************************************************************)
EXTENDS LModem, Sequences

CONSTANTS
  MaxFaults,   \* bound: how many times the line fails in one transfer
  FaultKinds,  \* which happen: of {"lose", "damage", "reply", "noise"}
  NoiseBytes   \* what a character hit by the line may be read as

VARIABLES
  toRx,        \* frames on their way to the receiver
  toTx,        \* characters on their way to the emitter
  faults       \* number of faults so far

lineVars == <<toRx, toTx, faults>>

ASSUME LineAssumption ==
  /\ MaxFaults \in Nat
  /\ NoiseBytes \subseteq Byte \ {SOH, STX, NAK, CHR_C}

(***************************************************************************)
(* A frame.  hdr, blk and cblk are bytes of the frame; off and n say which *)
(* bytes of the emitter's file the data part holds (n bytes from off, the  *)
(* rest of the block being padding); good says that the data part and the  *)
(* checksum or CRC agree; meta is what the data part says of the file,     *)
(* when it is a YMODEM name block instead: whether a name is there, how    *)
(* many fields follow it, and the first of them, the size.  seq is a       *)
(* history field no component reads: how many blocks the emitter had       *)
(* numbered when it sent the frame.                                        *)
(***************************************************************************)
Meta == [name : BOOLEAN, fields : 0 .. 4, size : Nat]

NoMeta == [name |-> FALSE, fields |-> 0, size |-> 0]

Frame ==
  [hdr : Byte, blk : BlkNumber, cblk : BlkNumber, off : Nat, n : Nat,
   good : BOOLEAN, meta : Meta, seq : Nat]

IsBlock(f) == f.hdr \in {SOH, STX}

CharFrame(c, seq) ==
  [hdr |-> c, blk |-> 0, cblk |-> 0, off |-> 0, n |-> 0, good |-> TRUE,
   meta |-> NoMeta, seq |-> seq]

(***************************************************************************)
(* Faults.  A frame or a character is lost, or damaged: a hit in the data  *)
(* or CRC part makes the check fail, a hit in the number makes number and  *)
(* complement disagree, a control character becomes another byte.  It does *)
(* not become a block header or another preamble: the receiver would then  *)
(* read a frame of another length (XModemBytes has that).                  *)
(***************************************************************************)
Damaged(f) ==
  IF IsBlock(f)
  THEN {[f EXCEPT !.good = FALSE],
        [f EXCEPT !.cblk = (@ + 1) % BlkMod]}
  ELSE {[f EXCEPT !.hdr = c] : c \in NoiseBytes}

Fault(kind) ==
  /\ kind \in FaultKinds
  /\ faults < MaxFaults
  /\ faults' = faults + 1

(* lmodem_putchar on the emitter's side: one frame.                        *)
PutFrame(f) ==
  \/ toRx' = Append(toRx, f) /\ UNCHANGED faults
  \/ Fault("lose") /\ UNCHANGED toRx
  \/ Fault("damage") /\ \E g \in Damaged(f) : toRx' = Append(toRx, g)

(* lmodem_putchar on the emitter's side: two CAN characters, one of which  *)
(* the line may hit.                                                       *)
PutCancelFrames(seq) ==
  LET can == CharFrame(CAN, seq) IN
  \/ toRx' = toRx \o <<can, can>> /\ UNCHANGED faults
  \/ Fault("lose") /\ toRx' = Append(toRx, can)
  \/ /\ Fault("damage")
     /\ \E g \in Damaged(can) :
          toRx' \in {toRx \o <<g, can>>, toRx \o <<can, g>>}

(* The characters s with the k-th one lost, or read as c.                  *)
Lost(s, k) == SubSeq(s, 1, k - 1) \o SubSeq(s, k + 1, Len(s))
Garbled(s, k, c) == [s EXCEPT ![k] = c]

(* lmodem_putchar on the receiver's side: the characters s.                *)
PutChars(s) ==
  \/ toTx' = toTx \o s /\ UNCHANGED faults
  \/ /\ Fault("reply")
     /\ \E k \in DOMAIN s :
          \/ toTx' = toTx \o Lost(s, k)
          \/ \E c \in NoiseBytes : toTx' = toTx \o Garbled(s, k, c)

(* A character that nobody sent reaches the receiver.                      *)
Noise ==
  /\ Fault("noise")
  /\ \E c \in NoiseBytes : toRx' = Append(toRx, CharFrame(c, 0))
  /\ UNCHANGED toTx

(* Start of a session: nothing is on the line.                             *)
LineInit == toRx = <<>> /\ toTx = <<>> /\ faults = 0

LineTypeOK ==
  /\ toRx \in Seq(Frame)
  /\ toTx \in Seq(Byte)
  /\ faults \in 0 .. MaxFaults
=============================================================================
