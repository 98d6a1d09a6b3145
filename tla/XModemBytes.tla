---------------------------- MODULE XModemBytes ----------------------------
(***************************************************************************)
(* An XMODEM transfer over a line of bytes: what XModemLink leaves out.    *)
(* The frames of the emitter are turned into bytes, each block with its    *)
(* checksum or CRC, the line may lose or change a single byte or stop in   *)
(* the middle of a block, and the receiver's getchar is serial_read of     *)
(* tools/serial.c, call of read() by call of read().                       *)
(*                                                                         *)
(* The emitter is XModemTx, with its frames going to out; serial_write     *)
(* puts the bytes of a frame on the wire.  The receiver is XModemRx: a     *)
(* completed getchar hands it, in toRx, the frame that the bytes read      *)
(* stand for, and the actions of that module deal with it.                 *)
(***************************************************************************)
EXTENDS XModemRx, Crc16

CONSTANTS
  MaxAttempt,  \* empty reads that end one serial_read (3 in the code)
  HitBytes,    \* what a byte changed by the line may become
  Files,       \* the files to send, as sequences of bytes
  SlowFiles,   \* bound: those of them that are sent on a slow line
  RamSize,     \* size of the receiver's file buffer
  LineSpeeds   \* of {"steady", "slow"}

ASSUME BytesAssumption ==
  /\ MaxAttempt \in Nat \ {0}
  /\ HitBytes \subseteq Byte
  /\ Files \subseteq Seq(Byte) /\ SlowFiles \subseteq Files
  /\ RamSize \in Nat
  /\ LineSpeeds \subseteq {"steady", "slow"}

(* Blocks are numbered by real bytes here.                                 *)
ASSUME NumberIsByte == BlkMod = 256

VARIABLES
  txOpts, txpc, blkNo, retry, timeout, emittedBytes, txRam, blk_buffer,
  content,    \* the bytes of the file the emitter sends
  out,        \* the frame given to putchar, not written yet
  wire,       \* bytes written and not read yet
  header,     \* the block header read last, 0 while a header is awaited
  buffer,     \* the bytes the current serial_read has got (nbRead = Len)
  attempt,    \* its empty reads so far
  stored,     \* the bytes of the receiver's file
  speed,      \* "slow": bytes may come too late for a read that waits
  slipped     \* history: the first byte of a frame was hit, or a read() of a
              \* body failed, so that its bytes will be read as headers

Tx == INSTANCE XModemTx WITH toRx <- out

txVars == <<txOpts, txpc, blkNo, retry, timeout, emittedBytes, txRam,
            blk_buffer>>
readVars == <<header, buffer, attempt>>
fileVars == <<content, speed>>
vars == <<lineVars, rxVars, txVars, out, wire, readVars, fileVars, stored,
          slipped>>

-----------------------------------------------------------------------------
(* The emitter's bytes.                                                    *)

SUB == 26

(* The data part lxmode_build_and_send_one_data_block fills in: the bytes  *)
(* read from the file, then padding.                                       *)
BlockData(f) ==
  [i \in 1 .. BlkSize(f.hdr) |-> IF i <= f.n THEN content[f.off + i] ELSE SUB]

CrcBytes(data) ==
  LET crc == crc16_doCalcul(data) IN <<crc \div 256, crc % 256>>

CheckBytes(data, withCrc) ==
  IF withCrc THEN CrcBytes(data) ELSE <<lxmodem_calcul_chksum(data)>>

(* The bytes of a frame as they are put on the line.                       *)
FrameBytes(f) ==
  IF IsBlock(f)
  THEN <<f.hdr, f.blk, f.cblk>> \o BlockData(f)
         \o CheckBytes(BlockData(f), txOpts # "lxmodem_128_with_chksum")
  ELSE <<f.hdr>>

(* serial_write: the whole frame; or, when the line fails, a byte less, a  *)
(* byte changed, or only the first bytes (a write that is short or fails,  *)
(* which lmodem_putchar does not report).  A line is slow or faulty, not   *)
(* both.                                                                   *)
serial_write ==
  /\ out # <<>>
  /\ out' = Tail(out)
  /\ LET bytes == FrameBytes(Head(out)) IN
       \/ /\ wire' = wire \o bytes
          /\ UNCHANGED <<faults, slipped>>
       \/ \E k \in DOMAIN bytes :
            /\ speed = "steady"
            /\ slipped' = (slipped \/ k = 1)
            /\ \/ Fault("byte_lost") /\ wire' = wire \o Lost(bytes, k)
               \/ /\ Fault("byte_hit")
                  /\ \E c \in HitBytes \ {bytes[k]} :
                       wire' = wire \o Garbled(bytes, k, c)
               \/ Fault("byte_short") /\ wire' = wire \o SubSeq(bytes, 1, k - 1)
  /\ UNCHANGED <<toRx, toTx, rxVars, txVars, readVars, fileVars, stored>>

-----------------------------------------------------------------------------
(* The receiver's getchar.                                                 *)

InCall == rxpc = "header" /\ toRx = <<>>

(* The blocks whose body is read: SOH, and STX in the 1k mode.             *)
BodyFollows(c) == c = SOH \/ (c = STX /\ rxOpts = "lxmodem_1k")

WithCrc == rxOpts # "lxmodem_128_with_chksum"

CheckSize(blksize) == IF WithCrc \/ blksize > SmallBlk THEN 2 ELSE 1

(* The size of the getchar in progress: 1 for a header, requestedData of   *)
(* lxmodem_receive_block for a body.                                       *)
Requested ==
  IF header = 0 THEN 1
  ELSE 2 + BlkSize(header) + CheckSize(BlkSize(header))

Body(bytes) == SubSeq(bytes, 3, 2 + BlkSize(header))

(* Mutated form of lxmodem_check_crc: the check bytes are not compared.    *)
CheckNothing(bytes) == TRUE

(* The check bytes agree with the data.                                    *)
lxmodem_check_crc(bytes) ==
  LET n == BlkSize(header) IN
  SubSeq(bytes, 3 + n, Len(bytes)) = CheckBytes(Body(bytes), CheckSize(n) = 2)

(* The frame that a header and the bytes of its body stand for; off, n and *)
(* seq, which the receiver cannot know, are 0.                             *)
BlockRead(bytes) ==
  [hdr |-> header, blk |-> bytes[1], cblk |-> bytes[2], off |-> 0, n |-> 0,
   good |-> lxmodem_check_crc(bytes), meta |-> NoMeta, seq |-> 0]

(* What a failed read of a body is to the receiver: a block it refuses.    *)
NoBlock ==
  [hdr |-> header, blk |-> 0, cblk |-> 0, off |-> 0, n |-> 0,
   good |-> FALSE, meta |-> NoMeta, seq |-> 0]

Least(a, b) == IF a < b THEN a ELSE b

(* How many bytes a read() returns: on a steady line all that are there,   *)
(* on a slow one any number, taken one by one here.                        *)
NbAvailable ==
  IF speed = "slow" THEN 1 ELSE Least(Requested - Len(buffer), Len(wire))

TakeBytes ==
  /\ InCall
  /\ attempt < MaxAttempt
  /\ wire # <<>>
  /\ wire' = SubSeq(wire, NbAvailable + 1, Len(wire))

(* A read() that returns bytes.  The last missing one ends the getchar.    *)
ReadBytes ==
  /\ TakeBytes
  /\ LET got == buffer \o SubSeq(wire, 1, NbAvailable) IN
       \/ /\ Len(got) < Requested
          /\ buffer' = got
          /\ UNCHANGED <<toRx, header, attempt>>
       \/ /\ header = 0
          /\ Len(got) = 1
          /\ attempt' = 0
          /\ buffer' = <<>>
          /\ \/ /\ BodyFollows(got[1])
                /\ header' = got[1]
                /\ UNCHANGED toRx
             \/ /\ ~BodyFollows(got[1])
                /\ toRx' = <<CharFrame(got[1], 0)>>
                /\ UNCHANGED header
       \/ /\ header # 0
          /\ Len(got) = Requested
          /\ attempt' = 0
          /\ buffer' = got
          /\ toRx' = <<BlockRead(got)>>
          /\ UNCHANGED header
  /\ UNCHANGED <<toTx, faults, rxVars, txVars, out, fileVars, stored,
                 slipped>>

(* A read() that fails (-1) ends the getchar at once: the bytes it had got *)
(* are lost, and what it did not read stays on the wire.  The emitter asks *)
(* for one character at a time: a read() of its that fails is a timeout.   *)
ReadFails ==
  /\ InCall
  /\ attempt < MaxAttempt
  /\ speed = "steady"
  /\ Fault("read_error")
  /\ buffer' = <<>>
  /\ \/ /\ header = 0
        /\ attempt' = MaxAttempt
        /\ UNCHANGED <<toRx, slipped>>
     \/ /\ header # 0
        /\ attempt' = 0
        /\ toRx' = <<NoBlock>>
        /\ slipped' = TRUE
  /\ UNCHANGED <<toTx, rxVars, txVars, out, wire, header, fileVars, stored>>

(* Nothing is on its way to the receiver.                                  *)
RxSilence ==
  speed = "slow" \/ (out = <<>> /\ wire = <<>> /\ (toTx = <<>> \/ txpc = "done"))

(* Mutated form of EmptyRead: a read of a body never gives up.             *)
EmptyReadPatient ==
  /\ InCall
  /\ RxSilence
  /\ attempt < MaxAttempt
  /\ attempt' = IF header = 0 THEN attempt + 1 ELSE attempt
  /\ UNCHANGED <<toRx, header, buffer>>
  /\ UNCHANGED <<toTx, faults, rxVars, txVars, out, wire, fileVars, stored,
                 slipped>>

(* A read() that times out.  The empty reads of one getchar are counted    *)
(* together, whatever comes between them; after the last the getchar       *)
(* fails, and the bytes it had got are lost.                               *)
EmptyRead ==
  /\ InCall
  /\ RxSilence
  /\ attempt < MaxAttempt
  /\ \/ /\ attempt + 1 < MaxAttempt \/ header = 0
        /\ attempt' = attempt + 1
        /\ UNCHANGED <<toRx, buffer>>
     \/ /\ attempt + 1 = MaxAttempt /\ header # 0
        /\ attempt' = 0
        /\ buffer' = <<>>
        /\ toRx' = <<NoBlock>>
  /\ UNCHANGED <<toTx, faults, rxVars, txVars, out, wire, header, fileVars,
                 stored, slipped>>

-----------------------------------------------------------------------------
(* A 1k block offered to a receiver in a 128-byte mode: the header is      *)
(* refused, and the body stays on the wire.                                *)
RxStxRefused ==
  /\ Reading
  /\ Head(toRx).hdr = STX
  /\ ~BodyFollows(STX)
  /\ toRx' = Tail(toRx)
  /\ canCharReceived' = 0
  /\ RxError(<<Reply("ERROR")>>, FALSE)
  /\ UNCHANGED <<rxOpts, expectedBlkNumber, rxRam, rxData>>

(* The receiver's loop, between two getchar calls.                         *)
RxStep ==
  /\ \/ RxStart \/ RxReceives \/ RxStxRefused
     \/ attempt = MaxAttempt /\ RxTimeout
  /\ stored' = IF rxData' = rxData THEN stored ELSE stored \o Body(buffer)
  /\ header' = 0
  /\ buffer' = <<>>
  /\ attempt' = 0
  /\ UNCHANGED <<txVars, out, wire, fileVars, slipped>>

(* The emitter's reads of one character.  On a slow line they may come to  *)
(* nothing at any moment, and the answer comes late.  On a steady one they *)
(* do not while an answer is still to come: neither while a byte is on the *)
(* wire nor while the read of a body is about to fail.                     *)
TxSilence ==
  \/ speed = "slow"
  \/ rxpc = "done"
  \/ wire = <<>> /\ toRx = <<>> /\ header = 0

TxStep ==
  /\ out = <<>>
  /\ \/ Tx!TxReceives
     \/ TxSilence /\ (Tx!TxPreambuleTimeout \/ Tx!TxTimeout)
  /\ UNCHANGED <<toRx, rxVars, wire, readVars, fileVars, stored, slipped>>

Terminated ==
  rxpc = "done" /\ txpc = "done" /\ out = <<>> /\ UNCHANGED vars

Next ==
  \/ serial_write
  \/ ReadBytes \/ EmptyRead \/ ReadFails \/ RxStep
  \/ TxStep
  \/ Terminated

Init ==
  /\ LineInit
  /\ speed \in LineSpeeds
  /\ content \in IF speed = "slow" THEN SlowFiles ELSE Files
  /\ \E opts \in Opts : Tx!TxInit(opts, Len(content))
  /\ \E opts \in Opts : RxInit(opts, RamSize)
  /\ out = <<>>
  /\ wire = <<>>
  /\ header = 0
  /\ buffer = <<>>
  /\ attempt = 0
  /\ stored = <<>>
  /\ slipped = FALSE

Spec == Init /\ [][Next]_vars

(* Every call of write() and read() returns, and each side goes on.  Only  *)
(* serial_write shortens out and only ReadBytes shortens wire, so the      *)
(* fairness of the two is stated by what they take away.                   *)
FairSpec ==
  /\ Spec
  /\ WF_out(out # <<>> /\ out' = Tail(out))
  /\ WF_wire(TakeBytes)
  /\ WF_vars(EmptyRead \/ RxStep)
  /\ WF_vars(TxStep)

-----------------------------------------------------------------------------
(* The file as it is sent: cut into blocks, the last one padded.           *)
NbSent ==
  LET size == Len(content)
      last == size % Tx!defaultBlksize
  IN  IF last = 0 THEN size
      ELSE size - last + (IF last <= SmallBlk THEN SmallBlk ELSE LargeBlk)

Sent ==
  [i \in 1 .. NbSent |-> IF i <= Len(content) THEN content[i] ELSE SUB]

RxSucceeded == rxpc = "done" /\ receivedBytes >= 0
TxSucceeded == txpc = "done" /\ emittedBytes >= 0

(* The two sides are set up for the same transfer.                         *)
Compatible ==
  /\ Tx!lxmodem_decode_preambule(Preambule)
  /\ txOpts = "lxmodem_1k" => rxOpts = "lxmodem_1k"
  /\ NbSent < RamSize

(* Every variable stays in its range.                                      *)
BytesTypeOK ==
  /\ LineTypeOK /\ RxTypeOK /\ Tx!TxTypeOK
  /\ out \in Seq(Frame) /\ Len(out) <= 2
  /\ wire \in Seq(Byte)
  /\ header \in {0, SOH, STX}
  /\ buffer \in Seq(Byte) /\ Len(buffer) <= Requested
  /\ attempt \in 0 .. MaxAttempt
  /\ stored \in Seq(Byte)

(* Whatever byte is lost, changed or late, and however far the receiver's  *)
(* reads have slipped against the blocks, the receiver's file holds the    *)
(* first bytes of the emitter's file: nothing that is not a whole block of *)
(* it passes lxmodem_check_block_no_and_crc.                               *)
StoredIsPrefix == IsPrefix(stored, Sent)

(* Every block leaves with a CRC that is the remainder of its data divided *)
(* by the generator polynomial of CRC-16/XMODEM, computed bit by bit: the  *)
(* table of crc16_init and the loop of crc16_doCalcul compute it.          *)
CrcIsRemainder ==
  \A i \in DOMAIN out :
    IsBlock(out[i]) /\ txOpts # "lxmodem_128_with_chksum" =>
      Remainder(SubSeq(FrameBytes(out[i]), 4, Len(FrameBytes(out[i])))) = 0

(* lxmodem_receive reports a size only with the whole file stored, as long *)
(* as no read comes too late, the first byte of no frame is hit, and no    *)
(* read() of a body fails.                                                 *)
CompleteUnlessSlipped ==
  RxSucceeded /\ Compatible /\ speed = "steady" /\ ~slipped => stored = Sent

(* It does so however slow the line is, when no byte is lost or changed: a *)
(* receiver that refuses a block drops what is left of it.                 *)
CompleteWhenSlow ==
  RxSucceeded /\ Compatible /\ faults = 0 => stored = Sent

(* A lost, changed or missing byte of a block, other than its first, or a  *)
(* read() of a header that fails, costs a retry and nothing else: the rest *)
(* of the block is dropped by the read that gives up, the emitter sends it *)
(* again, and both calls return.                                           *)
BodyHitRecovered ==
  (rxpc = "header" /\ txpc = "preambule" /\ Compatible /\ speed = "steady") ~>
    (slipped \/ (RxSucceeded /\ TxSucceeded /\ stored = Sent))

(* Both calls return, whatever the line does to the bytes.                 *)
BothReturn == <>(rxpc = "done" /\ txpc = "done")
=============================================================================
