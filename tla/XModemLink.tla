----------------------------- MODULE XModemLink -----------------------------
(***************************************************************************)
(* An XMODEM transfer: an emitter and a receiver, each running its own     *)
(* loop, joined by a serial line that may lose or damage what it carries.  *)
(***************************************************************************)
EXTENDS XModemRx, XModemTx

CONSTANTS
  FileSizes,   \* sizes of the file to send
  RamSizes,    \* sizes of the receiver's file buffer
  Timely       \* TRUE: an answer always comes before a read times out

ASSUME LinkAssumption ==
  /\ FileSizes \subseteq Nat
  /\ RamSizes \subseteq Nat
  /\ \A size \in FileSizes \cup RamSizes : size < HalfWord
  /\ LargeBlk < HalfWord
  /\ Timely \in BOOLEAN

(* A block number byte tells apart more blocks than the two sides can get  *)
(* out of step by (256 against 10 retries and the losses).                 *)
ASSUME WindowAssumption == MaxRetry + MaxFaults < BlkMod

vars == <<lineVars, rxVars, txVars>>

(* The options of the two sides.  A 1k emitter with a receiver in the      *)
(* 128-byte CRC mode is left out: that receiver refuses the header of a 1k *)
(* block and then reads its body byte by byte; XModemBytes has that pair.  *)
Paired(eOpts, rOpts) ==
  ~(eOpts = "lxmodem_1k" /\ rOpts = "lxmodem_128_with_crc")

Init ==
  /\ LineInit
  /\ \E eOpts \in Opts, rOpts \in Opts :
       /\ Paired(eOpts, rOpts)
       /\ \E size \in FileSizes : TxInit(eOpts, size)
       /\ \E max_size \in RamSizes : RxInit(rOpts, max_size)

(***************************************************************************)
(* When a read may time out.  A getchar that finds too few bytes may time  *)
(* out at any moment: the peer may be slow.  With Timely, it times out     *)
(* only when nothing is on its way, so that no answer is ever late.        *)
(***************************************************************************)
RxSilence == Timely => toTx = <<>> \/ txpc = "done"
TxSilence == Timely => toRx = <<>> \/ rxpc = "done"

RxNext ==
  /\ \/ RxStart
     \/ RxReceives
     \/ RxSilence /\ RxTimeout
  /\ UNCHANGED txVars

TxNext ==
  /\ \/ TxReceives
     \/ TxSilence /\ (TxPreambuleTimeout \/ TxTimeout)
  /\ UNCHANGED rxVars

Terminated == rxpc = "done" /\ txpc = "done" /\ UNCHANGED vars

Next == RxNext \/ TxNext \/ Terminated

Spec == Init /\ [][Next]_vars

(* Each side keeps running: every getchar returns, with bytes or after its *)
(* timeout.                                                                *)
Fairness == WF_vars(RxNext) /\ WF_vars(TxNext)

FairSpec == Spec /\ Fairness

-----------------------------------------------------------------------------
(* Every variable stays in its range: the frames and characters on the     *)
(* line, the receiver's counters (nbRetry never passes its limit of 10,    *)
(* canCharReceived never passes 2) and the emitter's.                      *)
TypeOK == LineTypeOK /\ RxTypeOK /\ TxTypeOK

FileSize == txRam.write_offset

Smaller(a, b) == IF a < b THEN a ELSE b

(* The k-th block of the file, cut as the emitter's options say.           *)
BlockOf(k) ==
  LET n == Smaller(defaultBlksize, FileSize - (k - 1) * defaultBlksize) IN
  [off  |-> (k - 1) * defaultBlksize,
   n    |-> n,
   size |-> IF n <= SmallBlk THEN SmallBlk ELSE LargeBlk,
   good |-> TRUE]

NbBlocks == (FileSize + defaultBlksize - 1) \div defaultBlksize

RxSucceeded == rxpc = "done" /\ receivedBytes >= 0
TxSucceeded == txpc = "done" /\ emittedBytes >= 0

-----------------------------------------------------------------------------
(* Safety.                                                                 *)

(* Whatever is lost, damaged, repeated or late on the line, the receiver's *)
(* file holds the first blocks of the emitter's file: each block once, in  *)
(* order, undamaged.  lxmodem_check_block_no_and_crc tells the next block  *)
(* from a repeated one by a byte that wraps around.                        *)
CopyIsPrefix == \A k \in DOMAIN rxData : rxData[k] = BlockOf(k)

(* lxmodem_receive returns a number of bytes, and not -1, only when every  *)
(* block of the file is stored: an EOT is never taken before the last      *)
(* block.                                                                  *)
CompleteOnSuccess == RxSucceeded => Len(rxData) = NbBlocks

(* On a line without faults that holds however slow the two sides are, and *)
(* so however often lxmode_send_data_blocks sends a block again and gets   *)
(* it acknowledged twice.                                                  *)
CompleteWithoutFaults == faults = 0 => CompleteOnSuccess

(* What lxmode_send_data_blocks has counted in emittedBytes is in the      *)
(* receiver's file: an ACK is believed only for the block it answers.  (A  *)
(* receiver that gives up acknowledges the block it has no room for.)      *)
EmittedWasStored ==
  (rxpc # "done" \/ RxSucceeded) => emittedBytes <= rxRam.write_offset

(* When lxmodem_emit returns a positive number of bytes, lxmodem_receive   *)
(* has returned the same one.  When it returns 0, which it also does when  *)
(* no preamble ever comes, the receiver has stored nothing.                *)
SuccessAgreed ==
  TxSucceeded =>
    IF emittedBytes > 0 THEN RxSucceeded /\ receivedBytes = emittedBytes
    ELSE rxData = <<>>

(* The bytes lxmodem_receive reports are the bytes lmodem_buffer_write put *)
(* into its file, and they are inside the buffer.                          *)
ReportedIsWritten ==
  /\ receivedBytes >= 0 => receivedBytes = rxRam.write_offset
  /\ rxRam.write_offset <= rxRam.max_size

(***************************************************************************)
(* The two loops together implement the abstract file transfer: the copy   *)
(* is the receiver's file, and the transfer ends with the receiver's       *)
(* return.                                                                 *)
(***************************************************************************)
FT == INSTANCE FileTransfer WITH
  file   <- [k \in 1 .. NbBlocks |-> BlockOf(k)],
  copy   <- rxData,
  status <- IF rxpc # "done" THEN "running"
            ELSE IF receivedBytes >= 0 THEN "complete" ELSE "failed"

(* Every step of lxmodem_receive, called by the user or by                 *)
(* lymodem_receive, stores the next block of the file, ends the transfer   *)
(* with the whole file stored, fails it, or changes nothing the user of    *)
(* the library can see.                                                    *)
ImplementsFileTransfer == FT!Spec

-----------------------------------------------------------------------------
(* Liveness.                                                               *)

(* Both calls return, whatever the line does: no wait of either loop is    *)
(* without a limit.                                                        *)
Termination == <>(rxpc = "done" /\ txpc = "done")

(* The two contexts are set up for the same kind of transfer, and the      *)
(* receiver's buffer is larger than the blocks it will get.                *)
Compatible ==
  /\ lxmodem_decode_preambule(Preambule)
  /\ NbBlocks * defaultBlksize < rxRam.max_size

(* Once the receiver's preamble is on its way to a waiting emitter, the    *)
(* file arrives and both calls return its size: every error of the line is *)
(* recovered by a retry.                                                   *)
Recovers ==
  (rxpc = "header" /\ txpc = "preambule" /\ Compatible) ~>
    /\ RxSucceeded /\ TxSucceeded
    /\ emittedBytes = receivedBytes
    /\ Len(rxData) = NbBlocks

-----------------------------------------------------------------------------
(***************************************************************************)
(* Why CopyIsPrefix holds.  seq is the number of a frame before reduction  *)
(* modulo BlkMod.  A frame is at most one number ahead of the one before   *)
(* it, plus the frames lost between; and the receiver, which gives up      *)
(* after MaxRetry frames that are not the one it expects, never reads one  *)
(* whose number is BlkMod or more away.                                    *)
(***************************************************************************)

(* What the emitter has read of its file, and the frame it keeps to send   *)
(* again, are those of block blkNo.                                        *)
EmitterAtBlkNo ==
  /\ txRam.read_offset <= FileSize
  /\ FileSize < HalfWord
  /\ txpc = "preambule" =>
       blkNo = 1 /\ txRam.read_offset = 0 /\ toRx = <<>>
  /\ txpc = "reply" =>
       /\ txRam.read_offset = Smaller(FileSize, blkNo * defaultBlksize)
       /\ blk_buffer.seq = blkNo
       /\ IsBlock(blk_buffer) =>
            /\ blk_buffer.blk = blkNo % BlkMod
            /\ ChunkIn(blk_buffer) = BlockOf(blkNo)

FramesHoldBlocks ==
  \A i \in DOMAIN toRx : IsBlock(toRx[i]) =>
    /\ toRx[i].blk = toRx[i].seq % BlkMod
    /\ toRx[i].good => ChunkIn(toRx[i]) = BlockOf(toRx[i].seq)

FramesInOrder ==
  \A i, j \in DOMAIN toRx : i <= j =>
    /\ toRx[i].seq <= toRx[j].seq
    /\ toRx[j].seq <= toRx[i].seq + (j - i) + faults

FramesBehindEmitter ==
  \A i \in DOMAIN toRx :
    /\ toRx[i].seq <= blkNo
    /\ txpc = "reply" => blkNo <= toRx[i].seq + (Len(toRx) - i) + faults

(* While the receiver reads: how far ahead of the last stored block the    *)
(* frames and the emitter can be.                                          *)
ReceiverBehind ==
  LET last == expectedBlkNumber - 1 IN
  rxpc # "done" =>
    /\ Len(rxData) = last
    /\ nbRetry < MaxRetry
    /\ txpc = "preambule" => last = 0
    /\ txpc = "reply" =>
         last <= blkNo /\ blkNo <= last + nbRetry + Len(toRx) + faults
    /\ \A i \in DOMAIN toRx :
         /\ last <= toRx[i].seq
         /\ toRx[i].seq <= last + nbRetry + i + faults

(* While a side runs, its counters are below the limits that stop it.      *)
EmitterRunning ==
  /\ txpc = "preambule" => timeout < MaxTimeout
  /\ txpc = "reply" => retry < MaxRetry /\ emittedBytes >= 0

ReceiverRunning ==
  /\ rxpc # "done" => canCharReceived < 2 /\ receivedBytes >= 0
  /\ rxpc = "idle" =>
       expectedBlkNumber = 1 /\ nbRetry = 0 /\ receivedBytes = 0

(* The inductive invariant: the frames on the line, the emitter and the    *)
(* receiver stay within one window of block numbers.                       *)
WindowInv ==
  /\ TypeOK
  /\ EmitterAtBlkNo
  /\ FramesHoldBlocks
  /\ FramesInOrder
  /\ FramesBehindEmitter
  /\ ReceiverBehind
  /\ EmitterRunning
  /\ ReceiverRunning
  /\ ReportedIsWritten
  /\ rxRam.max_size < HalfWord
  /\ CopyIsPrefix

-----------------------------------------------------------------------------
(***************************************************************************)
(* Why a transfer without late answers ends well.  At most one frame or    *)
(* one reply is under way between two running sides, so a reply is always  *)
(* to the frame sent last.                                                 *)
(***************************************************************************)

(* What lxmode_build_and_send_one_data_block builds: a block of the file,  *)
(* or the EOT that follows the last one.                                   *)
BlockOrEot(f) ==
  \/ IsBlock(f) /\ f.seq <= NbBlocks
  \/ f.hdr = EOT /\ f.seq = NbBlocks + 1

OneUnderWay ==
  /\ rxpc = "idle" => toRx = <<>> /\ toTx = <<>> /\ txpc # "reply"
  /\ rxpc = "header" /\ txpc = "preambule" => Len(toTx) <= 1
  /\ rxpc = "header" /\ txpc = "reply" => Len(toRx) + Len(toTx) <= 1

(* What a running receiver can take for a block or for the end is the      *)
(* frame sent last; an emitter that stopped leaves nothing of the kind.    *)
FrameIsLastSent ==
  rxpc = "header" =>
    \A i \in DOMAIN toRx : toRx[i].hdr \in {SOH, STX, EOT} =>
      txpc = "reply" /\ toRx[i].seq = blkNo /\ toRx[i].hdr = blk_buffer.hdr

(* While both run: the emitter is at the block the receiver expects, and   *)
(* has counted all that is stored; or at the block stored last, of whose   *)
(* acknowledgement it does not know.                                       *)
InStep ==
  /\ txpc = "preambule" => emittedBytes = 0 /\ rxRam.write_offset = 0
  /\ rxpc = "header" /\ txpc = "reply" =>
       \/ /\ blkNo = expectedBlkNumber
          /\ emittedBytes = rxRam.write_offset
       \/ /\ blkNo = expectedBlkNumber - 1
          /\ emittedBytes + nbEmitted = rxRam.write_offset

(* An ACK answers the EOT, or the block sent last; a receiver that has     *)
(* failed has sent at most one, before anything else.                      *)
AckAnswersLastSent ==
  txpc # "done" =>
    \A i \in DOMAIN toTx : toTx[i] = ACK =>
      \/ RxSucceeded
      \/ /\ i = 1
         /\ txpc = "reply" /\ IsBlock(blk_buffer)
         /\ rxpc = "header" => blkNo = expectedBlkNumber - 1

(* What the two calls return, seen from the side that returns first.       *)
Outcome ==
  /\ Len(rxData) <= NbBlocks
  /\ txpc = "done" => RxSucceeded \/ emittedBytes <= 0
  /\ RxSucceeded =>
       /\ Len(rxData) = NbBlocks
       /\ txpc # "preambule"
       /\ txpc = "reply" => isLastBlock
       /\ emittedBytes \in {receivedBytes, -1}

(* Inductive together with WindowInv, with Timely, and when noise is never *)
(* read as an ACK or as an EOT.                                            *)
TimelyInv ==
  /\ txpc = "reply" => BlockOrEot(blk_buffer)
  /\ OneUnderWay
  /\ FrameIsLastSent
  /\ InStep
  /\ AckAnswersLastSent
  /\ Outcome

-----------------------------------------------------------------------------
(***************************************************************************)
(* Why a line without faults is enough, with answers as late as they like: *)
(* no number is skipped on the line, so the frame read next is the block   *)
(* stored last or the one after it.                                        *)
(***************************************************************************)

ReadsLarge == rxOpts = "lxmodem_1k" \/ Protocol = "YMODEM"

(* A large block is sent only to a receiver that asked for large blocks.   *)
SizesMatch ==
  /\ Paired(txOpts, rxOpts)
  /\ txpc = "preambule" =>
       \A i \in DOMAIN toTx : toTx[i] \in {CHR_C, NAK} => toTx[i] = Preambule
  /\ txpc = "reply" => lxmodem_decode_preambule(Preambule)
  /\ \A i \in DOMAIN toRx : toRx[i].hdr = STX => ReadsLarge

Intact(f) ==
  /\ BlockOrEot(f)
  /\ IsBlock(f) => f.good /\ f.cblk = Complement(f.blk)

(* Without faults the line carries intact frames, or the two CAN of an     *)
(* emitter that refused the preamble.                                      *)
FramesIntact ==
  faults = 0 => \A i \in DOMAIN toRx :
    \/ toRx[i].hdr # CAN /\ Intact(toRx[i])
    \/ txpc = "done" /\ \A j \in DOMAIN toRx : toRx[j].hdr = CAN

NoneSkipped ==
  LET last == expectedBlkNumber - 1 IN
  faults = 0 /\ rxpc # "done" =>
    /\ last <= NbBlocks
    /\ txpc = "reply" => blkNo <= last + Len(toRx)
    /\ \A i \in DOMAIN toRx :
         toRx[i].hdr # CAN => toRx[i].seq <= last + i

(* Inductive together with WindowInv.                                      *)
FaultlessInv ==
  /\ txpc = "reply" => Intact(blk_buffer)
  /\ SizesMatch
  /\ FramesIntact
  /\ NoneSkipped
  /\ CompleteWithoutFaults
=============================================================================
