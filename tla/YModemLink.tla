----------------------------- MODULE YModemLink -----------------------------
(***************************************************************************)
(* A YMODEM transfer of one file: lymodem_emit and lymodem_receive, which  *)
(* wrap the two XMODEM loops, joined by the serial line.                   *)
(***************************************************************************)
EXTENDS XModemLink, YModemRx, YModemTx

CONSTANT
  Valids       \* which metadata the emitter's user sets: sets of Flags

ASSUME ValidsAssumption == Valids \subseteq SUBSET Flags

ASSUME YModemAssumption == Protocol = "YMODEM"

yVars == <<vars, ryVars, tyVars>>

(* Both contexts have the option main of rzsz gives them for YMODEM.       *)
(* Another one would matter in one place: lxmodem_decode_preambule takes a *)
(* NAK for a preamble with this option only.                               *)
YInit ==
  /\ LineInit
  /\ \E size \in FileSizes, valid \in Valids :
       /\ TxInit("lxmodem_128_with_chksum", size)
       /\ TyInit(valid, size)
  /\ \E max_size \in RamSizes : RxInit("lxmodem_128_with_chksum", max_size)
  /\ RyInit

(***************************************************************************)
(* When a read may time out: at any moment, or with Timely only when       *)
(* nothing is on its way and the peer is not about to send.                *)
(***************************************************************************)
YRxSilence ==
  Timely => /\ toTx = <<>> \/ tyPhase = "done"
            /\ ~(tyPhase = "contents" /\ txpc = "done")

YTxSilence ==
  Timely => /\ toRx = <<>> \/ ryPhase = "done"
            /\ ~(ryPhase = "contents" /\ rxpc \in {"idle", "done"})

YRxNext ==
  /\ \/ RyStart
     \/ RyReceives
     \/ YRxSilence /\ RyTimeouts
     \/ /\ ryPhase = "contents"
        /\ RxStart \/ RxReceives \/ (YRxSilence /\ RxTimeout)
        /\ UNCHANGED ryVars
     \/ RyNextFile
  /\ UNCHANGED <<txVars, tyVars>>

YTxNext ==
  /\ \/ TyReceives
     \/ YTxSilence /\ TyTimeouts
     \/ /\ tyPhase = "contents"
        /\ TxReceives \/ (YTxSilence /\ (TxPreambuleTimeout \/ TxTimeout))
        /\ UNCHANGED tyVars
     \/ TyTransferred
  /\ UNCHANGED <<rxVars, ryVars>>

YTerminated == ryPhase = "done" /\ tyPhase = "done" /\ UNCHANGED yVars

LineNoise == Noise /\ UNCHANGED <<rxVars, txVars, ryVars, tyVars>>

YNext == YRxNext \/ YTxNext \/ LineNoise \/ YTerminated

YSpec == YInit /\ [][YNext]_yVars

(* Each side keeps running, as in XModemLink.                              *)
YFairSpec == YSpec /\ WF_yVars(YRxNext) /\ WF_yVars(YTxNext)

-----------------------------------------------------------------------------
(* Every variable of lymodem_emit and lymodem_receive stays in its range,  *)
(* and those of the XMODEM loops and of the line they share.               *)
YTypeOK == TypeOK /\ RyTypeOK /\ TyTypeOK

RyDone(ok) == ryPhase = "done" /\ (RyResult >= 0) = ok
TyDone(ok) == tyPhase = "done" /\ (tyResult >= 0) = ok

(* What lymodem_receive leaves in its file when it returns a number of     *)
(* bytes is the emitter's file: every block is there, and when a size was  *)
(* announced the padding of the last block is cut off.                     *)
ExactCopy ==
  RyDone(TRUE) =>
    /\ Len(rxData) = NbBlocks
    /\ "filesize" \in rxFileData.valid => rxRam.write_offset = FileSize

(* On a line without faults that holds however slow the two sides are, and *)
(* so however often a name, a block or the null name is sent again.        *)
ExactWithoutFaults == faults = 0 => ExactCopy

(* The receiver's buffer is larger than the blocks it will get.            *)
Roomy == NbBlocks * defaultBlksize < rxRam.max_size

(* When lymodem_emit returns a number of bytes, every block of the file is *)
(* stored.  lxmodem_receive has returned the same number; or -1, when it   *)
(* has all blocks but gave up before the EOT, which the wait for the next  *)
(* name (lymodem_block_next_file) has acknowledged in its place.  (Not     *)
(* without room: then that acknowledgement may hide a missing block.)      *)
BatchAgreed ==
  TyDone(TRUE) /\ tyResult > 0 /\ Roomy =>
    /\ rxpc = "done" /\ Len(rxData) = NbBlocks
    /\ receivedBytes \in {tyResult, -1}

(* Both calls return, and with success, and the receiver knows of the file *)
(* what the emitter's user has said of it.                                 *)
Delivered ==
  /\ RyDone(TRUE) /\ TyDone(TRUE)
  /\ RyResult = tyResult
  /\ rxFileData = txFileData
  /\ ExactCopy

(* A call of the receiver that finds the emitter waiting leads to the file *)
(* being delivered.                                                        *)
Delivers == (ryPhase = "name" /\ tyPhase = "call" /\ Roomy) ~> Delivered

(* On a line that damages nothing lymodem_receive, called while            *)
(* lymodem_emit waits with a file that has a name, gets the file.          *)
DeliversUndamaged ==
  (/\ ryPhase = "name" /\ tyPhase = "call" /\ Roomy
   /\ "filename" \in txFileData.valid) ~> (Delivered \/ faults > 0)

(* Both calls return, whatever the line does.                              *)
YTermination == <>(ryPhase = "done" /\ tyPhase = "done")

-----------------------------------------------------------------------------
(***************************************************************************)
(* Why CopyIsPrefix holds here too.  The argument is that of XModemLink,   *)
(* with three things more: noise may come between the frames, so that only *)
(* blocks are in order; a name block has number 0, so that none may be     *)
(* sent while data are; and the receiver may be called at any point of the *)
(* emitter's progress, so that the Cs have to be followed.                 *)
(***************************************************************************)

DataSent == txRam.read_offset > 0

(* While lymodem_receive can still store something.                        *)
Listening == ryPhase \in {"start", "name", "contents"} /\ rxpc # "done"

(* What the emitter has read of its file, and the frame it keeps, in the   *)
(* loop of lxmodem_emit and around it.                                     *)
YEmitterAtBlkNo ==
  /\ txRam.read_offset <= FileSize
  /\ FileSize < HalfWord
  /\ tyPhase \in {"call", "name"} => txpc = "preambule"
  /\ tyPhase \in {"call", "name", "batch"} /\ IsBlock(blk_buffer) =>
       blk_buffer.seq = 0 /\ blk_buffer.blk = 0
  /\ txpc = "preambule" => blkNo = 1 /\ ~DataSent
  /\ txpc = "reply" =>
       /\ tyPhase = "contents"
       /\ txRam.read_offset = Smaller(FileSize, blkNo * defaultBlksize)
       /\ blk_buffer.seq = blkNo
       /\ IsBlock(blk_buffer) =>
            /\ DataSent
            /\ blk_buffer.blk = blkNo % BlkMod
            /\ ChunkIn(blk_buffer) = BlockOf(blkNo)
       /\ isLastBlock /\ DataSent => emittedBytes > 0
  /\ txpc = "done" /\ emittedBytes = 0 => ~DataSent

(* Among the frames, the blocks are in order, one number further at a time *)
(* but for slack.                                                          *)
InOrder(frames, slack) ==
  \A i, j \in DOMAIN frames :
    i <= j /\ IsBlock(frames[i]) /\ IsBlock(frames[j]) =>
      /\ frames[i].seq <= frames[j].seq
      /\ frames[j].seq <= frames[i].seq + (j - i) + slack

(* They lead up to number, and begin where the block last was stored.      *)
LeadTo(frames, number, slack) ==
  \A i \in DOMAIN frames : IsBlock(frames[i]) =>
    /\ frames[i].seq <= number
    /\ number <= frames[i].seq + (Len(frames) - i) + slack

BeginAt(frames, last, slack) ==
  \A i \in DOMAIN frames : IsBlock(frames[i]) =>
    /\ last <= frames[i].seq
    /\ frames[i].seq <= last + i + slack

(* The block of number 0 is a name.                                        *)
BlocksHoldData ==
  \A i \in DOMAIN toRx : IsBlock(toRx[i]) =>
    /\ toRx[i].blk = toRx[i].seq % BlkMod
    /\ toRx[i].seq > 0 /\ toRx[i].good => ChunkIn(toRx[i]) = BlockOf(toRx[i].seq)

(* The frames, the emitter and the receiver in one window of numbers, as   *)
(* in XModemLink.                                                          *)
BlocksInWindow ==
  LET last == expectedBlkNumber - 1 IN
  /\ InOrder(toRx, faults)
  /\ BeginAt(toRx, last, nbRetry + faults)
  /\ Len(rxData) = last
  /\ txpc = "reply" =>
       /\ LeadTo(toRx, blkNo, faults)
       /\ last <= blkNo /\ blkNo <= last + nbRetry + Len(toRx) + faults
  /\ ~DataSent =>
       /\ last = 0
       /\ \A i \in DOMAIN toRx : IsBlock(toRx[i]) => toRx[i].seq = 0

(* The Cs on their way.  One is answered with a name, and the next with    *)
(* data: by the time data are sent there is none, and no name follows.     *)
(* (lxmodem_decode_preambule takes a NAK for a preamble too, but until     *)
(* lxmodem_receive has sent its own none is sent to be taken for it.)      *)
CallsInOrder ==
  /\ DataSent => tyPhase \in {"contents", "next", "done"}
  /\ \A j \in DOMAIN toTx : toTx[j] = CHR_C =>
       /\ ~DataSent /\ txpc # "reply"
       /\ \A i \in 1 .. j - 1 : toTx[i] \notin {CHR_C, NAK}
  /\ rxpc = "idle" =>
       /\ ~DataSent /\ txpc # "reply"
       /\ \A j \in DOMAIN toTx : toTx[j] # NAK
       /\ ryPhase = "start" => toTx = <<>>
       /\ ryPhase = "contents" => \A j \in DOMAIN toTx : toTx[j] # CHR_C
       /\ ryPhase = "start" \/ (\E j \in DOMAIN toTx : toTx[j] = CHR_C) =>
            /\ tyPhase \in {"call", "done"}
            /\ \A i \in DOMAIN toRx : ~IsBlock(toRx[i])

YEmitterRunning ==
  /\ EmitterRunning
  /\ tyPhase \notin {"contents", "done"} => tyTimeout < MaxTimeout
  /\ tyPhase \in {"name", "batch"} => tyRetry < MaxRetry

YReceiverRunning ==
  /\ ryPhase \in {"start", "name", "repeat"} => rxpc = "idle"
  /\ ryPhase \in {"start", "name", "next"} => ryCount < MaxTimeout
  /\ ryPhase = "repeat" => ryCount < MaxRetry
  /\ rxRam.max_size < HalfWord
  /\ rxpc # "done" =>
       /\ nbRetry < MaxRetry /\ canCharReceived < 2
       /\ ryPhase # "done" =>
            /\ receivedBytes = rxRam.write_offset
            /\ rxRam.write_offset <= rxRam.max_size
  /\ rxpc = "idle" =>
       /\ expectedBlkNumber = 1 /\ nbRetry = 0
       /\ receivedBytes = 0 /\ rxData = <<>>

(* Inductive.                                                              *)
YWindowInv ==
  /\ YTypeOK
  /\ YEmitterAtBlkNo
  /\ YEmitterRunning
  /\ YReceiverRunning
  /\ BlocksHoldData
  /\ Listening => BlocksInWindow /\ CallsInOrder
  /\ CopyIsPrefix

-----------------------------------------------------------------------------
(***************************************************************************)
(* Why ExactWithoutFaults holds, for a user who tells the size of a file   *)
(* whose name he tells (SizesTold): every frame that arrives follows the   *)
(* one before it, so the EOT is read when every block is stored, and the   *)
(* size that the file is cut to is its own.                                *)
(***************************************************************************)

SizesTold ==
  \A valid \in Valids : "filename" \in valid => "filesize" \in valid

(* The size goes from the emitter's user to the receiver's.                *)
NameTold(f) ==
  IsBlock(f) /\ f.meta.name => f.meta.fields > 0 /\ f.meta.size = FileSize

SizeKnown ==
  /\ txFileData.valid \in Valids
  /\ "filesize" \in txFileData.valid => txFileData.size = FileSize
  /\ NameTold(blk_buffer)
  /\ \A i \in DOMAIN toRx : NameTold(toRx[i])
  /\ "filesize" \in rxFileData.valid => rxFileData.size = FileSize

IsNumbered(f) == f.hdr \in {SOH, STX, EOT}

Untouched(f) ==
  /\ IsBlock(f) =>
       f.seq <= NbBlocks /\ f.good /\ f.cblk = Complement(f.blk)
  /\ f.hdr = EOT => f.seq = NbBlocks + 1

FramesUntouched ==
  /\ Untouched(blk_buffer)
  /\ tyPhase \in {"call", "name", "batch"} =>
       blk_buffer.hdr # EOT /\ blk_buffer.seq <= 1
  /\ txpc = "reply" => IsNumbered(blk_buffer)
  /\ faults = 0 => \A i \in DOMAIN toRx : Untouched(toRx[i])

(* A frame with a number comes right after the frame before it, or after   *)
(* that one sent again; the first one after the block stored last.         *)
Consecutive(frames, last) ==
  \A i \in DOMAIN frames : IsNumbered(frames[i]) /\ frames[i].seq > 1 =>
    IF i = 1 THEN frames[i].seq <= last + 1
    ELSE /\ IsNumbered(frames[i - 1])
         /\ frames[i].seq <= frames[i - 1].seq + 1

(* They end with the frame of that number, if it is not stored yet.        *)
EndAt(frames, number, last) ==
  IF frames = <<>> THEN number <= last
  ELSE /\ IsNumbered(frames[Len(frames)])
       /\ frames[Len(frames)].seq = number

EachFollows ==
  LET last == expectedBlkNumber - 1 IN
  /\ last <= NbBlocks
  /\ ~DataSent => \A i \in DOMAIN toRx : toRx[i].seq <= 1
  /\ Consecutive(toRx, last)
  /\ txpc = "reply" => EndAt(toRx, blkNo, last)

(* The file has the bytes of the blocks in it, until it is cut.            *)
BlocksWritten ==
  /\ ryPhase \in {"next", "done"} => rxpc # "header"
  /\ ryPhase # "done" =>
       /\ rxRam.write_offset >=
            Smaller(FileSize, Len(rxData) * defaultBlksize)
       /\ RxSucceeded =>
            /\ receivedBytes = rxRam.write_offset
            /\ rxRam.write_offset <= rxRam.max_size

(* Inductive together with YWindowInv.                                     *)
YFaultlessInv ==
  /\ SizeKnown
  /\ FramesUntouched
  /\ Listening /\ faults = 0 => EachFollows
  /\ BlocksWritten
  /\ CompleteWithoutFaults
  /\ ExactWithoutFaults
-----------------------------------------------------------------------------
(***************************************************************************)
(* Why BatchAgreed holds when no answer is late, and ExactCopy then with   *)
(* SizesTold: one frame or one reply is under way at a time, save for the  *)
(* C that opens lxmodem_receive, which follows the reply to the name; and  *)
(* an ACK that the emitter reads answers the frame it sent last.           *)
(***************************************************************************)

AcksIn(chars) == {i \in DOMAIN chars : chars[i] = ACK}

(* Before lxmodem_receive, at its start, and in its loop.                  *)
YOneUnderWay ==
  /\ ryPhase \in {"start", "name"} =>
       /\ tyPhase \in {"call", "name", "done"}
       /\ Len(toTx) <= 1 /\ AcksIn(toTx) = {}
       /\ IF tyPhase = "name" THEN toTx = <<>> /\ Len(toRx) <= 1
          ELSE toRx = <<>>
  /\ ryPhase = "contents" /\ rxpc = "idle" =>
       /\ tyPhase \in {"name", "contents", "done"} /\ toRx = <<>>
       /\ tyPhase = "name" => Len(toTx) <= 1
       /\ tyPhase = "contents" => toTx = <<>> /\ txpc = "preambule"
  /\ rxpc = "header" =>
       /\ ryPhase = "contents" /\ tyPhase # "call"
       /\ tyPhase = "name" =>
            /\ toRx = <<>> /\ Len(toTx) <= 2
            /\ \A i \in DOMAIN toTx : toTx[i] # NAK
       /\ tyPhase = "contents" /\ txpc = "preambule" =>
            toRx = <<>> /\ Len(toTx) <= 1
       /\ txpc = "reply" => Len(toRx) + Len(toTx) <= 1
  /\ ryPhase = "next" => rxpc = "done"
  /\ Listening /\ tyPhase \in {"call", "name"} => receivedChar \notin {ACK, NAK}

(* What a running receiver can take for a block or for the end is the      *)
(* frame sent last, or the null name.                                      *)
YFrameIsLastSent ==
  /\ rxpc = "header" =>
       \A i \in DOMAIN toRx : IsNumbered(toRx[i]) =>
         IF txpc = "reply"
         THEN toRx[i].seq = blkNo /\ toRx[i].hdr = blk_buffer.hdr
         ELSE IsBlock(toRx[i]) /\ toRx[i].seq = 0
  /\ tyPhase = "batch" => IsBlock(blk_buffer)

(* As InStep; and the receiver's file holds no more than whole blocks.     *)
YInStep ==
  /\ txpc = "preambule" => emittedBytes = 0
  /\ rxpc = "header" =>
       /\ rxRam.write_offset <= Len(rxData) * defaultBlksize
       /\ txpc = "preambule" => rxRam.write_offset = 0
       /\ txpc = "reply" =>
            \/ /\ blkNo = expectedBlkNumber
               /\ emittedBytes = rxRam.write_offset
            \/ /\ blkNo = expectedBlkNumber - 1
               /\ emittedBytes + nbEmitted = rxRam.write_offset

(* An ACK on its way to the emitter answers the block it is at; or, when   *)
(* lxmodem_receive has given up, that block or the one before it, as       *)
(* lymodem_block_next_file acknowledges what it reads, too.                *)
AcksLeft ==
  LET acks == AcksIn(toTx)
      at   == blkNo - Len(rxData)
  IN
  /\ rxpc = "header" /\ txpc = "reply" /\ acks # {} =>
       IsBlock(blk_buffer) /\ blkNo = expectedBlkNumber - 1
  /\ rxpc = "idle" /\ ~Listening /\ acks # {} => acks = {1} /\ tyPhase = "name"
  /\ Roomy /\ ~Listening /\ ~RxSucceeded /\ tyPhase # "done" /\ txpc # "done" =>
       IF ryPhase # "done"
       THEN at <= 1 /\ (acks # {} => acks = {1} /\ at <= 0)
       ELSE /\ at <= 2
            /\ acks # {} => at <= 1
            /\ \A i, j \in acks : i < j => i = 1 /\ j = Len(toTx) /\ at <= 0

(* As Outcome; but the receiver may have given up on a whole file.         *)
YOutcome ==
  /\ Len(rxData) <= NbBlocks
  /\ RxSucceeded =>
       /\ Len(rxData) = NbBlocks
       /\ txpc # "preambule"
       /\ txpc = "reply" => isLastBlock
       /\ emittedBytes \in {receivedBytes, -1}
  /\ Roomy /\ txpc = "done" /\ emittedBytes > 0 =>
       /\ rxpc = "done" /\ Len(rxData) = NbBlocks
       /\ receivedBytes \in {emittedBytes, -1}
  /\ \/ tyPhase \notin {"next", "batch"} /\ tyResult = -1
     \/ /\ tyPhase \in {"next", "batch", "done"} /\ txpc = "done"
        /\ tyResult = emittedBytes

(* Inductive together with YWindowInv, with Timely, and when noise is      *)
(* never read as an ACK or as an EOT and only hits what is sent.           *)
YTimelyInv ==
  /\ txpc = "reply" => BlockOrEot(blk_buffer)
  /\ YOneUnderWay
  /\ YFrameIsLastSent
  /\ YInStep
  /\ AcksLeft
  /\ YOutcome
=============================================================================
