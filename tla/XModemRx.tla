------------------------------ MODULE XModemRx ------------------------------
(***************************************************************************)
(* The XMODEM receiver, lxmodem_receive of src/src/lmodem_rx.c.            *)
(*                                                                         *)
(* The function sends a preamble and then loops: it reads a header         *)
(* character, for a block also the body that follows, replies, and stores  *)
(* or refuses what came.  Everything between two reads of a header is one  *)
(* action.  The header and the body of a block are read by two getchar     *)
(* calls; the body follows its header on the line, so the two reads are    *)
(* taken as one step (XModemBytes, where the line may break a frame apart, *)
(* has the two reads).                                                     *)
(*                                                                         *)
(* rxpc is "idle" before the call, "header" in the loop, "done" after the  *)
(* return; receivedBytes is then the value returned.                       *)
(***************************************************************************)
EXTENDS RamFile, LModemLine

VARIABLES
  rxOpts,             \* opts of the receiver's context
  rxpc,
  expectedBlkNumber,  \* the uint8_t counter, before reduction modulo BlkMod
  nbRetry,
  canCharReceived,
  receivedBytes,
  rxRam,              \* ramfile of the receiver's context
  rxData              \* its contents: what each accepted block holds

rxVars == <<rxOpts, rxpc, expectedBlkNumber, nbRetry, canCharReceived,
            receivedBytes, rxRam, rxData>>

(* What one block leaves in the receiver's file.                           *)
Chunk == [off : Nat, n : Nat, size : Nat, good : BOOLEAN]

ChunkIn(f) ==
  [off |-> f.off, n |-> f.n, size |-> BlkSize(f.hdr), good |-> f.good]

(* lxmodem_build_and_send_preambule                                        *)
Preambule ==
  IF Protocol = "XMODEM" /\ rxOpts = "lxmodem_128_with_chksum"
  THEN NAK ELSE CHR_C

NumberedAs(f, number) ==
  f.blk = number % BlkMod /\ f.cblk = Complement(number % BlkMod)

(* The verdict on a block.  The check of the data is made only for the     *)
(* expected number; a repeated block is recognised by its number alone.    *)
lxmodem_check_block_no_and_crc(f, number) ==
  IF NumberedAs(f, number)
  THEN (IF f.good THEN "OK" ELSE "ERROR")
  ELSE IF NumberedAs(f, number - 1) THEN "PREVIOUS_BLOCK"
  ELSE "ERROR"

(* Mutated forms of RxStatus: a repeated block is taken as the next one;   *)
(* the number is not looked at.                                            *)
RxStatusRepeatOk(f) ==
  IF \/ NumberedAs(f, expectedBlkNumber)
     \/ NumberedAs(f, expectedBlkNumber - 1)
  THEN (IF f.good THEN "OK" ELSE "ERROR")
  ELSE "ERROR"

RxStatusAnyNumber(f) == IF f.good THEN "OK" ELSE "ERROR"

RxStatus(f) == lxmodem_check_block_no_and_crc(f, expectedBlkNumber)

(* Mutated form of Reply: a bad block is acknowledged.                     *)
ReplyAlwaysAck(status) == ACK

(* lxmodem_build_and_send_reply                                            *)
Reply(status) == IF status \in {"OK", "PREVIOUS_BLOCK"} THEN ACK ELSE NAK

(* The block fits: lmodem_buffer_write reports the whole block written.    *)
Fits(f) == NbToCopy(rxRam, BlkSize(f.hdr)) = BlkSize(f.hdr)

Reading == rxpc = "header" /\ toRx # <<>>

(* A block whose body is read: SOH always, STX only in the 1k modes.       *)
BlockArrived ==
  /\ Reading
  /\ \/ Head(toRx).hdr = SOH
     \/ /\ Head(toRx).hdr = STX
        /\ rxOpts = "lxmodem_1k" \/ Protocol = "YMODEM"

(* Mutated forms of RxError: errors are not counted; one error too many is *)
(* allowed.                                                                *)
RxErrorNoLimit(reply, cancelled) ==
  /\ nbRetry' = nbRetry
  /\ PutChars(reply)
  /\ rxpc' = IF cancelled THEN "done" ELSE rxpc
  /\ receivedBytes' = IF cancelled THEN -1 ELSE receivedBytes

RxErrorOneMore(reply, cancelled) ==
  LET exhausted == nbRetry + 1 > MaxRetry
      stop      == exhausted \/ cancelled
  IN  /\ nbRetry' = nbRetry + 1
      /\ PutChars(reply \o IF exhausted THEN <<CAN, CAN>> ELSE <<>>)
      /\ rxpc' = IF stop THEN "done" ELSE rxpc
      /\ receivedBytes' = IF stop THEN -1 ELSE receivedBytes

(* The error branch of the loop: reply (nothing after a timeout), one more *)
(* error, and after MaxRetry errors in a row, or when the sender           *)
(* cancelled, the end of the transfer.                                     *)
RxError(reply, cancelled) ==
  LET exhausted == nbRetry + 1 >= MaxRetry
      stop      == exhausted \/ cancelled
  IN  /\ nbRetry' = nbRetry + 1
      /\ PutChars(reply \o IF exhausted THEN <<CAN, CAN>> ELSE <<>>)
      /\ rxpc' = IF stop THEN "done" ELSE rxpc
      /\ receivedBytes' = IF stop THEN -1 ELSE receivedBytes

-----------------------------------------------------------------------------
(* Entry of lxmodem_receive.                                               *)
RxStart ==
  /\ rxpc = "idle"
  /\ rxpc' = "header"
  /\ expectedBlkNumber' = 1
  /\ nbRetry' = 0
  /\ canCharReceived' = 0
  /\ receivedBytes' = 0
  /\ PutChars(<<Preambule>>)
  /\ UNCHANGED <<toRx, rxOpts, rxRam, rxData>>

(* A good block with the expected number, stored.                          *)
RxStore ==
  /\ BlockArrived
  /\ LET f == Head(toRx) IN
       /\ RxStatus(f) = "OK"
       /\ Fits(f)
       /\ rxRam' = lmodem_buffer_write(rxRam, BlkSize(f.hdr))
       /\ rxData' = Append(rxData, ChunkIn(f))
       /\ receivedBytes' = receivedBytes + BlkSize(f.hdr)
  /\ toRx' = Tail(toRx)
  /\ PutChars(<<Reply("OK")>>)
  /\ expectedBlkNumber' = expectedBlkNumber + 1
  /\ nbRetry' = 0
  /\ canCharReceived' = 0
  /\ UNCHANGED <<rxOpts, rxpc>>

(* A good block that does not fit: already acknowledged, then cancelled.   *)
RxOverflow ==
  /\ BlockArrived
  /\ RxStatus(Head(toRx)) = "OK"
  /\ ~Fits(Head(toRx))
  /\ toRx' = Tail(toRx)
  /\ PutChars(<<Reply("OK"), CAN, CAN>>)
  /\ rxpc' = "done"
  /\ receivedBytes' = -1
  /\ rxRam' = lmodem_buffer_write(rxRam, BlkSize(Head(toRx).hdr))
  /\ canCharReceived' = 0
  /\ UNCHANGED <<rxOpts, expectedBlkNumber, nbRetry, rxData>>

(* A repeated block (acknowledged) or a bad one (refused): an error both.  *)
RxRefuse ==
  /\ BlockArrived
  /\ RxStatus(Head(toRx)) # "OK"
  /\ toRx' = Tail(toRx)
  /\ RxError(<<Reply(RxStatus(Head(toRx)))>>, FALSE)
  /\ canCharReceived' = 0
  /\ UNCHANGED <<rxOpts, expectedBlkNumber, rxRam, rxData>>

(* End of transfer: nothing is written, the number of bytes is returned.   *)
RxEot ==
  /\ Reading
  /\ Head(toRx).hdr = EOT
  /\ toRx' = Tail(toRx)
  /\ PutChars(<<Reply("OK")>>)
  /\ rxpc' = "done"
  /\ expectedBlkNumber' = expectedBlkNumber + 1
  /\ nbRetry' = 0
  /\ canCharReceived' = 0
  /\ UNCHANGED <<rxOpts, receivedBytes, rxRam, rxData>>

(* CAN: the second one since the last block cancels.                       *)
RxCan ==
  /\ Reading
  /\ Head(toRx).hdr = CAN
  /\ toRx' = Tail(toRx)
  /\ canCharReceived' = canCharReceived + 1
  /\ RxError(<<Reply("ERROR")>>, canCharReceived + 1 >= 2)
  /\ UNCHANGED <<rxOpts, expectedBlkNumber, rxRam, rxData>>

(* Any other character: refused.                                           *)
RxUnknown ==
  /\ Reading
  /\ Head(toRx).hdr \notin {SOH, STX, EOT, CAN}
  /\ toRx' = Tail(toRx)
  /\ RxError(<<Reply("ERROR")>>, FALSE)
  /\ UNCHANGED <<rxOpts, expectedBlkNumber, canCharReceived, rxRam, rxData>>

(* getchar of the header fails: an error, without a reply.                 *)
RxTimeout ==
  /\ rxpc = "header"
  /\ toRx = <<>>
  /\ RxError(<<>>, FALSE)
  /\ UNCHANGED <<toRx, rxOpts, expectedBlkNumber, canCharReceived, rxRam,
                 rxData>>

(* Everything the receiver does with what it reads.                        *)
RxReceives ==
  RxStore \/ RxOverflow \/ RxRefuse \/ RxEot \/ RxCan \/ RxUnknown

(* A context set up by lmodem_init, lmodem_set_line_buffer and             *)
(* lmodem_set_file_buffer, and no call made yet.                           *)
RxInit(opts, max_size) ==
  /\ rxOpts = opts
  /\ rxpc = "idle"
  /\ expectedBlkNumber = 1
  /\ nbRetry = 0
  /\ canCharReceived = 0
  /\ receivedBytes = 0
  /\ rxRam = lmodem_buffer_init(max_size)
  /\ rxData = <<>>

RxTypeOK ==
  /\ rxOpts \in Opts
  /\ rxpc \in {"idle", "header", "done"}
  /\ expectedBlkNumber \in Nat \ {0}
  /\ nbRetry \in 0 .. MaxRetry
  /\ canCharReceived \in 0 .. 2
  /\ receivedBytes \in Nat \cup {-1}
  /\ rxRam \in RamFileType
  /\ rxData \in Seq(Chunk)
=============================================================================
