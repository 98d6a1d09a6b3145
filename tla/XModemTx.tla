------------------------------ MODULE XModemTx ------------------------------
(***************************************************************************)
(* The XMODEM emitter, lxmodem_emit of src/src/lmodem_tx.c.                *)
(*                                                                         *)
(* The function waits for the receiver's preamble, then sends one block at *)
(* a time and waits for the reply to it.  Everything between two getchar   *)
(* calls is one action.  txpc is "preambule" while the preamble is         *)
(* awaited, "reply" while a reply is, "done" after the return;             *)
(* emittedBytes is then the value returned.                                *)
(***************************************************************************)
EXTENDS RamFile, LModemLine

VARIABLES
  txOpts,       \* opts of the emitter's context
  txpc,
  blkNo,        \* the uint8_t counter, before reduction modulo BlkMod
  retry,
  timeout,
  emittedBytes,
  txRam,        \* ramfile of the emitter's context
  blk_buffer    \* the frame built last, kept to be sent again

txVars == <<txOpts, txpc, blkNo, retry, timeout, emittedBytes, txRam,
            blk_buffer>>

(* lxmodem_decode_preambule                                                *)
lxmodem_decode_preambule(preambule) ==
  \/ preambule = NAK /\ txOpts = "lxmodem_128_with_chksum"
  \/ /\ preambule = CHR_C
     /\ \/ Protocol = "YMODEM"
        \/ txOpts \in {"lxmodem_128_with_crc", "lxmodem_1k"}

(* The block size lxmode_send_data_blocks works with.                      *)
defaultBlksize ==
  IF Protocol = "YMODEM" \/ txOpts = "lxmodem_1k" THEN LargeBlk ELSE SmallBlk

bytesToRead ==
  IF defaultBlksize < lmodem_buffer_get_size(txRam)
  THEN defaultBlksize ELSE lmodem_buffer_get_size(txRam)

(* Mutated form of DataBlock: a short block is taken for the end.          *)
DataBlockOnlyFull(number) ==
  IF bytesToRead < defaultBlksize THEN CharFrame(EOT, number)
  ELSE [hdr  |-> IF bytesToRead <= SmallBlk THEN SOH ELSE STX,
        blk  |-> number % BlkMod,
        cblk |-> Complement(number % BlkMod),
        off  |-> txRam.read_offset,
        n    |-> bytesToRead,
        good |-> TRUE,
        meta |-> NoMeta,
        seq  |-> number]

(* The frame lxmode_build_and_send_one_data_block builds: the next bytes   *)
(* of the file, or EOT when there are none left.                           *)
DataBlock(number) ==
  IF bytesToRead = 0 THEN CharFrame(EOT, number)
  ELSE [hdr  |-> IF bytesToRead <= SmallBlk THEN SOH ELSE STX,
        blk  |-> number % BlkMod,
        cblk |-> Complement(number % BlkMod),
        off  |-> txRam.read_offset,
        n    |-> bytesToRead,
        good |-> TRUE,
        meta |-> NoMeta,
        seq  |-> number]

isLastBlock == blk_buffer.hdr = EOT

(* The size of the block sent last, padding included.                      *)
nbEmitted == IF isLastBlock THEN 0 ELSE BlkSize(blk_buffer.hdr)

(* lxmode_build_and_send_one_data_block                                    *)
SendNext(number) ==
  /\ blk_buffer' = DataBlock(number)
  /\ txRam' = lmodem_buffer_read(txRam, bytesToRead)
  /\ PutFrame(DataBlock(number))

(* lxmode_reemit_previous_block                                            *)
SendAgain == PutFrame(blk_buffer) /\ UNCHANGED <<txRam, blk_buffer>>

TxStop(result) ==
  /\ txpc' = "done"
  /\ emittedBytes' = result
  /\ UNCHANGED <<toRx, faults, txRam, blk_buffer>>

(* One more error on the current block: give up or send it again.  limit   *)
(* is 2 for CAN and unknown characters, which end the transfer sooner.     *)
TxError(limit) ==
  /\ retry' = retry + 1
  /\ timeout' = 0
  /\ \/ retry + 1 >= limit /\ TxStop(-1)
     \/ retry + 1 < limit /\ SendAgain /\ UNCHANGED <<txpc, emittedBytes>>

ReplyArrived == txpc = "reply" /\ toTx # <<>>

-----------------------------------------------------------------------------
(* The preamble asks for what this side is set up for: send block 1.       *)
TxPreambule ==
  /\ txpc = "preambule"
  /\ toTx # <<>>
  /\ lxmodem_decode_preambule(Head(toTx))
  /\ toTx' = Tail(toTx)
  /\ txpc' = "reply"
  /\ blkNo' = 1
  /\ retry' = 0
  /\ timeout' = 0
  /\ emittedBytes' = 0
  /\ SendNext(1)
  /\ UNCHANGED txOpts

(* The preamble asks for something else: cancel.                           *)
TxPreambuleRefused ==
  /\ txpc = "preambule"
  /\ toTx # <<>>
  /\ ~lxmodem_decode_preambule(Head(toTx))
  /\ toTx' = Tail(toTx)
  /\ PutCancelFrames(blkNo)
  /\ txpc' = "done"
  /\ emittedBytes' = -1
  /\ UNCHANGED <<txOpts, blkNo, retry, timeout, txRam, blk_buffer>>

(* No preamble yet; after MaxTimeout tries lxmodem_emit returns 0.         *)
TxPreambuleTimeout ==
  /\ txpc = "preambule"
  /\ toTx = <<>>
  /\ timeout' = timeout + 1
  /\ txpc' = IF timeout + 1 < MaxTimeout THEN txpc ELSE "done"
  /\ UNCHANGED <<lineVars, txOpts, blkNo, retry, emittedBytes, txRam,
                 blk_buffer>>

(* Mutated form of TxAck: the padding of the last block is not counted.    *)
TxAckCountsData ==
  /\ ReplyArrived
  /\ Head(toTx) = ACK
  /\ toTx' = Tail(toTx)
  /\ blkNo' = blkNo + 1
  /\ retry' = 0
  /\ timeout' = 0
  /\ \/ isLastBlock /\ TxStop(emittedBytes)
     \/ /\ ~isLastBlock
        /\ emittedBytes' = emittedBytes + blk_buffer.n
        /\ SendNext(blkNo + 1)
        /\ UNCHANGED txpc
  /\ UNCHANGED txOpts

(* ACK: the next block, or the end after the EOT.                          *)
TxAck ==
  /\ ReplyArrived
  /\ Head(toTx) = ACK
  /\ toTx' = Tail(toTx)
  /\ blkNo' = blkNo + 1
  /\ retry' = 0
  /\ timeout' = 0
  /\ \/ isLastBlock /\ TxStop(emittedBytes)
     \/ /\ ~isLastBlock
        /\ emittedBytes' = emittedBytes + nbEmitted
        /\ SendNext(blkNo + 1)
        /\ UNCHANGED txpc
  /\ UNCHANGED txOpts

(* NAK: the same block again, up to MaxRetry times.                        *)
TxNak ==
  /\ ReplyArrived
  /\ Head(toTx) = NAK
  /\ toTx' = Tail(toTx)
  /\ TxError(MaxRetry)
  /\ UNCHANGED <<txOpts, blkNo>>

(* CAN, or a character that is no reply: the second error ends it.         *)
TxOther ==
  /\ ReplyArrived
  /\ Head(toTx) \notin {ACK, NAK}
  /\ toTx' = Tail(toTx)
  /\ TxError(IF MaxRetry < 2 THEN MaxRetry ELSE 2)
  /\ UNCHANGED <<txOpts, blkNo>>

(* Mutated form of TxTimeout: the failed reads are not counted as an error.*)
TxTimeoutPatient ==
  /\ txpc = "reply"
  /\ toTx = <<>>
  /\ timeout' = IF timeout + 1 < MaxTimeout THEN timeout + 1 ELSE 0
  /\ UNCHANGED <<lineVars, txOpts, txpc, blkNo, retry, emittedBytes, txRam,
                 blk_buffer>>

(* No reply yet; MaxTimeout failed reads count as one error.               *)
TxTimeout ==
  /\ txpc = "reply"
  /\ toTx = <<>>
  /\ \/ /\ timeout + 1 < MaxTimeout
        /\ timeout' = timeout + 1
        /\ UNCHANGED <<lineVars, txpc, retry, emittedBytes, txRam, blk_buffer>>
     \/ /\ timeout + 1 >= MaxTimeout
        /\ TxError(MaxRetry)
        /\ UNCHANGED toTx
  /\ UNCHANGED <<txOpts, blkNo>>

(* Everything the emitter does with what it reads.                         *)
TxReceives == TxPreambule \/ TxPreambuleRefused \/ TxAck \/ TxNak \/ TxOther

(* A context set up by lmodem_init, with a file of size bytes to send      *)
(* (lmodem_set_file_buffer, lmodem_buffer_set_write_offset).               *)
TxInit(opts, size) ==
  /\ txOpts = opts
  /\ txpc = "preambule"
  /\ blkNo = 1
  /\ retry = 0
  /\ timeout = 0
  /\ emittedBytes = 0
  /\ txRam = lmodem_buffer_set_write_offset(lmodem_buffer_init(size), size)
  /\ blk_buffer = CharFrame(0, 1)

TxTypeOK ==
  /\ txOpts \in Opts
  /\ txpc \in {"preambule", "reply", "done"}
  /\ blkNo \in Nat \ {0}
  /\ retry \in 0 .. MaxRetry
  /\ timeout \in 0 .. MaxTimeout
  /\ emittedBytes \in Nat \cup {-1}
  /\ txRam \in RamFileType
  /\ blk_buffer \in Frame
=============================================================================
