------------------------------ MODULE YModemTx ------------------------------
(***************************************************************************)
(* The YMODEM emitter, lymodem_emit of src/src/lmodem_tx.c: it waits for a *)
(* call, sends the name block, lets lxmodem_emit (XModemTx) send the       *)
(* contents, waits for the next call and ends the batch with a null name.  *)
(*                                                                         *)
(* tyPhase is "call" while the first C is awaited, "name" while the reply  *)
(* to the name block is, "contents" during lxmodem_emit, "next" while the  *)
(* second C is awaited, "batch" while the reply to the null name is,       *)
(* "done" after the return; tyResult is then the value returned.           *)
(***************************************************************************)
EXTENDS XModemTx, FiniteSets

VARIABLES
  tyPhase,
  tyTimeout,     \* timeout of lmodem_wait_reception and _wait_reception_of
  tyRetry,       \* retry of lymodem_emit
  receivedChar,  \* the last reply; kept when a wait fails
  tyResult,      \* nbEmitted of lymodem_emit
  txFileData     \* file_data of the emitter's context

tyVars == <<tyPhase, tyTimeout, tyRetry, receivedChar, tyResult, txFileData>>

(* Mutated form of NameBlock: it has the number of the first data block.   *)
NameBlockFirst ==
  [hdr |-> SOH, blk |-> 1, cblk |-> Complement(1), off |-> 0, n |-> 0,
   good |-> TRUE,
   meta |-> [name   |-> TRUE,
             fields |-> Cardinality(txFileData.valid \ {"filename"}),
             size   |-> txFileData.size],
   seq  |-> 0]

(* The name block.  The fields are written in a fixed order, as many as    *)
(* flags are set: the first is always the size, set or not.  (A name that  *)
(* does not fit in a small block makes it a large one, read the same way.) *)
NameBlock ==
  [hdr |-> SOH, blk |-> 0, cblk |-> Complement(0), off |-> 0, n |-> 0,
   good |-> TRUE,
   meta |-> [name   |-> TRUE,
             fields |-> Cardinality(txFileData.valid \ {"filename"}),
             size   |-> txFileData.size],
   seq  |-> 0]

(* The null name of lymodem_send_end_of_bach.                              *)
EndOfBatch ==
  [hdr |-> SOH, blk |-> 0, cblk |-> Complement(0), off |-> 0, n |-> 0,
   good |-> TRUE, meta |-> NoMeta, seq |-> 0]

(* lymodem_build_and_send_block0: without a file name nothing is sent.     *)
SendName ==
  \/ /\ "filename" \in txFileData.valid
     /\ blk_buffer' = NameBlock
     /\ PutFrame(NameBlock)
  \/ /\ "filename" \notin txFileData.valid
     /\ UNCHANGED <<toRx, faults, blk_buffer>>

SendEndOfBatch == blk_buffer' = EndOfBatch /\ PutFrame(EndOfBatch)

TyReturn(result) == tyPhase' = "done" /\ tyResult' = result

(* lxmodem_emit uses its own variables, lymodem_emit the frame and these.  *)
contentsVars == <<txOpts, txpc, blkNo, retry, timeout, emittedBytes, txRam>>

-----------------------------------------------------------------------------
(* C: send the name block, or after the contents the null name.            *)
TyCalled ==
  /\ toTx # <<>>
  /\ Head(toTx) = CHR_C
  /\ toTx' = Tail(toTx)
  /\ \/ tyPhase = "call" /\ tyPhase' = "name" /\ SendName
     \/ tyPhase = "next" /\ tyPhase' = "batch" /\ SendEndOfBatch
  /\ tyTimeout' = 0
  /\ tyRetry' = 0
  /\ UNCHANGED <<contentsVars, receivedChar, tyResult, txFileData>>

(* lmodem_wait_reception_of gives up after MaxTimeout reads that bring no  *)
(* C, and lymodem_emit returns what it has.                                *)
TyMissed ==
  /\ tyPhase \in {"call", "next"}
  /\ tyTimeout' = tyTimeout + 1
  /\ \/ tyTimeout + 1 < MaxTimeout /\ UNCHANGED <<tyPhase, tyResult>>
     \/ tyTimeout + 1 >= MaxTimeout /\ TyReturn(tyResult)
  /\ UNCHANGED <<toRx, faults, txVars, tyRetry, receivedChar, txFileData>>

(* Another character, or none.                                             *)
TyNotCalled ==
  toTx # <<>> /\ Head(toTx) # CHR_C /\ toTx' = Tail(toTx) /\ TyMissed

TyCallTimeout == toTx = <<>> /\ UNCHANGED toTx /\ TyMissed

(* What follows the reply to the name block, or to the null name, when it  *)
(* is good or was asked for too often.                                     *)
TyProceed ==
  \/ tyPhase = "name" /\ tyPhase' = "contents" /\ UNCHANGED tyResult
  \/ tyPhase = "batch" /\ TyReturn(tyResult)

(***************************************************************************)
(* The switch on receivedChar.  A NAK has the block sent again, and after  *)
(* MaxRetry of them the loop ends as after an ACK; CAN ends the call; any  *)
(* other character is passed over.                                         *)
(***************************************************************************)
TyReact(c) ==
  /\ tyTimeout' = 0
  /\ \/ /\ c = ACK
        /\ TyProceed
        /\ UNCHANGED <<toRx, faults, txVars, tyRetry>>
     \/ /\ c = CAN
        /\ TyReturn(-1)
        /\ UNCHANGED <<toRx, faults, txVars, tyRetry>>
     \/ /\ c = NAK
        /\ tyRetry' = tyRetry + 1
        /\ SendAgain
        /\ UNCHANGED contentsVars
        /\ \/ tyRetry + 1 < MaxRetry /\ UNCHANGED <<tyPhase, tyResult>>
           \/ tyRetry + 1 >= MaxRetry /\ TyProceed
     \/ /\ c \notin {ACK, CAN, NAK}
        /\ UNCHANGED <<toRx, faults, txVars, tyPhase, tyResult, tyRetry>>

(* A reply to the name block or to the null name.                          *)
TyReply ==
  /\ tyPhase \in {"name", "batch"}
  /\ toTx # <<>>
  /\ toTx' = Tail(toTx)
  /\ receivedChar' = Head(toTx)
  /\ TyReact(Head(toTx))
  /\ UNCHANGED txFileData

(* No reply.  After MaxTimeout failed reads lmodem_wait_reception returns, *)
(* and the switch is done on the reply that came last, if any.             *)
TyReplyTimeout ==
  /\ tyPhase \in {"name", "batch"}
  /\ toTx = <<>>
  /\ \/ /\ tyTimeout + 1 < MaxTimeout
        /\ tyTimeout' = tyTimeout + 1
        /\ UNCHANGED <<toRx, faults, txVars, tyPhase, tyResult, tyRetry>>
     \/ tyTimeout + 1 >= MaxTimeout /\ TyReact(receivedChar)
  /\ UNCHANGED <<toTx, receivedChar, txFileData>>

(* Mutated form of TyTransferred: the size of the file is reported, and a  *)
(* failure is not told from a success.                                     *)
TyTransferredSize ==
  /\ tyPhase = "contents"
  /\ txpc = "done"
  /\ tyResult' = txRam.write_offset
  /\ tyTimeout' = 0
  /\ tyPhase' = "next"
  /\ UNCHANGED <<lineVars, txVars, tyRetry, receivedChar, txFileData>>

(* lxmodem_emit has returned.  nbEmitted is an unsigned number: unless it  *)
(* is 0, also after a failure (-1), the next call is waited for.           *)
TyTransferred ==
  /\ tyPhase = "contents"
  /\ txpc = "done"
  /\ tyResult' = emittedBytes
  /\ tyTimeout' = 0
  /\ \/ /\ emittedBytes # 0
        /\ tyPhase' = "next"
        /\ UNCHANGED <<toRx, faults, blk_buffer, tyRetry>>
     \/ /\ emittedBytes = 0
        /\ tyPhase' = "batch"
        /\ tyRetry' = 0
        /\ SendEndOfBatch
  /\ UNCHANGED <<toTx, contentsVars, receivedChar, txFileData>>

TyReceives == TyCalled \/ TyNotCalled \/ TyReply

TyTimeouts == TyCallTimeout \/ TyReplyTimeout

(* A context with the flags valid, and the size of the file if it was set. *)
TyInit(valid, size) ==
  /\ tyPhase = "call"
  /\ tyTimeout = 0
  /\ tyRetry = 0
  /\ receivedChar = 0
  /\ tyResult = -1
  /\ txFileData = [valid |-> valid,
                   size  |-> IF "filesize" \in valid THEN size ELSE 0]

TyTypeOK ==
  /\ tyPhase \in {"call", "name", "contents", "next", "batch", "done"}
  /\ tyTimeout \in 0 .. MaxTimeout
  /\ tyRetry \in 0 .. MaxRetry
  /\ receivedChar \in Byte
  /\ tyResult \in Nat \cup {-1}
  /\ txFileData \in FileData
=============================================================================
