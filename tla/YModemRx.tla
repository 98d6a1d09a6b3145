------------------------------ MODULE YModemRx ------------------------------
(***************************************************************************)
(* The YMODEM receiver, lymodem_receive of src/src/lmodem_rx.c: it asks    *)
(* for the name block, lets lxmodem_receive (XModemRx) fetch the contents, *)
(* turns down any further file, and cuts its file to the announced size.   *)
(*                                                                         *)
(* ryPhase is "start" before the call, "name" while the header of the name *)
(* block is awaited, "repeat" while lymodem_receive_block0 waits for the   *)
(* block to be sent again, "contents" during lxmodem_receive, "next" in    *)
(* lymodem_block_next_file, "done" after the return.                       *)
(***************************************************************************)
EXTENDS XModemRx

VARIABLES
  ryPhase,
  ryCount,    \* timeout of the waits, retry of lymodem_receive_block0
  rxFileData  \* file_data of the receiver's context

ryVars == <<ryPhase, ryCount, rxFileData>>

(* A frame that holds a name, or the null name that ends a batch.          *)
IsName(f) == IsBlock(f) /\ f.n = 0

NoFileData == [valid |-> {}, size |-> 0]

(* What two bytes of a CRC and what lies behind them may read as.          *)
StraySizes == {0, 1}

(***************************************************************************)
(* lymodem_decode_block0: file_data is cleared, and filled with the name   *)
(* and the fields that are there.  Behind a name without fields it finds   *)
(* the CRC of the block: that seldom reads as a size, and the block is     *)
(* then refused (Block0 has the characters).                               *)
(***************************************************************************)
lymodem_decode_block0(meta) ==
  IF ~meta.name THEN {[ok |-> FALSE, data |-> NoFileData]}
  ELSE IF meta.fields > 0
  THEN {[ok   |-> TRUE,
         data |-> [valid |-> {"filename"} \cup
                               {FieldOrder[i] : i \in 1 .. meta.fields},
                   size  |-> meta.size]]}
  ELSE [ok   : BOOLEAN,
        data : [valid : {{"filename", "filesize"}}, size : StraySizes]]
       \cup {[ok |-> TRUE, data |-> [valid |-> {"filename"}, size |-> 0]]}

(* The value lymodem_receive returns: -1 when lxmodem_receive did not run. *)
RyResult == IF rxpc = "idle" THEN -1 ELSE receivedBytes

(* Mutated form of RyReturn: the file keeps the padding.                   *)
RyReturnUncut(fileData) ==
  /\ ryPhase' = "done"
  /\ rxFileData' = fileData
  /\ UNCHANGED rxVars

(***************************************************************************)
(* The end of lymodem_receive.  receivedBytes is an unsigned number there: *)
(* the size is applied unless it is 0, also after a failure (-1).          *)
(***************************************************************************)
RyReturn(fileData) ==
  /\ ryPhase' = "done"
  /\ rxFileData' = fileData
  /\ rxRam' = IF RyResult # 0 /\ "filesize" \in fileData.valid
              THEN lmodem_buffer_set_write_offset(rxRam, fileData.size)
              ELSE rxRam
  /\ UNCHANGED <<rxOpts, rxpc, expectedBlkNumber, nbRetry, canCharReceived,
                 receivedBytes, rxData>>

(* Mutated form of RyRefuse: no limit.                                     *)
RyRefuseForever(status, nth) ==
  /\ ryCount' = nth
  /\ toRx' = Tail(toRx)
  /\ ryPhase' = "repeat"
  /\ PutChars(<<Reply(status)>>)
  /\ UNCHANGED <<rxVars, rxFileData>>

(* lymodem_receive_block0 refuses a block for the nth time.                *)
RyRefuse(status, nth) ==
  /\ ryCount' = nth
  /\ toRx' = Tail(toRx)
  /\ \/ /\ nth < MaxRetry
        /\ ryPhase' = "repeat"
        /\ PutChars(<<Reply(status)>>)
     \/ /\ nth >= MaxRetry
        /\ ryPhase' = "done"
        /\ PutChars(<<Reply(status), CAN, CAN>>)
  /\ UNCHANGED <<rxVars, rxFileData>>

-----------------------------------------------------------------------------
(* Entry of lymodem_receive: the preamble.                                 *)
RyStart ==
  /\ ryPhase = "start"
  /\ ryPhase' = "name"
  /\ PutChars(<<Preambule>>)
  /\ UNCHANGED <<toRx, rxVars, ryCount, rxFileData>>

(* What is made of a good name block.  A null name is the end.             *)
RyDecode(meta) ==
  \E decoded \in lymodem_decode_block0(meta) :
    \/ /\ decoded.ok
       /\ ryPhase' = "contents"
       /\ rxFileData' = decoded.data
       /\ UNCHANGED rxVars
    \/ ~decoded.ok /\ RyReturn(decoded.data)

NameArrived ==
  /\ ryPhase = "name"
  /\ toRx # <<>>
  /\ IsBlock(Head(toRx))
  /\ lxmodem_check_block_no_and_crc(Head(toRx), 0) = "OK"

(* Mutated form of RyName: the block is not acknowledged.                  *)
RyNameSilent ==
  /\ NameArrived
  /\ RyDecode(Head(toRx).meta)
  /\ toRx' = Tail(toRx)
  /\ UNCHANGED <<toTx, faults, ryCount>>

(* A good name block: acknowledged, then decoded.                          *)
RyName ==
  /\ NameArrived
  /\ RyDecode(Head(toRx).meta)
  /\ toRx' = Tail(toRx)
  /\ PutChars(<<Reply("OK")>>)
  /\ UNCHANGED ryCount

(* Another block, or a damaged one, where the name block is expected.      *)
RyNameBad ==
  /\ ryPhase = "name"
  /\ toRx # <<>>
  /\ IsBlock(Head(toRx))
  /\ LET status == lxmodem_check_block_no_and_crc(Head(toRx), 0) IN
       status # "OK" /\ RyRefuse(status, 1)

(* Any other character ends the wait, and with it the call.                *)
RyNameOther ==
  /\ ryPhase = "name"
  /\ toRx # <<>>
  /\ ~IsBlock(Head(toRx))
  /\ toRx' = Tail(toRx)
  /\ RyReturn(rxFileData)
  /\ UNCHANGED <<toTx, faults, ryCount>>

(* No name block yet; after MaxTimeout failed reads, the end.              *)
RyNameTimeout ==
  /\ ryPhase = "name"
  /\ toRx = <<>>
  /\ ryCount' = ryCount + 1
  /\ \/ ryCount + 1 < MaxTimeout /\ UNCHANGED <<ryPhase, rxVars, rxFileData>>
     \/ ryCount + 1 >= MaxTimeout /\ RyReturn(rxFileData)
  /\ UNCHANGED lineVars

(***************************************************************************)
(* The name block sent again.  lymodem_receive_block0 reads it without its *)
(* header: it takes SOH or STX for the block number, so the block is never *)
(* the one expected.  A read that finds less than a block loses it.        *)
(***************************************************************************)
RyRepeat ==
  /\ ryPhase = "repeat"
  /\ toRx # <<>>
  /\ \/ IsBlock(Head(toRx)) /\ RyRefuse("ERROR", ryCount + 1)
     \/ /\ ~IsBlock(Head(toRx))
        /\ toRx' = Tail(toRx)
        /\ UNCHANGED <<toTx, faults, rxVars, ryVars>>

(* Failed reads are not counted.                                           *)
RyRepeatTimeout ==
  /\ ryPhase = "repeat"
  /\ toRx = <<>>
  /\ UNCHANGED <<lineVars, rxVars, ryVars>>

(* lxmodem_receive has returned, whatever its result: ask for the next     *)
(* name.                                                                   *)
RyNextFile ==
  /\ ryPhase = "contents"
  /\ rxpc = "done"
  /\ ryPhase' = "next"
  /\ ryCount' = 0
  /\ PutChars(<<Preambule>>)
  /\ UNCHANGED <<toRx, rxVars, rxFileData>>

(***************************************************************************)
(* What buffer[2] holds after the read of f: the first character of a name *)
(* block, whose number and CRC are not checked, or of the block read last. *)
(* TRUE stands for 0.  A damaged block and file data may hold anything.    *)
(***************************************************************************)
NullName(f) == IF IsName(f) /\ f.good THEN {~f.meta.name} ELSE BOOLEAN

(* The answer to the next file: nothing more to come, or cancelled.        *)
RyBlockNextFile ==
  /\ ryPhase = "next"
  /\ toRx # <<>>
  /\ toRx' = Tail(toRx)
  /\ \E null \in NullName(Head(toRx)) :
       PutChars(IF null THEN <<Reply("OK")>> ELSE <<CAN, CAN>>)
  /\ RyReturn(rxFileData)
  /\ UNCHANGED ryCount

RyNextTimeout ==
  /\ ryPhase = "next"
  /\ toRx = <<>>
  /\ ryCount' = ryCount + 1
  /\ \/ ryCount + 1 < MaxTimeout /\ UNCHANGED <<ryPhase, rxVars, rxFileData>>
     \/ ryCount + 1 >= MaxTimeout /\ RyReturn(rxFileData)
  /\ UNCHANGED lineVars

RyReceives == RyName \/ RyNameBad \/ RyNameOther \/ RyRepeat \/ RyBlockNextFile

RyTimeouts == RyNameTimeout \/ RyRepeatTimeout \/ RyNextTimeout

(* lmodem_init clears file_data.                                           *)
RyInit ==
  /\ ryPhase = "start"
  /\ ryCount = 0
  /\ rxFileData = NoFileData

RyTypeOK ==
  /\ ryPhase \in {"start", "name", "repeat", "contents", "next", "done"}
  /\ ryCount \in 0 .. (IF MaxRetry < MaxTimeout THEN MaxTimeout ELSE MaxRetry)
  /\ rxFileData \in FileData
=============================================================================
