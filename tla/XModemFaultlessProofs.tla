----------------------- MODULE XModemFaultlessProofs -----------------------
(***************************************************************************)
(* Proofs about an XMODEM transfer over a line without faults, with        *)
(* answers that may be late: a transfer that ends well is complete.        *)
(***************************************************************************)
EXTENDS XModemLinkProofs

(***************************************************************************)
(* What no step changes, and the number of faults.                         *)
(***************************************************************************)
LEMMA PutsCountFaults ==
  /\ \A s : PutChars(s) => faults' \in {faults, faults + 1}
  /\ \A f : PutFrame(f) => faults' \in {faults, faults + 1}
  /\ \A seq : PutCancelFrames(seq) => faults' \in {faults, faults + 1}
BY DEF PutChars, PutFrame, PutCancelFrames, Fault

(* The line does not get better.                                           *)
LEMMA FaultsStay ==
  ASSUME WindowInv, [Next]_vars
  PROVE  faults \in Nat /\ (faults' = 0 => faults = 0)
<1>1. faults \in Nat
  BY WindowTypes
<1>2. faults' \in {faults, faults + 1}
  <2>1. CASE RxNext
    BY <2>1, PutsCountFaults
    DEF RxNext, RxReceives, RxStart, RxStore, RxOverflow, RxRefuse, RxEot,
        RxCan, RxUnknown, RxTimeout, RxError
  <2>2. CASE TxReceives
    BY <2>2, PutsCountFaults
    DEF TxReceives, TxPreambule, TxPreambuleRefused, TxAck, TxNak, TxOther,
        TxError, TxStop, SendAgain, SendNext
  <2>3. CASE TxPreambuleTimeout \/ TxTimeout
    BY <2>3, PutsCountFaults
    DEF TxPreambuleTimeout, TxTimeout, TxError, TxStop, SendAgain, lineVars
  <2>4. CASE UNCHANGED vars
    BY <2>4 DEF vars, lineVars
  <2>. QED  BY <2>1, <2>2, <2>3, <2>4 DEF Next, TxNext, Terminated
<1>. QED  BY <1>1, <1>2

(* The options, the file, and what is derived from them stay as they are.  *)
LEMMA SetUpStays ==
  ASSUME WindowInv, [Next]_vars
  PROVE  /\ rxOpts' = rxOpts /\ txOpts' = txOpts /\ NbBlocks' = NbBlocks
         /\ Preambule' = Preambule /\ ReadsLarge' = ReadsLarge
         /\ Paired(txOpts, rxOpts)' = Paired(txOpts, rxOpts)
         /\ lxmodem_decode_preambule(Preambule) =>
              lxmodem_decode_preambule(Preambule)'
<1>1. rxOpts' = rxOpts
  <2>1. CASE RxNext
    BY <2>1
    DEF RxNext, RxReceives, RxStart, RxStore, RxOverflow, RxRefuse, RxEot,
        RxCan, RxUnknown, RxTimeout
  <2>2. CASE TxNext \/ UNCHANGED vars
    BY <2>2 DEF TxNext, vars, rxVars
  <2>. QED  BY <2>1, <2>2 DEF Next, Terminated
<1>2. txOpts' = txOpts /\ NbBlocks' = NbBlocks
  BY FileKept, FrozenBlocks
<1>. QED  BY <1>1, <1>2
          DEF Preambule, ReadsLarge, Paired, lxmodem_decode_preambule

(***************************************************************************)
(* The line.                                                               *)
(***************************************************************************)
(* The receiver's characters are those it sends, or noise.                 *)
LEMMA PutCharsAmong ==
  ASSUME NEW S, NoiseBytes \subseteq S, toTx \in Seq(S),
         NEW s \in Seq(S), PutChars(s)
  PROVE  toTx' \in Seq(S)
<1>1. ASSUME NEW t \in Seq(S)
      PROVE  toTx \o t \in Seq(S)
  BY ConcatProperties
<1>2. ASSUME NEW k \in DOMAIN s
      PROVE  Lost(s, k) \in Seq(S)
  <2>1. k \in 1 .. Len(s)
    OBVIOUS
  <2>2. SubSeq(s, 1, k - 1) \in Seq(S)
    BY <2>1, SubSeqProperties
  <2>3. SubSeq(s, k + 1, Len(s)) \in Seq(S)
    BY <2>1, SubSeqProperties
  <2>. QED  BY <2>2, <2>3, ConcatProperties DEF Lost
<1>3. ASSUME NEW k \in DOMAIN s, NEW c \in NoiseBytes
      PROVE  Garbled(s, k, c) \in Seq(S)
  BY DEF Garbled
<1>. QED  BY <1>1, <1>2, <1>3 DEF PutChars

(* A side that is set up for large blocks sends them only to one that is.  *)
LEMMA LargeIsRead ==
  ASSUME Paired(txOpts, rxOpts), lxmodem_decode_preambule(Preambule),
         defaultBlksize = LargeBlk, WindowInv
  PROVE  ReadsLarge
<1>1. rxOpts \in Opts /\ txOpts \in Opts
  BY DEF WindowInv, TypeOK, RxTypeOK, TxTypeOK
<1>2. Protocol = "YMODEM" \/ txOpts = "lxmodem_1k"
  BY LModemAssumption DEF defaultBlksize
<1>3. CASE Protocol # "YMODEM"
  <2>1. Protocol = "XMODEM" /\ txOpts = "lxmodem_1k"
    BY <1>2, <1>3, LModemAssumption
  <2>2. Preambule # NAK
    BY <2>1 DEF lxmodem_decode_preambule, NAK, CHR_C
  <2>3. rxOpts # "lxmodem_128_with_chksum" /\ rxOpts # "lxmodem_128_with_crc"
    BY <2>1, <2>2 DEF Preambule, Paired
  <2>. QED  BY <1>1, <2>3 DEF Opts, ReadsLarge
<1>. QED  BY <1>3 DEF ReadsLarge

(* The frame the emitter keeps is large only when its blocks are.          *)
LEMMA KeptLarge ==
  ASSUME WindowInv, txpc = "reply", blk_buffer.hdr = STX
  PROVE  defaultBlksize = LargeBlk
<1>1. ChunkIn(blk_buffer) = BlockOf(blkNo)
  BY DEF WindowInv, EmitterAtBlkNo, IsBlock
<1>2. BlockOf(blkNo).size = LargeBlk
  BY <1>1 DEF ChunkIn, BlkSize, SOH, STX
<1>. DEFINE left == FileSize - (blkNo - 1) * defaultBlksize
<1>3. left \in Int
  <2>1. blkNo \in Nat \ {0} /\ FileSize \in Nat
    BY LinkTypes
  <2>2. (blkNo - 1) * defaultBlksize \in Nat
    BY <2>1, NextOffset
  <2>. QED  BY <2>1, <2>2
<1>4. BlockOf(blkNo).size =
        IF Smaller(defaultBlksize, left) <= SmallBlk THEN SmallBlk ELSE LargeBlk
  BY DEF BlockOf
<1>. HIDE DEF left
<1>5. defaultBlksize \in {SmallBlk, LargeBlk}
  BY DEF defaultBlksize
<1>6. ~(Smaller(defaultBlksize, left) <= SmallBlk)
  BY <1>2, <1>4, LModemAssumption
<1>. QED  BY <1>3, <1>5, <1>6, LModemAssumption DEF Smaller

(***************************************************************************)
(* Steps of the receiver.                                                  *)
(***************************************************************************)
(* A step of the receiver only takes frames off the line.                  *)
LEMMA ReceiverKeepsFrames ==
  ASSUME WindowInv, FaultlessInv, [Next]_vars, UNCHANGED txVars,
         toRx' = toRx \/ (toRx # <<>> /\ toRx' = Tail(toRx))
  PROVE  /\ (txpc = "reply" => Intact(blk_buffer))'
         /\ FramesIntact'
         /\ (\A i \in DOMAIN toRx : toRx[i].hdr = STX => ReadsLarge)'
<1>1. /\ txpc' = txpc /\ blk_buffer' = blk_buffer
      /\ toRx \in Seq(Frame)
  BY LinkTypes DEF txVars
<1>2. \A i \in DOMAIN toRx' : \E j \in DOMAIN toRx : toRx'[i] = toRx[j]
  <2>1. CASE toRx' = toRx
    BY <2>1
  <2>2. CASE toRx # <<>> /\ toRx' = Tail(toRx)
    <3>1. \A i \in DOMAIN toRx' : i + 1 \in DOMAIN toRx /\ toRx'[i] = toRx[i + 1]
      BY <1>1, <2>2
    <3>. QED  BY <3>1
  <2>. QED  BY <2>1, <2>2
<1>3. (txpc = "reply" => Intact(blk_buffer))'
  BY <1>1, SetUpStays DEF FaultlessInv, Intact, BlockOrEot, IsBlock
<1>4. FramesIntact'
  <2>. SUFFICES ASSUME faults' = 0, NEW i \in DOMAIN toRx'
                PROVE  (\/ toRx[i].hdr # CAN /\ Intact(toRx[i])
                        \/ /\ txpc = "done"
                           /\ \A j \in DOMAIN toRx : toRx[j].hdr = CAN)'
    BY DEF FramesIntact
  <2>1. faults = 0
    BY FaultsStay
  <2>2. PICK j \in DOMAIN toRx : toRx'[i] = toRx[j]
    BY <1>2
  <2>3. CASE toRx[j].hdr # CAN /\ Intact(toRx[j])
    <3>1. toRx'[i].hdr # CAN
      BY <2>2, <2>3
    <3>2. Intact(toRx[i])'
      BY <2>2, <2>3, SetUpStays DEF Intact, BlockOrEot, IsBlock
    <3>. QED  BY <3>1, <3>2
  <2>4. CASE txpc = "done" /\ \A k \in DOMAIN toRx : toRx[k].hdr = CAN
    BY <1>1, <1>2, <2>4
  <2>. QED  BY <2>1, <2>3, <2>4 DEF FaultlessInv, FramesIntact
<1>5. (\A i \in DOMAIN toRx : toRx[i].hdr = STX => ReadsLarge)'
  <2>1. (\E i \in DOMAIN toRx' : toRx'[i].hdr = STX) => ReadsLarge
    BY <1>2 DEF FaultlessInv, SizesMatch
  <2>2. ReadsLarge => ReadsLarge'
    BY SetUpStays DEF ReadsLarge
  <2>. QED  BY <2>1, <2>2
<1>. QED  BY <1>3, <1>4, <1>5

(* Until an emitter has its preamble, the receiver sends nothing else that *)
(* could be one.                                                           *)
LEMMA ReceiverKeepsSizes ==
  ASSUME WindowInv, FaultlessInv, [Next]_vars, RxNext
  PROVE  SizesMatch'
<1>1. UNCHANGED txVars /\ txpc' = txpc
  BY DEF RxNext, txVars
<1>2. toRx' = toRx \/ (toRx # <<>> /\ toRx' = Tail(toRx))
  BY DEF RxNext, RxReceives, RxStart, RxStore, RxOverflow, RxRefuse, RxEot,
         RxCan, RxUnknown, RxTimeout, BlockArrived, Reading
<1>3. /\ Paired(txOpts, rxOpts)'
      /\ (txpc = "reply" => lxmodem_decode_preambule(Preambule))'
      /\ (\A i \in DOMAIN toRx : toRx[i].hdr = STX => ReadsLarge)'
  BY <1>1, <1>2, SetUpStays, ReceiverKeepsFrames DEF FaultlessInv, SizesMatch
<1>4. ASSUME txpc = "preambule"
      PROVE  \A i \in DOMAIN toTx' : toTx'[i] \in {CHR_C, NAK} =>
               toTx'[i] = Preambule
  <2>. DEFINE S == Byte \ ({CHR_C, NAK} \ {Preambule})
  <2>1. toRx = <<>> /\ toTx \in Seq(Byte)
    BY <1>4, WindowFacts, LinkTypes
  <2>2. toTx \in Seq(S)
    <3>1. \A i \in DOMAIN toTx : toTx[i] \in S
      BY <1>4, <2>1 DEF FaultlessInv, SizesMatch
    <3>. QED  BY <2>1, <3>1
  <2>3. NoiseBytes \subseteq S
    BY LineAssumption
  <2>4. /\ Preambule \in S /\ CAN \in S
    BY DEF Preambule, NAK, CHR_C, CAN, Byte
  <2>. HIDE DEF S
  <2>5. ASSUME RxStart
        PROVE  toTx' \in Seq(S)
    <3>1. PutChars(<<Preambule>>) /\ <<Preambule>> \in Seq(S)
      BY <2>4, <2>5 DEF RxStart
    <3>. QED  BY <2>2, <2>3, <3>1, PutCharsAmong
  <2>6. ASSUME RxTimeout
        PROVE  toTx' \in Seq(S)
    <3>1. PutChars(<<>> \o IF nbRetry + 1 >= MaxRetry THEN <<CAN, CAN>>
                           ELSE <<>>)
      BY <2>6 DEF RxTimeout, RxError
    <3>. DEFINE s == IF nbRetry + 1 >= MaxRetry THEN <<CAN, CAN>> ELSE <<>>
    <3>2. <<>> \o s \in Seq(S) /\ PutChars(<<>> \o s)
      BY <2>4, <3>1
    <3>. HIDE DEF s
    <3>3. toTx' \in Seq(S)
      BY <2>2, <2>3, <3>1, <3>2, PutCharsAmong
    <3>. QED  BY <3>3
  <2>7. RxStart \/ RxTimeout
    BY <2>1 DEF RxNext, RxReceives, RxStore, RxOverflow, RxRefuse, RxEot,
                RxCan, RxUnknown, BlockArrived, Reading
  <2>8. \A i \in DOMAIN toTx' : toTx'[i] \in S
    BY <2>5, <2>6, <2>7
  <2>. QED  BY <2>8 DEF S
<1>5. Preambule' = Preambule
  BY SetUpStays
<1>. QED  BY <1>1, <1>3, <1>4, <1>5 DEF SizesMatch

(* The frame a running receiver reads next: one of the two CAN of an       *)
(* emitter that stopped, or an intact frame that is next, or the one       *)
(* before it; and all that follows on the line is in order behind it.      *)
LEMMA HeadIsNear ==
  ASSUME WindowInv, FaultlessInv, faults = 0, Reading
  PROVE  LET f == Head(toRx)
             last == expectedBlkNumber - 1
         IN  /\ f \in Frame /\ f = toRx[1] /\ f.seq \in Nat
             /\ last <= f.seq
             /\ \/ f.hdr = CAN /\ txpc = "done"
                   /\ \A j \in DOMAIN toRx : toRx[j].hdr = CAN
                \/ f.hdr # CAN /\ Intact(f) /\ f.seq <= last + 1
             /\ \A j \in DOMAIN toRx : toRx[j].seq <= f.seq + (j - 1)
             /\ txpc = "reply" => blkNo <= f.seq + (Len(toRx) - 1)
<1>. DEFINE f == Head(toRx)
            last == expectedBlkNumber - 1
<1>1. /\ toRx \in Seq(Frame) /\ toRx # <<>> /\ 1 \in DOMAIN toRx /\ f = toRx[1]
      /\ rxpc # "done" /\ f \in Frame /\ f.seq \in Nat
  BY WindowTypes DEF Reading
<1>2. last <= f.seq
  BY <1>1 DEF WindowInv, ReceiverBehind
<1>3. \/ /\ f.hdr = CAN /\ txpc = "done"
         /\ \A j \in DOMAIN toRx : toRx[j].hdr = CAN
      \/ f.hdr # CAN /\ Intact(f) /\ f.seq <= last + 1
  <2>1. f.hdr # CAN => f.seq <= last + 1
    BY <1>1 DEF FaultlessInv, NoneSkipped
  <2>2. \/ f.hdr # CAN /\ Intact(f)
        \/ txpc = "done" /\ \A j \in DOMAIN toRx : toRx[j].hdr = CAN
    BY <1>1 DEF FaultlessInv, FramesIntact
  <2>. QED  BY <1>1, <2>1, <2>2
<1>4. \A j \in DOMAIN toRx : toRx[j].seq <= f.seq + (j - 1)
  <2>. SUFFICES ASSUME NEW j \in DOMAIN toRx
                PROVE  toRx[j].seq <= toRx[1].seq + (j - 1)
    BY <1>1
  <2>1. 1 <= j /\ j \in Nat /\ toRx[1].seq \in Nat
    BY <1>1
  <2>2. toRx[j].seq <= toRx[1].seq + (j - 1) + faults
    BY <1>1, <2>1 DEF WindowInv, FramesInOrder
  <2>. QED  BY <2>1, <2>2
<1>5. txpc = "reply" => blkNo <= f.seq + (Len(toRx) - 1)
  <2>1. txpc = "reply" => blkNo <= toRx[1].seq + (Len(toRx) - 1) + faults
    BY <1>1 DEF WindowInv, FramesBehindEmitter
  <2>2. Len(toRx) \in Nat /\ toRx[1].seq \in Nat
    BY <1>1
  <2>. QED  BY <1>1, <2>1, <2>2
<1>. QED  BY <1>1, <1>2, <1>3, <1>4, <1>5

(* What is refused on a line without faults is the block stored last, sent *)
(* again; or what an emitter that stopped left behind.                     *)
LEMMA RefusedIsRepeated ==
  ASSUME WindowInv, FaultlessInv, faults = 0, Reading,
         \/ BlockArrived /\ RxStatus(Head(toRx)) # "OK"
         \/ Head(toRx).hdr \notin {SOH, STX, EOT}
  PROVE  \/ \A j \in DOMAIN toRx : toRx[j].hdr = CAN /\ txpc = "done"
         \/ Head(toRx).seq = expectedBlkNumber - 1
<1>. DEFINE f == Head(toRx)
            last == expectedBlkNumber - 1
<1>1. /\ f \in Frame /\ f = toRx[1] /\ f.seq \in Nat /\ last <= f.seq
      /\ \/ f.hdr = CAN /\ txpc = "done"
            /\ \A j \in DOMAIN toRx : toRx[j].hdr = CAN
         \/ f.hdr # CAN /\ Intact(f) /\ f.seq <= last + 1
  BY HeadIsNear
<1>. SUFFICES ASSUME f.hdr # CAN, Intact(f), f.seq <= last + 1
              PROVE  f.seq = last
  BY <1>1
<1>2. IsBlock(f)
  BY DEF Intact, BlockOrEot, IsBlock, BlockArrived, SOH, STX, EOT
<1>3. BlockArrived /\ RxStatus(f) # "OK"
  BY <1>2 DEF IsBlock
<1>4. f.blk = f.seq % BlkMod /\ f.good /\ f.cblk = Complement(f.blk)
  <2>1. 1 \in DOMAIN toRx
    BY LinkTypes DEF Reading
  <2>. QED  BY <1>1, <1>2, <2>1 DEF WindowInv, FramesHoldBlocks, Intact
<1>5. f.seq # expectedBlkNumber
  BY <1>3, <1>4 DEF RxStatus, lxmodem_check_block_no_and_crc, NumberedAs
<1>6. expectedBlkNumber \in Nat
  BY WindowTypes
<1>. HIDE DEF f
<1>. QED  BY <1>1, <1>5, <1>6

(* An error of the receiver: the frame it refuses is not one that is       *)
(* missing.                                                                *)
LEMMA ErrorsSkipNone ==
  ASSUME WindowInv, FaultlessInv, [Next]_vars, UNCHANGED txVars,
         UNCHANGED expectedBlkNumber, rxpc = "header",
         \/ toRx' = toRx
         \/ /\ toRx # <<>> /\ toRx' = Tail(toRx)
            /\ \/ BlockArrived /\ RxStatus(Head(toRx)) # "OK"
               \/ Head(toRx).hdr \notin {SOH, STX, EOT}
  PROVE  NoneSkipped'
<1>. DEFINE last == expectedBlkNumber - 1
<1>. SUFFICES ASSUME faults' = 0
              PROVE  /\ last <= NbBlocks
                     /\ txpc = "reply" => blkNo <= last + Len(toRx')
                     /\ \A i \in DOMAIN toRx' :
                          toRx'[i].hdr # CAN => toRx'[i].seq <= last + i
  <2>1. /\ txpc' = txpc /\ blkNo' = blkNo /\ NbBlocks' = NbBlocks
        /\ expectedBlkNumber' = expectedBlkNumber
    BY SetUpStays DEF txVars
  <2>. QED  BY <2>1 DEF NoneSkipped
<1>1. faults = 0 /\ toRx \in Seq(Frame) /\ Len(toRx) \in Nat
  BY FaultsStay, LinkTypes
<1>2. /\ last <= NbBlocks
      /\ txpc = "reply" => blkNo <= last + Len(toRx)
      /\ \A i \in DOMAIN toRx :
           toRx[i].hdr # CAN => toRx[i].seq <= last + i
  BY <1>1 DEF FaultlessInv, NoneSkipped
<1>3. CASE toRx' = toRx
  BY <1>2, <1>3
<1>4. CASE /\ toRx # <<>> /\ toRx' = Tail(toRx)
           /\ \/ BlockArrived /\ RxStatus(Head(toRx)) # "OK"
              \/ Head(toRx).hdr \notin {SOH, STX, EOT}
  <2>1. Reading
    BY <1>4 DEF Reading
  <2>2. \A i \in DOMAIN toRx' : /\ i \in Nat /\ i + 1 \in DOMAIN toRx
                                /\ toRx'[i] = toRx[i + 1]
    BY <1>1, <1>4
  <2>3. Len(toRx') = Len(toRx) - 1
    BY <1>1, <1>4
  <2>4. CASE \A j \in DOMAIN toRx : toRx[j].hdr = CAN /\ txpc = "done"
    <3>1. 1 \in DOMAIN toRx
      BY <1>1, <1>4
    <3>2. txpc = "done"
      BY <2>4, <3>1
    <3>. QED  BY <1>2, <2>2, <2>4, <3>2
  <2>5. CASE Head(toRx).seq = last
    <3>1. /\ \A j \in DOMAIN toRx : toRx[j].seq <= last + (j - 1)
          /\ txpc = "reply" => blkNo <= last + (Len(toRx) - 1)
      BY <1>1, <2>1, <2>5, HeadIsNear
    <3>2. \A i \in DOMAIN toRx' : toRx'[i].seq <= last + i
      <4>. SUFFICES ASSUME NEW i \in DOMAIN toRx'
                    PROVE  toRx'[i].seq <= last + i
        OBVIOUS
      <4>1. toRx[i + 1].seq <= last + ((i + 1) - 1) /\ i \in Nat
        BY <2>2, <3>1
      <4>2. (i + 1) - 1 = i
        BY <4>1
      <4>. QED  BY <2>2, <4>1, <4>2
    <3>. QED  BY <1>2, <2>3, <3>1, <3>2
  <2>. QED  BY <1>1, <1>4, <2>1, <2>4, <2>5, RefusedIsRepeated
<1>. QED  BY <1>3, <1>4

(* Every step of the receiver keeps the invariant.                         *)
LEMMA RxNextFaultless ==
  ASSUME WindowInv, FaultlessInv, [Next]_vars, RxNext
  PROVE  FaultlessInv'
<1>1. UNCHANGED txVars /\ txpc' = txpc /\ blkNo' = blkNo /\ NbBlocks' = NbBlocks
  BY SetUpStays DEF RxNext, txVars
<1>2. toRx' = toRx \/ (toRx # <<>> /\ toRx' = Tail(toRx))
  BY DEF RxNext, RxReceives, RxStart, RxStore, RxOverflow, RxRefuse, RxEot,
         RxCan, RxUnknown, RxTimeout, BlockArrived, Reading
<1>3. /\ (txpc = "reply" => Intact(blk_buffer))' /\ FramesIntact'
      /\ SizesMatch'
  BY <1>1, <1>2, ReceiverKeepsFrames, ReceiverKeepsSizes
<1>4. /\ toRx \in Seq(Frame) /\ Len(toRx) \in Nat /\ NbBlocks \in Nat
      /\ expectedBlkNumber \in Nat \ {0} /\ blkNo \in Nat
  BY LinkTypes
<1>5. NoneSkipped' /\ CompleteWithoutFaults'
  <2>1. CASE RxStart
    <3>1. /\ rxpc = "idle" /\ expectedBlkNumber = 1 /\ rxpc' = "header"
          /\ expectedBlkNumber' = 1 /\ toRx' = toRx
      BY <2>1 DEF RxStart, WindowInv, ReceiverRunning
    <3>2. NoneSkipped'
      BY <1>1, <3>1, FaultsStay DEF FaultlessInv, NoneSkipped
    <3>3. CompleteWithoutFaults'
      BY <3>1 DEF CompleteWithoutFaults, CompleteOnSuccess, RxSucceeded
    <3>. QED  BY <3>2, <3>3
  <2>2. CASE RxStore
    <3>1. /\ BlockArrived /\ Reading /\ RxStatus(Head(toRx)) = "OK"
          /\ rxpc' = "header" /\ rxpc = "header" /\ toRx # <<>>
          /\ toRx' = Tail(toRx)
          /\ expectedBlkNumber' = expectedBlkNumber + 1
      BY <2>2 DEF RxStore, BlockArrived, Reading
    <3>2. CompleteWithoutFaults'
      BY <3>1 DEF CompleteWithoutFaults, CompleteOnSuccess, RxSucceeded
    <3>3. NoneSkipped'
      <4>. SUFFICES
             ASSUME faults' = 0
             PROVE  /\ expectedBlkNumber <= NbBlocks
                    /\ txpc = "reply" =>
                         blkNo <= expectedBlkNumber + Len(toRx')
                    /\ \A i \in DOMAIN toRx' : toRx'[i].hdr # CAN =>
                         toRx'[i].seq <= expectedBlkNumber + i
        <5>1. expectedBlkNumber' - 1 = expectedBlkNumber
          BY <1>4, <3>1
        <5>. QED  BY <1>1, <5>1 DEF NoneSkipped
      <4>1. faults = 0
        BY FaultsStay
      <4>2. /\ txpc = "reply" => blkNo <= (expectedBlkNumber - 1) + Len(toRx)
            /\ \A i \in DOMAIN toRx : toRx[i].hdr # CAN =>
                 toRx[i].seq <= (expectedBlkNumber - 1) + i
        BY <3>1, <4>1 DEF FaultlessInv, NoneSkipped
      <4>3. \A i \in DOMAIN toRx' : /\ i \in Nat /\ i + 1 \in DOMAIN toRx
                                    /\ toRx'[i] = toRx[i + 1]
        BY <1>4, <3>1
      <4>4. Len(toRx') = Len(toRx) - 1
        BY <1>4, <3>1
      <4>5. \A i \in DOMAIN toRx' : toRx'[i].hdr # CAN =>
              toRx'[i].seq <= expectedBlkNumber + i
        <5>. SUFFICES ASSUME NEW i \in DOMAIN toRx', toRx'[i].hdr # CAN
                      PROVE  toRx'[i].seq <= expectedBlkNumber + i
          OBVIOUS
        <5>1. /\ i \in Nat
              /\ toRx[i + 1].seq <= (expectedBlkNumber - 1) + (i + 1)
          BY <4>2, <4>3
        <5>2. (expectedBlkNumber - 1) + (i + 1) = expectedBlkNumber + i
          BY <1>4, <5>1
        <5>. QED  BY <4>3, <5>1, <5>2
      <4>6. txpc = "reply" => blkNo <= expectedBlkNumber + Len(toRx')
        BY <1>4, <4>2, <4>4
      <4>7. expectedBlkNumber <= NbBlocks
        <5>1. Head(toRx).seq = expectedBlkNumber
          BY <3>1, AcceptedIsNext
        <5>2. Head(toRx).hdr \in {SOH, STX}
          BY <3>1 DEF BlockArrived
        <5>3. Intact(Head(toRx))
          BY <3>1, <4>1, <5>2, HeadIsNear DEF SOH, STX, CAN
        <5>. QED  BY <5>1, <5>2, <5>3
                  DEF Intact, BlockOrEot, IsBlock, SOH, STX, EOT
      <4>. QED  BY <4>5, <4>6, <4>7
    <3>. QED  BY <3>2, <3>3
  <2>3. CASE RxEot
    <3>1. /\ Reading /\ Head(toRx).hdr = EOT /\ rxpc = "header"
          /\ rxpc' = "done" /\ rxData' = rxData
      BY <2>3 DEF RxEot, Reading
    <3>2. NoneSkipped'
      BY <3>1 DEF NoneSkipped
    <3>3. CompleteWithoutFaults'
      <4>. SUFFICES ASSUME faults' = 0
                    PROVE  Len(rxData) = NbBlocks
        BY <1>1, <3>1 DEF CompleteWithoutFaults, CompleteOnSuccess
      <4>1. faults = 0
        BY FaultsStay
      <4>2. /\ Intact(Head(toRx))
            /\ Head(toRx).seq <= (expectedBlkNumber - 1) + 1
        BY <3>1, <4>1, HeadIsNear DEF EOT, CAN
      <4>3. Head(toRx).seq = NbBlocks + 1
        BY <3>1, <4>2 DEF Intact, BlockOrEot, IsBlock, SOH, STX, EOT
      <4>4. expectedBlkNumber - 1 <= NbBlocks
        BY <3>1, <4>1 DEF FaultlessInv, NoneSkipped
      <4>5. Len(rxData) = expectedBlkNumber - 1
        BY <3>1, WindowFacts
      <4>. QED  BY <1>4, <4>2, <4>3, <4>4, <4>5
    <3>. QED  BY <3>2, <3>3
  <2>4. CASE RxOverflow
    <3>1. rxpc' = "done" /\ receivedBytes' = -1
      BY <2>4 DEF RxOverflow
    <3>. QED  BY <3>1 DEF NoneSkipped, CompleteWithoutFaults, CompleteOnSuccess,
                          RxSucceeded
  <2>5. CASE RxRefuse \/ RxCan \/ RxUnknown \/ RxTimeout
    <3>1. /\ rxpc = "header" /\ expectedBlkNumber' = expectedBlkNumber
      BY <2>5 DEF RxRefuse, RxCan, RxUnknown, RxTimeout, BlockArrived, Reading
    <3>2. \/ rxpc' = rxpc
          \/ rxpc' = "done" /\ receivedBytes' = -1
      BY <2>5 DEF RxRefuse, RxCan, RxUnknown, RxTimeout, RxError
    <3>3. \/ toRx' = toRx
          \/ /\ toRx # <<>> /\ toRx' = Tail(toRx)
             /\ \/ BlockArrived /\ RxStatus(Head(toRx)) # "OK"
                \/ Head(toRx).hdr \notin {SOH, STX, EOT}
      <4>1. CASE RxRefuse
        BY <4>1 DEF RxRefuse, BlockArrived, Reading
      <4>2. CASE RxCan
        BY <4>2 DEF RxCan, Reading, SOH, STX, EOT, CAN
      <4>3. CASE RxUnknown
        BY <4>3 DEF RxUnknown, Reading
      <4>4. CASE RxTimeout
        BY <4>4 DEF RxTimeout
      <4>. QED  BY <2>5, <4>1, <4>2, <4>3, <4>4
    <3>4. NoneSkipped'
      BY <1>1, <3>1, <3>3, ErrorsSkipNone
    <3>5. CompleteWithoutFaults'
      BY <3>1, <3>2 DEF CompleteWithoutFaults, CompleteOnSuccess, RxSucceeded
    <3>. QED  BY <3>4, <3>5
  <2>. QED  BY <2>1, <2>2, <2>3, <2>4, <2>5 DEF RxNext, RxReceives
<1>. QED  BY <1>3, <1>5 DEF FaultlessInv

(***************************************************************************)
(* Steps of the emitter.                                                   *)
(***************************************************************************)
(* What the emitter leaves alone.                                          *)
LEMMA EmitterLeavesReceiver ==
  ASSUME WindowInv, FaultlessInv, [Next]_vars, UNCHANGED rxVars
  PROVE  /\ rxpc' = rxpc /\ expectedBlkNumber' = expectedBlkNumber
         /\ CompleteWithoutFaults'
<1>1. /\ rxpc' = rxpc /\ expectedBlkNumber' = expectedBlkNumber
      /\ rxData' = rxData /\ receivedBytes' = receivedBytes
  BY DEF rxVars
<1>2. NbBlocks' = NbBlocks
  BY SetUpStays
<1>. QED  BY <1>1, <1>2, FaultsStay
          DEF FaultlessInv, CompleteWithoutFaults, CompleteOnSuccess, RxSucceeded

(* A frame sent is the one its number says, behind the frames before it.   *)
LEMMA SendsFaultless ==
  ASSUME WindowInv, FaultlessInv, [Next]_vars, UNCHANGED rxVars,
         txpc # "done", txpc' = "reply",
         NEW f \in Frame, PutFrame(f), blk_buffer' = f, f.seq = blkNo',
         Intact(f), f.hdr = STX => defaultBlksize = LargeBlk,
         lxmodem_decode_preambule(Preambule),
         \/ txpc = "preambule" /\ blkNo' = 1
         \/ txpc = "reply" /\ blkNo' \in {blkNo, blkNo + 1}
  PROVE  FaultlessInv'
<1>1. /\ toRx \in Seq(Frame) /\ Len(toRx) \in Nat /\ LineTypeOK
      /\ txpc = "preambule" => toRx = <<>>
      /\ blkNo \in Nat \ {0} /\ expectedBlkNumber \in Nat \ {0}
      /\ NbBlocks' = NbBlocks /\ NbBlocks \in Nat
  BY LinkTypes, WindowTypes, WindowFacts, SetUpStays
<1>2. (txpc = "reply" => Intact(blk_buffer))'
  BY SetUpStays DEF Intact, BlockOrEot, IsBlock
<1>3. f.hdr # CAN
  BY DEF Intact, BlockOrEot, IsBlock, SOH, STX, EOT, CAN
<1>4. FramesIntact'
  <2>. SUFFICES ASSUME faults' = 0, NEW i \in DOMAIN toRx'
                PROVE  (toRx[i].hdr # CAN /\ Intact(toRx[i]))'
    BY DEF FramesIntact
  <2>1. faults = 0
    BY FaultsStay
  <2>2. toRx' = Append(toRx, f)
    BY <1>1, <2>1, PutFrameHeader
  <2>3. toRx'[i].hdr # CAN /\ Intact(toRx'[i])
    <3>1. CASE i = Len(toRx) + 1
      BY <1>1, <1>3, <2>2, <3>1
    <3>2. CASE i \in DOMAIN toRx
      <4>1. toRx'[i] = toRx[i]
        BY <1>1, <2>2, <3>2
      <4>. QED  BY <2>1, <3>2, <4>1 DEF FaultlessInv, FramesIntact
    <3>. QED  BY <1>1, <2>2, <3>1, <3>2
  <2>. QED  BY <1>1, <2>3 DEF Intact, BlockOrEot, IsBlock
<1>5. SizesMatch'
  <2>1. /\ Paired(txOpts, rxOpts)'
        /\ (txpc = "reply" => lxmodem_decode_preambule(Preambule))'
    BY SetUpStays DEF FaultlessInv, SizesMatch
  <2>2. (\E i \in DOMAIN toRx' : toRx'[i].hdr = STX) => ReadsLarge
    <3>. SUFFICES ASSUME NEW i \in DOMAIN toRx', toRx'[i].hdr = STX
                  PROVE  ReadsLarge
      OBVIOUS
    <3>1. CASE i \in DOMAIN toRx /\ toRx'[i] = toRx[i]
      BY <3>1 DEF FaultlessInv, SizesMatch
    <3>2. CASE toRx'[i].hdr = f.hdr
      BY <3>2, LargeIsRead DEF FaultlessInv, SizesMatch
    <3>3. toRx'[i].hdr \notin NoiseBytes
      BY LineAssumption
    <3>4. CASE toRx' = toRx
      BY <3>1, <3>4
    <3>5. ASSUME NEW g \in Frame, toRx' = Append(toRx, g),
                 g.hdr = f.hdr \/ g.hdr \in NoiseBytes
          PROVE  ReadsLarge
      <4>1. CASE i \in DOMAIN toRx
        BY <1>1, <3>1, <3>5, <4>1
      <4>2. CASE i = Len(toRx) + 1
        BY <1>1, <3>2, <3>3, <3>5, <4>2
      <4>. QED  BY <1>1, <3>5, <4>1, <4>2
    <3>. QED  BY <1>1, <3>4, <3>5, PutFrameHeader
  <2>3. ReadsLarge => ReadsLarge'
    BY SetUpStays DEF ReadsLarge
  <2>. QED  BY <2>1, <2>2, <2>3 DEF SizesMatch
<1>6. NoneSkipped'
  <2>. DEFINE last == expectedBlkNumber - 1
  <2>1. rxpc' = rxpc /\ expectedBlkNumber' = expectedBlkNumber
    BY EmitterLeavesReceiver
  <2>. SUFFICES ASSUME faults' = 0, rxpc # "done"
                PROVE  /\ last <= NbBlocks
                       /\ blkNo' <= last + Len(toRx')
                       /\ \A i \in DOMAIN toRx' :
                            toRx'[i].hdr # CAN => toRx'[i].seq <= last + i
    BY <1>1, <2>1 DEF NoneSkipped
  <2>2. faults = 0
    BY FaultsStay
  <2>3. toRx' = Append(toRx, f)
    BY <1>1, <2>2, PutFrameHeader
  <2>4. /\ last <= NbBlocks
        /\ txpc = "reply" => blkNo <= last + Len(toRx)
        /\ \A i \in DOMAIN toRx : toRx[i].hdr # CAN => toRx[i].seq <= last + i
    BY <2>2 DEF FaultlessInv, NoneSkipped
  <2>5. Len(toRx') = Len(toRx) + 1
    BY <1>1, <2>3
  <2>6. blkNo' <= last + (Len(toRx) + 1)
    <3>1. CASE txpc = "preambule" /\ blkNo' = 1
      BY <1>1, <3>1
    <3>2. CASE txpc = "reply" /\ blkNo' \in {blkNo, blkNo + 1}
      BY <1>1, <2>4, <3>2
    <3>. QED  BY <3>1, <3>2
  <2>7. ASSUME NEW i \in DOMAIN toRx', toRx'[i].hdr # CAN
        PROVE  toRx'[i].seq <= last + i
    <3>1. CASE i \in DOMAIN toRx
      BY <1>1, <2>3, <2>4, <2>7, <3>1
    <3>2. CASE i = Len(toRx) + 1
      BY <1>1, <2>3, <2>6, <3>2
    <3>. QED  BY <1>1, <2>3, <3>1, <3>2
  <2>. QED  BY <2>4, <2>5, <2>6, <2>7
<1>. QED  BY <1>2, <1>4, <1>5, <1>6, EmitterLeavesReceiver DEF FaultlessInv

(* The emitter waits or stops, without sending.                            *)
LEMMA SilentFaultless ==
  ASSUME WindowInv, FaultlessInv, [Next]_vars, UNCHANGED rxVars, toRx' = toRx,
         \/ txpc' = "done"
         \/ txpc' = txpc /\ toTx' = toTx /\ UNCHANGED <<blkNo, blk_buffer>>
  PROVE  FaultlessInv'
<1>1. /\ rxpc' = rxpc /\ expectedBlkNumber' = expectedBlkNumber
      /\ NbBlocks' = NbBlocks
  BY EmitterLeavesReceiver, SetUpStays
<1>2. (txpc = "reply" => Intact(blk_buffer))'
  BY SetUpStays DEF FaultlessInv, Intact, BlockOrEot, IsBlock
<1>3. \A i \in DOMAIN toRx : Intact(toRx[i]) => Intact(toRx[i])'
  BY <1>1 DEF Intact, BlockOrEot, IsBlock
<1>4. FramesIntact'
  BY <1>3, FaultsStay DEF FaultlessInv, FramesIntact
<1>5. SizesMatch'
  <2>1. ReadsLarge => ReadsLarge'
    BY SetUpStays DEF ReadsLarge
  <2>. QED  BY <2>1, SetUpStays DEF FaultlessInv, SizesMatch
<1>6. NoneSkipped'
  BY <1>1, FaultsStay DEF FaultlessInv, NoneSkipped
<1>. QED  BY <1>2, <1>4, <1>5, <1>6, EmitterLeavesReceiver DEF FaultlessInv

(* One more error on the block: it is sent again, or the emitter stops.    *)
LEMMA TxErrorFaultless ==
  ASSUME WindowInv, FaultlessInv, [Next]_vars, UNCHANGED rxVars,
         txpc = "reply", NEW limit, TxError(limit), blkNo' = blkNo
  PROVE  FaultlessInv'
<1>1. CASE TxStop(-1)
  BY <1>1, SilentFaultless DEF TxStop
<1>2. CASE SendAgain /\ UNCHANGED <<txpc, emittedBytes>>
  <2>1. /\ PutFrame(blk_buffer) /\ blk_buffer' = blk_buffer /\ txpc' = "reply"
    BY <1>2 DEF SendAgain
  <2>2. /\ blk_buffer \in Frame /\ blk_buffer.seq = blkNo'
    BY LinkTypes, WindowFacts
  <2>3. Intact(blk_buffer) /\ lxmodem_decode_preambule(Preambule)
    BY DEF FaultlessInv, SizesMatch
  <2>4. blk_buffer.hdr = STX => defaultBlksize = LargeBlk
    BY KeptLarge
  <2>. QED  BY <2>1, <2>2, <2>3, <2>4, SendsFaultless
<1>. QED  BY <1>1, <1>2 DEF TxError

(* The next block, or the EOT behind the last one.                         *)
LEMMA SendNextFaultless ==
  ASSUME WindowInv, FaultlessInv, [Next]_vars, UNCHANGED rxVars,
         txpc # "done", txpc' = "reply", NEW k \in Nat \ {0}, k <= NbBlocks + 1,
         txRam.read_offset = Smaller(FileSize, (k - 1) * defaultBlksize),
         SendNext(k), blkNo' = k, lxmodem_decode_preambule(Preambule),
         \/ txpc = "preambule" /\ k = 1
         \/ txpc = "reply" /\ k = blkNo + 1
  PROVE  FaultlessInv'
<1>. DEFINE f == DataBlock(k)
<1>1. /\ txRam \in RamFileType /\ txRam.read_offset <= FileSize
      /\ FileSize < HalfWord
  BY DEF WindowInv, TypeOK, TxTypeOK, EmitterAtBlkNo
<1>2. f \in Frame /\ f.seq = k
  BY <1>1, DataBlockIsBlockOf
<1>3. Intact(f) /\ (f.hdr = STX => defaultBlksize = LargeBlk)
  BY <1>1, DataBlockIsIntact
<1>4. PutFrame(f) /\ blk_buffer' = f
  BY DEF SendNext
<1>. HIDE DEF f
<1>5. \/ txpc = "preambule" /\ blkNo' = 1
      \/ txpc = "reply" /\ blkNo' \in {blkNo, blkNo + 1}
  OBVIOUS
<1>. QED  BY <1>2, <1>3, <1>4, <1>5, SendsFaultless

(* The preamble is refused: two CAN, or what a fault leaves of them.       *)
LEMMA RefusalFaultless ==
  ASSUME WindowInv, FaultlessInv, [Next]_vars, UNCHANGED rxVars,
         TxPreambuleRefused
  PROVE  FaultlessInv'
<1>1. /\ toRx = <<>> /\ txpc' = "done" /\ PutCancelFrames(blkNo)
      /\ blkNo \in Nat /\ faults \in Nat /\ NbBlocks' = NbBlocks
  BY WindowFacts, WindowTypes, SetUpStays DEF TxPreambuleRefused
<1>2. \A i \in DOMAIN toRx' : toRx'[i].hdr = CAN \/ toRx'[i].hdr \in NoiseBytes
  BY <1>1, CancelFrames
<1>3. faults' = 0 => \A i \in DOMAIN toRx' : toRx'[i].hdr = CAN
  <2>. SUFFICES ASSUME faults' = 0
                PROVE  \A i \in DOMAIN toRx' : toRx'[i].hdr = CAN
    OBVIOUS
  <2>. DEFINE can == CharFrame(CAN, blkNo)
  <2>1. can.hdr = CAN
    BY DEF CharFrame
  <2>2. toRx' = toRx \o <<can, can>>
    BY <1>1 DEF PutCancelFrames, Fault
  <2>. HIDE DEF can
  <2>3. toRx' = <<can, can>>
    BY <1>1, <2>2
  <2>. QED  BY <2>1, <2>3
<1>4. (txpc = "reply" => Intact(blk_buffer))' /\ FramesIntact'
  BY <1>1, <1>3 DEF FramesIntact
<1>5. SizesMatch'
  <2>1. \A i \in DOMAIN toRx' : toRx'[i].hdr # STX
    BY <1>2, LineAssumption DEF CAN, STX
  <2>. QED  BY <1>1, <2>1, SetUpStays DEF FaultlessInv, SizesMatch
<1>6. NoneSkipped'
  <2>1. rxpc' = rxpc /\ expectedBlkNumber' = expectedBlkNumber
    BY EmitterLeavesReceiver
  <2>. QED  BY <1>1, <1>3, <2>1, FaultsStay DEF FaultlessInv, NoneSkipped
<1>. QED  BY <1>4, <1>5, <1>6, EmitterLeavesReceiver DEF FaultlessInv

(* Every step of the emitter keeps the invariant.                          *)
LEMMA TxNextFaultless ==
  ASSUME WindowInv, FaultlessInv, [Next]_vars, TxNext
  PROVE  FaultlessInv'
<1>1. UNCHANGED rxVars
  BY DEF TxNext
<1>2. /\ blkNo \in Nat \ {0} /\ NbBlocks \in Nat /\ FileSize \in Nat
      /\ toTx \in Seq(Byte)
  BY LinkTypes
<1>3. CASE TxPreambule
  <2>1. /\ txpc = "preambule" /\ txpc' = "reply" /\ blkNo' = 1 /\ SendNext(1)
        /\ toTx # <<>> /\ lxmodem_decode_preambule(Head(toTx))
    BY <1>3 DEF TxPreambule
  <2>2. lxmodem_decode_preambule(Preambule)
    <3>1. 1 \in DOMAIN toTx /\ Head(toTx) = toTx[1]
      BY <1>2, <2>1
    <3>2. Head(toTx) \in {CHR_C, NAK}
      BY <2>1 DEF lxmodem_decode_preambule
    <3>3. Head(toTx) = Preambule
      BY <2>1, <3>1, <3>2 DEF FaultlessInv, SizesMatch
    <3>. QED  BY <2>1, <3>3
  <2>3. txRam.read_offset = Smaller(FileSize, (1 - 1) * defaultBlksize)
    <3>1. (1 - 1) * defaultBlksize = 0
      BY BlksizeType
    <3>. QED  BY <1>2, <2>1, <3>1 DEF WindowInv, EmitterAtBlkNo, Smaller
  <2>4. 1 \in Nat \ {0} /\ 1 <= NbBlocks + 1
    BY <1>2
  <2>. QED  BY <1>1, <2>1, <2>2, <2>3, <2>4, SendNextFaultless
<1>4. CASE TxPreambuleRefused
  BY <1>1, <1>4, RefusalFaultless
<1>5. CASE TxPreambuleTimeout
  BY <1>1, <1>5, SilentFaultless DEF TxPreambuleTimeout, lineVars
<1>6. CASE TxAck
  <2>1. txpc = "reply" /\ blkNo' = blkNo + 1
    BY <1>6 DEF TxAck, ReplyArrived
  <2>2. CASE isLastBlock /\ TxStop(emittedBytes)
    BY <1>1, <2>2, SilentFaultless DEF TxStop
  <2>3. CASE ~isLastBlock /\ SendNext(blkNo + 1) /\ UNCHANGED txpc
    <3>. DEFINE k == blkNo + 1
    <3>1. k \in Nat \ {0} /\ k - 1 = blkNo
      BY <1>2
    <3>2. k <= NbBlocks + 1
      <4>1. Intact(blk_buffer) /\ blk_buffer.seq = blkNo
        BY <2>1, WindowFacts DEF FaultlessInv
      <4>2. blkNo <= NbBlocks
        BY <2>3, <4>1 DEF Intact, BlockOrEot, isLastBlock
      <4>. QED  BY <1>2, <4>2
    <3>3. txRam.read_offset = Smaller(FileSize, (k - 1) * defaultBlksize)
      BY <2>1, <3>1 DEF WindowInv, EmitterAtBlkNo
    <3>4. lxmodem_decode_preambule(Preambule)
      BY <2>1 DEF FaultlessInv, SizesMatch
    <3>5. /\ SendNext(k) /\ blkNo' = k /\ txpc' = "reply" /\ txpc # "done"
          /\ txpc = "reply" /\ k = blkNo + 1
      BY <2>1, <2>3
    <3>. HIDE DEF k
    <3>. QED  BY <1>1, <3>1, <3>2, <3>3, <3>4, <3>5, SendNextFaultless
  <2>. QED  BY <1>6, <2>2, <2>3 DEF TxAck
<1>7. CASE TxNak \/ TxOther
  <2>1. txpc = "reply" /\ blkNo' = blkNo
    BY <1>7 DEF TxNak, TxOther, ReplyArrived
  <2>2. CASE TxNak
    BY <1>1, <2>1, <2>2, TxErrorFaultless DEF TxNak
  <2>3. CASE TxOther
    BY <1>1, <2>1, <2>3, TxErrorFaultless DEF TxOther
  <2>. QED  BY <1>7, <2>2, <2>3
<1>8. CASE TxTimeout
  <2>1. txpc = "reply" /\ blkNo' = blkNo
    BY <1>8 DEF TxTimeout
  <2>2. CASE UNCHANGED <<lineVars, txpc, retry, emittedBytes, txRam, blk_buffer>>
    BY <1>1, <2>1, <2>2, SilentFaultless DEF lineVars
  <2>3. CASE TxError(MaxRetry)
    BY <1>1, <2>1, <2>3, TxErrorFaultless
  <2>. QED  BY <1>8, <2>2, <2>3 DEF TxTimeout
<1>. QED  BY <1>3, <1>4, <1>5, <1>6, <1>7, <1>8 DEF TxNext, TxReceives

-----------------------------------------------------------------------------
LEMMA InitFaultless ==
  ASSUME Init
  PROVE  FaultlessInv
<1>1. PICK eOpts \in Opts, rOpts \in Opts, size \in FileSizes,
           max_size \in RamSizes :
        Paired(eOpts, rOpts) /\ TxInit(eOpts, size) /\ RxInit(rOpts, max_size)
  BY DEF Init
<1>2. toRx = <<>> /\ toTx = <<>>
  BY DEF Init, LineInit
<1>3. /\ txpc = "preambule" /\ rxpc = "idle" /\ expectedBlkNumber = 1
      /\ txOpts = eOpts /\ rxOpts = rOpts
  BY <1>1 DEF TxInit, RxInit
<1>4. NbBlocks \in Nat
  BY InitWindow, LinkTypes
<1>5. SizesMatch
  BY <1>1, <1>2, <1>3 DEF SizesMatch
<1>6. NoneSkipped /\ CompleteWithoutFaults /\ FramesIntact
  BY <1>2, <1>3, <1>4
  DEF NoneSkipped, CompleteWithoutFaults, CompleteOnSuccess, RxSucceeded,
      FramesIntact
<1>. QED  BY <1>3, <1>5, <1>6 DEF FaultlessInv

(* On a line without faults no block number is skipped, however late the   *)
(* answers are and however often a block is sent twice.                    *)
THEOREM FaultlessIsInvariant == Spec => []FaultlessInv
<1>1. Init => FaultlessInv
  BY InitFaultless
<1>2. WindowInv /\ FaultlessInv /\ [Next]_vars => FaultlessInv'
  <2>. SUFFICES ASSUME WindowInv, FaultlessInv, [Next]_vars
                PROVE  FaultlessInv'
    OBVIOUS
  <2>1. CASE RxNext
    BY <2>1, RxNextFaultless
  <2>2. CASE TxNext
    BY <2>2, TxNextFaultless
  <2>3. CASE UNCHANGED vars
    BY <2>3, SilentFaultless DEF vars, lineVars, txVars
  <2>. QED  BY <2>1, <2>2, <2>3 DEF Next, Terminated
<1>. QED  BY <1>1, <1>2, WindowIsInvariant, PTL DEF Spec

(* Without a fault on the line, lxmodem_receive reports success only when  *)
(* it has stored every block of the file.                                  *)
THEOREM CompleteWhenFaultless == Spec => []CompleteWithoutFaults
<1>1. FaultlessInv => CompleteWithoutFaults
  BY DEF FaultlessInv
<1>. QED  BY <1>1, FaultlessIsInvariant, PTL
=============================================================================
