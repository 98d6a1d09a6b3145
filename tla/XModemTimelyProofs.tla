------------------------- MODULE XModemTimelyProofs -------------------------
(***************************************************************************)
(* Proofs about an XMODEM transfer without late answers: what one side     *)
(* reports is what the other one has, and the two loops implement the      *)
(* abstract file transfer.                                                 *)
(***************************************************************************)
EXTENDS XModemLinkProofs

(* The line the theorems are about.  It may lose, damage and garble, but   *)
(* an answer comes before the read that waits for it times out, and what   *)
(* it garbles is not read as an ACK or as an EOT: XMODEM protects neither, *)
(* so one such hit ends or advances a transfer that has no right to.       *)
OnTime ==
  /\ Timely
  /\ ACK \notin NoiseBytes
  /\ EOT \notin NoiseBytes

(***************************************************************************)
(* Steps of the receiver.                                                  *)
(***************************************************************************)
(* It is the receiver's turn: nothing is on its way to a running emitter.  *)
LEMMA ReceiversTurn ==
  ASSUME WindowInv, TimelyInv, rxpc = "header", txpc # "done",
         toRx # <<>> \/ toTx = <<>>
  PROVE  /\ toTx = <<>>
         /\ toRx # <<>> => txpc = "reply" /\ Tail(toRx) = <<>>
<1>1. /\ toTx \in Seq(Byte) /\ toRx \in Seq(Frame)
      /\ Len(toTx) \in Nat /\ Len(toRx) \in Nat
      /\ txpc \in {"preambule", "reply", "done"}
  BY LinkTypes
<1>2. txpc = "preambule" => toRx = <<>>
  BY WindowFacts
<1>3. txpc = "reply" => Len(toRx) + Len(toTx) <= 1
  BY DEF TimelyInv, OneUnderWay
<1>. QED  BY <1>1, <1>2, <1>3

(* What the receiver sends after a read leaves one reply under way, if it  *)
(* keeps running; and the reply is right about the frame sent last.        *)
LEMMA ReceiverReplies ==
  ASSUME OnTime, WindowInv, TimelyInv, rxpc = "header", UNCHANGED txVars,
         \/ toRx # <<>> /\ toRx' = Tail(toRx)
         \/ toRx = <<>> /\ toRx' = toRx /\ (toTx = <<>> \/ txpc = "done"),
         rxpc' \in {"header", "done"},
         NEW s \in Seq(Byte), PutChars(s), rxpc' = "header" => Len(s) <= 1,
         \A k \in DOMAIN s : s[k] = ACK =>
           /\ k = 1
           /\ \/ RxSucceeded'
              \/ /\ txpc = "reply" /\ IsBlock(blk_buffer)
                 /\ rxpc' = "header" => blkNo = expectedBlkNumber' - 1
  PROVE  OneUnderWay' /\ FrameIsLastSent' /\ AckAnswersLastSent'
<1>1. /\ toTx \in Seq(Byte) /\ toRx \in Seq(Frame) /\ LineTypeOK
      /\ txpc \in {"preambule", "reply", "done"}
  BY LinkTypes, WindowTypes
<1>2. txpc' = txpc /\ blkNo' = blkNo /\ blk_buffer' = blk_buffer
  BY DEF txVars
<1>3. PICK r \in Seq(Byte) :
        /\ toTx' = toTx \o r
        /\ Len(r) <= Len(s)
        /\ \A i \in DOMAIN r : r[i] = ACK => i = 1 /\ s # <<>> /\ s[1] = ACK
  BY <1>1, PutCharsArrive DEF OnTime
<1>4. ASSUME txpc # "done"
      PROVE  toTx' = r /\ toRx' = <<>>
  <2>1. toTx = <<>>
    BY <1>4, ReceiversTurn
  <2>2. toTx' = r
    BY <1>3, <2>1
  <2>3. toRx # <<>> => Tail(toRx) = <<>>
    BY <1>4, ReceiversTurn
  <2>4. toRx' = <<>>
    <3>1. CASE toRx # <<>> /\ toRx' = Tail(toRx)
      BY <2>3, <3>1
    <3>2. CASE toRx = <<>> /\ toRx' = toRx
      BY <3>2
    <3>. QED  BY <3>1, <3>2
  <2>. QED  BY <2>2, <2>4
<1>5. OneUnderWay'
  <2>1. ASSUME rxpc' = "header", txpc # "done"
        PROVE  Len(toTx') <= 1 /\ Len(toRx') + Len(toTx') <= 1
    <3>1. Len(r) <= 1 /\ Len(r) \in Nat
      BY <1>3, <2>1
    <3>. QED  BY <3>1, <2>1, <1>4
  <2>. QED  BY <2>1, <1>2 DEF OneUnderWay
<1>6. FrameIsLastSent'
  <2>. SUFFICES ASSUME rxpc' = "header", NEW i \in DOMAIN toRx',
                       toRx'[i].hdr \in {SOH, STX, EOT}
                PROVE  /\ txpc = "reply" /\ toRx'[i].seq = blkNo
                       /\ toRx'[i].hdr = blk_buffer.hdr
    BY <1>2 DEF FrameIsLastSent
  <2>1. PICK j \in DOMAIN toRx : toRx'[i] = toRx[j]
    <3>1. CASE toRx # <<>> /\ toRx' = Tail(toRx)
      <4>1. i + 1 \in DOMAIN toRx /\ toRx'[i] = toRx[i + 1]
        BY <1>1, <3>1
      <4>. QED  BY <4>1
    <3>2. CASE toRx' = toRx
      BY <3>2
    <3>. QED  BY <3>1, <3>2
  <2>. QED  BY <2>1 DEF TimelyInv, FrameIsLastSent
<1>7. AckAnswersLastSent'
  <2>. SUFFICES ASSUME txpc # "done", NEW i \in DOMAIN r, r[i] = ACK
                PROVE  \/ RxSucceeded'
                       \/ /\ i = 1
                          /\ txpc = "reply" /\ IsBlock(blk_buffer)
                          /\ rxpc' = "header" => blkNo = expectedBlkNumber' - 1
    BY <1>2, <1>4 DEF AckAnswersLastSent, IsBlock
  <2>1. i = 1 /\ s # <<>> /\ s[1] = ACK
    BY <1>3
  <2>2. 1 \in DOMAIN s
    BY <2>1
  <2>. QED  BY <2>1, <2>2
<1>. QED  BY <1>5, <1>6, <1>7

(* The replies of the receiver: at most the first of them is an ACK.       *)
LEMMA ReplyShapes ==
  ASSUME NEW reply \in {<<>>, <<ACK>>, <<NAK>>},
         NEW more \in {<<>>, <<CAN, CAN>>}
  PROVE  /\ reply \o more \in Seq(Byte)
         /\ more = <<>> => Len(reply \o more) <= 1
         /\ \A k \in DOMAIN (reply \o more) :
              (reply \o more)[k] = ACK => k = 1 /\ reply = <<ACK>>
<1>. DEFINE u == reply \o more
<1>1. /\ ACK \in Byte /\ NAK \in Byte /\ CAN \in Byte
      /\ NAK # ACK /\ CAN # ACK
  BY DEF ACK, NAK, CAN, Byte
<1>2. /\ reply \in Seq(Byte) /\ Len(reply) \in {0, 1}
      /\ \A k \in 1 .. Len(reply) : reply[k] = ACK => reply = <<ACK>>
  <2>1. CASE reply = <<>>
    BY <2>1
  <2>2. CASE reply = <<ACK>>
    BY <1>1, <2>2
  <2>3. CASE reply = <<NAK>>
    BY <1>1, <2>3
  <2>. QED  BY <2>1, <2>2, <2>3
<1>3. /\ more \in Seq(Byte) /\ Len(more) \in {0, 2}
      /\ \A k \in 1 .. Len(more) : more[k] # ACK
      /\ more = <<>> => Len(more) = 0
  <2>1. CASE more = <<>>
    BY <2>1
  <2>2. CASE more = <<CAN, CAN>>
    BY <1>1, <2>2
  <2>. QED  BY <2>1, <2>2
<1>4. /\ u \in Seq(Byte) /\ Len(u) = Len(reply) + Len(more)
      /\ DOMAIN u = 1 .. Len(u)
      /\ \A i \in 1 .. Len(reply) + Len(more) :
           u[i] = IF i <= Len(reply) THEN reply[i] ELSE more[i - Len(reply)]
  BY <1>2, <1>3, ConcatProperties
<1>. HIDE DEF u
<1>5. ASSUME NEW k \in DOMAIN u, u[k] = ACK
      PROVE  k = 1 /\ reply = <<ACK>>
  <2>1. k \in 1 .. Len(reply) + Len(more)
    BY <1>4
  <2>2. CASE k <= Len(reply)
    <3>1. k \in 1 .. Len(reply) /\ reply[k] = ACK
      BY <1>2, <1>4, <1>5, <2>1, <2>2
    <3>. QED  BY <3>1, <1>2
  <2>3. CASE ~(k <= Len(reply))
    <3>1. k - Len(reply) \in 1 .. Len(more)
      BY <1>2, <1>3, <2>1, <2>3
    <3>2. more[k - Len(reply)] = ACK
      BY <1>4, <1>5, <2>1, <2>3
    <3>. QED  BY <3>1, <3>2, <1>3
  <2>. QED  BY <2>2, <2>3
<1>6. more = <<>> => Len(u) <= 1
  BY <1>2, <1>3, <1>4
<1>. QED  BY <1>4, <1>5, <1>6 DEF u

(* An error of the receiver, with or without the end of its call.          *)
LEMMA RxErrorTimely ==
  ASSUME OnTime, WindowInv, TimelyInv, rxpc = "header", UNCHANGED txVars,
         \/ toRx # <<>> /\ toRx' = Tail(toRx)
         \/ toRx = <<>> /\ toRx' = toRx /\ (toTx = <<>> \/ txpc = "done"),
         NEW reply \in {<<>>, <<ACK>>, <<NAK>>}, NEW cancelled \in BOOLEAN,
         RxError(reply, cancelled),
         UNCHANGED <<expectedBlkNumber, rxRam, rxData>>,
         reply = <<ACK>> =>
           txpc = "reply" /\ IsBlock(blk_buffer) /\ blkNo = expectedBlkNumber - 1
  PROVE  TimelyInv'
<1>. DEFINE more == IF nbRetry + 1 >= MaxRetry THEN <<CAN, CAN>> ELSE <<>>
<1>1. /\ PutChars(reply \o more)
      /\ \/ rxpc' = "done" /\ receivedBytes' = -1
         \/ rxpc' = "header" /\ receivedBytes' = receivedBytes /\ more = <<>>
  BY DEF RxError
<1>. HIDE DEF more
<1>2. more \in {<<>>, <<CAN, CAN>>}
  BY DEF more
<1>3. /\ txpc' = txpc /\ blkNo' = blkNo /\ blk_buffer' = blk_buffer
      /\ emittedBytes' = emittedBytes /\ txOpts' = txOpts /\ txRam' = txRam
  BY DEF txVars
<1>4. /\ reply \o more \in Seq(Byte)
      /\ more = <<>> => Len(reply \o more) <= 1
      /\ \A k \in DOMAIN (reply \o more) :
           (reply \o more)[k] = ACK => k = 1 /\ reply = <<ACK>>
  BY <1>2, ReplyShapes
<1>5. OneUnderWay' /\ FrameIsLastSent' /\ AckAnswersLastSent'
  <2>1. rxpc' \in {"header", "done"} /\ expectedBlkNumber' = expectedBlkNumber
    BY <1>1
  <2>2. rxpc' = "header" => Len(reply \o more) <= 1
    BY <1>1, <1>4
  <2>3. \A k \in DOMAIN (reply \o more) : (reply \o more)[k] = ACK =>
          /\ k = 1
          /\ txpc = "reply" /\ IsBlock(blk_buffer)
          /\ rxpc' = "header" => blkNo = expectedBlkNumber' - 1
    BY <1>4, <2>1
  <2>. QED  BY <1>1, <1>4, <2>1, <2>2, <2>3, ReceiverReplies
<1>6. (txpc = "reply" => BlockOrEot(blk_buffer))'
  BY <1>3, FrozenBlocks DEF TimelyInv, BlockOrEot
<1>7. InStep'
  BY <1>1, <1>3 DEF TimelyInv, InStep, nbEmitted, isLastBlock
<1>8. Outcome'
  <2>1. ~RxSucceeded /\ ~RxSucceeded'
    BY <1>1 DEF RxSucceeded
  <2>2. NbBlocks' = NbBlocks
    BY <1>3, FrozenBlocks
  <2>. QED  BY <2>1, <2>2, <1>3 DEF TimelyInv, Outcome
<1>. QED  BY <1>5, <1>6, <1>7, <1>8 DEF TimelyInv

(* The frame a running receiver takes for a block, or for the end, is the  *)
(* frame sent last.                                                        *)
LEMMA HeadIsLastSent ==
  ASSUME WindowInv, TimelyInv, Reading, Head(toRx).hdr \in {SOH, STX, EOT}
  PROVE  /\ rxpc = "header" /\ txpc = "reply" /\ toRx # <<>>
         /\ Head(toRx).seq = blkNo /\ Head(toRx).hdr = blk_buffer.hdr
         /\ BlockOrEot(blk_buffer) /\ blk_buffer.seq = blkNo
         /\ \/ blkNo = expectedBlkNumber /\ emittedBytes = rxRam.write_offset
            \/ /\ blkNo = expectedBlkNumber - 1
               /\ emittedBytes + nbEmitted = rxRam.write_offset
<1>1. /\ rxpc = "header" /\ toRx # <<>> /\ toRx \in Seq(Frame)
      /\ 1 \in DOMAIN toRx /\ Head(toRx) = toRx[1]
  BY LinkTypes DEF Reading
<1>2. /\ txpc = "reply" /\ toRx[1].seq = blkNo
      /\ toRx[1].hdr = blk_buffer.hdr
  BY <1>1 DEF TimelyInv, FrameIsLastSent
<1>. QED  BY <1>1, <1>2, WindowFacts DEF TimelyInv, InStep

(* A block recognised as repeated is the block stored last.                *)
LEMMA RepeatedIsStored ==
  ASSUME WindowInv, TimelyInv, BlockArrived,
         RxStatus(Head(toRx)) = "PREVIOUS_BLOCK"
  PROVE  txpc = "reply" /\ IsBlock(blk_buffer) /\ blkNo = expectedBlkNumber - 1
<1>. DEFINE f == Head(toRx)
<1>1. Reading /\ f.hdr \in {SOH, STX}
  BY DEF BlockArrived
<1>2. /\ txpc = "reply" /\ f.seq = blkNo /\ f.hdr = blk_buffer.hdr
      /\ blkNo \in {expectedBlkNumber, expectedBlkNumber - 1}
  BY <1>1, HeadIsLastSent
<1>3. f.blk = (expectedBlkNumber - 1) % BlkMod
  BY DEF RxStatus, lxmodem_check_block_no_and_crc, NumberedAs
<1>4. f.blk = blkNo % BlkMod
  <2>1. toRx \in Seq(Frame) /\ toRx # <<>> /\ 1 \in DOMAIN toRx /\ f = toRx[1]
    BY <1>1, LinkTypes DEF Reading
  <2>2. f.blk = f.seq % BlkMod
    BY <1>1, <2>1 DEF WindowInv, FramesHoldBlocks, IsBlock
  <2>. QED  BY <1>2, <2>2
<1>5. blkNo = expectedBlkNumber - 1
  <2>1. blkNo \in Int /\ expectedBlkNumber \in Int /\ BlkMod \in Nat \ {0, 1}
    BY LinkTypes, LModemAssumption
  <2>. DEFINE last == expectedBlkNumber - 1
  <2>2. blkNo % BlkMod = last % BlkMod
    BY <1>3, <1>4
  <2>3. /\ last \in Int /\ blkNo - last < BlkMod /\ last - blkNo < BlkMod
        /\ BlkMod \in Nat \ {0}
    BY <1>2, <2>1
  <2>. HIDE DEF last
  <2>4. blkNo = last
    BY <2>1, <2>2, <2>3, SameByte
  <2>. QED  BY <2>4 DEF last
<1>. QED  BY <1>1, <1>2, <1>5 DEF IsBlock

(* Refusing a block or a character, and waiting in vain for one.           *)
LEMMA RxErrorsTimely ==
  ASSUME OnTime, WindowInv, TimelyInv, UNCHANGED txVars,
         RxRefuse \/ RxCan \/ RxUnknown \/ (RxSilence /\ RxTimeout)
  PROVE  TimelyInv'
<1>1. CASE RxRefuse
  <2>. DEFINE reply == <<Reply(RxStatus(Head(toRx)))>>
  <2>1. /\ rxpc = "header" /\ toRx # <<>> /\ toRx' = Tail(toRx)
        /\ RxError(reply, FALSE)
        /\ UNCHANGED <<expectedBlkNumber, rxRam, rxData>>
    BY <1>1 DEF RxRefuse, BlockArrived, Reading
  <2>2. reply \in {<<>>, <<ACK>>, <<NAK>>}
    BY DEF Reply
  <2>3. reply = <<ACK>> => RxStatus(Head(toRx)) = "PREVIOUS_BLOCK"
    BY <1>1 DEF RxRefuse, Reply, ACK, NAK
  <2>. HIDE DEF reply
  <2>4. reply = <<ACK>> =>
          txpc = "reply" /\ IsBlock(blk_buffer) /\ blkNo = expectedBlkNumber - 1
    BY <1>1, <2>3, RepeatedIsStored DEF RxRefuse
  <2>. QED  BY <2>1, <2>2, <2>4, RxErrorTimely
<1>2. ASSUME RxCan \/ RxUnknown
      PROVE  TimelyInv'
  <2>1. PICK cancelled \in BOOLEAN :
          /\ rxpc = "header" /\ toRx # <<>> /\ toRx' = Tail(toRx)
          /\ RxError(<<Reply("ERROR")>>, cancelled)
          /\ UNCHANGED <<expectedBlkNumber, rxRam, rxData>>
    <3>1. CASE RxCan
      <4>. DEFINE twice == canCharReceived + 1 >= 2
      <4>1. /\ rxpc = "header" /\ toRx # <<>> /\ toRx' = Tail(toRx)
            /\ RxError(<<Reply("ERROR")>>, twice)
            /\ UNCHANGED <<expectedBlkNumber, rxRam, rxData>>
        BY <3>1 DEF RxCan, Reading
      <4>2. twice \in BOOLEAN
        OBVIOUS
      <4>. HIDE DEF twice
      <4>. QED  BY <4>1, <4>2
    <3>2. CASE RxUnknown
      <4>1. FALSE \in BOOLEAN
        OBVIOUS
      <4>. QED  BY <3>2, <4>1 DEF RxUnknown, Reading
    <3>. QED  BY <1>2, <3>1, <3>2
  <2>2. /\ <<Reply("ERROR")>> \in {<<>>, <<ACK>>, <<NAK>>}
        /\ <<Reply("ERROR")>> # <<ACK>>
    BY DEF Reply, ACK, NAK
  <2>. QED  BY <2>1, <2>2, RxErrorTimely
<1>3. CASE RxSilence /\ RxTimeout
  <2>1. /\ rxpc = "header" /\ toRx = <<>> /\ toRx' = toRx
        /\ RxError(<<>>, FALSE)
        /\ UNCHANGED <<expectedBlkNumber, rxRam, rxData>>
    BY <1>3 DEF RxTimeout
  <2>2. toTx = <<>> \/ txpc = "done"
    BY <1>3 DEF RxSilence, OnTime
  <2>3. <<>> \in {<<>>, <<ACK>>, <<NAK>>} /\ <<>> # <<ACK>>
    OBVIOUS
  <2>. QED  BY <2>1, <2>2, <2>3, RxErrorTimely
<1>. QED  BY <1>1, <1>2, <1>3

(* The preamble is the first thing on the line.                            *)
LEMMA RxStartTimely ==
  ASSUME OnTime, WindowInv, TimelyInv, UNCHANGED txVars, RxStart
  PROVE  TimelyInv'
<1>1. /\ rxpc = "idle" /\ rxpc' = "header" /\ toRx' = toRx
      /\ PutChars(<<Preambule>>)
      /\ rxRam' = rxRam /\ rxData' = rxData
  BY DEF RxStart
<1>2. /\ txpc' = txpc /\ blkNo' = blkNo /\ blk_buffer' = blk_buffer
      /\ emittedBytes' = emittedBytes /\ txOpts' = txOpts /\ txRam' = txRam
  BY DEF txVars
<1>3. toRx = <<>> /\ toTx = <<>> /\ txpc # "reply"
  BY <1>1 DEF TimelyInv, OneUnderWay
<1>4. Preambule \in Byte /\ Preambule # ACK
  BY DEF Preambule, NAK, CHR_C, ACK, Byte
<1>5. PICK r \in Seq(Byte) :
        toTx' = toTx \o r /\ Len(r) <= 1 /\ \A i \in DOMAIN r : r[i] # ACK
  <2>. DEFINE s == <<Preambule>>
  <2>1. /\ s \in Seq(Byte) /\ Len(s) = 1
        /\ \A k \in DOMAIN s : s[k] # ACK
        /\ s[1] # ACK /\ PutChars(s)
    BY <1>1, <1>4
  <2>. HIDE DEF s
  <2>2. PICK r \in Seq(Byte) :
          /\ toTx' = toTx \o r
          /\ Len(r) <= Len(s)
          /\ \A i \in DOMAIN r : r[i] = ACK => i = 1 /\ s # <<>> /\ s[1] = ACK
    BY <2>1, WindowTypes, PutCharsArrive DEF OnTime
  <2>. QED  BY <2>1, <2>2
<1>6. toTx' = r
  BY <1>3, <1>5
<1>7. OneUnderWay' /\ FrameIsLastSent' /\ AckAnswersLastSent'
  BY <1>1, <1>2, <1>3, <1>5, <1>6
     DEF OneUnderWay, FrameIsLastSent, AckAnswersLastSent
<1>8. (txpc = "reply" => BlockOrEot(blk_buffer))' /\ InStep'
  BY <1>1, <1>2, <1>3 DEF TimelyInv, InStep
<1>9. Outcome'
  <2>1. ~RxSucceeded /\ ~RxSucceeded'
    BY <1>1 DEF RxSucceeded
  <2>2. NbBlocks' = NbBlocks
    BY <1>2, FrozenBlocks
  <2>. QED  BY <2>1, <2>2, <1>1, <1>2 DEF TimelyInv, Outcome
<1>. QED  BY <1>7, <1>8, <1>9 DEF TimelyInv

(* What is stored is a block of the file, and the emitter has not counted  *)
(* it yet.                                                                 *)
LEMMA StoredIsCurrent ==
  ASSUME WindowInv, TimelyInv, BlockArrived, RxStatus(Head(toRx)) = "OK"
  PROVE  /\ txpc = "reply" /\ IsBlock(blk_buffer)
         /\ blkNo = expectedBlkNumber /\ blkNo <= NbBlocks
         /\ emittedBytes = rxRam.write_offset
         /\ nbEmitted = BlkSize(Head(toRx).hdr)
         /\ ChunkIn(Head(toRx)) = BlockOf(expectedBlkNumber)
<1>1. Reading /\ Head(toRx).hdr \in {SOH, STX}
  BY DEF BlockArrived
<1>2. /\ txpc = "reply" /\ Head(toRx).seq = blkNo
      /\ Head(toRx).hdr = blk_buffer.hdr
      /\ BlockOrEot(blk_buffer) /\ blk_buffer.seq = blkNo
      /\ \/ blkNo = expectedBlkNumber /\ emittedBytes = rxRam.write_offset
         \/ blkNo = expectedBlkNumber - 1
  BY <1>1, HeadIsLastSent
<1>3. /\ Head(toRx).seq = expectedBlkNumber
      /\ ChunkIn(Head(toRx)) = BlockOf(expectedBlkNumber)
  BY AcceptedIsNext
<1>4. blkNo = expectedBlkNumber /\ emittedBytes = rxRam.write_offset
  BY <1>2, <1>3, LinkTypes
<1>5. IsBlock(blk_buffer) /\ blk_buffer.hdr # EOT
  BY <1>1, <1>2 DEF IsBlock, EOT, SOH, STX
<1>6. nbEmitted = BlkSize(Head(toRx).hdr)
  BY <1>2, <1>5 DEF nbEmitted, isLastBlock
<1>. QED  BY <1>2, <1>3, <1>4, <1>5, <1>6 DEF BlockOrEot

LEMMA RxStoreTimely ==
  ASSUME OnTime, WindowInv, TimelyInv, UNCHANGED txVars, RxStore
  PROVE  TimelyInv'
<1>. DEFINE size == BlkSize(Head(toRx).hdr)
<1>1. /\ BlockArrived /\ RxStatus(Head(toRx)) = "OK"
      /\ toRx # <<>> /\ toRx' = Tail(toRx)
      /\ rxpc = "header" /\ rxpc' = "header"
      /\ NbToCopy(rxRam, size) = size
      /\ rxRam' = lmodem_buffer_write(rxRam, size)
      /\ rxData' = Append(rxData, ChunkIn(Head(toRx)))
      /\ PutChars(<<Reply("OK")>>)
      /\ expectedBlkNumber' = expectedBlkNumber + 1
  BY DEF RxStore, BlockArrived, Reading, Fits
<1>2. /\ txpc' = txpc /\ blkNo' = blkNo /\ blk_buffer' = blk_buffer
      /\ emittedBytes' = emittedBytes /\ txOpts' = txOpts /\ txRam' = txRam
  BY DEF txVars
<1>3. /\ txpc = "reply" /\ IsBlock(blk_buffer)
      /\ blkNo = expectedBlkNumber /\ blkNo <= NbBlocks
      /\ emittedBytes = rxRam.write_offset
      /\ nbEmitted = size
  BY <1>1, StoredIsCurrent
<1>4. rxRam'.write_offset = rxRam.write_offset + size
  BY <1>1, RxRamEffect
<1>5. blkNo = expectedBlkNumber' - 1
  BY <1>1, <1>3, LinkTypes
<1>6. OneUnderWay' /\ FrameIsLastSent' /\ AckAnswersLastSent'
  <2>. DEFINE s == <<Reply("OK")>>
  <2>1. s \in Seq(Byte) /\ Len(s) <= 1 /\ \A k \in DOMAIN s : k = 1
    BY ReplyType
  <2>2. PutChars(s)
    BY <1>1
  <2>. HIDE DEF s
  <2>3. \A k \in DOMAIN s : s[k] = ACK =>
          /\ k = 1
          /\ txpc = "reply" /\ IsBlock(blk_buffer)
          /\ rxpc' = "header" => blkNo = expectedBlkNumber' - 1
    BY <1>3, <1>5, <2>1
  <2>. QED  BY <1>1, <2>1, <2>2, <2>3, ReceiverReplies
<1>7. (txpc = "reply" => BlockOrEot(blk_buffer))'
  BY <1>2, FrozenBlocks DEF TimelyInv, BlockOrEot
<1>8. InStep'
  <2>1. nbEmitted' = nbEmitted
    BY <1>2 DEF nbEmitted, isLastBlock
  <2>. HIDE DEF size
  <2>. QED  BY <1>2, <1>3, <1>4, <1>5, <2>1 DEF InStep
<1>9. Outcome'
  <2>1. ~RxSucceeded'
    BY <1>1 DEF RxSucceeded
  <2>2. NbBlocks' = NbBlocks
    BY <1>2, FrozenBlocks
  <2>3. Len(rxData) = expectedBlkNumber - 1 /\ rxData \in Seq(Chunk)
    BY <1>1, WindowFacts, LinkTypes
  <2>4. Len(rxData') = expectedBlkNumber
    <3>1. Head(toRx) \in Frame
      BY <1>1, LinkTypes
    <3>2. ChunkIn(Head(toRx)) \in Chunk
      BY <3>1, LModemAssumption DEF ChunkIn, Chunk, Frame, BlkSize
    <3>. DEFINE c == ChunkIn(Head(toRx))
    <3>. HIDE DEF c
    <3>3. Len(Append(rxData, c)) = Len(rxData) + 1
      BY <2>3, <3>2, AppendProperties DEF c
    <3>4. Len(rxData') = Len(rxData) + 1
      BY <1>1, <3>3 DEF c
    <3>. QED  BY <3>4, <2>3, LinkTypes
  <2>. QED  BY <2>1, <2>2, <2>4, <1>2, <1>3 DEF Outcome
<1>. QED  BY <1>6, <1>7, <1>8, <1>9 DEF TimelyInv

(* A block without room: acknowledged once, and the call has failed.       *)
LEMMA RxOverflowTimely ==
  ASSUME OnTime, WindowInv, TimelyInv, UNCHANGED txVars, RxOverflow
  PROVE  TimelyInv'
<1>1. /\ BlockArrived /\ RxStatus(Head(toRx)) = "OK"
      /\ toRx # <<>> /\ toRx' = Tail(toRx)
      /\ rxpc = "header" /\ rxpc' = "done" /\ receivedBytes' = -1
      /\ rxData' = rxData
      /\ PutChars(<<Reply("OK"), CAN, CAN>>)
  BY DEF RxOverflow, BlockArrived, Reading
<1>2. /\ txpc' = txpc /\ blkNo' = blkNo /\ blk_buffer' = blk_buffer
      /\ emittedBytes' = emittedBytes /\ txOpts' = txOpts /\ txRam' = txRam
  BY DEF txVars
<1>3. txpc = "reply" /\ IsBlock(blk_buffer)
  BY <1>1, StoredIsCurrent
<1>4. OneUnderWay' /\ FrameIsLastSent' /\ AckAnswersLastSent'
  <2>. DEFINE s == <<ACK, CAN, CAN>>
  <2>1. s \in Seq(Byte) /\ \A k \in DOMAIN s : s[k] = ACK => k = 1
    BY DEF ACK, CAN, Byte
  <2>2. PutChars(s)
    BY <1>1 DEF Reply
  <2>. HIDE DEF s
  <2>3. \A k \in DOMAIN s : s[k] = ACK =>
          /\ k = 1
          /\ txpc = "reply" /\ IsBlock(blk_buffer)
          /\ rxpc' = "header" => blkNo = expectedBlkNumber' - 1
    BY <1>1, <1>3, <2>1
  <2>. QED  BY <1>1, <2>1, <2>2, <2>3, ReceiverReplies
<1>5. (txpc = "reply" => BlockOrEot(blk_buffer))'
  BY <1>2, FrozenBlocks DEF TimelyInv, BlockOrEot
<1>6. InStep'
  BY <1>1, <1>2, <1>3 DEF InStep
<1>7. Outcome'
  <2>1. ~RxSucceeded'
    BY <1>1 DEF RxSucceeded
  <2>2. NbBlocks' = NbBlocks
    BY <1>2, FrozenBlocks
  <2>. QED  BY <2>1, <2>2, <1>1, <1>2, <1>3 DEF TimelyInv, Outcome
<1>. QED  BY <1>4, <1>5, <1>6, <1>7 DEF TimelyInv

(* The EOT a receiver takes for the end comes behind the last block, and   *)
(* the emitter has counted them all.                                       *)
LEMMA EotIsTheEnd ==
  ASSUME WindowInv, TimelyInv, RxEot
  PROVE  /\ txpc = "reply" /\ isLastBlock
         /\ Len(rxData) = NbBlocks
         /\ emittedBytes = receivedBytes
<1>1. Reading /\ Head(toRx).hdr = EOT /\ rxpc = "header"
  BY DEF RxEot, Reading
<1>2. /\ txpc = "reply" /\ blk_buffer.hdr = EOT
      /\ BlockOrEot(blk_buffer) /\ blk_buffer.seq = blkNo
      /\ \/ blkNo = expectedBlkNumber /\ emittedBytes = rxRam.write_offset
         \/ blkNo = expectedBlkNumber - 1
  BY <1>1, HeadIsLastSent
<1>3. blkNo = NbBlocks + 1
  BY <1>2 DEF BlockOrEot, IsBlock, SOH, STX, EOT
<1>4. Len(rxData) = expectedBlkNumber - 1 /\ receivedBytes = rxRam.write_offset
  BY <1>1, WindowFacts
<1>5. Len(rxData) <= NbBlocks
  BY DEF TimelyInv, Outcome
<1>. QED  BY <1>2, <1>3, <1>4, <1>5, LinkTypes DEF isLastBlock

LEMMA RxEotTimely ==
  ASSUME OnTime, WindowInv, TimelyInv, UNCHANGED txVars, RxEot
  PROVE  TimelyInv'
<1>1. /\ toRx # <<>> /\ toRx' = Tail(toRx)
      /\ rxpc = "header" /\ rxpc' = "done" /\ receivedBytes' = receivedBytes
      /\ rxData' = rxData /\ PutChars(<<Reply("OK")>>)
  BY DEF RxEot, Reading
<1>2. /\ txpc' = txpc /\ blkNo' = blkNo /\ blk_buffer' = blk_buffer
      /\ emittedBytes' = emittedBytes /\ txOpts' = txOpts /\ txRam' = txRam
  BY DEF txVars
<1>3. /\ txpc = "reply" /\ isLastBlock /\ Len(rxData) = NbBlocks
      /\ emittedBytes = receivedBytes
  BY EotIsTheEnd
<1>4. RxSucceeded'
  <2>1. receivedBytes \in Nat
    BY <1>1, WindowFacts, LinkTypes
  <2>. QED  BY <1>1, <2>1 DEF RxSucceeded
<1>5. OneUnderWay' /\ FrameIsLastSent' /\ AckAnswersLastSent'
  <2>. DEFINE s == <<Reply("OK")>>
  <2>1. s \in Seq(Byte) /\ Len(s) <= 1 /\ \A k \in DOMAIN s : k = 1
    BY ReplyType
  <2>2. PutChars(s)
    BY <1>1
  <2>. HIDE DEF s
  <2>. QED  BY <1>1, <1>4, <2>1, <2>2, ReceiverReplies
<1>6. (txpc = "reply" => BlockOrEot(blk_buffer))'
  BY <1>2, FrozenBlocks DEF TimelyInv, BlockOrEot
<1>7. InStep'
  BY <1>1, <1>2, <1>3 DEF InStep
<1>8. Outcome'
  <2>1. NbBlocks' = NbBlocks /\ NbBlocks \in Nat
    BY <1>2, FrozenBlocks, LinkTypes
  <2>2. isLastBlock' = isLastBlock
    BY <1>2 DEF isLastBlock
  <2>. QED  BY <2>1, <2>2, <1>1, <1>2, <1>3, <1>4 DEF Outcome
<1>. QED  BY <1>5, <1>6, <1>7, <1>8 DEF TimelyInv

(***************************************************************************)
(* Steps of the emitter.                                                   *)
(***************************************************************************)
(* It is the emitter's turn: nothing is on its way to a running receiver.  *)
LEMMA EmittersTurn ==
  ASSUME WindowInv, TimelyInv, txpc # "done",
         toTx # <<>> \/ toRx = <<>> \/ rxpc = "done"
  PROVE  /\ rxpc # "done" => toRx = <<>>
         /\ rxpc = "header" /\ toTx # <<>> => Tail(toTx) = <<>>
<1>1. /\ toTx \in Seq(Byte) /\ toRx \in Seq(Frame)
      /\ Len(toTx) \in Nat /\ Len(toRx) \in Nat
      /\ txpc \in {"preambule", "reply", "done"}
      /\ rxpc \in {"idle", "header", "done"}
  BY LinkTypes
<1>2. txpc = "preambule" => toRx = <<>>
  BY WindowFacts
<1>3. /\ rxpc = "idle" => toRx = <<>> /\ toTx = <<>>
      /\ rxpc = "header" /\ txpc = "preambule" => Len(toTx) <= 1
      /\ rxpc = "header" /\ txpc = "reply" => Len(toRx) + Len(toTx) <= 1
  BY DEF TimelyInv, OneUnderWay
<1>4. rxpc # "done" => toRx = <<>>
  BY <1>1, <1>2, <1>3
<1>5. rxpc = "header" => Len(toTx) <= 1
  BY <1>1, <1>3
<1>. QED  BY <1>1, <1>4, <1>5

(* The replies the emitter has not read yet keep their meaning.            *)
LEMMA EmitterReadsReply ==
  ASSUME WindowInv, TimelyInv, UNCHANGED rxVars, txpc # "done",
         \/ toTx # <<>> /\ toTx' = Tail(toTx)
         \/ toTx = <<>> /\ toTx' = toTx
  PROVE  AckAnswersLastSent'
<1>1. toTx \in Seq(Byte)
  BY LinkTypes
<1>2. RxSucceeded' = RxSucceeded
  BY DEF rxVars, RxSucceeded
<1>3. CASE toTx # <<>> /\ toTx' = Tail(toTx)
  <2>. SUFFICES ASSUME NEW i \in DOMAIN toTx', toTx'[i] = ACK
                PROVE  RxSucceeded
    BY <1>2 DEF AckAnswersLastSent
  <2>1. /\ i \in Nat \ {0} /\ i + 1 \in DOMAIN toTx
        /\ toTx'[i] = toTx[i + 1] /\ i + 1 # 1
    BY <1>1, <1>3
  <2>. QED  BY <2>1 DEF TimelyInv, AckAnswersLastSent
<1>4. CASE toTx = <<>> /\ toTx' = toTx
  BY <1>4 DEF AckAnswersLastSent
<1>. QED  BY <1>3, <1>4

(* The emitter's turn ends with one frame under way, the one it keeps.     *)
LEMMA EmitterSends ==
  ASSUME OnTime, WindowInv, TimelyInv, UNCHANGED rxVars, rxpc # "idle",
         txpc # "done", txpc' = "reply",
         \/ toTx # <<>> /\ toTx' = Tail(toTx)
         \/ toTx = <<>> /\ toTx' = toTx /\ (toRx = <<>> \/ rxpc = "done"),
         NEW f \in Frame, PutFrame(f), blk_buffer' = f, f.seq = blkNo',
         BlockOrEot(f), txOpts' = txOpts,
         txRam'.write_offset = txRam.write_offset
  PROVE  /\ (txpc = "reply" => BlockOrEot(blk_buffer))'
         /\ OneUnderWay' /\ FrameIsLastSent' /\ AckAnswersLastSent'
<1>1. /\ toTx \in Seq(Byte) /\ toRx \in Seq(Frame) /\ LineTypeOK
      /\ rxpc' = rxpc /\ rxpc \in {"idle", "header", "done"}
  BY LinkTypes, WindowTypes DEF rxVars
<1>2. rxpc = "header" => toRx = <<>> /\ toTx' = <<>>
  BY <1>1, EmittersTurn
<1>3. rxpc = "header" =>
        \/ toRx' = <<>>
        \/ \E g \in Frame :
             /\ toRx' = <<g>>
             /\ g.seq = f.seq /\ (g.hdr = f.hdr \/ g.hdr \in NoiseBytes)
  <2>. SUFFICES ASSUME rxpc = "header", toRx' # <<>>
                PROVE  \E g \in Frame :
                         /\ toRx' = <<g>>
                         /\ g.seq = f.seq
                         /\ (g.hdr = f.hdr \/ g.hdr \in NoiseBytes)
    OBVIOUS
  <2>1. toRx = <<>>
    BY <1>2
  <2>2. PICK g \in Frame :
          /\ toRx' = Append(toRx, g)
          /\ g.seq = f.seq /\ (g.hdr = f.hdr \/ g.hdr \in NoiseBytes)
    BY <1>1, <2>1, PutFrameHeader
  <2>3. toRx' = <<g>>
    BY <2>1, <2>2
  <2>. WITNESS g \in Frame
  <2>4. g.seq = f.seq
    BY <2>2
  <2>5. g.hdr = f.hdr \/ g.hdr \in NoiseBytes
    BY <2>2
  <2>. QED  BY <2>3, <2>4, <2>5
<1>4. (txpc = "reply" => BlockOrEot(blk_buffer))'
  BY FrozenBlocks DEF BlockOrEot
<1>5. OneUnderWay'
  <2>. SUFFICES ASSUME rxpc = "header"
                PROVE  Len(toRx') + Len(toTx') <= 1
    BY <1>1 DEF OneUnderWay
  <2>1. toTx' = <<>> /\ Len(toTx') = 0
    BY <1>2
  <2>2. CASE toRx' = <<>>
    BY <2>1, <2>2
  <2>3. CASE toRx' # <<>>
    <3>1. PICK g \in Frame : toRx' = <<g>>
      BY <1>3, <2>3
    <3>2. Len(toRx') = 1
      BY <3>1
    <3>. QED  BY <2>1, <3>2
  <2>. QED  BY <2>2, <2>3
<1>6. FrameIsLastSent'
  <2>1. NoiseBytes \cap {SOH, STX, EOT} = {}
    BY LineAssumption DEF OnTime
  <2>. SUFFICES ASSUME rxpc = "header", NEW i \in DOMAIN toRx',
                       toRx'[i].hdr \in {SOH, STX, EOT}
                PROVE  toRx'[i].seq = f.seq /\ toRx'[i].hdr = f.hdr
    BY <1>1 DEF FrameIsLastSent
  <2>2. PICK g \in Frame :
          /\ toRx' = <<g>>
          /\ g.seq = f.seq /\ (g.hdr = f.hdr \/ g.hdr \in NoiseBytes)
    BY <1>3
  <2>3. toRx'[i] = g
    BY <2>2
  <2>. QED  BY <2>1, <2>2, <2>3
<1>7. AckAnswersLastSent'
  BY EmitterReadsReply
<1>. QED  BY <1>4, <1>5, <1>6, <1>7

(* The emitter stops in its turn, and leaves nothing that a running        *)
(* receiver could take for a block or for the end.                         *)
LEMMA EmitterStops ==
  ASSUME OnTime, WindowInv, TimelyInv, UNCHANGED rxVars, txpc' = "done",
         txOpts' = txOpts, txRam'.write_offset = txRam.write_offset,
         rxpc = "idle" => UNCHANGED <<toRx, toTx>>,
         rxpc = "header" =>
           \A i \in DOMAIN toRx' : toRx'[i].hdr \notin {SOH, STX, EOT},
         IF RxSucceeded THEN emittedBytes' \in {receivedBytes, -1}
                        ELSE emittedBytes' <= 0
  PROVE  TimelyInv'
<1>1. /\ rxpc' = rxpc /\ receivedBytes' = receivedBytes /\ rxRam' = rxRam
      /\ rxData' = rxData /\ expectedBlkNumber' = expectedBlkNumber
      /\ RxSucceeded' = RxSucceeded
  BY DEF rxVars, RxSucceeded
<1>2. OneUnderWay' /\ FrameIsLastSent'
  BY <1>1 DEF TimelyInv, OneUnderWay, FrameIsLastSent
<1>3. AckAnswersLastSent' /\ InStep' /\ (txpc = "reply" => BlockOrEot(blk_buffer))'
  BY DEF AckAnswersLastSent, InStep
<1>4. Outcome'
  <2>1. NbBlocks' = NbBlocks
    BY FrozenBlocks
  <2>. QED  BY <2>1, <1>1 DEF TimelyInv, Outcome
<1>. QED  BY <1>2, <1>3, <1>4 DEF TimelyInv

(* One more error on the current block.                                    *)
LEMMA TxErrorTimely ==
  ASSUME OnTime, WindowInv, TimelyInv, UNCHANGED rxVars, txpc = "reply",
         UNCHANGED <<txOpts, blkNo>>,
         \/ toTx # <<>> /\ toTx' = Tail(toTx)
         \/ toTx = <<>> /\ toTx' = toTx /\ (toRx = <<>> \/ rxpc = "done"),
         NEW limit \in Nat, TxError(limit)
  PROVE  TimelyInv'
<1>0. rxpc # "idle" /\ rxpc \in {"idle", "header", "done"}
  BY LinkTypes DEF TimelyInv, OneUnderWay
<1>1. /\ rxpc' = rxpc /\ receivedBytes' = receivedBytes /\ rxRam' = rxRam
      /\ rxData' = rxData /\ expectedBlkNumber' = expectedBlkNumber
      /\ RxSucceeded' = RxSucceeded
  BY DEF rxVars, RxSucceeded
<1>2. CASE TxStop(-1)
  <2>1. /\ txpc' = "done" /\ emittedBytes' = -1 /\ toRx' = toRx
        /\ txRam' = txRam
    BY <1>2 DEF TxStop
  <2>2. rxpc = "header" => toRx = <<>>
    BY EmittersTurn
  <2>. QED  BY <2>1, <2>2, <1>0, EmitterStops
<1>3. CASE SendAgain /\ UNCHANGED <<txpc, emittedBytes>>
  <2>1. /\ PutFrame(blk_buffer) /\ blk_buffer' = blk_buffer /\ txRam' = txRam
        /\ txpc' = txpc /\ emittedBytes' = emittedBytes /\ blkNo' = blkNo
    BY <1>3 DEF SendAgain
  <2>2. blk_buffer \in Frame /\ blk_buffer.seq = blkNo /\ BlockOrEot(blk_buffer)
    BY LinkTypes, WindowFacts DEF TimelyInv
  <2>3. /\ (txpc = "reply" => BlockOrEot(blk_buffer))'
        /\ OneUnderWay' /\ FrameIsLastSent' /\ AckAnswersLastSent'
    BY <2>1, <2>2, <1>0, EmitterSends
  <2>4. InStep'
    BY <2>1, <1>1 DEF TimelyInv, InStep, nbEmitted, isLastBlock
  <2>5. Outcome'
    <3>1. NbBlocks' = NbBlocks
      BY <2>1, FrozenBlocks
    <3>. QED  BY <3>1, <2>1, <1>1 DEF TimelyInv, Outcome, isLastBlock
  <2>. QED  BY <2>3, <2>4, <2>5 DEF TimelyInv
<1>. QED  BY <1>2, <1>3 DEF TxError

LEMMA TxPreambuleTimely ==
  ASSUME OnTime, WindowInv, TimelyInv, UNCHANGED rxVars, TxPreambule
  PROVE  TimelyInv'
<1>1. /\ txpc = "preambule" /\ txpc' = "reply" /\ toTx # <<>>
      /\ toTx' = Tail(toTx) /\ blkNo' = 1 /\ emittedBytes' = 0
      /\ txOpts' = txOpts /\ SendNext(1)
  BY DEF TxPreambule
<1>2. /\ rxpc' = rxpc /\ receivedBytes' = receivedBytes /\ rxRam' = rxRam
      /\ rxData' = rxData /\ expectedBlkNumber' = expectedBlkNumber
      /\ RxSucceeded' = RxSucceeded
  BY DEF rxVars, RxSucceeded
<1>3. rxpc # "idle"
  BY <1>1 DEF TimelyInv, OneUnderWay
<1>4. /\ txRam \in RamFileType /\ FileSize \in Nat /\ FileSize < HalfWord
      /\ txRam.read_offset = 0 /\ txRam.read_offset <= FileSize
      /\ NbBlocks \in Nat
  BY <1>1, LinkTypes
     DEF WindowInv, TypeOK, TxTypeOK, EmitterAtBlkNo
<1>5. txRam.read_offset = Smaller(FileSize, (1 - 1) * defaultBlksize)
  <2>1. (1 - 1) * defaultBlksize = 0
    BY BlksizeType
  <2>. QED  BY <2>1, <1>4 DEF Smaller
<1>6. /\ PutFrame(DataBlock(1)) /\ blk_buffer' = DataBlock(1)
      /\ DataBlock(1) \in Frame /\ DataBlock(1).seq = 1
      /\ BlockOrEot(DataBlock(1))
      /\ txRam'.write_offset = txRam.write_offset
  <2>1. 1 \in Nat \ {0} /\ 1 <= NbBlocks + 1
    BY <1>4
  <2>2. /\ DataBlock(1) \in Frame /\ DataBlock(1).seq = 1
        /\ lmodem_buffer_read(txRam, bytesToRead) =
             [txRam EXCEPT
                !.read_offset = Smaller(FileSize, 1 * defaultBlksize)]
    BY <1>4, <1>5, <2>1, DataBlockIsBlockOf
  <2>3. BlockOrEot(DataBlock(1))
    BY <1>4, <1>5, <2>1, DataBlockIsIntact DEF Intact
  <2>4. txRam'.write_offset = txRam.write_offset
    BY <1>1, <1>4, <2>2 DEF SendNext, RamFileType
  <2>. QED  BY <1>1, <2>2, <2>3, <2>4 DEF SendNext
<1>7. /\ (txpc = "reply" => BlockOrEot(blk_buffer))'
      /\ OneUnderWay' /\ FrameIsLastSent' /\ AckAnswersLastSent'
  BY <1>1, <1>3, <1>6, EmitterSends
<1>8. InStep'
  <2>1. rxpc # "done" => expectedBlkNumber = 1
    BY <1>1, WindowFacts
  <2>2. rxRam.write_offset = 0
    BY <1>1 DEF TimelyInv, InStep
  <2>. QED  BY <1>1, <1>2, <2>1, <2>2 DEF InStep
<1>9. Outcome'
  <2>1. NbBlocks' = NbBlocks
    BY <1>1, <1>6, FrozenBlocks
  <2>2. ~RxSucceeded
    BY <1>1 DEF TimelyInv, Outcome
  <2>. QED  BY <1>1, <1>2, <2>1, <2>2 DEF TimelyInv, Outcome
<1>. QED  BY <1>7, <1>8, <1>9 DEF TimelyInv

(* The preamble is refused, or never comes.                                *)
LEMMA TxPreambuleEndTimely ==
  ASSUME OnTime, WindowInv, TimelyInv, UNCHANGED rxVars,
         TxPreambuleRefused \/ TxPreambuleTimeout
  PROVE  TimelyInv'
<1>1. /\ txpc = "preambule" /\ toRx = <<>> /\ emittedBytes = 0 /\ ~RxSucceeded
      /\ blkNo \in Nat
  BY WindowFacts, LinkTypes
     DEF TxPreambuleRefused, TxPreambuleTimeout, TimelyInv, InStep, Outcome
<1>2. CASE TxPreambuleRefused
  <2>1. /\ txpc' = "done" /\ emittedBytes' = -1 /\ txOpts' = txOpts
        /\ txRam' = txRam /\ toTx # <<>> /\ PutCancelFrames(blkNo)
    BY <1>2 DEF TxPreambuleRefused
  <2>2. \A i \in DOMAIN toRx' :
          toRx'[i].hdr = CAN \/ toRx'[i].hdr \in NoiseBytes
    BY <1>1, <2>1, CancelFrames
  <2>3. \A i \in DOMAIN toRx' : toRx'[i].hdr \notin {SOH, STX, EOT}
    <3>1. CAN \notin {SOH, STX, EOT} /\ NoiseBytes \cap {SOH, STX, EOT} = {}
      BY LineAssumption DEF OnTime, CAN, SOH, STX, EOT
    <3>. QED  BY <2>2, <3>1
  <2>4. rxpc # "idle"
    BY <2>1 DEF TimelyInv, OneUnderWay
  <2>. QED  BY <1>1, <2>1, <2>3, <2>4, EmitterStops
<1>3. CASE TxPreambuleTimeout
  <2>1. /\ txpc' \in {"preambule", "done"}
        /\ emittedBytes' = emittedBytes /\ txOpts' = txOpts /\ txRam' = txRam
        /\ toRx' = toRx /\ toTx' = toTx /\ blkNo' = blkNo /\ toTx = <<>>
    BY <1>1, <1>3 DEF TxPreambuleTimeout, lineVars
  <2>2. CASE txpc' = "done"
    BY <1>1, <2>1, <2>2, EmitterStops
  <2>3. CASE txpc' = "preambule"
    <3>1. /\ rxpc' = rxpc /\ receivedBytes' = receivedBytes /\ rxRam' = rxRam
          /\ rxData' = rxData /\ expectedBlkNumber' = expectedBlkNumber
          /\ RxSucceeded' = RxSucceeded
      BY DEF rxVars, RxSucceeded
    <3>2. OneUnderWay' /\ FrameIsLastSent' /\ AckAnswersLastSent'
      BY <1>1, <2>1, <2>3, <3>1
         DEF TimelyInv, OneUnderWay, FrameIsLastSent, AckAnswersLastSent
    <3>3. NbBlocks' = NbBlocks
      BY <2>1, FrozenBlocks
    <3>4. Outcome' /\ InStep' /\ (txpc = "reply" => BlockOrEot(blk_buffer))'
      BY <1>1, <2>1, <2>3, <3>1, <3>3 DEF TimelyInv, Outcome, InStep
    <3>. QED  BY <3>2, <3>4 DEF TimelyInv
  <2>. QED  BY <2>1, <2>2, <2>3
<1>. QED  BY <1>2, <1>3

(* What an ACK the emitter reads is about.                                 *)
LEMMA AckIsDue ==
  ASSUME WindowInv, TimelyInv, ReplyArrived, Head(toTx) = ACK
  PROVE  \/ RxSucceeded
         \/ /\ IsBlock(blk_buffer) /\ ~isLastBlock
            /\ rxpc = "header" =>
                 /\ blkNo = expectedBlkNumber - 1
                 /\ emittedBytes + nbEmitted = rxRam.write_offset
<1>1. /\ txpc = "reply" /\ toTx \in Seq(Byte) /\ toTx # <<>>
      /\ 1 \in DOMAIN toTx /\ toTx[1] = ACK
  BY LinkTypes DEF ReplyArrived
<1>2. \/ RxSucceeded
      \/ /\ IsBlock(blk_buffer)
         /\ rxpc = "header" => blkNo = expectedBlkNumber - 1
  BY <1>1 DEF TimelyInv, AckAnswersLastSent
<1>3. IsBlock(blk_buffer) => ~isLastBlock
  BY DEF IsBlock, isLastBlock, SOH, STX, EOT
<1>4. rxpc = "header" /\ blkNo = expectedBlkNumber - 1 =>
        emittedBytes + nbEmitted = rxRam.write_offset
  BY <1>1, LinkTypes DEF TimelyInv, InStep
<1>. QED  BY <1>2, <1>3, <1>4

LEMMA TxAckTimely ==
  ASSUME OnTime, WindowInv, TimelyInv, UNCHANGED rxVars, TxAck
  PROVE  TimelyInv'
<1>1. /\ ReplyArrived /\ Head(toTx) = ACK /\ txpc = "reply" /\ toTx # <<>>
      /\ toTx' = Tail(toTx) /\ blkNo' = blkNo + 1 /\ txOpts' = txOpts
  BY DEF TxAck, ReplyArrived
<1>2. /\ rxpc' = rxpc /\ receivedBytes' = receivedBytes /\ rxRam' = rxRam
      /\ rxData' = rxData /\ expectedBlkNumber' = expectedBlkNumber
      /\ RxSucceeded' = RxSucceeded
  BY DEF rxVars, RxSucceeded
<1>3. \/ RxSucceeded
      \/ /\ IsBlock(blk_buffer) /\ ~isLastBlock
         /\ rxpc = "header" =>
              /\ blkNo = expectedBlkNumber - 1
              /\ emittedBytes + nbEmitted = rxRam.write_offset
  BY <1>1, AckIsDue
<1>4. rxpc # "idle" /\ rxpc \in {"idle", "header", "done"}
  BY <1>1, LinkTypes DEF TimelyInv, OneUnderWay
<1>5. CASE isLastBlock /\ TxStop(emittedBytes)
  <2>1. /\ txpc' = "done" /\ emittedBytes' = emittedBytes /\ toRx' = toRx
        /\ txRam' = txRam
    BY <1>5 DEF TxStop
  <2>2. RxSucceeded
    BY <1>3, <1>5
  <2>3. emittedBytes \in {receivedBytes, -1} /\ rxpc # "header"
    BY <2>2 DEF TimelyInv, Outcome, RxSucceeded
  <2>. QED  BY <1>1, <1>4, <2>1, <2>2, <2>3, EmitterStops
<1>6. CASE /\ ~isLastBlock
           /\ emittedBytes' = emittedBytes + nbEmitted
           /\ SendNext(blkNo + 1)
           /\ UNCHANGED txpc
  <2>. DEFINE k == blkNo + 1
              f == DataBlock(k)
  <2>1. /\ ~RxSucceeded /\ IsBlock(blk_buffer)
    BY <1>1, <1>3, <1>6 DEF TimelyInv, Outcome
  <2>2. /\ blkNo <= NbBlocks /\ NbBlocks \in Nat /\ blkNo \in Nat \ {0}
        /\ k \in Nat \ {0} /\ k - 1 = blkNo /\ k <= NbBlocks + 1
    <3>1. BlockOrEot(blk_buffer) /\ blk_buffer.seq = blkNo
      BY <1>1, WindowFacts DEF TimelyInv
    <3>. QED  BY <2>1, <3>1, LinkTypes DEF BlockOrEot, IsBlock, SOH, STX, EOT
  <2>3. /\ txRam \in RamFileType /\ FileSize < HalfWord
        /\ txRam.read_offset <= FileSize
        /\ txRam.read_offset = Smaller(FileSize, blkNo * defaultBlksize)
    BY <1>1 DEF WindowInv, TypeOK, TxTypeOK, EmitterAtBlkNo
  <2>4. txRam.read_offset = Smaller(FileSize, (k - 1) * defaultBlksize)
    BY <2>2, <2>3
  <2>5. /\ SendNext(k) /\ blkNo' = k
    BY <1>1, <1>6
  <2>. HIDE DEF k
  <2>6. /\ f \in Frame /\ f.seq = k
        /\ lmodem_buffer_read(txRam, bytesToRead) =
             [txRam EXCEPT !.read_offset = Smaller(FileSize, k * defaultBlksize)]
    BY <2>2, <2>3, <2>4, DataBlockIsBlockOf
  <2>7. BlockOrEot(f)
    BY <2>2, <2>3, <2>4, DataBlockIsIntact DEF Intact
  <2>8. /\ PutFrame(f) /\ blk_buffer' = f
        /\ txRam' = lmodem_buffer_read(txRam, bytesToRead)
    BY <2>5 DEF SendNext
  <2>9. txRam'.write_offset = txRam.write_offset
    BY <2>3, <2>6, <2>8 DEF RamFileType
  <2>. HIDE DEF f
  <2>10. txpc' = "reply" /\ f.seq = blkNo'
    BY <1>1, <1>6, <2>5, <2>6
  <2>11. /\ (txpc = "reply" => BlockOrEot(blk_buffer))'
         /\ OneUnderWay' /\ FrameIsLastSent' /\ AckAnswersLastSent'
    BY <1>1, <1>4, <2>6, <2>7, <2>8, <2>9, <2>10, EmitterSends
  <2>12. InStep'
    <3>1. rxpc = "header" =>
            blkNo' = expectedBlkNumber /\ emittedBytes' = rxRam.write_offset
      BY <1>1, <1>3, <1>6, <2>1, LinkTypes
    <3>. QED  BY <1>2, <2>10, <3>1 DEF InStep
  <2>13. Outcome'
    <3>1. NbBlocks' = NbBlocks
      BY <1>1, <2>9, FrozenBlocks
    <3>. QED  BY <1>2, <2>1, <2>10, <3>1 DEF TimelyInv, Outcome
  <2>. QED  BY <2>11, <2>12, <2>13 DEF TimelyInv
<1>. QED  BY <1>5, <1>6 DEF TxAck

(* Steps that leave what the invariant is about as it is.                  *)
LEMMA TimelyStutter ==
  ASSUME WindowInv, TimelyInv,
         UNCHANGED <<toRx, toTx, txpc, blkNo, emittedBytes, txRam, blk_buffer,
                     txOpts, rxpc, receivedBytes, rxRam, rxData,
                     expectedBlkNumber>>
  PROVE  TimelyInv'
<1>1. /\ toRx' = toRx /\ toTx' = toTx /\ txpc' = txpc /\ blkNo' = blkNo
      /\ emittedBytes' = emittedBytes /\ txRam' = txRam
      /\ blk_buffer' = blk_buffer /\ txOpts' = txOpts
      /\ rxpc' = rxpc /\ receivedBytes' = receivedBytes /\ rxRam' = rxRam
      /\ rxData' = rxData /\ expectedBlkNumber' = expectedBlkNumber
  OBVIOUS
<1>2. NbBlocks' = NbBlocks
  BY <1>1, FrozenBlocks
<1>3. OneUnderWay' /\ FrameIsLastSent' /\ AckAnswersLastSent'
  BY <1>1 DEF TimelyInv, OneUnderWay, FrameIsLastSent, AckAnswersLastSent,
              RxSucceeded, IsBlock
<1>4. InStep' /\ Outcome'
  BY <1>1, <1>2 DEF TimelyInv, InStep, Outcome, nbEmitted, isLastBlock,
                    RxSucceeded
<1>5. (txpc = "reply" => BlockOrEot(blk_buffer))'
  BY <1>1, <1>2 DEF TimelyInv, BlockOrEot
<1>. QED  BY <1>3, <1>4, <1>5 DEF TimelyInv

LEMMA TxWaitsTimely ==
  ASSUME OnTime, WindowInv, TimelyInv, UNCHANGED rxVars,
         TxNak \/ TxOther \/ (TxSilence /\ TxTimeout)
  PROVE  TimelyInv'
<1>1. CASE TxNak \/ TxOther
  <2>1. PICK limit \in Nat :
          /\ txpc = "reply" /\ toTx # <<>> /\ toTx' = Tail(toTx)
          /\ UNCHANGED <<txOpts, blkNo>> /\ TxError(limit)
    <3>1. MaxRetry \in Nat /\ (IF MaxRetry < 2 THEN MaxRetry ELSE 2) \in Nat
      BY LModemAssumption
    <3>2. CASE TxNak
      BY <3>1, <3>2 DEF TxNak, ReplyArrived
    <3>3. CASE TxOther
      BY <3>1, <3>3 DEF TxOther, ReplyArrived
    <3>. QED  BY <1>1, <3>2, <3>3
  <2>. QED  BY <2>1, TxErrorTimely
<1>2. CASE TxSilence /\ TxTimeout
  <2>1. /\ txpc = "reply" /\ toTx = <<>> /\ (toRx = <<>> \/ rxpc = "done")
        /\ UNCHANGED <<txOpts, blkNo>>
    BY <1>2 DEF TxSilence, TxTimeout, OnTime
  <2>2. CASE TxError(MaxRetry) /\ UNCHANGED toTx
    <3>1. MaxRetry \in Nat
      BY LModemAssumption
    <3>. QED  BY <2>1, <2>2, <3>1, TxErrorTimely
  <2>3. CASE UNCHANGED <<lineVars, txpc, retry, emittedBytes, txRam, blk_buffer>>
    <3>1. /\ rxpc' = rxpc /\ receivedBytes' = receivedBytes /\ rxRam' = rxRam
          /\ rxData' = rxData /\ expectedBlkNumber' = expectedBlkNumber
          /\ RxSucceeded' = RxSucceeded
      BY DEF rxVars, RxSucceeded
    <3>2. /\ toRx' = toRx /\ toTx' = toTx /\ txpc' = txpc /\ blkNo' = blkNo
          /\ emittedBytes' = emittedBytes /\ txRam' = txRam
          /\ blk_buffer' = blk_buffer /\ txOpts' = txOpts
      BY <2>1, <2>3 DEF lineVars
    <3>. QED  BY <3>1, <3>2, TimelyStutter
  <2>. QED  BY <1>2, <2>2, <2>3 DEF TxTimeout
<1>. QED  BY <1>1, <1>2

(***************************************************************************)
(* The invariant of a transfer without late answers.                       *)
(***************************************************************************)
LEMMA InitTimely ==
  ASSUME Init
  PROVE  TimelyInv
<1>1. PICK eOpts \in Opts, rOpts \in Opts, size \in FileSizes,
           max_size \in RamSizes : TxInit(eOpts, size) /\ RxInit(rOpts, max_size)
  BY DEF Init
<1>2. toRx = <<>> /\ toTx = <<>>
  BY DEF Init, LineInit
<1>3. /\ txpc = "preambule" /\ emittedBytes = 0
      /\ rxpc = "idle" /\ rxData = <<>> /\ rxRam.write_offset = 0
  BY <1>1 DEF TxInit, RxInit, lmodem_buffer_init
<1>4. NbBlocks \in Nat
  BY InitWindow, LinkTypes
<1>5. Outcome
  BY <1>3, <1>4 DEF Outcome, RxSucceeded
<1>. QED  BY <1>2, <1>3, <1>5
          DEF TimelyInv, OneUnderWay, FrameIsLastSent, InStep, AckAnswersLastSent

LEMMA NextTimely ==
  ASSUME OnTime, WindowInv, TimelyInv, [Next]_vars
  PROVE  TimelyInv'
<1>1. CASE RxNext
  BY <1>1, RxStartTimely, RxStoreTimely, RxOverflowTimely, RxEotTimely,
     RxErrorsTimely
  DEF RxNext, RxReceives
<1>2. CASE TxNext
  BY <1>2, TxPreambuleTimely, TxPreambuleEndTimely, TxAckTimely, TxWaitsTimely
  DEF TxNext, TxReceives
<1>3. CASE UNCHANGED vars
  BY <1>3, TimelyStutter DEF vars, lineVars, rxVars, txVars, RxSucceeded
<1>. QED  BY <1>1, <1>2, <1>3 DEF Next, Terminated

(* Between two sides that run, at most one frame or one reply is under     *)
(* way, and it is about the frame sent last: the argument for every        *)
(* property of a transfer without late answers.                            *)
THEOREM TimelyIsInvariant ==
  ASSUME OnTime
  PROVE  Spec => []TimelyInv
<1>1. Init => TimelyInv
  BY InitTimely
<1>2. WindowInv /\ TimelyInv /\ [Next]_vars => TimelyInv'
  BY NextTimely
<1>. QED  BY <1>1, <1>2, WindowIsInvariant, PTL DEF Spec

(* The bytes lxmodem_emit has counted are in the file of the receiver.     *)
THEOREM EmittedIsStored ==
  ASSUME OnTime
  PROVE  Spec => []EmittedWasStored
<1>1. WindowInv /\ TimelyInv => EmittedWasStored
  <2>. SUFFICES ASSUME WindowInv, TimelyInv, rxpc # "done" \/ RxSucceeded
                PROVE  emittedBytes <= rxRam.write_offset
    BY DEF EmittedWasStored
  <2>1. /\ emittedBytes \in Nat \cup {-1} /\ rxRam.write_offset \in Nat
        /\ nbEmitted \in Nat /\ receivedBytes \in Nat \cup {-1}
        /\ rxpc \in {"idle", "header", "done"}
        /\ txpc \in {"preambule", "reply", "done"}
    BY LinkTypes
  <2>2. CASE RxSucceeded
    <3>1. emittedBytes \in {receivedBytes, -1}
      BY <2>2 DEF TimelyInv, Outcome
    <3>2. receivedBytes = rxRam.write_offset
      BY <2>2 DEF WindowInv, ReportedIsWritten, RxSucceeded
    <3>. QED  BY <2>1, <3>1, <3>2
  <2>3. CASE ~RxSucceeded /\ txpc = "done"
    <3>1. emittedBytes <= 0
      BY <2>3 DEF TimelyInv, Outcome
    <3>. QED  BY <2>1, <3>1
  <2>4. CASE ~RxSucceeded /\ txpc = "preambule"
    BY <2>1, <2>4 DEF TimelyInv, InStep
  <2>5. CASE ~RxSucceeded /\ txpc = "reply"
    <3>1. rxpc = "header"
      BY <2>1, <2>5 DEF TimelyInv, OneUnderWay
    <3>2. \/ emittedBytes = rxRam.write_offset
          \/ emittedBytes + nbEmitted = rxRam.write_offset
      BY <2>5, <3>1 DEF TimelyInv, InStep
    <3>. QED  BY <2>1, <3>2
  <2>. QED  BY <2>1, <2>2, <2>3, <2>4, <2>5
<1>. QED  BY <1>1, WindowIsInvariant, TimelyIsInvariant, PTL

(* What an emitter that has counted no bytes says of the receiver: it is   *)
(* at its first frame, or nothing has been stored.                         *)
NothingCounted ==
  /\ txpc = "preambule" => rxData = <<>>
  /\ txpc = "reply" /\ emittedBytes = 0 => blkNo = 1
  /\ txpc = "done" /\ emittedBytes = 0 => rxData = <<>>

(* An emitter that stops at its first frame with an ACK had no block to    *)
(* send.                                                                   *)
LEMMA FirstFrameIsEot ==
  ASSUME WindowInv, TimelyInv, txpc = "reply", isLastBlock, blkNo = 1
  PROVE  rxData = <<>>
<1>1. BlockOrEot(blk_buffer) /\ blk_buffer.seq = 1 /\ blk_buffer.hdr = EOT
  BY WindowFacts DEF TimelyInv, isLastBlock
<1>2. NbBlocks = 0
  BY <1>1, LinkTypes DEF BlockOrEot, IsBlock, SOH, STX, EOT
<1>3. Len(rxData) <= 0
  BY <1>2 DEF TimelyInv, Outcome
<1>. QED  BY <1>3, LinkTypes

LEMMA NothingCountedKept ==
  ASSUME WindowInv, TimelyInv, NothingCounted, [Next]_vars
  PROVE  NothingCounted'
<1>1. CASE RxNext /\ RxStore
  <2>1. BlockArrived /\ RxStatus(Head(toRx)) = "OK"
    BY <1>1 DEF RxStore
  <2>2. txpc = "reply"
    BY <2>1, StoredIsCurrent
  <2>3. UNCHANGED txVars
    BY <1>1 DEF RxNext
  <2>. QED  BY <2>2, <2>3 DEF NothingCounted, txVars
<1>2. CASE RxNext /\ ~RxStore
  <2>1. UNCHANGED txVars
    BY <1>2 DEF RxNext
  <2>2. rxData' = rxData
    BY <1>2 DEF RxNext, RxStart, RxReceives, RxOverflow, RxRefuse, RxEot, RxCan,
       RxUnknown, RxTimeout
  <2>. QED  BY <2>1, <2>2 DEF NothingCounted, txVars
<1>3. CASE TxNext
  <2>1. rxData' = rxData
    BY <1>3 DEF TxNext, rxVars
  <2>2. CASE TxPreambule
    BY <2>2 DEF TxPreambule, NothingCounted
  <2>3. CASE TxPreambuleRefused
    BY <2>3 DEF TxPreambuleRefused, NothingCounted
  <2>4. CASE TxPreambuleTimeout
    BY <2>1, <2>4 DEF TxPreambuleTimeout, NothingCounted
  <2>5. CASE TxAck /\ isLastBlock
    <3>1. txpc = "reply" /\ txpc' = "done" /\ emittedBytes' = emittedBytes
      BY <2>5 DEF TxAck, ReplyArrived, TxStop
    <3>. QED  BY <2>1, <2>5, <3>1, FirstFrameIsEot DEF NothingCounted
  <2>6. CASE TxAck /\ ~isLastBlock
    <3>1. /\ txpc = "reply" /\ txpc' = "reply"
          /\ emittedBytes' = emittedBytes + nbEmitted
      BY <2>6 DEF TxAck, ReplyArrived
    <3>2. emittedBytes \in Nat /\ nbEmitted > 0 /\ nbEmitted \in Nat
      BY <2>6, <3>1, WindowFacts, LModemAssumption DEF nbEmitted, BlkSize
    <3>. QED  BY <3>1, <3>2 DEF NothingCounted
  <2>7. CASE TxNak \/ TxOther \/ TxTimeout
    <3>1. txpc = "reply" /\ blkNo' = blkNo
      BY <2>7 DEF TxNak, TxOther, TxTimeout, ReplyArrived
    <3>2. \/ txpc' = "done" /\ emittedBytes' = -1
          \/ txpc' = txpc /\ emittedBytes' = emittedBytes
      BY <2>7 DEF TxNak, TxOther, TxTimeout, TxError, TxStop
    <3>. QED  BY <3>1, <3>2 DEF NothingCounted
  <2>. QED  BY <1>3, <2>2, <2>3, <2>4, <2>5, <2>6, <2>7 DEF TxNext, TxReceives
<1>4. CASE UNCHANGED vars
  BY <1>4 DEF NothingCounted, vars, rxVars, txVars
<1>. QED  BY <1>1, <1>2, <1>3, <1>4 DEF Next, Terminated

(* When lxmodem_emit reports bytes, lxmodem_receive has reported as many;  *)
(* when it reports none, nothing was stored.                               *)
THEOREM SidesAgree ==
  ASSUME OnTime
  PROVE  Spec => []SuccessAgreed
<1>1. Init => NothingCounted
  BY DEF Init, TxInit, RxInit, NothingCounted
<1>2. WindowInv /\ TimelyInv /\ NothingCounted /\ [Next]_vars => NothingCounted'
  BY NothingCountedKept
<1>3. WindowInv /\ TimelyInv /\ NothingCounted => SuccessAgreed
  <2>. SUFFICES ASSUME WindowInv, TimelyInv, NothingCounted, TxSucceeded
                PROVE  IF emittedBytes > 0
                       THEN RxSucceeded /\ receivedBytes = emittedBytes
                       ELSE rxData = <<>>
    BY DEF SuccessAgreed
  <2>1. emittedBytes \in Nat /\ txpc = "done"
    BY LinkTypes DEF TxSucceeded
  <2>2. CASE emittedBytes > 0
    BY <2>1, <2>2 DEF TimelyInv, Outcome
  <2>3. CASE emittedBytes = 0
    BY <2>1, <2>3 DEF NothingCounted
  <2>. QED  BY <2>1, <2>2, <2>3
<1>. QED  BY <1>1, <1>2, <1>3, WindowIsInvariant, TimelyIsInvariant, PTL DEF Spec

(***************************************************************************)
(* The refinement.                                                         *)
(***************************************************************************)
(* Each step of the receiver stores the next block, ends the transfer with *)
(* the whole file stored, fails, or is invisible; each step of the emitter *)
(* is invisible.                                                           *)
LEMMA StepsRefine ==
  ASSUME WindowInv, WindowInv', TimelyInv, [Next]_vars
  PROVE  [FT!Next]_(FT!ftVars)
<1>. DEFINE file == [k \in 1 .. NbBlocks |-> BlockOf(k)]
            status == IF rxpc # "done" THEN "running"
                      ELSE IF receivedBytes >= 0 THEN "complete" ELSE "failed"
<1>1. file' = file
  <2>1. txOpts' = txOpts /\ txRam'.write_offset = txRam.write_offset
    BY FileKept
  <2>. QED  BY <2>1, FrozenFile, FrozenBlocks
<1>2. /\ NbBlocks \in Nat /\ rxData \in Seq(Chunk)
      /\ Len(file) = NbBlocks /\ DOMAIN file = 1 .. NbBlocks
      /\ \A k \in 1 .. NbBlocks : file[k] = BlockOf(k)
  BY LinkTypes
<1>3. CASE UNCHANGED rxVars
  <2>1. rxData' = rxData /\ status' = status
    BY <1>3 DEF rxVars
  <2>. QED  BY <1>1, <2>1 DEF FT!ftVars
<1>4. ASSUME rxpc # "done", rxpc' # "done", rxData' = rxData
      PROVE  [FT!Next]_(FT!ftVars)
  BY <1>1, <1>4 DEF FT!ftVars
<1>5. ASSUME rxpc # "done", rxpc' = "done", receivedBytes' = -1, rxData' = rxData
      PROVE  [FT!Next]_(FT!ftVars)
  BY <1>1, <1>5 DEF FT!Next, FT!Fail
<1>6. CASE RxStore
  <2>1. /\ BlockArrived /\ RxStatus(Head(toRx)) = "OK"
        /\ rxpc = "header" /\ rxpc' = "header"
        /\ rxData' = Append(rxData, ChunkIn(Head(toRx)))
    BY <1>6 DEF RxStore, BlockArrived, Reading
  <2>2. /\ ChunkIn(Head(toRx)) = BlockOf(expectedBlkNumber)
        /\ expectedBlkNumber <= NbBlocks
    BY <2>1, StoredIsCurrent
  <2>3. Len(rxData) + 1 = expectedBlkNumber /\ Len(rxData) \in Nat
    BY <2>1, WindowFacts, LinkTypes
  <2>4. Len(rxData) < Len(file) /\ file[Len(rxData) + 1] = ChunkIn(Head(toRx))
    BY <1>2, <2>2, <2>3
  <2>. HIDE DEF file
  <2>5. rxData' = Append(rxData, file[Len(rxData) + 1])
    BY <2>1, <2>4
  <2>. QED  BY <1>1, <2>1, <2>4, <2>5 DEF FT!Next, FT!StoreNext, file
<1>7. CASE RxEot
  <2>1. /\ rxpc = "header" /\ rxpc' = "done" /\ receivedBytes' = receivedBytes
        /\ rxData' = rxData
    BY <1>7 DEF RxEot, Reading
  <2>2. Len(rxData) = NbBlocks
    BY <1>7, EotIsTheEnd
  <2>3. rxData = file
    BY <1>2, <2>2 DEF WindowInv, CopyIsPrefix
  <2>4. receivedBytes' >= 0
    BY <2>1, WindowFacts, LinkTypes
  <2>. QED  BY <1>1, <2>1, <2>3, <2>4 DEF FT!Next, FT!Complete
<1>8. CASE RxOverflow
  BY <1>5, <1>8 DEF RxOverflow, BlockArrived, Reading
<1>9. CASE RxStart
  BY <1>4, <1>9 DEF RxStart
<1>10. ASSUME rxpc = "header", rxData' = rxData,
              \/ rxpc' = rxpc
              \/ rxpc' = "done" /\ receivedBytes' = -1
       PROVE  [FT!Next]_(FT!ftVars)
  <2>. HIDE DEF file, status
  <2>1. CASE rxpc' = rxpc
    BY <1>4, <1>10, <2>1
  <2>2. CASE rxpc' = "done" /\ receivedBytes' = -1
    BY <1>5, <1>10, <2>2
  <2>. QED  BY <1>10, <2>1, <2>2
<1>11. CASE RxRefuse
  <2>1. rxpc = "header" /\ rxData' = rxData
    BY <1>11 DEF RxRefuse, BlockArrived, Reading
  <2>2. \/ rxpc' = rxpc
        \/ rxpc' = "done" /\ receivedBytes' = -1
    BY <1>11 DEF RxRefuse, RxError
  <2>. QED  BY <1>10, <2>1, <2>2
<1>12. CASE RxCan
  <2>1. rxpc = "header" /\ rxData' = rxData
    BY <1>12 DEF RxCan, BlockArrived, Reading
  <2>2. \/ rxpc' = rxpc
        \/ rxpc' = "done" /\ receivedBytes' = -1
    BY <1>12 DEF RxCan, RxError
  <2>. QED  BY <1>10, <2>1, <2>2
<1>13. CASE RxUnknown
  <2>1. rxpc = "header" /\ rxData' = rxData
    BY <1>13 DEF RxUnknown, BlockArrived, Reading
  <2>2. \/ rxpc' = rxpc
        \/ rxpc' = "done" /\ receivedBytes' = -1
    BY <1>13 DEF RxUnknown, RxError
  <2>. QED  BY <1>10, <2>1, <2>2
<1>14. CASE RxTimeout
  <2>1. rxpc = "header" /\ rxData' = rxData
    BY <1>14 DEF RxTimeout, BlockArrived, Reading
  <2>2. \/ rxpc' = rxpc
        \/ rxpc' = "done" /\ receivedBytes' = -1
    BY <1>14 DEF RxTimeout, RxError
  <2>. QED  BY <1>10, <2>1, <2>2
<1>15. CASE UNCHANGED vars
  BY <1>3, <1>15 DEF vars
<1>. QED  BY <1>3, <1>6, <1>7, <1>8, <1>9, <1>11, <1>12, <1>13, <1>14, <1>15
          DEF Next, RxNext, RxReceives, TxNext, Terminated

(* The receiver and the emitter together implement the abstract file       *)
(* transfer: the copy grows by the next block of the file, and is reported *)
(* complete only when it is the whole file.                                *)
THEOREM RefinesFileTransfer ==
  ASSUME OnTime
  PROVE  Spec => ImplementsFileTransfer
<1>1. Init => FT!Init
  BY DEF Init, RxInit, FT!Init
<1>2. WindowInv /\ WindowInv' /\ TimelyInv /\ [Next]_vars =>
        [FT!Next]_(FT!ftVars)
  BY StepsRefine
<1>. QED  BY <1>1, <1>2, WindowIsInvariant, TimelyIsInvariant, PTL
          DEF Spec, ImplementsFileTransfer, FT!Spec
=============================================================================
