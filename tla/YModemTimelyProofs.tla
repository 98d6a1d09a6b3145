-------------------------- MODULE YModemTimelyProofs --------------------------
(***************************************************************************)
(* Proofs about a YMODEM transfer without late answers: whatever the line  *)
(* loses or damages, the file that lymodem_receive reports is the          *)
(* emitter's, and a success of lymodem_emit means that it is stored.       *)
(***************************************************************************)
EXTENDS YModemFaultlessProofs

(* The line the theorems are about, as OnTime of XModemTimelyProofs.  What *)
(* it may not do in addition is to deliver characters that nobody sent: a  *)
(* refusal of one of them would be taken for the reply to a block.         *)
YOnTime ==
  /\ Timely
  /\ ACK \notin NoiseBytes
  /\ EOT \notin NoiseBytes
  /\ "noise" \notin FaultKinds

(***************************************************************************)
(* The types and the facts that the steps below need.                      *)
(***************************************************************************)
LEMMA YTimelyTypes ==
  ASSUME YWindowInv
  PROVE  /\ LineTypeOK /\ toTx \in Seq(Byte) /\ Len(toTx) \in Nat
         /\ toRx \in Seq(Frame) /\ Len(toRx) \in Nat
         /\ rxpc \in {"idle", "header", "done"}
         /\ txpc \in {"preambule", "reply", "done"}
         /\ ryPhase \in {"start", "name", "repeat", "contents", "next", "done"}
         /\ tyPhase \in {"call", "name", "contents", "next", "batch", "done"}
         /\ blkNo \in Nat \ {0} /\ expectedBlkNumber \in Nat \ {0}
         /\ emittedBytes \in Nat \cup {-1} /\ receivedBytes \in Nat \cup {-1}
         /\ rxRam \in RamFileType /\ rxRam.write_offset \in Nat
         /\ rxData \in Seq(Chunk) /\ Len(rxData) \in Nat
         /\ blk_buffer \in Frame /\ nbEmitted \in Nat
         /\ FileSize \in Nat /\ NbBlocks \in Nat
         /\ defaultBlksize \in Nat \ {0}
<1>1. /\ LineTypeOK /\ toTx \in Seq(Byte) /\ toRx \in Seq(Frame)
      /\ Len(toRx) \in Nat /\ blkNo \in Nat \ {0}
      /\ expectedBlkNumber \in Nat \ {0}
      /\ rxData \in Seq(Chunk) /\ rxRam \in RamFileType /\ FileSize \in Nat
  BY YWindowTypes
<1>2. /\ rxpc \in {"idle", "header", "done"}
      /\ txpc \in {"preambule", "reply", "done"}
      /\ emittedBytes \in Nat \cup {-1} /\ receivedBytes \in Nat \cup {-1}
      /\ blk_buffer \in Frame
  BY DEF YWindowInv, YTypeOK, TypeOK, RxTypeOK, TxTypeOK
<1>3. /\ ryPhase \in {"start", "name", "repeat", "contents", "next", "done"}
      /\ tyPhase \in {"call", "name", "contents", "next", "batch", "done"}
  BY DEF YWindowInv, YTypeOK, RyTypeOK, TyTypeOK
<1>4. nbEmitted \in Nat
  BY LModemAssumption DEF nbEmitted, BlkSize
<1>5. NbBlocks \in Nat /\ defaultBlksize \in Nat \ {0}
  BY <1>1, BlockIffBytesLeft, BlksizeType
<1>6. Len(toTx) \in Nat /\ Len(rxData) \in Nat /\ rxRam.write_offset \in Nat
  BY <1>1 DEF RamFileType
<1>. QED  BY <1>1, <1>2, <1>3, <1>4, <1>5, <1>6

LEMMA YSideFacts ==
  ASSUME YWindowInv
  PROVE  /\ txpc = "preambule" => blkNo = 1 /\ ~DataSent
         /\ txpc = "reply" =>
              tyPhase = "contents" /\ blk_buffer.seq = blkNo /\ emittedBytes >= 0
         /\ tyPhase \in {"call", "name"} => txpc = "preambule"
         /\ rxpc = "idle" =>
              /\ rxData = <<>> /\ Len(rxData) = 0
              /\ receivedBytes = 0 /\ expectedBlkNumber = 1
         /\ Listening => BlocksInWindow /\ CallsInOrder
         /\ Listening => Len(rxData) = expectedBlkNumber - 1
         /\ Listening => receivedBytes = rxRam.write_offset
         /\ ryPhase \in {"start", "name", "repeat"} => rxpc = "idle"
<1>1. /\ txpc = "preambule" => blkNo = 1 /\ ~DataSent
      /\ txpc = "reply" => tyPhase = "contents" /\ blk_buffer.seq = blkNo
      /\ tyPhase \in {"call", "name"} => txpc = "preambule"
  BY DEF YWindowInv, YEmitterAtBlkNo
<1>2. txpc = "reply" => emittedBytes >= 0
  BY DEF YWindowInv, YEmitterRunning, EmitterRunning
<1>3. /\ rxpc = "idle" =>
           rxData = <<>> /\ receivedBytes = 0 /\ expectedBlkNumber = 1
      /\ ryPhase \in {"start", "name", "repeat"} => rxpc = "idle"
  BY DEF YWindowInv, YReceiverRunning
<1>4. Listening => BlocksInWindow /\ CallsInOrder
  BY DEF YWindowInv
<1>5. Listening => Len(rxData) = expectedBlkNumber - 1
  BY <1>4 DEF BlocksInWindow
<1>6. Listening => receivedBytes = rxRam.write_offset
  BY DEF YWindowInv, YReceiverRunning, Listening
<1>. QED  BY <1>1, <1>2, <1>3, <1>4, <1>5, <1>6

(* The facts of the two sides that the emitter and the receiver are in     *)
(* step by: what a reading receiver knows.                                 *)
LEMMA YLoopFacts ==
  ASSUME YWindowInv, YTimelyInv, rxpc = "header"
  PROVE  /\ ryPhase = "contents" /\ Listening /\ tyPhase # "call"
         /\ BlocksInWindow /\ CallsInOrder
         /\ Len(rxData) = expectedBlkNumber - 1
         /\ receivedBytes = rxRam.write_offset
         /\ rxRam.write_offset <= Len(rxData) * defaultBlksize
         /\ ~RxSucceeded
         /\ Roomy /\ txpc = "done" => emittedBytes <= 0
<1>1. ryPhase = "contents" /\ tyPhase # "call"
  BY DEF YTimelyInv, YOneUnderWay
<1>2. Listening
  BY <1>1 DEF Listening
<1>3. ~RxSucceeded
  BY DEF RxSucceeded
<1>4. Roomy /\ txpc = "done" => emittedBytes <= 0
  <2>1. emittedBytes \in Nat \cup {-1}
    BY YTimelyTypes
  <2>. QED  BY <2>1 DEF YTimelyInv, YOutcome
<1>5. rxRam.write_offset <= Len(rxData) * defaultBlksize
  BY DEF YTimelyInv, YInStep
<1>. QED  BY <1>1, <1>2, <1>3, <1>4, <1>5, YSideFacts

(* The ACKs among characters.                                              *)
LEMMA AcksBehindFirst ==
  ASSUME NEW q \in Seq(Byte), q # <<>>
  PROVE  /\ Tail(q) \in Seq(Byte) /\ Len(q) \in Nat \ {0}
         /\ Len(Tail(q)) = Len(q) - 1
         /\ \A i \in AcksIn(Tail(q)) : i \in Nat \ {0} /\ i + 1 \in AcksIn(q)
         /\ AcksIn(q) \subseteq {1} => AcksIn(Tail(q)) = {}
         /\ Head(q) = ACK => 1 \in AcksIn(q)
<1>1. /\ Tail(q) \in Seq(Byte) /\ Len(q) \in Nat \ {0}
      /\ Len(Tail(q)) = Len(q) - 1
      /\ Head(q) = q[1] /\ 1 \in DOMAIN q
      /\ \A j \in DOMAIN Tail(q) :
           /\ j \in Nat \ {0} /\ j + 1 \in DOMAIN q
           /\ Tail(q)[j] = q[j + 1]
  OBVIOUS
<1>2. \A i \in AcksIn(Tail(q)) : i \in Nat \ {0} /\ i + 1 \in AcksIn(q)
  BY <1>1 DEF AcksIn
<1>3. ASSUME AcksIn(q) \subseteq {1}, NEW i \in AcksIn(Tail(q))
      PROVE  FALSE
  <2>1. i \in Nat \ {0} /\ i + 1 \in {1}
    BY <1>2, <1>3
  <2>. QED  BY <2>1
<1>. QED  BY <1>1, <1>2, <1>3 DEF AcksIn

(* What the receiver sends adds at most one ACK, if it begins with one.    *)
LEMMA AcksArrive ==
  ASSUME YOnTime, LineTypeOK, NEW s \in Seq(Byte), PutChars(s),
         \A k \in DOMAIN s : s[k] = ACK => k = 1
  PROVE  /\ toTx' \in Seq(Byte) /\ Len(toTx') <= Len(toTx) + Len(s)
         /\ Len(toTx') \in Nat
         /\ \/ AcksIn(toTx') = AcksIn(toTx)
            \/ /\ s # <<>> /\ s[1] = ACK
               /\ AcksIn(toTx') = AcksIn(toTx) \cup {Len(toTx) + 1}
               /\ Len(toTx) + 1 <= Len(toTx')
         /\ s = <<>> => toTx' = toTx
<1>1. toTx \in Seq(Byte) /\ Len(toTx) \in Nat /\ Len(s) \in Nat
  BY DEF LineTypeOK
<1>2. PICK r \in Seq(Byte) :
        /\ toTx' = toTx \o r
        /\ Len(r) <= Len(s)
        /\ \A i \in DOMAIN r : r[i] = ACK => i = 1 /\ s # <<>> /\ s[1] = ACK
  BY PutCharsArrive DEF YOnTime
<1>. DEFINE t == toTx \o r
<1>3. /\ t \in Seq(Byte) /\ Len(t) = Len(toTx) + Len(r) /\ Len(r) \in Nat
      /\ DOMAIN t = 1 .. Len(toTx) + Len(r)
      /\ DOMAIN r = 1 .. Len(r) /\ DOMAIN toTx = 1 .. Len(toTx)
      /\ \A i \in DOMAIN t :
           /\ i \in Nat
           /\ \/ i \in DOMAIN toTx /\ t[i] = toTx[i]
              \/ i - Len(toTx) \in DOMAIN r /\ t[i] = r[i - Len(toTx)]
      /\ \A i \in DOMAIN toTx : t[i] = toTx[i]
      /\ r # <<>> => 1 \in DOMAIN r /\ t[Len(toTx) + 1] = r[1]
  BY <1>1
<1>4. s = <<>> => t = toTx
  <2>1. s = <<>> => Len(r) = 0
    BY <1>2, <1>3
  <2>2. Len(r) = 0 => r = <<>>
    OBVIOUS
  <2>. QED  BY <1>1, <2>1, <2>2
<1>0. toTx' = t /\ Len(t) <= Len(toTx) + Len(s) /\ Len(t) \in Nat
  BY <1>1, <1>2, <1>3
<1>. HIDE DEF t
<1>5. \A i \in AcksIn(toTx) : i \in AcksIn(t)
  BY <1>1, <1>3 DEF AcksIn
<1>6. ASSUME NEW i \in AcksIn(t), i \notin AcksIn(toTx)
      PROVE  i = Len(toTx) + 1 /\ s # <<>> /\ s[1] = ACK
  <2>1. i \in DOMAIN t /\ t[i] = ACK /\ i \in Nat
    BY <1>3, <1>6 DEF AcksIn
  <2>2. i - Len(toTx) \in DOMAIN r /\ r[i - Len(toTx)] = ACK
    BY <1>3, <1>6, <2>1 DEF AcksIn
  <2>3. i - Len(toTx) = 1 /\ s # <<>> /\ s[1] = ACK
    BY <1>2, <2>2
  <2>. QED  BY <1>1, <2>1, <2>3
<1>7. CASE AcksIn(t) \subseteq AcksIn(toTx)
  <2>1. AcksIn(t) = AcksIn(toTx)
    BY <1>5, <1>7
  <2>. QED  BY <1>0, <1>3, <1>4, <2>1
<1>8. CASE ~(AcksIn(t) \subseteq AcksIn(toTx))
  <2>1. PICK i \in AcksIn(t) : i \notin AcksIn(toTx)
    BY <1>8
  <2>2. i = Len(toTx) + 1 /\ s # <<>> /\ s[1] = ACK
    BY <1>6, <2>1
  <2>3. AcksIn(t) = AcksIn(toTx) \cup {Len(toTx) + 1}
    BY <1>5, <1>6, <2>1, <2>2
  <2>4. Len(toTx) + 1 <= Len(t)
    <3>1. i \in DOMAIN t
      BY <2>1 DEF AcksIn
    <3>. QED  BY <1>1, <1>3, <2>2, <3>1
  <2>. QED  BY <1>0, <1>3, <1>4, <2>2, <2>3, <2>4
<1>. QED  BY <1>7, <1>8

-----------------------------------------------------------------------------
(***************************************************************************)
(* Steps of lymodem_receive around the loop of lxmodem_receive.            *)
(***************************************************************************)
(* What a step of the receiver leaves alone.                               *)
LEMMA EmitterStays ==
  ASSUME UNCHANGED txVars, UNCHANGED tyVars
  PROVE  /\ txpc' = txpc /\ blkNo' = blkNo /\ blk_buffer' = blk_buffer
         /\ emittedBytes' = emittedBytes
         /\ tyPhase' = tyPhase /\ tyResult' = tyResult
         /\ receivedChar' = receivedChar
         /\ FileSize' = FileSize /\ NbBlocks' = NbBlocks
         /\ defaultBlksize' = defaultBlksize
         /\ isLastBlock' = isLastBlock /\ nbEmitted' = nbEmitted
         /\ BlockOrEot(blk_buffer)' = BlockOrEot(blk_buffer)
<1>1. /\ txpc' = txpc /\ blkNo' = blkNo /\ blk_buffer' = blk_buffer
      /\ emittedBytes' = emittedBytes
      /\ tyPhase' = tyPhase /\ tyResult' = tyResult
      /\ receivedChar' = receivedChar
      /\ txOpts' = txOpts /\ txRam' = txRam
  BY DEF txVars, tyVars
<1>2. /\ FileSize' = FileSize /\ NbBlocks' = NbBlocks
      /\ defaultBlksize' = defaultBlksize
  BY <1>1, FrozenFile, FrozenBlocks
<1>3. isLastBlock' = isLastBlock
  BY <1>1 DEF isLastBlock
<1>. QED  BY <1>1, <1>2, <1>3 DEF nbEmitted, BlockOrEot

(* Outside the loop the receiver stores and reports nothing.               *)
LEMMA RyTimely ==
  ASSUME YWindowInv, YTimelyInv, UNCHANGED txVars, UNCHANGED tyVars,
         rxpc # "header", UNCHANGED <<rxpc, receivedBytes, rxData>>,
         rxRam'.max_size = rxRam.max_size,
         YOneUnderWay', AcksLeft'
  PROVE  YTimelyInv'
<1>1. /\ RxSucceeded' = RxSucceeded /\ Roomy' = Roomy
  BY EmitterStays DEF RxSucceeded, Roomy
<1>2. YFrameIsLastSent' /\ YInStep'
  BY EmitterStays DEF YTimelyInv, YFrameIsLastSent, YInStep
<1>3. YOutcome'
  BY <1>1, EmitterStays DEF YTimelyInv, YOutcome
<1>4. (txpc = "reply" => BlockOrEot(blk_buffer))'
  BY EmitterStays DEF YTimelyInv
<1>. QED  BY <1>2, <1>3, <1>4 DEF YTimelyInv

(* It gives up waiting for a name, having read nothing it can use.         *)
LEMMA NoNameTimely ==
  ASSUME YWindowInv, YTimelyInv, UNCHANGED txVars, UNCHANGED tyVars,
         ryPhase = "name", ryPhase' \in {"repeat", "done"},
         UNCHANGED <<rxpc, receivedBytes, rxData>>,
         rxRam'.max_size = rxRam.max_size,
         \/ AcksIn(toTx') = {}
         \/ AcksIn(toTx') = {1} /\ tyPhase = "name" /\ ryPhase' = "done"
  PROVE  YTimelyInv'
<1>1. rxpc = "idle" /\ Len(rxData) = 0
  BY YSideFacts
<1>2. YOneUnderWay'
  BY <1>1 DEF YOneUnderWay, Listening
<1>3. AcksLeft'
  <2>1. tyPhase # "done" => blkNo = 1
    <3>1. tyPhase # "done" => tyPhase \in {"call", "name"}
      BY DEF YTimelyInv, YOneUnderWay
    <3>. QED  BY <3>1, YSideFacts
  <2>2. rxpc' = "idle" /\ Len(rxData') = 0
    BY <1>1
  <2>3. \A i, j \in AcksIn(toTx') : ~(i < j)
    <3>1. CASE AcksIn(toTx') = {}
      BY <3>1
    <3>2. CASE AcksIn(toTx') = {1}
      BY <3>2
    <3>. QED  BY <3>1, <3>2
  <2>. QED  BY <2>1, <2>2, <2>3, EmitterStays DEF AcksLeft
<1>. QED  BY <1>1, <1>2, <1>3, RyTimely

(* It waits, or stops waiting, when nothing is left to be stored: then     *)
(* only the wait for the next name can acknowledge anything.               *)
LEMMA WaitsTimely ==
  ASSUME YWindowInv, YTimelyInv, UNCHANGED txVars, UNCHANGED tyVars,
         ~Listening, ryPhase # "done", rxpc # "header",
         ryPhase' \in {"repeat", "next", "done"},
         ryPhase' = "next" => rxpc = "done",
         UNCHANGED <<rxpc, receivedBytes, rxData>>,
         rxRam'.max_size = rxRam.max_size,
         \/ AcksIn(toTx') = AcksIn(toTx)
         \/ /\ rxpc = "done" /\ ryPhase' = "done"
            /\ AcksIn(toTx') = AcksIn(toTx) \cup {Len(toTx) + 1}
            /\ Len(toTx') = Len(toTx) + 1
  PROVE  YTimelyInv'
<1>1. ~Listening'
  BY DEF Listening
<1>2. YOneUnderWay'
  BY <1>1 DEF YOneUnderWay
<1>3. AcksLeft'
  <2>. DEFINE acks == AcksIn(toTx)
              at   == blkNo - Len(rxData)
              n    == Len(toTx)
  <2>1. /\ RxSucceeded' = RxSucceeded /\ Roomy' = Roomy
    BY EmitterStays DEF RxSucceeded, Roomy
  <2>2. rxpc = "idle" /\ acks # {} => acks = {1} /\ tyPhase = "name"
    BY DEF YTimelyInv, AcksLeft
  <2>3. Roomy /\ ~RxSucceeded /\ tyPhase # "done" /\ txpc # "done" =>
          at <= 1 /\ (acks # {} => acks = {1} /\ at <= 0)
    BY DEF YTimelyInv, AcksLeft
  <2>4. at \in Int /\ n \in Nat /\ (acks = {1} => 1 <= n)
    <3>1. acks = {1} => 1 \in DOMAIN toTx
      BY DEF AcksIn
    <3>. QED  BY <3>1, YTimelyTypes
  <2>5. blkNo' - Len(rxData') = at /\ txpc' = txpc /\ tyPhase' = tyPhase
    BY EmitterStays
  <2>. HIDE DEF acks, at, n
  <2>6. CASE AcksIn(toTx') = acks
    <3>1. Roomy /\ ~RxSucceeded /\ tyPhase # "done" /\ txpc # "done" =>
            \A i, j \in acks : ~(i < j)
      BY <2>3
    <3>. QED  BY <1>1, <2>1, <2>2, <2>3, <2>4, <2>5, <2>6, <3>1 DEF AcksLeft
  <2>7. CASE /\ rxpc = "done" /\ ryPhase' = "done"
             /\ AcksIn(toTx') = acks \cup {n + 1}
             /\ Len(toTx') = n + 1
    <3>1. ASSUME Roomy, ~RxSucceeded, tyPhase # "done", txpc # "done"
          PROVE  /\ at <= 1
                 /\ \A i, j \in AcksIn(toTx') : i < j =>
                      i = 1 /\ j = Len(toTx') /\ at <= 0
      <4>1. at <= 1 /\ (acks = {} \/ (acks = {1} /\ at <= 0))
        BY <2>3, <3>1
      <4>2. CASE acks = {}
        BY <2>7, <4>1, <4>2, <2>4
      <4>3. CASE acks = {1} /\ at <= 0
        BY <2>7, <4>1, <4>3, <2>4
      <4>. QED  BY <4>1, <4>2, <4>3
    <3>2. rxpc' = "done" /\ ryPhase' = "done"
      BY <2>7
    <3>. QED  BY <1>1, <2>1, <2>4, <2>5, <3>1, <3>2 DEF AcksLeft
  <2>. QED  BY <2>6, <2>7 DEF acks, n
<1>. QED  BY <1>2, <1>3, RyTimely

(* The end of lymodem_receive.                                             *)
LEMMA ReturnEffect ==
  ASSUME YWindowInv, NEW fileData, RyReturn(fileData)
  PROVE  /\ ryPhase' = "done" /\ rxRam'.max_size = rxRam.max_size
         /\ UNCHANGED <<rxpc, expectedBlkNumber, receivedBytes, rxData>>
<1>1. rxRam \in RamFileType
  BY YWindowTypes
<1>2. rxRam' \in {rxRam, [rxRam EXCEPT !.write_offset = fileData.size]}
  BY DEF RyReturn, lmodem_buffer_set_write_offset
<1>3. rxRam'.max_size = rxRam.max_size
  BY <1>1, <1>2 DEF RamFileType
<1>. QED  BY <1>3 DEF RyReturn

(* What the receiver sends when it is not acknowledging anything.          *)
LEMMA NoAckSent ==
  ASSUME YOnTime, YWindowInv, NEW s \in Seq(Byte), PutChars(s),
         \A k \in DOMAIN s : s[k] # ACK
  PROVE  /\ AcksIn(toTx') = AcksIn(toTx)
         /\ Len(toTx') <= Len(toTx) + Len(s)
<1>1. LineTypeOK
  BY YTimelyTypes
<1>2. s # <<>> => 1 \in DOMAIN s
  OBVIOUS
<1>3. ~(s # <<>> /\ s[1] = ACK)
  BY <1>2
<1>. QED  BY <1>1, <1>3, AcksArrive

(* The few sequences it sends.                                             *)
LEMMA SentChars ==
  /\ \A c \in {ACK, NAK, CHR_C} : <<c>> \in Seq(Byte) /\ Len(<<c>>) = 1
  /\ \A c \in {ACK, NAK} :
       <<c, CAN, CAN>> \in Seq(Byte) /\ Len(<<c, CAN, CAN>>) = 3
  /\ <<CAN, CAN>> \in Seq(Byte) /\ {ACK, NAK, CAN} \subseteq Byte
  /\ Preambule \in {NAK, CHR_C}
  /\ \A status : Reply(status) \in {ACK, NAK}
  /\ Reply("OK") = ACK /\ Reply("ERROR") = NAK
  /\ NAK # ACK /\ CAN # ACK /\ CHR_C # ACK /\ NAK # CHR_C
  /\ ACK # CHR_C
BY DEF ACK, NAK, CAN, CHR_C, Byte, Preambule, Reply

LEMMA NoAckIn ==
  /\ \A c \in {NAK, CHR_C} : \A k \in DOMAIN <<c>> : <<c>>[k] # ACK
  /\ \A k \in DOMAIN <<NAK, CAN, CAN>> : <<NAK, CAN, CAN>>[k] # ACK
  /\ \A k \in DOMAIN <<CAN, CAN>> : <<CAN, CAN>>[k] # ACK
  /\ \A k \in DOMAIN <<ACK>> : <<ACK>>[k] = ACK => k = 1
  /\ \A k \in DOMAIN <<ACK, CAN, CAN>> : <<ACK, CAN, CAN>>[k] = ACK => k = 1
BY DEF ACK, NAK, CAN, CHR_C

(* While a name is awaited, nothing else is on the line than the name.     *)
LEMMA AwaitingName ==
  ASSUME YWindowInv, YTimelyInv, ryPhase = "name"
  PROVE  /\ rxpc = "idle" /\ Listening /\ AcksIn(toTx) = {}
         /\ toRx # <<>> =>
              tyPhase = "name" /\ toTx = <<>> /\ Tail(toRx) = <<>>
<1>1. rxpc = "idle" /\ Listening
  BY YSideFacts DEF Listening
<1>2. /\ AcksIn(toTx) = {}
      /\ toRx # <<>> => tyPhase = "name" /\ toTx = <<>> /\ Len(toRx) <= 1
  BY DEF YTimelyInv, YOneUnderWay
<1>3. toRx # <<>> /\ Len(toRx) <= 1 => Tail(toRx) = <<>>
  BY YTimelyTypes
<1>. QED  BY <1>1, <1>2, <1>3

(* A block refused there is not taken for the one before the name.         *)
LEMMA BadNameIsError ==
  ASSUME YWindowInv, YTimelyInv, ryPhase = "name", toRx # <<>>,
         IsBlock(Head(toRx))
  PROVE  lxmodem_check_block_no_and_crc(Head(toRx), 0) \in {"OK", "ERROR"}
<1>. DEFINE f == Head(toRx)
<1>1. /\ toRx \in Seq(Frame) /\ 1 \in DOMAIN toRx /\ f = toRx[1]
  BY YTimelyTypes, TailFrames
<1>2. ~DataSent /\ BlocksInWindow
  BY AwaitingName, YSideFacts DEF CallsInOrder
<1>3. f.seq = 0 /\ f.blk = f.seq % BlkMod
  BY <1>1, <1>2 DEF BlocksInWindow, YWindowInv, BlocksHoldData
<1>4. ASSUME f.blk = (0 - 1) % BlkMod
      PROVE  FALSE
  <2>. DEFINE b == 0 - 1
  <2>1. /\ b \in Int /\ 0 - b = 1 /\ b - 0 = b /\ b < 0
        /\ BlkMod \in Nat \ {0} /\ BlkMod > 1
    BY LModemAssumption
  <2>. HIDE DEF b
  <2>2. 0 % BlkMod = b % BlkMod
    BY <1>3, <1>4 DEF b
  <2>3. 0 - b < BlkMod /\ b - 0 < BlkMod
    BY <2>1
  <2>4. 0 = b
    BY <2>1, <2>2, <2>3, SameByte
  <2>. QED  BY <2>1, <2>4
<1>. QED  BY <1>4 DEF lxmodem_check_block_no_and_crc, NumberedAs

(* A name refused, once or once more.                                      *)
LEMMA RefuseSendsNoAck ==
  ASSUME YOnTime, YWindowInv, NEW status, NEW nth, RyRefuse(status, nth),
         Reply(status) = NAK
  PROVE  /\ AcksIn(toTx') = AcksIn(toTx)
         /\ ryPhase' \in {"repeat", "done"}
         /\ rxRam' = rxRam /\ UNCHANGED <<rxpc, receivedBytes, rxData>>
<1>1. PutChars(<<NAK>>) \/ PutChars(<<NAK, CAN, CAN>>)
  BY DEF RyRefuse
<1>2. AcksIn(toTx') = AcksIn(toTx)
  BY <1>1, SentChars, NoAckIn, NoAckSent
<1>. QED  BY <1>2 DEF RyRefuse, rxVars

LEMMA RyStartTimely ==
  ASSUME YOnTime, YWindowInv, YTimelyInv, UNCHANGED txVars, UNCHANGED tyVars,
         RyStart
  PROVE  YTimelyInv'
<1>1. /\ ryPhase = "start" /\ ryPhase' = "name" /\ toRx' = toRx
      /\ UNCHANGED rxVars /\ PutChars(<<Preambule>>)
  BY DEF RyStart
<1>2. rxpc = "idle" /\ Listening /\ CallsInOrder
  BY <1>1, YSideFacts DEF Listening
<1>3. /\ tyPhase \in {"call", "done"} /\ toTx = <<>> /\ toRx = <<>>
  BY <1>1, <1>2 DEF CallsInOrder, YTimelyInv, YOneUnderWay
<1>4. AcksIn(toTx') = {} /\ Len(toTx') <= 1
  <2>1. AcksIn(toTx) = {} /\ Len(toTx) = 0
    BY <1>3 DEF AcksIn
  <2>2. /\ AcksIn(toTx') = AcksIn(toTx)
        /\ Len(toTx') <= Len(toTx) + Len(<<Preambule>>)
    BY <1>1, SentChars, NoAckIn, NoAckSent
  <2>3. Len(<<Preambule>>) = 1
    BY SentChars
  <2>. QED  BY <2>1, <2>2, <2>3
<1>5. /\ UNCHANGED <<rxpc, receivedBytes, rxData>> /\ rxRam' = rxRam
      /\ rxpc' = "idle"
  BY <1>1, <1>2 DEF rxVars
<1>6. Listening' /\ rxpc' # "header"
  BY <1>1, <1>5 DEF Listening
<1>7. YOneUnderWay'
  <2>1. Listening /\ tyPhase \in {"call", "name"} => receivedChar \notin {ACK, NAK}
    BY DEF YTimelyInv, YOneUnderWay
  <2>. QED  BY <1>1, <1>2, <1>3, <1>4, <1>5, <2>1, EmitterStays
            DEF YOneUnderWay
<1>8. AcksLeft'
  BY <1>5, <1>6 DEF AcksLeft
<1>. QED  BY <1>2, <1>5, <1>7, <1>8, RyTimely

LEMMA RyNameTimely ==
  ASSUME YOnTime, YWindowInv, YTimelyInv, UNCHANGED txVars, UNCHANGED tyVars,
         RyName
  PROVE  YTimelyInv'
<1>1. /\ ryPhase = "name" /\ toRx # <<>> /\ toRx' = Tail(toRx)
      /\ PutChars(<<ACK>>)
  BY SentChars DEF RyName, NameArrived
<1>2. /\ rxpc = "idle" /\ Listening /\ tyPhase = "name"
      /\ toTx = <<>> /\ toRx' = <<>>
  BY <1>1, AwaitingName
<1>3. /\ Len(toTx') <= 1
      /\ AcksIn(toTx') = {} \/ AcksIn(toTx') = {1}
  <2>1. AcksIn(toTx) = {} /\ Len(toTx) = 0
    BY <1>2 DEF AcksIn
  <2>2. LineTypeOK /\ <<ACK>> \in Seq(Byte) /\ Len(<<ACK>>) = 1
    BY YTimelyTypes, SentChars
  <2>3. /\ Len(toTx') <= Len(toTx) + Len(<<ACK>>)
        /\ \/ AcksIn(toTx') = AcksIn(toTx)
           \/ AcksIn(toTx') = AcksIn(toTx) \cup {Len(toTx) + 1}
    BY <1>1, <2>2, NoAckIn, AcksArrive
  <2>. QED  BY <2>1, <2>2, <2>3
<1>4. PICK decoded \in lymodem_decode_block0(Head(toRx).meta) :
        \/ ryPhase' = "contents" /\ UNCHANGED rxVars
        \/ RyReturn(decoded.data)
  BY DEF RyName, RyDecode
<1>5. CASE ryPhase' = "contents" /\ UNCHANGED rxVars
  <2>1. /\ UNCHANGED <<rxpc, receivedBytes, rxData>> /\ rxRam' = rxRam
        /\ rxpc' = "idle"
    BY <1>2, <1>5 DEF rxVars
  <2>2. Listening'
    BY <1>5, <2>1 DEF Listening
  <2>3. YOneUnderWay'
    <3>1. Listening /\ tyPhase \in {"call", "name"} =>
            receivedChar \notin {ACK, NAK}
      BY DEF YTimelyInv, YOneUnderWay
    <3>. QED  BY <1>2, <1>3, <1>5, <2>1, <3>1, EmitterStays DEF YOneUnderWay
  <2>4. AcksLeft'
    BY <2>1, <2>2 DEF AcksLeft
  <2>. QED  BY <1>2, <2>1, <2>3, <2>4, RyTimely
<1>6. CASE RyReturn(decoded.data)
  <2>1. /\ ryPhase' = "done" /\ rxRam'.max_size = rxRam.max_size
        /\ UNCHANGED <<rxpc, receivedBytes, rxData>>
    BY <1>6, ReturnEffect
  <2>. QED  BY <1>1, <1>2, <1>3, <2>1, NoNameTimely
<1>. QED  BY <1>4, <1>5, <1>6

LEMMA RyNoNameTimely ==
  ASSUME YOnTime, YWindowInv, YTimelyInv, UNCHANGED txVars, UNCHANGED tyVars,
         RyNameBad \/ RyNameOther
  PROVE  YTimelyInv'
<1>1. ryPhase = "name" /\ toRx # <<>>
  BY DEF RyNameBad, RyNameOther
<1>2. AcksIn(toTx) = {}
  BY <1>1, AwaitingName
<1>3. CASE RyNameBad
  <2>1. PICK status \in {"OK", "PREVIOUS_BLOCK", "ERROR"} :
          /\ status = lxmodem_check_block_no_and_crc(Head(toRx), 0)
          /\ IsBlock(Head(toRx))
          /\ status # "OK" /\ RyRefuse(status, 1)
    BY <1>3 DEF RyNameBad, lxmodem_check_block_no_and_crc
  <2>2. status = "ERROR"
    BY <1>1, <2>1, BadNameIsError
  <2>3. Reply(status) = NAK
    BY <2>2, SentChars
  <2>4. /\ AcksIn(toTx') = {} /\ ryPhase' \in {"repeat", "done"}
        /\ rxRam' = rxRam /\ UNCHANGED <<rxpc, receivedBytes, rxData>>
    BY <1>2, <2>1, <2>3, RefuseSendsNoAck
  <2>. QED  BY <1>1, <2>4, NoNameTimely
<1>4. CASE RyNameOther
  <2>1. toTx' = toTx /\ RyReturn(rxFileData)
    BY <1>4 DEF RyNameOther
  <2>2. /\ ryPhase' = "done" /\ rxRam'.max_size = rxRam.max_size
        /\ UNCHANGED <<rxpc, receivedBytes, rxData>>
    BY <2>1, ReturnEffect
  <2>. QED  BY <1>1, <1>2, <2>1, <2>2, NoNameTimely
<1>. QED  BY <1>3, <1>4

(* A step that only counts.                                                *)
LEMMA YTimelyStutter ==
  ASSUME YWindowInv, YTimelyInv,
         UNCHANGED <<toRx, toTx, txpc, blkNo, emittedBytes, txRam, blk_buffer,
                     txOpts, rxpc, receivedBytes, rxRam, rxData,
                     expectedBlkNumber, ryPhase, tyPhase, tyResult>>,
         receivedChar' = receivedChar
  PROVE  YTimelyInv'
<1>1. /\ FileSize' = FileSize /\ NbBlocks' = NbBlocks
      /\ defaultBlksize' = defaultBlksize
  BY FrozenFile, FrozenBlocks
<1>2. /\ isLastBlock' = isLastBlock /\ RxSucceeded' = RxSucceeded
      /\ Listening' = Listening /\ Roomy' = Roomy
      /\ AcksIn(toTx') = AcksIn(toTx)
  BY <1>1 DEF isLastBlock, RxSucceeded, Listening, Roomy
<1>3. nbEmitted' = nbEmitted /\ BlockOrEot(blk_buffer)' = BlockOrEot(blk_buffer)
  BY <1>1, <1>2 DEF nbEmitted, BlockOrEot
<1>4. YOneUnderWay'
  BY <1>2 DEF YTimelyInv, YOneUnderWay
<1>5. YFrameIsLastSent'
  BY DEF YTimelyInv, YFrameIsLastSent
<1>6. YInStep'
  BY <1>1, <1>3 DEF YTimelyInv, YInStep
<1>7. AcksLeft'
  BY <1>2 DEF YTimelyInv, AcksLeft
<1>8. YOutcome'
  BY <1>1, <1>2 DEF YTimelyInv, YOutcome
<1>. QED  BY <1>3, <1>4, <1>5, <1>6, <1>7, <1>8 DEF YTimelyInv

LEMMA RyTimeoutsTimely ==
  ASSUME YOnTime, YWindowInv, YTimelyInv, UNCHANGED txVars, UNCHANGED tyVars,
         RyTimeouts
  PROVE  YTimelyInv'
<1>1. toRx' = toRx /\ toTx' = toTx
  BY DEF RyTimeouts, RyNameTimeout, RyRepeatTimeout, RyNextTimeout, lineVars
<1>2. CASE UNCHANGED <<ryPhase, rxVars>>
  BY <1>1, <1>2, YTimelyStutter DEF txVars, rxVars, tyVars
<1>3. CASE RyReturn(rxFileData) /\ ryPhase \in {"name", "next"}
  <2>1. /\ ryPhase' = "done" /\ rxRam'.max_size = rxRam.max_size
        /\ UNCHANGED <<rxpc, receivedBytes, rxData>>
    BY <1>3, ReturnEffect
  <2>2. CASE ryPhase = "name"
    BY <1>1, <2>1, <2>2, AwaitingName, NoNameTimely
  <2>3. CASE ryPhase = "next"
    <3>1. ~Listening /\ rxpc # "header"
      BY <2>3 DEF Listening, YTimelyInv, YOneUnderWay
    <3>. QED  BY <1>1, <2>1, <2>3, <3>1, WaitsTimely
  <2>. QED  BY <1>3, <2>2, <2>3
<1>. QED  BY <1>2, <1>3
          DEF RyTimeouts, RyNameTimeout, RyRepeatTimeout, RyNextTimeout,
              ryVars

LEMMA RyRepeatTimely ==
  ASSUME YOnTime, YWindowInv, YTimelyInv, UNCHANGED txVars, UNCHANGED tyVars,
         RyRepeat
  PROVE  YTimelyInv'
<1>1. /\ ryPhase = "repeat" /\ ~Listening /\ rxpc # "header"
  BY YSideFacts DEF RyRepeat, Listening
<1>2. /\ AcksIn(toTx') = AcksIn(toTx) /\ ryPhase' \in {"repeat", "done"}
      /\ rxRam' = rxRam /\ UNCHANGED <<rxpc, receivedBytes, rxData>>
  <2>1. CASE RyRefuse("ERROR", ryCount + 1)
    BY <2>1, SentChars, RefuseSendsNoAck
  <2>2. CASE UNCHANGED <<toTx, rxVars, ryVars>>
    BY <1>1, <2>2 DEF rxVars, ryVars
  <2>. QED  BY <2>1, <2>2 DEF RyRepeat
<1>. QED  BY <1>1, <1>2, WaitsTimely

LEMMA RyNextFileTimely ==
  ASSUME YOnTime, YWindowInv, YTimelyInv, UNCHANGED txVars, UNCHANGED tyVars,
         RyNextFile
  PROVE  YTimelyInv'
<1>1. /\ ryPhase = "contents" /\ rxpc = "done" /\ ryPhase' = "next"
      /\ PutChars(<<Preambule>>) /\ UNCHANGED rxVars
  BY DEF RyNextFile
<1>2. AcksIn(toTx') = AcksIn(toTx)
  BY <1>1, SentChars, NoAckIn, NoAckSent
<1>3. ~Listening
  BY <1>1 DEF Listening
<1>. QED  BY <1>1, <1>2, <1>3, WaitsTimely DEF rxVars

(* The wait for the next name ends, with the one ACK that the emitter may  *)
(* take for the reply to its EOT.                                          *)
LEMMA RyBlockNextFileTimely ==
  ASSUME YOnTime, YWindowInv, YTimelyInv, UNCHANGED txVars, UNCHANGED tyVars,
         RyBlockNextFile
  PROVE  YTimelyInv'
<1>1. /\ ryPhase = "next" /\ RyReturn(rxFileData)
      /\ PutChars(<<ACK>>) \/ PutChars(<<CAN, CAN>>)
  BY SentChars DEF RyBlockNextFile
<1>2. /\ ryPhase' = "done" /\ rxRam'.max_size = rxRam.max_size
      /\ UNCHANGED <<rxpc, receivedBytes, rxData>>
  BY <1>1, ReturnEffect
<1>3. ~Listening /\ rxpc = "done"
  BY <1>1 DEF Listening, YTimelyInv, YOneUnderWay
<1>4. \/ AcksIn(toTx') = AcksIn(toTx)
      \/ /\ AcksIn(toTx') = AcksIn(toTx) \cup {Len(toTx) + 1}
         /\ Len(toTx') = Len(toTx) + 1
  <2>1. CASE PutChars(<<ACK>>)
    <3>1. LineTypeOK /\ <<ACK>> \in Seq(Byte) /\ Len(<<ACK>>) = 1
      BY YTimelyTypes, SentChars
    <3>2. /\ Len(toTx') <= Len(toTx) + Len(<<ACK>>) /\ Len(toTx') \in Nat
          /\ \/ AcksIn(toTx') = AcksIn(toTx)
             \/ /\ AcksIn(toTx') = AcksIn(toTx) \cup {Len(toTx) + 1}
                /\ Len(toTx) + 1 <= Len(toTx')
      BY <2>1, <3>1, NoAckIn, AcksArrive
    <3>3. Len(toTx) \in Nat
      BY YTimelyTypes
    <3>. QED  BY <3>1, <3>2, <3>3
  <2>2. CASE PutChars(<<CAN, CAN>>)
    BY <2>2, SentChars, NoAckIn, NoAckSent
  <2>. QED  BY <1>1, <2>1, <2>2
<1>. QED  BY <1>1, <1>2, <1>3, <1>4, WaitsTimely

-----------------------------------------------------------------------------
(***************************************************************************)
(* Steps of the loop of lxmodem_receive.                                   *)
(***************************************************************************)
(* Nothing is on its way to a running emitter while its receiver acts.     *)
LEMMA YReceiversTurn ==
  ASSUME YWindowInv, YTimelyInv, rxpc = "header", toRx # <<>> \/ toTx = <<>>,
         tyPhase # "done", txpc # "done"
  PROVE  /\ toTx = <<>>
         /\ toRx # <<>> => txpc = "reply" /\ Tail(toRx) = <<>>
         /\ txpc = "preambule" => blkNo = 1 /\ toRx = <<>>
<1>1. /\ toTx \in Seq(Byte) /\ toRx \in Seq(Frame)
      /\ Len(toTx) \in Nat /\ Len(toRx) \in Nat
      /\ txpc \in {"preambule", "reply"}
      /\ tyPhase \in {"call", "name", "contents", "next", "batch"}
  BY YTimelyTypes
<1>2. CASE txpc = "reply"
  <2>1. Len(toRx) + Len(toTx) <= 1
    BY <1>2 DEF YTimelyInv, YOneUnderWay
  <2>. QED  BY <1>1, <1>2, <2>1
<1>3. CASE txpc = "preambule"
  <2>1. tyPhase \in {"name", "contents"}
    BY <1>1, <1>3 DEF YTimelyInv, YOneUnderWay, YOutcome
  <2>2. toRx = <<>>
    BY <1>3, <2>1 DEF YTimelyInv, YOneUnderWay
  <2>. QED  BY <1>3, <2>2, YSideFacts
<1>. QED  BY <1>1, <1>2, <1>3

(* What the receiver sends after a read leaves one reply under way; and    *)
(* the reply is right about the frame sent last.                           *)
LEMMA YReceiverReplies ==
  ASSUME YOnTime, YWindowInv, YTimelyInv, UNCHANGED txVars, UNCHANGED tyVars,
         UNCHANGED ryVars, rxpc = "header", rxpc' \in {"header", "done"},
         NEW s \in Seq(Byte), PutChars(s),
         \/ /\ toRx # <<>> /\ toRx' = Tail(toRx)
            /\ rxpc' = "header" => Len(s) <= 1
         \/ /\ toRx = <<>> /\ toRx' = toRx
            /\ toTx = <<>> \/ tyPhase = "done"
            /\ rxpc' = "header" => s = <<>>,
         rxRam'.max_size = rxRam.max_size, Len(rxData') \in Nat,
         \A k \in DOMAIN s : s[k] = ACK => k = 1,
         tyPhase # "done" /\ txpc # "done" /\ (\E k \in DOMAIN s : s[k] = ACK) =>
           /\ \/ RxSucceeded' \/ ~Roomy \/ rxpc' # "done"
              \/ blkNo <= Len(rxData')
           /\ rxpc' = "header" =>
                IsBlock(blk_buffer) /\ blkNo = expectedBlkNumber' - 1,
         Roomy /\ rxpc' = "done" /\ ~RxSucceeded' /\ txpc = "reply" =>
           blkNo <= Len(rxData') + 1
  PROVE  YOneUnderWay' /\ YFrameIsLastSent' /\ AcksLeft'
<1>1. /\ toTx \in Seq(Byte) /\ toRx \in Seq(Frame) /\ LineTypeOK
      /\ txpc \in {"preambule", "reply", "done"} /\ blkNo \in Nat
  BY YTimelyTypes
<1>2. /\ ryPhase = "contents" /\ ryPhase' = "contents" /\ Listening
      /\ tyPhase # "call"
  BY YLoopFacts DEF ryVars
<1>3. /\ toTx' \in Seq(Byte) /\ Len(toTx') <= Len(toTx) + Len(s)
      /\ Len(toTx') \in Nat
      /\ \/ AcksIn(toTx') = AcksIn(toTx)
         \/ /\ s # <<>> /\ s[1] = ACK
            /\ AcksIn(toTx') = AcksIn(toTx) \cup {Len(toTx) + 1}
      /\ s = <<>> => toTx' = toTx
  BY <1>1, AcksArrive
<1>4. tyPhase # "done" /\ txpc # "done" /\ s # <<>> /\ s[1] = ACK =>
        /\ \/ RxSucceeded' \/ ~Roomy \/ rxpc' # "done"
           \/ blkNo <= Len(rxData')
        /\ rxpc' = "header" =>
             IsBlock(blk_buffer) /\ blkNo = expectedBlkNumber' - 1
  <2>1. s # <<>> => 1 \in DOMAIN s
    OBVIOUS
  <2>. QED  BY <2>1
<1>5. ASSUME tyPhase # "done", txpc # "done"
      PROVE  /\ toRx' = <<>> /\ Len(toRx') = 0
             /\ Len(toTx') <= Len(s)
             /\ toRx = <<>> /\ rxpc' = "header" => toTx' = <<>>
             /\ txpc = "preambule" => blkNo = 1 /\ toRx = <<>>
             /\ \/ AcksIn(toTx') = {}
                \/ s # <<>> /\ s[1] = ACK /\ AcksIn(toTx') = {1}
  <2>1. toRx # <<>> \/ toTx = <<>>
    BY <1>5
  <2>2. /\ toTx = <<>>
        /\ toRx # <<>> => txpc = "reply" /\ Tail(toRx) = <<>>
        /\ txpc = "preambule" => blkNo = 1 /\ toRx = <<>>
    BY <1>5, <2>1, YReceiversTurn
  <2>3. AcksIn(toTx) = {} /\ Len(toTx) = 0
    BY <2>2 DEF AcksIn
  <2>4. toRx' = <<>>
    <3>1. CASE toRx # <<>> /\ toRx' = Tail(toRx)
      BY <2>2, <3>1
    <3>2. CASE toRx = <<>> /\ toRx' = toRx
      BY <3>2
    <3>. QED  BY <3>1, <3>2
  <2>5. toRx = <<>> /\ rxpc' = "header" => toTx' = <<>>
    BY <1>3, <2>2
  <2>6. Len(toTx') <= Len(s)
    BY <1>3, <2>3
  <2>. QED  BY <1>3, <2>2, <2>3, <2>4, <2>5, <2>6
<1>6. YOneUnderWay'
  <2>1. ASSUME rxpc' = "header", tyPhase = "name"
        PROVE  toRx' = <<>> /\ toTx' = <<>>
    <3>1. txpc = "preambule"
      BY <2>1, YSideFacts
    <3>. QED  BY <1>5, <2>1, <3>1
  <2>2. ASSUME rxpc' = "header", txpc # "done", tyPhase = "contents"
        PROVE  toRx' = <<>> /\ Len(toRx') + Len(toTx') <= 1 /\ Len(toTx') <= 1
    <3>1. CASE Len(s) <= 1
      <4>1. Len(s) \in Nat
        OBVIOUS
      <4>. QED  BY <1>3, <1>5, <2>2, <3>1, <4>1
    <3>2. CASE s = <<>>
      <4>1. Len(s) = 0
        BY <3>2
      <4>. QED  BY <1>3, <1>5, <2>2, <4>1
    <3>. QED  BY <2>2, <3>1, <3>2
  <2>3. txpc = "reply" => tyPhase = "contents"
    BY YSideFacts
  <2>4. toTx' = <<>> =>
          Len(toTx') <= 2 /\ \A i \in DOMAIN toTx' : toTx'[i] # NAK
    OBVIOUS
  <2>5. tyPhase \in {"call", "name"} => receivedChar \notin {ACK, NAK}
    BY <1>2 DEF YTimelyInv, YOneUnderWay
  <2>. QED  BY <1>2, <2>1, <2>2, <2>3, <2>4, <2>5, EmitterStays
            DEF YOneUnderWay
<1>7. YFrameIsLastSent'
  <2>1. \A i \in DOMAIN toRx' : \E j \in DOMAIN toRx : toRx'[i] = toRx[j]
    <3>1. CASE toRx # <<>> /\ toRx' = Tail(toRx)
      BY <1>1, <3>1, TailFrames
    <3>2. CASE toRx' = toRx
      BY <3>2
    <3>. QED  BY <3>1, <3>2
  <2>. QED  BY <2>1, EmitterStays DEF YTimelyInv, YFrameIsLastSent
<1>8. AcksLeft'
  <2>1. Roomy' = Roomy
    BY EmitterStays DEF Roomy
  <2>2. ASSUME rxpc' = "header", txpc = "reply", AcksIn(toTx') # {}
        PROVE  IsBlock(blk_buffer) /\ blkNo = expectedBlkNumber' - 1
    <3>1. tyPhase # "done"
      BY <2>2, YSideFacts
    <3>. QED  BY <1>4, <1>5, <2>2, <3>1
  <2>3. ASSUME Roomy, ~Listening', ~RxSucceeded', tyPhase # "done",
               txpc # "done"
        PROVE  /\ blkNo - Len(rxData') <= 1
               /\ AcksIn(toTx') # {} =>
                    AcksIn(toTx') = {1} /\ blkNo - Len(rxData') <= 0
    <3>1. rxpc' = "done"
      BY <1>2, <2>3 DEF Listening
    <3>2. blkNo <= Len(rxData') + 1
      BY <1>1, <1>5, <2>3, <3>1
    <3>3. AcksIn(toTx') # {} => AcksIn(toTx') = {1} /\ blkNo <= Len(rxData')
      BY <1>4, <1>5, <2>3, <3>1
    <3>. QED  BY <1>1, <3>2, <3>3
  <2>. QED  BY <1>2, <2>1, <2>2, <2>3, EmitterStays DEF AcksLeft, IsBlock
<1>. QED  BY <1>6, <1>7, <1>8

(* A step of the loop: what the receiver reports.                          *)
LEMMA LoopTimely ==
  ASSUME YWindowInv, YTimelyInv, UNCHANGED txVars, UNCHANGED tyVars,
         rxpc # "done", rxRam'.max_size = rxRam.max_size,
         YOneUnderWay', YFrameIsLastSent', AcksLeft', YInStep',
         Len(rxData') <= NbBlocks,
         RxSucceeded' =>
           /\ Len(rxData') = NbBlocks
           /\ txpc = "reply" => isLastBlock
           /\ txpc # "preambule"
           /\ emittedBytes \in {receivedBytes', -1}
  PROVE  YTimelyInv'
<1>1. Roomy' = Roomy
  BY EmitterStays DEF Roomy
<1>2. ~(Roomy /\ txpc = "done" /\ emittedBytes > 0)
  BY DEF YTimelyInv, YOutcome
<1>3. YOutcome'
  BY <1>1, <1>2, EmitterStays DEF YTimelyInv, YOutcome
<1>4. (txpc = "reply" => BlockOrEot(blk_buffer))'
  BY EmitterStays DEF YTimelyInv
<1>. QED  BY <1>3, <1>4 DEF YTimelyInv

(* The replies of the receiver: at most the first of them is an ACK.       *)
LEMMA YReplyShapes ==
  ASSUME NEW reply \in {<<>>, <<ACK>>, <<NAK>>},
         NEW more \in {<<>>, <<CAN, CAN>>}
  PROVE  /\ reply \o more \in Seq(Byte)
         /\ more = <<>> => reply \o more = reply /\ Len(reply \o more) <= 1
         /\ \A k \in DOMAIN (reply \o more) :
              (reply \o more)[k] = ACK => k = 1 /\ reply = <<ACK>>
<1>. DEFINE u == reply \o more
<1>1. /\ ACK \in Byte /\ NAK \in Byte /\ CAN \in Byte
      /\ NAK # ACK /\ CAN # ACK
  BY DEF ACK, NAK, CAN, Byte
<1>2. /\ reply \in Seq(Byte) /\ Len(reply) \in {0, 1}
      /\ \A k \in 1 .. Len(reply) : reply[k] = ACK => reply = <<ACK>>
  <2>1. CASE reply = <<>>
    BY <2>1
  <2>2. CASE reply = <<ACK>>
    BY <1>1, <2>2
  <2>3. CASE reply = <<NAK>>
    BY <1>1, <2>3
  <2>. QED  BY <2>1, <2>2, <2>3
<1>3. /\ more \in Seq(Byte) /\ Len(more) \in {0, 2}
      /\ \A k \in 1 .. Len(more) : more[k] # ACK
      /\ more = <<>> => Len(more) = 0
  <2>1. CASE more = <<>>
    BY <2>1
  <2>2. CASE more = <<CAN, CAN>>
    BY <1>1, <2>2
  <2>. QED  BY <2>1, <2>2
<1>4. /\ u \in Seq(Byte) /\ Len(u) = Len(reply) + Len(more)
      /\ DOMAIN u = 1 .. Len(u)
      /\ \A i \in 1 .. Len(reply) + Len(more) :
           u[i] = IF i <= Len(reply) THEN reply[i] ELSE more[i - Len(reply)]
  BY <1>2, <1>3, ConcatProperties
<1>. HIDE DEF u
<1>5. ASSUME NEW k \in DOMAIN u, u[k] = ACK
      PROVE  k = 1 /\ reply = <<ACK>>
  <2>1. k \in 1 .. Len(reply) + Len(more)
    BY <1>4
  <2>2. CASE k <= Len(reply)
    <3>1. k \in 1 .. Len(reply) /\ reply[k] = ACK
      BY <1>2, <1>4, <1>5, <2>1, <2>2
    <3>. QED  BY <3>1, <1>2
  <2>3. CASE ~(k <= Len(reply))
    <3>1. k - Len(reply) \in 1 .. Len(more)
      BY <1>2, <1>3, <2>1, <2>3
    <3>2. more[k - Len(reply)] = ACK
      BY <1>4, <1>5, <2>1, <2>3
    <3>. QED  BY <3>1, <3>2, <1>3
  <2>. QED  BY <2>2, <2>3
<1>6. more = <<>> => Len(u) <= 1
  BY <1>2, <1>3, <1>4
<1>. QED  BY <1>4, <1>5, <1>6 DEF u

(* An error of the receiver, with or without the end of its call.          *)
LEMMA YRxErrorTimely ==
  ASSUME YOnTime, YWindowInv, YTimelyInv, UNCHANGED txVars, UNCHANGED tyVars,
         UNCHANGED ryVars, rxpc = "header",
         NEW reply \in {<<>>, <<ACK>>, <<NAK>>}, NEW cancelled \in BOOLEAN,
         \/ toRx # <<>> /\ toRx' = Tail(toRx)
         \/ /\ toRx = <<>> /\ toRx' = toRx /\ reply = <<>>
            /\ toTx = <<>> \/ tyPhase = "done",
         RxError(reply, cancelled),
         UNCHANGED <<expectedBlkNumber, rxRam, rxData>>,
         tyPhase # "done" /\ txpc # "done" /\ reply = <<ACK>> =>
           txpc = "reply" /\ IsBlock(blk_buffer) /\ blkNo = expectedBlkNumber - 1
  PROVE  YTimelyInv'
<1>. DEFINE more == IF nbRetry + 1 >= MaxRetry THEN <<CAN, CAN>> ELSE <<>>
            s    == reply \o more
<1>1. /\ PutChars(s)
      /\ \/ rxpc' = "done" /\ receivedBytes' = -1
         \/ rxpc' = "header" /\ receivedBytes' = receivedBytes /\ more = <<>>
  BY DEF RxError
<1>2. more \in {<<>>, <<CAN, CAN>>}
  OBVIOUS
<1>. HIDE DEF more
<1>3. /\ s \in Seq(Byte)
      /\ more = <<>> => s = reply /\ Len(s) <= 1
      /\ \A k \in DOMAIN s : s[k] = ACK => k = 1 /\ reply = <<ACK>>
  BY <1>2, YReplyShapes
<1>. HIDE DEF s
<1>4. /\ ~RxSucceeded /\ ~RxSucceeded'
      /\ Len(rxData) = expectedBlkNumber - 1 /\ Len(rxData) \in Nat
      /\ blkNo \in Nat /\ expectedBlkNumber \in Nat
  BY <1>1, YLoopFacts, YTimelyTypes DEF RxSucceeded
<1>5. txpc = "reply" => blkNo <= Len(rxData) + 1
  BY <1>4 DEF YTimelyInv, YInStep
<1>6. YOneUnderWay' /\ YFrameIsLastSent' /\ AcksLeft'
  <2>1. tyPhase # "done" /\ txpc # "done" /\ (\E k \in DOMAIN s : s[k] = ACK) =>
          /\ blkNo <= Len(rxData')
          /\ IsBlock(blk_buffer) /\ blkNo = expectedBlkNumber' - 1
    BY <1>3, <1>4
  <2>2. rxpc' = "header" => Len(s) <= 1 /\ s = reply
    BY <1>1, <1>3
  <2>3. rxpc' \in {"header", "done"} /\ Len(rxData') \in Nat
    BY <1>1, <1>4
  <2>. QED  BY <1>1, <1>3, <1>5, <2>1, <2>2, <2>3, YReceiverReplies
<1>7. YInStep'
  BY <1>1, EmitterStays DEF YTimelyInv, YInStep
<1>8. Len(rxData') <= NbBlocks
  BY DEF YTimelyInv, YOutcome
<1>. QED  BY <1>4, <1>6, <1>7, <1>8, LoopTimely

(* The frame a running receiver takes for a data block, or for the end, is *)
(* the frame sent last.                                                    *)
LEMMA YHeadIsLastSent ==
  ASSUME YWindowInv, YTimelyInv, Reading, IsNumbered(Head(toRx)),
         IsBlock(Head(toRx)) => Head(toRx).seq > 0
  PROVE  /\ rxpc = "header" /\ txpc = "reply" /\ toRx # <<>>
         /\ Head(toRx).seq = blkNo /\ Head(toRx).hdr = blk_buffer.hdr
         /\ BlockOrEot(blk_buffer) /\ blk_buffer.seq = blkNo
         /\ \/ blkNo = expectedBlkNumber /\ emittedBytes = rxRam.write_offset
            \/ /\ blkNo = expectedBlkNumber - 1
               /\ emittedBytes + nbEmitted = rxRam.write_offset
<1>1. /\ rxpc = "header" /\ toRx # <<>> /\ toRx \in Seq(Frame)
      /\ 1 \in DOMAIN toRx /\ Head(toRx) = toRx[1]
      /\ Head(toRx).seq \in Nat
  BY YTimelyTypes, FrameTypes, TailFrames DEF Reading
<1>2. IF txpc = "reply"
      THEN Head(toRx).seq = blkNo /\ Head(toRx).hdr = blk_buffer.hdr
      ELSE IsBlock(Head(toRx)) /\ Head(toRx).seq = 0
  BY <1>1 DEF YTimelyInv, YFrameIsLastSent
<1>3. txpc = "reply"
  BY <1>1, <1>2
<1>. QED  BY <1>1, <1>2, <1>3, YSideFacts DEF YTimelyInv, YInStep

(* A block recognised as repeated is the block stored last; what comes     *)
(* after the emitter's end may be a name.                                  *)
LEMMA YRepeatedIsStored ==
  ASSUME YWindowInv, YTimelyInv, BlockArrived,
         RxStatus(Head(toRx)) = "PREVIOUS_BLOCK",
         tyPhase # "done", txpc # "done"
  PROVE  txpc = "reply" /\ IsBlock(blk_buffer) /\ blkNo = expectedBlkNumber - 1
<1>. DEFINE f == Head(toRx)
<1>1. /\ Reading /\ f.hdr \in {SOH, STX} /\ rxpc = "header" /\ toRx # <<>>
  BY DEF BlockArrived, Reading
<1>2. /\ toRx \in Seq(Frame) /\ 1 \in DOMAIN toRx /\ f = toRx[1]
      /\ blkNo \in Nat \ {0} /\ expectedBlkNumber \in Nat \ {0}
  BY <1>1, YTimelyTypes, TailFrames
<1>3. txpc = "reply"
  BY <1>1, YReceiversTurn
<1>4. f.seq = blkNo
  BY <1>1, <1>2, <1>3 DEF YTimelyInv, YFrameIsLastSent, IsNumbered
<1>5. /\ f.hdr = blk_buffer.hdr
      /\ blkNo \in {expectedBlkNumber, expectedBlkNumber - 1}
  <2>1. IsNumbered(f) /\ (IsBlock(f) => f.seq > 0)
    BY <1>1, <1>2, <1>4 DEF IsNumbered
  <2>. QED  BY <1>1, <2>1, YHeadIsLastSent
<1>6. f.blk = (expectedBlkNumber - 1) % BlkMod
  BY DEF RxStatus, lxmodem_check_block_no_and_crc, NumberedAs
<1>7. f.blk = blkNo % BlkMod
  <2>1. f.blk = f.seq % BlkMod
    BY <1>1, <1>2 DEF YWindowInv, BlocksHoldData, IsBlock
  <2>. QED  BY <1>4, <2>1
<1>8. blkNo = expectedBlkNumber - 1
  <2>1. blkNo \in Int /\ expectedBlkNumber \in Int /\ BlkMod \in Nat \ {0, 1}
    BY <1>2, LModemAssumption
  <2>. DEFINE last == expectedBlkNumber - 1
  <2>2. blkNo % BlkMod = last % BlkMod
    BY <1>6, <1>7
  <2>3. /\ last \in Int /\ blkNo - last < BlkMod /\ last - blkNo < BlkMod
        /\ BlkMod \in Nat \ {0}
    BY <1>5, <2>1
  <2>. HIDE DEF last
  <2>4. blkNo = last
    BY <2>1, <2>2, <2>3, SameByte
  <2>. QED  BY <2>4 DEF last
<1>. QED  BY <1>1, <1>3, <1>5, <1>8 DEF IsBlock

(* Refusing a block or a character, and waiting in vain for one.           *)
LEMMA YRxErrorsTimely ==
  ASSUME YOnTime, YWindowInv, YTimelyInv, UNCHANGED txVars, UNCHANGED tyVars,
         UNCHANGED ryVars,
         RxRefuse \/ RxCan \/ RxUnknown \/ (YRxSilence /\ RxTimeout)
  PROVE  YTimelyInv'
<1>1. CASE RxRefuse
  <2>. DEFINE reply == <<Reply(RxStatus(Head(toRx)))>>
  <2>1. /\ rxpc = "header" /\ toRx # <<>> /\ toRx' = Tail(toRx)
        /\ RxError(reply, FALSE)
        /\ UNCHANGED <<expectedBlkNumber, rxRam, rxData>>
    BY <1>1 DEF RxRefuse, BlockArrived, Reading
  <2>2. reply \in {<<>>, <<ACK>>, <<NAK>>}
    BY DEF Reply
  <2>3. reply = <<ACK>> => RxStatus(Head(toRx)) = "PREVIOUS_BLOCK"
    BY <1>1 DEF RxRefuse, Reply, ACK, NAK
  <2>. HIDE DEF reply
  <2>4. tyPhase # "done" /\ txpc # "done" /\ reply = <<ACK>> =>
          txpc = "reply" /\ IsBlock(blk_buffer) /\ blkNo = expectedBlkNumber - 1
    BY <1>1, <2>3, YRepeatedIsStored DEF RxRefuse
  <2>. QED  BY <2>1, <2>2, <2>4, YRxErrorTimely
<1>2. ASSUME RxCan \/ RxUnknown
      PROVE  YTimelyInv'
  <2>1. PICK cancelled \in BOOLEAN :
          /\ rxpc = "header" /\ toRx # <<>> /\ toRx' = Tail(toRx)
          /\ RxError(<<Reply("ERROR")>>, cancelled)
          /\ UNCHANGED <<expectedBlkNumber, rxRam, rxData>>
    <3>1. CASE RxCan
      <4>. DEFINE twice == canCharReceived + 1 >= 2
      <4>1. /\ rxpc = "header" /\ toRx # <<>> /\ toRx' = Tail(toRx)
            /\ RxError(<<Reply("ERROR")>>, twice)
            /\ UNCHANGED <<expectedBlkNumber, rxRam, rxData>>
        BY <3>1 DEF RxCan, Reading
      <4>2. twice \in BOOLEAN
        OBVIOUS
      <4>. HIDE DEF twice
      <4>. QED  BY <4>1, <4>2
    <3>2. CASE RxUnknown
      <4>1. FALSE \in BOOLEAN
        OBVIOUS
      <4>. QED  BY <3>2, <4>1 DEF RxUnknown, Reading
    <3>. QED  BY <1>2, <3>1, <3>2
  <2>2. /\ <<Reply("ERROR")>> \in {<<>>, <<ACK>>, <<NAK>>}
        /\ <<Reply("ERROR")>> # <<ACK>>
    BY DEF Reply, ACK, NAK
  <2>. QED  BY <2>1, <2>2, YRxErrorTimely
<1>3. CASE YRxSilence /\ RxTimeout
  <2>1. /\ rxpc = "header" /\ toRx = <<>> /\ toRx' = toRx
        /\ RxError(<<>>, FALSE)
        /\ UNCHANGED <<expectedBlkNumber, rxRam, rxData>>
    BY <1>3 DEF RxTimeout
  <2>2. toTx = <<>> \/ tyPhase = "done"
    BY <1>3 DEF YRxSilence, YOnTime
  <2>3. <<>> \in {<<>>, <<ACK>>, <<NAK>>} /\ <<>> # <<ACK>>
    OBVIOUS
  <2>. QED  BY <2>1, <2>2, <2>3, YRxErrorTimely
<1>. QED  BY <1>1, <1>2, <1>3

(* The loop opens with another C, that may follow the reply to the name.   *)
LEMMA YRxStartTimely ==
  ASSUME YOnTime, YWindowInv, YTimelyInv, UNCHANGED txVars, UNCHANGED tyVars,
         UNCHANGED ryVars, ryPhase = "contents", RxStart
  PROVE  YTimelyInv'
<1>1. /\ rxpc = "idle" /\ rxpc' = "header" /\ toRx' = toRx
      /\ PutChars(<<Preambule>>) /\ receivedBytes' = 0
      /\ rxRam' = rxRam /\ rxData' = rxData /\ expectedBlkNumber' = 1
  BY DEF RxStart
<1>2. /\ Listening /\ CallsInOrder /\ Listening' /\ ryPhase' = "contents"
      /\ Len(rxData) = 0 /\ rxRam.write_offset = 0 /\ rxRam \in RamFileType
  <2>1. Listening /\ Listening' /\ ryPhase' = "contents"
    BY <1>1 DEF Listening, ryVars
  <2>. QED  BY <1>1, <2>1, YSideFacts, YTimelyTypes
<1>3. /\ tyPhase \in {"name", "contents", "done"} /\ toRx = <<>>
      /\ tyPhase = "name" => Len(toTx) <= 1
      /\ tyPhase = "contents" => toTx = <<>> /\ txpc = "preambule"
      /\ receivedChar \notin {ACK, NAK} \/ tyPhase # "name"
  BY <1>1, <1>2 DEF YTimelyInv, YOneUnderWay
<1>4. txpc # "reply"
  BY <1>3, YSideFacts
<1>5. /\ toTx' \in Seq(Byte) /\ Len(toTx') <= Len(toTx) + 1
      /\ Len(toTx') \in Nat /\ Len(toTx) \in Nat
  <2>1. LineTypeOK /\ Preambule \in {NAK, CHR_C}
    BY YTimelyTypes, SentChars
  <2>2. <<Preambule>> \in Seq(Byte) /\ Len(<<Preambule>>) = 1
    BY SentChars
  <2>3. \A k \in DOMAIN <<Preambule>> : <<Preambule>>[k] = ACK => k = 1
    BY <2>1, NoAckIn
  <2>. QED  BY <1>1, <2>1, <2>2, <2>3, AcksArrive, YTimelyTypes
<1>6. \A i \in DOMAIN toTx' : toTx'[i] # NAK
  <2>. DEFINE s == <<Preambule>>
  <2>1. s \in Seq(Byte) /\ PutChars(s) /\ \A k \in DOMAIN s : s[k] # NAK
    BY <1>1, SentChars, YModemAssumption DEF Preambule
  <2>. HIDE DEF s
  <2>2. PICK r \in Seq(Byte) :
          /\ toTx' = toTx \o r
          /\ \A i \in DOMAIN r :
               r[i] \in NoiseBytes \/ \E j \in DOMAIN s : r[i] = s[j]
    BY <2>1, YTimelyTypes, PutCharsContent
  <2>3. \A i \in DOMAIN r : r[i] # NAK
    BY <2>1, <2>2, LineAssumption
  <2>4. \A i \in DOMAIN toTx : toTx[i] # NAK
    BY <1>1, <1>2 DEF CallsInOrder
  <2>5. toTx \in Seq(Byte)
    BY YTimelyTypes
  <2>. QED  BY <2>2, <2>3, <2>4, <2>5, JoinedChars
<1>7. YOneUnderWay'
  <2>1. tyPhase = "name" => Len(toTx') <= 2
    BY <1>3, <1>5
  <2>2. tyPhase = "contents" => Len(toTx') <= 1
    <3>1. tyPhase = "contents" => Len(toTx) = 0
      BY <1>3
    <3>. QED  BY <1>5, <3>1
  <2>. QED  BY <1>1, <1>2, <1>3, <1>4, <1>6, <2>1, <2>2, EmitterStays
            DEF YOneUnderWay
<1>8. YFrameIsLastSent'
  BY <1>1, <1>3, EmitterStays DEF YTimelyInv, YFrameIsLastSent
<1>9. YInStep'
  <2>1. rxRam'.write_offset = 0 /\ Len(rxData') * defaultBlksize' >= 0
    BY <1>1, <1>2, EmitterStays, YTimelyTypes
  <2>2. txpc' # "reply" /\ (txpc' = "preambule" => emittedBytes' = 0)
    BY <1>4, EmitterStays DEF YTimelyInv, YInStep
  <2>. QED  BY <1>1, <2>1, <2>2 DEF YInStep
<1>10. AcksLeft'
  BY <1>1, <1>2, <1>4, EmitterStays DEF AcksLeft
<1>11. ~RxSucceeded' /\ Len(rxData') <= NbBlocks
  BY <1>1, <1>2, YTimelyTypes DEF RxSucceeded
<1>. QED  BY <1>1, <1>7, <1>8, <1>9, <1>10, <1>11, LoopTimely

(* What is stored is a block of the file, and the emitter has not counted  *)
(* it yet.                                                                 *)
LEMMA YStoredIsCurrent ==
  ASSUME YWindowInv, YTimelyInv, BlockArrived, RxStatus(Head(toRx)) = "OK"
  PROVE  /\ rxpc = "header" /\ txpc = "reply" /\ IsBlock(blk_buffer)
         /\ blkNo = expectedBlkNumber /\ blkNo <= NbBlocks
         /\ emittedBytes = rxRam.write_offset
         /\ nbEmitted = BlkSize(Head(toRx).hdr)
         /\ ChunkIn(Head(toRx)) = BlockOf(expectedBlkNumber)
<1>1. Reading /\ Head(toRx).hdr \in {SOH, STX} /\ rxpc = "header"
  BY DEF BlockArrived, Reading
<1>2. /\ Head(toRx).seq = expectedBlkNumber
      /\ ChunkIn(Head(toRx)) = BlockOf(expectedBlkNumber)
  BY <1>1, YLoopFacts, YAcceptedIsNext
<1>3. /\ txpc = "reply" /\ Head(toRx).seq = blkNo
      /\ Head(toRx).hdr = blk_buffer.hdr
      /\ BlockOrEot(blk_buffer) /\ blk_buffer.seq = blkNo
      /\ \/ blkNo = expectedBlkNumber /\ emittedBytes = rxRam.write_offset
         \/ blkNo = expectedBlkNumber - 1
  <2>1. IsNumbered(Head(toRx)) /\ Head(toRx).seq > 0
    BY <1>1, <1>2, YTimelyTypes DEF IsNumbered
  <2>. QED  BY <1>1, <2>1, YHeadIsLastSent
<1>4. blkNo = expectedBlkNumber /\ emittedBytes = rxRam.write_offset
  BY <1>2, <1>3, YTimelyTypes
<1>5. IsBlock(blk_buffer) /\ blk_buffer.hdr # EOT
  BY <1>1, <1>3 DEF IsBlock, EOT, SOH, STX
<1>6. nbEmitted = BlkSize(Head(toRx).hdr)
  BY <1>3, <1>5 DEF nbEmitted, isLastBlock
<1>. QED  BY <1>1, <1>2, <1>3, <1>4, <1>5, <1>6 DEF BlockOrEot

(* One block more in the file is at most one large block more.             *)
LEMMA BlockAddsAtMost ==
  ASSUME YWindowInv, YTimelyInv, rxpc = "header", NEW h
  PROVE  LET size == BlkSize(h)
             n    == Len(rxData)
         IN  /\ size \in Nat \ {0} /\ size < HalfWord
             /\ rxRam.write_offset + size <= (n + 1) * defaultBlksize
             /\ n < NbBlocks =>
                  rxRam.write_offset + size <= NbBlocks * defaultBlksize
<1>. DEFINE size == BlkSize(h)
            n == Len(rxData)
            d == defaultBlksize
            w == rxRam.write_offset
<1>1. /\ size \in Nat \ {0} /\ size <= d /\ size < HalfWord
  <2>1. size \in {SmallBlk, LargeBlk} /\ d = LargeBlk
    BY YModemAssumption DEF BlkSize, defaultBlksize
  <2>2. /\ SmallBlk \in Nat \ {0} /\ LargeBlk \in Nat \ {0}
        /\ SmallBlk <= LargeBlk /\ LargeBlk < HalfWord
    BY LModemAssumption, LinkAssumption, HalfWordAssumption
  <2>3. HalfWord \in Nat
    BY HalfWordAssumption
  <2>. HIDE DEF size, d
  <2>. QED  BY <2>1, <2>2, <2>3
<1>2. n \in Nat /\ d \in Nat /\ w \in Nat /\ NbBlocks \in Nat
  BY YTimelyTypes
<1>3. w <= n * d
  BY YLoopFacts
<1>4. (n + 1) * d = n * d + d /\ n * d \in Nat
  <2>. DEFINE k == n + 1
  <2>1. k \in Nat \ {0} /\ k - 1 = n
    BY <1>2
  <2>. HIDE DEF k
  <2>2. (k - 1) * d \in Nat /\ k * d = (k - 1) * d + d
    BY <2>1, NextOffset
  <2>. HIDE DEF d, n
  <2>3. n * d \in Nat /\ k * d = n * d + d
    BY <2>1, <2>2
  <2>. QED  BY <2>3 DEF k
<1>5. n < NbBlocks => (n + 1) * d <= NbBlocks * d
  <2>1. n + 1 \in Nat /\ (n < NbBlocks => n + 1 <= NbBlocks)
    BY <1>2
  <2>. HIDE DEF d, n
  <2>. QED  BY <1>2, <2>1, TimesMonotone
<1>6. NbBlocks * d \in Nat
  BY <1>2, TimesMonotone
<1>. DEFINE a == n * d
            b == (n + 1) * d
            c == NbBlocks * d
<1>7. a \in Nat /\ w <= a /\ b = a + d /\ (n < NbBlocks => b <= c) /\ c \in Nat
  BY <1>3, <1>4, <1>5, <1>6
<1>. HIDE DEF a, b, c, d, n, w, size
<1>8. w + size <= b /\ (n < NbBlocks => w + size <= c)
  BY <1>1, <1>2, <1>7
<1>. QED  BY <1>1, <1>8 DEF a, b, c, d, n, w, size

LEMMA YRxStoreTimely ==
  ASSUME YOnTime, YWindowInv, YTimelyInv, UNCHANGED txVars, UNCHANGED tyVars,
         UNCHANGED ryVars, RxStore
  PROVE  YTimelyInv'
<1>. DEFINE size == BlkSize(Head(toRx).hdr)
<1>1. /\ BlockArrived /\ RxStatus(Head(toRx)) = "OK"
      /\ toRx # <<>> /\ toRx' = Tail(toRx)
      /\ rxpc = "header" /\ rxpc' = "header"
      /\ NbToCopy(rxRam, size) = size
      /\ rxRam' = lmodem_buffer_write(rxRam, size)
      /\ rxData' = Append(rxData, ChunkIn(Head(toRx)))
      /\ PutChars(<<Reply("OK")>>)
      /\ expectedBlkNumber' = expectedBlkNumber + 1
  BY DEF RxStore, BlockArrived, Reading, Fits
<1>2. /\ txpc = "reply" /\ IsBlock(blk_buffer)
      /\ blkNo = expectedBlkNumber /\ blkNo <= NbBlocks
      /\ emittedBytes = rxRam.write_offset /\ nbEmitted = size
  BY <1>1, YStoredIsCurrent
<1>3. /\ ryPhase = "contents" /\ rxpc # "done" /\ rxRam \in RamFileType
      /\ Len(rxData) = expectedBlkNumber - 1
  BY <1>1, YLoopFacts, YTimelyTypes
<1>4. rxRam'.write_offset = rxRam.write_offset + size
  BY <1>1, <1>3, YRamEffect
<1>5. rxRam'.max_size = rxRam.max_size
  BY <1>1, <1>3 DEF lmodem_buffer_write, RamFileType
<1>6. blkNo = expectedBlkNumber' - 1
  BY <1>1, <1>2, YTimelyTypes
<1>7. Len(rxData') = Len(rxData) + 1 /\ Len(rxData') = blkNo
  <2>. DEFINE c == ChunkIn(Head(toRx))
  <2>1. Head(toRx) \in Frame
    BY <1>1, HeadFrame
  <2>2. c \in Chunk
    BY <2>1, LModemAssumption DEF ChunkIn, Chunk, Frame, BlkSize
  <2>. HIDE DEF c
  <2>3. Len(Append(rxData, c)) = Len(rxData) + 1
    BY <2>2, YTimelyTypes, AppendProperties
  <2>4. Len(rxData') = Len(rxData) + 1
    BY <1>1, <2>3 DEF c
  <2>. QED  BY <1>2, <1>3, <2>4, YTimelyTypes
<1>8. YOneUnderWay' /\ YFrameIsLastSent' /\ AcksLeft'
  <2>. DEFINE s == <<Reply("OK")>>
  <2>1. s \in Seq(Byte) /\ Len(s) <= 1 /\ \A k \in DOMAIN s : k = 1
    BY ReplyType
  <2>2. PutChars(s)
    BY <1>1
  <2>. HIDE DEF s
  <2>3. Len(rxData') \in Nat
    BY <1>7, YTimelyTypes
  <2>. QED  BY <1>1, <1>2, <1>5, <1>6, <2>1, <2>2, <2>3, YReceiverReplies
<1>9. YInStep'
  <2>1. rxRam'.write_offset <= (Len(rxData) + 1) * defaultBlksize
    BY <1>1, <1>4, BlockAddsAtMost
  <2>2. rxRam'.write_offset <= Len(rxData') * defaultBlksize'
    BY <1>7, <2>1, EmitterStays
  <2>. HIDE DEF size
  <2>3. emittedBytes' + nbEmitted' = rxRam'.write_offset
    BY <1>2, <1>4, EmitterStays
  <2>4. txpc' = "reply" /\ blkNo' = expectedBlkNumber' - 1
    BY <1>2, <1>6, EmitterStays
  <2>. QED  BY <2>2, <2>3, <2>4 DEF YInStep
<1>10. ~RxSucceeded' /\ Len(rxData') <= NbBlocks
  BY <1>1, <1>2, <1>7 DEF RxSucceeded
<1>. QED  BY <1>3, <1>5, <1>8, <1>9, <1>10, LoopTimely

(* A block without room: acknowledged, and the call has failed.            *)
LEMMA YRxOverflowTimely ==
  ASSUME YOnTime, YWindowInv, YTimelyInv, UNCHANGED txVars, UNCHANGED tyVars,
         UNCHANGED ryVars, RxOverflow
  PROVE  YTimelyInv'
<1>. DEFINE size == BlkSize(Head(toRx).hdr)
<1>1. /\ BlockArrived /\ RxStatus(Head(toRx)) = "OK"
      /\ toRx # <<>> /\ toRx' = Tail(toRx)
      /\ rxpc = "header" /\ rxpc' = "done" /\ receivedBytes' = -1
      /\ NbToCopy(rxRam, size) # size
      /\ rxRam' = lmodem_buffer_write(rxRam, size)
      /\ rxData' = rxData
      /\ PutChars(<<Reply("OK"), CAN, CAN>>)
  BY DEF RxOverflow, BlockArrived, Reading, Fits
<1>2. /\ txpc = "reply" /\ blkNo = expectedBlkNumber /\ blkNo <= NbBlocks
  BY <1>1, YStoredIsCurrent
<1>3. /\ Len(rxData) = expectedBlkNumber - 1 /\ rxRam \in RamFileType
      /\ Len(rxData) \in Nat /\ Len(rxData) < NbBlocks
  BY <1>1, <1>2, YLoopFacts, YTimelyTypes
<1>4. ~Roomy
  <2>1. /\ size \in Nat \ {0} /\ size < HalfWord
        /\ rxRam.write_offset + size <= NbBlocks * defaultBlksize
    BY <1>1, <1>3, BlockAddsAtMost
  <2>2. rxRam.write_offset <= rxRam.max_size /\ rxRam.max_size < HalfWord
    BY <1>1, YLoopFacts DEF YWindowInv, YReceiverRunning
  <2>. HIDE DEF size
  <2>3. ~(size < rxRam.max_size - rxRam.write_offset)
    BY <1>1, <1>3, <2>1, <2>2, WriteAllOrNothing
  <2>. DEFINE b == NbBlocks * defaultBlksize
  <2>4. b \in Nat
    BY YTimelyTypes, TimesMonotone
  <2>5. rxRam.write_offset + size <= b
    BY <2>1
  <2>6. rxRam.write_offset \in Nat /\ rxRam.max_size \in Nat
    BY <1>3 DEF RamFileType
  <2>. HIDE DEF b
  <2>7. ~(b < rxRam.max_size)
    BY <2>1, <2>3, <2>4, <2>5, <2>6
  <2>. QED  BY <2>7 DEF Roomy, b
<1>5. rxRam'.max_size = rxRam.max_size
  BY <1>1, <1>3 DEF lmodem_buffer_write, RamFileType
<1>6. YOneUnderWay' /\ YFrameIsLastSent' /\ AcksLeft'
  <2>. DEFINE s == <<ACK, CAN, CAN>>
  <2>1. s \in Seq(Byte) /\ \A k \in DOMAIN s : s[k] = ACK => k = 1
    BY SentChars, NoAckIn
  <2>2. PutChars(s)
    BY <1>1, SentChars
  <2>. HIDE DEF s
  <2>. QED  BY <1>1, <1>3, <1>4, <1>5, <2>1, <2>2, YReceiverReplies
<1>7. YInStep'
  BY <1>1, <1>2, EmitterStays DEF YTimelyInv, YInStep
<1>8. ~RxSucceeded' /\ Len(rxData') <= NbBlocks
  BY <1>1, <1>3, YTimelyTypes DEF RxSucceeded
<1>. QED  BY <1>1, <1>5, <1>6, <1>7, <1>8, LoopTimely

(* The EOT comes behind the last block, and the emitter has counted them   *)
(* all.                                                                    *)
LEMMA YRxEotTimely ==
  ASSUME YOnTime, YWindowInv, YTimelyInv, UNCHANGED txVars, UNCHANGED tyVars,
         UNCHANGED ryVars, RxEot
  PROVE  YTimelyInv'
<1>1. /\ Reading /\ Head(toRx).hdr = EOT /\ toRx # <<>> /\ toRx' = Tail(toRx)
      /\ rxpc = "header" /\ rxpc' = "done" /\ receivedBytes' = receivedBytes
      /\ rxData' = rxData /\ rxRam' = rxRam /\ PutChars(<<Reply("OK")>>)
  BY DEF RxEot, Reading
<1>2. /\ txpc = "reply" /\ blk_buffer.hdr = EOT
      /\ BlockOrEot(blk_buffer) /\ blk_buffer.seq = blkNo
      /\ \/ blkNo = expectedBlkNumber /\ emittedBytes = rxRam.write_offset
         \/ blkNo = expectedBlkNumber - 1
  <2>1. IsNumbered(Head(toRx)) /\ ~IsBlock(Head(toRx))
    BY <1>1 DEF IsNumbered, IsBlock, SOH, STX, EOT
  <2>. QED  BY <1>1, <2>1, YHeadIsLastSent
<1>3. blkNo = NbBlocks + 1
  BY <1>2 DEF BlockOrEot, IsBlock, SOH, STX, EOT
<1>4. /\ Len(rxData) = expectedBlkNumber - 1
      /\ receivedBytes = rxRam.write_offset
  BY <1>1, YLoopFacts
<1>5. Len(rxData) <= NbBlocks
  BY DEF YTimelyInv, YOutcome
<1>6. /\ isLastBlock /\ Len(rxData) = NbBlocks /\ emittedBytes = receivedBytes
      /\ RxSucceeded'
  BY <1>1, <1>2, <1>3, <1>4, <1>5, YTimelyTypes DEF isLastBlock, RxSucceeded
<1>7. YOneUnderWay' /\ YFrameIsLastSent' /\ AcksLeft'
  <2>. DEFINE s == <<Reply("OK")>>
  <2>1. s \in Seq(Byte) /\ \A k \in DOMAIN s : k = 1
    BY ReplyType
  <2>2. PutChars(s) /\ Len(rxData') \in Nat
    BY <1>1, YTimelyTypes
  <2>. HIDE DEF s
  <2>. QED  BY <1>1, <1>6, <2>1, <2>2, YReceiverReplies
<1>8. YInStep'
  BY <1>1, <1>2, EmitterStays DEF YTimelyInv, YInStep
<1>. QED  BY <1>1, <1>2, <1>5, <1>6, <1>7, <1>8, LoopTimely

LEMMA YRxNextTimely ==
  ASSUME YOnTime, YWindowInv, YTimelyInv, YRxNext
  PROVE  YTimelyInv'
<1>1. UNCHANGED txVars /\ UNCHANGED tyVars
  BY DEF YRxNext
<1>2. CASE RyStart
  BY <1>1, <1>2, RyStartTimely
<1>3. CASE RyReceives
  BY <1>1, <1>3, RyNameTimely, RyNoNameTimely, RyRepeatTimely,
     RyBlockNextFileTimely
  DEF RyReceives
<1>4. CASE RyTimeouts
  BY <1>1, <1>4, RyTimeoutsTimely
<1>5. CASE RyNextFile
  BY <1>1, <1>5, RyNextFileTimely
<1>6. CASE /\ ryPhase = "contents"
           /\ RxStart \/ RxReceives \/ (YRxSilence /\ RxTimeout)
           /\ UNCHANGED ryVars
  BY <1>1, <1>6, YRxStartTimely, YRxStoreTimely, YRxOverflowTimely,
     YRxEotTimely, YRxErrorsTimely
  DEF RxReceives
<1>. QED  BY <1>2, <1>3, <1>4, <1>5, <1>6 DEF YRxNext

-----------------------------------------------------------------------------
(***************************************************************************)
(* Steps of lymodem_emit around the loop of lxmodem_emit.                  *)
(***************************************************************************)
(* What a step of the emitter leaves alone.                                *)
LEMMA ReceiverStays ==
  ASSUME UNCHANGED rxVars, UNCHANGED ryVars, txOpts' = txOpts,
         txRam'.write_offset = txRam.write_offset
  PROVE  /\ rxpc' = rxpc /\ receivedBytes' = receivedBytes /\ rxRam' = rxRam
         /\ rxData' = rxData /\ expectedBlkNumber' = expectedBlkNumber
         /\ ryPhase' = ryPhase
         /\ RxSucceeded' = RxSucceeded /\ Listening' = Listening
         /\ Roomy' = Roomy
         /\ FileSize' = FileSize /\ NbBlocks' = NbBlocks
         /\ defaultBlksize' = defaultBlksize
<1>1. /\ rxpc' = rxpc /\ receivedBytes' = receivedBytes /\ rxRam' = rxRam
      /\ rxData' = rxData /\ expectedBlkNumber' = expectedBlkNumber
      /\ ryPhase' = ryPhase
  BY DEF rxVars, ryVars
<1>2. /\ FileSize' = FileSize /\ NbBlocks' = NbBlocks
      /\ defaultBlksize' = defaultBlksize
  BY FrozenFile, FrozenBlocks
<1>. QED  BY <1>1, <1>2 DEF RxSucceeded, Listening, Roomy

(* The ACKs that are left when the emitter has read one character: if that *)
(* was an ACK it may go one block further.                                 *)
LEMMA AcksRead ==
  ASSUME YWindowInv, YTimelyInv, UNCHANGED rxVars, UNCHANGED ryVars,
         txOpts' = txOpts, txRam'.write_offset = txRam.write_offset,
         \/ toTx # <<>> /\ toTx' = Tail(toTx)
         \/ toTx = <<>> /\ toTx' = toTx,
         tyPhase # "done", txpc = "done" => txpc' = "done",
         \/ blkNo' = blkNo
         \/ blkNo' = blkNo + 1 /\ toTx # <<>> /\ Head(toTx) = ACK,
         rxpc = "header" /\ txpc' = "reply" => toTx' = <<>>
  PROVE  AcksLeft'
<1>. DEFINE acks == AcksIn(toTx)
            left == AcksIn(toTx')
            at   == blkNo - Len(rxData)
            to   == blkNo' - Len(rxData)
<1>1. /\ rxpc' = rxpc /\ rxData' = rxData /\ ryPhase' = ryPhase
      /\ RxSucceeded' = RxSucceeded /\ Listening' = Listening /\ Roomy' = Roomy
  BY ReceiverStays
<1>2. at \in Int /\ to \in Int /\ (to = at \/ to = at + 1)
  BY YTimelyTypes
<1>3. to = at + 1 => 1 \in acks
  <2>1. to = at + 1 => toTx # <<>> /\ Head(toTx) = ACK
    BY YTimelyTypes
  <2>. QED  BY <2>1, YTimelyTypes, AcksBehindFirst
<1>4. /\ \A i \in left : i \in Nat \ {0} /\ i + 1 \in acks
      /\ acks \subseteq {1} => left = {}
      /\ Len(toTx) = 0 => left = {}
  <2>1. CASE toTx # <<>> /\ toTx' = Tail(toTx)
    <3>1. toTx \in Seq(Byte)
      BY YTimelyTypes
    <3>2. Len(toTx) # 0
      BY <2>1, <3>1, AcksBehindFirst
    <3>. QED  BY <2>1, <3>1, <3>2, AcksBehindFirst
  <2>2. CASE toTx = <<>> /\ toTx' = toTx
    BY <2>2 DEF AcksIn
  <2>. QED  BY <2>1, <2>2
<1>5. toTx' = <<>> => left = {}
  BY DEF AcksIn
<1>6. rxpc = "idle" /\ ~Listening => left = {}
  <2>1. rxpc = "idle" /\ ~Listening => acks \subseteq {1}
    BY DEF YTimelyInv, AcksLeft
  <2>. QED  BY <1>4, <2>1
<1>7. ASSUME Roomy, ~Listening, ~RxSucceeded, tyPhase # "done", txpc # "done"
      PROVE  IF ryPhase # "done" THEN to <= 1 /\ left = {}
             ELSE /\ to <= 2
                  /\ left # {} => to <= 1
                  /\ \A i, j \in left : ~(i < j)
  <2>1. IF ryPhase # "done"
        THEN at <= 1 /\ (acks # {} => acks = {1} /\ at <= 0)
        ELSE /\ at <= 2
             /\ acks # {} => at <= 1
             /\ \A i, j \in acks : i < j => i = 1 /\ j = Len(toTx) /\ at <= 0
    BY <1>7 DEF YTimelyInv, AcksLeft
  <2>. HIDE DEF acks, left, at, to
  <2>2. CASE ryPhase # "done"
    <3>1. left = {}
      BY <2>1, <2>2, <1>4
    <3>2. to <= 1
      BY <2>1, <2>2, <1>2, <1>3
    <3>. QED  BY <2>2, <3>1, <3>2
  <2>3. CASE ryPhase = "done"
    <3>1. to <= 2
      BY <2>1, <2>3, <1>2, <1>3
    <3>2. ASSUME NEW i \in left
          PROVE  to <= 1
      <4>1. i \in Nat \ {0} /\ i + 1 \in acks
        BY <1>4, <3>2
      <4>2. CASE to = at
        BY <2>1, <2>3, <4>1, <4>2, <1>2
      <4>3. CASE to = at + 1
        <5>1. 1 \in acks /\ 1 < i + 1
          BY <1>3, <4>1, <4>3
        <5>2. at <= 0
          BY <2>1, <2>3, <4>1, <5>1
        <5>. QED  BY <1>2, <4>3, <5>2
      <4>. QED  BY <1>2, <4>2, <4>3
    <3>3. ASSUME NEW i \in left, NEW j \in left, i < j
          PROVE  FALSE
      <4>1. /\ i \in Nat \ {0} /\ i + 1 \in acks
            /\ j \in Nat \ {0} /\ j + 1 \in acks
        BY <1>4, <3>3
      <4>2. i + 1 < j + 1
        BY <3>3, <4>1
      <4>3. i + 1 = 1
        BY <2>1, <2>3, <4>1, <4>2
      <4>. QED  BY <4>1, <4>3
    <3>. QED  BY <2>3, <3>1, <3>2, <3>3
  <2>. QED  BY <2>2, <2>3
<1>8. txpc' # "done" => txpc # "done"
  OBVIOUS
<1>9. blkNo' - Len(rxData') = to
  BY <1>1
<1>. HIDE DEF left, to, acks, at
<1>10. AcksIn(toTx') = left
  BY DEF left
<1>. QED  BY <1>1, <1>5, <1>6, <1>7, <1>8, <1>9, <1>10 DEF AcksLeft

(* What one frame that the emitter sends brings to the receiver.           *)
LEMMA FrameArrives ==
  ASSUME YOnTime, LineTypeOK, NEW f \in Frame, PutFrame(f)
  PROVE  /\ toRx' = toRx \/ \E g \in Frame : toRx' = Append(toRx, g)
         /\ Len(toRx') <= Len(toRx) + 1 /\ Len(toRx') \in Nat
         /\ \A i \in DOMAIN toRx' : IsNumbered(toRx'[i]) =>
              \/ i \in DOMAIN toRx /\ toRx'[i] = toRx[i]
              \/ toRx'[i].seq = f.seq /\ toRx'[i].hdr = f.hdr
<1>1. toRx \in Seq(Frame) /\ Len(toRx) \in Nat
  BY DEF LineTypeOK
<1>2. NoiseBytes \cap {SOH, STX, EOT} = {}
  BY LineAssumption DEF YOnTime
<1>3. CASE toRx' = toRx
  BY <1>1, <1>3
<1>4. CASE toRx' # toRx
  <2>1. PICK g \in Frame :
          /\ toRx' = Append(toRx, g)
          /\ g.seq = f.seq
          /\ g.hdr = f.hdr \/ g.hdr \in NoiseBytes
    BY <1>4, PutFrameHeader
  <2>. DEFINE t == Append(toRx, g)
  <2>2. /\ Len(t) = Len(toRx) + 1
        /\ \A i \in DOMAIN t :
             \/ i \in DOMAIN toRx /\ t[i] = toRx[i]
             \/ t[i] = g
    BY <1>1, AppendedFrames
  <2>3. toRx' = t
    BY <2>1
  <2>. HIDE DEF t
  <2>4. IsNumbered(g) => g.hdr = f.hdr
    BY <1>2, <2>1 DEF IsNumbered
  <2>5. \E h \in Frame : toRx' = Append(toRx, h)
    BY <2>1
  <2>6. Len(toRx') <= Len(toRx) + 1 /\ Len(toRx') \in Nat
    BY <1>1, <2>2, <2>3
  <2>7. ASSUME NEW i \in DOMAIN toRx', IsNumbered(toRx'[i])
        PROVE  \/ i \in DOMAIN toRx /\ toRx'[i] = toRx[i]
               \/ toRx'[i].seq = f.seq /\ toRx'[i].hdr = f.hdr
    <3>1. CASE i \in DOMAIN toRx /\ toRx'[i] = toRx[i]
      BY <3>1
    <3>2. CASE toRx'[i] = g
      <4>1. IsNumbered(g)
        BY <2>7, <3>2
      <4>. QED  BY <2>1, <2>4, <3>2, <4>1
    <3>. QED  BY <2>2, <2>3, <2>7, <3>1, <3>2
  <2>. QED  BY <2>5, <2>6, <2>7
<1>. QED  BY <1>3, <1>4

(* Outside the loop the emitter sends only names, and counts nothing.      *)
LEMMA TyTimely ==
  ASSUME YOnTime, YWindowInv, YTimelyInv, UNCHANGED rxVars, UNCHANGED ryVars,
         UNCHANGED contentsVars, txpc # "reply", tyPhase # "done",
         \/ toRx' = toRx \/ rxpc # "header"
         \/ \E f \in Frame : PutFrame(f) /\ IsBlock(f) /\ f.seq = 0,
         tyPhase' = "batch" => IsBlock(blk_buffer'),
         \/ tyPhase' \notin {"next", "batch"} /\ tyResult' = -1
         \/ /\ tyPhase' \in {"next", "batch", "done"} /\ txpc = "done"
            /\ tyResult' = emittedBytes,
         YOneUnderWay', AcksLeft'
  PROVE  YTimelyInv'
<1>1. /\ txpc' = txpc /\ blkNo' = blkNo /\ emittedBytes' = emittedBytes
      /\ txOpts' = txOpts /\ txRam' = txRam
  BY DEF contentsVars
<1>2. YFrameIsLastSent'
  <2>1. rxpc = "header" =>
          \A i \in DOMAIN toRx : IsNumbered(toRx[i]) =>
            IsBlock(toRx[i]) /\ toRx[i].seq = 0
    BY DEF YTimelyInv, YFrameIsLastSent
  <2>2. ASSUME rxpc = "header", NEW i \in DOMAIN toRx', IsNumbered(toRx'[i])
        PROVE  IsBlock(toRx'[i]) /\ toRx'[i].seq = 0
    <3>1. CASE toRx' = toRx
      BY <2>1, <2>2, <3>1
    <3>2. CASE \E f \in Frame : PutFrame(f) /\ IsBlock(f) /\ f.seq = 0
      <4>1. PICK f \in Frame : PutFrame(f) /\ IsBlock(f) /\ f.seq = 0
        BY <3>2
      <4>2. \/ i \in DOMAIN toRx /\ toRx'[i] = toRx[i]
            \/ toRx'[i].seq = f.seq /\ toRx'[i].hdr = f.hdr
        BY <2>2, <4>1, YTimelyTypes, FrameArrives
      <4>3. CASE i \in DOMAIN toRx /\ toRx'[i] = toRx[i]
        BY <2>1, <2>2, <4>3
      <4>4. CASE toRx'[i].seq = f.seq /\ toRx'[i].hdr = f.hdr
        BY <4>1, <4>4 DEF IsBlock
      <4>. QED  BY <4>2, <4>3, <4>4
    <3>. QED  BY <2>2, <3>1, <3>2
  <2>3. rxpc' = rxpc /\ txpc' # "reply"
    BY <1>1, ReceiverStays
  <2>. QED  BY <2>2, <2>3 DEF YFrameIsLastSent, IsNumbered, IsBlock
<1>3. YInStep'
  BY <1>1, ReceiverStays DEF YTimelyInv, YInStep
<1>4. YOutcome'
  BY <1>1, ReceiverStays DEF YTimelyInv, YOutcome
<1>5. (txpc = "reply" => BlockOrEot(blk_buffer))'
  BY <1>1
<1>. QED  BY <1>2, <1>3, <1>4, <1>5 DEF YTimelyInv

(* Where lymodem_emit is, its own result is not known yet, or known from   *)
(* lxmodem_emit.                                                           *)
LEMMA TyResults ==
  ASSUME YWindowInv, YTimelyInv, tyPhase # "done"
  PROVE  /\ tyPhase \notin {"next", "batch"} => tyResult = -1
         /\ tyPhase \in {"next", "batch"} =>
              txpc = "done" /\ tyResult = emittedBytes
         /\ tyPhase # "contents" => txpc # "reply"
         /\ tyPhase \in {"call", "name"} => txpc = "preambule" /\ blkNo = 1
<1>1. \/ tyPhase \notin {"next", "batch"} /\ tyResult = -1
      \/ tyPhase \in {"next", "batch", "done"} /\ txpc = "done"
         /\ tyResult = emittedBytes
  BY DEF YTimelyInv, YOutcome
<1>2. /\ tyPhase # "contents" => txpc # "reply"
      /\ tyPhase \in {"call", "name"} => txpc = "preambule" /\ blkNo = 1
  BY YSideFacts
<1>. QED  BY <1>1, <1>2

LEMMA TyCalledTimely ==
  ASSUME YOnTime, YWindowInv, YTimelyInv, UNCHANGED rxVars, UNCHANGED ryVars,
         TyCalled
  PROVE  YTimelyInv'
<1>1. /\ toTx # <<>> /\ toTx' = Tail(toTx) /\ tyPhase \in {"call", "next"}
      /\ receivedChar' = receivedChar /\ tyResult' = tyResult
      /\ txOpts' = txOpts /\ txRam' = txRam /\ blkNo' = blkNo /\ txpc' = txpc
      /\ UNCHANGED contentsVars
      /\ tyPhase = "call" => tyPhase' = "name" /\ SendName
      /\ tyPhase = "next" => tyPhase' = "batch" /\ SendEndOfBatch
  BY DEF TyCalled, contentsVars
<1>2. /\ tyPhase = "call" => tyResult = -1 /\ txpc = "preambule"
      /\ tyPhase = "next" => txpc = "done" /\ tyResult = emittedBytes
      /\ txpc # "reply"
  BY <1>1, TyResults
<1>3. TyTypeOK /\ LineTypeOK /\ toTx \in Seq(Byte) /\ toRx \in Seq(Frame)
  BY YEmitterFacts, YTimelyTypes
<1>4. \/ toRx' = toRx
      \/ \E f \in Frame : PutFrame(f) /\ IsBlock(f) /\ f.seq = 0
  <2>1. /\ NameBlock \in Frame /\ NameBlock.seq = 0
        /\ EndOfBatch \in Frame /\ EndOfBatch.seq = 0
    BY <1>3, NamesAreFrames
  <2>2. IsBlock(NameBlock) /\ IsBlock(EndOfBatch)
    BY DEF IsBlock, NameBlock, EndOfBatch
  <2>. HIDE DEF NameBlock, EndOfBatch
  <2>. QED  BY <1>1, <2>1, <2>2 DEF SendName, SendEndOfBatch
<1>5. tyPhase' = "batch" => IsBlock(blk_buffer')
  BY <1>1 DEF SendEndOfBatch, IsBlock, EndOfBatch
<1>6. Len(toTx) <= 1 => toTx' = <<>>
  <2>1. Len(toTx') = Len(toTx) - 1 /\ toTx' \in Seq(Byte) /\ Len(toTx) \in Nat \ {0}
    BY <1>1, <1>3, AcksBehindFirst
  <2>2. Len(toTx) <= 1 => Len(toTx') = 0
    BY <2>1
  <2>. QED  BY <2>1, <2>2
<1>7. Len(toRx') <= Len(toRx) + 1 /\ Len(toRx) \in Nat /\ Len(<<>>) = 0
  BY <1>3, <1>4, FrameArrives
<1>8. YOneUnderWay'
  <2>1. CASE tyPhase = "call"
    <3>1. /\ tyPhase' = "name"
          /\ ~(ryPhase = "contents" /\ rxpc = "idle")
          /\ rxpc # "header"
      BY <1>1, <2>1 DEF YTimelyInv, YOneUnderWay
    <3>2. ryPhase \in {"start", "name"} => toTx' = <<>> /\ Len(toRx') <= 1
      <4>1. ryPhase \in {"start", "name"} => Len(toTx) <= 1 /\ toRx = <<>>
        BY <2>1 DEF YTimelyInv, YOneUnderWay
      <4>. QED  BY <1>6, <1>7, <4>1
    <3>3. ryPhase \in {"start", "name"} => Len(toTx') <= 1 /\ AcksIn(toTx') = {}
      BY <3>2 DEF AcksIn
    <3>4. Listening => receivedChar \notin {ACK, NAK}
      BY <2>1 DEF YTimelyInv, YOneUnderWay
    <3>5. ryPhase = "next" => rxpc = "done"
      BY DEF YTimelyInv, YOneUnderWay
    <3>. QED  BY <1>1, <3>1, <3>2, <3>3, <3>4, <3>5, ReceiverStays
              DEF YOneUnderWay
  <2>2. CASE tyPhase = "next"
    <3>1. /\ tyPhase' = "batch" /\ txpc' = "done"
          /\ ryPhase \notin {"start", "name"}
          /\ ~(ryPhase = "contents" /\ rxpc = "idle")
          /\ rxpc = "header" => ryPhase = "contents"
          /\ ryPhase = "next" => rxpc = "done"
      BY <1>1, <1>2, <2>2 DEF YTimelyInv, YOneUnderWay
    <3>. QED  BY <3>1, ReceiverStays, <1>1 DEF YOneUnderWay
  <2>. QED  BY <1>1, <2>1, <2>2
<1>9. AcksLeft'
  BY <1>1, <1>2, AcksRead
<1>10. /\ \/ tyPhase' \notin {"next", "batch"} /\ tyResult' = -1
          \/ /\ tyPhase' \in {"next", "batch", "done"} /\ txpc = "done"
             /\ tyResult' = emittedBytes
  BY <1>1, <1>2
<1>. QED  BY <1>1, <1>2, <1>4, <1>5, <1>8, <1>9, <1>10, TyTimely

LEMMA TyMissedTimely ==
  ASSUME YOnTime, YWindowInv, YTimelyInv, UNCHANGED rxVars, UNCHANGED ryVars,
         TyNotCalled \/ TyCallTimeout
  PROVE  YTimelyInv'
<1>1. /\ \/ toTx # <<>> /\ toTx' = Tail(toTx)
         \/ toTx = <<>> /\ toTx' = toTx
      /\ toRx' = toRx /\ tyPhase \in {"call", "next"}
      /\ tyPhase' \in {tyPhase, "done"} /\ tyResult' = tyResult
      /\ receivedChar' = receivedChar
      /\ txOpts' = txOpts /\ txRam' = txRam /\ blkNo' = blkNo /\ txpc' = txpc
      /\ UNCHANGED contentsVars
  BY DEF TyNotCalled, TyCallTimeout, TyMissed, TyReturn, txVars, contentsVars
<1>2. /\ tyPhase = "call" => tyResult = -1 /\ txpc = "preambule"
      /\ tyPhase = "next" => txpc = "done" /\ tyResult = emittedBytes
      /\ txpc # "reply"
  BY <1>1, TyResults
<1>3. toTx \in Seq(Byte) /\ Len(toTx) \in Nat
  BY YTimelyTypes
<1>4. /\ Len(toTx') <= Len(toTx) /\ Len(toTx') \in Nat
      /\ AcksIn(toTx) = {} => AcksIn(toTx') = {}
  <2>1. CASE toTx # <<>> /\ toTx' = Tail(toTx)
    BY <1>3, <2>1, AcksBehindFirst
  <2>2. CASE toTx' = toTx
    BY <1>3, <2>2
  <2>. QED  BY <1>1, <2>1, <2>2
<1>5. YOneUnderWay'
  <2>1. /\ ~(ryPhase = "contents" /\ rxpc = "idle")
        /\ rxpc = "header" =>
             ryPhase = "contents" /\ tyPhase = "next" /\ txpc = "done"
        /\ ryPhase = "next" => rxpc = "done"
    BY <1>1, <1>2 DEF YTimelyInv, YOneUnderWay
  <2>2. ryPhase \in {"start", "name"} =>
          /\ tyPhase = "call" /\ Len(toTx) <= 1 /\ AcksIn(toTx) = {}
          /\ toRx = <<>>
    BY <1>1 DEF YTimelyInv, YOneUnderWay
  <2>3. ryPhase \in {"start", "name"} =>
          /\ tyPhase' \in {"call", "done"} /\ Len(toTx') <= 1
          /\ AcksIn(toTx') = {} /\ toRx' = <<>>
    BY <1>1, <1>3, <1>4, <2>2
  <2>4. tyPhase' # "name"
    BY <1>1
  <2>5. Listening /\ tyPhase' = "call" => receivedChar \notin {ACK, NAK}
    BY <1>1 DEF YTimelyInv, YOneUnderWay
  <2>6. rxpc = "header" => tyPhase' \in {"next", "done"}
    BY <1>1, <2>1
  <2>. QED  BY <1>1, <2>1, <2>3, <2>4, <2>5, <2>6, ReceiverStays
            DEF YOneUnderWay
<1>6. AcksLeft'
  BY <1>1, <1>2, AcksRead
<1>7. \/ tyPhase' \notin {"next", "batch"} /\ tyResult' = -1
      \/ /\ tyPhase' \in {"next", "batch", "done"} /\ txpc = "done"
         /\ tyResult' = emittedBytes
  BY <1>1, <1>2
<1>. QED  BY <1>1, <1>2, <1>5, <1>6, <1>7, TyTimely

LEMMA TyTransferredTimely ==
  ASSUME YOnTime, YWindowInv, YTimelyInv, UNCHANGED rxVars, UNCHANGED ryVars,
         TyTransferred
  PROVE  YTimelyInv'
<1>1. /\ tyPhase = "contents" /\ txpc = "done" /\ tyResult' = emittedBytes
      /\ toTx' = toTx /\ UNCHANGED contentsVars
      /\ txOpts' = txOpts /\ txRam' = txRam /\ blkNo' = blkNo /\ txpc' = txpc
      /\ \/ tyPhase' = "next" /\ toRx' = toRx
         \/ tyPhase' = "batch" /\ SendEndOfBatch
      /\ tyPhase' \in {"next", "batch"}
  BY DEF TyTransferred, contentsVars
<1>2. TyTypeOK
  BY YEmitterFacts
<1>3. \/ toRx' = toRx
      \/ \E f \in Frame : PutFrame(f) /\ IsBlock(f) /\ f.seq = 0
  <2>1. EndOfBatch \in Frame /\ EndOfBatch.seq = 0
    BY <1>2, NamesAreFrames
  <2>2. IsBlock(EndOfBatch)
    BY DEF IsBlock, EndOfBatch
  <2>. HIDE DEF EndOfBatch
  <2>. QED  BY <1>1, <2>1, <2>2 DEF SendEndOfBatch
<1>4. tyPhase' = "batch" => IsBlock(blk_buffer')
  BY <1>1 DEF SendEndOfBatch, IsBlock, EndOfBatch
<1>5. YOneUnderWay'
  <2>1. /\ ryPhase \notin {"start", "name"}
        /\ ~(ryPhase = "contents" /\ rxpc = "idle")
        /\ rxpc = "header" => ryPhase = "contents"
        /\ ryPhase = "next" => rxpc = "done"
    BY <1>1 DEF YTimelyInv, YOneUnderWay
  <2>. QED  BY <1>1, <2>1, ReceiverStays DEF YOneUnderWay
<1>6. AcksLeft'
  <2>1. rxpc = "idle" /\ ~Listening => AcksIn(toTx) = {}
    BY <1>1 DEF YTimelyInv, AcksLeft
  <2>. QED  BY <1>1, <2>1, ReceiverStays DEF AcksLeft
<1>. QED  BY <1>1, <1>3, <1>4, <1>5, <1>6, TyTimely

(* What the switch on a reply may do.                                      *)
LEMMA ReactEffect ==
  ASSUME YWindowInv, tyPhase \in {"name", "batch"}, NEW c, TyReact(c)
  PROVE  /\ UNCHANGED contentsVars /\ blk_buffer' = blk_buffer
         /\ txOpts' = txOpts /\ txRam' = txRam /\ blkNo' = blkNo
         /\ txpc' = txpc
         /\ toRx' = toRx \/ (c = NAK /\ PutFrame(blk_buffer))
         /\ tyPhase' \in {tyPhase, "done"} \/ (tyPhase = "name" /\ tyPhase' = "contents")
         /\ tyPhase' = "done" => tyPhase = "batch" \/ tyResult' = -1
         /\ tyResult' \in {tyResult, -1} /\ (tyPhase' # "done" => tyResult' = tyResult)
         /\ tyPhase' = "done" /\ tyResult' # -1 => tyResult' = tyResult
         /\ c # NAK => toRx' = toRx
         /\ c \notin {ACK, NAK} => tyPhase' \in {tyPhase, "done"}
         /\ c = ACK => tyPhase' # "name"
<1>1. ACK # CAN /\ ACK # NAK /\ CAN # NAK
  BY DEF ACK, CAN, NAK
<1>2. CASE c = ACK
  BY <1>1, <1>2 DEF TyReact, TyProceed, TyReturn, txVars, contentsVars
<1>3. CASE c = CAN
  BY <1>1, <1>3 DEF TyReact, TyReturn, txVars, contentsVars
<1>4. CASE c = NAK
  BY <1>1, <1>4 DEF TyReact, TyProceed, TyReturn, SendAgain, contentsVars
<1>5. CASE c \notin {ACK, CAN, NAK}
  BY <1>1, <1>5 DEF TyReact, txVars, contentsVars
<1>. QED  BY <1>2, <1>3, <1>4, <1>5

(* While lymodem_receive can still store something, the name is not        *)
(* refused, and no ACK of it is read twice.                                *)
LEMMA NameIsNotRefused ==
  ASSUME YWindowInv, YTimelyInv, Listening, tyPhase = "name"
  PROVE  /\ \A j \in DOMAIN toTx : toTx[j] # NAK
         /\ receivedChar \notin {ACK, NAK}
<1>1. receivedChar \notin {ACK, NAK}
  BY DEF YTimelyInv, YOneUnderWay
<1>2. CASE rxpc = "idle"
  <2>1. \A j \in DOMAIN toTx : toTx[j] # NAK
    BY <1>2, YSideFacts DEF CallsInOrder
  <2>. QED  BY <1>1, <2>1
<1>3. CASE rxpc = "header"
  <2>1. \A j \in DOMAIN toTx : toTx[j] # NAK
    BY <1>3 DEF YTimelyInv, YOneUnderWay
  <2>. QED  BY <1>1, <2>1
<1>. QED  BY <1>2, <1>3, YTimelyTypes DEF Listening

(* The reply to the name leaves at most the C of the loop under way.       *)
LEMMA NameRepliedUnderWay ==
  ASSUME YOnTime, YWindowInv, YTimelyInv, UNCHANGED rxVars, UNCHANGED ryVars,
         tyPhase = "name", NEW c, TyReact(c),
         \/ /\ toTx # <<>> /\ toTx' = Tail(toTx)
            /\ c = Head(toTx) /\ receivedChar' = c
         \/ /\ toTx = <<>> /\ toTx' = toTx /\ YTxSilence
            /\ c = receivedChar /\ receivedChar' = c
  PROVE  YOneUnderWay' /\ (toRx' = toRx \/ rxpc # "header")
<1>1. /\ txpc' = txpc /\ tyPhase' \in {"name", "contents", "done"}
      /\ c # NAK => toRx' = toRx
      /\ c \notin {ACK, NAK} => tyPhase' \in {"name", "done"}
      /\ c = ACK => tyPhase' # "name"
  BY ReactEffect
<1>2. toTx \in Seq(Byte) /\ Len(toTx) \in Nat /\ txpc = "preambule"
      /\ rxpc \in {"idle", "header", "done"}
  BY YTimelyTypes, YSideFacts
<1>3. Listening => c # NAK /\ toRx' = toRx
  <2>1. ASSUME Listening
        PROVE  c # NAK
    <3>1. toTx # <<>> => 1 \in DOMAIN toTx /\ Head(toTx) = toTx[1]
      BY <1>2
    <3>. QED  BY <2>1, <3>1, NameIsNotRefused
  <2>. QED  BY <1>1, <2>1
<1>4. Listening /\ toTx = <<>> =>
        /\ tyPhase' \in {"name", "done"} /\ toTx' = <<>>
        /\ receivedChar' \notin {ACK, NAK} /\ receivedChar' = c
  BY <1>1, NameIsNotRefused
<1>5. Listening /\ tyPhase' = "name" => receivedChar' \notin {ACK, NAK}
  BY <1>1, <1>3
<1>6. ASSUME toTx # <<>>
      PROVE  /\ toTx' = Tail(toTx) /\ Len(toTx') = Len(toTx) - 1
             /\ Len(toTx) <= 1 => toTx' = <<>>
             /\ \A j \in DOMAIN toTx' : \E k \in DOMAIN toTx : toTx'[j] = toTx[k]
  <2>. DEFINE t == Tail(toTx)
  <2>1. toTx' = t
    BY <1>6
  <2>2. Len(t) = Len(toTx) - 1
    BY <1>2, <1>6, AcksBehindFirst
  <2>3. Len(toTx) <= 1 => t = <<>>
    BY <1>2, <1>6
  <2>4. \A j \in DOMAIN t : \E k \in DOMAIN toTx : t[j] = toTx[k]
    BY <1>2, <1>6, TailChars
  <2>. HIDE DEF t
  <2>5. /\ Len(toTx') = Len(toTx) - 1
        /\ Len(toTx) <= 1 => toTx' = <<>>
        /\ \A j \in DOMAIN toTx' : \E k \in DOMAIN toTx : toTx'[j] = toTx[k]
    BY <2>1, <2>2, <2>3, <2>4
  <2>. QED  BY <2>1, <2>5 DEF t
<1>7. ASSUME ryPhase \in {"start", "name"}
      PROVE  /\ tyPhase' \in {"name", "done"} /\ toTx' = <<>> /\ toRx' = <<>>
             /\ Len(toTx') = 0 /\ Len(toRx') = 0
  <2>1. rxpc = "idle" /\ Listening
    BY <1>7, YSideFacts DEF Listening
  <2>2. toTx = <<>>
    BY <1>7 DEF YTimelyInv, YOneUnderWay
  <2>3. toRx = <<>>
    BY <1>7, <2>2 DEF YTxSilence, YOnTime
  <2>. QED  BY <1>3, <1>4, <2>1, <2>2, <2>3
<1>8. ASSUME ryPhase = "contents", rxpc = "idle"
      PROVE  toRx' = <<>> /\ toTx' = <<>> /\ Len(toTx') = 0
  <2>1. Listening
    BY <1>8 DEF Listening
  <2>2. toRx = <<>> /\ Len(toTx) <= 1
    BY <1>8 DEF YTimelyInv, YOneUnderWay
  <2>3. toTx # <<>>
    BY <1>8 DEF YTxSilence, YOnTime
  <2>. QED  BY <1>3, <1>6, <2>1, <2>2, <2>3
<1>9. ASSUME rxpc = "header"
      PROVE  /\ ryPhase = "contents" /\ toRx' = <<>> /\ Len(toTx') <= 2
             /\ \A i \in DOMAIN toTx' : toTx'[i] # NAK
             /\ tyPhase' = "contents" => Len(toTx') <= 1
  <2>1. Listening /\ ryPhase = "contents"
    BY <1>9, YLoopFacts
  <2>2. toRx = <<>> /\ Len(toTx) <= 2 /\ \A i \in DOMAIN toTx : toTx[i] # NAK
    BY <1>9 DEF YTimelyInv, YOneUnderWay
  <2>3. CASE toTx # <<>>
    <3>1. Len(toTx') <= 1 /\ Len(toTx') <= 2
      BY <1>2, <1>6, <2>2, <2>3
    <3>2. \A i \in DOMAIN toTx' : toTx'[i] # NAK
      BY <1>6, <2>2, <2>3
    <3>. QED  BY <1>3, <2>1, <2>2, <3>1, <3>2
  <2>4. CASE toTx = <<>>
    BY <1>3, <1>4, <2>1, <2>2, <2>4
  <2>. QED  BY <2>3, <2>4
<1>10. ryPhase = "next" => rxpc = "done"
  BY DEF YTimelyInv, YOneUnderWay
<1>11. AcksIn(<<>>) = {}
  BY DEF AcksIn
<1>12. YOneUnderWay'
  <2>1. rxpc' = rxpc /\ ryPhase' = ryPhase /\ Listening' = Listening
    BY DEF rxVars, ryVars, Listening
  <2>. QED  BY <1>1, <1>2, <1>5, <1>7, <1>8, <1>9, <1>10, <1>11, <2>1
            DEF YOneUnderWay
<1>13. rxpc = "header" => toRx' = toRx
  BY <1>3, YLoopFacts
<1>. QED  BY <1>12, <1>13

LEMMA TyReactTimely ==
  ASSUME YOnTime, YWindowInv, YTimelyInv, UNCHANGED rxVars, UNCHANGED ryVars,
         tyPhase \in {"name", "batch"}, NEW c, TyReact(c),
         \/ /\ toTx # <<>> /\ toTx' = Tail(toTx)
            /\ c = Head(toTx) /\ receivedChar' = c
         \/ /\ toTx = <<>> /\ toTx' = toTx /\ YTxSilence
            /\ c = receivedChar /\ receivedChar' = c
  PROVE  YTimelyInv'
<1>1. /\ UNCHANGED contentsVars /\ blk_buffer' = blk_buffer
      /\ txOpts' = txOpts /\ txRam' = txRam /\ blkNo' = blkNo
      /\ txpc' = txpc
      /\ toRx' = toRx \/ PutFrame(blk_buffer)
      /\ \/ tyPhase' \in {tyPhase, "done"}
         \/ tyPhase = "name" /\ tyPhase' = "contents"
  BY ReactEffect
<1>2. /\ tyPhase = "name" => tyResult = -1 /\ txpc = "preambule"
      /\ tyPhase = "batch" => txpc = "done" /\ tyResult = emittedBytes
      /\ txpc # "reply"
  BY TyResults
<1>3. \/ tyPhase' \notin {"next", "batch"} /\ tyResult' = -1
      \/ /\ tyPhase' \in {"next", "batch", "done"} /\ txpc = "done"
         /\ tyResult' = emittedBytes
  <2>1. /\ tyResult' \in {tyResult, -1} /\ (tyPhase' # "done" => tyResult' = tyResult)
        /\ tyPhase' = "done" => tyPhase = "batch" \/ tyResult' = -1
    BY ReactEffect
  <2>. QED  BY <1>1, <1>2, <2>1
<1>4. AcksLeft'
  BY <1>1, <1>2, AcksRead
<1>5. CASE tyPhase = "name"
  <2>1. YOneUnderWay' /\ (toRx' = toRx \/ rxpc # "header")
    BY <1>5, NameRepliedUnderWay
  <2>2. tyPhase' # "batch"
    BY <1>1, <1>5
  <2>. QED  BY <1>1, <1>2, <1>3, <1>4, <2>1, <2>2, TyTimely
<1>6. CASE tyPhase = "batch"
  <2>1. /\ blk_buffer \in Frame /\ IsBlock(blk_buffer) /\ blk_buffer.seq = 0
    BY <1>6, YEmitterFacts DEF YTimelyInv, YFrameIsLastSent
  <2>2. tyPhase' = "batch" => IsBlock(blk_buffer')
    BY <1>1, <2>1
  <2>3. YOneUnderWay'
    <3>1. /\ ryPhase \notin {"start", "name"}
          /\ ~(ryPhase = "contents" /\ rxpc = "idle")
          /\ rxpc = "header" => ryPhase = "contents"
          /\ ryPhase = "next" => rxpc = "done"
      BY <1>6 DEF YTimelyInv, YOneUnderWay
    <3>2. tyPhase' \in {"batch", "done"}
      BY <1>1, <1>6
    <3>. QED  BY <1>1, <1>2, <1>6, <3>1, <3>2, ReceiverStays DEF YOneUnderWay
  <2>. QED  BY <1>1, <1>2, <1>3, <1>4, <2>1, <2>2, <2>3, TyTimely
<1>. QED  BY <1>5, <1>6

LEMMA TyRepliesTimely ==
  ASSUME YOnTime, YWindowInv, YTimelyInv, UNCHANGED rxVars, UNCHANGED ryVars,
         TyReply \/ (YTxSilence /\ TyReplyTimeout)
  PROVE  YTimelyInv'
<1>1. CASE TyReply
  BY <1>1, TyReactTimely DEF TyReply
<1>2. CASE YTxSilence /\ TyReplyTimeout
  <2>1. /\ tyPhase \in {"name", "batch"} /\ toTx = <<>> /\ toTx' = toTx
        /\ receivedChar' = receivedChar
    BY <1>2 DEF TyReplyTimeout
  <2>2. CASE TyReact(receivedChar)
    BY <1>2, <2>1, <2>2, TyReactTimely
  <2>3. CASE UNCHANGED <<toRx, faults, txVars, tyPhase, tyResult, tyRetry>>
    BY <2>1, <2>3, YTimelyStutter DEF txVars, rxVars, ryVars
  <2>. QED  BY <1>2, <2>2, <2>3 DEF TyReplyTimeout
<1>. QED  BY <1>1, <1>2

-----------------------------------------------------------------------------
(***************************************************************************)
(* Steps of the loop of lxmodem_emit.                                      *)
(***************************************************************************)
(* A receiver that can still store something is reading when the emitter   *)
(* gets to act, and nothing is on its way to it.                           *)
LEMMA YEmittersTurn ==
  ASSUME YOnTime, YWindowInv, YTimelyInv, tyPhase = "contents", txpc # "done",
         toTx # <<>> \/ (toTx = <<>> /\ YTxSilence)
  PROVE  /\ ryPhase \notin {"start", "name"}
         /\ ~(ryPhase = "contents" /\ rxpc = "idle")
         /\ Listening => rxpc = "header"
         /\ rxpc = "header" =>
              toRx = <<>> /\ Len(toTx) <= 1 /\ ryPhase = "contents"
<1>1. /\ toTx \in Seq(Byte) /\ toRx \in Seq(Frame)
      /\ Len(toTx) \in Nat /\ Len(toRx) \in Nat
      /\ txpc \in {"preambule", "reply", "done"}
      /\ rxpc \in {"idle", "header", "done"}
  BY YTimelyTypes
<1>2. ryPhase \notin {"start", "name"}
  BY DEF YTimelyInv, YOneUnderWay
<1>3. ~(ryPhase = "contents" /\ rxpc = "idle")
  <2>1. ryPhase = "contents" /\ rxpc = "idle" => toTx = <<>>
    BY DEF YTimelyInv, YOneUnderWay
  <2>. QED  BY <2>1 DEF YTxSilence, YOnTime
<1>4. Listening => rxpc = "header"
  BY <1>1, <1>2, <1>3 DEF Listening
<1>5. ASSUME rxpc = "header"
      PROVE  toRx = <<>> /\ Len(toTx) <= 1 /\ ryPhase = "contents"
  <2>1. /\ ryPhase = "contents"
        /\ txpc = "preambule" => toRx = <<>> /\ Len(toTx) <= 1
        /\ txpc = "reply" => Len(toRx) + Len(toTx) <= 1
    BY <1>5 DEF YTimelyInv, YOneUnderWay
  <2>2. CASE txpc = "preambule"
    BY <2>1, <2>2
  <2>3. CASE txpc = "reply"
    <3>1. Len(toTx) <= 1 /\ (toTx # <<>> => Len(toRx) = 0)
      <4>. DEFINE m == Len(toRx)
                  n == Len(toTx)
      <4>1. toTx # <<>> => n # 0
        BY <1>1
      <4>2. m \in Nat /\ n \in Nat /\ m + n <= 1
        BY <1>1, <2>1, <2>3
      <4>. HIDE DEF m, n
      <4>3. n <= 1 /\ (toTx # <<>> => m = 0)
        BY <4>1, <4>2
      <4>. QED  BY <4>3 DEF m, n
    <3>2. toTx = <<>> => toRx = <<>>
      BY <2>1 DEF YTxSilence, YOnTime
    <3>3. Len(toRx) = 0 => toRx = <<>>
      BY <1>1
    <3>. QED  BY <2>1, <3>1, <3>2, <3>3
  <2>. QED  BY <1>1, <2>1, <2>2, <2>3
<1>. QED  BY <1>2, <1>3, <1>4, <1>5

(* After its read no reply is left for an emitter whose receiver reads.    *)
LEMMA NoReplyLeft ==
  ASSUME YOnTime, YWindowInv, YTimelyInv, tyPhase = "contents",
         txpc # "done", rxpc = "header",
         \/ toTx # <<>> /\ toTx' = Tail(toTx)
         \/ toTx = <<>> /\ toTx' = toTx /\ YTxSilence
  PROVE  toRx = <<>> /\ toTx' = <<>>
<1>1. toTx \in Seq(Byte) /\ toRx = <<>> /\ Len(toTx) <= 1
  BY YTimelyTypes, YEmittersTurn
<1>2. CASE toTx # <<>> /\ toTx' = Tail(toTx)
  <2>1. Tail(toTx) = <<>>
    BY <1>1, <1>2
  <2>. QED  BY <1>1, <1>2, <2>1
<1>. QED  BY <1>1, <1>2

(* The emitter's turn ends with one frame under way, the one it keeps.     *)
LEMMA YEmitterSends ==
  ASSUME YOnTime, YWindowInv, YTimelyInv,
         UNCHANGED rxVars, UNCHANGED ryVars, UNCHANGED tyVars,
         tyPhase = "contents", txpc # "done", txpc' = "reply",
         \/ toTx # <<>> /\ toTx' = Tail(toTx)
         \/ toTx = <<>> /\ toTx' = toTx /\ YTxSilence,
         \/ blkNo' = blkNo
         \/ blkNo' = blkNo + 1 /\ toTx # <<>> /\ Head(toTx) = ACK,
         NEW f \in Frame, PutFrame(f), blk_buffer' = f, f.seq = blkNo',
         BlockOrEot(f), txOpts' = txOpts,
         txRam'.write_offset = txRam.write_offset
  PROVE  /\ (txpc = "reply" => BlockOrEot(blk_buffer))'
         /\ YOneUnderWay' /\ YFrameIsLastSent' /\ AcksLeft'
<1>1. /\ rxpc' = rxpc /\ ryPhase' = ryPhase /\ Listening' = Listening
      /\ NbBlocks' = NbBlocks /\ tyPhase' = tyPhase
      /\ receivedChar' = receivedChar
  BY ReceiverStays DEF tyVars
<1>2. rxpc = "header" => toRx = <<>> /\ toTx' = <<>>
  BY NoReplyLeft
<1>3. /\ Len(toRx') <= Len(toRx) + 1 /\ Len(toRx') \in Nat
      /\ \A i \in DOMAIN toRx' : IsNumbered(toRx'[i]) =>
           \/ i \in DOMAIN toRx /\ toRx'[i] = toRx[i]
           \/ toRx'[i].seq = f.seq /\ toRx'[i].hdr = f.hdr
  BY YTimelyTypes, FrameArrives
<1>4. (txpc = "reply" => BlockOrEot(blk_buffer))'
  BY <1>1 DEF BlockOrEot
<1>5. YOneUnderWay'
  <2>1. /\ ryPhase \notin {"start", "name"}
        /\ ~(ryPhase = "contents" /\ rxpc = "idle")
        /\ rxpc = "header" => ryPhase = "contents"
    BY YEmittersTurn
  <2>2. rxpc = "header" => Len(toRx') + Len(toTx') <= 1
    <3>1. rxpc = "header" => Len(toRx) = 0 /\ Len(toTx') = 0
      BY <1>2
    <3>. QED  BY <1>3, <3>1
  <2>3. ryPhase = "next" => rxpc = "done"
    BY DEF YTimelyInv, YOneUnderWay
  <2>. QED  BY <1>1, <2>1, <2>2, <2>3 DEF YOneUnderWay
<1>6. YFrameIsLastSent'
  <2>1. rxpc = "header" => \A i \in DOMAIN toRx' : IsNumbered(toRx'[i]) =>
          toRx'[i].seq = f.seq /\ toRx'[i].hdr = f.hdr
    <3>1. rxpc = "header" => \A i \in DOMAIN toRx : FALSE
      BY <1>2
    <3>. QED  BY <1>3, <3>1
  <2>. QED  BY <1>1, <2>1 DEF YFrameIsLastSent, IsNumbered
<1>7. AcksLeft'
  BY <1>2, AcksRead
<1>. QED  BY <1>4, <1>5, <1>6, <1>7

(* The emitter stops in its turn, and leaves nothing that a running        *)
(* receiver could take for a block or for the end.                         *)
LEMMA YEmitterStops ==
  ASSUME YOnTime, YWindowInv, YTimelyInv,
         UNCHANGED rxVars, UNCHANGED ryVars, UNCHANGED tyVars,
         tyPhase = "contents", txpc # "done", txpc' = "done",
         \/ toTx # <<>> /\ toTx' = Tail(toTx)
         \/ toTx = <<>> /\ toTx' = toTx /\ YTxSilence,
         \/ blkNo' = blkNo
         \/ blkNo' = blkNo + 1 /\ toTx # <<>> /\ Head(toTx) = ACK,
         txOpts' = txOpts, txRam'.write_offset = txRam.write_offset,
         rxpc = "header" => \A i \in DOMAIN toRx' : ~IsNumbered(toRx'[i]),
         RxSucceeded =>
           txpc # "preambule" /\ emittedBytes' \in {receivedBytes, -1},
         Roomy /\ emittedBytes' > 0 =>
           /\ rxpc = "done" /\ Len(rxData) = NbBlocks
           /\ receivedBytes \in {emittedBytes', -1}
  PROVE  YTimelyInv'
<1>1. /\ rxpc' = rxpc /\ receivedBytes' = receivedBytes /\ rxRam' = rxRam
      /\ rxData' = rxData /\ expectedBlkNumber' = expectedBlkNumber
      /\ ryPhase' = ryPhase /\ RxSucceeded' = RxSucceeded
      /\ Listening' = Listening /\ Roomy' = Roomy /\ NbBlocks' = NbBlocks
      /\ defaultBlksize' = defaultBlksize
      /\ tyPhase' = tyPhase /\ receivedChar' = receivedChar
      /\ tyResult' = tyResult
  BY ReceiverStays DEF tyVars
<1>2. YOneUnderWay'
  <2>1. /\ ryPhase \notin {"start", "name"}
        /\ ~(ryPhase = "contents" /\ rxpc = "idle")
        /\ rxpc = "header" => ryPhase = "contents"
    BY YEmittersTurn
  <2>2. ryPhase = "next" => rxpc = "done"
    BY DEF YTimelyInv, YOneUnderWay
  <2>. QED  BY <1>1, <2>1, <2>2 DEF YOneUnderWay
<1>3. YFrameIsLastSent'
  BY <1>1 DEF YFrameIsLastSent, IsNumbered
<1>4. YInStep'
  <2>1. rxpc = "header" => rxRam.write_offset <= Len(rxData) * defaultBlksize
    BY DEF YTimelyInv, YInStep
  <2>. QED  BY <1>1, <2>1 DEF YInStep
<1>5. AcksLeft'
  BY AcksRead
<1>6. YOutcome'
  <2>1. /\ Len(rxData) <= NbBlocks
        /\ RxSucceeded => Len(rxData) = NbBlocks
        /\ tyResult = -1
    BY DEF YTimelyInv, YOutcome
  <2>. QED  BY <1>1, <2>1 DEF YOutcome
<1>7. (txpc = "reply" => BlockOrEot(blk_buffer))'
  OBVIOUS
<1>. QED  BY <1>2, <1>3, <1>4, <1>5, <1>6, <1>7 DEF YTimelyInv

(* One more error on the current block.                                    *)
LEMMA YTxErrorTimely ==
  ASSUME YOnTime, YWindowInv, YTimelyInv,
         UNCHANGED rxVars, UNCHANGED ryVars, UNCHANGED tyVars,
         tyPhase = "contents", txpc = "reply",
         UNCHANGED <<txOpts, blkNo>>,
         \/ toTx # <<>> /\ toTx' = Tail(toTx)
         \/ toTx = <<>> /\ toTx' = toTx /\ YTxSilence,
         NEW limit \in Nat, TxError(limit)
  PROVE  YTimelyInv'
<1>1. /\ rxpc' = rxpc /\ receivedBytes' = receivedBytes /\ rxRam' = rxRam
      /\ rxData' = rxData /\ expectedBlkNumber' = expectedBlkNumber
      /\ ryPhase' = ryPhase /\ RxSucceeded' = RxSucceeded
      /\ Listening' = Listening
      /\ tyPhase' = tyPhase /\ tyResult' = tyResult
  BY DEF rxVars, ryVars, tyVars, RxSucceeded, Listening
<1>2. CASE TxStop(-1)
  <2>1. /\ txpc' = "done" /\ emittedBytes' = -1 /\ toRx' = toRx
        /\ txRam' = txRam /\ blkNo' = blkNo
    BY <1>2 DEF TxStop
  <2>2. rxpc = "header" => \A i \in DOMAIN toRx' : ~IsNumbered(toRx'[i])
    <3>1. rxpc = "header" => toRx' = <<>>
      BY <2>1, YEmittersTurn
    <3>. QED  BY <3>1
  <2>. QED  BY <2>1, <2>2, YEmitterStops
<1>3. CASE SendAgain /\ UNCHANGED <<txpc, emittedBytes>>
  <2>1. /\ PutFrame(blk_buffer) /\ blk_buffer' = blk_buffer /\ txRam' = txRam
        /\ txpc' = txpc /\ emittedBytes' = emittedBytes /\ blkNo' = blkNo
        /\ txOpts' = txOpts
    BY <1>3 DEF SendAgain
  <2>2. blk_buffer \in Frame /\ blk_buffer.seq = blkNo /\ BlockOrEot(blk_buffer)
    BY YTimelyTypes, YSideFacts DEF YTimelyInv
  <2>3. /\ (txpc = "reply" => BlockOrEot(blk_buffer))'
        /\ YOneUnderWay' /\ YFrameIsLastSent' /\ AcksLeft'
    BY <2>1, <2>2, YEmitterSends
  <2>4. /\ Roomy' = Roomy /\ NbBlocks' = NbBlocks
        /\ defaultBlksize' = defaultBlksize
        /\ isLastBlock' = isLastBlock /\ nbEmitted' = nbEmitted
    BY <2>1, ReceiverStays DEF isLastBlock, nbEmitted
  <2>5. YInStep'
    BY <1>1, <2>1, <2>4 DEF YTimelyInv, YInStep
  <2>6. YOutcome'
    BY <1>1, <2>1, <2>4 DEF YTimelyInv, YOutcome
  <2>. QED  BY <2>3, <2>5, <2>6 DEF YTimelyInv
<1>. QED  BY <1>2, <1>3 DEF TxError

LEMMA YTxPreambuleTimely ==
  ASSUME YOnTime, YWindowInv, YTimelyInv,
         UNCHANGED rxVars, UNCHANGED ryVars, UNCHANGED tyVars,
         tyPhase = "contents", TxPreambule
  PROVE  YTimelyInv'
<1>1. /\ txpc = "preambule" /\ txpc' = "reply" /\ toTx # <<>>
      /\ toTx' = Tail(toTx) /\ blkNo' = 1 /\ emittedBytes' = 0
      /\ txOpts' = txOpts /\ SendNext(1)
  BY DEF TxPreambule
<1>2. /\ blkNo = 1 /\ ~DataSent
  BY <1>1, YSideFacts
<1>3. /\ txRam \in RamFileType /\ FileSize \in Nat /\ FileSize < HalfWord
      /\ txRam.read_offset = 0 /\ txRam.read_offset <= FileSize
      /\ NbBlocks \in Nat
  BY <1>2, YTimelyTypes
     DEF YWindowInv, YTypeOK, TypeOK, TxTypeOK, YEmitterAtBlkNo, DataSent,
         RamFileType
<1>4. txRam.read_offset = Smaller(FileSize, (1 - 1) * defaultBlksize)
  <2>1. (1 - 1) * defaultBlksize = 0
    BY BlksizeType
  <2>. QED  BY <2>1, <1>3 DEF Smaller
<1>5. /\ PutFrame(DataBlock(1)) /\ blk_buffer' = DataBlock(1)
      /\ DataBlock(1) \in Frame /\ DataBlock(1).seq = 1
      /\ BlockOrEot(DataBlock(1))
      /\ txRam'.write_offset = txRam.write_offset
  <2>1. 1 \in Nat \ {0} /\ 1 <= NbBlocks + 1
    BY <1>3
  <2>2. /\ DataBlock(1) \in Frame /\ DataBlock(1).seq = 1
        /\ lmodem_buffer_read(txRam, bytesToRead) =
             [txRam EXCEPT
                !.read_offset = Smaller(FileSize, 1 * defaultBlksize)]
    BY <1>3, <1>4, <2>1, DataBlockIsBlockOf
  <2>3. BlockOrEot(DataBlock(1))
    BY <1>3, <1>4, <2>1, DataBlockIsIntact DEF Intact
  <2>4. txRam'.write_offset = txRam.write_offset
    BY <1>1, <1>3, <2>2 DEF SendNext, RamFileType
  <2>. QED  BY <1>1, <2>2, <2>3, <2>4 DEF SendNext
<1>6. /\ (txpc = "reply" => BlockOrEot(blk_buffer))'
      /\ YOneUnderWay' /\ YFrameIsLastSent' /\ AcksLeft'
  BY <1>1, <1>2, <1>5, YEmitterSends
<1>7. /\ rxpc' = rxpc /\ receivedBytes' = receivedBytes /\ rxRam' = rxRam
      /\ rxData' = rxData /\ expectedBlkNumber' = expectedBlkNumber
      /\ RxSucceeded' = RxSucceeded /\ NbBlocks' = NbBlocks
      /\ defaultBlksize' = defaultBlksize
      /\ tyPhase' = tyPhase /\ tyResult' = tyResult
  BY <1>1, <1>5, ReceiverStays DEF tyVars
<1>8. YInStep'
  <2>1. rxpc = "header" =>
          /\ expectedBlkNumber = 1 /\ rxRam.write_offset = 0
          /\ rxRam.write_offset <= Len(rxData) * defaultBlksize
    <3>1. rxpc = "header" =>
            /\ rxRam.write_offset = 0
            /\ rxRam.write_offset <= Len(rxData) * defaultBlksize
      BY <1>1 DEF YTimelyInv, YInStep
    <3>2. rxpc = "header" => expectedBlkNumber - 1 = 0
      BY <1>2, YLoopFacts DEF BlocksInWindow
    <3>. QED  BY <3>1, <3>2, YTimelyTypes
  <2>. QED  BY <1>1, <1>7, <2>1 DEF YInStep
<1>9. YOutcome'
  <2>1. ~RxSucceeded /\ Len(rxData) <= NbBlocks /\ tyResult = -1
    BY <1>1 DEF YTimelyInv, YOutcome
  <2>. QED  BY <1>1, <1>7, <2>1 DEF YOutcome
<1>. QED  BY <1>6, <1>8, <1>9 DEF YTimelyInv

(* The preamble is refused, or never comes.                                *)
LEMMA YTxPreambuleEndTimely ==
  ASSUME YOnTime, YWindowInv, YTimelyInv,
         UNCHANGED rxVars, UNCHANGED ryVars, UNCHANGED tyVars,
         tyPhase = "contents",
         TxPreambuleRefused \/ (YTxSilence /\ TxPreambuleTimeout)
  PROVE  YTimelyInv'
<1>1. /\ txpc = "preambule" /\ blkNo \in Nat /\ txRam \in RamFileType
      /\ emittedBytes = 0 /\ ~RxSucceeded
  BY YTimelyTypes
     DEF TxPreambuleRefused, TxPreambuleTimeout, YTimelyInv, YInStep, YOutcome,
         YWindowInv, YTypeOK, TypeOK, TxTypeOK
<1>2. CASE TxPreambuleRefused
  <2>1. /\ txpc' = "done" /\ emittedBytes' = -1 /\ txOpts' = txOpts
        /\ txRam' = txRam /\ blkNo' = blkNo
        /\ toTx # <<>> /\ toTx' = Tail(toTx) /\ PutCancelFrames(blkNo)
    BY <1>2 DEF TxPreambuleRefused
  <2>2. rxpc = "header" => \A i \in DOMAIN toRx' : ~IsNumbered(toRx'[i])
    <3>. SUFFICES ASSUME rxpc = "header"
                  PROVE  \A i \in DOMAIN toRx' : ~IsNumbered(toRx'[i])
      OBVIOUS
    <3>1. toRx = <<>>
      BY <1>1, <2>1, YEmittersTurn
    <3>2. \A i \in DOMAIN toRx' :
            toRx'[i].hdr = CAN \/ toRx'[i].hdr \in NoiseBytes
      BY <1>1, <2>1, <3>1, CancelFrames
    <3>3. CAN \notin {SOH, STX, EOT} /\ NoiseBytes \cap {SOH, STX, EOT} = {}
      BY LineAssumption DEF YOnTime, CAN, SOH, STX, EOT
    <3>. QED  BY <3>2, <3>3 DEF IsNumbered
  <2>. QED  BY <1>1, <2>1, <2>2, YEmitterStops
<1>3. CASE YTxSilence /\ TxPreambuleTimeout
  <2>1. /\ txpc' \in {"preambule", "done"}
        /\ emittedBytes' = emittedBytes /\ txOpts' = txOpts /\ txRam' = txRam
        /\ toRx' = toRx /\ toTx' = toTx /\ blkNo' = blkNo /\ toTx = <<>>
        /\ blk_buffer' = blk_buffer
    BY <1>1, <1>3 DEF TxPreambuleTimeout, lineVars
  <2>2. CASE txpc' = "done"
    <3>1. rxpc = "header" => \A i \in DOMAIN toRx' : ~IsNumbered(toRx'[i])
      <4>1. rxpc = "header" => toRx' = <<>>
        BY <1>1, <1>3, <2>1, YEmittersTurn
      <4>. QED  BY <4>1
    <3>. QED  BY <1>1, <1>3, <2>1, <2>2, <3>1, YEmitterStops
  <2>3. CASE txpc' = "preambule"
    BY <1>1, <2>1, <2>3, YTimelyStutter DEF rxVars, ryVars, tyVars
  <2>. QED  BY <2>1, <2>2, <2>3
<1>. QED  BY <1>2, <1>3

(* What an ACK the emitter reads is about.                                 *)
LEMMA YAckIsDue ==
  ASSUME YOnTime, YWindowInv, YTimelyInv, tyPhase = "contents",
         ReplyArrived, Head(toTx) = ACK
  PROVE  /\ rxpc = "header" =>
              /\ ~isLastBlock /\ blkNo = expectedBlkNumber - 1
              /\ emittedBytes + nbEmitted = rxRam.write_offset
         /\ RxSucceeded => isLastBlock /\ emittedBytes \in {receivedBytes, -1}
         /\ Roomy /\ isLastBlock =>
              /\ rxpc = "done" /\ Len(rxData) = NbBlocks
              /\ receivedBytes \in {emittedBytes, -1}
<1>1. /\ txpc = "reply" /\ toTx # <<>> /\ 1 \in AcksIn(toTx)
      /\ rxpc \in {"idle", "header", "done"}
  BY YTimelyTypes, AcksBehindFirst DEF ReplyArrived
<1>2. ASSUME rxpc = "header"
      PROVE  /\ ~isLastBlock /\ blkNo = expectedBlkNumber - 1
             /\ emittedBytes + nbEmitted = rxRam.write_offset
  <2>1. IsBlock(blk_buffer) /\ blkNo = expectedBlkNumber - 1
    BY <1>1, <1>2 DEF YTimelyInv, AcksLeft
  <2>2. ~isLastBlock
    BY <2>1 DEF IsBlock, isLastBlock, SOH, STX, EOT
  <2>3. \/ /\ blkNo = expectedBlkNumber
           /\ emittedBytes = rxRam.write_offset
        \/ /\ blkNo = expectedBlkNumber - 1
           /\ emittedBytes + nbEmitted = rxRam.write_offset
    BY <1>1, <1>2 DEF YTimelyInv, YInStep
  <2>4. blkNo # expectedBlkNumber
    BY <2>1, YTimelyTypes
  <2>. QED  BY <2>1, <2>2, <2>3, <2>4
<1>3. RxSucceeded =>
        /\ isLastBlock /\ emittedBytes \in {receivedBytes, -1}
        /\ Len(rxData) = NbBlocks /\ rxpc = "done"
  BY <1>1 DEF YTimelyInv, YOutcome, RxSucceeded
<1>4. ASSUME Roomy, isLastBlock, ~RxSucceeded
      PROVE  /\ rxpc = "done" /\ Len(rxData) = NbBlocks /\ receivedBytes = -1
  <2>1. ~Listening
    BY <1>1, <1>2, <1>4, YEmittersTurn
  <2>2. rxpc = "done"
    <3>1. rxpc # "header"
      BY <1>2, <1>4
    <3>2. rxpc # "idle"
      BY <1>1, <2>1 DEF YTimelyInv, AcksLeft
    <3>. QED  BY <1>1, <3>1, <3>2
  <2>3. receivedBytes = -1
    BY <1>4, <2>2, YTimelyTypes DEF RxSucceeded
  <2>4. blkNo - Len(rxData) <= 1 /\ Len(rxData) <= NbBlocks
    BY <1>1, <1>4, <2>1 DEF YTimelyInv, AcksLeft, YOutcome
  <2>5. blkNo = NbBlocks + 1
    <3>1. BlockOrEot(blk_buffer) /\ blk_buffer.seq = blkNo
      BY <1>1, YSideFacts DEF YTimelyInv
    <3>. QED  BY <1>4, <3>1
              DEF BlockOrEot, isLastBlock, IsBlock, SOH, STX, EOT
  <2>6. Len(rxData) = NbBlocks
    BY <2>4, <2>5, YTimelyTypes
  <2>. QED  BY <2>2, <2>3, <2>6
<1>5. RxSucceeded => receivedBytes \in {emittedBytes, -1}
  <2>1. txpc = "reply" => emittedBytes >= 0
    BY YSideFacts
  <2>. QED  BY <1>1, <1>3, <2>1
<1>. QED  BY <1>2, <1>3, <1>4, <1>5

LEMMA YTxAckTimely ==
  ASSUME YOnTime, YWindowInv, YTimelyInv,
         UNCHANGED rxVars, UNCHANGED ryVars, UNCHANGED tyVars,
         tyPhase = "contents", TxAck
  PROVE  YTimelyInv'
<1>1. /\ ReplyArrived /\ Head(toTx) = ACK /\ txpc = "reply" /\ toTx # <<>>
      /\ toTx' = Tail(toTx) /\ blkNo' = blkNo + 1 /\ txOpts' = txOpts
  BY DEF TxAck, ReplyArrived
<1>2. /\ rxpc = "header" =>
           /\ ~isLastBlock /\ blkNo = expectedBlkNumber - 1
           /\ emittedBytes + nbEmitted = rxRam.write_offset
      /\ RxSucceeded => isLastBlock /\ emittedBytes \in {receivedBytes, -1}
      /\ Roomy /\ isLastBlock =>
           /\ rxpc = "done" /\ Len(rxData) = NbBlocks
           /\ receivedBytes \in {emittedBytes, -1}
  BY <1>1, YAckIsDue
<1>3. CASE isLastBlock /\ TxStop(emittedBytes)
  <2>1. /\ txpc' = "done" /\ emittedBytes' = emittedBytes /\ toRx' = toRx
        /\ txRam' = txRam
    BY <1>3 DEF TxStop
  <2>. QED  BY <1>1, <1>2, <1>3, <2>1, YEmitterStops
<1>4. CASE /\ ~isLastBlock
           /\ emittedBytes' = emittedBytes + nbEmitted
           /\ SendNext(blkNo + 1)
           /\ UNCHANGED txpc
  <2>. DEFINE k == blkNo + 1
              f == DataBlock(k)
  <2>1. ~RxSucceeded
    BY <1>2, <1>4
  <2>2. /\ blkNo <= NbBlocks /\ NbBlocks \in Nat /\ blkNo \in Nat \ {0}
        /\ k \in Nat \ {0} /\ k - 1 = blkNo /\ k <= NbBlocks + 1
    <3>1. BlockOrEot(blk_buffer) /\ blk_buffer.seq = blkNo
      BY <1>1, YSideFacts DEF YTimelyInv
    <3>2. blkNo <= NbBlocks
      BY <1>4, <3>1 DEF BlockOrEot, isLastBlock
    <3>. QED  BY <3>2, YTimelyTypes
  <2>3. /\ txRam \in RamFileType /\ FileSize < HalfWord
        /\ txRam.read_offset <= FileSize
        /\ txRam.read_offset = Smaller(FileSize, blkNo * defaultBlksize)
    BY <1>1 DEF YWindowInv, YTypeOK, TypeOK, TxTypeOK, YEmitterAtBlkNo
  <2>4. txRam.read_offset = Smaller(FileSize, (k - 1) * defaultBlksize)
    BY <2>2, <2>3
  <2>5. /\ SendNext(k) /\ blkNo' = k
    BY <1>1, <1>4
  <2>. HIDE DEF k
  <2>6. /\ f \in Frame /\ f.seq = k
        /\ lmodem_buffer_read(txRam, bytesToRead) =
             [txRam EXCEPT !.read_offset = Smaller(FileSize, k * defaultBlksize)]
    BY <2>2, <2>3, <2>4, DataBlockIsBlockOf
  <2>7. BlockOrEot(f)
    BY <2>2, <2>3, <2>4, DataBlockIsIntact DEF Intact
  <2>8. /\ PutFrame(f) /\ blk_buffer' = f
        /\ txRam' = lmodem_buffer_read(txRam, bytesToRead)
    BY <2>5 DEF SendNext
  <2>9. txRam'.write_offset = txRam.write_offset
    BY <2>3, <2>6, <2>8 DEF RamFileType
  <2>. HIDE DEF f
  <2>10. txpc' = "reply" /\ f.seq = blkNo'
    BY <1>1, <1>4, <2>5, <2>6
  <2>11. /\ (txpc = "reply" => BlockOrEot(blk_buffer))'
         /\ YOneUnderWay' /\ YFrameIsLastSent' /\ AcksLeft'
    BY <1>1, <2>6, <2>7, <2>8, <2>9, <2>10, YEmitterSends
  <2>12. /\ rxpc' = rxpc /\ receivedBytes' = receivedBytes /\ rxRam' = rxRam
         /\ rxData' = rxData /\ expectedBlkNumber' = expectedBlkNumber
         /\ RxSucceeded' = RxSucceeded /\ NbBlocks' = NbBlocks
         /\ defaultBlksize' = defaultBlksize
         /\ tyPhase' = tyPhase /\ tyResult' = tyResult
    BY <1>1, <2>9, ReceiverStays DEF tyVars
  <2>13. YInStep'
    <3>1. rxpc = "header" =>
            /\ blkNo' = expectedBlkNumber /\ emittedBytes' = rxRam.write_offset
            /\ rxRam.write_offset <= Len(rxData) * defaultBlksize
      <4>1. rxpc = "header" => blkNo + 1 = expectedBlkNumber
        BY <1>2, YTimelyTypes
      <4>. QED  BY <1>1, <1>2, <1>4, <4>1 DEF YTimelyInv, YInStep
    <3>. QED  BY <2>10, <2>12, <3>1 DEF YInStep
  <2>14. YOutcome'
    <3>1. Len(rxData) <= NbBlocks /\ tyResult = -1
      BY DEF YTimelyInv, YOutcome
    <3>. QED  BY <2>1, <2>10, <2>12, <3>1 DEF YOutcome
  <2>. QED  BY <2>11, <2>13, <2>14 DEF YTimelyInv
<1>. QED  BY <1>3, <1>4 DEF TxAck

LEMMA YTxWaitsTimely ==
  ASSUME YOnTime, YWindowInv, YTimelyInv,
         UNCHANGED rxVars, UNCHANGED ryVars, UNCHANGED tyVars,
         tyPhase = "contents", TxNak \/ TxOther \/ (YTxSilence /\ TxTimeout)
  PROVE  YTimelyInv'
<1>1. CASE TxNak \/ TxOther
  <2>1. PICK limit \in Nat :
          /\ txpc = "reply" /\ toTx # <<>> /\ toTx' = Tail(toTx)
          /\ UNCHANGED <<txOpts, blkNo>> /\ TxError(limit)
    <3>1. MaxRetry \in Nat /\ (IF MaxRetry < 2 THEN MaxRetry ELSE 2) \in Nat
      BY LModemAssumption
    <3>2. CASE TxNak
      BY <3>1, <3>2 DEF TxNak, ReplyArrived
    <3>3. CASE TxOther
      BY <3>1, <3>3 DEF TxOther, ReplyArrived
    <3>. QED  BY <1>1, <3>2, <3>3
  <2>. QED  BY <2>1, YTxErrorTimely
<1>2. CASE YTxSilence /\ TxTimeout
  <2>1. txpc = "reply" /\ toTx = <<>> /\ UNCHANGED <<txOpts, blkNo>>
    BY <1>2 DEF TxTimeout
  <2>2. CASE TxError(MaxRetry) /\ UNCHANGED toTx
    <3>1. MaxRetry \in Nat
      BY LModemAssumption
    <3>. QED  BY <1>2, <2>1, <2>2, <3>1, YTxErrorTimely
  <2>3. CASE UNCHANGED <<lineVars, txpc, retry, emittedBytes, txRam, blk_buffer>>
    <3>1. /\ toRx' = toRx /\ toTx' = toTx /\ txpc' = txpc /\ blkNo' = blkNo
          /\ emittedBytes' = emittedBytes /\ txRam' = txRam
          /\ blk_buffer' = blk_buffer /\ txOpts' = txOpts
      BY <2>1, <2>3 DEF lineVars
    <3>. QED  BY <3>1, YTimelyStutter DEF rxVars, ryVars, tyVars
  <2>. QED  BY <1>2, <2>2, <2>3 DEF TxTimeout
<1>. QED  BY <1>1, <1>2

LEMMA YTxNextTimely ==
  ASSUME YOnTime, YWindowInv, YTimelyInv, YTxNext
  PROVE  YTimelyInv'
<1>1. UNCHANGED rxVars /\ UNCHANGED ryVars
  BY DEF YTxNext
<1>2. CASE TyReceives
  BY <1>1, <1>2, TyCalledTimely, TyMissedTimely, TyRepliesTimely DEF TyReceives
<1>3. CASE YTxSilence /\ TyTimeouts
  BY <1>1, <1>3, TyMissedTimely, TyRepliesTimely DEF TyTimeouts
<1>4. CASE TyTransferred
  BY <1>1, <1>4, TyTransferredTimely
<1>5. CASE /\ tyPhase = "contents"
           /\ TxReceives \/ (YTxSilence /\ (TxPreambuleTimeout \/ TxTimeout))
           /\ UNCHANGED tyVars
  BY <1>1, <1>5, YTxPreambuleTimely, YTxPreambuleEndTimely, YTxAckTimely,
     YTxWaitsTimely
  DEF TxReceives
<1>. QED  BY <1>2, <1>3, <1>4, <1>5 DEF YTxNext

-----------------------------------------------------------------------------
(***************************************************************************)
(* The invariant of a transfer without late answers.                       *)
(***************************************************************************)
LEMMA YInitTimely ==
  ASSUME YInit
  PROVE  YTimelyInv
<1>1. PICK size \in FileSizes, valid \in Valids :
        TxInit("lxmodem_128_with_chksum", size) /\ TyInit(valid, size)
  BY DEF YInit
<1>2. PICK max_size \in RamSizes : RxInit("lxmodem_128_with_chksum", max_size)
  BY DEF YInit
<1>3. toRx = <<>> /\ toTx = <<>> /\ ryPhase = "start"
  BY DEF YInit, LineInit, RyInit
<1>4. /\ txpc = "preambule" /\ emittedBytes = 0 /\ tyPhase = "call"
      /\ tyResult = -1 /\ receivedChar = 0
      /\ rxpc = "idle" /\ rxData = <<>>
  BY <1>1, <1>2 DEF TxInit, TyInit, RxInit
<1>5. NbBlocks \in Nat
  BY YInitWindow, YTimelyTypes
<1>6. Len(toTx) = 0 /\ AcksIn(toTx) = {} /\ 0 \notin {ACK, NAK}
  BY <1>3 DEF AcksIn, ACK, NAK
<1>7. Listening
  BY <1>3, <1>4 DEF Listening
<1>8. YOneUnderWay
  BY <1>3, <1>4, <1>6 DEF YOneUnderWay
<1>9. YFrameIsLastSent /\ YInStep /\ AcksLeft
  BY <1>4, <1>7 DEF YFrameIsLastSent, YInStep, AcksLeft
<1>10. YOutcome
  BY <1>4, <1>5 DEF YOutcome, RxSucceeded
<1>. QED  BY <1>4, <1>8, <1>9, <1>10 DEF YTimelyInv

LEMMA YNextTimely ==
  ASSUME YOnTime, YWindowInv, YTimelyInv, [YNext]_yVars
  PROVE  YTimelyInv'
<1>1. CASE YRxNext
  BY <1>1, YRxNextTimely
<1>2. CASE YTxNext
  BY <1>2, YTxNextTimely
<1>3. ~LineNoise
  BY DEF LineNoise, Noise, Fault, YOnTime
<1>4. CASE UNCHANGED yVars
  BY <1>4, YTimelyStutter
  DEF yVars, vars, lineVars, rxVars, txVars, ryVars, tyVars
<1>. QED  BY <1>1, <1>2, <1>3, <1>4 DEF YNext, YTerminated

(* Between the two sides, outside the two loops and in them, one frame or  *)
(* one reply is under way at a time, and an ACK that lymodem_emit or       *)
(* lxmodem_emit reads is about the frame it sent last: the argument for    *)
(* every property of a YMODEM transfer without late answers.               *)
THEOREM YTimelyIsInvariant ==
  ASSUME YOnTime
  PROVE  YSpec => []YTimelyInv
<1>1. YInit => YTimelyInv
  BY YInitTimely
<1>2. YWindowInv /\ YTimelyInv /\ [YNext]_yVars => YTimelyInv'
  BY YNextTimely
<1>. QED  BY <1>1, <1>2, YWindowIsInvariant, PTL DEF YSpec

(* When lymodem_emit reports bytes, and the receiver had room, every block *)
(* of the file is in the receiver's file; lxmodem_receive has returned the *)
(* same number, or -1 although it has them all.                            *)
THEOREM BatchAgreesInTime ==
  ASSUME YOnTime
  PROVE  YSpec => []BatchAgreed
<1>1. YWindowInv /\ YTimelyInv => BatchAgreed
  <2>. SUFFICES ASSUME YWindowInv, YTimelyInv,
                       TyDone(TRUE), tyResult > 0, Roomy
                PROVE  /\ rxpc = "done" /\ Len(rxData) = NbBlocks
                       /\ receivedBytes \in {tyResult, -1}
    BY DEF BatchAgreed
  <2>1. txpc = "done" /\ tyResult = emittedBytes
    BY DEF YTimelyInv, YOutcome
  <2>. QED  BY <2>1 DEF YTimelyInv, YOutcome
<1>. QED  BY <1>1, YWindowIsInvariant, YTimelyIsInvariant, PTL

-----------------------------------------------------------------------------
(***************************************************************************)
(* What lymodem_receive leaves in its file.                                *)
(***************************************************************************)
(* No step changes the file that is sent.                                  *)
LEMMA YFileKept ==
  ASSUME YWindowInv, [YNext]_yVars
  PROVE  txOpts' = txOpts /\ txRam'.write_offset = txRam.write_offset
<1>1. txRam \in RamFileType
  BY DEF YWindowInv, YTypeOK, TypeOK, TxTypeOK
<1>2. ASSUME NEW size PROVE lmodem_buffer_read(txRam, size).write_offset =
                              txRam.write_offset
  BY <1>1 DEF lmodem_buffer_read, RamFileType
<1>3. CASE UNCHANGED txVars
  BY <1>3 DEF txVars
<1>4. CASE TyReceives \/ TyTimeouts \/ TyTransferred
  BY <1>4 DEF TyReceives, TyTimeouts, TyTransferred, TyCalled, TyNotCalled,
              TyCallTimeout, TyMissed, TyReply, TyReplyTimeout, TyReact,
              SendAgain, contentsVars, txVars
<1>5. CASE TxReceives \/ TxPreambuleTimeout \/ TxTimeout
  <2>1. txOpts' = txOpts
    BY <1>5 DEF TxReceives, TxPreambule, TxPreambuleRefused, TxAck,
                TxNak, TxOther, TxPreambuleTimeout, TxTimeout
  <2>2. \/ txRam' = txRam
        \/ txRam' = lmodem_buffer_read(txRam, bytesToRead)
    BY <1>5 DEF TxReceives, TxPreambule, TxPreambuleRefused, TxAck,
                TxNak, TxOther, TxPreambuleTimeout, TxTimeout, TxError, TxStop,
                SendAgain, SendNext
  <2>. QED  BY <1>2, <2>1, <2>2
<1>. QED  BY <1>3, <1>4, <1>5
          DEF YNext, YRxNext, YTxNext, LineNoise, YTerminated, yVars, vars

(* The only step that ends lymodem_receive after lxmodem_receive has run   *)
(* is RyReturn.                                                            *)
LEMMA ReturnsByRyReturn ==
  ASSUME YRxNext, ryPhase # "done", ryPhase' = "done"
  PROVE  \/ rxpc' = rxpc /\ ryPhase \in {"name", "repeat"}
         \/ ryPhase = "next" /\ RyReturn(rxFileData)
<1>1. CASE RyName
  BY <1>1 DEF RyName, NameArrived, RyDecode, RyReturn
<1>2. CASE RyNameBad \/ RyRepeat
  BY <1>2 DEF RyNameBad, RyRepeat, RyRefuse, rxVars, ryVars
<1>3. CASE RyNameOther \/ RyNameTimeout
  BY <1>3 DEF RyNameOther, RyNameTimeout, RyReturn, rxVars
<1>4. CASE RyBlockNextFile \/ RyNextTimeout
  BY <1>4 DEF RyBlockNextFile, RyNextTimeout
<1>5. CASE RyStart \/ RyNextFile
  BY <1>5 DEF RyStart, RyNextFile
<1>6. CASE RyRepeatTimeout \/ UNCHANGED ryVars
  BY <1>6 DEF RyRepeatTimeout, ryVars
<1>. QED  BY <1>1, <1>2, <1>3, <1>4, <1>5, <1>6
          DEF YRxNext, RyReceives, RyTimeouts

(* Once it has returned, nothing changes any more.                         *)
LEMMA ReturnedIsFrozen ==
  ASSUME YNext, ryPhase = "done"
  PROVE  UNCHANGED rxVars /\ UNCHANGED ryVars
<1>1. CASE YRxNext
  BY <1>1 DEF YRxNext, RyStart, RyReceives, RyName, NameArrived, RyNameBad,
              RyNameOther, RyRepeat, RyBlockNextFile, RyTimeouts,
              RyNameTimeout, RyRepeatTimeout, RyNextTimeout, RyNextFile
<1>. QED  BY <1>1 DEF YNext, YTxNext, LineNoise, YTerminated, yVars, vars

LEMMA ExactKept ==
  ASSUME YWindowInv, YFaultlessInv, YFaultlessInv', YTimelyInv, YTimelyInv',
         ExactCopy, [YNext]_yVars
  PROVE  ExactCopy'
<1>1. FileSize' = FileSize /\ NbBlocks' = NbBlocks
  BY YFileKept, FrozenFile, FrozenBlocks
<1>2. CASE UNCHANGED rxVars /\ UNCHANGED ryVars
  BY <1>1, <1>2 DEF ExactCopy, RyDone, RyResult, rxVars, ryVars
<1>3. CASE ryPhase' # "done"
  BY <1>3 DEF ExactCopy, RyDone
<1>4. CASE YRxNext /\ ryPhase # "done" /\ ryPhase' = "done"
  <2>. SUFFICES ASSUME RyResult' >= 0
                PROVE  /\ Len(rxData') = NbBlocks
                       /\ "filesize" \in rxFileData'.valid =>
                            rxRam'.write_offset = FileSize
    BY <1>1 DEF ExactCopy, RyDone
  <2>1. rxpc' # "idle"
    BY DEF RyResult
  <2>2. ryPhase = "next" /\ RyReturn(rxFileData)
    BY <1>4, <2>1, ReturnsByRyReturn, YSideFacts
  <2>3. /\ rxpc' = rxpc /\ rxpc = "done"
        /\ receivedBytes' = receivedBytes /\ rxData' = rxData
        /\ rxFileData' = rxFileData /\ RyResult = receivedBytes
    BY <2>2 DEF RyReturn, YTimelyInv, YOneUnderWay, RyResult
  <2>4. RxSucceeded
    BY <2>3 DEF RyResult, RxSucceeded
  <2>5. Len(rxData) = NbBlocks
    BY <2>4 DEF YTimelyInv, YOutcome
  <2>6. /\ receivedBytes = rxRam.write_offset
        /\ rxRam.write_offset <= rxRam.max_size
    BY <2>2, <2>4 DEF YFaultlessInv, BlocksWritten
  <2>7. /\ FileSize <= rxRam.write_offset
        /\ FileSize \in Nat /\ rxRam \in RamFileType
    BY <2>2, <2>5, AllWritten, YWindowTypes
  <2>8. ASSUME "filesize" \in rxFileData.valid
        PROVE  rxRam'.write_offset = FileSize
    <3>1. rxFileData.size = FileSize
      BY <2>8 DEF YFaultlessInv, SizeKnown
    <3>2. CASE RyResult = 0
      BY <2>2, <2>3, <2>6, <2>7, <3>2 DEF RyReturn, RamFileType
    <3>3. CASE RyResult # 0
      <4>1. rxRam' = lmodem_buffer_set_write_offset(rxRam, FileSize)
        BY <2>2, <2>8, <3>1, <3>3 DEF RyReturn
      <4>2. FileSize <= rxRam.max_size
        BY <2>6, <2>7 DEF RamFileType
      <4>. QED  BY <2>7, <4>1, <4>2
                DEF lmodem_buffer_set_write_offset, RamFileType
    <3>. QED  BY <3>2, <3>3
  <2>. QED  BY <2>3, <2>5, <2>8
<1>5. CASE UNCHANGED yVars
  BY <1>2, <1>5 DEF yVars, vars
<1>6. CASE YNext /\ ryPhase = "done"
  BY <1>2, <1>6, ReturnedIsFrozen
<1>7. CASE YTxNext \/ LineNoise
  BY <1>2, <1>7 DEF YTxNext, LineNoise
<1>. QED  BY <1>3, <1>4, <1>5, <1>6, <1>7 DEF YNext, YTerminated

(* Whatever the line loses or damages, when lymodem_receive returns a      *)
(* number of bytes its file is the emitter's: every block of it, and with  *)
(* the padding of the last one cut off when a size was announced; provided *)
(* no answer is late, and a named file has its size told.                  *)
THEOREM ExactWhenInTime ==
  ASSUME YOnTime, SizesTold
  PROVE  YSpec => []ExactCopy
<1>1. YInit => ExactCopy
  BY DEF YInit, RyInit, ExactCopy, RyDone
<1>2. YWindowInv /\ YFaultlessInv /\ YFaultlessInv' /\ YTimelyInv /\
      YTimelyInv' /\ ExactCopy /\ [YNext]_yVars => ExactCopy'
  BY ExactKept
<1>. QED  BY <1>1, <1>2, YWindowIsInvariant, YFaultlessIsInvariant,
             YTimelyIsInvariant, PTL DEF YSpec

-----------------------------------------------------------------------------
(***************************************************************************)
(* The refinement.                                                         *)
(***************************************************************************)
(* What a step does to the receiver's file and to the state of             *)
(* lxmodem_receive: nothing, or one block stored, or an end.               *)
LEMMA CopyGrowsByOne ==
  ASSUME YNext
  PROVE  \/ rxData' = rxData /\ rxpc' = rxpc /\ receivedBytes' = receivedBytes
         \/ /\ rxpc # "done" /\ rxpc' # "done"
            /\ \/ rxData' = rxData
               \/ rxData' = Append(rxData, ChunkIn(Head(toRx)))
         \/ rxpc # "done" /\ rxpc' = "done" /\ rxData' = rxData
<1>1. CASE RyStart \/ RyReceives \/ RyTimeouts \/ RyNextFile
  BY <1>1 DEF RyStart, RyReceives, RyName, RyDecode, RyNameBad,
              RyNameOther, RyRepeat, RyBlockNextFile, RyTimeouts,
              RyNameTimeout, RyRepeatTimeout, RyNextTimeout, RyNextFile,
              RyRefuse, RyReturn, rxVars
<1>2. CASE RxStart
  BY <1>2 DEF RxStart
<1>3. CASE RxStore
  BY <1>3 DEF RxStore, BlockArrived, Reading
<1>4. CASE RxOverflow \/ RxEot
  BY <1>4 DEF RxOverflow, RxEot, BlockArrived, Reading
<1>5. CASE RxRefuse \/ RxCan \/ RxUnknown \/ RxTimeout
  <2>1. /\ rxpc = "header" /\ rxData' = rxData
        /\ rxpc' = rxpc \/ rxpc' = "done"
    BY <1>5 DEF RxRefuse, RxCan, RxUnknown, RxTimeout, RxError, BlockArrived,
                Reading
  <2>. QED  BY <2>1
<1>6. CASE UNCHANGED rxVars
  BY <1>6 DEF rxVars
<1>. QED  BY <1>1, <1>2, <1>3, <1>4, <1>5, <1>6
          DEF YNext, YRxNext, YTxNext, RxReceives, LineNoise, YTerminated,
              yVars, vars

LEMMA YStepsRefine ==
  ASSUME YWindowInv, YWindowInv', YTimelyInv, YTimelyInv', [YNext]_yVars
  PROVE  [FT!Next]_(FT!ftVars)
<1>. DEFINE file == [k \in 1 .. NbBlocks |-> BlockOf(k)]
            status == IF rxpc # "done" THEN "running"
                      ELSE IF receivedBytes >= 0 THEN "complete" ELSE "failed"
<1>1. file' = file /\ NbBlocks' = NbBlocks /\ \A k : BlockOf(k)' = BlockOf(k)
  <2>1. txOpts' = txOpts /\ txRam'.write_offset = txRam.write_offset
    BY YFileKept
  <2>. QED  BY <2>1, FrozenFile, FrozenBlocks
<1>2. /\ NbBlocks \in Nat /\ rxData \in Seq(Chunk) /\ rxData' \in Seq(Chunk)
      /\ Len(file) = NbBlocks /\ DOMAIN file = 1 .. NbBlocks
      /\ \A k \in 1 .. NbBlocks : file[k] = BlockOf(k)
  <2>1. NbBlocks \in Nat /\ rxData \in Seq(Chunk)
    BY YTimelyTypes
  <2>2. rxData' \in Seq(Chunk)
    BY DEF YWindowInv, YTypeOK, TypeOK, RxTypeOK
  <2>. QED  BY <2>1, <2>2
<1>3. CASE rxData' = rxData /\ status' = status
  BY <1>1, <1>3 DEF FT!ftVars
<1>4. ASSUME rxpc # "done", rxpc' # "done",
             rxData' = Append(rxData, ChunkIn(Head(toRx)))
      PROVE  [FT!Next]_(FT!ftVars)
  <2>. DEFINE n == Len(rxData) + 1
  <2>1. /\ n \in Nat \ {0} /\ Len(rxData') = n /\ n \in DOMAIN rxData'
        /\ rxData' = Append(rxData, rxData'[n])
    BY <1>2, <1>4
  <2>2. rxData'[n] = BlockOf(n)
    <3>1. (\A k \in DOMAIN rxData : rxData[k] = BlockOf(k))'
      BY DEF YWindowInv, CopyIsPrefix
    <3>2. \A k \in DOMAIN rxData' : rxData'[k] = BlockOf(k)
      BY <1>1, <3>1 DEF BlockOf
    <3>. QED  BY <2>1, <3>2
  <2>3. n <= NbBlocks
    <3>1. Len(rxData') <= NbBlocks'
      BY DEF YTimelyInv, YOutcome
    <3>. QED  BY <1>1, <2>1, <3>1
  <2>4. Len(rxData) < Len(file) /\ file[n] = rxData'[n]
    BY <1>2, <2>1, <2>2, <2>3
  <2>5. status = "running" /\ status' = "running"
    BY <1>4
  <2>. HIDE DEF file
  <2>6. rxData' = Append(rxData, file[Len(rxData) + 1])
    BY <2>1, <2>4
  <2>. QED  BY <1>1, <2>4, <2>5, <2>6 DEF FT!Next, FT!StoreNext, file
<1>5. ASSUME rxpc # "done", rxpc' = "done", rxData' = rxData
      PROVE  [FT!Next]_(FT!ftVars)
  <2>1. CASE receivedBytes' >= 0
    <3>1. Len(rxData) = NbBlocks
      <4>1. RxSucceeded'
        BY <1>5, <2>1 DEF RxSucceeded
      <4>2. Len(rxData') = NbBlocks'
        BY <4>1 DEF YTimelyInv, YOutcome
      <4>. QED  BY <1>1, <1>5, <4>2
    <3>2. rxData = file
      BY <1>2, <3>1 DEF YWindowInv, CopyIsPrefix
    <3>. QED  BY <1>1, <1>5, <2>1, <3>2 DEF FT!Next, FT!Complete
  <2>2. CASE ~(receivedBytes' >= 0)
    BY <1>1, <1>5, <2>2 DEF FT!Next, FT!Fail
  <2>. QED  BY <2>1, <2>2
<1>6. CASE YNext
  <2>1. CASE rxData' = rxData /\ rxpc' = rxpc /\ receivedBytes' = receivedBytes
    <3>1. status' = status
      BY <2>1
    <3>. QED  BY <1>3, <2>1, <3>1
  <2>2. CASE rxpc # "done" /\ rxpc' # "done" /\ rxData' = rxData
    <3>1. status' = status
      BY <2>2
    <3>. QED  BY <1>3, <2>2, <3>1
  <2>3. CASE /\ rxpc # "done" /\ rxpc' # "done"
             /\ rxData' = Append(rxData, ChunkIn(Head(toRx)))
    BY <1>4, <2>3
  <2>4. CASE rxpc # "done" /\ rxpc' = "done" /\ rxData' = rxData
    BY <1>5, <2>4
  <2>. HIDE DEF file, status
  <2>. QED  BY <1>6, <2>1, <2>2, <2>3, <2>4, CopyGrowsByOne
<1>7. CASE UNCHANGED yVars
  <2>1. rxData' = rxData /\ status' = status
    BY <1>7 DEF yVars, vars, rxVars
  <2>. QED  BY <1>3, <2>1
<1>. QED  BY <1>6, <1>7

(* A YMODEM transfer without late answers implements the abstract file     *)
(* transfer, too: the copy grows by the next block of the file, and        *)
(* lxmodem_receive reports it complete only when it is the whole file.     *)
THEOREM YRefinesFileTransfer ==
  ASSUME YOnTime
  PROVE  YSpec => ImplementsFileTransfer
<1>1. YInit => FT!Init
  BY DEF YInit, RxInit, FT!Init
<1>2. YWindowInv /\ YWindowInv' /\ YTimelyInv /\ YTimelyInv' /\
      [YNext]_yVars => [FT!Next]_(FT!ftVars)
  BY YStepsRefine
<1>. QED  BY <1>1, <1>2, YWindowIsInvariant, YTimelyIsInvariant, PTL
          DEF YSpec, ImplementsFileTransfer, FT!Spec
=============================================================================
