------------------------ MODULE YModemFaultlessProofs ------------------------
(***************************************************************************)
(* Proofs about a YMODEM transfer over a line without faults, with answers *)
(* that may be late: the file that lymodem_receive reports is the          *)
(* emitter's, to the byte, when the emitter's user told its size.          *)
(***************************************************************************)
EXTENDS YModemLinkProofs

(***************************************************************************)
(* Frames that follow each other.                                          *)
(***************************************************************************)
(* Without the first one, they follow whatever number it had.              *)
LEMMA ConsecutiveBehindFirst ==
  ASSUME NEW q \in Seq(Frame), q # <<>>, NEW last \in Nat, NEW m \in Nat,
         IsNumbered(Head(q)) => Head(q).seq <= m, Consecutive(q, last)
  PROVE  /\ Consecutive(Tail(q), m)
         /\ \A n \in Nat : EndAt(q, n, last) => EndAt(Tail(q), n, m)
<1>. DEFINE t == Tail(q)
<1>1. /\ t \in Seq(Frame) /\ Len(t) = Len(q) - 1
      /\ \A i \in DOMAIN t :
           i \in Nat /\ i + 1 \in DOMAIN q /\ t[i] = q[i + 1]
      /\ 1 \in DOMAIN q /\ Head(q) = q[1] /\ Len(q) \in Nat \ {0}
  BY TailFrames
<1>. HIDE DEF t
<1>2. ASSUME NEW i \in DOMAIN t, IsNumbered(t[i]),
             t[i].seq > 1
      PROVE  IF i = 1 THEN t[i].seq <= m + 1
             ELSE /\ IsNumbered(t[i - 1])
                  /\ t[i].seq <= t[i - 1].seq + 1
  <2>1. /\ i \in Nat /\ i + 1 \in DOMAIN q /\ t[i] = q[i + 1]
        /\ i + 1 # 1 /\ (i + 1) - 1 = i /\ i \in 1 .. Len(t)
    BY <1>1
  <2>2. IsNumbered(q[i]) /\ q[i + 1].seq <= q[i].seq + 1
    BY <1>2, <2>1 DEF Consecutive
  <2>3. CASE i = 1
    <3>1. q[1].seq <= m /\ q[1].seq \in Nat /\ q[2].seq \in Nat
      BY <1>1, <2>1, <2>2, <2>3, FrameTypes
    <3>. QED  BY <2>1, <2>2, <2>3, <3>1
  <2>4. CASE i # 1
    <3>1. i - 1 \in DOMAIN t /\ (i - 1) + 1 = i
      BY <1>1, <2>1, <2>4
    <3>2. t[i - 1] = q[i]
      BY <1>1, <3>1
    <3>. QED  BY <2>1, <2>2, <2>4, <3>2
  <2>. QED  BY <2>3, <2>4
<1>3. ASSUME NEW n \in Nat, EndAt(q, n, last)
      PROVE  EndAt(t, n, m)
  <2>1. IsNumbered(q[Len(q)]) /\ q[Len(q)].seq = n
    BY <1>3 DEF EndAt
  <2>2. CASE t = <<>>
    <3>1. Len(q) = 1
      BY <1>1, <2>2
    <3>2. IsNumbered(Head(q)) /\ Head(q).seq = n
      BY <1>1, <2>1, <3>1
    <3>3. n <= m
      BY <3>2
    <3>. QED  BY <2>2, <3>3 DEF EndAt
  <2>3. CASE t # <<>>
    <3>1. Len(t) \in DOMAIN t /\ Len(t) + 1 = Len(q)
      BY <1>1, <2>3
    <3>2. t[Len(t)] = q[Len(q)]
      BY <1>1, <3>1
    <3>. QED  BY <2>1, <2>3, <3>2 DEF EndAt
  <2>. QED  BY <2>2, <2>3
<1>. QED  BY <1>2, <1>3 DEF Consecutive, t

(* One more, right behind the last or the last again.                      *)
LEMMA ConsecutiveWithOneMore ==
  ASSUME NEW q \in Seq(Frame), NEW g \in Frame, NEW last \in Nat,
         Consecutive(q, last), IsNumbered(g),
         g.seq > 1 => \E n \in Nat : EndAt(q, n, last) /\ g.seq <= n + 1
  PROVE  Consecutive(Append(q, g), last) /\ EndAt(Append(q, g), g.seq, last)
<1>. DEFINE r == Append(q, g)
<1>1. /\ r \in Seq(Frame) /\ Len(r) = Len(q) + 1 /\ Len(q) \in Nat
      /\ \A i \in DOMAIN r :
           /\ i \in Nat
           /\ \/ i \in DOMAIN q /\ i <= Len(q) /\ r[i] = q[i]
              \/ i = Len(q) + 1 /\ r[i] = g
  BY AppendedFrames
<1>2. g.seq \in Nat /\ r[Len(q) + 1] = g /\ \A i \in DOMAIN q : r[i] = q[i]
  BY DEF Frame
<1>3. DOMAIN q = 1 .. Len(q) /\ DOMAIN r = 1 .. Len(q) + 1 /\ r # <<>>
  BY <1>1
<1>. HIDE DEF r
<1>4. ASSUME NEW i \in DOMAIN r, IsNumbered(r[i]), r[i].seq > 1
      PROVE  IF i = 1 THEN r[i].seq <= last + 1
             ELSE IsNumbered(r[i - 1]) /\ r[i].seq <= r[i - 1].seq + 1
  <2>1. CASE i \in DOMAIN q
    <3>1. i = 1 \/ i - 1 \in DOMAIN q
      BY <1>3, <2>1
    <3>2. r[i] = q[i] /\ (i = 1 \/ r[i - 1] = q[i - 1])
      BY <1>2, <2>1, <3>1
    <3>. QED  BY <1>4, <2>1, <3>2 DEF Consecutive
  <2>2. CASE i = Len(q) + 1
    <3>1. PICK n \in Nat : EndAt(q, n, last) /\ g.seq <= n + 1
      BY <1>2, <1>4, <2>2
    <3>2. CASE q = <<>>
      <4>1. n <= last /\ i = 1
        BY <2>2, <3>1, <3>2 DEF EndAt
      <4>. QED  BY <1>2, <2>2, <3>1, <4>1
    <3>3. CASE q # <<>>
      <4>1. /\ Len(q) \in DOMAIN q /\ i # 1 /\ i - 1 = Len(q)
        BY <1>1, <1>3, <2>2, <3>3
      <4>2. IsNumbered(q[Len(q)]) /\ q[Len(q)].seq = n
        BY <3>1, <3>3 DEF EndAt
      <4>. QED  BY <1>2, <2>2, <3>1, <4>1, <4>2
    <3>. QED  BY <3>2, <3>3
  <2>. QED  BY <1>1, <2>1, <2>2
<1>5. Consecutive(r, last)
  BY <1>4 DEF Consecutive
<1>6. EndAt(r, g.seq, last)
  BY <1>1, <1>2, <1>3 DEF EndAt
<1>. QED  BY <1>5, <1>6 DEF r

(* Frames of the numbers 0 and 1 can come in any order.                    *)
LEMMA FirstFramesConsecutive ==
  ASSUME NEW q \in Seq(Frame), \A i \in DOMAIN q : q[i].seq <= 1
  PROVE  \A last : Consecutive(q, last)
<1>. SUFFICES ASSUME NEW i \in DOMAIN q
              PROVE  ~(q[i].seq > 1)
  BY DEF Consecutive
<1>1. q[i].seq \in Nat /\ q[i].seq <= 1
  BY FrameTypes
<1>. QED  BY <1>1

(***************************************************************************)
(* What no step changes, and the number of faults.                         *)
(***************************************************************************)
LEMMA YPutsCountFaults ==
  /\ \A s : PutChars(s) => faults' \in {faults, faults + 1}
  /\ \A f : PutFrame(f) => faults' \in {faults, faults + 1}
  /\ \A seq : PutCancelFrames(seq) => faults' \in {faults, faults + 1}
BY DEF PutChars, PutFrame, PutCancelFrames, Fault

(* The line does not get better.                                           *)
LEMMA NoFaultBefore ==
  ASSUME YWindowInv, faults' \in {faults, faults + 1}
  PROVE  faults' = 0 => faults = 0
<1>1. faults \in Nat
  BY YWindowTypes
<1>. QED  BY <1>1

(* What the invariants say of the receiver and of the file.                *)
LEMMA YFaultlessFacts ==
  ASSUME YWindowInv, YFaultlessInv
  PROVE  /\ NbBlocks \in Nat /\ FileSize \in Nat
         /\ expectedBlkNumber - 1 \in Nat
         /\ Listening => Len(rxData) = expectedBlkNumber - 1
         /\ Listening /\ rxpc = "idle" =>
              ~DataSent /\ txpc # "reply" /\ expectedBlkNumber = 1
         /\ ryPhase \in {"start", "name", "repeat"} => rxpc = "idle"
         /\ ryPhase \in {"next", "done"} => rxpc # "header"
         /\ rxpc \in {"idle", "header", "done"}
<1>1. FileSize \in Nat /\ expectedBlkNumber \in Nat \ {0}
  BY YWindowTypes
<1>2. NbBlocks \in Nat
  BY <1>1, BlockIffBytesLeft
<1>3. Listening => Len(rxData) = expectedBlkNumber - 1
  BY DEF YWindowInv, BlocksInWindow
<1>4. Listening /\ rxpc = "idle" => ~DataSent /\ txpc # "reply"
  BY DEF YWindowInv, CallsInOrder
<1>5. /\ rxpc = "idle" => expectedBlkNumber = 1
      /\ ryPhase \in {"start", "name", "repeat"} => rxpc = "idle"
  BY DEF YWindowInv, YReceiverRunning
<1>6. ryPhase \in {"next", "done"} => rxpc # "header"
  BY DEF YFaultlessInv, BlocksWritten
<1>7. rxpc \in {"idle", "header", "done"}
  BY DEF YWindowInv, YTypeOK, TypeOK, RxTypeOK
<1>. QED  BY <1>1, <1>2, <1>3, <1>4, <1>5, <1>6, <1>7

(* Before the second data block every order is the right one.              *)
LEMMA FirstFramesFollow ==
  ASSUME toRx' \in Seq(Frame), txpc' # "reply",
         expectedBlkNumber' - 1 <= NbBlocks',
         \A i \in DOMAIN toRx' : toRx'[i].seq <= 1
  PROVE  EachFollows'
<1>1. Consecutive(toRx', expectedBlkNumber' - 1)
  BY FirstFramesConsecutive
<1>. QED  BY <1>1 DEF EachFollows

-----------------------------------------------------------------------------
(* A step of the receiver takes at most one frame off the line.            *)
LEMMA ReceiverFaultless ==
  ASSUME YWindowInv, YFaultlessInv, UNCHANGED txVars, UNCHANGED tyVars,
         toRx' = toRx \/ (toRx # <<>> /\ toRx' = Tail(toRx)),
         faults' \in {faults, faults + 1},
         "filesize" \in rxFileData'.valid => rxFileData'.size = FileSize,
         Listening' /\ faults' = 0 => EachFollows',
         BlocksWritten', CompleteWithoutFaults', ExactWithoutFaults'
  PROVE  YFaultlessInv'
<1>1. /\ FileSize' = FileSize /\ NbBlocks' = NbBlocks
      /\ blk_buffer' = blk_buffer /\ txpc' = txpc
      /\ txFileData' = txFileData /\ tyPhase' = tyPhase
  BY FrozenFile, FrozenBlocks DEF txVars, tyVars
<1>2. \A i \in DOMAIN toRx' : \E j \in DOMAIN toRx : toRx'[i] = toRx[j]
  <2>1. toRx \in Seq(Frame)
    BY YWindowTypes
  <2>2. CASE toRx # <<>> /\ toRx' = Tail(toRx)
    BY <2>1, <2>2, TailFrames
  <2>. QED  BY <2>2
<1>3. SizeKnown'
  <2>1. (\A i \in DOMAIN toRx : NameTold(toRx[i]))'
    <3>1. \A j \in DOMAIN toRx : NameTold(toRx[j])
      BY DEF YFaultlessInv, SizeKnown
    <3>. QED  BY <1>1, <1>2, <3>1 DEF NameTold
  <2>2. NameTold(blk_buffer)'
    BY <1>1 DEF YFaultlessInv, SizeKnown, NameTold
  <2>. QED  BY <1>1, <2>1, <2>2 DEF YFaultlessInv, SizeKnown
<1>4. FramesUntouched'
  <2>1. (faults = 0 => \A i \in DOMAIN toRx : Untouched(toRx[i]))'
    <3>1. faults' = 0 => \A j \in DOMAIN toRx : Untouched(toRx[j])
      BY NoFaultBefore DEF YFaultlessInv, FramesUntouched
    <3>. QED  BY <1>1, <1>2, <3>1 DEF Untouched
  <2>2. Untouched(blk_buffer)'
    BY <1>1 DEF YFaultlessInv, FramesUntouched, Untouched
  <2>. QED  BY <1>1, <2>1, <2>2 DEF YFaultlessInv, FramesUntouched
<1>. QED  BY <1>3, <1>4 DEF YFaultlessInv

(* What is kept where the receiver stores nothing.                         *)
LEMMA CompleteStays ==
  ASSUME YWindowInv, YFaultlessInv, UNCHANGED txVars,
         faults' \in {faults, faults + 1},
         UNCHANGED <<rxpc, rxData, receivedBytes>>
  PROVE  CompleteWithoutFaults'
<1>1. NbBlocks' = NbBlocks
  BY FrozenBlocks DEF txVars
<1>. QED  BY <1>1, NoFaultBefore
          DEF YFaultlessInv, CompleteWithoutFaults, CompleteOnSuccess,
              RxSucceeded

(* Before and after lxmodem_receive.                                       *)
LEMMA AroundFaultless ==
  ASSUME YWindowInv, YFaultlessInv,
         UNCHANGED txVars, UNCHANGED tyVars, UNCHANGED rxVars,
         toRx' = toRx \/ (toRx # <<>> /\ toRx' = Tail(toRx)),
         faults' \in {faults, faults + 1},
         "filesize" \in rxFileData'.valid => rxFileData'.size = FileSize,
         ryPhase # "done", ryPhase' # "done",
         ryPhase' = "next" => rxpc # "header",
         Listening' => Listening /\ rxpc = "idle"
  PROVE  YFaultlessInv'
<1>1. /\ rxpc' = rxpc /\ expectedBlkNumber' = expectedBlkNumber
      /\ rxRam' = rxRam /\ rxData' = rxData /\ receivedBytes' = receivedBytes
      /\ txpc' = txpc /\ DataSent' = DataSent
      /\ FileSize' = FileSize /\ defaultBlksize' = defaultBlksize
      /\ NbBlocks' = NbBlocks
  BY FrozenFile, FrozenBlocks DEF rxVars, txVars, DataSent
<1>2. ASSUME Listening', faults' = 0
      PROVE  EachFollows'
  <2>1. /\ faults = 0 /\ Listening /\ rxpc = "idle" /\ ~DataSent
        /\ txpc' # "reply" /\ toRx \in Seq(Frame)
    BY <1>1, <1>2, NoFaultBefore, YFaultlessFacts, YWindowTypes
  <2>2. EachFollows
    BY <2>1 DEF YFaultlessInv
  <2>3. /\ \A i \in DOMAIN toRx : toRx[i].seq <= 1
        /\ expectedBlkNumber' - 1 <= NbBlocks'
    BY <1>1, <2>1, <2>2 DEF EachFollows
  <2>4. toRx' \in Seq(Frame) /\ \A i \in DOMAIN toRx' : toRx'[i].seq <= 1
    <3>1. CASE toRx' = toRx
      BY <2>1, <2>3, <3>1
    <3>2. CASE toRx # <<>> /\ toRx' = Tail(toRx)
      BY <2>1, <2>3, <3>2, TailFrames
    <3>. QED  BY <3>1, <3>2
  <2>. QED  BY <2>1, <2>3, <2>4, FirstFramesFollow
<1>3. BlocksWritten'
  BY <1>1 DEF YFaultlessInv, BlocksWritten, RxSucceeded, Smaller
<1>4. CompleteWithoutFaults'
  BY <1>1, CompleteStays
<1>5. ExactWithoutFaults'
  BY DEF ExactWithoutFaults, ExactCopy, RyDone
<1>. QED  BY <1>2, <1>3, <1>4, <1>5, ReceiverFaultless

(* The file has at least the bytes of the emitter's when every block is in *)
(* it.                                                                     *)
LEMMA AllWritten ==
  ASSUME YWindowInv, YFaultlessInv, ryPhase # "done", Len(rxData) = NbBlocks
  PROVE  FileSize <= rxRam.write_offset
<1>1. /\ FileSize \in Nat /\ NbBlocks \in Nat /\ defaultBlksize \in Nat
      /\ rxRam.write_offset \in Nat
  BY YFaultlessFacts, BlksizeType, YWindowTypes DEF RamFileType
<1>2. ~(NbBlocks * defaultBlksize < FileSize)
  <2>1. (NbBlocks + 1) - 1 = NbBlocks /\ NbBlocks + 1 \in Nat \ {0}
        /\ ~(NbBlocks + 1 <= NbBlocks)
    BY <1>1
  <2>. QED  BY <1>1, <2>1, BlockIffBytesLeft
<1>3. rxRam.write_offset >= Smaller(FileSize, NbBlocks * defaultBlksize)
  BY DEF YFaultlessInv, BlocksWritten
<1>4. NbBlocks * defaultBlksize \in Nat
  BY <1>1, TimesMonotone
<1>. DEFINE all == NbBlocks * defaultBlksize
<1>. HIDE DEF all
<1>5. Smaller(FileSize, all) = FileSize
  BY <1>1, <1>2, <1>4 DEF Smaller, all
<1>. QED  BY <1>1, <1>3, <1>5 DEF all

(* The end of lymodem_receive.                                             *)
LEMMA ReturnFaultless ==
  ASSUME YWindowInv, YFaultlessInv, UNCHANGED txVars, UNCHANGED tyVars,
         toRx' = toRx \/ (toRx # <<>> /\ toRx' = Tail(toRx)),
         faults' \in {faults, faults + 1},
         ryPhase \in {"name", "repeat", "next"}, ryPhase' = "done",
         NEW fileData, rxFileData' = fileData,
         "filesize" \in fileData.valid => fileData.size = FileSize,
         \/ UNCHANGED rxVars /\ rxpc = "idle"
         \/ RyReturn(fileData)
  PROVE  YFaultlessInv'
<1>1. /\ rxpc' = rxpc /\ rxData' = rxData /\ receivedBytes' = receivedBytes
      /\ rxpc # "header" /\ RyResult' = RyResult
      /\ FileSize' = FileSize /\ NbBlocks' = NbBlocks
  BY YFaultlessFacts, FrozenFile, FrozenBlocks
  DEF rxVars, txVars, RyReturn, RyResult
<1>2. CompleteWithoutFaults' /\ ~Listening'
  BY <1>1, CompleteStays DEF Listening
<1>3. BlocksWritten'
  BY <1>1 DEF BlocksWritten
<1>4. ExactWithoutFaults'
  <2>. SUFFICES ASSUME faults' = 0, RyResult >= 0
                PROVE  /\ Len(rxData) = NbBlocks
                       /\ "filesize" \in fileData.valid =>
                            rxRam'.write_offset = FileSize
    BY <1>1 DEF ExactWithoutFaults, ExactCopy, RyDone
  <2>1. rxpc = "done" /\ RyResult = receivedBytes
    BY <1>1, YFaultlessFacts DEF RyResult
  <2>2. RxSucceeded /\ faults = 0
    BY <2>1, NoFaultBefore DEF RxSucceeded
  <2>3. Len(rxData) = NbBlocks
    BY <2>2 DEF YFaultlessInv, CompleteWithoutFaults, CompleteOnSuccess
  <2>4. /\ receivedBytes = rxRam.write_offset
        /\ rxRam.write_offset <= rxRam.max_size
    BY <2>2 DEF YFaultlessInv, BlocksWritten
  <2>5. /\ FileSize <= rxRam.write_offset
        /\ FileSize \in Nat /\ rxRam \in RamFileType
    BY <2>3, AllWritten, YWindowTypes
  <2>6. RyReturn(fileData)
    BY <2>1
  <2>7. ASSUME "filesize" \in fileData.valid
        PROVE  rxRam'.write_offset = FileSize
    <3>1. CASE RyResult = 0
      BY <2>1, <2>4, <2>5, <2>6, <3>1 DEF RyReturn, RamFileType
    <3>2. CASE RyResult # 0
      <4>1. rxRam' = lmodem_buffer_set_write_offset(rxRam, FileSize)
        BY <2>6, <2>7, <3>2 DEF RyReturn
      <4>2. FileSize <= rxRam.max_size
        BY <2>4, <2>5 DEF RamFileType
      <4>. QED  BY <2>5, <4>1, <4>2
                DEF lmodem_buffer_set_write_offset, RamFileType
    <3>. QED  BY <3>1, <3>2
  <2>. QED  BY <2>3, <2>7
<1>. QED  BY <1>2, <1>3, <1>4, ReceiverFaultless

(***************************************************************************)
(* Steps of lymodem_receive around the loop.                               *)
(***************************************************************************)
(* What a name block that the emitter built is decoded to.                 *)
LEMMA DecodedSize ==
  ASSUME NEW f \in Frame, IsBlock(f), NameTold(f),
         NEW decoded \in lymodem_decode_block0(f.meta)
  PROVE  "filesize" \in decoded.data.valid => decoded.data.size = FileSize
<1>1. CASE ~f.meta.name
  <2>1. decoded.data = NoFileData
    BY <1>1 DEF lymodem_decode_block0
  <2>. QED  BY <2>1 DEF NoFileData
<1>2. CASE f.meta.name
  <2>1. f.meta.fields > 0 /\ f.meta.size = FileSize
    BY <1>2 DEF NameTold
  <2>2. decoded.data.size = f.meta.size
    BY <1>2, <2>1 DEF lymodem_decode_block0
  <2>. QED  BY <2>1, <2>2
<1>. QED  BY <1>1, <1>2

LEMMA RyNameFaultless ==
  ASSUME YWindowInv, YFaultlessInv, UNCHANGED txVars, UNCHANGED tyVars, RyName
  PROVE  YFaultlessInv'
<1>1. /\ ryPhase = "name" /\ toRx # <<>> /\ IsBlock(Head(toRx))
      /\ toRx' = Tail(toRx) /\ faults' \in {faults, faults + 1}
  BY YPutsCountFaults DEF RyName, NameArrived
<1>2. Head(toRx) \in Frame /\ NameTold(Head(toRx))
  <2>1. 1 \in DOMAIN toRx /\ Head(toRx) = toRx[1] /\ Head(toRx) \in Frame
    BY <1>1, YWindowTypes, TailFrames
  <2>. QED  BY <2>1 DEF YFaultlessInv, SizeKnown
<1>3. PICK decoded \in lymodem_decode_block0(Head(toRx).meta) :
        \/ /\ decoded.ok
           /\ ryPhase' = "contents"
           /\ rxFileData' = decoded.data
           /\ UNCHANGED rxVars
        \/ ~decoded.ok /\ RyReturn(decoded.data)
  BY DEF RyName, RyDecode
<1>4. "filesize" \in decoded.data.valid => decoded.data.size = FileSize
  BY <1>1, <1>2, <1>3, DecodedSize
<1>5. rxpc = "idle" /\ Listening
  BY <1>1, YFaultlessFacts DEF Listening
<1>6. CASE /\ ryPhase' = "contents"
           /\ rxFileData' = decoded.data
           /\ UNCHANGED rxVars
  BY <1>1, <1>4, <1>5, <1>6, AroundFaultless
<1>7. CASE RyReturn(decoded.data)
  <2>1. ryPhase' = "done" /\ rxFileData' = decoded.data
    BY <1>7 DEF RyReturn
  <2>. QED  BY <1>1, <1>4, <1>7, <2>1, ReturnFaultless
<1>. QED  BY <1>3, <1>6, <1>7

(* A name block is refused, or something else is read in its place.        *)
LEMMA RyRefuseFaultless ==
  ASSUME YWindowInv, YFaultlessInv, UNCHANGED txVars, UNCHANGED tyVars,
         ryPhase \in {"name", "repeat"}, toRx # <<>>,
         NEW status, NEW nth, RyRefuse(status, nth)
  PROVE  YFaultlessInv'
<1>1. /\ toRx' = Tail(toRx) /\ UNCHANGED rxVars /\ rxFileData' = rxFileData
      /\ faults' \in {faults, faults + 1} /\ ryPhase' \in {"repeat", "done"}
  BY YPutsCountFaults DEF RyRefuse
<1>2. "filesize" \in rxFileData.valid => rxFileData.size = FileSize
  BY DEF YFaultlessInv, SizeKnown
<1>3. CASE ryPhase' = "repeat"
  BY <1>1, <1>2, <1>3, AroundFaultless DEF Listening
<1>4. CASE ryPhase' = "done"
  BY <1>1, <1>2, <1>4, YFaultlessFacts, ReturnFaultless
<1>. QED  BY <1>1, <1>3, <1>4

(* Every other step outside the loop.                                      *)
LEMMA RyOtherFaultless ==
  ASSUME YWindowInv, YFaultlessInv, UNCHANGED txVars, UNCHANGED tyVars,
         \/ RyStart \/ RyNameBad \/ RyNameOther \/ RyRepeat
         \/ RyBlockNextFile \/ RyTimeouts \/ RyNextFile
  PROVE  YFaultlessInv'
<1>1. "filesize" \in rxFileData.valid => rxFileData.size = FileSize
  BY DEF YFaultlessInv, SizeKnown
<1>2. CASE RyStart
  <2>1. /\ ryPhase = "start" /\ ryPhase' = "name" /\ toRx' = toRx
        /\ UNCHANGED rxVars /\ rxFileData' = rxFileData
        /\ faults' \in {faults, faults + 1}
    BY <1>2, YPutsCountFaults DEF RyStart
  <2>2. rxpc = "idle" /\ Listening
    BY <2>1, YFaultlessFacts DEF Listening
  <2>. QED  BY <1>1, <2>1, <2>2, AroundFaultless
<1>3. CASE RyNameBad
  BY <1>3, RyRefuseFaultless DEF RyNameBad
<1>4. CASE RyNameOther \/ RyBlockNextFile
  <2>1. /\ ryPhase \in {"name", "next"} /\ ryPhase' = "done"
        /\ toRx # <<>> /\ toRx' = Tail(toRx)
        /\ RyReturn(rxFileData) /\ rxFileData' = rxFileData
        /\ faults' \in {faults, faults + 1}
    BY <1>4, YPutsCountFaults DEF RyNameOther, RyBlockNextFile, RyReturn
  <2>. QED  BY <1>1, <2>1, ReturnFaultless
<1>5. CASE RyRepeat
  <2>1. CASE IsBlock(Head(toRx)) /\ RyRefuse("ERROR", ryCount + 1)
    BY <1>5, <2>1, RyRefuseFaultless DEF RyRepeat
  <2>2. CASE toRx' = Tail(toRx) /\ UNCHANGED <<toTx, faults, rxVars, ryVars>>
    <3>1. /\ ryPhase = "repeat" /\ toRx # <<>> /\ ryPhase' = ryPhase
          /\ UNCHANGED rxVars /\ rxFileData' = rxFileData /\ faults' = faults
      BY <1>5, <2>2 DEF RyRepeat, ryVars
    <3>. QED  BY <1>1, <2>2, <3>1, AroundFaultless DEF Listening
  <2>. QED  BY <1>5, <2>1, <2>2 DEF RyRepeat
<1>6. CASE RyRepeatTimeout
  <2>1. /\ ryPhase = "repeat" /\ ryPhase' = ryPhase /\ toRx' = toRx
        /\ UNCHANGED rxVars /\ rxFileData' = rxFileData /\ faults' = faults
    BY <1>6 DEF RyRepeatTimeout, lineVars, ryVars
  <2>. QED  BY <1>1, <2>1, AroundFaultless DEF Listening
<1>7. CASE RyNameTimeout \/ RyNextTimeout
  <2>1. /\ ryPhase \in {"name", "next"} /\ toRx' = toRx /\ faults' = faults
        /\ \/ UNCHANGED <<ryPhase, rxVars, rxFileData>>
           \/ RyReturn(rxFileData)
    BY <1>7 DEF RyNameTimeout, RyNextTimeout, lineVars
  <2>2. CASE UNCHANGED <<ryPhase, rxVars, rxFileData>>
    <3>1. ryPhase = "next" => ~(Listening')
      BY <2>2 DEF Listening
    <3>2. ryPhase = "name" => rxpc = "idle" /\ Listening
      BY YFaultlessFacts DEF Listening
    <3>3. ryPhase = "next" => rxpc # "header"
      BY YFaultlessFacts
    <3>. QED  BY <1>1, <2>1, <2>2, <3>1, <3>2, <3>3, AroundFaultless
  <2>3. CASE RyReturn(rxFileData)
    <3>1. ryPhase' = "done" /\ rxFileData' = rxFileData
      BY <2>3 DEF RyReturn
    <3>. QED  BY <1>1, <2>1, <2>3, <3>1, ReturnFaultless
  <2>. QED  BY <2>1, <2>2, <2>3
<1>8. CASE RyNextFile
  <2>1. /\ ryPhase = "contents" /\ rxpc = "done" /\ ryPhase' = "next"
        /\ toRx' = toRx /\ UNCHANGED rxVars /\ rxFileData' = rxFileData
        /\ faults' \in {faults, faults + 1}
    BY <1>8, YPutsCountFaults DEF RyNextFile
  <2>. QED  BY <1>1, <2>1, AroundFaultless DEF Listening
<1>. QED  BY <1>2, <1>3, <1>4, <1>5, <1>6, <1>7, <1>8 DEF RyTimeouts

(***************************************************************************)
(* Steps of lxmodem_receive.                                               *)
(***************************************************************************)
(* The frame it reads: the next one, or one it has read before.            *)
LEMMA HeadFollows ==
  ASSUME YWindowInv, YFaultlessInv, faults = 0, EachFollows, toRx # <<>>
  PROVE  /\ Head(toRx) \in Frame /\ Head(toRx).seq \in Nat
         /\ Untouched(Head(toRx))
         /\ IsNumbered(Head(toRx)) => Head(toRx).seq <= expectedBlkNumber
<1>1. /\ toRx \in Seq(Frame) /\ expectedBlkNumber \in Nat \ {0}
      /\ 1 \in DOMAIN toRx /\ Head(toRx) = toRx[1] /\ Head(toRx) \in Frame
  BY YWindowTypes, TailFrames
<1>2. Head(toRx).seq \in Nat
  BY <1>1 DEF Frame
<1>3. Untouched(Head(toRx))
  BY <1>1 DEF YFaultlessInv, FramesUntouched
<1>4. ASSUME IsNumbered(Head(toRx))
      PROVE  Head(toRx).seq <= expectedBlkNumber
  <2>1. Head(toRx).seq > 1 => Head(toRx).seq <= (expectedBlkNumber - 1) + 1
    BY <1>1, <1>4 DEF EachFollows, Consecutive
  <2>. QED  BY <1>1, <1>2, <2>1
<1>. QED  BY <1>1, <1>2, <1>3, <1>4

(* A block that is refused was stored before.                              *)
LEMMA RefusedIsStored ==
  ASSUME YWindowInv, YFaultlessInv, faults = 0, EachFollows, BlockArrived,
         RxStatus(Head(toRx)) # "OK"
  PROVE  Head(toRx).seq <= expectedBlkNumber - 1
<1>. DEFINE f == Head(toRx)
<1>1. toRx # <<>> /\ IsBlock(f) /\ IsNumbered(f)
  BY DEF BlockArrived, Reading, IsBlock, IsNumbered
<1>2. /\ f.seq \in Nat /\ f.seq <= expectedBlkNumber
      /\ f.good /\ f.cblk = Complement(f.blk)
  BY <1>1, HeadFollows DEF Untouched
<1>3. f.blk = f.seq % BlkMod
  <2>1. 1 \in DOMAIN toRx /\ f = toRx[1]
    BY <1>1, YWindowTypes, TailFrames
  <2>. QED  BY <1>1, <2>1 DEF YWindowInv, BlocksHoldData
<1>4. f.seq # expectedBlkNumber
  BY <1>2, <1>3 DEF RxStatus, lxmodem_check_block_no_and_crc, NumberedAs
<1>5. expectedBlkNumber \in Nat
  BY YWindowTypes
<1>. HIDE DEF f
<1>6. f.seq <= expectedBlkNumber - 1
  BY <1>2, <1>4, <1>5
<1>. QED  BY <1>6 DEF f

(* A frame is read, and with it all that is stored is known.               *)
LEMMA ReadFollows ==
  ASSUME YWindowInv, YFaultlessInv, EachFollows, UNCHANGED txVars,
         toRx # <<>>, toRx' = Tail(toRx),
         expectedBlkNumber' \in {expectedBlkNumber, expectedBlkNumber + 1},
         expectedBlkNumber' - 1 <= NbBlocks,
         IsNumbered(Head(toRx)) => Head(toRx).seq <= expectedBlkNumber' - 1
  PROVE  EachFollows'
<1>. DEFINE last == expectedBlkNumber - 1
            next == expectedBlkNumber' - 1
<1>1. /\ toRx \in Seq(Frame) /\ last \in Nat /\ next \in Nat
      /\ blkNo \in Nat
  BY YWindowTypes
<1>2. /\ txpc' = txpc /\ blkNo' = blkNo /\ DataSent' = DataSent
      /\ NbBlocks' = NbBlocks
  BY FrozenBlocks DEF txVars, DataSent
<1>3. Consecutive(toRx, last) /\ (txpc = "reply" => EndAt(toRx, blkNo, last))
  BY DEF EachFollows
<1>4. IsNumbered(Head(toRx)) => Head(toRx).seq <= next
  OBVIOUS
<1>5. next <= NbBlocks
  OBVIOUS
<1>. HIDE DEF last, next
<1>6. /\ Consecutive(Tail(toRx), next)
      /\ txpc = "reply" => EndAt(Tail(toRx), blkNo, next)
  BY <1>1, <1>3, <1>4, ConsecutiveBehindFirst
<1>7. ~DataSent => \A i \in DOMAIN Tail(toRx) : Tail(toRx)[i].seq <= 1
  <2>1. ~DataSent => \A i \in DOMAIN toRx : toRx[i].seq <= 1
    BY DEF EachFollows
  <2>. QED  BY <1>1, <2>1, TailFrames
<1>. QED  BY <1>2, <1>5, <1>6, <1>7 DEF EachFollows, next

(* What the loop does not store does not change the file.                  *)
LEMMA LoopFaultless ==
  ASSUME YWindowInv, YFaultlessInv,
         UNCHANGED txVars, UNCHANGED tyVars, UNCHANGED ryVars,
         ryPhase = "contents",
         toRx' = toRx \/ (toRx # <<>> /\ toRx' = Tail(toRx)),
         faults' \in {faults, faults + 1},
         rxpc' # "done" /\ faults' = 0 => EachFollows',
         rxRam'.write_offset >=
           Smaller(FileSize, Len(rxData') * defaultBlksize),
         RxSucceeded' =>
           /\ receivedBytes' = rxRam'.write_offset
           /\ rxRam'.write_offset <= rxRam'.max_size
           /\ faults' = 0 => Len(rxData') = NbBlocks
  PROVE  YFaultlessInv'
<1>1. /\ ryPhase' = "contents" /\ rxFileData' = rxFileData
      /\ FileSize' = FileSize /\ defaultBlksize' = defaultBlksize
      /\ NbBlocks' = NbBlocks
  BY FrozenFile, FrozenBlocks DEF ryVars, txVars
<1>2. "filesize" \in rxFileData'.valid => rxFileData'.size = FileSize
  BY <1>1 DEF YFaultlessInv, SizeKnown
<1>3. BlocksWritten'
  BY <1>1 DEF BlocksWritten, Smaller
<1>4. CompleteWithoutFaults' /\ ExactWithoutFaults'
  BY <1>1 DEF CompleteWithoutFaults, CompleteOnSuccess, ExactWithoutFaults,
              ExactCopy, RyDone
<1>5. Listening' /\ faults' = 0 => EachFollows'
  BY DEF Listening
<1>. QED  BY <1>2, <1>3, <1>4, <1>5, ReceiverFaultless

LEMMA RxStartFaultless ==
  ASSUME YWindowInv, YFaultlessInv,
         UNCHANGED txVars, UNCHANGED tyVars, UNCHANGED ryVars,
         ryPhase = "contents", RxStart
  PROVE  YFaultlessInv'
<1>1. /\ rxpc = "idle" /\ rxpc' = "header" /\ expectedBlkNumber' = 1
      /\ toRx' = toRx /\ rxRam' = rxRam /\ rxData' = rxData
      /\ faults' \in {faults, faults + 1}
  BY YPutsCountFaults DEF RxStart
<1>2. ~RxSucceeded'
  BY <1>1 DEF RxSucceeded
<1>3. rxRam.write_offset >= Smaller(FileSize, Len(rxData) * defaultBlksize)
  BY DEF YFaultlessInv, BlocksWritten
<1>4. ASSUME faults' = 0
      PROVE  EachFollows'
  <2>1. Listening /\ faults = 0 /\ toRx \in Seq(Frame)
    BY <1>1, <1>4, NoFaultBefore, YWindowTypes DEF Listening
  <2>2. EachFollows /\ ~DataSent /\ txpc # "reply"
    BY <1>1, <2>1, YFaultlessFacts DEF YFaultlessInv
  <2>3. \A i \in DOMAIN toRx' : toRx'[i].seq <= 1
    BY <1>1, <2>2 DEF EachFollows
  <2>4. txpc' # "reply" /\ expectedBlkNumber' - 1 <= NbBlocks'
    <3>1. NbBlocks' = NbBlocks /\ NbBlocks \in Nat
      BY YFaultlessFacts, FrozenBlocks DEF txVars
    <3>. QED  BY <1>1, <2>2, <3>1 DEF txVars
  <2>. QED  BY <1>1, <2>1, <2>3, <2>4, FirstFramesFollow
<1>. QED  BY <1>1, <1>2, <1>3, <1>4, LoopFaultless

(* A block adds to the file what the emitter has read for it, or more.     *)
LEMMA BlockAdds ==
  ASSUME FileSize \in Nat, NEW k \in Nat \ {0}, NEW w \in Nat,
         w >= Smaller(FileSize, (k - 1) * defaultBlksize)
  PROVE  w + BlockOf(k).size >= Smaller(FileSize, k * defaultBlksize)
<1>. DEFINE before == (k - 1) * defaultBlksize
            d      == defaultBlksize
            n      == Smaller(d, FileSize - before)
            size   == IF n <= SmallBlk THEN SmallBlk ELSE LargeBlk
<1>1. BlockOf(k).size = size
  BY DEF BlockOf
<1>2. before \in Nat /\ k * defaultBlksize = before + d
  BY NextOffset
<1>3. d \in Nat \ {0} /\ d <= LargeBlk
  BY BlksizeType
<1>4. w >= Smaller(FileSize, before)
  OBVIOUS
<1>. HIDE DEF before, d
<1>5. n \in Int /\ n <= d
  BY <1>2, <1>3 DEF Smaller
<1>6. size >= n /\ size \in Nat
  BY <1>3, <1>5, LModemAssumption
<1>7. before < FileSize => before + n = Smaller(FileSize, before + d)
  BY <1>2, <1>3 DEF Smaller
<1>8. ~(before < FileSize) => w >= FileSize
  BY <1>2, <1>4 DEF Smaller
<1>9. before < FileSize => w >= before
  BY <1>2, <1>4 DEF Smaller
<1>. HIDE DEF n, size
<1>10. w + size >= Smaller(FileSize, before + d)
  <2>1. CASE before < FileSize
    BY <1>2, <1>5, <1>6, <1>7, <1>9, <2>1
  <2>2. CASE ~(before < FileSize)
    <3>1. Smaller(FileSize, before + d) = FileSize
      BY <1>2, <1>3, <2>2 DEF Smaller
    <3>. QED  BY <1>6, <1>8, <2>2, <3>1
  <2>. QED  BY <2>1, <2>2
<1>. QED  BY <1>1, <1>2, <1>10

(* What a block written adds to the receiver's file.                       *)
LEMMA YRamEffect ==
  ASSUME YWindowInv, ryPhase = "contents", rxpc # "done", NEW h
  PROVE  LET size == BlkSize(h)
             b    == lmodem_buffer_write(rxRam, size)
         IN  /\ rxRam.write_offset \in Nat /\ size \in Nat
             /\ b.write_offset =
                  IF NbToCopy(rxRam, size) = size
                  THEN rxRam.write_offset + size ELSE rxRam.write_offset
<1>1. /\ rxRam \in RamFileType /\ rxRam.write_offset <= rxRam.max_size
      /\ rxRam.max_size < HalfWord
  BY DEF YWindowInv, YTypeOK, TypeOK, RxTypeOK, YReceiverRunning
<1>2. rxRam.write_offset \in Nat
  BY <1>1 DEF RamFileType
<1>. QED  BY <1>1, <1>2, WriteEffect

LEMMA RxStoreFaultless ==
  ASSUME YWindowInv, YFaultlessInv,
         UNCHANGED txVars, UNCHANGED tyVars, UNCHANGED ryVars,
         ryPhase = "contents", RxStore
  PROVE  YFaultlessInv'
<1>. DEFINE f == Head(toRx)
<1>1. /\ BlockArrived /\ RxStatus(f) = "OK" /\ toRx # <<>>
      /\ toRx' = Tail(toRx) /\ rxpc = "header" /\ rxpc' = rxpc
      /\ IsBlock(f) /\ NbToCopy(rxRam, BlkSize(f.hdr)) = BlkSize(f.hdr)
      /\ rxRam' = lmodem_buffer_write(rxRam, BlkSize(f.hdr))
      /\ rxData' = Append(rxData, ChunkIn(f))
      /\ expectedBlkNumber' = expectedBlkNumber + 1
      /\ faults' \in {faults, faults + 1}
  BY YPutsCountFaults DEF RxStore, Fits, BlockArrived, Reading, IsBlock
<1>2. Listening /\ BlocksInWindow
  BY <1>1 DEF Listening, YWindowInv
<1>3. f.seq = expectedBlkNumber /\ ChunkIn(f) = BlockOf(expectedBlkNumber)
  BY <1>1, <1>2, YAcceptedIsNext
<1>4. /\ expectedBlkNumber \in Nat \ {0} /\ rxData \in Seq(Chunk)
      /\ Len(rxData) = expectedBlkNumber - 1
  BY <1>2, YWindowTypes, YFaultlessFacts
<1>5. rxRam'.write_offset >=
        Smaller(FileSize, Len(rxData') * defaultBlksize)
  <2>1. Len(rxData') = expectedBlkNumber
    BY <1>1, <1>4
  <2>2. /\ rxRam.write_offset \in Nat
        /\ rxRam'.write_offset = rxRam.write_offset + BlkSize(f.hdr)
    BY <1>1, YRamEffect
  <2>3. BlkSize(f.hdr) = BlockOf(expectedBlkNumber).size
    BY <1>3 DEF ChunkIn
  <2>4. rxRam.write_offset >=
          Smaller(FileSize, (expectedBlkNumber - 1) * defaultBlksize)
    BY <1>4 DEF YFaultlessInv, BlocksWritten
  <2>. QED  BY <1>4, <2>1, <2>2, <2>3, <2>4, YWindowTypes, BlockAdds
<1>6. ASSUME faults' = 0
      PROVE  EachFollows'
  <2>1. faults = 0
    BY <1>1, <1>6, NoFaultBefore
  <2>2. EachFollows
    BY <1>2, <2>1 DEF YFaultlessInv
  <2>3. f.seq <= NbBlocks
    BY <1>1, <2>1, <2>2, HeadFollows DEF Untouched
  <2>4. expectedBlkNumber' - 1 = expectedBlkNumber
    BY <1>1, <1>4
  <2>. QED  BY <1>1, <1>3, <1>4, <2>2, <2>3, <2>4, ReadFollows
<1>7. ~RxSucceeded'
  BY <1>1 DEF RxSucceeded
<1>. QED  BY <1>1, <1>5, <1>6, <1>7, LoopFaultless

(* The EOT is next only when every block is stored.                        *)
LEMMA RxEndFaultless ==
  ASSUME YWindowInv, YFaultlessInv,
         UNCHANGED txVars, UNCHANGED tyVars, UNCHANGED ryVars,
         ryPhase = "contents", RxEot \/ RxOverflow
  PROVE  YFaultlessInv'
<1>. DEFINE f == Head(toRx)
<1>1. /\ rxpc = "header" /\ rxpc' = "done" /\ rxData' = rxData
      /\ toRx # <<>> /\ toRx' = Tail(toRx)
      /\ faults' \in {faults, faults + 1}
  BY YPutsCountFaults DEF RxEot, RxOverflow, BlockArrived, Reading
<1>2. rxRam.write_offset >= Smaller(FileSize, Len(rxData) * defaultBlksize)
  BY DEF YFaultlessInv, BlocksWritten
<1>3. CASE RxOverflow
  <2>1. /\ receivedBytes' = -1
        /\ NbToCopy(rxRam, BlkSize(f.hdr)) # BlkSize(f.hdr)
        /\ rxRam' = lmodem_buffer_write(rxRam, BlkSize(f.hdr))
    BY <1>3 DEF RxOverflow, Fits
  <2>2. rxRam'.write_offset = rxRam.write_offset
    BY <1>1, <2>1, YRamEffect
  <2>3. ~RxSucceeded'
    BY <2>1 DEF RxSucceeded
  <2>. QED  BY <1>1, <1>2, <2>2, <2>3, LoopFaultless
<1>4. CASE RxEot
  <2>1. rxRam' = rxRam /\ receivedBytes' = receivedBytes /\ f.hdr = EOT
    BY <1>4 DEF RxEot
  <2>2. /\ receivedBytes = rxRam.write_offset
        /\ rxRam.write_offset <= rxRam.max_size
    BY <1>1 DEF YWindowInv, YReceiverRunning
  <2>3. ASSUME faults' = 0
        PROVE  Len(rxData) = NbBlocks
    <3>1. faults = 0 /\ Listening
      BY <1>1, <2>3, NoFaultBefore DEF Listening
    <3>2. EachFollows
      BY <3>1 DEF YFaultlessInv
    <3>3. f.seq = NbBlocks + 1 /\ f.seq <= expectedBlkNumber
      BY <1>1, <2>1, <3>1, <3>2, HeadFollows DEF Untouched, IsNumbered
    <3>4. expectedBlkNumber - 1 <= NbBlocks
      BY <3>2 DEF EachFollows
    <3>5. /\ expectedBlkNumber \in Nat /\ NbBlocks \in Nat
          /\ Len(rxData) = expectedBlkNumber - 1
      BY <3>1, YFaultlessFacts, YWindowTypes
    <3>. QED  BY <3>3, <3>4, <3>5
  <2>. QED  BY <1>1, <1>2, <2>1, <2>2, <2>3, LoopFaultless
<1>. QED  BY <1>3, <1>4

(* An error: nothing that is missing is passed over.                       *)
LEMMA RxErrorFaultless ==
  ASSUME YWindowInv, YFaultlessInv,
         UNCHANGED txVars, UNCHANGED tyVars, UNCHANGED ryVars,
         ryPhase = "contents",
         RxRefuse \/ RxCan \/ RxUnknown \/ RxTimeout
  PROVE  YFaultlessInv'
<1>1. /\ rxpc = "header" /\ rxRam' = rxRam /\ rxData' = rxData
      /\ expectedBlkNumber' = expectedBlkNumber
      /\ toRx' = toRx \/ (toRx # <<>> /\ toRx' = Tail(toRx))
      /\ faults' \in {faults, faults + 1}
      /\ rxpc' = "header" \/ receivedBytes' = -1
  <2>1. PICK reply \in Seq(Byte), cancelled \in BOOLEAN :
          /\ rxpc = "header"
          /\ RxError(reply, cancelled)
          /\ UNCHANGED <<expectedBlkNumber, rxData, rxRam>>
          /\ toRx' = toRx \/ (toRx # <<>> /\ toRx' = Tail(toRx))
    BY RxErrorCases
  <2>. QED  BY <2>1, YPutsCountFaults DEF RxError
<1>2. ~RxSucceeded'
  BY <1>1 DEF RxSucceeded
<1>3. rxRam.write_offset >= Smaller(FileSize, Len(rxData) * defaultBlksize)
  BY DEF YFaultlessInv, BlocksWritten
<1>4. ASSUME faults' = 0
      PROVE  EachFollows'
  <2>1. faults = 0 /\ Listening
    BY <1>1, <1>4, NoFaultBefore DEF Listening
  <2>2. EachFollows /\ expectedBlkNumber - 1 <= NbBlocks
    BY <2>1 DEF YFaultlessInv, EachFollows
  <2>3. CASE RxTimeout
    <3>1. /\ toRx' = toRx /\ txpc' = txpc /\ blkNo' = blkNo
          /\ DataSent' = DataSent /\ NbBlocks' = NbBlocks
      BY <2>3, FrozenBlocks DEF RxTimeout, txVars, DataSent
    <3>. QED  BY <1>1, <2>2, <3>1 DEF EachFollows
  <2>4. CASE RxRefuse \/ RxCan \/ RxUnknown
    <3>1. toRx # <<>> /\ toRx' = Tail(toRx)
      BY <2>4 DEF RxRefuse, RxCan, RxUnknown, BlockArrived, Reading
    <3>2. IsNumbered(Head(toRx)) =>
            Head(toRx).seq <= expectedBlkNumber - 1
      <4>1. CASE RxRefuse
        BY <2>1, <2>2, <4>1, RefusedIsStored DEF RxRefuse
      <4>2. CASE RxCan \/ RxUnknown
        <5>1. Head(toRx).hdr = CAN \/ Head(toRx).hdr \notin {SOH, STX, EOT}
          BY <4>2 DEF RxCan, RxUnknown
        <5>2. Head(toRx).hdr \notin {SOH, STX, EOT}
          BY <5>1 DEF SOH, STX, EOT, CAN
        <5>. QED  BY <5>2 DEF IsNumbered
      <4>. QED  BY <2>4, <4>1, <4>2
    <3>. QED  BY <1>1, <2>2, <3>1, <3>2, ReadFollows
  <2>. QED  BY <2>3, <2>4
<1>. QED  BY <1>1, <1>2, <1>3, <1>4, LoopFaultless

(* Every step of the receiver keeps the invariant.                         *)
LEMMA YRxNextFaultless ==
  ASSUME YWindowInv, YFaultlessInv, YRxNext
  PROVE  YFaultlessInv'
<1>1. UNCHANGED txVars /\ UNCHANGED tyVars
  BY DEF YRxNext
<1>2. CASE RyName
  BY <1>1, <1>2, RyNameFaultless
<1>3. CASE \/ RyStart \/ RyNameBad \/ RyNameOther \/ RyRepeat
           \/ RyBlockNextFile \/ RyTimeouts \/ RyNextFile
  BY <1>1, <1>3, RyOtherFaultless
<1>4. CASE /\ ryPhase = "contents"
           /\ RxStart \/ RxReceives \/ RxTimeout
           /\ UNCHANGED ryVars
  <2>1. CASE RxStart
    BY <1>1, <1>4, <2>1, RxStartFaultless
  <2>2. CASE RxStore
    BY <1>1, <1>4, <2>2, RxStoreFaultless
  <2>3. CASE RxEot \/ RxOverflow
    BY <1>1, <1>4, <2>3, RxEndFaultless
  <2>4. CASE RxRefuse \/ RxCan \/ RxUnknown \/ RxTimeout
    BY <1>1, <1>4, <2>4, RxErrorFaultless
  <2>. QED  BY <1>4, <2>1, <2>2, <2>3, <2>4 DEF RxReceives
<1>. QED  BY <1>2, <1>3, <1>4 DEF YRxNext, RyReceives

-----------------------------------------------------------------------------
(***************************************************************************)
(* The emitter's side.                                                     *)
(***************************************************************************)
(* A frame sent arrives as it is, or is hit by a fault that is counted; a  *)
(* block that is hit keeps the metadata in it.                             *)
LEMMA SentFrame ==
  ASSUME LineTypeOK, NEW f \in Frame, PutFrame(f)
  PROVE  /\ faults' \in {faults, faults + 1}
         /\ faults' = 0 => toRx' = Append(toRx, f)
         /\ \/ toRx' = toRx
            \/ \E g \in Frame :
                 /\ toRx' = Append(toRx, g)
                 /\ NameTold(f) => NameTold(g)
<1>1. faults \in Nat
  BY LineAssumption DEF LineTypeOK
<1>2. CASE toRx' = Append(toRx, f) /\ UNCHANGED faults
  BY <1>2
<1>3. CASE Fault("lose") /\ UNCHANGED toRx
  BY <1>1, <1>3 DEF Fault
<1>4. CASE Fault("damage") /\ \E g \in Damaged(f) : toRx' = Append(toRx, g)
  <2>1. faults' = faults + 1
    BY <1>4 DEF Fault
  <2>2. PICK g \in Damaged(f) : toRx' = Append(toRx, g)
    BY <1>4
  <2>3. g \in Frame /\ (IsBlock(g) => IsBlock(f))
    BY DamagedFrame
  <2>4. IsBlock(f) => g.meta = f.meta
    BY DEF Damaged, Frame
  <2>5. NameTold(f) => NameTold(g)
    BY <2>3, <2>4 DEF NameTold
  <2>. QED  BY <1>1, <2>1, <2>2, <2>3, <2>5
<1>. QED  BY <1>2, <1>3, <1>4 DEF PutFrame

(* What no step of the emitter changes.                                    *)
LEMMA EmitterFaultless ==
  ASSUME YWindowInv, YFaultlessInv, UNCHANGED rxVars, UNCHANGED ryVars,
         txOpts' = txOpts, txRam'.write_offset = txRam.write_offset,
         txFileData' = txFileData, faults' \in {faults, faults + 1},
         NameTold(blk_buffer)', (\A i \in DOMAIN toRx : NameTold(toRx[i]))',
         FramesUntouched', Listening /\ faults' = 0 => EachFollows'
  PROVE  YFaultlessInv'
<1>1. /\ FileSize' = FileSize /\ defaultBlksize' = defaultBlksize
      /\ NbBlocks' = NbBlocks
  BY FrozenFile, FrozenBlocks
<1>2. /\ rxpc' = rxpc /\ rxRam' = rxRam /\ rxData' = rxData
      /\ receivedBytes' = receivedBytes
      /\ ryPhase' = ryPhase /\ rxFileData' = rxFileData
  BY DEF rxVars, ryVars
<1>3. SizeKnown'
  BY <1>1, <1>2 DEF YFaultlessInv, SizeKnown
<1>4. BlocksWritten'
  BY <1>1, <1>2 DEF YFaultlessInv, BlocksWritten, RxSucceeded, Smaller
<1>5. CompleteWithoutFaults' /\ ExactWithoutFaults'
  BY <1>1, <1>2, NoFaultBefore
  DEF YFaultlessInv, CompleteWithoutFaults, CompleteOnSuccess, RxSucceeded,
      ExactWithoutFaults, ExactCopy, RyDone, RyResult
<1>6. Listening' => Listening
  BY <1>2 DEF Listening
<1>. QED  BY <1>3, <1>4, <1>5, <1>6 DEF YFaultlessInv

(* The emitter sends nothing.                                              *)
LEMMA QuietFaultless ==
  ASSUME YWindowInv, YFaultlessInv, UNCHANGED rxVars, UNCHANGED ryVars,
         UNCHANGED <<toRx, faults, blk_buffer, txOpts, txRam, txFileData>>,
         tyPhase' \in {"call", "name", "batch"} =>
           tyPhase \in {"call", "name", "batch"},
         txpc' = "reply" => txpc = "reply" /\ blkNo' = blkNo
  PROVE  YFaultlessInv'
<1>1. /\ FileSize' = FileSize /\ NbBlocks' = NbBlocks
      /\ DataSent' = DataSent /\ expectedBlkNumber' = expectedBlkNumber
  BY FrozenFile, FrozenBlocks DEF DataSent, rxVars
<1>2. NameTold(blk_buffer)' /\ (\A i \in DOMAIN toRx : NameTold(toRx[i]))'
  BY <1>1 DEF YFaultlessInv, SizeKnown, NameTold
<1>3. FramesUntouched'
  BY <1>1 DEF YFaultlessInv, FramesUntouched, Untouched
<1>4. Listening /\ faults' = 0 => EachFollows'
  BY <1>1 DEF YFaultlessInv, EachFollows
<1>. QED  BY <1>2, <1>3, <1>4, EmitterFaultless

(* The emitter sends a frame, and keeps it.                                *)
LEMMA SendFaultless ==
  ASSUME YWindowInv, YFaultlessInv, UNCHANGED rxVars, UNCHANGED ryVars,
         txOpts' = txOpts, txRam'.write_offset = txRam.write_offset,
         txFileData' = txFileData,
         NEW f \in Frame, PutFrame(f), blk_buffer' = f,
         NameTold(f), Untouched(f),
         tyPhase' \in {"call", "name", "batch"} => f.hdr # EOT /\ f.seq <= 1,
         txpc' = "reply" => IsNumbered(f),
         Listening /\ faults' = 0 => EachFollows'
  PROVE  YFaultlessInv'
<1>1. FileSize' = FileSize /\ NbBlocks' = NbBlocks
  BY FrozenFile, FrozenBlocks
<1>2. LineTypeOK /\ toRx \in Seq(Frame)
  BY YWindowTypes
<1>3. /\ faults' \in {faults, faults + 1}
      /\ faults' = 0 => toRx' = Append(toRx, f)
      /\ \/ toRx' = toRx
         \/ \E g \in Frame :
              /\ toRx' = Append(toRx, g)
              /\ NameTold(f) => NameTold(g)
  BY <1>2, SentFrame
<1>4. NameTold(blk_buffer)'
  BY <1>1 DEF NameTold
<1>5. (\A i \in DOMAIN toRx : NameTold(toRx[i]))'
  <2>1. \A i \in DOMAIN toRx : NameTold(toRx[i])
    BY DEF YFaultlessInv, SizeKnown
  <2>2. CASE toRx' = toRx
    BY <1>1, <2>1, <2>2 DEF NameTold
  <2>3. CASE \E g \in Frame : toRx' = Append(toRx, g) /\ NameTold(g)
    <3>1. PICK g \in Frame : toRx' = Append(toRx, g) /\ NameTold(g)
      BY <2>3
    <3>2. \A i \in DOMAIN toRx' :
            toRx'[i] = g \/ (i \in DOMAIN toRx /\ toRx'[i] = toRx[i])
      BY <1>2, <3>1, AppendedFrames
    <3>. QED  BY <1>1, <2>1, <3>1, <3>2 DEF NameTold
  <2>. QED  BY <1>3, <2>2, <2>3
<1>6. FramesUntouched'
  <2>1. Untouched(blk_buffer)'
    BY <1>1 DEF Untouched
  <2>2. ASSUME faults' = 0
        PROVE  (\A i \in DOMAIN toRx : Untouched(toRx[i]))'
    <3>1. \A i \in DOMAIN toRx : Untouched(toRx[i])
      BY <1>3, <2>2, NoFaultBefore DEF YFaultlessInv, FramesUntouched
    <3>2. \A i \in DOMAIN toRx' :
            toRx'[i] = f \/ (i \in DOMAIN toRx /\ toRx'[i] = toRx[i])
      BY <1>2, <1>3, <2>2, AppendedFrames
    <3>. QED  BY <1>1, <3>1, <3>2 DEF Untouched
  <2>. QED  BY <2>1, <2>2 DEF FramesUntouched
<1>. QED  BY <1>3, <1>4, <1>5, <1>6, EmitterFaultless

(* A name, or the null name, for the first time or again.                  *)
LEMMA NameSentFaultless ==
  ASSUME YWindowInv, YFaultlessInv, UNCHANGED rxVars, UNCHANGED ryVars,
         UNCHANGED contentsVars, txFileData' = txFileData, txpc # "reply",
         NEW f \in Frame, PutFrame(f), blk_buffer' = f,
         NameTold(f), Untouched(f), f.hdr # EOT, f.seq <= 1,
         Listening => ~DataSent
  PROVE  YFaultlessInv'
<1>1. /\ txOpts' = txOpts /\ txRam' = txRam /\ txpc' = txpc
  BY DEF contentsVars
<1>2. ASSUME Listening, faults' = 0
      PROVE  EachFollows'
  <2>1. LineTypeOK /\ toRx \in Seq(Frame)
    BY YWindowTypes
  <2>2. faults = 0 /\ toRx' = Append(toRx, f)
    BY <1>2, <2>1, SentFrame, NoFaultBefore
  <2>3. EachFollows /\ ~DataSent
    BY <1>2, <2>2 DEF YFaultlessInv
  <2>4. \A i \in DOMAIN toRx' : toRx'[i].seq <= 1
    <3>1. \A i \in DOMAIN toRx : toRx[i].seq <= 1
      BY <2>3 DEF EachFollows
    <3>. QED  BY <2>1, <2>2, <3>1, AppendedFrames
  <2>5. toRx' \in Seq(Frame)
    BY <2>1, <2>2, AppendedFrames
  <2>6. expectedBlkNumber' - 1 <= NbBlocks' /\ txpc' # "reply"
    <3>1. NbBlocks' = NbBlocks
      BY <1>1, FrozenBlocks
    <3>. QED  BY <1>1, <2>3, <3>1 DEF EachFollows, rxVars
  <2>. QED  BY <2>4, <2>5, <2>6, FirstFramesFollow
<1>. QED  BY <1>1, <1>2, SendFaultless

(* The frame of block blkNo', in the loop of lxmodem_emit.                 *)
LEMMA DataSentFaultless ==
  ASSUME YWindowInv, YFaultlessInv, UNCHANGED rxVars, UNCHANGED ryVars,
         UNCHANGED tyVars, tyPhase = "contents", txOpts' = txOpts,
         txRam'.write_offset = txRam.write_offset,
         txRam'.read_offset = Smaller(FileSize, blkNo' * defaultBlksize),
         NEW f \in Frame, PutFrame(f), blk_buffer' = f, f.seq = blkNo',
         NameTold(f), Untouched(f), IsNumbered(f), blkNo' \in Nat \ {0},
         \/ txpc = "preambule" /\ blkNo' = 1
         \/ txpc = "reply" /\ blkNo' \in {blkNo, blkNo + 1}
  PROVE  YFaultlessInv'
<1>1. /\ NbBlocks' = NbBlocks /\ txFileData' = txFileData
      /\ tyPhase' = "contents" /\ expectedBlkNumber' = expectedBlkNumber
  BY FrozenBlocks DEF tyVars, rxVars
<1>2. ASSUME Listening, faults' = 0
      PROVE  EachFollows'
  <2>. DEFINE last == expectedBlkNumber - 1
  <2>1. LineTypeOK /\ toRx \in Seq(Frame) /\ blkNo \in Nat /\ last \in Nat
    BY YWindowTypes
  <2>2. faults = 0 /\ toRx' = Append(toRx, f)
    BY <1>2, <2>1, SentFrame, NoFaultBefore
  <2>3. /\ EachFollows /\ last <= NbBlocks /\ Consecutive(toRx, last)
        /\ txpc = "reply" => EndAt(toRx, blkNo, last)
    BY <1>2, <2>2 DEF YFaultlessInv, EachFollows
  <2>. HIDE DEF last
  <2>4. f.seq > 1 => \E n \in Nat : EndAt(toRx, n, last) /\ f.seq <= n + 1
    <3>1. CASE txpc = "preambule" /\ blkNo' = 1
      BY <3>1
    <3>2. CASE txpc = "reply" /\ blkNo' \in {blkNo, blkNo + 1}
      <4>1. EndAt(toRx, blkNo, last) /\ f.seq <= blkNo + 1
        BY <2>1, <2>3, <3>2
      <4>. QED  BY <2>1, <4>1
    <3>. QED  BY <3>1, <3>2
  <2>5. Consecutive(toRx', last) /\ EndAt(toRx', blkNo', last)
    <3>1. /\ Consecutive(Append(toRx, f), last)
          /\ EndAt(Append(toRx, f), f.seq, last)
      BY <2>1, <2>3, <2>4, ConsecutiveWithOneMore
    <3>. QED  BY <2>2, <3>1
  <2>6. ~DataSent' => \A i \in DOMAIN toRx' : toRx'[i].seq <= 1
    <3>. SUFFICES ASSUME ~DataSent'
                  PROVE  \A i \in DOMAIN toRx' : toRx'[i].seq <= 1
      OBVIOUS
    <3>. DEFINE p == blkNo' * defaultBlksize
    <3>1. p \in Nat \ {0} /\ FileSize \in Nat
      <4>1. \A a \in Nat \ {0}, b \in Nat \ {0} : a * b \in Nat \ {0}
        OBVIOUS
      <4>. QED  BY <4>1, BlksizeType, YWindowTypes
    <3>2. ~(Smaller(FileSize, p) > 0)
      BY DEF DataSent
    <3>. HIDE DEF p
    <3>3. FileSize = 0
      BY <3>1, <3>2 DEF Smaller
    <3>4. NbBlocks = 0
      <4>1. (1 - 1) * defaultBlksize = 0 /\ 1 \in Nat \ {0}
        BY BlksizeType
      <4>2. NbBlocks \in Nat /\ (0 < FileSize <=> 1 <= NbBlocks)
        BY <3>1, <4>1, BlockIffBytesLeft
      <4>. QED  BY <3>3, <4>2
    <3>5. f.seq <= 1
      BY <3>4 DEF Untouched, IsNumbered, IsBlock, SOH, STX, EOT
    <3>6. ~DataSent
      BY <3>3, YWindowTypes
      DEF YWindowInv, YEmitterAtBlkNo, DataSent, RamFileType
    <3>7. \A i \in DOMAIN toRx : toRx[i].seq <= 1
      BY <2>3, <3>6 DEF EachFollows
    <3>. QED  BY <2>1, <2>2, <3>5, <3>7, AppendedFrames
  <2>. QED  BY <1>1, <2>3, <2>5, <2>6 DEF EachFollows, last
<1>. QED  BY <1>1, <1>2, SendFaultless

(* The next frame of the file.                                             *)
LEMMA YSendNextFaultless ==
  ASSUME YWindowInv, YFaultlessInv, UNCHANGED rxVars, UNCHANGED ryVars,
         UNCHANGED tyVars, tyPhase = "contents", txOpts' = txOpts,
         NEW k \in Nat \ {0}, SendNext(k), blkNo' = k, k <= NbBlocks + 1,
         txRam.read_offset = Smaller(FileSize, (k - 1) * defaultBlksize),
         \/ txpc = "preambule" /\ k = 1
         \/ txpc = "reply" /\ k = blkNo + 1
  PROVE  YFaultlessInv'
<1>. DEFINE f == DataBlock(k)
<1>1. /\ txRam \in RamFileType /\ FileSize \in Nat
      /\ txRam.read_offset <= FileSize /\ FileSize < HalfWord
  BY YWindowTypes DEF YWindowInv, YEmitterAtBlkNo
<1>2. /\ f \in Frame /\ f.seq = k
      /\ lmodem_buffer_read(txRam, bytesToRead) =
           [txRam EXCEPT !.read_offset = Smaller(FileSize, k * defaultBlksize)]
  BY <1>1, DataBlockIsBlockOf
<1>3. Untouched(f) /\ IsNumbered(f)
  <2>1. Intact(f)
    BY <1>1, DataBlockIsIntact
  <2>. QED  BY <2>1
            DEF Intact, BlockOrEot, Untouched, IsNumbered, IsBlock, SOH, STX,
                EOT
<1>4. NameTold(f)
  <2>1. f.meta = NoMeta
    BY DEF DataBlock, CharFrame
  <2>. QED  BY <2>1 DEF NameTold, NoMeta
<1>5. /\ blk_buffer' = f /\ PutFrame(f)
      /\ txRam' = lmodem_buffer_read(txRam, bytesToRead)
  BY DEF SendNext
<1>. HIDE DEF f
<1>6. /\ txRam'.write_offset = txRam.write_offset
      /\ txRam'.read_offset = Smaller(FileSize, blkNo' * defaultBlksize)
  BY <1>1, <1>2, <1>5 DEF RamFileType
<1>. QED  BY <1>2, <1>3, <1>4, <1>5, <1>6, DataSentFaultless

LEMMA YTxErrorFaultless ==
  ASSUME YWindowInv, YFaultlessInv, UNCHANGED rxVars, UNCHANGED ryVars,
         UNCHANGED tyVars, tyPhase = "contents", txpc = "reply",
         UNCHANGED <<txOpts, blkNo>>, NEW limit, TxError(limit)
  PROVE  YFaultlessInv'
<1>1. tyPhase' = tyPhase /\ txFileData' = txFileData
  BY DEF tyVars
<1>2. CASE TxStop(-1)
  BY <1>1, <1>2, QuietFaultless DEF TxStop
<1>3. CASE SendAgain
  <2>1. /\ PutFrame(blk_buffer) /\ blk_buffer' = blk_buffer
        /\ txRam' = txRam
    BY <1>3 DEF SendAgain
  <2>2. /\ blk_buffer \in Frame /\ blkNo \in Nat \ {0}
        /\ blk_buffer.seq = blkNo
        /\ txRam.read_offset = Smaller(FileSize, blkNo * defaultBlksize)
    BY DEF YWindowInv, YTypeOK, TypeOK, TxTypeOK, YEmitterAtBlkNo
  <2>3. NameTold(blk_buffer) /\ Untouched(blk_buffer) /\ IsNumbered(blk_buffer)
    BY DEF YFaultlessInv, SizeKnown, FramesUntouched
  <2>. QED  BY <2>1, <2>2, <2>3, DataSentFaultless
<1>. QED  BY <1>2, <1>3 DEF TxError

LEMMA YTxPreambuleFaultless ==
  ASSUME YWindowInv, YFaultlessInv, UNCHANGED rxVars, UNCHANGED ryVars,
         UNCHANGED tyVars, tyPhase = "contents", TxPreambule
  PROVE  YFaultlessInv'
<1>1. /\ txpc = "preambule" /\ txOpts' = txOpts /\ blkNo' = 1 /\ SendNext(1)
  BY DEF TxPreambule
<1>2. txRam.read_offset = 0 /\ FileSize \in Nat /\ NbBlocks \in Nat
  BY <1>1, YWindowTypes, YFaultlessFacts
  DEF YWindowInv, YEmitterAtBlkNo, DataSent, RamFileType
<1>3. (1 - 1) * defaultBlksize = 0
  BY BlksizeType
<1>4. txRam.read_offset = Smaller(FileSize, (1 - 1) * defaultBlksize)
  BY <1>2, <1>3 DEF Smaller
<1>5. 1 \in Nat \ {0} /\ 1 <= NbBlocks + 1
  BY <1>2
<1>. QED  BY <1>1, <1>4, <1>5, YSendNextFaultless

LEMMA YTxAckFaultless ==
  ASSUME YWindowInv, YFaultlessInv, UNCHANGED rxVars, UNCHANGED ryVars,
         UNCHANGED tyVars, tyPhase = "contents", TxAck
  PROVE  YFaultlessInv'
<1>1. txpc = "reply" /\ txOpts' = txOpts /\ blkNo' = blkNo + 1
  BY DEF TxAck, ReplyArrived
<1>2. CASE TxStop(emittedBytes)
  BY <1>1, <1>2, QuietFaultless DEF TxStop, tyVars
<1>3. CASE ~isLastBlock /\ SendNext(blkNo + 1)
  <2>. DEFINE k == blkNo + 1
  <2>1. k \in Nat \ {0} /\ k - 1 = blkNo
    BY YWindowTypes
  <2>2. /\ txRam.read_offset = Smaller(FileSize, (k - 1) * defaultBlksize)
        /\ blk_buffer.seq = blkNo
    BY <1>1, <2>1 DEF YWindowInv, YEmitterAtBlkNo
  <2>3. k <= NbBlocks + 1
    <3>1. Untouched(blk_buffer) /\ IsNumbered(blk_buffer)
      BY <1>1 DEF YFaultlessInv, FramesUntouched
    <3>2. IsBlock(blk_buffer)
      BY <1>3, <3>1 DEF isLastBlock, IsNumbered, IsBlock
    <3>3. blkNo <= NbBlocks
      BY <2>2, <3>1, <3>2 DEF Untouched
    <3>. QED  BY <3>3, YFaultlessFacts, YWindowTypes
  <2>4. SendNext(k) /\ blkNo' = k /\ k = blkNo + 1
    BY <1>1, <1>3
  <2>. HIDE DEF k
  <2>. QED  BY <1>1, <2>1, <2>2, <2>3, <2>4, YSendNextFaultless
<1>. QED  BY <1>2, <1>3 DEF TxAck

LEMMA YTxTimeoutFaultless ==
  ASSUME YWindowInv, YFaultlessInv, UNCHANGED rxVars, UNCHANGED ryVars,
         UNCHANGED tyVars, tyPhase = "contents",
         TxPreambuleTimeout \/ TxTimeout
  PROVE  YFaultlessInv'
<1>1. UNCHANGED <<txOpts, blkNo>> /\ tyPhase' = tyPhase
      /\ txFileData' = txFileData
  BY DEF TxPreambuleTimeout, TxTimeout, tyVars
<1>2. CASE TxPreambuleTimeout
  <2>1. /\ UNCHANGED <<toRx, faults, blk_buffer, txRam>> /\ txpc' # "reply"
    BY <1>2 DEF TxPreambuleTimeout, lineVars
  <2>. QED  BY <1>1, <2>1, QuietFaultless
<1>3. CASE TxTimeout /\ UNCHANGED <<lineVars, txpc, txRam, blk_buffer>>
  BY <1>1, <1>3, QuietFaultless DEF lineVars
<1>4. CASE TxTimeout /\ TxError(MaxRetry)
  <2>1. txpc = "reply"
    BY <1>4 DEF TxTimeout
  <2>. QED  BY <1>1, <1>4, <2>1, YTxErrorFaultless
<1>. QED  BY <1>2, <1>3, <1>4 DEF TxTimeout

(* The two cancels in place of the first block.                            *)
LEMMA CancelIsUntouched ==
  ASSUME YWindowInv, YFaultlessInv, PutCancelFrames(1), faults' = 0
  PROVE  /\ faults = 0
         /\ \A i \in DOMAIN toRx' :
              \/ i \in DOMAIN toRx /\ toRx'[i] = toRx[i]
              \/ toRx'[i] = CharFrame(CAN, 1)
<1>. DEFINE can == CharFrame(CAN, 1)
<1>1. LineTypeOK /\ toRx \in Seq(Frame) /\ faults \in Nat
  BY YWindowTypes
<1>2. toRx' = toRx \o <<can, can>> /\ faults' = faults
  <2>1. \A kind : ~Fault(kind)
    BY <1>1 DEF Fault
  <2>. QED  BY <2>1 DEF PutCancelFrames
<1>3. can \in Frame
  BY LModemAssumption DEF CharFrame, NoMeta, Meta, CAN, Frame, Byte, BlkNumber
<1>. HIDE DEF can
<1>. DEFINE q == Append(toRx, can)
<1>4. toRx' = Append(q, can)
  BY <1>1, <1>2, <1>3
<1>5. /\ q \in Seq(Frame)
      /\ \A i \in DOMAIN q :
           q[i] = can \/ (i \in DOMAIN toRx /\ q[i] = toRx[i])
  BY <1>1, <1>3, AppendedFrames
<1>. HIDE DEF q
<1>6. \A i \in DOMAIN toRx' :
        toRx'[i] = can \/ (i \in DOMAIN q /\ toRx'[i] = q[i])
  BY <1>3, <1>4, <1>5, AppendedFrames
<1>. QED  BY <1>2, <1>5, <1>6 DEF can

LEMMA YTxRefusedFaultless ==
  ASSUME YWindowInv, YFaultlessInv, UNCHANGED rxVars, UNCHANGED ryVars,
         UNCHANGED tyVars, tyPhase = "contents", TxPreambuleRefused
  PROVE  YFaultlessInv'
<1>1. /\ txpc = "preambule" /\ PutCancelFrames(blkNo) /\ txpc' = "done"
      /\ txOpts' = txOpts /\ txRam' = txRam /\ blk_buffer' = blk_buffer
      /\ tyPhase' = "contents" /\ txFileData' = txFileData
      /\ expectedBlkNumber' = expectedBlkNumber
  BY DEF TxPreambuleRefused, tyVars, rxVars
<1>2. blkNo = 1 /\ ~DataSent
  BY <1>1 DEF YWindowInv, YEmitterAtBlkNo
<1>3. FileSize' = FileSize /\ NbBlocks' = NbBlocks
  BY <1>1, FrozenFile, FrozenBlocks
<1>4. faults' \in {faults, faults + 1}
  BY <1>1, YPutsCountFaults
<1>5. /\ toRx' \in Seq(Frame)
      /\ \A i \in DOMAIN toRx' :
           \/ ~IsBlock(toRx'[i])
           \/ \E j \in DOMAIN toRx : toRx'[i] = toRx[j]
  BY <1>1, <1>2, CancelSent
<1>6. NameTold(blk_buffer)' /\ (\A i \in DOMAIN toRx : NameTold(toRx[i]))'
  BY <1>1, <1>3, <1>5 DEF YFaultlessInv, SizeKnown, NameTold
<1>. DEFINE can == CharFrame(CAN, 1)
<1>7. can.hdr = CAN /\ can.seq = 1
  BY DEF CharFrame
<1>. HIDE DEF can
<1>8. faults' = 0 =>
        /\ faults = 0
        /\ \A i \in DOMAIN toRx' :
             (i \in DOMAIN toRx /\ toRx'[i] = toRx[i]) \/ toRx'[i] = can
  BY <1>1, <1>2, CancelIsUntouched DEF can
<1>9. FramesUntouched'
  <2>1. Untouched(blk_buffer)'
    BY <1>1, <1>3 DEF YFaultlessInv, FramesUntouched, Untouched
  <2>2. faults' = 0 => (\A i \in DOMAIN toRx : Untouched(toRx[i]))'
    <3>1. faults = 0 => \A i \in DOMAIN toRx : Untouched(toRx[i])
      BY DEF YFaultlessInv, FramesUntouched
    <3>. QED  BY <1>3, <1>7, <1>8, <3>1
              DEF Untouched, IsBlock, CAN, SOH, STX, EOT
  <2>. QED  BY <1>1, <2>1, <2>2 DEF FramesUntouched
<1>10. ASSUME Listening, faults' = 0
       PROVE  EachFollows'
  <2>1. expectedBlkNumber - 1 <= NbBlocks /\ \A i \in DOMAIN toRx : toRx[i].seq <= 1
    BY <1>2, <1>8, <1>10 DEF YFaultlessInv, EachFollows
  <2>2. \A i \in DOMAIN toRx' : toRx'[i].seq <= 1
    BY <1>7, <1>8, <1>10, <2>1
  <2>. QED  BY <1>1, <1>3, <1>5, <2>1, <2>2, FirstFramesFollow
<1>. QED  BY <1>1, <1>4, <1>6, <1>9, <1>10, EmitterFaultless

(***************************************************************************)
(* lymodem_emit around the loop: the names.                                *)
(***************************************************************************)
LEMMA NamesAreTold ==
  ASSUME YWindowInv, YFaultlessInv, SizesTold
  PROVE  /\ "filename" \in txFileData.valid => NameTold(NameBlock)
         /\ NameTold(EndOfBatch)
         /\ Untouched(NameBlock) /\ Untouched(EndOfBatch)
         /\ NameBlock \in Frame /\ EndOfBatch \in Frame
         /\ NameBlock.hdr # EOT /\ EndOfBatch.hdr # EOT
         /\ NameBlock.seq = 0 /\ EndOfBatch.seq = 0
<1>1. NbBlocks \in Nat /\ TyTypeOK
  BY YFaultlessFacts, YEmitterFacts
<1>2. /\ NameBlock \in Frame /\ EndOfBatch \in Frame
      /\ NameBlock.seq = 0 /\ EndOfBatch.seq = 0
  BY <1>1, NamesAreFrames
<1>3. ASSUME "filename" \in txFileData.valid
      PROVE  NameTold(NameBlock)
  <2>. DEFINE told == txFileData.valid \ {"filename"}
  <2>1. /\ "filesize" \in told /\ txFileData.size = FileSize
        /\ txFileData.valid \in SUBSET Flags
    BY <1>3, ValidsAssumption DEF YFaultlessInv, SizeKnown, SizesTold
  <2>2. IsFiniteSet(told) /\ Cardinality(told) \in 0 .. 4
    BY <2>1, FewFields
  <2>3. Cardinality(told) # 0
    <3>. HIDE DEF told
    <3>. QED  BY <2>1, <2>2, FS_EmptySet
  <2>4. NameBlock.meta.fields = Cardinality(told) /\ NameBlock.meta.size = FileSize
    BY <2>1 DEF NameBlock
  <2>. HIDE DEF told
  <2>. QED  BY <2>2, <2>3, <2>4 DEF NameTold
<1>4. NameTold(EndOfBatch)
  BY DEF NameTold, EndOfBatch, NoMeta
<1>5. Untouched(NameBlock) /\ NameBlock.hdr # EOT
  BY <1>1 DEF NameBlock, Untouched, SOH, EOT
<1>6. Untouched(EndOfBatch) /\ EndOfBatch.hdr # EOT
  BY <1>1 DEF EndOfBatch, Untouched, SOH, EOT
<1>. QED  BY <1>2, <1>3, <1>4, <1>5, <1>6

LEMMA TyCalledFaultless ==
  ASSUME YWindowInv, YFaultlessInv, SizesTold, UNCHANGED rxVars,
         UNCHANGED ryVars, TyCalled
  PROVE  YFaultlessInv'
<1>1. /\ toTx # <<>> /\ Head(toTx) = CHR_C /\ tyPhase \in {"call", "next"}
      /\ UNCHANGED contentsVars /\ txFileData' = txFileData
      /\ \/ tyPhase = "call" /\ SendName
         \/ tyPhase = "next" /\ SendEndOfBatch
  BY DEF TyCalled
<1>2. txpc # "reply"
  BY <1>1, YEmitterFacts
<1>3. Listening => ~DataSent
  <2>. SUFFICES ASSUME Listening PROVE ~DataSent
    OBVIOUS
  <2>1. CallsInOrder
    BY DEF YWindowInv
  <2>2. 1 \in DOMAIN toTx /\ toTx[1] = CHR_C
    BY <1>1, YWindowTypes, TailChars
  <2>. QED  BY <2>1, <2>2 DEF CallsInOrder
<1>4. CASE /\ tyPhase = "call" /\ "filename" \notin txFileData.valid
           /\ UNCHANGED <<toRx, faults, blk_buffer>>
  <2>1. UNCHANGED <<txOpts, txRam>> /\ txpc' = txpc
    BY <1>1 DEF contentsVars
  <2>. QED  BY <1>1, <1>2, <1>4, <2>1, QuietFaultless
<1>5. CASE /\ "filename" \in txFileData.valid
           /\ blk_buffer' = NameBlock /\ PutFrame(NameBlock)
  BY <1>1, <1>2, <1>3, <1>5, NamesAreTold, NameSentFaultless
<1>6. CASE SendEndOfBatch
  BY <1>1, <1>2, <1>3, <1>6, NamesAreTold, NameSentFaultless
  DEF SendEndOfBatch
<1>. QED  BY <1>1, <1>4, <1>5, <1>6 DEF SendName

LEMMA TyMissedFaultless ==
  ASSUME YWindowInv, YFaultlessInv, UNCHANGED rxVars, UNCHANGED ryVars,
         TyNotCalled \/ TyCallTimeout
  PROVE  YFaultlessInv'
<1>1. /\ tyPhase \in {"call", "next"} /\ tyPhase' \in {tyPhase, "done"}
      /\ UNCHANGED <<toRx, faults, txFileData>> /\ UNCHANGED txVars
  BY DEF TyNotCalled, TyCallTimeout, TyMissed, TyReturn
<1>2. UNCHANGED <<txOpts, txRam, blk_buffer>> /\ txpc' = txpc /\ blkNo' = blkNo
  BY <1>1 DEF txVars
<1>. QED  BY <1>1, <1>2, QuietFaultless

LEMMA TyReactFaultless ==
  ASSUME YWindowInv, YFaultlessInv, UNCHANGED rxVars, UNCHANGED ryVars,
         tyPhase \in {"name", "batch"}, NEW c, TyReact(c),
         txFileData' = txFileData
  PROVE  YFaultlessInv'
<1>1. /\ txpc # "reply" /\ blk_buffer \in Frame
      /\ Listening => ~DataSent
  BY YEmitterFacts
<1>2. /\ NameTold(blk_buffer) /\ Untouched(blk_buffer)
      /\ blk_buffer.hdr # EOT /\ blk_buffer.seq <= 1
  BY DEF YFaultlessInv, SizeKnown, FramesUntouched
<1>3. CASE UNCHANGED <<toRx, faults, txVars>>
  <2>1. UNCHANGED <<toRx, faults, blk_buffer, txOpts, txRam>> /\ txpc' = txpc
    BY <1>3 DEF txVars
  <2>. QED  BY <1>1, <2>1, QuietFaultless
<1>4. CASE SendAgain /\ UNCHANGED contentsVars
  <2>1. PutFrame(blk_buffer) /\ blk_buffer' = blk_buffer
    BY <1>4 DEF SendAgain
  <2>. QED  BY <1>1, <1>2, <1>4, <2>1, NameSentFaultless
<1>. QED  BY <1>3, <1>4 DEF TyReact

LEMMA TyReplyFaultless ==
  ASSUME YWindowInv, YFaultlessInv, UNCHANGED rxVars, UNCHANGED ryVars,
         TyReply \/ TyReplyTimeout
  PROVE  YFaultlessInv'
<1>1. /\ tyPhase \in {"name", "batch"} /\ txFileData' = txFileData
      /\ \/ \E c : TyReact(c)
         \/ UNCHANGED <<toRx, faults, txVars, tyPhase>>
  BY DEF TyReply, TyReplyTimeout
<1>2. CASE \E c : TyReact(c)
  BY <1>1, <1>2, TyReactFaultless
<1>3. CASE UNCHANGED <<toRx, faults, txVars, tyPhase>>
  <2>1. /\ UNCHANGED <<toRx, faults, blk_buffer, txOpts, txRam>>
        /\ txpc' = txpc /\ blkNo' = blkNo
    BY <1>3 DEF txVars
  <2>. QED  BY <1>1, <1>3, <2>1, QuietFaultless
<1>. QED  BY <1>1, <1>2, <1>3

LEMMA TyTransferredFaultless ==
  ASSUME YWindowInv, YFaultlessInv, SizesTold, UNCHANGED rxVars,
         UNCHANGED ryVars, TyTransferred
  PROVE  YFaultlessInv'
<1>1. /\ txpc = "done" /\ UNCHANGED contentsVars /\ txFileData' = txFileData
      /\ \/ /\ tyPhase' = "next"
            /\ UNCHANGED <<toRx, faults, blk_buffer>>
         \/ emittedBytes = 0 /\ SendEndOfBatch
  BY DEF TyTransferred
<1>2. UNCHANGED <<txOpts, txRam>> /\ txpc' = txpc
  BY <1>1 DEF contentsVars
<1>3. CASE tyPhase' = "next" /\ UNCHANGED <<toRx, faults, blk_buffer>>
  BY <1>1, <1>2, <1>3, QuietFaultless
<1>4. CASE emittedBytes = 0 /\ SendEndOfBatch
  <2>1. ~DataSent
    BY <1>1, <1>4 DEF YWindowInv, YEmitterAtBlkNo
  <2>. QED  BY <1>1, <1>4, <2>1, NamesAreTold, NameSentFaultless
            DEF SendEndOfBatch
<1>. QED  BY <1>1, <1>3, <1>4

LEMMA YTxNextFaultless ==
  ASSUME YWindowInv, YFaultlessInv, SizesTold, YTxNext
  PROVE  YFaultlessInv'
<1>1. UNCHANGED rxVars /\ UNCHANGED ryVars
  BY DEF YTxNext
<1>2. CASE TyReceives
  BY <1>1, <1>2, TyCalledFaultless, TyMissedFaultless, TyReplyFaultless
  DEF TyReceives
<1>3. CASE TyTimeouts
  BY <1>1, <1>3, TyMissedFaultless, TyReplyFaultless DEF TyTimeouts
<1>4. CASE TyTransferred
  BY <1>1, <1>4, TyTransferredFaultless
<1>5. ASSUME tyPhase = "contents", UNCHANGED tyVars,
             TxReceives \/ TxPreambuleTimeout \/ TxTimeout
      PROVE  YFaultlessInv'
  <2>1. CASE TxPreambule
    BY <1>1, <1>5, <2>1, YTxPreambuleFaultless
  <2>2. CASE TxPreambuleRefused
    BY <1>1, <1>5, <2>2, YTxRefusedFaultless
  <2>3. CASE TxAck
    BY <1>1, <1>5, <2>3, YTxAckFaultless
  <2>4. CASE TxNak \/ TxOther
    <3>1. /\ txpc = "reply" /\ UNCHANGED <<txOpts, blkNo>>
          /\ \E limit : TxError(limit)
      BY <2>4 DEF TxNak, TxOther, ReplyArrived
    <3>. QED  BY <1>1, <1>5, <3>1, YTxErrorFaultless
  <2>5. CASE TxPreambuleTimeout \/ TxTimeout
    BY <1>1, <1>5, <2>5, YTxTimeoutFaultless
  <2>. QED  BY <1>5, <2>1, <2>2, <2>3, <2>4, <2>5 DEF TxReceives
<1>. QED  BY <1>2, <1>3, <1>4, <1>5 DEF YTxNext

(***************************************************************************)
(* The line, the end and the beginning; and what follows.                  *)
(***************************************************************************)
LEMMA LineNoiseFaultless ==
  ASSUME YWindowInv, YFaultlessInv, LineNoise
  PROVE  YFaultlessInv'
<1>1. /\ UNCHANGED rxVars /\ UNCHANGED ryVars
      /\ UNCHANGED <<txOpts, txRam, txFileData, blk_buffer>>
      /\ tyPhase' = tyPhase /\ txpc' = txpc
      /\ faults' = faults + 1
      /\ \E c \in NoiseBytes : toRx' = Append(toRx, CharFrame(c, 0))
  BY DEF LineNoise, Noise, Fault, txVars, tyVars
<1>2. PICK c \in NoiseBytes : toRx' = Append(toRx, CharFrame(c, 0))
  BY <1>1
<1>. DEFINE g == CharFrame(c, 0)
<1>3. g \in Frame /\ ~IsBlock(g)
  <2>1. c \in Byte \ {SOH, STX}
    BY LineAssumption
  <2>2. g \in Frame
    BY <2>1, LModemAssumption
    DEF CharFrame, NoMeta, Meta, Frame, Byte, BlkNumber
  <2>3. g.hdr = c
    BY DEF CharFrame
  <2>. QED  BY <2>1, <2>2, <2>3 DEF IsBlock
<1>4. toRx' = Append(toRx, g)
  BY <1>2
<1>. HIDE DEF g
<1>5. FileSize' = FileSize /\ NbBlocks' = NbBlocks
  BY <1>1, FrozenFile, FrozenBlocks
<1>6. \A i \in DOMAIN toRx' :
        toRx'[i] = g \/ (i \in DOMAIN toRx /\ toRx'[i] = toRx[i])
  BY <1>3, <1>4, YWindowTypes, AppendedFrames
<1>7. NameTold(blk_buffer)' /\ (\A i \in DOMAIN toRx : NameTold(toRx[i]))'
  BY <1>1, <1>3, <1>5, <1>6 DEF YFaultlessInv, SizeKnown, NameTold
<1>8. faults' # 0 /\ faults' \in {faults, faults + 1}
  BY <1>1, YWindowTypes
<1>9. FramesUntouched'
  BY <1>1, <1>5, <1>8 DEF YFaultlessInv, FramesUntouched, Untouched
<1>. QED  BY <1>1, <1>7, <1>8, <1>9, EmitterFaultless

LEMMA YStutterFaultless ==
  ASSUME YWindowInv, YFaultlessInv, UNCHANGED yVars
  PROVE  YFaultlessInv'
<1>1. /\ UNCHANGED rxVars /\ UNCHANGED ryVars
      /\ UNCHANGED <<toRx, faults, blk_buffer, txOpts, txRam, txFileData>>
      /\ tyPhase' = tyPhase /\ txpc' = txpc /\ blkNo' = blkNo
  BY DEF yVars, vars, lineVars, txVars, tyVars
<1>. QED  BY <1>1, QuietFaultless

LEMMA YInitFaultless ==
  ASSUME YInit
  PROVE  YFaultlessInv
<1>. DEFINE opts == "lxmodem_128_with_chksum"
<1>1. PICK size \in FileSizes, valid \in Valids :
        TxInit(opts, size) /\ TyInit(valid, size)
  BY DEF YInit
<1>2. PICK max_size \in RamSizes : RxInit(opts, max_size)
  BY DEF YInit
<1>3. /\ toRx = <<>> /\ ryPhase = "start" /\ rxFileData = NoFileData
      /\ rxpc = "idle" /\ rxData = <<>> /\ expectedBlkNumber = 1
  BY <1>2 DEF YInit, LineInit, RyInit, RxInit
<1>4. size \in Nat /\ max_size \in Nat
  BY LinkAssumption
<1>5. txRam = [max_size |-> size, read_offset |-> 0, write_offset |-> size]
  BY <1>1, <1>4
  DEF TxInit, lmodem_buffer_set_write_offset, lmodem_buffer_init
<1>6. rxRam = [max_size |-> max_size, read_offset |-> 0, write_offset |-> 0]
  BY <1>2 DEF RxInit, lmodem_buffer_init
<1>7. FileSize = size /\ NbBlocks \in Nat
  <2>1. FileSize = size
    BY <1>5 DEF FileSize
  <2>2. 1 \in Nat \ {0}
    OBVIOUS
  <2>. QED  BY <1>4, <2>1, <2>2, BlockIffBytesLeft
<1>8. /\ txFileData.valid = valid
      /\ "filesize" \in valid => txFileData.size = size
      /\ tyPhase = "call" /\ txpc = "preambule"
      /\ blk_buffer = CharFrame(0, 1)
  BY <1>1 DEF TxInit, TyInit
<1>9. blk_buffer.hdr = 0 /\ blk_buffer.seq = 1
  BY <1>8 DEF CharFrame
<1>10. SizeKnown
  <2>1. ~IsBlock(blk_buffer)
    BY <1>9 DEF IsBlock, SOH, STX
  <2>. QED  BY <1>3, <1>7, <1>8, <2>1
            DEF SizeKnown, NameTold, NoFileData
<1>11. FramesUntouched
  BY <1>3, <1>8, <1>9
  DEF FramesUntouched, Untouched, IsBlock, SOH, STX, EOT
<1>12. EachFollows
  BY <1>3, <1>7, <1>8 DEF EachFollows, Consecutive
<1>13. BlocksWritten
  <2>1. Len(rxData) * defaultBlksize = 0
    BY <1>3, BlksizeType
  <2>2. Smaller(FileSize, Len(rxData) * defaultBlksize) = 0
    BY <1>4, <1>7, <2>1 DEF Smaller
  <2>3. rxRam.write_offset >= 0
    BY <1>6
  <2>. QED  BY <1>3, <2>2, <2>3 DEF BlocksWritten, RxSucceeded
<1>14. CompleteWithoutFaults /\ ExactWithoutFaults
  BY <1>3
  DEF CompleteWithoutFaults, CompleteOnSuccess, RxSucceeded,
      ExactWithoutFaults, ExactCopy, RyDone
<1>. QED  BY <1>10, <1>11, <1>12, <1>13, <1>14 DEF YFaultlessInv

-----------------------------------------------------------------------------
(* On a line without faults every frame that lymodem_receive and           *)
(* lxmodem_receive read follows the frame before it, or is that frame sent *)
(* again, whichever call was made first and however late every answer is;  *)
(* provided the user of the emitter tells the size of a file he names.     *)
THEOREM YFaultlessIsInvariant ==
  ASSUME SizesTold
  PROVE  YSpec => []YFaultlessInv
<1>1. YInit => YFaultlessInv
  BY YInitFaultless
<1>2. YWindowInv /\ YFaultlessInv /\ [YNext]_yVars => YFaultlessInv'
  <2>. SUFFICES ASSUME YWindowInv, YFaultlessInv, [YNext]_yVars
                PROVE  YFaultlessInv'
    OBVIOUS
  <2>1. CASE YRxNext
    BY <2>1, YRxNextFaultless
  <2>2. CASE YTxNext
    BY <2>2, YTxNextFaultless
  <2>3. CASE LineNoise
    BY <2>3, LineNoiseFaultless
  <2>4. CASE UNCHANGED yVars
    BY <2>4, YStutterFaultless
  <2>. QED  BY <2>1, <2>2, <2>3, <2>4 DEF YNext, YTerminated
<1>. QED  BY <1>1, <1>2, YWindowIsInvariant, PTL DEF YSpec

(* What lymodem_receive leaves in its file when it returns a number of     *)
(* bytes over such a line is the emitter's file, every block of it and     *)
(* with the padding of the last one cut off, although names, blocks and    *)
(* replies may each have been sent several times.                          *)
THEOREM ExactWhenFaultless ==
  ASSUME SizesTold
  PROVE  YSpec => []ExactWithoutFaults
<1>1. YFaultlessInv => ExactWithoutFaults
  BY DEF YFaultlessInv
<1>. QED  BY <1>1, YFaultlessIsInvariant, PTL
=============================================================================
