-------------------------- MODULE XModemLinkProofs --------------------------
(***************************************************************************)
(* Proofs about XModemLink, for every file size, block size, number of     *)
(* faults and retry limit.                                                 *)
(***************************************************************************)
EXTENDS XModemLink, SequenceTheorems, TLAPS

(***************************************************************************)
(* Arithmetic.                                                             *)
(***************************************************************************)
(* What \div and % compute.                                                *)
LEMMA DivMod ==
  ASSUME NEW a \in Int, NEW m \in Nat \ {0}
  PROVE  /\ a \div m \in Int
         /\ a % m \in 0 .. m - 1
         /\ a = m * (a \div m) + (a % m)
OBVIOUS

(* A multiple of m other than 0 is at least m away from 0.                 *)
LEMMA MultipleFar ==
  ASSUME NEW q \in Int, NEW m \in Nat \ {0}, q # 0
  PROVE  m * q >= m \/ m * q <= -m
<1>1. CASE q >= 1
  BY <1>1
<1>2. CASE q <= -1
  BY <1>2
<1>. QED  BY <1>1, <1>2

(* Two block numbers less than one turn of the counter apart, and equal as *)
(* bytes, are equal.                                                       *)
LEMMA SameByte ==
  ASSUME NEW a \in Int, NEW b \in Int, NEW m \in Nat \ {0},
         a % m = b % m, a - b < m, b - a < m
  PROVE  a = b
<1>. DEFINE x == a \div m
            y == b \div m
            r == a % m
<1>1. x \in Int /\ y \in Int /\ a = m * x + r /\ b = m * y + r /\ r \in Int
  BY DivMod
<1>. HIDE DEF x, y, r
<1>2. m * x - m * y = m * (x - y)
  BY <1>1
<1>. DEFINE q == x - y
<1>3. q \in Int
  BY <1>1
<1>4. a - b = m * q
  <2>. DEFINE mx == m * x
              my == m * y
  <2>1. mx \in Int /\ my \in Int
    BY <1>1
  <2>2. a = mx + r /\ b = my + r
    BY <1>1
  <2>3. mx - my = m * q
    BY <1>2
  <2>. HIDE DEF mx, my, q
  <2>. QED  BY <1>1, <2>1, <2>2, <2>3
<1>. HIDE DEF q
<1>5. q = 0
  BY <1>3, <1>4, MultipleFar
<1>. QED  BY <1>4, <1>5

(***************************************************************************)
(* The operators of RamFile, where int32_t can hold the sizes.             *)
(***************************************************************************)
(* lmodem_buffer_write stores all of the data or nothing, and stores it    *)
(* only when room is left after it.                                        *)
LEMMA WriteAllOrNothing ==
  ASSUME NEW b \in RamFileType, NEW size \in Nat,
         b.write_offset <= b.max_size, b.max_size < HalfWord, size < HalfWord
  PROVE  NbToCopy(b, size) =
           IF size < b.max_size - b.write_offset THEN size ELSE 0
BY HalfWordAssumption
   DEF NbToCopy, lmodem_buffer_get_remaining_capacity, Int32, RamFileType

(* lmodem_buffer_get_size counts the bytes not read yet.                   *)
LEMMA SizeLeft ==
  ASSUME NEW b \in RamFileType,
         b.read_offset <= b.write_offset, b.write_offset < HalfWord
  PROVE  lmodem_buffer_get_size(b) = b.write_offset - b.read_offset
BY HalfWordAssumption DEF lmodem_buffer_get_size, Int32, RamFileType

(* lmodem_buffer_read returns what it is asked for when that much is left. *)
LEMMA ReadExactly ==
  ASSUME NEW b \in RamFileType, NEW size \in Nat,
         b.read_offset <= b.write_offset, b.write_offset < HalfWord,
         size <= b.write_offset - b.read_offset
  PROVE  lmodem_buffer_read(b, size) =
           [b EXCEPT !.read_offset = b.read_offset + size]
<1>1. ReadSize(b, size) = size
  BY SizeLeft, HalfWordAssumption DEF ReadSize, Int32, RamFileType
<1>. QED  BY <1>1 DEF lmodem_buffer_read, RamFileType

(***************************************************************************)
(* The line.                                                               *)
(***************************************************************************)
(* What a hit makes of a frame.                                            *)
LEMMA DamagedFrame ==
  ASSUME NEW f \in Frame, NEW g \in Damaged(f)
  PROVE  /\ g \in Frame
         /\ g.seq = f.seq
         /\ IsBlock(g) =>
              /\ IsBlock(f)
              /\ g.hdr = f.hdr
              /\ g.blk = f.blk
              /\ g.good => f.good /\ ChunkIn(g) = ChunkIn(f)
<1>1. CASE IsBlock(f)
  <2>1. (f.cblk + 1) % BlkMod \in BlkNumber
    <3>1. f.cblk + 1 \in Int /\ BlkMod \in Nat \ {0}
      BY LModemAssumption DEF Frame, BlkNumber
    <3>2. (f.cblk + 1) % BlkMod \in 0 .. BlkMod - 1
      BY <3>1, DivMod
    <3>. QED  BY <3>2 DEF BlkNumber
  <2>. QED  BY <1>1, <2>1 DEF Damaged, Frame, IsBlock, ChunkIn, BlkSize
<1>2. CASE ~IsBlock(f)
  BY <1>2, LineAssumption DEF Damaged, Frame, IsBlock
<1>. QED  BY <1>1, <1>2

(* A frame that is sent arrives, perhaps damaged, or costs a fault.        *)
LEMMA PutFrameEffect ==
  ASSUME LineTypeOK, NEW f \in Frame, PutFrame(f)
  PROVE  /\ faults' \in 0 .. MaxFaults
         /\ \/ toRx' = toRx /\ faults' = faults + 1
            \/ /\ faults' \in {faults, faults + 1}
               /\ \E g \in Frame :
                    /\ toRx' = Append(toRx, g)
                    /\ g.seq = f.seq
                    /\ IsBlock(g) =>
                         /\ IsBlock(f)
                         /\ g.hdr = f.hdr
                         /\ g.blk = f.blk
                         /\ g.good => f.good /\ ChunkIn(g) = ChunkIn(f)
<1>1. CASE toRx' = Append(toRx, f) /\ UNCHANGED faults
  BY <1>1 DEF LineTypeOK
<1>2. CASE Fault("lose") /\ UNCHANGED toRx
  BY <1>2, LineAssumption DEF LineTypeOK, Fault
<1>3. CASE Fault("damage") /\ \E g \in Damaged(f) : toRx' = Append(toRx, g)
  <2>1. PICK g \in Damaged(f) : toRx' = Append(toRx, g)
    BY <1>3
  <2>2. faults' = faults + 1 /\ faults' \in 0 .. MaxFaults
    BY <1>3, LineAssumption DEF LineTypeOK, Fault
  <2>. QED  BY <2>1, <2>2, DamagedFrame
<1>. QED  BY <1>1, <1>2, <1>3 DEF PutFrame

(* The receiver's characters only change the line towards the emitter.     *)
LEMMA PutCharsEffect ==
  ASSUME LineTypeOK, NEW s \in Seq(Byte), PutChars(s)
  PROVE  /\ toTx' \in Seq(Byte)
         /\ faults' \in 0 .. MaxFaults
         /\ faults' \in {faults, faults + 1}
<1>1. CASE toTx' = toTx \o s /\ UNCHANGED faults
  BY <1>1 DEF LineTypeOK
<1>2. CASE Fault("reply") /\
           \E k \in DOMAIN s :
             \/ toTx' = toTx \o Lost(s, k)
             \/ \E c \in NoiseBytes : toTx' = toTx \o Garbled(s, k, c)
  <2>1. faults' = faults + 1 /\ faults' \in 0 .. MaxFaults
    BY <1>2, LineAssumption DEF LineTypeOK, Fault
  <2>2. PICK k \in DOMAIN s :
             \/ toTx' = toTx \o Lost(s, k)
             \/ \E c \in NoiseBytes : toTx' = toTx \o Garbled(s, k, c)
    BY <1>2
  <2>3. Lost(s, k) \in Seq(Byte)
    <3>1. k \in 1 .. Len(s)
      BY <2>2
    <3>2. SubSeq(s, 1, k - 1) \in Seq(Byte)
      BY <3>1, SubSeqProperties
    <3>3. SubSeq(s, k + 1, Len(s)) \in Seq(Byte)
      BY <3>1, SubSeqProperties
    <3>. QED  BY <3>2, <3>3 DEF Lost
  <2>4. ASSUME NEW c \in NoiseBytes
        PROVE  Garbled(s, k, c) \in Seq(Byte)
    BY <2>2, LineAssumption DEF Garbled
  <2>5. ASSUME NEW t \in Seq(Byte)
        PROVE  toTx \o t \in Seq(Byte)
    BY ConcatProperties DEF LineTypeOK
  <2>6. toTx' \in Seq(Byte)
    BY <2>2, <2>3, <2>4, <2>5
  <2>. QED  BY <2>1, <2>6
<1>. QED  BY <1>1, <1>2 DEF PutChars

(* The header of a frame that is sent arrives as it is, or is noise in the *)
(* place of a control character; without a fault the frame is untouched.   *)
LEMMA PutFrameHeader ==
  ASSUME LineTypeOK, NEW f \in Frame, PutFrame(f)
  PROVE  \/ toRx' = toRx /\ faults' # faults
         \/ \E g \in Frame :
              /\ toRx' = Append(toRx, g)
              /\ g.seq = f.seq
              /\ g.hdr = f.hdr \/ g.hdr \in NoiseBytes
              /\ faults' = faults => g = f
<1>0. faults \in Nat
  BY DEF LineTypeOK
<1>1. CASE toRx' = Append(toRx, f) /\ UNCHANGED faults
  BY <1>1
<1>2. CASE Fault("lose") /\ UNCHANGED toRx
  BY <1>0, <1>2 DEF Fault
<1>3. CASE Fault("damage") /\ \E g \in Damaged(f) : toRx' = Append(toRx, g)
  <2>1. PICK g \in Damaged(f) : toRx' = Append(toRx, g)
    BY <1>3
  <2>2. faults' # faults
    BY <1>0, <1>3 DEF Fault
  <2>3. g \in Frame /\ g.seq = f.seq
    BY DamagedFrame
  <2>4. g.hdr = f.hdr \/ g.hdr \in NoiseBytes
    <3>1. CASE IsBlock(f)
      BY <3>1, DamagedFrame DEF Damaged, Frame
    <3>2. CASE ~IsBlock(f)
      BY <3>2 DEF Damaged, Frame
    <3>. QED  BY <3>1, <3>2
  <2>. QED  BY <2>1, <2>2, <2>3, <2>4
<1>. QED  BY <1>1, <1>2, <1>3 DEF PutFrame

(* With one character lost, those behind it move up.                       *)
LEMMA LostChars ==
  ASSUME NEW s \in Seq(Byte), NEW k \in DOMAIN s
  PROVE  /\ Lost(s, k) \in Seq(Byte)
         /\ Len(Lost(s, k)) <= Len(s)
         /\ \A i \in DOMAIN Lost(s, k) :
              /\ i \in Nat \ {0}
              /\ \/ i \in DOMAIN s /\ Lost(s, k)[i] = s[i]
                 \/ i + 1 \in DOMAIN s /\ Lost(s, k)[i] = s[i + 1]
<1>. DEFINE a == SubSeq(s, 1, k - 1)
            b == SubSeq(s, k + 1, Len(s))
<1>1. k \in 1 .. Len(s) /\ Len(s) \in Nat
  OBVIOUS
<1>2. a \in Seq(Byte) /\ Len(a) = k - 1 /\ \A i \in 1 .. k - 1 : a[i] = s[i]
  BY <1>1, SubSeqProperties
<1>3. /\ b \in Seq(Byte) /\ Len(b) = Len(s) - k
      /\ \A i \in 1 .. Len(s) - k : b[i] = s[i + k]
  BY <1>1, SubSeqProperties
<1>. HIDE DEF a, b
<1>. DEFINE u == a \o b
<1>4. /\ u \in Seq(Byte) /\ Len(u) = Len(a) + Len(b)
      /\ \A i \in 1 .. Len(a) + Len(b) :
           u[i] = IF i <= Len(a) THEN a[i] ELSE b[i - Len(a)]
  BY <1>2, <1>3, ConcatProperties
<1>5. Lost(s, k) = u
  BY DEF Lost, a, b
<1>. HIDE DEF u
<1>6. Len(u) = Len(s) - 1 /\ DOMAIN u = 1 .. Len(s) - 1
  BY <1>1, <1>2, <1>3, <1>4
<1>7. ASSUME NEW i \in DOMAIN u
      PROVE  /\ i \in Nat \ {0}
             /\ \/ i \in DOMAIN s /\ u[i] = s[i]
                \/ i + 1 \in DOMAIN s /\ u[i] = s[i + 1]
  <2>1. i \in 1 .. Len(s) - 1
    BY <1>6
  <2>2. CASE i <= k - 1
    BY <1>1, <1>2, <1>3, <1>4, <2>1, <2>2
  <2>3. CASE ~(i <= k - 1)
    <3>1. i - (k - 1) \in 1 .. Len(s) - k
      BY <1>1, <2>1, <2>3
    <3>2. u[i] = b[i - (k - 1)]
      BY <1>1, <1>2, <1>3, <1>4, <2>1, <2>3
    <3>3. b[i - (k - 1)] = s[i - (k - 1) + k]
      BY <3>1, <1>3
    <3>4. i - (k - 1) + k = i + 1
      BY <1>1, <2>1
    <3>. QED  BY <3>2, <3>3, <3>4, <1>1, <2>1
  <2>. QED  BY <2>2, <2>3
<1>. QED  BY <1>1, <1>4, <1>5, <1>6, <1>7

(* What the receiver sends in one go arrives as it is, or as noise, behind *)
(* what is on its way.                                                     *)
LEMMA PutCharsContent ==
  ASSUME LineTypeOK, NEW s \in Seq(Byte), PutChars(s)
  PROVE  \E r \in Seq(Byte) :
           /\ toTx' = toTx \o r
           /\ Len(r) <= Len(s)
           /\ \A i \in DOMAIN r :
                r[i] \in NoiseBytes \/ \E j \in DOMAIN s : r[i] = s[j]
<1>1. CASE toTx' = toTx \o s /\ UNCHANGED faults
  BY <1>1
<1>2. ASSUME NEW k \in DOMAIN s, toTx' = toTx \o Lost(s, k)
      PROVE  \E r \in Seq(Byte) :
               /\ toTx' = toTx \o r
               /\ Len(r) <= Len(s)
               /\ \A i \in DOMAIN r :
                    r[i] \in NoiseBytes \/ \E j \in DOMAIN s : r[i] = s[j]
  <2>1. /\ Lost(s, k) \in Seq(Byte) /\ Len(Lost(s, k)) <= Len(s)
        /\ \A i \in DOMAIN Lost(s, k) :
             \E j \in DOMAIN s : Lost(s, k)[i] = s[j]
    BY LostChars
  <2>. QED  BY <1>2, <2>1
<1>3. ASSUME NEW k \in DOMAIN s, NEW c \in NoiseBytes,
             toTx' = toTx \o Garbled(s, k, c)
      PROVE  \E r \in Seq(Byte) :
               /\ toTx' = toTx \o r
               /\ Len(r) <= Len(s)
               /\ \A i \in DOMAIN r :
                    r[i] \in NoiseBytes \/ \E j \in DOMAIN s : r[i] = s[j]
  <2>1. c \in Byte
    BY LineAssumption
  <2>. DEFINE u == Garbled(s, k, c)
  <2>2. /\ u \in Seq(Byte) /\ Len(u) = Len(s) /\ Len(s) \in Nat
        /\ DOMAIN u = DOMAIN s
        /\ \A i \in DOMAIN s : u[i] = IF i = k THEN c ELSE s[i]
    BY <2>1 DEF Garbled
  <2>. HIDE DEF u
  <2>3. toTx' = toTx \o u
    BY <1>3 DEF u
  <2>4. \A i \in DOMAIN u :
          u[i] \in NoiseBytes \/ \E j \in DOMAIN s : u[i] = s[j]
    BY <2>2
  <2>5. Len(u) <= Len(s)
    BY <2>2
  <2>. QED  BY <2>2, <2>3, <2>4, <2>5
<1>. QED  BY <1>1, <1>2, <1>3 DEF PutChars

(* What the receiver sends in one go arrives behind what is on its way: no *)
(* longer, and with an ACK only in the place where it was sent.            *)
LEMMA PutCharsArrive ==
  ASSUME LineTypeOK, NEW s \in Seq(Byte), PutChars(s), ACK \notin NoiseBytes,
         \A k \in DOMAIN s : s[k] = ACK => k = 1
  PROVE  \E r \in Seq(Byte) :
           /\ toTx' = toTx \o r
           /\ Len(r) <= Len(s)
           /\ \A i \in DOMAIN r : r[i] = ACK => i = 1 /\ s # <<>> /\ s[1] = ACK
<1>1. CASE toTx' = toTx \o s /\ UNCHANGED faults
  <2>1. \A i \in DOMAIN s : s[i] = ACK => i = 1 /\ s # <<>> /\ s[1] = ACK
    OBVIOUS
  <2>. QED  BY <1>1, <2>1
<1>2. ASSUME NEW k \in DOMAIN s, toTx' = toTx \o Lost(s, k)
      PROVE  \E r \in Seq(Byte) :
               /\ toTx' = toTx \o r
               /\ Len(r) <= Len(s)
               /\ \A i \in DOMAIN r :
                    r[i] = ACK => i = 1 /\ s # <<>> /\ s[1] = ACK
  <2>. DEFINE u == Lost(s, k)
  <2>1. /\ u \in Seq(Byte) /\ Len(u) <= Len(s)
        /\ \A i \in DOMAIN u :
             /\ i \in Nat \ {0}
             /\ \/ i \in DOMAIN s /\ u[i] = s[i]
                \/ i + 1 \in DOMAIN s /\ u[i] = s[i + 1]
    BY LostChars
  <2>. HIDE DEF u
  <2>2. ASSUME NEW i \in DOMAIN u, u[i] = ACK
        PROVE  i = 1 /\ s # <<>> /\ s[1] = ACK
    <3>1. CASE i \in DOMAIN s /\ u[i] = s[i]
      BY <2>2, <3>1
    <3>2. CASE i + 1 \in DOMAIN s /\ u[i] = s[i + 1]
      <4>1. i + 1 = 1 /\ i \in Nat \ {0}
        BY <2>1, <2>2, <3>2
      <4>. QED  BY <4>1
    <3>. QED  BY <2>1, <3>1, <3>2
  <2>3. toTx' = toTx \o u
    BY <1>2 DEF u
  <2>. QED  BY <2>1, <2>2, <2>3
<1>3. ASSUME NEW k \in DOMAIN s, NEW c \in NoiseBytes,
             toTx' = toTx \o Garbled(s, k, c)
      PROVE  \E r \in Seq(Byte) :
               /\ toTx' = toTx \o r
               /\ Len(r) <= Len(s)
               /\ \A i \in DOMAIN r :
                    r[i] = ACK => i = 1 /\ s # <<>> /\ s[1] = ACK
  <2>1. c \in Byte /\ c # ACK
    BY LineAssumption
  <2>. DEFINE u == Garbled(s, k, c)
  <2>2. /\ u \in Seq(Byte)
        /\ Len(u) = Len(s) /\ Len(s) \in Nat
        /\ DOMAIN u = DOMAIN s
        /\ \A i \in DOMAIN s : u[i] = IF i = k THEN c ELSE s[i]
    BY <2>1 DEF Garbled
  <2>. HIDE DEF u
  <2>3. ASSUME NEW i \in DOMAIN u, u[i] = ACK
        PROVE  i = 1 /\ s # <<>> /\ s[1] = ACK
    BY <2>1, <2>2, <2>3
  <2>4. toTx' = toTx \o u
    BY <1>3 DEF u
  <2>5. Len(u) <= Len(s)
    BY <2>2
  <2>. QED  BY <2>2, <2>3, <2>4, <2>5
<1>. QED  BY <1>1, <1>2, <1>3 DEF PutChars

(***************************************************************************)
(* The emitter.                                                            *)
(***************************************************************************)
(* The block size is positive and int32_t can hold it.                     *)
LEMMA BlksizeType ==
  defaultBlksize \in Nat \ {0} /\ defaultBlksize <= LargeBlk
BY LModemAssumption DEF defaultBlksize

(* The next block starts where this one ends.                              *)
LEMMA NextOffset ==
  ASSUME NEW k \in Nat \ {0}
  PROVE  /\ (k - 1) * defaultBlksize \in Nat
         /\ k * defaultBlksize = (k - 1) * defaultBlksize + defaultBlksize
<1>1. ASSUME NEW d \in Nat
      PROVE  (k - 1) * d \in Nat /\ k * d = (k - 1) * d + d
  OBVIOUS
<1>. QED  BY <1>1, BlksizeType

(* lxmode_build_and_send_one_data_block builds the block its number says,  *)
(* or an EOT after the last one, and moves to the end of that block.       *)
LEMMA DataBlockIsBlockOf ==
  ASSUME txRam \in RamFileType, NEW k \in Nat \ {0},
         txRam.read_offset <= FileSize, FileSize < HalfWord,
         txRam.read_offset = Smaller(FileSize, (k - 1) * defaultBlksize)
  PROVE  /\ DataBlock(k) \in Frame
         /\ DataBlock(k).seq = k
         /\ IsBlock(DataBlock(k)) =>
              /\ DataBlock(k).blk = k % BlkMod
              /\ ChunkIn(DataBlock(k)) = BlockOf(k)
         /\ lmodem_buffer_read(txRam, bytesToRead) =
              [txRam EXCEPT
                 !.read_offset = Smaller(FileSize, k * defaultBlksize)]
<1>. DEFINE o == (k - 1) * defaultBlksize
            d == defaultBlksize
            n == Smaller(d, FileSize - txRam.read_offset)
<1>1. o \in Nat /\ k * defaultBlksize = o + d
  BY NextOffset
<1>2. d \in Nat \ {0} /\ d <= LargeBlk
  BY BlksizeType
<1>3. FileSize \in Nat /\ txRam.read_offset \in Nat
  BY DEF FileSize, RamFileType
<1>4. bytesToRead = n /\ n \in Nat /\ n <= FileSize - txRam.read_offset
  <2>1. lmodem_buffer_get_size(txRam) = FileSize - txRam.read_offset
    BY SizeLeft DEF FileSize
  <2>. QED  BY <2>1, <1>2, <1>3 DEF bytesToRead, Smaller
<1>5. lmodem_buffer_read(txRam, n) =
        [txRam EXCEPT !.read_offset = txRam.read_offset + n]
  BY <1>4, ReadExactly DEF FileSize
<1>6. txRam.read_offset + n = Smaller(FileSize, k * defaultBlksize)
  <2>. HIDE DEF o, d
  <2>1. txRam.read_offset = Smaller(FileSize, o)
    BY DEF o
  <2>. QED  BY <2>1, <1>1, <1>2, <1>3 DEF Smaller
<1>7. k % BlkMod \in BlkNumber /\ Complement(k % BlkMod) \in BlkNumber
  <2>1. k \in Int /\ BlkMod \in Nat \ {0}
    BY LModemAssumption
  <2>2. k % BlkMod \in 0 .. BlkMod - 1
    BY <2>1, DivMod
  <2>. QED  BY <2>1, <2>2 DEF BlkNumber, Complement
<1>8. CASE n = 0
  <2>1. DataBlock(k) = CharFrame(EOT, k)
    BY <1>8, <1>4 DEF DataBlock
  <2>2. CharFrame(EOT, k) \in Frame
    BY LModemAssumption DEF CharFrame, NoMeta, Meta, EOT, Frame, Byte, BlkNumber
  <2>3. CharFrame(EOT, k).seq = k /\ ~IsBlock(CharFrame(EOT, k))
    BY DEF CharFrame, EOT, IsBlock, SOH, STX
  <2>. QED  BY <2>1, <2>2, <2>3, <1>4, <1>5, <1>6
<1>9. CASE n # 0
  <2>. DEFINE h == IF n <= SmallBlk THEN SOH ELSE STX
  <2>1. DataBlock(k) =
          [hdr |-> h, blk |-> k % BlkMod, cblk |-> Complement(k % BlkMod),
           off |-> txRam.read_offset, n |-> n, good |-> TRUE,
           meta |-> NoMeta, seq |-> k]
    BY <1>9, <1>4 DEF DataBlock
  <2>2. txRam.read_offset = o /\ n = Smaller(d, FileSize - o)
    <3>. HIDE DEF d, o
    <3>1. txRam.read_offset = Smaller(FileSize, o)
      BY DEF o
    <3>. QED  BY <3>1, <1>9, <1>1, <1>2, <1>3 DEF Smaller
  <2>3. h \in Byte
    BY DEF Byte, SOH, STX
  <2>4. BlkSize(h) = IF n <= SmallBlk THEN SmallBlk ELSE LargeBlk
    BY DEF BlkSize, SOH, STX
  <2>5. BlockOf(k) = [off |-> o, n |-> n, size |-> BlkSize(h), good |-> TRUE]
    <3>. HIDE DEF h, n
    <3>. QED  BY <2>2, <2>4 DEF BlockOf
  <2>. HIDE DEF h, n, o, d
  <2>6. ChunkIn(DataBlock(k)) = BlockOf(k)
    <3>1. /\ DataBlock(k).off = o
          /\ DataBlock(k).n = n
          /\ DataBlock(k).hdr = h
      BY <2>1, <2>2
    <3>2. DataBlock(k).good = TRUE
      BY <2>1
    <3>. QED  BY <3>1, <3>2, <2>5, Zenon DEF ChunkIn
  <2>7. DataBlock(k) \in Frame
    BY <2>1, <2>3, <1>3, <1>4, <1>7 DEF Frame, NoMeta, Meta
  <2>. QED  BY <2>1, <2>6, <2>7, <1>4, <1>5, <1>6
<1>. QED  BY <1>8, <1>9

(* Multiplication by the block size keeps the order.                       *)
LEMMA TimesMonotone ==
  ASSUME NEW a \in Nat, NEW b \in Nat, NEW d \in Nat, a <= b
  PROVE  a * d \in Nat /\ b * d \in Nat /\ a * d <= b * d
<1>. DEFINE c == b - a
<1>1. c \in Nat /\ b = a + c
  OBVIOUS
<1>. HIDE DEF c
<1>2. (a + c) * d = a * d + c * d
  BY <1>1
<1>3. a * d \in Nat /\ c * d \in Nat
  BY <1>1
<1>. QED  BY <1>1, <1>2, <1>3

(* There are bytes for block k when it is one of the NbBlocks.             *)
LEMMA BlockIffBytesLeft ==
  ASSUME FileSize \in Nat, NEW k \in Nat \ {0}
  PROVE  /\ NbBlocks \in Nat
         /\ (k - 1) * defaultBlksize < FileSize <=> k <= NbBlocks
<1>. DEFINE d == defaultBlksize
            q == NbBlocks
            r == (FileSize + d - 1) % d
<1>1. d \in Nat \ {0}
  BY BlksizeType
<1>2. FileSize + d - 1 = d * q + r /\ q \in Int /\ r \in 0 .. d - 1
  <2>. DEFINE a == FileSize + d - 1
  <2>1. a \in Int
    BY <1>1
  <2>2. q = a \div d /\ r = a % d
    BY DEF NbBlocks
  <2>. HIDE DEF a, d, q, r
  <2>3. a = d * (a \div d) + (a % d) /\ a \div d \in Int /\ a % d \in 0 .. d - 1
    BY <1>1, <2>1, DivMod
  <2>4. a = d * q + r /\ q \in Int /\ r \in 0 .. d - 1
    BY <2>2, <2>3
  <2>. QED  BY <2>4 DEF a
<1>3. (k - 1) * d \in Nat /\ k * d = (k - 1) * d + d
  BY NextOffset
<1>. HIDE DEF d, q, r
<1>4. q \in Nat
  <2>1. CASE q <= -1
    <3>1. d * q <= -d
      <4>1. (-1 - q) * d \in Nat
        BY <1>1, <1>2, <2>1
      <4>2. (-1 - q) * d = -d - d * q
        BY <1>1, <1>2
      <4>3. d * q \in Int
        BY <1>1, <1>2
      <4>. QED  BY <4>1, <4>2, <4>3, <1>1
    <3>2. d * q \in Int
      BY <1>1, <1>2
    <3>. QED  BY <3>1, <3>2, <1>1, <1>2
  <2>. QED  BY <2>1, <1>2
<1>5. d * q = q * d /\ q * d \in Nat /\ k * d \in Nat
  BY <1>1, <1>4
<1>6. CASE k <= q
  <2>1. k * d <= q * d
    BY <1>1, <1>4, <1>6, TimesMonotone
  <2>. QED  BY <1>1, <1>2, <1>3, <1>4, <1>5, <1>6, <2>1 DEF d, q
<1>7. CASE ~(k <= q)
  <2>1. (q + 1) * d <= k * d
    BY <1>1, <1>4, <1>7, TimesMonotone
  <2>2. (q + 1) * d = q * d + d
    BY <1>1, <1>4
  <2>3. ~((k - 1) * d < FileSize)
    BY <1>1, <1>2, <1>3, <1>5, <2>1, <2>2
  <2>. QED  BY <1>4, <1>7, <2>3 DEF d, q
<1>. QED  BY <1>6, <1>7

(* The frame of the next block is a block of the file or the EOT behind    *)
(* the last one, and it is a large block only in the modes that have them. *)
LEMMA DataBlockIsIntact ==
  ASSUME txRam \in RamFileType, NEW k \in Nat \ {0}, k <= NbBlocks + 1,
         txRam.read_offset <= FileSize, FileSize < HalfWord,
         txRam.read_offset = Smaller(FileSize, (k - 1) * defaultBlksize)
  PROVE  /\ Intact(DataBlock(k))
         /\ DataBlock(k).hdr # CAN
         /\ DataBlock(k).hdr = STX => defaultBlksize = LargeBlk
<1>1. /\ FileSize \in Nat /\ txRam.read_offset \in Nat
      /\ defaultBlksize \in Nat \ {0}
  BY BlksizeType DEF FileSize, RamFileType
<1>2. (k - 1) * defaultBlksize \in Nat
  BY NextOffset
<1>3. NbBlocks \in Nat /\ ((k - 1) * defaultBlksize < FileSize <=> k <= NbBlocks)
  BY <1>1, BlockIffBytesLeft
<1>4. bytesToRead = Smaller(defaultBlksize, FileSize - txRam.read_offset)
  BY <1>1, SizeLeft DEF bytesToRead, Smaller, FileSize
<1>5. DataBlock(k).seq = k
  BY DataBlockIsBlockOf
<1>6. CASE k <= NbBlocks
  <2>1. txRam.read_offset < FileSize
    <3>. DEFINE o == (k - 1) * defaultBlksize
    <3>1. o \in Nat /\ o < FileSize /\ txRam.read_offset = Smaller(FileSize, o)
      BY <1>2, <1>3, <1>6
    <3>. HIDE DEF o
    <3>. QED  BY <3>1, <1>1 DEF Smaller
  <2>2. bytesToRead \in Nat \ {0} /\ bytesToRead <= defaultBlksize
    BY <1>1, <1>4, <2>1 DEF Smaller
  <2>3. /\ DataBlock(k).hdr = IF bytesToRead <= SmallBlk THEN SOH ELSE STX
        /\ DataBlock(k).blk = k % BlkMod
        /\ DataBlock(k).cblk = Complement(k % BlkMod)
        /\ DataBlock(k).good = TRUE
    BY <2>2 DEF DataBlock
  <2>4. IsBlock(DataBlock(k)) /\ DataBlock(k).hdr # CAN
    BY <2>3 DEF IsBlock, SOH, STX, CAN
  <2>5. DataBlock(k).hdr = STX => defaultBlksize = LargeBlk
    BY <2>2, <2>3, LModemAssumption DEF defaultBlksize, SOH, STX
  <2>. QED  BY <1>5, <1>6, <2>3, <2>4, <2>5 DEF Intact, BlockOrEot
<1>7. CASE ~(k <= NbBlocks)
  <2>1. txRam.read_offset = FileSize
    <3>. DEFINE o == (k - 1) * defaultBlksize
    <3>1. o \in Nat /\ ~(o < FileSize) /\ txRam.read_offset = Smaller(FileSize, o)
      BY <1>2, <1>3, <1>7
    <3>. HIDE DEF o
    <3>. QED  BY <3>1, <1>1 DEF Smaller
  <2>2. bytesToRead = 0
    BY <1>1, <1>4, <2>1 DEF Smaller
  <2>3. DataBlock(k) = CharFrame(EOT, k)
    BY <2>2 DEF DataBlock
  <2>4. DataBlock(k).hdr = EOT /\ ~IsBlock(DataBlock(k))
    BY <2>3 DEF CharFrame, IsBlock, EOT, SOH, STX
  <2>5. k = NbBlocks + 1
    BY <1>3, <1>7
  <2>. QED  BY <1>5, <2>4, <2>5 DEF Intact, BlockOrEot, EOT, STX, CAN
<1>. QED  BY <1>6, <1>7

(***************************************************************************)
(* The window.                                                             *)
(***************************************************************************)
(* The types the arguments about the window use.                           *)
LEMMA WindowTypes ==
  ASSUME WindowInv
  PROVE  /\ LineTypeOK /\ toRx \in Seq(Frame) /\ Len(toRx) \in Nat
         /\ \A i \in DOMAIN toRx : toRx[i] \in Frame
         /\ \A i \in DOMAIN toRx : i \in Nat /\ toRx[i].seq \in Nat
         /\ faults \in Nat /\ blkNo \in Nat \ {0} /\ nbRetry \in Nat
         /\ expectedBlkNumber \in Nat \ {0}
<1>1. LineTypeOK /\ toRx \in Seq(Frame) /\ faults \in 0 .. MaxFaults
  BY DEF WindowInv, TypeOK, LineTypeOK
<1>2. /\ blkNo \in Nat \ {0} /\ nbRetry \in Nat
      /\ expectedBlkNumber \in Nat \ {0}
  BY DEF WindowInv, TypeOK, RxTypeOK, TxTypeOK
<1>3. \A i \in DOMAIN toRx : i \in Nat /\ toRx[i] \in Frame
  BY <1>1
<1>4. \A f \in Frame : f.seq \in Nat
  BY DEF Frame
<1>. QED  BY <1>1, <1>2, <1>3, <1>4

(* No step changes the file that is sent.                                  *)
LEMMA FrozenFile ==
  ASSUME txOpts' = txOpts, txRam'.write_offset = txRam.write_offset
  PROVE  /\ FileSize' = FileSize
         /\ defaultBlksize' = defaultBlksize
         /\ \A k : BlockOf(k)' = BlockOf(k)
BY DEF FileSize, defaultBlksize, BlockOf

LEMMA FrozenBlocks ==
  ASSUME txOpts' = txOpts, txRam'.write_offset = txRam.write_offset
  PROVE  NbBlocks' = NbBlocks
BY FrozenFile DEF NbBlocks

(* When the receiver reads a frame, those behind it keep their place.      *)
LEMMA ReadKeepsOrder ==
  ASSUME WindowInv, toRx # <<>>, toRx' = Tail(toRx),
         faults' \in {faults, faults + 1}, UNCHANGED txVars
  PROVE  /\ toRx' \in Seq(Frame)
         /\ FramesHoldBlocks'
         /\ FramesInOrder'
         /\ FramesBehindEmitter'
<1>1. /\ toRx \in Seq(Frame) /\ faults \in Nat /\ blkNo \in Nat
      /\ \A i \in DOMAIN toRx : toRx[i].seq \in Nat
  BY WindowTypes
<1>2. /\ toRx' \in Seq(Frame)
      /\ Len(toRx') = Len(toRx) - 1
      /\ \A i \in DOMAIN toRx' :
           i \in Nat /\ i + 1 \in DOMAIN toRx /\ toRx'[i] = toRx[i + 1]
  BY <1>1
<1>3. FramesHoldBlocks'
  BY <1>2, FrozenFile DEF WindowInv, FramesHoldBlocks, txVars
<1>4. FramesInOrder'
  <2>. SUFFICES ASSUME NEW i \in DOMAIN toRx', NEW j \in DOMAIN toRx', i <= j
                PROVE  /\ toRx'[i].seq <= toRx'[j].seq
                       /\ toRx'[j].seq <= toRx'[i].seq + (j - i) + faults'
    BY DEF FramesInOrder
  <2>1. /\ toRx[i + 1].seq <= toRx[j + 1].seq
        /\ toRx[j + 1].seq <= toRx[i + 1].seq + ((j + 1) - (i + 1)) + faults
    BY <1>2 DEF WindowInv, FramesInOrder
  <2>2. /\ toRx'[i] = toRx[i + 1] /\ toRx'[j] = toRx[j + 1]
        /\ i \in Nat /\ j \in Nat
        /\ toRx[i + 1].seq \in Nat /\ toRx[j + 1].seq \in Nat
    BY <1>1, <1>2
  <2>. DEFINE a == toRx[i + 1].seq
              b == toRx[j + 1].seq
              fl == faults'
  <2>3. /\ a \in Nat /\ b \in Nat /\ fl \in Nat /\ faults <= fl
        /\ a <= b /\ b <= a + ((j + 1) - (i + 1)) + faults
    BY <2>1, <2>2, <1>1
  <2>4. toRx'[i].seq = a /\ toRx'[j].seq = b
    BY <2>2
  <2>. HIDE DEF a, b, fl
  <2>5. a <= b /\ b <= a + (j - i) + fl
    BY <2>2, <2>3, <1>1
  <2>. QED  BY <2>4, <2>5 DEF fl
<1>5. FramesBehindEmitter'
  <2>. SUFFICES ASSUME NEW i \in DOMAIN toRx'
                PROVE  /\ toRx'[i].seq <= blkNo'
                       /\ txpc' = "reply" => blkNo' <= toRx'[i].seq
                            + (Len(toRx') - i) + faults'
    BY DEF FramesBehindEmitter
  <2>1. /\ toRx[i + 1].seq <= blkNo
        /\ txpc = "reply" => blkNo <= toRx[i + 1].seq
             + (Len(toRx) - (i + 1)) + faults
    BY <1>2 DEF WindowInv, FramesBehindEmitter
  <2>2. blkNo' = blkNo /\ txpc' = txpc
    BY DEF txVars
  <2>. QED  BY <2>1, <2>2, <1>1, <1>2
<1>. QED  BY <1>2, <1>3, <1>4, <1>5

(* When neither side touches the frames, they stay in order.               *)
LEMMA WaitKeepsOrder ==
  ASSUME WindowInv, toRx' = toRx, faults' \in {faults, faults + 1},
         txOpts' = txOpts, txRam' = txRam, txpc' \in {txpc, "done"},
         \/ blkNo' = blkNo
         \/ blkNo' = blkNo + 1 /\ txpc' = "done"
  PROVE  FramesHoldBlocks' /\ FramesInOrder' /\ FramesBehindEmitter'
<1>1. /\ toRx \in Seq(Frame) /\ faults \in Nat /\ blkNo \in Nat
      /\ \A i \in DOMAIN toRx : i \in Nat /\ toRx[i].seq \in Nat
  BY WindowTypes
<1>2. FramesHoldBlocks'
  BY FrozenFile DEF WindowInv, FramesHoldBlocks
<1>3. FramesInOrder'
  <2>. SUFFICES ASSUME NEW i \in DOMAIN toRx, NEW j \in DOMAIN toRx, i <= j
                PROVE  /\ toRx[i].seq <= toRx[j].seq
                       /\ toRx[j].seq <= toRx[i].seq + (j - i) + faults'
    BY DEF FramesInOrder
  <2>1. /\ toRx[i].seq <= toRx[j].seq
        /\ toRx[j].seq <= toRx[i].seq + (j - i) + faults
    BY DEF WindowInv, FramesInOrder
  <2>2. /\ i \in Nat /\ j \in Nat
        /\ toRx[i].seq \in Nat /\ toRx[j].seq \in Nat
    BY <1>1
  <2>. DEFINE a == toRx[i].seq
              b == toRx[j].seq
              fl == faults'
  <2>3. /\ a \in Nat /\ b \in Nat /\ fl \in Nat /\ faults <= fl
        /\ a <= b /\ b <= a + (j - i) + faults
    BY <2>1, <2>2, <1>1
  <2>. HIDE DEF a, b, fl
  <2>4. a <= b /\ b <= a + (j - i) + fl
    BY <2>2, <2>3, <1>1
  <2>. QED  BY <2>4 DEF a, b, fl
<1>4. FramesBehindEmitter'
  BY <1>1 DEF WindowInv, FramesBehindEmitter
<1>. QED  BY <1>2, <1>3, <1>4

(* A frame with the emitter's number, or the next one, keeps the order and *)
(* stays in the receiver's window.                                         *)
LEMMA SendKeepsOrder ==
  ASSUME WindowInv, NEW f \in Frame, PutFrame(f), f.seq = blkNo',
         \/ txpc = "preambule" /\ blkNo' = 1
         \/ txpc = "reply" /\ blkNo' \in {blkNo, blkNo + 1},
         txpc' = "reply",
         IsBlock(f) => f.blk = f.seq % BlkMod /\ ChunkIn(f) = BlockOf(f.seq),
         UNCHANGED rxVars,
         txOpts' = txOpts, txRam'.write_offset = txRam.write_offset
  PROVE  /\ toRx' \in Seq(Frame) /\ faults' \in 0 .. MaxFaults
         /\ FramesHoldBlocks'
         /\ FramesInOrder'
         /\ FramesBehindEmitter'
         /\ ReceiverBehind'
<1>1. /\ LineTypeOK /\ toRx \in Seq(Frame) /\ faults \in Nat
      /\ blkNo \in Nat /\ nbRetry \in Nat /\ expectedBlkNumber \in Nat \ {0}
      /\ \A i \in DOMAIN toRx : i \in Nat /\ toRx[i].seq \in Nat
      /\ Len(toRx) \in Nat
  BY WindowTypes
<1>2. txpc = "preambule" => blkNo = 1 /\ toRx = <<>>
  BY DEF WindowInv, EmitterAtBlkNo
<1>3. blkNo' \in Nat /\ blkNo <= blkNo' /\ blkNo' <= blkNo + 1
  BY <1>1, <1>2
<1>4. /\ rxpc' = rxpc /\ nbRetry' = nbRetry /\ rxData' = rxData
      /\ expectedBlkNumber' = expectedBlkNumber
  BY DEF rxVars
<1>5. faults' \in 0 .. MaxFaults
  BY <1>1, PutFrameEffect
<1>6. CASE toRx' = toRx /\ faults' = faults + 1
  <2>1. FramesHoldBlocks'
    BY <1>6, FrozenFile DEF WindowInv, FramesHoldBlocks
  <2>2. FramesInOrder'
    <3>. SUFFICES ASSUME NEW i \in DOMAIN toRx, NEW j \in DOMAIN toRx, i <= j
                  PROVE  /\ toRx[i].seq <= toRx[j].seq
                         /\ toRx[j].seq <= toRx[i].seq + (j - i) + faults'
      BY <1>6 DEF FramesInOrder
    <3>1. /\ toRx[i].seq <= toRx[j].seq
          /\ toRx[j].seq <= toRx[i].seq + (j - i) + faults
      BY DEF WindowInv, FramesInOrder
    <3>. DEFINE a == toRx[i].seq
                b == toRx[j].seq
                fl == faults'
    <3>2. a \in Nat /\ b \in Nat /\ i \in Nat /\ j \in Nat
      BY <1>1
    <3>3. faults \in Nat /\ fl \in Nat /\ faults <= fl
      BY <1>1, <1>6
    <3>4. a <= b /\ b <= a + (j - i) + faults
      BY <3>1
    <3>. HIDE DEF a, b, fl
    <3>5. a <= b /\ b <= a + (j - i) + fl
      BY <3>2, <3>3, <3>4
    <3>. QED  BY <3>5 DEF a, b, fl
  <2>3. FramesBehindEmitter'
    BY <1>6, <1>1, <1>2, <1>3 DEF WindowInv, FramesBehindEmitter
  <2>4. ReceiverBehind'
    <3>. DEFINE last == expectedBlkNumber - 1
    <3>. SUFFICES ASSUME rxpc # "done"
                  PROVE  /\ Len(rxData) = last
                         /\ nbRetry < MaxRetry
                         /\ last <= blkNo'
                         /\ blkNo' <= last + nbRetry + Len(toRx) + faults'
                         /\ \A i \in DOMAIN toRx :
                              /\ last <= toRx[i].seq
                              /\ toRx[i].seq <= last + nbRetry + i + faults'
      BY <1>4, <1>6 DEF ReceiverBehind
    <3>1. /\ Len(rxData) = last /\ nbRetry < MaxRetry
          /\ txpc = "preambule" => last = 0
          /\ txpc = "reply" =>
               last <= blkNo /\ blkNo <= last + nbRetry + Len(toRx) + faults
      BY DEF WindowInv, ReceiverBehind
    <3>2. last <= blkNo' /\ blkNo' <= last + nbRetry + Len(toRx) + faults'
      BY <3>1, <1>1, <1>2, <1>6
    <3>3. ASSUME NEW i \in DOMAIN toRx
          PROVE  /\ last <= toRx[i].seq
                 /\ toRx[i].seq <= last + nbRetry + i + faults'
      <4>1. /\ last <= toRx[i].seq
            /\ toRx[i].seq <= last + nbRetry + i + faults
        BY DEF WindowInv, ReceiverBehind
      <4>. QED  BY <4>1, <1>1, <1>6
    <3>. QED  BY <3>1, <3>2, <3>3
  <2>. QED  BY <2>1, <2>2, <2>3, <2>4, <1>1, <1>5, <1>6
<1>7. ASSUME NEW g \in Frame, toRx' = Append(toRx, g),
             faults' \in {faults, faults + 1}, g.seq = f.seq,
             IsBlock(g) => /\ IsBlock(f)
                           /\ g.blk = f.blk
                           /\ g.good => ChunkIn(g) = ChunkIn(f)
      PROVE  /\ toRx' \in Seq(Frame)
             /\ FramesHoldBlocks' /\ FramesInOrder' /\ FramesBehindEmitter'
             /\ ReceiverBehind'
  <2>1. /\ toRx' \in Seq(Frame)
        /\ Len(toRx') = Len(toRx) + 1
        /\ \A i \in DOMAIN toRx' :
             /\ i \in Nat
             /\ \/ i \in DOMAIN toRx /\ i <= Len(toRx) /\ toRx'[i] = toRx[i]
                \/ i = Len(toRx) + 1 /\ toRx'[i] = g
    BY <1>7, <1>1
  <2>2. g.seq = blkNo'
    BY <1>7
  <2>3. FramesHoldBlocks'
    <3>1. IsBlock(g) => /\ g.blk = g.seq % BlkMod
                        /\ g.good => ChunkIn(g) = BlockOf(g.seq)
      BY <1>7
    <3>. QED  BY <2>1, <3>1, FrozenFile DEF WindowInv, FramesHoldBlocks
  <2>4. ASSUME NEW i \in DOMAIN toRx
        PROVE  /\ toRx[i].seq <= blkNo'
               /\ blkNo' <= toRx[i].seq + (Len(toRx') - i) + faults'
    <3>1. txpc = "reply"
      BY <1>2
    <3>2. /\ toRx[i].seq <= blkNo
          /\ blkNo <= toRx[i].seq + (Len(toRx) - i) + faults
      BY <3>1 DEF WindowInv, FramesBehindEmitter
    <3>. DEFINE a == toRx[i].seq
                b == blkNo'
                fl == faults'
                ln == Len(toRx')
    <3>3. /\ a \in Nat /\ b \in Nat /\ fl \in Nat /\ faults <= fl
          /\ i \in Nat /\ ln = Len(toRx) + 1
          /\ blkNo <= b /\ b <= blkNo + 1
          /\ a <= blkNo /\ blkNo <= a + (Len(toRx) - i) + faults
      BY <3>2, <2>1, <1>1, <1>3, <1>7
    <3>. HIDE DEF a, b, fl, ln
    <3>4. a <= b /\ b <= a + (ln - i) + fl
      BY <3>3, <1>1
    <3>. QED  BY <3>4 DEF a, b, fl, ln
  <2>5. FramesInOrder'
    <3>. SUFFICES ASSUME NEW i \in DOMAIN toRx', NEW j \in DOMAIN toRx', i <= j
                  PROVE  /\ toRx'[i].seq <= toRx'[j].seq
                         /\ toRx'[j].seq <= toRx'[i].seq + (j - i) + faults'
      BY DEF FramesInOrder
    <3>1. i \in Nat /\ j \in Nat
      BY <2>1
    <3>2. CASE j = Len(toRx) + 1 /\ i = j
      BY <3>1, <3>2, <2>1, <2>2, <1>1, <1>3, <1>7
    <3>3. CASE j = Len(toRx) + 1 /\ i # j
      <4>1. /\ i \in DOMAIN toRx /\ toRx'[i] = toRx[i]
            /\ toRx'[j].seq = blkNo' /\ j = Len(toRx')
        BY <3>1, <3>3, <2>1, <2>2
      <4>. QED  BY <4>1, <2>4
    <3>4. CASE j # Len(toRx) + 1
      <4>1. /\ i \in DOMAIN toRx /\ toRx'[i] = toRx[i]
            /\ j \in DOMAIN toRx /\ toRx'[j] = toRx[j]
        BY <3>1, <3>4, <2>1, <1>1
      <4>2. /\ toRx[i].seq <= toRx[j].seq
            /\ toRx[j].seq <= toRx[i].seq + (j - i) + faults
        BY <4>1 DEF WindowInv, FramesInOrder
      <4>. DEFINE a == toRx[i].seq
                  b == toRx[j].seq
                  fl == faults'
      <4>3. /\ a \in Nat /\ b \in Nat /\ fl \in Nat /\ faults <= fl
            /\ a <= b /\ b <= a + (j - i) + faults
        BY <4>1, <4>2, <1>1, <1>7
      <4>. HIDE DEF a, b, fl
      <4>4. a <= b /\ b <= a + (j - i) + fl
        BY <4>3, <3>1, <1>1
      <4>. QED  BY <4>1, <4>4 DEF a, b, fl
    <3>. QED  BY <3>2, <3>3, <3>4
  <2>6. FramesBehindEmitter'
    <3>. SUFFICES ASSUME NEW i \in DOMAIN toRx'
                  PROVE  /\ toRx'[i].seq <= blkNo'
                         /\ blkNo' <= toRx'[i].seq + (Len(toRx') - i) + faults'
      BY DEF FramesBehindEmitter
    <3>1. CASE i \in DOMAIN toRx /\ toRx'[i] = toRx[i]
      BY <3>1, <2>4
    <3>2. CASE i = Len(toRx) + 1 /\ toRx'[i] = g
      <4>1. faults' \in Nat
        BY <1>1, <1>7
      <4>2. toRx'[i].seq = blkNo' /\ Len(toRx') - i = 0
        BY <3>2, <2>1, <2>2, <1>1
      <4>. QED  BY <4>1, <4>2, <1>3
    <3>. QED  BY <3>1, <3>2, <2>1
  <2>7. ReceiverBehind'
    <3>. DEFINE last == expectedBlkNumber - 1
    <3>. SUFFICES ASSUME rxpc # "done"
                  PROVE  /\ Len(rxData) = last
                         /\ nbRetry < MaxRetry
                         /\ last <= blkNo'
                         /\ blkNo' <= last + nbRetry + Len(toRx') + faults'
                         /\ \A i \in DOMAIN toRx' :
                              /\ last <= toRx'[i].seq
                              /\ toRx'[i].seq <= last + nbRetry + i + faults'
      BY <1>4 DEF ReceiverBehind
    <3>1. /\ Len(rxData) = last /\ nbRetry < MaxRetry
          /\ txpc = "preambule" => last = 0
          /\ txpc = "reply" =>
               last <= blkNo /\ blkNo <= last + nbRetry + Len(toRx) + faults
      BY DEF WindowInv, ReceiverBehind
    <3>2. last <= blkNo' /\ blkNo' <= last + nbRetry + Len(toRx') + faults'
      <4>. DEFINE b == blkNo'
                  fl == faults'
                  ln == Len(toRx')
      <4>1. /\ b \in Nat /\ fl \in Nat /\ faults <= fl /\ ln = Len(toRx) + 1
            /\ \/ b = 1 /\ last = 0
               \/ /\ blkNo <= b /\ b <= blkNo + 1
                  /\ last <= blkNo
                  /\ blkNo <= last + nbRetry + Len(toRx) + faults
        BY <3>1, <2>1, <1>1, <1>3, <1>7
      <4>. HIDE DEF b, fl, ln
      <4>2. last <= b /\ b <= last + nbRetry + ln + fl
        BY <4>1, <1>1
      <4>. QED  BY <4>2 DEF b, fl, ln
    <3>3. ASSUME NEW i \in DOMAIN toRx'
          PROVE  /\ last <= toRx'[i].seq
                 /\ toRx'[i].seq <= last + nbRetry + i + faults'
      <4>1. CASE i \in DOMAIN toRx /\ toRx'[i] = toRx[i]
        <5>1. /\ last <= toRx[i].seq
              /\ toRx[i].seq <= last + nbRetry + i + faults
          BY <4>1 DEF WindowInv, ReceiverBehind
        <5>. QED  BY <5>1, <4>1, <1>1, <1>7
      <4>2. CASE i = Len(toRx) + 1 /\ toRx'[i] = g
        BY <4>2, <3>2, <2>1, <2>2
      <4>. QED  BY <4>1, <4>2, <2>1
    <3>. QED  BY <3>1, <3>2, <3>3
  <2>. QED  BY <2>1, <2>3, <2>5, <2>6, <2>7
<1>. QED  BY <1>1, <1>5, <1>6, <1>7, PutFrameEffect

(***************************************************************************)
(* The receiver.                                                           *)
(***************************************************************************)
(* The block that lxmodem_check_block_no_and_crc finds right is the next   *)
(* block of the file.                                                      *)
LEMMA AcceptedIsNext ==
  ASSUME WindowInv, BlockArrived, RxStatus(Head(toRx)) = "OK"
  PROVE  /\ Head(toRx).seq = expectedBlkNumber
         /\ ChunkIn(Head(toRx)) = BlockOf(expectedBlkNumber)
<1>. DEFINE f == Head(toRx)
            last == expectedBlkNumber - 1
<1>1. /\ toRx \in Seq(Frame) /\ toRx # <<>> /\ rxpc = "header"
      /\ f.hdr \in {SOH, STX}
  BY WindowTypes DEF BlockArrived, Reading
<1>2. 1 \in DOMAIN toRx /\ f = toRx[1]
  BY <1>1
<1>3. f.blk = expectedBlkNumber % BlkMod /\ f.good
  BY DEF RxStatus, lxmodem_check_block_no_and_crc, NumberedAs
<1>4. f.blk = f.seq % BlkMod /\ ChunkIn(f) = BlockOf(f.seq)
  BY <1>1, <1>2, <1>3 DEF WindowInv, FramesHoldBlocks, IsBlock
<1>5. /\ last <= f.seq
      /\ f.seq <= last + nbRetry + 1 + faults
      /\ nbRetry < MaxRetry
  BY <1>1, <1>2 DEF WindowInv, ReceiverBehind
<1>6. /\ f.seq \in Int /\ expectedBlkNumber \in Int /\ BlkMod \in Nat \ {0}
      /\ f.seq - expectedBlkNumber < BlkMod
      /\ expectedBlkNumber - f.seq < BlkMod
  <2>1. /\ f.seq \in Nat /\ nbRetry \in Nat /\ faults \in Nat
        /\ faults <= MaxFaults
    BY <1>2, WindowTypes, LineAssumption DEF LineTypeOK
  <2>2. expectedBlkNumber \in Nat \ {0}
    BY WindowTypes
  <2>. HIDE DEF f
  <2>. QED  BY <2>1, <2>2, <1>5, WindowAssumption, LModemAssumption, LineAssumption
<1>7. f.seq = expectedBlkNumber
  <2>. HIDE DEF f
  <2>. QED  BY <1>3, <1>4, <1>6, SameByte
<1>. QED  BY <1>4, <1>7

(* The emitter's part of the invariant does not depend on the receiver.    *)
LEMMA ReceiverKeepsEmitter ==
  ASSUME WindowInv, UNCHANGED txVars, toRx' = toRx \/ toRx # <<>>
  PROVE  TxTypeOK' /\ EmitterAtBlkNo' /\ EmitterRunning'
<1>1. /\ txOpts' = txOpts /\ txpc' = txpc /\ blkNo' = blkNo /\ retry' = retry
      /\ timeout' = timeout /\ emittedBytes' = emittedBytes
      /\ txRam' = txRam /\ blk_buffer' = blk_buffer
  BY DEF txVars
<1>2. TxTypeOK'
  BY <1>1 DEF WindowInv, TypeOK, TxTypeOK
<1>3. EmitterRunning'
  BY <1>1 DEF WindowInv, EmitterRunning
<1>4. EmitterAtBlkNo'
  <2>1. /\ FileSize' = FileSize /\ defaultBlksize' = defaultBlksize
        /\ BlockOf(blkNo)' = BlockOf(blkNo)
    BY <1>1, FrozenFile
  <2>2. txpc = "preambule" => toRx' = <<>>
    BY DEF WindowInv, EmitterAtBlkNo
  <2>. QED  BY <1>1, <2>1, <2>2 DEF WindowInv, EmitterAtBlkNo
<1>. QED  BY <1>2, <1>3, <1>4

(* Nor does what is stored depend on anything but the file that is sent.   *)
LEMMA CopyKept ==
  ASSUME WindowInv, UNCHANGED <<txOpts, rxData>>,
         txRam'.write_offset = txRam.write_offset
  PROVE  CopyIsPrefix'
BY FrozenFile DEF WindowInv, CopyIsPrefix

(* An error of the receiver: it stops, or is one step nearer to stopping.  *)
LEMMA RxErrorEffect ==
  ASSUME WindowInv, rxpc = "header", NEW reply \in Seq(Byte),
         NEW cancelled \in BOOLEAN, RxError(reply, cancelled),
         UNCHANGED <<expectedBlkNumber, rxData, rxRam, rxOpts>>,
         UNCHANGED txVars,
         \/ toRx' = toRx
         \/ toRx # <<>> /\ toRx' = Tail(toRx)
  PROVE  /\ toTx' \in Seq(Byte)
         /\ faults' \in 0 .. MaxFaults
         /\ faults' \in {faults, faults + 1}
         /\ rxpc' \in {"header", "done"}
         /\ nbRetry' \in 0 .. MaxRetry
         /\ receivedBytes' \in {receivedBytes, -1}
         /\ rxpc' = "header" => receivedBytes' = receivedBytes /\ ~cancelled
         /\ ReceiverBehind'
<1>. DEFINE exhausted == nbRetry + 1 >= MaxRetry
            s == reply \o IF exhausted THEN <<CAN, CAN>> ELSE <<>>
<1>1. s \in Seq(Byte)
  <2>1. CAN \in Byte
    BY DEF CAN, Byte
  <2>2. <<CAN, CAN>> \in Seq(Byte) /\ <<>> \in Seq(Byte)
    BY <2>1
  <2>. QED  BY <2>2, ConcatProperties
<1>2. /\ nbRetry' = nbRetry + 1
      /\ rxpc' = IF exhausted \/ cancelled THEN "done" ELSE rxpc
      /\ receivedBytes' = IF exhausted \/ cancelled THEN -1 ELSE receivedBytes
      /\ PutChars(s)
  BY DEF RxError
<1>3. /\ toTx' \in Seq(Byte) /\ faults' \in 0 .. MaxFaults
      /\ faults' \in {faults, faults + 1}
  BY <1>1, <1>2, WindowTypes, PutCharsEffect
<1>4. nbRetry \in Nat /\ nbRetry < MaxRetry /\ MaxRetry \in Nat
  BY WindowTypes, LModemAssumption DEF WindowInv, ReceiverBehind
<1>5. ReceiverBehind'
  <2>. DEFINE last == expectedBlkNumber - 1
              fl == faults'
              nr == nbRetry + 1
  <2>. SUFFICES ASSUME rxpc' # "done"
                PROVE  /\ Len(rxData) = last
                       /\ nr < MaxRetry
                       /\ txpc = "preambule" => last = 0
                       /\ txpc = "reply" =>
                            /\ last <= blkNo
                            /\ blkNo <= last + nr + Len(toRx') + fl
                       /\ \A i \in DOMAIN toRx' :
                            /\ last <= toRx'[i].seq
                            /\ toRx'[i].seq <= last + nr + i + fl
    BY <1>2 DEF ReceiverBehind, txVars
  <2>1. nr < MaxRetry
    BY <1>2, <1>4
  <2>2. /\ Len(rxData) = last
        /\ txpc = "preambule" => last = 0
        /\ txpc = "reply" =>
             last <= blkNo /\ blkNo <= last + nbRetry + Len(toRx) + faults
    BY DEF WindowInv, ReceiverBehind
  <2>3. /\ fl \in Nat /\ faults \in Nat /\ faults <= fl /\ nr = nbRetry + 1
        /\ last \in Nat /\ blkNo \in Nat /\ Len(toRx) \in Nat
    BY <1>3, WindowTypes
  <2>4. Len(toRx') \in {Len(toRx), Len(toRx) - 1}
    BY WindowTypes
  <2>5. txpc = "reply" => /\ last <= blkNo
                          /\ blkNo <= last + nr + Len(toRx') + fl
    <3>. DEFINE ln == Len(toRx')
    <3>1. ln \in Int /\ Len(toRx) <= ln + 1
      BY <2>3, <2>4
    <3>. HIDE DEF ln, fl, nr, last
    <3>2. txpc = "reply" => last <= blkNo /\ blkNo <= last + nr + ln + fl
      BY <3>1, <2>2, <2>3, <1>4
    <3>. QED  BY <3>2 DEF ln
  <2>6. ASSUME NEW i \in DOMAIN toRx'
        PROVE  /\ last <= toRx'[i].seq
               /\ toRx'[i].seq <= last + nr + i + fl
    <3>1. /\ i \in Nat
          /\ \E k \in DOMAIN toRx : k \in {i, i + 1} /\ toRx'[i] = toRx[k]
      <4>1. toRx \in Seq(Frame)
        BY WindowTypes
      <4>2. CASE toRx' = toRx
        BY <4>1, <4>2
      <4>3. CASE toRx # <<>> /\ toRx' = Tail(toRx)
        <5>1. i \in Nat /\ i + 1 \in DOMAIN toRx /\ toRx'[i] = toRx[i + 1]
          BY <4>1, <4>3
        <5>. QED  BY <5>1
      <4>. QED  BY <4>2, <4>3
    <3>2. PICK k \in DOMAIN toRx : k \in {i, i + 1} /\ toRx'[i] = toRx[k]
      BY <3>1
    <3>3. /\ last <= toRx[k].seq
          /\ toRx[k].seq <= last + nbRetry + k + faults
      BY DEF WindowInv, ReceiverBehind
    <3>4. toRx[k].seq \in Nat
      BY WindowTypes
    <3>. DEFINE a == toRx[k].seq
    <3>5. a \in Nat /\ last <= a /\ a <= last + nbRetry + k + faults
      BY <3>3, <3>4
    <3>. HIDE DEF a, fl, nr, last
    <3>6. last <= a /\ a <= last + nr + i + fl
      BY <3>1, <3>2, <3>5, <2>3, <1>4
    <3>. QED  BY <3>2, <3>6 DEF a
  <2>. QED  BY <2>1, <2>2, <2>5, <2>6
<1>. QED  BY <1>2, <1>3, <1>4, <1>5

(* A single character of the receiver's is a sequence of bytes.            *)
LEMMA ReplyType ==
  /\ \A status : <<Reply(status)>> \in Seq(Byte)
  /\ \A status : <<Reply(status), CAN, CAN>> \in Seq(Byte)
  /\ <<Preambule>> \in Seq(Byte)
  /\ <<>> \in Seq(Byte)
<1>1. /\ ACK \in Byte /\ NAK \in Byte /\ CAN \in Byte /\ CHR_C \in Byte
  BY DEF ACK, NAK, CAN, CHR_C, Byte
<1>2. Preambule \in Byte /\ \A status : Reply(status) \in Byte
  BY <1>1 DEF Preambule, Reply
<1>. QED  BY <1>1, <1>2

(* A block either fits and moves the write offset by its size, or leaves   *)
(* the file as it is.                                                      *)
LEMMA WriteEffect ==
  ASSUME NEW ram \in RamFileType, NEW h,
         ram.write_offset <= ram.max_size, ram.max_size < HalfWord
  PROVE  LET size == BlkSize(h)
             b    == lmodem_buffer_write(ram, size)
         IN  /\ size \in Nat \ {0}
             /\ b \in RamFileType
             /\ b.max_size = ram.max_size
             /\ b.write_offset <= b.max_size
             /\ b.write_offset =
                  IF NbToCopy(ram, size) = size
                  THEN ram.write_offset + size ELSE ram.write_offset
<1>. DEFINE size == BlkSize(h)
<1>1. size \in Nat \ {0} /\ size < HalfWord
  BY LModemAssumption, LinkAssumption, HalfWordAssumption DEF BlkSize
<1>. HIDE DEF size
<1>2. NbToCopy(ram, size) =
        IF size < ram.max_size - ram.write_offset THEN size ELSE 0
  BY <1>1, WriteAllOrNothing
<1>3. lmodem_buffer_write(ram, size) =
        [ram EXCEPT !.write_offset =
           ram.write_offset + NbToCopy(ram, size)]
  BY DEF lmodem_buffer_write
<1>4. CASE size < ram.max_size - ram.write_offset
  BY <1>1, <1>2, <1>3, <1>4 DEF RamFileType, size
<1>5. CASE ~(size < ram.max_size - ram.write_offset)
  BY <1>1, <1>2, <1>3, <1>5 DEF RamFileType, size
<1>. QED  BY <1>4, <1>5

LEMMA RxRamEffect ==
  ASSUME WindowInv, NEW h
  PROVE  LET size == BlkSize(h)
             b    == lmodem_buffer_write(rxRam, size)
         IN  /\ size \in Nat \ {0}
             /\ b \in RamFileType
             /\ b.max_size = rxRam.max_size
             /\ b.write_offset <= b.max_size
             /\ b.write_offset =
                  IF NbToCopy(rxRam, size) = size
                  THEN rxRam.write_offset + size ELSE rxRam.write_offset
<1>1. /\ rxRam \in RamFileType
      /\ rxRam.write_offset <= rxRam.max_size /\ rxRam.max_size < HalfWord
  BY DEF WindowInv, TypeOK, RxTypeOK, ReportedIsWritten
<1>. QED  BY <1>1, WriteEffect

(* The receiver's errors: a block that is not stored, CAN, an unknown      *)
(* character, a timeout.                                                   *)
LEMMA RxErrorKeeps ==
  ASSUME WindowInv, UNCHANGED txVars,
         RxRefuse \/ RxCan \/ RxUnknown \/ RxTimeout
  PROVE  WindowInv'
<1>1. PICK reply \in Seq(Byte), cancelled \in BOOLEAN :
        /\ rxpc = "header"
        /\ RxError(reply, cancelled)
        /\ UNCHANGED <<expectedBlkNumber, rxData, rxRam, rxOpts>>
        /\ \/ toRx' = toRx
           \/ toRx # <<>> /\ toRx' = Tail(toRx)
        /\ canCharReceived' \in 0 .. 2
        /\ ~cancelled => canCharReceived' < 2
  <2>0. canCharReceived \in 0 .. 2 /\ (rxpc = "header" => canCharReceived < 2)
    BY DEF WindowInv, TypeOK, RxTypeOK, ReceiverRunning
  <2>1. CASE RxRefuse
    <3>. <<Reply(RxStatus(Head(toRx)))>> \in Seq(Byte) /\ FALSE \in BOOLEAN
      BY ReplyType
    <3>. WITNESS <<Reply(RxStatus(Head(toRx)))>> \in Seq(Byte),
                 FALSE \in BOOLEAN
    <3>1. canCharReceived' \in 0 .. 2 /\ canCharReceived' < 2
      BY <2>1 DEF RxRefuse
    <3>2. rxpc = "header" /\ toRx # <<>>
      BY <2>1 DEF RxRefuse, BlockArrived, Reading
    <3>. QED  BY <2>1, <3>1, <3>2 DEF RxRefuse
  <2>2. CASE RxCan
    <3>. /\ <<Reply("ERROR")>> \in Seq(Byte)
         /\ (canCharReceived + 1 >= 2) \in BOOLEAN
      BY ReplyType
    <3>1. /\ canCharReceived' \in 0 .. 2
          /\ ~(canCharReceived + 1 >= 2) => canCharReceived' < 2
      BY <2>0, <2>2 DEF RxCan, Reading
    <3>. WITNESS <<Reply("ERROR")>> \in Seq(Byte),
                 (canCharReceived + 1 >= 2) \in BOOLEAN
    <3>. QED  BY <2>2, <3>1 DEF RxCan, Reading
  <2>3. CASE RxUnknown
    <3>1. <<Reply("ERROR")>> \in Seq(Byte) /\ FALSE \in BOOLEAN
      BY ReplyType
    <3>. QED  BY <2>0, <2>3, <3>1 DEF RxUnknown, Reading
  <2>4. CASE RxTimeout
    <3>1. <<>> \in Seq(Byte) /\ FALSE \in BOOLEAN
      BY ReplyType
    <3>. QED  BY <2>0, <2>4, <3>1 DEF RxTimeout
  <2>. QED  BY <2>1, <2>2, <2>3, <2>4
<1>2. /\ toTx' \in Seq(Byte) /\ faults' \in 0 .. MaxFaults
      /\ faults' \in {faults, faults + 1}
      /\ rxpc' \in {"header", "done"}
      /\ nbRetry' \in 0 .. MaxRetry
      /\ receivedBytes' \in {receivedBytes, -1}
      /\ rxpc' = "header" => receivedBytes' = receivedBytes /\ ~cancelled
      /\ ReceiverBehind'
  BY <1>1, RxErrorEffect
<1>3. /\ toRx' \in Seq(Frame)
      /\ FramesHoldBlocks' /\ FramesInOrder' /\ FramesBehindEmitter'
  <2>1. CASE toRx' = toRx
    BY <2>1, <1>2, WaitKeepsOrder, WindowTypes DEF txVars
  <2>2. CASE toRx # <<>> /\ toRx' = Tail(toRx)
    BY <2>2, <1>2, ReadKeepsOrder
  <2>. QED  BY <2>1, <2>2, <1>1
<1>4. TxTypeOK' /\ EmitterAtBlkNo' /\ EmitterRunning'
  BY <1>1, ReceiverKeepsEmitter
<1>5. CopyIsPrefix'
  BY <1>1, CopyKept DEF txVars
<1>6. RxTypeOK'
  BY <1>1, <1>2 DEF WindowInv, TypeOK, RxTypeOK
<1>7. ReceiverRunning'
  BY <1>1, <1>2 DEF WindowInv, ReceiverRunning
<1>8. ReportedIsWritten' /\ rxRam'.max_size < HalfWord
  BY <1>1, <1>2 DEF WindowInv, ReportedIsWritten
<1>. QED  BY <1>2, <1>3, <1>4, <1>5, <1>6, <1>7, <1>8
          DEF WindowInv, TypeOK, LineTypeOK

(* The call of lxmodem_receive.                                            *)
LEMMA RxStartKeeps ==
  ASSUME WindowInv, UNCHANGED txVars, RxStart
  PROVE  WindowInv'
<1>1. /\ toRx' = toRx /\ rxpc' = "header" /\ rxpc = "idle"
      /\ expectedBlkNumber' = expectedBlkNumber /\ nbRetry' = nbRetry
      /\ receivedBytes' = receivedBytes /\ canCharReceived' = 0
      /\ rxOpts' = rxOpts /\ rxRam' = rxRam /\ rxData' = rxData
      /\ PutChars(<<Preambule>>)
  BY DEF RxStart, WindowInv, ReceiverRunning
<1>2. /\ toTx' \in Seq(Byte) /\ faults' \in 0 .. MaxFaults
      /\ faults' \in {faults, faults + 1}
  BY <1>1, ReplyType, WindowTypes, PutCharsEffect
<1>3. FramesHoldBlocks' /\ FramesInOrder' /\ FramesBehindEmitter'
  BY <1>1, <1>2, WaitKeepsOrder DEF txVars
<1>4. TxTypeOK' /\ EmitterAtBlkNo' /\ EmitterRunning'
  BY <1>1, ReceiverKeepsEmitter
<1>5. CopyIsPrefix'
  BY <1>1, CopyKept DEF txVars
<1>6. RxTypeOK'
  BY <1>1 DEF WindowInv, TypeOK, RxTypeOK
<1>7. ReceiverRunning'
  BY <1>1 DEF WindowInv, ReceiverRunning
<1>8. ReportedIsWritten' /\ rxRam'.max_size < HalfWord
  BY <1>1 DEF WindowInv, ReportedIsWritten
<1>9. ReceiverBehind'
  <2>. DEFINE last == expectedBlkNumber - 1
              fl == faults'
  <2>1. /\ fl \in Nat /\ faults \in Nat /\ faults <= fl
        /\ last \in Nat /\ blkNo \in Nat /\ nbRetry \in Nat /\ Len(toRx) \in Nat
    BY <1>2, WindowTypes
  <2>2. /\ Len(rxData) = last
        /\ nbRetry < MaxRetry
        /\ txpc = "preambule" => last = 0
        /\ txpc = "reply" =>
             last <= blkNo /\ blkNo <= last + nbRetry + Len(toRx) + faults
        /\ \A i \in DOMAIN toRx :
             /\ last <= toRx[i].seq
             /\ toRx[i].seq <= last + nbRetry + i + faults
    BY <1>1 DEF WindowInv, ReceiverBehind
  <2>. HIDE DEF last, fl
  <2>3. txpc = "reply" =>
          last <= blkNo /\ blkNo <= last + nbRetry + Len(toRx) + fl
    BY <2>1, <2>2
  <2>4. ASSUME NEW i \in DOMAIN toRx
        PROVE  /\ last <= toRx[i].seq
               /\ toRx[i].seq <= last + nbRetry + i + fl
    <3>1. i \in Nat /\ toRx[i].seq \in Nat
      BY WindowTypes
    <3>. DEFINE a == toRx[i].seq
    <3>2. a \in Nat /\ last <= a /\ a <= last + nbRetry + i + faults
      BY <2>2, <3>1
    <3>. HIDE DEF a
    <3>3. last <= a /\ a <= last + nbRetry + i + fl
      BY <2>1, <3>1, <3>2
    <3>. QED  BY <3>3 DEF a
  <2>. QED  BY <1>1, <2>2, <2>3, <2>4 DEF ReceiverBehind, txVars, last, fl
<1>. QED  BY <1>1, <1>2, <1>3, <1>4, <1>5, <1>6, <1>7, <1>8, <1>9
          DEF WindowInv, TypeOK, LineTypeOK

(* A block is stored: the window moves up by one.                          *)
LEMMA RxStoreKeeps ==
  ASSUME WindowInv, UNCHANGED txVars, RxStore
  PROVE  WindowInv'
<1>. DEFINE f == Head(toRx)
            size == BlkSize(f.hdr)
<1>1. /\ BlockArrived /\ RxStatus(f) = "OK" /\ toRx # <<>> /\ rxpc = "header"
      /\ NbToCopy(rxRam, size) = size
      /\ rxRam' = lmodem_buffer_write(rxRam, size)
      /\ rxData' = Append(rxData, ChunkIn(f))
      /\ receivedBytes' = receivedBytes + size
      /\ toRx' = Tail(toRx)
      /\ PutChars(<<Reply("OK")>>)
      /\ expectedBlkNumber' = expectedBlkNumber + 1
      /\ nbRetry' = 0 /\ canCharReceived' = 0
      /\ rxOpts' = rxOpts /\ rxpc' = rxpc
  BY DEF RxStore, BlockArrived, Reading, Fits
<1>2. /\ toTx' \in Seq(Byte) /\ faults' \in 0 .. MaxFaults
      /\ faults' \in {faults, faults + 1}
  BY <1>1, ReplyType, WindowTypes, PutCharsEffect
<1>3. /\ toRx' \in Seq(Frame)
      /\ FramesHoldBlocks' /\ FramesInOrder' /\ FramesBehindEmitter'
  BY <1>1, <1>2, ReadKeepsOrder
<1>4. TxTypeOK' /\ EmitterAtBlkNo' /\ EmitterRunning'
  BY <1>1, ReceiverKeepsEmitter
<1>5. f.seq = expectedBlkNumber /\ ChunkIn(f) = BlockOf(expectedBlkNumber)
  BY <1>1, AcceptedIsNext
<1>6. /\ size \in Nat \ {0} /\ rxRam' \in RamFileType
      /\ rxRam'.max_size = rxRam.max_size
      /\ rxRam'.write_offset <= rxRam'.max_size
      /\ rxRam'.write_offset = rxRam.write_offset + size
  BY <1>1, RxRamEffect
<1>7. /\ f \in Frame /\ rxData \in Seq(Chunk) /\ ChunkIn(f) \in Chunk
      /\ Len(rxData) = expectedBlkNumber - 1
  <2>1. f \in Frame
    BY <1>1, WindowTypes
  <2>2. ChunkIn(f) \in Chunk
    BY <2>1, <1>6 DEF ChunkIn, Chunk, Frame
  <2>. QED  BY <1>1, <2>1, <2>2
            DEF WindowInv, TypeOK, RxTypeOK, ReceiverBehind
<1>8. CopyIsPrefix'
  <2>. SUFFICES ASSUME NEW k \in DOMAIN rxData'
                PROVE  rxData'[k] = BlockOf(k)
    BY FrozenFile DEF CopyIsPrefix, txVars
  <2>1. CASE k \in DOMAIN rxData
    <3>1. rxData'[k] = rxData[k]
      BY <2>1, <1>1, <1>7
    <3>. QED  BY <3>1, <2>1 DEF WindowInv, CopyIsPrefix
  <2>2. CASE k \notin DOMAIN rxData
    <3>1. k = expectedBlkNumber /\ rxData'[k] = ChunkIn(f)
      BY <2>2, <1>1, <1>7, WindowTypes
    <3>. QED  BY <3>1, <1>5
  <2>. QED  BY <2>1, <2>2
<1>9. RxTypeOK'
  <2>1. receivedBytes \in Nat /\ expectedBlkNumber \in Nat \ {0}
    BY <1>1, WindowTypes DEF WindowInv, TypeOK, RxTypeOK, ReceiverRunning
  <2>2. rxData' \in Seq(Chunk)
    BY <1>1, <1>7
  <2>3. receivedBytes' \in Nat /\ expectedBlkNumber' \in Nat \ {0}
    BY <1>1, <1>6, <2>1
  <2>. QED  BY <1>1, <1>6, <2>2, <2>3, LModemAssumption
            DEF WindowInv, TypeOK, RxTypeOK
<1>10. ReceiverRunning' /\ ReportedIsWritten' /\ rxRam'.max_size < HalfWord
  <2>1. receivedBytes \in Nat /\ receivedBytes = rxRam.write_offset
    BY <1>1 DEF WindowInv, TypeOK, RxTypeOK, ReceiverRunning, ReportedIsWritten
  <2>. HIDE DEF size
  <2>2. receivedBytes' = rxRam'.write_offset /\ receivedBytes' \in Nat
    BY <1>1, <1>6, <2>1
  <2>3. rxRam'.max_size < HalfWord
    BY <1>6 DEF WindowInv
  <2>. QED  BY <1>1, <1>6, <2>2, <2>3 DEF ReceiverRunning, ReportedIsWritten
<1>11. ReceiverBehind'
  <2>. DEFINE e == expectedBlkNumber
              fl == faults'
              ln == Len(toRx')
  <2>1. /\ fl \in Nat /\ faults \in Nat /\ faults <= fl
        /\ e \in Nat \ {0} /\ blkNo \in Nat /\ ln \in Nat
        /\ Len(toRx) = ln + 1
    BY <1>1, <1>2, WindowTypes
  <2>2. 1 \in DOMAIN toRx /\ toRx[1].seq = e
    BY <1>1, <1>5, WindowTypes
  <2>3. Len(rxData') = e
    BY <1>1, <1>7, WindowTypes
  <2>4. txpc # "preambule"
    BY <1>1 DEF WindowInv, EmitterAtBlkNo
  <2>5. txpc = "reply" => e <= blkNo /\ blkNo <= e + 0 + ln + fl
    <3>1. txpc = "reply" => /\ toRx[1].seq <= blkNo
                            /\ blkNo <= toRx[1].seq + (Len(toRx) - 1) + faults
      BY <2>2 DEF WindowInv, FramesBehindEmitter
    <3>. HIDE DEF e, fl, ln
    <3>. QED  BY <3>1, <2>1, <2>2
  <2>6. ASSUME NEW i \in DOMAIN toRx'
        PROVE  e <= toRx'[i].seq /\ toRx'[i].seq <= e + 0 + i + fl
    <3>1. i \in Nat /\ i + 1 \in DOMAIN toRx /\ toRx'[i] = toRx[i + 1]
      BY <1>1, WindowTypes
    <3>2. /\ toRx[1].seq <= toRx[i + 1].seq
          /\ toRx[i + 1].seq <= toRx[1].seq + ((i + 1) - 1) + faults
      BY <3>1, <2>2 DEF WindowInv, FramesInOrder
    <3>. DEFINE a == toRx[i + 1].seq
    <3>3. a \in Nat /\ e <= a /\ a <= e + ((i + 1) - 1) + faults
      BY <3>1, <3>2, <2>2, WindowTypes
    <3>. HIDE DEF a, e, fl
    <3>4. e <= a /\ a <= e + 0 + i + fl
      BY <3>1, <3>3, <2>1
    <3>. QED  BY <3>1, <3>4 DEF a
  <2>7. e = expectedBlkNumber' - 1 /\ txpc' = txpc /\ blkNo' = blkNo
    BY <1>1, <2>1 DEF txVars
  <2>. HIDE DEF e
  <2>. QED  BY <1>1, <2>3, <2>4, <2>5, <2>6, <2>7, LModemAssumption
            DEF ReceiverBehind
<1>. QED  BY <1>2, <1>3, <1>4, <1>8, <1>9, <1>10, <1>11
          DEF WindowInv, TypeOK, LineTypeOK

(* The receiver returns: the file is complete, or has no room.             *)
LEMMA RxEndKeeps ==
  ASSUME WindowInv, UNCHANGED txVars, RxEot \/ RxOverflow
  PROVE  WindowInv'
<1>1. /\ toRx # <<>> /\ toRx' = Tail(toRx) /\ rxpc' = "done"
      /\ rxpc = "header" /\ canCharReceived' = 0
      /\ rxOpts' = rxOpts /\ rxData' = rxData
      /\ expectedBlkNumber' \in {expectedBlkNumber, expectedBlkNumber + 1}
      /\ nbRetry' \in {nbRetry, 0}
      /\ \/ receivedBytes' = receivedBytes /\ rxRam' = rxRam
         \/ /\ receivedBytes' = -1
            /\ rxRam' = lmodem_buffer_write(rxRam, BlkSize(Head(toRx).hdr))
      /\ \E s \in Seq(Byte) : PutChars(s)
  BY ReplyType DEF RxEot, RxOverflow, BlockArrived, Reading
<1>2. /\ toTx' \in Seq(Byte) /\ faults' \in 0 .. MaxFaults
      /\ faults' \in {faults, faults + 1}
  BY <1>1, WindowTypes, PutCharsEffect
<1>3. /\ toRx' \in Seq(Frame)
      /\ FramesHoldBlocks' /\ FramesInOrder' /\ FramesBehindEmitter'
  BY <1>1, <1>2, ReadKeepsOrder
<1>4. TxTypeOK' /\ EmitterAtBlkNo' /\ EmitterRunning'
  BY <1>1, ReceiverKeepsEmitter
<1>5. CopyIsPrefix'
  BY <1>1, CopyKept DEF txVars
<1>6. /\ rxRam' \in RamFileType /\ rxRam'.max_size = rxRam.max_size
      /\ rxRam'.write_offset <= rxRam'.max_size
  <2>1. CASE rxRam' = rxRam
    BY <2>1 DEF WindowInv, TypeOK, RxTypeOK, ReportedIsWritten
  <2>2. CASE rxRam' = lmodem_buffer_write(rxRam, BlkSize(Head(toRx).hdr))
    BY <2>2, RxRamEffect
  <2>. QED  BY <2>1, <2>2, <1>1
<1>7. RxTypeOK'
  <2>1. /\ expectedBlkNumber' \in Nat \ {0} /\ nbRetry' \in 0 .. MaxRetry
        /\ receivedBytes' \in Nat \cup {-1}
    BY <1>1, LModemAssumption DEF WindowInv, TypeOK, RxTypeOK
  <2>. QED  BY <1>1, <1>6, <2>1 DEF WindowInv, TypeOK, RxTypeOK
<1>8. ReportedIsWritten' /\ rxRam'.max_size < HalfWord
  BY <1>1, <1>6 DEF WindowInv, ReportedIsWritten
<1>9. ReceiverRunning' /\ ReceiverBehind'
  BY <1>1 DEF ReceiverRunning, ReceiverBehind
<1>. QED  BY <1>2, <1>3, <1>4, <1>5, <1>7, <1>8, <1>9
          DEF WindowInv, TypeOK, LineTypeOK

(***************************************************************************)
(* The emitter's steps.                                                    *)
(***************************************************************************)
(* The receiver's part of the invariant does not depend on the emitter.    *)
LEMMA EmitterKeepsReceiver ==
  ASSUME WindowInv, UNCHANGED rxVars, txOpts' = txOpts,
         txRam'.write_offset = txRam.write_offset
  PROVE  /\ RxTypeOK' /\ ReceiverRunning' /\ ReportedIsWritten'
         /\ rxRam'.max_size < HalfWord /\ CopyIsPrefix'
<1>1. /\ rxOpts' = rxOpts /\ rxpc' = rxpc /\ nbRetry' = nbRetry
      /\ expectedBlkNumber' = expectedBlkNumber
      /\ canCharReceived' = canCharReceived
      /\ receivedBytes' = receivedBytes /\ rxRam' = rxRam
      /\ rxData' = rxData
  BY DEF rxVars
<1>2. CopyIsPrefix'
  BY <1>1, CopyKept
<1>. QED  BY <1>1, <1>2
          DEF WindowInv, TypeOK, RxTypeOK, ReceiverRunning, ReportedIsWritten

(* The emitter sends a block, a new one or the last one again.             *)
LEMMA TxSendKeeps ==
  ASSUME WindowInv, UNCHANGED rxVars, txOpts' = txOpts,
         NEW f \in Frame, PutFrame(f), blk_buffer' = f, f.seq = blkNo',
         \/ txpc = "preambule" /\ blkNo' = 1
         \/ txpc = "reply" /\ blkNo' \in {blkNo, blkNo + 1},
         txpc' = "reply",
         IsBlock(f) => f.blk = f.seq % BlkMod /\ ChunkIn(f) = BlockOf(f.seq),
         txRam' \in RamFileType, txRam'.write_offset = txRam.write_offset,
         txRam'.read_offset = Smaller(FileSize, blkNo' * defaultBlksize),
         retry' \in 0 .. MaxRetry, retry' < MaxRetry,
         timeout' \in 0 .. MaxTimeout,
         emittedBytes' \in Nat, toTx' \in Seq(Byte)
  PROVE  WindowInv'
<1>1. /\ toRx' \in Seq(Frame) /\ faults' \in 0 .. MaxFaults
      /\ FramesHoldBlocks' /\ FramesInOrder' /\ FramesBehindEmitter'
      /\ ReceiverBehind'
  BY SendKeepsOrder
<1>2. /\ RxTypeOK' /\ ReceiverRunning' /\ ReportedIsWritten'
      /\ rxRam'.max_size < HalfWord /\ CopyIsPrefix'
  BY EmitterKeepsReceiver
<1>3. blkNo' \in Nat \ {0}
  BY WindowTypes
<1>4. TxTypeOK'
  BY <1>3 DEF WindowInv, TypeOK, TxTypeOK
<1>5. EmitterRunning'
  BY DEF EmitterRunning
<1>6. EmitterAtBlkNo'
  <2>1. /\ FileSize' = FileSize /\ defaultBlksize' = defaultBlksize
        /\ \A k : BlockOf(k)' = BlockOf(k)
    BY FrozenFile
  <2>2. FileSize < HalfWord /\ FileSize \in Nat
    BY DEF WindowInv, EmitterAtBlkNo, TypeOK, TxTypeOK, RamFileType, FileSize
  <2>3. blkNo' * defaultBlksize \in Nat
    <3>1. \A a \in Nat, b \in Nat : a * b \in Nat
      OBVIOUS
    <3>. QED  BY <3>1, <1>3, BlksizeType
  <2>4. txRam'.read_offset <= FileSize
    BY <2>2, <2>3 DEF Smaller
  <2>5. IsBlock(f) => f.blk = blkNo' % BlkMod /\ ChunkIn(f) = BlockOf(blkNo')
    OBVIOUS
  <2>6. BlockOf(blkNo)' = BlockOf(blkNo')
    BY <2>1 DEF BlockOf
  <2>. QED  BY <2>1, <2>2, <2>4, <2>5, <2>6 DEF EmitterAtBlkNo
<1>. QED  BY <1>1, <1>2, <1>4, <1>5, <1>6 DEF WindowInv, TypeOK, LineTypeOK

(* The emitter waits on, or returns without sending anything.              *)
LEMMA TxWaitKeeps ==
  ASSUME WindowInv, UNCHANGED rxVars,
         UNCHANGED <<toRx, faults, txOpts, txRam, blk_buffer>>,
         \/ txpc' = txpc /\ blkNo' = blkNo /\ retry' = retry
         \/ txpc' = "done" /\ blkNo' \in {blkNo, blkNo + 1},
         retry' \in 0 .. MaxRetry, timeout' \in 0 .. MaxTimeout,
         txpc' = "preambule" => timeout' < MaxTimeout,
         emittedBytes' \in {emittedBytes, -1},
         txpc' = "reply" => emittedBytes' = emittedBytes,
         toTx' \in Seq(Byte)
  PROVE  WindowInv'
<1>1. /\ RxTypeOK' /\ ReceiverRunning' /\ ReportedIsWritten'
      /\ rxRam'.max_size < HalfWord /\ CopyIsPrefix'
  BY EmitterKeepsReceiver
<1>2. /\ toRx' = toRx /\ faults' = faults /\ txRam' = txRam
      /\ txOpts' = txOpts /\ blk_buffer' = blk_buffer
      /\ expectedBlkNumber' = expectedBlkNumber /\ nbRetry' = nbRetry
      /\ rxpc' = rxpc /\ rxData' = rxData
  BY DEF rxVars
<1>3. FramesHoldBlocks' /\ FramesInOrder' /\ FramesBehindEmitter'
  BY <1>2, WaitKeepsOrder
<1>4. ReceiverBehind'
  BY <1>2 DEF WindowInv, ReceiverBehind
<1>5. TxTypeOK'
  <2>1. blkNo' \in Nat \ {0} /\ emittedBytes' \in Nat \cup {-1}
    BY DEF WindowInv, TypeOK, TxTypeOK
  <2>. QED  BY <1>2, <2>1 DEF WindowInv, TypeOK, TxTypeOK
<1>6. EmitterRunning'
  BY DEF WindowInv, EmitterRunning
<1>7. EmitterAtBlkNo'
  <2>1. /\ FileSize' = FileSize /\ defaultBlksize' = defaultBlksize
        /\ BlockOf(blkNo)' = BlockOf(blkNo')
    BY <1>2 DEF FileSize, defaultBlksize, BlockOf
  <2>. QED  BY <1>2, <2>1 DEF WindowInv, EmitterAtBlkNo
<1>8. LineTypeOK'
  BY <1>2 DEF WindowInv, TypeOK, LineTypeOK
<1>. QED  BY <1>1, <1>3, <1>4, <1>5, <1>6, <1>7, <1>8 DEF WindowInv, TypeOK

(* lxmodem_emit has been refused: its two CAN are on the line.             *)
LEMMA TxPreambuleRefusedKeeps ==
  ASSUME WindowInv, UNCHANGED rxVars, TxPreambuleRefused
  PROVE  WindowInv'
<1>. DEFINE can == CharFrame(CAN, 1)
            Cancelled ==
              \E g \in Frame, h \in Frame :
                /\ g.seq = 1 /\ ~IsBlock(g) /\ h.seq = 1 /\ ~IsBlock(h)
                /\ toRx' \in {<<g>>, <<g, h>>}
<1>1. /\ txpc = "preambule" /\ blkNo = 1 /\ toRx = <<>>
      /\ toTx # <<>> /\ toTx' = Tail(toTx) /\ PutCancelFrames(1)
      /\ txpc' = "done" /\ emittedBytes' = -1
      /\ txOpts' = txOpts /\ blkNo' = blkNo /\ retry' = retry
      /\ timeout' = timeout /\ txRam' = txRam /\ blk_buffer' = blk_buffer
  BY DEF TxPreambuleRefused, WindowInv, EmitterAtBlkNo
<1>2. /\ can \in Frame /\ can.seq = 1 /\ ~IsBlock(can)
      /\ \A g \in Damaged(can) : g \in Frame /\ g.seq = 1 /\ ~IsBlock(g)
  <2>1. can \in Frame
    BY LModemAssumption DEF CharFrame, NoMeta, Meta, CAN, Frame, Byte, BlkNumber
  <2>2. can.seq = 1 /\ ~IsBlock(can)
    BY DEF CharFrame, CAN, IsBlock, SOH, STX
  <2>. HIDE DEF can
  <2>. QED  BY <2>1, <2>2, DamagedFrame
<1>3. /\ faults' \in 0 .. MaxFaults /\ faults' \in {faults, faults + 1}
      /\ Cancelled
  <2>. HIDE DEF can
  <2>0. faults \in 0 .. MaxFaults
    BY DEF WindowInv, TypeOK, LineTypeOK
  <2>1. CASE toRx' = toRx \o <<can, can>> /\ UNCHANGED faults
    <3>1. toRx' = <<can, can>>
      BY <1>1, <2>1
    <3>. QED  BY <3>1, <2>0, <2>1, <1>2
  <2>2. CASE Fault("lose") /\ toRx' = Append(toRx, can)
    <3>1. toRx' = <<can>>
      BY <1>1, <2>2
    <3>2. faults' = faults + 1 /\ faults' \in 0 .. MaxFaults
      BY <2>0, <2>2, LineAssumption DEF Fault
    <3>. QED  BY <3>1, <3>2, <1>2
  <2>3. ASSUME Fault("damage"), NEW g \in Damaged(can),
               toRx' \in {toRx \o <<g, can>>, toRx \o <<can, g>>}
        PROVE  /\ faults' \in 0 .. MaxFaults /\ faults' \in {faults, faults + 1}
               /\ Cancelled
    <3>1. toRx' = <<g, can>> \/ toRx' = <<can, g>>
      BY <1>1, <2>3
    <3>2. faults' = faults + 1 /\ faults' \in 0 .. MaxFaults
      BY <2>0, <2>3, LineAssumption DEF Fault
    <3>. QED  BY <3>1, <3>2, <1>2
  <2>. QED  BY <1>1, <2>1, <2>2, <2>3 DEF PutCancelFrames, can
<1>4. PICK g \in Frame, h \in Frame :
        /\ g.seq = 1 /\ ~IsBlock(g) /\ h.seq = 1 /\ ~IsBlock(h)
        /\ toRx' \in {<<g>>, <<g, h>>}
  BY <1>3
<1>5. /\ toRx' \in Seq(Frame)
      /\ \A i \in DOMAIN toRx' :
           i \in Nat \ {0} /\ toRx'[i].seq = 1 /\ ~IsBlock(toRx'[i])
  BY <1>4
<1>6. /\ RxTypeOK' /\ ReceiverRunning' /\ ReportedIsWritten'
      /\ rxRam'.max_size < HalfWord /\ CopyIsPrefix'
  BY <1>1, EmitterKeepsReceiver
<1>7. faults' \in Nat /\ nbRetry \in Nat
  BY <1>3, WindowTypes
<1>8. FramesHoldBlocks' /\ FramesInOrder' /\ FramesBehindEmitter'
  BY <1>1, <1>5, <1>7
  DEF FramesHoldBlocks, FramesInOrder, FramesBehindEmitter
<1>9. ReceiverBehind'
  <2>1. /\ expectedBlkNumber' = expectedBlkNumber /\ nbRetry' = nbRetry
        /\ rxpc' = rxpc /\ rxData' = rxData
    BY DEF rxVars
  <2>2. rxpc # "done" =>
          expectedBlkNumber - 1 = 0 /\ Len(rxData) = 0 /\ nbRetry < MaxRetry
    BY <1>1 DEF WindowInv, ReceiverBehind
  <2>3. ASSUME NEW i \in DOMAIN toRx'
        PROVE  0 <= toRx'[i].seq /\ toRx'[i].seq <= 0 + nbRetry + i + faults'
    BY <1>5, <1>7
  <2>. QED  BY <2>1, <2>2, <2>3, <1>1 DEF ReceiverBehind
<1>10. TxTypeOK' /\ EmitterRunning'
  BY <1>1 DEF WindowInv, TypeOK, TxTypeOK, EmitterRunning
<1>11. EmitterAtBlkNo'
  BY <1>1, FrozenFile DEF WindowInv, EmitterAtBlkNo
<1>12. LineTypeOK'
  BY <1>1, <1>3, <1>5 DEF WindowInv, TypeOK, LineTypeOK
<1>. QED  BY <1>6, <1>8, <1>9, <1>10, <1>11, <1>12 DEF WindowInv, TypeOK

(* The emitter builds and sends the block after the last one sent.         *)
LEMMA SendNextKeeps ==
  ASSUME WindowInv, UNCHANGED rxVars, txOpts' = txOpts,
         NEW k \in Nat \ {0}, SendNext(k), blkNo' = k,
         txRam.read_offset = Smaller(FileSize, (k - 1) * defaultBlksize),
         \/ txpc = "preambule" /\ k = 1
         \/ txpc = "reply" /\ k = blkNo + 1,
         txpc' = "reply", retry' = 0, timeout' = 0,
         emittedBytes' \in Nat, toTx' \in Seq(Byte)
  PROVE  WindowInv'
<1>. DEFINE f == DataBlock(k)
<1>1. /\ txRam \in RamFileType
      /\ txRam.read_offset <= FileSize /\ FileSize < HalfWord
  BY DEF WindowInv, TypeOK, TxTypeOK, EmitterAtBlkNo
<1>2. /\ f \in Frame /\ f.seq = k
      /\ IsBlock(f) => f.blk = k % BlkMod /\ ChunkIn(f) = BlockOf(k)
      /\ lmodem_buffer_read(txRam, bytesToRead) =
           [txRam EXCEPT !.read_offset = Smaller(FileSize, k * defaultBlksize)]
  BY <1>1, DataBlockIsBlockOf
<1>3. /\ blk_buffer' = f /\ PutFrame(f)
      /\ txRam' = lmodem_buffer_read(txRam, bytesToRead)
  BY DEF SendNext
<1>. HIDE DEF f
<1>4. Smaller(FileSize, k * defaultBlksize) \in Nat
  <2>1. \A a \in Nat, b \in Nat : a * b \in Nat
    OBVIOUS
  <2>2. k * defaultBlksize \in Nat
    BY <2>1, BlksizeType
  <2>. QED  BY <2>2, <1>1 DEF Smaller, FileSize, RamFileType
<1>5. /\ txRam' \in RamFileType
      /\ txRam'.write_offset = txRam.write_offset
      /\ txRam'.read_offset = Smaller(FileSize, blkNo' * defaultBlksize)
  <2>. DEFINE r == Smaller(FileSize, k * defaultBlksize)
  <2>1. txRam' = [txRam EXCEPT !.read_offset = r] /\ r \in Nat
    BY <1>2, <1>3, <1>4
  <2>. HIDE DEF r
  <2>2. /\ txRam' \in RamFileType
        /\ txRam'.write_offset = txRam.write_offset
        /\ txRam'.read_offset = r
    BY <2>1, <1>1 DEF RamFileType
  <2>. QED  BY <2>2 DEF r
<1>6. /\ retry' \in 0 .. MaxRetry /\ retry' < MaxRetry
      /\ timeout' \in 0 .. MaxTimeout
  BY LModemAssumption
<1>. QED  BY <1>2, <1>3, <1>5, <1>6, TxSendKeeps

(* One more error on the current block.                                    *)
LEMMA TxErrorKeeps ==
  ASSUME WindowInv, UNCHANGED rxVars, UNCHANGED <<txOpts, blkNo>>,
         txpc = "reply", NEW limit \in Nat, limit <= MaxRetry,
         TxError(limit), toTx' \in Seq(Byte)
  PROVE  WindowInv'
<1>1. /\ retry \in Nat /\ retry < MaxRetry /\ emittedBytes \in Nat
      /\ blkNo \in Nat \ {0} /\ blk_buffer \in Frame /\ txRam \in RamFileType
  BY DEF WindowInv, TypeOK, TxTypeOK, EmitterRunning
<1>2. /\ retry' = retry + 1 /\ retry' \in 0 .. MaxRetry
      /\ timeout' = 0 /\ timeout' \in 0 .. MaxTimeout
  BY <1>1, LModemAssumption DEF TxError
<1>3. CASE retry + 1 >= limit /\ TxStop(-1)
  BY <1>2, <1>3, TxWaitKeeps DEF TxStop
<1>4. CASE retry + 1 < limit /\ SendAgain /\ UNCHANGED <<txpc, emittedBytes>>
  <2>1. /\ PutFrame(blk_buffer) /\ blk_buffer' = blk_buffer
        /\ txRam' = txRam /\ txpc' = "reply" /\ retry' < MaxRetry
        /\ emittedBytes' \in Nat /\ blkNo' = blkNo
    BY <1>1, <1>2, <1>4, LModemAssumption DEF SendAgain
  <2>2. /\ blk_buffer.seq = blkNo
        /\ txRam.read_offset = Smaller(FileSize, blkNo * defaultBlksize)
        /\ IsBlock(blk_buffer) =>
             /\ blk_buffer.blk = blkNo % BlkMod
             /\ ChunkIn(blk_buffer) = BlockOf(blkNo)
    BY DEF WindowInv, EmitterAtBlkNo
  <2>. QED  BY <2>1, <2>2, <1>1, <1>2, TxSendKeeps
<1>. QED  BY <1>3, <1>4 DEF TxError

(* A step that changes nothing keeps everything.                           *)
LEMMA Stuttering ==
  ASSUME WindowInv, UNCHANGED vars
  PROVE  WindowInv'
<1>1. UNCHANGED rxVars /\ UNCHANGED txVars /\ UNCHANGED lineVars
  BY DEF vars
<1>2. /\ UNCHANGED <<toRx, faults, txOpts, txRam, blk_buffer>>
      /\ txpc' = txpc /\ blkNo' = blkNo /\ retry' = retry
      /\ timeout' = timeout /\ emittedBytes' = emittedBytes /\ toTx' = toTx
  BY <1>1 DEF txVars, lineVars
<1>3. /\ retry \in 0 .. MaxRetry /\ timeout \in 0 .. MaxTimeout
      /\ toTx \in Seq(Byte) /\ (txpc = "preambule" => timeout < MaxTimeout)
  BY DEF WindowInv, TypeOK, TxTypeOK, LineTypeOK, EmitterRunning
<1>. QED  BY <1>1, <1>2, <1>3, TxWaitKeeps

(* The rest of a sequence of characters.                                   *)
LEMMA TailType ==
  ASSUME WindowInv, toTx # <<>>
  PROVE  Head(toTx) \in Byte /\ Tail(toTx) \in Seq(Byte)
<1>1. toTx \in Seq(Byte)
  BY DEF WindowInv, TypeOK, LineTypeOK
<1>. QED  BY <1>1

(* ACK: the next block is built from the bytes that follow.                *)
LEMMA TxAckKeeps ==
  ASSUME WindowInv, UNCHANGED rxVars, TxAck
  PROVE  WindowInv'
<1>1. /\ txpc = "reply" /\ toTx' \in Seq(Byte) /\ txOpts' = txOpts
      /\ blkNo' = blkNo + 1 /\ retry' = 0 /\ timeout' = 0
  BY TailType DEF TxAck, ReplyArrived
<1>2. /\ blkNo \in Nat \ {0} /\ emittedBytes \in Nat
      /\ retry' \in 0 .. MaxRetry /\ timeout' \in 0 .. MaxTimeout
  BY <1>1, LModemAssumption DEF WindowInv, TypeOK, TxTypeOK, EmitterRunning
<1>3. CASE isLastBlock /\ TxStop(emittedBytes)
  BY <1>1, <1>2, <1>3, TxWaitKeeps DEF TxStop
<1>4. CASE /\ ~isLastBlock
           /\ emittedBytes' = emittedBytes + nbEmitted
           /\ SendNext(blkNo + 1)
           /\ UNCHANGED txpc
  <2>1. nbEmitted \in Nat
    BY LModemAssumption DEF nbEmitted, BlkSize
  <2>2. emittedBytes' \in Nat
    BY <2>1, <1>2, <1>4
  <2>. DEFINE k == blkNo + 1
  <2>3. k \in Nat \ {0} /\ k - 1 = blkNo
    BY <1>2
  <2>4. txRam.read_offset = Smaller(FileSize, (k - 1) * defaultBlksize)
    BY <1>1, <2>3 DEF WindowInv, EmitterAtBlkNo
  <2>5. SendNext(k) /\ blkNo' = k /\ txpc' = "reply"
    BY <1>1, <1>4
  <2>6. k = blkNo + 1
    OBVIOUS
  <2>. HIDE DEF k
  <2>. QED  BY <2>2, <2>3, <2>4, <2>5, <2>6, <1>1, SendNextKeeps
<1>. QED  BY <1>3, <1>4 DEF TxAck

(* A preamble this side accepts: block 1.                                  *)
LEMMA TxPreambuleKeeps ==
  ASSUME WindowInv, UNCHANGED rxVars, TxPreambule
  PROVE  WindowInv'
<1>1. /\ txpc = "preambule" /\ toTx' \in Seq(Byte) /\ txOpts' = txOpts
      /\ blkNo' = 1 /\ retry' = 0 /\ timeout' = 0 /\ emittedBytes' = 0
      /\ txpc' = "reply" /\ SendNext(1)
  BY TailType DEF TxPreambule
<1>2. txRam.read_offset = 0 /\ FileSize \in Nat
  BY <1>1
  DEF WindowInv, TypeOK, TxTypeOK, EmitterAtBlkNo, FileSize, RamFileType
<1>3. (1 - 1) * defaultBlksize = 0
  BY BlksizeType
<1>4. txRam.read_offset = Smaller(FileSize, (1 - 1) * defaultBlksize)
  BY <1>2, <1>3 DEF Smaller
<1>5. 1 \in Nat \ {0} /\ 0 \in Nat
  OBVIOUS
<1>. QED  BY <1>1, <1>4, <1>5, SendNextKeeps

(* Every step of the receiver keeps the invariant.                         *)
LEMMA RxNextKeeps ==
  ASSUME WindowInv, RxNext
  PROVE  WindowInv'
BY RxStartKeeps, RxStoreKeeps, RxEndKeeps, RxErrorKeeps
DEF RxNext, RxReceives

(* Every step of the emitter keeps the invariant.                          *)
LEMMA TxNextKeeps ==
  ASSUME WindowInv, TxNext
  PROVE  WindowInv'
<1>0. UNCHANGED rxVars
  BY DEF TxNext
<1>1. CASE TxPreambule
  BY <1>0, <1>1, TxPreambuleKeeps
<1>2. CASE TxPreambuleRefused
  BY <1>0, <1>2, TxPreambuleRefusedKeeps
<1>3. CASE TxAck
  BY <1>0, <1>3, TxAckKeeps
<1>4. CASE TxNak
  <2>1. /\ txpc = "reply" /\ toTx' \in Seq(Byte) /\ TxError(MaxRetry)
        /\ UNCHANGED <<txOpts, blkNo>>
    BY <1>4, TailType DEF TxNak, ReplyArrived
  <2>2. MaxRetry \in Nat /\ MaxRetry <= MaxRetry
    BY LModemAssumption
  <2>. QED  BY <1>0, <2>1, <2>2, TxErrorKeeps
<1>5. CASE TxOther
  <2>. DEFINE limit == IF MaxRetry < 2 THEN MaxRetry ELSE 2
  <2>1. /\ txpc = "reply" /\ toTx' \in Seq(Byte) /\ TxError(limit)
        /\ UNCHANGED <<txOpts, blkNo>>
    BY <1>5, TailType DEF TxOther, ReplyArrived
  <2>2. limit \in Nat /\ limit <= MaxRetry
    BY LModemAssumption
  <2>. HIDE DEF limit
  <2>. QED  BY <1>0, <2>1, <2>2, TxErrorKeeps
<1>6. CASE TxPreambuleTimeout
  <2>1. /\ timeout \in Nat /\ timeout < MaxTimeout /\ MaxTimeout \in Nat
        /\ retry \in 0 .. MaxRetry /\ toTx \in Seq(Byte)
    BY <1>6, LModemAssumption
    DEF WindowInv, TypeOK, TxTypeOK, LineTypeOK, EmitterRunning,
        TxPreambuleTimeout
  <2>2. /\ timeout' \in 0 .. MaxTimeout
        /\ txpc' = "preambule" => timeout' < MaxTimeout
        /\ txpc' \in {"preambule", "done"}
    BY <1>6, <2>1 DEF TxPreambuleTimeout
  <2>3. /\ txpc = "preambule" /\ blkNo' = blkNo /\ retry' = retry
        /\ emittedBytes' = emittedBytes /\ toTx' = toTx
        /\ UNCHANGED <<toRx, faults, txOpts, txRam, blk_buffer>>
    BY <1>6 DEF TxPreambuleTimeout, lineVars
  <2>. QED  BY <1>0, <2>1, <2>2, <2>3, TxWaitKeeps
<1>7. CASE TxTimeout
  <2>0. /\ MaxTimeout \in Nat /\ timeout \in Nat
        /\ retry \in 0 .. MaxRetry /\ toTx \in Seq(Byte)
    BY LModemAssumption DEF WindowInv, TypeOK, TxTypeOK, LineTypeOK
  <2>1. CASE /\ timeout + 1 < MaxTimeout
             /\ timeout' = timeout + 1
             /\ UNCHANGED <<lineVars, txpc, retry, emittedBytes, txRam,
                            blk_buffer>>
    <3>1. /\ txpc = "reply" /\ txpc' = txpc /\ blkNo' = blkNo
          /\ retry' = retry /\ emittedBytes' = emittedBytes /\ toTx' = toTx
          /\ UNCHANGED <<toRx, faults, txOpts, txRam, blk_buffer>>
      BY <1>7, <2>1 DEF TxTimeout, lineVars
    <3>2. timeout' \in 0 .. MaxTimeout
      BY <2>0, <2>1
    <3>. QED  BY <1>0, <2>0, <3>1, <3>2, TxWaitKeeps
  <2>2. CASE timeout + 1 >= MaxTimeout /\ TxError(MaxRetry) /\ UNCHANGED toTx
    <3>1. txpc = "reply" /\ UNCHANGED <<txOpts, blkNo>> /\ toTx' \in Seq(Byte)
      BY <1>7, <2>0, <2>2 DEF TxTimeout
    <3>2. MaxRetry \in Nat /\ MaxRetry <= MaxRetry
      BY LModemAssumption
    <3>. QED  BY <1>0, <2>2, <3>1, <3>2, TxErrorKeeps
  <2>. QED  BY <1>7, <2>1, <2>2 DEF TxTimeout
<1>. QED  BY <1>1, <1>2, <1>3, <1>4, <1>5, <1>6, <1>7 DEF TxNext, TxReceives

(* The invariant holds when the two contexts have just been set up.        *)
LEMMA InitWindow ==
  ASSUME Init
  PROVE  WindowInv
<1>1. PICK eOpts \in Opts, rOpts \in Opts, size \in FileSizes,
           max_size \in RamSizes : TxInit(eOpts, size) /\ RxInit(rOpts, max_size)
  BY DEF Init
<1>2. /\ toRx = <<>> /\ toTx = <<>> /\ faults = 0
  BY DEF Init, LineInit
<1>3. /\ size \in Nat /\ size < HalfWord
      /\ max_size \in Nat /\ max_size < HalfWord
  BY LinkAssumption
<1>4. txRam = [max_size |-> size, read_offset |-> 0, write_offset |-> size]
  BY <1>1, <1>3
  DEF TxInit, lmodem_buffer_set_write_offset, lmodem_buffer_init
<1>5. rxRam = [max_size |-> max_size, read_offset |-> 0, write_offset |-> 0]
  BY <1>1 DEF RxInit, lmodem_buffer_init
<1>6. CharFrame(0, 1) \in Frame
  BY LModemAssumption DEF CharFrame, NoMeta, Meta, Frame, Byte, BlkNumber
<1>7. LineTypeOK
  BY <1>2, LineAssumption DEF LineTypeOK
<1>8. RxTypeOK
  BY <1>1, <1>3, <1>5, LModemAssumption DEF RxTypeOK, RxInit, RamFileType
<1>9. TxTypeOK
  BY <1>1, <1>3, <1>4, <1>6, LModemAssumption
  DEF TxTypeOK, TxInit, RamFileType
<1>10. EmitterAtBlkNo
  BY <1>1, <1>2, <1>3, <1>4 DEF EmitterAtBlkNo, TxInit, FileSize
<1>11. FramesHoldBlocks /\ FramesInOrder /\ FramesBehindEmitter
  BY <1>2 DEF FramesHoldBlocks, FramesInOrder, FramesBehindEmitter
<1>12. ReceiverBehind
  BY <1>1, <1>2, LModemAssumption DEF ReceiverBehind, RxInit, TxInit
<1>13. EmitterRunning /\ ReceiverRunning
  BY <1>1, LModemAssumption
  DEF EmitterRunning, ReceiverRunning, RxInit, TxInit
<1>14. ReportedIsWritten /\ rxRam.max_size < HalfWord
  BY <1>1, <1>3, <1>5 DEF ReportedIsWritten, RxInit
<1>15. CopyIsPrefix
  BY <1>1 DEF CopyIsPrefix, RxInit
<1>. QED  BY <1>7, <1>8, <1>9, <1>10, <1>11, <1>12, <1>13, <1>14, <1>15
          DEF WindowInv, TypeOK

-----------------------------------------------------------------------------
(* The window of block numbers is an invariant of lxmodem_emit and         *)
(* lxmodem_receive running against each other over any line that fails at  *)
(* most MaxFaults times.                                                   *)
THEOREM WindowIsInvariant == Spec => []WindowInv
<1>1. Init => WindowInv
  BY InitWindow
<1>2. WindowInv /\ [Next]_vars => WindowInv'
  <2>. SUFFICES ASSUME WindowInv, [Next]_vars
                PROVE  WindowInv'
    OBVIOUS
  <2>1. CASE RxNext
    BY <2>1, RxNextKeeps
  <2>2. CASE TxNext
    BY <2>2, TxNextKeeps
  <2>3. CASE UNCHANGED vars
    BY <2>3, Stuttering
  <2>. QED  BY <2>1, <2>2, <2>3 DEF Next, Terminated
<1>. QED  BY <1>1, <1>2, PTL DEF Spec

(* Every variable of the two loops and of the line keeps its type; the     *)
(* retry counters never pass their limits.                                 *)
THEOREM TypeCorrect == Spec => []TypeOK
<1>1. WindowInv => TypeOK
  BY DEF WindowInv
<1>. QED  BY <1>1, WindowIsInvariant, PTL

(* The receiver's file holds the first blocks of the emitter's file, each  *)
(* once and in order, although block numbers wrap around and replies may   *)
(* be lost, garbled or late.                                               *)
THEOREM CopyIsAlwaysPrefix == Spec => []CopyIsPrefix
<1>1. WindowInv => CopyIsPrefix
  BY DEF WindowInv
<1>. QED  BY <1>1, WindowIsInvariant, PTL

(* lxmodem_receive reports the bytes it has put into its buffer, and never *)
(* goes past the end of the buffer.                                        *)
THEOREM ReportIsExact == Spec => []ReportedIsWritten
<1>1. WindowInv => ReportedIsWritten
  BY DEF WindowInv
<1>. QED  BY <1>1, WindowIsInvariant, PTL

(***************************************************************************)
(* Consequences of the invariant.                                          *)
(***************************************************************************)
(* The types of what the invariants of a transfer are about.               *)
LEMMA LinkTypes ==
  ASSUME WindowInv
  PROVE  /\ toTx \in Seq(Byte) /\ Len(toTx) \in Nat
         /\ toRx \in Seq(Frame) /\ Len(toRx) \in Nat
         /\ rxpc \in {"idle", "header", "done"}
         /\ txpc \in {"preambule", "reply", "done"}
         /\ blkNo \in Nat \ {0} /\ expectedBlkNumber \in Nat \ {0}
         /\ emittedBytes \in Nat \cup {-1}
         /\ receivedBytes \in Nat \cup {-1}
         /\ rxRam.write_offset \in Nat
         /\ rxData \in Seq(Chunk) /\ Len(rxData) \in Nat
         /\ blk_buffer \in Frame
         /\ FileSize \in Nat /\ NbBlocks \in Nat
         /\ nbEmitted \in Nat
<1>1. LineTypeOK /\ RxTypeOK /\ TxTypeOK
  BY DEF WindowInv, TypeOK
<1>2. FileSize \in Nat /\ rxRam.write_offset \in Nat
  BY <1>1 DEF RxTypeOK, TxTypeOK, RamFileType, FileSize
<1>3. NbBlocks \in Nat
  BY <1>2, BlockIffBytesLeft
<1>4. nbEmitted \in Nat
  BY LModemAssumption DEF nbEmitted, BlkSize
<1>. QED  BY <1>1, <1>2, <1>3, <1>4 DEF LineTypeOK, RxTypeOK, TxTypeOK

(* What the window says of the two sides while they run.                   *)
LEMMA WindowFacts ==
  ASSUME WindowInv
  PROVE  /\ rxpc # "done" => Len(rxData) = expectedBlkNumber - 1
         /\ rxpc # "done" => receivedBytes = rxRam.write_offset
         /\ txpc = "preambule" => toRx = <<>>
         /\ txpc = "preambule" /\ rxpc # "done" => expectedBlkNumber = 1
         /\ txpc = "reply" => blk_buffer.seq = blkNo /\ emittedBytes \in Nat
<1>1. /\ receivedBytes \in Nat \cup {-1} /\ emittedBytes \in Nat \cup {-1}
      /\ expectedBlkNumber \in Nat
  BY LinkTypes
<1>2. rxpc # "done" => receivedBytes = rxRam.write_offset
  BY <1>1 DEF WindowInv, ReceiverRunning, ReportedIsWritten
<1>3. /\ rxpc # "done" => Len(rxData) = expectedBlkNumber - 1
      /\ txpc = "preambule" /\ rxpc # "done" => expectedBlkNumber - 1 = 0
  BY DEF WindowInv, ReceiverBehind
<1>4. /\ txpc = "preambule" => toRx = <<>>
      /\ txpc = "reply" => blk_buffer.seq = blkNo /\ emittedBytes >= 0
  BY DEF WindowInv, EmitterAtBlkNo, EmitterRunning
<1>. QED  BY <1>1, <1>2, <1>3, <1>4

(* No step changes the file that is sent.                                  *)
LEMMA FileKept ==
  ASSUME WindowInv, [Next]_vars
  PROVE  txOpts' = txOpts /\ txRam'.write_offset = txRam.write_offset
<1>1. txRam \in RamFileType
  BY DEF WindowInv, TypeOK, TxTypeOK
<1>2. ASSUME NEW size PROVE lmodem_buffer_read(txRam, size).write_offset =
                              txRam.write_offset
  BY <1>1 DEF lmodem_buffer_read, RamFileType
<1>3. CASE RxNext \/ UNCHANGED vars
  BY <1>3 DEF RxNext, vars, txVars
<1>4. CASE TxNext
  <2>1. txOpts' = txOpts
    BY <1>4 DEF TxNext, TxReceives, TxPreambule, TxPreambuleRefused, TxAck,
                TxNak, TxOther, TxPreambuleTimeout, TxTimeout
  <2>2. \/ txRam' = txRam
        \/ txRam' = lmodem_buffer_read(txRam, bytesToRead)
    BY <1>4 DEF TxNext, TxReceives, TxPreambule, TxPreambuleRefused, TxAck,
                TxNak, TxOther, TxPreambuleTimeout, TxTimeout, TxError, TxStop,
                SendAgain, SendNext
  <2>. QED  BY <1>2, <2>1, <2>2
<1>. QED  BY <1>3, <1>4 DEF Next, Terminated

(* The two CAN of a refused preamble are no block and no EOT, hit or not.  *)
LEMMA CancelFrames ==
  ASSUME toRx = <<>>, NEW seq \in Nat, PutCancelFrames(seq)
  PROVE  \A i \in DOMAIN toRx' :
           toRx'[i].hdr = CAN \/ toRx'[i].hdr \in NoiseBytes
<1>. DEFINE can == CharFrame(CAN, seq)
<1>1. can.hdr = CAN /\ ~IsBlock(can)
  BY DEF CharFrame, IsBlock, CAN, SOH, STX
<1>2. \A g \in Damaged(can) : g.hdr \in NoiseBytes
  BY <1>1 DEF Damaged, CharFrame
<1>. HIDE DEF can
<1>3. CASE toRx' = toRx \o <<can, can>>
  BY <1>1, <1>3
<1>4. CASE toRx' = Append(toRx, can)
  BY <1>1, <1>4
<1>5. ASSUME NEW g \in Damaged(can),
             toRx' \in {toRx \o <<g, can>>, toRx \o <<can, g>>}
      PROVE  \A i \in DOMAIN toRx' :
               toRx'[i].hdr = CAN \/ toRx'[i].hdr \in NoiseBytes
  <2>1. toRx' = <<g, can>> \/ toRx' = <<can, g>>
    BY <1>5
  <2>. QED  BY <2>1, <1>1, <1>2
<1>. QED  BY <1>3, <1>4, <1>5 DEF PutCancelFrames, can
=============================================================================
