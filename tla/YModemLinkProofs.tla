-------------------------- MODULE YModemLinkProofs --------------------------
(***************************************************************************)
(* Proofs about YModemLink, for every file, metadata, block size, number   *)
(* of faults and retry limit: type correctness, and that the receiver's    *)
(* file is always the beginning of the emitter's.                          *)
(***************************************************************************)
EXTENDS YModemLink, XModemLinkProofs, FiniteSetTheorems

(***************************************************************************)
(* Frames in a window, with or without the first, and with one more.       *)
(***************************************************************************)
(* The places of the frames in the rest of a queue.                        *)
LEMMA TailFrames ==
  ASSUME NEW q \in Seq(Frame), q # <<>>
  PROVE  /\ Tail(q) \in Seq(Frame)
         /\ Len(Tail(q)) = Len(q) - 1
         /\ \A i \in DOMAIN Tail(q) :
              i \in Nat /\ i + 1 \in DOMAIN q /\ Tail(q)[i] = q[i + 1]
         /\ 1 \in DOMAIN q /\ Head(q) = q[1] /\ Head(q) \in Frame
OBVIOUS

(* And in a queue with one more frame.                                     *)
LEMMA AppendedFrames ==
  ASSUME NEW q \in Seq(Frame), NEW g \in Frame
  PROVE  /\ Append(q, g) \in Seq(Frame)
         /\ Len(Append(q, g)) = Len(q) + 1 /\ Len(q) \in Nat
         /\ \A i \in DOMAIN Append(q, g) :
              /\ i \in Nat
              /\ \/ i \in DOMAIN q /\ i <= Len(q) /\ Append(q, g)[i] = q[i]
                 \/ i = Len(q) + 1 /\ Append(q, g)[i] = g
OBVIOUS

LEMMA FrameTypes ==
  ASSUME NEW q \in Seq(Frame), NEW i \in DOMAIN q
  PROVE  i \in Nat /\ q[i] \in Frame /\ q[i].seq \in Nat /\ Len(q) \in Nat
<1>1. i \in Nat /\ q[i] \in Frame /\ Len(q) \in Nat
  OBVIOUS
<1>. QED  BY <1>1 DEF Frame

(* More slack is less to ask.                                              *)
LEMMA MoreSlack ==
  ASSUME NEW q \in Seq(Frame), NEW s \in Nat, NEW t \in Nat, s <= t,
         NEW n \in Nat
  PROVE  /\ InOrder(q, s) => InOrder(q, t)
         /\ LeadTo(q, n, s) => LeadTo(q, n, t)
         /\ BeginAt(q, n, s) => BeginAt(q, n, t)
<1>1. ASSUME InOrder(q, s) PROVE InOrder(q, t)
  <2>. SUFFICES ASSUME NEW i \in DOMAIN q, NEW j \in DOMAIN q, i <= j,
                       IsBlock(q[i]), IsBlock(q[j])
                PROVE  /\ q[i].seq <= q[j].seq
                       /\ q[j].seq <= q[i].seq + (j - i) + t
    BY DEF InOrder
  <2>1. q[i].seq <= q[j].seq /\ q[j].seq <= q[i].seq + (j - i) + s
    BY <1>1 DEF InOrder
  <2>2. i \in Nat /\ j \in Nat /\ q[i].seq \in Nat /\ q[j].seq \in Nat
    BY FrameTypes
  <2>. DEFINE a == q[i].seq
              b == q[j].seq
  <2>3. a <= b /\ b <= a + (j - i) + s /\ a \in Nat /\ b \in Nat
    BY <2>1, <2>2
  <2>. HIDE DEF a, b
  <2>4. a <= b /\ b <= a + (j - i) + t
    BY <2>2, <2>3
  <2>. QED  BY <2>4 DEF a, b
<1>2. ASSUME LeadTo(q, n, s) PROVE LeadTo(q, n, t)
  <2>. SUFFICES ASSUME NEW i \in DOMAIN q, IsBlock(q[i])
                PROVE  q[i].seq <= n /\ n <= q[i].seq + (Len(q) - i) + t
    BY DEF LeadTo
  <2>1. q[i].seq <= n /\ n <= q[i].seq + (Len(q) - i) + s
    BY <1>2 DEF LeadTo
  <2>2. i \in Nat /\ q[i].seq \in Nat /\ Len(q) \in Nat
    BY FrameTypes
  <2>. QED  BY <2>1, <2>2
<1>3. ASSUME BeginAt(q, n, s) PROVE BeginAt(q, n, t)
  <2>. SUFFICES ASSUME NEW i \in DOMAIN q, IsBlock(q[i])
                PROVE  n <= q[i].seq /\ q[i].seq <= n + i + t
    BY DEF BeginAt
  <2>1. n <= q[i].seq /\ q[i].seq <= n + i + s
    BY <1>3 DEF BeginAt
  <2>2. i \in Nat /\ q[i].seq \in Nat
    BY FrameTypes
  <2>. QED  BY <2>1, <2>2
<1>. QED  BY <1>1, <1>2, <1>3

(* The frames behind the one that is read.                                 *)
LEMMA WindowBehindFirst ==
  ASSUME NEW q \in Seq(Frame), q # <<>>, NEW s \in Nat, NEW n \in Nat
  PROVE  /\ InOrder(q, s) => InOrder(Tail(q), s)
         /\ LeadTo(q, n, s) => LeadTo(Tail(q), n, s)
         /\ BeginAt(q, n, s) => BeginAt(Tail(q), n, s + 1)
         /\ InOrder(q, s) /\ IsBlock(Head(q)) =>
              BeginAt(Tail(q), Head(q).seq, s)
<1>. DEFINE r == Tail(q)
<1>1. /\ Len(r) = Len(q) - 1
      /\ \A i \in DOMAIN r : i \in Nat /\ i + 1 \in DOMAIN q /\ r[i] = q[i + 1]
      /\ 1 \in DOMAIN q /\ Head(q) = q[1]
  BY TailFrames
<1>. HIDE DEF r
<1>2. ASSUME InOrder(q, s) PROVE InOrder(r, s)
  <2>. SUFFICES ASSUME NEW i \in DOMAIN r, NEW j \in DOMAIN r, i <= j,
                       IsBlock(r[i]), IsBlock(r[j])
                PROVE  /\ r[i].seq <= r[j].seq
                       /\ r[j].seq <= r[i].seq + (j - i) + s
    BY DEF InOrder
  <2>0. i \in Nat /\ j \in Nat /\ i + 1 <= j + 1 /\ (j + 1) - (i + 1) = j - i
    BY <1>1
  <2>1. /\ q[i + 1].seq <= q[j + 1].seq
        /\ q[j + 1].seq <= q[i + 1].seq + ((j + 1) - (i + 1)) + s
    BY <1>1, <1>2, <2>0 DEF InOrder
  <2>. QED  BY <1>1, <2>0, <2>1
<1>3. ASSUME LeadTo(q, n, s) PROVE LeadTo(r, n, s)
  <2>. SUFFICES ASSUME NEW i \in DOMAIN r, IsBlock(r[i])
                PROVE  r[i].seq <= n /\ n <= r[i].seq + (Len(r) - i) + s
    BY DEF LeadTo
  <2>1. /\ q[i + 1].seq <= n
        /\ n <= q[i + 1].seq + (Len(q) - (i + 1)) + s
    BY <1>1, <1>3 DEF LeadTo
  <2>2. i \in Nat /\ Len(q) \in Nat /\ Len(q) - (i + 1) = Len(r) - i
    BY <1>1
  <2>. QED  BY <1>1, <2>1, <2>2
<1>4. ASSUME BeginAt(q, n, s) PROVE BeginAt(r, n, s + 1)
  <2>. SUFFICES ASSUME NEW i \in DOMAIN r, IsBlock(r[i])
                PROVE  n <= r[i].seq /\ r[i].seq <= n + i + (s + 1)
    BY DEF BeginAt
  <2>1. n <= q[i + 1].seq /\ q[i + 1].seq <= n + (i + 1) + s
    BY <1>1, <1>4 DEF BeginAt
  <2>2. i \in Nat /\ n + (i + 1) + s = n + i + (s + 1)
    BY <1>1
  <2>. QED  BY <1>1, <2>1, <2>2
<1>5. ASSUME InOrder(q, s), IsBlock(Head(q))
      PROVE  BeginAt(r, Head(q).seq, s)
  <2>. SUFFICES ASSUME NEW i \in DOMAIN r, IsBlock(r[i])
                PROVE  /\ q[1].seq <= r[i].seq
                       /\ r[i].seq <= q[1].seq + i + s
    BY <1>1 DEF BeginAt
  <2>0. i \in Nat /\ 1 <= i + 1 /\ (i + 1) - 1 = i
    BY <1>1
  <2>1. /\ q[1].seq <= q[i + 1].seq
        /\ q[i + 1].seq <= q[1].seq + ((i + 1) - 1) + s
    BY <1>1, <1>5, <2>0 DEF InOrder
  <2>. QED  BY <1>1, <2>0, <2>1
<1>. QED  BY <1>2, <1>3, <1>4, <1>5 DEF r

(* One more frame, which is no block or has the number that is due, leads  *)
(* up to the same number or to the next.                                   *)
LEMMA WindowWithOneMore ==
  ASSUME NEW q \in Seq(Frame), NEW g \in Frame, NEW s \in Nat,
         NEW n \in Nat, NEW m \in {n, n + 1}, NEW last \in Nat,
         IsBlock(g) => g.seq = m
  PROVE  /\ LeadTo(q, n, s) => LeadTo(Append(q, g), m, s)
         /\ InOrder(q, s) /\ (IsBlock(g) => LeadTo(q, n, s)) =>
              InOrder(Append(q, g), s)
         /\ BeginAt(q, last, s) /\
            (IsBlock(g) => last <= m /\ m <= last + s + Len(q) + 1) =>
              BeginAt(Append(q, g), last, s)
         /\ LeadTo(q, n, s) => LeadTo(q, m, s + 1)
<1>. DEFINE r == Append(q, g)
<1>1. /\ Len(r) = Len(q) + 1 /\ Len(q) \in Nat
      /\ \A i \in DOMAIN r :
           /\ i \in Nat
           /\ \/ i \in DOMAIN q /\ i <= Len(q) /\ r[i] = q[i]
              \/ i = Len(q) + 1 /\ r[i] = g
  BY AppendedFrames
<1>. HIDE DEF r
<1>0. m \in Nat /\ n <= m /\ m <= n + 1
  OBVIOUS
<1>2. ASSUME LeadTo(q, n, s), NEW i \in DOMAIN q, IsBlock(q[i])
      PROVE  /\ q[i].seq <= m
             /\ m <= q[i].seq + ((Len(q) + 1) - i) + s
             /\ m <= q[i].seq + (Len(q) - i) + (s + 1)
  <2>1. q[i].seq <= n /\ n <= q[i].seq + (Len(q) - i) + s
    BY <1>2 DEF LeadTo
  <2>2. i \in Nat /\ q[i].seq \in Nat
    BY FrameTypes
  <2>. DEFINE a == q[i].seq
              l == Len(q)
  <2>3. a \in Nat /\ l \in Nat /\ a <= n /\ n <= a + (l - i) + s
    BY <2>1, <2>2, <1>1
  <2>. HIDE DEF a, l
  <2>4. /\ a <= m
        /\ m <= a + ((l + 1) - i) + s
        /\ m <= a + (l - i) + (s + 1)
    BY <2>2, <2>3, <1>0
  <2>. QED  BY <2>4 DEF a, l
<1>3. ASSUME LeadTo(q, n, s) PROVE LeadTo(r, m, s)
  <2>. SUFFICES ASSUME NEW i \in DOMAIN r, IsBlock(r[i])
                PROVE  r[i].seq <= m /\ m <= r[i].seq + (Len(r) - i) + s
    BY DEF LeadTo
  <2>1. CASE i \in DOMAIN q /\ r[i] = q[i]
    BY <2>1, <1>1, <1>2, <1>3
  <2>2. CASE i = Len(q) + 1 /\ r[i] = g
    BY <2>2, <1>0, <1>1
  <2>. QED  BY <2>1, <2>2, <1>1
<1>4. ASSUME InOrder(q, s), IsBlock(g) => LeadTo(q, n, s) PROVE InOrder(r, s)
  <2>. SUFFICES ASSUME NEW i \in DOMAIN r, NEW j \in DOMAIN r, i <= j,
                       IsBlock(r[i]), IsBlock(r[j])
                PROVE  /\ r[i].seq <= r[j].seq
                       /\ r[j].seq <= r[i].seq + (j - i) + s
    BY DEF InOrder
  <2>1. CASE j = Len(q) + 1 /\ i = j
    <3>1. r[i].seq = m /\ r[j].seq = m /\ i \in Nat
      BY <2>1, <1>1
    <3>. QED  BY <3>1, <2>1, <1>0
  <2>2. CASE j = Len(q) + 1 /\ i # j
    <3>1. i \in DOMAIN q /\ r[i] = q[i] /\ r[j] = g
      BY <2>2, <1>1
    <3>. QED  BY <3>1, <2>2, <1>2, <1>4
  <2>3. CASE j # Len(q) + 1
    <3>1. i \in DOMAIN q /\ r[i] = q[i] /\ j \in DOMAIN q /\ r[j] = q[j]
      BY <2>3, <1>1
    <3>. QED  BY <3>1, <1>4 DEF InOrder
  <2>. QED  BY <2>1, <2>2, <2>3
<1>5. ASSUME BeginAt(q, last, s),
             IsBlock(g) => last <= m /\ m <= last + s + Len(q) + 1
      PROVE  BeginAt(r, last, s)
  <2>. SUFFICES ASSUME NEW i \in DOMAIN r, IsBlock(r[i])
                PROVE  last <= r[i].seq /\ r[i].seq <= last + i + s
    BY DEF BeginAt
  <2>1. CASE i \in DOMAIN q /\ r[i] = q[i]
    BY <2>1, <1>5 DEF BeginAt
  <2>2. CASE i = Len(q) + 1 /\ r[i] = g
    <3>1. last + s + Len(q) + 1 = last + i + s
      BY <2>2, <1>1
    <3>. QED  BY <3>1, <2>2, <1>5
  <2>. QED  BY <2>1, <2>2, <1>1
<1>6. ASSUME LeadTo(q, n, s) PROVE LeadTo(q, m, s + 1)
  BY <1>2, <1>6 DEF LeadTo
<1>. QED  BY <1>3, <1>4, <1>5, <1>6 DEF r

(* Names only: they lead up to number 0.                                   *)
LEMMA NamesInWindow ==
  ASSUME NEW q \in Seq(Frame), NEW s \in Nat,
         \A i \in DOMAIN q : IsBlock(q[i]) => q[i].seq = 0
  PROVE  InOrder(q, s) /\ LeadTo(q, 0, s) /\ BeginAt(q, 0, s)
<1>1. \A i \in DOMAIN q : i \in Nat /\ i <= Len(q)
  OBVIOUS
<1>2. Len(q) \in Nat
  OBVIOUS
<1>3. InOrder(q, s)
  BY <1>1 DEF InOrder
<1>4. LeadTo(q, 0, s)
  BY <1>1, <1>2 DEF LeadTo
<1>5. BeginAt(q, 0, s)
  BY <1>1 DEF BeginAt
<1>. QED  BY <1>3, <1>4, <1>5

(***************************************************************************)
(* The window of the state.                                                *)
(***************************************************************************)
LEMMA YWindowTypes ==
  ASSUME YWindowInv
  PROVE  /\ LineTypeOK /\ toRx \in Seq(Frame) /\ toTx \in Seq(Byte)
         /\ Len(toRx) \in Nat
         /\ faults \in Nat /\ blkNo \in Nat \ {0} /\ nbRetry \in Nat
         /\ expectedBlkNumber \in Nat \ {0}
         /\ rxData \in Seq(Chunk) /\ rxRam \in RamFileType
         /\ txRam \in RamFileType /\ FileSize \in Nat
         /\ rxFileData \in FileData /\ txFileData \in FileData
         /\ MaxRetry \in Nat \ {0} /\ MaxTimeout \in Nat \ {0}
<1>1. LineTypeOK /\ toRx \in Seq(Frame) /\ toTx \in Seq(Byte)
      /\ faults \in 0 .. MaxFaults
  BY DEF YWindowInv, YTypeOK, TypeOK, LineTypeOK
<1>2. /\ blkNo \in Nat \ {0} /\ nbRetry \in Nat
      /\ expectedBlkNumber \in Nat \ {0}
      /\ rxData \in Seq(Chunk) /\ rxRam \in RamFileType
      /\ txRam \in RamFileType
  BY LModemAssumption DEF YWindowInv, YTypeOK, TypeOK, RxTypeOK, TxTypeOK
<1>3. rxFileData \in FileData /\ txFileData \in FileData
  BY DEF YWindowInv, YTypeOK, RyTypeOK, TyTypeOK
<1>4. FileSize \in Nat
  BY <1>2 DEF FileSize, RamFileType
<1>. QED  BY <1>1, <1>2, <1>3, <1>4, LineAssumption, LModemAssumption

(* Before data are sent there are only names.                              *)
LEMMA NamesKeepWindow ==
  ASSUME toRx' \in Seq(Frame), faults' \in Nat, nbRetry' \in Nat,
         txpc' # "reply", expectedBlkNumber' = 1, rxData' = <<>>,
         \A i \in DOMAIN toRx' : IsBlock(toRx'[i]) => toRx'[i].seq = 0
  PROVE  BlocksInWindow'
<1>1. InOrder(toRx', faults') /\ BeginAt(toRx', 0, nbRetry' + faults')
  BY NamesInWindow
<1>. QED  BY <1>1 DEF BlocksInWindow, InOrder, BeginAt

(* While the frames stay, both sides may go on waiting.                    *)
LEMMA WaitKeepsWindow ==
  ASSUME YWindowInv, BlocksInWindow, toRx' = toRx,
         faults' \in {faults, faults + 1},
         txpc' \in {txpc, "done"}, txpc' = "reply" => blkNo' = blkNo,
         txRam'.read_offset = txRam.read_offset,
         nbRetry' \in {nbRetry, nbRetry + 1},
         UNCHANGED <<expectedBlkNumber, rxData>>
  PROVE  BlocksInWindow'
<1>. DEFINE last == expectedBlkNumber - 1
<1>1. /\ toRx \in Seq(Frame) /\ Len(toRx) \in Nat /\ faults \in Nat
      /\ blkNo \in Nat /\ nbRetry \in Nat /\ last \in Nat
  BY YWindowTypes
<1>2. /\ faults' \in Nat /\ faults <= faults'
      /\ nbRetry' \in Nat /\ nbRetry <= nbRetry'
      /\ nbRetry + faults \in Nat /\ nbRetry' + faults' \in Nat
      /\ nbRetry + faults <= nbRetry' + faults'
  <2>. DEFINE fl == faults'
              nr == nbRetry'
  <2>1. fl \in Nat /\ faults <= fl
    BY <1>1
  <2>2. nr \in Nat /\ nbRetry <= nr
    BY <1>1
  <2>. HIDE DEF fl, nr
  <2>3. /\ nbRetry + faults \in Nat /\ nr + fl \in Nat
        /\ nbRetry + faults <= nr + fl
    BY <1>1, <2>1, <2>2
  <2>. QED  BY <2>1, <2>2, <2>3 DEF fl, nr
<1>3. InOrder(toRx, faults') /\ BeginAt(toRx, last, nbRetry' + faults')
  <2>1. InOrder(toRx, faults) /\ BeginAt(toRx, last, nbRetry + faults)
    BY DEF BlocksInWindow
  <2>. HIDE DEF last
  <2>. QED  BY <1>1, <1>2, <2>1, MoreSlack
<1>4. txpc' = "reply" =>
        /\ LeadTo(toRx, blkNo, faults')
        /\ last <= blkNo /\ blkNo <= last + nbRetry' + Len(toRx) + faults'
  <2>. SUFFICES ASSUME txpc' = "reply"
                PROVE  /\ LeadTo(toRx, blkNo, faults')
                       /\ last <= blkNo
                       /\ blkNo <= last + nbRetry' + Len(toRx) + faults'
    OBVIOUS
  <2>1. /\ LeadTo(toRx, blkNo, faults)
        /\ last <= blkNo /\ blkNo <= last + nbRetry + Len(toRx) + faults
    BY DEF BlocksInWindow
  <2>. HIDE DEF last
  <2>2. LeadTo(toRx, blkNo, faults')
    BY <1>1, <1>2, <2>1, MoreSlack
  <2>. QED  BY <1>1, <1>2, <2>1, <2>2
<1>. QED  BY <1>3, <1>4 DEF BlocksInWindow, DataSent, InOrder, LeadTo, BeginAt

(* Reading a frame without storing it is one more error of the receiver's. *)
LEMMA ReadKeepsWindow ==
  ASSUME YWindowInv, BlocksInWindow, toRx # <<>>, toRx' = Tail(toRx),
         faults' \in {faults, faults + 1}, nbRetry' = nbRetry + 1,
         UNCHANGED txVars, UNCHANGED <<expectedBlkNumber, rxData>>
  PROVE  BlocksInWindow'
<1>. DEFINE last == expectedBlkNumber - 1
<1>1. /\ toRx \in Seq(Frame) /\ Len(toRx) \in Nat /\ faults \in Nat
      /\ blkNo \in Nat /\ nbRetry \in Nat /\ last \in Nat
  BY YWindowTypes
<1>2. /\ faults' \in Nat /\ faults <= faults' /\ nbRetry + faults \in Nat
      /\ nbRetry' + faults' \in Nat
      /\ (nbRetry + faults) + 1 \in Nat
      /\ (nbRetry + faults) + 1 <= nbRetry' + faults'
  <2>. DEFINE fl == faults'
              nr == nbRetry'
  <2>1. fl \in Nat /\ faults <= fl
    BY <1>1
  <2>2. nr \in Nat /\ nr = nbRetry + 1
    BY <1>1
  <2>. HIDE DEF fl, nr
  <2>3. /\ nbRetry + faults \in Nat /\ nr + fl \in Nat
        /\ (nbRetry + faults) + 1 \in Nat
        /\ (nbRetry + faults) + 1 <= nr + fl
    BY <1>1, <2>1, <2>2
  <2>. QED  BY <2>1, <2>3 DEF fl, nr
<1>3. /\ Tail(toRx) \in Seq(Frame) /\ Len(Tail(toRx)) = Len(toRx) - 1
      /\ \A i \in DOMAIN Tail(toRx) :
           i + 1 \in DOMAIN toRx /\ Tail(toRx)[i] = toRx[i + 1]
  BY <1>1, TailFrames
<1>4. InOrder(toRx', faults') /\ BeginAt(toRx', last, nbRetry' + faults')
  <2>1. InOrder(toRx, faults) /\ BeginAt(toRx, last, nbRetry + faults)
    BY DEF BlocksInWindow
  <2>. HIDE DEF last
  <2>2. /\ InOrder(Tail(toRx), faults)
        /\ BeginAt(Tail(toRx), last, (nbRetry + faults) + 1)
    BY <1>1, <1>2, <2>1, WindowBehindFirst
  <2>3. InOrder(Tail(toRx), faults')
    BY <1>1, <1>2, <1>3, <2>2, MoreSlack
  <2>4. BeginAt(Tail(toRx), last, nbRetry' + faults')
    BY <1>1, <1>2, <1>3, <2>2, MoreSlack
  <2>. QED  BY <2>3, <2>4
<1>5. txpc = "reply" =>
        /\ LeadTo(toRx', blkNo, faults')
        /\ last <= blkNo /\ blkNo <= last + nbRetry' + Len(toRx') + faults'
  <2>. SUFFICES ASSUME txpc = "reply"
                PROVE  /\ LeadTo(toRx', blkNo, faults')
                       /\ last <= blkNo
                       /\ blkNo <= last + nbRetry' + Len(toRx') + faults'
    OBVIOUS
  <2>1. /\ LeadTo(toRx, blkNo, faults)
        /\ last <= blkNo /\ blkNo <= last + nbRetry + Len(toRx) + faults
    BY DEF BlocksInWindow
  <2>. HIDE DEF last
  <2>2. LeadTo(Tail(toRx), blkNo, faults)
    BY <1>1, <2>1, WindowBehindFirst
  <2>3. LeadTo(Tail(toRx), blkNo, faults')
    BY <1>1, <1>2, <1>3, <2>2, MoreSlack
  <2>. QED  BY <1>1, <1>2, <1>3, <2>1, <2>3
<1>6. ~DataSent =>
        /\ last = 0
        /\ \A i \in DOMAIN toRx' : IsBlock(toRx'[i]) => toRx'[i].seq = 0
  BY <1>3 DEF BlocksInWindow
<1>7. /\ txpc' = txpc /\ blkNo' = blkNo /\ DataSent' = DataSent
      /\ Len(rxData) = last
  BY DEF txVars, DataSent, BlocksInWindow
<1>. QED  BY <1>4, <1>5, <1>6, <1>7
          DEF BlocksInWindow, InOrder, LeadTo, BeginAt

(* A character nobody sent finds room in the window: it costs a fault.     *)
LEMMA NoiseKeepsWindow ==
  ASSUME YWindowInv, BlocksInWindow, NEW g \in Frame, ~IsBlock(g),
         toRx' = Append(toRx, g), faults' = faults + 1,
         UNCHANGED <<rxVars, txVars>>
  PROVE  BlocksInWindow'
<1>. DEFINE last == expectedBlkNumber - 1
            r == Append(toRx, g)
<1>1. /\ toRx \in Seq(Frame) /\ Len(toRx) \in Nat /\ faults \in Nat
      /\ blkNo \in Nat /\ nbRetry \in Nat /\ last \in Nat
      /\ nbRetry + faults \in Nat /\ faults + 1 \in Nat
      /\ nbRetry + faults + 1 \in Nat
  BY YWindowTypes
<1>2. /\ r \in Seq(Frame) /\ Len(r) = Len(toRx) + 1
      /\ \A i \in DOMAIN r :
           (i \in DOMAIN toRx /\ r[i] = toRx[i]) \/ r[i] = g
  BY <1>1, AppendedFrames
<1>. HIDE DEF r
<1>3. InOrder(r, faults + 1) /\ BeginAt(r, last, nbRetry + faults + 1)
  <2>1. InOrder(toRx, faults) /\ BeginAt(toRx, last, nbRetry + faults)
    BY DEF BlocksInWindow
  <2>. HIDE DEF last
  <2>2. InOrder(r, faults) /\ BeginAt(r, last, nbRetry + faults)
    BY <1>1, <2>1, WindowWithOneMore DEF r
  <2>. QED  BY <1>1, <1>2, <2>2, MoreSlack
<1>4. txpc = "reply" =>
        /\ LeadTo(r, blkNo, faults + 1)
        /\ last <= blkNo /\ blkNo <= last + nbRetry + Len(r) + (faults + 1)
  <2>. SUFFICES ASSUME txpc = "reply"
                PROVE  /\ LeadTo(r, blkNo, faults + 1)
                       /\ last <= blkNo
                       /\ blkNo <= last + nbRetry + Len(r) + (faults + 1)
    OBVIOUS
  <2>1. /\ LeadTo(toRx, blkNo, faults)
        /\ last <= blkNo /\ blkNo <= last + nbRetry + Len(toRx) + faults
    BY DEF BlocksInWindow
  <2>. HIDE DEF last
  <2>2. LeadTo(r, blkNo, faults)
    BY <1>1, <2>1, WindowWithOneMore DEF r
  <2>3. LeadTo(r, blkNo, faults + 1)
    BY <1>1, <1>2, <2>2, MoreSlack
  <2>. QED  BY <1>1, <1>2, <2>1, <2>3
<1>5. ~DataSent =>
        /\ last = 0
        /\ \A i \in DOMAIN r : IsBlock(r[i]) => r[i].seq = 0
  BY <1>2 DEF BlocksInWindow
<1>6. /\ txpc' = txpc /\ blkNo' = blkNo /\ DataSent' = DataSent
      /\ expectedBlkNumber' = expectedBlkNumber /\ nbRetry' = nbRetry
      /\ rxData' = rxData /\ Len(rxData) = last /\ toRx' = r
      /\ nbRetry + (faults + 1) = nbRetry + faults + 1
  BY <1>1 DEF txVars, rxVars, DataSent, BlocksInWindow, r
<1>. QED  BY <1>3, <1>4, <1>5, <1>6
          DEF BlocksInWindow, InOrder, LeadTo, BeginAt

(* A frame with the emitter's number, or with the next, stays in the       *)
(* window; so does the window when the frame is lost.                      *)
LEMMA SendKeepsWindow ==
  ASSUME YWindowInv, BlocksInWindow, UNCHANGED rxVars,
         NEW f \in Frame, PutFrame(f), f.seq = blkNo',
         \/ txpc = "preambule" /\ blkNo' = 1
         \/ txpc = "reply" /\ blkNo' \in {blkNo, blkNo + 1},
         txpc' = "reply", ~DataSent' => ~DataSent /\ ~IsBlock(f)
  PROVE  BlocksInWindow'
<1>. DEFINE last == expectedBlkNumber - 1
            n == IF txpc = "reply" THEN blkNo ELSE 0
            m == blkNo'
            fl == faults'
            w == nbRetry + faults
<1>1. /\ LineTypeOK /\ toRx \in Seq(Frame) /\ Len(toRx) \in Nat
      /\ faults \in Nat /\ nbRetry \in Nat /\ last \in Nat
      /\ n \in Nat /\ m \in {n, n + 1} /\ m \in Nat /\ w \in Nat
  BY YWindowTypes
<1>2. txpc = "preambule" => ~DataSent
  BY DEF YWindowInv, YEmitterAtBlkNo
<1>3. /\ InOrder(toRx, faults) /\ BeginAt(toRx, last, w)
      /\ LeadTo(toRx, n, faults)
      /\ last <= n /\ n <= last + w + Len(toRx)
  <2>1. InOrder(toRx, faults) /\ BeginAt(toRx, last, w)
    BY DEF BlocksInWindow
  <2>2. CASE txpc = "reply"
    <3>1. /\ LeadTo(toRx, blkNo, faults)
          /\ last <= blkNo /\ blkNo <= last + nbRetry + Len(toRx) + faults
      BY <2>2 DEF BlocksInWindow
    <3>2. blkNo <= last + (nbRetry + faults) + Len(toRx)
      <4>. HIDE DEF last
      <4>. QED  BY <3>1, <1>1, YWindowTypes
    <3>. QED  BY <2>1, <2>2, <3>1, <3>2
  <2>3. CASE txpc = "preambule"
    <3>1. /\ last = 0
          /\ \A i \in DOMAIN toRx : IsBlock(toRx[i]) => toRx[i].seq = 0
      BY <1>2, <2>3 DEF BlocksInWindow
    <3>2. LeadTo(toRx, 0, faults)
      BY <3>1, <1>1, NamesInWindow
    <3>3. n = 0
      BY <2>3
    <3>. HIDE DEF last, n, w
    <3>. QED  BY <2>1, <3>1, <3>2, <3>3, <1>1
  <2>. QED  BY <2>2, <2>3
<1>4. \/ toRx' = toRx /\ fl = faults + 1
      \/ /\ fl \in {faults, faults + 1}
         /\ \E g \in Frame :
              toRx' = Append(toRx, g) /\ (IsBlock(g) => IsBlock(f) /\ g.seq = m)
  BY <1>1, PutFrameEffect
<1>5. /\ rxData' = rxData /\ expectedBlkNumber' = expectedBlkNumber
      /\ nbRetry' = nbRetry /\ Len(rxData) = last
  BY DEF rxVars, BlocksInWindow
<1>6. \/ \E g \in Frame :
           toRx' = Append(toRx, g) /\ (IsBlock(g) => IsBlock(f))
      \/ toRx' = toRx
  BY <1>4
<1>7. ~DataSent' =>
        /\ last = 0
        /\ \A i \in DOMAIN toRx' : IsBlock(toRx'[i]) => toRx'[i].seq = 0
  <2>. SUFFICES ASSUME ~DataSent'
                PROVE  /\ last = 0
                       /\ \A i \in DOMAIN toRx' :
                            IsBlock(toRx'[i]) => toRx'[i].seq = 0
    OBVIOUS
  <2>1. /\ ~IsBlock(f) /\ last = 0
        /\ \A i \in DOMAIN toRx : IsBlock(toRx[i]) => toRx[i].seq = 0
    BY DEF BlocksInWindow
  <2>2. CASE toRx' = toRx
    BY <2>1, <2>2
  <2>3. ASSUME NEW g \in Frame, toRx' = Append(toRx, g), ~IsBlock(g)
        PROVE  \A i \in DOMAIN toRx' : IsBlock(toRx'[i]) => toRx'[i].seq = 0
    BY <2>1, <2>3, <1>1, AppendedFrames
  <2>. QED  BY <2>1, <2>2, <2>3, <1>6
<1>8. /\ InOrder(toRx', fl) /\ BeginAt(toRx', last, nbRetry + fl)
      /\ LeadTo(toRx', m, fl)
      /\ last <= m /\ m <= last + nbRetry + Len(toRx') + fl
  <2>. HIDE DEF last, n, m, fl
  <2>1. CASE toRx' = toRx /\ fl = faults + 1
    <3>1. /\ fl \in Nat /\ faults <= fl
          /\ nbRetry + fl \in Nat /\ w <= nbRetry + fl
      BY <2>1, <1>1
    <3>2. InOrder(toRx, fl) /\ BeginAt(toRx, last, nbRetry + fl)
      <4>. HIDE DEF w
      <4>. QED  BY <1>1, <1>3, <3>1, MoreSlack
    <3>3. LeadTo(toRx, m, faults + 1)
      <4>1. PICK g \in Frame : ~IsBlock(g)
        <5>1. f \in Frame
          OBVIOUS
        <5>2. CASE IsBlock(f)
          <6>1. [f EXCEPT !.hdr = CAN] \in Frame
            BY <5>1 DEF Frame, CAN, Byte
          <6>2. ~IsBlock([f EXCEPT !.hdr = CAN])
            BY <5>1 DEF Frame, CAN, IsBlock, SOH, STX
          <6>. QED  BY <6>1, <6>2
        <5>3. CASE ~IsBlock(f)
          BY <5>3
        <5>. QED  BY <5>2, <5>3
      <4>. QED  BY <1>1, <1>3, <4>1, WindowWithOneMore
    <3>4. last <= m /\ m <= last + nbRetry + Len(toRx) + fl
      BY <1>1, <1>3, <2>1 DEF w
    <3>. QED  BY <2>1, <3>2, <3>3, <3>4
  <2>2. ASSUME NEW g \in Frame, fl \in {faults, faults + 1},
               toRx' = Append(toRx, g), IsBlock(g) => g.seq = m
        PROVE  /\ InOrder(toRx', fl) /\ BeginAt(toRx', last, nbRetry + fl)
               /\ LeadTo(toRx', m, fl)
               /\ last <= m /\ m <= last + nbRetry + Len(toRx') + fl
    <3>1. /\ fl \in Nat /\ faults <= fl
          /\ nbRetry + fl \in Nat /\ w <= nbRetry + fl
      BY <2>2, <1>1
    <3>2. /\ Append(toRx, g) \in Seq(Frame)
          /\ Len(Append(toRx, g)) = Len(toRx) + 1
      BY <1>1, AppendedFrames
    <3>3. last <= m /\ m <= last + w + Len(toRx) + 1
      <4>. HIDE DEF w
      <4>. QED  BY <1>1, <1>3
    <3>4. /\ InOrder(Append(toRx, g), faults)
          /\ BeginAt(Append(toRx, g), last, w)
          /\ LeadTo(Append(toRx, g), m, faults)
      <4>. HIDE DEF w
      <4>1. LeadTo(Append(toRx, g), m, faults)
        BY <1>1, <1>3, <2>2, WindowWithOneMore
      <4>2. InOrder(Append(toRx, g), faults)
        BY <1>1, <1>3, <2>2, WindowWithOneMore
      <4>3. BeginAt(Append(toRx, g), last, w)
        BY <1>1, <1>3, <2>2, <3>3, WindowWithOneMore
      <4>. QED  BY <4>1, <4>2, <4>3
    <3>5. /\ InOrder(Append(toRx, g), fl)
          /\ BeginAt(Append(toRx, g), last, nbRetry + fl)
          /\ LeadTo(Append(toRx, g), m, fl)
      <4>. HIDE DEF w
      <4>1. InOrder(Append(toRx, g), fl) /\ LeadTo(Append(toRx, g), m, fl)
        BY <1>1, <3>1, <3>2, <3>4, MoreSlack
      <4>2. BeginAt(Append(toRx, g), last, nbRetry + fl)
        BY <1>1, <3>1, <3>2, <3>4, MoreSlack
      <4>. QED  BY <4>1, <4>2
    <3>6. m <= last + nbRetry + (Len(toRx) + 1) + fl
      BY <1>1, <3>1, <3>3 DEF w
    <3>. QED  BY <2>2, <3>2, <3>3, <3>5, <3>6
  <2>. QED  BY <2>1, <2>2, <1>4
<1>. QED  BY <1>5, <1>7, <1>8
          DEF BlocksInWindow, InOrder, LeadTo, BeginAt

(* A block is stored: the window moves up by one.                          *)
LEMMA StoreKeepsWindow ==
  ASSUME YWindowInv, BlocksInWindow, UNCHANGED txVars,
         toRx # <<>>, toRx' = Tail(toRx), faults' \in {faults, faults + 1},
         IsBlock(Head(toRx)), Head(toRx).seq = expectedBlkNumber,
         expectedBlkNumber' = expectedBlkNumber + 1, nbRetry' = 0,
         NEW c \in Chunk, rxData' = Append(rxData, c)
  PROVE  BlocksInWindow'
<1>. DEFINE e == expectedBlkNumber
            r == Tail(toRx)
            fl == faults'
<1>1. /\ toRx \in Seq(Frame) /\ Len(toRx) \in Nat /\ faults \in Nat
      /\ blkNo \in Nat /\ e \in Nat \ {0} /\ rxData \in Seq(Chunk)
      /\ fl \in Nat /\ faults <= fl
  BY YWindowTypes
<1>2. /\ r \in Seq(Frame) /\ Len(r) = Len(toRx) - 1
      /\ 1 \in DOMAIN toRx /\ IsBlock(toRx[1]) /\ toRx[1].seq = e
  BY <1>1, TailFrames
<1>. HIDE DEF r
<1>3. DataSent
  <2>1. ~DataSent => toRx[1].seq = 0
    BY <1>2 DEF BlocksInWindow
  <2>. QED  BY <2>1, <1>1, <1>2
<1>4. InOrder(r, fl) /\ BeginAt(r, e, fl)
  <2>1. InOrder(toRx, faults)
    BY DEF BlocksInWindow
  <2>. HIDE DEF e, fl
  <2>2. InOrder(r, faults) /\ BeginAt(r, e, faults)
    <3>1. Head(toRx).seq = e
      BY DEF e
    <3>. QED  BY <1>1, <2>1, <3>1, WindowBehindFirst DEF r
  <2>. QED  BY <1>1, <1>2, <2>2, MoreSlack
<1>5. txpc = "reply" =>
        /\ LeadTo(r, blkNo, fl)
        /\ e <= blkNo /\ blkNo <= e + 0 + Len(r) + fl
  <2>. SUFFICES ASSUME txpc = "reply"
                PROVE  /\ LeadTo(r, blkNo, fl)
                       /\ e <= blkNo /\ blkNo <= e + 0 + Len(r) + fl
    OBVIOUS
  <2>1. LeadTo(toRx, blkNo, faults)
    BY DEF BlocksInWindow
  <2>. HIDE DEF e, fl
  <2>2. LeadTo(r, blkNo, faults)
    BY <1>1, <2>1, WindowBehindFirst DEF r
  <2>3. LeadTo(r, blkNo, fl)
    BY <1>1, <1>2, <2>2, MoreSlack
  <2>4. e <= blkNo /\ blkNo <= e + (Len(toRx) - 1) + faults
    BY <1>2, <2>1 DEF LeadTo
  <2>. QED  BY <1>1, <1>2, <2>3, <2>4
<1>6. Len(rxData') = e
  <2>1. Len(rxData) = e - 1
    BY DEF BlocksInWindow
  <2>. QED  BY <1>1, <2>1
<1>7. /\ txpc' = txpc /\ blkNo' = blkNo /\ DataSent' = DataSent
      /\ toRx' = r
  BY DEF txVars, DataSent, r
<1>8. expectedBlkNumber' - 1 = e
  <2>1. (expectedBlkNumber + 1) - 1 = expectedBlkNumber
    BY <1>1
  <2>. QED  BY <2>1
<1>9. 0 + fl = fl
  <2>1. fl \in Nat
    BY <1>1
  <2>. HIDE DEF fl
  <2>. QED  BY <2>1
<1>. HIDE DEF e
<1>. QED  BY <1>8, <1>9, <1>3, <1>4, <1>5, <1>6, <1>7
          DEF BlocksInWindow, InOrder, LeadTo, BeginAt

(* The block found right is the next of the file.                          *)
LEMMA YAcceptedIsNext ==
  ASSUME YWindowInv, BlocksInWindow, BlockArrived,
         RxStatus(Head(toRx)) = "OK"
  PROVE  /\ Head(toRx).seq = expectedBlkNumber
         /\ ChunkIn(Head(toRx)) = BlockOf(expectedBlkNumber)
<1>. DEFINE f == Head(toRx)
            last == expectedBlkNumber - 1
<1>1. /\ toRx \in Seq(Frame) /\ toRx # <<>> /\ rxpc = "header" /\ IsBlock(f)
      /\ faults \in Nat /\ nbRetry \in Nat
      /\ expectedBlkNumber \in Nat \ {0}
  BY YWindowTypes DEF BlockArrived, Reading, IsBlock
<1>2. 1 \in DOMAIN toRx /\ f = toRx[1] /\ f.seq \in Nat
  BY <1>1, FrameTypes
<1>3. f.blk = expectedBlkNumber % BlkMod /\ f.good
  BY <1>2 DEF RxStatus, lxmodem_check_block_no_and_crc, NumberedAs
<1>4. /\ f.blk = f.seq % BlkMod
      /\ f.seq > 0 => ChunkIn(f) = BlockOf(f.seq)
  BY <1>1, <1>2, <1>3 DEF YWindowInv, BlocksHoldData
<1>5. last <= f.seq /\ f.seq <= last + 1 + (nbRetry + faults)
  BY <1>1, <1>2 DEF BlocksInWindow, BeginAt
<1>6. nbRetry < MaxRetry /\ faults <= MaxFaults
  BY <1>1 DEF YWindowInv, YReceiverRunning, YTypeOK, TypeOK, LineTypeOK
<1>7. f.seq = expectedBlkNumber
  <2>. DEFINE a == f.seq
              b == expectedBlkNumber
  <2>1. /\ a \in Nat /\ b \in Nat \ {0}
        /\ b - 1 <= a /\ a <= (b - 1) + 1 + (nbRetry + faults)
    BY <1>1, <1>2, <1>5
  <2>2. a % BlkMod = b % BlkMod
    BY <1>3, <1>4
  <2>. HIDE DEF a, b
  <2>3. BlkMod \in Nat \ {0} /\ BlkMod > 1 /\ MaxRetry \in Nat /\ MaxFaults \in Nat
    BY LModemAssumption, LineAssumption
  <2>4. a - b < BlkMod /\ b - a < BlkMod
    BY <2>1, <2>3, <1>1, <1>6, WindowAssumption
  <2>5. a \in Int /\ b \in Int
    BY <2>1
  <2>6. a = b
    BY <2>2, <2>3, <2>4, <2>5, SameByte, Zenon
  <2>. QED  BY <2>6 DEF a, b
<1>. QED  BY <1>1, <1>4, <1>7

(***************************************************************************)
(* The calls of the receiver.                                              *)
(***************************************************************************)
LEMMA TailChars ==
  ASSUME NEW q \in Seq(Byte), q # <<>>
  PROVE  /\ Head(q) \in Byte /\ Head(q) = q[1] /\ 1 \in DOMAIN q
         /\ Tail(q) \in Seq(Byte)
         /\ \A j \in DOMAIN Tail(q) :
              /\ j \in Nat \ {0} /\ j + 1 \in DOMAIN q
              /\ Tail(q)[j] = q[j + 1]
OBVIOUS

LEMMA JoinedChars ==
  ASSUME NEW q \in Seq(Byte), NEW r \in Seq(Byte)
  PROVE  /\ q \o r \in Seq(Byte)
         /\ \A j \in DOMAIN (q \o r) :
              /\ j \in Nat \ {0}
              /\ \/ j \in DOMAIN q /\ (q \o r)[j] = q[j]
                 \/ /\ j - Len(q) \in DOMAIN r
                    /\ (q \o r)[j] = r[j - Len(q)]
         /\ \A j \in DOMAIN q : (q \o r)[j] = q[j]
OBVIOUS

(* No call is left behind a character that is answered as one.             *)
LEMMA CallAnswered ==
  ASSUME YWindowInv, CallsInOrder, toTx # <<>>,
         Head(toTx) \in {CHR_C, NAK}
  PROVE  \A j \in DOMAIN Tail(toTx) : Tail(toTx)[j] # CHR_C
<1>. SUFFICES ASSUME NEW j \in DOMAIN Tail(toTx), Tail(toTx)[j] = CHR_C
              PROVE  FALSE
  OBVIOUS
<1>1. toTx \in Seq(Byte)
  BY YWindowTypes
<1>2. /\ j \in Nat \ {0} /\ j + 1 \in DOMAIN toTx /\ toTx[j + 1] = CHR_C
      /\ Head(toTx) = toTx[1]
  BY <1>1, TailChars
<1>3. 1 \in 1 .. (j + 1) - 1
  BY <1>2
<1>. QED  BY <1>2, <1>3 DEF CallsInOrder

(* The emitter takes characters off the line; what it has sent and what it *)
(* waits for stays in step with the calls that are left.                   *)
LEMMA EmitterKeepsCalls ==
  ASSUME YWindowInv, CallsInOrder, UNCHANGED rxVars, UNCHANGED ryVars,
         toTx' = toTx \/ (toTx # <<>> /\ toTx' = Tail(toTx)),
         DataSent' => tyPhase' \in {"contents", "next", "done"},
         \/ (DataSent' => DataSent) /\ (txpc' = "reply" => txpc = "reply")
         \/ rxpc # "idle" /\ \A j \in DOMAIN toTx' : toTx'[j] # CHR_C,
         \/ tyPhase \notin {"call", "done"}
         \/ ryPhase # "start" /\ \A j \in DOMAIN toTx' : toTx'[j] # CHR_C
         \/ /\ tyPhase' \in {"call", "done"}
            /\ (\A i \in DOMAIN toRx : ~IsBlock(toRx[i])) =>
                 \A i \in DOMAIN toRx' : ~IsBlock(toRx'[i])
  PROVE  CallsInOrder'
<1>. DEFINE q == toTx'
<1>1. toTx \in Seq(Byte)
  BY YWindowTypes
<1>2. /\ rxpc' = rxpc /\ ryPhase' = ryPhase
      /\ toTx = <<>> => q = <<>>
  BY DEF rxVars, ryVars
<1>3. ASSUME NEW j \in DOMAIN q
      PROVE  /\ j \in Nat
             /\ \E k \in DOMAIN toTx :
                  /\ q[j] = toTx[k]
                  /\ \A i \in 1 .. j - 1 :
                       \E h \in 1 .. k - 1 : q[i] = toTx[h]
  <2>1. CASE q = toTx
    <3>1. j \in DOMAIN toTx /\ q[j] = toTx[j]
      BY <2>1
    <3>2. j \in Nat
      BY <3>1, <1>1
    <3>. HIDE DEF q
    <3>. QED  BY <2>1, <3>1, <3>2
  <2>2. CASE toTx # <<>> /\ q = Tail(toTx)
    <3>1. /\ j \in Nat /\ j + 1 \in DOMAIN toTx
          /\ q[j] = toTx[j + 1]
      BY <1>1, <2>2, TailChars
    <3>2. ASSUME NEW i \in 1 .. j - 1
          PROVE  \E h \in 1 .. (j + 1) - 1 : q[i] = toTx[h]
      <4>1. i \in DOMAIN q /\ i + 1 \in 1 .. (j + 1) - 1
        BY <1>1, <2>2, <3>1
      <4>2. q[i] = toTx[i + 1]
        BY <4>1, <1>1, <2>2, TailChars
      <4>. QED  BY <4>1, <4>2
    <3>. HIDE DEF q
    <3>. QED  BY <3>1, <3>2
  <2>. QED  BY <2>1, <2>2
<1>4. ASSUME NEW j \in DOMAIN q, q[j] = CHR_C
      PROVE  \E k \in DOMAIN toTx :
               /\ toTx[k] = CHR_C
               /\ ~DataSent /\ txpc # "reply"
               /\ \A i \in 1 .. j - 1 : q[i] \notin {CHR_C, NAK}
  <2>. HIDE DEF q
  <2>1. PICK k \in DOMAIN toTx :
          /\ q[j] = toTx[k]
          /\ \A i \in 1 .. j - 1 : \E h \in 1 .. k - 1 : q[i] = toTx[h]
    BY <1>3
  <2>2. /\ toTx[k] = CHR_C /\ ~DataSent /\ txpc # "reply"
        /\ \A h \in 1 .. k - 1 : toTx[h] \notin {CHR_C, NAK}
    BY <1>4, <2>1 DEF CallsInOrder
  <2>3. \A i \in 1 .. j - 1 : q[i] \notin {CHR_C, NAK}
    BY <2>1, <2>2
  <2>. QED  BY <2>2, <2>3
<1>5. \A j \in DOMAIN q : q[j] = CHR_C =>
        /\ ~DataSent' /\ txpc' # "reply"
        /\ \A i \in 1 .. j - 1 : q[i] \notin {CHR_C, NAK}
  <2>. SUFFICES ASSUME NEW j \in DOMAIN q, q[j] = CHR_C
                PROVE  /\ ~DataSent' /\ txpc' # "reply"
                       /\ \A i \in 1 .. j - 1 : q[i] \notin {CHR_C, NAK}
    OBVIOUS
  <2>1. /\ ~DataSent /\ txpc # "reply"
        /\ \A i \in 1 .. j - 1 : q[i] \notin {CHR_C, NAK}
    BY <1>4
  <2>2. (DataSent' => DataSent) /\ (txpc' = "reply" => txpc = "reply")
    OBVIOUS
  <2>. HIDE DEF q
  <2>. QED  BY <2>1, <2>2
<1>6. ASSUME rxpc = "idle"
      PROVE  /\ ~DataSent' /\ txpc' # "reply"
             /\ \A j \in DOMAIN q : q[j] # NAK
             /\ ryPhase = "start" => q = <<>>
             /\ ryPhase = "contents" => \A j \in DOMAIN q : q[j] # CHR_C
             /\ ryPhase = "start" \/ (\E j \in DOMAIN q : q[j] = CHR_C) =>
                  /\ tyPhase' \in {"call", "done"}
                  /\ \A i \in DOMAIN toRx' : ~IsBlock(toRx'[i])
  <2>1. /\ ~DataSent /\ txpc # "reply"
        /\ \A j \in DOMAIN toTx : toTx[j] # NAK
        /\ ryPhase = "start" => toTx = <<>>
        /\ ryPhase = "contents" => \A j \in DOMAIN toTx : toTx[j] # CHR_C
        /\ ryPhase = "start" \/ (\E j \in DOMAIN toTx : toTx[j] = CHR_C) =>
             /\ tyPhase \in {"call", "done"}
             /\ \A i \in DOMAIN toRx : ~IsBlock(toRx[i])
    BY <1>6 DEF CallsInOrder
  <2>2. ~DataSent' /\ txpc' # "reply"
    BY <1>6, <2>1
  <2>3. \A j \in DOMAIN q : \E k \in DOMAIN toTx : q[j] = toTx[k]
    BY <1>3
  <2>4. ASSUME ryPhase = "start" \/ \E j \in DOMAIN q : q[j] = CHR_C
        PROVE  /\ tyPhase' \in {"call", "done"}
               /\ \A i \in DOMAIN toRx' : ~IsBlock(toRx'[i])
    <3>. HIDE DEF q
    <3>1. ryPhase = "start" \/ \E j \in DOMAIN toTx : toTx[j] = CHR_C
      BY <2>3, <2>4
    <3>. USE DEF q
    <3>. QED  BY <3>1, <2>1, <2>4
  <2>. HIDE DEF q
  <2>. QED  BY <1>2, <2>1, <2>2, <2>3, <2>4
<1>. QED  BY <1>2, <1>5, <1>6 DEF CallsInOrder

(* In its loop lxmodem_receive sends replies, and no call.                 *)
LEMMA RepliesKeepCalls ==
  ASSUME YWindowInv, CallsInOrder, rxpc' # "idle",
         UNCHANGED txVars, UNCHANGED tyVars,
         NEW r \in Seq(Byte), toTx' = toTx \o r,
         \A i \in DOMAIN r : r[i] # CHR_C
  PROVE  CallsInOrder'
<1>1. toTx \in Seq(Byte)
  BY YWindowTypes
<1>2. \A j \in DOMAIN toTx' :
        \/ j \in DOMAIN toTx /\ toTx'[j] = toTx[j]
        \/ toTx'[j] # CHR_C
  BY <1>1, JoinedChars
<1>3. \A j \in DOMAIN toTx : \A i \in 1 .. j - 1 : toTx'[i] = toTx[i]
  <2>. SUFFICES ASSUME NEW j \in DOMAIN toTx, NEW i \in 1 .. j - 1
                PROVE  toTx'[i] = toTx[i]
    OBVIOUS
  <2>1. i \in DOMAIN toTx
    BY <1>1
  <2>. QED  BY <1>1, <2>1, JoinedChars
<1>4. (DataSent' <=> DataSent) /\ txpc' = txpc /\ tyPhase' = tyPhase
  BY DEF txVars, tyVars, DataSent
<1>. QED  BY <1>2, <1>3, <1>4 DEF CallsInOrder

(***************************************************************************)
(* The frames that hold data, and the parts of the other side.             *)
(***************************************************************************)
(* A frame that holds what its number says.                                *)
HoldsItsData(f) ==
  IsBlock(f) =>
    /\ f.blk = f.seq % BlkMod
    /\ f.seq > 0 /\ f.good => ChunkIn(f) = BlockOf(f.seq)

(* No new block, or a right one.                                           *)
LEMMA BlocksKept ==
  ASSUME YWindowInv, txOpts' = txOpts,
         txRam'.write_offset = txRam.write_offset,
         \A i \in DOMAIN toRx' :
           \/ ~IsBlock(toRx'[i])
           \/ HoldsItsData(toRx'[i])
           \/ \E j \in DOMAIN toRx : toRx'[i] = toRx[j]
  PROVE  BlocksHoldData'
<1>1. \A k : BlockOf(k)' = BlockOf(k)
  BY FrozenFile
<1>2. \A j \in DOMAIN toRx : HoldsItsData(toRx[j])
  BY DEF YWindowInv, BlocksHoldData, HoldsItsData
<1>3. \A i \in DOMAIN toRx' : HoldsItsData(toRx'[i])
  BY <1>2 DEF HoldsItsData
<1>. SUFFICES ASSUME NEW i \in DOMAIN toRx', IsBlock(toRx'[i])
              PROVE  /\ toRx'[i].blk = toRx'[i].seq % BlkMod
                     /\ toRx'[i].seq > 0 /\ toRx'[i].good =>
                          ChunkIn(toRx'[i]) = (BlockOf(toRx[i].seq))'
  BY DEF BlocksHoldData
<1>4. (BlockOf(toRx[i].seq))' = BlockOf(toRx'[i].seq)
  BY <1>1
<1>. QED  BY <1>3, <1>4 DEF HoldsItsData

LEMMA BlocksLeft ==
  ASSUME YWindowInv, txOpts' = txOpts,
         txRam'.write_offset = txRam.write_offset,
         toRx' = toRx \/ (toRx # <<>> /\ toRx' = Tail(toRx))
  PROVE  toRx' \in Seq(Frame) /\ BlocksHoldData'
<1>1. toRx \in Seq(Frame)
  BY YWindowTypes
<1>2. toRx' \in Seq(Frame)
  BY <1>1, TailFrames
<1>3. \A i \in DOMAIN toRx' : \E j \in DOMAIN toRx : toRx'[i] = toRx[j]
  <2>1. CASE toRx' = toRx
    BY <2>1
  <2>2. CASE toRx # <<>> /\ toRx' = Tail(toRx)
    BY <1>1, <2>2, TailFrames
  <2>. QED  BY <2>1, <2>2
<1>. QED  BY <1>2, <1>3, BlocksKept

LEMMA BlocksSent ==
  ASSUME YWindowInv, txOpts' = txOpts,
         txRam'.write_offset = txRam.write_offset,
         NEW f \in Frame, PutFrame(f), HoldsItsData(f)
  PROVE  /\ toRx' \in Seq(Frame) /\ BlocksHoldData'
         /\ faults' \in 0 .. MaxFaults /\ faults' \in {faults, faults + 1}
         /\ \A i \in DOMAIN toRx' :
              \/ i \in DOMAIN toRx /\ toRx'[i] = toRx[i]
              \/ IsBlock(toRx'[i]) => IsBlock(f) /\ toRx'[i].seq = f.seq
<1>1. LineTypeOK /\ toRx \in Seq(Frame) /\ faults \in Nat
  BY YWindowTypes
<1>2. faults' \in 0 .. MaxFaults /\ faults' \in {faults, faults + 1}
  BY <1>1, PutFrameEffect
<1>3. \/ toRx' = toRx
      \/ \E g \in Frame :
           /\ toRx' = Append(toRx, g)
           /\ g.seq = f.seq
           /\ IsBlock(g) =>
                /\ IsBlock(f) /\ g.blk = f.blk
                /\ g.good => f.good /\ ChunkIn(g) = ChunkIn(f)
  BY <1>1, PutFrameEffect
<1>4. /\ toRx' \in Seq(Frame)
      /\ \A i \in DOMAIN toRx' :
           \/ i \in DOMAIN toRx /\ toRx'[i] = toRx[i]
           \/ /\ IsBlock(toRx'[i]) => IsBlock(f) /\ toRx'[i].seq = f.seq
              /\ HoldsItsData(toRx'[i])
  <2>1. CASE toRx' = toRx
    BY <1>1, <2>1
  <2>2. ASSUME NEW g \in Frame, toRx' = Append(toRx, g), g.seq = f.seq,
               IsBlock(g) =>
                 /\ IsBlock(f) /\ g.blk = f.blk
                 /\ g.good => f.good /\ ChunkIn(g) = ChunkIn(f)
        PROVE  /\ toRx' \in Seq(Frame)
               /\ \A i \in DOMAIN toRx' :
                    \/ i \in DOMAIN toRx /\ toRx'[i] = toRx[i]
                    \/ /\ IsBlock(toRx'[i]) =>
                            IsBlock(f) /\ toRx'[i].seq = f.seq
                       /\ HoldsItsData(toRx'[i])
    <3>1. HoldsItsData(g)
      BY <2>2 DEF HoldsItsData
    <3>. QED  BY <1>1, <2>2, <3>1, AppendedFrames
  <2>. QED  BY <1>3, <2>1, <2>2
<1>5. BlocksHoldData'
  BY <1>4, BlocksKept
<1>. QED  BY <1>2, <1>4, <1>5

LEMMA ReceiverKeepsYEmitter ==
  ASSUME YWindowInv, UNCHANGED txVars, UNCHANGED tyVars
  PROVE  /\ TxTypeOK' /\ TyTypeOK' /\ YEmitterAtBlkNo' /\ YEmitterRunning'
         /\ txOpts' = txOpts /\ txRam' = txRam
<1>1. /\ txOpts' = txOpts /\ txpc' = txpc /\ blkNo' = blkNo /\ retry' = retry
      /\ timeout' = timeout /\ emittedBytes' = emittedBytes
      /\ txRam' = txRam /\ blk_buffer' = blk_buffer
      /\ tyPhase' = tyPhase /\ tyTimeout' = tyTimeout /\ tyRetry' = tyRetry
      /\ receivedChar' = receivedChar /\ tyResult' = tyResult
      /\ txFileData' = txFileData
  BY DEF txVars, tyVars
<1>2. TxTypeOK' /\ TyTypeOK'
  BY <1>1 DEF YWindowInv, YTypeOK, TypeOK, TxTypeOK, TyTypeOK
<1>3. YEmitterRunning'
  BY <1>1 DEF YWindowInv, YEmitterRunning, EmitterRunning
<1>4. YEmitterAtBlkNo'
  <2>1. FileSize' = FileSize /\ defaultBlksize' = defaultBlksize
    BY <1>1, FrozenFile
  <2>2. \A k : BlockOf(k)' = BlockOf(k)
    BY <1>1, FrozenFile
  <2>3. (BlockOf(blkNo))' = BlockOf(blkNo)
    BY <1>1, <2>2
  <2>4. YEmitterAtBlkNo
    BY DEF YWindowInv
  <2>. QED  BY <1>1, <2>1, <2>3, <2>4
            DEF YEmitterAtBlkNo, DataSent, isLastBlock
<1>. QED  BY <1>1, <1>2, <1>3, <1>4

LEMMA EmitterKeepsYReceiver ==
  ASSUME YWindowInv, UNCHANGED rxVars, UNCHANGED ryVars, txOpts' = txOpts,
         txRam'.write_offset = txRam.write_offset
  PROVE  /\ RxTypeOK' /\ RyTypeOK' /\ YReceiverRunning' /\ CopyIsPrefix'
         /\ Listening' => Listening
         /\ expectedBlkNumber' = expectedBlkNumber /\ nbRetry' = nbRetry
         /\ rxData' = rxData
<1>1. /\ rxOpts' = rxOpts /\ rxpc' = rxpc /\ nbRetry' = nbRetry
      /\ expectedBlkNumber' = expectedBlkNumber
      /\ canCharReceived' = canCharReceived
      /\ receivedBytes' = receivedBytes /\ rxRam' = rxRam /\ rxData' = rxData
      /\ ryPhase' = ryPhase /\ ryCount' = ryCount
      /\ rxFileData' = rxFileData
  BY DEF rxVars, ryVars
<1>2. RxTypeOK' /\ RyTypeOK'
  BY <1>1 DEF YWindowInv, YTypeOK, TypeOK, RxTypeOK, RyTypeOK
<1>3. YReceiverRunning'
  BY <1>1 DEF YWindowInv, YReceiverRunning
<1>4. CopyIsPrefix'
  BY <1>1, FrozenFile DEF YWindowInv, CopyIsPrefix
<1>. QED  BY <1>1, <1>2, <1>3, <1>4 DEF Listening

LEMMA YCopyKept ==
  ASSUME YWindowInv, UNCHANGED txVars, rxData' = rxData
  PROVE  CopyIsPrefix'
<1>1. txOpts' = txOpts /\ txRam' = txRam
  BY DEF txVars
<1>. QED  BY <1>1, FrozenFile DEF YWindowInv, CopyIsPrefix

(* What a step of the receiver has to keep.                                *)
LEMMA ReceiverStep ==
  ASSUME YWindowInv, UNCHANGED txVars, UNCHANGED tyVars,
         toRx' = toRx \/ (toRx # <<>> /\ toRx' = Tail(toRx)),
         toTx' \in Seq(Byte), faults' \in 0 .. MaxFaults,
         RxTypeOK', RyTypeOK', YReceiverRunning', CopyIsPrefix',
         Listening' => BlocksInWindow' /\ CallsInOrder'
  PROVE  YWindowInv'
<1>1. /\ TxTypeOK' /\ TyTypeOK' /\ YEmitterAtBlkNo' /\ YEmitterRunning'
      /\ txOpts' = txOpts /\ txRam' = txRam
  BY ReceiverKeepsYEmitter
<1>2. toRx' \in Seq(Frame) /\ BlocksHoldData'
  BY <1>1, BlocksLeft
<1>. QED  BY <1>1, <1>2 DEF YWindowInv, YTypeOK, TypeOK, LineTypeOK

(* And a step of the emitter.                                              *)
LEMMA EmitterStep ==
  ASSUME YWindowInv, UNCHANGED rxVars, UNCHANGED ryVars, txOpts' = txOpts,
         txRam'.write_offset = txRam.write_offset,
         LineTypeOK', TxTypeOK', TyTypeOK', YEmitterAtBlkNo',
         YEmitterRunning', BlocksHoldData',
         Listening => BlocksInWindow' /\ CallsInOrder'
  PROVE  YWindowInv'
<1>1. /\ RxTypeOK' /\ RyTypeOK' /\ YReceiverRunning' /\ CopyIsPrefix'
      /\ Listening' => Listening
  BY EmitterKeepsYReceiver
<1>. QED  BY <1>1 DEF YWindowInv, YTypeOK, TypeOK

(***************************************************************************)
(* The steps of lymodem_receive around lxmodem_receive.                    *)
(***************************************************************************)
LEMMA DecodedType ==
  ASSUME NEW meta \in Meta, NEW decoded \in lymodem_decode_block0(meta)
  PROVE  decoded.data \in FileData
<1>1. NoFileData \in FileData
  BY DEF NoFileData, FileData
<1>2. CASE ~meta.name
  BY <1>1, <1>2 DEF lymodem_decode_block0
<1>3. CASE meta.name /\ meta.fields > 0
  <2>. DEFINE told == {"filename"} \cup
                        {FieldOrder[i] : i \in 1 .. meta.fields}
  <2>1. meta.fields \in 1 .. 4 /\ meta.size \in Nat
    BY <1>3 DEF Meta
  <2>2. \A i \in 1 .. 4 : FieldOrder[i] \in Flags
    BY DEF FieldOrder, Flags
  <2>3. told \in SUBSET Flags
    BY <2>1, <2>2 DEF Flags
  <2>. HIDE DEF told
  <2>4. decoded.data = [valid |-> told, size |-> meta.size]
    BY <1>3 DEF lymodem_decode_block0, told
  <2>. QED  BY <2>1, <2>3, <2>4 DEF FileData
<1>4. CASE meta.name /\ ~(meta.fields > 0)
  <2>1. \/ decoded \in [ok   : BOOLEAN,
                        data : [valid : {{"filename", "filesize"}},
                                size  : StraySizes]]
        \/ decoded = [ok |-> TRUE, data |-> [valid |-> {"filename"}, size |-> 0]]
    BY <1>4 DEF lymodem_decode_block0
  <2>2. \/ decoded.data \in [valid : {{"filename", "filesize"}},
                             size  : StraySizes]
        \/ decoded.data = [valid |-> {"filename"}, size |-> 0]
    BY <2>1
  <2>. QED  BY <2>2 DEF FileData, Flags, StraySizes
<1>. QED  BY <1>2, <1>3, <1>4

(* The name block refused, or its place taken by another character, once   *)
(* more: at most MaxRetry times.                                           *)
LEMMA CountType ==
  /\ \A n \in 0 .. MaxRetry :
       n \in 0 .. (IF MaxRetry < MaxTimeout THEN MaxTimeout ELSE MaxRetry)
  /\ \A n \in 0 .. MaxTimeout :
       n \in 0 .. (IF MaxRetry < MaxTimeout THEN MaxTimeout ELSE MaxRetry)
  /\ MaxRetry \in Nat \ {0} /\ MaxTimeout \in Nat \ {0}
BY LModemAssumption

LEMMA HeadFrame ==
  ASSUME YWindowInv, toRx # <<>>
  PROVE  Head(toRx) \in Frame /\ Head(toRx).meta \in Meta
<1>1. toRx \in Seq(Frame)
  BY YWindowTypes
<1>2. Head(toRx) \in Frame
  BY <1>1, TailFrames
<1>. QED  BY <1>2 DEF Frame

(* lymodem_receive returns.                                                *)
LEMMA ReturnKeeps ==
  ASSUME YWindowInv, UNCHANGED txVars, UNCHANGED tyVars,
         NEW fileData \in FileData, RyReturn(fileData),
         toRx' = toRx \/ (toRx # <<>> /\ toRx' = Tail(toRx)),
         toTx' \in Seq(Byte), faults' \in 0 .. MaxFaults,
         ryCount' \in 0 .. MaxTimeout \/ ryCount' = ryCount
  PROVE  YWindowInv'
<1>1. /\ rxOpts' = rxOpts /\ rxpc' = rxpc /\ nbRetry' = nbRetry
      /\ expectedBlkNumber' = expectedBlkNumber
      /\ canCharReceived' = canCharReceived
      /\ receivedBytes' = receivedBytes /\ rxData' = rxData
      /\ ryPhase' = "done" /\ rxFileData' = fileData
  BY DEF RyReturn
<1>2. rxRam \in RamFileType /\ fileData.size \in Nat
  BY YWindowTypes DEF FileData
<1>3. rxRam' \in RamFileType /\ rxRam'.max_size = rxRam.max_size
  <2>1. CASE rxRam' = rxRam
    BY <1>2, <2>1
  <2>2. CASE rxRam' = lmodem_buffer_set_write_offset(rxRam, fileData.size)
    BY <1>2, <2>2 DEF lmodem_buffer_set_write_offset, RamFileType
  <2>. QED  BY <2>1, <2>2 DEF RyReturn
<1>4. RxTypeOK'
  BY <1>1, <1>3 DEF YWindowInv, YTypeOK, TypeOK, RxTypeOK
<1>5. RyTypeOK'
  <2>1. RyTypeOK
    BY DEF YWindowInv, YTypeOK
  <2>2. ryCount' \in 0 .. (IF MaxRetry < MaxTimeout
                           THEN MaxTimeout ELSE MaxRetry)
    BY <2>1, CountType DEF RyTypeOK
  <2>. QED  BY <1>1, <2>2 DEF RyTypeOK
<1>6. YReceiverRunning'
  BY <1>1, <1>3 DEF YWindowInv, YReceiverRunning
<1>7. CopyIsPrefix'
  BY <1>1, YCopyKept
<1>8. ~Listening'
  BY <1>1 DEF Listening
<1>. QED  BY <1>4, <1>5, <1>6, <1>7, <1>8, ReceiverStep

(* A step that leaves lxmodem_receive alone.                               *)
LEMMA AroundKeeps ==
  ASSUME YWindowInv, UNCHANGED txVars, UNCHANGED tyVars, UNCHANGED rxVars,
         toRx' = toRx \/ (toRx # <<>> /\ toRx' = Tail(toRx)),
         toTx' \in Seq(Byte), faults' \in 0 .. MaxFaults,
         RyTypeOK',
         ryPhase' \in {"start", "name", "repeat"} => rxpc = "idle",
         ryPhase' \in {"start", "name", "next"} => ryCount' < MaxTimeout,
         ryPhase' = "repeat" => ryCount' < MaxRetry,
         ryPhase' # "done" => ryPhase # "done",
         ryPhase' \in {"start", "name", "contents"} /\ rxpc # "done" =>
           BlocksInWindow' /\ CallsInOrder'
  PROVE  YWindowInv'
<1>1. /\ rxOpts' = rxOpts /\ rxpc' = rxpc /\ nbRetry' = nbRetry
      /\ expectedBlkNumber' = expectedBlkNumber
      /\ canCharReceived' = canCharReceived
      /\ receivedBytes' = receivedBytes /\ rxRam' = rxRam /\ rxData' = rxData
  BY DEF rxVars
<1>2. RxTypeOK'
  BY <1>1 DEF YWindowInv, YTypeOK, TypeOK, RxTypeOK
<1>3. YReceiverRunning'
  BY <1>1 DEF YWindowInv, YReceiverRunning
<1>4. CopyIsPrefix'
  BY <1>1, YCopyKept
<1>5. Listening' => BlocksInWindow' /\ CallsInOrder'
  BY <1>1 DEF Listening
<1>. QED  BY <1>2, <1>3, <1>4, <1>5, ReceiverStep

LEMMA RefuseKeeps ==
  ASSUME YWindowInv, UNCHANGED txVars, UNCHANGED tyVars,
         ryPhase \in {"name", "repeat"}, toRx # <<>>,
         NEW status, NEW nth \in 1 .. MaxRetry, RyRefuse(status, nth)
  PROVE  YWindowInv'
<1>1. /\ ryCount' = nth /\ toRx' = Tail(toRx) /\ rxFileData' = rxFileData
      /\ UNCHANGED rxVars
      /\ \/ nth < MaxRetry /\ ryPhase' = "repeat"
         \/ ryPhase' = "done"
  BY DEF RyRefuse
<1>2. LineTypeOK
  BY YWindowTypes
<1>3. toTx' \in Seq(Byte) /\ faults' \in 0 .. MaxFaults
  <2>1. CASE PutChars(<<Reply(status)>>)
    BY <1>2, <2>1, ReplyType, PutCharsEffect
  <2>2. CASE PutChars(<<Reply(status), CAN, CAN>>)
    BY <1>2, <2>2, ReplyType, PutCharsEffect
  <2>. QED  BY <2>1, <2>2 DEF RyRefuse
<1>4. RyTypeOK'
  <2>1. RyTypeOK
    BY DEF YWindowInv, YTypeOK
  <2>2. nth \in 0 .. MaxRetry
    BY CountType
  <2>3. ryCount' \in 0 .. (IF MaxRetry < MaxTimeout
                           THEN MaxTimeout ELSE MaxRetry)
    BY <1>1, <2>2, CountType
  <2>. QED  BY <1>1, <2>1, <2>3 DEF RyTypeOK
<1>5. rxpc = "idle"
  BY DEF YWindowInv, YReceiverRunning
<1>. QED  BY <1>1, <1>3, <1>4, <1>5, AroundKeeps

LEMMA NameBadKeeps ==
  ASSUME YWindowInv, UNCHANGED txVars, UNCHANGED tyVars,
         RyNameBad \/ RyRepeat \/ RyRepeatTimeout
  PROVE  YWindowInv'
<1>1. CASE RyNameBad
  <2>1. /\ ryPhase = "name" /\ toRx # <<>>
        /\ RyRefuse(lxmodem_check_block_no_and_crc(Head(toRx), 0), 1)
    BY <1>1 DEF RyNameBad
  <2>2. 1 \in 1 .. MaxRetry
    BY CountType
  <2>. QED  BY <2>1, <2>2, RefuseKeeps
<1>2. ASSUME ryPhase = "repeat", toRx # <<>>, RyRefuse("ERROR", ryCount + 1)
      PROVE  YWindowInv'
  <2>1. ryCount < MaxRetry /\ ryCount \in Nat
    BY <1>2, LModemAssumption
       DEF YWindowInv, YReceiverRunning, YTypeOK, RyTypeOK
  <2>2. ryCount + 1 \in 1 .. MaxRetry
    BY <2>1, CountType
  <2>. QED  BY <1>2, <2>2, RefuseKeeps
<1>3. ASSUME ryPhase = "repeat", toRx' = toRx \/ (toRx # <<>> /\ toRx' = Tail(toRx)),
             UNCHANGED <<toTx, faults, rxVars, ryVars>>
      PROVE  YWindowInv'
  <2>1. /\ ryPhase' = ryPhase /\ ryCount' = ryCount
        /\ rxFileData' = rxFileData /\ toTx' = toTx /\ faults' = faults
        /\ UNCHANGED rxVars
    BY <1>3 DEF ryVars
  <2>2. /\ toTx' \in Seq(Byte) /\ faults' \in 0 .. MaxFaults /\ RyTypeOK'
        /\ rxpc = "idle" /\ ryCount' < MaxRetry
    BY <1>3, <2>1 DEF YWindowInv, YTypeOK, TypeOK, LineTypeOK, RyTypeOK,
                      YReceiverRunning
  <2>. QED  BY <1>3, <2>1, <2>2, AroundKeeps
<1>4. CASE RyRepeat
  BY <1>2, <1>3, <1>4 DEF RyRepeat
<1>5. CASE RyRepeatTimeout
  BY <1>3, <1>5 DEF RyRepeatTimeout, lineVars
<1>. QED  BY <1>1, <1>4, <1>5

LEMMA NameOtherKeeps ==
  ASSUME YWindowInv, UNCHANGED txVars, UNCHANGED tyVars,
         RyNameOther \/ RyBlockNextFile
  PROVE  YWindowInv'
<1>1. LineTypeOK /\ rxFileData \in FileData
  BY YWindowTypes
<1>2. CASE RyNameOther
  <2>1. toTx' \in Seq(Byte) /\ faults' \in 0 .. MaxFaults
    BY <1>1, <1>2 DEF RyNameOther, LineTypeOK
  <2>. QED  BY <1>1, <1>2, <2>1, ReturnKeeps DEF RyNameOther
<1>3. CASE RyBlockNextFile
  <2>1. <<CAN, CAN>> \in Seq(Byte)
    BY DEF CAN, Byte
  <2>2. PICK null \in NullName(Head(toRx)) :
          PutChars(IF null THEN <<Reply("OK")>> ELSE <<CAN, CAN>>)
    BY <1>3 DEF RyBlockNextFile
  <2>3. toTx' \in Seq(Byte) /\ faults' \in 0 .. MaxFaults
    <3>1. CASE null
      <4>1. PutChars(<<Reply("OK")>>)
        BY <2>2, <3>1
      <4>. QED  BY <1>1, <4>1, ReplyType, PutCharsEffect
    <3>2. CASE ~null
      <4>1. PutChars(<<CAN, CAN>>)
        BY <2>2, <3>2
      <4>. QED  BY <1>1, <2>1, <4>1, PutCharsEffect
    <3>. QED  BY <3>1, <3>2
  <2>. QED  BY <1>1, <1>3, <2>3, ReturnKeeps DEF RyBlockNextFile
<1>. QED  BY <1>2, <1>3

(* A wait of lymodem_receive goes on.                                      *)
LEMMA CallsStay ==
  ASSUME CallsInOrder, UNCHANGED txVars, UNCHANGED tyVars, UNCHANGED lineVars,
         rxpc' = rxpc, ryPhase' = ryPhase
  PROVE  CallsInOrder'
<1>1. (DataSent' <=> DataSent) /\ txpc' = txpc /\ tyPhase' = tyPhase
      /\ toTx' = toTx /\ toRx' = toRx
  BY DEF txVars, tyVars, lineVars, DataSent
<1>. QED  BY <1>1 DEF CallsInOrder

LEMMA WindowStays ==
  ASSUME YWindowInv, BlocksInWindow, UNCHANGED txVars, UNCHANGED rxVars,
         toRx' = toRx, faults' \in {faults, faults + 1}
  PROVE  BlocksInWindow'
<1>1. /\ txpc' = txpc /\ blkNo' = blkNo /\ txRam' = txRam
      /\ nbRetry' = nbRetry /\ expectedBlkNumber' = expectedBlkNumber
      /\ rxData' = rxData
  BY DEF txVars, rxVars
<1>. QED  BY <1>1, WaitKeepsWindow

LEMMA WaitNameKeeps ==
  ASSUME YWindowInv, UNCHANGED txVars, UNCHANGED tyVars,
         RyNameTimeout \/ RyNextTimeout
  PROVE  YWindowInv'
<1>1. /\ UNCHANGED lineVars /\ toRx' = toRx /\ toTx' = toTx
      /\ faults' = faults /\ ryCount' = ryCount + 1
      /\ ryPhase \in {"name", "next"}
      /\ \/ /\ ryCount + 1 < MaxTimeout /\ UNCHANGED rxVars
            /\ ryPhase' = ryPhase /\ rxFileData' = rxFileData
         \/ RyReturn(rxFileData)
  BY DEF RyNameTimeout, RyNextTimeout, lineVars
<1>2. /\ toTx' \in Seq(Byte) /\ faults' \in 0 .. MaxFaults
      /\ rxFileData \in FileData /\ RyTypeOK
      /\ ryPhase = "name" => rxpc = "idle"
  BY <1>1 DEF YWindowInv, YTypeOK, TypeOK, LineTypeOK, RyTypeOK,
              YReceiverRunning
<1>3. ryCount \in Nat /\ ryCount < MaxTimeout
  <2>1. ryCount < MaxTimeout
    BY <1>1 DEF YWindowInv, YReceiverRunning
  <2>2. ryCount \in Nat
    BY <1>2, LModemAssumption DEF RyTypeOK
  <2>. QED  BY <2>1, <2>2
<1>4. ryCount' \in 0 .. MaxTimeout
  BY <1>1, <1>3, CountType
<1>5. CASE RyReturn(rxFileData)
  BY <1>1, <1>2, <1>4, <1>5, ReturnKeeps
<1>6. CASE /\ ryCount + 1 < MaxTimeout /\ UNCHANGED rxVars
           /\ ryPhase' = ryPhase /\ rxFileData' = rxFileData
  <2>1. RyTypeOK'
    BY <1>2, <1>4, <1>6, CountType DEF RyTypeOK
  <2>2. ASSUME ryPhase' \in {"start", "name", "contents"}, rxpc # "done"
        PROVE  BlocksInWindow' /\ CallsInOrder'
    <3>1. BlocksInWindow /\ CallsInOrder
      BY <1>6, <2>2 DEF YWindowInv, Listening
    <3>2. BlocksInWindow'
      BY <1>1, <1>6, <3>1, WindowStays
    <3>3. rxpc' = rxpc
      BY <1>6 DEF rxVars
    <3>. QED  BY <1>1, <1>6, <3>1, <3>2, <3>3, CallsStay
  <2>. QED  BY <1>1, <1>2, <1>6, <2>1, <2>2, AroundKeeps
<1>. QED  BY <1>1, <1>5, <1>6

LEMMA NextFileKeeps ==
  ASSUME YWindowInv, UNCHANGED txVars, UNCHANGED tyVars, RyNextFile
  PROVE  YWindowInv'
<1>1. /\ ryPhase = "contents" /\ ryPhase' = "next" /\ ryCount' = 0
      /\ PutChars(<<Preambule>>) /\ toRx' = toRx /\ UNCHANGED rxVars
      /\ rxFileData' = rxFileData
  BY DEF RyNextFile
<1>2. LineTypeOK
  BY YWindowTypes
<1>3. toTx' \in Seq(Byte) /\ faults' \in 0 .. MaxFaults
  BY <1>1, <1>2, ReplyType, PutCharsEffect
<1>4. ryCount' < MaxTimeout /\ ryCount' \in 0 .. MaxTimeout
  BY <1>1, CountType
<1>5. RyTypeOK'
  <2>1. RyTypeOK
    BY DEF YWindowInv, YTypeOK
  <2>. QED  BY <1>1, <1>4, <2>1, CountType DEF RyTypeOK
<1>. QED  BY <1>1, <1>3, <1>4, <1>5, AroundKeeps

(* The first call: the emitter has not been called yet, or has given up.   *)
LEMMA RyStartKeeps ==
  ASSUME YWindowInv, UNCHANGED txVars, UNCHANGED tyVars, RyStart
  PROVE  YWindowInv'
<1>1. /\ ryPhase = "start" /\ ryPhase' = "name" /\ ryCount' = ryCount
      /\ PutChars(<<Preambule>>) /\ toRx' = toRx /\ UNCHANGED rxVars
      /\ rxFileData' = rxFileData
  BY DEF RyStart
<1>2. LineTypeOK
  BY YWindowTypes
<1>3. /\ toTx' \in Seq(Byte) /\ faults' \in 0 .. MaxFaults
      /\ faults' \in {faults, faults + 1}
  BY <1>1, <1>2, ReplyType, PutCharsEffect
<1>4. rxpc = "idle" /\ ryCount < MaxTimeout
  BY <1>1 DEF YWindowInv, YReceiverRunning
<1>5. RyTypeOK'
  BY <1>1 DEF YWindowInv, YTypeOK, RyTypeOK
<1>6. BlocksInWindow /\ CallsInOrder
  BY <1>1, <1>4 DEF YWindowInv, Listening
<1>7. BlocksInWindow'
  BY <1>1, <1>3, <1>6, WindowStays
<1>8. CallsInOrder'
  <2>1. /\ ~DataSent /\ txpc # "reply" /\ toTx = <<>>
        /\ tyPhase \in {"call", "done"}
        /\ \A i \in DOMAIN toRx : ~IsBlock(toRx[i])
    BY <1>1, <1>4, <1>6 DEF CallsInOrder
  <2>2. PICK r \in Seq(Byte) :
          /\ toTx' = toTx \o r /\ Len(r) <= Len(<<Preambule>>)
          /\ \A i \in DOMAIN r :
               \/ r[i] \in NoiseBytes
               \/ \E j \in DOMAIN <<Preambule>> : r[i] = <<Preambule>>[j]
    BY <1>1, <1>2, ReplyType, PutCharsContent
  <2>3. toTx' = r /\ Len(r) <= 1
    BY <2>1, <2>2
  <2>4. \A i \in DOMAIN r : r[i] # NAK
    <3>1. Preambule = CHR_C
      BY YModemAssumption DEF Preambule
    <3>2. NAK \notin NoiseBytes /\ CHR_C # NAK
      BY LineAssumption DEF NAK, CHR_C
    <3>. QED  BY <2>2, <3>1, <3>2
  <2>5. \A j \in DOMAIN r : 1 .. j - 1 = {}
    BY <2>3
  <2>6. /\ (DataSent' <=> DataSent) /\ txpc' = txpc /\ tyPhase' = tyPhase
        /\ rxpc' = rxpc
    BY <1>1 DEF txVars, tyVars, rxVars, DataSent
  <2>. QED  BY <1>1, <2>1, <2>3, <2>4, <2>5, <2>6 DEF CallsInOrder
<1>. QED  BY <1>1, <1>3, <1>4, <1>5, <1>7, <1>8, AroundKeeps

(***************************************************************************)
(* The steps of lxmodem_receive inside.                                    *)
(***************************************************************************)
LEMMA RepliesAreNoCalls ==
  ASSUME LineTypeOK, NEW s \in Seq(Byte), PutChars(s),
         \A i \in DOMAIN s : s[i] # CHR_C
  PROVE  \E r \in Seq(Byte) :
           toTx' = toTx \o r /\ \A i \in DOMAIN r : r[i] # CHR_C
<1>1. CHR_C \notin NoiseBytes
  BY LineAssumption
<1>2. PICK r \in Seq(Byte) :
        /\ toTx' = toTx \o r
        /\ \A i \in DOMAIN r :
             r[i] \in NoiseBytes \/ \E j \in DOMAIN s : r[i] = s[j]
  BY PutCharsContent
<1>. QED  BY <1>1, <1>2

LEMMA ReplyIsNoCall ==
  /\ \A status : \A i \in DOMAIN <<Reply(status)>> :
       <<Reply(status)>>[i] # CHR_C
  /\ \A i \in DOMAIN <<>> : <<>>[i] # CHR_C
<1>1. \A status : Reply(status) # CHR_C
  BY DEF Reply, ACK, NAK, CHR_C
<1>2. \A status : DOMAIN <<Reply(status)>> = {1}
  OBVIOUS
<1>. QED  BY <1>1, <1>2

(* What the name block is found to be when it is good.                     *)
LEMMA RyNameKeeps ==
  ASSUME YWindowInv, UNCHANGED txVars, UNCHANGED tyVars, RyName
  PROVE  YWindowInv'
<1>1. /\ ryPhase = "name" /\ toRx # <<>> /\ IsBlock(Head(toRx))
      /\ toRx' = Tail(toRx) /\ ryCount' = ryCount
      /\ PutChars(<<Reply("OK")>>)
  BY DEF RyName, NameArrived
<1>2. LineTypeOK /\ toRx \in Seq(Frame)
  BY YWindowTypes
<1>3. /\ toTx' \in Seq(Byte) /\ faults' \in 0 .. MaxFaults
      /\ faults' \in {faults, faults + 1}
  BY <1>1, <1>2, ReplyType, PutCharsEffect
<1>4. PICK decoded \in lymodem_decode_block0(Head(toRx).meta) :
        \/ /\ ryPhase' = "contents" /\ rxFileData' = decoded.data
           /\ UNCHANGED rxVars
        \/ RyReturn(decoded.data)
  BY DEF RyName, RyDecode
<1>5. decoded.data \in FileData
  BY <1>1, HeadFrame, DecodedType
<1>6. CASE RyReturn(decoded.data)
  BY <1>1, <1>3, <1>5, <1>6, ReturnKeeps
<1>7. CASE /\ ryPhase' = "contents" /\ rxFileData' = decoded.data
           /\ UNCHANGED rxVars
  <2>1. RyTypeOK'
    BY <1>1, <1>5, <1>7 DEF YWindowInv, YTypeOK, RyTypeOK
  <2>2. rxpc = "idle" /\ nbRetry = 0 /\ expectedBlkNumber = 1 /\ rxData = <<>>
    BY <1>1 DEF YWindowInv, YReceiverRunning
  <2>3. /\ BlocksInWindow
        /\ CallsInOrder
    BY <1>1, <2>2 DEF YWindowInv, Listening
  <2>4. 1 \in DOMAIN toRx /\ IsBlock(toRx[1])
    BY <1>1, <1>2, TailFrames
  <2>5. /\ ~DataSent /\ txpc # "reply"
        /\ \A j \in DOMAIN toTx : toTx[j] # NAK /\ toTx[j] # CHR_C
    BY <2>2, <2>3, <2>4 DEF CallsInOrder
  <2>6. BlocksInWindow'
    <3>1. \A i \in DOMAIN toRx : IsBlock(toRx[i]) => toRx[i].seq = 0
      BY <2>3, <2>5 DEF BlocksInWindow
    <3>2. /\ toRx' \in Seq(Frame)
          /\ \A i \in DOMAIN toRx' : IsBlock(toRx'[i]) => toRx'[i].seq = 0
      BY <1>1, <1>2, <3>1, TailFrames
    <3>3. faults' \in Nat
      BY <1>3, LineAssumption
    <3>4. /\ txpc' # "reply" /\ expectedBlkNumber' = 1 /\ rxData' = <<>>
          /\ nbRetry' \in Nat
      BY <1>7, <2>2, <2>5 DEF txVars, rxVars
    <3>. QED  BY <3>2, <3>3, <3>4, NamesKeepWindow
  <2>7. CallsInOrder'
    <3>1. PICK r \in Seq(Byte) :
            /\ toTx' = toTx \o r
            /\ \A i \in DOMAIN r :
                 \/ r[i] \in NoiseBytes
                 \/ \E j \in DOMAIN <<Reply("OK")>> : r[i] = <<Reply("OK")>>[j]
      BY <1>1, <1>2, ReplyType, PutCharsContent
    <3>2. \A i \in DOMAIN r : r[i] # NAK /\ r[i] # CHR_C
      <4>1. Reply("OK") # NAK /\ Reply("OK") # CHR_C
        BY DEF Reply, ACK, NAK, CHR_C
      <4>2. NAK \notin NoiseBytes /\ CHR_C \notin NoiseBytes
        BY LineAssumption
      <4>3. DOMAIN <<Reply("OK")>> = {1}
        OBVIOUS
      <4>. QED  BY <3>1, <4>1, <4>2, <4>3
    <3>3. \A j \in DOMAIN toTx' : toTx'[j] # NAK /\ toTx'[j] # CHR_C
      BY <1>2, <2>5, <3>1, <3>2, JoinedChars DEF LineTypeOK
    <3>4. /\ (DataSent' <=> DataSent) /\ txpc' = txpc /\ tyPhase' = tyPhase
          /\ rxpc' = rxpc
      BY <1>7 DEF txVars, tyVars, rxVars, DataSent
    <3>. QED  BY <1>7, <2>3, <2>5, <3>3, <3>4 DEF CallsInOrder
  <2>8. ryPhase # "done"
    BY <1>1
  <2>. QED  BY <1>1, <1>3, <1>7, <2>1, <2>6, <2>7, <2>8, AroundKeeps
<1>. QED  BY <1>4, <1>6, <1>7

(* The call of lxmodem_receive: the second call, behind a name.            *)
LEMMA RxStartKeepsY ==
  ASSUME YWindowInv, UNCHANGED txVars, UNCHANGED tyVars, UNCHANGED ryVars,
         ryPhase = "contents", RxStart
  PROVE  YWindowInv'
<1>1. /\ rxpc = "idle" /\ rxpc' = "header" /\ expectedBlkNumber' = 1
      /\ nbRetry' = 0 /\ canCharReceived' = 0 /\ receivedBytes' = 0
      /\ PutChars(<<Preambule>>)
      /\ toRx' = toRx /\ rxOpts' = rxOpts /\ rxRam' = rxRam
      /\ rxData' = rxData
      /\ ryPhase' = ryPhase /\ ryCount' = ryCount
      /\ rxFileData' = rxFileData
  BY DEF RxStart, ryVars
<1>2. LineTypeOK
  BY YWindowTypes
<1>3. /\ toTx' \in Seq(Byte) /\ faults' \in 0 .. MaxFaults
      /\ faults' \in {faults, faults + 1}
  BY <1>1, <1>2, ReplyType, PutCharsEffect
<1>4. /\ expectedBlkNumber = 1 /\ nbRetry = 0
      /\ receivedBytes = rxRam.write_offset /\ receivedBytes = 0
      /\ rxRam.write_offset <= rxRam.max_size
      /\ rxRam.max_size < HalfWord
  BY <1>1 DEF YWindowInv, YReceiverRunning
<1>5. RxTypeOK' /\ RyTypeOK'
  BY <1>1, LModemAssumption
     DEF YWindowInv, YTypeOK, TypeOK, RxTypeOK, RyTypeOK
<1>6. YReceiverRunning'
  BY <1>1, <1>4, LModemAssumption DEF YReceiverRunning
<1>7. CopyIsPrefix'
  BY <1>1, YCopyKept
<1>8. BlocksInWindow /\ CallsInOrder
  BY <1>1 DEF YWindowInv, Listening
<1>9. BlocksInWindow'
  <2>1. /\ txpc' = txpc /\ blkNo' = blkNo /\ txRam' = txRam
    BY DEF txVars
  <2>. QED  BY <1>1, <1>3, <1>4, <1>8, <2>1, WaitKeepsWindow
<1>10. CallsInOrder'
  <2>1. /\ ~DataSent /\ txpc # "reply"
        /\ \A j \in DOMAIN toTx : toTx[j] # NAK /\ toTx[j] # CHR_C
    BY <1>1, <1>8 DEF CallsInOrder
  <2>2. PICK r \in Seq(Byte) :
          /\ toTx' = toTx \o r /\ Len(r) <= Len(<<Preambule>>)
          /\ \A i \in DOMAIN r :
               \/ r[i] \in NoiseBytes
               \/ \E j \in DOMAIN <<Preambule>> : r[i] = <<Preambule>>[j]
    BY <1>1, <1>2, ReplyType, PutCharsContent
  <2>3. Len(r) <= 1 /\ \A i \in DOMAIN r : i = 1
    BY <2>2
  <2>4. toTx \in Seq(Byte) /\ Len(toTx) \in Nat
    BY <1>2 DEF LineTypeOK
  <2>5. ASSUME NEW j \in DOMAIN toTx', toTx'[j] = CHR_C,
               NEW i \in 1 .. j - 1
        PROVE  toTx'[i] \notin {CHR_C, NAK}
    <3>1. j \notin DOMAIN toTx
      BY <2>1, <2>2, <2>4, <2>5, JoinedChars
    <3>2. j - Len(toTx) \in DOMAIN r /\ j \in Nat
      BY <2>2, <2>4, <3>1, JoinedChars
    <3>3. j - Len(toTx) = 1
      BY <2>3, <3>2
    <3>4. i \in 1 .. Len(toTx)
      BY <2>4, <3>2, <3>3
    <3>5. i \in DOMAIN toTx /\ toTx'[i] = toTx[i]
      BY <2>2, <2>4, <3>4, JoinedChars
    <3>. QED  BY <2>1, <3>5
  <2>6. /\ (DataSent' <=> DataSent) /\ txpc' = txpc /\ tyPhase' = tyPhase
    BY DEF txVars, tyVars, DataSent
  <2>. QED  BY <1>1, <2>1, <2>5, <2>6 DEF CallsInOrder
<1>. QED  BY <1>1, <1>3, <1>5, <1>6, <1>7, <1>9, <1>10, ReceiverStep

(* The errors of lxmodem_receive.                                          *)
LEMMA RxErrorCases ==
  ASSUME YWindowInv, RxRefuse \/ RxCan \/ RxUnknown \/ RxTimeout
  PROVE  \E reply \in Seq(Byte), cancelled \in BOOLEAN :
           /\ rxpc = "header"
           /\ RxError(reply, cancelled)
           /\ \A i \in DOMAIN reply : reply[i] # CHR_C
           /\ UNCHANGED <<expectedBlkNumber, rxData, rxRam, rxOpts>>
           /\ toRx' = toRx \/ (toRx # <<>> /\ toRx' = Tail(toRx))
           /\ canCharReceived' \in 0 .. 2
           /\ ~cancelled => canCharReceived' < 2
<1>0. canCharReceived \in 0 .. 2 /\ (rxpc = "header" => canCharReceived < 2)
  BY DEF YWindowInv, YTypeOK, TypeOK, RxTypeOK, YReceiverRunning
<1>1. CASE RxRefuse
  <2>. DEFINE reply == <<Reply(RxStatus(Head(toRx)))>>
  <2>1. reply \in Seq(Byte) /\ \A i \in DOMAIN reply : reply[i] # CHR_C
    BY ReplyType, ReplyIsNoCall
  <2>2. FALSE \in BOOLEAN
    OBVIOUS
  <2>3. canCharReceived' \in 0 .. 2 /\ canCharReceived' < 2
    BY <1>1 DEF RxRefuse
  <2>4. /\ rxpc = "header" /\ toRx # <<>> /\ toRx' = Tail(toRx)
        /\ RxError(reply, FALSE)
        /\ UNCHANGED <<expectedBlkNumber, rxData, rxRam, rxOpts>>
    BY <1>1 DEF RxRefuse, BlockArrived, Reading
  <2>. HIDE DEF reply
  <2>. QED  BY <2>1, <2>2, <2>3, <2>4
<1>2. CASE RxCan
  <2>. DEFINE reply == <<Reply("ERROR")>>
              cancelled == canCharReceived + 1 >= 2
  <2>1. reply \in Seq(Byte) /\ \A i \in DOMAIN reply : reply[i] # CHR_C
    BY ReplyType, ReplyIsNoCall
  <2>2. cancelled \in BOOLEAN
    OBVIOUS
  <2>3. canCharReceived' \in 0 .. 2 /\ (~cancelled => canCharReceived' < 2)
    BY <1>0, <1>2 DEF RxCan, Reading
  <2>4. /\ rxpc = "header" /\ toRx # <<>> /\ toRx' = Tail(toRx)
        /\ RxError(reply, cancelled)
        /\ UNCHANGED <<expectedBlkNumber, rxData, rxRam, rxOpts>>
    BY <1>2 DEF RxCan, Reading
  <2>. HIDE DEF reply, cancelled
  <2>. QED  BY <2>1, <2>2, <2>3, <2>4
<1>3. CASE RxUnknown
  <2>. DEFINE reply == <<Reply("ERROR")>>
  <2>1. reply \in Seq(Byte) /\ \A i \in DOMAIN reply : reply[i] # CHR_C
    BY ReplyType, ReplyIsNoCall
  <2>2. FALSE \in BOOLEAN
    OBVIOUS
  <2>3. canCharReceived' \in 0 .. 2 /\ canCharReceived' < 2
    BY <1>0, <1>3 DEF RxUnknown, Reading
  <2>4. /\ rxpc = "header" /\ toRx # <<>> /\ toRx' = Tail(toRx)
        /\ RxError(reply, FALSE)
        /\ UNCHANGED <<expectedBlkNumber, rxData, rxRam, rxOpts>>
    BY <1>3 DEF RxUnknown, Reading
  <2>. HIDE DEF reply
  <2>. QED  BY <2>1, <2>2, <2>3, <2>4
<1>4. CASE RxTimeout
  <2>1. <<>> \in Seq(Byte) /\ \A i \in DOMAIN <<>> : <<>>[i] # CHR_C
    BY ReplyType, ReplyIsNoCall
  <2>2. FALSE \in BOOLEAN
    OBVIOUS
  <2>3. /\ canCharReceived' \in 0 .. 2 /\ canCharReceived' < 2
        /\ rxpc = "header" /\ toRx' = toRx
        /\ RxError(<<>>, FALSE)
        /\ UNCHANGED <<expectedBlkNumber, rxData, rxRam, rxOpts>>
    BY <1>0, <1>4 DEF RxTimeout
  <2>. QED  BY <2>1, <2>2, <2>3
<1>. QED  BY <1>1, <1>2, <1>3, <1>4

LEMMA RxErrorKeepsY ==
  ASSUME YWindowInv, UNCHANGED txVars, UNCHANGED tyVars, UNCHANGED ryVars,
         ryPhase = "contents",
         RxRefuse \/ RxCan \/ RxUnknown \/ RxTimeout
  PROVE  YWindowInv'
<1>1. PICK reply \in Seq(Byte), cancelled \in BOOLEAN :
        /\ rxpc = "header"
        /\ RxError(reply, cancelled)
        /\ \A i \in DOMAIN reply : reply[i] # CHR_C
        /\ UNCHANGED <<expectedBlkNumber, rxData, rxRam, rxOpts>>
        /\ toRx' = toRx \/ (toRx # <<>> /\ toRx' = Tail(toRx))
        /\ canCharReceived' \in 0 .. 2
        /\ ~cancelled => canCharReceived' < 2
  BY RxErrorCases
<1>. DEFINE exhausted == nbRetry + 1 >= MaxRetry
            s == reply \o IF exhausted THEN <<CAN, CAN>> ELSE <<>>
<1>2. /\ s \in Seq(Byte)
      /\ ~exhausted => s = reply
  <2>1. CAN \in Byte
    BY DEF CAN, Byte
  <2>2. <<CAN, CAN>> \in Seq(Byte) /\ <<>> \in Seq(Byte)
    BY <2>1
  <2>. QED  BY <2>2, ConcatProperties
<1>3. /\ nbRetry' = nbRetry + 1
      /\ rxpc' = IF exhausted \/ cancelled THEN "done" ELSE rxpc
      /\ receivedBytes' = IF exhausted \/ cancelled THEN -1 ELSE receivedBytes
      /\ PutChars(s)
  BY <1>1 DEF RxError
<1>4. LineTypeOK /\ nbRetry \in Nat /\ MaxRetry \in Nat /\ nbRetry < MaxRetry
  BY <1>1, YWindowTypes, CountType DEF YWindowInv, YReceiverRunning
<1>5. /\ toTx' \in Seq(Byte) /\ faults' \in 0 .. MaxFaults
      /\ faults' \in {faults, faults + 1}
  BY <1>2, <1>3, <1>4, PutCharsEffect
<1>6. /\ nbRetry' \in 0 .. MaxRetry
      /\ ~exhausted => nbRetry' < MaxRetry
  BY <1>3, <1>4
<1>7. /\ ryPhase' = ryPhase /\ ryCount' = ryCount
      /\ rxFileData' = rxFileData
      /\ rxOpts' = rxOpts /\ rxRam' = rxRam /\ rxData' = rxData
      /\ expectedBlkNumber' = expectedBlkNumber
  BY <1>1 DEF ryVars
<1>8. rxpc' = "done" \/ (~exhausted /\ ~cancelled /\ rxpc' = "header")
  BY <1>1, <1>3
<1>. HIDE DEF exhausted, s
<1>9. RxTypeOK' /\ RyTypeOK'
  <2>1. RxTypeOK /\ RyTypeOK
    BY DEF YWindowInv, YTypeOK, TypeOK
  <2>2. receivedBytes' \in Nat \cup {-1}
    BY <1>3, <2>1 DEF RxTypeOK
  <2>. QED  BY <1>1, <1>6, <1>7, <1>8, <2>1, <2>2 DEF RxTypeOK, RyTypeOK
<1>10. YReceiverRunning'
  <2>1. /\ receivedBytes = rxRam.write_offset
        /\ rxRam.write_offset <= rxRam.max_size
        /\ rxRam.max_size < HalfWord
    BY <1>1 DEF YWindowInv, YReceiverRunning
  <2>2. rxpc' # "done" => receivedBytes' = receivedBytes
    BY <1>3, <1>8
  <2>. QED  BY <1>1, <1>6, <1>7, <1>8, <2>1, <2>2 DEF YReceiverRunning
<1>11. CopyIsPrefix'
  BY <1>7, YCopyKept
<1>12. Listening' => BlocksInWindow' /\ CallsInOrder'
  <2>. SUFFICES ASSUME rxpc' # "done"
                PROVE  BlocksInWindow' /\ CallsInOrder'
    BY DEF Listening
  <2>1. BlocksInWindow /\ CallsInOrder
    BY <1>1 DEF YWindowInv, Listening
  <2>2. BlocksInWindow'
    <3>1. CASE toRx' = toRx
      <4>1. /\ txpc' = txpc /\ blkNo' = blkNo /\ txRam' = txRam
        BY DEF txVars
      <4>. QED  BY <1>3, <1>5, <1>7, <2>1, <3>1, <4>1, WaitKeepsWindow
    <3>2. CASE toRx # <<>> /\ toRx' = Tail(toRx)
      BY <1>3, <1>5, <1>7, <2>1, <3>2, ReadKeepsWindow
    <3>. QED  BY <1>1, <3>1, <3>2
  <2>3. s = reply
    BY <1>2, <1>8
  <2>4. \E r \in Seq(Byte) :
          toTx' = toTx \o r /\ \A i \in DOMAIN r : r[i] # CHR_C
    BY <1>1, <1>3, <1>4, <2>3, RepliesAreNoCalls
  <2>5. CallsInOrder'
    BY <1>8, <2>1, <2>4, RepliesKeepCalls
  <2>. QED  BY <2>2, <2>5
<1>. QED  BY <1>1, <1>5, <1>9, <1>10, <1>11, <1>12, ReceiverStep

(* A block stored.                                                         *)
LEMMA RxStoreKeepsY ==
  ASSUME YWindowInv, UNCHANGED txVars, UNCHANGED tyVars, UNCHANGED ryVars,
         ryPhase = "contents", RxStore
  PROVE  YWindowInv'
<1>. DEFINE f == Head(toRx)
            size == BlkSize(f.hdr)
<1>1. /\ BlockArrived /\ RxStatus(f) = "OK" /\ toRx # <<>> /\ rxpc = "header"
      /\ IsBlock(f)
      /\ NbToCopy(rxRam, size) = size
      /\ rxRam' = lmodem_buffer_write(rxRam, size)
      /\ rxData' = Append(rxData, ChunkIn(f))
      /\ receivedBytes' = receivedBytes + size
      /\ toRx' = Tail(toRx)
      /\ PutChars(<<Reply("OK")>>)
      /\ expectedBlkNumber' = expectedBlkNumber + 1
      /\ nbRetry' = 0 /\ canCharReceived' = 0
      /\ rxOpts' = rxOpts /\ rxpc' = rxpc
      /\ ryPhase' = ryPhase /\ ryCount' = ryCount
      /\ rxFileData' = rxFileData
  BY DEF RxStore, BlockArrived, Reading, Fits, ryVars, IsBlock
<1>2. LineTypeOK /\ toRx \in Seq(Frame)
  BY YWindowTypes
<1>3. /\ toTx' \in Seq(Byte) /\ faults' \in 0 .. MaxFaults
      /\ faults' \in {faults, faults + 1}
  BY <1>1, <1>2, ReplyType, PutCharsEffect
<1>4. BlocksInWindow /\ CallsInOrder
  BY <1>1 DEF YWindowInv, Listening
<1>5. f.seq = expectedBlkNumber /\ ChunkIn(f) = BlockOf(expectedBlkNumber)
  BY <1>1, <1>4, YAcceptedIsNext
<1>6. /\ rxRam \in RamFileType /\ receivedBytes = rxRam.write_offset
      /\ rxRam.write_offset <= rxRam.max_size /\ rxRam.max_size < HalfWord
      /\ receivedBytes \in Nat /\ expectedBlkNumber \in Nat \ {0}
      /\ rxData \in Seq(Chunk)
  <2>1. rxRam \in RamFileType /\ expectedBlkNumber \in Nat \ {0}
        /\ rxData \in Seq(Chunk)
    BY YWindowTypes
  <2>2. /\ receivedBytes = rxRam.write_offset
        /\ rxRam.write_offset <= rxRam.max_size /\ rxRam.max_size < HalfWord
    BY <1>1 DEF YWindowInv, YReceiverRunning
  <2>. QED  BY <2>1, <2>2 DEF RamFileType
<1>7. /\ size \in Nat \ {0} /\ rxRam' \in RamFileType
      /\ rxRam'.max_size = rxRam.max_size
      /\ rxRam'.write_offset <= rxRam'.max_size
      /\ rxRam'.write_offset = rxRam.write_offset + size
  BY <1>1, <1>6, WriteEffect
<1>8. ChunkIn(f) \in Chunk /\ Len(rxData) = expectedBlkNumber - 1
  <2>1. f \in Frame
    BY <1>1, HeadFrame
  <2>2. ChunkIn(f) \in Chunk
    BY <2>1, <1>7 DEF ChunkIn, Chunk, Frame
  <2>. QED  BY <1>4, <2>2 DEF BlocksInWindow
<1>. HIDE DEF f, size
<1>9. CopyIsPrefix'
  <2>. SUFFICES ASSUME NEW k \in DOMAIN rxData'
                PROVE  rxData'[k] = BlockOf(k)
    BY FrozenFile DEF CopyIsPrefix, txVars
  <2>1. CASE k \in DOMAIN rxData
    <3>1. rxData'[k] = rxData[k]
      BY <2>1, <1>1, <1>6, <1>8
    <3>. QED  BY <3>1, <2>1 DEF YWindowInv, CopyIsPrefix
  <2>2. CASE k \notin DOMAIN rxData
    <3>1. k = expectedBlkNumber /\ rxData'[k] = ChunkIn(f)
      BY <2>2, <1>1, <1>6, <1>8
    <3>. QED  BY <3>1, <1>5
  <2>. QED  BY <2>1, <2>2
<1>10. RxTypeOK' /\ RyTypeOK'
  <2>1. rxData' \in Seq(Chunk)
    BY <1>1, <1>6, <1>8
  <2>2. receivedBytes' \in Nat /\ expectedBlkNumber' \in Nat \ {0}
    BY <1>1, <1>6, <1>7
  <2>3. RxTypeOK /\ RyTypeOK
    BY DEF YWindowInv, YTypeOK, TypeOK
  <2>4. 0 \in 0 .. MaxRetry /\ 0 \in 0 .. 2
    BY CountType
  <2>. QED  BY <1>1, <1>7, <2>1, <2>2, <2>3, <2>4 DEF RxTypeOK, RyTypeOK
<1>11. YReceiverRunning'
  <2>1. receivedBytes' = rxRam'.write_offset
    BY <1>1, <1>6, <1>7
  <2>2. rxRam'.max_size < HalfWord
    BY <1>6, <1>7
  <2>. QED  BY <1>1, <1>7, <2>1, <2>2, CountType DEF YReceiverRunning
<1>12. BlocksInWindow'
  BY <1>1, <1>3, <1>4, <1>5, <1>8, StoreKeepsWindow DEF f
<1>13. CallsInOrder'
  <2>1. \E r \in Seq(Byte) :
          toTx' = toTx \o r /\ \A i \in DOMAIN r : r[i] # CHR_C
    BY <1>1, <1>2, ReplyType, ReplyIsNoCall, RepliesAreNoCalls
  <2>. QED  BY <1>1, <1>4, <2>1, RepliesKeepCalls
<1>. QED  BY <1>1, <1>3, <1>9, <1>10, <1>11, <1>12, <1>13, ReceiverStep

(* lxmodem_receive returns.                                                *)
LEMMA RxEndKeepsY ==
  ASSUME YWindowInv, UNCHANGED txVars, UNCHANGED tyVars, UNCHANGED ryVars,
         ryPhase = "contents", RxEot \/ RxOverflow
  PROVE  YWindowInv'
<1>1. /\ rxpc = "header" /\ rxpc' = "done" /\ toRx # <<>>
      /\ toRx' = Tail(toRx) /\ canCharReceived' = 0
      /\ expectedBlkNumber' \in {expectedBlkNumber, expectedBlkNumber + 1}
      /\ nbRetry' \in {nbRetry, 0}
      /\ receivedBytes' \in {receivedBytes, -1}
      /\ rxOpts' = rxOpts /\ rxData' = rxData
      /\ \/ rxRam' = rxRam
         \/ rxRam' = lmodem_buffer_write(rxRam, BlkSize(Head(toRx).hdr))
      /\ PutChars(<<Reply("OK")>>) \/ PutChars(<<Reply("OK"), CAN, CAN>>)
      /\ ryPhase' = ryPhase /\ ryCount' = ryCount
      /\ rxFileData' = rxFileData
  <2>1. CASE RxEot
    BY <2>1 DEF RxEot, Reading, ryVars
  <2>2. CASE RxOverflow
    BY <2>2 DEF RxOverflow, BlockArrived, Reading, ryVars
  <2>. QED  BY <2>1, <2>2
<1>2. LineTypeOK /\ expectedBlkNumber \in Nat \ {0} /\ nbRetry \in Nat
      /\ rxRam \in RamFileType
  BY YWindowTypes
<1>3. toTx' \in Seq(Byte) /\ faults' \in 0 .. MaxFaults
  <2>1. CASE PutChars(<<Reply("OK")>>)
    BY <1>2, <2>1, ReplyType, PutCharsEffect
  <2>2. CASE PutChars(<<Reply("OK"), CAN, CAN>>)
    BY <1>2, <2>2, ReplyType, PutCharsEffect
  <2>. QED  BY <1>1, <2>1, <2>2
<1>4. rxRam' \in RamFileType /\ rxRam'.max_size = rxRam.max_size
  <2>1. rxRam.write_offset <= rxRam.max_size /\ rxRam.max_size < HalfWord
    BY <1>1 DEF YWindowInv, YReceiverRunning
  <2>2. CASE rxRam' = rxRam
    BY <1>2, <2>2
  <2>3. CASE rxRam' = lmodem_buffer_write(rxRam, BlkSize(Head(toRx).hdr))
    BY <1>2, <2>1, <2>3, WriteEffect
  <2>. QED  BY <1>1, <2>2, <2>3
<1>5. RxTypeOK' /\ RyTypeOK'
  <2>1. RxTypeOK /\ RyTypeOK
    BY DEF YWindowInv, YTypeOK, TypeOK
  <2>2. expectedBlkNumber' \in Nat \ {0}
    <3>1. expectedBlkNumber + 1 \in Nat \ {0}
      BY <1>2
    <3>. QED  BY <1>1, <1>2, <3>1
  <2>3. nbRetry' \in 0 .. MaxRetry
    <3>1. 0 \in 0 .. MaxRetry
      BY CountType
    <3>. QED  BY <1>1, <2>1, <3>1 DEF RxTypeOK
  <2>4. receivedBytes' \in Nat \cup {-1}
    BY <1>1, <2>1 DEF RxTypeOK
  <2>. QED  BY <1>1, <1>4, <2>1, <2>2, <2>3, <2>4 DEF RxTypeOK, RyTypeOK
<1>6. YReceiverRunning'
  BY <1>1, <1>4 DEF YWindowInv, YReceiverRunning
<1>7. CopyIsPrefix'
  BY <1>1, YCopyKept
<1>8. ~Listening'
  BY <1>1 DEF Listening
<1>. QED  BY <1>1, <1>3, <1>5, <1>6, <1>7, <1>8, ReceiverStep

LEMMA YRxNextKeeps ==
  ASSUME YWindowInv, YRxNext
  PROVE  YWindowInv'
<1>1. UNCHANGED txVars /\ UNCHANGED tyVars
  BY DEF YRxNext
<1>2. CASE RyStart
  BY <1>1, <1>2, RyStartKeeps
<1>3. CASE RyReceives
  BY <1>1, <1>3, RyNameKeeps, NameBadKeeps, NameOtherKeeps DEF RyReceives
<1>4. CASE RyTimeouts
  BY <1>1, <1>4, WaitNameKeeps, NameBadKeeps DEF RyTimeouts
<1>5. CASE /\ ryPhase = "contents"
           /\ RxStart \/ RxReceives \/ RxTimeout
           /\ UNCHANGED ryVars
  BY <1>1, <1>5, RxStartKeepsY, RxStoreKeepsY, RxEndKeepsY, RxErrorKeepsY
     DEF RxReceives
<1>6. CASE RyNextFile
  BY <1>1, <1>6, NextFileKeeps
<1>. QED  BY <1>2, <1>3, <1>4, <1>5, <1>6 DEF YRxNext

(***************************************************************************)
(* The steps of lymodem_emit around lxmodem_emit.                          *)
(***************************************************************************)
(* No further frame, or one of number 0 while no data are sent.            *)
LEMMA TyKeeps ==
  ASSUME YWindowInv, UNCHANGED rxVars, UNCHANGED ryVars,
         UNCHANGED contentsVars, txpc # "reply",
         \/ /\ UNCHANGED <<toRx, faults, blk_buffer>>
            /\ tyPhase' \in {"call", "name", "batch"} =>
                 tyPhase \in {"call", "name", "batch"}
         \/ \E f \in Frame :
              /\ PutFrame(f) /\ blk_buffer' = f
              /\ IsBlock(f) => f.seq = 0 /\ f.blk = 0
              /\ Listening => ~DataSent,
         toTx' = toTx \/ (toTx # <<>> /\ toTx' = Tail(toTx)),
         TyTypeOK',
         tyPhase' \in {"call", "name"} => txpc = "preambule",
         tyPhase' \notin {"contents", "done"} => tyTimeout' < MaxTimeout,
         tyPhase' \in {"name", "batch"} => tyRetry' < MaxRetry,
         Listening /\ DataSent => tyPhase' \in {"contents", "next", "done"},
         Listening =>
           \/ tyPhase \notin {"call", "done"}
           \/ /\ ryPhase # "start"
              /\ \A j \in DOMAIN toTx' : toTx'[j] # CHR_C
           \/ tyPhase' \in {"call", "done"} /\ toRx' = toRx
  PROVE  YWindowInv'
<1>1. /\ txOpts' = txOpts /\ txpc' = txpc /\ blkNo' = blkNo /\ retry' = retry
      /\ timeout' = timeout /\ emittedBytes' = emittedBytes
      /\ txRam' = txRam /\ txRam'.write_offset = txRam.write_offset
      /\ txRam'.read_offset = txRam.read_offset
  BY DEF contentsVars
<1>2. /\ LineTypeOK /\ toRx \in Seq(Frame) /\ toTx \in Seq(Byte)
      /\ faults \in Nat
  BY YWindowTypes
<1>3. toTx' \in Seq(Byte)
  BY <1>2, TailChars
<1>4. /\ toRx' \in Seq(Frame) /\ faults' \in 0 .. MaxFaults
      /\ BlocksHoldData' /\ blk_buffer' \in Frame
      /\ \/ /\ toRx' = toRx /\ faults' = faults /\ blk_buffer' = blk_buffer
            /\ tyPhase' \in {"call", "name", "batch"} =>
                 tyPhase \in {"call", "name", "batch"}
         \/ /\ IsBlock(blk_buffer') =>
                 blk_buffer'.seq = 0 /\ blk_buffer'.blk = 0
            /\ Listening => ~DataSent
            /\ \A i \in DOMAIN toRx' :
                 \/ i \in DOMAIN toRx /\ toRx'[i] = toRx[i]
                 \/ IsBlock(toRx'[i]) => toRx'[i].seq = 0
  <2>1. CASE /\ UNCHANGED <<toRx, faults, blk_buffer>>
             /\ tyPhase' \in {"call", "name", "batch"} =>
                  tyPhase \in {"call", "name", "batch"}
    <3>1. toRx' \in Seq(Frame) /\ BlocksHoldData'
      BY <1>1, <2>1, BlocksLeft
    <3>. QED  BY <1>2, <2>1, <3>1
              DEF YWindowInv, YTypeOK, TypeOK, TxTypeOK, LineTypeOK
  <2>2. ASSUME NEW f \in Frame, PutFrame(f), blk_buffer' = f,
               IsBlock(f) => f.seq = 0 /\ f.blk = 0, Listening => ~DataSent
        PROVE  /\ toRx' \in Seq(Frame) /\ faults' \in 0 .. MaxFaults
               /\ BlocksHoldData' /\ blk_buffer' \in Frame
               /\ IsBlock(blk_buffer') =>
                    blk_buffer'.seq = 0 /\ blk_buffer'.blk = 0
               /\ \A i \in DOMAIN toRx' :
                    \/ i \in DOMAIN toRx /\ toRx'[i] = toRx[i]
                    \/ IsBlock(toRx'[i]) => toRx'[i].seq = 0
    <3>1. HoldsItsData(f)
      <4>1. 0 % BlkMod = 0
        BY LModemAssumption
      <4>. QED  BY <2>2, <4>1 DEF HoldsItsData
    <3>2. /\ toRx' \in Seq(Frame) /\ BlocksHoldData'
          /\ faults' \in 0 .. MaxFaults
          /\ \A i \in DOMAIN toRx' :
               \/ i \in DOMAIN toRx /\ toRx'[i] = toRx[i]
               \/ IsBlock(toRx'[i]) => IsBlock(f) /\ toRx'[i].seq = f.seq
      BY <1>1, <2>2, <3>1, BlocksSent
    <3>. QED  BY <2>2, <3>2
  <2>. QED  BY <2>1, <2>2
<1>5. LineTypeOK'
  BY <1>3, <1>4 DEF LineTypeOK
<1>6. TxTypeOK'
  BY <1>1, <1>4 DEF YWindowInv, YTypeOK, TypeOK, TxTypeOK
<1>7. YEmitterAtBlkNo'
  <2>1. YEmitterAtBlkNo
    BY DEF YWindowInv
  <2>2. FileSize' = FileSize /\ (DataSent' <=> DataSent)
    BY <1>1 DEF FileSize, DataSent
  <2>3. tyPhase' \in {"call", "name", "batch"} /\ IsBlock(blk_buffer') =>
          blk_buffer'.seq = 0 /\ blk_buffer'.blk = 0
    BY <1>4, <2>1 DEF YEmitterAtBlkNo
  <2>. QED  BY <1>1, <2>1, <2>2, <2>3 DEF YEmitterAtBlkNo
<1>8. YEmitterRunning'
  BY <1>1 DEF YWindowInv, YEmitterRunning, EmitterRunning
<1>9. ASSUME Listening
      PROVE  BlocksInWindow' /\ CallsInOrder'
  <2>1. BlocksInWindow /\ CallsInOrder
    BY <1>9 DEF YWindowInv
  <2>2. /\ expectedBlkNumber' = expectedBlkNumber /\ nbRetry' = nbRetry
        /\ rxData' = rxData
    BY <1>1, EmitterKeepsYReceiver
  <2>3. BlocksInWindow'
    <3>1. CASE toRx' = toRx /\ faults' = faults
      BY <1>1, <2>1, <2>2, <3>1, WaitKeepsWindow
    <3>2. CASE /\ ~DataSent
               /\ \A i \in DOMAIN toRx' :
                    \/ i \in DOMAIN toRx /\ toRx'[i] = toRx[i]
                    \/ IsBlock(toRx'[i]) => toRx'[i].seq = 0
      <4>1. /\ expectedBlkNumber - 1 = 0 /\ Len(rxData) = 0
            /\ \A i \in DOMAIN toRx : IsBlock(toRx[i]) => toRx[i].seq = 0
        BY <2>1, <3>2 DEF BlocksInWindow
      <4>2. expectedBlkNumber = 1 /\ rxData = <<>>
        BY <4>1, YWindowTypes
      <4>3. \A i \in DOMAIN toRx' : IsBlock(toRx'[i]) => toRx'[i].seq = 0
        BY <3>2, <4>1
      <4>4. faults' \in Nat /\ nbRetry' \in Nat
        BY <1>4, <2>2, YWindowTypes, LineAssumption
      <4>. QED  BY <1>1, <1>4, <2>2, <4>2, <4>3, <4>4, NamesKeepWindow
    <3>. QED  BY <1>4, <1>9, <3>1, <3>2
  <2>4. DataSent' => DataSent
    BY <1>1 DEF DataSent
  <2>5. DataSent' => tyPhase' \in {"contents", "next", "done"}
    BY <1>9, <2>4
  <2>6. CallsInOrder'
    <3>1. \/ tyPhase \notin {"call", "done"}
          \/ ryPhase # "start" /\ \A j \in DOMAIN toTx' : toTx'[j] # CHR_C
          \/ tyPhase' \in {"call", "done"} /\ toRx' = toRx
      BY <1>9
    <3>2. \/ tyPhase \notin {"call", "done"}
          \/ ryPhase # "start" /\ \A j \in DOMAIN toTx' : toTx'[j] # CHR_C
          \/ /\ tyPhase' \in {"call", "done"}
             /\ (\A i \in DOMAIN toRx : ~IsBlock(toRx[i])) =>
                  \A i \in DOMAIN toRx' : ~IsBlock(toRx'[i])
      BY <3>1
    <3>3. (DataSent' => DataSent) /\ (txpc' = "reply" => txpc = "reply")
      BY <1>1, <2>4
    <3>. QED  BY <2>1, <2>5, <3>2, <3>3, EmitterKeepsCalls
  <2>. QED  BY <2>3, <2>6
<1>. QED  BY <1>1, <1>4, <1>5, <1>6, <1>7, <1>8, <1>9, EmitterStep

LEMMA YEmitterFacts ==
  ASSUME YWindowInv
  PROVE  /\ TyTypeOK /\ TxTypeOK /\ blk_buffer \in Frame
         /\ tyPhase # "contents" => txpc # "reply"
         /\ tyPhase \in {"call", "name"} => txpc = "preambule" /\ ~DataSent
         /\ tyPhase \in {"call", "name", "batch"} /\ IsBlock(blk_buffer) =>
              blk_buffer.seq = 0 /\ blk_buffer.blk = 0
         /\ Listening /\ tyPhase = "batch" => ~DataSent
         /\ tyTimeout \in Nat /\ tyRetry \in Nat
         /\ tyPhase \notin {"contents", "done"} => tyTimeout < MaxTimeout
         /\ tyPhase \in {"name", "batch"} => tyRetry < MaxRetry
<1>1. TyTypeOK /\ TxTypeOK /\ blk_buffer \in Frame
  BY DEF YWindowInv, YTypeOK, TypeOK, TxTypeOK
<1>2. /\ tyPhase # "contents" => txpc # "reply"
      /\ tyPhase \in {"call", "name"} => txpc = "preambule" /\ ~DataSent
      /\ tyPhase \in {"call", "name", "batch"} /\ IsBlock(blk_buffer) =>
           blk_buffer.seq = 0 /\ blk_buffer.blk = 0
  BY DEF YWindowInv, YEmitterAtBlkNo
<1>3. Listening /\ tyPhase = "batch" => ~DataSent
  BY DEF YWindowInv, CallsInOrder
<1>4. /\ tyTimeout \in Nat /\ tyRetry \in Nat
      /\ tyPhase \notin {"contents", "done"} => tyTimeout < MaxTimeout
      /\ tyPhase \in {"name", "batch"} => tyRetry < MaxRetry
  BY <1>1, LModemAssumption DEF TyTypeOK, YWindowInv, YEmitterRunning
<1>. QED  BY <1>1, <1>2, <1>3, <1>4

(* The names the emitter sends are frames of number 0.                     *)
LEMMA FewFields ==
  ASSUME NEW valid \in SUBSET Flags
  PROVE  /\ IsFiniteSet(valid \ {"filename"})
         /\ Cardinality(valid \ {"filename"}) \in 0 .. 4
<1>. DEFINE A == {"filesize"}
            B == A \cup {"modif_date"}
            C == B \cup {"permission"}
            D == C \cup {"serial"}
<1>1. IsFiniteSet(A) /\ Cardinality(A) = 1
  BY FS_Singleton
<1>2. IsFiniteSet(B) /\ Cardinality(B) = 2
  <2>1. "modif_date" \notin A
    OBVIOUS
  <2>. HIDE DEF A
  <2>. QED  BY <1>1, <2>1, FS_AddElement
<1>3. IsFiniteSet(C) /\ Cardinality(C) = 3
  <2>1. "permission" \notin B
    OBVIOUS
  <2>. HIDE DEF B
  <2>. QED  BY <1>2, <2>1, FS_AddElement
<1>4. IsFiniteSet(D) /\ Cardinality(D) = 4
  <2>1. "serial" \notin C
    OBVIOUS
  <2>. HIDE DEF C
  <2>. QED  BY <1>3, <2>1, FS_AddElement
<1>5. valid \ {"filename"} \in SUBSET D
  BY DEF Flags
<1>. HIDE DEF D
<1>6. /\ IsFiniteSet(valid \ {"filename"})
      /\ Cardinality(valid \ {"filename"}) <= 4
  BY <1>4, <1>5, FS_Subset
<1>7. Cardinality(valid \ {"filename"}) \in Nat
  BY <1>6, FS_CardinalityType
<1>. QED  BY <1>6, <1>7

LEMMA NamesAreFrames ==
  ASSUME TyTypeOK
  PROVE  /\ NameBlock \in Frame /\ EndOfBatch \in Frame
         /\ NameBlock.seq = 0 /\ NameBlock.blk = 0
         /\ EndOfBatch.seq = 0 /\ EndOfBatch.blk = 0
<1>1. /\ SOH \in Byte /\ 0 \in BlkNumber /\ Complement(0) \in BlkNumber
  BY LModemAssumption DEF SOH, Byte, BlkNumber, Complement
<1>2. /\ txFileData.valid \in SUBSET Flags /\ txFileData.size \in Nat
  BY DEF TyTypeOK, FileData
<1>3. Cardinality(txFileData.valid \ {"filename"}) \in 0 .. 4
  BY <1>2, FewFields
<1>. DEFINE fields == Cardinality(txFileData.valid \ {"filename"})
<1>4. fields \in 0 .. 4
  BY <1>3
<1>. HIDE DEF fields
<1>5. [name |-> TRUE, fields |-> fields, size |-> txFileData.size] \in Meta
  BY <1>2, <1>4 DEF Meta
<1>6. NoMeta \in Meta
  BY DEF NoMeta, Meta
<1>7. NameBlock \in Frame
  BY <1>1, <1>5 DEF NameBlock, Frame, fields
<1>8. EndOfBatch \in Frame
  BY <1>1, <1>6 DEF EndOfBatch, Frame
<1>. QED  BY <1>7, <1>8 DEF NameBlock, EndOfBatch

(* A call answered.                                                        *)
LEMMA TyCalledKeeps ==
  ASSUME YWindowInv, UNCHANGED rxVars, UNCHANGED ryVars, TyCalled
  PROVE  YWindowInv'
<1>1. /\ toTx # <<>> /\ Head(toTx) = CHR_C /\ toTx' = Tail(toTx)
      /\ tyTimeout' = 0 /\ tyRetry' = 0 /\ UNCHANGED contentsVars
      /\ receivedChar' = receivedChar /\ tyResult' = tyResult
      /\ txFileData' = txFileData
      /\ \/ tyPhase = "call" /\ tyPhase' = "name" /\ SendName
         \/ tyPhase = "next" /\ tyPhase' = "batch" /\ SendEndOfBatch
  BY DEF TyCalled
<1>2. /\ TyTypeOK /\ txpc # "reply"
      /\ tyPhase = "call" => txpc = "preambule" /\ ~DataSent
  BY <1>1, YEmitterFacts
<1>3. TyTypeOK'
  BY <1>1, <1>2, CountType DEF TyTypeOK
<1>4. toTx \in Seq(Byte)
  BY YWindowTypes
<1>5. Listening => ~DataSent
  <2>. SUFFICES ASSUME Listening PROVE ~DataSent
    OBVIOUS
  <2>1. CallsInOrder
    BY DEF YWindowInv
  <2>2. 1 \in DOMAIN toTx /\ toTx[1] = CHR_C
    BY <1>1, <1>4, TailChars
  <2>. QED  BY <2>1, <2>2 DEF CallsInOrder
<1>6. \/ /\ UNCHANGED <<toRx, faults, blk_buffer>>
         /\ tyPhase' \in {"call", "name", "batch"} =>
              tyPhase \in {"call", "name", "batch"}
      \/ \E f \in Frame :
           /\ PutFrame(f) /\ blk_buffer' = f
           /\ IsBlock(f) => f.seq = 0 /\ f.blk = 0
           /\ Listening => ~DataSent
  <2>1. CASE tyPhase = "call" /\ SendName
    BY <1>2, <1>5, <2>1, NamesAreFrames DEF SendName
  <2>2. CASE tyPhase = "next" /\ SendEndOfBatch
    BY <1>2, <1>5, <2>2, NamesAreFrames DEF SendEndOfBatch
  <2>. QED  BY <1>1, <2>1, <2>2
<1>7. tyPhase = "call" /\ Listening =>
        ryPhase # "start" /\ \A j \in DOMAIN toTx' : toTx'[j] # CHR_C
  <2>. SUFFICES ASSUME Listening
                PROVE  /\ ryPhase # "start"
                       /\ \A j \in DOMAIN toTx' : toTx'[j] # CHR_C
    OBVIOUS
  <2>1. CallsInOrder
    BY DEF YWindowInv
  <2>2. \A j \in DOMAIN toTx' : toTx'[j] # CHR_C
    BY <1>1, <2>1, CallAnswered
  <2>3. ryPhase = "start" => rxpc = "idle"
    BY DEF YWindowInv, YReceiverRunning
  <2>. QED  BY <1>1, <2>1, <2>2, <2>3 DEF CallsInOrder
<1>8. tyPhase' \in {"call", "name"} => txpc = "preambule"
  BY <1>1, <1>2
<1>9. tyTimeout' < MaxTimeout /\ tyRetry' < MaxRetry
  BY <1>1, CountType
<1>10. Listening =>
         \/ tyPhase \notin {"call", "done"}
         \/ /\ ryPhase # "start"
            /\ \A j \in DOMAIN toTx' : toTx'[j] # CHR_C
         \/ tyPhase' \in {"call", "done"} /\ toRx' = toRx
  BY <1>1, <1>7
<1>. QED  BY <1>1, <1>2, <1>3, <1>5, <1>6, <1>8, <1>9, <1>10, TyKeeps

(* A call that does not come.                                              *)
LEMMA TyMissedKeeps ==
  ASSUME YWindowInv, UNCHANGED rxVars, UNCHANGED ryVars,
         TyNotCalled \/ TyCallTimeout
  PROVE  YWindowInv'
<1>1. /\ toTx' = toTx \/ (toTx # <<>> /\ toTx' = Tail(toTx))
      /\ tyPhase \in {"call", "next"}
      /\ tyTimeout' = tyTimeout + 1 /\ tyRetry' = tyRetry
      /\ receivedChar' = receivedChar /\ txFileData' = txFileData
      /\ \/ /\ tyTimeout + 1 < MaxTimeout
            /\ tyPhase' = tyPhase /\ tyResult' = tyResult
         \/ tyPhase' = "done" /\ tyResult' = tyResult
      /\ toRx' = toRx /\ faults' = faults /\ UNCHANGED txVars
  BY DEF TyNotCalled, TyCallTimeout, TyMissed, TyReturn
<1>2. /\ TyTypeOK /\ txpc # "reply"
      /\ tyPhase = "call" => txpc = "preambule"
      /\ tyTimeout \in Nat /\ tyTimeout < MaxTimeout
  BY <1>1, YEmitterFacts
<1>3. tyTimeout' \in 0 .. MaxTimeout
  BY <1>1, <1>2, CountType
<1>4. TyTypeOK'
  BY <1>1, <1>2, <1>3 DEF TyTypeOK
<1>5. UNCHANGED contentsVars /\ blk_buffer' = blk_buffer
  BY <1>1 DEF txVars, contentsVars
<1>6. Listening /\ DataSent => tyPhase' \in {"contents", "next", "done"}
  <2>1. Listening /\ DataSent => tyPhase \in {"contents", "next", "done"}
    BY DEF YWindowInv, CallsInOrder
  <2>. QED  BY <1>1, <2>1
<1>7. /\ tyPhase' \in {"call", "name"} => txpc = "preambule"
      /\ tyPhase' \notin {"contents", "done"} => tyTimeout' < MaxTimeout
      /\ tyPhase' \in {"name", "batch"} => tyRetry' < MaxRetry
      /\ tyPhase' \in {"call", "name", "batch"} =>
           tyPhase \in {"call", "name", "batch"}
      /\ \/ tyPhase \notin {"call", "done"}
         \/ tyPhase' \in {"call", "done"} /\ toRx' = toRx
  BY <1>1, <1>2
<1>. QED  BY <1>1, <1>2, <1>4, <1>5, <1>6, <1>7, TyKeeps

(* The reaction to a reply.                                                *)
LEMMA TyReactKeeps ==
  ASSUME YWindowInv, UNCHANGED rxVars, UNCHANGED ryVars,
         tyPhase \in {"name", "batch"}, NEW c, TyReact(c),
         toTx' = toTx \/ (toTx # <<>> /\ toTx' = Tail(toTx)),
         receivedChar' \in Byte, txFileData' = txFileData
  PROVE  YWindowInv'
<1>1. /\ TyTypeOK /\ txpc # "reply" /\ blk_buffer \in Frame
      /\ tyPhase = "name" => txpc = "preambule"
      /\ tyRetry \in Nat /\ tyRetry < MaxRetry
      /\ IsBlock(blk_buffer) => blk_buffer.seq = 0 /\ blk_buffer.blk = 0
      /\ Listening => ~DataSent
  BY YEmitterFacts
<1>2. tyTimeout' = 0 /\ 0 \in 0 .. MaxTimeout /\ 0 < MaxTimeout
  BY CountType DEF TyReact
<1>3. \/ /\ tyPhase' \in {tyPhase, "contents", "done"}
         /\ tyResult' \in {tyResult, -1}
         /\ UNCHANGED <<toRx, faults, blk_buffer>>
         /\ UNCHANGED contentsVars /\ tyRetry' = tyRetry
      \/ /\ tyPhase' \in {tyPhase, "contents", "done"}
         /\ tyResult' = tyResult
         /\ PutFrame(blk_buffer) /\ blk_buffer' = blk_buffer
         /\ UNCHANGED contentsVars /\ tyRetry' = tyRetry + 1
         /\ tyPhase' = tyPhase => tyRetry + 1 < MaxRetry
  <2>1. CASE c = ACK
    BY <2>1 DEF TyReact, TyProceed, TyReturn, txVars, contentsVars,
                ACK, CAN, NAK
  <2>2. CASE c = CAN
    BY <2>2 DEF TyReact, TyReturn, txVars, contentsVars, ACK, CAN, NAK
  <2>3. CASE c = NAK
    <3>1. /\ tyRetry' = tyRetry + 1 /\ SendAgain /\ UNCHANGED contentsVars
          /\ \/ /\ tyRetry + 1 < MaxRetry
                /\ tyPhase' = tyPhase /\ tyResult' = tyResult
             \/ TyProceed
      BY <2>3 DEF TyReact, ACK, CAN, NAK
    <3>2. PutFrame(blk_buffer) /\ blk_buffer' = blk_buffer
      BY <3>1 DEF SendAgain
    <3>3. /\ tyPhase' \in {tyPhase, "contents", "done"}
          /\ tyResult' = tyResult
          /\ tyPhase' = tyPhase => tyRetry + 1 < MaxRetry
      BY <3>1 DEF TyProceed, TyReturn
    <3>. QED  BY <3>1, <3>2, <3>3
  <2>4. CASE c \notin {ACK, CAN, NAK}
    BY <2>4 DEF TyReact, txVars, contentsVars
  <2>. QED  BY <2>1, <2>2, <2>3, <2>4
<1>4. tyRetry' \in 0 .. MaxRetry /\ (tyPhase' = tyPhase => tyRetry' < MaxRetry)
  BY <1>1, <1>3, CountType
<1>5. TyTypeOK'
  <2>1. tyResult' \in Nat \cup {-1}
    BY <1>1, <1>3 DEF TyTypeOK
  <2>2. tyPhase' \in {"call", "name", "contents", "next", "batch", "done"}
    BY <1>3
  <2>. QED  BY <1>1, <1>2, <1>4, <2>1, <2>2 DEF TyTypeOK
<1>6. /\ tyPhase' \in {tyPhase, "contents", "done"} /\ UNCHANGED contentsVars
      /\ \/ /\ UNCHANGED <<toRx, faults, blk_buffer>>
            /\ tyPhase' \in {"call", "name", "batch"} =>
                 tyPhase \in {"call", "name", "batch"}
         \/ \E f \in Frame :
              /\ PutFrame(f) /\ blk_buffer' = f
              /\ IsBlock(f) => f.seq = 0 /\ f.blk = 0
              /\ Listening => ~DataSent
  <2>1. CASE UNCHANGED <<toRx, faults, blk_buffer>> /\ UNCHANGED contentsVars
    BY <1>3, <2>1
  <2>2. CASE PutFrame(blk_buffer) /\ blk_buffer' = blk_buffer
    BY <1>1, <1>3, <2>2
  <2>. QED  BY <1>3, <2>1, <2>2
<1>7. /\ tyPhase' \in {"call", "name"} => txpc = "preambule"
      /\ tyPhase' \notin {"contents", "done"} => tyTimeout' < MaxTimeout
      /\ tyPhase' \in {"name", "batch"} => tyRetry' < MaxRetry
      /\ tyPhase \notin {"call", "done"}
  BY <1>1, <1>2, <1>4, <1>6
<1>8. Listening /\ DataSent => tyPhase' \in {"contents", "next", "done"}
  BY <1>1
<1>. QED  BY <1>1, <1>5, <1>6, <1>7, <1>8, TyKeeps

LEMMA TyReplyKeeps ==
  ASSUME YWindowInv, UNCHANGED rxVars, UNCHANGED ryVars,
         TyReply \/ TyReplyTimeout
  PROVE  YWindowInv'
<1>1. tyPhase \in {"name", "batch"} /\ txFileData' = txFileData
  BY DEF TyReply, TyReplyTimeout
<1>2. /\ TyTypeOK /\ txpc # "reply"
      /\ tyPhase = "name" => txpc = "preambule"
      /\ tyTimeout \in Nat /\ tyRetry < MaxRetry
      /\ Listening => ~DataSent
  BY <1>1, YEmitterFacts
<1>3. toTx \in Seq(Byte)
  BY YWindowTypes
<1>4. CASE TyReply
  <2>1. /\ toTx # <<>> /\ toTx' = Tail(toTx) /\ receivedChar' = Head(toTx)
        /\ TyReact(Head(toTx))
    BY <1>4 DEF TyReply
  <2>2. receivedChar' \in Byte
    BY <1>3, <2>1, TailChars
  <2>. QED  BY <1>1, <2>1, <2>2, TyReactKeeps
<1>5. CASE TyReplyTimeout
  <2>1. toTx' = toTx /\ receivedChar' = receivedChar /\ receivedChar \in Byte
    BY <1>2, <1>5 DEF TyReplyTimeout, TyTypeOK
  <2>2. CASE TyReact(receivedChar)
    BY <1>1, <2>1, <2>2, TyReactKeeps
  <2>3. CASE /\ tyTimeout + 1 < MaxTimeout
             /\ tyTimeout' = tyTimeout + 1
             /\ UNCHANGED <<toRx, faults, txVars, tyPhase, tyResult, tyRetry>>
    <3>1. tyTimeout' \in 0 .. MaxTimeout /\ tyTimeout' < MaxTimeout
      BY <1>2, <2>3, CountType
    <3>2. TyTypeOK'
      BY <1>1, <1>2, <2>1, <2>3, <3>1 DEF TyTypeOK
    <3>3. /\ UNCHANGED contentsVars /\ UNCHANGED <<toRx, faults, blk_buffer>>
          /\ tyPhase' = tyPhase /\ tyRetry' = tyRetry
      BY <2>3 DEF txVars, contentsVars
    <3>4. /\ tyPhase' \in {"call", "name"} => txpc = "preambule"
          /\ tyPhase' \notin {"contents", "done"} => tyTimeout' < MaxTimeout
          /\ tyPhase' \in {"name", "batch"} => tyRetry' < MaxRetry
          /\ tyPhase' \in {"call", "name", "batch"} =>
               tyPhase \in {"call", "name", "batch"}
          /\ tyPhase \notin {"call", "done"}
      BY <1>1, <1>2, <3>1, <3>3
    <3>5. Listening /\ DataSent => tyPhase' \in {"contents", "next", "done"}
      BY <1>2
    <3>. QED  BY <1>2, <2>1, <3>2, <3>3, <3>4, <3>5, TyKeeps
  <2>. QED  BY <1>5, <2>2, <2>3 DEF TyReplyTimeout
<1>. QED  BY <1>4, <1>5

(* lxmodem_emit has returned.                                              *)
LEMMA TyTransferredKeeps ==
  ASSUME YWindowInv, UNCHANGED rxVars, UNCHANGED ryVars, TyTransferred
  PROVE  YWindowInv'
<1>1. /\ tyPhase = "contents" /\ txpc = "done" /\ tyResult' = emittedBytes
      /\ tyTimeout' = 0 /\ toTx' = toTx /\ UNCHANGED contentsVars
      /\ receivedChar' = receivedChar /\ txFileData' = txFileData
      /\ \/ /\ tyPhase' = "next" /\ tyRetry' = tyRetry
            /\ UNCHANGED <<toRx, faults, blk_buffer>>
         \/ /\ emittedBytes = 0 /\ tyPhase' = "batch" /\ tyRetry' = 0
            /\ SendEndOfBatch
  BY DEF TyTransferred
<1>2. TyTypeOK /\ emittedBytes \in Nat \cup {-1}
  BY YEmitterFacts DEF TxTypeOK
<1>3. /\ tyTimeout' \in 0 .. MaxTimeout /\ tyTimeout' < MaxTimeout
      /\ 0 \in 0 .. MaxRetry /\ 0 < MaxRetry
  BY <1>1, CountType
<1>4. TyTypeOK'
  BY <1>1, <1>2, <1>3 DEF TyTypeOK
<1>5. emittedBytes = 0 => ~DataSent
  BY <1>1 DEF YWindowInv, YEmitterAtBlkNo
<1>6. \/ /\ UNCHANGED <<toRx, faults, blk_buffer>>
         /\ tyPhase' \in {"call", "name", "batch"} =>
              tyPhase \in {"call", "name", "batch"}
      \/ \E f \in Frame :
           /\ PutFrame(f) /\ blk_buffer' = f
           /\ IsBlock(f) => f.seq = 0 /\ f.blk = 0
           /\ Listening => ~DataSent
  <2>1. CASE tyPhase' = "next" /\ UNCHANGED <<toRx, faults, blk_buffer>>
    BY <2>1
  <2>2. CASE emittedBytes = 0 /\ SendEndOfBatch
    BY <1>2, <1>5, <2>2, NamesAreFrames DEF SendEndOfBatch
  <2>. QED  BY <1>1, <2>1, <2>2
<1>7. /\ tyPhase' \in {"call", "name"} => txpc = "preambule"
      /\ tyPhase' \notin {"contents", "done"} => tyTimeout' < MaxTimeout
      /\ tyPhase' \in {"name", "batch"} => tyRetry' < MaxRetry
      /\ tyPhase \notin {"call", "done"} /\ txpc # "reply"
      /\ DataSent => tyPhase' \in {"contents", "next", "done"}
  BY <1>1, <1>3, <1>5
<1>. QED  BY <1>1, <1>4, <1>6, <1>7, TyKeeps

(***************************************************************************)
(* The steps of lxmodem_emit inside.                                       *)
(***************************************************************************)
LEMMA TxWaitKeepsY ==
  ASSUME YWindowInv, UNCHANGED rxVars, UNCHANGED ryVars, UNCHANGED tyVars,
         tyPhase = "contents",
         UNCHANGED <<toRx, faults, txOpts, txRam, blk_buffer>>,
         \/ /\ txpc' = txpc /\ blkNo' = blkNo /\ retry' = retry
            /\ emittedBytes' = emittedBytes
         \/ /\ txpc' = "done" /\ blkNo' \in {blkNo, blkNo + 1}
            /\ emittedBytes' = 0 => ~DataSent,
         retry' \in 0 .. MaxRetry, timeout' \in 0 .. MaxTimeout,
         txpc' = "preambule" => timeout' < MaxTimeout,
         emittedBytes' \in Nat \cup {-1},
         toTx' = toTx \/ (toTx # <<>> /\ toTx' = Tail(toTx))
  PROVE  YWindowInv'
<1>1. /\ toRx' = toRx /\ faults' = faults /\ txRam' = txRam
      /\ txOpts' = txOpts /\ blk_buffer' = blk_buffer
      /\ tyPhase' = "contents" /\ tyTimeout' = tyTimeout
      /\ tyRetry' = tyRetry /\ receivedChar' = receivedChar
      /\ tyResult' = tyResult /\ txFileData' = txFileData
  BY DEF tyVars
<1>2. /\ LineTypeOK /\ toTx \in Seq(Byte) /\ blkNo \in Nat \ {0}
  BY YWindowTypes
<1>3. LineTypeOK'
  <2>1. toTx' \in Seq(Byte)
    BY <1>2, TailChars
  <2>. QED  BY <1>1, <1>2, <2>1 DEF LineTypeOK
<1>4. TxTypeOK' /\ TyTypeOK'
  <2>1. TxTypeOK /\ TyTypeOK
    BY DEF YWindowInv, YTypeOK, TypeOK
  <2>2. blkNo' \in Nat \ {0}
    BY <1>2
  <2>3. txpc' \in {"preambule", "reply", "done"}
    BY <2>1 DEF TxTypeOK
  <2>. QED  BY <1>1, <2>1, <2>2, <2>3 DEF TxTypeOK, TyTypeOK
<1>5. YEmitterAtBlkNo'
  <2>1. YEmitterAtBlkNo
    BY DEF YWindowInv
  <2>2. /\ FileSize' = FileSize /\ defaultBlksize' = defaultBlksize
        /\ BlockOf(blkNo)' = BlockOf(blkNo') /\ (DataSent' <=> DataSent)
        /\ (isLastBlock' <=> isLastBlock)
    BY <1>1 DEF FileSize, defaultBlksize, BlockOf, DataSent, isLastBlock
  <2>3. CASE txpc' = "done"
    BY <1>1, <2>1, <2>2, <2>3 DEF YEmitterAtBlkNo
  <2>4. CASE /\ txpc' = txpc /\ blkNo' = blkNo
             /\ emittedBytes' = emittedBytes
    BY <1>1, <2>1, <2>2, <2>4 DEF YEmitterAtBlkNo
  <2>. QED  BY <2>3, <2>4
<1>6. YEmitterRunning'
  BY <1>1 DEF YWindowInv, YEmitterRunning, EmitterRunning
<1>7. BlocksHoldData'
  BY <1>1, BlocksLeft
<1>8. ASSUME Listening
      PROVE  BlocksInWindow' /\ CallsInOrder'
  <2>1. BlocksInWindow /\ CallsInOrder
    BY <1>8 DEF YWindowInv
  <2>2. /\ expectedBlkNumber' = expectedBlkNumber /\ nbRetry' = nbRetry
        /\ rxData' = rxData
    BY <1>1, EmitterKeepsYReceiver
  <2>3. txpc' = "reply" => txpc = "reply" /\ blkNo' = blkNo
    OBVIOUS
  <2>4. txpc' \in {txpc, "done"}
    OBVIOUS
  <2>5. BlocksInWindow'
    BY <1>1, <2>1, <2>2, <2>3, <2>4, WaitKeepsWindow
  <2>6. CallsInOrder'
    <3>1. DataSent' <=> DataSent
      BY <1>1 DEF DataSent
    <3>. QED  BY <1>1, <2>1, <2>3, <3>1, EmitterKeepsCalls
  <2>. QED  BY <2>5, <2>6
<1>. QED  BY <1>1, <1>3, <1>4, <1>5, <1>6, <1>7, <1>8, EmitterStep

(* A frame is sent, for the first time or again.                           *)
LEMMA TxSendKeepsY ==
  ASSUME YWindowInv, UNCHANGED rxVars, UNCHANGED ryVars, UNCHANGED tyVars,
         tyPhase = "contents", txOpts' = txOpts,
         NEW f \in Frame, PutFrame(f), blk_buffer' = f, f.seq = blkNo',
         \/ txpc = "preambule" /\ blkNo' = 1
         \/ txpc = "reply" /\ blkNo' \in {blkNo, blkNo + 1},
         txpc' = "reply",
         IsBlock(f) =>
           /\ f.blk = f.seq % BlkMod /\ ChunkIn(f) = BlockOf(f.seq)
           /\ DataSent',
         f.hdr = EOT /\ DataSent' => emittedBytes' > 0,
         txRam' \in RamFileType, txRam'.write_offset = txRam.write_offset,
         txRam'.read_offset = Smaller(FileSize, blkNo' * defaultBlksize),
         DataSent => DataSent',
         retry' \in 0 .. MaxRetry, retry' < MaxRetry,
         timeout' \in 0 .. MaxTimeout, emittedBytes' \in Nat,
         toTx' = toTx \/ (toTx # <<>> /\ toTx' = Tail(toTx)),
         Listening =>
           rxpc # "idle" /\ \A j \in DOMAIN toTx' : toTx'[j] # CHR_C
  PROVE  YWindowInv'
<1>1. /\ tyPhase' = "contents" /\ tyTimeout' = tyTimeout
      /\ tyRetry' = tyRetry /\ receivedChar' = receivedChar
      /\ tyResult' = tyResult /\ txFileData' = txFileData
  BY DEF tyVars
<1>2. /\ LineTypeOK /\ toTx \in Seq(Byte) /\ blkNo \in Nat \ {0}
  BY YWindowTypes
<1>3. HoldsItsData(f)
  BY DEF HoldsItsData
<1>4. /\ toRx' \in Seq(Frame) /\ BlocksHoldData'
      /\ faults' \in 0 .. MaxFaults
  BY <1>3, BlocksSent
<1>5. LineTypeOK'
  <2>1. toTx' \in Seq(Byte)
    BY <1>2, TailChars
  <2>. QED  BY <1>4, <2>1 DEF LineTypeOK
<1>6. blkNo' \in Nat \ {0}
  BY <1>2
<1>7. TxTypeOK' /\ TyTypeOK'
  BY <1>1, <1>6 DEF YWindowInv, YTypeOK, TypeOK, TxTypeOK, TyTypeOK
<1>8. YEmitterRunning'
  BY <1>1 DEF YEmitterRunning, EmitterRunning
<1>9. YEmitterAtBlkNo'
  <2>1. /\ FileSize' = FileSize /\ defaultBlksize' = defaultBlksize
        /\ \A k : BlockOf(k)' = BlockOf(k)
    BY FrozenFile
  <2>2. FileSize < HalfWord /\ FileSize \in Nat
    BY YWindowTypes DEF YWindowInv, YEmitterAtBlkNo
  <2>3. blkNo' * defaultBlksize \in Nat
    <3>1. \A a \in Nat, b \in Nat : a * b \in Nat
      OBVIOUS
    <3>. QED  BY <3>1, <1>6, BlksizeType
  <2>4. txRam'.read_offset <= FileSize
    BY <2>2, <2>3 DEF Smaller
  <2>5. IsBlock(f) =>
          /\ f.blk = blkNo' % BlkMod /\ ChunkIn(f) = BlockOf(blkNo')
          /\ DataSent'
    OBVIOUS
  <2>6. BlockOf(blkNo)' = BlockOf(blkNo')
    BY <2>1 DEF BlockOf
  <2>7. isLastBlock' /\ DataSent' => emittedBytes' > 0
    BY DEF isLastBlock
  <2>. QED  BY <1>1, <2>1, <2>2, <2>4, <2>5, <2>6, <2>7
            DEF YEmitterAtBlkNo
<1>10. ASSUME Listening
       PROVE  BlocksInWindow' /\ CallsInOrder'
  <2>1. BlocksInWindow /\ CallsInOrder
    BY <1>10 DEF YWindowInv
  <2>2. ~DataSent' => ~DataSent /\ ~IsBlock(f)
    OBVIOUS
  <2>3. BlocksInWindow'
    BY <2>1, <2>2, SendKeepsWindow
  <2>4. CallsInOrder'
    BY <1>1, <1>10, <2>1, EmitterKeepsCalls
  <2>. QED  BY <2>3, <2>4
<1>. QED  BY <1>4, <1>5, <1>7, <1>8, <1>9, <1>10, EmitterStep

(* What lxmode_build_and_send_one_data_block has read.                     *)
LEMMA DataOrEnd ==
  ASSUME txRam \in RamFileType, NEW k \in Nat \ {0},
         txRam.read_offset <= FileSize, FileSize < HalfWord
  PROVE  /\ IsBlock(DataBlock(k)) => FileSize > 0
         /\ DataBlock(k).hdr = EOT => txRam.read_offset = FileSize
<1>1. FileSize \in Nat /\ txRam.read_offset \in Nat
  BY DEF FileSize, RamFileType
<1>2. lmodem_buffer_get_size(txRam) = FileSize - txRam.read_offset
  BY SizeLeft DEF FileSize
<1>3. defaultBlksize \in Nat \ {0}
  BY BlksizeType
<1>4. bytesToRead = 0 <=> txRam.read_offset = FileSize
  BY <1>1, <1>2, <1>3 DEF bytesToRead
<1>5. bytesToRead = 0 => ~IsBlock(DataBlock(k))
  BY DEF DataBlock, CharFrame, IsBlock, EOT, SOH, STX
<1>6. bytesToRead # 0 => DataBlock(k).hdr # EOT
  BY DEF DataBlock, EOT, SOH, STX
<1>7. FileSize = 0 => txRam.read_offset = FileSize
  BY <1>1
<1>. QED  BY <1>1, <1>4, <1>5, <1>6, <1>7

(* The next frame of the file.                                             *)
LEMMA SendNextKeepsY ==
  ASSUME YWindowInv, UNCHANGED rxVars, UNCHANGED ryVars, UNCHANGED tyVars,
         tyPhase = "contents", txOpts' = txOpts,
         NEW k \in Nat \ {0}, SendNext(k), blkNo' = k,
         txRam.read_offset = Smaller(FileSize, (k - 1) * defaultBlksize),
         \/ txpc = "preambule" /\ k = 1
         \/ txpc = "reply" /\ k = blkNo + 1 /\ emittedBytes' > 0,
         txpc' = "reply", retry' = 0, timeout' = 0,
         emittedBytes' \in Nat,
         toTx' = toTx \/ (toTx # <<>> /\ toTx' = Tail(toTx)),
         Listening =>
           rxpc # "idle" /\ \A j \in DOMAIN toTx' : toTx'[j] # CHR_C
  PROVE  YWindowInv'
<1>. DEFINE f == DataBlock(k)
<1>1. /\ txRam \in RamFileType /\ FileSize \in Nat
      /\ txRam.read_offset <= FileSize /\ FileSize < HalfWord
      /\ txpc = "preambule" => ~DataSent
  BY YWindowTypes DEF YWindowInv, YEmitterAtBlkNo
<1>2. /\ f \in Frame /\ f.seq = k
      /\ IsBlock(f) => f.blk = k % BlkMod /\ ChunkIn(f) = BlockOf(k)
      /\ lmodem_buffer_read(txRam, bytesToRead) =
           [txRam EXCEPT !.read_offset = Smaller(FileSize, k * defaultBlksize)]
  BY <1>1, DataBlockIsBlockOf
<1>3. /\ IsBlock(f) => FileSize > 0
      /\ f.hdr = EOT => txRam.read_offset = FileSize
  BY <1>1, DataOrEnd
<1>4. /\ blk_buffer' = f /\ PutFrame(f)
      /\ txRam' = lmodem_buffer_read(txRam, bytesToRead)
  BY DEF SendNext
<1>. HIDE DEF f
<1>5. k * defaultBlksize \in Nat \ {0}
  <2>1. \A a \in Nat \ {0}, b \in Nat \ {0} : a * b \in Nat \ {0}
    OBVIOUS
  <2>. QED  BY <2>1, BlksizeType
<1>. DEFINE r == Smaller(FileSize, k * defaultBlksize)
<1>6. r \in Nat /\ r <= FileSize /\ (FileSize > 0 => r > 0)
  <2>. DEFINE p == k * defaultBlksize
  <2>1. p \in Nat \ {0}
    BY <1>5
  <2>. HIDE DEF p
  <2>. QED  BY <2>1, <1>1 DEF Smaller, p
<1>. HIDE DEF r
<1>7. /\ txRam' \in RamFileType
      /\ txRam'.write_offset = txRam.write_offset
      /\ txRam'.read_offset = r
  <2>1. txRam' = [txRam EXCEPT !.read_offset = r] /\ r \in Nat
    BY <1>2, <1>4, <1>6 DEF r
  <2>. QED  BY <2>1, <1>1 DEF RamFileType
<1>8. r = Smaller(FileSize, blkNo' * defaultBlksize)
  BY DEF r
<1>9. DataSent => DataSent'
  <2>1. DataSent => FileSize > 0
    BY <1>1 DEF DataSent, RamFileType
  <2>. QED  BY <2>1, <1>6, <1>7 DEF DataSent
<1>10. IsBlock(f) => DataSent'
  BY <1>3, <1>6, <1>7 DEF DataSent
<1>11. f.hdr = EOT /\ DataSent' => emittedBytes' > 0
  <2>1. CASE txpc = "reply"
    BY <2>1
  <2>2. CASE txpc = "preambule"
    <3>1. txRam.read_offset = 0
      BY <1>1, <2>2 DEF DataSent, RamFileType
    <3>2. f.hdr = EOT => FileSize = 0
      BY <1>3, <3>1
    <3>3. FileSize = 0 => r = 0
      BY <1>1, <1>6
    <3>4. f.hdr = EOT => ~DataSent'
      BY <3>2, <3>3, <1>7 DEF DataSent
    <3>. QED  BY <3>4
  <2>. QED  BY <2>1, <2>2
<1>12. /\ retry' \in 0 .. MaxRetry /\ retry' < MaxRetry
       /\ timeout' \in 0 .. MaxTimeout
  BY CountType
<1>. QED  BY <1>2, <1>4, <1>7, <1>8, <1>9, <1>10, <1>11, <1>12, TxSendKeepsY

(* The preamble: the receiver has called, and by a name been made to call  *)
(* again.                                                                  *)
LEMMA TxPreambuleKeepsY ==
  ASSUME YWindowInv, UNCHANGED rxVars, UNCHANGED ryVars, UNCHANGED tyVars,
         tyPhase = "contents", TxPreambule
  PROVE  YWindowInv'
<1>1. /\ txpc = "preambule" /\ toTx # <<>> /\ toTx' = Tail(toTx)
      /\ Head(toTx) \in {CHR_C, NAK} /\ txOpts' = txOpts
      /\ blkNo' = 1 /\ retry' = 0 /\ timeout' = 0 /\ emittedBytes' = 0
      /\ txpc' = "reply" /\ SendNext(1)
  BY DEF TxPreambule, lxmodem_decode_preambule
<1>2. txRam.read_offset = 0 /\ FileSize \in Nat
  BY <1>1, YWindowTypes
  DEF YWindowInv, YEmitterAtBlkNo, DataSent, RamFileType
<1>3. (1 - 1) * defaultBlksize = 0
  BY BlksizeType
<1>4. txRam.read_offset = Smaller(FileSize, (1 - 1) * defaultBlksize)
  BY <1>2, <1>3 DEF Smaller
<1>5. 1 \in Nat \ {0} /\ 0 \in Nat
  OBVIOUS
<1>6. ASSUME Listening
      PROVE  rxpc # "idle" /\ \A j \in DOMAIN toTx' : toTx'[j] # CHR_C
  <2>1. CallsInOrder
    BY <1>6 DEF YWindowInv
  <2>2. \A j \in DOMAIN Tail(toTx) : Tail(toTx)[j] # CHR_C
    BY <1>1, <2>1, CallAnswered
  <2>3. 1 \in DOMAIN toTx /\ Head(toTx) = toTx[1]
    BY <1>1, YWindowTypes, TailChars
  <2>4. rxpc # "idle"
    BY <1>1, <2>1, <2>3 DEF CallsInOrder
  <2>. QED  BY <1>1, <2>2, <2>4
<1>. QED  BY <1>1, <1>4, <1>5, <1>6, SendNextKeepsY

(* Two frames that are no blocks come onto the line.                       *)
LEMMA CancelSent ==
  ASSUME YWindowInv, NEW seq \in Nat, PutCancelFrames(seq)
  PROVE  /\ toRx' \in Seq(Frame) /\ faults' \in 0 .. MaxFaults
         /\ \A i \in DOMAIN toRx' :
              \/ ~IsBlock(toRx'[i])
              \/ \E j \in DOMAIN toRx : toRx'[i] = toRx[j]
<1>. DEFINE can == CharFrame(CAN, seq)
            Added ==
              \E g \in Frame, h \in Frame :
                /\ ~IsBlock(g) /\ ~IsBlock(h)
                /\ toRx' \in {Append(toRx, g), Append(Append(toRx, g), h)}
<1>1. /\ toRx \in Seq(Frame) /\ faults \in 0 .. MaxFaults
  BY YWindowTypes DEF LineTypeOK
<1>2. /\ can \in Frame /\ ~IsBlock(can)
      /\ \A g \in Damaged(can) : g \in Frame /\ ~IsBlock(g)
  <2>1. can \in Frame
    BY LModemAssumption DEF CharFrame, NoMeta, Meta, CAN, Frame, Byte, BlkNumber
  <2>2. ~IsBlock(can)
    BY DEF CharFrame, CAN, IsBlock, SOH, STX
  <2>. HIDE DEF can
  <2>. QED  BY <2>1, <2>2, DamagedFrame
<1>3. \A g \in Frame, h \in Frame :
        toRx \o <<g, h>> = Append(Append(toRx, g), h)
  BY <1>1
<1>4. faults + 1 \in 0 .. MaxFaults \/ ~(faults < MaxFaults)
  BY <1>1, LineAssumption
<1>5. faults' \in 0 .. MaxFaults /\ Added
  <2>. HIDE DEF can
  <2>1. CASE toRx' = toRx \o <<can, can>> /\ UNCHANGED faults
    BY <1>1, <1>2, <1>3, <2>1
  <2>2. CASE Fault("lose") /\ toRx' = Append(toRx, can)
    BY <1>2, <1>4, <2>2 DEF Fault
  <2>3. ASSUME Fault("damage"), NEW g \in Damaged(can),
               toRx' \in {toRx \o <<g, can>>, toRx \o <<can, g>>}
        PROVE  faults' \in 0 .. MaxFaults /\ Added
    <3>1. /\ g \in Frame /\ ~IsBlock(g)
          /\ \/ toRx' = Append(Append(toRx, g), can)
             \/ toRx' = Append(Append(toRx, can), g)
      BY <1>2, <1>3, <2>3
    <3>2. faults' \in 0 .. MaxFaults
      BY <1>4, <2>3 DEF Fault
    <3>. QED  BY <1>2, <3>1, <3>2
  <2>. QED  BY <2>1, <2>2, <2>3 DEF PutCancelFrames, can
<1>6. PICK g \in Frame, h \in Frame :
        /\ ~IsBlock(g) /\ ~IsBlock(h)
        /\ toRx' \in {Append(toRx, g), Append(Append(toRx, g), h)}
  BY <1>5
<1>7. /\ Append(toRx, g) \in Seq(Frame)
      /\ \A i \in DOMAIN Append(toRx, g) :
           \/ ~IsBlock(Append(toRx, g)[i])
           \/ \E j \in DOMAIN toRx : Append(toRx, g)[i] = toRx[j]
  BY <1>1, <1>6, AppendedFrames
<1>8. CASE toRx' = Append(toRx, g)
  BY <1>5, <1>7, <1>8
<1>9. CASE toRx' = Append(Append(toRx, g), h)
  <2>. DEFINE q == Append(toRx, g)
  <2>1. q \in Seq(Frame) /\ toRx' = Append(q, h)
    BY <1>7, <1>9
  <2>2. \A i \in DOMAIN q : ~IsBlock(q[i]) \/ \E j \in DOMAIN toRx : q[i] = toRx[j]
    BY <1>7
  <2>. HIDE DEF q
  <2>3. /\ toRx' \in Seq(Frame)
        /\ \A i \in DOMAIN toRx' :
             \/ i \in DOMAIN q /\ toRx'[i] = q[i]
             \/ toRx'[i] = h
    BY <2>1, AppendedFrames
  <2>. QED  BY <1>5, <1>6, <2>2, <2>3
<1>. QED  BY <1>6, <1>8, <1>9

(* Another character in place of the preamble: the two cancels.            *)
LEMMA TxPreambuleRefusedKeepsY ==
  ASSUME YWindowInv, UNCHANGED rxVars, UNCHANGED ryVars, UNCHANGED tyVars,
         tyPhase = "contents", TxPreambuleRefused
  PROVE  YWindowInv'
<1>1. /\ txpc = "preambule" /\ toTx # <<>> /\ toTx' = Tail(toTx)
      /\ PutCancelFrames(blkNo)
      /\ txpc' = "done" /\ emittedBytes' = -1
      /\ txOpts' = txOpts /\ blkNo' = blkNo /\ retry' = retry
      /\ timeout' = timeout /\ txRam' = txRam /\ blk_buffer' = blk_buffer
  BY DEF TxPreambuleRefused
<1>2. /\ tyPhase' = "contents" /\ tyTimeout' = tyTimeout
      /\ tyRetry' = tyRetry /\ receivedChar' = receivedChar
      /\ tyResult' = tyResult /\ txFileData' = txFileData
  BY DEF tyVars
<1>3. /\ LineTypeOK /\ toTx \in Seq(Byte) /\ blkNo \in Nat /\ nbRetry \in Nat
      /\ rxData \in Seq(Chunk)
  BY YWindowTypes
<1>4. /\ toRx' \in Seq(Frame) /\ faults' \in 0 .. MaxFaults
      /\ \A i \in DOMAIN toRx' :
           \/ ~IsBlock(toRx'[i])
           \/ \E j \in DOMAIN toRx : toRx'[i] = toRx[j]
  BY <1>1, <1>3, CancelSent
<1>5. LineTypeOK'
  <2>1. toTx' \in Seq(Byte)
    BY <1>1, <1>3, TailChars
  <2>. QED  BY <1>4, <2>1 DEF LineTypeOK
<1>6. BlocksHoldData'
  BY <1>1, <1>4, BlocksKept
<1>7. TxTypeOK' /\ TyTypeOK' /\ YEmitterRunning'
  BY <1>1, <1>2 DEF YWindowInv, YTypeOK, TypeOK, TxTypeOK, TyTypeOK,
                    YEmitterRunning, EmitterRunning
<1>8. YEmitterAtBlkNo'
  <2>1. YEmitterAtBlkNo
    BY DEF YWindowInv
  <2>2. FileSize' = FileSize /\ (DataSent' <=> DataSent)
    BY <1>1 DEF FileSize, DataSent
  <2>. QED  BY <1>1, <1>2, <2>1, <2>2 DEF YEmitterAtBlkNo
<1>9. ASSUME Listening
      PROVE  BlocksInWindow' /\ CallsInOrder'
  <2>1. BlocksInWindow /\ CallsInOrder
    BY <1>9 DEF YWindowInv
  <2>2. ~DataSent /\ (DataSent' <=> DataSent)
    BY <1>1 DEF YWindowInv, YEmitterAtBlkNo, DataSent
  <2>3. /\ expectedBlkNumber' = expectedBlkNumber /\ nbRetry' = nbRetry
        /\ rxData' = rxData
    BY <1>1, EmitterKeepsYReceiver
  <2>4. /\ expectedBlkNumber - 1 = 0 /\ Len(rxData) = 0
        /\ \A i \in DOMAIN toRx : IsBlock(toRx[i]) => toRx[i].seq = 0
    BY <2>1, <2>2 DEF BlocksInWindow
  <2>5. expectedBlkNumber' = 1 /\ rxData' = <<>>
    BY <1>3, <2>3, <2>4, YWindowTypes
  <2>6. \A i \in DOMAIN toRx' : IsBlock(toRx'[i]) => toRx'[i].seq = 0
    BY <1>4, <2>4
  <2>7. faults' \in Nat /\ nbRetry' \in Nat
    BY <1>3, <1>4, <2>3
  <2>8. BlocksInWindow'
    BY <1>1, <1>4, <2>5, <2>6, <2>7, NamesKeepWindow
  <2>9. CallsInOrder'
    BY <1>1, <1>2, <2>1, <2>2, EmitterKeepsCalls
  <2>. QED  BY <2>8, <2>9
<1>. QED  BY <1>1, <1>5, <1>6, <1>7, <1>8, <1>9, EmitterStep

(* No preamble: after MaxTimeout reads lxmodem_emit returns.               *)
LEMMA TxPreambuleTimeoutKeepsY ==
  ASSUME YWindowInv, UNCHANGED rxVars, UNCHANGED ryVars, UNCHANGED tyVars,
         tyPhase = "contents", TxPreambuleTimeout
  PROVE  YWindowInv'
<1>1. /\ txpc = "preambule" /\ timeout' = timeout + 1
      /\ txpc' = (IF timeout + 1 < MaxTimeout THEN txpc ELSE "done")
      /\ UNCHANGED <<toRx, faults, txOpts, txRam, blk_buffer>>
      /\ toTx' = toTx /\ blkNo' = blkNo /\ retry' = retry
      /\ emittedBytes' = emittedBytes
  BY DEF TxPreambuleTimeout, lineVars
<1>2. /\ timeout \in Nat /\ timeout < MaxTimeout /\ ~DataSent
      /\ retry \in 0 .. MaxRetry /\ emittedBytes \in Nat \cup {-1}
  BY <1>1, LModemAssumption
  DEF YWindowInv, YTypeOK, TypeOK, TxTypeOK, YEmitterRunning, EmitterRunning,
      YEmitterAtBlkNo
<1>3. timeout' \in 0 .. MaxTimeout
  BY <1>1, <1>2, LModemAssumption
<1>4. txpc' = "preambule" => timeout' < MaxTimeout
  BY <1>1
<1>5. \/ txpc' = txpc
      \/ txpc' = "done"
  BY <1>1
<1>. QED  BY <1>1, <1>2, <1>3, <1>4, <1>5, TxWaitKeepsY

(* While lxmodem_emit is in its loop no call is on its way.                *)
LEMMA LoopHasNoCalls ==
  ASSUME YWindowInv, Listening, txpc = "reply",
         toTx' = toTx \/ (toTx # <<>> /\ toTx' = Tail(toTx))
  PROVE  rxpc # "idle" /\ \A j \in DOMAIN toTx' : toTx'[j] # CHR_C
<1>1. rxpc # "idle" /\ \A j \in DOMAIN toTx : toTx[j] # CHR_C
  BY DEF YWindowInv, CallsInOrder
<1>2. toTx \in Seq(Byte)
  BY YWindowTypes
<1>3. CASE toTx # <<>> /\ toTx' = Tail(toTx)
  BY <1>1, <1>2, <1>3, TailChars
<1>. QED  BY <1>1, <1>3

(* An error on the current frame: the end, or the same frame again.        *)
LEMMA TxErrorKeepsY ==
  ASSUME YWindowInv, UNCHANGED rxVars, UNCHANGED ryVars, UNCHANGED tyVars,
         tyPhase = "contents", UNCHANGED <<txOpts, blkNo>>, txpc = "reply",
         NEW limit \in Nat, limit <= MaxRetry, TxError(limit),
         toTx' = toTx \/ (toTx # <<>> /\ toTx' = Tail(toTx))
  PROVE  YWindowInv'
<1>1. /\ retry \in Nat /\ retry < MaxRetry /\ emittedBytes \in Nat
      /\ blkNo \in Nat \ {0} /\ blk_buffer \in Frame /\ txRam \in RamFileType
  BY DEF YWindowInv, YTypeOK, TypeOK, TxTypeOK, YEmitterRunning,
         EmitterRunning
<1>2. /\ retry' = retry + 1 /\ retry' \in 0 .. MaxRetry
      /\ timeout' = 0 /\ timeout' \in 0 .. MaxTimeout
  BY <1>1, LModemAssumption DEF TxError
<1>3. CASE retry + 1 >= limit /\ TxStop(-1)
  <2>1. /\ txpc' = "done" /\ emittedBytes' = -1 /\ blkNo' = blkNo
        /\ UNCHANGED <<toRx, faults, txOpts, txRam, blk_buffer>>
    BY <1>3 DEF TxStop
  <2>. QED  BY <1>2, <2>1, TxWaitKeepsY
<1>4. CASE retry + 1 < limit /\ SendAgain /\ UNCHANGED <<txpc, emittedBytes>>
  <2>1. /\ PutFrame(blk_buffer) /\ blk_buffer' = blk_buffer
        /\ txRam' = txRam /\ txpc' = "reply" /\ retry' < MaxRetry
        /\ emittedBytes' = emittedBytes /\ blkNo' = blkNo
        /\ txOpts' = txOpts
    BY <1>1, <1>2, <1>4, LModemAssumption DEF SendAgain
  <2>2. /\ blk_buffer.seq = blkNo
        /\ txRam.read_offset = Smaller(FileSize, blkNo * defaultBlksize)
        /\ IsBlock(blk_buffer) =>
             /\ DataSent
             /\ blk_buffer.blk = blkNo % BlkMod
             /\ ChunkIn(blk_buffer) = BlockOf(blkNo)
        /\ isLastBlock /\ DataSent => emittedBytes > 0
    BY DEF YWindowInv, YEmitterAtBlkNo
  <2>3. DataSent' <=> DataSent
    BY <2>1 DEF DataSent
  <2>4. blk_buffer.hdr = EOT /\ DataSent' => emittedBytes' > 0
    BY <2>1, <2>2, <2>3 DEF isLastBlock
  <2>5. Listening =>
          rxpc # "idle" /\ \A j \in DOMAIN toTx' : toTx'[j] # CHR_C
    BY LoopHasNoCalls
  <2>6. IsBlock(blk_buffer) =>
          /\ blk_buffer.blk = blk_buffer.seq % BlkMod
          /\ ChunkIn(blk_buffer) = BlockOf(blk_buffer.seq)
          /\ DataSent'
    BY <2>2, <2>3
  <2>7. /\ blk_buffer.seq = blkNo' /\ blkNo' \in {blkNo, blkNo + 1}
        /\ txRam'.read_offset = Smaller(FileSize, blkNo' * defaultBlksize)
        /\ txRam' \in RamFileType
        /\ txRam'.write_offset = txRam.write_offset
        /\ emittedBytes' \in Nat
    BY <1>1, <2>1, <2>2
  <2>. QED  BY <1>1, <1>2, <2>1, <2>3, <2>4, <2>5, <2>6, <2>7, TxSendKeepsY
<1>. QED  BY <1>3, <1>4 DEF TxError

(* ACK: the next frame of the file, or the end.                            *)
LEMMA TxAckKeepsY ==
  ASSUME YWindowInv, UNCHANGED rxVars, UNCHANGED ryVars, UNCHANGED tyVars,
         tyPhase = "contents", TxAck
  PROVE  YWindowInv'
<1>1. /\ txpc = "reply" /\ toTx # <<>> /\ toTx' = Tail(toTx)
      /\ txOpts' = txOpts /\ blkNo' = blkNo + 1 /\ retry' = 0 /\ timeout' = 0
  BY DEF TxAck, ReplyArrived
<1>2. /\ blkNo \in Nat \ {0} /\ emittedBytes \in Nat
      /\ retry' \in 0 .. MaxRetry /\ timeout' \in 0 .. MaxTimeout
      /\ retry' < MaxRetry
  BY <1>1, LModemAssumption
  DEF YWindowInv, YTypeOK, TypeOK, TxTypeOK, YEmitterRunning, EmitterRunning
<1>3. CASE isLastBlock /\ TxStop(emittedBytes)
  <2>1. /\ txpc' = "done" /\ emittedBytes' = emittedBytes
        /\ UNCHANGED <<toRx, faults, txOpts, txRam, blk_buffer>>
    BY <1>1, <1>3 DEF TxStop
  <2>2. emittedBytes' = 0 => ~DataSent
    BY <1>1, <1>3, <2>1 DEF YWindowInv, YEmitterAtBlkNo
  <2>. QED  BY <1>1, <1>2, <2>1, <2>2, TxWaitKeepsY
<1>4. CASE /\ ~isLastBlock
           /\ emittedBytes' = emittedBytes + nbEmitted
           /\ SendNext(blkNo + 1)
           /\ UNCHANGED txpc
  <2>1. nbEmitted \in Nat \ {0}
    BY <1>4, LModemAssumption DEF nbEmitted, BlkSize
  <2>2. emittedBytes' \in Nat /\ emittedBytes' > 0
    BY <2>1, <1>2, <1>4
  <2>. DEFINE k == blkNo + 1
  <2>3. k \in Nat \ {0} /\ k - 1 = blkNo
    BY <1>2
  <2>4. txRam.read_offset = Smaller(FileSize, (k - 1) * defaultBlksize)
    BY <1>1, <2>3 DEF YWindowInv, YEmitterAtBlkNo
  <2>5. SendNext(k) /\ blkNo' = k /\ txpc' = "reply"
    BY <1>1, <1>4
  <2>6. k = blkNo + 1
    OBVIOUS
  <2>7. Listening =>
          rxpc # "idle" /\ \A j \in DOMAIN toTx' : toTx'[j] # CHR_C
    BY <1>1, LoopHasNoCalls
  <2>. HIDE DEF k
  <2>. QED  BY <2>2, <2>3, <2>4, <2>5, <2>6, <2>7, <1>1, SendNextKeepsY
<1>. QED  BY <1>3, <1>4 DEF TxAck

(* No reply: MaxTimeout failed reads are one error.                        *)
LEMMA TxTimeoutKeepsY ==
  ASSUME YWindowInv, UNCHANGED rxVars, UNCHANGED ryVars, UNCHANGED tyVars,
         tyPhase = "contents", TxTimeout
  PROVE  YWindowInv'
<1>1. /\ txpc = "reply" /\ UNCHANGED <<txOpts, blkNo>> /\ toTx' = toTx
      /\ timeout \in Nat /\ retry \in 0 .. MaxRetry
      /\ emittedBytes \in Nat \cup {-1}
      /\ MaxRetry \in Nat /\ MaxTimeout \in Nat
  BY LModemAssumption
  DEF TxTimeout, lineVars, YWindowInv, YTypeOK, TypeOK, TxTypeOK
<1>2. CASE /\ timeout + 1 < MaxTimeout
           /\ timeout' = timeout + 1
           /\ UNCHANGED <<lineVars, txpc, retry, emittedBytes, txRam,
                          blk_buffer>>
  <2>1. /\ timeout' \in 0 .. MaxTimeout
        /\ txpc' = txpc /\ blkNo' = blkNo /\ retry' = retry
        /\ emittedBytes' = emittedBytes
        /\ UNCHANGED <<toRx, faults, txOpts, txRam, blk_buffer>>
    BY <1>1, <1>2 DEF lineVars
  <2>2. txpc' = "preambule" => timeout' < MaxTimeout
    BY <1>2
  <2>. QED  BY <1>1, <2>1, <2>2, TxWaitKeepsY
<1>3. CASE timeout + 1 >= MaxTimeout /\ TxError(MaxRetry)
  BY <1>1, <1>3, TxErrorKeepsY
<1>. QED  BY <1>2, <1>3 DEF TxTimeout

(* Every step of the emitter keeps the invariant.                          *)
LEMMA YTxNextKeeps ==
  ASSUME YWindowInv, YTxNext
  PROVE  YWindowInv'
<1>1. UNCHANGED rxVars /\ UNCHANGED ryVars
  BY DEF YTxNext
<1>2. CASE TyReceives
  <2>1. CASE TyCalled
    BY <1>1, <2>1, TyCalledKeeps
  <2>2. CASE TyNotCalled
    BY <1>1, <2>2, TyMissedKeeps
  <2>3. CASE TyReply
    BY <1>1, <2>3, TyReplyKeeps
  <2>. QED  BY <1>2, <2>1, <2>2, <2>3 DEF TyReceives
<1>3. CASE TyTimeouts
  <2>1. CASE TyCallTimeout
    BY <1>1, <2>1, TyMissedKeeps
  <2>2. CASE TyReplyTimeout
    BY <1>1, <2>2, TyReplyKeeps
  <2>. QED  BY <1>3, <2>1, <2>2 DEF TyTimeouts
<1>4. CASE TyTransferred
  BY <1>1, <1>4, TyTransferredKeeps
<1>5. ASSUME tyPhase = "contents", UNCHANGED tyVars,
             TxReceives \/ TxPreambuleTimeout \/ TxTimeout
      PROVE  YWindowInv'
  <2>1. CASE TxPreambule
    BY <1>1, <1>5, <2>1, TxPreambuleKeepsY
  <2>2. CASE TxPreambuleRefused
    BY <1>1, <1>5, <2>2, TxPreambuleRefusedKeepsY
  <2>3. CASE TxAck
    BY <1>1, <1>5, <2>3, TxAckKeepsY
  <2>4. CASE TxNak
    <3>1. /\ txpc = "reply" /\ toTx # <<>> /\ toTx' = Tail(toTx)
          /\ TxError(MaxRetry) /\ UNCHANGED <<txOpts, blkNo>>
          /\ MaxRetry \in Nat /\ MaxRetry <= MaxRetry
      BY <2>4, LModemAssumption DEF TxNak, ReplyArrived
    <3>. QED  BY <1>1, <1>5, <3>1, TxErrorKeepsY
  <2>5. CASE TxOther
    <3>. DEFINE limit == IF MaxRetry < 2 THEN MaxRetry ELSE 2
    <3>1. /\ txpc = "reply" /\ toTx # <<>> /\ toTx' = Tail(toTx)
          /\ TxError(limit) /\ UNCHANGED <<txOpts, blkNo>>
          /\ limit \in Nat /\ limit <= MaxRetry
      BY <2>5, LModemAssumption DEF TxOther, ReplyArrived
    <3>. HIDE DEF limit
    <3>. QED  BY <1>1, <1>5, <3>1, TxErrorKeepsY
  <2>6. CASE TxPreambuleTimeout
    BY <1>1, <1>5, <2>6, TxPreambuleTimeoutKeepsY
  <2>7. CASE TxTimeout
    BY <1>1, <1>5, <2>7, TxTimeoutKeepsY
  <2>. QED  BY <1>5, <2>1, <2>2, <2>3, <2>4, <2>5, <2>6, <2>7 DEF TxReceives
<1>. QED  BY <1>2, <1>3, <1>4, <1>5 DEF YTxNext

(***************************************************************************)
(* The line, the end and the beginning; and what follows.                  *)
(***************************************************************************)
(* A character of noise is no block; it costs a fault, as a block does     *)
(* that it makes the receiver wait for.                                    *)
LEMMA LineNoiseKeeps ==
  ASSUME YWindowInv, LineNoise
  PROVE  YWindowInv'
<1>1. /\ UNCHANGED rxVars /\ UNCHANGED txVars
      /\ UNCHANGED ryVars /\ UNCHANGED tyVars
      /\ toTx' = toTx /\ faults < MaxFaults /\ faults' = faults + 1
      /\ \E c \in NoiseBytes : toRx' = Append(toRx, CharFrame(c, 0))
  BY DEF LineNoise, Noise, Fault
<1>2. PICK c \in NoiseBytes : toRx' = Append(toRx, CharFrame(c, 0))
  BY <1>1
<1>. DEFINE g == CharFrame(c, 0)
<1>3. g \in Frame /\ ~IsBlock(g)
  <2>1. c \in Byte \ {SOH, STX}
    BY LineAssumption
  <2>2. g \in Frame
    BY <2>1, LModemAssumption
    DEF CharFrame, NoMeta, Meta, Frame, Byte, BlkNumber
  <2>3. g.hdr = c
    BY DEF CharFrame
  <2>. QED  BY <2>1, <2>2, <2>3 DEF IsBlock
<1>4. toRx' = Append(toRx, g)
  BY <1>2
<1>. HIDE DEF g
<1>5. /\ LineTypeOK /\ toRx \in Seq(Frame) /\ toTx \in Seq(Byte)
      /\ faults \in Nat
  BY YWindowTypes
<1>6. /\ toRx' \in Seq(Frame)
      /\ \A i \in DOMAIN toRx' :
           \/ i \in DOMAIN toRx /\ toRx'[i] = toRx[i]
           \/ ~IsBlock(toRx'[i])
  BY <1>3, <1>4, <1>5, AppendedFrames
<1>7. /\ TxTypeOK' /\ TyTypeOK' /\ YEmitterAtBlkNo' /\ YEmitterRunning'
      /\ txOpts' = txOpts /\ txRam' = txRam
  BY <1>1, ReceiverKeepsYEmitter
<1>8. LineTypeOK'
  <2>1. faults' \in 0 .. MaxFaults
    BY <1>1, <1>5, LineAssumption
  <2>. QED  BY <1>1, <1>5, <1>6, <2>1 DEF LineTypeOK
<1>9. BlocksHoldData'
  BY <1>6, <1>7, BlocksKept
<1>10. ASSUME Listening
       PROVE  BlocksInWindow' /\ CallsInOrder'
  <2>1. BlocksInWindow /\ CallsInOrder
    BY <1>10 DEF YWindowInv
  <2>2. BlocksInWindow'
    BY <1>1, <1>3, <1>4, <2>1, NoiseKeepsWindow
  <2>3. (DataSent' <=> DataSent) /\ txpc' = txpc /\ tyPhase' = tyPhase
        /\ rxpc' = rxpc /\ ryPhase' = ryPhase
    BY <1>1, <1>7 DEF DataSent, txVars, tyVars, rxVars, ryVars
  <2>4. (\A i \in DOMAIN toRx : ~IsBlock(toRx[i])) =>
          \A i \in DOMAIN toRx' : ~IsBlock(toRx'[i])
    BY <1>6
  <2>. QED  BY <1>1, <2>1, <2>2, <2>3, <2>4 DEF CallsInOrder
<1>. QED  BY <1>1, <1>7, <1>8, <1>9, <1>10, EmitterStep

(* A step that changes nothing keeps everything.                           *)
LEMMA YStuttering ==
  ASSUME YWindowInv, UNCHANGED yVars
  PROVE  YWindowInv'
<1>1. /\ UNCHANGED rxVars /\ UNCHANGED txVars /\ UNCHANGED lineVars
      /\ UNCHANGED ryVars /\ UNCHANGED tyVars
  BY DEF yVars, vars
<1>2. toRx' = toRx /\ toTx' = toTx /\ faults' = faults
  BY <1>1 DEF lineVars
<1>3. /\ TxTypeOK' /\ TyTypeOK' /\ YEmitterAtBlkNo' /\ YEmitterRunning'
      /\ txOpts' = txOpts /\ txRam' = txRam
  BY <1>1, ReceiverKeepsYEmitter
<1>4. LineTypeOK'
  BY <1>2, YWindowTypes DEF LineTypeOK
<1>5. BlocksHoldData'
  BY <1>2, <1>3, BlocksLeft
<1>6. ASSUME Listening
      PROVE  BlocksInWindow' /\ CallsInOrder'
  <2>1. BlocksInWindow /\ CallsInOrder
    BY <1>6 DEF YWindowInv
  <2>2. rxpc' = rxpc /\ ryPhase' = ryPhase
    BY <1>1 DEF rxVars, ryVars
  <2>. QED  BY <1>1, <1>2, <2>1, <2>2, WindowStays, CallsStay
<1>. QED  BY <1>1, <1>3, <1>4, <1>5, <1>6, EmitterStep

LEMMA YInitWindow ==
  ASSUME YInit
  PROVE  YWindowInv
<1>. DEFINE opts == "lxmodem_128_with_chksum"
<1>1. PICK size \in FileSizes, valid \in Valids :
        TxInit(opts, size) /\ TyInit(valid, size)
  BY DEF YInit
<1>2. PICK max_size \in RamSizes : RxInit(opts, max_size)
  BY DEF YInit
<1>3. /\ toRx = <<>> /\ toTx = <<>> /\ faults = 0 /\ RyInit
  BY DEF YInit, LineInit
<1>4. /\ size \in Nat /\ size < HalfWord
      /\ max_size \in Nat /\ max_size < HalfWord
  BY LinkAssumption
<1>5. txRam = [max_size |-> size, read_offset |-> 0, write_offset |-> size]
  BY <1>1, <1>4
  DEF TxInit, lmodem_buffer_set_write_offset, lmodem_buffer_init
<1>6. rxRam = [max_size |-> max_size, read_offset |-> 0, write_offset |-> 0]
  BY <1>2 DEF RxInit, lmodem_buffer_init
<1>7. CharFrame(0, 1) \in Frame /\ ~IsBlock(CharFrame(0, 1))
  BY LModemAssumption
  DEF CharFrame, NoMeta, Meta, Frame, Byte, BlkNumber, IsBlock, SOH, STX
<1>8. LineTypeOK
  BY <1>3, LineAssumption DEF LineTypeOK
<1>9. RxTypeOK
  BY <1>2, <1>4, <1>6, LModemAssumption
  DEF RxTypeOK, RxInit, RamFileType, Opts
<1>10. TxTypeOK
  BY <1>1, <1>4, <1>5, <1>7, LModemAssumption
  DEF TxTypeOK, TxInit, RamFileType, Opts
<1>11. RyTypeOK
  BY <1>3, CountType DEF RyTypeOK, RyInit, NoFileData, FileData, Flags
<1>12. TyTypeOK
  <2>1. valid \in SUBSET Flags
    BY ValidsAssumption
  <2>2. txFileData \in FileData
    BY <1>1, <1>4, <2>1 DEF TyInit, FileData
  <2>. QED  BY <1>1, <2>2, CountType, LModemAssumption
            DEF TyTypeOK, TyInit, Byte
<1>13. ~DataSent /\ FileSize = size /\ txRam.read_offset = 0
  BY <1>5 DEF DataSent, FileSize
<1>14. YEmitterAtBlkNo
  BY <1>1, <1>4, <1>7, <1>13 DEF YEmitterAtBlkNo, TxInit, TyInit
<1>15. YEmitterRunning
  BY <1>1, LModemAssumption
  DEF YEmitterRunning, EmitterRunning, TxInit, TyInit
<1>16. YReceiverRunning
  BY <1>2, <1>3, <1>4, <1>6, LModemAssumption
  DEF YReceiverRunning, RxInit, RyInit
<1>17. BlocksHoldData
  BY <1>3 DEF BlocksHoldData
<1>18. BlocksInWindow
  BY <1>1, <1>2, <1>3
  DEF BlocksInWindow, InOrder, BeginAt, RxInit, TxInit
<1>19. CallsInOrder
  BY <1>1, <1>2, <1>3, <1>13
  DEF CallsInOrder, RxInit, TxInit, TyInit, RyInit
<1>20. CopyIsPrefix
  BY <1>2 DEF CopyIsPrefix, RxInit
<1>. QED  BY <1>8, <1>9, <1>10, <1>11, <1>12, <1>14, <1>15, <1>16, <1>17,
             <1>18, <1>19, <1>20
          DEF YWindowInv, YTypeOK, TypeOK

-----------------------------------------------------------------------------
(* The window is an invariant of lymodem_emit and lymodem_receive running  *)
(* against each other, over any line that loses, damages or adds at most   *)
(* MaxFaults frames and characters, whichever of the two is called first   *)
(* and however slow either is.                                             *)
THEOREM YWindowIsInvariant == YSpec => []YWindowInv
<1>1. YInit => YWindowInv
  BY YInitWindow
<1>2. YWindowInv /\ [YNext]_yVars => YWindowInv'
  <2>. SUFFICES ASSUME YWindowInv, [YNext]_yVars
                PROVE  YWindowInv'
    OBVIOUS
  <2>1. CASE YRxNext
    BY <2>1, YRxNextKeeps
  <2>2. CASE YTxNext
    BY <2>2, YTxNextKeeps
  <2>3. CASE LineNoise
    BY <2>3, LineNoiseKeeps
  <2>4. CASE UNCHANGED yVars
    BY <2>4, YStuttering
  <2>. QED  BY <2>1, <2>2, <2>3, <2>4 DEF YNext, YTerminated
<1>. QED  BY <1>1, <1>2, PTL DEF YSpec

(* Every variable of the YMODEM calls, of the loops inside and of the line *)
(* keeps its type; no counter of timeouts or retries passes its limit.     *)
THEOREM YTypeCorrect == YSpec => []YTypeOK
<1>1. YWindowInv => YTypeOK
  BY DEF YWindowInv
<1>. QED  BY <1>1, YWindowIsInvariant, PTL

(* The receiver's file holds the first blocks of the emitter's file, each  *)
(* once and in order: neither a name sent again nor a block of a transfer  *)
(* that has begun without the receiver gets into it.                       *)
THEOREM YCopyIsAlwaysPrefix == YSpec => []CopyIsPrefix
<1>1. YWindowInv => CopyIsPrefix
  BY DEF YWindowInv
<1>. QED  BY <1>1, YWindowIsInvariant, PTL
=============================================================================
