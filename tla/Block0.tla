------------------------------- MODULE Block0 -------------------------------
(***************************************************************************)
(* The text of a YMODEM name block: how lymodem_build_and_send_block0      *)
(* (lmodem_tx.c) writes a file name and its metadata, and how              *)
(* lymodem_decode_block0 (lmodem_rx.c) reads them back.                    *)
(***************************************************************************)
EXTENDS LModemInit, RamFile, Crc16

CONSTANT
  LongMod      \* 2^64: one more than ULONG_MAX

ASSUME LongAssumption ==
  LongMod \in Nat \ {0} /\ LongMod % (2 * HalfWord) = 0

NUL == 0
SPACE == 32
PLUS == 43
MINUS == 45

-----------------------------------------------------------------------------
(* The emitter.                                                            *)

(* The digits of n.                                                        *)
Digits(n, base) ==
  LET text[m \in 0 .. n] ==
        IF m < base THEN <<48 + m>>
        ELSE Append(text[m \div base], 48 + (m % base))
  IN  text[n]

(* %d of a uint32_t: the int32_t with the same bits.                       *)
FormatD(x) ==
  IF Int32(x) < 0 THEN <<MINUS>> \o Digits(-Int32(x), 10) ELSE Digits(x, 10)

FormatO(x) == Digits(x, 8)

WithTypeBit(perm) == IF perm >= TypeBit THEN perm ELSE perm + TypeBit

(* lymodem_format: as many fields as there are flags set, whichever they   *)
(* are, separated by spaces.                                               *)
MetaText(d) ==
  LET nbMetaDataTocpy == Cardinality(d.valid \ {"filename"})
      fields == <<FormatD(d.size), FormatO(d.modif_date),
                  FormatO(WithTypeBit(d.permission)), FormatO(d.serial_number)>>
      joined[k \in 0 .. 4] ==
        IF k = 0 THEN <<>>
        ELSE IF k = 1 THEN fields[1]
        ELSE joined[k - 1] \o <<SPACE>> \o fields[k]
  IN  joined[nbMetaDataTocpy]

(* The characters snprintf may write behind the name in the line buffer,   *)
(* its final NUL included.                                                 *)
MetaRoom(c) == c.max_size - 3 - (3 + Len(c.file_data.filename) + 1)

(* The block lymodem_build_and_send_block0 sends for the context c: name,  *)
(* NUL, fields cut to the room there is in the line buffer, and NULs; the  *)
(* first bytes of it, those of a small block when all of it fits in there, *)
(* or of a large one.                                                      *)
lymodem_build_and_send_block0(c) ==
  LET meta == MetaText(c.file_data)
      named == c.file_data.filename \o <<NUL>>
      text == named \o Cut(meta, MetaRoom(c))
      hdr  == IF 3 + Len(named) + Len(meta) + 1 < SmallBlk THEN SOH ELSE STX
  IN  [hdr |-> hdr, data |-> [i \in 1 .. BlkSize(hdr) |->
                               IF i <= Len(text) THEN text[i] ELSE NUL]]

-----------------------------------------------------------------------------
(* The receiver.                                                           *)

(* What is found from the third byte of the line buffer on, when the data  *)
(* of a block has been read into it: the data, the CRC, and behind them    *)
(* bytes of which nothing is known.                                        *)
Memory(data, rest, size) ==
  LET crc   == crc16_doCalcul(data)
      block == data \o <<crc \div 256, crc % 256>>
  IN  [p \in 1 .. size |-> IF p <= Len(block) THEN block[p] ELSE rest]

(* The first position from p on, before end, of a character in stop.       *)
Find(mem, p, end, stop) ==
  LET found == {q \in p .. end - 1 : mem[q] \in stop} IN
  IF found = {} THEN end ELSE Min(found)

White == (9 .. 13) \cup {SPACE}

(* strtoul on a whole text: valid when nothing is left over.               *)
strtoul(text, base) ==
  LET first  == Find(text, 1, Len(text) + 1, Byte \ White)
      signed == first <= Len(text) /\ text[first] \in {PLUS, MINUS}
      digit1 == IF signed THEN first + 1 ELSE first
      rest   == Find(text, digit1, Len(text) + 1, Byte \ (48 .. 47 + base))
      number == FoldLeft(LAMBDA n, c :
                           IF n > (LongMod - 1 - (c - 48)) \div base
                           THEN LongMod - 1 ELSE n * base + (c - 48),
                         0, SubSeq(text, digit1, rest - 1))
  IN  [valid |-> rest > Len(text) /\ (rest > digit1 \/ text = <<>>),
       value |-> IF signed /\ text[first] = MINUS /\ number < LongMod - 1
                 THEN (LongMod - number) % LongMod ELSE number]

(* Mutated form of lymodem_getValue: what follows the number is ignored.   *)
lymodem_getValueLenient(text, base) ==
  [valid |-> TRUE, value |-> strtoul(text, base).value % (2 * HalfWord)]

lymodem_getValue(text, base) ==
  LET r == strtoul(text, base) IN [r EXCEPT !.value = @ % (2 * HalfWord)]

(* Field k of the metadata, stored.                                        *)
StoreField(d, k, value) ==
  LET known == [d EXCEPT !.valid = @ \cup {FieldOrder[k]}] IN
  CASE k = 1 -> [known EXCEPT !.size = value]
    [] k = 2 -> [known EXCEPT !.modif_date = value]
    [] k = 3 -> [known EXCEPT !.permission = value % TypeBit]
    [] k = 4 -> [known EXCEPT !.serial_number = value]

(* One turn of the loop of lymodem_get_meta_data on its state: p is the    *)
(* position of the next field.                                             *)
NextField(mem, end, s, k) ==
  IF s.stop \/ s.p >= end THEN [s EXCEPT !.stop = TRUE]
  ELSE IF mem[s.p] = NUL THEN [s EXCEPT !.stop = TRUE]
  ELSE LET q == Find(mem, s.p, end, {SPACE, NUL})
           r == lymodem_getValue(SubSeq(mem, s.p, q - 1), IF k = 1 THEN 10 ELSE 8)
       IN  [p |-> q + 1, ok |-> r.valid, stop |-> ~r.valid,
            data |-> StoreField(s.data, k, r.value)]

(* lymodem_get_meta_data: the fields are looked for behind the name as it  *)
(* was stored, and behind any number of NULs.                              *)
lymodem_get_meta_data(d, mem, max_size) ==
  LET behind == 1 + Len(d.filename)
      end    == behind + max_size
      start  == Find(mem, behind, end, Byte \ {NUL})
  IN  FoldLeft(LAMBDA s, k : NextField(mem, end, s, k),
               [p |-> start, ok |-> TRUE, stop |-> FALSE, data |-> d],
               <<1, 2, 3, 4>>)

(* Mutated form of lmodem_metadata_clean: the flags stay.                  *)
lmodem_metadata_cleanValues(d) == [NoFileData EXCEPT !.valid = d.valid]

lmodem_metadata_clean(d) == NoFileData

(* lymodem_decode_block0: what the receiver's context c knows of the file  *)
(* after the block, and whether it goes on to receive it.                  *)
lymodem_decode_block0(c, data, rest) ==
  LET mem   == Memory(data, rest, Len(data) + c.max_size)
      clean == lmodem_metadata_clean(c.file_data)
      name  == SubSeq(data, 1, Find(data, 1, Len(data) + 1, {NUL}) - 1)
      named == [clean EXCEPT !.filename = Cut(name, c.filename_size),
                             !.valid = @ \cup {"filename"}]
  IN  IF name = <<>> THEN [ok |-> FALSE, file_data |-> clean]
      ELSE LET s == lymodem_get_meta_data(named, mem, c.max_size)
           IN  [ok |-> s.ok, file_data |-> s.data]
=============================================================================
