------------------------------- MODULE Crc16 -------------------------------
(***************************************************************************)
(* The two checks a block is sent with: the table driven CRC-16 of         *)
(* src/src/crc16.c and the checksum of lmodem_rx.c.                        *)
(***************************************************************************)
EXTENDS Integers, Sequences, SequencesExt, Bitwise

Polynome == 4129    \* 0x1021, what lmodem_init gives to crc16_init

(* Mutated form of Shifted: the polynomial is added when the bit is clear. *)
ShiftedInverted(crc) ==
  IF crc >= 32768 THEN (2 * crc) % 65536
  ELSE ((2 * crc) % 65536) ^^ Polynome

(* One turn of the inner loop of crc16_init, on the low 16 bits.           *)
Shifted(crc) ==
  IF crc >= 32768 THEN ((2 * crc) % 65536) ^^ Polynome
  ELSE (2 * crc) % 65536

(* crc16_init                                                              *)
crctab ==
  LET after[i \in 0 .. 255, j \in 0 .. 8] ==
        IF j = 0 THEN 256 * i ELSE Shifted(after[i, j - 1])
  IN  [i \in 0 .. 255 |-> after[i, 8]]

(* crc16_doCalcul with initValue and xorFinal 0, as both sides call it.    *)
crc16_doCalcul(data) ==
  LET crc[i \in 0 .. Len(data)] ==
        LET next[last \in 0 .. 65535, byte \in 0 .. 255] ==
              ((256 * last) % 65536) ^^ crctab[(last \div 256) ^^ byte]
        IN  IF i = 0 THEN 0 ELSE next[crc[i - 1], data[i]]
  IN  crc[Len(data)]

lxmodem_calcul_chksum(data) ==
  FoldLeft(LAMBDA t, byte : (t + byte) % 256, 0, data)

-----------------------------------------------------------------------------
(***************************************************************************)
(* The reference: the remainder of the bits of data, most significant      *)
(* first, divided by x^16 + x^12 + x^5 + 1, by long division bit by bit.   *)
(***************************************************************************)
Bit(byte, k) == (byte \div 2 ^ (7 - k)) % 2

Bits(data) ==
  [i \in 1 .. 8 * Len(data) |-> Bit(data[1 + (i - 1) \div 8], (i - 1) % 8)]

Remainder(data) ==
  FoldLeft(LAMBDA rem, bit :
             IF rem >= 32768 THEN (2 * (rem - 32768) + bit) ^^ Polynome
             ELSE 2 * rem + bit,
           0, Bits(data))
=============================================================================
