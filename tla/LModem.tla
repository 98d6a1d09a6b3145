------------------------------- MODULE LModem -------------------------------
(***************************************************************************)
(* What both sides of a transfer share: the control characters and the     *)
(* options of lmodem_priv.h and lmodem.h, and the limits that the code     *)
(* writes as literals.                                                     *)
(***************************************************************************)
EXTENDS Integers

CONSTANTS
  Protocol,    \* "XMODEM" or "YMODEM"
  SmallBlk,    \* LXMODEM_BLOCK_SIZE_128
  LargeBlk,    \* LXMODEM_BLOCK_SIZE_1024
  BlkMod,      \* number of values of a block number byte (256 in the code)
  MaxRetry,    \* errors in a row that end a transfer (10 in the code)
  MaxTimeout   \* failed reads that end a wait of the emitter (10 in the code)

ASSUME LModemAssumption ==
  /\ Protocol \in {"XMODEM", "YMODEM"}
  /\ SmallBlk \in Nat \ {0}
  /\ LargeBlk \in Nat
  /\ SmallBlk < LargeBlk
  /\ BlkMod \in Nat \ {0, 1}
  /\ MaxRetry \in Nat \ {0}
  /\ MaxTimeout \in Nat \ {0}

Opts == {"lxmodem_128_with_chksum", "lxmodem_128_with_crc", "lxmodem_1k"}

SOH == 1
STX == 2
EOT == 4
ACK == 6
NAK == 21
CAN == 24
CHR_C == 67    \* the letter C, the preamble of the CRC modes

Byte == 0 .. 255
BlkNumber == 0 .. BlkMod - 1

(* What is known of a file: the flags of file_data.valid.  The metadata of *)
(* a name block follow the name in this order.                             *)
Flags == {"filename", "filesize", "modif_date", "permission", "serial"}
FieldOrder == <<"filesize", "modif_date", "permission", "serial">>

FileData == [valid : SUBSET Flags, size : Nat]

(* The complement a block number is sent with.                             *)
Complement(number) == BlkMod - 1 - number

(* The size of the data part of a block that starts with hdr.              *)
BlkSize(hdr) == IF hdr = SOH THEN SmallBlk ELSE LargeBlk
=============================================================================
