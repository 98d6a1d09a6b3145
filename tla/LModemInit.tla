----------------------------- MODULE LModemInit -----------------------------
(***************************************************************************)
(* The context of a transfer as its user sets it up and reads it:          *)
(* src/src/lmodem_init.c, and the buffers that main of tools/rzsz.c gives  *)
(* it.  The functions of the C file are operators of the same name; a      *)
(* setter returns the new context, a getter [ok, value].                   *)
(*                                                                         *)
(* Texts are sequences of character codes without the final NUL.           *)
(***************************************************************************)
EXTENDS LModem, Sequences

CONSTANT
  TypeBit      \* 0x8000, the highest bit of the uint16_t permission

ASSUME TypeBitAssumption == TypeBit \in Nat \ {0}

(* file_data with nothing known, as lmodem_metadata_clean leaves it.       *)
NoFileData ==
  [valid |-> {}, filename |-> <<>>, size |-> 0, modif_date |-> 0,
   permission |-> 0, serial_number |-> 0]

(* max_size is that of the line buffer, filename_size that of the buffer   *)
(* for the file name; 0 when there is none.                                *)
lmodem_init(opts) ==
  [opts |-> opts, withCrc |-> FALSE, max_size |-> 0, filename_size |-> 0,
   file_data |-> NoFileData]

(* What lmodem_set_line_buffer asks for: number, data and check of a block *)
(* (the emitter's frames have a header byte more).                         *)
expectedSize(opts) ==
  2 + (IF opts = "lxmodem_1k" THEN LargeBlk ELSE SmallBlk)
    + (IF opts = "lxmodem_128_with_chksum" THEN 1 ELSE 2)

(* withCrc is set also when the buffer is refused.                         *)
lmodem_set_line_buffer(c, size) ==
  [c EXCEPT !.withCrc = (c.opts # "lxmodem_128_with_chksum"),
            !.max_size = IF size >= expectedSize(c.opts) THEN size ELSE @]

lmodem_set_filename_buffer(c, size) == [c EXCEPT !.filename_size = size]

(* A text cut to a buffer of size characters, the final NUL included.      *)
Cut(text, size) ==
  IF Len(text) < size THEN text ELSE SubSeq(text, 1, size - 1)

lmodem_metadata_set_filename(c, filename) ==
  IF c.filename_size = 0 THEN c
  ELSE [c EXCEPT !.file_data.filename = Cut(filename, c.filename_size),
                 !.file_data.valid = @ \cup {"filename"}]

lmodem_metadata_set_filesize(c, size) ==
  [c EXCEPT !.file_data.size = size,
            !.file_data.valid = @ \cup {"filesize"}]

lmodem_metadata_set_modif_time(c, modif_date) ==
  [c EXCEPT !.file_data.modif_date = modif_date,
            !.file_data.valid = @ \cup {"modif_date"}]

lmodem_metadata_set_permission(c, perm) ==
  [c EXCEPT !.file_data.permission = perm % (2 * TypeBit),
            !.file_data.valid = @ \cup {"permission"}]

lmodem_metadata_set_serial(c, serial) ==
  [c EXCEPT !.file_data.serial_number = serial,
            !.file_data.valid = @ \cup {"serial"}]

(* Every getter looks at the flag of the file name.                        *)
Told(c, value) == [ok |-> "filename" \in c.file_data.valid, value |-> value]

lmodem_metadata_get_filename(c, size) ==
  Told(c, Cut(c.file_data.filename, size))
lmodem_metadata_get_filesize(c)   == Told(c, c.file_data.size)
lmodem_metadata_get_modif_time(c) == Told(c, c.file_data.modif_date)
lmodem_metadata_get_permission(c) == Told(c, c.file_data.permission)
lmodem_metadata_get_serial(c)     == Told(c, c.file_data.serial_number)

-----------------------------------------------------------------------------
(* The sizes of lmodem.h, header byte included.                            *)
LXMODEM_BUFFER_MIN_SIZE(opts) == 1 + expectedSize(opts)
LYMODEM_BUFFER_MIN_SIZE == LXMODEM_BUFFER_MIN_SIZE("lxmodem_1k")

(* What main of rzsz derives from its options: those of the context and    *)
(* the size of the line buffer.                                            *)
RzszOpts(protocol, crc, one_k) ==
  IF protocol = "YMODEM" \/ ~(crc \/ one_k) THEN "lxmodem_128_with_chksum"
  ELSE IF one_k THEN "lxmodem_1k" ELSE "lxmodem_128_with_crc"

RzszBufferSize(protocol, opts) ==
  IF protocol = "YMODEM" THEN LYMODEM_BUFFER_MIN_SIZE
  ELSE LXMODEM_BUFFER_MIN_SIZE(opts)
=============================================================================
