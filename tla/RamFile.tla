------------------------------ MODULE RamFile ------------------------------
(***************************************************************************)
(* The in-memory file of light_modem (src/src/lmodem_buffer.c): a byte     *)
(* array with a read and a write offset.  The emitter reads the file to    *)
(* send from one, the receiver stores the received file in another.        *)
(*                                                                         *)
(* A buffer is the record [max_size, read_offset, write_offset]; the bytes *)
(* themselves are kept by the modules that use it.  The functions of the   *)
(* C file are operators of the same name that return the new record, and   *)
(* NbToCopy / ReadSize are what lmodem_buffer_write / _read return.        *)
(***************************************************************************)
EXTENDS Integers

CONSTANT
  HalfWord   \* 2^31 in the code: one more than the largest int32_t

ASSUME HalfWordAssumption == HalfWord \in Nat \ {0}

(* Conversion of an integer to int32_t (two's complement).                 *)
Int32(x) ==
  IF x >= HalfWord THEN x - 2 * HalfWord
  ELSE IF x < -HalfWord THEN x + 2 * HalfWord
  ELSE x

RamFileType == [max_size : Nat, read_offset : Nat, write_offset : Nat]

lmodem_buffer_init(max_size) ==
  [max_size |-> max_size, read_offset |-> 0, write_offset |-> 0]

lmodem_buffer_get_remaining_capacity(b) ==
  Int32(b.max_size - b.write_offset)

(* Mutated form of NbToCopy: the room left is not looked at.               *)
NbToCopyUnchecked(b, size) == size

(* The bytes lmodem_buffer_write copies, and its result.  The subtraction  *)
(* mixes an int32_t and a uint32_t: it is done modulo 2^32.                *)
NbToCopy(b, size) ==
  LET remaining_bytes == lmodem_buffer_get_remaining_capacity(b)
      difference      == Int32(remaining_bytes - size)
  IN  IF remaining_bytes > Int32(size) THEN size
      ELSE IF difference < 0 THEN 0 ELSE difference

lmodem_buffer_write(b, size) ==
  [b EXCEPT !.write_offset = @ + NbToCopy(b, size)]

lmodem_buffer_get_size(b) == Int32(b.write_offset - b.read_offset)

(* The bytes lmodem_buffer_read copies, and its result.                    *)
ReadSize(b, size) ==
  IF lmodem_buffer_get_size(b) < Int32(size)
  THEN lmodem_buffer_get_size(b) ELSE size

lmodem_buffer_read(b, size) ==
  [b EXCEPT !.read_offset = @ + ReadSize(b, size)]

lmodem_buffer_set_write_offset(b, newWriteOffset) ==
  IF newWriteOffset <= b.max_size
  THEN [b EXCEPT !.write_offset = newWriteOffset] ELSE b
=============================================================================
