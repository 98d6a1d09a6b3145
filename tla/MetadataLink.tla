---------------------------- MODULE MetadataLink ----------------------------
(***************************************************************************)
(* What the user of an emitter says of its files, in any order of calls,   *)
(* and what the user of the receiver is told: the metadata setters, the    *)
(* name block on an undamaged line, and the getters.  The receiver keeps   *)
(* its context from file to file; the emitter's user sets up a new one.    *)
(***************************************************************************)
EXTENDS Block0

CONSTANTS
  Names,        \* file names, as sequences of character codes
  Sizes, Dates, Permissions, Serials,   \* values the setters are given
  TxNameSize,   \* size of the emitter's buffer for the file name
  RxNameSizes,  \* and of the receiver's
  LineSizes,    \* sizes of the line buffer the emitter's user tries
  Leftovers,    \* characters the receiver's line buffer may be full of
  MaxFiles      \* bound: files sent one after the other

ASSUME MetadataAssumption ==
  /\ Names \subseteq Seq(1 .. 255) \ {<<>>}
  /\ \A n \in Names : Len(n) + 3 < LargeBlk
  /\ (Sizes \cup Dates \cup Serials) \subseteq 0 .. 2 * HalfWord - 1
  /\ Permissions \subseteq Nat
  /\ TxNameSize \in Nat \ {0, 1}
  /\ RxNameSizes \subseteq Nat \ {0, 1}
  /\ LineSizes \subseteq Nat
  /\ \A size \in LineSizes :   \* lmodem.h's for YMODEM, or refused
       \/ size >= LYMODEM_BUFFER_MIN_SIZE
       \/ \A opts \in Opts : size < expectedSize(opts)
  /\ Leftovers \subseteq Byte
  /\ MaxFiles \in Nat \ {0}

VARIABLES
  tx, rx,    \* the two contexts
  line,      \* the name block on its way: one or none
  outcome,   \* of the last name block: "none" yet, "accepted" or "refused"
  files      \* how many files the emitter's user has dealt with

vars == <<tx, rx, line, outcome, files>>

NewContext(opts, nameSize) ==
  lmodem_set_filename_buffer(lmodem_init(opts), nameSize)

(* A context as main of rzsz sets it up for YMODEM.                        *)
RzszContext(nameSize) ==
  LET opts == RzszOpts("YMODEM", FALSE, FALSE) IN
  lmodem_set_line_buffer(NewContext(opts, nameSize),
                         RzszBufferSize("YMODEM", opts))

SettingUp == line = <<>> /\ outcome = "none"

(* The emitter's user gives the context a line buffer, and another one     *)
(* when it was refused.                                                    *)
SetLineBuffer ==
  /\ SettingUp
  /\ tx.max_size = 0
  /\ \E size \in LineSizes : tx' = lmodem_set_line_buffer(tx, size)
  /\ UNCHANGED <<rx, line, outcome, files>>

(* The emitter's user tells something of the file; nothing is announced    *)
(* twice.                                                                  *)
SetMetadata ==
  /\ SettingUp
  /\ \/ \E n \in Names : tx' = lmodem_metadata_set_filename(tx, n)
     \/ \E s \in Sizes : tx' = lmodem_metadata_set_filesize(tx, s)
     \/ \E t \in Dates : tx' = lmodem_metadata_set_modif_time(tx, t)
     \/ \E p \in Permissions : tx' = lmodem_metadata_set_permission(tx, p)
     \/ \E n \in Serials : tx' = lmodem_metadata_set_serial(tx, n)
  /\ tx'.file_data.valid # tx.file_data.valid
  /\ UNCHANGED <<rx, line, outcome, files>>

(* The name block is sent, by a user who has set up the line buffer.       *)
SendBlock0 ==
  /\ SettingUp
  /\ tx.max_size > 0
  /\ "filename" \in tx.file_data.valid
  /\ line' = <<lymodem_build_and_send_block0(tx)>>
  /\ UNCHANGED <<tx, rx, outcome, files>>

(* It is received and decoded.                                             *)
ReceiveBlock0 ==
  /\ line # <<>>
  /\ \E rest \in Leftovers :
       LET decoded == lymodem_decode_block0(rx, line[1].data, rest) IN
       /\ rx' = [rx EXCEPT !.file_data = decoded.file_data]
       /\ outcome' = IF decoded.ok THEN "accepted" ELSE "refused"
  /\ line' = <<>>
  /\ UNCHANGED <<tx, files>>

(* The next file, from a new context to the same receiver.                 *)
NextFile ==
  /\ outcome # "none"
  /\ files < MaxFiles
  /\ files' = files + 1
  /\ tx' = RzszContext(TxNameSize)
  /\ outcome' = "none"
  /\ UNCHANGED <<rx, line>>

Next == SetLineBuffer \/ SetMetadata \/ SendBlock0 \/ ReceiveBlock0 \/ NextFile

Init ==
  /\ \E opts \in Opts : tx = NewContext(opts, TxNameSize)
  /\ \E size \in RxNameSizes : rx = RzszContext(size)
  /\ line = <<>>
  /\ outcome = "none"
  /\ files = 1

Spec == Init /\ [][Next]_vars

-----------------------------------------------------------------------------
Sent == tx.file_data

(* Nothing skipped, and something besides the name.                        *)
NoneSkipped ==
  \E k \in 1 .. 4 :
    Sent.valid = {"filename"} \cup {FieldOrder[i] : i \in 1 .. k}

NameFits == Len(Sent.filename) < rx.filename_size

FieldsFit == Len(MetaText(Sent)) < MetaRoom(tx)

(* The fields snprintf does not cut: with all in front of them they fit.   *)
WholeFields ==
  {k \in 1 .. 4 :
     /\ FieldOrder[k] \in Sent.valid
     /\ Len(MetaText([Sent EXCEPT !.valid = {FieldOrder[i] : i \in 1 .. k}]))
          < MetaRoom(tx)}

(* What is written behind the name ends inside the data of a large block,  *)
(* as it always does with a line buffer no longer than a frame.            *)
EndsInBlock ==
  Len(Sent.filename) + 1 + Len(Cut(MetaText(Sent), MetaRoom(tx))) + 2 <= LargeBlk

(* When the metadata are a name the receiver has room for, a size and any  *)
(* number of the following fields, the receiver's user is told exactly     *)
(* what the emitter's user has said: also a size beyond 2^31 - 1, which    *)
(* travels as a negative number, a name that needs a 1k block, and nothing *)
(* of an earlier file.  When snprintf cuts the fields behind a long name,  *)
(* the file is accepted all the same, and all but the field that is cut    *)
(* and those behind it are told as they were set.  Only the 0x8000 bit of  *)
(* the permission goes (lymodem_get_meta_data takes it for the mark of a   *)
(* Unix file).                                                             *)
ToldAsSet ==
  LET As(k, told, set) ==
        /\ k \in WholeFields => FieldOrder[k] \in rx.file_data.valid
        /\ k \in WholeFields \/ FieldOrder[k] \notin Sent.valid => told.value = set
  IN
  outcome # "none" /\ NoneSkipped /\ NameFits /\ EndsInBlock /\ 1 \in WholeFields =>
    /\ outcome = "accepted"
    /\ rx.file_data.valid \subseteq Sent.valid
    /\ lmodem_metadata_get_filename(rx, rx.filename_size).value = Sent.filename
    /\ As(1, lmodem_metadata_get_filesize(rx), Sent.size)
    /\ As(2, lmodem_metadata_get_modif_time(rx), Sent.modif_date)
    /\ As(3, lmodem_metadata_get_permission(rx), Sent.permission % TypeBit)
    /\ As(4, lmodem_metadata_get_serial(rx), Sent.serial_number)

(* The end of a name the receiver had to cut is where it looks for the     *)
(* size: such a file is refused, unless the end reads as a number.         *)
CutNameRefused ==
  outcome = "accepted" /\ ~NameFits =>
    LET cutOff == SubSeq(Sent.filename, rx.filename_size, Len(Sent.filename))
        word   == SubSeq(cutOff, 1, Find(cutOff, 1, Len(cutOff) + 1, {SPACE}) - 1)
    IN  strtoul(word, 10).valid

(* The name is all a transfer needs, and whatever else is received was     *)
(* said by the emitter's user.                                             *)
OnlyNameRequired ==
  outcome # "none" /\ NameFits /\ FieldsFit =>
    outcome = "accepted" /\ rx.file_data.valid \subseteq Sent.valid
=============================================================================
