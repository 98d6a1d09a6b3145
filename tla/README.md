# light_modem in TLA+

A verification development of light_modem, a C library that sends and receives
one file over a serial line with the XMODEM (checksum, CRC and 1k) and YMODEM
protocols. The modules model the two loops of each protocol, the buffers they
work on, a line that loses, damages and delays what it carries (frame by frame,
and byte by byte), the CRC, the text of the YMODEM name block, and the context a
user sets up and reads. TLC checks them on small instances. TLAPS proves, for
every file, buffer, retry limit and number of faults within one stated bound,
the safety properties of XMODEM and of YMODEM over a line of frames: that the
receiver's file is always the beginning of the emitter's, that it is the
emitter's when it is reported (on a line without faults, or when answers are in
time), that an emitter reports nothing that is not stored, and that both
protocols implement an abstract file transfer.

## 1. Inventory

The repository has two halves: the library (`src/src`, `src/include`) and the
tools that use it (`src/tools`). Nothing runs concurrently inside one process.
The concurrency is between the two ends of the line: an emitter and a receiver,
two programs that each run one blocking loop and see of the other only the
bytes that arrive, or a read that times out.

| Component | State it keeps | Operations | Talks to |
|---|---|---|---|
| RAM file, `lmodem_buffer.c` | `max_size`, `read_offset`, `write_offset`, the bytes | write (all of a block or nothing), read, size, capacity, set the write offset | called by both loops; the user fills it (emitter) or empties it (receiver) |
| XMODEM receiver, `lmodem_rx.c` | expected block number (a byte), errors in a row, CANs seen, bytes received | send the preamble; read a header and a body; ACK, NAK or cancel; store | line, RAM file |
| XMODEM emitter, `lmodem_tx.c` | block number (a byte), the frame sent last, errors on it, failed reads, bytes emitted | wait for the preamble; send the next block; send it again; give up | line, RAM file |
| YMODEM receiver, `lmodem_rx.c` | file metadata, failed reads or refusals of the name block | ask for the name block, decode it, call the XMODEM receiver, turn down further files, cut the file to its size | XMODEM receiver, line |
| YMODEM emitter, `lmodem_tx.c` | file metadata, the last reply, retries | wait for C, send the name block, call the XMODEM emitter, wait for C, send the null name | XMODEM emitter, line |
| Text of block 0 | none | format and parse the name and the metadata fields | both YMODEM sides |
| CRC-16 and checksum, `crc16.c` | a table | compute | both XMODEM loops |
| Context and metadata accessors, `lmodem_init.c` | the context: options, buffers, callbacks, metadata | set-up before a transfer, getters after it | the user |
| Callbacks, `tools/serial.c` | the tty | read with up to three half-second attempts, write | the line |
| `tools/rzsz.c` | a file and a context | set up, call emit or receive, interpret the result | everything |
| `tools/dbg_serial.c` | none | a receiver for debugging: print and acknowledge whatever comes | the line |

What is hard in this code:

* *Ordering.* A reply says nothing about which block it answers. An ACK that is
  late, or sent twice, is read as the answer to the block sent last.
* *A number that wraps.* A block is told from its repetition, and from the next
  one, by one byte.
* *Timeouts on both sides.* The two ends count failed reads independently, with
  the same limit of 10, so who gives up first is a race.
* *Partial failure.* A block is acknowledged before it is stored; an EOT ends
  the transfer wherever it is read; either side may return success alone.
* *Losing step.* The receiver reads one header byte, then a body. After a hit
  on a header, or a body that is given up, its reads no longer begin where the
  blocks do, and every byte of a file may be taken for a header.
* *Text in a binary frame.* The metadata are found behind a name that may have
  been cut, and end where the line buffer holds something else.
* *Stale state.* A receiver's context is used again for the next file. YMODEM's
  switch works on the last reply even when no reply came, and on the last block
  even when no block came.
* *Limits.* Unsigned variables hold -1; a capacity is an `int32_t`; some waits
  have no limit at all.

What makes it correct: the receiver's file is at every moment the beginning of
the emitter's; a receiver that reports success has all of it (and, in YMODEM,
exactly its size); an emitter that reports success has a receiver that stored
all it reports; nothing is reported that is not in the buffer; every call
returns; and what the line damages is recovered by retries. `PROJECT.json`
lists the hazards one by one, each at its line with the properties about it.

## 2. Modules

| Module | Models |
|---|---|
| `RamFile` | `lmodem_buffer.c`: one operator per function, with the `int32_t` arithmetic (`Int32`, `HalfWord` = 2^31) |
| `LModem` | the characters, options, limits and metadata flags of `lmodem_priv.h` and `lmodem.h` |
| `LModemLine` | `putchar` and `getchar` over a line of frames, and its faults |
| `XModemRx` | `lxmodem_receive` and what it calls |
| `XModemTx` | `lxmodem_emit`, `lxmode_send_data_blocks` and what they call |
| `FileTransfer` | abstract: what any file transfer promises |
| `XModemLink` | an emitter, a receiver and the line; the XMODEM properties and the three inductive invariants |
| `XModemLinkProofs` | what holds of XMODEM whatever the line does: the lemmas, the theorems and their proofs |
| `XModemTimelyProofs` | what holds when answers are in time, and the refinement of `FileTransfer` |
| `XModemFaultlessProofs` | what holds on a line without faults, however late the answers |
| `Crc16` | `crc16.c` and the checksum, and the polynomial division they are checked against |
| `XModemBytes` | an emitter and a receiver over a line of bytes: the frames of `XModemTx` as bytes, `serial_write` and `serial_read` of `tools/serial.c`, the two reads of a block |
| `YModemRx` | `lymodem_receive`, `lymodem_receive_block0`, `lymodem_block_next_file`, `lymodem_decode_block0` |
| `YModemTx` | `lymodem_emit`, its two waits, the name block and the null name |
| `YModemLink` | both YMODEM sides, which wrap the two XMODEM loops; the YMODEM properties and their three inductive invariants |
| `YModemLinkProofs` | what holds of YMODEM whatever the line does: the lemmas, the theorems and their proofs |
| `YModemFaultlessProofs` | what holds of YMODEM on a line without faults, however late the answers |
| `YModemTimelyProofs` | what holds of YMODEM when answers are in time, and the refinement of `FileTransfer` |
| `LModemInit` | `lmodem_init.c`: set-up, setters and getters, one operator per function; the buffer sizes of `lmodem.h` and the options `main` of `rzsz` derives |
| `Block0` | the text of a name block, written (`lymodem_build_and_send_block0`) and read (`lymodem_decode_block0`, `lymodem_get_meta_data`, `lymodem_getValue`) |
| `MetadataLink` | the users of both contexts, over several files |
| `MCBytes`, `MCMetadata` | the files for the runs of `XModemBytes` and the names for those of `MetadataLink` |

**Granularity.** A loop is a state between two `getchar` calls: one action is
everything from the return of one read of a header or reply to the next read.
Control variables (`rxpc`, `txpc`, `ryPhase`, `tyPhase`) say which read the
side is blocked in. C variables keep their names. Two deviations:

* `expectedBlkNumber` and `blkNo` are `uint8_t` in the code. Here they count on
  and are reduced modulo `BlkMod` wherever a frame is built or compared, so
  that properties can speak of the k-th block. The behaviour is the same.
* The file's bytes are kept as the blocks they came in: `rxData` is the
  sequence of stored blocks, each with the offset and number of the emitter's
  bytes it holds, its size with padding, and whether its data is undamaged.

**Receiver.** `RxStart` sends the preamble; `RxStore`, `RxOverflow`, `RxRefuse`,
`RxEot`, `RxCan`, `RxUnknown` and `RxTimeout` are the branches of the loop.
`RxStatus` is `lxmodem_check_block_no_and_crc`, `RxError` the common tail of the
error branches (reply, one more error, cancel at the limit).

**Emitter.** `TxPreambule`, `TxPreambuleRefused` and `TxPreambuleTimeout` are
the wait for the preamble, `TxAck`, `TxNak`, `TxOther` and `TxTimeout` the wait
for a reply. `SendNext` and `SendAgain` build a frame or repeat the last one.

**YMODEM.** `Ry...` and `Ty...` are the parts around the XMODEM loops; while
the phase is `"contents"` the actions of `XModemRx` and `XModemTx` run. The
model includes what the code does with `-1` in an unsigned variable
(`RyReturn`, `TyTransferred`), with a reply that is left over from an earlier
wait (`TyReplyTimeout`), with a name block read without its header
(`RyRepeat`), and with a byte of a block that was not read
(`NullName`, a free choice where the byte is file data).

**Line.** What one `putchar` of the emitter sends is one element of `toRx`: a
frame with its header, number, complement and data, or a control character.
Replies are single characters in `toTx`. A fault happens when something is put
on the line: it is lost; a block is damaged in its data or CRC (`good` becomes
false) or in its number; a character becomes one of `NoiseBytes`; or, with the
fault "noise", a character nobody sent reaches the receiver. `MaxFaults` bounds
the faults of one transfer. A read times out when its queue is empty; with
`Timely` it does so only when nothing that would make the peer answer is under
way, so that no answer is late. Without `Timely` it may do so whenever it finds
nothing: the peer may be slow, and answers cross.

**Line of bytes.** `XModemBytes` uses the actions of `XModemRx` and `XModemTx`
unchanged, and puts a line of bytes between them. `serial_write` turns the frame
the emitter has put in `out` into bytes on `wire`, with the real CRC or
checksum, and may lose one byte, change one, or write only the beginning.
`ReadBytes` and `EmptyRead` are the calls of `read()` inside one `serial_read`
(`buffer`: the bytes it has, `attempt`: its empty reads); `header` tells a read of
a body from one of a header, and `Requested` how many bytes are asked for.
`ReadFails` is a `read()` that returns -1, which ends the `serial_read` at once. A
completed `getchar` gives the receiver's loop the frame that the bytes *read*
stand for, whatever frames had been sent; a body that does not arrive gives it
`NoBlock`, which it refuses. What it stores is in `stored`, byte for byte. The
emitter asks for one character at a time, so its reads are those of `XModemTx`;
on a slow line they come to nothing at any moment, on a steady one only when no
answer is still to come (`TxSilence`). `slipped` is a history variable: the first
byte of a frame was hit, or a `read()` of a body failed, and the receiver will read
bytes of a block as headers. Two
pairs that the line of frames leaves out happen here: a 1k emitter with a
receiver in the 128-byte CRC mode (`RxStxRefused`), and noise that becomes a
block header.

**Metadata.** In `MetadataLink` the emitter's user gives its context a line
buffer and calls the metadata setters in any order (`SetLineBuffer`,
`SetMetadata`), the name block is formatted, carried and parsed (`SendBlock0`,
`ReceiveBlock0`), and then another file may follow from a new context of the
emitter to the same context of the receiver (`NextFile`). What the receiver's
line buffer holds behind the block is one of `Leftovers`. In `YModemRx` the
parser is abstract: it finds what was sent, and behind a name without fields
anything the CRC may read as (`StraySizes`).

The field `seq` of a frame is a history variable (the block count of the
emitter when it sent the frame). Only the invariants read it.

## 3. Runs

All bounds are small, and chosen so that the case at hand happens: blocks of 2
and 4 bytes (a file of 5 or 7 bytes has a short last block and, in the 1k
modes, a last block of the small kind), buffers too small (3), just too small
for the exact fit the code refuses (6 or 16 for some files) and roomy, 3
retries, 2 or 3 failed reads, up to 2 faults, and 3 in `ymodem_timely`. Three
retries are the least that tell "once", "again" and "limit" apart, two faults the
least with which a fault can hit the recovery of another, and three the least
with which the two YMODEM calls disagree about a file that has arrived (see
`BatchAgreed` below). `BlkMod` is 5 to 8 in place of 256, and
satisfies `MaxRetry + MaxFaults < BlkMod` as 256 does for 10 retries.

| Run | Question | Checked | Result |
|---|---|---|---|
| `timely` | XMODEM, all pairs of options but one, 2 faults, no late answer | `TypeOK`, `EmittedWasStored`, `SuccessAgreed`, `ReportedIsWritten`, `TimelyInv`, `ImplementsFileTransfer` | holds, 49,218 states |
| `late` | XMODEM with late answers (repeated blocks and ACKs), 1 fault, noise that looks like EOT or ACK, six blocks with five block numbers | `CopyIsPrefix`, `WindowInv`, `FaultlessInv`, `CompleteWithoutFaults`, `Termination` | holds, 1,002,870 |
| `lost` | 1 frame lost | `Recovers` | violated, see section 5 |
| `stale` | 1 damaged frame, late answers | `CompleteOnSuccess` | violated |
| `bytes` | XMODEM byte by byte, all pairs of options, 1 byte lost or changed, 1 write cut short or 1 read failed, or a slow line | `BytesTypeOK`, `StoredIsPrefix`, `CrcIsRemainder`, `CompleteUnlessSlipped`, `BodyHitRecovered`, `BothReturn` | holds, 587,254 |
| `bytes_slow` | a slow line without faults | `CompleteWhenSlow` | violated |
| `ymodem_timely` | YMODEM, with and without a name, a size and a date, 3 faults, no late answer | `YTypeOK`, `ExactCopy`, `BatchAgreed`, `YTimelyInv`, `DeliversUndamaged`, `ImplementsFileTransfer` | holds, 171,200 |
| `ymodem_late` | late answers, 2 faults of every kind, noise characters | `CopyIsPrefix`, `ExactWithoutFaults`, `YWindowInv`, `YFaultlessInv` | holds, 910,981 |
| `ymodem_hang` | 1 frame lost | `YTermination` | violated |
| `ymodem_name` | 1 frame damaged | `Delivers` | violated |
| `metadata` | two files, every subset of the metadata, line buffers refused, as long as a frame, and longer | `ToldAsSet`, `CutNameRefused` | holds, 77,616 |
| `metadata_name` | one file, a name alone | `OnlyNameRequired` | violated |

Bounds of the last two families:

* `bytes`: blocks of 2 and 3 bytes and a file of 4, so two blocks in every mode,
  the last of a 1k transfer small and padded. `MaxRetry` is 3, so that the body
  of a block read as headers can end the transfer, as 128 bytes do with 10; the
  data are made of `A` and the byte 4, which is an EOT when read as a header;
  `HitBytes` turns a byte into a SOH or an EOT. Three empty reads end a
  `serial_read`, as in the code; block numbers are real bytes. A line is slow
  (the reads of both sides may time out at any moment, bytes come one by one) or
  faulty, not both: together they are the case of run `stale`. Every file of four
  such bytes is sent on the faulty line, and two of them, whose blocks differ, on
  the slow one (`SlowFiles`); `bytes_slow` has all of them.
* `metadata`: blocks of 32 and 64 bytes in place of 128 and 1024, numbers of 16
  bits (`HalfWord` = 2^15, sizes up to 2^16 - 1, one of them negative as an
  `int32_t`) and `strtoul` over 30 (`LongMod`): the conversions only use that the
  width of the second is more than, and that its modulus is divided by, the
  first. Names that fit, that are cut before a letter, a digit or a space, that
  need a large block, and that leave no room for all the fields. A line buffer
  that is accepted has at least the size `lmodem.h` asks for with YMODEM
  (`MetadataAssumption`), as that of `rzsz` has.

How far the agreement of the two sides goes, found while choosing the runs:

* `SuccessAgreed` needs answers in time, and noise that cannot turn a NAK into
  an ACK (`NoiseBytes` without 6): nothing in the protocol protects a reply.
* `BatchAgreed` says less of the receiver than `SuccessAgreed`. When the EOT is
  lost, `lxmodem_receive` may give up (-1) although every block is stored. If one
  of its two CANs and the C that follows are lost too, the emitter repeats the EOT,
  and `lymodem_block_next_file` acknowledges it. The emitter then reports the
  file, which is in the buffer, and `lymodem_receive` reports a failure. Without
  room (`Roomy`) the same acknowledgement may hide a block that was not stored.
  With late answers `lymodem_emit` may return before `lxmodem_receive` has read
  the EOT.
* `ExactCopy` and `BatchAgreed` need a line that delivers nothing nobody sent (the
  fault "noise"): the refusal of such a character is one reply too many, and is
  taken for the answer to a block. With it in `FaultKinds` both are violated.
* Success of the receiver means the whole file when answers are in time
  (`ImplementsFileTransfer`, `ExactCopy`) or when the line has no fault
  (`CompleteWithoutFaults`, `ExactWithoutFaults`), and not when a fault meets a
  late answer: run `stale`.
* `CopyIsPrefix` needs none of this: it holds in every run, and is proved for
  XMODEM and for YMODEM.
* Byte by byte, what the receiver stores is always the beginning of the file,
  with one hit or with any delay. That a success means all of it needs more: no
  delay inside a body (`bytes_slow`), no hit on the first byte of a frame, and no
  `read()` that fails in a body.
  When the SOH of block 4 is lost, its number is the next header read, and 4 is
  an EOT; that is why `CompleteUnlessSlipped` says what it says.
* `ToldAsSet` needs metadata without gaps. The fields have fixed places, and
  their number is the number of flags set: a date without a size announces size
  0, and `lymodem_receive` cuts the file to that.
* Of metadata cut by `snprintf` those in front of the cut arrive, and the number
  that is cut is read as another one (`WholeFields`). It takes a name of about a
  thousand characters. With a line buffer longer than a frame the text may also
  run into the place of the CRC (`EndsInBlock`); `rzsz` does not have such a
  buffer.

**Deadlock** is checked in every run but the two of `MetadataLink`, whose users
stop after their last file (`CHECK_DEADLOCK FALSE`). A transfer whose calls have
both returned stutters (`Terminated`, `YTerminated`).

**Fairness.** `FairSpec` and `YFairSpec` assume weak fairness of each side's
steps taken together: a side that can go on does so. The code justifies it:
every `getchar` returns, with bytes or after its timeout (`serial_read` of
`tools/serial.c` gives up after three reads of half a second), and nothing else
blocks. No fairness is assumed of the line, of a single branch, or of one
outcome of a choice. `FairSpec` of `XModemBytes` says the same one level down:
every `write` returns, every `read` returns, with bytes when there are some or
empty after its half second, and each loop goes on between two of them. Bytes
that are on the wire are read (`WF` of `TakeBytes`), but a read may still come up
empty before they are there.

## 4. Proofs

| Theorem | Module | States | Hypotheses |
|---|---|---|---|
| `WindowIsInvariant` | `XModemLinkProofs` | `WindowInv` | none |
| `CopyIsAlwaysPrefix` | `XModemLinkProofs` | `CopyIsPrefix` | none |
| `ReportIsExact` | `XModemLinkProofs` | `ReportedIsWritten` | none |
| `TypeCorrect` | `XModemLinkProofs` | `TypeOK` | none |
| `TimelyIsInvariant` | `XModemTimelyProofs` | `TimelyInv` | `OnTime` |
| `EmittedIsStored` | `XModemTimelyProofs` | `EmittedWasStored` | `OnTime` |
| `SidesAgree` | `XModemTimelyProofs` | `SuccessAgreed` | `OnTime` |
| `RefinesFileTransfer` | `XModemTimelyProofs` | `ImplementsFileTransfer` | `OnTime` |
| `FaultlessIsInvariant` | `XModemFaultlessProofs` | `FaultlessInv` | none |
| `CompleteWhenFaultless` | `XModemFaultlessProofs` | `CompleteWithoutFaults` | none |
| `YWindowIsInvariant` | `YModemLinkProofs` | `YWindowInv` | none |
| `YCopyIsAlwaysPrefix` | `YModemLinkProofs` | `CopyIsPrefix` | none |
| `YTypeCorrect` | `YModemLinkProofs` | `YTypeOK` | none |
| `YFaultlessIsInvariant` | `YModemFaultlessProofs` | `YFaultlessInv` | `SizesTold` |
| `ExactWhenFaultless` | `YModemFaultlessProofs` | `ExactWithoutFaults` | `SizesTold` |
| `YTimelyIsInvariant` | `YModemTimelyProofs` | `YTimelyInv` | `YOnTime` |
| `BatchAgreesInTime` | `YModemTimelyProofs` | `BatchAgreed` | `YOnTime` |
| `ExactWhenInTime` | `YModemTimelyProofs` | `ExactCopy` | `YOnTime`, `SizesTold` |
| `YRefinesFileTransfer` | `YModemTimelyProofs` | `ImplementsFileTransfer` | `YOnTime` |

The first ten are theorems of `Spec`, those of the `YModem` modules of `YSpec`: of a
line with every kind of fault (but "noise" under `YOnTime`), and, without `OnTime`
or `YOnTime`, with answers as late as they like.

**Assumptions.** `LModemAssumption` (block sizes and limits are positive, the
small block is smaller), `LineAssumption` (noise does not become a block header
or a preamble), `HalfWordAssumption` and `LinkAssumption` (files, buffers and
blocks are below 2^31 bytes, where the `int32_t` of `lmodem_buffer.c` is exact)
and `WindowAssumption`, `MaxRetry + MaxFaults < BlkMod`. In the code `BlkMod` is
256 and `MaxRetry` 10, which leaves room for 245 faults in one transfer; the
theorems do not say what happens after more. `YModemLink` has two more:
`ValidsAssumption` (the user's metadata are the flags of `lmodem.h`) and
`YModemAssumption` (the protocol both contexts are set up for is YMODEM).

`OnTime` is a hypothesis of the theorems that need it, and not an assumption of
the model: no answer is late (`Timely`), and noise is read neither as an ACK nor
as an EOT. The runs `stale` and `lost` show what becomes of the transfer without
the first. The second is what XMODEM itself asks of the line: an ACK and an EOT
are one byte, with nothing to tell a damaged one from a true one. An ACK made of
a NAK has the emitter skip a block; an EOT made of anything ends the file.
`YOnTime` is the same for YMODEM, on a line that loses, damages and garbles what is
sent but delivers nothing that was not.

`SizesTold` is about the user of the emitter: whoever sets the name of the file
sets its size too, as `rzsz` does. Without it `ExactWithoutFaults` is false of
the code: a date without a size announces the size 0, a name alone has the CRC
read as a size, and the receiver cuts the file to what it has read (run
`metadata_name`, and the notes on `ToldAsSet` in section 3).

**The copy is a prefix.** `CopyIsPrefix` is not inductive: whether a frame with the right
byte is the right block depends on how far the two sides can drift apart.
`WindowInv` bounds the drift with the unreduced numbers:

1. frames on the line are in order, and between two of them the number grows by
   at most their distance plus the frames that were lost (`FramesInOrder`); a
   lost frame costs a fault;
2. the last frame is not far behind the emitter (`FramesBehindEmitter`);
3. the i-th frame is at most `nbRetry + i + faults` past the last stored block,
   and never before it (`ReceiverBehind`): every frame that is read and not
   stored increments `nbRetry`, and one that is stored moves the window.

The frame read is the first, and `nbRetry < MaxRetry` while the loop runs, so
its number is less than `BlkMod` away from the expected one: equal bytes mean
equal numbers (`SameByte`, `AcceptedIsNext`). The rest of the invariant says
that a frame holds the block its number stands for (`FramesHoldBlocks`, from
`EmitterAtBlkNo`: what was read of the file is what `blkNo` says). The run
`late` checks the same invariant with as many block numbers as the assumption
allows, and finds it violated when the retry limit is dropped.

There is one lemma per action (`RxStoreKeeps`, `TxAckKeeps`, ...), resting on
what sending, waiting and reading do to the order of the frames
(`SendKeepsOrder`, `WaitKeepsOrder`, `ReadKeepsOrder`) and on the lemmas about
`RamFile` (`WriteAllOrNothing`, `ReadExactly`).

**The two sides agree, when answers are in time.** `SuccessAgreed` speaks of two
returns, and is decided long before: what has to be known is which frame a reply
is about, while the code looks at the reply alone. `TimelyInv` says so:

1. at most one thing is under way while both run, a frame or the reply to it
   (`OneUnderWay`), because a side that finds nothing to read gives up only when
   nothing is coming;
2. a block or an EOT on the line is the frame sent last (`FrameIsLastSent`), so
   that the receiver reads it at the number the emitter is at;
3. the emitter is at the block the receiver expects, with the same number of
   bytes counted and stored, or one behind, when it does not know of the last
   acknowledgement (`InStep`);
4. an ACK on the line answers the block sent last, which is stored, or the EOT
   (`AckAnswersLastSent`). A receiver that has failed may leave an ACK behind:
   `lxmodem_receive` acknowledges a block before it finds that it has no room,
   and the invariant says that the emitter is not misled by it for good;
5. the side that returns first decides the outcome (`Outcome`): a receiver that
   succeeded has all blocks, and an emitter that is not done yet has sent its
   EOT, and will return the same number, or fail.

A return of 0 needs a word more (`NothingCounted`): the emitter never got a
preamble, and has sent nothing, or its first frame was the EOT, of an empty file.

**The refinement.** `FileTransfer` has the file, the copy and the status of the
transfer. A step of `XModemLink` appends the next block to the copy (`RxStore`),
completes the transfer (`RxEot`), fails it (`RxOverflow`, and `RxError` at its
limit), or is a stutter of it, as all steps of the emitter are (`StepsRefine`, one
case per action). The content of the proof is in `RxStore`, where the block must
be the next (`AcceptedIsNext`), and in `RxEot`, where the copy must be the whole
file (`TimelyInv`).

**A line without faults is enough.** `CompleteWithoutFaults` has no `OnTime`: the
two sides may be out of step by many repetitions, and blocks and ACKs may cross.
`FaultlessInv` is about what is on the line then: every frame is intact
(`FramesIntact`), and none skips a number (`NoneSkipped`: the i-th frame is at
most the i-th block after the one stored last, and so is the emitter's own). A
frame that is refused is then the block stored last, sent once more; it is
acknowledged, and does not bring the emitter further than the block it awaits.
An EOT has the number after the last block, so it is read with all blocks
stored. The block sizes need an argument of their own (`SizesMatch`): a large
block goes only to a receiver that asked for it, by the pairs of options and
the preamble the emitter has accepted.

**YMODEM.** `YWindowInv` is `WindowInv` for the two calls that wrap the loops. Four
things are new in it:

1. *Noise comes between the frames.* Only the blocks are in order (`InOrder`,
   `LeadTo`, `BeginAt`); a character of noise pushes them apart by one place,
   and costs one fault, as much as a lost frame does (`NoiseKeepsWindow`).
2. *Names are on the same line.* A name and the null name have number 0, and a
   repeated name may be on its way when the receiver is in its loop already.
   There it is a repetition of "block 0" when no data have been stored, and it
   must not come later, when it would be one of block 256. So no name may be
   under way behind data: while the receiver still listens, names are sent
   only by an emitter that has not read of its file (`~DataSent`).
3. *Which C is meant.* The emitter answers a C with a name in one phase and with
   data in the other, so the Cs under way are followed (`CallsInOrder`). Each
   is answered once, none follows another without a reply between them, and
   once data are sent there is none left. That is also why an emitter that has
   got no further than its name cannot be led to send data to a receiver that
   still waits for the name.
4. *The emitter may be anywhere when the receiver is called.* A receiver that is
   called after the emitter has given up gets nothing, and one that has
   returned may leave an emitter behind that goes on sending: `BlocksInWindow`
   and `CallsInOrder` are claimed only while the receiver is `Listening`, and
   what the emitter keeps (`YEmitterAtBlkNo`) without it.

`emittedBytes = 0` when `lxmodem_emit` returns must mean that nothing of the file
was sent, as `lymodem_emit` then sends the null name at once: that is the last
conjunct of `YEmitterAtBlkNo`, and the reason for the one on `isLastBlock`.

There is again one lemma per action: `RyNameKeeps`, `RxStoreKeepsY`,
`TyReactKeeps`, `TxPreambuleKeepsY`, and so on. They rest on what an action of one
side leaves to the other (`EmitterKeepsYReceiver`, `ReceiverKeepsYEmitter`), on
what it does to the window (`SendKeepsWindow`, `ReadKeepsWindow`,
`StoreKeepsWindow`) and to the Cs (`CallAnswered`, `EmitterKeepsCalls`,
`RepliesKeepCalls`).

**YMODEM on a line without faults.** `ExactWithoutFaults` says more than
`CompleteWithoutFaults`: the file is cut to a size that has come by another way.
It also has more to cope with: names and the null name are on the line, and the
C of a receiver that is called late may reach an emitter that has given up.
`YFaultlessInv` has three threads:

1. *The size.* What the user told is in the emitter's context, in every name
   under way, and in the receiver's context (`SizeKnown`). Noise and damage do
   not make a name of something else, so this part needs no `faults = 0`.
2. *The frames.* Each is as it was sent (`FramesUntouched`), and a frame with a
   number above 1 comes right behind the frame before it on the line, or behind
   the same frame sent earlier; the first one on the line follows the block
   stored last (`Consecutive`, `EachFollows`). `NoneSkipped` of XMODEM counts
   places on the line and would not do: names take places without taking
   numbers, and the emitter may begin at any time. The last frame on the line is
   the one the emitter keeps (`EndAt`), so that what it sends next follows too.
   A refused frame is thus one stored before, and an EOT is read when every
   block is stored (`HeadFollows`, `RefusedIsStored`, `RxEndFaultless`).
3. *The file.* Its length covers the blocks stored (`BlocksWritten`), so the
   size it is cut to is not more than what was written, and the cut leaves
   exactly `FileSize` bytes (`AllWritten`, `ReturnFaultless`).

What each step of one side leaves to the other is in `ReceiverFaultless` and
`EmitterFaultless`; what sending does to the order is in `NameSentFaultless` (a
name, behind which no data are under way) and `DataSentFaultless`.

**YMODEM when answers are in time.** `YTimelyInv` is `TimelyInv` for the two calls.
What is new in it comes from what happens around the loops:

1. *Two replies in a row.* The receiver acknowledges the name and sends the C of
   `lxmodem_receive` at once. `YOneUnderWay` says what may be on the line in every
   pair of phases: before `lxmodem_receive`, at its start and in its loop. It also
   says that neither an ACK nor a NAK left over from an earlier wait is in
   `receivedChar` when the name is sent, as `lymodem_emit` switches on it also when
   its read fails.
2. *Other frames.* A receiver in its loop may get the null name from an emitter
   whose preamble never came: it has number 0 and is refused. Any other block or
   EOT is the frame sent last (`YFrameIsLastSent`), and `YInStep` says where the
   emitter is then, as in XMODEM.
3. *A receiver that goes on.* After `lxmodem_receive` has failed,
   `lymodem_block_next_file` may acknowledge one frame more. `AcksLeft` counts:
   with room, the emitter is at most one block past the last one stored while the
   receiver still waits, and two after it has returned; and how many ACKs are on
   the line at each of these places. One ACK more, and it would end with a
   success that misses a block.
4. *Who has returned.* `YOutcome` says what the result of each side means for the
   other, `Len(rxData) = NbBlocks` being what a success of either implies.

There is one lemma per action, or per group of actions with the same effect on the
line (`RyStartTimely`, `YRxStoreTimely`, `TyReactTimely`, `YTxAckTimely`, and so
on). `BatchAgreesInTime` follows from the invariant
alone. `ExactWhenInTime` combines it with the first and the third thread of
`YFaultlessInv`: all blocks are stored (`YOutcome`), the announced size is the
file's (`SizeKnown`), and the cut is inside what was written (`BlocksWritten`).
`YRefinesFileTransfer` maps both calls to the same `FileTransfer` as the XMODEM
loops: `CopyGrowsByOne` says what any step does to the receiver's file, and the
names, the null name and the end of the batch are stutters of it.

**Only model-checked.** Liveness (`Termination`, `BothReturn`,
`DeliversUndamaged`) is outside the prover's reach. What `Crc16`, `Block0`,
`XModemBytes` and `MetadataLink` compute is not proved: they work with
exclusive-or (`Bitwise`) or by recursion over data, which needs an induction the
prover does not have.
`StoredIsPrefix` moreover holds for the data of its run and not for all data: a
hit header can make any bytes of the file a block with a CRC that happens to be
right.

## 5. What the runs show that the documents deny

1. `lost`: `lxmodem_receive` sends nothing when a read fails, and its ten failed
   reads are over no later than the ten after which the emitter repeats the
   block. One lost frame may end a transfer; `docs/ymodem.txt` has the receiver
   send a NAK at every timeout.
2. `stale`: the emitter does not discard what came before it finished a block.
   A slow ACK makes it repeat a block, the repetition is acknowledged too, and
   the second ACK is taken for the answer to the next block. If that block was
   damaged the receiver reports success without it.
3. `ymodem_name`: `lymodem_receive_block0` reads the repeated name block without
   its header; after one damaged name block the transfer cannot succeed.
4. `ymodem_hang`: `lymodem_emit` waits for the reply to its name block without a
   limit, and returns never when the receiver has given up.
5. `bytes_slow`: after a read of a body that fails, nothing waits for the line to
   clear. The rest of the body is read as headers, and a data byte 4 ends the
   transfer with success and without the file. `docs/ymodem.txt` asks for a
   silent line before a NAK.
6. `metadata_name`: a name without a size is refused. The search for the size
   skips all NULs behind the name and stops at the CRC of the block, which is
   taken for the size and is no number. `docs/ymodem.txt` says that only the name
   is required.

## 6. Not modelled

* YMODEM over a line of bytes. The loops of `YModemRx` and `YModemTx` run over
  frames; what the line of bytes adds is in the two XMODEM loops they wrap.
* More than one hit on a line of bytes, and hits on replies there: replies are
  single characters, and the faults of a reply are those of `LModemLine`.
* Two damages that cancel in the CRC. In `XModemLink` a damaged block fails its
  check; in `XModemBytes` the check is computed, for one changed byte.
* Memory. The byte behind the line buffer that `lymodem_build_and_send_block0`
  clears, and a line buffer of 131 bytes used for YMODEM, are writes outside a
  buffer. The contexts of the model have line buffers of the sizes of `lmodem.h`.
* A size of 2^31 bytes or more in a transfer: `RamFile` has the arithmetic, the
  runs stay below.
* The set-up of the tty (`serial_setup`), the command line, the file and the exit
  code of `rzsz`: plain I/O. `dbg_serial` acknowledges whatever it reads: it keeps
  no state between two reads, and there is nothing to be said of it.
* More than one file per batch: the code turns down a second file.

## 7. Plan

Done: the frames and the bytes of XMODEM, YMODEM over frames, the CRC, block 0
and the context. Every safety property that a run checks of the transfers over
frames, and both refinements of `FileTransfer`, are proved. What is left is a
receiver over bytes with YMODEM around it, and proofs about `XModemBytes` and
`MetadataLink`, which would need the CRC and the formats as functions with stated
properties in place of their definitions.
