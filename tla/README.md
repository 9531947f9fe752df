# A TLA+ model of cobs-io-async

`cobs-io-async` turns an unreliable byte link into a reliable, ordered byte
stream. It is a `no_std` Rust crate without threads: a connection is a state
machine that moves only when one of its poll methods is called. This directory
models the connection, the codec and the packet sizes, checks them with TLC and
proves the central guarantees with TLAPS.

## The system

| Component | State | Operations | Source |
|---|---|---|---|
| Connection engine | health, outgoing packet (`tx*`), frame being written (`out`), pending acknowledgment, payload slot (`rx_payload`), counters | `drive`, `step`, `poll_output`, `poll_input`, `process_frame`, `poll_timer`, `queue_packet`, `poll_read`, `poll_write`, `poll_flush`, `poll_progress` | `src/connection.rs` |
| Receive framing | `rx_buf`, `rx_len`, `rx_discarding` | `process_input` | `src/connection.rs` |
| Waiters | one stored waker per operation | `register`, `clear`, `wake`, `finish`, `notify`, `cancel_pending` | `src/connection.rs` |
| COBS codec | cursor and current block of each loop | `encode_from_slice`, `encode_from_slice_including_sentinels`, `decode_to_slice` | `src/sync.rs`, `src/codec/decode.rs` |
| Packet format | none | `encode_data`, `encode_ack`, `parse`, `crc32`, `max_payload` | `src/protocol.rs` |
| Sizes | none | `max_encoding_overhead`, `max_encoding_length` | `src/lib.rs` |
| Transport and Timer | external | `poll_read`, `poll_write`, `poll_flush`; `now`, `poll_deadline` | `src/transport.rs`, `src/timer.rs` |

Each connection calls its transport and its timer; the transports of two
connections are joined by a link that may lose, damage, insert and delete bytes
but neither reorders nor delays them. The protocol is stop-and-wait: one DATA
packet at a time, an ACK once its payload is retained in the one slot of the
receiver, retransmission on timeout, failure after `max_retries`.

What is hard here: the two peers, the link and the clock move between any two
calls a poll makes; writes are partial, and a poll may stop at its budget at
any of them; ACKs share the output with DATA and are lost as easily; an ACK of
an earlier transmission can arrive while a retransmission is half written; the
deadline races an ACK already queued behind other bytes; an error may strike at
every call. Several operations of a connection may be awaited by different tasks,
while transport and timer remember one waker each. `PROJECT.json` lists these
hazards line by line.

What makes each part correct:

- engine: exactly-once delivery in order; flush is a barrier; frames are never
  torn; no acknowledgment is dropped; every packet settles; polls return; a
  failed connection is inert but its payload is readable;
- deadlines: no transmission is cut short before the last tick of the clock, which
  saturated deadlines share and `Timer` calls "never"; an acknowledgment that is already there when the deadline passes still counts;
- packets: what was encoded is understood, damage is seen, nothing else passes;
- codec: decoding inverts encoding, bodies hold no zero, the documented buffer
  size suffices, every malformed input gets the right error;
- sizes: the largest payload fits and is the largest that does;
- receive framing: frames do not depend on how the input is chunked; an
  oversized frame costs only itself; a read is never offered an empty slice;
- waiters: an operation that can make progress has a wakeup coming, and tasks
  do not keep each other awake.

## The modules

| Module | Models |
|---|---|
| `ByteStream` | what a pair of connections promises: two byte streams with at most one unretained packet, and flush as a barrier |
| `Reliable` | two connections, the link and the clock |
| `MCReliable` | applications and foreign frames for TLC |
| `Reliable_proofs` | theorems about the streams of `Reliable`, and that it implements `ByteStream` |
| `Reliable_poll_proofs` | theorems about its polls: what each does and leaves behind |
| `CobsBounds` | `max_encoding_overhead`, `max_encoding_length` |
| `Cobs` | the loops of the encoder and of the decoder |
| `Cobs_proofs` | theorems about `Cobs` |
| `Protocol` | the loop of `max_payload` and the check in `Reliable::new` |
| `MCProtocol` | the code's constants |
| `Protocol_proofs` | theorems about `Protocol` |
| `FrameReader` | what `Reliable` takes receiving for: frames that arrive, several at a time, and are processed one by one before the next read |
| `RxFraming` | `process_input` on the bytes of `rx_buf` |
| `RxFraming_proofs` | theorems about `RxFraming` and `LateAck` |
| `LateAck` | the final allowance of `poll_timer` in bytes, composed with `RxFraming` |
| `Wakeups` | tasks, stored wakers, sources that remember their latest poller |
| `MCWakeups` | which task polls what, for TLC |
| `Wakeups_proofs` | theorems about `Wakeups` |
| `Packet` | `encode_data`, `encode_ack`, `parse` and `crc32`, bit by bit |
| `MCPacket` | sample packets for TLC |
| `Packet_proofs` | theorems about `Packet` |
| `Deadline` | `tx_deadline` and `tx_retries` on a clock that ends |
| `Deadline_proofs` | theorems about `Deadline` |

The modules divide the connection by the question they ask. `Reliable` has the
whole protocol and treats bytes, time and wakers in the abstract; each of
`RxFraming` with `LateAck`, `Deadline`, `Packet` and `Wakeups` takes one of those
abstractions back and reduces the rest. Actions that model the same lines have
the same name in each.

### Reliable

The fields of `struct Reliable` are variables, functions over the two peers,
under their own names. A poll has exclusive access to its connection, so a
connection runs at most one, and `pc` says where it is:

```
idle -BeginPoll-> output -> [send] -> input -> [process] -> timer -> finish -> idle
                    ^                                         |
                    +------------ Work::Progress -------------+
```

A step of the model is the stretch of code between two calls of the transport
or timer, so everything outside a connection can change at exactly the points
where the code would notice. `output`, `input` and `driven` hold the local
results of `step` and `drive`; `op` is the poll method, and becomes `"Wrote"`
once `queue_packet` has taken the packet and drives a second time. Each action
is one outcome of one call: `OutputPending`, `WritePart`, `WriteRest`,
`FlushDone`, `OutputError` and so on; the disjunctions `poll_output`,
`poll_input`, `process_frame`, `poll_timer` and `finish` collect them under the
names of the functions they make up.

Abstractions, and why they lose nothing that the properties see:

- A frame is the packet it encodes, and its length is `DataLen` or `AckLen`
  units, so that a write can be partial. The link remembers, unit by unit, from
  which packet a unit was copied (`wire`); `Assemble` gives the packet back if
  all units agree and otherwise a torn frame, which the checksum is taken to
  reject. That the buffer is not altered under the transport is therefore a
  property (`FramesIntact`), not an assumption.
- `rx_buf` holds the complete frames of the last read. Partial frames, noise and
  damaged frames are reads that complete nothing (`ReadNoise`). `TakeInput` and
  `NextFrame` are `Read` and `Process` of `FrameReader`, with its `Return` after the
  last frame, and `rx_buf` is what has arrived there and is not processed; that the byte buffer takes these steps, for the frames
  that the bytes of the link contain, is what `RxFraming` shows.
- Reads count against `final_input` in units; a read counts for any number.
- `due` says that the deadline has been reached; the actual times play no role.
  Timer ticks, `retransmit_timeout` and the saturating addition are in `Deadline`.
- A poll may happen at any time; who is woken to poll is the subject of
  `Wakeups`.
- Undetected damage (a checksum that matches by accident) and forged frames of
  the current session are excluded, as `Config::session` and the crate's
  documentation exclude them. Frames of other sessions can arrive at any time.
- `SeqLimit` stands for 2^32; `tx_next` is cast with `% SeqLimit`.
- A write offers any number of the bytes still to be written, so every length
  of `buf` up to `MAX_PAYLOAD` occurs.

### RxFraming and LateAck

`rx_buf` is the code's `rx_buf[..rx_len]`. `Read` is a `poll_read` that fills any
part of the free slice; `TakeRun` is one turn of the loop of `process_input`, and
`Wait` its end, when no delimiter is left. The history `stream` is the whole
input and `frames` what reached `process_frame`. Bytes are arbitrary.
`FrameEnds` and `RunBefore` define the frames of an input without reference to a
buffer: its delimited runs of 1 to `N - 1` bytes; `FramesOf` numbers them.
`ImplementsFrameReader` maps `FrameReader` to these histories: what has arrived is
`FramesOf(stream)`, what is processed is `frames`. `Read` is its `Read`, a `TakeRun`
that finds a frame its `Process`, `Wait` its `Return`, and a `TakeRun` that finds
none a stutter. So the one property says that the frames do not depend on how the
input was divided, that they keep their order, that each is processed once, and
that none is left over when `process_input` returns.

`LateAck` EXTENDS it with the part of `poll_timer` after the deadline. It starts
where `poll_deadline` is about to answer Ready, with any unfinished run in the
buffer (or one being discarded) and, ready in the transport, the tail of any
frame, perhaps the acknowledgment, and more bytes behind it. A poll may yield
between any two calls. Reads are in bytes, so `FINAL_INPUT` is the code's
`N + ACK_FRAME_LEN`. The histories `since` and `dry` record how much had been read
when the deadline was noticed, and whether a read has found the transport empty
after that; they are what the end of the allowance is measured by, independently of
`final_input` and of `poll_input`'s result.

### Wakeups

A waker is the task it wakes. `source[s]` is what a transport's input or output
or the timer remembers: its latest poller, or that it is ready; a waker that is
displaced is lost, as the traits allow. `waiters` is the field of that name.
`pending` is the executor's: the task that awaits each operation; waking a task
polls everything it awaits (`runnable`), and a task may also poll unasked
(`Repoll`), poll a future that has moved (`PolledBy` with several tasks), or drop it
(`cancel_pending`, which its caller must then call, as its documentation says).
`finish` is register or clear, followed by `notify`. `Wake({task})` in `EndStep` is
drive's self-wake.

The poll is the loop of `Reliable` with the protocol reduced: input may bring any
combination of an acknowledgment, the next packet and a repeat; a frame is
written, or flushed, whenever output is ready. When the flush of DATA sets a new
deadline, the timer's registration for the old one is worth nothing and is
dropped.

### Packet

`parse` and the encoders are translated field by field, with a session of 64
bits, sequence numbers and checksums of 32, and the code's table-driven CRC. A
word is the set of its bits that are one, which makes exclusive or the symmetric
difference and a shift a renaming. One packet is encoded; the link then inverts
up to `MaxFlips` bits anywhere in it. `SealOther` seals bytes that are no packet.

### Deadline

`Timer::now` is a clock that ends at `MaxTime`, `u64::MAX` in the code, and may
advance between any two steps. The histories `first` and `latest` are the times
at which the packet's first and latest transmissions were flushed. `timer.rs` calls
the deadline `u64::MAX` "never", but a timer whose `poll_deadline` compares `now`
with the deadline, as the trait says it does, lets it pass once the clock shows
`u64::MAX`. `Elapsed` excepts that one tick: up to it every transmission has its
full timeout, and at it none is promised one.

### Cobs and Protocol

One step per byte of the two loops. `MaxCode` stands for `0xFF`: with 3, a full
block has two bytes, and six source bytes exercise every arrangement of zeros
and full blocks, several in a row. Sequences count from one, so `code_idx` is
one more than in the code. `Protocol` uses the real 255 and 17.

## The runs

| Run | Config | Shows |
|---|---|---|
| `one_way` | `OneWay.cfg` | safe release, the flush barrier, whole frames, owed acknowledgments, and that `Reliable` implements `ByteStream` and so delivers exactly once and in order |
| `two_way` | `TwoWay.cfg` | the inductive invariant, streams included, when ACKs and DATA compete for the output; a poll that ends Blocked strands nothing |
| `faults` | `Faults.cfg` | types (also at the last sequence number), retries, foreign sessions, inertness after each failure, that acknowledged payload is read before a failure is reported, and that each step of a poll brings it nearer to its return |
| `settle` | `Settle.cfg` | every poll returns; every packet is acknowledged or the connection fails |
| `cobs` | `Cobs.cfg` | round trip, no zero in a body, documented sizes suffice; the decoder against the definition of COBS, on every input |
| `framing` | `RxFraming.cfg` | that `RxFraming` implements `FrameReader`: the frames found are those of the whole input however it is divided; a read always has room; what is remembered between reads |
| `late_ack` | `LateAck.cfg` | an acknowledgment that was ready at the deadline is found before the verdict; the verdict comes by the first read that finds nothing ready, and within `FINAL_INPUT` bytes |
| `wakeups` | `Wakeups.cfg` | all four operations, polled and dropped at will by two tasks, and a read that moves between them: who sleeps will be woken by what it waits for |
| `served` | `Served.cfg` | a reader and a writer polled only when woken: what is ready is served, deadlines are acted upon, and the tasks let each other sleep |
| `packet` | `Packet.cfg` | encoding, parsing, and every damage of one or two bits |
| `deadline` | `Deadline.cfg` | no transmission is given less than its timeout, and the last is given up after all of them |
| `sizes` | `Protocol.cfg` | `max_payload` for all buffers up to 600 bytes |

Bounds. Two packets make a stale acknowledgment possible: the ACK of the first
is repeated while the second is outstanding. One retry makes a repeat of DATA,
and so a repeated ACK, and both outcomes of the retry check. A budget of two
calls ends polls at every point of a step, the code's 16 only later; the next
poll continues, so longer runs of steps occur as well. Data frames of two units
can be half written, and so can ACK frames in `one_way`. Two frames in flight
can be a stale one and a current one. `two_way` is limited to one packet each
way and one frame in flight: what it adds is the contention of ACK and DATA, and
the peers are symmetric there. No one flushes there, so `FlushBarrier` is idle
in its `IInv`; `one_way` is where it is exercised. ACK frames have two units in
`one_way`: with two packets, a repeat and the packet after it can be read
together, so a pending acknowledgment is replaced by the next, while the frame
of an earlier one is half written or the budget ended before its first byte.
`faults` accepts a single packet; streams of several are checked in `one_way`,
by `ImplementsByteStream`. In `one_way` the receiver may also poll
`poll_progress`, and in `faults` `poll_flush`, which is how its slot stays full
while further DATA or a failure arrives. `faults` has one sequence number for
two bytes, so that the second write meets the end of the number space.

`framing` has a buffer of four bytes and nine bytes of input over three values:
frames of one to three bytes, runs that fill the buffer exactly, and runs that
fill it twice, between frames that fit. `late_ack` has a buffer of six and an
acknowledgment of four: every unfinished run, every tail of a frame, every
division into reads. In `wakeups` and `served` two tasks suffice to
displace one another's wakers, and a budget of two calls yields at each point of
a step; one read of allowance gives both ends of it. `packet` inverts every bit
and every two bits of packets of 17 to 19 bytes with fields whose bytes all
differ. `deadline` has two retries of three ticks on a clock of 14, started at
any tick, so that it ends before, during and after them. `cobs` has sources and
inputs of up to seven bytes, that is three full blocks, and destinations from
none to one byte more than the worst case.

Deadlock is checked in all runs of `Reliable`, `LateAck` and `Wakeups`. The loops of
`Cobs` and `Protocol` end, `RxFraming` and `Packet` stop at their bounds, and in
`Deadline` the clock does; their configs say so.

Fairness (`settle`). A poll that was started is run to its end (it is a function
call). The applications keep polling, as the crate documentation demands ("makes
progress only while polled"). A transport that is asked again and again
eventually accepts output (strong fairness, since each call may answer Pending),
for which the link needs room for all transmissions of a packet whose receiver
has failed: a transport that blocks for ever blocks the connection for ever,
because the deadline is counted from the flush. The clock reaches every
deadline. Nothing is assumed of delivery: every frame may be lost, and the link
may supply noise at every read.

Fairness (`served`). A poll runs to its end, the timer fires, and the executor
polls a task that was woken: strongly fair for each operation, because a poll of
another one, which has the connection to itself, disables it for a while.
Nothing is assumed of the transport, and no poll is assumed but those of woken
tasks, which is what `settle` leaves open: the application's part of its fairness is what
`Wakeups` shows the connection to bring about.

## What is proved

`Reliable_proofs` proves for every value of the constants (any payload, any
number of packets and retries, any budget, frame length, set of errors and set
of foreign frames, links of any capacity):

- `TypeCorrect`: `Spec => []TypeOK`;
- `ExactlyOnceInOrder`: `Spec => []StreamConserved`;
- `ReleaseIsSafe`: `Spec => []ReleasedIsRetained`;
- `FlushIsBarrier`: `Spec => []FlushBarrier`;
- `AcknowledgedIsRead`: `Spec => AckedIsReadFirst`;
- `Refinement`: `Spec => Bytes!Spec`, where `sent`, `got` and `slot` of
  `ByteStream` are `accepted`, `delivered` and `rx`. `AcceptPacket`,
  `RetainPayload`, `ReadReady` and `FlushReady` are its four actions, every
  other step is a stutter.

None of the safety invariants is inductive. A matching ACK releases the packet,
so one must know that an ACK exists only for retained DATA; next DATA is retained
without a look at the sender, so one must know that a frame with the current
number carries the current payload, although old frames are still about. `IInv`
says this of everything under way (`FramesSound`): the frame buffers, the units
on the wire, the frames in the link and those read but not yet processed.
`InStep` adds that the receiver is at most one packet behind, so that "the ACK
has the last number" means "everything was retained". The proof has three
layers: types, soundness of frames (`FramesKept` shows that soundness survives
growth of the counters, so that an action answers only for the frames it adds),
and the streams, one lemma per action that touches one. `AcknowledgedIsRead`
follows from two of its parts: a released packet is retained, and what is retained
is delivered once the slot is empty, which `ReadFailsEmpty` finds it to be.

The assumptions are those named in `Reliable`: two different peers, constants in
their ranges, and `InsertedAssumption`, the freshness of the session identifier.

`Reliable_poll_proofs`, for the same generality:

- `FramesStayWhole`: `Spec => []FramesIntact`;
- `TimeoutIsEarned`: `Spec => []RetriesSpent`;
- `BlockedLeavesNothing`: `Spec => []NothingStranded`;
- `FailureIsFinal`: `Spec => FailedIsInert`;
- `AcksAreNotDropped`: `Spec => AckNotDropped`;
- `EveryPollEnds`: `Spec => PollEnds`.

These are about one connection each, so `PollInv` is one predicate of a peer,
over variables that only its own steps change, and the proofs treat the other
peer in one lemma. A frame can be altered between two partial writes unless the
buffers are known not to be refilled: `Unaltered` says that the units taken are
those of the buffer as it is now, `Counted` that a packet which is queued or
waiting has no transmission under way, and how many transmissions `tx_retries`
stands for (one may be still under way when its packet is released). `Driving`
carries, from `poll_output` to the end of `drive`, what a step that answered
Blocked has passed. `AcksAreNotDropped` follows an acknowledgment from `ack_pending`
into the frame buffer and out of it: `BuffersFilled` says that the buffer holds its
encoding, `AssembledIs` that what the link has then is that encoding, whole. It
needs `FramesSound` of `IInv` besides: DATA with the next number is under way only
once its sender has stopped waiting for the older acknowledgment.

`PollEnds` is the part of `PollReturns` that needs no fairness. `StepsLeft` counts
the steps a poll may still take: `ChanCap + 4` for each unit of its budget, `Rank`
for where it stands in the present pass through `step`, and five for the second
drive of a write. Each step of the poll lessens it and no step of anyone else
changes it, so a poll takes at most `StepBudget * (ChanCap + 4) + 10` steps of the
model, whatever transport, link and peer do. A pass that does not spend is the
last one, because its input yields and drive does not loop on `Yield`
(`EndStepRank`); what a read adds is paid for by the unit it spends, since it
completes no more frames than are in flight (`Capped`). `ChanCap` stands here for
the frames one buffer of input can hold. What remains to `PollReturns` is that the
poll's steps are taken, and that is ENABLED and fairness.

`RxFraming_proofs`, for every buffer size and all input in every division:

- `NeverTakenForEof`: `Spec => []RoomToRead`;
- `FramesAlwaysFit`: `Spec => []FramesFit`;
- `FramingTypes`: `Spec => []FramingTypeOK`;
- `FramesAreThoseOfTheInput`: `Spec => []FramesOfStream`;
- `TailIsKept`: `Spec => []OnlyTailKept`;
- `FramingRefines`: `Spec => ImplementsFrameReader`;

and, of `LateAck`, for every length of an acknowledgment and whatever is ready:

- `ReadyAckCounts`: `LateSpec => []LateAckCounts`;
- `AllowanceEnds`: `LateSpec => []NoEndlessAllowance`.

`FramesFit` (what `process_frame` decodes holds no delimiter and is shorter than the
buffer) and `FramesOfStream` (between reads, `frames` has the runs of the input that
fit, in order) are defined beside the proofs; no run checks them apart, as
`ImplementsFrameReader` implies both.

The first three are inductive together. The next two need to know between any
two turns of the loop how far the input has been taken: all but `rx_buf`. `Kept`
says that the run in hand began where the last delimiter was, or is already too
long; `Found` that the frames are those that end in the part taken. The last
`CHOOSE` and the cardinality in their definitions are dealt with by `FirstDelimiter`
and by lemmas on how one more delimiter adds one more end. `FramingRefines` needs
that the ends are numbered without gap or repetition (`EndsCounted`, by the least
position up to which they are not, and `EndsApart`); then `FramesOf` of more input
begins with that of less (`FramesAdded`), and `Found` says that `frames` is always
its beginning (`ProcessedInOrder`), in the middle of the loop too, and all of it
when the loop ends (`WaitIsReturn`). For the allowance,
`AckAhead` is the invariant: while the packet waits, the acknowledgment lies
ahead, in the buffer or still in the transport, behind some delimiter, and its
last byte within what may still be read. `AllowanceEnds` has an invariant of its
own, `Spent`: what is left of the allowance is `FINAL_INPUT` less what the history
says was read, and after a read that found nothing `poll_timer` comes next.

`Wakeups_proofs`, for any number of tasks and any assignment of operations:

- `NoWakeupLost`: `Spec => []NoLostWakeup`;
- `NoWaiterForgotten`: `Spec => []WaitersAreThePending`;
- `WakeupsTypes`: `Spec => []WakeupsTypeOK`.

`NoLostWakeup` speaks of the moments when everybody sleeps; between them it says
nothing. `Driving` follows a poll through its sources: a source that it has passed
holds the waker of its task, or that task has been woken since (`WillWake`).
`Waiting` says that the stored waiters are those of the operations that are
pending, with the exception of the one being polled.

`Cobs_proofs`, for every source, destination and length of a full block:

- `EncodedIsDecoded`: `Spec => []RoundTrip`;
- `AnyInputIsDecoded`: `Spec => []DecodeAgrees`;
- `LengthSuffices`: `Spec => []RoomSuffices`;
- `Unambiguous`: `Spec => []BodyHasNoZero`;
- `CodecTypes`: `Spec => []CodecTypeOK`, that is no overflow of the `u8` values and
  no index out of bounds, for foreign frames as well.

For what was encoded, the invariant is about the blocks of a body (`Blocks`): there is a map from each
position to its block's code and one to the number of source bytes up to there.
The encoder extends the maps byte by byte (`Encoding`); they are then fixed, and
the decoder's variables are what the maps say of its position (`Decoder`). `Room`
counts the full blocks that were followed by another byte.

For any other input, `decode_slice` is compared with the definition of COBS, the
recursive function `From`. `FromExists` shows that there is such a function, and
`FromIs` that its equation holds; both, and the type of what it computes, by an
induction that needs no operator as a parameter: `Downwards` says that a set which
has the last position of the body, and the predecessor of each of its positions,
has them all. `Reading` relates the decoder to it: the payload of the whole body
is what is decoded so far, followed by what the rest of the block, the zero it
implies and the blocks after it stand for (`Owed`), and the body is made of whole
blocks if and only if what lies ahead is.

`Packet_proofs`, for all sessions, sequence numbers and payloads:

- `EncodedIsUnderstood`: `Spec => []Understood`;
- `OnlyEncodingsAreTaken`: `Spec => []CanonicalOnly`;
- `ChecksumIsRight`: `Spec => []ChecksumIsCrc32`: the table is that of CRC-32, and
  the nine digits 123456789 have the checksum that identifies the algorithm;
- `TableIsSerial`: whatever the register holds, looking up a byte in the table does
  what CRC-32 does with its eight bits one after the other;
- `BurstsAreRejected`: `Spec => []BurstIsSeen`, damage to the checksum alone or
  within four bytes in a row before it is discarded, whatever the length of the
  packet and however many bits are inverted;
- `OneBitIsSeen`: if `MaxFlips <= 1`, `Spec => []DamageIsSeen`.

The first two hold whatever `crc32` computes, as long as it is 32 bits wide.
`WordOfBytes` and `BytesOfWord` show that big-endian words and their bytes
determine each other, `Laid` and `Quartered` that the fields are where `parse` looks
for them, `Sealed` and `Opened` the same of the checksum. `PacketInv` adds to
`Understood` that `received` was parsed from what is in `decoded`.

The others are about the checksum itself. The functions that `Entry`, `Serial`
and `Fold` define are shown to exist by `Steps`. A register that takes in a bit
does what a table entry does that had taken it in before (`OneBit`), which gives
`TableIsSerial`. With it, the register is followed through the nine digits of the
check value, bit by bit (`Becomes`), which gives `ChecksumIsRight`. Bit 31 of the polynomial shows after each step whether it was
added, so a step can be undone: if two registers agree after it but in their
lowest `m` bits, they agreed before it but in the lowest `m + 1` (`BackBit`).
Going back four bytes this way from equal registers, to where they were equal
because nothing had differed yet, every byte in turn is found to be the same
(`FoldTells`). `Damaged` is the invariant that the bytes under way are those of a
sealed body but for the bits in `flips`. A burst that reaches from the body into the
checksum is not covered: the checksum is sent most significant byte first, the
reverse of the order in which the register shifts, and the argument ends there.

`Deadline_proofs`, for every timeout, number of retries and clock:

- `RetriesNeverEarly`: `Spec => NeverEarly`;
- `TimesOutLast`: `Spec => []GivesUpLast`.

`DeadlineIsLatest` says whose deadline `tx_deadline` is, `RetriesTookTime` adds up
one timeout for each retry. The products with `tx_retries` are nonlinear for the
solver: `OneMore` states the one step of the sum that is needed.

`Protocol_proofs` proves `FrameFits` and `NoLargerFits`: `max_payload` is exact
for every capacity, overhead and block length. The loop invariant `PassedOver`
says that every length passed over was too long.

Besides the assumptions of `Reliable` named above, the proofs use those that the
modules state of their own constants: sizes, bytes and words in the range of
their types, at least one byte in a write (`poll_write` answers an empty one at
once), and names that differ.

Only model-checked, with the reasons:

- liveness under fairness (`PollReturns` beyond `PollEnds`, `PacketSettles`, `ReadyIsServed`,
  `DeadlineIsSeen`, `Quiescence`), which is beyond the proof system;
- `DamageIsSeen` for two bits that are in no such burst, which is a fact about the
  order of the one polynomial.

## Not modelled

- Error types, `Display`, `serde` and `defmt`: data and formatting.
- Damage beyond two bits and beyond a burst: whether the checksum detects it is a
  matter of probability. `Packet` inverts bits of the packet, not of its COBS encoding, where
  an inverted bit may also move a delimiter; `Reliable` takes damaged frames to be
  rejected.
- `into_parts`: consumes the connection. `will_wake` only avoids a clone: register
  is the same with and without it.
- Tests and benchmarks.

## What is left

All modules of the table are written, and every safety property that a run checks
is stated by a theorem, `DamageIsSeen` in the parts named above. What could follow:

1. The rest of the composition of `RxFraming` with `Reliable`: `FrameReader` is shown
   to be implemented by the one and is what the other assumes, but no module has
   both. Between them lie `Cobs`, from bodies to packets, and `Packet`.
2. The lemmas on sequences that `Packet_proofs`, `Cobs_proofs` and `RxFraming_proofs`
   each prove for themselves, stated once.
