# Z-Wing in TLA+

Z-Wing is a secure channel: a 1-RTT mutually authenticated handshake (X-Wing
KEM, Ed25519 + ML-DSA-65 identities), then ChaCha20-Poly1305 records with
sequence-numbered nonces over any `net.Conn`. The Go package is the reference
implementation; TypeScript and Python ports speak the same bytes. This directory
holds TLA+ modules of that code, TLC configurations that check them on small
instances, and TLAPS proofs of all their safety properties.

## Inventory

| Part | Source | State | Operations | Interacts with |
|---|---|---|---|---|
| Secure channel | `channel.go` | two sequence counters, two mutexes, `readBuf`, the raw connection | `Read`, `Write`, `Close`, `Set*Deadline` | calls framing; used by any number of goroutines |
| Framing | `wire.go` | none (but bytes already taken from the connection) | `writeFrame`, `readFrame` | called by the channel and the handshake |
| Handshake | `handshake.go` | locals of two functions; `handshakeResult` | `runInitiator`, `runResponder` | frames, identity, KEM; result goes to `newConn` |
| Identity | `identity.go` | long-term keys | `Sign`, `Verify`, `Equal`, marshal, parse | handshake |
| X-Wing KEM | `kem.go` | long-term keys; buffers of secrets during a call | encapsulate, decapsulate, combine | handshake |
| Dial, Listener | `dial.go`, `listen.go`, `config.go` | raw connections, their deadlines, the raw listener | `Dial`, `Client`, `Server`, `Listen`, `Accept`, `Close` | run the handshake inline |
| TypeScript port | `js/` | as Go, without mutexes | async `send`, `recv`, handshake | interleaves at every `await` |
| Python port | `py/` | as Go, without mutexes | synchronous `send`, `recv`, handshake | |
| Test server | `cmd/zwing-test-server` | one connection | `Accept`, `Read`, `Write`, `Close`, once each | a client of another implementation |
| ZAP helpers | `zap.go` | none | wrappers | |

What is hard to test here: goroutines on one `Conn`; deadlines and failed writes
in the middle of a frame; the last sequence number; a raw connection that
damages, loses or repeats data; frames that reach the wrong session; a handshake that
succeeds on one side only; a silent peer in front of an inline `Accept`; frames
cut at a field boundary; two ends that write to each other until the connection
is full; a close right behind a write; a key buffer wiped too early or not at
all. `PROJECT.json` lists these hazards at their lines, with
the properties that would notice each going wrong.

## Modules

| Module | Models | Runs |
|---|---|---|
| `Channel` | one direction of a `Conn`: writers, readers, raw connection | `channel_*` |
| `ByteStream` | what a channel promises, abstractly | (refined by `Channel`) |
| `Handshake` | the handshake on several connections at once | `handshake_*` |
| `Listener` | `Dial`, `Accept`, timeouts, the accept queue | `listener_dials` |
| `Codec` | byte formats, hash inputs, the ports' decoders | `codec_frames` |
| `PortChannel` | the channel of the TypeScript and Python ports | `port_concurrent` |
| `Session` | handshake and channel composed on one raw connection, both directions, flow control; the test server | `session_duplex` |
| `KeyMaterial` | what every buffer of secrets holds, from the KEM to the channel, in Go and TypeScript | `keys_*` |
| `MC*` | instances for TLC | |
| `*Proofs` | TLAPS proofs about the module each is named after | |

How they fit: `Listener` runs handshakes whose content is `Handshake`'s subject;
`Handshake` treats messages as records of their parts, which `Codec` justifies,
and ends where `newConn` has chosen the keys; `Channel` starts there, with the
AEAD ideal. The two directions of a `Conn` share nothing but the raw connection,
so `Channel` is about one of them; `Session` puts the handshake's frames and both
directions on one connection, and keeps of each frame only where its bytes are.
`KeyMaterial` follows the secrets that `Handshake` treats as values.

### Channel

A plaintext byte is a pair (Write call, offset); the raw connection carries
*cells*: header bytes, ciphertext bytes of a numbered record, junk. A frame opens
under a sequence number exactly if it is, byte for byte, the ciphertext of a
record sealed under that number.

| Code | Model |
|---|---|
| `Write` entered; `writeMu.Lock()` | `WriteCall`, `WriteLock` |
| one turn of the loop up to `Seal`, `writeSeq++` | `Seal` |
| the two `w.Write` calls of `writeFrame` | `WriteHeader`, `WriteBody` |
| an error of either, after any number of bytes | `WriteRefused`, `WriteExpired` through `AbandonFrame` |
| the loop ends, or the sequence is exhausted | `WriteReturn` |
| `Read` entered; `readMu.Lock()`; `readBuf` served | `ReadCall`, `ReadLock`, `ReadBuffered` |
| first `io.ReadFull`, length checks | `ReadHeader`, `ReadBadLength` |
| second `io.ReadFull`, exhaustion, `Open`, `copy` | `ReadOpen`, `ReadCorrupted`, `ReadExhausted` |
| errors of `io.ReadFull` | `ReadEOF`, `ReadClosed`, `ReadExpired` |
| `Close` | `CloseSender`, `CloseReceiver` |

The history variables `records`, `stream`, `delivered`, `torn`, `readErrs` and
`cut` record what was sealed, returned and damaged or interrupted; no action's guard but the
raw connection's `Duplicate` and the ideal `Open` looks at them.

### Handshake

An endpoint is a connection and a role. Signatures, ciphertexts, keys and sealed
payloads are records; equality of records is equality of bytes. ML-KEM's implicit
rejection is kept: decapsulating the wrong ciphertext gives a secret nobody else
has. The network delivers in order on each connection, and may deliver any frame
ever written once more, anywhere, damage a part of one, or lose bytes. Endpoints
that present an identity whose keys they do not hold are among the topologies. A
failed endpoint closes its raw connection. After the handshake each side may write
one record, so that the keys chosen by `newConn` are put to use.

A frame is also a length and that many bytes (`readFrame`). What damage to the
length, or missing bytes, make of it is one of two things. `Garbled`: the length is
0, too large or too small, or the bytes are not those of one frame, and
`readFrame` fails or returns something that neither parses nor opens. `Short`: fewer
bytes come than the length says, and `io.ReadFull` waits; it goes on with the bytes
of the frame behind (`Swallow`), until it has enough or the connection is closed
(`PeerClosed`) or its deadline passes (`Expire`). `timeout` says which endpoints
set `HandshakeTimeout`, and `short` remembers whose stream lacks bytes.

A handshake can therefore wait for ever, and `EveryHandshakeEnds` says
when it cannot (`MustEnd`). A side with a timeout always ends. A side without one
ends if no bytes are missing from its stream and, for an initiator, none from its
responder's either, or the responder has a timeout: the responder's failure closes
the connection. Without any timeout, lost bytes may leave both sides waiting.

`RecordOrigin` is about identities, not connections: with a replayed response (see
Findings) and a misdelivered record, a record of one session of an initiator opens
at a responder that takes part in another session of the same initiator.

### Listener

`acc` is the connection each goroutine in `Accept` is handshaking. The kernel's
queue is bounded by `Backlog`. A peer is our own `Dial`, sends a frame that
fails a check, or says nothing. A deadline that is armed may expire at any time,
whether or not its handshake is still running. Configuration errors return before
anything happens and are left out; `Client` and `Server` are the same two
handshake functions on a connection the caller supplies.

### Codec

Frames are sequences of small bytes (`Base` values instead of 256, so that a
two-byte length reaches past the end of short frames). `data` grows byte by byte,
so the reachable states are all frames up to `MaxLen`, and the invariants compare
parsers, encoders and ports on each. Go's `sliceReader` and the ports' offset
arithmetic are modelled separately; the Python decoders make the same comparisons
in the same order as the TypeScript ones.

The libraries' `PublicKeyFromBytes` are external. `MLKEMKeys` and `DSAKeys` are the
byte strings they accept, all of the right size; ML-KEM refuses some strings of
that size, and ML-DSA, by the comment in `identity.go`, none, but the tests put
another function in its place, so the error return is modelled. In the run each
refuses a third of the strings. A key that is accepted is represented by its bytes.

### PortChannel

The ports' channel has no mutex. In TypeScript `send` and `recv` run without
interruption from one `await` to the next, so an action is the code between two:
`Send` and `SendMore` seal a chunk, take its number and write the header,
`SendPayload` writes the payload, `RecvHeader` checks a length and asks for the
payload, `RecvOpens` and `RecvCorrupted` take the nonce and open. In Python each
await is a blocking call, so it is the case where callers await every call
(`awaited`, chosen once at the start). The `DuplexStream` is external: it keeps the order of its writes and
of its reads, serves a read with as many bytes as it asked for, and may reject a
write after a part of it. `rxOverflow` is never set in the code, so `recv`
always reads a frame.

Calls that are not awaited may mix their frames on the wire, and then `recv`
fails although nothing was damaged. What holds even so is that no nonce is reused
and no record is skipped or reordered.

### Session

One raw connection with room for `Capacity` bytes each way. `pend` is what a
`writeFrame` has yet to hand over, `part` what a `readFrame` has taken. The
handshake's four steps (`phase`) use the same two functions as the channel, so a
record may lie right behind a handshake frame. `Read` and `Write` are lock, frame
by frame, unlock. `Shut` is what TCP does on a close: what the peer was sent is
still delivered, unless there was unread data, when the connection is reset and
the end of it may be lost. A goroutine whose call failed stops calling.

`app` selects what the applications do. In `"stream"` both ends may write and
keep reading; in `"closing"` nobody has to read, but the initiator closes at last
and either may at any time; in `"echo"` the responder is the test server: one
`Read`, one `Write` of what it got, at most `BufSize` bytes, then the deferred
`Close`. Its client sends one record, as the interop tests do, which may or may not
fit the buffer. What does not fit stays in `readBuf`, not in the raw connection, so
the `Close` behind it resets nothing. The server's own comment says that it "echoes
one payload" (`main.go:4-5`); that is true up to its 4096 bytes. `EchoReturns` says
what is true in general: of a longer payload the first `BufSize` bytes come back,
with no error at either end.

### KeyMaterial

Each end runs Go or TypeScript. A buffer holds nothing, zeros or a secret, and a
secret is the term of what it was computed from; a value computed from a wiped
buffer is therefore a different term. The actions are the steps of
`XWingEncapsulate`, `XWingDecapsulate`, `runInitiator`, `runResponder` and
`newConn` that fill or wipe a buffer, with every error return: `EarlyReturn`
inside the KEM, which wipes nothing, and `LateReturn` after `idKey` exists, which
runs the deferred `zero`. Go's AEADs copy their key; the port's channel refers to
the buffers of the handshake output, and wipes `shared` instead of the keys.
Copies inside libraries, in registers and in dead stack frames are out of reach.

## Runs

| Run | Shows | Bounds |
|---|---|---|
| `channel_concurrent` | `TypeOK`, `WriteContiguous`: the bytes of one Write stay together; `ErrorsHaveCause`: Read reports damage only if something did damage | 2 writers, 2 readers, 2 writes of 1 or 3 bytes (2 bytes fit a record), 3 sequence numbers, read buffers of 0 and 2, 1 read deadline |
| `channel_faults` | `NonceUnique`, `StreamPrefix`, `TornStops`, `ImplementsByteStream`; `EventualDelivery`: where nothing is lost or damaged, every sealed byte arrives | 1 writer, 1 reader, 1 corruption, loss or repetition, 1 read and 1 write deadline, 2 sequence numbers, header of 2 bytes, read buffer of 1 |
| `channel_deadline` | a violation: see Findings | 1 writer, 1 reader, 1 read deadline, no faults |
| `handshake_safety` | `InitiatorAgreement`, `NoKeyConfusion`, `RecordOrigin`, `TookWhatWasSent` | 2 connections, 6 topologies, all pinnings, 1 network fault, no timeouts (`handshake_progress` and the proofs have them) |
| `handshake_progress` | `TypeOK`, `EveryHandshakeEnds`, `HonestSuccess` | 1 connection, 3 topologies, all pinnings, all four timeout settings, 2 faults, 1 I/O failure |
| `handshake_replay` | a violation: see Findings | as `handshake_safety` |
| `listener_dials` | `NoLeak`, `EstablishedStays`, `EveryDialReturns` | 3 peers of any kind, 1 acceptor, backlog 1, all four timeout settings |
| `codec_frames` | `AcceptsExactlyEncodings`, `IdentityRoundTrip`, `PrefixFree`, `PortsAgree`, `DigestUnambiguous`, `TranscriptUnambiguous` | all frames up to 10 bytes of 3 values; each key library accepts 6 of the 9 keys of its size |
| `port_concurrent` | `NonceUnique`, `RecordsInOrder`; with calls awaited, `FailuresHaveCause`, `RecordsArrive` | 2 sends and 2 receives in flight or awaited, 1 or 2 records each, 2 sequence numbers, 1 rejected write, header of 2 bytes |
| `session_duplex` | `FramesInOrder`, `EveryWriteReturns`, `EveryReadReturns`, `EchoReturns` | a writer and a reader at each end and a second reader at one, 1 write of 2 bytes at each end, frames of 2 to 4 bytes, capacity 2, all three applications; in `"echo"` payloads of 1 and 2 bytes at a server whose buffer holds 1 |
| `keys_lifetime` | `KeysIntact`, `SecretsWiped` | 1 session, Go or TypeScript at each end, any damage to the response |
| `keys_shared` | a violation: see Findings | as `keys_lifetime` |

Why the bounds are enough. A write of three bytes over records of two gives a
full record and a short one, so a second writer has a place to cut in. With
`SeqMax` at 2 or 3 the counters reach their end within the writes allowed. A
header of two bytes can be cut in the middle. One fault of each kind at every
position, with a deadline on either side, covers the ways a single frame can be
hurt; the safety properties of the channel are also proved without bounds. Two
connections are the least that can confuse sessions. A backlog of one and three
peers give a connection in handshake, one in the queue and one that cannot get
in. A capacity below a record's frame makes every `Write` wait for a reader; one
write at each end is then enough for each to wait for the other. Sessions share
no buffer of secrets, so one is enough. `SYMMETRY` is used in
`channel_concurrent` only, which has no liveness property; writers are
interchangeable, and so are readers. The handshake, listener, codec, session and
keys runs allow states with no successor: their sessions end, and frames have a
last byte.

Fairness. `Channel`: a goroutine that can run does, and Go's mutex hands itself
to every waiter (its starvation mode is first in, first out), hence strong
fairness for the two locks; the receiving application keeps calling Read;
nobody has to write or to close.
`Handshake`: each side's goroutine runs and a deadline that is set passes at last;
no network fault, I/O error or record is obliged to happen. `Listener`: goroutines run, armed deadlines expire, and the
kernel gives up a connection attempt at last; no peer has to speak or to leave.
`PortChannel`: the event loop runs every continuation, the stream serves a read it
has the bytes for, and the receiver keeps calling `recv`.
`Session`: calls are bounded and a failed goroutine stops, so no part can run for
ever, and one weak fairness condition on everything owed is enough: the runtime
and the connection do what they can, readers read again unless they may close
instead, the initiator then closes at last, and the test server and its client
do their part. It is weaker than fairness for each goroutine.

## Proofs

Every invariant that a passing run checks, the action property
`EstablishedStays` and the refinement `ImplementsByteStream` are also proved, for
every value of the constants that satisfies the assumptions below. The bounds of
the models (faults, writes, sends) are constants, so the theorems hold however
large they are. In each module an inductive invariant (`IInv` or `Inv`) is a
conjunction of named parts; a lemma per action, or per part and action that can
disturb it, shows that it is kept, and the theorems follow from it. The
invariants were checked by TLC on the runs' instances first.

| Theorem | States |
|---|---|
| `TypeCorrect`, `NoncesNeverRepeat`, `DeliveryIsPrefix`, `TornFrameEndsStream`, `WritesDoNotInterleave`, `ErrorsNeedDamage`, `ChannelImplementsByteStream` | `TypeOK`, `NonceUnique`, `StreamPrefix`, `TornStops`, `WriteContiguous`, `ErrorsHaveCause`, `ImplementsByteStream` of `Channel` |
| `HandshakeTypeOK`, `HandshakeInitiatorAgreement`, `HandshakeNoKeyConfusion`, `HandshakeRecordOrigin`, `HandshakeTookWhatWasSent` | the property each is named after, of `Handshake` |
| `ListenerNoLeak`, `ListenerEstablishedStays` | of `Listener` |
| `CodecAcceptsExactlyEncodings`, `CodecIdentityRoundTrip`, `CodecPrefixFree`, `CodecPortsAgree`, `CodecDigestUnambiguous`, `CodecTranscriptUnambiguous` | of `Codec` |
| `PortNoncesNeverRepeat`, `PortRecordsInOrder`, `PortFailuresNeedCause` | `NonceUnique`, `RecordsInOrder`, `FailuresHaveCause` of `PortChannel` |
| `SessionFramesInOrder` | `FramesInOrder` of `Session` |
| `KeyMaterialKeysIntact`, `KeyMaterialSecretsWiped` | of `KeyMaterial` |

### Channel

Assumptions: `ProcAssumption`, `SizeAssumption`, `BoundAssumption` (sizes are
naturals, a header is not empty, a tag is shorter than a frame, `Free` is no
goroutine). The parts of the invariant:

- `RecordsOK`: record *j* has nonce *j - 1*, starts where record *j - 1* ends,
  and together they are `stream`; `writeSeq` is the number of records. Uniqueness
  of nonces is immediate from it, and so is that a frame that opens under
  `readSeq` is record `readSeq + 1`.
- `ReadOK`: `delivered` followed by `readBuf` is exactly the plaintext of the
  first `readSeq` records, which gives the prefix.
- `WriterOK`, `ReaderOK`: the mutexes exclude, so the record a writer is framing
  is the last one sealed, and a reader waiting for a payload holds `readMu` and
  found `readBuf` empty.
- `WireOK`, `TornOK`: a ciphertext cell in transit belongs to a record that was
  sealed; the last byte of a torn record is never on the wire, nor is any byte of
  the record whose frame is being written; and the reader has opened neither. So
  a torn record never opens, and since records open in order, nothing after it
  does.
- `CallsOK`, for `WriteContiguous`: calls in progress have numbers of their own,
  one that waits for the mutex has sealed nothing, and the bytes of the one that
  holds it end the stream.
- `LengthsOK`, `CauseOK`, for `ErrorsHaveCause`: while nothing was damaged, no
  Read has failed on a frame and, unless the stream is over, the readers are
  *aligned*: every frame has its place in the bytes ever written, the wire holds
  the bytes from the reader's place to the writer's, and a reader waiting for a
  payload waits for that of the frame it is in. A torn frame, a fault or a
  deadline inside a frame ends the premise; a deadline between frames does not.

For the refinement, `Seal` maps to `Send`, `ReadOpen` and `ReadBuffered` to
`Deliver`, `AbandonFrame` to `Fail`, and every other action to a stutter.

### Handshake

Assumptions: `HandshakeAssumption` (each endpoint presents an identity and holds
one, of any set, and sets a timeout or not) and `NoneIsNoSecret` (an uninitialised
result is no secret).
`SentOK` says which frames exist: inits, responses of responders that completed,
records of endpoints on their channel. `InboxOK`: everything in transit is one of
them, a damaged form of one, `Garbled` or `Short`; since a damaged frame may be delivered, repeated
and damaged again, the proofs are about the closure of the damage. `ResponderOK`
and `InitiatorOK` then say what a completed endpoint must have taken, and that an
initiator has a partner responder with the same secret. `NoKeyConfusion` needs
only that the X-Wing combiner binds the key and the ciphertext; `RecordOrigin`,
that a record's key names a secret and a direction.

### Listener

Assumption: `ListenerAssumption` (`None` and `Stopped` are no clients, the
backlog is not 0). `QueueOK`: the queue holds exactly the connections that nobody
has accepted, each once. `ServerOK`, `ClientOK`: what an open raw connection is
for. `ArmedOK`: a deadline is armed only inside a handshake, from which
`EstablishedStays` follows for every step.

### Codec

Assumptions: `CodecAssumption` (a base of at least 2, sizes are naturals,
contexts shorter than the base: `identityDigest` writes their length as one byte,
and the code's contexts are two short constants; the keys a library accepts have
the size it asks for) and `LengthsFit` (what is hashed
is shorter than a 32-bit length can say). The only
invariant is that `data` is bytes; everything else is about all sequences of
bytes. The Go parsers, which walk the rest of a slice, are first shown equal to
the ports' decoders, which name each field by its offset; the decoders are then
shown inverse to the encoders in both directions, and prefix-freeness follows
because the length fields, read from a prefix, fix the length of the frame. For
`IdentityRoundTrip` an identity is shown to have one cut into keys of their sizes
(`IdentityInjective`), so that a library's refusal of one of them leaves no other
way to read it.

### PortChannel

Assumption: `PortAssumption` (as for `Channel`). `SeqOK`: the counters count the
records sealed and received, with any calls in flight. `SendOK` and `RecvOK`: when
callers await each call there is one sender and one reader of the stream. `CauseOK`
is the alignment argument of `Channel`, with the place of each frame given by a
function that `Tiles` the bytes written, as there are no record offsets to compute
it from; `InTransit` and `InHand` relate the wire and the reader's buffer to it.

### Session

Assumption: `SessionAssumption` (goroutines belong to an end and read or write,
sizes are not 0). A byte is its frame, that frame's size and its place in it.
`StreamOK` says, for each direction, that the bytes taken (`part`), on their way
(`pipe`) and yet to be handed over (`pend`) form one chain in which every byte
`Follows` the one before it, from the last frame taken to the last frame written.
A close may cut the chain between `pipe` and `pend`, and a reset inside `pipe`;
then nothing is added any more, so what can still be read remains a prefix.
`PhaseOK` and `ByOK`: nobody uses the channel before the handshake has taken its
frame, so the first frame is the handshake's and no other is.

### KeyMaterial

No assumption. `ResponderOK`, `AgreedOK` and `KeysOK` say what each buffer holds
at each place of the code, `WipedOK` what Go has wiped there, and `MsgOK` that the
key a response is sealed with is its session's or one that nobody derives; so an
initiator that opens a response has the responder's secret.

### Only model-checked

The liveness properties: `EventualDelivery`, `EveryHandshakeEnds`,
`HonestSuccess`, `EveryDialReturns`, `RecordsArrive`, `EveryWriteReturns`,
`EveryReadReturns`, `EchoReturns`. They rest on fairness, which the prover does
not handle. The violations under Findings are TLC's as well.

## Findings

- `channel_deadline`. A read deadline that expires inside a frame loses the bytes
  `io.ReadFull` has taken. A later `Read` on an intact connection starts inside
  the frame and reports a damaged stream, where a `net.Conn` would go on. A
  deadline between frames is harmless (`ErrorsHaveCause`).
- `handshake_replay`. The transcript the responder signs contains nothing fresh
  from the initiator, so a response delivered again on another connection of the
  same initiator is accepted there, and both sessions hold the same keys. The
  comment says it cannot be. The parties are still the right ones
  (`InitiatorAgreement`, `NoKeyConfusion`).
- `keys_shared`. An established Go `Conn` leaves the X-Wing shared secret in the
  handshake result: `newConn` wipes the two channel keys, and nothing wipes the
  secret they come from, though `handshake.go` says that all intermediate key
  material is zeroed. Everything else that the documentation lists is wiped
  (`SecretsWiped`), and nothing too early (`KeysIntact`).

## Not modelled

Cryptography is ideal: no probability, no timing. Key generation draws from an
entropy source and keeps no state; it is left out. The ports' handshakes follow
the Go one step by step and have no model beyond `Codec` and `KeyMaterial`; the
Python port wipes nothing. Callers of the TypeScript port that wipe the key buffers
a channel refers to are not in `KeyMaterial`; only the port's own wipes are. Deadlines are in `Channel`, `Handshake` and
`Listener`, not in `Session`. The ZAP helpers wrap a connection or listener in
types of another package and keep no state.

## Plan

All components with state of their own are modelled, and every safety property
the runs check is proved. What is left: shorter proofs where `Channel` and
`PortChannel` make the same argument about places in the byte stream; and the
safety half of the liveness properties as theorems of their own, for instance
that a Write that waits for the mutex in `Session` waits for a goroutine that is
in a call, and that bytes in transit on an undamaged channel are exactly those
sealed and not read.
