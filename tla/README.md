# TLA+ specifications of sponge

sponge is the C++ library of a user-level TCP course project. At this commit it
consists of a byte stream, an event loop over `poll(2)`, and the utilities under
both. The TCP code itself does not exist yet: the tests named `fsm_*`, `recv_*`,
`send_*`, `wrapping_*`, `tcp_parser` and `ipv4_parser` are for later components and
are not built (`tests/CMakeLists.txt` builds the five `byte_stream_*` tests).

This directory models the parts that keep state, checks them with TLC on small
instances, and proves the main results for all values of the constants with TLAPS.

## The system

| Component | State | Operations | Works with |
|---|---|---|---|
| `ByteStream` (`libsponge/byte_stream.*`) | ring `m_buf` of `m_buf_size = capacity+1` chars, `m_head`, `m_tail`, `m_closed`, `_error`, two byte counters | `write`, `end_input`, `set_error` for the writer; `peek_output`, `pop_output`, `read` and accessors for the reader | nothing yet; it is what TCP will read and write |
| `FileDescriptor`, `FDWrapper` (`util/file_descriptor.*`) | a `shared_ptr` to a wrapper with `_fd`, `_eof`, `_closed`, `_read_count`, `_write_count` | construct, `duplicate`, move, destroy, `close`, `read`, `write`, `set_blocking` | the kernel, through `SystemCall`; `write` takes a `BufferViewList` |
| `EventLoop` (`util/eventloop.*`) | list `_rules`; during a call `pollfds`, an iterator and an index | `add_rule`, `wait_next_event` | holds a duplicate of each rule's descriptor; reads its `_eof`, `_closed` and counters; calls back into user code |
| `SystemCall`, `unix_error` (`util/util.*`) | none | throw on a negative return value | every component that makes system calls |
| `Buffer`, `BufferList`, `BufferViewList` (`util/buffer.*`) | shared storage and an offset; deques of buffers or views | `remove_prefix`, `append`, `concatenate`, `as_iovecs` | parser, `FileDescriptor::write`, `UDPSocket` |
| `NetParser`, `NetUnparser` (`util/parser.*`) | a `Buffer` and a sticky `ParseResult` | `u8`, `u16`, `u32`, `remove_prefix`, `set_error` | `Buffer` |
| `InternetChecksum` (`util/util.*`) | `_sum`, `_parity` | `add`, `value` | byte strings |
| `Socket` and subclasses (`util/socket.*`) | those of `FileDescriptor` | `bind`, `connect`, `listen`, `accept`, `shutdown`, `recv`, `send`, `sendto` | `FileDescriptor`, `Address`; `shutdown`, `recv`, `accept` move the counters the event loop watches |
| `Address`, `TunFD`, `hexdump`, `timestamp_ms`, `get_random_generator`, `apps/webget.cc` | none to speak of | conversions and I/O; `get_URL` is a stub | the C library |

What is hard here. The program is single-threaded, so the interleavings are those
of *calls* (a writer's with a reader's, a callback's with the loop that called it)
and of the program with the *kernel* (bytes arrive, peers hang up, numbers are
reused between any two system calls). The difficult places are index arithmetic at
the wrap of the ring; conversions between `int` and `size_t`; a descriptor number
that outlives its file; a loop that walks a list and a vector at once while user
code changes the list; answers of `poll(2)` that are stale by the time they are
used; exceptions thrown half way through an operation. `PROJECT.json` lists these
hazards line by line with the properties that cover them.

What makes each part correct:

* `ByteStream`: bytes come out in the order they went in, no more than `capacity`
  are held, the counters are totals, `eof` means ended and drained.
* `FileDescriptor`: a number is closed exactly once, by its last owner; a live
  wrapper's number is that of its own file; `_eof` and `_closed` tell the truth (with two
  exceptions: empty datagrams, and a `close(2)` that fails).
* `Buffer`, `BufferList`, `write`: however the bytes are cut into buffers and however the
  kernel cuts the writes, no byte is skipped, repeated or reordered; drained buffers
  release their string; `write` ends and reports what it sent.
* `Socket` and its subclasses: an object owns a file of its own kind or none; a
  constructor or an `accept` that throws leaves no number behind; a datagram is passed on
  whole or reported, and a call that served its descriptor has moved the count that the
  event loop looks at.
* `NetParser`, `NetUnparser`, `InternetChecksum`: what is written is read back; the sum
  does not depend on how the data is cut; damage is noticed at the latest at the last
  look at `error()`, and a read never returns the bytes of another field.
* `EventLoop`: each rule is judged by its own `pollfd`; no readable byte is given
  up; nobody starves; dead rules go; the caller never spins unawares; the result
  says what happened.

## Modules

| Module | What it is |
|---|---|
| `ByteStream` | the class, member by member and operation by operation |
| `BoundedStream` | the abstract specification: the bounded first-in first-out stream that `byte_stream.hh` promises |
| `ByteStreamProofs` | the theorems about `ByteStream` |
| `FileDescriptor` | handles, wrappers, and the kernel's descriptor table |
| `BufferList` | `Buffer` and `BufferList`: shared storage, and lists of Buffers |
| `WriteLoop` | `FileDescriptor::write` over a `BufferViewList`, composed with `BufferList` |
| `EventLoop` | rules, `wait_next_event()` turn by turn, user code, and the kernel's conditions |
| `EventLoopProofs` | the theorems about `EventLoop` |
| `Socket` | `Socket`, its subclasses and `TunFD` on top of `FileDescriptor`: which class may own which file, adoption, `accept`, `shutdown` |
| `UDPSocket` | datagrams received and sent by callbacks, composed with the event loop's busy-wait test |
| `Transmission` | the abstract specification of `write()`: a string that goes out in pieces |
| `SocketProofs`, `UDPSocketProofs`, `WriteLoopProofs`, `InternetChecksumProofs`, `WireProofs` | the theorems about these parts |
| `Foundations` | lemmas for the proofs: remainders and quotients, and what `Total` and `FlattenSeq` compute |
| `Sums` | adding up a sequence, as the loops of `size()` and `add()` do |
| `Octets` | bytes and the unsigned integers made of them |
| `NetParser` | `NetParser` and `NetUnparser` |
| `InternetChecksum` | the checksum |
| `Wire` | the composition of the last two: a packet from a sender through a network to a receiver |
| `MCByteStream`, `MCFileDescriptor`, `MCSocket`, `MCWriteLoop`, `MCEventLoop`, `MCWire` | constants for TLC |

Names follow the source (`m_head`, `peek_output`, `remaining_capacity`, `pollfds`,
`something_to_poll`, `it`, `idx`). Definitions headed "Mutant:" are deliberately
wrong variants, one for each property; replacing the definition that follows by
its mutant must break the property.

### ByteStream

The variables are the members. `Write`, `EndInput`, `SetError`, `PopOutput`,
`PeekOutput` and `Read` are the operations; a writer and a reader call them in any
order. A write is one step: the loop of `write()` stores `n` bytes going forward
from `m_head`, which `WriteAccepted` states slot by slot (`AheadOfHead`), and `n` is
smaller than the ring, so no slot is stored to twice. `ToInt` and `ToSize` are the
conversions the C++ code does implicitly; `IntMod` and `SizeMod` are 2^32 and 2^64 in
the code and small in the runs, so that overflow happens. The uninitialized counters
start with any value of `InitialCounters`.

Two facts of the code shape everything else. `buffer_size()` computes the number of
waiting bytes and then returns 0. And `peek_output()` reserves space in its string
but never resizes it. So `pop_output()` removes nothing, `remaining_capacity()` never
shrinks, and the reader never gets a byte. `peek_output` in the model keeps the
computation (the copy of `n` bytes, the size of 0) so that a corrected `buffer_size`
can be put in its place.

`capacity` values for which `m_buf_size` is negative make the constructor throw, and
0 leaves an array that no byte fits in; the assumption `ByteStreamAssumption` leaves
both out. `accepted`, `removed`, `capacity` and `garbage` are history variables.

`IsInOrderStream` is the refinement of `BoundedStream` with the bytes between tail
and head as its buffer. It does not hold; see the findings. Nor does `EofIsTheEnding`:
`eof()` should be true when the input has ended and everything has been removed, but
head and tail also meet after a full turn of the ring.

### FileDescriptor

A handle is a `FileDescriptor` object, `internal_fd` its `shared_ptr`. A wrapper lives
while a handle points to it, and `Release` is what any change of handles does: the
destructor of a wrapper that lost its last handle closes its number unless `_closed`
is set. Calls through a handle act on the *number*, whatever file has it now, because
the code does. The kernel gives out the lowest free number, so reuse is immediate.
`close(2)` may report an error after it has given the number back (`CloseFails`).

The ownership properties assume `clean`: no `close(2)` has failed, and nobody has
called `close()` on a wrapper that was already closed and thereby closed a reused
number. Without it they are false, and must be: `FDWrapper::close` does not look at
`_closed`. `ClosedFlagAccurate` is the half of this that contradicts the header.

A file has a domain and a type (`sort`), because `read(2)` depends on it (`Answers`): a
stream that has something to read gives at least one byte, and gives none only at its
end; a datagram socket gives one datagram, which may be empty. `read()` does not tell
the two apart and sets `_eof` at an empty datagram, although the socket goes on
receiving; so "Flag indicating whether FDWrapper::_fd is at EOF" (`file_descriptor.hh:18`)
is false of datagram sockets. `StreamEofIsReal` says that it is true of everything else,
and `EofOnlyByEmptyRead` of `UDPSocket` that nothing else sets it on a datagram socket that
is neither closed nor shut down.

`write()` is one step that counts the turns of its loop; the bytes it sends are the
subject of `WriteLoop`.

### Socket

`Socket` extends `FileDescriptor`, and the ownership properties of the base class are
checked in its run, with every way a socket can come and go. Each
class is a set of handles, since an object's class does not change; the handles in none
of the sets are plain descriptors (`TunFD` among them). The kernel's part grows by
whether a file is fresh, connected or listening, and the connections that wait.

A constructor whose body may throw is two steps. The first makes its base class object,
which then owns the number, and the object is `building`. The second is the body: it
ends (`SocketBuilt`, `TunBuilt`) or throws (`BodyThrows`), upon which the base class object
is destroyed like any other (`Release`). That no number is left behind is therefore a
consequence of what destruction does, and `NoLeak` checks it. Between the two steps only
the kernel moves.

* `OpenSocket` is `Socket(domain, type)`, whose body is empty: one step. `Adopt` is the first
  step of the constructor that takes a `FileDescriptor &&`: the pointer moves, so that the
  argument is null even when the verification throws. A descriptor that was duplicated
  before survives it.
* `OpenTun` is `open(2)` and the base class object of `TunFD`; its body is `ioctl(2)`.
* `accept` starts with `AcceptCalled` (the read is counted), then comes `AcceptAnswers` or
  `AcceptFails`, because it blocks and connections come and go meanwhile. Running out
  of numbers (`EMFILE`) is one of its failures. The new number goes into a `TCPSocket` by
  way of the verifying constructor, so `AcceptAnswers` leaves that object `building`.
  `getsockopt(2)` may fail there for reasons of the kernel's.
* `Shutdown` makes the system call first and then counts each direction. An invalid
  `how` is refused by `shutdown(2)`, so the `default` of the switch, which throws, is
  never reached.
* `Inherited` restricts `FileDescriptor`'s calls to what the C++ types allow:
  `duplicate()` gives a `FileDescriptor`, and a move keeps the class or slices it to a
  `FileDescriptor`. A slice, adopted again, is how a descriptor could get into the wrong
  class; `ClassMatchesFile` says that it does not.
* `bind`, `set_reuseaddr`, `local_address` and `peer_address` change nothing that is
  modelled and are one action, `Configure`.

### UDPSocket

A datagram is its source and its length. The calls are made by callbacks of an event
loop, which swallow exceptions, and each step ends with what the loop does after it:
`accused` is the busy-wait test, that is, whether the count it watches stands still.
`recv` into a caller's object and into a new one differ in what a failure leaves behind
(`Overwritten`: a payload resized to the mtu with the address of an earlier datagram).

What the model makes plain about the code: an oversized datagram is consumed but not
counted, so the event loop accuses the callback of a busy wait although the queue moved;
a failed `recv` or `send` is accused too, rightly; `read()` with limit 0 counts as service
and is never accused, although it does nothing; and the inherited `read()` takes an empty
datagram for the end of a file, upon which the event loop cancels the rule
(`EofOnlyByEmptyRead` says that nothing else has that effect).

### NetParser, InternetChecksum and Wire

`ByteMod` is 256 in the code and 4 in the run; 16- and 32-bit integers are two and four
bytes wide in both, so that overflow happens at the same places. `Parse`, `RemovePrefix`
and `SetError` are the parser's operations; `_check_size` replaces whatever error there
was, which never clears one. `Add` sums a whole chunk in one step; addition modulo the
width of `_sum` makes the order within a chunk immaterial. The loop of `value()` is two
turns of `Folded`, which is enough for every 32-bit number.

`Wire` puts them to the use that the comment on `InternetChecksum` and the parser's
example describe. The ends are user code, and left open as far as possible: any
fields of one, two or four bytes, the checksum at any even offset, any cut into chunks,
odd ones included, any initial sum of the given set, and on the receiver's side any mix
of reading and skipping. The network may change one byte or lose the tail. The receiver
looks at `error()` once, at the end. Until then it goes on reading after a failure; since
a call that fails consumes nothing, a later one that succeeded would read the wrong
field. `ReadInPlace` says that none does, `DamageCaught` that the error is still there.

`ChecksumExact` compares with the definition of RFC 1071 over the whole data and says how
far it goes: as long as the exact total fits `_sum`, or always for data whose length
fits 16 bits when the initial sum is at most half the range. With a larger initial sum a
carry out of `_sum` is lost; the run includes one, and `RoundTrip` and `DamageCaught`
exclude it (`NoCarryLost`). The sum of a pseudo-header is far below that.

### BufferList and WriteLoop

A `Buffer` is a record of its storage and offset; a `BufferList` is a sequence of them.
Nothing writes to storage, so what copies share is modelled by their naming the same
storage, and a string exists while some Buffer names it. A step is one operation,
except that `remove_prefix` takes one step for each turn of its loop, because it
throws half way through when the list is too short, with everything gone.
`BufferViewList::remove_prefix` is the same loop over views, and both are `Turn` with
the one difference, the trimmed front, as a parameter.

`WriteLoop` extends `BufferList` with the local variables of `write()`. `writev(2)` takes
any number of bytes from the front or fails, at every turn; since the code tests for an
answer greater than what it offered, the model lets the kernel give one. `registered`
is whether this call has moved the service count that the event loop watches.
`Leave` forgets the local variables, so that the next call starts from a clean state.

`Transmission` is what a caller may rely on without knowing of views: a string, the part
of it that is out, and the moves between them. `IsTransmission` is the refinement; the
turns of `remove_prefix` and the end of a turn that is followed by another are invisible
in it. Beyond what the invariants say of states it says what a step may not do: a write
without `write_all` asks the kernel once, and no write throws after everything is out (an
absurd answer of the kernel apart). A caller who catches an exception therefore knows
that something is unsent.

### EventLoop

`pc` says where `wait_next_event()` is: `idle` (not called), `setup` (first loop),
`poll`, `dispatch` (second loop). A step is one turn of a loop or the call of
`poll(2)`; the kernel may move before each step from `poll` on (before that nothing
the code does depends on it). `cond[d]` is what the kernel would report of descriptor
`d`: `IN`, `OUT`, `HUP`, `ERR`, or `NVAL` once it is closed.

Callbacks, cancels, `interest` and the caller are user code. A callback serves its
descriptor or not (this is all that the service counters are used for), may drain any
descriptor, may be told of an end of file, and does at most one more thing: close a
descriptor, add a rule, or change an interest. Then it returns or throws, so that a callback
which throws may have served its descriptor before (`Callback` is used by `DispatchReady`
and by `DispatchThrows`). The one thing at a time is a restriction of the model and of
everything proved about it; `NoSpin` depends on it. `interest()` has no
side effects in the model, and user code does not call `wait_next_event()` recursively.

Reading `pollfds[idx]` past the end of the vector is undefined behaviour; `Entries`
lets it be any `pollfd`. It happens after `add_rule()` in the second loop, and only
then (`Aligned`).

## Runs

Passing runs:

* `byte_stream`: capacities 0 to 3, two different bytes, writes of up to four bytes,
  8 accepted bytes in all, so that the ring turns at least twice, at every offset;
  capacity 18, which does not fit an `int` of 16 values and is narrowed to a ring of 3;
  `IntMod = 16`, so that a counter that starts near the top wraps.
* `socket`: one plain descriptor, two TCP sockets and a UDP socket; 2 wrappers, 2 files, 2
  numbers. Two wrappers are enough for one to hold the number the
  other gave up, for a listener and what it accepts, and for every number to be taken
  when `accept` wants one; the third live handle lets one of them be shared meanwhile.
  There is no `LocalStreamSocket`: its only constructor is the adopting one, which
  `UDPSocket` has too, and the theorems hold with any number of them. Datagrams
  may be empty.
  One unread byte tells an ended file from a drained one; limits 0 and 2 lie on both
  sides of the modelled `BUFFER_SIZE` of 1. The counters are collapsed (`CountMod = 1`):
  no property of this run is about them, `SentIsCounted` and `AccusedOnlyIfThrown` are.
* `udp_socket`: two peers; datagrams of 0, 1 and 3 bytes against mtus of 0 and 1 and read
  limits of 0 and 2, so that each may be empty, fit exactly or be too long; a queue of
  two and three arrivals, so that one waits behind another and one comes when the first
  is gone. `CountMod = 2`, the smallest for which a count moves at all.
* `wire`: up to three fields with the checksum among them; the largest and smallest value
  of every width; initial sums 0, half the range and close to the top.
* `write_loop`: two lists, two strings of three and one byte, at most four Buffers in all
  lists: a list of three and another to append, empty Buffers anywhere, copies trimmed
  to different offsets. A string of three bytes can be trimmed twice and still show one.
  Prefixes of up to 3 bytes are removed, of lists that are shorter and longer.
* `event_loop`: three rules on one descriptor, two that read and one that writes, so that a
  rule can be erased before, at and after any other, a callback can act on its
  neighbours' descriptor, and an answer of `poll(2)` can be made stale by the rule before.
  Rules on one descriptor disturb each other most: what one callback reads, closes or
  ends, the others find. Safety and liveness are checked on the same instance; the
  safety properties are proved for any number of rules and descriptors. `MaxIdx = 1` lets the
  first turn of the second loop add a rule; without a bound, a cancel that adds its rule
  again would go on for ever.

Fairness. `WriteLoop!FairSpec`: a `writev(2)` that is called answers, with bytes or an
error. `EventLoop!FairSpec`: weak fairness of `wait_next_event()`'s steps,
which says that the caller keeps calling it, in a loop that also survives exceptions,
and that user code returns; and strong fairness of a `poll(2)` that reports something,
which says that it is not interrupted, or short of memory, every single time. Nothing
is assumed of the kernel or of what user code chooses to do. The liveness properties have a
hypothesis of their own, `CallsEnd`: every call of `wait_next_event()` ends. Without it both are
false, since the first loop runs to the end of a list that it lengthens itself if each `cancel()`
adds one more rule on a descriptor that is already at its end; the loop then never gets to
`poll(2)`, and the rules behind its iterator are never looked at again. `UDPSocket!FairSpec`: weak
fairness of the calls that take a datagram: the loop keeps calling the callback of a
readable socket (that it does is `DueRulesTriggered`), `recvfrom(2)` does not fail for
ever, and the callback does not ask for zero bytes with `read()` for ever. Whether each
call returns or throws stays open.

Violation runs, each a statement of the repository that the code refutes:

| Run | Statement | What happens |
|---|---|---|
| `byte_stream_counters` | counters start at 0 (`byte_stream_construction.cc`) | they are never initialized |
| `byte_stream_eof` | "`true` if the output has reached the ending" (`byte_stream.hh:81`; `byte_stream_one_write.cc` expects `Eof{false}` while bytes are unread) | with capacity 2, two writes of together three bytes and `end_input()` give `eof()`, with all three unread |
| `byte_stream_promise` | "An in-order byte stream" | the first peek after a write returns nothing (lengths 1 and 3 are asked for, never 0) |
| `file_descriptor_closed` | `_closed` tells "whether FDWrapper::_fd has been closed" | a failing `close(2)` leaves it false |
| `event_loop_polled` | "set up the pollfd for each rule" | a rule added in the second loop has none |
| `event_loop_success` | "At least one Rule was triggered" | an error of `poll(2)` other than `EINTR` is swallowed and the call returns `Success`, though the comment says that it throws; a hangup on an uninterested rule's descriptor does so too, at once and on every call |

The comment on `wait_next_event` also says "if `_rules` becomes empty, this function returns
Result::Exit". When the last rule is erased in the second loop (`DispatchCancel`, then
`DispatchDone`), the call returns `Success` and only the next one `Exit`.

`accept()` counts a read before the system call. A callback whose `accept()` fails every
time, for want of numbers, is therefore never taken for a busy wait, although the
connection stays and `poll(2)` reports it at once.

The constructor of `ByteStream` narrows `capacity+1` from `size_t` to `int`, so that a
capacity of 2^31 or more gives less room than asked for, or no object at all; the
header promises "room for `capacity` bytes".

The comments of `eventloop.*` also mention `add_cancelable_rule`, which does not exist.

## Proofs

`ByteStreamProofs` proves, for every set of bytes, every capacity that gives a usable
ring, every width of `int` and `size_t` and any number of calls:

* `TypeCorrect`: `TypeOK`, which is inductive as it stands. The work is in
  `TakenBound` (a write takes fewer bytes than the ring has slots, even after the
  conversions), `ForwardType` (one wrap is enough) and `ToIntType`.
* `RingCorrect`: `RingHoldsAccepted`, inductive together with `TypeOK`.
  `SlotsAfterWrite` says which slots a write leaves alone and what the others hold.
* `CountersCorrect`: `CountersTrackTotals`, by `ToIntAdd` (adding in `int` and
  narrowing commute).
* `InputFreezes`: the action property `InputSideFrozen`.

`EventLoopProofs` proves, for any rules, descriptors and directions, and for user code that
does at most one thing at a time besides serving descriptors:

* `TypeCorrect`: `TypeOK`, inductive as it stands: neither loop runs past its end, and
  the first makes one `pollfd` for each rule that it keeps. `UserCodeEffect` says what
  user code can do to the list and to the kernel, `RemoveAtElements` what an erase does.
* `AlignedCorrect`: `Aligned`. The strengthening `InOrder` adds that the first loop makes
  the `pollfds` in the order of the rules although it erases some, and that the second
  loop never has more `pollfds` left than rules; without this a rule appended by user
  code could be given a left-over `pollfd`.
* `NothingReadableLostCorrect`: the action property `NothingReadableLost`. It needs
  `AnswersStand`: a hangup reported by `poll(2)` is still there, with still nothing to read
  if there was nothing then, when the second loop gets to it, unless the descriptor
  was closed. This is where the staleness of `revents` is argued: callbacks of other
  rules only take conditions away, and the kernel adds none after a hangup.
* `NoSpinCorrect`: the action property `NoSpin`. It is about a whole pass of the second
  loop, and `Quiet` is what is true in the middle of one. As long as nothing has been
  served or erased, the only user code that ran was that of ready rules which left their
  descriptor alone; the busy-wait test let each of them pass only because it gave up its
  own interest, and giving it up was all that it did (user code does one such thing at
  a time). So every rule that the loop has yet to reach still wants what it was polled
  for, every ready one it has passed does not, and the list has not grown. The first of
  these needs `Once`, that no rule is in the list twice; the end of the pass needs
  `InOrder`, that no `pollfd` is left over.

`SocketProofs` proves, for any number of objects of any class, wrappers, files and
descriptor numbers:

* `TypeCorrect`: `SocketTypeOK`, inductive as it stands.
* `OwnsItsFileCorrect` and `NoLeakCorrect`, together: neither is inductive, since the
  destructor of one wrapper frees a number that might be another's. The strengthening
  `Owned` adds that no two wrappers that hold a number hold the same one, and that each
  was made for a file. `Steps` sorts all steps by what they do to handles, numbers and
  files, six kinds in all; opening, adopting, accepting, moving and destroying come down
  to two of them.
* `StreamEofIsRealCorrect`: `StreamEofIsReal`, from `Owned`: a wrapper at EOF that is not
  closed has its own file, which nothing reopens under it. The model has empty datagrams,
  and the statement excepts the sockets that can receive them: of those it is false.
* `ClassMatchesFileCorrect`: `ClassMatchesFile`, from `Owned`. `Fits` says what the moves and
  the verifying constructor allow a pointer to be, `PointersFit` that they do.

`UDPSocketProofs` proves, for any lengths, mtus, limits and counter widths of at least
two values:

* `OnceWholeInOrderCorrect`, with the queue described element by element
  (`QueueIsRest`); `AccusedCorrect`, by `CountMoves` (a counter that wraps still moves);
  `EofCorrect`, by the fact that a rule at EOF is never called again.

`WriteLoopProofs` proves, for strings of any length cut into any number of Buffers:

* `TypeCorrect`, `PrefixIsGone`, `DrainedReleased`, `SendsInOrder`, `ReturnIsExact` and
  `SentCounted`, one for each invariant of the run. All follow from one inductive
  invariant, `Inv`. None is inductive by itself: a view that starts beyond the end of its
  string would make sizes negative, so every Buffer and view is `SoundBuffer` (it shows a
  byte, or has nothing to show); in the middle of `remove_prefix` the bytes still to be
  removed must be there; and `total_bytes_written` lags behind `sent` by the turn that is
  not finished. `TurnFacts` says what a turn of either `remove_prefix` does to the
  contents, once for both.
* `WriteIsTransmission`: the refinement `IsTransmission`. It needs `TurnsInv` besides:
  `writev(2)` is asked again only to write all of a payload of which something is left.

`InternetChecksumProofs` proves `FoldsToOnesComplement`: for bytes of any width, two turns
of the loop of `value()` bring every sum below `WordMod`, and what they leave is the ones'
complement sum. `SumInv` is the inductive invariant of the accumulation: `_sum` is the
exact total modulo its width, and twice what `count` bytes have added is at most
`count * (WordMod - 1)`, plus `Slack` when the last word has only its high byte. Hence no
carry is lost while `count < WordMod` (`NoCarry`).

`WireProofs` proves, for bytes of any width, any fields, any cut into chunks and any mix
of reading and skipping, `ChecksumIsExact`, `RoundTrips`, `DamageIsCaught` and
`ReadsInPlace`, from one inductive invariant with five parts:

* `FieldsInv` and `PacketInv`: an undamaged packet is its fields laid out one after the
  other, big-endian (`Layout`). Once the checksum is in, the sum of the whole packet is a
  nonzero multiple of `WordMod - 1` (`Zeros`), which is what makes `value()` 0. The checksum
  is at an even offset, so its two bytes count as one word (`SetChecksum`).
* A packet that was damaged is either too short for its fields or has a sum that is no
  such multiple: one byte changes the sum by less than `WordMod - 1`, and not by 0
  (`ByteChange`, `SmallChange`).
* `AddedInv`: what has been added is the sum of the first `count` bytes, whatever the
  chunks; a chunk that starts at an odd byte continues the parity (`WeightAdd`).
* `ParserInv` and `ReadInv`: without an error the parser stands at the start of field
  `next`, so that it reads what was laid out there (`FieldReadsBack`), and a packet that
  is too short cannot get it past the last field. `ReadsInPlace` rests on the same:
  what is read without an error is read at the start of its field, damaged or not, and
  with an error nothing is read.

Induction over data. What `Contents`, `Size`, `BigEndian` and the sum of a packet are is
defined by recursion over a sequence. The library's induction rules take an operator as a
parameter, which the provers cannot instantiate. The proofs argue with the least element
of the set of counterexamples instead (`WFMin` and `NatLessThanWellFounded` of
`WellFoundedInduction`, where the set is an ordinary term), from recursive functions over
intervals of numbers.

Assumptions are those of the modules that declare the constants, and TLC evaluates them in
the runs. Only model-checked: the liveness properties `WriteEnds`, `DueRulesTriggered`,
`DeadRulesErased` and `QueueMoves`, which need `ENABLED`, out of the prover's reach. The
violated statements are counterexamples, and TLC's as well. Every invariant, every action
property and the one refinement of the passing runs has a theorem.

## Plan

1. Done: `ByteStream` with its abstract specification and proofs, `FileDescriptor` and
   `Socket`, `UDPSocket`, `BufferList` and `WriteLoop`, `EventLoop` with proofs, `NetParser`,
   `InternetChecksum` and `Wire`.
2. Done: a theorem for every safety property of the passing runs, `Transmission` and its
   refinement.
3. To come: the part of the promise of `BoundedStream` that does hold, as a refinement with
   its own abstract specification of the input side; and the ranking argument behind
   `WriteEnds` (every turn of the loop that does not throw makes what is left shorter) as
   an action property, which is the part of it a prover can settle.

## Not modelled

* `Address`: values that never change after construction. What its constructors and
  accessors compute is `getaddrinfo(3)`'s and `getnameinfo(3)`'s. Where other modules use
  an address (`UDPSocket`) it is an opaque value.
* `hexdump`, `timestamp_ms`, `get_random_generator`: output, clock and entropy.
* `apps/webget.cc`: `get_URL` is a stub that prints a message.
* The lifetime of C++ objects as such: `ByteStream`'s missing destructor and implicit copy,
  a `BufferViewList` that outlives its Buffer. No code of this commit does either.
* The tests of TCP, the reassembler, wrapping integers and IPv4 are for code that is not
  there.
