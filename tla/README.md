# WiLoc in TLA+

WiLoc locates Wi-Fi devices passively. A *sniffer* ESP8266 hears packets and
prints a frame for each of them on its UART. A *bridge* ESP8266 at the other end
of the UART forwards the bytes over TCP. A Node.js *server* gathers the frames
of all nodes into records and sends them to browsers; a MATLAB script can take
the server's place and plot one node live.

    packet -> promisc_cb -> uart_tx ==UART==> uart_rx -> rings -> write_task
                ^  uart_parse <==UART== synchronize_dev_id          |
           assign_dev_id            (bridge)                       TCP
                                                                    v
        browsers <== socket.io == records <- decode <- 'data' listener
                                                   (or parse_packet.m)

This directory specifies that code, checks it with TLC and proves what matters
most with TLAPS. Paths below are relative to `src/`; `S/` is
`node/esp_iot_rtos_sdk/`.

## 1. Inventory

| component | state | operations | what makes it hard |
|---|---|---|---|
| ring buffer, `S/wiloc-master/user/ringbuf.c` | storage, two pointers, `fill_cnt` | init, put, get, owr, truncate | count and pointers are kept separately and wrap |
| bridge, `S/wiloc-master/user/user_main.c`, `user_wifi.c` | two rings, a mutex, a queue of length one, `sta_socket`, `sock_connected`, tasks | `uart_rx` (interrupt), `write_task`, `main_task`, Wi-Fi events | interrupts and time-sliced tasks, tasks that outlive a connection, a buffer shared by several |
| sniffer, receiving, `S/wiloc/user/user_main.c` 191-272 | parser state, control byte, position | `uart_parse` per byte | truncated, overlong and unknown frames |
| sniffer, sending, the same file 64-149, `itstr.c` | `packet_cnt`, `dev_id` | `promisc_cb`, `uart_tx`, `itstr` | terminators written into neighbouring fields, signs, widths |
| sniffer, identifier, 274-297 | `dev_id` | `assign_dev_id` | a CRC whose low byte may be zero |
| identifier hand-over | bytes on the UART | `synchronize_dev_id` against `uart_parse` | debug text on the same line |
| server, framing, `server/app.js` 71-81 | none between segments | 'data' listener | segments end anywhere, bytes get lost, UTF-8 |
| server, records, `server/app.js` | `nodeCount`, `packets`, `currentMacs`, `subscription` | listeners of nodes and browsers, `decode` | nodes that vanish, timeouts, crash, stale records |
| live plot, `matlab/input/realtime/parse_packet.m`, `w_rt_plot_raw.m` | `n_packet`, `c_pos` | `parse_packet` per call | a position that is not reset, blocks, lost bytes |
| FreeRTOS queue and mutex, `S/third_party/freertos/queue.c`, `tasks.c` | items, holder, lock counts, event, ready and pending lists | receive, give, send and take from the handler | a task on its way to sleep is interrupted by the send it would wait for |
| UART driver, `S/*/driver/uart.c` | two FIFOs, pending and enabled causes | interrupt loop, `uart_tx_one_char` | a test and a write by contexts that interrupt each other; causes that outlive their reason |
| browser client, `server/client/app/scripts` | listeners, plotted windows, the server's list | visit, subscribe, plot, reconnect | listeners are never removed, subscriptions never renewed |
| recorded plots, gpio outputs, host harness `node/tests` | none worth the name | | |

Interactions: the handler `uart_rx` and the write task share both rings, the
mutex and the queue; the write and main tasks share `sta_socket`; the main task
and the handler share `sock_connected`; Wi-Fi events create main tasks, and each
connection creates a write task. On the server everything runs to completion in
one event loop, so that the order of events is the only concurrency; `nodeCount`
ties the connections to the completeness of records, and `subscription` ties
records to browsers.

What makes each part correct: the ring is a bounded queue; the main ring has one
user at a time, no byte in it is forgotten, and the server receives what the
sniffer sent in that order; the parser handles complete identifier frames and
finds the next frame after a bad one; a frame ends at its zero byte and means
the packet it was made from; a decoded piece is one whole frame; the server
counts its sockets, never sends an old or mixed reading, and sends a record when
all connected nodes have contributed, and only then. `PROJECT.json` lists the
hazards at the lines where they bite, each with the properties aimed at it.

Of the vendored code (`S/include`, `S/lib`, `S/third_party`, `S/examples`) the
functions of FreeRTOS that the bridge's queue and mutex go through are modelled,
because the bridge's correctness hangs on them. lwIP, the radio and Node.js
appear as the environment, as the project's code uses them.

## 2. Modules

| module | models | notes |
|---|---|---|
| `RingBufOps` | the operations of `ringbuf.c` as operators on a record | shared by `RingBuf` and `Bridge` |
| `LossyFifo` | abstract: a bounded queue with an overwriting put | what `ringbuf.h` promises |
| `RingBuf` | one ring and a caller making any sequence of calls | refines `LossyFifo` |
| `Bridge` | the bridge: handler, write tasks, main tasks, Wi-Fi, TCP | composes two rings with everything around them |
| `BridgeSync` | abstract: a queue of length one and a mutex, as tasks and a handler may use them | `Bridge` obeys it, `RtosQueue` implements it |
| `RtosQueue` | `queue.c` and `tasks.c` under the calls of `write_task` and `uart_rx` | refines `BridgeSync` |
| `UartDriver` | `uart0_rx_intr_handler`, `uart_tx_one_char`, the FIFOs | justifies how `Bridge` receives bytes |
| `UartParser` | the sniffer's `uart_parse` | |
| `DevIdSync` | the bridge's start-up text and identifier frame, a line, and `UartParser` | composition |
| `ItStr` | `itstr.c`, each loop as a function of its round | used by `Sniffer` |
| `DevId` | `calcCRC16r`, `assign_dev_id` as operators on sets of bits | used by `Sniffer` |
| `Sniffer` | `promisc_cb`, `uart_tx`, `assign_dev_id`, and the server's field extraction | composes `UartParser`, which shares `dev_id`, with the sender and its decoder |
| `Framing` | the 'data' listener of `app.js` | |
| `Readings` | abstract: a record holds only what was reported within the window | |
| `Server` | every listener of `app.js` that changes state, and `decode` | refines `Readings` |
| `ParsePacket` | `parse_packet.m` and the loop that calls it | |
| `WebClient` | one browser: `dataService.js`, `monitorSingleCtrl.js`, and the server's list and emission | |
| `MCRingBuf`, `MCSniffer`, `MCDevIdSync` | values of constants for TLC that a configuration cannot write | |
| `*Lemmas`, `*Proofs` | theorems | see 5 |

### Correspondence of state and actions

*Ring buffer.* Pointers are offsets from `p_o`; a call is an operator from ring
to ring, and `..._ret` is its return code.

*Bridge.* One core: a task's action requires `isr = "idle"`; the handler takes a
step per byte, between which only the UART hardware (`UartByte`) runs. Tasks
have the same priority and are time-sliced, so they interleave at every action.
`write_task` is `WriteRecv` (queue), `WriteTake` (mutex, `length`), `WriteCopy`
(one turn of the loop), `WriteGive`, `WriteOk`/`WriteFail`. `main_task` is split
at each blocking call and at each assignment to a shared variable: `MainSocket`,
`MainConnect`, `MainConnected`, `MainRefused`, `MainLoop`, `MainReadFails`,
`MainReset`, `MainFlag`. A task slot that is "none" is a task that does not exist;
`xTaskCreate` without a free slot fails unnoticed, as in the code.
`MainConnected` takes lines 148 to 152 in one step: a byte that the handler
takes between the flag and the new task waits in the ring and the queue as it
does when it comes right after. The history variable `crowded`, which no action
reads, records that a write task was created while another existed. The buffer
that `write_task` fills is the storage of `ringbuf_m` (`user_main.c:94`, 317),
and `WriteCopy` therefore writes into `ringM.mem`. Bytes are numbered in the
order they were sent, which is all that loss, repetition and order need. `write`
takes the chunk in one step; a handler that runs during the call shows as one
that runs before it. `read` blocks because the server sends nothing.

*Queue and mutex.* A step of `RtosQueue` is what runs with interrupts masked: a
critical section, a call from the handler, or one statement that only a task
with the scheduler suspended can disturb. The receive is its slow path in full:
first look, `vTaskSuspendAll`, `prvLockQueue`, second look,
`vTaskPlaceOnEventList`, the two critical sections of `prvUnlockQueue`,
`xTaskResumeAll`. The two queues differ in that taking the mutex records a
holder. Three things are taken from how wiloc-master is built and run: all tasks
that use them have priority 2, so that no unblocked task displaces the running
one and no priority is inherited; every receive waits for `portMAX_DELAY` and
every send for 0, so that no wait times out and nobody waits to send; and a
yield (`PendSV`, a software interrupt) is taken before the task that asked for
it goes on, so that a task that has put itself to sleep does not run. `MaxLock`
bounds how often the handler takes the mutex while one task has it locked.

*Composition.* `Bridge` treats a receive, a take, a give and a send as single
steps. `BridgeSync` states what it relies on: an item goes to one task, the
mutex to one user at a time, a send to a full queue changes nothing. `UsesSync`
(`Bridge` => `BridgeSync`) and `ImplementsSync` (`RtosQueue` => `BridgeSync`,
fairness included) join the two levels; both are checked, and proved for any
number of tasks, the latter up to fairness.

*UART driver.* FIFOs are counts. The hardware is external and assumed to work by
level: RXFIFO_FULL and TXFIFO_EMPTY may be raised whenever the count is at its
threshold, RXFIFO_TOUT whenever characters wait, and a raised cause stays until
it is cleared. Tasks print through `uart_tx_one_char` in two steps (`TxLook`,
`TxWrite`) and stand still while the handler runs. `Past` is who has tested and
not yet written; the history variable `most` keeps how many that were at most,
and no action reads it. What the callback prints is
unspecified in number and moment, up to `SayChars`. The module shows that
`uart_rx` may be called once more with `length` 0, when a time-out was noticed
before the branch for a full FIFO drained it. That call comes before any task
runs: it finds the mutex as the first call found it, the temporary ring drained
or to be left alone, and the queue already notified. It changes nothing, and
`Bridge` leaves it out.

*Browser.* Messages travel in order; a lost connection loses those under way and
starts a new socket, of which the server's lists know nothing; `list` counts the
entries of the current one. What is emitted without a connection is buffered, as
socket.io does. Values are numbered by emission. `groups` maps a node to its
window; the order of groups only chooses colours.

*Server.* One listener call is one step. Time is a tick count, `Window` ticks
making 1000 ms; ages replace absolute times because the code only compares them
with 1000 ms. `Timeout` is enabled once a socket was idle for a window and may
be late, as timers are. `End` also stands for the automatic close of the
server's side, and `Timeout` for `destroy()` and the decrement behind it, so that
a socket leaves in one step: after 'end' the socket closes by itself
(`allowHalfOpen` is not set), after `destroy()` no 'end' comes, and no property
speaks of what lies between. `PeerVanishes` is a node that loses power. A reset
connection raises 'error' without a listener and ends the process (`ResetByPeer`);
`Restart` starts it anew. A lost connection of a browser is `BrowserDisconnect`;
a browser name is used again only when no list holds it, as each socket.io
connection is a new object. `heard` and `stable` are history variables that no
action reads.

*Parsers.* `UartParser` takes one byte per step. `Framing` knows bytes by their
position in what the sniffer sent, `ParsePacket` by their place in a frame: equal
payloads cannot hide a mixture. Characters of UTF-8 are modelled for the two
bytes of a frame that can be above 127: a lead followed by a continuation is one
character.

*Frames.* `Sniffer` fills a 31-byte storage (30 and the byte behind it) from
arbitrary stack contents by the calls of `itstr` in the code's order, each of
which writes its terminator. `char` is unsigned on the chip's compiler, as in
the model's addresses. The identifier is 1 until `Assign`, the receive interrupt
(`Receive`) runs between any two calls, and a frame remembers the identifier it
was sent with, because the parser may replace 0 by 1 later. Server-side
extraction is part of the module, so that one invariant spans both ends.

## 3. Runs

Passing runs:

| run | shows | bounds and why they are enough |
|---|---|---|
| `RingBuf` | types, agreement of count and pointers, refinement of `LossyFifo` | 4 bytes over 3 values: wraps, fills and overwrites; the theorems cover all sizes |
| `Bridge` | mutex, copy, wake-up, order of bytes before the first wrap while write tasks do not coexist, the contract `BridgeSync`, and that the main ring is sent and a lost connection retried | two connections and two write tasks, of which the second comes after a reconnect, beside the first or after its end; one main task, as `ReaderServesSocket` assumes (see below for two); main ring of 3 for 3 bytes: it fills and its pointers come round, while what goes wrong after the first wrap is left to `BridgeStream`, and larger rings to the theorems, which hold for all sizes; temporary ring of 2, which overwrites; one descriptor, so that it must be given back; under `FairSpec` |
| `RtosQueue` | types, no task asleep beside an item, each task in one list, refinement of `BridgeSync` with its fairness | three tasks, so that one can take what woke another while a third goes to sleep; `MaxLock` 2; under `FairSpec` |
| `UartDriver` | a character is lost on output only after more contexts than the margin covers were between test and write at once, none is missing on input, waiting characters are served and the handler ends | three tasks and the handler, one context more than a margin of two places covers (126 of 128 in the code, 3 of 5 here), so that characters do get lost and the property tells when; thresholds 3 and 2, receive FIFO of 3 for 4 characters, so that it overflows |
| `WebClient` | windows hold the newest values, one list entry per visit of the connection | 3 visits, 3 emissions, 2 devices, 2 nodes, windows of 2, which shrink to nothing; one lost connection |
| `Server` | types, count, completeness, that a completed record is sent, growth of records, refinement of `Readings`, vanished peers | 2 nodes and 2 sockets, 2 browsers whose list holds 2 entries, repetitions included, 2 strengths; a window of 1 tick, so that a record is fresh or expired; under `FairSpec` |
| `Sniffer` | handling of identifier frames, termination, decoding, distinct identifiers | a payload of 1 byte and up to 3 bytes between zeros: shorter, exact, longer; strengths -128, -14, 127; addresses with 0, 15, 16, 255; instants 0, 2^31-1 and a negative one; counts modulo 4 so that they wrap; two batches of stations, one station with identifier 0, last bytes that cover every half |
| `Framing` | decoded pieces are whole frames | 3 frames of 3 characters, 3 losses, every segmentation, counts of every kind and an identifier that continues a character, so that characters and bytes differ |
| `ParsePacket` | fields in place, and every call returns once nothing is lost any more | frames of 3 bytes, blocks of up to 3, any losses, any start; under `FairSpec` |

Each of these properties is also proved, for every value of the constants, unless
section 5 lists it as model-checked only; that is why the instances of `Bridge`,
`RtosQueue` and `Server` may be small.

In `Framing`, `ParsePacket` and `UartParser` the lengths of frames are scaled
down: the code only compares lengths with one constant, 31 (or the size of the
structure), and the modules take it as a parameter. `CHECK_DEADLOCK FALSE` is
set where the bounded environment runs dry (`Bridge*`, `Framing*`,
`ParsePacket`, `DevIdSync`, `WebClient`).

Runs that TLC refutes, each a disagreement between the code and what the
repository says (`findings` in `PROJECT.json` quotes it):

| run | what TLC shows |
|---|---|
| `BridgeStream` | `StreamInOrder`: on one connection and without a wrapped copy, the handler overwrites bytes in `tx_buffer_m` between the give and `write()` (line 101) |
| `DevIdSync` | the bridge's start-up text on UART0 drives the parser into END; `uart_ctrl = CTRL_BYTE` where `state` was meant keeps it there, and the identifier is never handled |
| `FramingUtf8` | count and identifier merge into one UTF-8 character and the frame is dropped |

The models show more places where the code falls short; each was seen with TLC,
or follows from one definition, and has no run of its own:

- one station in every batch of 256 gets the identifier 0 (`assign_dev_id` lacks
  the guard of `S/wiloc/user/user_main.c:209`), and each of its frames is cut
  after its second byte; `FrameEndsAtZero` leaves that identifier out;
- `parse_packet.m` throws whole frames away because `c_pos` is not reset: only
  those that happen to start at `c_pos` = 1 are taken, which is why `CallReturns`
  can promise no more than that a call ends;
- the margin of two places in `uart_tx_one_char` covers three contexts, and main
  task, write task, Wi-Fi event and handler all print: with four between test and
  write at once a character is lost (the state is reached in `UartDriver`, and
  `NothingDropped` claims nothing beyond the margin);
- after socket.io has reconnected, an open page gets nothing until some page is
  visited again (`OneEntryPerVisit`); a page left and visited again counts each
  record twice; a node that misses `limit` records never shows again
  (`WindowHoldsNewest`);
- the browser connects to port 3000 (`dataService.js:4`), the server listens on
  80 (`app.js:48`), and a group's colour is read before it is assigned
  (`monitorSingleCtrl.js:60,64`);
- when the unread bytes wrap around the end of the ring, the copy into the ring's
  own storage (`user_main.c:94`) overwrites bytes it has still to read: with the
  constants of `BridgeStream` and six bytes, `CopyExactUnlessWrapped` without its
  third condition is violated;
- `on_disconnect` is empty, so a second `WifiGotIp` starts a second main task
  beside the first, and each overwrites the `sta_socket` of the other: with two
  `Mains` and two `Fds`, a descriptor whose connection is lost may stay open for
  ever, against the comment "socket is closed in read task" (`user_main.c:107`);
- `StreamInOrder` also fails although nothing wraps when a write task is created
  while that of an earlier connection still exists: the two share the copy buffer
  (`InOrderBeforeWrap` leaves this out by `crowded`);
- bytes in the temporary ring wait for the next interrupt (`IsrDrain` is the only
  action that takes from it), which need not come;
- a record that has the entry of a node that has left cannot be told from a
  complete one by its length: it is sent without another node's entry, or held
  back while it is fresh (`CompleteMeansEveryNode` and `CompletedIsSent` leave it
  out); and with a single node the first report of a record is never sent, because
  only the branch for a fresh record emits (`app.js:115-137`);
- `itstr` writes zeros for a negative integer (`logi` counts no digit), so
  timestamps from 2^31 us on are sent as `00000000`; `ServerDecodesPacket` leaves
  them out.

Every property of a passing run has a mutant of the code, an operator defined
just before the definition it mutates, that breaks it.

## 4. Fairness

`Bridge`: weak fairness of the handler (a pending interrupt is served), of each
write task and of each main task (`configUSE_PREEMPTION` is 1 in
`S/include/freertos/FreeRTOSConfig.h` and all tasks have priority 2, so that the
scheduler's time slices reach every ready task). No byte, Wi-Fi event, loss of a
connection or successful `connect` is assumed. `RingIsSent` relies on the tick
between `WriteGive` and the next `IsrEnter` only in that the handler, too, needs
a byte to run, and the sniffer sends finitely many (`MaxBytes`) in the instance.

`RtosQueue`: weak fairness of a handler that has begun, and strong fairness of
each task's steps inside the kernel: `xTaskIncrementTick` gives every ready task
its slice again and again, also one whose slices are interrupted by others that
suspend the scheduler. No interrupt, no write and no new task is assumed. It
yields what `BridgeSync!FairSpec` says: a call that can succeed and stays so
does.

`UartDriver`: the processor takes a pending interrupt and goes on with the
handler, the line sends what waits, and a level that stays is noticed. Tasks need
not print and characters need not come.

`Server`: weak fairness of `Tick` (time passes) and of `Timeout` (the event loop
comes round to an expired timer).

`ParsePacket`: bytes keep coming while the node is there, and the program runs.
`DevIdSync`: the bridge sends what it has to send, and the sniffer's interrupt
takes it; the property that fails there is one of single steps.

## 5. Proofs

All theorems hold for every value of the constants that satisfies the modules'
assumptions: sizes are at least 2 (`ringbuf_init` refuses less), bounds are
natural numbers, names are distinct, the set of connections is finite.

*Ring* (`RingBufLemmas`, `RingBufProofs`). `Inv` is the type invariant and
`PointersAgree`: `p_w` is `fill_cnt` places ahead of `p_r`, modulo the size. The
lemmas say of each operation that it preserves this and what it does to
`Unread`, the sequence of bytes held; `ImplementsLossyFifo` maps each call to the
queue's. The same lemmas carry the proofs about the bridge.

*Bridge* (`BridgeProofs`). `TypeInv` is `TypeOK` with both rings consistent.
`LockDiscipline` is inductive over the types. `CopyInv` says of the task that
holds the mutex that its ring holds what it counted less what it copied, where
its read pointer has got to, and that the first `i` bytes of the storage are the
first `i` it took while the bytes still to be read are untouched, unless they
wrap; the exact copy follows, and the invariant is needed since the mutex alone
says nothing of the storage. `Notified` extends `NoLostWakeup` to every stage of the
handler.

`BridgeInOrder` concerns the way of a byte through all of its stations. Laid end
to end, what the server got, what the task that copies has copied so far, the
main ring, the temporary ring and the receive FIFO are one ascending sequence of
byte numbers (`InOrder`). A step keeps it because it takes the oldest byte of one
station and puts it behind the newest of the next, which needs three more facts:
there is one task that copies (`OneWriter`: as long as it is not crowded, a write
task of an earlier connection is gone before the next is created), the
handler puts new bytes into the main ring only when the temporary one is empty
(`Drained`), and the main ring has never wrapped, nor has the copy overtaken what
was taken out of it (`Straight`). `OwrAppends`, `OwrFields` and `OwrShifts` say
what an overwriting put does to the sequence a ring holds. The theorem covers any
number of connections, but only the first `MSize` bytes (`sent <= MSize`) and only
until two write tasks coexist; beyond either limit the order is really lost
(`BridgeStream`, and section 3).

`BridgeUsesSync` needs only the types, `LockDiscipline`, and that a task that
copies holds the mutex.

*Queue and mutex* (`RtosQueueProofs`). `LockInv`: the scheduler is suspended
exactly while one task is on the slow path, and only that task's queue is
locked. `Listed`: a task waits for the queue it called, or is ready or pending.
`Awake` is the heart: for each queue with an item and a sleeper, either somebody
awake has yet to look, or the lock count says that one will be woken at the
unlock; `Check` and `Place` keep it because whatever is sent between them is
counted. The refinement of `BridgeSync` adds `Owned`, who holds the mutex.

*UART driver* (`UartProofs`). `TxInv` relates the FIFO to `most`: the count plus
the contexts between test and write is at most `TxLimit - 1` plus the most that
ever were there at once, because a context passes the test only below `TxLimit`.
A write into a full FIFO therefore needs more of them than the margin, whatever
the number of contexts (`UartNothingDropped`).
`CauseTells`: without a connection, and between interrupts, a
pending cause tells how many characters wait at least, one less for each that
another branch has read; a threshold of three covers both branches.

*Server* (`ServerProofs`). `NetInv` ties `nodeCount` to the number of open
sockets; this also gives the type of `nodeCount`, which two listeners decrement.
`RecordSupported` says that each entry of a fresh record is backed by a reading
that is no older than the record, and yields the refinement of `Readings`.
`Settled` says that the keys of a record of a stable device are nodes still
connected; with one connection per node, equal numbers mean equal sets, which
gives `CompleteMeansEveryNode`. `ServerCompletedIsSent` goes the other way: when
each node has one socket, the connected nodes are as many as `nodeCount`
(`NodesCounted`), so that the report that brings a record to hold just them makes
the two numbers equal, and the emission is part of the same step.

*Parser* (`UartProofs`). The invariant relates the parser's position and
storage to the bytes since the last zero byte. The `Parser...` theorems are about
the parser alone (`RxSpec`), the `Sniffer...` theorems about the sniffer, in which
`user_init` assigns an identifier and frames are sent meanwhile.

*Frames* (`UartProofs`). Loops are functions of a bounded round, so that what they
compute can be unrolled. For base 16: `Log16` (the loop of `logi` counts the digits),
`Remainders` (what the digit loop has left of n is `n % 16^(i+1)`), hence
`ItstrPrints`: an int that fits its field is written as its digits, zeros in front
and a zero byte behind. `FieldsAre` and `ValuesFit` say that the eleven fields
follow one another without a gap and that each value fits; `ConvertFills` that a
conversion completes its field and leaves what is in front of it, so that each
terminator is overwritten by the next field and the last one falls behind the
structure. `LineHolds`, the invariant, carries this to the line; from it
`LineNotZero`, and with `ParseIntReads` (parsing is the inverse of printing, by
Horner's scheme) `LineDecodes`. The theorems assume what the types of the code
say (`SightingsAssumption`): a 32-bit time, a signed byte of strength, bytes
elsewhere (`NumberRange`: so is the identifier). `SnifferSendsFrames` joins
the two ends: what `Sniffer` puts on the line has the length, the one zero byte and
the ASCII characters that `Framing` takes for granted of a frame (`IsFramingFrame`,
by an instance of `Framing` with the code's 31 characters). The intervals of a byte
and of a strength are named (`UnsignedChar`, `SignedRssi`) and cited by what they
contain (`CharValues`, `RssiValues`) only where a proof computes: the provers take
an interval between two numerals apart, element by element.

*Identifier* (`UartProofs`). `RoundInjective`: with the same CRC before it, what a
round of `calcCRC16r` leaves in the low byte differs for different bytes. The four
`^=` are undone one after the other, from the bits that a shift does not reach to
those it does. Two addresses that agree in their first five bytes therefore give
different identifiers (`IdsDiffer`), which is `SnifferOneIdPerStation`.

*Framing* (`ServerProofs`). A piece that decodes has the length of a frame, but
that alone does not make it one: bytes are lost, and two halves may add up. The
invariant `Gapless` says that the segment under way holds, in order, every byte
since its first one that was not lost; two bytes of it are therefore as far apart
as they were sent, or a lost byte lies between them, and `FramingDecodesFrames`
follows for any number and length of frames, losses and cuts. That
the code does not keep the opposite promise, to decode every frame that arrives in
one segment, is what `FramingUtf8` shows.

*Browser* (`WebClientProofs`). `WebOneEntryPerVisit` counts pages, entries and
subscriptions under way, and needs that no page is of a connection yet to come
(`PagesUpToNow`). A window is described by what it holds, not by how it was
computed: `IsWindow` ranks a node's values by how many are at least as new, and
shortens the window by the records that leave the node out. `WindowTurns` and
`WindowShrinks` say what one more record does to such a window, from which
`WebWindowHoldsNewest` follows for any number of visits, nodes and values.

*Live plot* (`ParsePacketProofs`). `Growing` says that while a frame arrives
undamaged the vector was either filled to its end, so that it is too long to be
taken, or started at `c_pos - Passed`; it ends at 31 places only when it started
at 1.

Only model-checked: everything under fairness (`RingIsSent`,
`LostConnectionRetried`, `WaitingCharsServed`, the fairness in `ImplementsSync`,
`VanishedPeerReleased`, `CallReturns`), which is out of the prover's reach, and
`ReaderServesSocket`, which holds for one main task only.

## 6. Not modelled

- `getmac` (only answers), the HTTP part, logging, `printType` (called by nobody).
- The 64-bit twin of `itstr`, `channelHop` (not compiled in), gpio outputs.
- In the drivers: the setters of line parameters, which write a register each,
  and `uart_task` with its own handler, which nobody starts.
- The drawing of the client and of MATLAB, the client's list of devices;
  recorded plots, one pass over a file.
- The host harness `node/tests`: an earlier draft of the sniffer's parser, run on
  a PC over one fixed string.
- Of FreeRTOS, what these programs cannot reach: time-outs, peeking, queue sets,
  timers, priorities that differ. lwIP and the radio: the repository holds their
  headers and binary libraries only, so that there is no behaviour to translate.
- Memory exhaustion other than a task that cannot be created.

Most lines of the repository are headers of the SDK and of its libraries, macros
and declarations without behaviour, or third-party code. The share of lines that
the modules stand for is therefore small, although all of the project's own
programs are modelled, but for the parts named here.

## 7. Order of work and what remains

Done, in this order: `RingBuf`, `Bridge`, `Server`, `UartParser`, `DevIdSync`,
`Sniffer` with `ItStr` and `DevId`, `Framing`, `ParsePacket`; then `BridgeSync`
with `RtosQueue`, `UartDriver` and `WebClient`, each with its theorems.

Worth doing next:

1. `Pipeline`: sniffer frames through a lossy bridge into `Framing` and a record,
   with an abstract specification of the whole: what a browser sees was heard.
2. More theorems that join modules, as `SnifferSendsFrames` does: that the server
   parses a frame wherever the bridge keeps its order.
3. `WebClient` beside several browsers and the lists of `Server`.
