# TLA+ models of ForsanRaneaf

ForsanRaneaf is the software of an electric vehicle conversion: sensor nodes on ESP32 boards
that register with a controller over ESP-NOW, a battery sensor that talks CAN to the battery
management unit (the MCU), a small serial bridge that prints framed messages, and an
infotainment program in C that reads those frames from a serial port, queues them and shows
the vehicle status in a window. This directory models the parts of it that keep state, checks
them with TLC on small instances and proves most of their safety properties with TLAPS for every size.

    tlc -workers 2 -config MCMsgQueue.cfg MCMsgQueue.tla      # a run
    tlapm MsgQueueProofs.tla                                  # a proof

Paths below are relative to `src/`.

## Inventory

| Component | Code | State | Operations | Interacts with |
|---|---|---|---|---|
| message queue | `Infotainment/frinfo/msg_queue.c` | ring of 256 pointers, two cursors, mutex | open, write, read, close | serial thread writes, UI thread reads |
| serial link | `Infotainment/frinfo/serial_comm.c`, `SensorNetwork/controller-arduino/controller.ino` | delimiter counters, open message, read buffer | read, parse a byte, open and close a message | bytes in, messages to the queue |
| infotainment life cycle | `frinfo.c`, `ui.c`, `msg_handler.c`, rest of `serial_comm.c` | shared `struct frinfo`, descriptor, window | open, start, draw loop, handle a message, stop, join, close | owns both threads and both queues |
| registration | `SensorNetwork/components/network/network.c` | connection state of a node, the controller's table of clients, event queue | send and receive callbacks, controller and client loop | radio, Wi-Fi task, network task |
| battery sensor and CAN | `SensorNetwork/battery-sensor/main/battery-sensor_main.c`, `SensorNetwork/components/can_network/can_network.c` | queue of message addresses, two loop counters, `mcu_config` | receive interrupt, parse, periodic requests | MCU over CAN |
| configuration file | `Infotainment/utilities/ini_config/ini_config.c`, `strutils.c` | lists of sections and settings; token and flags while parsing | open, look up, close | `main.c` reads all settings before it starts frinfo |
| memory pools | `Infotainment/utilities/mem_manager/` | list of pools, free list of each | open, alloc, free, close | no caller, and not usable yet |
| threading, timing | `utilities/threading/`, `utilities/timing/` | wrappers of Windows threads and of clocks | lock, try-lock, sleep | not used by frinfo |
| logger, serial stub | `utilities/logger/`, `utilities/serial/` | one output stream | write | everybody |
| message decoding | `frinfo/msg_handler.c`, `frinfo/serial_comm.c` | characters in blocks of malloc, a buffer on the stack, `vehicle_status` | store a frame, validate, decode, copy the status | between the queue and the window |
| hash map | `utilities/types/hashmap.c` | table of buckets, list of those in use, two counters | set, get_set, set_free, get, remove, remove_free, size, iterate | nobody calls it yet |

**What makes each of them correct**, and what is hard about it:

- *Queue.* Two threads, a writer that also frees and moves the *reader's* cursor when the ring
  is full. Correct when the occupied slots are always the ones between the cursors, every block
  has one owner, and the whole thing is a FIFO that drops its oldest message.
- *Serial link.* `read()` cuts the stream anywhere (at most eight bytes at a time, because the
  length is the size of a pointer), bytes get lost, the controller restarts. Correct when
  exactly the closed frames come out, in order, and no message outgrows its block.
- *Life cycle.* Seven calls that may fail, a plain `bool` as the stop signal, memory shared by
  two threads. Correct when nothing shared is released while the serial thread runs, nothing is
  left behind, closing the window ends the program, and the newest status is the one shown.
- *Registration.* A handshake over a lossy radio where the sender learns the fate of a frame
  from a MAC acknowledgement that may itself be lost, with callbacks that race the main loop for
  a bounded queue, between nodes that are switched on in any order and may restart in the middle.
  Correct when the two ends agree, nobody waits for ever and every client registers in the end.
- *Battery sensor.* An interrupt allocates what a task frees; the queue copies more than its
  user hands it. Correct when no message is used after it was freed and the periodic requests
  survive a busy bus.
- *Message decoding.* Characters are stored without a terminator in a block that still holds what
  was in it before, and read back with `strlen`. Correct when what is accepted is what was sent
  and the status is copied from a whole status message.
- *Hash map.* Removed entries stay in the table and in its list until a resize moves the others;
  a search stops only at its key or at an empty bucket. Correct when searches end, the list is
  whole, and collisions, removals and resizes cannot be seen from outside.
- *Configuration.* One pass over arbitrary bytes with four flags that survive from byte to byte.
  Correct when a token never leaves what was read and a well-formed file is loaded as it reads.

The complete list of hazards, each at its line and with the properties that cover it, is
under `hazards` in `PROJECT.json`.

## Modules

### `MsgQueue`, implementing `OverwritingFifo`

`queue`, `write_cursor`, `read_cursor` and `lock` are the fields of `struct msg_queue`; `msg[t]`
is the argument or result of the call thread `t` is in, `allocated` the blocks malloc has given
out. Each of `msg_queue_write` and `msg_queue_read` is cut where another thread may run: taking
the mutex, making room (`WriteMakeRoom`: free the occupant, move the read cursor), storing, and
giving the mutex back. The model does not assume that the mutex makes the middle atomic: dropping
it breaks the run. `Produce` and `Consume` are the callers in `serial_comm.c` and
`msg_handler.c`; `Close` is `msg_queue_close`, called when no thread is in a call, as
`frinfo_close` does after its join.

`OverwritingFifo` is the promise: a sequence, a `Write` that never blocks and drops the oldest
message of a full queue, a `Read` that takes the oldest or reports none. The mapping takes the
effect of a write to be the moment it has made room and that of a read the moment it takes the
pointer.

### `SerialLink`

The controller prints a frame (four `+`, a base64 text, four `-`), the wire may lose one byte of
the parts that `Lossy` names, `setup()` prints a banner at a restart. The thread reads up to
`READ_MAX` bytes, any number of those available, and `parse_buffer` goes over them with one
action per branch: `CountPlus`, `new_message`, `CountMinus`, `close_message`, `StoreByte`. The texts
of `controller.ino` are fixed strings; the model takes any text from a small set. A restart
happens between two frames.

### `Infotainment`

`frinfo_start` from `frinfo_open` to `frinfo_close` in the main thread, with the draw loop of
`ui.c` and one message after the other through `msg_handler_handle`; the serial thread from its
allocation of the read buffer to `cleanup`. The incoming queue is an instance of
`OverwritingFifo`, which `MsgQueue` implements, so the ring is not modelled twice. Bytes are
abstracted to messages: the serial thread reads an opening, a closing, or an error. Descriptors
are numbers handed out lowest first (`OpenFd`), so that a number that is closed twice can hit
whoever got it in between. `shutdown` and `serial_connected` are unsynchronised flags; they are
treated as sequentially consistent single words, which is what the platforms concerned do with a
`bool` that is read again in each round of a loop with system calls in it.

### `MsgDecode`

What `Infotainment` leaves out: what a message says. A block is a sequence of characters: numbers of
base64, padding, a terminator, or something that is not base64. `parse_buffer` stores what arrived
between two markers (`Arrival`) over what the block held, which is an older text or what `Reuse` lets the
rest of the program put there. What arrives is the text of a frame (`encode`), or any text in its
place (`Damaged`): characters lost on the line, and every frame whose text has a `+`, which the parser counts for the
marker and does not store. `strlen` finds the end, in the block or in whatever is behind it (`Behind`), `tb64dec` decodes
whole groups of base64 and nothing else, `Accepts` is `validate_msg`, and `HandleMessage` one turn of the loop of
`msg_handler_handle`, with `decoded_msg` as the stack leaves it. When `strlen` counts more than `decoded_msg`
has room for, `Overrun` stops the user interface of the model, as the code has no defined behaviour from there on. The queue
keeps with each block the text that was stored in it, so that the properties can compare the two; they say what
holds of a frame that arrived whole (`AcceptedAsSent`, `LongestIsAccepted`, `StatusIsSent`), of one that lost
characters (`DamageIsNoticed`) and of any (`BufferSuffices`). That a damaged one is always rejected is not true of the code,
and not stated: stale characters may complete it (see *Seen while modelling*).

### `EspNowRegistration`

`conn[n]` is `network_conn_state` of a node, `clients` the controller's table, `events[n]` its
event queue, `tx[n]` the frames `esp_now_send` has accepted with what became of them, `task[n]`
whether its `network_task` runs. Each node has a Wi-Fi
task (`SendCallback` and the receive callback inside `TransmitBroadcast` and `TransmitUnicast`)
and a network task (`ControllerTask`, `ClientTask`) with one action per event it can take. `Start`
brings a node to its loop, or ends the task when there is no memory for its buffer; a failed call
of the start-up is an assertion that restarts the chip before the node has sent anything, which is the same
as starting later. `Restart` loses everything a node knew, held in its queue and had given to its driver. The radio and
the driver are external and modelled from their use: unicast frames are acknowledged at the MAC
level, a broadcast counts as sent whoever hears it, a callback with a full queue waits and with the
fault "drop" gives the event up, and with "nomem" finds no memory for the data of an acknowledged
frame. The driver is taken to finish a broadcast within the 250 ms the controller sleeps.

### `BatterySensor`

`Start` creates the queue and starts the bus, or ends the task when there is no memory. From then
on the receive interrupt (`Receive`) puts the address of a block on the queue or, when the queue is
full or the frame unreadable, loses it. The task drains the queue (`TakeMessage`, `ParseMessage`),
then counts once for each of the two cycles (`request_mcu_status`, `request_mcu_config`) and
sends the request that is due. The queue is created for items of `sizeof(struct can_message)` but is
given the address of a pointer, so `TakeMessage` also writes over what lies behind `msg` on the
stack; the outcome is a nondeterministic value for both counters. One part of the configuration is watched,
any of them: what holds of it holds of each.

### `IniConfig`

`inicfg_open` with the failures of `fopen`, `fseek`, `ftell`, `fread` and of the allocations (those inside one section or one
setting are counted together), `parse_config` one byte per step with its flags, the two lists
with the newest entry first, `find_setting`, `inicfg_close`. Flags that are cleared within the
byte that sets them (`tokenize`, `setting`, `closetoken`) are operators. A token is a position and a length, so that
characters that were skipped inside it reappear in its text, as in the code. The files are
sequences of lines; the module says what each line means, and `Says` is the reference reading
that lookups are compared with. It is stated for files that are `WellFormed`: a header first, a setting last,
no section without settings, no line that is only a comment, names, keys and values without the characters
the parser looks for (`PlainHeader`, `PlainSetting`; an equal sign may stand in a value, a remark may hold
everything but `[`, and must not end in `#`, which as the last byte of a file would lose the setting).

### `HashMap`, implementing `OrderedMap`

`m` is the structure, with `next[HEAD]` for `m->first`, which the code treats as the next pointer of
"an imaginary bucket", and `NIL` for the null pointer. A key stands for the bytes of a key; `Hash` is a constant, so that the
instance chooses what collides. Each operation is one action, since a map has one user. `At` is where step `n` of a
search looks and `Probe` the search loop, with no result when the code would go round for ever. `List` follows the
pointers, `Entries` leaves the tombstones out. A resize (`hashmap_resize`)
moves the entries one after the other into the larger table, without the tombstones. `ResizeFails` is a `calloc` without
memory: possible at any resize when `CALLOC_FAILS`, certain from `MAX_CAPACITY` on, which is a bound of the model.

`OrderedMap` is what `hashmap.h` offers: pairs in the order in which the keys were added. The mapping reads the
list of the hash map and leaves out the tombstones; the result of each operation and what it
hands to its callback are the same in both.

## Runs

| Run | Configuration | Result | Shows |
|---|---|---|---|
| queue | 2 threads, 5 blocks, ring of 3 | holds | `RingIsContiguous`, `SingleOwner`, `ImplementsFifo`, `LockIsReleased` |
| serial | 2 frames, 1 restart, block of 4, text and closing marker may lose a byte | holds | `DeliversClosedFrames`, `MessageFitsBlock`, `FramesArrive` |
| serial_banner | no losses | violated | `ParserReturns` |
| life | all seven faults, queue of 2, 4 messages | holds | `SharedWhileRunning`, `NothingLeftBehind`, `StatusGoesForward`, `WindowClosedEnds`, `LatestIsShown` |
| life_port | only `tcsetattr` fails | violated | `ClosesOnlyItsOwn` |
| registration | 2 clients, one may restart, nodes switched on in any order, frames lost, event queue of 2 | holds | `ReadyIsMutual`, `ReadyIsFinal`, `AllRegister`, `NobodyWaits` |
| registration_faults | 1 client, losses, lost acknowledgements, refusals, no memory, dropped events, one restart of each node | holds | `ReadyIsKnown` |
| registration_ackloss | 1 client, acknowledgements lost | violated | `ReadyIsMutual` |
| battery | 3 blocks, queue of 2, cycles of 1 + 2 loops, 2-bit counters, no memory, lost frames and requests | holds | `MessagesAreOwned`, `AsksAgain`, `ConfigIsLearnt` |
| decode | 2 blocks of 12 characters, 4 frames of 3 lengths, 2 texts that lost a character, anything behind a block | holds | `AcceptedAsSent`, `LongestIsAccepted`, `DamageIsNoticed`, `StatusIsSent`, `BufferSuffices` |
| hashmap | 3 keys that collide, table of 4 that grows to 8, `calloc` fails | holds | `SearchEnds`, `ListIsWhole`, `ImplementsOrderedMap` |
| ini | files of up to 4 lines of 7 kinds, failures of `fopen`, `fseek`, `ftell`, `fread` and `malloc` | holds | `TokenInside`, `LoadsWellFormed`, `EverythingFreed` |

Each passing run also checks the type invariant of its module (registration leaves it to
registration_faults, and `MsgDecode` has none). Deadlock is checked unless the program of the run ends; in the run decode
it is an overrun with all blocks in the queue after which nothing can happen.

**Why the bounds are enough.** A ring of three slots has an inside slot, wraps, and is full with
one block per thread in flight; five blocks let both threads hold one while it is full. A message of the
serial link needs two frames to damage its neighbour and one restart to put a banner between
them; the markers have their real length and `read()` its real maximum. Two slots and four
messages overflow the queue of the life cycle twice. Two clients are needed for one
to hold up the other; more clients only meet at the controller's queue, which two already fill.
A node that has restarted once
is any node that has restarted, to those that know it; which of two clients restarts makes no
difference. Two-bit counters with a cycle of three leave one value beyond the cycle, the case the 16-bit counters
have 2^16 - 611 of. Four lines hold a repeated section with a repeated key, and every kind of
line in front of every other. Two blocks let one be
handled while the other is filled; three lengths of frame leave older characters behind, fill a block to its end
and fall short; two damaged texts are one character short, of a status frame and of a shorter one; and what is behind a block
continues a text with nothing, with a whole group, or with what is not base64. The three keys lead to the last bucket of the small table, so that they collide and wrap, and two
of them to the last bucket of the large one; the small table can be overloaded by entries, by tombstones, and by
nothing but tombstones. One resize is enough, as nothing of the old table outlives it but the
entries; where a second one would come, the map goes on at its limit with `calloc` failing.

**Fairness.** Both infotainment threads poll without blocking (`O_NDELAY`, a drawing loop), so
weak fairness of each thread is what the operating system's scheduler gives; nothing is assumed
of the wire, the controller or the user. In the queue a thread
inside a call goes on unless it is blocked on the mutex (weak fairness per thread; the mutex need not be fair,
and no property says that a waiting thread gets it). On the nodes the network and Wi-Fi tasks are
weakly fair; a radio link that is used again and again gets a frame and its acknowledgement
through again and again (strong fairness of the successful transmission, per link), and every node is switched on at some
time (weak fairness of `Start`). `AllRegister` and `NobodyWaits` say what holds as long as the
controller does not restart. The battery task is weakly fair; a request
that is made for ever reaches the MCU, and an MCU that is asked for ever answers.

## Proofs

The theorems about a module `M` are in a module of their own, which extends `M`; those about `IniConfig` and
`HashMap` share `UtilitiesProofs`. `Induction` holds the
lemmas about natural numbers and sequences that several of them share. Every invariant that a passing run checks is
proved, and every action property and refinement.

| Theorem | States | For |
|---|---|---|
| `MsgQueueProofs!IInvHolds`, `TypeCorrect`, `Contiguous`, `Ownership` | `TypeOK`, `RingIsContiguous`, `SingleOwner` | any threads, blocks and ring size |
| `MsgQueueProofs!Implements` | `ImplementsFifo` | the same |
| `EspNowProofs!KInvHolds`, `TypeCorrect`, `ReadyClientsAreKnown` | `TypeOK`, `ReadyIsKnown` | any clients, faults, queue sizes and numbers of restarts |
| `EspNowProofs!ReadyInvHolds`, `Mutual`, `Final` | `ReadyIsMutual`, `ReadyIsFinal` | the same, under `Reliable` |
| `BatteryProofs!IInvHolds`, `Owned`, `TypeCorrect` | `MessagesAreOwned`, `TypeOK` | any blocks, queue size, cycles, widths and faults |
| `InfotainmentProofs!LifeInvHolds`, `TypeCorrect`, `Shared`, `CleanExit` | `TypeOK`, `SharedWhileRunning`, `NothingLeftBehind` | any faults, queue size, messages and descriptors |
| `InfotainmentProofs!OrderHolds`, `StatusForward` | `StatusGoesForward` | the same |
| `SerialLinkProofs!TypeCorrect` | `TypeOK` | any texts, banner, losses, frames, restarts, `read()` lengths, delimiter lengths |
| `SerialLinkProofs!MessagesFit` | `MessageFitsBlock` | the same, opening markers whole and `BlocksHaveRoom` |
| `SerialLinkProofs!FramesDelivered` | `DeliversClosedFrames` | the same, opening markers whole and `NoDelimiters` |
| `MsgDecodeProofs!MemInvHolds`, `Accepted`, `LongestAccepted`, `DamageNoticed`, `StatusSent`, `BufferIsEnough` | `AcceptedAsSent`, `LongestIsAccepted`, `DamageIsNoticed`, `StatusIsSent`, `BufferSuffices` | any frames, damaged texts, blocks, block sizes, reuse of blocks and memory behind them |
| `UtilitiesProofs!TokensInside` | `TokenInside` | any file and faults |
| `UtilitiesProofs!IInvHolds`, `TypeCorrect`, `Freed` | `TypeOK`, `EverythingFreed` | the same |
| `UtilitiesProofs!LoadedAsSaid` | `LoadsWellFormed` | any well-formed file and faults |
| `UtilitiesProofs!MapTyped`, `SearchesEnd`, `ListStaysWhole` | `MapTypeOK`, `SearchEnds`, `ListIsWhole` | any keys, values, hash function, capacities and failures of `calloc` |
| `UtilitiesProofs!MapRefines` | `ImplementsOrderedMap` | the same |

**Assumptions.** The named `ASSUME`s of the modules say what the constants stand for: sizes are natural
numbers and those of rings, queues and markers positive; the null pointer is no block, thread or
position; the controller is no client and "broadcast" no node; a cycle fits its counter; a table of the hash map has two
buckets at least, and its pointers are no buckets; the texts of frames are at least two
characters long, hold no `-` and fit a block; in `MsgDecode`, a frame starts with its own length and has a type, its text and
every damaged one fit a block (`MessageFitsBlock` of `SerialLink`), and a block is at least as long as a status message. TLC evaluates all of them in the runs. Five theorems have hypotheses of their own:

- `Reliable` (no fault "ackloss", "drop" or "nomem"; frames may be lost and sends refused). Without it
  `ReadyIsMutual` is false: finding 3 is the counterexample. The run registration satisfies it.
- `"open" \notin Lossy`. A frame whose opening marker lost a byte is not opened, and its text then goes to whatever
  message is open, or through the null pointer (finding 1).
- `BlocksHaveRoom`: a block has room for a text and for as many banners as there are restarts, as a
  frame without its end takes in the banners that follow it. The model allows for `MAX_BOOTS` banners in one message.
- `NoDelimiters`: no `+` or `-` in a text or banner. `+` is a base64 character, and the parser
  swallows it (see below), so this excludes texts the code does not deliver; the text
  `controller.ino` makes has none. `NULL \notin Seq(Byte)` only says that the null pointer is no
  message.

The run serial satisfies the last three.

*Queue.* `RingIsContiguous` is not inductive: between making room and storing, the write cursor
points at a slot that is about to be filled, and a second thread in the same place would spoil
it. `IInv` adds `LockDiscipline` (a thread in a critical section holds the mutex, so there is
only one), `RoomMade` (the slot at the write cursor is empty when the store comes), `InHand` (who
has a block in hand at which point) and `ClosedIsQuiet` (no call outlives the queue). `SingleOwner` then
follows step by step: each step moves one block from one owner to the next. For the refinement, `IInv` makes
the contents of the ring, read from the read cursor on, a sequence that a step extends at its end, shortens at
its head or leaves alone: making room is the `Write` of the FIFO, with the message counted in before it is
stored; taking the pointer is its `Read`; the store, the mutex and the cursors are stutters.

*Registration.* `ReadyIsKnown` says a client that is READY is not held for unregistered. It becomes
inductive with `AcksAreKnown`: a REG_ACK of the controller that waits in its driver or in the event
queue of a client is addressed to a client that the controller has already taken out of REG, and the
controller never puts a client back there unless it restarts, which both conjuncts except. A
client that restarts loses its event queue and its frames, and the premises of both with them.
`ReadyIsMutual` needs the whole handshake (`RInv`): a client sends one REG_ACK at a time and none
after one was acknowledged; what the controller sends, reads and has in its table comes from a REG_ACK that was
acknowledged; and such a REG_ACK is read once, by a controller that has the client in REG. That is also
why no late one takes a ready client back (`ReadyIsFinal`). A client that restarted is excepted throughout, a
controller that restarted is not: nobody answers it.

*Battery sensor.* `MessagesAreOwned` is inductive together with the types of queue, heap and `msg`
(`Places`). An interrupt appends a block that was not allocated, so it is neither on the queue
nor in the task's hands; the task takes the head, which the queue, being free of repetitions,
does not hold again; and a block is freed only when the task has it. `TypeOK` is inductive; the counters keep
their width because every value the overwritten stack can leave has it.

*Life cycle.* `SharedWhileRunning` depends on every step on which one thread waits for the other, and
`NothingLeftBehind` on what each failing call leaves. `LifeInv` says for each phase of the main thread which phases the
serial thread may be in, that the shared structure is whole until `frinfo_start` returns, who has which
descriptor open, and that the serial thread ends without a buffer or an open message. The status goes forward
because of `InOrder`: from the status over the message in the hands of the user interface and the queue to the one being
received the numbers increase strictly, and dropping the oldest keeps that.

*Serial link.* Both theorems are about the bytes under way, in the buffer and on the wire
(`Stream`), as a read only moves the border between them. `FitInv`: wherever no opening marker
lies in between, at most a block's worth of bytes lies on the wire, less the banners still to come
and what a message that is open now has stored. `DelInv`: what was delivered is a beginning of the
texts that were closed, and there is a trace of parser states over the bytes under way, starting
at the present one, that ends with all of them delivered and never delivers more. The controller
extends the trace with the pieces of a frame (`OpenPiece`, `PlainPiece`, `ClosePiece`, and
`MinusPiece`, `BadPiece` for a closing marker or text that lost a byte), the thread takes its
first state.

*Decoding.* `MemInv` says of each queued block that it begins with the text that was stored in it, and of
every block that it is zero behind the most characters that have filled it (`held`). So what `strlen` counts begins with
the text. When that is the text of a frame and is accepted, its first byte is the length of the frame, which leaves the
decoder no more bytes than the frame has, and those are its own (`AcceptsTheFrame`): neither older characters nor the memory behind
can change what is accepted, only prevent it. When nothing longer was in the block, `strlen` counts exactly the text: a whole frame decodes to
itself, and a text that is not whole groups does not decode. `StatusIsSent` follows with the
bytes that `Decoded` leaves in `decoded_msg`; `BufferSuffices` because a block that was not filled has a zero
byte, so that `strlen` stays inside it.

*Configuration.* `TokenInside` is inductive together with the types of the three variables it is
about; the one step that needs an argument is `TakeByte`, where position and length grow
together or only the position does. `EverythingFreed` needs `Allocated`, which counts the blocks that are allocated
from the lists and the state of the parser: each step that fails frees exactly what the lists and the token say.
`LoadsWellFormed` says nothing of the parser between two bytes, so `LoadInv` does: every line of a well-formed file has its place in the
buffer (`LaidOut`); `ByteIs` says, for each line and each byte of it, what flags and token the parser holds there
(`InHeader`, `InSetting`, `Idle`); and `Settled` says that the list of sections is what the lines before it
say, read from the end: the newest section is that of the present line, every older one has a setting, and a
lookup in the list finds what these lines say last. One lemma for each kind of line takes the parser from a
byte to the next (`HeaderStep`, `SettingStep`, `BlankStep`), and `HeaderSettles`, `SettingSettles` and `BlankSettles` take the list
from a line to the next. That a header hides nothing although `find_setting` stops at a section without
settings is where `WellFormed` is needed.

*Hash map.* None of the four properties is inductive. `HInv` says that there is a list of buckets which the pointers
run through (`Chained`: without repetition, all buckets in use and no other, from `HEAD` to `last`), that from
the place where a key is searched first up to its bucket there is no empty one (`Reachable`), and that both counters are those of the
list (`Counted`). Tombstones keep `Reachable` when an entry is removed; without it a key could be added twice. As the
count is the length of the list, the load test leaves an empty bucket, and a search ends. A resize is a walk
over the entries: each one that moves extends the list of the larger table, keeps
`Reachable` and finds room, because there are no more of them than before. For the refinement, `Entries` is what the list without
its tombstones holds, so that a new bucket extends it, a bucket that is overwritten changes it in one place, a tombstone
removes one pair, and a resize leaves it as it is.

*Induction over data.* The theorems of the library that allow induction have an operator as a parameter, which
the provers cannot instantiate. `Induction` states what is needed about sets and functions instead: a set of numbers that
holds 0 and with each number the next holds all (`NatSetInduction`, from the well-foundedness of finite sets), and a
recursive function with a given step exists and satisfies its equation (`Recursion`). On these rest
the lemmas on `FlattenSeq` and on the largest element of a finite set, and what is said of the recursive functions in
`ClosedTexts`, `List`, `Entries` and `hashmap_resize`.

## Only model-checked

Liveness (`LockIsReleased`, `FramesArrive`, `WindowClosedEnds`, `LatestIsShown`, `AllRegister`, `NobodyWaits`,
`AsksAgain`, `ConfigIsLearnt`), because the prover has no reasoning about fairness and ENABLED here. `ReadyIsMutual` and
`ReadyIsFinal` are false when acknowledgements are lost; `MessageFitsBlock` and `DeliversClosedFrames` are not
claimed with damaged opening markers either, and no run allows these.

## Where code and documentation disagree

Checked by a run each (`findings` in `PROJECT.json`):

1. A byte outside a message is stored through a null pointer (`serial_comm.c:130`), and the banner of
   `controller.ino:65` consists of such bytes.
2. A port that cannot be configured is closed twice (`serial_comm.c:73`, `:175`); the number may by then belong to the window.
3. After a lost MAC acknowledgement the controller counts a client as ready that is not (`network.c:431`, `:481`).

Seen while modelling and not given a run:

- *Serial link.* `+` inside a base64 text is swallowed (`serial_comm.c:114`; the texts of the serial runs have none, `MsgDecode`
  takes such a text for a damaged one). When the opening markers of several frames in a row lose a byte while a message is open, their
  texts are all stored in it, and nothing compares the index with the size of the block (`serial_comm.c:130`).
- *Decoding.* `serial_comm.c:107` says that complete messages are placed on the queue, and `msg_handler.c:21` that they are
  validated. A message whose text lost a character, or has a `+`, is placed there too (`serial_comm.c:101`), and
  nothing but the length is checked: when the seven characters of a damaged status frame are stored over the eight of an
  older one, the eighth completes them, and what is accepted and shown are bytes nobody sent. `DamageIsNoticed`
  states when this cannot happen. A frame that is shorter than what its block held is rejected when no terminator stops
  `strlen` behind it (`msg_handler.c:27`; `LongestIsAccepted` states the case in which it is not). From a block that
  was filled to its end `strlen` goes on into the memory behind, and the decoder may then write more than `decoded_msg`
  holds (`msg_handler.c:28`; `BufferSuffices` states when it does not). A type-1 message of fewer than six bytes fills the rest of the
  status from its terminator and the stack (`msg_handler.c:47`).
- *Life cycle.* `frinfo_start` ignores what `frinfo_open` returns (`frinfo.c:90`; a fault of the life
  run, whose properties are stated for a program that was opened); `serial_connected` stays true after
  the serial thread has ended (`serial_comm.c:231`); when the thread cannot be created, `frinfo_start` returns without
  `frinfo_close` (`frinfo.c:95`), and the process ends.
- *Registration.* A REG_ACK that `esp_now_send` refuses is not sent again (`network.c:455`). A client that
  restarts after the controller is READY hears no REG and never registers; a controller that restarts waits
  for ever for clients in REG_ACK or READY, which ignore REG (`network.c:462`). `network_task` does not
  look at what `network_start` returns.
- *CAN.* The length of the data is the size of a pointer, so that of a status request the bytes 4 to
  6, the refresh rate, are never sent, and a request for configuration ends with three bytes of the stack
  (`can_network.c:56`).
- *Configuration.* A repeated section without settings hides the settings before it (`ini_config.c:317`).
  A line that is only a comment makes the file unreadable, because the comment flag is cleared only
  by a setting (`ini_config.c:230`), and so does a blank line at its end (`WellFormed` excludes
  both). `[` in a value is taken for a header. When `ftell` fails, `fread` gets a block without a byte and no limit
  (`ini_config.c:268`); the step is in the model (`ReadOverruns`), which says nothing of what follows.
- *Hash map.* Tombstones count as load and a resize always doubles, so that a map of any
  size grows without end when keys are set and removed for ever, up to the overflow of its `int` capacity; a `set` that only
  overwrites also resizes at the limit (`hashmap.c:193`). The comment at `hashmap.c:108`, "assumes that an empty map
  won't be resized", is about a map that was never used: one with only tombstones is resized, and correctly.

## Not modelled

- The memory pools: nobody calls them, and a manager with two chunks or more in a pool writes the headers of
  its chunks outside the block while it is opened (`mem_pool.c:80`), so that no configuration in use
  has a defined behaviour to state properties of.
- The threading and timing helpers: the wrappers of the Windows thread calls do not compile as they are
  (`threading.h:35` and `threading.c:29` disagree about a `const`), and the program, which needs termios, is
  not built there; on other platforms `frinfo` calls pthreads directly. The wrapper of `nanosleep` has no caller.
- The logger and the serial stub, which keep nothing but the chosen stream; drawing; the conversion of numbers.
- The GPIO mode of the serial bridge, which has no counterpart in the repository.
- Of the nodes: MAC addresses and the peer list, frames of foreign origin, a client id outside the table,
  and what the bus driver keeps of a frame (`can_network.c:58` queues data of the caller's stack).
- Of the hash map: the hash function, who owns the memory of a key, callbacks that change the map.

## Plan

Written in the order of importance: the queue, the serial link and the life cycle (the core of the
program), registration, the battery sensor, the configuration; then restarts and start-up of the nodes, the
decoding of messages and the hash map; then the proofs, in the same order, of all that the runs check
but liveness. What could come next is code that cannot be modelled as it stands: the memory pools, once a
pool is laid out inside its block and has a caller.

`Infotainment` composes `OverwritingFifo` with the two threads; `MsgQueue` refines it. A module that joins
`SerialLink` with `Infotainment` would multiply two state spaces that meet only in the messages that are delivered, in
order, which `DeliversClosedFrames` states; it is not planned. `MsgDecode` stands between the two in the
same way: it takes the frames that `SerialLink` closes and says what `Infotainment` makes of them.
