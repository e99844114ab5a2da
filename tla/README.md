# A TLA+ verification of Device OS

Device OS is the firmware of Particle's connected devices. This directory holds
TLA+ models of the parts of it whose correctness depends on the order of events
(lost messages, callbacks, power failures, timeouts), TLC configurations that
check them on small instances, and TLAPS proofs of their main properties for
every value of the constants. `PROJECT.json` lists components, runs, mutants,
findings, hazards and theorems, and maps every definition to the source lines it
models. Paths below are relative to `src/`.

## 1. The system

Two threads (system and application; one on platforms without threading) and
interrupts share a device. The system thread runs `Spark_Idle`, which manages the
network, the cloud connection and, through `Protocol::event_loop`, all traffic
with the cloud.

| Part | State | Operations | Talks to | What is hard | What makes it correct |
|---|---|---|---|---|---|
| Reliable CoAP channel (`communication/src/coap_channel.*`) | a store of unacknowledged device requests, a store of cloud requests and the answers to them, the last message id | `send`, `receive`, `send_synchronous`, `establish`, `process` (retransmission) | DTLS channel below, `Protocol` above, a notification to the system | loss, duplication, reordering, retransmission against late answers, independent 16-bit ids, waiting inside a send | a request is executed at most once, no request is swallowed, requests and synchronous sends end |
| `Protocol` (`communication/src/protocol.cpp`) | the transfer, pinger, time request, ack handlers | `begin`, `event_loop`, one handler for each message type | channel, callbacks of the system | errors in the middle of a handler, reentrancy through `wait_confirmable` | an error leaves nothing half done |
| Cloud handshake (`system/src/system_task.cpp`, `system_cloud_internal.cpp`) | the flags `SPARK_CLOUD_SOCKETED`, `_CONNECTED`, `_HANDSHAKE_PENDING`, `_HANDSHAKE_NOTIFY_DONE` | `establish_cloud_connection`, `handle_cloud_connection`, `Spark_Handshake`, `cloud_disconnect` | `Protocol`, `clientMessagesProcessed` | the flags change inside calls that set them again | connected means shaken hands and acknowledged; the wait ends |
| DTLS channel and session (`communication/src/dtls_message_channel.cpp`, `inc/dtls_session_persist.h`) | TLS context, saved session with counters and use count | `establish`, `send`, `receive`, `command` | mbedTLS, backup RAM, checksums of `Protocol` | a reset between sending and saving, or inside `reset_session` | record numbers are not reused, a bad session is given up and stays so |
| Completion handlers (`services/inc/completion_handler.h`) | a vector of handlers with expiration times, the nearest one, a clock | `addHandler`, `setResult`/`setError` (`takeHandler`), `update`, `clear` | `Protocol::ack_handlers`, application callbacks | callbacks change the vector that is being walked; rebasing of times; wrap-around | each callback is called once, neither early nor late |
| Device configuration data (`services/inc/dcd.h`) | two flash sectors | `read`, `write`, `erase` | flash driver, `dct_hal` | power loss in any flash operation; 2-bit counters; sectors of older firmware | it is an atomic register |
| Over-the-air update (`communication/src/chunked_transfer.*`, `system/src/system_update.cpp`, `main.cpp`) | state, file, position, bitmap; `SPARK_FLASH_UPDATE`; the watchdog's counter | `handle_update_begin`, `handle_chunk`, `handle_update_done`, `cancel`, `reset`; the firmware callbacks; `HAL_SysTick_Handler` | channel, HAL flash, reset | lost, repeated, broken chunks; a second UpdateBegin; disconnection at any point; an interrupt that resets the device | success means every chunk; the watchdog runs exactly during a transfer; transfers end |
| Pinger, time sync, publisher (`communication/src/ping.h`, `timesyncmanager.h`, `publisher.h`) | flags, ticks, rate-limit ring | idle processing, `send_event`, commands | `Protocol`, its `ack_handlers` | timeouts measured from other events; failed sends | a dead connection is noticed, every publish ends, limits are kept |
| Active objects, interrupt task queue, system events (`system/src/active_object.cpp`, `system_event.cpp`) | queues, promises, pool, the stacks of two nested pumps | `invoke`, `process`, `run`, `notify`, shutdown | both threads, interrupts | interleaving, full queues, threads that wait for each other | nobody waits for ever, a promise outlives its use, no pool block leaks |
| EEPROM emulation (`services/inc/eeprom_emulation.h`) | two flash pages of records | `get`, `put`, `clear`, `performPendingErase`, `init` | flash driver | power loss and failing writes in any flash operation | it is an array of bytes with atomic block writes |
| Network manager, control requests, ring buffer, pool allocator, LED service, power manager | see `PROJECT.json` | | | | |

Hardware drivers, vendor SDKs, the bootloaders, third-party libraries and message
layouts are not modelled: they are outside TLC's reach or have no behaviour that
unfolds over several steps.

## 2. Plan

Done: (1) reliable CoAP channel with the handshake flags, (2) completion
handlers, (3) configuration data and its refinement of a register, (4)
over-the-air update, (5) persisted DTLS session, (6) EEPROM emulation and its
refinement of an array of bytes, (7) threads, queues and system events, (8) the
upkeep of a connection: pings, time, published events.

Proved as well as checked: the safety properties of all of these (section 5).

Next, in this order:

1. A composition of `CoAPReliableChannel` with `CompletionHandlers` in which ids
   key the handlers (does an acknowledgement complete the right handler across
   sessions?). `ProtocolUpkeep` has the timing of the two, not the ids.
2. Ring buffer and pool allocator as pure algorithms against a reference; network
   manager; control requests; the users of the pointer that `dct_read_app_data`
   returns.

## 3. Modules

### CoAPMessageStore, CoAPReliableChannel

`CoAPMessageStore` is the data type of `CoAPMessageStore`: a function from message
ids to entries (none, CON, ACK, RST; time left; transmissions), with `add`,
`clear_message`, `send`, `process` and the retransmission timeouts.
`CoAPReliableChannel` has the two stores and the message id; whether the DTLS
context is usable (`open`); the wait of `send_synchronous` (`sync`,
`had_client_messages`); the `SPARK_CLOUD_` flags (`cloud`); and where the system
thread is in `Spark_Handshake` (`at`). One call of `event_loop` is one step,
because all of it runs on the system thread; the loop inside `send_synchronous`
is a sequence of steps, because the network and the clock move during it.

The network is external: what was sent may arrive never, once or often, in any
order. Datagrams belong to a DTLS session and outlive a resumed one. The cloud
answers requests it received with ACK or RST, and sends requests of four kinds,
according to how the device's handler answers: `answered` (an ACK with the id of
the request), `key_change` (an ACK without an id), `ignored` (no answer),
`rejected` (an error that ends the event loop).

Two promises of the environment are written as guards: an id is reused only when
its last exchange is over (`IdQuiet`, and the guard of `CloudRequest`; 2^16 ids
against the lifetime of an exchange, RFC 7252), and copies of a cloud request
stop arriving before `MAX_TRANSMIT_SPAN` (`ServerWindow < TransmitSpan`).

### CompletionHandlers

The vector, `timeoutTicks_` and `ticks_`, one step for every iteration of the
loops in `takeHandler()` and `update()`, and a step for every handler that a
callback adds while such a loop runs. `system_tick_t` has `TickMax + 1` values and
wraps. Ghosts record what each callback was called with, how often, and its age.
`Tick` limits the time the map stays busy without a restart of `ticks_` to
`BusyMax`.

### DCDRegister, DCD

`DCDRegister` is the abstract specification: a record that a write changes
atomically; a failed or interrupted write took effect completely or not at all; a
successful one took effect. `DCD` is the implementation: the seals, data, footer,
counter and CRC of two sectors, and one step for every flash operation, which may
be interrupted by a power loss (`Crash`) or an error of the driver
(`FlashError`), leaving any of the states in `Interrupted`. Initial states are a
new flash, an unformatted flash, and sectors written by version 1 of the code.
The refinement mapping takes `value` to what `read()` would return and
`committed` to the point where the new sector's header is written.

### ChunkedTransfer

`ChunkedTransfer`'s fields (with `file` as its number of chunks and `bitmap` as
the set of set bits), `SPARK_FLASH_UPDATE` and the watchdog's counter, whether
the cloud is connected, and the pending reset. A handler with its synchronous
sends is one step; its `io` argument says which of its sends fails. `Aborts` is the
error path: `event_loop` calls `cancel()`, and the system disconnects.
`set_fast_ota` is folded into the mode of the transfer. The cloud sends only chunks of
the file that it began, or that it was asked for again; a chunk of an earlier
transfer does not turn up in a later one, and its index is in range. A
finished update runs the event loop again while `DISCONNECT` waits for outstanding
messages; since this is the last thing the handler does, these are ordinary
further steps, with `pending` set.

An UpdateBegin during a running transfer may be accepted, rejected or fail, and other
messages may reach the end of the shared message buffer, where the bitmap is. A
rejected UpdateBegin for a file of another length and an overwritten bitmap mark the
transfer as `spoiled`, a ghost that the properties refer to.

### DTLSSession

The record `sessionPersist` in RAM and in backup RAM, the TLS context, and the
position of the connection (`pc`) from `Connect` through `establish()`, HELLO or
ping, and the subscriptions to the connected state. A send is two steps,
`mbedtls_ssl_write()` and the save after it; `reset_session()` is two when it has
a moved session to cancel; `Reset` may come between any two steps and keeps
backup RAM or not. Record numbers, subscriptions and checksums are modelled as
far as resumption depends on them: a checksum is the set it is computed from. The
cloud knows one session and may forget it. Ghosts record which numbers were used,
what the cloud was told, how often a session was retrieved without data, which
sessions were given up, and whether a reset cut a send from its save (`torn`). A reset
between the two steps of `reset_session()` brings the session back (`Revived`): it is
then no longer one that was given up, and its retrievals are counted anew.

### EEPROMStore, EEPROMEmulation

`EEPROMStore` is the abstract specification: `put()` is atomic even if power is
lost, and never dropped otherwise; `clear()` is not atomic. `EEPROMEmulation` has the
two pages (status, records), and a call becomes the plan of its flash operations,
each a step. `PowerLoss` leaves what is in `Torn`; a word that was left half
programmed or erased is weak and may fail to verify later (`WriteFails`), upon which
the code swaps pages or tries a swap again. Bits of such a word that are written as 1
become 0: what is left is an invalid record or, since the status of a valid record is
0x00, a valid one with a smaller index or other data (`Failed`, `Misread`). `Marginal` says whether
this may also happen in the first free slot, whose record makes an append visible. The refinement mapping takes the
contents to what `get()` would return and a `put()` to its update until the plan is
done. Erasures do not fail while there is power.

### ActiveObjects

Each thread has a stack of frames (`run` a message, wait in `put` or `get`, and the
parts of the system thread's background pass), because both pumps are entered
again from inside a message. Messages are calls from the application (synchronous
with a promise, or asynchronous), events, cloud functions, their replies and the
reset event. `os_queue_put` waits for ever for the system queue and times out for the
application queue. Interrupts notify events through the pool and the interrupt
task queue. Application code may do anything the API offers at any point;
`MaxNesting` bounds how deep it enters its own pump. The reset tests its flags and
acts in two steps.

### ProtocolUpkeep

`Pinger`, `TimeSyncManager`, the publisher with its two rate limits, and the times of
`ack_handlers`, with the connection and channel reduced to `conn` and `open`, and
completion handlers reduced to what `CompletionHandlers` shows of them. Stored values
of `millis()` are ages. One call of `event_loop` is one step, within
`wait_confirmable` too. `LoopGap` is the longest time between two event loops.

## 4. Runs

Passing runs (sizes are distinct states):

| Run | Question | Size |
|---|---|---|
| `coap_answered` | With answered and ignored requests: at most once, nothing swallowed, handshake flags, synchronous sends | 417,724 |
| `coap_liveness` | Requests and synchronous sends end, also with failing requests and key changes | 175,246 |
| `handlers` | Callbacks added from inside and outside the loops: called once, in time, and in the end | 197,044 |
| `dcd` | `DCD` implements `DCDRegister`; counters are in sequence; the backup is used | 1,015,995 |
| `ota` | Success means all chunks, and fast transfers complete although flights of chunks are lost, unless the transfer is `spoiled`; the watchdog follows every transfer and ends stuck ones | 230,280 |
| `session` | Record numbers are not reused, a session that was given up stays so (but for a reset inside `reset_session()`), a useless or forgotten one is given up | 423,098 |
| `eeprom` | `EEPROMEmulation` implements `EEPROMStore` (`Marginal = FALSE`) | 831,180 |
| `threads` | Calls return, events and function calls end, a wanted reset happens, promises outlive their use, the pool is conserved | 13,018 |
| `upkeep` | Rate limits, no early ping timeout, a dead peer is noticed, acknowledgements are waited for as long as promised, every publish ends | 531,584 |

Runs that show a disagreement between the code and what is said about it:

| Run | What TLC shows |
|---|---|
| `coap_handshake_flags` | `Spark_Handshake` sets its flags after the event loop inside it disconnected; the next socket is reported connected without a handshake. |
| `session_skip_hello` | The flag to skip HELLO stays set after one resumption that allowed it; a later one skips HELLO although the application has subscribed to more. |
| `eeprom_marginal` | A marginal slot that makes an append visible takes a record with bits missing: a valid record of another cell or with other data, which `put()` does not take back before it swaps the pages and which the swap copies. |

Further disagreements that the models show, without a run of their own. Where
constants are given, a copy of the named configuration with these shows the violation:

- The ACK of a key change carries no id and is stored under a fresh device id; a
  cloud request with that id is consumed and acknowledged without being handled
  (`MCCoAPAnswered.cfg` with `ServerIds = {0, 1}`, `Kinds = {"key_change"}`: `NoRequestSwallowed`).
- If the handler map stays busy until `ticks_ + timeout` wraps around (49.7 days), a new
  handler is timed out at once (`MCHandlers.cfg` with `TickMax = 5`,
  `BusyMax = 5` and a third callback that keeps the map busy: `NotEarly`).
- After an upgrade from version 1, a damaged sector 1 is preferred to the intact
  sector 0 (`MCDCD.cfg`: `LostSectorFallsBack`).
- A refused UpdateBegin replaces the length of the running transfer's file, which is
  then reported complete with chunks missing (run `ota` has such transfers, as
  `spoiled` ones; without that exemption `SuccessMeansAllChunks` is violated).
- A message that fills the channel's buffer overwrites the update's bitmap
  (`BufferReused`), and chunks that never came then count as received
  (likewise).
- A confirmable chunk that comes while no transfer is running is never answered
  (`AnswerNothing`), although a comment in `coap_channel.cpp` says that the
  application responds immediately; its store entry later times out and closes
  the session.
- `write()` of the configuration data returns the first error, although the comment
  on the class promises validation and up to three attempts; `DCD` has this error
  path, and `dcd` shows that the register survives it.
- A reset of the device inside `reset_session()`, after `cancel_move_session()` has
  saved the record and before `clear()` has, brings a session back that was being
  given up, with its use count cleared. `UselessSessionExpires` and
  `DiscardedNotResumed` state this as their one exception; they do not say that a
  session given up never comes back. A new session starts with the use count
  of the record before it, because `prepare_save` does not clear it.
- A time request whose send is refused for want of memory
  (`INSUFFICIENT_STORAGE`, the connection lives on), or whose answer carries no time
  or is consumed inside `send_synchronous`, leaves `expectingResponse_` set until the
  next `begin()`: no further request is sent and `Particle.syncTimeDone()` stays
  false. All three are in `ProtocolUpkeep` (`Outcomes`, `ReceiveNoTime`); since nothing
  ends the request there is no property that says so.
- A cloud function call that finds the application queue full for five seconds is
  dropped and nobody is told (`JobsEnd` counts this as its end).
- An event published after a pause of the event loop is charged with the pause:
  it is given up earlier than after `SEND_EVENT_ACK_TIMEOUT`
  (`communication/inc/protocol_defs.h`) by up to the pause (`AckTimeoutInTime`).
- `Publisher::send_event` takes the handler by value, so that a failed publish
  reports `SYSTEM_ERROR_INTERNAL` and not the error that `Protocol::send_event`
  translates afterwards.
- The test of the flags and the reset in `system_shutdown_if_enabled` are not
  atomic: a thread that disables resets in between is reset all the same.

### Bounds

- CoAP: two ids, one retransmission, time units of one `ACK_TIMEOUT`. With two ids the
  message id wraps on every other message, so that device and cloud ids collide,
  an old entry meets a new one, and another request can arrive during a wait. One
  retransmission is the least that has a first, a last and an expired
  transmission.
- Completion handlers: two callbacks, so that a loop has one to remove and one to
  pass, or one that is added behind it; two keys, so that a loop finds and
  misses; two timeouts, so that the nearest is not the last added; `TickMax` and
  `BusyMax` leave room for the longest timeout. The proofs hold for any number of
  callbacks.
- DCD: two fields, so that a write has a part before or after it to copy, and two
  values; the number of writes is not bounded, so the 2-bit counters wrap.
- Updates: files of 1 and 3 chunks with at most 2 asked for again, so that a
  list of missing chunks can be complete or cut off; flights of up to 3 arrivals
  include duplicates; a timeout of 2 ticks lets the watchdog interrupt every
  state.
- Session: two resumptions before a session expires, two handshakes (a session and
  its successor, with what the record keeps of the first), two resets (one to come
  back, one to interrupt what follows), two pairs of keys, one topic, one
  message from the cloud and one from the application.
- EEPROM: two bytes, so that a `put()` has one to keep or two to write; pages of three
  and four records, so that a page is full after one or two changes and both swap
  directions occur; two power losses, one to leave damage and one to interrupt its
  repair; one value besides the erased one, so that a byte is changed and changed back.
- Threads: one event, one function, queues of one message and one pool block, so that
  every queue and the pool are exhausted at once; one level of nesting, in which
  the application waits in a handler. With a worker thread that makes calls too,
  the invariants were checked as well; the liveness properties then take too long.
- Upkeep: one event to be acknowledged at a time, pings at an interval that differs
  from the timeout, or none; a burst of two in a window of two ticks has times in,
  at the edge of and outside the window; two minutes make the number of the minute
  repeat.

`CHECK_DEADLOCK FALSE` is used only for the completion handlers, where callbacks are
registered once each, and for the threads, where a reset ends the behaviour.

### Fairness

- `CoAPReliableChannel`: the system thread keeps running its loops (also when
  nothing arrives and writes succeed), finishes `Spark_Handshake`, and time passes. Nothing is
  assumed of the network or the cloud: the properties hold when every message is
  lost.
- `CompletionHandlers`: loops run to their end; `event_loop` updates the handlers and
  time passes however many acknowledgements and sends come in between (strong
  fairness, since the loops disable both for a while).
- `ChunkedTransfer`: fairness is the premise of each of the two liveness properties.
  `NeverStuck` needs only the SysTick interrupt (`TimeGoesOn`). `TransferCompletes`
  needs no progress of time, but `CloudFair`: that
  the cloud ends each flight with UpdateDone (which is the protocol) and that a
  chunk which is asked for again and again arrives at some time (strong fairness;
  a network that always loses the same chunk is ended by the watchdog instead). It
  allows for a cloud that begins anew in slow mode, or for ever, and then completes nothing.

- `DTLSSession`: the system thread takes the steps of a connection and connects
  again and again; a socket connects at some time; no connection without data lasts
  for ever (it is left by a disconnection or by a message that is not answered). A
  cloud that answers is not assumed.
- `EEPROMEmulation`: none; the refinement is of a safety specification.
- `ActiveObjects`: runnable threads run, threads that wait for room in a queue are
  served in turn, messages of either pump come to an end, and the time limits of
  the background pass, of the put and of the shutdown loop pass. The end of
  listening mode is not assumed.
- `ProtocolUpkeep`: the event loop keeps running, also when nothing arrives; time
  passes; `wait_confirmable` ends; a transfer that stops is ended by the watchdog
  (`NeverStuck`). An answer of the cloud is not assumed.

Each property of each passing run has a mutant: a change to one definition, of
the kind a slip in the code would be, for which TLC finds the property violated.

## 5. Proofs

All proofs are for arbitrary constants subject to the named assumptions in the
modules. They follow one pattern: an inductive invariant, one step for every
action, and a temporal conclusion by PTL.

**CoAPReliableChannelProofs.** `TypeCorrect`. `HandlersRunAtMostOnce`: `AtMostOnce` is
not inductive, because nothing in it says why a second copy is recognised;
`Remembered` adds that the server store covers every handled request: its entry
lasts longer than copies can still arrive (`Covers`). `process()` removes only
entries whose time is over, and handlers only add entries. This uses
`ServerWindow < TransmitSpan`, and holds for all four kinds of request.
`NoMissedNotification`, `SynchronousSendIsAcknowledged` and
`ConnectedIsAcknowledged` rest on four facts: the client store holds only
requests (`ClientRequests`); giving one up closes the session (`GivenUpCloses`); the
message a synchronous send waits for is stored (`SyncStored`); and the pending flag
comes with a message, also inside such a send (`PendingWaits`).
`RequestsNotSwallowed` assumes that no key change is requested and
`ConnectedIsHandshaken` that no request is rejected, since neither property holds
otherwise (section 4). The first needs that an id in the server store is one the cloud has
asked with (`Handled`), the second that past `begin()` there was a handshake or the
session is closed (`Shaken`): a failed iteration of the event loop inside
`Spark_Handshake()` closes it, a rejected request does not.

**CompletionHandlersProofs.** `TypeCorrect` and `EachCalledOnce` for every clock
width: `Held` states `CalledOnce` position by position and adds that outside
`takeHandler()` its local handler is empty. `NearestTimeoutIsExact`,
`NoEarlyTimeout` and `NoLateTimeout` assume `FitsInTicks` (no expiration time wraps
around, else a new handler can be timed out at once): `Time` relates every expiration time to
the age of its handler, with a different base for the elements the update loop
has passed, and says which element witnesses the nearest timeout while a loop
runs.

**DCDProofs.** `TypeCorrect`; `DCDIsARegister`, that every step of `DCD` is a step of
`DCDRegister` or changes nothing of it; `CountersOrderSectors`; `OldSectorIsBackup`.
The invariant has `Flow` (which sector is copied to which at each flash
operation), `Written` (what has been written so far), `Honest` (a CRC matches
only its own sector) and `Backup` (what the old sector is good for). Lemmas compute
`currentSector` for each shape of the two sectors, so that the steps need not
expand it.

**ChunkedTransferProofs.** `TypeCorrect`, for which slow mode must be in step
(`InStep`: the position the device writes is the one the cloud sends, else it
could grow past the file). `WatchdogFollowsTransfer`, without further assumptions.
`SuccessIsComplete` has no further assumption either: its one exception, `spoiled`
(an UpdateBegin for another length rejected during the transfer, or a message that
reached the bitmap; section 4 says what happens then), is part of the property.
`Honest` says that, unless spoiled, the noted length is that of the file begun and that
flagged, or in slow mode passed, chunks are in place; `Over` that a transfer which
succeeded has ended.

**DTLSSessionProofs.** `TypeCorrect`; `RecordNumbers`, `SessionExpires` and
`DiscardedSessionGone`, for any number of handshakes, resets, keys and topics. The last
two hold for resets anywhere but in `reset_session()` between its two saves: such a
reset revives the session, which counts as a new one from then on. None of the three is inductive: each is about what may be retrieved later. `LastSession` says that
only the last session is found in any of the three places (RAM, backup RAM, TLS
context), and `Flow` what the places have in common at each point of a connection. Then
`Numbers` bounds how far the saved counters lag behind the used ones (by the record
that is being sent, or that a reset once cut from its save), `Uses` the retrievals by
the saved use count, and `Alive` keeps sessions that were given up out of the record, the
backup and the context, except between the two steps of `reset_session()`, where the
backup still has the session.

**ProtocolUpkeepProofs.** `TypeCorrect`, `RateLimits`, `PingTimeouts` and `AckTimeouts`
(an action property), for every set of intervals, burst, window and timeout. The
publisher's ring holds attempts, the property is about accepted events: `Attempts` says
that the accepted event in each place is no younger than the attempt in the same
place, and that attempts are in order. `Silence` says that the pinger's clock is never
ahead of the silence it stands for; `ThisMinute` that the counter covers what was sent;
`Waiting` that the time left and the time waited make up the timeout, less the pause
before the publish. That the intervals have a largest one is assumed.

**ActiveObjectsProofs.** `TypeCorrect`, `PromiseReferences` and `PoolBlocksConserved`, for any
number of threads, queue sizes and depth of nesting. Which frames a thread's stack and
which messages a queue can hold is a matter of types (`Frames`, `SystemItem`,
`ApplicationItem`): only the system thread runs promises, only their maker puts them. The rest
counts occurrences in sequences (`Count`): a promise's one reference moves from the
frame that puts it to the queue and on to the frame that runs it (`OneReference`), and a
block from the pool to the task queue, a frame and back (`Blocks`). `Waits` says that
the maker of an incomplete promise is inside `get()`, so that it cannot make another.
Lemmas reduce each action to what it appends to or removes from a sequence; most
are `Neutral`.

**EEPROMEmulationProofs.** `TypeCorrect` and `EEPROMIsAStore`, that every step of
`EEPROMEmulation` is a step of `EEPROMStore` or changes nothing of it, for every
capacity, size of the pages (larger than the capacity, which `capacity()` sets to half
of the records that fit in the smaller page) and number of power failures. It assumes
`~Marginal`: writes may fail anywhere and leave wrong records anywhere but in the slot
that makes an append visible, where run `eeprom_marginal` shows that the emulation is
not such a store. The invariant says, for each method, what its plan still has to
write and what the flash holds already. `PutOK`: an appending `put()` has filled the
slots behind the first free one, and as long as that slot is free nobody sees them; the
last write makes all of them count (`ReadAfterAppend`). `SwapOK`: a page swap fills the
other page with the contents `put()` is to leave (`Copied`), which its status hides until
the copy is complete, so a restart finds either all of the old or all of the new contents,
whichever of the two pages its status makes it choose; and in the second round no word
of the other page is weak, so that no write can fail and `put()` is not dropped. `Chosen`
says that the page that is read is the one a restart would find. What `Ascending`,
`CopyAndWrite` and `SwapPagesAndWrite` compute is proved once for any set of indexes
(`AscendingLists`, `CopyAndWriteIs`, `SwapPlanIs`) through cardinalities, without
induction over sequences. TLC checked the invariant on the instance of section 4
before it was proved.

Only model-checked: all liveness properties (`RequestsEnd`, `SynchronousEnds`,
`EventuallyCalled`, `NeverStuck`, `TransferCompletes`, `ForgottenSessionGivenUp`,
`CallsReturn`, `JobsEnd`, `ShutdownHappens`, `DeadPeerNoticed`, `PublishEnds`), which are outside the prover's reach. `TypeOK` of `DTLSSession`,
`ActiveObjects`, `ProtocolUpkeep` and `EEPROMEmulation` is proved and, as part of their
invariants, was checked by TLC on the instances of section 4; it is not a property of a
run.

## 6. What the models leave out

- CoAP: message contents and lengths, the LightSSL transport, `MOVE_SESSION` and
  persisted sessions (`BeginResumed` is possible whenever the session was not reset;
  `DTLSSession` has them), the error
  counters and back-off of the connection.
- Completion handlers: `CompletionHandlerList`; callbacks that add handlers from
  within `clear()`, which walks the vector with a range-for and is one step here; failure of memory allocation when the vector grows.
- DCD: `UpdateDCD::migrate()`; writes by version 1 code after an upgrade; CRC
  collisions (a CRC is what it covers); an interrupted erasure is the sector with
  its data destroyed and its seal kept, erased or unrecognisable; the pointer that
  `dct_read_app_data` returns after unlocking.
- Updates: results of `HAL_FLASH_Update`, which the code ignores, and of
  `HAL_FLASH_OTA_Validate` and `HAL_FLASH_End`, the HAL's check of the image; the
  store for user files; `last_chunk_millis` and `missed_chunk_index`, which nothing
  reads; chunk indices out of range; LED control and system events.
- Session: the contents of handshakes and the message ids that are saved along;
  checksum collisions; whether a saved checksum is ahead of what the cloud has
  acknowledged (it is written when the messages are sent); that checksums of an
  earlier session survive `reset_session()` in the record is modelled.
- EEPROM: a store that programs a record byte by byte, as the one of the unit tests
  does, can leave a valid record with half an index when it is cut short; a status
  word that fails to program although it reads as it was; the layout of
  records and the size of pages.
- Threads: `ActiveObjectChannel`; threads without the active object's queue; the
  contents of events and calls; handlers that never return.
- Upkeep: `millis()` overflowing within an age; LightSSL; platforms that keep the
  socket after an error (`HAL_PLATFORM_MAY_LEAK_SOCKETS`), where pending publish
  handlers wait for the next `begin()`; the time a device sleeps. `Disconnect` is that of
  `system_cloud_connection_posix.cpp`: the one of `system_cloud_connection_compat.cpp`
  closes a UDP socket gracefully with neither `DISCONNECT` nor `TERMINATE`, so that
  there, too, pending handlers wait for the next `begin()`.
