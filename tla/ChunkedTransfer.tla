-------------------------- MODULE ChunkedTransfer --------------------------
(***************************************************************************)
(* The over-the-air update: ChunkedTransfer of communication/src, the      *)
(* firmware callbacks of system/src/system_update.cpp it drives, and the   *)
(* watchdog of the SysTick interrupt in system/src/main.cpp.               *)
(*                                                                         *)
(* A file is known by its number of chunks.  In fast mode a chunk carries  *)
(* its index, is not acknowledged and may be lost, repeated or reordered;  *)
(* UpdateDone is answered with a list of missing chunks until there are    *)
(* none.  In slow mode the cloud sends one chunk after the other and waits *)
(* for the answer to each.                                                 *)
(*                                                                         *)
(* A handler runs to its end inside one call of event_loop(), with its     *)
(* synchronous sends, so it is one step.  An error that it returns makes   *)
(* event_loop() cancel the transfer and the system disconnect.  A finished *)
(* update calls the event loop again (DISCONNECT waits for outstanding     *)
(* messages) as its very last deed: those are further steps here.          *)
(***************************************************************************)
EXTENDS Integers, FiniteSets

CONSTANTS
    MaxChunks,      \* bound: chunks of the longest file
    Files,          \* the lengths of files, in chunks
    MissedToSend,   \* MISSED_CHUNKS_TO_SEND (40)
    MinIncrease,    \* MINIMUM_CHUNK_INCREASE (2)
    FlightMax,      \* bound: chunks that arrive between two UpdateDone
    UpdateTimeout,  \* TIMING_FLASH_UPDATE_TIMEOUT (300 s or 30 s)
    None

ASSUME TransferAssumption ==
    /\ MaxChunks \in Nat
    /\ Files \subseteq 1..MaxChunks
    /\ MissedToSend \in Nat /\ MinIncrease \in Nat /\ FlightMax \in Nat
    /\ UpdateTimeout \in Nat \ {0}
    /\ None \notin Int

VARIABLES
    updating,      \* 0, 1, or 2 after missing chunks were asked for
    file,          \* file.chunk_count(chunk_size)
    chunk_count,   \* chunks that arrived since the last UpdateDone
    chunk_index,   \* the next position to write in slow mode
    bitmap,        \* the positions whose bit is set
    flash_update,  \* SPARK_FLASH_UPDATE
    timing,        \* TimingFlashUpdateTimeout
    connected,     \* SPARK_CLOUD_SOCKETED, after begin()
    pending,       \* SYSTEM_FLAG_RESET_PENDING
    offer,         \* external: the length and the mode the cloud sends in
    asked,         \* external: the chunks it sends in this flight
    next,          \* external: the chunk it sends next in slow mode
    accepted,      \* ghost: length of the file the transfer was begun for
    placed,        \* ghost: the chunk saved at each position since then
    finished,      \* ghost: how the transfer ended
    spoiled        \* ghost: was its file or its bitmap overwritten meanwhile?

transfer == <<updating, file, chunk_count, chunk_index, bitmap>>
system == <<flash_update, timing, connected, pending>>
cloud == <<offer, asked, next>>
ghosts == <<accepted, placed, finished, spoiled>>
vars == <<transfer, system, cloud, ghosts>>

Chunks == 0..(MaxChunks - 1)

ChunksOf(n) == 0..(n - 1)

Nowhere == [i \in Chunks |-> None]

NoOffer == [file |-> 0, fast |-> FALSE]

-----------------------------------------------------------------------------
(* cloud_disconnect().                                                     *)
Disconnects ==
    /\ connected' = FALSE
    /\ flash_update' = 0
    /\ offer' = NoOffer /\ asked' = {} /\ next' = 0

(* The handler returned an error: event_loop() calls cancel(), which       *)
(* finishes a transfer in state u without success but leaves it in that    *)
(* state, and the system disconnects.                                      *)
Aborts(u) ==
    /\ Disconnects
    /\ IF u = 0 THEN UNCHANGED <<timing, finished>> ELSE timing' = 0 /\ finished' = "failed"
    /\ UNCHANGED pending

-----------------------------------------------------------------------------
(* handle_update_begin() with a file of n chunks.  It notes the parameters *)
(* in any case, over those of a transfer that is running.  The callback prepare_for_firmware_update() is called      *)
(* twice, to check the parameters and to begin.                            *)
UpdateBegin(n) ==
    /\ connected
    /\ file' = n
    /\ chunk_count' = 0

(* UpdateReady is sent synchronously.  The bitmap of slow mode is full.    *)
UpdateBeginAccepted(n, fast, ready) ==
    /\ UpdateBegin(n)
    /\ updating' = 1
    /\ chunk_index' = 0
    /\ bitmap' = IF fast THEN {} ELSE ChunksOf(n)
    /\ accepted' = n
    /\ placed' = Nowhere
    /\ spoiled' = FALSE
    /\ IF ready
       THEN /\ flash_update' = 1
            /\ timing' = 0
            /\ offer' = [file |-> n, fast |-> fast]
            /\ asked' = ChunksOf(n)
            /\ next' = 0
            /\ finished' = "none"
            /\ UNCHANGED <<connected, pending>>
       ELSE Aborts(1)

(* Updates are disabled, before the first or the second call, or the file  *)
(* is too long.                                                            *)
UpdateBeginRejected(n) ==
    /\ UpdateBegin(n)
    /\ spoiled' = (spoiled \/ (updating # 0 /\ n # file))
    /\ UNCHANGED <<updating, chunk_index, bitmap, system, cloud, accepted, placed, finished>>

(* The acknowledgement cannot be sent.                                     *)
UpdateBeginFails(n) ==
    /\ UpdateBegin(n)
    /\ Aborts(updating)
    /\ UNCHANGED <<updating, chunk_index, bitmap, accepted, placed, spoiled>>

-----------------------------------------------------------------------------
(* Mutant: the chunk is flagged before its CRC is looked at.               *)
FlagChunkUnchecked(i, good) == bitmap \cup {i}

(* flag_chunk_received(), of a chunk whose CRC is valid.                   *)
flag_chunk_received(i, good) == IF good THEN bitmap \cup {i} ELSE bitmap

(* The part of handle_chunk() about a chunk i whose position is known.     *)
(* Nobody looks at the result of save_firmware_chunk().                    *)
SaveChunk(position, i, good) ==
    /\ bitmap' = flag_chunk_received(position, good)
    /\ placed' = IF good THEN [placed EXCEPT ![position] = i] ELSE placed

ChunkArrives ==
    /\ connected
    /\ chunk_count < FlightMax
    /\ chunk_count' = chunk_count + 1

(* handle_chunk() while there is no transfer.                              *)
ChunkIgnored ==
    /\ ChunkArrives
    /\ offer # NoOffer /\ updating = 0
    /\ UNCHANGED <<updating, file, chunk_index, bitmap, system, cloud, ghosts>>

ChunkFast(i, good) ==
    /\ ChunkArrives
    /\ offer.fast /\ updating # 0
    /\ i \in asked
    /\ SaveChunk(i, i, good)
    /\ chunk_index' = IF good THEN i + 1 ELSE i
    /\ timing' = IF good THEN 0 ELSE timing
    /\ UNCHANGED <<updating, file, flash_update, connected, pending, cloud, accepted, finished, spoiled>>

(* The chunk is acknowledged first, and answered with ChunkReceived last;  *)
(* the cloud goes on, or sends it again, when it has both.                 *)
ChunkSlow(good, io) ==
    /\ ChunkArrives
    /\ ~offer.fast /\ updating # 0
    /\ next < offer.file
    /\ IF io = "no_ack"
       THEN UNCHANGED <<chunk_index, bitmap, placed>>
       ELSE /\ SaveChunk(chunk_index, next, good)
            /\ chunk_index' = IF good THEN chunk_index + 1 ELSE chunk_index
    /\ IF io = "ok"
       THEN /\ timing' = IF good THEN 0 ELSE timing
            /\ next' = IF good THEN next + 1 ELSE next
            /\ UNCHANGED <<flash_update, connected, pending, offer, asked, finished>>
       ELSE Aborts(updating)
    /\ UNCHANGED <<updating, file, accepted, spoiled>>

-----------------------------------------------------------------------------
(* All that next_chunk_missing() finds.                                    *)
Missing == ChunksOf(file) \ bitmap

(* Mutant: no minimum.                                                     *)
ProportionalIncrease(count) == count \div 5

(* The growth of the next flight.                                          *)
Increase(count) == IF count \div 5 < MinIncrease THEN MinIncrease ELSE count \div 5

resend_chunk_count ==
    IF chunk_count + Increase(chunk_count) < MissedToSend
    THEN chunk_count + Increase(chunk_count) ELSE MissedToSend

(* send_missing_chunks(): the first n of them.                             *)
FirstMissing(n) == {i \in Missing : Cardinality({j \in Missing : j < i}) < n}

(* The cloud has sent the flight; in slow mode it has sent everything.     *)
UpdateDone ==
    /\ connected
    /\ offer # NoOffer
    /\ offer.fast \/ next = offer.file

(* handle_update_done() without a transfer: the bitmap is not there, or    *)
(* its place in the message buffer has been used since.  Validation of     *)
(* what is in the flash clears SPARK_FLASH_UPDATE and the counter.         *)
UpdateDoneIgnored(missing, io) ==
    /\ UpdateDone
    /\ updating = 0
    /\ timing' = IF missing THEN timing ELSE 0
    /\ IF io
       THEN /\ flash_update' = IF missing THEN flash_update ELSE 0
            /\ UNCHANGED <<connected, cloud>>
       ELSE Disconnects
    /\ UNCHANGED <<transfer, pending, ghosts>>

(* Nothing is missing: finish_firmware_update() with SUCCESS, which        *)
(* prepares for the reset.                                                 *)
UpdateDoneComplete(io) ==
    /\ UpdateDone
    /\ updating # 0 /\ Missing = {}
    /\ IF io
       THEN /\ updating' = 0
            /\ finished' = "success"
            /\ flash_update' = 0
            /\ timing' = 0
            /\ pending' = TRUE
            /\ UNCHANGED <<connected, cloud>>
       ELSE Aborts(updating) /\ UNCHANGED updating
    /\ UNCHANGED <<file, chunk_count, chunk_index, bitmap, accepted, placed, spoiled>>

(* The answer, then the list of missing chunks, sent synchronously.        *)
UpdateDoneMissing(io) ==
    /\ UpdateDone
    /\ updating # 0 /\ Missing # {}
    /\ IF io = "no_ack"
       THEN UNCHANGED <<updating, chunk_count>>
       ELSE updating' = 2 /\ chunk_count' = 0
    /\ IF io = "ok"
       THEN /\ asked' = FirstMissing(resend_chunk_count)
            /\ UNCHANGED <<system, offer, next, finished>>
       ELSE Aborts(updating)
    /\ UNCHANGED <<file, chunk_index, bitmap, accepted, placed, spoiled>>

(* The bitmap is the end of the channel's one message buffer.  A long      *)
(* message that is received or put together there (an event, a description *)
(* of the device) overwrites it.                                           *)
BufferReused(bits) ==
    /\ connected /\ updating # 0
    /\ bitmap' = bits
    /\ spoiled' = TRUE
    /\ UNCHANGED <<updating, file, chunk_count, chunk_index, system, cloud>>
    /\ UNCHANGED <<accepted, placed, finished>>

-----------------------------------------------------------------------------
(* Mutant: begin() does not reset the transfer.                            *)
ConnectKeepsTransfer(ok) ==
    /\ ~connected
    /\ connected' = ok
    /\ UNCHANGED <<transfer, flash_update, timing, pending, cloud, ghosts>>

(* Protocol::begin(), which may fail after it reset the transfer.          *)
Connect(ok) ==
    /\ ~connected
    /\ updating' = 0
    /\ connected' = ok
    /\ UNCHANGED <<file, chunk_count, chunk_index, bitmap, flash_update, timing, pending,
                   cloud, ghosts>>

(* cloud_disconnect() for any other reason.                                *)
Disconnect ==
    /\ connected
    /\ Disconnects
    /\ UNCHANGED <<transfer, timing, pending, ghosts>>

(* The device starts again.                                                *)
SystemReset ==
    /\ updating' = 0 /\ file' = 0 /\ chunk_count' = 0 /\ chunk_index' = 0 /\ bitmap' = {}
    /\ flash_update' = 0 /\ timing' = 0 /\ connected' = FALSE /\ pending' = FALSE
    /\ offer' = NoOffer /\ asked' = {} /\ next' = 0
    /\ accepted' = 0 /\ placed' = Nowhere /\ finished' = "none" /\ spoiled' = FALSE

(* system_shutdown_if_needed(), when the application enables resets.       *)
Shutdown == pending /\ SystemReset

(* Mutant: one tick more.                                                  *)
TimedOutLate == timing > UpdateTimeout

TimedOut == timing >= UpdateTimeout

(* Mutant: the counter stops and nothing happens.                          *)
SysTickNoReset ==
    /\ flash_update # 0
    /\ timing' = IF TimedOut THEN timing ELSE timing + 1
    /\ UNCHANGED <<transfer, flash_update, connected, pending, cloud, ghosts>>

(* HAL_SysTick_Handler(): a stuck update resets the device.                *)
SysTick ==
    /\ flash_update # 0
    /\ IF TimedOut
       THEN SystemReset
       ELSE /\ timing' = timing + 1
            /\ UNCHANGED <<transfer, flash_update, connected, pending, cloud, ghosts>>

Init ==
    /\ updating = 0 /\ file = 0 /\ chunk_count = 0 /\ chunk_index = 0 /\ bitmap = {}
    /\ flash_update = 0 /\ timing = 0 /\ connected = FALSE /\ pending = FALSE
    /\ offer = NoOffer /\ asked = {} /\ next = 0
    /\ accepted = 0 /\ placed = Nowhere /\ finished = "none" /\ spoiled = FALSE

Next ==
    \/ \E n \in Files, fast, ready \in BOOLEAN : UpdateBeginAccepted(n, fast, ready)
    \/ \E n \in Files : UpdateBeginRejected(n)
    \/ \E n \in Files : UpdateBeginFails(n)
    \/ ChunkIgnored
    \/ \E i \in Chunks, good \in BOOLEAN : ChunkFast(i, good)
    \/ \E good \in BOOLEAN, io \in {"ok", "no_ack", "no_answer"} : ChunkSlow(good, io)
    \/ \E missing, io \in BOOLEAN : UpdateDoneIgnored(missing, io)
    \/ \E io \in BOOLEAN : UpdateDoneComplete(io)
    \/ \E io \in {"ok", "no_ack", "no_list"} : UpdateDoneMissing(io)
    \/ \E bits \in SUBSET Chunks : BufferReused(bits)
    \/ \E ok \in BOOLEAN : Connect(ok)
    \/ Disconnect
    \/ Shutdown
    \/ SysTick

Spec == Init /\ [][Next]_vars

(* The interrupt comes again and again.                                    *)
TimeGoesOn == WF_vars(SysTick)

(* The cloud ends every flight with UpdateDone, and does not lose the same *)
(* chunk for ever: a chunk that it is asked for again and again arrives.   *)
CloudFair ==
    /\ WF_vars(UpdateDoneComplete(TRUE))
    /\ WF_vars(UpdateDoneMissing("ok"))
    /\ \A i \in Chunks : SF_vars(i \notin bitmap /\ ChunkFast(i, TRUE))

-----------------------------------------------------------------------------
TypeOK ==
    /\ updating \in 0..2
    /\ file \in 0..MaxChunks
    /\ chunk_count \in 0..FlightMax
    /\ chunk_index \in 0..MaxChunks
    /\ bitmap \subseteq Chunks
    /\ flash_update \in 0..1
    /\ timing \in 0..UpdateTimeout
    /\ connected \in BOOLEAN
    /\ pending \in BOOLEAN
    /\ offer \in [file : 0..MaxChunks, fast : BOOLEAN]
    /\ asked \subseteq Chunks
    /\ next \in 0..MaxChunks
    /\ accepted \in 0..MaxChunks
    /\ placed \in [Chunks -> Chunks \cup {None}]
    /\ finished \in {"none", "success", "failed"}
    /\ spoiled \in BOOLEAN

(* An update is reported successful, and the device reset to apply it,     *)
(* only when every chunk of the file it was begun for arrived with a valid *)
(* CRC and was saved at its own place, in fast mode whatever was lost,     *)
(* repeated, reordered or broken, in slow mode whatever was broken.  Two   *)
(* things void this for the transfer they fall into: a rejected            *)
(* UpdateBegin for a file of another length, which leaves that length      *)
(* behind, and a message that reaches the bitmap at the end of the buffer. *)
SuccessMeansAllChunks ==
    finished = "success" /\ ~spoiled => \A i \in ChunksOf(accepted) : placed[i] = i

(* SPARK_FLASH_UPDATE is set exactly while a transfer goes on over a       *)
(* connection.  Without it the watchdog would not look after the transfer; *)
(* left behind, it would keep the application's loop() from running and    *)
(* have the watchdog reset a device that works.                            *)
FlashUpdateMatchesTransfer ==
    flash_update = 1 <=> (connected /\ updating # 0)

(* A transfer that stays alive saves chunks again and again: one that is   *)
(* stuck is ended by a reset, whatever the cloud does.                     *)
NeverStuck == TimeGoesOn => []<>(flash_update = 0 \/ timing = 0)

(* "ensure always some growth" (handle_update_done): a transfer in fast    *)
(* mode completes with a fair cloud, however many chunks each flight       *)
(* loses, unless the connection is lost, the device reset, the transfer    *)
(* voided as above, begun again in slow mode, or begun again for ever.     *)
(* It does not take the watchdog to end it: this holds however slowly time *)
(* passes.                                                                 *)
TransferCompletes ==
    CloudFair =>
        \/ (updating # 0 /\ offer.fast) ~> (finished = "success" \/ ~offer.fast \/ spoiled)
        \/ []<><<\E n \in Files, fast, ready \in BOOLEAN :
                    UpdateBeginAccepted(n, fast, ready)>>_vars
=============================================================================
