----------------------- MODULE ChunkedTransferProofs -----------------------
(***************************************************************************)
(* Proofs about ChunkedTransfer, for files of any length, flights of any   *)
(* size and any timeout.                                                   *)
(***************************************************************************)
EXTENDS ChunkedTransfer, TLAPS

(* In slow mode the device writes the chunk the cloud is about to send at  *)
(* its own place.  Without this the position would have no bound.          *)
InStep ==
    connected /\ updating # 0 /\ ~offer.fast => chunk_index = next /\ next <= offer.file

TypeInv == TypeOK /\ InStep

(* What the device has noted about the file that is being sent is true,    *)
(* unless it was overwritten.                                              *)
Honest ==
    connected /\ updating # 0 /\ ~spoiled =>
        /\ file = accepted /\ offer.file = accepted
        /\ offer.fast => \A i \in bitmap : placed[i] = i
        /\ ~offer.fast => \A i \in ChunksOf(next) : placed[i] = i

(* A transfer that succeeded is over.                                      *)
Over == finished = "success" => updating = 0

CompleteInv == TypeInv /\ Honest /\ Over /\ SuccessMeansAllChunks

-----------------------------------------------------------------------------
(* The files there are fit.                                                *)
LEMMA FileLength ==
    ASSUME NEW n \in Files
    PROVE  n \in 1..MaxChunks /\ n \in 0..MaxChunks /\ ChunksOf(n) \subseteq Chunks
  BY TransferAssumption DEF ChunksOf, Chunks

LEMMA NoOfferType == NoOffer \in [file : 0..MaxChunks, fast : BOOLEAN]
  <1>1. 0 \in 0..MaxChunks
    BY TransferAssumption
  <1> QED BY <1>1, Zenon DEF NoOffer

LEMMA ResetType == SystemReset => TypeInv'
  <1> SUFFICES ASSUME SystemReset PROVE TypeInv'
    OBVIOUS
  <1>1. connected' = FALSE /\ pending' = FALSE
    BY DEF SystemReset
  <1>2. InStep'
    BY <1>1, Zenon DEF InStep
  <1>3. connected' \in BOOLEAN /\ pending' \in BOOLEAN
    BY <1>1, Zenon
  <1>4. offer' \in [file : 0..MaxChunks, fast : BOOLEAN]
    BY NoOfferType DEF SystemReset
  <1>5. placed' \in [Chunks -> Chunks \cup {None}]
    BY DEF SystemReset, Nowhere
  <1>6. spoiled' \in BOOLEAN
    BY Zenon DEF SystemReset
  <1> QED BY <1>2, <1>3, <1>4, <1>5, <1>6, TransferAssumption DEF SystemReset, TypeInv, TypeOK

LEMMA DisconnectType ==
    ASSUME TypeInv, Disconnects
    PROVE  /\ flash_update' \in 0..1 /\ connected' \in BOOLEAN
           /\ offer' \in [file : 0..MaxChunks, fast : BOOLEAN]
           /\ asked' \subseteq Chunks /\ next' \in 0..MaxChunks
           /\ InStep'
  <1>1. connected' = FALSE
    BY DEF Disconnects
  <1>2. InStep' /\ connected' \in BOOLEAN
    BY <1>1, Zenon DEF InStep
  <1> QED BY <1>2, TransferAssumption, NoOfferType DEF Disconnects

LEMMA AbortType ==
    ASSUME TypeInv, NEW u \in 0..2, Aborts(u)
    PROVE  /\ flash_update' \in 0..1 /\ connected' \in BOOLEAN
           /\ offer' \in [file : 0..MaxChunks, fast : BOOLEAN]
           /\ asked' \subseteq Chunks /\ next' \in 0..MaxChunks
           /\ InStep'
           /\ timing' \in 0..UpdateTimeout /\ pending' \in BOOLEAN
           /\ finished' \in {"none", "success", "failed"}
  <1>1. Disconnects
    BY DEF Aborts
  <1>2. timing' \in 0..UpdateTimeout /\ pending' \in BOOLEAN /\ finished' \in {"none", "success", "failed"}
    BY TransferAssumption DEF Aborts, TypeInv, TypeOK
  <1> QED BY <1>1, <1>2, DisconnectType

(* Every step keeps the types, and slow mode in step.                      *)
LEMMA TypeStep == TypeInv /\ [Next]_vars => TypeInv'
  <1> SUFFICES ASSUME TypeInv, [Next]_vars PROVE TypeInv'
    OBVIOUS
  <1> USE TransferAssumption
  <1>0. TypeOK /\ InStep
    BY DEF TypeInv
  <1>1. ASSUME NEW n \in Files, NEW fast \in BOOLEAN, NEW ready \in BOOLEAN, UpdateBeginAccepted(n, fast, ready)
        PROVE  TypeInv'
    <2>1. n \in 0..MaxChunks /\ ChunksOf(n) \subseteq Chunks
        BY FileLength
    <2>2. /\ updating' \in 0..2 /\ file' \in 0..MaxChunks /\ chunk_count' \in 0..FlightMax
          /\ chunk_index' \in 0..MaxChunks /\ bitmap' \subseteq Chunks
          /\ accepted' \in 0..MaxChunks /\ placed' \in [Chunks -> Chunks \cup {None}]
        BY <1>1, <2>1 DEF UpdateBeginAccepted, UpdateBegin, Nowhere
    <2>s. spoiled' \in BOOLEAN
        BY <1>1, Zenon DEF UpdateBeginAccepted
    <2>3. CASE ready
        BY <1>0, <1>1, <2>1, <2>2, <2>s, <2>3 DEF UpdateBeginAccepted, TypeInv, TypeOK, InStep
    <2>4. CASE ~ready
        <3>1. Aborts(1)
            BY <1>1, <2>4 DEF UpdateBeginAccepted
        <3> QED BY <2>2, <2>s, <3>1, AbortType DEF TypeInv, TypeOK
    <2> QED BY <2>3, <2>4
  <1>2. ASSUME NEW n \in Files, UpdateBeginRejected(n) PROVE TypeInv'
    <2>1. n \in 0..MaxChunks
        BY FileLength
    <2>2. spoiled' \in BOOLEAN
        BY <1>2, Zenon DEF UpdateBeginRejected
    <2> QED BY <1>0, <1>2, <2>1, <2>2
            DEF UpdateBeginRejected, UpdateBegin, TypeInv, TypeOK, InStep, system, cloud
  <1>3. ASSUME NEW n \in Files, UpdateBeginFails(n) PROVE TypeInv'
    <2>1. n \in 0..MaxChunks /\ Aborts(updating) /\ updating \in 0..2
        BY <1>0, <1>3, FileLength DEF UpdateBeginFails, TypeOK
    <2>2. /\ updating' \in 0..2 /\ file' \in 0..MaxChunks /\ chunk_count' \in 0..FlightMax
          /\ chunk_index' \in 0..MaxChunks /\ bitmap' \subseteq Chunks
          /\ accepted' \in 0..MaxChunks /\ placed' \in [Chunks -> Chunks \cup {None}]
          /\ spoiled' \in BOOLEAN
        BY <1>0, <1>3, <2>1 DEF UpdateBeginFails, UpdateBegin, TypeOK
    <2> QED BY <2>1, <2>2, AbortType DEF TypeInv, TypeOK
  <1>4. CASE ChunkIgnored
    BY <1>0, <1>4 DEF ChunkIgnored, ChunkArrives, TypeInv, TypeOK, InStep, system, cloud, ghosts
  <1>5. ASSUME NEW i \in Chunks, NEW good \in BOOLEAN, ChunkFast(i, good) PROVE TypeInv'
    <2>1. i + 1 \in 0..MaxChunks /\ i \in 0..MaxChunks
        BY DEF Chunks
    <2>2. bitmap' \subseteq Chunks /\ placed' \in [Chunks -> Chunks \cup {None}]
        BY <1>0, <1>5 DEF ChunkFast, SaveChunk, flag_chunk_received, TypeOK
    <2> QED BY <1>0, <1>5, <2>1, <2>2 DEF ChunkFast, ChunkArrives, TypeInv, TypeOK, InStep, cloud
  <1>6. ASSUME NEW good \in BOOLEAN, NEW io \in {"ok", "no_ack", "no_answer"}, ChunkSlow(good, io)
        PROVE  TypeInv'
    <2>1. /\ chunk_index = next /\ next \in Chunks
          /\ next + 1 \in 0..MaxChunks /\ next + 1 <= offer.file
        BY <1>0, <1>6 DEF ChunkSlow, ChunkArrives, TypeOK, InStep, Chunks
    <2>2. bitmap' \subseteq Chunks /\ placed' \in [Chunks -> Chunks \cup {None}]
        BY <1>0, <1>6, <2>1 DEF ChunkSlow, SaveChunk, flag_chunk_received, TypeOK
    <2>3. /\ updating' \in 0..2 /\ file' \in 0..MaxChunks /\ chunk_count' \in 0..FlightMax
          /\ chunk_index' \in 0..MaxChunks /\ accepted' \in 0..MaxChunks /\ spoiled' \in BOOLEAN
        BY <1>0, <1>6, <2>1 DEF ChunkSlow, ChunkArrives, TypeOK
    <2>4. CASE io = "ok"
        <3>1. /\ UNCHANGED <<flash_update, connected, pending, offer, asked, finished, updating>>
              /\ timing' \in 0..UpdateTimeout
              /\ next' = IF good THEN next + 1 ELSE next
              /\ chunk_index' = IF good THEN chunk_index + 1 ELSE chunk_index
              /\ next <= offer.file
            BY <1>0, <1>6, <2>4 DEF ChunkSlow, TypeOK
        <3>2. next' \in 0..MaxChunks /\ chunk_index' = next' /\ next' <= offer'.file
            BY <1>0, <2>1, <3>1 DEF TypeOK
        <3> QED BY <1>0, <2>2, <2>3, <3>1, <3>2 DEF TypeInv, TypeOK, InStep
    <2>5. CASE io # "ok"
        <3>1. Aborts(updating) /\ updating \in 0..2
            BY <1>0, <1>6, <2>5 DEF ChunkSlow, TypeOK
        <3> QED BY <2>2, <2>3, <3>1, AbortType DEF TypeInv, TypeOK
    <2> QED BY <2>4, <2>5
  <1>7. ASSUME NEW missing \in BOOLEAN, NEW io \in BOOLEAN, UpdateDoneIgnored(missing, io) PROVE TypeInv'
    <2>1. CASE io
        BY <1>0, <1>7, <2>1 DEF UpdateDoneIgnored, TypeInv, TypeOK, InStep, transfer, cloud, ghosts
    <2>2. CASE ~io
        <3>1. Disconnects
            BY <1>7, <2>2 DEF UpdateDoneIgnored
        <3>2. UNCHANGED <<updating, file, chunk_count, chunk_index, bitmap, pending, accepted, placed, finished,
                        spoiled>>
            BY <1>7 DEF UpdateDoneIgnored, transfer, ghosts
        <3>3. timing' \in 0..UpdateTimeout
            BY <1>0, <1>7 DEF UpdateDoneIgnored, TypeOK
        <3> QED BY <1>0, <3>1, <3>2, <3>3, DisconnectType DEF TypeInv, TypeOK
    <2> QED BY <2>1, <2>2
  <1>8. ASSUME NEW io \in BOOLEAN, UpdateDoneComplete(io) PROVE TypeInv'
    <2>1. CASE io
        BY <1>0, <1>8, <2>1 DEF UpdateDoneComplete, TypeInv, TypeOK, InStep, cloud
    <2>2. CASE ~io
        <3>1. Aborts(updating) /\ updating \in 0..2
            BY <1>0, <1>8, <2>2 DEF UpdateDoneComplete, TypeOK
        <3>2. UNCHANGED <<updating, file, chunk_count, chunk_index, bitmap, accepted, placed, spoiled>>
            BY <1>8, <2>2 DEF UpdateDoneComplete
        <3> QED BY <1>0, <3>1, <3>2, AbortType DEF TypeInv, TypeOK
    <2> QED BY <2>1, <2>2
  <1>9. ASSUME NEW io \in {"ok", "no_ack", "no_list"}, UpdateDoneMissing(io) PROVE TypeInv'
    <2>1. updating' \in 0..2 /\ chunk_count' \in 0..FlightMax
        BY <1>0, <1>9 DEF UpdateDoneMissing, TypeOK
    <2>2. UNCHANGED <<file, chunk_index, bitmap, accepted, placed, spoiled>>
        BY <1>9 DEF UpdateDoneMissing
    <2>3. CASE io = "ok"
        <3>1. asked' \subseteq Chunks
            <4>1. asked' \subseteq Missing
                BY <1>9, <2>3 DEF UpdateDoneMissing, FirstMissing
            <4>2. Missing \subseteq Chunks
                BY <1>0 DEF Missing, ChunksOf, Chunks, TypeOK
            <4> QED BY <4>1, <4>2
        <3> QED BY <1>0, <1>9, <2>1, <2>2, <2>3, <3>1
                DEF UpdateDoneMissing, TypeInv, TypeOK, InStep, system
    <2>4. CASE io # "ok"
        <3>1. Aborts(updating) /\ updating \in 0..2
            BY <1>0, <1>9, <2>4 DEF UpdateDoneMissing, TypeOK
        <3> QED BY <1>0, <2>1, <2>2, <3>1, AbortType DEF TypeInv, TypeOK
    <2> QED BY <2>3, <2>4
  <1>10. ASSUME NEW bits \in SUBSET Chunks, BufferReused(bits) PROVE TypeInv'
    BY <1>0, <1>10 DEF BufferReused, TypeInv, TypeOK, InStep, system, cloud
  <1>11. ASSUME NEW ok \in BOOLEAN, Connect(ok) PROVE TypeInv'
    BY <1>0, <1>11 DEF Connect, TypeInv, TypeOK, InStep, cloud, ghosts
  <1>12. CASE Disconnect
    BY <1>0, <1>12, DisconnectType DEF Disconnect, TypeInv, TypeOK, transfer, ghosts
  <1>13. CASE Shutdown
    BY <1>13, ResetType DEF Shutdown
  <1>14. CASE SysTick
    <2>1. CASE TimedOut
        BY <1>14, <2>1, ResetType DEF SysTick
    <2>2. CASE ~TimedOut
        BY <1>0, <1>14, <2>2 DEF SysTick, TimedOut, TypeInv, TypeOK, InStep, transfer, cloud, ghosts
    <2> QED BY <2>1, <2>2
  <1>15. CASE UNCHANGED vars
    BY <1>0, <1>15 DEF TypeInv, TypeOK, InStep, vars, transfer, system, cloud, ghosts
  <1> QED BY <1>1, <1>2, <1>3, <1>4, <1>5, <1>6, <1>7, <1>8, <1>9, <1>10, <1>11, <1>12, <1>13, <1>14, <1>15
          DEF Next

LEMMA TypeInitially == Init => TypeInv
  <1> SUFFICES ASSUME Init PROVE TypeInv
    OBVIOUS
  <1>1. connected = FALSE /\ pending = FALSE
    BY DEF Init
  <1>2. InStep /\ connected \in BOOLEAN /\ pending \in BOOLEAN
    BY <1>1, Zenon DEF InStep
  <1>3. placed \in [Chunks -> Chunks \cup {None}]
    BY DEF Init, Nowhere
  <1>4. spoiled \in BOOLEAN
    BY Zenon DEF Init
  <1> QED BY <1>2, <1>3, <1>4, TransferAssumption, NoOfferType DEF Init, TypeInv, TypeOK

LEMMA TypeInvariant == Spec => []TypeInv
  BY TypeInitially, TypeStep, PTL DEF Spec

(* Every handler, the watchdog and begin() keep the types, whatever the    *)
(* cloud sends and whichever message cannot be sent.                       *)
THEOREM TypeCorrect == Spec => []TypeOK
  <1>1. TypeInv => TypeOK
    BY DEF TypeInv
  <1> QED BY <1>1, TypeInvariant, PTL

-----------------------------------------------------------------------------
(* A disconnected device has no update.                                    *)
LEMMA MatchOffline ==
    ASSUME connected' = FALSE, flash_update' = 0
    PROVE  FlashUpdateMatchesTransfer'
  BY DEF FlashUpdateMatchesTransfer

LEMMA MatchStep ==
    ASSUME TypeInv, FlashUpdateMatchesTransfer, [Next]_vars
    PROVE  FlashUpdateMatchesTransfer'
  <1> DEFINE M == FlashUpdateMatchesTransfer
  <1>0. connected \in BOOLEAN /\ updating \in 0..2 /\ flash_update \in 0..1
    BY DEF TypeInv, TypeOK
  <1>a. ASSUME NEW u, Aborts(u) PROVE M'
    BY <1>a, MatchOffline DEF Aborts, Disconnects
  <1>1. ASSUME NEW n \in Files, NEW fast \in BOOLEAN, NEW ready \in BOOLEAN, UpdateBeginAccepted(n, fast, ready)
        PROVE  M'
    <2>1. CASE ready
        BY <1>1, <2>1 DEF UpdateBeginAccepted, UpdateBegin, FlashUpdateMatchesTransfer
    <2>2. CASE ~ready
        BY <1>1, <2>2, <1>a DEF UpdateBeginAccepted
    <2> QED BY <2>1, <2>2
  <1>2. ASSUME NEW n \in Files, UpdateBeginRejected(n) PROVE M'
    BY <1>2 DEF UpdateBeginRejected, system, FlashUpdateMatchesTransfer
  <1>3. ASSUME NEW n \in Files, UpdateBeginFails(n) PROVE M'
    BY <1>3, <1>a DEF UpdateBeginFails
  <1>4. CASE ChunkIgnored
    BY <1>4 DEF ChunkIgnored, system, FlashUpdateMatchesTransfer
  <1>5. ASSUME NEW i \in Chunks, NEW good \in BOOLEAN, ChunkFast(i, good) PROVE M'
    BY <1>5 DEF ChunkFast, FlashUpdateMatchesTransfer
  <1>6. ASSUME NEW good \in BOOLEAN, NEW io \in {"ok", "no_ack", "no_answer"}, ChunkSlow(good, io)
        PROVE  M'
    <2>1. CASE io = "ok"
        BY <1>6, <2>1 DEF ChunkSlow, FlashUpdateMatchesTransfer
    <2>2. CASE io # "ok"
        BY <1>6, <2>2, <1>a DEF ChunkSlow
    <2> QED BY <2>1, <2>2
  <1>7. ASSUME NEW missing \in BOOLEAN, NEW io \in BOOLEAN, UpdateDoneIgnored(missing, io) PROVE M'
    <2>1. CASE io
        BY <1>0, <1>7, <2>1 DEF UpdateDoneIgnored, transfer, FlashUpdateMatchesTransfer
    <2>2. CASE ~io
        BY <1>7, <2>2, MatchOffline DEF UpdateDoneIgnored, Disconnects
    <2> QED BY <2>1, <2>2
  <1>8. ASSUME NEW io \in BOOLEAN, UpdateDoneComplete(io) PROVE M'
    <2>1. CASE io
        BY <1>8, <2>1 DEF UpdateDoneComplete, FlashUpdateMatchesTransfer
    <2>2. CASE ~io
        BY <1>8, <2>2, <1>a DEF UpdateDoneComplete
    <2> QED BY <2>1, <2>2
  <1>9. ASSUME NEW io \in {"ok", "no_ack", "no_list"}, UpdateDoneMissing(io) PROVE M'
    <2>1. CASE io = "ok"
        BY <1>9, <2>1 DEF UpdateDoneMissing, system, FlashUpdateMatchesTransfer
    <2>2. CASE io # "ok"
        BY <1>9, <2>2, <1>a DEF UpdateDoneMissing
    <2> QED BY <2>1, <2>2
  <1>10. ASSUME NEW bits \in SUBSET Chunks, BufferReused(bits) PROVE M'
    BY <1>10 DEF BufferReused, system, FlashUpdateMatchesTransfer
  <1>11. ASSUME NEW ok \in BOOLEAN, Connect(ok) PROVE M'
    BY <1>0, <1>11 DEF Connect, FlashUpdateMatchesTransfer
  <1>12. CASE Disconnect
    BY <1>12, MatchOffline DEF Disconnect, Disconnects
  <1>13. CASE SystemReset
    BY <1>13, MatchOffline DEF SystemReset
  <1>14. CASE SysTick /\ ~SystemReset
    BY <1>14 DEF SysTick, transfer, FlashUpdateMatchesTransfer
  <1>15. CASE UNCHANGED vars
    BY <1>15 DEF vars, transfer, system, FlashUpdateMatchesTransfer
  <1> QED BY <1>1, <1>2, <1>3, <1>4, <1>5, <1>6, <1>7, <1>8, <1>9, <1>10, <1>11, <1>12, <1>13, <1>14, <1>15
          DEF Next, Shutdown

(* SPARK_FLASH_UPDATE is set exactly while a transfer goes on over a       *)
(* connection: neither cancel(), begin(), UpdateDone nor a disconnection   *)
(* at any point leaves one of the two behind.                              *)
THEOREM WatchdogFollowsTransfer == Spec => []FlashUpdateMatchesTransfer
  <1>1. Init => FlashUpdateMatchesTransfer
    BY DEF Init, FlashUpdateMatchesTransfer
  <1>2. TypeInv /\ FlashUpdateMatchesTransfer /\ [Next]_vars => FlashUpdateMatchesTransfer'
    BY MatchStep
  <1> QED BY <1>1, <1>2, TypeInvariant, PTL DEF Spec

-----------------------------------------------------------------------------
(* Without a connection nothing is claimed of the transfer.                *)
LEMMA HonestOffline == ASSUME connected' = FALSE PROVE Honest'
  BY DEF Honest

(* An abandoned transfer has not succeeded; one that had stays as it was.  *)
LEMMA AbortComplete ==
    ASSUME CompleteInv, NEW u \in 0..2, Aborts(u), u # 0 \/ UNCHANGED <<updating, accepted, placed, spoiled>>
    PROVE  Honest' /\ Over' /\ SuccessMeansAllChunks'
  <1>1. Honest'
    BY HonestOffline DEF Aborts, Disconnects
  <1>2. CASE u # 0
    BY <1>1, <1>2 DEF Aborts, Over, SuccessMeansAllChunks
  <1>3. CASE u = 0
    BY <1>1, <1>3 DEF Aborts, CompleteInv, Over, SuccessMeansAllChunks
  <1> QED BY <1>2, <1>3

(* Steps that touch nothing of this.                                       *)
LEMMA CompleteUnchanged ==
    ASSUME CompleteInv,
           UNCHANGED <<updating, file, bitmap, connected, offer, next, accepted, placed, finished,
                       spoiled>>
    PROVE  Honest' /\ Over' /\ SuccessMeansAllChunks'
  BY DEF CompleteInv, Honest, Over, SuccessMeansAllChunks

LEMMA CompleteStep ==
    ASSUME CompleteInv, [Next]_vars
    PROVE  Honest' /\ Over' /\ SuccessMeansAllChunks'
  <1> DEFINE C == Honest /\ Over /\ SuccessMeansAllChunks
  <1>0. TypeOK /\ InStep /\ Honest /\ Over /\ SuccessMeansAllChunks
    BY DEF CompleteInv, TypeInv
  <1>t. updating \in 0..2
    BY <1>0 DEF TypeOK
  <1>1. ASSUME NEW n \in Files, NEW fast \in BOOLEAN, NEW ready \in BOOLEAN, UpdateBeginAccepted(n, fast, ready)
        PROVE  C'
    <2>1. CASE ready
        <3>1. finished' = "none" /\ next' = 0 /\ offer'.file = n /\ offer'.fast = fast
              /\ file' = n /\ accepted' = n /\ bitmap' = IF fast THEN {} ELSE ChunksOf(n)
            BY <1>1, <2>1 DEF UpdateBeginAccepted, UpdateBegin
        <3>2. ChunksOf(next') = {}
            BY <3>1 DEF ChunksOf
        <3> QED BY <3>1, <3>2 DEF Honest, Over, SuccessMeansAllChunks, ChunksOf
    <2>2. CASE ~ready
        BY <1>1, <2>2, AbortComplete DEF UpdateBeginAccepted
    <2> QED BY <2>1, <2>2
  <1>2. ASSUME NEW n \in Files, UpdateBeginRejected(n) PROVE C'
    <2>1. CASE updating # 0 /\ n # file
        <3>1. spoiled' = TRUE /\ UNCHANGED <<updating, finished>>
            BY <1>2, <2>1 DEF UpdateBeginRejected
        <3> QED BY <1>0, <3>1 DEF Honest, Over, SuccessMeansAllChunks
    <2>2. CASE updating = 0
        <3>1. UNCHANGED <<updating, accepted, placed, finished>> /\ spoiled' = spoiled
            BY <1>0, <1>2, <2>2 DEF UpdateBeginRejected, TypeOK
        <3> QED BY <1>0, <2>2, <3>1 DEF Honest, Over, SuccessMeansAllChunks
    <2>3. CASE n = file
        <3>1. spoiled' = spoiled
            BY <1>0, <1>2, <2>3 DEF UpdateBeginRejected, TypeOK
        <3> QED BY <1>2, <2>3, <3>1, CompleteUnchanged
                DEF UpdateBeginRejected, UpdateBegin, system, cloud
    <2> QED BY <2>1, <2>2, <2>3
  <1>3. ASSUME NEW n \in Files, UpdateBeginFails(n) PROVE C'
    BY <1>3, <1>t, AbortComplete DEF UpdateBeginFails
  <1>4. CASE ChunkIgnored
    BY <1>4, CompleteUnchanged DEF ChunkIgnored, system, cloud, ghosts
  <1>5. ASSUME NEW i \in Chunks, NEW good \in BOOLEAN, ChunkFast(i, good) PROVE C'
    <2>1. connected /\ updating # 0 /\ offer.fast
        BY <1>5 DEF ChunkFast, ChunkArrives
    <2>2. ~spoiled => file = accepted /\ offer.file = accepted /\ \A j \in bitmap : placed[j] = j
        BY <1>0, <2>1 DEF Honest
    <2>3. ~spoiled => \A j \in bitmap' : placed'[j] = j
        BY <1>0, <1>5, <2>2 DEF ChunkFast, SaveChunk, flag_chunk_received, TypeOK
    <2>4. UNCHANGED <<updating, file, connected, offer, next, accepted, finished, spoiled>>
        BY <1>5 DEF ChunkFast, cloud
    <2>5. finished # "success"
        BY <1>0, <2>1 DEF Over
    <2> QED BY <2>1, <2>2, <2>3, <2>4, <2>5 DEF Honest, Over, SuccessMeansAllChunks
  <1>6. ASSUME NEW good \in BOOLEAN, NEW io \in {"ok", "no_ack", "no_answer"}, ChunkSlow(good, io)
        PROVE  C'
    <2>1. CASE io = "ok"
        <3>1. connected /\ updating # 0 /\ ~offer.fast /\ next < offer.file
            BY <1>6 DEF ChunkSlow, ChunkArrives
        <3>2. /\ ~spoiled => /\ file = accepted /\ offer.file = accepted
                             /\ \A j \in ChunksOf(next) : placed[j] = j
              /\ chunk_index = next
            BY <1>0, <3>1 DEF Honest, InStep
        <3>3. next \in Chunks
            <4>1. next \in 0..MaxChunks /\ offer.file \in 0..MaxChunks
                BY <1>0 DEF TypeOK
            <4> QED BY <3>1, <4>1, TransferAssumption DEF Chunks
        <3>4. /\ next' = IF good THEN next + 1 ELSE next
              /\ placed' = IF good THEN [placed EXCEPT ![next] = next] ELSE placed
              /\ UNCHANGED <<updating, file, connected, offer, accepted, finished, spoiled>>
            BY <1>6, <2>1, <3>2 DEF ChunkSlow, SaveChunk
        <3>5. ~spoiled => \A j \in ChunksOf(next') : placed'[j] = j
            BY <1>0, <3>2, <3>3, <3>4 DEF TypeOK, ChunksOf, Chunks
        <3>6. finished # "success"
            BY <1>0, <3>1 DEF Over
        <3> QED BY <3>1, <3>2, <3>4, <3>5, <3>6 DEF Honest, Over, SuccessMeansAllChunks
    <2>2. CASE io # "ok"
        <3>1. Aborts(updating) /\ updating # 0
            BY <1>6, <2>2 DEF ChunkSlow
        <3> QED BY <1>t, <3>1, AbortComplete
    <2> QED BY <2>1, <2>2
  <1>7. ASSUME NEW missing \in BOOLEAN, NEW io \in BOOLEAN, UpdateDoneIgnored(missing, io) PROVE C'
    <2>1. CASE io
        BY <1>7, <2>1, CompleteUnchanged DEF UpdateDoneIgnored, transfer, cloud, ghosts
    <2>2. CASE ~io
        <3>1. Honest'
            BY <1>7, <2>2, HonestOffline DEF UpdateDoneIgnored, Disconnects
        <3>2. UNCHANGED <<updating, accepted, placed, finished, spoiled>>
            BY <1>7 DEF UpdateDoneIgnored, transfer, ghosts
        <3> QED BY <1>0, <3>1, <3>2 DEF Over, SuccessMeansAllChunks
    <2> QED BY <2>1, <2>2
  <1>8. ASSUME NEW io \in BOOLEAN, UpdateDoneComplete(io) PROVE C'
    <2>1. connected /\ updating # 0 /\ Missing = {} /\ (offer.fast \/ next = offer.file)
        BY <1>8 DEF UpdateDoneComplete, UpdateDone
    <2>2. CASE io
        <3>1. ~spoiled => \A j \in ChunksOf(accepted) : placed[j] = j
            <4>1. CASE offer.fast
                BY <1>0, <2>1, <4>1 DEF Honest, Missing
            <4>2. CASE ~offer.fast
                BY <1>0, <2>1, <4>2 DEF Honest
            <4> QED BY <4>1, <4>2
        <3>2. updating' = 0 /\ UNCHANGED <<accepted, placed, spoiled>>
            BY <1>8, <2>2 DEF UpdateDoneComplete
        <3> QED BY <3>1, <3>2 DEF Honest, Over, SuccessMeansAllChunks
    <2>3. CASE ~io
        BY <1>8, <1>t, <2>1, <2>3, AbortComplete DEF UpdateDoneComplete
    <2> QED BY <2>2, <2>3
  <1>9. ASSUME NEW io \in {"ok", "no_ack", "no_list"}, UpdateDoneMissing(io) PROVE C'
    <2>1. CASE io = "ok"
        <3>1. /\ updating # 0 /\ updating' = 2
              /\ UNCHANGED <<file, bitmap, connected, offer, next, accepted, placed, finished, spoiled>>
            BY <1>9, <2>1 DEF UpdateDoneMissing, system
        <3> QED BY <1>0, <3>1 DEF Honest, Over, SuccessMeansAllChunks
    <2>2. CASE io # "ok"
        BY <1>9, <1>t, <2>2, AbortComplete DEF UpdateDoneMissing
    <2> QED BY <2>1, <2>2
  <1>10. ASSUME NEW bits \in SUBSET Chunks, BufferReused(bits) PROVE C'
    BY <1>0, <1>10 DEF BufferReused, Honest, Over, SuccessMeansAllChunks
  <1>11. ASSUME NEW ok \in BOOLEAN, Connect(ok) PROVE C'
    BY <1>0, <1>11 DEF Connect, ghosts, Honest, Over, SuccessMeansAllChunks
  <1>12. CASE Disconnect
    <2>1. Honest'
        BY <1>12, HonestOffline DEF Disconnect, Disconnects
    <2> QED BY <1>0, <1>12, <2>1 DEF Disconnect, transfer, ghosts, Over, SuccessMeansAllChunks
  <1>13. CASE SystemReset
    BY <1>13, HonestOffline DEF SystemReset, Over, SuccessMeansAllChunks
  <1>14. CASE SysTick /\ ~SystemReset
    BY <1>14, CompleteUnchanged DEF SysTick, transfer, cloud, ghosts
  <1>15. CASE UNCHANGED vars
    BY <1>15, CompleteUnchanged DEF vars, transfer, system, cloud, ghosts
  <1> QED BY <1>1, <1>2, <1>3, <1>4, <1>5, <1>6, <1>7, <1>8, <1>9, <1>10, <1>11, <1>12, <1>13, <1>14, <1>15
          DEF Next, Shutdown

(* Unless a rejected UpdateBegin of another length or a message that       *)
(* reaches the bitmap falls into it, an update that is reported successful *)
(* has received every chunk of its file, whatever the network did to the   *)
(* chunks and however earlier transfers ended or were spoiled.             *)
THEOREM SuccessIsComplete == Spec => []SuccessMeansAllChunks
  <1>1. Init => CompleteInv
    <2>1. Init => TypeInv
        BY TypeInitially
    <2>2. Init => Honest /\ Over /\ SuccessMeansAllChunks
        BY DEF Init, Honest, Over, SuccessMeansAllChunks
    <2> QED BY <2>1, <2>2 DEF CompleteInv
  <1>2. CompleteInv /\ [Next]_vars => CompleteInv'
    <2> SUFFICES ASSUME CompleteInv, [Next]_vars PROVE CompleteInv'
        OBVIOUS
    <2>1. TypeInv'
        BY TypeStep DEF CompleteInv
    <2>2. Honest' /\ Over' /\ SuccessMeansAllChunks'
        BY CompleteStep
    <2> QED BY <2>1, <2>2 DEF CompleteInv
  <1>3. CompleteInv => SuccessMeansAllChunks
    BY DEF CompleteInv
  <1> QED BY <1>1, <1>2, <1>3, PTL DEF Spec
=============================================================================
