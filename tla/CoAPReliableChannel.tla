------------------------ MODULE CoAPReliableChannel ------------------------
(***************************************************************************)
(* CoAPChannel<CoAPReliableChannel<DTLSMessageChannel>>, the channel under *)
(* DTLSProtocol, with the parts that drive it: Protocol::begin and         *)
(* Protocol::event_loop, the request handlers' answers, and the handshake  *)
(* flags of system/src/system_cloud_internal.cpp and system_task.cpp that  *)
(* wait for notify_client_messages_processed().                            *)
(*                                                                         *)
(* All of it runs on the system thread, so one call of event_loop is one   *)
(* step; only send_synchronous(), which waits inside a send, is a sequence *)
(* of steps that the network and the clock interleave with.                *)
(*                                                                         *)
(* The network and the cloud are external.  A datagram that was sent may   *)
(* arrive never, once or many times, in any order.  Datagrams belong to a  *)
(* DTLS session: a full handshake makes the old ones undecipherable, a     *)
(* resumed session does not.                                               *)
(***************************************************************************)
EXTENDS CoAPMessageStore

CONSTANTS
    ServerIds,     \* ids the cloud uses for its confirmable requests
    Kinds,         \* how the handlers of those requests answer, see Handle
    ServerWindow,  \* last arrival of a copy, counted from the first copy sent
    NoSync

ASSUME ChannelAssumption ==
    /\ ServerIds \subseteq Ids
    /\ Kinds \subseteq {"answered", "key_change", "ignored", "rejected"}
    /\ Kinds # {}
    /\ ServerWindow \in Nat
    /\ ServerWindow < TransmitSpan
    /\ NoSync \notin Ids

VARIABLES
    message_id,  \* CoAPChannel::message_id, the last id handed out
    client,      \* CoAPReliableChannel::client
    server,      \* CoAPReliableChannel::server
    open,        \* the DTLS context is in state MBEDTLS_SSL_HANDSHAKE_OVER
    sync,        \* id that send_synchronous() is waiting for, or NoSync
    had_client_messages,  \* the local of send_synchronous()
    cloud,       \* the SPARK_CLOUD_ flags, see CloudStates
    at,          \* where the system thread is, see Places
    sent,        \* external: ids of device requests that left the device
    replies,     \* external: <<type, id>> the cloud sent for those requests
    asked,       \* external: cloud requests of this session
    kind,        \* external: how each of them will be answered
    age,         \* external: time since the cloud first sent each of them
    delivered,   \* ghost: times each was handed to the application
    undelivered, \* ghost: a device request since begin() was given up
    handshaken   \* ghost: begin() succeeded on the current socket

device == <<message_id, client, server, open, sync, had_client_messages, cloud, at>>
network == <<sent, replies, asked, kind, age>>
ghosts == <<delivered, undelivered, handshaken>>
vars == <<device, network, ghosts>>

(* SPARK_CLOUD_SOCKETED, SPARK_CLOUD_CONNECTED and, as one flag, the two   *)
(* SPARK_CLOUD_HANDSHAKE_PENDING and _NOTIFY_DONE.                         *)
CloudStates ==
    [socketed : BOOLEAN, connected : BOOLEAN, flag : {"none", "pending", "notify_done"}]

(* cloud_disconnect() clears all of them.                                  *)
Off == [socketed |-> FALSE, connected |-> FALSE, flag |-> "none"]

(* The system loop; begin() between establish() and the end of hello();    *)
(* Spark_Handshake() after begin(); Spark_Handshake() after its call of    *)
(* Spark_Process_Events().                                                 *)
Places == {"main", "hello", "handshaking", "finishing"}

(* External: the kinds before any request.                                 *)
NoKind == [i \in Ids |-> CHOOSE k \in Kinds : TRUE]

-----------------------------------------------------------------------------
(* A message the base channel's receive() returns; "nothing" is a message  *)
(* of length 0, "io_error" a failed mbedtls_ssl_read, which resets the     *)
(* session, "close" a close_notify, which is reported as length 0.         *)
Nothing == [type |-> "nothing", id |-> 0]
IoError == [type |-> "io_error", id |-> 0]
PeerClose == [type |-> "close", id |-> 0]

Arrivals ==
    {Nothing, IoError, PeerClose}
        \cup {[type |-> r[1], id |-> r[2]] : r \in replies}
        \cup {[type |-> "CON", id |-> i] : i \in {j \in asked : age[j] <= ServerWindow}}

IsReply(msg) == msg.type \in {"ACK", "RST"}

(* next_message_id(): ++message_id on 16 bits.                             *)
next_message_id == (message_id + 1) % (MaxId + 1)

(* The base channel after receive() and, for a RST, after the              *)
(* DISCARD_SESSION that CoAPMessageStore::receive issues.                  *)
OpenAfterReceive(msg) == open /\ msg.type \notin {"io_error", "close", "RST"}

(* CoAPMessageStore::receive on the client store: an ACK or RST removes    *)
(* the request it answers.                                                 *)
client_receive(msg) ==
    IF open /\ IsReply(msg) THEN clear_message(client, msg.id) ELSE client

(* CoAPMessageStore::receive on the server store: a confirmable message    *)
(* seen for the first time is remembered.                                  *)
FirstSeen(msg) == open /\ msg.type = "CON" /\ ~has(server, msg.id)

server_receive(msg) ==
    IF FirstSeen(msg) THEN add(server, msg.id, Expiring("CON")) ELSE server

(* A duplicate is consumed; the stored answer, if any, is sent again.      *)
ResendsAnswer(msg) == open /\ msg.type = "CON" /\ server[msg.id].type \in {"ACK", "RST"}

(* notify_client_messages_processed() reaches clientMessagesProcessed().   *)
NotifyProcessed(had, after) ==
    IF had /\ ~has_messages(after) /\ cloud.flag = "pending"
    THEN [cloud EXCEPT !.flag = "notify_done"]
    ELSE cloud

(* Did this call of process() give up on a device request?                 *)
GivesUp(store) == Expired(store) # {}

-----------------------------------------------------------------------------
(* Handlers of a confirmable request, called by handle_received_message    *)
(* with the server store s and the channel state o that receive() left; c  *)
(* is the value of cloud if event_loop() succeeds.  io says whether DTLS   *)
(* writes succeed.  A failed send or an error result ends event_loop()     *)
(* with an error, and the system disconnects.                              *)

(* describe, variable, function, event, ping, signal, update: an ACK with  *)
(* the id of the request.                                                  *)
Answer(id, s, o, c, io) ==
    /\ server' = send(s, id, "ACK", 0)
    /\ open' = (o /\ io)
    /\ cloud' = IF o /\ io THEN c ELSE Off
    /\ UNCHANGED message_id

(* handle_key_change(): the response Message has no id, so the channel     *)
(* assigns a new one; option 1 then discards the session.                  *)
AnswerKeyChange(s, o, c, io) ==
    \E discard \in BOOLEAN :
        /\ message_id' = next_message_id
        /\ server' = send(s, next_message_id, "ACK", 0)
        /\ open' = (o /\ io /\ ~discard)
        /\ cloud' = IF o /\ io /\ ~discard THEN c ELSE Off

(* handle_chunk() while not updating, and messages of unknown type: no     *)
(* answer and no error.  A request without a token: no answer, an error.   *)
AnswerNothing(s, o, c) ==
    /\ server' = s
    /\ open' = o
    /\ cloud' = c
    /\ UNCHANGED message_id

Handle(id, s, o, c, io) ==
    /\ delivered' = [delivered EXCEPT ![id] = @ + 1]
    /\ \/ kind[id] = "answered" /\ Answer(id, s, o, c, io)
       \/ kind[id] = "key_change" /\ AnswerKeyChange(s, o, c, io)
       \/ kind[id] = "ignored" /\ AnswerNothing(s, o, c)
       \/ kind[id] = "rejected" /\ AnswerNothing(s, o, Off)

-----------------------------------------------------------------------------
(* One call of Protocol::event_loop(): receive(), the message stores'      *)
(* process(), the notification, then the handler or the idle work.         *)
(* connects: success makes handle_cloud_connection() report "connected".   *)
EventLoop(msg, rand, io, connects) ==
    LET c0 == client_receive(msg)
        c1 == process(c0, rand)
        s0 == server_receive(msg)
        s1 == process(s0, rand)
        written == io \/ (Resent(c0) = {} /\ ~ResendsAnswer(msg))
        o == OpenAfterReceive(msg) /\ written /\ ~ClosesChannel(c0) /\ ~ClosesChannel(s0)
        error == ~open \/ msg.type = "io_error" \/ (ResendsAnswer(msg) /\ ~io)
        notified == NotifyProcessed(has_messages(client), c1)
        c == IF connects THEN [notified EXCEPT !.connected = TRUE, !.flag = "none"] ELSE notified
    IN  /\ cloud.socketed /\ sync = NoSync
        /\ client' = c1
        /\ sent' = sent \cup (IF OpenAfterReceive(msg) THEN Resent(c0) ELSE {})
        /\ undelivered' = (undelivered \/ GivesUp(c0) \/ (open /\ msg.type = "RST"))
        /\ IF ~error /\ FirstSeen(msg)
           THEN Handle(msg.id, s1, o, c, io)
           ELSE /\ server' = s1
                /\ open' = o
                /\ cloud' = IF error THEN Off ELSE c
                /\ UNCHANGED <<message_id, delivered>>
        /\ handshaken' = (handshaken /\ cloud'.socketed)
        /\ UNCHANGED <<sync, had_client_messages, replies, asked, kind, age>>

(* Spark_Process_Events() from the system loop.                            *)
ProcessEvents(msg, rand, io) ==
    /\ at = "main" /\ UNCHANGED at
    /\ EventLoop(msg, rand, io, FALSE)

(* Spark_Process_Events() inside Spark_Handshake(): an error disconnects,  *)
(* but Spark_Handshake() goes on.                                          *)
HandshakeEvents(msg, rand, io) ==
    /\ at = "handshaking" /\ at' = "finishing"
    /\ EventLoop(msg, rand, io, FALSE)

(* handle_cloud_connection() when HANDSHAKE_NOTIFY_DONE is set: one more   *)
(* iteration of the communication loop decides.                            *)
ConnectLoop(msg, rand, io) ==
    /\ at = "main" /\ UNCHANGED at
    /\ ~cloud.connected /\ cloud.flag = "notify_done"
    /\ EventLoop(msg, rand, io, TRUE)

(* CoAPReliableChannel::send() of a device request outside the event loop. *)
(* The message is stored before it is written, and stays stored when the   *)
(* write fails.  IdQuiet is the environment's promise that 2^16 ids are    *)
(* enough: an id comes up again only when its last exchange is over.       *)
IdQuiet(id) == ~has(client, id) /\ id \notin sent

Send(type, rand, io) ==
    LET id == next_message_id
    IN  /\ (at = "main" /\ cloud.socketed) \/ at \in {"handshaking", "finishing"}
        /\ sync = NoSync
        /\ IdQuiet(id)
        /\ message_id' = id
        /\ client' = send(client, id, type, rand)
        /\ open' = (open /\ io)
        /\ sent' = IF open /\ io /\ type = "CON" THEN sent \cup {id} ELSE sent
        /\ UNCHANGED <<server, sync, had_client_messages, cloud, at, replies, asked, kind, age, ghosts>>

(* send_synchronous() up to its loop: hello(), UpdateReady and the list of *)
(* missing chunks.  If the write fails the message is cleared and the      *)
(* error ends begin() or event_loop().                                     *)
SendSynchronous(rand, io) ==
    LET id == next_message_id
    IN  /\ at = "hello" \/ (at = "main" /\ cloud.socketed)
        /\ sync = NoSync
        /\ IdQuiet(id)
        /\ message_id' = id
        /\ IF open /\ io
           THEN /\ had_client_messages' = has_messages(client)
                /\ client' = send(client, id, "CON", rand)
                /\ sync' = id
                /\ sent' = sent \cup {id}
                /\ UNCHANGED <<open, cloud, at, handshaken>>
           ELSE /\ open' = FALSE
                /\ cloud' = Off
                /\ at' = "main"
                /\ handshaken' = FALSE
                /\ UNCHANGED <<client, sync, had_client_messages, sent>>
        /\ UNCHANGED <<server, replies, asked, kind, age, delivered, undelivered>>

(* Mutant: a timeout counts as delivered.                                  *)
FlagResetOnly(msg, store) == msg.type = "RST" /\ msg.id = sync

(* The error the delivery handler of send_synchronous() reports: a RST,    *)
(* or no answer to the last transmission.                                  *)
flag_delivered(msg, store) ==
    (msg.type = "RST" /\ msg.id = sync) \/ sync \in Expired(store)

(* Messages that are not acknowledgements are dropped "on the floor since  *)
(* we cannot handle them now": the server store does not see them.         *)
acknowledgements_only(msg) == server

(* One round of the loop in send_synchronous(): only acknowledgements are  *)
(* looked at, confirmable messages are dropped, only the client store is   *)
(* processed.                                                              *)
SynchronousLoop(msg, rand, io) ==
    LET c0 == client_receive(msg)
        c1 == process(c0, rand)
        written == io \/ Resent(c0) = {}
        error == ~open \/ msg.type = "io_error" \/ flag_delivered(msg, c0)
        done == error \/ ~has(c1, sync)
        c2 == IF done THEN clear_message(c1, sync) ELSE c1
        helloDone == done /\ at = "hello"
    IN  /\ sync # NoSync
        /\ client' = c2
        /\ open' = (OpenAfterReceive(msg) /\ written /\ ~ClosesChannel(c0))
        /\ sent' = sent \cup (IF OpenAfterReceive(msg) THEN Resent(c0) ELSE {})
        /\ undelivered' = (undelivered \/ GivesUp(c0) \/ (open /\ msg.type = "RST"))
        /\ sync' = IF done THEN NoSync ELSE sync
        /\ cloud' = IF error THEN Off
                    ELSE IF done THEN NotifyProcessed(had_client_messages, c2) ELSE cloud
        /\ at' = IF error THEN "main" ELSE IF helloDone THEN "handshaking" ELSE at
        /\ handshaken' = (~error /\ (handshaken \/ helloDone))
        /\ had_client_messages' = (~done /\ had_client_messages)
        /\ server' = acknowledgements_only(msg)
        /\ UNCHANGED <<message_id, replies, asked, kind, age, delivered>>

-----------------------------------------------------------------------------
(* establish_cloud_connection(): the socket.                               *)
SocketConnect ==
    /\ at = "main" /\ ~cloud.socketed
    /\ cloud' = [cloud EXCEPT !.socketed = TRUE]
    /\ UNCHANGED <<message_id, client, server, open, sync, had_client_messages, at, network, ghosts>>

(* handle_cloud_connection() calls Spark_Handshake(), which calls begin(). *)
StartsHandshake ==
    at = "main" /\ sync = NoSync /\ cloud.socketed /\ ~cloud.connected /\ cloud.flag = "none"

(* Protocol::begin() up to establish(): both stores are cleared.  Without  *)
(* a valid persisted session, or when it has expired, a full handshake     *)
(* starts a new session.                                                   *)
BeginNewSession ==
    /\ StartsHandshake
    /\ at' = "hello"
    /\ open' = TRUE
    /\ client' = EmptyStore
    /\ server' = EmptyStore
    /\ sent' = {} /\ replies' = {} /\ asked' = {}
    /\ kind' = NoKind /\ age' = [i \in Ids |-> 0]
    /\ delivered' = [i \in Ids |-> 0]
    /\ undelivered' = FALSE
    /\ UNCHANGED <<message_id, sync, had_client_messages, cloud, handshaken>>

(* establish() fails: the session is reset and the system disconnects.     *)
BeginFails ==
    /\ StartsHandshake
    /\ open' = FALSE
    /\ client' = EmptyStore
    /\ server' = EmptyStore
    /\ cloud' = Off
    /\ handshaken' = FALSE
    /\ delivered' = [i \in Ids |-> 0]
    /\ undelivered' = FALSE
    /\ UNCHANGED <<message_id, sync, had_client_messages, at, network>>

(* begin() with SESSION_RESUMED: the session, valid unless it was reset,   *)
(* goes on.  hello() follows unless the application state is unchanged;    *)
(* then ping(true) is sent instead.                                        *)
BeginResumed ==
    /\ StartsHandshake /\ open
    /\ at' = "hello"
    /\ client' = EmptyStore
    /\ server' = EmptyStore
    /\ delivered' = [i \in Ids |-> 0]
    /\ undelivered' = FALSE
    /\ UNCHANGED <<message_id, open, sync, had_client_messages, cloud, network, handshaken>>

BeginResumedWithPing(rand, io) ==
    LET id == next_message_id
    IN  /\ StartsHandshake /\ open
        /\ IdQuiet(id)
        /\ message_id' = id
        /\ client' = send(EmptyStore, id, "CON", rand)
        /\ server' = EmptyStore
        /\ open' = io
        /\ sent' = IF io THEN sent \cup {id} ELSE sent
        /\ cloud' = IF io THEN cloud ELSE Off
        /\ at' = IF io THEN "handshaking" ELSE "main"
        /\ handshaken' = io
        /\ delivered' = [i \in Ids |-> 0]
        /\ undelivered' = FALSE
        /\ UNCHANGED <<sync, had_client_messages, replies, asked, kind, age>>

(* Mutant: the server store is waited for, too.                            *)
FinishHandshakeAnyMessages ==
    /\ at \in {"handshaking", "finishing"}
    /\ at' = "main"
    /\ cloud' = [cloud EXCEPT !.flag =
           IF has_messages(client) \/ has_messages(server) THEN "pending" ELSE "notify_done"]
    /\ UNCHANGED <<message_id, client, server, open, sync, had_client_messages, network, ghosts>>

(* The end of Spark_Handshake(): wait for outstanding messages, or not.    *)
(* A resumed session need not have called Spark_Process_Events().          *)
FinishHandshake ==
    /\ at \in {"handshaking", "finishing"}
    /\ at' = "main"
    /\ cloud' = [cloud EXCEPT !.flag = IF has_messages(client) THEN "pending" ELSE "notify_done"]
    /\ UNCHANGED <<message_id, client, server, open, sync, had_client_messages, network, ghosts>>

(* Mutant: the handshake flag survives the disconnection.                  *)
DisconnectKeepsFlag ==
    /\ at = "main" /\ sync = NoSync /\ cloud.socketed
    /\ cloud' = [Off EXCEPT !.flag = cloud.flag]
    /\ handshaken' = FALSE
    /\ UNCHANGED <<message_id, client, server, open, sync, had_client_messages, at,
                   network, delivered, undelivered>>

(* cloud_disconnect(): the flags are cleared, the stores are not.          *)
Disconnect ==
    /\ at = "main" /\ sync = NoSync /\ cloud.socketed
    /\ cloud' = Off
    /\ handshaken' = FALSE
    /\ UNCHANGED <<message_id, client, server, open, sync, had_client_messages, at,
                   network, delivered, undelivered>>

-----------------------------------------------------------------------------
(* External: the cloud, the network and the clock.                         *)

(* The cloud answers a device request it received.                         *)
CloudReply(type, id) ==
    /\ id \in sent
    /\ replies' = replies \cup {<<type, id>>}
    /\ UNCHANGED <<device, sent, asked, kind, age, ghosts>>

(* The network and the cloud forget an exchange the device is done with.   *)
Forget(id) ==
    /\ id \in sent /\ ~has(client, id)
    /\ sent' = sent \ {id}
    /\ replies' = {r \in replies : r[2] # id}
    /\ UNCHANGED <<device, asked, kind, age, ghosts>>

(* The cloud starts a confirmable request.  RFC 7252 section 4.4: an id is *)
(* not used again while copies of its last request, or the answer the      *)
(* device keeps for it, are around.                                        *)
CloudRequest(id, k) ==
    /\ open
    /\ id \notin asked \/ (age[id] > ServerWindow /\ ~has(server, id))
    /\ asked' = asked \cup {id}
    /\ kind' = [kind EXCEPT ![id] = k]
    /\ age' = [age EXCEPT ![id] = 0]
    /\ delivered' = [delivered EXCEPT ![id] = 0]
    /\ UNCHANGED <<device, sent, replies, undelivered, handshaken>>

Tick ==
    /\ client' = Elapse(client)
    /\ server' = Elapse(server)
    /\ age' = [i \in Ids |-> IF i \in asked /\ age[i] <= ServerWindow THEN age[i] + 1 ELSE age[i]]
    /\ UNCHANGED <<message_id, open, sync, had_client_messages, cloud, at,
                   sent, replies, asked, kind, ghosts>>

-----------------------------------------------------------------------------
Init ==
    /\ message_id = 0
    /\ client = EmptyStore
    /\ server = EmptyStore
    /\ open = FALSE
    /\ sync = NoSync
    /\ had_client_messages = FALSE
    /\ cloud = Off
    /\ at = "main"
    /\ sent = {} /\ replies = {} /\ asked = {}
    /\ kind = NoKind
    /\ age = [i \in Ids |-> 0]
    /\ delivered = [i \in Ids |-> 0]
    /\ undelivered = FALSE
    /\ handshaken = FALSE

Loop ==
    \E msg \in Arrivals, rand \in [Ids -> Rand], io \in BOOLEAN :
        \/ ProcessEvents(msg, rand, io)
        \/ HandshakeEvents(msg, rand, io)
        \/ ConnectLoop(msg, rand, io)

SyncLoop ==
    \E msg \in Arrivals, rand \in [Ids -> Rand], io \in BOOLEAN : SynchronousLoop(msg, rand, io)

System ==
    \/ \E type \in {"CON", "NON"}, rand \in Rand, io \in BOOLEAN : Send(type, rand, io)
    \/ \E rand \in Rand, io \in BOOLEAN : SendSynchronous(rand, io)
    \/ SocketConnect
    \/ BeginNewSession
    \/ BeginFails
    \/ BeginResumed
    \/ \E rand \in Rand, io \in BOOLEAN : BeginResumedWithPing(rand, io)
    \/ FinishHandshake
    \/ Disconnect

External ==
    \/ \E type \in {"ACK", "RST"}, id \in Ids : CloudReply(type, id)
    \/ \E id \in Ids : Forget(id)
    \/ \E id \in ServerIds, k \in Kinds : CloudRequest(id, k)
    \/ Tick

Next == Loop \/ SyncLoop \/ System \/ External

Spec == Init /\ [][Next]_vars

(* The system thread runs the event loop while there is a socket, works    *)
(* through Spark_Handshake() to its end, and time passes.  Fairness is     *)
(* asked only of iterations that receive nothing and whose writes succeed: *)
(* it may not force the network to fail.  Every other iteration does the   *)
(* work of these too, so that none of it can stay undone for ever.         *)
QuietLoop ==
    \E rand \in [Ids -> Rand] :
        \/ ProcessEvents(Nothing, rand, TRUE)
        \/ HandshakeEvents(Nothing, rand, TRUE)
        \/ ConnectLoop(Nothing, rand, TRUE)

QuietSyncLoop == \E rand \in [Ids -> Rand] : SynchronousLoop(Nothing, rand, TRUE)

FairSpec ==
    Spec /\ WF_vars(QuietLoop) /\ WF_vars(QuietSyncLoop)
         /\ WF_vars(FinishHandshake) /\ WF_vars(Tick)

-----------------------------------------------------------------------------
TypeOK ==
    /\ message_id \in Ids
    /\ client \in [Ids -> Message]
    /\ server \in [Ids -> Message]
    /\ open \in BOOLEAN
    /\ sync \in Ids \cup {NoSync}
    /\ had_client_messages \in BOOLEAN
    /\ cloud \in CloudStates
    /\ at \in Places
    /\ sent \in SUBSET Ids
    /\ replies \in SUBSET ({"ACK", "RST"} \X Ids)
    /\ asked \in SUBSET Ids
    /\ kind \in [Ids -> Kinds]
    /\ age \in [Ids -> Nat]
    /\ delivered \in [Ids -> Nat]
    /\ undelivered \in BOOLEAN
    /\ handshaken \in BOOLEAN

(* However the network repeats and delays a confirmable request, its       *)
(* handler runs at most once between two calls of begin(): the server      *)
(* store remembers the id for as long as copies can arrive.                *)
AtMostOnce == \A i \in Ids : delivered[i] <= 1

(* The server store holds "the unhandled confirmable messages received     *)
(* from the server, or the outstanding acknowledgment" (coap_channel.h):   *)
(* a request whose id it holds has been handled, so that no new request is *)
(* taken for a copy of an old one, consumed and acknowledged unseen.       *)
NoRequestSwallowed == \A i \in asked : has(server, i) => delivered[i] > 0

(* HANDSHAKE_PENDING is waited for only while a message is outstanding;    *)
(* else no notification would come to end the wait.                        *)
PendingHasMessages == cloud.flag = "pending" => has_messages(client)

(* send_synchronous() returns without error only if the cloud acknowledged *)
(* that very message.                                                      *)
SynchronousMeansAcknowledged ==
    [][ sync # NoSync /\ sync' = NoSync /\ cloud'.socketed => <<"ACK", sync>> \in replies ]_vars

(* handle_cloud_connection() runs one more iteration "to make sure all     *)
(* handshake messages have been acknowledged successfully": the device     *)
(* never reports itself connected after it gave up on one of them.         *)
ConnectedMeansAcknowledged ==
    [][ ~cloud.connected /\ cloud'.connected => ~undelivered ]_vars

(* establish_cloud_connection(): "Connected" event is generated only after *)
(* a successful handshake (on the socket that is in use).                  *)
ConnectedAfterHandshake == cloud.connected => handshaken

(* A device request does not stay in the store for ever: it is answered or *)
(* given up, or the connection ends.                                       *)
RequestsEnd ==
    \A i \in Ids : has(client, i) ~> (~has(client, i) \/ ~cloud.socketed)

(* send_synchronous() returns.                                             *)
SynchronousEnds == sync # NoSync ~> sync = NoSync
=============================================================================
