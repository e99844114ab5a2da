--------------------- MODULE CoAPReliableChannelProofs ---------------------
(***************************************************************************)
(* Proofs about CoAPReliableChannel for every number of ids, every         *)
(* retransmission limit and timeout, and every mix of request kinds.       *)
(***************************************************************************)
EXTENDS CoAPReliableChannel, TLAPS

-----------------------------------------------------------------------------
(* The operators of the message store.                                     *)

(* A retransmission timeout is a natural number.                           *)
LEMMA TransmitTimeoutType ==
    ASSUME NEW n \in 0..MaxRetransmit, NEW r \in Rand
    PROVE  transmit_timeout(n, r) \in Nat
<1>1. 2^n \in Nat
    BY ShiftAssumption
<1>2. AckTimeout \in Nat /\ r \in Nat
    BY StoreAssumption
<1>3. \A t, q \in Nat : t + (t * q) \div 512 \in Nat
    OBVIOUS
<1>4. AckTimeout * 2^n \in Nat
    BY <1>1, <1>2
<1> QED
    BY <1>2, <1>3, <1>4 DEF transmit_timeout

(* The messages the stores are filled with are messages.                   *)
LEMMA MessageTypes ==
    /\ NoMessage \in Message
    /\ EmptyStore \in [Ids -> Message]
    /\ \A type \in {"CON", "ACK", "RST"} : Expiring(type) \in Message
    /\ \A r \in Rand : Outgoing(r) \in Message
<1>1. \A r \in Rand : transmit_timeout(0, r) \in Nat
    BY TransmitTimeoutType, StoreAssumption
<1> QED
    BY <1>1, StoreAssumption DEF NoMessage, EmptyStore, Expiring, Outgoing, Message

(* The operations of a store keep it a store.                              *)
LEMMA StoreTypes ==
    ASSUME NEW store \in [Ids -> Message]
    PROVE  /\ \A id \in Ids : clear_message(store, id) \in [Ids -> Message]
           /\ \A id \in Ids, msg \in Message : add(store, id, msg) \in [Ids -> Message]
           /\ \A id \in Ids, type \in {"CON", "NON"}, r \in Rand :
                  send(store, id, type, r) \in [Ids -> Message]
           /\ \A id \in Ids : send(store, id, "ACK", 0) \in [Ids -> Message]
           /\ \A rand \in [Ids -> Rand] : process(store, rand) \in [Ids -> Message]
           /\ Elapse(store) \in [Ids -> Message]
<1>1. \A id \in Ids, msg \in Message : add(store, id, msg) \in [Ids -> Message]
    BY DEF add
<1>2. \A id \in Ids : clear_message(store, id) \in [Ids -> Message]
    BY MessageTypes DEF clear_message
<1>3. \A id \in Ids, type \in {"CON", "NON"}, r \in Rand :
          send(store, id, type, r) \in [Ids -> Message]
    BY <1>1, MessageTypes DEF send
<1>4. \A id \in Ids : send(store, id, "ACK", 0) \in [Ids -> Message]
    BY <1>1, MessageTypes DEF send
<1>5. ASSUME NEW rand \in [Ids -> Rand]
      PROVE  process(store, rand) \in [Ids -> Message]
  <2>1. ASSUME NEW i \in Resent(store)
        PROVE  transmit_timeout(store[i].count, rand[i]) \in Nat
    <3>1. i \in Ids /\ store[i].count \in 0..MaxRetransmit
        BY StoreAssumption DEF Resent, Due, Message
    <3> QED
        BY <3>1, TransmitTimeoutType
  <2> QED
    BY <2>1, MessageTypes DEF process, Resent, Due, Message
<1>6. Elapse(store) \in [Ids -> Message]
    BY DEF Elapse, Message
<1> QED
    BY <1>1, <1>2, <1>3, <1>4, <1>5, <1>6

-----------------------------------------------------------------------------
(* Type correctness.                                                       *)

(* A message that arrives carries an id.                                   *)
LEMMA ArrivalTypes ==
    ASSUME TypeOK, NEW msg \in Arrivals
    PROVE  /\ msg.id \in Ids
           /\ msg.type = "CON" => msg.id \in asked /\ age[msg.id] <= ServerWindow
           /\ IsReply(msg) => <<msg.type, msg.id>> \in replies
<1>1. 0 \in Ids
    BY StoreAssumption DEF Ids
<1>2. CASE msg \in {Nothing, IoError, PeerClose}
    BY <1>1, <1>2 DEF Nothing, IoError, PeerClose, IsReply
<1>3. CASE msg \in {[type |-> r[1], id |-> r[2]] : r \in replies}
  <2>1. PICK r \in replies : msg = [type |-> r[1], id |-> r[2]]
    BY <1>3
  <2>2. r \in {"ACK", "RST"} \X Ids
    BY <2>1 DEF TypeOK
  <2> QED
    BY <2>1, <2>2
<1>4. CASE msg \in {[type |-> "CON", id |-> i] : i \in {j \in asked : age[j] <= ServerWindow}}
    BY <1>4 DEF TypeOK, IsReply
<1> QED
    BY <1>2, <1>3, <1>4 DEF Arrivals

(* A fresh message id is an id: message_id_t wraps around.                 *)
LEMMA NextIdType ==
    ASSUME TypeOK
    PROVE  next_message_id \in Ids
BY StoreAssumption DEF TypeOK, next_message_id, Ids

(* What event_loop() hands to a handler is well typed.                     *)
LEMMA ReceiveTypes ==
    ASSUME TypeOK, NEW msg \in Arrivals
    PROVE  /\ client_receive(msg) \in [Ids -> Message]
           /\ server_receive(msg) \in [Ids -> Message]
           /\ \A had \in BOOLEAN : \A after : NotifyProcessed(had, after) \in CloudStates
           /\ Off \in CloudStates
<1>1. msg.id \in Ids
    BY ArrivalTypes
<1>2. client_receive(msg) \in [Ids -> Message]
    BY <1>1, StoreTypes DEF client_receive, TypeOK
<1>3. server_receive(msg) \in [Ids -> Message]
    BY <1>1, StoreTypes, MessageTypes DEF server_receive, TypeOK
<1>4. Off \in CloudStates
    BY DEF Off, CloudStates
<1>5. \A had \in BOOLEAN : \A after : NotifyProcessed(had, after) \in CloudStates
    BY DEF NotifyProcessed, TypeOK, CloudStates
<1> QED
    BY <1>2, <1>3, <1>4, <1>5

(* The handlers keep the device state well typed.                          *)
LEMMA HandleType ==
    ASSUME TypeOK, NEW id \in Ids, NEW s \in [Ids -> Message], NEW o \in BOOLEAN,
           NEW c \in CloudStates, NEW io \in BOOLEAN, Handle(id, s, o, c, io)
    PROVE  /\ message_id' \in Ids
           /\ server' \in [Ids -> Message]
           /\ open' \in BOOLEAN
           /\ cloud' \in CloudStates
           /\ delivered' \in [Ids -> Nat]
<1>1. delivered' \in [Ids -> Nat]
    BY DEF Handle, TypeOK
<1>2. Off \in CloudStates
    BY DEF Off, CloudStates
<1>3. CASE Answer(id, s, o, c, io)
    BY <1>1, <1>2, <1>3, StoreTypes DEF Answer, TypeOK
<1>4. CASE AnswerKeyChange(s, o, c, io)
  <2>1. next_message_id \in Ids
    BY NextIdType
  <2>2. send(s, next_message_id, "ACK", 0) \in [Ids -> Message]
    BY <2>1, StoreTypes
  <2> QED
    BY <1>1, <1>2, <1>4, <2>1, <2>2 DEF AnswerKeyChange
<1>5. CASE AnswerNothing(s, o, c)
    BY <1>1, <1>5 DEF AnswerNothing, TypeOK
<1>6. CASE AnswerNothing(s, o, Off)
    BY <1>1, <1>2, <1>6 DEF AnswerNothing, TypeOK
<1> QED
    BY <1>3, <1>4, <1>5, <1>6 DEF Handle

(* One iteration of the event loop keeps the types.                        *)
LEMMA EventLoopType ==
    ASSUME TypeOK, NEW msg \in Arrivals, NEW rand \in [Ids -> Rand],
           NEW io \in BOOLEAN, NEW connects \in BOOLEAN,
           EventLoop(msg, rand, io, connects), at' \in Places
    PROVE  TypeOK'
<1> DEFINE c0 == client_receive(msg)
           c1 == process(c0, rand)
           s0 == server_receive(msg)
           s1 == process(s0, rand)
           written == io \/ (Resent(c0) = {} /\ ~ResendsAnswer(msg))
           o == OpenAfterReceive(msg) /\ written /\ ~ClosesChannel(c0) /\ ~ClosesChannel(s0)
           error == ~open \/ msg.type = "io_error" \/ (ResendsAnswer(msg) /\ ~io)
           notified == NotifyProcessed(has_messages(client), c1)
           c == IF connects THEN [notified EXCEPT !.connected = TRUE, !.flag = "none"] ELSE notified
<1>1. c0 \in [Ids -> Message] /\ s0 \in [Ids -> Message] /\ Off \in CloudStates
    BY ReceiveTypes
<1>2. c1 \in [Ids -> Message] /\ s1 \in [Ids -> Message]
    BY <1>1, StoreTypes
<1>3. has_messages(client) \in BOOLEAN
    BY DEF has_messages
<1>4. notified \in CloudStates
    BY <1>3, ReceiveTypes
<1>5. c \in CloudStates
    BY <1>4 DEF CloudStates
<1>6. o \in BOOLEAN
    BY DEF OpenAfterReceive, TypeOK
<1>7. client' = c1 /\ sync' = sync /\ had_client_messages' = had_client_messages
      /\ replies' = replies /\ asked' = asked /\ kind' = kind /\ age' = age
      /\ sent' = sent \cup (IF OpenAfterReceive(msg) THEN Resent(c0) ELSE {})
      /\ undelivered' \in BOOLEAN /\ handshaken' \in BOOLEAN
    BY DEF EventLoop
<1>8. sent' \in SUBSET Ids
    BY <1>7 DEF Resent, Due, TypeOK
<1>9. /\ message_id' \in Ids
      /\ server' \in [Ids -> Message]
      /\ open' \in BOOLEAN
      /\ cloud' \in CloudStates
      /\ delivered' \in [Ids -> Nat]
  <2>1. CASE ~error /\ FirstSeen(msg)
    <3>1. Handle(msg.id, s1, o, c, io)
        BY <2>1 DEF EventLoop
    <3> HIDE DEF s1, o, c
    <3> QED
        BY <3>1, <1>2, <1>5, <1>6, ArrivalTypes, HandleType
  <2>2. CASE ~(~error /\ FirstSeen(msg))
    <3>1. server' = s1 /\ open' = o /\ cloud' = (IF error THEN Off ELSE c)
          /\ message_id' = message_id /\ delivered' = delivered
        BY <2>2 DEF EventLoop
    <3> HIDE DEF s1, o, c, error
    <3> QED
        BY <3>1, <1>1, <1>2, <1>5, <1>6 DEF TypeOK
  <2> QED
    BY <2>1, <2>2
<1> HIDE DEF c1
<1> QED
    BY <1>2, <1>7, <1>8, <1>9 DEF TypeOK

(* Every action of Next keeps the types.                                   *)
LEMMA NextType ==
    ASSUME TypeOK, [Next]_vars
    PROVE  TypeOK'
<1>1. ASSUME NEW msg \in Arrivals, NEW rand \in [Ids -> Rand], NEW io \in BOOLEAN,
             ProcessEvents(msg, rand, io) \/ HandshakeEvents(msg, rand, io)
                 \/ ConnectLoop(msg, rand, io)
      PROVE  TypeOK'
  <2>1. PICK connects \in BOOLEAN : EventLoop(msg, rand, io, connects)
    BY <1>1 DEF ProcessEvents, HandshakeEvents, ConnectLoop
  <2>2. at' \in Places
    BY <1>1 DEF ProcessEvents, HandshakeEvents, ConnectLoop, Places, TypeOK
  <2> QED
    BY <2>1, <2>2, EventLoopType
<1>2. ASSUME NEW msg \in Arrivals, NEW rand \in [Ids -> Rand], NEW io \in BOOLEAN,
             SynchronousLoop(msg, rand, io)
      PROVE  TypeOK'
  <2> DEFINE c0 == client_receive(msg)
             c1 == process(c0, rand)
             done == (~open \/ msg.type = "io_error" \/ flag_delivered(msg, c0)) \/ ~has(c1, sync)
             c2 == IF done THEN clear_message(c1, sync) ELSE c1
  <2>1. sync \in Ids
    BY <1>2 DEF SynchronousLoop, acknowledgements_only, TypeOK
  <2>2. c0 \in [Ids -> Message]
    BY ReceiveTypes
  <2>3. c1 \in [Ids -> Message]
    BY <2>2, StoreTypes
  <2>4. clear_message(c1, sync) \in [Ids -> Message]
    <3> HIDE DEF c1
    <3> QED BY <2>1, <2>3, StoreTypes
  <2>5. c2 \in [Ids -> Message]
    BY <2>3, <2>4
  <2>6. client' = c2
    BY <1>2 DEF SynchronousLoop
  <2>7. cloud' \in CloudStates
    BY <1>2, ReceiveTypes DEF SynchronousLoop, acknowledgements_only, TypeOK
  <2>8. sent' \in SUBSET Ids
    BY <1>2 DEF SynchronousLoop, Resent, Due, TypeOK
  <2>9. /\ open' \in BOOLEAN /\ undelivered' \in BOOLEAN /\ handshaken' \in BOOLEAN
        /\ had_client_messages' \in BOOLEAN
        /\ sync' \in Ids \cup {NoSync}
        /\ at' \in Places
    BY <1>2 DEF SynchronousLoop, TypeOK, Places
  <2>10. UNCHANGED <<message_id, server, replies, asked, kind, age, delivered>>
    BY <1>2 DEF SynchronousLoop, acknowledgements_only
  <2> HIDE DEF c2
  <2> QED
    BY <2>5, <2>6, <2>7, <2>8, <2>9, <2>10 DEF TypeOK
<1>3. ASSUME NEW type \in {"CON", "NON"}, NEW rand \in Rand, NEW io \in BOOLEAN,
             Send(type, rand, io)
      PROVE  TypeOK'
  <2>1. next_message_id \in Ids
    BY NextIdType
  <2>2. send(client, next_message_id, type, rand) \in [Ids -> Message]
    BY <2>1, StoreTypes DEF TypeOK
  <2> QED
    BY <1>3, <2>1, <2>2 DEF Send, TypeOK, ghosts
<1>4. ASSUME NEW rand \in Rand, NEW io \in BOOLEAN, SendSynchronous(rand, io)
      PROVE  TypeOK'
  <2>1. next_message_id \in Ids
    BY NextIdType
  <2>2. send(client, next_message_id, "CON", rand) \in [Ids -> Message]
    BY <2>1, StoreTypes DEF TypeOK
  <2>3. Off \in CloudStates /\ has_messages(client) \in BOOLEAN
    BY DEF Off, CloudStates, has_messages
  <2>4. CASE open /\ io
    BY <1>4, <2>1, <2>2, <2>3, <2>4 DEF SendSynchronous, TypeOK
  <2>5. CASE ~(open /\ io)
    BY <1>4, <2>1, <2>3, <2>5 DEF SendSynchronous, TypeOK, Places
  <2> QED
    BY <2>4, <2>5
<1>5. CASE SocketConnect
    BY <1>5 DEF SocketConnect, TypeOK, CloudStates, network, ghosts
<1>6. CASE BeginNewSession
  <2>1. NoKind \in [Ids -> Kinds]
    BY ChannelAssumption DEF NoKind
  <2> QED
    BY <1>6, <2>1, MessageTypes DEF BeginNewSession, TypeOK, Places
<1>7. CASE BeginFails
    BY <1>7, MessageTypes DEF BeginFails, TypeOK, Off, CloudStates, network
<1>8. CASE BeginResumed
    BY <1>8, MessageTypes DEF BeginResumed, TypeOK, Places, network
<1>9. ASSUME NEW rand \in Rand, NEW io \in BOOLEAN, BeginResumedWithPing(rand, io)
      PROVE  TypeOK'
  <2>1. next_message_id \in Ids
    BY NextIdType
  <2>2. send(EmptyStore, next_message_id, "CON", rand) \in [Ids -> Message]
    BY <2>1, StoreTypes, MessageTypes
  <2>3. Off \in CloudStates
    BY DEF Off, CloudStates
  <2> QED
    BY <1>9, <2>1, <2>2, <2>3, MessageTypes DEF BeginResumedWithPing, TypeOK, Places
<1>10. CASE FinishHandshake
    BY <1>10 DEF FinishHandshake, TypeOK, Places, CloudStates, network, ghosts
<1>11. CASE Disconnect
    BY <1>11 DEF Disconnect, TypeOK, Off, CloudStates, network
<1>12. ASSUME NEW type \in {"ACK", "RST"}, NEW id \in Ids, CloudReply(type, id)
       PROVE  TypeOK'
    BY <1>12 DEF CloudReply, TypeOK, device, ghosts
<1>13. ASSUME NEW id \in Ids, Forget(id)
       PROVE  TypeOK'
    BY <1>13 DEF Forget, TypeOK, device, ghosts
<1>14. ASSUME NEW id \in ServerIds, NEW k \in Kinds, CloudRequest(id, k)
       PROVE  TypeOK'
    BY <1>14, ChannelAssumption DEF CloudRequest, TypeOK, device
<1>15. CASE Tick
  <2>1. Elapse(client) \in [Ids -> Message] /\ Elapse(server) \in [Ids -> Message]
    BY StoreTypes DEF TypeOK
  <2> QED
    BY <1>15, <2>1 DEF Tick, TypeOK, ghosts
<1>16. CASE UNCHANGED vars
    BY <1>16 DEF TypeOK, vars, device, network, ghosts
<1> QED
    BY <1>1, <1>2, <1>3, <1>4, <1>5, <1>6, <1>7, <1>8, <1>9, <1>10, <1>11, <1>12, <1>13,
       <1>14, <1>15, <1>16
    DEF Next, Loop, SyncLoop, System, External

(* TypeOK is an invariant of the channel, for all constants.               *)
THEOREM TypeCorrect == Spec => []TypeOK
<1>1. Init => TypeOK
  <2>1. NoKind \in [Ids -> Kinds]
    BY ChannelAssumption DEF NoKind
  <2>2. 0 \in Ids
    BY StoreAssumption DEF Ids
  <2>3. Off \in CloudStates /\ "main" \in Places
    BY DEF Off, CloudStates, Places
  <2>4. [i \in Ids |-> 0] \in [Ids -> Nat]
    OBVIOUS
  <2> SUFFICES ASSUME Init PROVE TypeOK
    OBVIOUS
  <2>5. /\ message_id \in Ids
        /\ client \in [Ids -> Message]
        /\ server \in [Ids -> Message]
        /\ kind \in [Ids -> Kinds]
        /\ age \in [Ids -> Nat]
        /\ delivered \in [Ids -> Nat]
    BY <2>1, <2>2, <2>4, MessageTypes DEF Init
  <2> QED
    BY <2>3, <2>5 DEF Init, TypeOK
<1>2. TypeOK /\ [Next]_vars => TypeOK'
    BY NextType
<1> QED
    BY <1>1, <1>2, PTL DEF Spec

-----------------------------------------------------------------------------
(* At-most-once execution of the cloud's requests.                         *)

(* The store s will recognise any copy of request i that is still to come. *)
Covers(s, i) ==
    age[i] > ServerWindow \/ (has(s, i) /\ s[i].left + age[i] > ServerWindow)

(* A request that was handled is covered by the server store.  This is the *)
(* strengthening that makes AtMostOnce inductive.                          *)
Remembered ==
    \A i \in Ids : delivered[i] > 0 => delivered[i] = 1 /\ i \in asked /\ Covers(server, i)

(* Neither process() nor the storing of another answer uncovers a request: *)
(* process() removes an entry only when its time is over.                  *)
LEMMA CoversKept ==
    ASSUME TypeOK, NEW s \in [Ids -> Message], NEW i \in Ids, Covers(s, i)
    PROVE  /\ \A rand \in [Ids -> Rand] : Covers(process(s, rand), i)
           /\ \A j \in Ids, type \in {"CON", "ACK"} : Covers(add(s, j, Expiring(type)), i)
<1>1. /\ s[i].left \in Nat /\ age[i] \in Nat
      /\ ServerWindow \in Nat /\ TransmitSpan \in Nat /\ ServerWindow < TransmitSpan
    BY StoreAssumption, ChannelAssumption DEF TypeOK, Message
<1>2. ASSUME NEW rand \in [Ids -> Rand]
      PROVE  Covers(process(s, rand), i)
  <2>1. CASE i \in Due(s)
    BY <2>1, <1>1 DEF Covers, Due
  <2>2. CASE i \notin Due(s)
    <3>1. process(s, rand)[i] = s[i]
        BY <2>2 DEF process, Expired, Resent
    <3> QED
        BY <3>1 DEF Covers, has
  <2> QED
    BY <2>1, <2>2
<1>3. ASSUME NEW j \in Ids, NEW type \in {"CON", "ACK"}
      PROVE  Covers(add(s, j, Expiring(type)), i)
    BY <1>1 DEF Covers, add, Expiring, has
<1> QED
    BY <1>2, <1>3

(* An entry that has just been stored covers its request.                  *)
LEMMA CoversNew ==
    ASSUME TypeOK, NEW s \in [Ids -> Message], NEW i \in Ids, NEW type \in {"CON", "ACK"}
    PROVE  Covers(add(s, i, Expiring(type)), i)
<1>1. /\ age[i] \in Nat
      /\ ServerWindow \in Nat /\ TransmitSpan \in Nat /\ ServerWindow < TransmitSpan
    BY StoreAssumption, ChannelAssumption DEF TypeOK
<1> QED
    BY <1>1 DEF Covers, add, Expiring, has

(* Handlers only add entries to the server store.                          *)
LEMMA HandleCovers ==
    ASSUME TypeOK, NEW id \in Ids, NEW s \in [Ids -> Message], NEW o, NEW c, NEW io,
           Handle(id, s, o, c, io), NEW i \in Ids, Covers(s, i), age' = age
    PROVE  Covers(server, i)'
<1>1. next_message_id \in Ids
    BY NextIdType
<1>2. \A j \in Ids : send(s, j, "ACK", 0) = add(s, j, Expiring("ACK"))
    BY DEF send
<1>3. \E t \in {s} \cup {add(s, j, Expiring("ACK")) : j \in Ids} : server' = t
    BY <1>1, <1>2 DEF Handle, Answer, AnswerKeyChange, AnswerNothing
<1>4. \A t \in {s} \cup {add(s, j, Expiring("ACK")) : j \in Ids} : Covers(t, i)
    BY CoversKept
<1> QED
    BY <1>3, <1>4 DEF Covers, has

(* An iteration of the event loop hands a request to the application only  *)
(* if it was not handed over before.                                       *)
LEMMA EventLoopRemembers ==
    ASSUME TypeOK, Remembered, NEW msg \in Arrivals, NEW rand \in [Ids -> Rand],
           NEW io \in BOOLEAN, NEW connects \in BOOLEAN, EventLoop(msg, rand, io, connects)
    PROVE  Remembered'
<1> DEFINE s0 == server_receive(msg)
           s1 == process(s0, rand)
<1>1. s0 \in [Ids -> Message]
    BY ReceiveTypes
<1>2. s1 \in [Ids -> Message]
    BY <1>1, StoreTypes
<1>3. age' = age /\ asked' = asked
    BY DEF EventLoop
<1>4. ASSUME NEW i \in Ids, Covers(server, i)
      PROVE  Covers(s1, i)
  <2>1. Covers(s0, i)
    BY <1>4, CoversKept, ArrivalTypes DEF server_receive, TypeOK
  <2> QED
    BY <1>1, <2>1, CoversKept
<1>5. CASE UNCHANGED delivered /\ server' = s1
  <2> HIDE DEF s1
  <2> QED
    BY <1>3, <1>4, <1>5 DEF Remembered, Covers, has
<1>6. CASE /\ FirstSeen(msg)
           /\ \E o, c : Handle(msg.id, s1, o, c, io)
  <2>1. PICK o, c : Handle(msg.id, s1, o, c, io)
    BY <1>6
  <2>2. msg.id \in Ids /\ msg.id \in asked /\ age[msg.id] <= ServerWindow
    BY <1>6, ArrivalTypes DEF FirstSeen
  <2>3. delivered[msg.id] = 0
    <3>1. ~Covers(server, msg.id)
        BY <1>6, <2>2, ChannelAssumption DEF Covers, FirstSeen, TypeOK
    <3> QED
        BY <2>2, <3>1 DEF Remembered, TypeOK
  <2>4. delivered' = [delivered EXCEPT ![msg.id] = 1]
    BY <2>1, <2>2, <2>3 DEF Handle, TypeOK
  <2>5. Covers(s1, msg.id)
    <3>1. Covers(s0, msg.id)
        BY <1>6, <2>2, CoversNew DEF server_receive, TypeOK
    <3> QED
        BY <1>1, <2>2, <3>1, CoversKept
  <2>6. ASSUME NEW i \in Ids, Covers(s1, i)
        PROVE  Covers(server, i)'
    <3> HIDE DEF s1
    <3> QED
        BY <2>1, <2>2, <2>6, <1>2, <1>3, HandleCovers
  <2>7. ASSUME NEW i \in Ids, delivered'[i] > 0
        PROVE  delivered'[i] = 1 /\ i \in asked' /\ Covers(server, i)'
    <3>1. CASE i = msg.id
        BY <3>1, <2>2, <2>4, <2>5, <2>6, <1>3 DEF TypeOK
    <3>2. CASE i # msg.id
      <4>1. delivered'[i] = delivered[i]
        BY <3>2, <2>4 DEF TypeOK
      <4> HIDE DEF s1
      <4> QED
        BY <4>1, <2>7, <2>6, <1>3, <1>4 DEF Remembered
    <3> QED
        BY <3>1, <3>2
  <2> QED
    BY <2>7 DEF Remembered
<1> QED
  <2> HIDE DEF s1
  <2> QED
    BY <1>5, <1>6 DEF EventLoop, s1

(* Every action of Next preserves Remembered.                              *)
LEMMA NextRemembers ==
    ASSUME TypeOK, Remembered, [Next]_vars
    PROVE  Remembered'
<1>1. ASSUME NEW msg \in Arrivals, NEW rand \in [Ids -> Rand], NEW io \in BOOLEAN,
             ProcessEvents(msg, rand, io) \/ HandshakeEvents(msg, rand, io)
                 \/ ConnectLoop(msg, rand, io)
      PROVE  Remembered'
    BY <1>1, EventLoopRemembers DEF ProcessEvents, HandshakeEvents, ConnectLoop
<1>2. CASE UNCHANGED <<server, age, asked, delivered>>
    BY <1>2 DEF Remembered, Covers, has
<1>3. ASSUME delivered' = [i \in Ids |-> 0]
      PROVE  Remembered'
    BY <1>3 DEF Remembered
<1>4. ASSUME NEW id \in ServerIds, NEW k \in Kinds, CloudRequest(id, k)
      PROVE  Remembered'
  <2>1. /\ delivered' = [delivered EXCEPT ![id] = 0]
        /\ age' = [age EXCEPT ![id] = 0]
        /\ asked' = asked \cup {id} /\ server' = server
    BY <1>4 DEF CloudRequest, device
  <2>2. ASSUME NEW i \in Ids, delivered'[i] > 0
        PROVE  delivered'[i] = 1 /\ i \in asked' /\ Covers(server, i)'
    <3>1. i # id
        BY <2>1, <2>2 DEF TypeOK
    <3>2. delivered'[i] = delivered[i] /\ age'[i] = age[i]
        BY <2>1, <3>1 DEF TypeOK
    <3> QED
        BY <2>1, <2>2, <3>2 DEF Remembered, Covers, has
  <2> QED
    BY <2>2 DEF Remembered
<1>5. CASE Tick
  <2>1. ASSUME NEW i \in Ids, delivered'[i] > 0
        PROVE  delivered'[i] = 1 /\ i \in asked' /\ Covers(server, i)'
    <3>1. delivered[i] = 1 /\ i \in asked /\ Covers(server, i) /\ delivered' = delivered
          /\ asked' = asked
        BY <1>5, <2>1 DEF Tick, ghosts, Remembered
    <3>2. age'[i] = IF age[i] <= ServerWindow THEN age[i] + 1 ELSE age[i]
        BY <1>5, <3>1 DEF Tick
    <3>3. server'[i].type = server[i].type
          /\ server'[i].left = IF server[i].left = 0 THEN 0 ELSE server[i].left - 1
        BY <1>5 DEF Tick, Elapse, TypeOK, Message
    <3>4. age[i] \in Nat /\ server[i].left \in Nat /\ ServerWindow \in Nat
        BY ChannelAssumption DEF TypeOK, Message
    <3> QED
        BY <3>1, <3>2, <3>3, <3>4 DEF Covers, has
  <2> QED
    BY <2>1 DEF Remembered
<1>6. CASE SyncLoop
    BY <1>2, <1>6 DEF SyncLoop, SynchronousLoop, acknowledgements_only
<1>7. CASE System
    BY <1>2, <1>3, <1>7
    DEF System, Send, SendSynchronous, SocketConnect, BeginNewSession, BeginFails, BeginResumed,
        BeginResumedWithPing, FinishHandshake, Disconnect, network, ghosts
<1>8. CASE External
    BY <1>2, <1>4, <1>5, <1>8 DEF External, CloudReply, Forget, device, ghosts
<1> QED
    BY <1>1, <1>2, <1>6, <1>7, <1>8 DEF Next, Loop, vars, device, network, ghosts

(* The handler of a confirmable request runs at most once per connection,  *)
(* however the network duplicates, delays and reorders the request, for    *)
(* every mix of answered and unanswered requests, as long as copies stop   *)
(* arriving before MAX_TRANSMIT_SPAN is over.                              *)
THEOREM HandlersRunAtMostOnce == Spec => []AtMostOnce
<1>1. Init => Remembered
    BY DEF Init, Remembered
<1>2. TypeOK /\ Remembered /\ [Next]_vars => Remembered'
    BY NextRemembers
<1>3. TypeOK /\ Remembered => AtMostOnce
    BY DEF TypeOK, Remembered, AtMostOnce
<1> QED
    BY <1>1, <1>2, <1>3, TypeCorrect, PTL DEF Spec

-----------------------------------------------------------------------------
(* The handshake flags and the synchronous send.                           *)

(* Only requests are kept in the client store.                             *)
ClientRequests == \A i \in Ids : client[i].type \in {"none", "CON"}

(* Giving up on a request closes the session.                              *)
GivenUpCloses == undelivered => ~open

(* The message a synchronous send waits for is in the client store.        *)
SyncStored == sync # NoSync => has(client, sync) /\ at \in {"main", "hello"}

(* The wait for outstanding messages, a synchronous send inside it too.    *)
PendingWaits ==
    cloud.flag = "pending" => has_messages(client) /\ (sync # NoSync => had_client_messages)

ConnInv == ClientRequests /\ GivenUpCloses /\ SyncStored /\ PendingWaits

(* What process() does to a store of requests.                             *)
LEMMA ProcessRequests ==
    ASSUME NEW store \in [Ids -> Message], NEW rand \in [Ids -> Rand],
           \A i \in Ids : store[i].type \in {"none", "CON"}
    PROVE  /\ \A i \in Ids : process(store, rand)[i].type \in {"none", "CON"}
           /\ \A i \in Ids : has(store, i) /\ i \notin Expired(store) => has(process(store, rand), i)
           /\ \A i \in Ids : has(process(store, rand), i) => has(store, i)
           /\ GivesUp(store) => ClosesChannel(store)
<1>1. \A i \in Ids : process(store, rand)[i].type \in {"none", "CON"}
    BY DEF process, NoMessage
<1>2. \A i \in Ids : has(store, i) /\ i \notin Expired(store) => has(process(store, rand), i)
    BY DEF process, has
<1>3. \A i \in Ids : has(process(store, rand), i) => has(store, i)
    BY DEF process, has, NoMessage, Resent, Due
<1>4. GivesUp(store) => ClosesChannel(store)
    BY DEF GivesUp, ClosesChannel, Expired, Due, has
<1> QED
    BY <1>1, <1>2, <1>3, <1>4

(* What an arriving message does to the client store.                      *)
LEMMA ClientReceive ==
    ASSUME TypeOK, ClientRequests, NEW msg \in Arrivals
    PROVE  /\ client_receive(msg) \in [Ids -> Message]
           /\ \A i \in Ids : client_receive(msg)[i].type \in {"none", "CON"}
           /\ \A i \in Ids : has(client, i) /\ ~has(client_receive(msg), i)
                  => IsReply(msg) /\ msg.id = i
<1>1. client_receive(msg) \in [Ids -> Message] /\ msg.id \in Ids
    BY ReceiveTypes, ArrivalTypes
<1> QED
    BY <1>1 DEF client_receive, clear_message, NoMessage, has, ClientRequests, TypeOK

(* The event loop.                                                         *)
LEMMA EventLoopConn ==
    ASSUME TypeOK, ConnInv, NEW msg \in Arrivals, NEW rand \in [Ids -> Rand],
           NEW io \in BOOLEAN, NEW connects \in BOOLEAN, EventLoop(msg, rand, io, connects)
    PROVE  /\ ConnInv'
           /\ cloud'.connected /\ ~cloud.connected => ~undelivered
<1> DEFINE c0 == client_receive(msg)
           c1 == process(c0, rand)
           s0 == server_receive(msg)
           o == /\ OpenAfterReceive(msg)
                /\ io \/ (Resent(c0) = {} /\ ~ResendsAnswer(msg))
                /\ ~ClosesChannel(c0) /\ ~ClosesChannel(s0)
           notified == NotifyProcessed(has_messages(client), c1)
           c == IF connects THEN [notified EXCEPT !.connected = TRUE, !.flag = "none"] ELSE notified
<1>1. client' = c1 /\ sync = NoSync /\ sync' = NoSync
      /\ undelivered' = (undelivered \/ GivesUp(c0) \/ (open /\ msg.type = "RST"))
    BY DEF EventLoop
<1>2. c0 \in [Ids -> Message] /\ \A i \in Ids : c0[i].type \in {"none", "CON"}
    BY ClientReceive DEF ConnInv
<1>3. ClientRequests'
  <2> HIDE DEF c0
  <2> QED
    BY <1>1, <1>2, ProcessRequests DEF ClientRequests
<1>4. (open' => o) /\ (cloud' = Off \/ (cloud' = c /\ open))
  <2>1. CASE \E s : Handle(msg.id, s, o, c, io) /\ open
    <3> HIDE DEF o, c
    <3>1. PICK s : Handle(msg.id, s, o, c, io) /\ open
        BY <2>1
    <3>2. CASE Answer(msg.id, s, o, c, io)
        BY <3>1, <3>2, Zenon DEF Answer
    <3>3. CASE AnswerKeyChange(s, o, c, io)
        BY <3>1, <3>3, Zenon DEF AnswerKeyChange
    <3>4. CASE AnswerNothing(s, o, c)
      <4>1. open' = o /\ cloud' = c
        BY <3>4 DEF AnswerNothing
      <4> QED
        BY <3>1, <4>1
    <3>5. CASE AnswerNothing(s, o, Off)
      <4>1. open' = o /\ cloud' = Off
        BY <3>5 DEF AnswerNothing
      <4> QED
        BY <4>1
    <3> QED
        BY <3>1, <3>2, <3>3, <3>4, <3>5 DEF Handle
  <2>2. CASE open' = o /\ (cloud' = Off \/ (cloud' = c /\ open))
    BY <2>2
  <2> QED
    BY <2>1, <2>2 DEF EventLoop
<1>5. GivenUpCloses'
  <2>1. GivesUp(c0) => ClosesChannel(c0)
    <3> HIDE DEF c0
    <3> QED BY <1>2, ProcessRequests
  <2> QED
    BY <1>1, <1>4, <2>1 DEF GivenUpCloses, ConnInv, OpenAfterReceive
<1>6. PendingWaits'
  <2>1. cloud' = c /\ cloud'.flag = "pending" => has_messages(c1)
    <3> HIDE DEF c1
    <3> QED
      BY DEF NotifyProcessed, PendingWaits, ConnInv, TypeOK, CloudStates
  <2>2. Off.flag # "pending"
    BY DEF Off
  <2> HIDE DEF c1, c
  <2> QED
    BY <1>1, <1>4, <2>1, <2>2 DEF PendingWaits, has_messages
<1>7. SyncStored'
    BY <1>1 DEF SyncStored
<1>8. cloud'.connected => ~undelivered \/ cloud.connected
    BY <1>4 DEF Off, GivenUpCloses, ConnInv
<1> QED
    BY <1>3, <1>5, <1>6, <1>7, <1>8 DEF ConnInv

(* The rounds of a synchronous send.                                       *)
LEMMA SynchronousLoopConn ==
    ASSUME TypeOK, ConnInv, NEW msg \in Arrivals, NEW rand \in [Ids -> Rand],
           NEW io \in BOOLEAN, SynchronousLoop(msg, rand, io)
    PROVE  /\ ConnInv'
           /\ cloud'.connected => cloud.connected
           /\ sync' = NoSync /\ cloud'.socketed => <<"ACK", sync>> \in replies
<1> DEFINE c0 == client_receive(msg)
           c1 == process(c0, rand)
           error == ~open \/ msg.type = "io_error" \/ flag_delivered(msg, c0)
           done == error \/ ~has(c1, sync)
           c2 == IF done THEN clear_message(c1, sync) ELSE c1
<1>1. /\ sync \in Ids /\ has(client, sync) /\ at \in {"main", "hello"}
    BY DEF SynchronousLoop, SyncStored, ConnInv, TypeOK
<1>2. c0 \in [Ids -> Message] /\ \A i \in Ids : c0[i].type \in {"none", "CON"}
    BY ClientReceive DEF ConnInv
<1>3. /\ c1 \in [Ids -> Message]
      /\ \A i \in Ids : c1[i].type \in {"none", "CON"}
      /\ has(c0, sync) /\ sync \notin Expired(c0) => has(c1, sync)
      /\ GivesUp(c0) => ClosesChannel(c0)
  <2> HIDE DEF c0
  <2> QED
    BY <1>1, <1>2, ProcessRequests, StoreTypes
<1>4. /\ client' = c2
      /\ sync' = IF done THEN NoSync ELSE sync
      /\ undelivered' = (undelivered \/ GivesUp(c0) \/ (open /\ msg.type = "RST"))
      /\ open' => OpenAfterReceive(msg) /\ ~ClosesChannel(c0)
      /\ had_client_messages' = (~done /\ had_client_messages)
      /\ cloud' = IF error THEN Off
                  ELSE IF done THEN NotifyProcessed(had_client_messages, c2) ELSE cloud
      /\ ~done => at' = at
    BY DEF SynchronousLoop
<1>5. ClientRequests'
  <2> HIDE DEF c1, done
  <2> QED
    BY <1>1, <1>3, <1>4 DEF ClientRequests, clear_message, NoMessage
<1>6. GivenUpCloses'
    BY <1>3, <1>4 DEF GivenUpCloses, ConnInv, OpenAfterReceive
<1>7. SyncStored'
  <2>1. CASE done
    BY <1>4, <2>1 DEF SyncStored
  <2>2. CASE ~done
    <3>1. has(c1, sync) /\ client' = c1 /\ sync' = sync /\ at' = at
        BY <1>4, <2>2
    <3> HIDE DEF c1
    <3> QED
        BY <1>1, <3>1 DEF SyncStored, has
  <2> QED
    BY <2>1, <2>2
<1>8. PendingWaits'
  <2>1. CASE done
    <3>1. cloud'.flag = "pending" => has_messages(c2)
      <4> HIDE DEF c2, error
      <4> QED
        BY <1>1, <1>4, <2>1, ChannelAssumption
        DEF NotifyProcessed, PendingWaits, ConnInv, Off, TypeOK, CloudStates
    <3>2. sync' = NoSync /\ client' = c2
        BY <1>4, <2>1
    <3> HIDE DEF c2
    <3> QED
        BY <3>1, <3>2 DEF PendingWaits, has_messages, has
  <2>2. CASE ~done
    <3>1. has(c1, sync) /\ client' = c1 /\ cloud' = cloud
          /\ had_client_messages' = had_client_messages
        BY <1>4, <2>2 DEF TypeOK
    <3> HIDE DEF c1
    <3> QED
        BY <1>1, <3>1, ChannelAssumption DEF PendingWaits, ConnInv, has_messages, has
  <2> QED
    BY <2>1, <2>2
<1>9. cloud'.connected => cloud.connected
  <2> HIDE DEF c2, error, done
  <2> QED
    BY <1>4 DEF NotifyProcessed, Off, TypeOK, CloudStates
<1>10. ASSUME sync' = NoSync, cloud'.socketed
       PROVE  <<"ACK", sync>> \in replies
  <2>1. ~error
    BY <1>4, <1>10 DEF Off
  <2>2. ~has(c1, sync)
    BY <1>1, <1>4, <1>10, <2>1, ChannelAssumption
  <2>3. ~has(c0, sync)
    BY <1>3, <2>1, <2>2 DEF flag_delivered
  <2>4. IsReply(msg) /\ msg.id = sync
    BY <1>1, <2>3, ClientReceive DEF ConnInv
  <2>5. msg.type = "ACK"
    BY <2>1, <2>4 DEF flag_delivered, IsReply
  <2> QED
    BY <2>4, <2>5, ArrivalTypes
<1> QED
    BY <1>5, <1>6, <1>7, <1>8, <1>9, <1>10 DEF ConnInv

(* Sending stores a request.                                               *)
LEMMA SendRequests ==
    ASSUME NEW store \in [Ids -> Message], NEW id \in Ids, NEW type \in {"CON", "NON"},
           NEW rand \in Rand, \A i \in Ids : store[i].type \in {"none", "CON"}
    PROVE  /\ \A i \in Ids : send(store, id, type, rand)[i].type \in {"none", "CON"}
           /\ \A i \in Ids : has(store, i) => has(send(store, id, type, rand), i)
           /\ type = "CON" => has(send(store, id, type, rand), id)
BY DEF send, add, Outgoing, has

(* All other actions.                                                      *)
LEMMA OtherConn ==
    ASSUME TypeOK, ConnInv, System \/ External \/ UNCHANGED vars
    PROVE  /\ ConnInv'
           /\ cloud'.connected => cloud.connected
           /\ sync # NoSync /\ sync' = NoSync => FALSE
<1> USE DEF ConnInv
<1>1. next_message_id \in Ids
    BY NextIdType
<1>2. Off.flag = "none" /\ ~Off.connected
    BY DEF Off
<1>3. /\ EmptyStore \in [Ids -> Message]
      /\ \A i \in Ids : EmptyStore[i].type \in {"none", "CON"}
    BY MessageTypes DEF EmptyStore, NoMessage
<1>4. ASSUME NEW type \in {"CON", "NON"}, NEW rand \in Rand, NEW io \in BOOLEAN,
             Send(type, rand, io)
      PROVE  ConnInv' /\ cloud' = cloud /\ sync = NoSync /\ sync' = sync
  <2>1. /\ client' = send(client, next_message_id, type, rand)
        /\ cloud' = cloud /\ sync = NoSync /\ sync' = sync
        /\ open' = (open /\ io) /\ undelivered' = undelivered
    BY <1>4 DEF Send, ghosts
  <2>2. ClientRequests' /\ \A i \in Ids : has(client, i) => has(client', i)
    BY <1>1, <2>1, SendRequests DEF ClientRequests, TypeOK
  <2>3. has_messages(client) => has_messages(client')
    BY <2>2 DEF has_messages
  <2>4. PendingWaits'
    BY <2>1, <2>3 DEF PendingWaits, has_messages, has
  <2> QED
    BY <2>1, <2>2, <2>4 DEF GivenUpCloses, SyncStored
<1>5. ASSUME NEW rand \in Rand, NEW io \in BOOLEAN, SendSynchronous(rand, io)
      PROVE  ConnInv' /\ (cloud'.connected => cloud.connected) /\ sync = NoSync
  <2>1. CASE open /\ io
    <3>1. /\ client' = send(client, next_message_id, "CON", rand)
          /\ cloud' = cloud /\ sync = NoSync /\ sync' = next_message_id
          /\ had_client_messages' = has_messages(client)
          /\ open' = open /\ undelivered' = undelivered /\ at' = at
          /\ at \in {"main", "hello"}
        BY <1>5, <2>1 DEF SendSynchronous
    <3>2. ClientRequests' /\ (\A i \in Ids : has(client, i) => has(client', i))
          /\ has(client', sync')
        BY <1>1, <3>1, SendRequests DEF ClientRequests, TypeOK
    <3>3. has_messages(client')
        BY <1>1, <3>1, <3>2 DEF has_messages
    <3>4. PendingWaits'
        BY <3>1, <3>3 DEF PendingWaits, has_messages, has
    <3>5. SyncStored'
        BY <3>1, <3>2 DEF SyncStored, has
    <3> QED
        BY <3>1, <3>2, <3>4, <3>5 DEF GivenUpCloses
  <2>2. CASE ~(open /\ io)
    <3>1. /\ client' = client /\ cloud' = Off /\ sync = NoSync /\ sync' = sync
          /\ open' = FALSE
        BY <1>5, <2>2 DEF SendSynchronous
    <3> QED
        BY <1>2, <3>1 DEF ClientRequests, GivenUpCloses, SyncStored, PendingWaits
  <2> QED
    BY <2>1, <2>2
<1>6. CASE SocketConnect
  <2>1. UNCHANGED <<client, open, sync, had_client_messages, at, undelivered>>
        /\ cloud' = [cloud EXCEPT !.socketed = TRUE]
    BY <1>6 DEF SocketConnect, ghosts
  <2>2. cloud'.flag = cloud.flag /\ cloud'.connected = cloud.connected
    BY <2>1 DEF TypeOK, CloudStates
  <2> QED
    BY <2>1, <2>2 DEF ClientRequests, GivenUpCloses, SyncStored, PendingWaits, has_messages, has
<1>7. CASE BeginNewSession \/ BeginFails \/ BeginResumed
  <2>1. /\ client' = EmptyStore /\ undelivered' = FALSE
        /\ sync = NoSync /\ sync' = sync /\ cloud' \in {cloud, Off} /\ cloud.flag = "none"
    BY <1>7 DEF BeginNewSession, BeginFails, BeginResumed, StartsHandshake
  <2> QED
    BY <1>2, <1>3, <2>1 DEF ClientRequests, GivenUpCloses, SyncStored, PendingWaits
<1>8. ASSUME NEW rand \in Rand, NEW io \in BOOLEAN, BeginResumedWithPing(rand, io)
      PROVE  ConnInv' /\ (cloud'.connected => cloud.connected) /\ sync = NoSync
  <2>1. /\ client' = send(EmptyStore, next_message_id, "CON", rand) /\ undelivered' = FALSE
        /\ sync = NoSync /\ sync' = sync /\ cloud' \in {cloud, Off} /\ cloud.flag = "none"
    BY <1>8 DEF BeginResumedWithPing, StartsHandshake
  <2>2. ClientRequests'
    BY <1>1, <1>3, <2>1, SendRequests DEF ClientRequests
  <2> QED
    BY <1>2, <2>1, <2>2 DEF GivenUpCloses, SyncStored, PendingWaits
<1>9. CASE FinishHandshake
  <2>1. /\ UNCHANGED <<client, open, sync, had_client_messages, undelivered>>
        /\ at \notin {"main", "hello"}
        /\ cloud' = [cloud EXCEPT !.flag =
               IF has_messages(client) THEN "pending" ELSE "notify_done"]
    BY <1>9 DEF FinishHandshake, ghosts
  <2>2. sync = NoSync
    BY <2>1 DEF SyncStored
  <2>3. cloud'.flag = "pending" => has_messages(client)
    BY <2>1 DEF TypeOK, CloudStates
  <2>4. PendingWaits'
    BY <2>1, <2>2, <2>3 DEF PendingWaits, has_messages, has
  <2>5. cloud'.connected = cloud.connected
    BY <2>1 DEF TypeOK, CloudStates
  <2> QED
    BY <2>1, <2>2, <2>4, <2>5 DEF ClientRequests, GivenUpCloses, SyncStored
<1>10. CASE Disconnect
    BY <1>2, <1>10 DEF Disconnect, ClientRequests, GivenUpCloses, SyncStored, PendingWaits
<1>11. CASE Tick
  <2>1. UNCHANGED <<open, sync, had_client_messages, cloud, at, undelivered>>
    BY <1>11 DEF Tick, ghosts
  <2>2. \A i \in Ids : client'[i].type = client[i].type
    BY <1>11 DEF Tick, Elapse, TypeOK, Message
  <2>3. (\A i \in Ids : has(client', i) <=> has(client, i)) /\ ClientRequests'
    BY <2>2 DEF has, ClientRequests
  <2>4. has_messages(client') <=> has_messages(client)
    BY <2>3 DEF has_messages
  <2>5. SyncStored'
    BY <2>1, <2>3 DEF SyncStored, TypeOK, has
  <2>6. PendingWaits'
    BY <2>1, <2>4 DEF PendingWaits, has_messages, has
  <2> QED
    BY <2>1, <2>3, <2>5, <2>6 DEF GivenUpCloses
<1>12. CASE UNCHANGED <<client, open, sync, had_client_messages, cloud, at, undelivered>>
    BY <1>12 DEF ClientRequests, GivenUpCloses, SyncStored, PendingWaits, has_messages, has
<1> QED
    BY <1>4, <1>5, <1>6, <1>7, <1>8, <1>9, <1>10, <1>11, <1>12, <1>2
    DEF System, External, CloudReply, Forget, CloudRequest, Disconnect, vars, device, ghosts

(* What one step does to the connection: the invariant is kept, and the    *)
(* two action properties hold of the step.                                 *)
LEMMA NextConn ==
    ASSUME TypeOK, ConnInv, [Next]_vars
    PROVE  /\ ConnInv'
           /\ ~cloud.connected /\ cloud'.connected => ~undelivered
           /\ sync # NoSync /\ sync' = NoSync /\ cloud'.socketed => <<"ACK", sync>> \in replies
<1>1. CASE Loop
  <2>1. PICK msg \in Arrivals, rand \in [Ids -> Rand], io \in BOOLEAN, connects \in BOOLEAN :
            EventLoop(msg, rand, io, connects)
    BY <1>1 DEF Loop, ProcessEvents, HandshakeEvents, ConnectLoop
  <2>2. sync = NoSync
    BY <2>1 DEF EventLoop
  <2> QED
    BY <2>1, <2>2, EventLoopConn
<1>2. CASE SyncLoop
    BY <1>2, SynchronousLoopConn DEF SyncLoop
<1>3. CASE System \/ External \/ UNCHANGED vars
    BY <1>3, OtherConn
<1> QED
    BY <1>1, <1>2, <1>3 DEF Next

LEMMA ConnInvariant == Spec => []ConnInv
<1>1. Init => ConnInv
    BY DEF Init, ConnInv, ClientRequests, GivenUpCloses, SyncStored, PendingWaits,
           EmptyStore, NoMessage, Off
<1>2. TypeOK /\ ConnInv /\ [Next]_vars => ConnInv'
    BY NextConn
<1> QED
    BY <1>1, <1>2, TypeCorrect, PTL DEF Spec

(* SPARK_CLOUD_HANDSHAKE_PENDING is never set with nothing outstanding:    *)
(* the notification that ends the wait cannot have been missed.            *)
THEOREM NoMissedNotification == Spec => []PendingHasMessages
<1>1. ConnInv => PendingHasMessages
    BY DEF ConnInv, PendingWaits, PendingHasMessages
<1> QED
    BY <1>1, ConnInvariant, PTL

(* send_synchronous() succeeds only for a message the cloud acknowledged.  *)
THEOREM SynchronousSendIsAcknowledged == Spec => SynchronousMeansAcknowledged
<1>1. TypeOK /\ ConnInv /\ [Next]_vars =>
        [sync # NoSync /\ sync' = NoSync /\ cloud'.socketed => <<"ACK", sync>> \in replies]_vars
    BY NextConn
<1> QED
    BY <1>1, TypeCorrect, ConnInvariant, PTL DEF Spec, SynchronousMeansAcknowledged

(* The device reports "connected" only if it gave up on no message of the  *)
(* handshake: giving up closes the session, and a closed session makes the *)
(* deciding iteration of the event loop fail.                              *)
THEOREM ConnectedIsAcknowledged == Spec => ConnectedMeansAcknowledged
<1>1. TypeOK /\ ConnInv /\ [Next]_vars =>
        [~cloud.connected /\ cloud'.connected => ~undelivered]_vars
    BY NextConn
<1> QED
    BY <1>1, TypeCorrect, ConnInvariant, PTL DEF Spec, ConnectedMeansAcknowledged

-----------------------------------------------------------------------------
(* Requests are not taken for copies of others.                            *)

(* What the server store holds was handled; the cloud's own rule for ids   *)
(* makes the rest inductive: it asks with an id the store holds only while *)
(* its last request with that id is under way.                             *)
Handled == \A i \in Ids : has(server, i) => i \in asked /\ delivered[i] > 0

(* process() and the clock add nothing to a store.                         *)
LEMMA NothingAdded ==
    ASSUME NEW store \in [Ids -> Message], NEW i \in Ids
    PROVE  /\ \A rand \in [Ids -> Rand] : has(process(store, rand), i) => has(store, i)
           /\ has(Elapse(store), i) => has(store, i)
<1>1. ASSUME NEW rand \in [Ids -> Rand], has(process(store, rand), i) PROVE has(store, i)
    BY <1>1 DEF process, has, NoMessage, Resent, Due
<1>2. has(Elapse(store), i) => has(store, i)
    BY DEF Elapse, has, Message
<1> QED
    BY <1>1, <1>2

(* An iteration of the event loop stores a request only if it hands it to  *)
(* the application, and no other id when no key change is answered.        *)
LEMMA EventLoopHandles ==
    ASSUME TypeOK, Handled, "key_change" \notin Kinds,
           NEW msg \in Arrivals, NEW rand \in [Ids -> Rand],
           NEW io \in BOOLEAN, NEW connects \in BOOLEAN, EventLoop(msg, rand, io, connects)
    PROVE  Handled'
<1> DEFINE s0 == server_receive(msg)
           s1 == process(s0, rand)
<1>1. s0 \in [Ids -> Message] /\ s1 \in [Ids -> Message] /\ msg.id \in Ids
    BY ReceiveTypes, StoreTypes, ArrivalTypes
<1>2. asked' = asked
    BY DEF EventLoop
<1>3. ASSUME NEW i \in Ids, has(s1, i)
      PROVE  has(server, i) \/ (FirstSeen(msg) /\ i = msg.id)
  <2>1. has(s0, i)
    <3> HIDE DEF s0
    <3> QED
        BY <1>1, <1>3, NothingAdded
  <2> QED
    BY <1>1, <2>1 DEF server_receive, add, has, TypeOK
<1>4. CASE ~FirstSeen(msg)
  <2>1. server' = s1 /\ delivered' = delivered
    BY <1>4 DEF EventLoop
  <2>2. ASSUME NEW i \in Ids, has(server', i) PROVE i \in asked' /\ delivered'[i] > 0
    <3> HIDE DEF s1
    <3>1. has(server, i)
        BY <1>3, <1>4, <2>1, <2>2
    <3> QED
        BY <1>2, <2>1, <3>1 DEF Handled
  <2> QED
    BY <2>2 DEF Handled, has
<1>5. CASE FirstSeen(msg)
  <2>1. msg.id \in asked /\ open /\ msg.type = "CON" /\ ~has(server, msg.id)
    BY <1>5, ArrivalTypes DEF FirstSeen
  <2>2. ~ResendsAnswer(msg)
    BY <2>1 DEF ResendsAnswer, has
  <2>3. \E o, c : Handle(msg.id, s1, o, c, io)
    <3> HIDE DEF s1
    <3> QED
        BY <1>5, <2>1, <2>2 DEF EventLoop, s1
  <2>4. PICK o, c : Handle(msg.id, s1, o, c, io)
    BY <2>3
  <2>5. kind[msg.id] # "key_change"
    BY <1>1 DEF TypeOK
  <2>6. server' = s1 \/ server' = add(s1, msg.id, Expiring("ACK"))
    <3> HIDE DEF s1
    <3> QED
        BY <2>4, <2>5 DEF Handle, Answer, AnswerNothing, send
  <2>7. delivered' = [delivered EXCEPT ![msg.id] = delivered[msg.id] + 1]
    BY <2>4 DEF Handle
  <2>8. ASSUME NEW i \in Ids, has(server', i) PROVE i \in asked' /\ delivered'[i] > 0
    <3>1. i = msg.id \/ has(server, i)
      <4> HIDE DEF s1
      <4>1. has(s1, i) \/ i = msg.id
        BY <1>1, <2>6, <2>8 DEF add, has
      <4> QED
        BY <1>3, <4>1
    <3>2. CASE i = msg.id
      <4>1. delivered'[i] = delivered[i] + 1 /\ delivered[i] \in Nat
        BY <1>1, <2>7, <3>2 DEF TypeOK
      <4> QED
        BY <1>2, <2>1, <3>2, <4>1
    <3>3. CASE i # msg.id
      <4>1. delivered'[i] = delivered[i]
        BY <2>7, <3>3 DEF TypeOK
      <4> QED
        BY <1>2, <3>1, <3>3, <4>1 DEF Handled
    <3> QED
        BY <3>2, <3>3
  <2> QED
    BY <2>8 DEF Handled, has
<1> QED
    BY <1>4, <1>5

(* Every action of Next preserves Handled.                                 *)
LEMMA NextHandles ==
    ASSUME TypeOK, Handled, "key_change" \notin Kinds, [Next]_vars
    PROVE  Handled'
<1>1. ASSUME NEW msg \in Arrivals, NEW rand \in [Ids -> Rand], NEW io \in BOOLEAN,
             ProcessEvents(msg, rand, io) \/ HandshakeEvents(msg, rand, io)
                 \/ ConnectLoop(msg, rand, io)
      PROVE  Handled'
    BY <1>1, EventLoopHandles DEF ProcessEvents, HandshakeEvents, ConnectLoop
<1>2. CASE UNCHANGED <<server, asked, delivered>>
    BY <1>2 DEF Handled, has
<1>3. ASSUME server' = EmptyStore
      PROVE  Handled'
    BY <1>3 DEF Handled, has, EmptyStore, NoMessage
<1>4. ASSUME NEW id \in ServerIds, NEW k \in Kinds, CloudRequest(id, k)
      PROVE  Handled'
  <2>1. /\ delivered' = [delivered EXCEPT ![id] = 0]
        /\ asked' = asked \cup {id} /\ server' = server
        /\ id \notin asked \/ ~has(server, id)
    BY <1>4 DEF CloudRequest, device
  <2>2. id \in Ids /\ ~has(server, id)
    BY <2>1, ChannelAssumption DEF Handled
  <2>3. ASSUME NEW i \in Ids, has(server', i) PROVE i \in asked' /\ delivered'[i] > 0
    <3>1. i # id /\ has(server, i)
        BY <2>1, <2>2, <2>3
    <3>2. delivered'[i] = delivered[i]
        BY <2>1, <3>1 DEF TypeOK
    <3> QED
        BY <2>1, <3>1, <3>2 DEF Handled
  <2> QED
    BY <2>3 DEF Handled, has
<1>5. CASE Tick
  <2>1. server' = Elapse(server) /\ asked' = asked /\ delivered' = delivered
    BY <1>5 DEF Tick, ghosts
  <2>2. ASSUME NEW i \in Ids, has(server', i) PROVE has(server, i)
    BY <2>1, <2>2, NothingAdded DEF TypeOK
  <2> QED
    BY <2>1, <2>2 DEF Handled, has
<1>6. CASE SyncLoop
    BY <1>2, <1>6 DEF SyncLoop, SynchronousLoop, acknowledgements_only
<1>7. CASE System
    BY <1>2, <1>3, <1>7
    DEF System, Send, SendSynchronous, SocketConnect, BeginNewSession, BeginFails, BeginResumed,
        BeginResumedWithPing, FinishHandshake, Disconnect, network, ghosts
<1>8. CASE External
    BY <1>2, <1>4, <1>5, <1>8 DEF External, CloudReply, Forget, device, ghosts
<1> QED
    BY <1>1, <1>2, <1>6, <1>7, <1>8 DEF Next, Loop, vars, device, network, ghosts

(* A request whose id the server store holds has been handled, unless key  *)
(* changes are requested: handle_key_change() answers under an id of its   *)
(* own, which the store then holds as if a request of that id had come.    *)
THEOREM RequestsNotSwallowed ==
    ASSUME "key_change" \notin Kinds
    PROVE  Spec => []NoRequestSwallowed
<1>1. Init => Handled
    BY DEF Init, Handled, has, EmptyStore, NoMessage
<1>2. TypeOK /\ Handled /\ [Next]_vars => Handled'
    BY NextHandles
<1>3. TypeOK /\ Handled => NoRequestSwallowed
    BY DEF TypeOK, Handled, NoRequestSwallowed
<1> QED
    BY <1>1, <1>2, <1>3, TypeCorrect, PTL DEF Spec

-----------------------------------------------------------------------------
(* "Connected" is reported only after a handshake.                         *)

(* Once Spark_Handshake() is past begin(), and as long as a handshake flag *)
(* is set, there has been a handshake on this socket or the session is     *)
(* closed, so that no iteration of the event loop can succeed.             *)
Shaken ==
    /\ cloud.connected => handshaken
    /\ cloud.flag # "none" \/ at \in {"handshaking", "finishing"} => handshaken \/ ~open

(* An iteration of the event loop that disconnects also closes the         *)
(* session, unless a handler rejected its request.                         *)
LEMMA EventLoopShaken ==
    ASSUME TypeOK, Shaken, "rejected" \notin Kinds,
           NEW msg \in Arrivals, NEW rand \in [Ids -> Rand],
           NEW io \in BOOLEAN, NEW connects \in BOOLEAN, EventLoop(msg, rand, io, connects),
           connects => cloud.flag = "notify_done",
           at' \in {"handshaking", "finishing"} => at \in {"handshaking", "finishing"}
    PROVE  Shaken'
<1> DEFINE c0 == client_receive(msg)
           c1 == process(c0, rand)
           s0 == server_receive(msg)
           o == /\ OpenAfterReceive(msg)
                /\ io \/ (Resent(c0) = {} /\ ~ResendsAnswer(msg))
                /\ ~ClosesChannel(c0) /\ ~ClosesChannel(s0)
           error == ~open \/ msg.type = "io_error" \/ (ResendsAnswer(msg) /\ ~io)
           notified == NotifyProcessed(has_messages(client), c1)
           c == IF connects THEN [notified EXCEPT !.connected = TRUE, !.flag = "none"] ELSE notified
<1>1. cloud.socketed /\ handshaken' = (handshaken /\ cloud'.socketed)
    BY DEF EventLoop
<1>2. (o => open) /\ (error => ~o)
    BY DEF OpenAfterReceive
<1>3. /\ open' => o
      /\ (cloud' = Off /\ ~open') \/ (cloud' = c /\ open)
  <2>1. CASE \E s : Handle(msg.id, s, o, c, io) /\ open /\ msg.id \in Ids
    <3> HIDE DEF o, c
    <3>1. PICK s : Handle(msg.id, s, o, c, io) /\ open /\ msg.id \in Ids
        BY <2>1
    <3>2. CASE Answer(msg.id, s, o, c, io)
        BY <3>1, <3>2, Zenon DEF Answer
    <3>3. CASE AnswerKeyChange(s, o, c, io)
        BY <3>1, <3>3, Zenon DEF AnswerKeyChange
    <3>4. CASE AnswerNothing(s, o, c)
      <4>1. open' = o /\ cloud' = c
        BY <3>4 DEF AnswerNothing
      <4> QED
        BY <3>1, <4>1
    <3>5. kind[msg.id] # "rejected"
        BY <3>1 DEF TypeOK
    <3> QED
        BY <3>1, <3>2, <3>3, <3>4, <3>5 DEF Handle
  <2>2. CASE open' = o /\ cloud' = IF error THEN Off ELSE c
    <3> HIDE DEF o, c
    <3>1. CASE error
        BY <1>2, <2>2, <3>1
    <3>2. CASE ~error
        BY <1>2, <2>2, <3>2
    <3> QED
        BY <3>1, <3>2
  <2>3. msg.id \in Ids
    BY ArrivalTypes
  <2> QED
    BY <2>1, <2>2, <2>3 DEF EventLoop
<1>4. /\ notified.socketed /\ notified.connected = cloud.connected
      /\ notified.flag # "none" => cloud.flag # "none"
  <2> HIDE DEF c1
  <2> QED
    BY <1>1 DEF NotifyProcessed, TypeOK, CloudStates
<1>5. /\ c.socketed /\ (c.connected => connects \/ cloud.connected)
      /\ c.flag # "none" => cloud.flag # "none"
  <2>1. notified \in CloudStates
    <3> HIDE DEF c1
    <3> QED
        BY DEF NotifyProcessed, TypeOK, CloudStates
  <2> HIDE DEF notified
  <2> QED
    BY <1>4, <2>1 DEF CloudStates
<1>6. Off.connected = FALSE /\ Off.flag = "none"
    BY DEF Off
<1> HIDE DEF o, c, error
<1>7. CASE cloud' = Off /\ ~open'
    BY <1>6, <1>7 DEF Shaken
<1>8. CASE cloud' = c /\ open
  <2>1. handshaken' = handshaken
    BY <1>1, <1>5, <1>8 DEF TypeOK
  <2> QED
    BY <1>2, <1>3, <1>5, <1>8, <2>1 DEF Shaken
<1> QED
    BY <1>3, <1>7, <1>8

(* Every action of Next preserves Shaken.                                  *)
LEMMA NextShaken ==
    ASSUME TypeOK, ConnInv, Shaken, "rejected" \notin Kinds, [Next]_vars
    PROVE  Shaken'
<1>1. ASSUME NEW msg \in Arrivals, NEW rand \in [Ids -> Rand], NEW io \in BOOLEAN,
             ProcessEvents(msg, rand, io) \/ HandshakeEvents(msg, rand, io)
                 \/ ConnectLoop(msg, rand, io)
      PROVE  Shaken'
    BY <1>1, EventLoopShaken DEF ProcessEvents, HandshakeEvents, ConnectLoop
<1>2. Off.connected = FALSE /\ Off.flag = "none"
    BY DEF Off
<1>3. CASE UNCHANGED <<cloud, at, open, handshaken>>
    BY <1>3 DEF Shaken
<1>4. ASSUME cloud' = Off, at' = "main"
      PROVE  Shaken'
    BY <1>2, <1>4 DEF Shaken
<1>5. ASSUME NEW msg \in Arrivals, NEW rand \in [Ids -> Rand], NEW io \in BOOLEAN,
             SynchronousLoop(msg, rand, io)
      PROVE  Shaken'
  <2> DEFINE c0 == client_receive(msg)
             error == ~open \/ msg.type = "io_error" \/ flag_delivered(msg, c0)
  <2>1. at \in {"main", "hello"}
    BY <1>5 DEF SynchronousLoop, SyncStored, ConnInv
  <2>2. CASE error
    BY <1>4, <1>5, <2>2 DEF SynchronousLoop
  <2>3. CASE ~error
    <3>1. /\ open' => open
          /\ \/ cloud' = cloud
             \/ \E had, after : cloud' = NotifyProcessed(had, after)
          /\ \/ at' = at /\ handshaken' = handshaken
             \/ at = "hello" /\ at' = "handshaking" /\ handshaken' = TRUE
      <4> HIDE DEF error, c0
      <4> QED
        BY <1>5, <2>3 DEF SynchronousLoop, OpenAfterReceive, TypeOK, error, c0
    <3>2. cloud'.connected = cloud.connected /\ (cloud'.flag # "none" => cloud.flag # "none")
        BY <3>1 DEF NotifyProcessed, TypeOK, CloudStates
    <3> QED
        BY <2>1, <3>1, <3>2 DEF Shaken
  <2> QED
    BY <2>2, <2>3
<1>6. ASSUME NEW type \in {"CON", "NON"}, NEW rand \in Rand, NEW io \in BOOLEAN,
             Send(type, rand, io)
      PROVE  Shaken'
    BY <1>6 DEF Send, Shaken, ghosts
<1>7. ASSUME NEW rand \in Rand, NEW io \in BOOLEAN, SendSynchronous(rand, io)
      PROVE  Shaken'
    BY <1>3, <1>4, <1>7 DEF SendSynchronous
<1>8. CASE SocketConnect
  <2>1. cloud'.connected = cloud.connected /\ cloud'.flag = cloud.flag
    BY <1>8 DEF SocketConnect, TypeOK, CloudStates
  <2> QED
    BY <1>8, <2>1 DEF SocketConnect, ghosts, Shaken
<1>9. CASE BeginNewSession \/ BeginResumed
    BY <1>9 DEF BeginNewSession, BeginResumed, StartsHandshake, Shaken
<1>10. CASE BeginFails
    BY <1>4, <1>10 DEF BeginFails, StartsHandshake
<1>11. ASSUME NEW rand \in Rand, NEW io \in BOOLEAN, BeginResumedWithPing(rand, io)
       PROVE  Shaken'
    BY <1>2, <1>11 DEF BeginResumedWithPing, StartsHandshake, Shaken
<1>12. CASE FinishHandshake
  <2>1. cloud'.connected = cloud.connected
    BY <1>12 DEF FinishHandshake, TypeOK, CloudStates
  <2> QED
    BY <1>12, <2>1 DEF FinishHandshake, ghosts, Shaken
<1>13. CASE Disconnect
    BY <1>4, <1>13 DEF Disconnect
<1>14. CASE External
    BY <1>3, <1>14 DEF External, CloudReply, Forget, CloudRequest, Tick, device, ghosts
<1> QED
    BY <1>1, <1>3, <1>5, <1>6, <1>7, <1>8, <1>9, <1>10, <1>11, <1>12, <1>13, <1>14
    DEF Next, Loop, SyncLoop, System, vars, device, ghosts

(* The device reports "connected" only after a successful handshake on the *)
(* socket in use, unless a handler's error can end the event loop inside   *)
(* Spark_Handshake() with the session intact (the rejected requests, for   *)
(* which it is false).                                                     *)
THEOREM ConnectedIsHandshaken ==
    ASSUME "rejected" \notin Kinds
    PROVE  Spec => []ConnectedAfterHandshake
<1>1. Init => Shaken
    BY DEF Init, Shaken, Off
<1>2. TypeOK /\ ConnInv /\ Shaken /\ [Next]_vars => Shaken'
    BY NextShaken
<1>3. Shaken => ConnectedAfterHandshake
    BY DEF Shaken, ConnectedAfterHandshake
<1> QED
    BY <1>1, <1>2, <1>3, TypeCorrect, ConnInvariant, PTL DEF Spec
=============================================================================
