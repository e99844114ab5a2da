-------------------------- MODULE ProtocolUpkeep --------------------------
(***************************************************************************)
(* What Protocol does besides answering requests: keep-alive pings         *)
(* (communication/src/ping.h), requests for the time (timesyncmanager.h),  *)
(* published events and their rate limit (publisher.h), and the time       *)
(* allowed for the acknowledgement of an event (ack_handlers in            *)
(* protocol.h), over DTLS.  Completion handlers are reduced to what        *)
(* CompletionHandlers shows of them: each is called once, by an answer, by *)
(* update() or by clear().                                                 *)
(*                                                                         *)
(* Everything runs on the system thread, so a step is a call, except that  *)
(* wait_confirmable() is one step for every call of event_loop().  Time is *)
(* counted in ticks, and a tick is measured from where the code measures   *)
(* it: a stored value of millis() is the number of ticks since then, as    *)
(* far as it can matter.  That millis() overflows after 49.7 days is left  *)
(* out; for the minute of the system events it is not.                     *)
(***************************************************************************)
EXTENDS Integers

CONSTANTS
    Publishes,    \* events that are being published at the same time
    Interval,     \* initialize_ping(): the ping interval of the system
    Intervals,    \* the ping intervals that may be set; 0 means no pings
    PingTimeout,  \* initialize_ping(): ping_timeout
    AckTimeout,   \* SEND_EVENT_ACK_TIMEOUT
    LoopGap,      \* bound: the longest time between two calls of event_loop()
    Burst,        \* events in a burst: recent_event_ticks has one more
    Window,       \* 1000 ms
    SystemLimit,  \* 255 system events in a minute
    Minutes       \* 2^16: number of minutes until millis() >> 16 repeats

ASSUME UpkeepAssumption ==
    /\ Intervals \subseteq Nat /\ Interval \in Intervals
    /\ PingTimeout \in Nat
    /\ \E i \in Intervals : \A j \in Intervals : j <= i
    /\ AckTimeout \in Nat \ {0} /\ LoopGap \in Nat \ {0}
    /\ Burst \in Nat \ {0} /\ Window \in Nat \ {0}
    /\ SystemLimit \in Nat \ {0} /\ Minutes \in Nat \ {0}

VARIABLES
    conn,         \* the system: disconnected, connected, or disconnecting
    open,         \* the channel works
    updating,     \* chunkedTransfer.is_updating()
    idle,         \* ticks since last_message_millis
    expecting,    \* Pinger::expecting_ping_ack
    ping_interval, keepalive_source,
    pending,      \* TimeSyncManager::expectingResponse_
    requested,    \* a request for the time waits for its answer
    left,         \* ack_handlers: time left as of the last update(), 0: none
    since,        \* ticks since last_ack_handlers_update
    recent,       \* ticks since recent_event_ticks, the last one first
    minute,       \* millis() >> 16
    lastMinute, eventsThisMinute,
    quiet,        \* ghost: ticks since a message was received or a ping sent
    heard,        \* ghost: a message was received, or begin(), in this tick
    waited,       \* ghost: ticks since the event was published
    accepted,     \* ghost: the same for the events that were not refused
    systemEvents  \* ghost: system events sent in this minute

pinger == <<idle, expecting, quiet, heard>>
keepalive == <<ping_interval, keepalive_source>>
timesync == <<pending, requested>>
handlers == <<left, since, waited>>
publisher == <<recent, accepted, lastMinute, eventsThisMinute, systemEvents>>
vars == <<conn, open, updating, pinger, keepalive, timesync, handlers, publisher, minute>>

Running == conn \in {"connected", "disconnecting"}

None == [p \in Publishes |-> 0]
-----------------------------------------------------------------------------
(* Mutant: the time between two updates counts twice.                      *)
UpdatedTwice(t) == [p \in Publishes |-> IF left[p] > 2 * t THEN left[p] - 2 * t ELSE 0]

(* CompletionHandlerMap::update(), called first of all by event_loop(): t  *)
(* ticks after the last update().  What was added in between is counted    *)
(* from the last update() on.                                              *)
Updated(t) == [p \in Publishes |-> IF left[p] > t THEN left[p] - t ELSE 0]

(* ack_handlers.clear().                                                   *)
AckHandlersCleared ==
    /\ left' = None
    /\ waited' = None

(* How channel.send() of a confirmable message may end: the message is     *)
(* sent; it is refused, because there is no memory to keep it for          *)
(* retransmission (INSUFFICIENT_STORAGE), and the channel stays open; or   *)
(* the write fails, and the channel with it.                               *)
Outcomes == {"sent", "refused", "failed"}

(* channel.send() returns NO_ERROR.                                        *)
Sent(io) == open /\ io = "sent"

ChannelAfter(io) == open /\ io # "failed"

(* Mutant: the time since the last message goes on.                        *)
PingKeepsClock(io) ==
    /\ quiet' = 0
    /\ open' = ChannelAfter(io)
    /\ UNCHANGED <<idle, heard>>

(* Protocol::ping(): the time since the last message starts again.         *)
ping(io) ==
    /\ idle' = 0 /\ quiet' = 0
    /\ open' = ChannelAfter(io)
    /\ UNCHANGED heard

(* Mutant: the handlers are left to the next begin().                      *)
LostKeepsHandlers ==
    /\ conn' = "disconnected"
    /\ left' = Updated(since)
    /\ UNCHANGED waited

(* event_loop() returned an error: Spark_Process_Events() closes the       *)
(* socket, which issues TERMINATE; wait_confirmable() returns, and         *)
(* DISCONNECT goes on to the same end.                                     *)
Lost ==
    /\ conn' = "disconnected"
    /\ AckHandlersCleared

(* event_loop() goes on after update().                                    *)
Goes ==
    /\ conn' = conn
    /\ left' = Updated(since)
    /\ waited' = [p \in Publishes |-> IF left'[p] = 0 THEN 0 ELSE waited[p]]

(* channel.receive() fails: the channel has been closed, the network or    *)
(* the cloud has closed it, or a message was not acknowledged.             *)
ReceiveFails ==
    /\ Running
    /\ Lost
    /\ since' = 0
    /\ open' = FALSE
    /\ UNCHANGED <<updating, pinger, keepalive, timesync, publisher, minute>>

(* handle_received_message(): any message tells that the cloud is there.   *)
MessageReceived ==
    /\ Running
    /\ open
    /\ since' = 0
    /\ idle' = 0 /\ quiet' = 0 /\ heard' = TRUE
    /\ expecting' = FALSE
    /\ UNCHANGED <<open, keepalive, publisher, minute>>

(* A message of which nothing here depends, or one that begins or ends an  *)
(* update.  Its handler may fail, for want of memory for its answer, say.  *)
Receive ==
    /\ MessageReceived
    /\ Goes \/ Lost
    /\ updating' \in BOOLEAN
    /\ UNCHANGED timesync

(* The answer to a request for the time.                                   *)
ReceiveTime ==
    /\ MessageReceived
    /\ Goes
    /\ requested
    /\ requested' = FALSE
    /\ pending' = FALSE
    /\ UNCHANGED updating

(* An answer without the time: one with an error code is dropped, and so   *)
(* is one that arrives while the handler of another message waits in       *)
(* send_synchronous().  Either is the acknowledgement of the request,      *)
(* which is not sent again.                                                *)
ReceiveNoTime ==
    /\ MessageReceived
    /\ Goes
    /\ requested
    /\ requested' = FALSE
    /\ UNCHANGED <<pending, updating>>

(* The answer to an event: notify_message_complete() takes its handler,    *)
(* unless update() has just called it.                                     *)
ReceiveAck(p) ==
    /\ left[p] # 0
    /\ MessageReceived
    /\ conn' = conn
    /\ left' = [Updated(since) EXCEPT ![p] = 0]
    /\ waited' = [q \in Publishes |-> IF left'[q] = 0 THEN 0 ELSE waited[q]]
    /\ UNCHANGED <<updating, timesync>>

(* event_loop_idle(), when there is no message.                            *)
Idle ==
    /\ Running
    /\ open
    /\ since' = 0

IdleUpdating ==
    /\ Idle
    /\ updating
    /\ Goes
    /\ UNCHANGED <<open, updating, pinger, keepalive, timesync, publisher, minute>>

(* The conditions of Pinger::process().                                    *)
PingDue == ~expecting /\ ping_interval # 0 /\ ping_interval < idle

PingOverdue == expecting /\ PingTimeout < idle

IdleQuiet ==
    /\ Idle
    /\ ~updating
    /\ ~PingDue /\ ~PingOverdue
    /\ Goes
    /\ UNCHANGED <<open, updating, pinger, keepalive, timesync, publisher, minute>>

(* Mutant: the answer is not waited for.                                   *)
IdlePingUnexpected(io) ==
    /\ Idle
    /\ ~updating
    /\ PingDue
    /\ ping(io)
    /\ IF Sent(io) THEN Goes ELSE Lost
    /\ UNCHANGED <<expecting, updating, keepalive, timesync, publisher, minute>>

(* Pinger::process() sends a ping; if that fails, so does event_loop().    *)
IdlePing(io) ==
    /\ Idle
    /\ ~updating
    /\ PingDue
    /\ expecting' = TRUE
    /\ ping(io)
    /\ IF Sent(io) THEN Goes ELSE Lost
    /\ UNCHANGED <<updating, keepalive, timesync, publisher, minute>>

(* PING_TIMEOUT.                                                           *)
IdleTimeout ==
    /\ Idle
    /\ ~updating
    /\ PingOverdue
    /\ Lost
    /\ UNCHANGED <<open, updating, pinger, keepalive, timesync, publisher, minute>>

EventLoop ==
    \/ ReceiveFails
    \/ Receive \/ ReceiveTime \/ ReceiveNoTime \/ \E p \in Publishes : ReceiveAck(p)
    \/ IdleUpdating \/ IdleQuiet \/ IdleTimeout \/ \E io \in Outcomes : IdlePing(io)
-----------------------------------------------------------------------------
(* Protocol::begin() up to channel.establish(), which empties the stores   *)
(* of the channel.                                                         *)
BeginResets ==
    /\ conn = "disconnected"
    /\ updating' = FALSE /\ expecting' = FALSE
    /\ pending' = FALSE /\ requested' = FALSE
    /\ AckHandlersCleared
    /\ since' = 0
    /\ UNCHANGED <<keepalive, publisher, minute>>

BeginFails ==
    /\ BeginResets
    /\ UNCHANGED <<conn, open, idle, quiet, heard>>

(* With HELLO, which also sets last_message_millis, or with a ping for a   *)
(* session that is resumed without it.                                     *)
Begin(hello) ==
    /\ BeginResets
    /\ conn' = "connected"
    /\ open' = TRUE
    /\ idle' = 0 /\ heard' = TRUE
    /\ quiet' = IF hello THEN quiet ELSE 0

(* Particle.disconnect(): DISCONNECT calls wait_confirmable(), which calls *)
(* event_loop() until every message is acknowledged or it gives up.  This  *)
(* is system_cloud_connection_posix.cpp; the compat variant closes a UDP   *)
(* socket without a command, and handlers wait for the next begin().       *)
Disconnect ==
    /\ conn = "connected"
    /\ conn' = "disconnecting"
    /\ UNCHANGED <<open, updating, pinger, keepalive, timesync, handlers, publisher, minute>>

Disconnected ==
    /\ conn = "disconnecting"
    /\ Lost
    /\ UNCHANGED <<open, updating, pinger, keepalive, timesync, since, publisher, minute>>

(* WAKE, after a sleep in which the connection was kept.                   *)
Wake(io) ==
    /\ conn = "connected"
    /\ ping(io)
    /\ UNCHANGED <<conn, expecting, updating, keepalive, timesync, handlers, publisher, minute>>

(* FORCE_PING, after a change of the network: Pinger::process() with the   *)
(* largest time.  Nobody looks at its result.                              *)
ForcePing(io) ==
    /\ conn = "connected"
    /\ ~expecting
    /\ ping_interval # 0
    /\ expecting' = TRUE
    /\ ping(io)
    /\ UNCHANGED <<conn, updating, keepalive, timesync, handlers, publisher, minute>>

(* Pinger::set_interval(): the system does not overrule the application.   *)
SetKeepalive(interval, source) ==
    /\ ~(keepalive_source = "user" /\ source = "system")
    /\ ping_interval' = interval
    /\ keepalive_source' = source
    /\ UNCHANGED <<conn, open, updating, pinger, timesync, handlers, publisher, minute>>

(* TimeSyncManager::send_request(): the flag is set before the request is  *)
(* sent, and stays set if it is not, or if its answer brings no time: only *)
(* begin() clears it then.                                                 *)
SendTimeRequest(io) ==
    /\ conn = "connected"
    /\ ~updating
    /\ ~pending
    /\ pending' = TRUE
    /\ open' = ChannelAfter(io)
    /\ requested' = Sent(io)
    /\ UNCHANGED <<conn, updating, pinger, keepalive, handlers, publisher, minute>>
-----------------------------------------------------------------------------
Capped(t, cap) == IF t < cap THEN t + 1 ELSE cap

(* A ring with the present time in the place of the oldest entry.          *)
Pushed(ring) == [i \in 1..(Burst + 1) |-> IF i = 1 THEN 0 ELSE ring[i - 1]]

(* Mutant: one event too many.                                             *)
LimitedLate(ring) == ring[Burst + 1] + 1 < Window

(* is_rate_limited() of an event of the application: the event Burst       *)
(* events ago, refused ones included.                                      *)
Limited(ring) == ring[Burst + 1] < Window

(* is_rate_limited() of an event of the system, by the minute.             *)
SystemLimited == minute = lastMinute /\ eventsThisMinute = SystemLimit

(* Publisher::send_event() past the rate limit.  An event WITH_ACK gets a  *)
(* handler; for any other the caller's is called at once.  If the event    *)
(* cannot be sent, the caller's is called with an error.                   *)
SendMessage(p, withAck, io) ==
    /\ open' = ChannelAfter(io)
    /\ left' = IF Sent(io) /\ withAck THEN [left EXCEPT ![p] = AckTimeout] ELSE left
    /\ UNCHANGED <<conn, updating, pinger, keepalive, timesync, since, waited, minute>>

(* Protocol::send_event(), which refuses every event during an update.     *)
MayPublish(p) ==
    /\ conn = "connected"
    /\ ~updating
    /\ left[p] = 0

Publish(p, withAck, io) ==
    /\ MayPublish(p)
    /\ ~Limited(Pushed(recent))
    /\ recent' = Pushed(recent)
    /\ accepted' = Pushed(accepted)
    /\ SendMessage(p, withAck, io)
    /\ UNCHANGED <<lastMinute, eventsThisMinute, systemEvents>>

(* The handler of an event that is refused is called with an error.        *)
PublishRefused(p) ==
    /\ MayPublish(p)
    /\ Limited(Pushed(recent))
    /\ recent' = Pushed(recent)
    /\ UNCHANGED <<accepted, lastMinute, eventsThisMinute, systemEvents>>
    /\ UNCHANGED <<conn, open, updating, pinger, keepalive, timesync, handlers, minute>>

(* ++eventsThisMinute, from 0 in a new minute.                             *)
Counted == IF minute = lastMinute THEN eventsThisMinute + 1 ELSE 1

PublishSystem(p, withAck, io) ==
    /\ MayPublish(p)
    /\ ~SystemLimited
    /\ lastMinute' = minute
    /\ eventsThisMinute' = Counted
    /\ systemEvents' = systemEvents + 1
    /\ SendMessage(p, withAck, io)
    /\ UNCHANGED <<recent, accepted>>
-----------------------------------------------------------------------------
(* The largest time since the last message that makes a difference.        *)
IdleCap == 1 + CHOOSE i \in Intervals \cup {PingTimeout} :
                   \A j \in Intervals \cup {PingTimeout} : j <= i

Older(ring) == [i \in 1..(Burst + 1) |-> Capped(ring[i], Window)]

(* Time passes; the event loop runs at least every LoopGap ticks.  A new   *)
(* minute begins now and then.                                             *)
Tick(newMinute) ==
    /\ Running => since < LoopGap
    /\ since' = Capped(since, LoopGap)
    /\ idle' = Capped(idle, IdleCap)
    /\ quiet' = Capped(quiet, PingTimeout + 1) /\ heard' = FALSE
    /\ waited' = [p \in Publishes |->
                     IF left[p] = 0 THEN 0 ELSE Capped(waited[p], AckTimeout + LoopGap + 1)]
    /\ recent' = Older(recent) /\ accepted' = Older(accepted)
    /\ minute' = IF newMinute THEN (minute + 1) % Minutes ELSE minute
    /\ systemEvents' = IF newMinute THEN 0 ELSE systemEvents
    /\ UNCHANGED <<conn, open, updating, expecting, keepalive, left, timesync>>
    /\ UNCHANGED <<lastMinute, eventsThisMinute>>

(* The static variables of is_rate_limited().                              *)
NoEvents == [i \in 1..(Burst + 1) |-> Window]

Init ==
    /\ conn = "disconnected" /\ open = FALSE /\ updating = FALSE
    /\ idle = IdleCap /\ expecting = FALSE /\ quiet = PingTimeout + 1 /\ heard = FALSE
    /\ ping_interval = Interval /\ keepalive_source = "system"
    /\ pending = FALSE /\ requested = FALSE
    /\ left = None /\ waited = None /\ since = 0
    /\ recent = NoEvents /\ accepted = NoEvents
    /\ minute = 0 /\ lastMinute = 0 /\ eventsThisMinute = 0 /\ systemEvents = 0

(* ChunkedTransfer shows that an update that does not go on ends in a      *)
(* reset of the device.                                                    *)
Reset ==
    /\ conn = "connected" /\ updating
    /\ conn' = "disconnected" /\ open' = FALSE /\ updating' = FALSE
    /\ idle' = IdleCap /\ expecting' = FALSE /\ quiet' = PingTimeout + 1 /\ heard' = FALSE
    /\ ping_interval' = Interval /\ keepalive_source' = "system"
    /\ pending' = FALSE /\ requested' = FALSE
    /\ AckHandlersCleared /\ since' = 0
    /\ recent' = NoEvents /\ accepted' = NoEvents
    /\ minute' = 0 /\ lastMinute' = 0 /\ eventsThisMinute' = 0 /\ systemEvents' = 0

Next ==
    \/ EventLoop
    \/ BeginFails
    \/ \E hello \in BOOLEAN : Begin(hello)
    \/ Disconnect \/ Disconnected
    \/ \E io \in Outcomes : Wake(io) \/ ForcePing(io) \/ SendTimeRequest(io)
    \/ \E i \in Intervals, s \in {"system", "user"} : SetKeepalive(i, s)
    \/ \E p \in Publishes, a \in BOOLEAN, io \in Outcomes :
           Publish(p, a, io) \/ PublishSystem(p, a, io)
    \/ \E p \in Publishes : PublishRefused(p)
    \/ \E m \in BOOLEAN : Tick(m)
    \/ Reset

Spec == Init /\ [][Next]_vars

(* The system thread runs the event loop: an iteration that receives       *)
(* nothing and can write happens again and again, and one on a closed      *)
(* channel fails.  wait_confirmable() ends, and so does an update that     *)
(* does not go on.                                                         *)
QuietLoop ==
    \/ IdleUpdating \/ IdleQuiet \/ IdleTimeout \/ IdlePing("sent")
    \/ ~open /\ ReceiveFails

FairSpec ==
    /\ Spec
    /\ WF_vars(QuietLoop)
    /\ WF_vars(Disconnected)
    /\ WF_vars(Reset)
    /\ WF_vars(\E m \in BOOLEAN : Tick(m))
-----------------------------------------------------------------------------
TypeOK ==
    /\ conn \in {"disconnected", "connected", "disconnecting"}
    /\ open \in BOOLEAN /\ updating \in BOOLEAN
    /\ expecting \in BOOLEAN /\ pending \in BOOLEAN /\ requested \in BOOLEAN
    /\ idle \in 0..IdleCap
    /\ ping_interval \in Intervals /\ keepalive_source \in {"system", "user"}
    /\ left \in [Publishes -> 0..AckTimeout]
    /\ since \in 0..LoopGap
    /\ waited \in [Publishes -> 0..(AckTimeout + LoopGap)]
    /\ recent \in [1..(Burst + 1) -> 0..Window]
    /\ accepted \in [1..(Burst + 1) -> 0..Window]
    /\ minute \in 0..(Minutes - 1) /\ lastMinute \in 0..(Minutes - 1)
    /\ eventsThisMinute \in 0..SystemLimit /\ systemEvents \in Nat
    /\ quiet \in 0..(PingTimeout + 1) /\ heard \in BOOLEAN

(* publisher.h: an "allowable burst of 4 events per second", however the   *)
(* attempts and the refusals are spread: of Burst + 1 events the first is  *)
(* a second old.  And 255 system events a minute.                          *)
EventsLimited ==
    /\ accepted[Burst + 1] >= Window
    /\ systemEvents <= SystemLimit

(* protocol_defs.h: SEND_EVENT_ACK_TIMEOUT is the time "given to receive   *)
(* an acknowledgement for a published event".  An event is not given up    *)
(* earlier than that, less the time from the last event loop to publish(), *)
(* and not later than the first event loop after it.                       *)
AckTimeoutInTime ==
    [][\A p \in Publishes :
           Goes /\ left[p] # 0 /\ left'[p] = 0 =>
               AckTimeout - LoopGap <= waited[p] /\ waited[p] <= AckTimeout + LoopGap]_vars

(* PING_TIMEOUT ends a connection only if the cloud has been silent for    *)
(* longer than ping_timeout since the last ping, whatever sent that ping.  *)
PingTimeoutNotEarly ==
    conn = "connected" /\ PingOverdue => quiet > PingTimeout

(* A connection that lasts keeps receiving messages: one whose peer is     *)
(* gone is ended by a ping that is not answered, if there are pings, an    *)
(* update included.  Only WAKE again and again, which restarts the time    *)
(* without waiting for an answer, can put that off for ever.               *)
DeadPeerNoticed ==
    \/ []<>(conn = "disconnected" \/ ping_interval = 0)
    \/ []<>heard
    \/ []<><<\E io \in Outcomes : Wake(io)>>_vars

(* The caller of publish() WITH_ACK gets an answer: the acknowledgement, a *)
(* timeout, or an error when the connection ends (the FIXME in begin()).   *)
PublishEnds == \A p \in Publishes : left[p] # 0 ~> left[p] = 0
=============================================================================
