----------------------- MODULE ProtocolUpkeepProofs -----------------------
(***************************************************************************)
(* Pings, rate limits and the acknowledgement of events, for every set of  *)
(* ping intervals, every timeout and every time between two event loops.   *)
(* Each result needs its own strengthening: the clock of the pinger is not *)
(* ahead of the silence it measures (Silence), an event that was accepted  *)
(* is no younger than the attempt in its place of the ring (Attempts), the *)
(* count of this minute covers what was sent in it (ThisMinute), and the   *)
(* time left to an event makes up with the time it waited the timeout,     *)
(* less what passed between the last event loop and publish() (Waiting).   *)
(***************************************************************************)
EXTENDS ProtocolUpkeep, TLAPS

Silence == idle <= quiet \/ quiet > PingTimeout

(* Attempts are in order, the refused ones among them.                     *)
Attempts ==
    /\ \A i \in 1..Burst : recent[i] <= recent[i + 1]
    /\ \A i \in 1..(Burst + 1) : recent[i] <= accepted[i]
    /\ accepted[Burst + 1] >= Window

ThisMinute ==
    /\ minute = lastMinute => systemEvents <= eventsThisMinute
    /\ minute # lastMinute => systemEvents = 0

(* Of one event, from the time its handler was added.                      *)
Waits(l, w, s) == AckTimeout - LoopGap <= w + (l - s) /\ w + (l - s) <= AckTimeout

Waiting ==
    /\ conn = "disconnected" => \A p \in Publishes : left[p] = 0
    /\ \A p \in Publishes : left[p] = 0 => waited[p] = 0
    /\ \A p \in Publishes : left[p] # 0 => Waits(left[p], waited[p], since)

Inv == TypeOK /\ Silence /\ Attempts /\ ThisMinute /\ Waiting
-----------------------------------------------------------------------------
(* No interval and no timeout is beyond what the model counts.             *)
LEMMA IdleCapType == IdleCap \in Nat /\ PingTimeout < IdleCap
<1> DEFINE S == Intervals \cup {PingTimeout}
<1>1. \E i \in S : \A j \in S : j <= i
    <2>1. PICK i \in Intervals : \A j \in Intervals : j <= i
        BY UpkeepAssumption
    <2>2. i \in Nat /\ PingTimeout \in Nat /\ Intervals \subseteq Nat
        BY UpkeepAssumption
    <2>3. CASE PingTimeout <= i
        BY <2>1, <2>3
    <2>4. CASE ~(PingTimeout <= i)
        BY <2>1, <2>2, <2>4
    <2>5. QED
        BY <2>3, <2>4
<1> DEFINE m == CHOOSE i \in S : \A j \in S : j <= i
<1>2. m \in S /\ \A j \in S : j <= m
    BY <1>1
<1>3. S \subseteq Nat /\ PingTimeout \in S
    BY UpkeepAssumption
<1>4. IdleCap = 1 + m
    BY DEF IdleCap
<1>5. QED
    <2>1. m \in Nat /\ PingTimeout <= m /\ PingTimeout \in Nat
        BY <1>2, <1>3
    <2> HIDE DEF m
    <2>2. QED
        BY <1>4, <2>1

(* Time that passes stays within the cap.                                  *)
LEMMA CappedType ==
    ASSUME NEW cap \in Nat, NEW t \in 0..cap
    PROVE  /\ Capped(t, cap) \in 0..cap
           /\ t <= Capped(t, cap)
           /\ t < cap => Capped(t, cap) = t + 1
           /\ t = cap => Capped(t, cap) = cap
BY DEF Capped

(* What update() leaves of the time of an event.                           *)
LEMMA UpdatedType ==
    ASSUME left \in [Publishes -> 0..AckTimeout], since \in 0..LoopGap
    PROVE  /\ Updated(since) \in [Publishes -> 0..AckTimeout]
           /\ \A p \in Publishes :
                  /\ left[p] > since => Updated(since)[p] = left[p] - since
                  /\ left[p] <= since => Updated(since)[p] = 0
BY UpkeepAssumption DEF Updated

(* The ring of the last attempts, or of the last accepted events, keeps    *)
(* its type when it is written and when time passes.                       *)
LEMMA RingType ==
    ASSUME NEW ring \in [1..(Burst + 1) -> 0..Window]
    PROVE  /\ Pushed(ring) \in [1..(Burst + 1) -> 0..Window]
           /\ Older(ring) \in [1..(Burst + 1) -> 0..Window]
           /\ NoEvents \in [1..(Burst + 1) -> 0..Window]
<1> USE UpkeepAssumption
<1>1. Pushed(ring) \in [1..(Burst + 1) -> 0..Window]
    BY DEF Pushed
<1>2. \A i \in 1..(Burst + 1) : Capped(ring[i], Window) \in 0..Window
    BY CappedType
<1>3. QED
    BY <1>1, <1>2 DEF Older, NoEvents

(* The ways in which a step may change the time of the events.             *)
LEMMA HandlersType ==
    ASSUME TypeOK, AckHandlersCleared \/ Goes
    PROVE  /\ left' \in [Publishes -> 0..AckTimeout]
           /\ waited' \in [Publishes -> 0..(AckTimeout + LoopGap)]
<1> USE UpkeepAssumption
<1>1. CASE AckHandlersCleared
    BY <1>1 DEF AckHandlersCleared, None
<1>2. CASE Goes
    BY <1>2, UpdatedType DEF Goes, TypeOK
<1>3. QED
    BY <1>1, <1>2
-----------------------------------------------------------------------------
(* ack_handlers.clear() leaves no event waiting.                           *)
LEMMA ClearedWaiting ==
    ASSUME AckHandlersCleared
    PROVE  Waiting'
BY DEF AckHandlersCleared, None, Waiting

(* update() takes from the time left what has passed since the last one.   *)
LEMMA GoesWaiting ==
    ASSUME TypeOK, Waiting, Goes, since' = 0
    PROVE  Waiting'
<1>1. left \in [Publishes -> 0..AckTimeout] /\ since \in 0..LoopGap
    BY DEF TypeOK
<1>2. conn' = conn /\ left' = Updated(since)
    BY DEF Goes
<1>3. ASSUME NEW p \in Publishes
      PROVE  /\ conn' = "disconnected" => left'[p] = 0
             /\ left'[p] = 0 => waited'[p] = 0
             /\ left'[p] # 0 => Waits(left'[p], waited'[p], since')
    <2>1. left'[p] = 0 \/ (left[p] > since /\ left'[p] = left[p] - since)
        BY <1>1, <1>2, UpdatedType
    <2>2. waited'[p] = IF left'[p] = 0 THEN 0 ELSE waited[p]
        BY DEF Goes
    <2>3. left[p] \in Nat /\ since \in Nat /\ waited[p] \in Nat
        BY <1>1 DEF TypeOK
    <2>4. CASE left'[p] = 0
        BY <2>2, <2>4
    <2>5. CASE left'[p] # 0
        <3>1. left[p] > since /\ left'[p] = left[p] - since /\ waited'[p] = waited[p]
            BY <2>1, <2>2, <2>5
        <3>2. left[p] # 0
            BY <2>3, <3>1
        <3>3. Waits(left[p], waited[p], since) /\ conn # "disconnected"
            BY <3>2 DEF Waiting
        <3>4. QED
            BY <1>2, <2>3, <2>5, <3>1, <3>3 DEF Waits
    <2>6. QED
        BY <2>4, <2>5
<1>4. QED
    BY <1>3 DEF Waiting

(* An iteration of the event loop as far as it concerns the events.        *)
LEMMA LoopWaiting ==
    ASSUME TypeOK, Waiting, since' = 0, Goes \/ Lost
    PROVE  /\ Waiting'
           /\ left' \in [Publishes -> 0..AckTimeout]
           /\ waited' \in [Publishes -> 0..(AckTimeout + LoopGap)]
           /\ conn' \in {"disconnected", "connected", "disconnecting"}
           /\ since' \in 0..LoopGap
<1>1. CASE Goes
    <2>1. Waiting' /\ conn' = conn
        BY <1>1, GoesWaiting DEF Goes
    <2>2. QED
        BY <1>1, <2>1, HandlersType, UpkeepAssumption DEF TypeOK
<1>2. CASE Lost
    <2>1. AckHandlersCleared /\ conn' = "disconnected"
        BY <1>2 DEF Lost
    <2>2. QED
        BY <2>1, ClearedWaiting, HandlersType, UpkeepAssumption
<1>3. QED
    BY <1>1, <1>2

(* Time passes for every event alike.                                      *)
LEMMA TickWaiting ==
    ASSUME TypeOK, Waiting, NEW m \in BOOLEAN, Tick(m)
    PROVE  Waiting' /\ waited' \in [Publishes -> 0..(AckTimeout + LoopGap)]
<1>1. /\ left' = left /\ conn' = conn /\ (Running => since < LoopGap)
      /\ since' = Capped(since, LoopGap)
      /\ left \in [Publishes -> 0..AckTimeout] /\ since \in 0..LoopGap
      /\ waited \in [Publishes -> 0..(AckTimeout + LoopGap)]
    BY DEF Tick, TypeOK
<1>2. ASSUME NEW p \in Publishes
      PROVE  /\ left'[p] = 0 => waited'[p] = 0
             /\ left'[p] # 0 => Waits(left'[p], waited'[p], since')
             /\ waited'[p] \in 0..(AckTimeout + LoopGap)
    <2>1. waited'[p] = IF left[p] = 0 THEN 0 ELSE Capped(waited[p], AckTimeout + LoopGap + 1)
        BY DEF Tick
    <2>2. left[p] \in Nat /\ since \in Nat /\ waited[p] \in Nat
        BY <1>1
    <2>3. CASE left[p] = 0
        BY <1>1, <2>1, <2>3, UpkeepAssumption
    <2>4. CASE left[p] # 0
        <3>1. since < LoopGap /\ Waits(left[p], waited[p], since)
            BY <1>1, <2>4 DEF Waiting, Running, TypeOK
        <3>2. since' = since + 1
            BY <1>1, <3>1 DEF Capped
        <3>3. waited[p] < AckTimeout + LoopGap
            BY <2>2, <2>4, <3>1, UpkeepAssumption DEF Waits
        <3>4. waited'[p] = waited[p] + 1
            BY <2>1, <2>2, <2>4, <3>3, UpkeepAssumption DEF Capped
        <3>5. QED
            BY <1>1, <2>2, <2>4, <3>1, <3>2, <3>3, <3>4, UpkeepAssumption DEF Waits
    <2>5. QED
        BY <2>3, <2>4
<1>3. waited' = [p \in Publishes |-> waited'[p]]
    BY DEF Tick
<1>4. Waiting'
    BY <1>1, <1>2 DEF Waiting
<1>5. waited' \in [Publishes -> 0..(AckTimeout + LoopGap)]
    BY <1>2, <1>3
<1>6. QED
    BY <1>4, <1>5

(* A publish() that gets through gives its event the whole timeout; what   *)
(* passed since the last update() will be taken from it.                   *)
LEMMA SendWaiting ==
    ASSUME TypeOK, Waiting, NEW p \in Publishes, NEW a \in BOOLEAN, NEW io \in Outcomes,
           MayPublish(p), SendMessage(p, a, io)
    PROVE  Waiting' /\ left' \in [Publishes -> 0..AckTimeout]
<1>1. /\ left \in [Publishes -> 0..AckTimeout] /\ since \in 0..LoopGap
      /\ conn = "connected" /\ conn' = conn /\ since' = since /\ waited' = waited
      /\ left[p] = 0
      /\ left' = left \/ left' = [left EXCEPT ![p] = AckTimeout]
    BY DEF TypeOK, MayPublish, SendMessage
<1>2. waited[p] = 0
    BY <1>1 DEF Waiting
<1>3. left' \in [Publishes -> 0..AckTimeout]
    BY <1>1, UpkeepAssumption
<1>4. ASSUME NEW q \in Publishes
      PROVE  /\ left'[q] = 0 => waited'[q] = 0
             /\ left'[q] # 0 => Waits(left'[q], waited'[q], since')
    <2>1. CASE left'[q] = left[q]
        BY <1>1, <2>1 DEF Waiting
    <2>2. CASE left'[q] # left[q]
        <3>1. q = p /\ left'[q] = AckTimeout
            BY <1>1, <2>2
        <3>2. QED
            BY <1>1, <1>2, <3>1, UpkeepAssumption DEF Waits
    <2>3. QED
        BY <2>1, <2>2
<1>5. QED
    BY <1>1, <1>3, <1>4 DEF Waiting
-----------------------------------------------------------------------------
(* An attempt is written to the ring: those behind it keep their order.    *)
LEMMA PushedAttempts ==
    ASSUME TypeOK, Attempts, recent' = Pushed(recent),
           \/ accepted' = accepted
           \/ accepted' = Pushed(accepted) /\ ~Limited(Pushed(recent))
    PROVE  Attempts'
<1> USE UpkeepAssumption
<1>1. /\ recent \in [1..(Burst + 1) -> 0..Window] /\ accepted \in [1..(Burst + 1) -> 0..Window]
      /\ Burst \in Nat \ {0} /\ Window \in Nat
    BY DEF TypeOK
<1>t. recent' \in [1..(Burst + 1) -> 0..Window] /\ accepted' \in [1..(Burst + 1) -> 0..Window]
    BY <1>1, RingType
<1>2. /\ recent'[1] = 0
      /\ \A i \in 1..Burst : recent'[i + 1] = recent[i]
    BY <1>1 DEF Pushed
<1>3. \A i \in 1..Burst : recent'[i] <= recent'[i + 1]
    <2>1. ASSUME NEW i \in 1..Burst PROVE recent'[i] <= recent'[i + 1]
        <3>1. CASE i = 1
            BY <1>1, <1>2, <3>1
        <3>2. CASE i # 1
            <4>1. i - 1 \in 1..Burst /\ (i - 1) + 1 = i
                BY <1>1, <3>2
            <4>2. recent'[i] = recent[i - 1] /\ recent'[i + 1] = recent[i]
                BY <1>2, <4>1
            <4>3. recent[i - 1] <= recent[i]
                BY <4>1 DEF Attempts
            <4>4. QED
                BY <4>2, <4>3
        <3>3. QED
            BY <3>1, <3>2
    <2>2. QED
        BY <2>1
<1>4. \A i \in 1..(Burst + 1) : recent'[i] <= recent[i]
    <2>1. ASSUME NEW i \in 1..(Burst + 1) PROVE recent'[i] <= recent[i]
        <3>1. CASE i = 1
            BY <1>1, <1>2, <3>1
        <3>2. CASE i # 1
            <4>1. i - 1 \in 1..Burst /\ (i - 1) + 1 = i
                BY <1>1, <3>2
            <4>2. recent'[i] = recent[i - 1] /\ recent[i - 1] <= recent[i]
                BY <1>2, <4>1 DEF Attempts
            <4>3. QED
                BY <4>2
        <3>3. QED
            BY <3>1, <3>2
    <2>2. QED
        BY <2>1
<1>5. CASE accepted' = accepted
    <2>1. \A i \in 1..(Burst + 1) : recent'[i] <= accepted'[i]
        <3>1. ASSUME NEW i \in 1..(Burst + 1) PROVE recent'[i] <= accepted[i]
            <4>1. recent'[i] <= recent[i] /\ recent[i] <= accepted[i]
                BY <1>4 DEF Attempts
            <4>2. recent'[i] \in Nat /\ recent[i] \in Nat /\ accepted[i] \in Nat
                BY <1>1, <1>t
            <4>3. QED
                BY <4>1, <4>2
        <3>2. QED
            BY <1>5, <3>1
    <2>2. QED
        BY <1>3, <1>5, <2>1 DEF Attempts
<1>6. CASE accepted' = Pushed(accepted) /\ ~Limited(Pushed(recent))
    <2>1. /\ accepted'[1] = 0
          /\ \A i \in 1..Burst : accepted'[i + 1] = accepted[i]
        BY <1>1, <1>6 DEF Pushed
    <2>2. \A i \in 1..(Burst + 1) : recent'[i] <= accepted'[i]
        <3>1. ASSUME NEW i \in 1..(Burst + 1) PROVE recent'[i] <= accepted'[i]
            <4>1. CASE i = 1
                BY <1>2, <2>1, <4>1
            <4>2. CASE i # 1
                <5>1. i - 1 \in 1..Burst /\ (i - 1) + 1 = i /\ i - 1 \in 1..(Burst + 1)
                    BY <1>1, <4>2
                <5>2. recent'[i] = recent[i - 1] /\ accepted'[i] = accepted[i - 1]
                    BY <1>2, <2>1, <5>1
                <5>3. QED
                    BY <5>1, <5>2 DEF Attempts
            <4>3. QED
                BY <4>1, <4>2
        <3>2. QED
            BY <3>1
    <2>3. accepted'[Burst + 1] >= Window
        <3>1. Burst \in 1..Burst /\ Burst + 1 \in 1..(Burst + 1)
            BY <1>1
        <3>2. recent'[Burst + 1] >= Window
            BY <1>1, <1>6, <3>1, RingType DEF Limited
        <3>3. recent'[Burst + 1] <= accepted'[Burst + 1]
            BY <2>2, <3>1
        <3>4. recent'[Burst + 1] \in Nat /\ accepted'[Burst + 1] \in Nat
            BY <1>1, <1>t, <3>1
        <3>5. QED
            BY <1>1, <3>2, <3>3, <3>4
    <2>4. QED
        BY <1>3, <2>2, <2>3 DEF Attempts
<1>7. QED
    BY <1>5, <1>6

(* Time passes for both rings alike.                                       *)
LEMMA OlderAttempts ==
    ASSUME TypeOK, Attempts, recent' = Older(recent), accepted' = Older(accepted)
    PROVE  Attempts'
<1> USE UpkeepAssumption
<1>1. /\ recent \in [1..(Burst + 1) -> 0..Window] /\ accepted \in [1..(Burst + 1) -> 0..Window]
      /\ Burst \in Nat \ {0} /\ Window \in Nat
    BY DEF TypeOK
<1>2. ASSUME NEW x \in 0..Window, NEW y \in 0..Window, x <= y
      PROVE  Capped(x, Window) <= Capped(y, Window)
    BY <1>1, <1>2 DEF Capped
<1>3. \A i \in 1..(Burst + 1) : /\ recent'[i] = Capped(recent[i], Window)
                                /\ accepted'[i] = Capped(accepted[i], Window)
    BY DEF Older
<1>4. \A i \in 1..Burst : recent'[i] <= recent'[i + 1]
    <2>1. ASSUME NEW i \in 1..Burst PROVE recent'[i] <= recent'[i + 1]
        <3>1. i \in 1..(Burst + 1) /\ i + 1 \in 1..(Burst + 1)
            BY <1>1
        <3>2. recent[i] \in 0..Window /\ recent[i + 1] \in 0..Window /\ recent[i] <= recent[i + 1]
            BY <1>1, <3>1 DEF Attempts
        <3>3. QED
            BY <1>2, <1>3, <3>1, <3>2
    <2>2. QED
        BY <2>1
<1>5. \A i \in 1..(Burst + 1) : recent'[i] <= accepted'[i]
    <2>1. ASSUME NEW i \in 1..(Burst + 1) PROVE recent'[i] <= accepted'[i]
        <3>1. recent[i] \in 0..Window /\ accepted[i] \in 0..Window /\ recent[i] <= accepted[i]
            BY <1>1 DEF Attempts
        <3>2. QED
            BY <1>2, <1>3, <3>1
    <2>2. QED
        BY <2>1
<1>6. accepted'[Burst + 1] >= Window
    <2>1. Burst + 1 \in 1..(Burst + 1)
        BY <1>1
    <2>2. accepted[Burst + 1] = Window
        BY <1>1, <2>1 DEF Attempts
    <2>3. QED
        BY <1>1, <1>3, <2>1, <2>2 DEF Capped
<1>7. QED
    BY <1>4, <1>5, <1>6 DEF Attempts
-----------------------------------------------------------------------------
(* The initial state, which is also the state after a reset.               *)
LEMMA Initial == Init => Inv
<1> SUFFICES ASSUME Init PROVE Inv
    OBVIOUS
<1> USE UpkeepAssumption
<1>1. IdleCap \in Nat
    BY IdleCapType
<1>2. /\ left = [p \in Publishes |-> 0] /\ waited = [p \in Publishes |-> 0]
      /\ recent = [i \in 1..(Burst + 1) |-> Window] /\ accepted = [i \in 1..(Burst + 1) |-> Window]
    BY DEF Init, None, NoEvents
<1>3. TypeOK
    <2>1. /\ conn \in {"disconnected", "connected", "disconnecting"}
          /\ open \in BOOLEAN /\ updating \in BOOLEAN /\ heard \in BOOLEAN
          /\ expecting \in BOOLEAN /\ pending \in BOOLEAN /\ requested \in BOOLEAN
        BY DEF Init
    <2>2. /\ idle \in 0..IdleCap /\ quiet \in 0..(PingTimeout + 1) /\ since \in 0..LoopGap
          /\ ping_interval \in Intervals /\ keepalive_source \in {"system", "user"}
        BY <1>1 DEF Init
    <2>3. /\ left \in [Publishes -> 0..AckTimeout]
          /\ waited \in [Publishes -> 0..(AckTimeout + LoopGap)]
        BY <1>2
    <2>4. recent \in [1..(Burst + 1) -> 0..Window] /\ accepted \in [1..(Burst + 1) -> 0..Window]
        BY <1>2
    <2>5. /\ minute \in 0..(Minutes - 1) /\ lastMinute \in 0..(Minutes - 1)
          /\ eventsThisMinute \in 0..SystemLimit /\ systemEvents \in Nat
        BY DEF Init
    <2>6. QED
        BY <2>1, <2>2, <2>3, <2>4, <2>5 DEF TypeOK
<1>4. Silence /\ ThisMinute
    BY DEF Init, Silence, ThisMinute
<1>5. Attempts
    BY <1>2 DEF Attempts
<1>6. Waiting
    BY <1>2 DEF Waiting
<1>7. QED
    BY <1>3, <1>4, <1>5, <1>6 DEF Inv

(* What an iteration of the event loop, a ping or a request for the time   *)
(* has to show for itself: the publisher is not concerned.                 *)
LEMMA Assemble ==
    ASSUME Inv,
           conn' \in {"disconnected", "connected", "disconnecting"}, open' \in BOOLEAN,
           updating' \in BOOLEAN, expecting' \in BOOLEAN, pending' \in BOOLEAN,
           requested' \in BOOLEAN, heard' \in BOOLEAN,
           left' \in [Publishes -> 0..AckTimeout], since' \in 0..LoopGap,
           waited' \in [Publishes -> 0..(AckTimeout + LoopGap)], Waiting',
           (idle' = idle /\ quiet' = quiet) \/ (idle' = 0 /\ quiet' \in {quiet, 0}),
           ping_interval' = ping_interval, keepalive_source' = keepalive_source,
           publisher' = publisher, minute' = minute
    PROVE  Inv'
<1>1. TypeOK /\ Silence /\ Attempts /\ ThisMinute
    BY DEF Inv
<1>2. /\ recent' = recent /\ accepted' = accepted /\ lastMinute' = lastMinute
      /\ eventsThisMinute' = eventsThisMinute /\ systemEvents' = systemEvents
    BY DEF publisher
<1>3. idle' \in 0..IdleCap /\ quiet' \in 0..(PingTimeout + 1) /\ Silence'
    BY <1>1, IdleCapType, UpkeepAssumption DEF TypeOK, Silence
<1>4. Attempts' /\ ThisMinute'
    BY <1>1, <1>2 DEF Attempts, ThisMinute
<1>5. TypeOK'
    BY <1>1, <1>2, <1>3 DEF TypeOK
<1>6. QED
    BY <1>3, <1>4, <1>5 DEF Inv

(* Every step keeps the invariant.                                         *)
LEMMA Step ==
    ASSUME Inv, [Next]_vars
    PROVE  Inv'
<1>t. TypeOK /\ Silence /\ Attempts /\ ThisMinute /\ Waiting
    BY DEF Inv
<1>b. /\ conn \in {"disconnected", "connected", "disconnecting"} /\ open \in BOOLEAN
      /\ updating \in BOOLEAN /\ expecting \in BOOLEAN /\ pending \in BOOLEAN
      /\ requested \in BOOLEAN /\ heard \in BOOLEAN
      /\ left \in [Publishes -> 0..AckTimeout] /\ since \in 0..LoopGap
      /\ waited \in [Publishes -> 0..(AckTimeout + LoopGap)]
    BY <1>t DEF TypeOK
<1>k. ASSUME conn' = conn, left' = left, waited' = waited, since' = since PROVE Waiting'
    BY <1>k, <1>t DEF Waiting
<1>1. CASE ReceiveFails
    BY <1>1, <1>t, <1>b, LoopWaiting, Assemble DEF ReceiveFails, pinger, keepalive, timesync
<1>2. CASE Receive
    BY <1>2, <1>t, <1>b, LoopWaiting, Assemble DEF Receive, MessageReceived, keepalive, timesync
<1>3. CASE ReceiveTime
    BY <1>3, <1>t, <1>b, LoopWaiting, Assemble DEF ReceiveTime, MessageReceived, keepalive
<1>25. CASE ReceiveNoTime
    BY <1>25, <1>t, <1>b, LoopWaiting, Assemble DEF ReceiveNoTime, MessageReceived, keepalive
<1>4. ASSUME NEW p \in Publishes, ReceiveAck(p) PROVE Inv'
    <2>1. /\ left' = [Updated(since) EXCEPT ![p] = 0] /\ conn' = conn /\ since' = 0
          /\ waited' = [q \in Publishes |-> IF left'[q] = 0 THEN 0 ELSE waited[q]]
        BY <1>4 DEF ReceiveAck, MessageReceived
    <2>2. left' \in [Publishes -> 0..AckTimeout]
        BY <1>b, <2>1, UpdatedType, UpkeepAssumption
    <2>3. ASSUME NEW q \in Publishes
          PROVE  /\ conn' = "disconnected" => left'[q] = 0
                 /\ left'[q] = 0 => waited'[q] = 0
                 /\ left'[q] # 0 => Waits(left'[q], waited'[q], since')
        <3>1. left'[q] = 0 \/ (left[q] > since /\ left'[q] = left[q] - since)
            BY <1>b, <2>1, UpdatedType
        <3>2. left[q] \in Nat /\ since \in Nat /\ waited[q] \in Nat
            BY <1>b
        <3>3. left'[q] # 0 => Waits(left[q], waited[q], since) /\ conn # "disconnected"
            BY <1>t, <3>1, <3>2 DEF Waiting
        <3>4. QED
            BY <2>1, <3>1, <3>2, <3>3, UpkeepAssumption DEF Waits
    <2>4. Waiting'
        BY <2>3 DEF Waiting
    <2>5. waited' \in [Publishes -> 0..(AckTimeout + LoopGap)] /\ since' \in 0..LoopGap
        BY <1>b, <2>1, UpkeepAssumption
    <2>6. QED
        BY <1>4, <1>b, <2>1, <2>2, <2>4, <2>5, Assemble
        DEF ReceiveAck, MessageReceived, keepalive, timesync
<1>5. CASE IdleUpdating
    BY <1>5, <1>t, <1>b, LoopWaiting, Assemble DEF IdleUpdating, Idle, pinger, keepalive, timesync
<1>6. CASE IdleQuiet
    BY <1>6, <1>t, <1>b, LoopWaiting, Assemble DEF IdleQuiet, Idle, pinger, keepalive, timesync
<1>7. CASE IdleTimeout
    BY <1>7, <1>t, <1>b, LoopWaiting, Assemble DEF IdleTimeout, Idle, pinger, keepalive, timesync
<1>8. ASSUME NEW io \in Outcomes, IdlePing(io) PROVE Inv'
    <2>1. since' = 0 /\ (Goes \/ Lost) /\ open' \in BOOLEAN
        BY <1>8, <1>b DEF IdlePing, Idle, ping, ChannelAfter
    <2>2. QED
        BY <1>8, <1>t, <1>b, <2>1, LoopWaiting, Assemble DEF IdlePing, ping, keepalive, timesync
<1>9. ASSUME BeginResets,
             conn' \in {"disconnected", "connected"}, open' \in BOOLEAN, heard' \in BOOLEAN,
             (idle' = idle /\ quiet' = quiet) \/ (idle' = 0 /\ quiet' \in {quiet, 0})
      PROVE  Inv'
    <2>1. Waiting' /\ since' = 0 /\ since' \in 0..LoopGap
        BY <1>9, ClearedWaiting, UpkeepAssumption DEF BeginResets
    <2>2. /\ left' \in [Publishes -> 0..AckTimeout]
          /\ waited' \in [Publishes -> 0..(AckTimeout + LoopGap)]
        BY <1>9, <1>t, HandlersType DEF BeginResets
    <2>3. QED
        BY <1>9, <1>b, <2>1, <2>2, Assemble DEF BeginResets, keepalive
<1>10. CASE BeginFails
    BY <1>10, <1>9, <1>b DEF BeginFails, BeginResets
<1>11. ASSUME NEW hello \in BOOLEAN, Begin(hello) PROVE Inv'
    BY <1>11, <1>9 DEF Begin
<1>12. CASE Disconnect
    <2>1. conn' = "disconnecting" /\ Waiting'
        BY <1>12, <1>t DEF Disconnect, Waiting, handlers
    <2>2. QED
        BY <1>12, <1>b, <2>1, Assemble DEF Disconnect, pinger, keepalive, timesync, handlers
<1>13. CASE Disconnected
    <2>1. Waiting' /\ conn' = "disconnected"
        BY <1>13, ClearedWaiting DEF Disconnected, Lost
    <2>2. /\ left' \in [Publishes -> 0..AckTimeout]
          /\ waited' \in [Publishes -> 0..(AckTimeout + LoopGap)]
        BY <1>13, <1>t, HandlersType DEF Disconnected, Lost
    <2>3. QED
        BY <1>13, <1>b, <2>1, <2>2, Assemble DEF Disconnected, pinger, keepalive, timesync
<1>14. ASSUME NEW io \in Outcomes, Wake(io) PROVE Inv'
    <2>1. Waiting' /\ open' \in BOOLEAN
        BY <1>14, <1>k DEF Wake, handlers, ping, ChannelAfter
    <2>2. QED
        BY <1>14, <1>b, <2>1, Assemble DEF Wake, ping, keepalive, timesync, handlers
<1>15. ASSUME NEW io \in Outcomes, ForcePing(io) PROVE Inv'
    <2>1. Waiting' /\ open' \in BOOLEAN
        BY <1>15, <1>k DEF ForcePing, handlers, ping, ChannelAfter
    <2>2. QED
        BY <1>15, <1>b, <2>1, Assemble DEF ForcePing, ping, keepalive, timesync, handlers
<1>16. ASSUME NEW io \in Outcomes, SendTimeRequest(io) PROVE Inv'
    <2>1. Waiting' /\ open' \in BOOLEAN /\ requested' \in BOOLEAN
        BY <1>16, <1>k DEF SendTimeRequest, handlers, ChannelAfter, Sent
    <2>2. QED
        BY <1>16, <1>b, <2>1, Assemble DEF SendTimeRequest, pinger, keepalive, handlers
<1>17. ASSUME NEW i \in Intervals, NEW s \in {"system", "user"}, SetKeepalive(i, s) PROVE Inv'
    <2>1. /\ UNCHANGED <<conn, open, updating, minute, idle, expecting, quiet, heard, pending,
                         requested, left, since, waited, recent, accepted, lastMinute,
                         eventsThisMinute, systemEvents>>
          /\ ping_interval' \in Intervals /\ keepalive_source' \in {"system", "user"}
        BY <1>17 DEF SetKeepalive, pinger, timesync, handlers, publisher
    <2>2. TypeOK'
        BY <1>t, <2>1 DEF TypeOK
    <2>3. Silence' /\ Attempts' /\ ThisMinute' /\ Waiting'
        BY <1>t, <2>1 DEF Silence, Attempts, ThisMinute, Waiting
    <2>4. QED
        BY <2>2, <2>3 DEF Inv
<1>18. ASSUME NEW p \in Publishes, NEW a \in BOOLEAN, NEW io \in Outcomes, Publish(p, a, io)
       PROVE  Inv'
    <2>1. /\ recent' = Pushed(recent) /\ accepted' = Pushed(accepted) /\ ~Limited(Pushed(recent))
          /\ lastMinute' = lastMinute /\ eventsThisMinute' = eventsThisMinute
          /\ systemEvents' = systemEvents /\ SendMessage(p, a, io) /\ MayPublish(p)
        BY <1>18 DEF Publish
    <2>2. /\ conn' = conn /\ updating' = updating /\ since' = since /\ waited' = waited
          /\ idle' = idle /\ expecting' = expecting /\ quiet' = quiet /\ heard' = heard
          /\ pending' = pending /\ requested' = requested /\ minute' = minute
          /\ ping_interval' = ping_interval /\ keepalive_source' = keepalive_source
          /\ open' \in BOOLEAN
        BY <2>1 DEF SendMessage, ChannelAfter, pinger, keepalive, timesync
    <2>3. Attempts'
        BY <1>t, <2>1, PushedAttempts
    <2>4. Waiting' /\ left' \in [Publishes -> 0..AckTimeout]
        BY <1>t, <2>1, SendWaiting
    <2>5. /\ recent' \in [1..(Burst + 1) -> 0..Window]
          /\ accepted' \in [1..(Burst + 1) -> 0..Window]
        BY <1>t, <2>1, RingType DEF TypeOK
    <2>6. TypeOK'
        BY <1>t, <2>1, <2>2, <2>4, <2>5 DEF TypeOK
    <2>7. Silence' /\ ThisMinute'
        BY <1>t, <2>1, <2>2 DEF Silence, ThisMinute
    <2>8. QED
        BY <2>3, <2>4, <2>6, <2>7 DEF Inv
<1>19. ASSUME NEW p \in Publishes, NEW a \in BOOLEAN, NEW io \in Outcomes, PublishSystem(p, a, io)
       PROVE  Inv'
    <2>1. /\ recent' = recent /\ accepted' = accepted
          /\ lastMinute' = minute /\ eventsThisMinute' = Counted /\ ~SystemLimited
          /\ systemEvents' = systemEvents + 1 /\ SendMessage(p, a, io) /\ MayPublish(p)
        BY <1>19 DEF PublishSystem
    <2>2. /\ conn' = conn /\ updating' = updating /\ since' = since /\ waited' = waited
          /\ idle' = idle /\ expecting' = expecting /\ quiet' = quiet /\ heard' = heard
          /\ pending' = pending /\ requested' = requested /\ minute' = minute
          /\ ping_interval' = ping_interval /\ keepalive_source' = keepalive_source
          /\ open' \in BOOLEAN
        BY <2>1 DEF SendMessage, ChannelAfter, pinger, keepalive, timesync
    <2>3. eventsThisMinute' \in 0..SystemLimit /\ systemEvents' \in Nat
        BY <1>t, <2>1, UpkeepAssumption DEF TypeOK, SystemLimited, Counted
    <2>4. Waiting' /\ left' \in [Publishes -> 0..AckTimeout]
        BY <1>t, <2>1, SendWaiting
    <2>5. TypeOK'
        BY <1>t, <2>1, <2>2, <2>3, <2>4 DEF TypeOK
    <2>6. ThisMinute'
        BY <1>t, <2>1, <2>2 DEF ThisMinute, Counted, TypeOK
    <2>7. Silence' /\ Attempts'
        BY <1>t, <2>1, <2>2 DEF Silence, Attempts
    <2>8. QED
        BY <2>4, <2>5, <2>6, <2>7 DEF Inv
<1>20. ASSUME NEW p \in Publishes, PublishRefused(p) PROVE Inv'
    <2>1. /\ UNCHANGED <<conn, open, updating, minute, idle, expecting, quiet, heard, pending,
                         requested, left, since, waited, accepted, lastMinute, ping_interval,
                         keepalive_source, eventsThisMinute, systemEvents>>
          /\ recent' = Pushed(recent)
        BY <1>20 DEF PublishRefused, pinger, keepalive, timesync, handlers
    <2>2. Attempts'
        BY <1>t, <2>1, PushedAttempts
    <2>3. recent' \in [1..(Burst + 1) -> 0..Window]
        BY <1>t, <2>1, RingType DEF TypeOK
    <2>4. TypeOK'
        BY <1>t, <2>1, <2>3 DEF TypeOK
    <2>5. Silence' /\ ThisMinute' /\ Waiting'
        BY <1>t, <2>1 DEF Silence, ThisMinute, Waiting
    <2>6. QED
        BY <2>2, <2>4, <2>5 DEF Inv
<1>21. ASSUME NEW m \in BOOLEAN, Tick(m) PROVE Inv'
    <2>1. /\ since' = Capped(since, LoopGap) /\ idle' = Capped(idle, IdleCap)
          /\ quiet' = Capped(quiet, PingTimeout + 1) /\ heard' = FALSE
          /\ recent' = Older(recent) /\ accepted' = Older(accepted)
          /\ minute' = (IF m THEN (minute + 1) % Minutes ELSE minute)
          /\ systemEvents' = (IF m THEN 0 ELSE systemEvents)
          /\ UNCHANGED <<conn, open, updating, expecting, ping_interval, keepalive_source, left,
                         pending, requested, lastMinute, eventsThisMinute>>
        BY <1>21 DEF Tick, keepalive, timesync
    <2>2. Waiting' /\ waited' \in [Publishes -> 0..(AckTimeout + LoopGap)]
        BY <1>21, <1>t, TickWaiting
    <2>3. since' \in 0..LoopGap
        BY <1>b, <2>1, CappedType, UpkeepAssumption
    <2>4. idle' \in 0..IdleCap /\ quiet' \in 0..(PingTimeout + 1) /\ Silence'
        <3>1. /\ idle \in 0..IdleCap /\ quiet \in 0..(PingTimeout + 1)
              /\ IdleCap \in Nat /\ PingTimeout \in Nat
            BY <1>t, IdleCapType, UpkeepAssumption DEF TypeOK
        <3>2. QED
            BY <1>t, <2>1, <3>1 DEF Silence, Capped
    <2>5. /\ recent' \in [1..(Burst + 1) -> 0..Window]
          /\ accepted' \in [1..(Burst + 1) -> 0..Window]
        BY <1>t, <2>1, RingType DEF TypeOK
    <2>6. Attempts'
        BY <1>t, <2>1, OlderAttempts
    <2>7. minute' \in 0..(Minutes - 1) /\ systemEvents' \in Nat
        <3>1. minute \in Nat /\ Minutes \in Nat \ {0} /\ minute \in 0..(Minutes - 1)
            BY <1>t, UpkeepAssumption DEF TypeOK
        <3>2. (minute + 1) % Minutes \in 0..(Minutes - 1)
            BY <3>1
        <3>3. QED
            BY <1>t, <2>1, <3>1, <3>2 DEF TypeOK
    <2>8. ThisMinute'
        BY <1>t, <2>1 DEF ThisMinute, TypeOK
    <2>9. TypeOK'
        BY <1>t, <2>1, <2>2, <2>3, <2>4, <2>5, <2>7 DEF TypeOK
    <2>10. QED
        BY <2>2, <2>4, <2>6, <2>8, <2>9 DEF Inv
<1>22. CASE Reset
    <2>1. Init'
        BY <1>22 DEF Reset, Init, AckHandlersCleared, None, NoEvents, IdleCap
    <2>2. (Init => Inv)'
        BY Initial, PTL
    <2>3. QED
        BY <2>1, <2>2
<1>23. CASE UNCHANGED vars
    <2>1. UNCHANGED <<conn, open, updating, minute, idle, expecting, quiet, heard, pending,
                      requested, left, since, waited, recent, accepted, lastMinute,
                      ping_interval, keepalive_source, eventsThisMinute, systemEvents>>
        BY <1>23 DEF vars, pinger, keepalive, timesync, handlers, publisher
    <2>2. TypeOK'
        BY <1>t, <2>1 DEF TypeOK
    <2>3. Silence' /\ Attempts' /\ ThisMinute' /\ Waiting'
        BY <1>t, <2>1 DEF Silence, Attempts, ThisMinute, Waiting
    <2>4. QED
        BY <2>2, <2>3 DEF Inv
<1>24. QED
    BY <1>1, <1>2, <1>3, <1>4, <1>5, <1>6, <1>7, <1>8, <1>10, <1>11, <1>12, <1>13, <1>14, <1>15,
       <1>16, <1>17, <1>18, <1>19, <1>20, <1>21, <1>22, <1>23, <1>25 DEF Next, EventLoop

(* The invariant holds in every state.                                     *)
LEMMA Invariant == Spec => []Inv
<1>1. Inv /\ [Next]_vars => Inv'
    BY Step
<1>2. QED
    BY <1>1, Initial, PTL DEF Spec

(* Every variable keeps its type: no time runs beyond the caps of the      *)
(* model, and the count of the minute does not pass its limit.             *)
THEOREM TypeCorrect == Spec => []TypeOK
<1>1. Inv => TypeOK
    BY DEF Inv
<1>2. QED
    BY <1>1, Invariant, PTL

(* However attempts and refusals are spread, is_rate_limited() lets at     *)
(* most Burst events through in a second and SystemLimit system events in  *)
(* a minute, the wrap of the minute included.                              *)
THEOREM RateLimits == Spec => []EventsLimited
<1>1. Inv => EventsLimited
    BY UpkeepAssumption DEF Inv, TypeOK, Attempts, ThisMinute, EventsLimited
<1>2. QED
    BY <1>1, Invariant, PTL

(* For every interval, timeout and mixture of keep-alive, wake and forced  *)
(* pings, PING_TIMEOUT follows a silence of more than ping_timeout.        *)
THEOREM PingTimeouts == Spec => []PingTimeoutNotEarly
<1>1. Inv => PingTimeoutNotEarly
    BY UpkeepAssumption DEF Inv, TypeOK, Silence, PingTimeoutNotEarly, PingOverdue
<1>2. QED
    BY <1>1, Invariant, PTL

(* For any number of events, an update() that gives one up does so within  *)
(* LoopGap of SEND_EVENT_ACK_TIMEOUT after its publish().                  *)
THEOREM AckTimeouts == Spec => AckTimeoutInTime
<1>1. ASSUME Inv, NEW p \in Publishes, Goes, left[p] # 0, left'[p] = 0
      PROVE  AckTimeout - LoopGap <= waited[p] /\ waited[p] <= AckTimeout + LoopGap
    <2>1. left[p] \in Nat /\ waited[p] \in Nat /\ since \in 0..LoopGap
        BY <1>1 DEF Inv, TypeOK
    <2>2. left' = Updated(since) /\ left \in [Publishes -> 0..AckTimeout]
        BY <1>1 DEF Inv, Goes, TypeOK
    <2>3. left[p] <= since
        BY <1>1, <2>1, <2>2, UpdatedType
    <2>4. Waits(left[p], waited[p], since)
        BY <1>1 DEF Inv, Waiting
    <2>5. QED
        BY <1>1, <2>1, <2>3, <2>4, UpkeepAssumption DEF Waits
<1>2. Inv => [\A p \in Publishes :
                  Goes /\ left[p] # 0 /\ left'[p] = 0 =>
                      AckTimeout - LoopGap <= waited[p] /\ waited[p] <= AckTimeout + LoopGap]_vars
    BY <1>1
<1>3. QED
    BY <1>2, Invariant, PTL DEF AckTimeoutInTime
=============================================================================
