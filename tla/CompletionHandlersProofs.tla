---------------------- MODULE CompletionHandlersProofs ----------------------
(***************************************************************************)
(* Proofs about CompletionHandlers for any set of callbacks, any timeouts  *)
(* and any width of system_tick_t.                                         *)
(***************************************************************************)
EXTENDS CompletionHandlers, TLAPS

-----------------------------------------------------------------------------
(* spark::Vector::takeAt() closes the gap and keeps the other elements.    *)
LEMMA RemoveAtElements ==
    ASSUME NEW S, NEW s \in Seq(S), NEW k \in 1..Len(s)
    PROVE  /\ RemoveAt(s, k) \in Seq(S)
           /\ Len(RemoveAt(s, k)) = Len(s) - 1
           /\ \A j \in 1..(Len(s) - 1) :
                  RemoveAt(s, k)[j] = IF j < k THEN s[j] ELSE s[j + 1]
<1> DEFINE r == RemoveAt(s, k)
<1>1. Len(s) - 1 \in Nat
    OBVIOUS
<1>2. r = [j \in 1..(Len(s) - 1) |-> IF j < k THEN s[j] ELSE s[j + 1]]
    BY DEF RemoveAt
<1>3. \A j \in 1..(Len(s) - 1) : (IF j < k THEN s[j] ELSE s[j + 1]) \in S
    OBVIOUS
<1> HIDE DEF r
<1>4. r \in [1..(Len(s) - 1) -> S]
    BY <1>2, <1>3
<1>5. r \in Seq(S) /\ Len(r) = Len(s) - 1
    BY <1>1, <1>4
<1> QED
    BY <1>2, <1>5 DEF r

(* Unsigned arithmetic stays within system_tick_t, and is exact as long as *)
(* it does not wrap around.                                                *)
LEMMA PlusRange ==
    ASSUME NEW a \in Nat, NEW b \in Nat
    PROVE  /\ Plus(a, b) \in 0..TickMax
           /\ a + b <= TickMax => Plus(a, b) = a + b
BY HandlersAssumption DEF Plus

(* A Handler record.                                                       *)
LEMMA HandlerFields ==
    ASSUME TypeOK, NEW j \in 1..Len(handlers)
    PROVE  /\ handlers[j] \in Handler
           /\ handlers[j].callback \in Callbacks
           /\ handlers[j].key \in Keys
           /\ handlers[j].ticks \in 0..TickMax
           /\ handlers[j].ticks \in Nat
<1>1. handlers[j] \in Handler
    BY DEF TypeOK
<1> QED
    BY <1>1, HandlersAssumption DEF Handler

(* Calling a callback.                                                     *)
LEMMA CallTypes ==
    ASSUME TypeOK, NEW c \in Callbacks, NEW how \in Outcomes, Call(c, how)
    PROVE  /\ outcome' \in [Callbacks -> Outcomes \cup {"none", "pending"}]
           /\ calls' \in [Callbacks -> Nat]
           /\ UNCHANGED <<timeout, age, lag>>
BY DEF Call, TypeOK

(* The vector after the expiration time of one handler was rebased.        *)
LEMMA UpdateOtherVector ==
    ASSUME TypeOK, UpdateOther
    PROVE  /\ handlers' \in Seq(Handler)
           /\ Len(handlers') = Len(handlers)
           /\ \A j \in 1..Len(handlers) :
                  /\ handlers'[j].callback = handlers[j].callback
                  /\ handlers'[j].key = handlers[j].key
                  /\ handlers'[j].ticks = IF j = i THEN handlers[j].ticks - ticks
                                          ELSE handlers[j].ticks
<1>0. handlers \in Seq(Handler) /\ i \in 1..Len(handlers) /\ ticks \in Nat
    BY HandlersAssumption DEF TypeOK, UpdateOther
<1>1. handlers \in Seq(Handler) /\ i \in 1..Len(handlers) /\ ticks < handlers[i].ticks
    BY <1>0, HandlerFields DEF UpdateOther, Expires
<1>2. handlers' = [handlers EXCEPT ![i] = [handlers[i] EXCEPT !.ticks = handlers[i].ticks - ticks]]
    BY <1>1 DEF UpdateOther, Rebased
<1>3. handlers[i] \in Handler /\ ticks \in 0..TickMax
    BY <1>1 DEF TypeOK
<1>4. [handlers[i] EXCEPT !.ticks = handlers[i].ticks - ticks] \in Handler
    <2>1. handlers[i].ticks - ticks \in 0..TickMax
        BY <1>0, <1>1, HandlerFields, HandlersAssumption
    <2> QED
        BY <1>3, <2>1 DEF Handler
<1>5. handlers' \in Seq(Handler) /\ Len(handlers') = Len(handlers)
    BY <1>1, <1>2, <1>4
<1>6. ASSUME NEW j \in 1..Len(handlers), j # i
      PROVE  handlers'[j] = handlers[j]
    BY <1>1, <1>2, <1>6
<1>7. /\ handlers'[i].callback = handlers[i].callback
      /\ handlers'[i].key = handlers[i].key
      /\ handlers'[i].ticks = handlers[i].ticks - ticks
    BY <1>1, <1>2, <1>3 DEF Handler
<1> QED
    BY <1>1, <1>5, <1>6, <1>7

-----------------------------------------------------------------------------
(* The loop of takeHandler() knows the key and the outcome it works for.   *)
InTake == pc \in {"take", "take_callback"}
InUpdate == pc \in {"update", "update_callback"}

Typed == TypeOK /\ (InTake => taking \in Keys \X Outcomes)

LEMMA TypeInit == Init => Typed
BY HandlersAssumption DEF Init, Typed, TypeOK, InTake, Outcomes

LEMMA TypeStep == Typed /\ [Next]_vars => Typed'
<1> SUFFICES ASSUME Typed, [Next]_vars PROVE Typed'
    OBVIOUS
<1> USE HandlersAssumption DEF Typed
<1>1. ASSUME NEW c \in Callbacks, NEW key \in Keys, NEW t \in Timeouts, NEW ok \in BOOLEAN,
             addHandler(c, key, t, ok)
      PROVE  Typed'
    <2>0. ticks \in Nat /\ t \in Nat
        BY DEF TypeOK
    <2>1. Plus(ticks, t) \in 0..TickMax
        BY <2>0, PlusRange
    <2>2. handlers' \in Seq(Handler) /\ timeoutTicks' \in 0..TickMax
        <3> DEFINE h == [callback |-> c, key |-> key, ticks |-> Plus(ticks, t)]
        <3>1. h \in Handler
            BY <2>1 DEF Handler
        <3>2. CASE ok
            <4>1. handlers' = Append(handlers, h) /\ timeoutTicks' = Least(Plus(ticks, t), timeoutTicks)
                BY <1>1, <3>2 DEF addHandler
            <4>2. timeoutTicks' \in 0..TickMax
                BY <4>1, <2>1 DEF TypeOK, Least
            <4>3. handlers \in Seq(Handler)
                BY DEF TypeOK
            <4> HIDE DEF h
            <4> QED
                BY <4>1, <4>2, <4>3, <3>1
        <3>3. CASE ~ok
            BY <1>1, <3>3 DEF addHandler, TypeOK
        <3> QED
            BY <3>2, <3>3
    <2>3. outcome' \in [Callbacks -> Outcomes \cup {"none", "pending"}] /\ calls' \in [Callbacks -> Nat]
        <3>1. CASE ok
            BY <1>1, <3>1 DEF addHandler, TypeOK
        <3>2. CASE ~ok
            <4>1. "internal" \in Outcomes
                BY DEF Outcomes
            <4>2. /\ outcome' = [outcome EXCEPT ![c] = "internal"]
                  /\ calls' = [calls EXCEPT ![c] = @ + 1]
                BY <1>1, <3>2 DEF addHandler
            <4>3. outcome' \in [Callbacks -> Outcomes \cup {"none", "pending"}]
                BY <4>1, <4>2 DEF TypeOK
            <4>4. calls' \in [Callbacks -> Nat]
                BY <4>2 DEF TypeOK
            <4> QED
                BY <4>3, <4>4
        <3> QED
            BY <3>1, <3>2
    <2>4. timeout' \in [Callbacks -> Timeouts \cup {0}] /\ lag' \in [Callbacks -> Nat]
        BY <1>1 DEF addHandler, TypeOK
    <2>5. UNCHANGED <<ticks, loop, gap, age>>
        BY <1>1 DEF addHandler
    <2> QED
        BY <2>2, <2>3, <2>4, <2>5 DEF TypeOK, loop, InTake
<1>2. ASSUME NEW key \in Keys, NEW how \in {"result", "coap_error"}, takeHandler(key, how)
      PROVE  Typed'
    <2>1. <<key, how>> \in Keys \X Outcomes
        BY DEF Outcomes
    <2> QED
        BY <1>2, <2>1 DEF takeHandler, TypeOK, InTake, ghosts
<1>3. ASSUME NEW restart \in BOOLEAN, clear(restart) PROVE Typed'
    <2>1. outcome' \in [Callbacks -> Outcomes \cup {"none", "pending"}]
        BY <1>3 DEF clear, TypeOK, Outcomes
    <2>2. calls' \in [Callbacks -> Nat]
        BY <1>3 DEF clear, TypeOK
    <2> QED
        BY <1>3, <2>1, <2>2 DEF clear, TypeOK, InTake, loop, Idle
<1>4. CASE update
    <2>1. Plus(ticks, gap) \in 0..TickMax
        BY PlusRange DEF TypeOK
    <2> QED
        BY <1>4, <2>1 DEF update, TypeOK, container, loop, ghosts, InTake, Idle
<1>5. CASE TakeFound
    <2>1. i \in 1..Len(handlers)
        BY <1>5 DEF TakeFound, TypeOK
    <2>2. handlers' \in Seq(Handler) /\ handlers[i] \in Handler
        BY <1>5, <2>1, RemoveAtElements DEF TakeFound, TypeOK
    <2>3. /\ outcome' \in [Callbacks -> Outcomes \cup {"none", "pending"}]
          /\ calls' \in [Callbacks -> Nat]
          /\ UNCHANGED <<timeout, age, lag>>
        <3>1. CASE hand = None
            BY <1>5, <3>1 DEF TakeFound, CallNothing, ghosts, TypeOK
        <3>2. CASE hand # None
            <4>1. hand \in Callbacks /\ "internal" \in Outcomes
                BY <3>2 DEF TypeOK, Outcomes
            <4>2. Call(hand, "internal")
                BY <1>5, <3>2 DEF TakeFound
            <4> QED
                BY <4>1, <4>2, CallTypes
        <3> QED
            BY <3>1, <3>2
    <2>4. /\ hand' \in Callbacks
          /\ ticks' \in 0..TickMax
          /\ pc' \in {"take", "take_callback"}
          /\ UNCHANGED <<timeoutTicks, i, taking, gap>>
        <3>1. hand' = handlers[i].callback
            BY <1>5 DEF TakeFound
        <3>2. ticks' \in 0..TickMax
            BY <1>5, HandlersAssumption DEF TakeFound, RestartIfEmpty, TypeOK
        <3>3. pc' \in {"take", "take_callback"} /\ UNCHANGED <<timeoutTicks, i, taking, gap>>
            BY <1>5 DEF TakeFound
        <3> QED
            BY <2>1, <3>1, <3>2, <3>3, HandlerFields
    <2>5. InTake
        BY <1>5 DEF TakeFound, InTake
    <2> QED
        BY <2>2, <2>3, <2>4, <2>5 DEF TypeOK, InTake
<1>6. CASE TakeOther
    <2>1. i \in 1..Len(handlers) /\ handlers[i] \in Handler
        BY <1>6 DEF TakeOther, TypeOK
    <2>2. handlers[i].ticks \in 0..TickMax
        BY <2>1, HandlerFields
    <2>3. timeoutTicks' \in 0..TickMax
        BY <1>6, <2>2 DEF TakeOther, Least, TypeOK
    <2> QED
        BY <1>6, <2>1, <2>3 DEF TakeOther, TypeOK, InTake, ghosts
<1>7. CASE TakeDone
    <2>1. taking[2] \in Outcomes
        BY <1>7 DEF TakeDone, InTake
    <2>2. /\ outcome' \in [Callbacks -> Outcomes \cup {"none", "pending"}]
          /\ calls' \in [Callbacks -> Nat]
          /\ UNCHANGED <<timeout, age, lag>>
        <3>1. CASE hand = None
            BY <1>7, <3>1 DEF TakeDone, CallNothing, ghosts, TypeOK
        <3>2. CASE hand # None
            <4>1. hand \in Callbacks
                BY <3>2 DEF TypeOK
            <4>2. Call(hand, taking[2])
                BY <1>7, <3>2 DEF TakeDone
            <4> QED
                BY <2>1, <4>1, <4>2, CallTypes
        <3> QED
            BY <3>1, <3>2
    <2> QED
        BY <1>7, <2>2 DEF TakeDone, LoopEnds, TypeOK, InTake, container
<1>8. CASE UpdateExpired
    <2>1. i \in 1..Len(handlers)
        BY <1>8 DEF UpdateExpired, TypeOK
    <2>2. handlers' \in Seq(Handler)
        BY <1>8, <2>1, RemoveAtElements DEF UpdateExpired, TypeOK
    <2>3. /\ outcome' \in [Callbacks -> Outcomes \cup {"none", "pending"}]
          /\ calls' \in [Callbacks -> Nat]
          /\ UNCHANGED <<timeout, age, lag>>
        <3>1. handlers[i].callback \in Callbacks /\ "timeout" \in Outcomes
            BY <2>1, HandlerFields DEF Outcomes
        <3>2. Call(handlers[i].callback, "timeout")
            BY <1>8 DEF UpdateExpired
        <3> QED
            BY <3>1, <3>2, CallTypes
    <2> QED
        BY <1>8, <2>2, <2>3 DEF UpdateExpired, TypeOK, InTake
<1>9. CASE UpdateOther
    <2>0. i \in 1..Len(handlers) /\ i + 1 \in Nat \ {0}
        BY <1>9 DEF UpdateOther, TypeOK
    <2>1. handlers'[i] \in Handler /\ handlers' \in Seq(Handler)
        BY <1>9, <2>0, UpdateOtherVector
    <2> HIDE DEF Typed
    <2>2. /\ timeoutTicks' = Least(handlers'[i].ticks, timeoutTicks)
          /\ i' = i + 1
          /\ UNCHANGED <<ticks, pc, taking, hand, gap, ghosts>>
        BY <1>9 DEF UpdateOther
    <2>3. timeoutTicks' \in 0..TickMax
        BY <2>1, <2>2 DEF Typed, TypeOK, Least, Handler
    <2> QED
        BY <2>0, <2>1, <2>2, <2>3 DEF Typed, TypeOK, InTake, ghosts
<1>10. CASE UpdateDone
    BY <1>10 DEF UpdateDone, LoopEnds, TypeOK, InTake, ghosts
<1>11. CASE Return
    <2>1. ticks' \in 0..TickMax
        BY <1>11, HandlersAssumption DEF Return, RestartIfEmpty, TypeOK
    <2> QED
        BY <1>11, <2>1 DEF Return, TypeOK, InTake, ghosts
<1>12. CASE Tick
    <2>1. age' \in [Callbacks -> Nat]
        BY <1>12 DEF Tick, TypeOK
    <2> QED
        BY <1>12, <2>1 DEF Tick, TypeOK, InTake, container, loop
<1>13. CASE UNCHANGED vars
    BY <1>13 DEF vars, container, loop, ghosts, TypeOK, InTake
<1> QED
    BY <1>1, <1>2, <1>3, <1>4, <1>5, <1>6, <1>7, <1>8, <1>9, <1>10, <1>11, <1>12, <1>13
    DEF Next, Steps

(* The container, its loops and the ghosts keep their types.               *)
THEOREM TypeCorrect == Spec => []TypeOK
<1>1. Typed => TypeOK
    BY DEF Typed
<1> QED
    BY <1>1, TypeInit, TypeStep, PTL DEF Spec

-----------------------------------------------------------------------------
(* CalledOnce, position by position, with the fact it lacks: outside of    *)
(* takeHandler() the local handler is empty.                               *)
Distinct ==
    \A j, k \in 1..Len(handlers) : handlers[j].callback = handlers[k].callback => j = k

ListedPending ==
    \A j \in 1..Len(handlers) :
        outcome[handlers[j].callback] = "pending" /\ handlers[j].callback # hand

HandPending == (hand # None => outcome[hand] = "pending") /\ (~InTake => hand = None)

PendingHeld ==
    \A c \in Callbacks :
        outcome[c] = "pending" => c = hand \/ \E j \in 1..Len(handlers) : handlers[j].callback = c

Counted == \A c \in Callbacks : calls[c] = IF outcome[c] \in {"none", "pending"} THEN 0 ELSE 1

Held == Distinct /\ ListedPending /\ HandPending /\ PendingHeld /\ Counted

(* Where an element of the shortened vector was, and where it went.        *)
LEMMA RemovePositions ==
    ASSUME TypeOK, NEW k \in 1..Len(handlers), handlers' = RemoveAt(handlers, k)
    PROVE  /\ Len(handlers') = Len(handlers) - 1
           /\ \A j \in 1..Len(handlers') : handlers'[j] = handlers[IF j < k THEN j ELSE j + 1]
           /\ \A j \in 1..Len(handlers) :
                  j # k => /\ (IF j < k THEN j ELSE j - 1) \in 1..Len(handlers')
                           /\ handlers'[IF j < k THEN j ELSE j - 1] = handlers[j]
<1>1. handlers \in Seq(Handler) /\ Len(handlers) \in Nat
    BY DEF TypeOK
<1>2. /\ Len(handlers') = Len(handlers) - 1
      /\ \A j \in 1..(Len(handlers) - 1) :
             handlers'[j] = IF j < k THEN handlers[j] ELSE handlers[j + 1]
    BY <1>1, RemoveAtElements
<1>3. \A j \in 1..Len(handlers') : handlers'[j] = handlers[IF j < k THEN j ELSE j + 1]
    BY <1>1, <1>2
<1>4. ASSUME NEW j \in 1..Len(handlers), j # k
      PROVE  /\ (IF j < k THEN j ELSE j - 1) \in 1..Len(handlers')
             /\ handlers'[IF j < k THEN j ELSE j - 1] = handlers[j]
    <2>1. CASE j < k
        BY <1>1, <1>2, <1>4, <2>1
    <2>2. CASE j > k
        <3>1. j - 1 \in 1..(Len(handlers) - 1) /\ ~(j - 1 < k) /\ (j - 1) + 1 = j
            BY <1>1, <1>4, <2>2
        <3> QED
            BY <1>2, <2>2, <3>1
    <2> QED
        BY <1>4, <2>1, <2>2
<1> QED
    BY <1>2, <1>3, <1>4

(* Removing the handler at k and calling nobody, or keeping k's callback   *)
(* in hand, leaves the other handlers where they can be found.             *)
LEMMA RemoveHeld ==
    ASSUME TypeOK, Held, NEW k \in 1..Len(handlers), handlers' = RemoveAt(handlers, k)
    PROVE  /\ Distinct'
           /\ \A j \in 1..Len(handlers') :
                  /\ outcome[handlers'[j].callback] = "pending"
                  /\ handlers'[j].callback # hand
                  /\ handlers'[j].callback # handlers[k].callback
                  /\ handlers'[j].callback \in Callbacks
           /\ \A c \in Callbacks :
                  outcome[c] = "pending" =>
                      \/ c = hand
                      \/ c = handlers[k].callback
                      \/ \E j \in 1..Len(handlers') : handlers'[j].callback = c
<1>1. Len(handlers) \in Nat
    BY DEF TypeOK
<1>2. \A j \in 1..Len(handlers') :
          /\ (IF j < k THEN j ELSE j + 1) \in 1..Len(handlers)
          /\ (IF j < k THEN j ELSE j + 1) # k
          /\ handlers'[j] = handlers[IF j < k THEN j ELSE j + 1]
    BY <1>1, RemovePositions
<1>3. Distinct'
    <2> SUFFICES ASSUME NEW j \in 1..Len(handlers'), NEW l \in 1..Len(handlers'),
                        handlers'[j].callback = handlers'[l].callback
                 PROVE  j = l
        BY DEF Distinct
    <2> DEFINE oj == IF j < k THEN j ELSE j + 1
               ol == IF l < k THEN l ELSE l + 1
    <2>1. /\ oj \in 1..Len(handlers) /\ handlers'[j] = handlers[oj]
          /\ ol \in 1..Len(handlers) /\ handlers'[l] = handlers[ol]
        BY <1>2
    <2>2. oj = ol => j = l
        BY <1>1
    <2> HIDE DEF oj, ol
    <2>3. oj = ol
        BY <2>1 DEF Held, Distinct
    <2> QED
        BY <2>2, <2>3
<1>4. ASSUME NEW j \in 1..Len(handlers')
      PROVE  /\ outcome[handlers'[j].callback] = "pending"
             /\ handlers'[j].callback # hand
             /\ handlers'[j].callback # handlers[k].callback
             /\ handlers'[j].callback \in Callbacks
    <2> DEFINE m == IF j < k THEN j ELSE j + 1
    <2>1. m \in 1..Len(handlers) /\ m # k /\ handlers'[j] = handlers[m]
        BY <1>2
    <2> HIDE DEF m
    <2> QED
        BY <2>1, HandlerFields DEF Held, Distinct, ListedPending
<1>5. ASSUME NEW c \in Callbacks, outcome[c] = "pending", c # hand, c # handlers[k].callback
      PROVE  \E j \in 1..Len(handlers') : handlers'[j].callback = c
    <2>1. PICK j \in 1..Len(handlers) : handlers[j].callback = c
        BY <1>5 DEF Held, PendingHeld
    <2>2. j # k
        BY <1>5, <2>1
    <2>3. \E m \in 1..Len(handlers') : handlers'[m] = handlers[j]
        BY <2>2, RemovePositions
    <2> QED
        BY <2>1, <2>3
<1> QED
    BY <1>3, <1>4, <1>5

(* A callback that is called leaves the pending ones.                      *)
LEMMA CallEffect ==
    ASSUME TypeOK, NEW c \in Callbacks, NEW how \in Outcomes, Call(c, how)
    PROVE  /\ \A d \in Callbacks : outcome'[d] = IF d = c THEN how ELSE outcome[d]
           /\ \A d \in Callbacks : calls'[d] = IF d = c THEN calls[d] + 1 ELSE calls[d]
           /\ how \notin {"none", "pending"}
BY DEF Call, TypeOK, Outcomes

LEMMA HeldInit == Init => Held
BY DEF Init, Held, Distinct, ListedPending, HandPending, PendingHeld, Counted, InTake

LEMMA HeldAdd ==
    ASSUME Typed, Held, NEW c \in Callbacks, NEW key \in Keys, NEW t \in Timeouts,
           NEW ok \in BOOLEAN, addHandler(c, key, t, ok)
    PROVE  Held'
<1>0. TypeOK /\ outcome[c] = "none" /\ UNCHANGED loop
    BY DEF addHandler, Typed
<1>1. hand' = hand /\ (InTake' <=> InTake) /\ hand # c /\ hand \in Callbacks \cup {None}
    <2>1. hand' = hand /\ pc' = pc
        BY <1>0 DEF loop
    <2>2. hand # c
        BY <1>0, HandlersAssumption DEF Held, HandPending
    <2> QED
        BY <1>0, <2>1, <2>2 DEF InTake, TypeOK
<1>2. CASE ~ok
    <2>1. /\ handlers' = handlers
          /\ outcome' = [outcome EXCEPT ![c] = "internal"]
          /\ calls' = [calls EXCEPT ![c] = @ + 1]
        BY <1>2 DEF addHandler
    <2>2. \A d \in Callbacks : /\ outcome'[d] = IF d = c THEN "internal" ELSE outcome[d]
                               /\ calls'[d] = IF d = c THEN calls[d] + 1 ELSE calls[d]
        BY <1>0, <2>1 DEF TypeOK
    <2>3. \A j \in 1..Len(handlers) : handlers[j].callback \in Callbacks /\ handlers[j].callback # c
        BY <1>0, HandlerFields DEF Held, ListedPending
    <2>4. Distinct' /\ ListedPending' /\ HandPending'
        BY <1>0, <1>1, <2>1, <2>2, <2>3 DEF Held, Distinct, ListedPending, HandPending
    <2>5. PendingHeld'
        BY <1>1, <2>1, <2>2 DEF Held, PendingHeld
    <2>6. Counted'
        BY <1>0, <2>2 DEF Held, Counted
    <2> QED
        BY <2>4, <2>5, <2>6 DEF Held
<1>3. CASE ok
    <2> DEFINE h == [callback |-> c, key |-> key, ticks |-> Plus(ticks, t)]
    <2>1. /\ handlers' = Append(handlers, h)
          /\ outcome' = [outcome EXCEPT ![c] = "pending"]
          /\ calls' = calls
        BY <1>3 DEF addHandler
    <2>2. \A d \in Callbacks : outcome'[d] = IF d = c THEN "pending" ELSE outcome[d]
        BY <1>0, <2>1 DEF TypeOK
    <2>3. h.callback = c
        OBVIOUS
    <2> HIDE DEF h
    <2>4. handlers \in Seq(Handler) /\ Len(handlers) \in Nat
        BY <1>0 DEF TypeOK
    <2>5. /\ Len(handlers') = Len(handlers) + 1
          /\ handlers'[Len(handlers) + 1] = h
          /\ \A j \in 1..Len(handlers) : handlers'[j] = handlers[j]
        BY <2>1, <2>4
    <2>6. \A j \in 1..Len(handlers) : handlers[j].callback \in Callbacks /\ handlers[j].callback # c
        BY <1>0, HandlerFields DEF Held, ListedPending
    <2>7. \A j \in 1..Len(handlers') : j \in 1..Len(handlers) \/ j = Len(handlers) + 1
        BY <2>4, <2>5
    <2>8. Distinct'
        BY <2>3, <2>5, <2>6, <2>7 DEF Held, Distinct
    <2>9. ListedPending'
        BY <1>1, <2>2, <2>3, <2>5, <2>6, <2>7 DEF Held, ListedPending
    <2>10. HandPending'
        BY <1>1, <2>2 DEF Held, HandPending
    <2>11. PendingHeld'
        <3> SUFFICES ASSUME NEW d \in Callbacks, outcome'[d] = "pending", d # hand
                     PROVE  \E j \in 1..Len(handlers') : handlers'[j].callback = d
            BY <1>1 DEF PendingHeld
        <3>1. CASE d = c
            BY <2>3, <2>4, <2>5, <3>1
        <3>2. CASE d # c
            <4>1. PICK j \in 1..Len(handlers) : handlers[j].callback = d
                BY <2>2, <3>2 DEF Held, PendingHeld
            <4>2. j \in 1..Len(handlers')
                BY <2>4, <2>5
            <4> QED
                BY <2>5, <4>1, <4>2
        <3> QED
            BY <3>1, <3>2
    <2>12. Counted'
        BY <1>0, <2>1, <2>2 DEF Held, Counted
    <2> QED
        BY <2>8, <2>9, <2>10, <2>11, <2>12 DEF Held
<1> QED
    BY <1>2, <1>3

LEMMA HeldTakeFound == ASSUME Typed, Held, TakeFound PROVE Held'
<1> DEFINE c == handlers[i].callback
<1>0. TypeOK /\ i \in 1..Len(handlers) /\ InTake /\ InTake'
    BY DEF TakeFound, Typed, TypeOK, InTake
<1>1. handlers' = RemoveAt(handlers, i) /\ hand' = c
    BY DEF TakeFound
<1>2. c \in Callbacks /\ outcome[c] = "pending" /\ c # hand /\ c # None
    BY <1>0, HandlerFields, HandlersAssumption DEF Held, ListedPending
<1>3. CASE hand = None
    <2>1. UNCHANGED <<outcome, calls>>
        BY <1>3 DEF TakeFound, CallNothing, ghosts
    <2> HIDE DEF c
    <2>2. Distinct'
        BY <1>0, <1>1, RemoveHeld
    <2>3. ListedPending' /\ PendingHeld'
        <3>1. /\ \A j \in 1..Len(handlers') :
                     outcome[handlers'[j].callback] = "pending" /\ handlers'[j].callback # c
              /\ \A d \in Callbacks :
                     outcome[d] = "pending" =>
                         \/ d = None
                         \/ d = c
                         \/ \E j \in 1..Len(handlers') : handlers'[j].callback = d
            BY <1>0, <1>1, <1>3, RemoveHeld DEF c
        <3> QED
            BY <1>1, <2>1, <3>1, HandlersAssumption DEF ListedPending, PendingHeld
    <2>4. HandPending' /\ Counted'
        BY <1>0, <1>1, <1>2, <2>1 DEF Held, HandPending, Counted
    <2> QED
        BY <2>2, <2>3, <2>4 DEF Held
<1>4. CASE hand # None
    <2>1. Call(hand, "internal") /\ hand \in Callbacks /\ outcome[hand] = "pending"
        BY <1>0, <1>4 DEF TakeFound, TypeOK, Held, HandPending
    <2>2. "internal" \in Outcomes
        BY DEF Outcomes
    <2>3. \A d \in Callbacks : /\ outcome'[d] = IF d = hand THEN "internal" ELSE outcome[d]
                               /\ calls'[d] = IF d = hand THEN calls[d] + 1 ELSE calls[d]
        BY <1>0, <2>1, <2>2, CallEffect
    <2> HIDE DEF c
    <2>4. Distinct'
        BY <1>0, <1>1, RemoveHeld
    <2>5. ListedPending' /\ PendingHeld'
        <3>1. /\ \A j \in 1..Len(handlers') :
                     /\ outcome[handlers'[j].callback] = "pending"
                     /\ handlers'[j].callback # c
                     /\ handlers'[j].callback # hand
                     /\ handlers'[j].callback \in Callbacks
              /\ \A d \in Callbacks :
                     outcome[d] = "pending" =>
                         \/ d = hand
                         \/ d = c
                         \/ \E j \in 1..Len(handlers') : handlers'[j].callback = d
            BY <1>0, <1>1, RemoveHeld DEF c
        <3> QED
            BY <1>1, <2>3, <3>1 DEF ListedPending, PendingHeld
    <2>6. HandPending'
        BY <1>0, <1>1, <1>2, <2>3 DEF HandPending
    <2>7. Counted'
        BY <1>0, <2>1, <2>3 DEF Held, Counted, TypeOK
    <2> QED
        BY <2>4, <2>5, <2>6, <2>7 DEF Held
<1> QED
    BY <1>3, <1>4

LEMMA HeldTakeDone == ASSUME Typed, Held, TakeDone PROVE Held'
<1>0. TypeOK /\ handlers' = handlers /\ hand' = None /\ taking[2] \in Outcomes
    BY DEF TakeDone, LoopEnds, container, Typed, InTake
<1>1. \A j \in 1..Len(handlers) : handlers[j].callback \in Callbacks
    BY <1>0, HandlerFields
<1>2. CASE hand = None
    <2>1. UNCHANGED <<outcome, calls>>
        BY <1>2 DEF TakeDone, CallNothing, ghosts
    <2> QED
        BY <1>0, <1>1, <1>2, <2>1, HandlersAssumption
        DEF Held, Distinct, ListedPending, HandPending, PendingHeld, Counted
<1>3. CASE hand # None
    <2>1. Call(hand, taking[2]) /\ hand \in Callbacks /\ outcome[hand] = "pending"
        BY <1>0, <1>3 DEF TakeDone, TypeOK, Held, HandPending
    <2>2. /\ \A d \in Callbacks : /\ outcome'[d] = IF d = hand THEN taking[2] ELSE outcome[d]
                                  /\ calls'[d] = IF d = hand THEN calls[d] + 1 ELSE calls[d]
          /\ taking[2] \notin {"none", "pending"}
        BY <1>0, <2>1, CallEffect
    <2>3. Distinct' /\ ListedPending' /\ HandPending' /\ PendingHeld'
        BY <1>0, <1>1, <2>2, HandlersAssumption
        DEF Held, Distinct, ListedPending, HandPending, PendingHeld
    <2>4. Counted'
        BY <1>0, <2>1, <2>2 DEF Held, Counted, TypeOK
    <2> QED
        BY <2>3, <2>4 DEF Held
<1> QED
    BY <1>2, <1>3

LEMMA HeldUpdateExpired == ASSUME Typed, Held, UpdateExpired PROVE Held'
<1> DEFINE c == handlers[i].callback
<1>0. /\ TypeOK /\ i \in 1..Len(handlers)
      /\ ~InTake /\ ~InTake' /\ hand = None /\ hand' = None
    BY DEF UpdateExpired, Typed, TypeOK, InTake, Held, HandPending
<1>1. handlers' = RemoveAt(handlers, i) /\ Call(c, "timeout")
    BY DEF UpdateExpired
<1>2. c \in Callbacks /\ outcome[c] = "pending" /\ "timeout" \in Outcomes
    BY <1>0, HandlerFields DEF Held, ListedPending, Outcomes
<1> HIDE DEF c
<1>3. \A d \in Callbacks : /\ outcome'[d] = IF d = c THEN "timeout" ELSE outcome[d]
                           /\ calls'[d] = IF d = c THEN calls[d] + 1 ELSE calls[d]
    BY <1>0, <1>1, <1>2, CallEffect
<1>4. /\ Distinct'
      /\ \A j \in 1..Len(handlers') :
             /\ outcome[handlers'[j].callback] = "pending"
             /\ handlers'[j].callback # c
             /\ handlers'[j].callback \in Callbacks
      /\ \A d \in Callbacks :
             outcome[d] = "pending" =>
                 \/ d = hand
                 \/ d = c
                 \/ \E j \in 1..Len(handlers') : handlers'[j].callback = d
    BY <1>0, <1>1, RemoveHeld DEF c
<1>5. ListedPending' /\ PendingHeld' /\ HandPending'
    BY <1>0, <1>3, <1>4, HandlersAssumption DEF ListedPending, PendingHeld, HandPending
<1>6. Counted'
    BY <1>0, <1>2, <1>3 DEF Held, Counted, TypeOK
<1> QED
    BY <1>4, <1>5, <1>6 DEF Held

(* A step that moves no handler and calls no callback.                     *)
LEMMA HeldUnchanged ==
    ASSUME Held, UNCHANGED <<outcome, calls, hand>>, HandPending',
           Len(handlers') = Len(handlers),
           \A j \in 1..Len(handlers) : handlers'[j].callback = handlers[j].callback
    PROVE  Held'
BY DEF Held, Distinct, ListedPending, PendingHeld, Counted

LEMMA HeldStep == Typed /\ Held /\ [Next]_vars => Held'
<1> SUFFICES ASSUME Typed, Held, [Next]_vars PROVE Held'
    OBVIOUS
<1>1. ASSUME NEW c \in Callbacks, NEW key \in Keys, NEW t \in Timeouts, NEW ok \in BOOLEAN,
             addHandler(c, key, t, ok)
      PROVE  Held'
    BY <1>1, HeldAdd
<1>2. ASSUME NEW key \in Keys, NEW how \in {"result", "coap_error"}, takeHandler(key, how)
      PROVE  Held'
    <2>1. hand = None /\ hand' = None /\ UNCHANGED <<outcome, calls, handlers>>
        BY <1>2 DEF takeHandler, Held, HandPending, InTake, Idle, ghosts
    <2> QED
        BY <2>1, HeldUnchanged DEF HandPending
<1>3. ASSUME NEW restart \in BOOLEAN, clear(restart) PROVE Held'
    <2>0. hand = None /\ hand' = None /\ TypeOK /\ handlers' = <<>>
        BY <1>3 DEF clear, loop, Idle, Held, HandPending, InTake, Typed
    <2>1. \A c \in Callbacks : c \in Listed <=> outcome[c] = "pending"
        BY <2>0, HandlersAssumption DEF Held, ListedPending, PendingHeld, Listed
    <2>2. \A c \in Callbacks :
              /\ outcome'[c] = IF outcome[c] = "pending" THEN "aborted" ELSE outcome[c]
              /\ calls'[c] = IF outcome[c] = "pending" THEN calls[c] + 1 ELSE calls[c]
        BY <1>3, <2>1 DEF clear
    <2>3. Distinct' /\ ListedPending' /\ HandPending' /\ PendingHeld'
        BY <2>0, <2>2 DEF Distinct, ListedPending, HandPending, PendingHeld
    <2>4. Counted'
        <3> SUFFICES ASSUME NEW c \in Callbacks
                     PROVE  calls'[c] = IF outcome'[c] \in {"none", "pending"} THEN 0 ELSE 1
            BY DEF Counted
        <3>1. calls[c] = IF outcome[c] \in {"none", "pending"} THEN 0 ELSE 1
            BY DEF Held, Counted
        <3>2. CASE outcome[c] = "pending"
            BY <2>2, <3>1, <3>2
        <3>3. CASE outcome[c] # "pending"
            BY <2>2, <3>1, <3>3
        <3> QED
            BY <3>2, <3>3
    <2> QED
        BY <2>3, <2>4 DEF Held
<1>4. CASE update
    <2>1. UNCHANGED <<outcome, calls, handlers, hand>> /\ hand = None
        BY <1>4 DEF update, container, loop, ghosts, Held, HandPending, InTake, Idle
    <2> QED
        BY <2>1, HeldUnchanged DEF HandPending
<1>5. CASE TakeFound
    BY <1>5, HeldTakeFound
<1>6. CASE TakeOther
    <2>1. UNCHANGED <<outcome, calls, handlers, hand, pc>>
        BY <1>6 DEF TakeOther, ghosts
    <2> QED
        BY <2>1, HeldUnchanged DEF HandPending, InTake, Held
<1>7. CASE TakeDone
    BY <1>7, HeldTakeDone
<1>8. CASE UpdateExpired
    BY <1>8, HeldUpdateExpired
<1>9. CASE UpdateOther
    <2>1. UNCHANGED <<outcome, calls, hand, pc>>
        BY <1>9 DEF UpdateOther, ghosts
    <2>2. /\ Len(handlers') = Len(handlers)
          /\ \A j \in 1..Len(handlers) : handlers'[j].callback = handlers[j].callback
        BY <1>9, UpdateOtherVector DEF Typed
    <2> QED
        BY <2>1, <2>2, HeldUnchanged DEF HandPending, InTake, Held
<1>10. CASE UpdateDone
    <2>1. UNCHANGED <<outcome, calls, handlers, hand>> /\ hand = None
        BY <1>10 DEF UpdateDone, LoopEnds, ghosts, Held, HandPending, InTake
    <2> QED
        BY <2>1, HeldUnchanged DEF HandPending
<1>11. CASE Return
    <2>1. UNCHANGED <<outcome, calls, handlers, hand>> /\ (InTake' <=> InTake)
        BY <1>11 DEF Return, container, ghosts, InTake
    <2> QED
        BY <2>1, HeldUnchanged DEF HandPending, Held
<1>12. CASE Tick
    <2>1. UNCHANGED <<outcome, calls, handlers, hand, pc>>
        BY <1>12 DEF Tick, container, loop
    <2> QED
        BY <2>1, HeldUnchanged DEF HandPending, InTake, Held
<1>13. CASE UNCHANGED vars
    <2>1. UNCHANGED <<outcome, calls, handlers, hand, pc>>
        BY <1>13 DEF vars, container, loop, ghosts
    <2> QED
        BY <2>1, HeldUnchanged DEF HandPending, InTake, Held
<1> QED
    BY <1>1, <1>2, <1>3, <1>4, <1>5, <1>6, <1>7, <1>8, <1>9, <1>10, <1>11, <1>12, <1>13
    DEF Next, Steps

(* Every completion callback is called exactly once, however the additions *)
(* from callbacks interleave with the loops of takeHandler() and update(). *)
THEOREM EachCalledOnce == Spec => []CalledOnce
<1>1. Typed /\ Held => CalledOnce
    <2> SUFFICES ASSUME Typed, Held, NEW c \in Callbacks
                 PROVE  /\ calls[c] = (IF outcome[c] \in {"none", "pending"} THEN 0 ELSE 1)
                        /\ outcome[c] = "pending" <=> c \in Listed \cup {hand}
                        /\ \A j, k \in 1..Len(handlers) :
                               handlers[j].callback = c /\ handlers[k].callback = c => j = k
                        /\ c = hand => c \notin Listed
        BY DEF CalledOnce
    <2>1. c # None
        BY HandlersAssumption
    <2>2. outcome[c] = "pending" <=> c \in Listed \cup {hand}
        BY <2>1 DEF Held, ListedPending, HandPending, PendingHeld, Listed
    <2> QED
        BY <2>2 DEF Held, Distinct, ListedPending, Counted, Listed
<1> QED
    BY <1>1, TypeInit, TypeStep, HeldInit, HeldStep, PTL DEF Spec

-----------------------------------------------------------------------------
(* No expiration time wraps around: the time update() counts without a     *)
(* restart, plus any timeout, fits in a system_tick_t.                     *)
FitsInTicks == \A t \in Timeouts : BusyMax + t <= TickMax

(* What is left of a handler's timeout as of the last update().            *)
Remaining(c) == timeout[c] + gap - age[c] - lag[c]

(* The expiration times the update loop has passed count from its end.     *)
Base(j) == IF InUpdate /\ j < i THEN 0 ELSE ticks

Timed ==
    \A j \in 1..Len(handlers) : handlers[j].ticks = Base(j) + Remaining(handlers[j].callback)

Ahead ==
    \A j \in 1..Len(handlers) : (InUpdate /\ j >= i) \/ Base(j) < handlers[j].ticks

Clock ==
    /\ InUpdate => gap = 0
    /\ ticks + gap <= BusyMax
    /\ handlers = <<>> /\ (Idle \/ pc = "take") => ticks = 0
    /\ i <= Len(handlers) + 1
    /\ Idle => i = 1
    /\ InTake => taking[2] # "timeout"

Fresh == \A c \in Callbacks : outcome[c] = "none" => age[c] = 0

NearLow ==
    \A j \in 1..Len(handlers) : Idle \/ j < i => timeoutTicks <= handlers[j].ticks

(* A handler that the rest of the loop keeps.                              *)
Kept(j) ==
    \/ Idle
    \/ j < i
    \/ InTake /\ handlers[j].key # taking[1]
    \/ InUpdate /\ ticks < handlers[j].ticks

NearWitness ==
    \/ timeoutTicks = TickMax
    \/ \E j \in 1..Len(handlers) : timeoutTicks = handlers[j].ticks /\ Kept(j)

Time == Clock /\ Fresh /\ Timed /\ Ahead /\ NearLow /\ NearWitness /\ NotEarly

LEMMA Numbers ==
    ASSUME TypeOK
    PROVE  /\ ticks \in Nat /\ gap \in Nat /\ timeoutTicks \in Nat /\ i \in Nat
           /\ Len(handlers) \in Nat /\ TickMax \in Nat /\ BusyMax \in Nat
           /\ timeoutTicks <= TickMax
           /\ \A c \in Callbacks : timeout[c] \in Nat /\ age[c] \in Nat /\ lag[c] \in Nat
           /\ \A t \in Timeouts : t \in Nat /\ t > 0
<1>1. \A c \in Callbacks : timeout[c] \in Timeouts \cup {0} /\ age[c] \in Nat /\ lag[c] \in Nat
    BY DEF TypeOK
<1>2. \A t \in Timeouts : t \in Nat /\ t > 0
    BY HandlersAssumption
<1>3. Len(handlers) \in Nat
    BY DEF TypeOK
<1>4. /\ ticks \in Nat /\ gap \in Nat /\ timeoutTicks \in Nat /\ i \in Nat
      /\ TickMax \in Nat /\ BusyMax \in Nat
      /\ timeoutTicks <= TickMax
    BY HandlersAssumption DEF TypeOK
<1> QED
    BY <1>1, <1>2, <1>3, <1>4

LEMMA TimeInit == Init => Time
<1> SUFFICES ASSUME Init PROVE Time
    OBVIOUS
<1>1. /\ handlers = <<>> /\ ~InUpdate /\ ~InTake
      /\ ticks = 0 /\ gap = 0 /\ i = 1 /\ timeoutTicks = TickMax
    BY DEF Init, InUpdate, InTake
<1>2. Clock
    BY <1>1, HandlersAssumption DEF Clock
<1>3. Fresh /\ NotEarly
    BY DEF Init, Fresh, NotEarly
<1> QED
    BY <1>1, <1>2, <1>3 DEF Time, Timed, Ahead, NearLow, NearWitness

LEMMA TimeAdd ==
    ASSUME FitsInTicks, Typed, Held, Time,
           NEW c \in Callbacks, NEW key \in Keys, NEW t \in Timeouts, NEW ok \in BOOLEAN,
           addHandler(c, key, t, ok)
    PROVE  Time'
<1>0. TypeOK /\ outcome[c] = "none" /\ pc \in {"idle", "update_callback", "take_callback"}
    BY DEF addHandler, Typed
<1>1. UNCHANGED <<ticks, pc, i, taking, hand, gap, age>>
    BY DEF addHandler, loop
<1>2. /\ \A d \in Callbacks : timeout'[d] = IF d = c THEN t ELSE timeout[d]
      /\ \A d \in Callbacks : lag'[d] = IF d = c THEN gap ELSE lag[d]
    BY <1>0 DEF addHandler, TypeOK
<1>3. \A j \in 1..Len(handlers) : handlers[j].callback \in Callbacks /\ handlers[j].callback # c
    BY <1>0, HandlerFields DEF Held, ListedPending
<1>4. \A d \in Callbacks : d # c => Remaining(d)' = Remaining(d)
    BY <1>1, <1>2 DEF Remaining
<1>5. (InUpdate' <=> InUpdate) /\ (InTake' <=> InTake) /\ (Idle' <=> Idle)
    BY <1>1 DEF InUpdate, InTake, Idle
<1>6. \A j : Base(j)' = Base(j)
    BY <1>1, <1>5 DEF Base
<1>7. \A d \in Callbacks : outcome'[d] = "timeout" => outcome[d] = "timeout" /\ d # c
    <2>1. \E v \in {"pending", "internal"} : outcome' = [outcome EXCEPT ![c] = v]
        BY DEF addHandler
    <2> QED
        BY <1>0, <2>1 DEF TypeOK
<1>8. \A d \in Callbacks : outcome'[d] = "none" => outcome[d] = "none"
    <2>1. \E v \in {"pending", "internal"} : outcome' = [outcome EXCEPT ![c] = v]
        BY DEF addHandler
    <2> QED
        BY <1>0, <2>1 DEF TypeOK
<1>9. Fresh' /\ NotEarly'
    BY <1>1, <1>2, <1>7, <1>8 DEF Time, Fresh, NotEarly
<1>10. CASE ~ok
    <2>1. handlers' = handlers /\ timeoutTicks' = timeoutTicks
        BY <1>10 DEF addHandler
    <2>2. Clock' /\ NearLow' /\ NearWitness'
        BY <1>1, <1>5, <2>1 DEF Time, Clock, NearLow, NearWitness, Kept
    <2>3. Timed' /\ Ahead'
        BY <1>1, <1>3, <1>4, <1>5, <1>6, <2>1 DEF Time, Timed, Ahead
    <2> QED
        BY <1>9, <2>2, <2>3 DEF Time
<1>11. CASE ok
    <2> DEFINE h == [callback |-> c, key |-> key, ticks |-> Plus(ticks, t)]
    <2>1. handlers' = Append(handlers, h) /\ timeoutTicks' = Least(h.ticks, timeoutTicks)
        BY <1>11 DEF addHandler
    <2>2. h.callback = c /\ h.key = key /\ h.ticks = ticks + t /\ ticks + t <= TickMax
        <3>1. ticks + t <= TickMax
            BY <1>0, Numbers DEF Time, Clock, FitsInTicks
        <3> QED
            BY <1>0, <3>1, Numbers, PlusRange
    <2> HIDE DEF h
    <2>3. handlers \in Seq(Handler) /\ Len(handlers) \in Nat
        BY <1>0 DEF TypeOK
    <2>4. /\ Len(handlers') = Len(handlers) + 1
          /\ handlers'[Len(handlers) + 1] = h
          /\ \A j \in 1..Len(handlers) : handlers'[j] = handlers[j]
          /\ handlers' # <<>>
        BY <2>1, <2>3
    <2>5. \A j \in 1..Len(handlers') : j \in 1..Len(handlers) \/ j = Len(handlers) + 1
        BY <2>3, <2>4
    <2>6. Clock'
        BY <1>0, <1>1, <1>5, <2>3, <2>4, Numbers DEF Time, Clock
    <2>7. Base(Len(handlers) + 1) = ticks
        BY <1>0, <2>3, Numbers DEF Time, Clock, Base
    <2>8. Remaining(c)' = t
        <3>1. timeout'[c] = t /\ lag'[c] = gap /\ age'[c] = 0 /\ gap' = gap
            BY <1>0, <1>1, <1>2 DEF Time, Fresh
        <3>2. gap \in Nat /\ t \in Nat
            BY <1>0, Numbers
        <3> QED
            BY <3>1, <3>2 DEF Remaining
    <2>9. Timed'
        <3> SUFFICES ASSUME NEW j \in 1..Len(handlers'), NEW d, d = handlers'[j].callback
                     PROVE  handlers'[j].ticks = Base(j)' + Remaining(d)'
            BY DEF Timed, Base, Remaining
        <3>1. CASE j \in 1..Len(handlers)
            BY <1>3, <1>4, <1>6, <2>4, <3>1 DEF Time, Timed
        <3>2. CASE j = Len(handlers) + 1
            <4>1. d = c /\ handlers'[j].ticks = ticks + t /\ Base(j)' = ticks
                BY <1>6, <2>2, <2>4, <2>7, <3>2
            <4> QED
                BY <2>8, <4>1
        <3> QED
            BY <2>5, <3>1, <3>2
    <2>10. Ahead'
        <3> SUFFICES ASSUME NEW j \in 1..Len(handlers')
                     PROVE  (InUpdate /\ j >= i) \/ Base(j) < handlers'[j].ticks
            BY <1>1, <1>5, <1>6 DEF Ahead
        <3>1. CASE j \in 1..Len(handlers)
            BY <2>4, <3>1 DEF Time, Ahead
        <3>2. CASE j = Len(handlers) + 1
            BY <1>0, <2>2, <2>4, <2>7, <3>2, Numbers
        <3> QED
            BY <2>5, <3>1, <3>2
    <2>11. timeoutTicks' <= timeoutTicks /\ timeoutTicks' <= h.ticks
        BY <1>0, <2>1, <2>2, Numbers DEF Least
    <2>12. NearLow'
        <3> SUFFICES ASSUME NEW j \in 1..Len(handlers'), Idle \/ j < i
                     PROVE  timeoutTicks' <= handlers'[j].ticks
            BY <1>1, <1>5 DEF NearLow
        <3>1. CASE j \in 1..Len(handlers)
            <4>1. timeoutTicks <= handlers[j].ticks /\ handlers'[j] = handlers[j]
                BY <2>4, <3>1 DEF Time, NearLow
            <4>2. handlers[j].ticks \in Nat /\ timeoutTicks \in Nat /\ timeoutTicks' \in Nat
                BY <1>0, <2>1, <2>2, <3>1, HandlerFields, Numbers DEF Least
            <4> QED
                BY <2>11, <4>1, <4>2
        <3>2. CASE j = Len(handlers) + 1
            BY <2>4, <2>11, <3>2
        <3> QED
            BY <2>5, <3>1, <3>2
    <2>13. NearWitness'
        <3>1. CASE timeoutTicks' = h.ticks
            <4> PICK n \in Nat : n = Len(handlers) + 1
                BY <2>3
            <4>1. n \in 1..Len(handlers') /\ handlers'[n] = h
                BY <2>3, <2>4
            <4>2. \/ Idle'
                  \/ InTake' /\ handlers'[n].key # taking'[1]
                  \/ InUpdate' /\ ticks' < handlers'[n].ticks
                <5>1. CASE Idle
                    BY <1>5, <5>1
                <5>2. CASE pc = "take_callback"
                    BY <1>1, <1>5, <2>2, <4>1, <5>2 DEF addHandler, InTake
                <5>3. CASE pc = "update_callback"
                    BY <1>0, <1>1, <1>5, <2>2, <4>1, <5>3, Numbers DEF InUpdate
                <5> QED
                    BY <1>0, <5>1, <5>2, <5>3 DEF Idle
            <4>3. Kept(n)'
                BY <4>2 DEF Kept
            <4> QED
                BY <3>1, <4>1, <4>3 DEF NearWitness
        <3>2. CASE timeoutTicks' = timeoutTicks /\ timeoutTicks # TickMax
            <4>1. PICK j \in 1..Len(handlers) : timeoutTicks = handlers[j].ticks /\ Kept(j)
                BY <3>2 DEF Time, NearWitness
            <4>2. j \in 1..Len(handlers') /\ handlers'[j] = handlers[j]
                BY <2>3, <2>4
            <4>3. Kept(j)'
                BY <1>1, <1>5, <4>1, <4>2 DEF Kept
            <4> QED
                BY <3>2, <4>1, <4>2, <4>3 DEF NearWitness
        <3>3. CASE timeoutTicks' = TickMax
            BY <3>3 DEF NearWitness
        <3> QED
            BY <2>1, <3>1, <3>2, <3>3 DEF Least
    <2> QED
        BY <1>9, <2>6, <2>9, <2>10, <2>12, <2>13 DEF Time
<1> QED
    BY <1>10, <1>11

LEMMA TimeTakeFound == ASSUME Typed, Held, Time, TakeFound PROVE Time'
<1>0. /\ TypeOK /\ i \in 1..Len(handlers)
      /\ InTake /\ InTake' /\ ~InUpdate /\ ~InUpdate' /\ ~Idle /\ ~Idle'
    BY DEF TakeFound, Typed, TypeOK, InTake, InUpdate, Idle
<1>1. /\ handlers' = RemoveAt(handlers, i)
      /\ handlers' = <<>> /\ pc' = "take" => ticks' = 0
      /\ ticks' = ticks \/ (ticks' = 0 /\ handlers' = <<>>)
      /\ handlers[i].key = taking[1]
      /\ UNCHANGED <<timeoutTicks, i, taking, gap>>
    BY DEF TakeFound, RestartIfEmpty
<1>2. UNCHANGED <<timeout, age, lag>>
    BY DEF TakeFound, Call, CallNothing, ghosts
<1>3. \A d \in Callbacks : outcome'[d] = outcome[d] \/ outcome'[d] = "internal"
    BY <1>0 DEF TakeFound, Call, CallNothing, ghosts, TypeOK
<1>4. /\ Len(handlers') = Len(handlers) - 1
      /\ \A j \in 1..Len(handlers') : handlers'[j] = handlers[IF j < i THEN j ELSE j + 1]
      /\ \A j \in 1..Len(handlers) :
             j # i => /\ (IF j < i THEN j ELSE j - 1) \in 1..Len(handlers')
                      /\ handlers'[IF j < i THEN j ELSE j - 1] = handlers[j]
    BY <1>0, <1>1, RemovePositions
<1>5. Len(handlers) \in Nat /\ i \in Nat /\ ticks \in Nat /\ gap \in Nat /\ BusyMax \in Nat
    BY <1>0, Numbers
<1>6. Clock'
    <2>1. i <= Len(handlers') + 1
        BY <1>0, <1>4, <1>5
    <2>2. ticks' + gap' <= BusyMax
        BY <1>1, <1>5 DEF Time, Clock
    <2> QED
        BY <1>0, <1>1, <2>1, <2>2 DEF Time, Clock
<1>7. ASSUME NEW j \in 1..Len(handlers')
      PROVE  \E m \in 1..Len(handlers) : handlers'[j] = handlers[m] /\ (j < i => m = j)
    <2>1. (IF j < i THEN j ELSE j + 1) \in 1..Len(handlers)
        BY <1>4, <1>5
    <2> QED
        BY <1>4, <2>1
<1>8. \A j \in 1..Len(handlers') : ticks' = ticks
    BY <1>1
<1>9. Timed'
    <2> SUFFICES ASSUME NEW j \in 1..Len(handlers'), NEW d, d = handlers'[j].callback
                 PROVE  handlers'[j].ticks = Base(j)' + Remaining(d)'
        BY DEF Timed, Base, Remaining
    <2>1. PICK m \in 1..Len(handlers) : handlers'[j] = handlers[m]
        BY <1>7
    <2>2. Base(m) = ticks /\ Base(j)' = ticks /\ Remaining(d)' = Remaining(d)
        BY <1>0, <1>1, <1>2, <1>8 DEF Base, Remaining
    <2> QED
        BY <2>1, <2>2 DEF Time, Timed
<1>10. Ahead'
    <2> SUFFICES ASSUME NEW j \in 1..Len(handlers') PROVE Base(j)' < handlers'[j].ticks
        BY DEF Ahead
    <2>1. PICK m \in 1..Len(handlers) : handlers'[j] = handlers[m]
        BY <1>7
    <2>2. Base(m) = ticks /\ Base(j)' = ticks
        BY <1>0, <1>8 DEF Base
    <2> QED
        BY <1>0, <2>1, <2>2 DEF Time, Ahead
<1>11. NearLow'
    BY <1>0, <1>1, <1>7 DEF Time, NearLow
<1>12. NearWitness'
    <2>1. CASE timeoutTicks = TickMax
        BY <1>1, <2>1 DEF NearWitness
    <2>2. CASE timeoutTicks # TickMax
        <3>1. PICK m \in 1..Len(handlers) : timeoutTicks = handlers[m].ticks /\ Kept(m)
            BY <2>2 DEF Time, NearWitness
        <3>2. m # i /\ (m < i \/ handlers[m].key # taking[1])
            BY <1>0, <1>1, <1>5, <3>1 DEF Kept
        <3>3. PICK n \in 1..Len(handlers') : handlers'[n] = handlers[m] /\ (m < i => n < i)
            BY <1>4, <3>2
        <3>4. Kept(n)'
            BY <1>0, <1>1, <3>2, <3>3 DEF Kept
        <3> QED
            BY <1>1, <3>1, <3>3, <3>4 DEF NearWitness
    <2> QED
        BY <2>1, <2>2
<1>13. Fresh' /\ NotEarly'
    BY <1>2, <1>3 DEF Time, Fresh, NotEarly
<1> QED
    BY <1>6, <1>9, <1>10, <1>11, <1>12, <1>13 DEF Time

LEMMA TimeUpdateExpired == ASSUME Typed, Held, Time, UpdateExpired PROVE Time'
<1> DEFINE c == handlers[i].callback
<1>0. /\ TypeOK /\ i \in 1..Len(handlers)
      /\ InUpdate /\ InUpdate' /\ ~InTake /\ ~InTake' /\ ~Idle /\ ~Idle'
    BY DEF UpdateExpired, Typed, TypeOK, InTake, InUpdate, Idle
<1>1. /\ handlers' = RemoveAt(handlers, i)
      /\ ticks >= handlers[i].ticks
      /\ UNCHANGED <<ticks, timeoutTicks, i, taking, gap, timeout, age, lag>>
    BY DEF UpdateExpired, Expires, Call
<1>2. c \in Callbacks /\ handlers[i].ticks \in Nat /\ Call(c, "timeout") /\ "timeout" \in Outcomes
    BY <1>0, HandlerFields DEF UpdateExpired, Outcomes
<1>3. \A d \in Callbacks : outcome'[d] = IF d = c THEN "timeout" ELSE outcome[d]
    BY <1>0, <1>2, CallEffect
<1>4. /\ Len(handlers') = Len(handlers) - 1
      /\ \A j \in 1..Len(handlers') : handlers'[j] = handlers[IF j < i THEN j ELSE j + 1]
      /\ \A j \in 1..Len(handlers) :
             j # i => /\ (IF j < i THEN j ELSE j - 1) \in 1..Len(handlers')
                      /\ handlers'[IF j < i THEN j ELSE j - 1] = handlers[j]
    BY <1>0, <1>1, RemovePositions
<1>5. Len(handlers) \in Nat /\ i \in Nat /\ ticks \in Nat /\ gap = 0
    BY <1>0, Numbers DEF Time, Clock
<1>6. Clock'
    <2>1. i <= Len(handlers') + 1
        BY <1>0, <1>4, <1>5
    <2> QED
        BY <1>0, <1>1, <2>1 DEF Time, Clock, InUpdate
<1>7. ASSUME NEW j \in 1..Len(handlers')
      PROVE  \E m \in 1..Len(handlers) : handlers'[j] = handlers[m] /\ (j < i <=> m < i) /\ (j < i => m = j)
    <2>1. (IF j < i THEN j ELSE j + 1) \in 1..Len(handlers)
        BY <1>4, <1>5
    <2> QED
        BY <1>4, <1>5, <2>1
<1>8. \A j : Base(j)' = Base(j)
    BY <1>0, <1>1 DEF Base
<1>9. Timed'
    <2> SUFFICES ASSUME NEW j \in 1..Len(handlers'), NEW d, d = handlers'[j].callback
                 PROVE  handlers'[j].ticks = Base(j)' + Remaining(d)'
        BY DEF Timed, Base, Remaining
    <2>1. PICK m \in 1..Len(handlers) : handlers'[j] = handlers[m] /\ (j < i <=> m < i)
        BY <1>7
    <2>2. Base(m) = Base(j)' /\ Remaining(d)' = Remaining(d)
        BY <1>1, <1>8, <2>1 DEF Base, Remaining
    <2> QED
        BY <2>1, <2>2 DEF Time, Timed
<1>10. Ahead'
    <2> SUFFICES ASSUME NEW j \in 1..Len(handlers')
                 PROVE  j >= i \/ Base(j)' < handlers'[j].ticks
        BY <1>0, <1>1 DEF Ahead
    <2>1. PICK m \in 1..Len(handlers) : handlers'[j] = handlers[m] /\ (j < i <=> m < i)
        BY <1>7
    <2>2. Base(m) = Base(j)'
        BY <1>8, <2>1 DEF Base
    <2> QED
        BY <1>5, <2>1, <2>2 DEF Time, Ahead
<1>11. NearLow'
    BY <1>0, <1>1, <1>7 DEF Time, NearLow
<1>12. NearWitness'
    <2>1. CASE timeoutTicks = TickMax
        BY <1>1, <2>1 DEF NearWitness
    <2>2. CASE timeoutTicks # TickMax
        <3>1. PICK m \in 1..Len(handlers) : timeoutTicks = handlers[m].ticks /\ Kept(m)
            BY <2>2 DEF Time, NearWitness
        <3>2. m # i /\ (m < i \/ ticks < handlers[m].ticks)
            BY <1>0, <1>1, <1>2, <1>5, <3>1 DEF Kept
        <3>3. PICK n \in 1..Len(handlers') : handlers'[n] = handlers[m] /\ (m < i => n < i)
            BY <1>4, <3>2
        <3>4. Kept(n)'
            BY <1>0, <1>1, <3>2, <3>3 DEF Kept
        <3> QED
            BY <1>1, <3>1, <3>3, <3>4 DEF NearWitness
    <2> QED
        BY <2>1, <2>2
<1>13. Fresh'
    BY <1>1, <1>3 DEF Time, Fresh
<1>14. age[c] + lag[c] >= timeout[c]
    <2>1. handlers[i].ticks = Base(i) + Remaining(c)
        BY <1>0 DEF Time, Timed
    <2>2. Base(i) = ticks
        BY <1>5 DEF Base
    <2>3. age[c] \in Nat /\ lag[c] \in Nat /\ timeout[c] \in Nat
        BY <1>0, <1>2, Numbers
    <2> HIDE DEF c
    <2> QED
        BY <1>1, <1>2, <1>5, <2>1, <2>2, <2>3 DEF Remaining
<1>15. NotEarly'
    BY <1>1, <1>3, <1>14 DEF Time, NotEarly
<1> QED
    BY <1>6, <1>9, <1>10, <1>11, <1>12, <1>13, <1>15 DEF Time

LEMMA TimeTakeOther == ASSUME Typed, Time, TakeOther PROVE Time'
<1>0. /\ TypeOK /\ i \in 1..Len(handlers) /\ handlers[i].ticks \in Nat
      /\ InTake /\ InTake' /\ ~InUpdate /\ ~InUpdate' /\ ~Idle /\ ~Idle'
    <2>1. TypeOK /\ i \in 1..Len(handlers)
        BY DEF TakeOther, Typed, TypeOK
    <2> QED
        BY <2>1, HandlerFields DEF TakeOther, InTake, InUpdate, Idle
<1>1. /\ timeoutTicks' = Least(handlers[i].ticks, timeoutTicks)
      /\ i' = i + 1
      /\ UNCHANGED <<handlers, ticks, taking, gap, outcome, timeout, age, lag>>
    BY DEF TakeOther, ghosts
<1>2. Len(handlers) \in Nat /\ i \in Nat /\ timeoutTicks \in Nat
    BY <1>0, Numbers
<1>3. Clock' /\ Fresh' /\ NotEarly'
    BY <1>0, <1>1, <1>2 DEF Time, Clock, Fresh, NotEarly
<1>4. Timed' /\ Ahead'
    BY <1>0, <1>1 DEF Time, Timed, Ahead, Base, Remaining
<1>5. NearLow'
    <2> SUFFICES ASSUME NEW j \in 1..Len(handlers), j < i + 1
                 PROVE  timeoutTicks' <= handlers[j].ticks
        BY <1>0, <1>1 DEF NearLow
    <2>1. handlers[j].ticks \in Nat
        BY <1>0, HandlerFields
    <2>2. j = i \/ timeoutTicks <= handlers[j].ticks
        BY <1>2 DEF Time, NearLow
    <2> QED
        BY <1>0, <1>1, <1>2, <2>1, <2>2 DEF Least
<1>6. NearWitness'
    <2>1. CASE timeoutTicks' = handlers[i].ticks
        BY <1>0, <1>1, <1>2, <2>1 DEF NearWitness, Kept
    <2>2. CASE timeoutTicks' = timeoutTicks
        <3>1. \A j \in 1..Len(handlers) : Kept(j) => Kept(j)'
            BY <1>0, <1>1, <1>2 DEF Kept
        <3> QED
            BY <1>1, <2>2, <3>1 DEF Time, NearWitness
    <2> QED
        BY <1>1, <2>1, <2>2 DEF Least
<1> QED
    BY <1>3, <1>4, <1>5, <1>6 DEF Time

LEMMA TimeUpdateOther == ASSUME Typed, Time, UpdateOther PROVE Time'
<1>0. /\ TypeOK /\ i \in 1..Len(handlers)
      /\ InUpdate /\ InUpdate' /\ ~InTake /\ ~InTake' /\ ~Idle /\ ~Idle'
    BY DEF UpdateOther, Typed, TypeOK, InTake, InUpdate, Idle
<1>1. /\ timeoutTicks' = Least(handlers'[i].ticks, timeoutTicks)
      /\ i' = i + 1
      /\ ~(ticks >= handlers[i].ticks)
      /\ UNCHANGED <<ticks, taking, gap, outcome, timeout, age, lag>>
    BY DEF UpdateOther, Expires, ghosts
<1>2. /\ Len(handlers') = Len(handlers)
      /\ \A j \in 1..Len(handlers) :
             /\ handlers'[j].callback = handlers[j].callback
             /\ handlers'[j].ticks = IF j = i THEN handlers[j].ticks - ticks ELSE handlers[j].ticks
    BY <1>0, UpdateOtherVector
<1>3. /\ Len(handlers) \in Nat /\ i \in Nat /\ timeoutTicks \in Nat /\ ticks \in Nat
      /\ \A j \in 1..Len(handlers) : handlers[j].ticks \in Nat
    BY <1>0, Numbers, HandlerFields
<1>4. handlers'[i].ticks = handlers[i].ticks - ticks /\ handlers'[i].ticks \in Nat /\ handlers'[i].ticks > 0
    BY <1>0, <1>1, <1>2, <1>3
<1>5. Clock'
    <2>1. handlers' # <<>>
        BY <1>0, <1>2, <1>3
    <2> QED
        BY <1>0, <1>1, <1>2, <1>3, <2>1 DEF Time, Clock
<1>6. Fresh' /\ NotEarly'
    BY <1>1 DEF Time, Fresh, NotEarly
<1>7. \A j \in 1..Len(handlers) : Base(j)' = IF j = i THEN 0 ELSE Base(j)
    BY <1>0, <1>1, <1>3 DEF Base
<1>8. Timed'
    <2> SUFFICES ASSUME NEW j \in 1..Len(handlers), NEW d, d = handlers[j].callback
                 PROVE  handlers'[j].ticks = Base(j)' + Remaining(d)'
        BY <1>2 DEF Timed, Base, Remaining
    <2>1. Remaining(d)' = Remaining(d) /\ handlers[j].ticks = Base(j) + Remaining(d)
        BY <1>1 DEF Time, Timed, Remaining
    <2>2. CASE j = i
        <3>1. Base(i) = ticks
            BY <1>3 DEF Base
        <3>2. Remaining(d) \in Int
            <4>1. d \in Callbacks
                BY <1>0, HandlerFields
            <4> QED
                BY <1>0, <4>1, Numbers DEF Remaining
        <3> QED
            BY <1>3, <1>4, <1>7, <2>1, <2>2, <3>1, <3>2
    <2>3. CASE j # i
        BY <1>2, <1>7, <2>1, <2>3
    <2> QED
        BY <2>2, <2>3
<1>9. Ahead'
    <2> SUFFICES ASSUME NEW j \in 1..Len(handlers)
                 PROVE  j >= i + 1 \/ Base(j)' < handlers'[j].ticks
        BY <1>0, <1>1, <1>2 DEF Ahead
    <2>1. CASE j = i
        BY <1>4, <1>7, <2>1
    <2>2. CASE j # i
        BY <1>2, <1>3, <1>7, <2>2 DEF Time, Ahead
    <2> QED
        BY <2>1, <2>2
<1>10. NearLow'
    <2> SUFFICES ASSUME NEW j \in 1..Len(handlers), j < i + 1
                 PROVE  timeoutTicks' <= handlers'[j].ticks
        BY <1>0, <1>1, <1>2 DEF NearLow
    <2>1. CASE j = i
        BY <1>1, <1>3, <1>4, <2>1 DEF Least
    <2>2. CASE j # i
        <3>1. timeoutTicks <= handlers[j].ticks /\ handlers'[j].ticks = handlers[j].ticks
            BY <1>2, <1>3, <2>2 DEF Time, NearLow
        <3> QED
            BY <1>1, <1>3, <1>4, <3>1 DEF Least
    <2> QED
        BY <2>1, <2>2
<1>11. NearWitness'
    <2>1. CASE timeoutTicks' = handlers'[i].ticks
        BY <1>0, <1>1, <1>2, <1>3, <2>1 DEF NearWitness, Kept
    <2>2. CASE timeoutTicks' = timeoutTicks /\ timeoutTicks' # handlers'[i].ticks
        <3>1. CASE timeoutTicks = TickMax
            BY <2>2, <3>1 DEF NearWitness
        <3>2. CASE timeoutTicks # TickMax
            <4>1. PICK j \in 1..Len(handlers) : timeoutTicks = handlers[j].ticks /\ Kept(j)
                BY <3>2 DEF Time, NearWitness
            <4>2. j # i
                BY <1>1, <1>3, <1>4, <2>2, <4>1 DEF Least
            <4>3. Kept(j)' /\ handlers'[j].ticks = handlers[j].ticks
                BY <1>0, <1>1, <1>2, <1>3, <4>1, <4>2 DEF Kept
            <4> QED
                BY <1>2, <2>2, <4>1, <4>3 DEF NearWitness
        <3> QED
            BY <3>1, <3>2
    <2> QED
        BY <1>1, <2>1, <2>2 DEF Least
<1> QED
    BY <1>5, <1>6, <1>8, <1>9, <1>10, <1>11 DEF Time

LEMMA TimeTakeDone == ASSUME Typed, Held, Time, TakeDone PROVE Time'
<1>0. /\ pc = "take" /\ TypeOK /\ i > Len(handlers) /\ taking[2] # "timeout" /\ i' = 1
      /\ InTake /\ ~InTake' /\ ~InUpdate /\ ~InUpdate' /\ ~Idle /\ Idle'
    BY DEF TakeDone, LoopEnds, Typed, InTake, InUpdate, Idle, Time, Clock
<1>1. UNCHANGED <<handlers, ticks, timeoutTicks, gap, timeout, age, lag>>
    BY DEF TakeDone, container, Call, CallNothing, ghosts
<1>2. \A d \in Callbacks : outcome'[d] = outcome[d] \/ outcome'[d] = taking[2]
    BY <1>0 DEF TakeDone, Call, CallNothing, ghosts, TypeOK
<1>3. Len(handlers) \in Nat /\ i \in Nat
    BY <1>0, Numbers
<1>4. taking[2] # "none"
    BY <1>0 DEF Typed, Outcomes
<1>5. Clock' /\ Fresh' /\ NotEarly'
    BY <1>0, <1>1, <1>2, <1>3, <1>4 DEF Time, Clock, Fresh, NotEarly
<1>6. Timed' /\ Ahead'
    BY <1>0, <1>1 DEF Time, Timed, Ahead, Base, Remaining
<1>7. NearLow' /\ NearWitness'
    BY <1>0, <1>1, <1>3 DEF Time, NearLow, NearWitness, Kept
<1> QED
    BY <1>5, <1>6, <1>7 DEF Time

LEMMA TimeUpdateDone == ASSUME Typed, Time, UpdateDone PROVE Time'
<1>0. /\ TypeOK /\ i > Len(handlers) /\ i' = 1 /\ ticks' = 0
      /\ ~InTake /\ ~InTake' /\ InUpdate /\ ~InUpdate' /\ ~Idle /\ Idle'
    BY DEF UpdateDone, LoopEnds, Typed, InTake, InUpdate, Idle
<1>1. UNCHANGED <<handlers, timeoutTicks, gap, outcome, timeout, age, lag>> /\ gap = 0
    BY <1>0 DEF UpdateDone, ghosts, Time, Clock
<1>2. Len(handlers) \in Nat /\ i \in Nat /\ BusyMax \in Nat
    BY <1>0, Numbers
<1>3. Clock' /\ Fresh' /\ NotEarly'
    BY <1>0, <1>1, <1>2 DEF Time, Clock, Fresh, NotEarly
<1>4. \A j \in 1..Len(handlers) : Base(j) = 0 /\ Base(j)' = 0 /\ j < i
    BY <1>0, <1>2 DEF Base
<1>5. Timed'
    BY <1>1, <1>4 DEF Time, Timed, Remaining
<1>6. Ahead'
    BY <1>0, <1>1, <1>2, <1>4 DEF Time, Ahead
<1>7. NearLow' /\ NearWitness'
    BY <1>0, <1>1, <1>4 DEF Time, NearLow, NearWitness, Kept
<1> QED
    BY <1>3, <1>5, <1>6, <1>7 DEF Time

LEMMA TimeUpdate == ASSUME Typed, Time, update PROVE Time'
<1>0. TypeOK /\ Idle /\ ~InTake /\ ~InUpdate /\ i = 1 /\ gap' = 0
    BY DEF update, Typed, InTake, InUpdate, Idle, Time, Clock
<1>1. UNCHANGED <<handlers, outcome, timeout, age, lag>>
    BY DEF update, container, ghosts
<1>2. /\ ticks \in Nat /\ gap \in Nat /\ timeoutTicks \in Nat /\ Len(handlers) \in Nat
      /\ ticks + gap <= BusyMax /\ BusyMax <= TickMax
      /\ BusyMax \in Nat /\ TickMax \in Nat
    BY <1>0, Numbers, HandlersAssumption DEF Time, Clock
<1>3. Plus(ticks, gap) = ticks + gap
    BY <1>2, PlusRange
<1>4. Fresh' /\ NotEarly'
    BY <1>1 DEF Time, Fresh, NotEarly
<1>5. CASE handlers = <<>>
    <2>1. UNCHANGED <<ticks, timeoutTicks, pc, i, taking>> /\ ticks = 0 /\ Len(handlers) = 0
        BY <1>0, <1>5 DEF update, container, loop, Time, Clock
    <2>2. Clock'
        BY <1>0, <1>1, <1>2, <2>1 DEF Time, Clock, Idle, InUpdate, InTake
    <2>3. Timed' /\ Ahead' /\ NearLow' /\ NearWitness'
        BY <1>1, <2>1 DEF Time, Timed, Ahead, NearLow, NearWitness
    <2> QED
        BY <1>4, <2>2, <2>3 DEF Time
<1>6. CASE handlers # <<>>
    <2>1. ticks' = ticks + gap
        BY <1>3, <1>6 DEF update
    <2>2. ASSUME NEW d \in Callbacks PROVE ticks' + Remaining(d)' = ticks + Remaining(d)
        <3>1. timeout[d] \in Nat /\ age[d] \in Nat /\ lag[d] \in Nat
            BY <1>0, Numbers
        <3> QED
            BY <1>0, <1>1, <1>2, <2>1, <3>1 DEF Remaining
    <2>3. \A j \in 1..Len(handlers) : handlers[j].ticks = ticks' + Remaining(handlers[j].callback)'
        <3> SUFFICES ASSUME NEW j \in 1..Len(handlers), NEW d, d = handlers[j].callback
                     PROVE  handlers[j].ticks = ticks' + Remaining(d)'
            BY <1>1 DEF Remaining
        <3>1. d \in Callbacks /\ handlers[j].ticks = ticks + Remaining(d)
            BY <1>0, HandlerFields DEF Time, Timed, Base
        <3> QED
            BY <2>2, <3>1
    <2>4. CASE UpdateDue(ticks')
        <3>1. timeoutTicks' = TickMax /\ pc' = "update" /\ i' = 1
            BY <1>6, <2>4 DEF update
        <3>2. InUpdate' /\ ~InTake' /\ ~Idle'
            BY <3>1 DEF InUpdate, InTake, Idle
        <3>3. \A j \in 1..Len(handlers) : Base(j)' = ticks' /\ j >= 1 /\ ~(j < 1)
            BY <1>2, <3>1 DEF Base
        <3>4. Clock'
            BY <1>0, <1>1, <1>2, <2>1, <3>1, <3>2 DEF Clock
        <3>5. Timed' /\ Ahead' /\ NearLow' /\ NearWitness'
            BY <1>1, <2>3, <3>1, <3>2, <3>3 DEF Timed, Ahead, NearLow, NearWitness
        <3> QED
            BY <1>4, <3>4, <3>5 DEF Time
    <2>5. CASE ~UpdateDue(ticks')
        <3>1. UNCHANGED <<timeoutTicks, pc, i, taking>>
            BY <1>6, <2>5 DEF update, loop
        <3>2. ~InUpdate' /\ ~InTake' /\ Idle'
            BY <1>0, <3>1 DEF InUpdate, InTake, Idle
        <3>3. \A j : Base(j)' = ticks'
            BY <3>2 DEF Base
        <3>4. Clock'
            BY <1>0, <1>1, <1>2, <1>6, <2>1, <3>1, <3>2 DEF Clock
        <3>5. Timed' /\ NearLow' /\ NearWitness'
            BY <1>0, <1>1, <2>3, <3>1, <3>2, <3>3 DEF Time, Timed, NearLow, NearWitness, Kept
        <3>6. Ahead'
            <4> SUFFICES ASSUME NEW j \in 1..Len(handlers) PROVE ticks' < handlers[j].ticks
                BY <1>1, <3>3 DEF Ahead
            <4>1. timeoutTicks <= handlers[j].ticks /\ handlers[j].ticks \in Nat
                BY <1>0, HandlerFields DEF Time, NearLow
            <4> QED
                BY <1>2, <2>1, <2>5, <4>1 DEF UpdateDue
        <3> QED
            BY <1>4, <3>4, <3>5, <3>6 DEF Time
    <2> QED
        BY <2>4, <2>5
<1> QED
    BY <1>5, <1>6

LEMMA TimeTick == ASSUME Typed, Held, Time, Tick PROVE Time'
<1>0. /\ TypeOK /\ Idle /\ Idle' /\ ~InTake /\ ~InTake' /\ ~InUpdate /\ ~InUpdate'
      /\ i = 1 /\ hand = None /\ gap' = gap + 1 /\ ticks + gap < BusyMax
    BY DEF Tick, Typed, loop, InTake, InUpdate, Idle, Time, Clock, Held, HandPending
<1>1. UNCHANGED <<handlers, ticks, timeoutTicks, i, taking, outcome, timeout, lag>>
    BY DEF Tick, container, loop
<1>2. \A d \in Callbacks : age'[d] = IF outcome[d] = "pending" THEN age[d] + 1 ELSE age[d]
    BY DEF Tick
<1>3. ticks \in Nat /\ gap \in Nat /\ BusyMax \in Nat
    BY <1>0, Numbers
<1>4. Clock'
    BY <1>0, <1>1, <1>3 DEF Time, Clock
<1>5. Fresh' /\ NotEarly'
    BY <1>1, <1>2 DEF Time, Fresh, NotEarly
<1>6. ASSUME NEW j \in 1..Len(handlers), NEW d, d = handlers[j].callback
      PROVE  Remaining(d)' = Remaining(d) /\ Base(j)' = Base(j)
    <2>1. d \in Callbacks /\ outcome[d] = "pending"
        BY <1>0, <1>6, HandlerFields DEF Held, ListedPending
    <2>2. timeout[d] \in Nat /\ age[d] \in Nat /\ lag[d] \in Nat
        BY <1>0, <2>1, Numbers
    <2> QED
        BY <1>0, <1>1, <1>2, <1>3, <2>1, <2>2 DEF Remaining, Base
<1>7. Timed'
    <2> SUFFICES ASSUME NEW j \in 1..Len(handlers), NEW d, d = handlers[j].callback
                 PROVE  handlers[j].ticks = Base(j)' + Remaining(d)'
        BY <1>1 DEF Timed, Base, Remaining
    <2> QED
        BY <1>6 DEF Time, Timed
<1>8. Ahead' /\ NearLow' /\ NearWitness'
    BY <1>0, <1>1 DEF Time, Ahead, Base, NearLow, NearWitness, Kept
<1> QED
    BY <1>4, <1>5, <1>7, <1>8 DEF Time

(* Steps that change neither the vector nor any time.                      *)
LEMMA TimeFrame ==
    ASSUME Time, Clock', (Idle' <=> Idle), (InTake' <=> InTake), (InUpdate' <=> InUpdate),
           UNCHANGED <<handlers, ticks, timeoutTicks, i, taking, gap, outcome, timeout, age, lag>>
    PROVE  Time'
BY DEF Time, Fresh, Timed, Ahead, NearLow, NearWitness, NotEarly, Base, Remaining, Kept

LEMMA TimeStep == FitsInTicks /\ Typed /\ Held /\ Time /\ [Next]_vars => Time'
<1> SUFFICES ASSUME FitsInTicks, Typed, Held, Time, [Next]_vars PROVE Time'
    OBVIOUS
<1>1. ASSUME NEW c \in Callbacks, NEW key \in Keys, NEW t \in Timeouts, NEW ok \in BOOLEAN,
             addHandler(c, key, t, ok)
      PROVE  Time'
    BY <1>1, TimeAdd
<1>2. ASSUME NEW key \in Keys, NEW how \in {"result", "coap_error"}, takeHandler(key, how)
      PROVE  Time'
    <2>0. /\ Idle /\ ~Idle' /\ InTake' /\ ~InUpdate /\ ~InUpdate' /\ ~InTake
          /\ timeoutTicks' = TickMax /\ i' = 1 /\ taking' = <<key, how>>
          /\ UNCHANGED <<handlers, ticks, gap, outcome, timeout, age, lag>>
        BY <1>2 DEF takeHandler, Idle, InTake, InUpdate, ghosts
    <2>1. Len(handlers) \in Nat
        BY DEF Typed, TypeOK
    <2>2. Clock' /\ Fresh' /\ NotEarly'
        BY <2>0, <2>1 DEF Time, Clock, Fresh, NotEarly
    <2>3. Timed' /\ Ahead'
        BY <2>0 DEF Time, Timed, Ahead, Base, Remaining
    <2>4. NearLow' /\ NearWitness'
        BY <2>0, <2>1 DEF NearLow, NearWitness
    <2> QED
        BY <2>2, <2>3, <2>4 DEF Time
<1>3. ASSUME NEW restart \in BOOLEAN, clear(restart) PROVE Time'
    <2>0. /\ Idle' /\ ~InUpdate' /\ ~InTake' /\ i' = 1 /\ ticks' = 0 /\ timeoutTicks' = TickMax
          /\ handlers' = <<>> /\ gap' \in {0, gap} /\ UNCHANGED <<timeout, age, lag>>
        BY <1>3 DEF clear, loop, Idle, InTake, InUpdate, Time, Clock
    <2>1. ticks \in Nat /\ gap \in Nat /\ BusyMax \in Nat /\ gap <= BusyMax
        <3>1. ticks \in Nat /\ gap \in Nat /\ BusyMax \in Nat
            BY Numbers, HandlersAssumption DEF Typed
        <3>2. Idle /\ ~InUpdate
            BY <1>3 DEF clear, Idle, InUpdate
        <3> QED
            BY <3>1, <3>2 DEF Time, Clock
    <2>2. Clock'
        <3>1. Len(handlers') = 0
            BY <2>0
        <3>2. gap' \in Nat /\ gap' <= BusyMax
            BY <2>0, <2>1
        <3>3. ticks' + gap' <= BusyMax
            <4>1. ticks' = 0
                BY <2>0
            <4> QED
                BY <3>2, <4>1
        <3>4. i' <= Len(handlers') + 1
            BY <2>0, <3>1
        <3> QED
            BY <2>0, <3>3, <3>4 DEF Clock
    <2>3. Timed' /\ Ahead' /\ NearLow' /\ NearWitness'
        BY <2>0 DEF Timed, Ahead, NearLow, NearWitness
    <2>4. \A c \in Callbacks : outcome'[c] = outcome[c] \/ outcome'[c] = "aborted"
        BY <1>3 DEF clear
    <2>5. Fresh' /\ NotEarly'
        BY <2>0, <2>4 DEF Time, Fresh, NotEarly
    <2> QED
        BY <2>2, <2>3, <2>5 DEF Time
<1>4. CASE update
    BY <1>4, TimeUpdate
<1>5. CASE TakeFound
    BY <1>5, TimeTakeFound
<1>6. CASE TakeOther
    BY <1>6, TimeTakeOther
<1>7. CASE TakeDone
    BY <1>7, TimeTakeDone
<1>8. CASE UpdateExpired
    BY <1>8, TimeUpdateExpired
<1>9. CASE UpdateOther
    BY <1>9, TimeUpdateOther
<1>10. CASE UpdateDone
    BY <1>10, TimeUpdateDone
<1>11. CASE Return
    <2>1. (Idle' <=> Idle) /\ (InTake' <=> InTake) /\ (InUpdate' <=> InUpdate)
        BY <1>11 DEF Return, Idle, InTake, InUpdate
    <2>2. /\ UNCHANGED <<handlers, timeoutTicks, i, taking, gap, outcome, timeout, age, lag>>
          /\ handlers' = <<>> /\ pc' = "take" => ticks' = 0
          /\ ticks' = ticks \/ (ticks' = 0 /\ handlers' = <<>> /\ ~InUpdate)
          /\ ~Idle /\ ~Idle'
        BY <1>11 DEF Return, RestartIfEmpty, Idle, InUpdate, ghosts
    <2>3. Clock'
        <3>1. ticks \in Nat /\ gap \in Nat /\ BusyMax \in Nat
            BY Numbers DEF Typed
        <3>2. ticks' + gap' <= BusyMax
            BY <2>2, <3>1 DEF Time, Clock
        <3> QED
            BY <2>1, <2>2, <3>2 DEF Time, Clock
    <2>4. CASE ticks' = ticks
        BY <2>1, <2>2, <2>3, <2>4, TimeFrame
    <2>5. CASE handlers' = <<>>
        <3>1. Timed' /\ Ahead' /\ NearLow'
            BY <2>5 DEF Timed, Ahead, NearLow
        <3>2. NearWitness' /\ Fresh' /\ NotEarly'
            BY <2>2, <2>5 DEF Time, NearWitness, Fresh, NotEarly
        <3> QED
            BY <2>3, <3>1, <3>2 DEF Time
    <2> QED
        BY <2>2, <2>4, <2>5
<1>12. CASE Tick
    BY <1>12, TimeTick
<1>13. CASE UNCHANGED vars
    <2>1. UNCHANGED <<pc, handlers, ticks, timeoutTicks, i, taking, gap, outcome, timeout, age, lag>>
        BY <1>13 DEF vars, container, loop, ghosts
    <2>2. (Idle' <=> Idle) /\ (InTake' <=> InTake) /\ (InUpdate' <=> InUpdate)
        BY <2>1 DEF Idle, InTake, InUpdate
    <2>3. Clock'
        BY <2>1, <2>2 DEF Time, Clock
    <2> QED
        BY <2>1, <2>2, <2>3, TimeFrame
<1> QED
    BY <1>1, <1>2, <1>3, <1>4, <1>5, <1>6, <1>7, <1>8, <1>9, <1>10, <1>11, <1>12, <1>13
    DEF Next, Steps

(* What the timing invariant says between two calls.                       *)
LEMMA TimeImplies ==
    ASSUME Typed, Held, Time
    PROVE  NearestIsExact /\ NotEarly /\ NotLate
<1>0. TypeOK
    BY DEF Typed
<1>1. NearestIsExact
    <2> SUFFICES ASSUME Idle
                 PROVE  /\ \A j \in 1..Len(handlers) : timeoutTicks <= handlers[j].ticks
                        /\ handlers # <<>> => \E j \in 1..Len(handlers) : timeoutTicks = handlers[j].ticks
                        /\ handlers = <<>> => timeoutTicks = TickMax /\ ticks = 0
        BY DEF NearestIsExact
    <2>1. \A j \in 1..Len(handlers) : timeoutTicks <= handlers[j].ticks
        BY DEF Time, NearLow
    <2>2. ASSUME handlers # <<>>
          PROVE  \E j \in 1..Len(handlers) : timeoutTicks = handlers[j].ticks
        <3>1. CASE timeoutTicks = TickMax
            <4>1. handlers \in Seq(Handler)
                BY <1>0 DEF TypeOK
            <4>2. 1 \in 1..Len(handlers)
                BY <2>2, <4>1
            <4>3. handlers[1].ticks \in 0..TickMax /\ TickMax \in Nat
                BY <1>0, <4>2, HandlerFields, HandlersAssumption
            <4>4. timeoutTicks = handlers[1].ticks
                BY <2>1, <3>1, <4>2, <4>3
            <4> QED
                BY <4>2, <4>4
        <3>2. CASE timeoutTicks # TickMax
            BY <3>2 DEF Time, NearWitness
        <3> QED
            BY <3>1, <3>2
    <2>3. ASSUME handlers = <<>>
          PROVE  timeoutTicks = TickMax /\ ticks = 0
        <3>1. Len(handlers) = 0 /\ ~InUpdate
            BY <2>3 DEF Idle, InUpdate
        <3> QED
            BY <2>3, <3>1 DEF Time, NearWitness, Clock
    <2> QED
        BY <2>1, <2>2, <2>3
<1>2. NotLate
    <2> SUFFICES ASSUME Idle, NEW c \in Callbacks, outcome[c] = "pending"
                 PROVE  age[c] + lag[c] < timeout[c] + gap
        BY DEF NotLate
    <2>1. hand = None /\ ~InUpdate /\ c # None
        BY HandlersAssumption DEF Held, HandPending, Idle, InTake, InUpdate
    <2>2. PICK j \in 1..Len(handlers) : handlers[j].callback = c
        BY <2>1 DEF Held, PendingHeld
    <2>3. handlers[j].ticks = ticks + Remaining(c) /\ ticks < handlers[j].ticks
        BY <2>1, <2>2 DEF Time, Timed, Ahead, Base
    <2>4. timeout[c] \in Nat /\ age[c] \in Nat /\ lag[c] \in Nat /\ gap \in Nat /\ ticks \in Nat
        BY <1>0, Numbers
    <2> QED
        BY <2>3, <2>4 DEF Remaining
<1> QED
    BY <1>1, <1>2 DEF Time

(* As long as no expiration time wraps around, nearestTimeout() of         *)
(* completion_handler.h is exact between two calls, for every number of    *)
(* handlers and every interleaving of callbacks that add more.             *)
THEOREM NearestTimeoutIsExact == ASSUME FitsInTicks PROVE Spec => []NearestIsExact
<1>1. Typed /\ Held /\ Time => NearestIsExact
    BY TimeImplies
<1>2. Typed /\ Held /\ Time /\ [Next]_vars => Time'
    BY TimeStep
<1> QED
    BY <1>1, <1>2, TypeInit, TypeStep, HeldInit, HeldStep, TimeInit, PTL DEF Spec

(* As long as no expiration time wraps around, update() calls no handler   *)
(* with TIMEOUT before its timeout, the lag of its registration aside.     *)
THEOREM NoEarlyTimeout == ASSUME FitsInTicks PROVE Spec => []NotEarly
<1>1. Typed /\ Held /\ Time => NotEarly
    BY TimeImplies
<1>2. Typed /\ Held /\ Time /\ [Next]_vars => Time'
    BY TimeStep
<1> QED
    BY <1>1, <1>2, TypeInit, TypeStep, HeldInit, HeldStep, TimeInit, PTL DEF Spec

(* As long as no expiration time wraps around, no handler outlives the     *)
(* first update() after its timeout.                                       *)
THEOREM NoLateTimeout == ASSUME FitsInTicks PROVE Spec => []NotLate
<1>1. Typed /\ Held /\ Time => NotLate
    BY TimeImplies
<1>2. Typed /\ Held /\ Time /\ [Next]_vars => Time'
    BY TimeStep
<1> QED
    BY <1>1, <1>2, TypeInit, TypeStep, HeldInit, HeldStep, TimeInit, PTL DEF Spec
=============================================================================
