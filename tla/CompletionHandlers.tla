------------------------- MODULE CompletionHandlers -------------------------
(***************************************************************************)
(* CompletionHandlerMap of services/inc/completion_handler.h, used as      *)
(* Protocol::ack_handlers uses it: one handler for every event published   *)
(* with an acknowledgement, keyed by message id.                           *)
(*                                                                         *)
(* takeHandler() and update() are loops over the vector handlers_ that run *)
(* user callbacks on the way, and without threading such a callback may    *)
(* publish again, that is add a handler to the vector the loop is walking: *)
(* each iteration is a step, and so is each addition from a callback.      *)
(*                                                                         *)
(* system_tick_t is an unsigned integer of TickMax + 1 values.             *)
(***************************************************************************)
EXTENDS Integers, Sequences

CONSTANTS
    Callbacks,  \* completion callbacks, each registered at most once
    Keys,       \* message ids
    Timeouts,   \* the timeouts handlers are registered with
    TickMax,    \* MAX_TIMEOUT, the largest system_tick_t (2^32 - 1)
    GapMax,     \* bound: longest time between two calls of event_loop()
    BusyMax,    \* bound: longest time the map is in use without a restart
                \* of ticks_, see Tick
    None

ASSUME HandlersAssumption ==
    /\ TickMax \in Nat
    /\ GapMax \in Nat
    /\ BusyMax \in Nat
    /\ BusyMax <= TickMax
    /\ Timeouts \subseteq 1..TickMax
    /\ None \notin Callbacks \cup Keys

VARIABLES
    handlers,      \* handlers_: the vector of Handler records
    timeoutTicks,  \* timeoutTicks_: nearest expiration time
    ticks,         \* ticks_: time counted by update() since the last restart
    pc,            \* which loop runs, "_callback" while it runs a callback
    i,             \* the local index of that loop, from 1
    taking,        \* takeHandler(): the key and the outcome for its handler
    hand,          \* takeHandler(): the local CompletionHandler
    gap,           \* callbacks.millis() - last_ack_handlers_update
    outcome,       \* ghost: what each callback was called with
    calls,         \* ghost: how often it was called
    timeout,       \* ghost: the timeout it was registered with
    age,           \* ghost: time since it was registered, until it is called
    lag            \* ghost: the gap when it was registered

container == <<handlers, timeoutTicks, ticks>>
loop == <<pc, i, taking, hand>>
ghosts == <<outcome, calls, timeout, age, lag>>
vars == <<container, loop, gap, ghosts>>

Handler == [callback : Callbacks, key : Keys, ticks : 0..TickMax]

Outcomes == {"result", "coap_error", "timeout", "aborted", "internal"}

Idle == pc = "idle"

(* Mutant: the nearest time is the last one looked at.                     *)
LeastIgnored(a, b) == b

(* The nearer of an expiration time and the nearest one so far.            *)
Least(a, b) == IF a < b THEN a ELSE b

(* Unsigned addition of two system_tick_t.                                 *)
Plus(a, b) == (a + b) % (TickMax + 1)

(* Mutant: the handler is used but stays in the vector.                    *)
RemoveNothing(s, k) == s

(* spark::Vector::takeAt().                                                *)
RemoveAt(s, k) == [j \in 1..(Len(s) - 1) |-> IF j < k THEN s[j] ELSE s[j + 1]]

(* CompletionHandler::setResult() and setError(): the callback is called   *)
(* and forgotten.                                                          *)
Call(c, how) ==
    /\ outcome' = [outcome EXCEPT ![c] = how]
    /\ calls' = [calls EXCEPT ![c] = @ + 1]
    /\ UNCHANGED <<timeout, age, lag>>

CallNothing == UNCHANGED ghosts

(* A loop returns and its locals are gone.                                 *)
LoopEnds == pc' = "idle" /\ i' = 1 /\ taking' = <<None, "none">> /\ hand' = None

-----------------------------------------------------------------------------
(* addHandler(), from send_event() or from a callback.  When the vector    *)
(* cannot grow the handler is destroyed, which calls it with INTERNAL.  A  *)
(* message sent while an acknowledgement is handled has another id.        *)
addHandler(c, key, t, appended) ==
    LET expires == Plus(ticks, t)
    IN  /\ pc \in {"idle", "update_callback", "take_callback"}
        /\ outcome[c] = "none"
        /\ pc = "take_callback" => key # taking[1]
        /\ timeout' = [timeout EXCEPT ![c] = t]
        /\ lag' = [lag EXCEPT ![c] = gap]
        /\ UNCHANGED <<ticks, loop, gap, age>>
        /\ IF appended
           THEN /\ handlers' = Append(handlers, [callback |-> c, key |-> key, ticks |-> expires])
                /\ timeoutTicks' = Least(expires, timeoutTicks)
                /\ outcome' = [outcome EXCEPT ![c] = "pending"]
                /\ UNCHANGED calls
           ELSE /\ outcome' = [outcome EXCEPT ![c] = "internal"]
                /\ calls' = [calls EXCEPT ![c] = @ + 1]
                /\ UNCHANGED <<handlers, timeoutTicks>>

(* notify_message_complete(): setResult(key) or setError(key), which start *)
(* with takeHandler(key).                                                  *)
takeHandler(key, how) ==
    /\ Idle
    /\ pc' = "take"
    /\ i' = 1
    /\ taking' = <<key, how>>
    /\ hand' = None
    /\ timeoutTicks' = TickMax
    /\ UNCHANGED <<handlers, ticks, gap, ghosts>>

(* ticks_ after an iteration that found the key.                           *)
RestartIfEmpty(s) == IF s = <<>> THEN 0 ELSE ticks

(* An iteration that finds the key: the handler moves to the local one,    *)
(* whose previous callback, if any, is called with INTERNAL, before the    *)
(* vector is tested for being empty.                                       *)
TakeFound ==
    /\ pc = "take" /\ i <= Len(handlers) /\ handlers[i].key = taking[1]
    /\ handlers' = RemoveAt(handlers, i)
    /\ hand' = handlers[i].callback
    /\ IF hand = None
       THEN pc' = "take" /\ ticks' = RestartIfEmpty(handlers') /\ CallNothing
       ELSE pc' = "take_callback" /\ UNCHANGED ticks /\ Call(hand, "internal")
    /\ UNCHANGED <<timeoutTicks, i, taking, gap>>

(* Mutant: the loop stays at a handler with another key.                   *)
TakeOtherStays ==
    /\ pc = "take" /\ i <= Len(handlers) /\ handlers[i].key # taking[1]
    /\ timeoutTicks' = Least(handlers[i].ticks, timeoutTicks)
    /\ UNCHANGED <<handlers, ticks, loop, gap, ghosts>>

(* An iteration that finds another key.                                    *)
TakeOther ==
    /\ pc = "take" /\ i <= Len(handlers) /\ handlers[i].key # taking[1]
    /\ timeoutTicks' = Least(handlers[i].ticks, timeoutTicks)
    /\ i' = i + 1
    /\ UNCHANGED <<handlers, ticks, pc, taking, hand, gap, ghosts>>

(* The loop ends, and the handler that was found is called.                *)
TakeDone ==
    /\ pc = "take" /\ i > Len(handlers)
    /\ LoopEnds
    /\ IF hand = None THEN CallNothing ELSE Call(hand, taking[2])
    /\ UNCHANGED <<container, gap>>

-----------------------------------------------------------------------------
(* Mutant: a handler is looked at one tick too late.                       *)
UpdateLate(now) == now > timeoutTicks

(* Has the nearest expiration time been reached?                           *)
UpdateDue(now) == now >= timeoutTicks

(* event_loop() calls update() with the time since the last call.          *)
update ==
    /\ Idle
    /\ gap' = 0
    /\ IF handlers = <<>>
       THEN UNCHANGED <<container, loop>>
       ELSE /\ ticks' = Plus(ticks, gap)
            /\ IF UpdateDue(ticks')
               THEN /\ timeoutTicks' = TickMax
                    /\ pc' = "update"
                    /\ i' = 1
                    /\ UNCHANGED <<taking, hand>>
               ELSE UNCHANGED <<timeoutTicks, loop>>
            /\ UNCHANGED handlers
    /\ UNCHANGED ghosts

(* Mutant: every handler expires with the nearest one.                     *)
ExpiresAny(t) == TRUE

(* Has a handler expired?                                                  *)
Expires(t) == ticks >= t

UpdateExpired ==
    /\ pc = "update" /\ i <= Len(handlers) /\ Expires(handlers[i].ticks)
    /\ handlers' = RemoveAt(handlers, i)
    /\ Call(handlers[i].callback, "timeout")
    /\ pc' = "update_callback"
    /\ UNCHANGED <<timeoutTicks, ticks, i, taking, hand, gap>>

(* Mutant: the two operands are exchanged.                                 *)
RebasedBackwards(t) == ticks - t

(* The expiration time of a handler that stays, when ticks_ restarts.      *)
Rebased(t) == t - ticks

UpdateOther ==
    /\ pc = "update" /\ i <= Len(handlers) /\ ~Expires(handlers[i].ticks)
    /\ handlers' = [handlers EXCEPT ![i].ticks = Rebased(@)]
    /\ timeoutTicks' = Least(handlers'[i].ticks, timeoutTicks)
    /\ i' = i + 1
    /\ UNCHANGED <<ticks, pc, taking, hand, gap, ghosts>>

UpdateDone ==
    /\ pc = "update" /\ i > Len(handlers)
    /\ LoopEnds
    /\ ticks' = 0
    /\ UNCHANGED <<handlers, timeoutTicks, gap, ghosts>>

(* The callback that a loop called returns to it.                          *)
Return ==
    /\ pc \in {"update_callback", "take_callback"}
    /\ IF pc = "update_callback"
       THEN pc' = "update" /\ UNCHANGED ticks
       ELSE pc' = "take" /\ ticks' = RestartIfEmpty(handlers)
    /\ UNCHANGED <<handlers, timeoutTicks, i, taking, hand, gap, ghosts>>

(* The callbacks of the handlers in the vector.                            *)
Listed == {handlers[j].callback : j \in 1..Len(handlers)}

(* begin() and the DISCONNECT and TERMINATE commands abort every handler;  *)
(* begin() also sets last_ack_handlers_update.                             *)
clear(restart) ==
    /\ Idle
    /\ handlers' = <<>>
    /\ timeoutTicks' = TickMax
    /\ ticks' = 0
    /\ gap' = IF restart THEN 0 ELSE gap
    /\ outcome' = [c \in Callbacks |-> IF c \in Listed THEN "aborted" ELSE outcome[c]]
    /\ calls' = [c \in Callbacks |-> IF c \in Listed THEN calls[c] + 1 ELSE calls[c]]
    /\ UNCHANGED <<loop, timeout, age, lag>>

(* External: time passes between calls.  The event loop comes back within  *)
(* GapMax, and a period in which ticks_ is never restarted (the map is     *)
(* never empty and nothing expires) is shorter than BusyMax.               *)
Tick ==
    /\ Idle
    /\ gap < GapMax
    /\ ticks + gap < BusyMax
    /\ gap' = gap + 1
    /\ age' = [c \in Callbacks |-> IF outcome[c] = "pending" THEN age[c] + 1 ELSE age[c]]
    /\ UNCHANGED <<container, loop, outcome, calls, timeout, lag>>

-----------------------------------------------------------------------------
Init ==
    /\ handlers = <<>>
    /\ timeoutTicks = TickMax
    /\ ticks = 0
    /\ pc = "idle"
    /\ i = 1
    /\ taking = <<None, "none">>
    /\ hand = None
    /\ gap = 0
    /\ outcome = [c \in Callbacks |-> "none"]
    /\ calls = [c \in Callbacks |-> 0]
    /\ timeout = [c \in Callbacks |-> 0]
    /\ age = [c \in Callbacks |-> 0]
    /\ lag = [c \in Callbacks |-> 0]

Steps == TakeFound \/ TakeOther \/ TakeDone \/ UpdateExpired \/ UpdateOther \/ UpdateDone \/ Return

Next ==
    \/ \E c \in Callbacks, key \in Keys, t \in Timeouts, ok \in BOOLEAN : addHandler(c, key, t, ok)
    \/ \E key \in Keys, how \in {"result", "coap_error"} : takeHandler(key, how)
    \/ \E restart \in BOOLEAN : clear(restart)
    \/ update
    \/ Steps
    \/ Tick

Spec == Init /\ [][Next]_vars

(* The loops run to their end.  However many acknowledgements, sends and   *)
(* new sessions come in between, event_loop() updates the handlers and     *)
(* time passes: strong fairness, as these disable both for a while.        *)
FairSpec == Spec /\ WF_vars(Steps) /\ SF_vars(update) /\ SF_vars(Tick)

-----------------------------------------------------------------------------
TypeOK ==
    /\ handlers \in Seq(Handler)
    /\ timeoutTicks \in 0..TickMax
    /\ ticks \in 0..TickMax
    /\ pc \in {"idle", "take", "take_callback", "update", "update_callback"}
    /\ i \in Nat \ {0}
    /\ taking \in (Keys \X Outcomes) \cup {<<None, "none">>}
    /\ hand \in Callbacks \cup {None}
    /\ gap \in 0..GapMax
    /\ outcome \in [Callbacks -> Outcomes \cup {"none", "pending"}]
    /\ calls \in [Callbacks -> Nat]
    /\ timeout \in [Callbacks -> Timeouts \cup {0}]
    /\ age \in [Callbacks -> Nat]
    /\ lag \in [Callbacks -> Nat]

(* No completion is lost or repeated: a registered callback is in exactly  *)
(* one place, the vector or the hand of takeHandler(), until it is called, *)
(* and it is called once, whatever is added while the loops run.           *)
CalledOnce ==
    \A c \in Callbacks :
        /\ calls[c] = (IF outcome[c] \in {"none", "pending"} THEN 0 ELSE 1)
        /\ outcome[c] = "pending" <=> c \in Listed \cup {hand}
        /\ \A j, k \in 1..Len(handlers) :
               handlers[j].callback = c /\ handlers[k].callback = c => j = k
        /\ c = hand => c \notin Listed

(* nearestTimeout() is the time until the first handler expires: update()  *)
(* looks at the handlers only then, so a value that is too large delays a  *)
(* timeout, and MAX_TIMEOUT left behind would suppress it.                 *)
NearestIsExact ==
    Idle => /\ \A j \in 1..Len(handlers) : timeoutTicks <= handlers[j].ticks
            /\ handlers # <<>> => \E j \in 1..Len(handlers) : timeoutTicks = handlers[j].ticks
            /\ handlers = <<>> => timeoutTicks = TickMax /\ ticks = 0

(* A handler is called with TIMEOUT no earlier than its timeout, less the  *)
(* time between the last update() and its registration, which the code     *)
(* counts against it.                                                      *)
NotEarly ==
    \A c \in Callbacks : outcome[c] = "timeout" => age[c] + lag[c] >= timeout[c]

(* A handler whose timeout has passed does not survive the next update():  *)
(* between two updates it is overdue by less than the time since the last. *)
NotLate ==
    Idle => \A c \in Callbacks :
                outcome[c] = "pending" => age[c] + lag[c] < timeout[c] + gap

(* Every registered handler is called in the end.                          *)
EventuallyCalled ==
    \A c \in Callbacks : outcome[c] = "pending" ~> outcome[c] \in Outcomes
=============================================================================
