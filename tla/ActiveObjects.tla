---------------------------- MODULE ActiveObjects ----------------------------
(***************************************************************************)
(* The two message pumps of the threaded firmware and the interrupt task   *)
(* queue: system/inc/active_object.h, system/src/active_object.cpp, the    *)
(* macros of system/inc/system_threading.h, and the code that ties them    *)
(* together (system_event.cpp, the cloud function calls of                 *)
(* system_cloud_internal.cpp, the background pass of system_task.cpp, the  *)
(* shutdown of system_update.cpp).                                         *)
(*                                                                         *)
(* Each thread has a stack of frames, innermost last, because both pumps   *)
(* are entered again from inside a message: the application's by           *)
(* spark_process() (Particle.process, delay), the system's by the          *)
(* listening loop and by system_shutdown_if_needed().                      *)
(*                                                                         *)
(* A thread that waits in a synchronous call waits for exactly one         *)
(* promise, so a promise is named by the thread that made it.              *)
(*                                                                         *)
(* Application code (setup(), loop(), handlers) is free to do at any point *)
(* any of the things the API offers, as often as it likes. Two limits:     *)
(* MaxNesting bounds how deep the application enters its pump from a       *)
(* handler, and an event or function call happens again only when it is    *)
(* no longer waiting, so that the names in Events and Functions bound how  *)
(* many are under way.                                                     *)
(***************************************************************************)
EXTENDS Naturals, SequencesExt, FiniteSets

CONSTANTS
  Workers,               \* threads of the application besides its main one
  Events,                \* system events with subscribed handlers
  Functions,             \* cloud requests that run application code and answer
  SystemQueueSize,       \* 50
  ApplicationQueueSize,  \* 20
  PoolBlocks,            \* tasks that fit in the system pool
  MaxNesting             \* frames of the application that run a message

ASSUME ThreadsAssumption ==
  /\ Workers \cap {"system", "application"} = {}
  /\ Events \cap Functions = {}
  /\ SystemQueueSize \in Nat \ {0}
  /\ ApplicationQueueSize \in Nat \ {0}
  /\ PoolBlocks \in Nat
  /\ MaxNesting \in Nat \ {0}

VARIABLES
  stack,                       \* per thread: what it is in the middle of
  systemQueue, applicationQueue,
  promise,                     \* per calling thread: none, pending, complete
  isrTasks, pool,              \* the interrupt task queue, free pool blocks
  waiting,                     \* events and function calls not yet over
  resetPending, resetEnabled,  \* system flags
  started,                     \* ApplicationThread.started
  halted                       \* the device was reset

queues == <<systemQueue, applicationQueue>>
flags == <<resetPending, resetEnabled>>
vars == <<stack, queues, promise, isrTasks, pool, waiting, flags, started, halted>>

Callers == {"application"} \cup Workers
Threads == {"system"} \cup Callers
Jobs == Events \cup Functions

Item == [kind : {"sync", "async"}, of : Callers]
          \cup [kind : {"event"}, of : Events \cup {"reset_pending"}]
          \cup [kind : {"function", "reply"}, of : Functions]
          \cup [kind : {"reset"}, of : {"system"}]

NoItem == [kind |-> "none", of |-> "none"]

Frame == [op : {"run", "put", "get"}, item : Item]
           \cup [op : {"task"}, item : [kind : {"event"}, of : Events]]
           \cup [op : {"idle isr", "idle cloud", "idle shutdown", "listen",
                       "shutdown", "resetting"}, item : {NoItem}]

(***************************************************************************)
(* Stacks                                                                  *)
(***************************************************************************)
Doing(t, op) == stack[t] # << >> /\ Last(stack[t]).op = op

Resting(t) == stack[t] = << >>

Do(op) == [op |-> op, item |-> NoItem]

DoItem(op, kind, of) == [op |-> op, item |-> [kind |-> kind, of |-> of]]

Push(t, frames) == stack' = [stack EXCEPT ![t] = @ \o frames]

\* the innermost frame is replaced by frames
Become(t, frames) == stack' = [stack EXCEPT ![t] = Front(@) \o frames]

Nesting(t) == Len(SelectSeq(stack[t], LAMBDA f : f.op = "run"))

\* application code is executing on the thread
UserCode(t) ==
  /\ t \in Callers
  /\ started
  /\ Resting(t) \/ Doing(t, "run")

(***************************************************************************)
(* Active object queues                                                    *)
(***************************************************************************)

\* which pump a message goes to
Destination(item) ==
  IF item.kind \in {"sync", "async", "reply"} THEN "system" ELSE "application"

Room(item) ==
  IF Destination(item) = "system" THEN Len(systemQueue) < SystemQueueSize
  ELSE Len(applicationQueue) < ApplicationQueueSize

\* Mutant: the system thread waits for the application as long as it takes.
PutNeverExpires(item) == FALSE

\* put_wait of the two active objects: SystemThread's callers wait for ever,
\* ApplicationThread's give up after five seconds
PutExpires(item) == Destination(item) = "application"

Queued(item) ==
  IF Destination(item) = "system"
  THEN systemQueue' = Append(systemQueue, item) /\ UNCHANGED applicationQueue
  ELSE applicationQueue' = Append(applicationQueue, item) /\ UNCHANGED systemQueue

\* os_queue_put() by thread t, whose frames are frames apart from the call: it
\* returns at once when there is room, else the thread waits
Send(t, frames, kind, of) ==
  LET put == DoItem("put", kind, of)
  IN IF Room(put.item)
     THEN /\ Queued(put.item)
          /\ stack' = [stack EXCEPT ![t] = frames]
     ELSE /\ stack' = [stack EXCEPT ![t] = Append(frames, put)]
          /\ UNCHANGED queues

\* a waiting os_queue_put() finds room
Put(t) ==
  /\ ~halted
  /\ Doing(t, "put")
  /\ Room(Last(stack[t]).item)
  /\ Queued(Last(stack[t]).item)
  /\ Become(t, << >>)
  /\ UNCHANGED <<promise, isrTasks, pool, waiting, flags, started, halted>>

\* Mutant: an interrupt task that finds the queue full returns before its end.
GivenUpTask(s) ==
  IF Len(s) > 1 /\ s[Len(s) - 1].op = "task" THEN Front(Front(s)) ELSE Front(s)

\* what is left of the caller's stack when its message could not be put
GivenUp(s) == Front(s)

\* os_queue_put() times out: the task is deleted, its caller is not told
PutTimesOut(t) ==
  /\ ~halted
  /\ Doing(t, "put")
  /\ LET item == Last(stack[t]).item
     IN /\ ~Room(item)
        /\ PutExpires(item)
        /\ waiting' = IF item.of \in Jobs
                  THEN [waiting EXCEPT ![item.of] = FALSE] ELSE waiting
  /\ stack' = [stack EXCEPT ![t] = GivenUp(@)]
  /\ UNCHANGED <<queues, promise, isrTasks, pool, flags, started, halted>>

\* where a thread may take the next message of its queue
PumpOpen(t) ==
  CASE t = "system" -> Resting(t) \/ Doing(t, "listen") \/ Doing(t, "shutdown")
    [] t = "application" -> UserCode(t) /\ Nesting(t) < MaxNesting
    [] OTHER -> FALSE

\* ActiveObjectBase::process() takes a message; Finish() is its end
Process(t) ==
  /\ ~halted
  /\ PumpOpen(t)
  /\ LET queue == IF t = "system" THEN systemQueue ELSE applicationQueue
     IN /\ queue # << >>
        /\ Push(t, <<[op |-> "run", item |-> Head(queue)]>>)
        /\ IF t = "system" THEN systemQueue' = Tail(queue) /\ UNCHANGED applicationQueue
           ELSE applicationQueue' = Tail(queue) /\ UNCHANGED systemQueue
  /\ UNCHANGED <<promise, isrTasks, pool, waiting, flags, started, halted>>

(***************************************************************************)
(* Shutdown                                                                *)
(***************************************************************************)
canShutdown == resetPending /\ resetEnabled

\* Mutant: the test of SYSTEM_FLAG_RESET_ENABLED is the wrong way round.
ShutdownIfDisabled == IF resetPending /\ ~resetEnabled THEN <<Do("resetting")>> ELSE << >>

\* the frames system_shutdown_if_enabled() goes on with: between its test
\* and the reset other threads may still write the flags
ShutdownIfEnabled == IF canShutdown THEN <<Do("resetting")>> ELSE << >>

\* Mutant: no background pass while messages keep coming.
IdleDueWhenEmpty(busy) == ~busy

\* run(): with the queue empty the background task runs after each take; under
\* load only when take_wait has passed since it last did
IdleDue(busy) == TRUE

(***************************************************************************)
(* The end of a message                                                    *)
(***************************************************************************)

\* A promise is completed; a cloud function posts its result to the system
\* thread; a reset event ends in system_shutdown_if_enabled. In the pump of
\* the system thread itself a background pass may follow.
Finish(t, pass) ==
  /\ ~halted
  /\ Doing(t, "run")
  /\ pass => t = "system" /\ Len(stack[t]) = 1 /\ IdleDue(TRUE)
  /\ LET item == Last(stack[t]).item
     IN /\ IF item.kind = "function"
           THEN Send(t, Front(stack[t]), "reply", item.of)
           ELSE /\ Become(t, (IF item.kind = "reset" THEN ShutdownIfEnabled ELSE << >>)
                              \o (IF pass THEN <<Do("idle isr")>> ELSE << >>))
                /\ UNCHANGED queues
        /\ promise' = IF item.kind = "sync"
                      THEN [promise EXCEPT ![item.of] = "complete"] ELSE promise
        /\ waiting' = IF item.kind \in {"reply", "event"} /\ item.of \in Jobs
                  THEN [waiting EXCEPT ![item.of] = FALSE] ELSE waiting
  /\ UNCHANGED <<isrTasks, pool, flags, started, halted>>

(***************************************************************************)
(* Calls into the system thread                                            *)
(***************************************************************************)

\* SYSTEM_THREAD_CONTEXT_SYNC: a promise is put, then waited for
CallSync(t) ==
  /\ ~halted
  /\ UserCode(t)
  /\ Send(t, Append(stack[t], DoItem("get", "sync", t)), "sync", t)
  /\ promise' = [promise EXCEPT ![t] = "pending"]
  /\ UNCHANGED <<isrTasks, pool, waiting, flags, started, halted>>

\* SYSTEM_THREAD_CONTEXT_ASYNC
CallAsync(t) ==
  /\ ~halted
  /\ UserCode(t)
  /\ Send(t, stack[t], "async", t)
  /\ UNCHANGED <<promise, isrTasks, pool, waiting, flags, started, halted>>

\* Mutant: wait_complete() gives up after a while.
CompletedOrLate(t) == promise[t] \in {"pending", "complete"}

\* wait_complete() returns
Completed(t) == promise[t] = "complete"

\* get() returns, the caller deletes the promise
Return(t) ==
  /\ ~halted
  /\ Doing(t, "get")
  /\ Completed(t)
  /\ promise' = [promise EXCEPT ![t] = "none"]
  /\ Become(t, << >>)
  /\ UNCHANGED <<queues, isrTasks, pool, waiting, flags, started, halted>>

(***************************************************************************)
(* System events                                                           *)
(***************************************************************************)

\* APPLICATION_THREAD_CONTEXT_ASYNC in system_notify_event_async: on the
\* application's own thread, or before it has started, the handlers are
\* called in place
InPlace(t) == ~started \/ t = "application"

\* t, left with frames, notifies e
Notified(t, frames, e) ==
  IF InPlace(t) THEN stack' = [stack EXCEPT ![t] = frames] /\ UNCHANGED queues
  ELSE Send(t, frames, "event", e)

Notify(t, e) ==
  /\ ~halted
  /\ ~waiting[e]
  /\ \/ UserCode(t)
     \/ t = "system" /\ (Doing(t, "run") \/ Doing(t, "listen"))
  /\ Notified(t, stack[t], e)
  /\ waiting' = [waiting EXCEPT ![e] = ~InPlace(t)]
  /\ UNCHANGED <<promise, isrTasks, pool, flags, started, halted>>

\* system_notify_event() in an interrupt: the event waits as a task in a
\* block of the system pool, or is lost when there is none
NotifyFromISR(e) ==
  /\ ~halted
  /\ ~waiting[e]
  /\ IF pool > 0
     THEN /\ pool' = pool - 1
          /\ isrTasks' = Append(isrTasks, e)
          /\ waiting' = [waiting EXCEPT ![e] = TRUE]
     ELSE UNCHANGED <<pool, isrTasks, waiting>>
  /\ UNCHANGED <<stack, queues, promise, flags, started, halted>>

\* SystemISRTaskQueue.process() takes the first task and SystemEventTask's
\* notify() runs; next is the frame the caller goes on with
TakeISRTask(t, next) ==
  /\ isrTasks # << >>
  /\ isrTasks' = Tail(isrTasks)
  /\ LET e == Head(isrTasks)
     IN /\ Notified(t, Front(stack[t]) \o <<next, DoItem("task", "event", e)>>, e)
        /\ waiting' = IF InPlace(t) THEN [waiting EXCEPT ![e] = FALSE] ELSE waiting

\* the end of SystemEventTask::notify(): system_pool_free()
FreeTask(t) ==
  /\ ~halted
  /\ Doing(t, "task")
  /\ pool' = pool + 1
  /\ Become(t, << >>)
  /\ UNCHANGED <<queues, promise, isrTasks, waiting, flags, started, halted>>

(***************************************************************************)
(* The system thread's background pass: system_thread_idle                 *)
(***************************************************************************)

\* run() finds no message within take_wait
StartIdle ==
  /\ ~halted
  /\ Resting("system")
  /\ systemQueue = << >>
  /\ IdleDue(FALSE)
  /\ Push("system", <<Do("idle isr")>>)
  /\ UNCHANGED <<queues, promise, isrTasks, pool, waiting, flags, started, halted>>

\* process_isr_task_queue()
IdleISR ==
  /\ ~halted
  /\ Doing("system", "idle isr")
  /\ \/ TakeISRTask("system", Do("idle cloud"))
     \/ isrTasks = << >> /\ Become("system", <<Do("idle cloud")>>)
          /\ UNCHANGED <<queues, isrTasks, waiting>>
  /\ UNCHANGED <<promise, pool, flags, started, halted>>

\* manage_cloud_connection(): a function call arrives, userFuncSchedule()
\* hands it to the application, or runs and answers it before that has started
IdleFunctionCall(f) ==
  /\ ~halted
  /\ Doing("system", "idle cloud")
  /\ ~waiting[f]
  /\ IF started
     THEN Send("system", Front(stack["system"]) \o <<Do("idle shutdown")>>, "function", f)
     ELSE Become("system", <<Do("idle shutdown")>>) /\ UNCHANGED queues
  /\ waiting' = [waiting EXCEPT ![f] = started]
  /\ UNCHANGED <<promise, isrTasks, pool, flags, started, halted>>

\* it notifies a change of the network or of the connection
IdleNotify(e) ==
  /\ ~halted
  /\ Doing("system", "idle cloud")
  /\ ~waiting[e]
  /\ Notified("system", Front(stack["system"]) \o <<Do("idle shutdown")>>, e)
  /\ waiting' = [waiting EXCEPT ![e] = ~InPlace("system")]
  /\ UNCHANGED <<promise, isrTasks, pool, flags, started, halted>>

\* the pass goes by without either; it may end an update or find the
\* device switched off (system_pending_shutdown) or enter the listening loop
IdleCloud ==
  /\ ~halted
  /\ Doing("system", "idle cloud")
  /\ \/ Become("system", <<Do("idle shutdown")>>) /\ UNCHANGED <<queues, resetPending>>
     \/ Become("system", <<Do("idle shutdown"), Do("listen")>>)
          /\ UNCHANGED <<queues, resetPending>>
     \/ /\ ~resetPending
        /\ resetPending' = TRUE
        /\ Notified("system", Front(stack["system"]) \o <<Do("idle shutdown")>>, "reset_pending")
  /\ UNCHANGED <<promise, isrTasks, pool, waiting, resetEnabled, started, halted>>

\* the listening loop pumps interrupt tasks, and messages (Process)
ListenISR ==
  /\ ~halted
  /\ Doing("system", "listen")
  /\ TakeISRTask("system", Do("listen"))
  /\ UNCHANGED <<promise, pool, flags, started, halted>>

EndListening ==
  /\ ~halted
  /\ Doing("system", "listen")
  /\ Become("system", << >>)
  /\ UNCHANGED <<queues, promise, isrTasks, pool, waiting, flags, started, halted>>

\* system_shutdown_if_needed(): announces the reset and waits for it. Before
\* the application has started the announcement resets the device in place
IdleShutdown ==
  /\ ~halted
  /\ Doing("system", "idle shutdown")
  /\ IF canShutdown /\ started
     THEN Send("system", Front(stack["system"]) \o <<Do("shutdown")>>, "reset", "system")
     ELSE /\ Become("system", IF canShutdown THEN <<Do("shutdown")>> \o ShutdownIfEnabled
                              ELSE << >>)
          /\ UNCHANGED queues
  /\ UNCHANGED <<promise, isrTasks, pool, waiting, flags, started, halted>>

\* its loop ends, after thirty seconds or because a reset is no longer wanted
EndShutdown ==
  /\ ~halted
  /\ Doing("system", "shutdown")
  /\ Become("system", ShutdownIfEnabled)
  /\ UNCHANGED <<queues, promise, isrTasks, pool, waiting, flags, started, halted>>

\* System.reset(): everything is as it was at power on
Reset(t) ==
  /\ ~halted
  /\ Doing(t, "resetting")
  /\ halted' = TRUE
  /\ stack' = [u \in Threads |-> << >>]
  /\ systemQueue' = << >>
  /\ applicationQueue' = << >>
  /\ promise' = [u \in Callers |-> "none"]
  /\ isrTasks' = << >>
  /\ pool' = PoolBlocks
  /\ waiting' = [j \in Jobs |-> FALSE]
  /\ resetPending' = FALSE
  /\ resetEnabled' = TRUE
  /\ started' = FALSE

(***************************************************************************)
(* Application flags and start                                             *)
(***************************************************************************)

\* System.enableReset(), System.disableReset(): the flag is written in place
SetResetEnabled(t, enabled) ==
  /\ ~halted
  /\ UserCode(t)
  /\ resetEnabled # enabled
  /\ resetEnabled' = enabled
  /\ UNCHANGED <<stack, queues, promise, isrTasks, pool, waiting, resetPending, started, halted>>

\* ApplicationThread.start(), while the system thread already runs
StartApplication ==
  /\ ~halted
  /\ ~started
  /\ started' = TRUE
  /\ UNCHANGED <<stack, queues, promise, isrTasks, pool, waiting, flags, halted>>

(***************************************************************************)
(* Specification                                                           *)
(***************************************************************************)
Init ==
  /\ stack = [t \in Threads |-> << >>]
  /\ systemQueue = << >>
  /\ applicationQueue = << >>
  /\ promise = [t \in Callers |-> "none"]
  /\ isrTasks = << >>
  /\ pool = PoolBlocks
  /\ waiting = [j \in Jobs |-> FALSE]
  /\ resetPending = FALSE
  /\ resetEnabled = TRUE
  /\ started = FALSE
  /\ halted = FALSE

Next ==
  \/ \E t \in Threads :
       \/ Put(t)
       \/ PutTimesOut(t)
       \/ Process(t)
       \/ \E pass \in BOOLEAN : Finish(t, pass)
       \/ \E e \in Events : Notify(t, e)
       \/ FreeTask(t)
       \/ Reset(t)
  \/ \E t \in Callers :
       \/ CallSync(t)
       \/ CallAsync(t)
       \/ Return(t)
       \/ \E enabled \in BOOLEAN : SetResetEnabled(t, enabled)
  \/ \E e \in Events : NotifyFromISR(e) \/ IdleNotify(e)
  \/ \E f \in Functions : IdleFunctionCall(f)
  \/ StartIdle
  \/ IdleISR
  \/ IdleCloud
  \/ ListenISR
  \/ EndListening
  \/ IdleShutdown
  \/ EndShutdown
  \/ StartApplication

Spec == Init /\ [][Next]_vars

\* What a thread does as soon as it is scheduled.
Step(t) ==
  \/ PutTimesOut(t)
  \/ FreeTask(t)
  \/ Reset(t)
  \/ t \in Callers /\ Return(t)
  \/ t = "application" /\ StartApplication
  \/ t = "system" /\ (\/ StartIdle
                       \/ IdleISR
                       \/ IdleCloud
                       \/ IdleShutdown)

\* What the scheduler and the clock give. Every runnable thread runs. Threads
\* that wait for room in a queue are of equal priority and are served in turn
\* (Put). The pumps return to their queue: setup(), loop() and the handlers of
\* the application end (Process, Finish). Time passes while messages run, so
\* that the 100 ms of take_wait and the 30 s of the shutdown loop are over in
\* the end, although messages keep coming (Finish with a pass, EndShutdown).
\* Nothing makes the application call, an interrupt occur, or listening end.
Fairness ==
  /\ \A t \in Threads : WF_vars(Step(t)) /\ SF_vars(Put(t))
  /\ \A t \in {"system", "application"} :
       SF_vars(Process(t)) /\ SF_vars(\E pass \in BOOLEAN : Finish(t, pass))
  /\ SF_vars(Finish("system", TRUE))
  /\ SF_vars(ListenISR)
  /\ SF_vars(EndShutdown)

FairSpec == Spec /\ Fairness

(***************************************************************************)
(* Properties                                                              *)
(***************************************************************************)

\* Every variable keeps its type; the queues and the pool keep their bounds.
TypeOK ==
  /\ stack \in [Threads -> Seq(Frame)]
  /\ systemQueue \in Seq(Item) /\ Len(systemQueue) <= SystemQueueSize
  /\ applicationQueue \in Seq(Item) /\ Len(applicationQueue) <= ApplicationQueueSize
  /\ promise \in [Callers -> {"none", "pending", "complete"}]
  /\ isrTasks \in Seq(Events)
  /\ pool \in 0..PoolBlocks
  /\ waiting \in [Jobs -> BOOLEAN]
  /\ resetPending \in BOOLEAN
  /\ resetEnabled \in BOOLEAN
  /\ started \in BOOLEAN
  /\ halted \in BOOLEAN

\* the places that hold a pointer to the promise of t
References(t) ==
  LET isSync(item) == item.kind = "sync" /\ item.of = t
  IN Cardinality({i \in DOMAIN systemQueue : isSync(systemQueue[i])})
     + Cardinality({i \in DOMAIN stack[t] :
                      stack[t][i].op = "put" /\ isSync(stack[t][i].item)})
     + Cardinality({i \in DOMAIN stack["system"] :
                      stack["system"][i].op = "run" /\ isSync(stack["system"][i].item)})

\* A synchronous call's promise lives on the caller's side and is deleted by
\* the caller when get() returns. While the promise is incomplete exactly one
\* place refers to it, and when it is complete or deleted none does: the
\* system thread neither runs a deleted promise nor runs one twice, although
\* it may start a second message while the first still waits in a nested pump.
PromiseOutlivesUse ==
  \A t \in Callers : References(t) = IF promise[t] = "pending" THEN 1 ELSE 0

\* Every block of the system pool is free, or holds a task that waits in the
\* interrupt task queue, or holds the one the system thread is notifying: an
\* event that could not be handed to the application does not cost a block.
PoolConserved ==
  pool + Len(isrTasks) + Cardinality({i \in DOMAIN stack["system"] :
                                        stack["system"][i].op = "task"})
    = PoolBlocks

\* the thread is inside os_queue_put() or a promise's get()
Blocked(t) == Doing(t, "put") \/ Doing(t, "get")

\* No thread stays blocked: a call into the system thread returns although
\* both queues may be full and each pump may be waiting for the other's.
CallsReturn ==
  \A t \in Threads : Blocked(t) ~> (halted \/ ~Blocked(t))

\* An event or function call that was taken on is handled, and a function
\* answered, or it is given up for a full application queue; none is left
\* lying, however busy other threads keep the system thread.
JobsEnd ==
  \A j \in Jobs : waiting[j] ~> ~waiting[j]

\* A reset that stays wanted and enabled happens once listening has ended,
\* even when its announcement finds no room in the application queue.
ShutdownHappens ==
  <>[](/\ canShutdown
       /\ \A i \in DOMAIN stack["system"] : stack["system"][i].op # "listen")
    => <>halted

=============================================================================
