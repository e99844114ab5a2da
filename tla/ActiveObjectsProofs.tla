------------------------ MODULE ActiveObjectsProofs ------------------------
(***************************************************************************)
(* The message pumps for any number of threads, events, functions and      *)
(* queue sizes.  What a thread's stack and a queue may hold is a matter of *)
(* types (Frames, SystemItem, ApplicationItem).  The rest is counting: how *)
(* many frames or messages of a kind a sequence holds (Count), and what    *)
(* putting a message, taking it and finishing it do to these numbers.      *)
(***************************************************************************)
EXTENDS ActiveObjects, FiniteSetTheorems, SequenceTheorems, TLAPS

(* How many elements of the sequence are in X.                             *)
Count(s, X) == Cardinality({i \in 1..Len(s) : s[i] \in X})

One(x, X) == IF x \in X THEN 1 ELSE 0

Sync(t) == [kind |-> "sync", of |-> t]

(* The messages of the two pumps, and what a caller's thread may put.      *)
SystemItem == [kind : {"sync", "async"}, of : Callers] \cup [kind : {"reply"}, of : Functions]

ApplicationItem ==
    [kind : {"event"}, of : Events \cup {"reset_pending"}]
      \cup [kind : {"function"}, of : Functions]
      \cup [kind : {"reset"}, of : {"system"}]

Sent(t) ==
    [kind : {"sync", "async"}, of : {t}]
      \cup [kind : {"event"}, of : Events]
      \cup [kind : {"reply"}, of : Functions]

Tasks == [op : {"task"}, item : [kind : {"event"}, of : Events]]

(* The frames of a thread.                                                 *)
Frames(t) ==
    IF t = "system"
    THEN [op : {"run"}, item : SystemItem]
           \cup [op : {"put"}, item : ApplicationItem]
           \cup Tasks
           \cup [op : {"idle isr", "idle cloud", "idle shutdown", "listen",
                       "shutdown", "resetting"}, item : {NoItem}]
    ELSE [op : {"run"}, item : ApplicationItem]
           \cup [op : {"put"}, item : Sent(t)]
           \cup [op : {"get"}, item : {Sync(t)}]
           \cup [op : {"resetting"}, item : {NoItem}]

Routed ==
    /\ systemQueue \in Seq(SystemItem) /\ Len(systemQueue) <= SystemQueueSize
    /\ applicationQueue \in Seq(ApplicationItem) /\ Len(applicationQueue) <= ApplicationQueueSize

Stacked == stack \in [Threads -> Seq(Frame)] /\ \A t \in Threads : stack[t] \in Seq(Frames(t))

(* The innermost frame waits for the promise, or puts it and then waits.   *)
Awaits(s) ==
    /\ s # << >>
    /\ \/ Last(s).op = "get"
       \/ Last(s).op = "put" /\ Front(s) # << >> /\ Last(Front(s)).op = "get"

Waits == \A t \in Callers : promise[t] = "pending" => Awaits(stack[t])

PutSync(t) == DoItem("put", "sync", t)

RunSync(t) == DoItem("run", "sync", t)

Refs(t) ==
    Count(systemQueue, {Sync(t)})
      + Count(stack[t], {PutSync(t)})
      + Count(stack["system"], {RunSync(t)})

OneReference == \A t \in Callers : Refs(t) = IF promise[t] = "pending" THEN 1 ELSE 0

Blocks == pool + Len(isrTasks) + Count(stack["system"], Tasks) = PoolBlocks

Inv == TypeOK /\ Routed /\ Stacked /\ Waits /\ OneReference /\ Blocks
-----------------------------------------------------------------------------
(* Counts are numbers; an empty sequence holds nothing.                    *)
LEMMA CountType ==
    ASSUME NEW S, NEW s \in Seq(S), NEW X
    PROVE  /\ IsFiniteSet({i \in 1..Len(s) : s[i] \in X})
           /\ Count(s, X) \in Nat
           /\ s = << >> => Count(s, X) = 0
<1>1. Len(s) \in Nat
    OBVIOUS
<1>2. IsFiniteSet(1..Len(s))
    BY <1>1, FS_Interval
<1>3. IsFiniteSet({i \in 1..Len(s) : s[i] \in X})
    BY <1>2, FS_Subset
<1>4. Count(s, X) \in Nat
    BY <1>3, FS_CardinalityType DEF Count
<1>5. ASSUME s = << >> PROVE Count(s, X) = 0
    <2>1. {i \in 1..Len(s) : s[i] \in X} = {}
        BY <1>5
    <2>2. QED
        BY <2>1, FS_EmptySet DEF Count
<1>6. QED
    BY <1>3, <1>4, <1>5

(* One more at the end.                                                    *)
LEMMA CountAppend ==
    ASSUME NEW S, NEW s \in Seq(S), NEW x \in S, NEW X
    PROVE  Count(Append(s, x), X) = Count(s, X) + One(x, X)
<1> DEFINE A == {i \in 1..Len(s) : s[i] \in X}
           B == {i \in 1..Len(Append(s, x)) : Append(s, x)[i] \in X}
           n == Len(s) + 1
<1>1. /\ Len(s) \in Nat /\ Len(Append(s, x)) = n /\ Append(s, x)[n] = x
      /\ \A i \in 1..Len(s) : Append(s, x)[i] = s[i]
    OBVIOUS
<1>2. \A i : i \in 1..n <=> i \in 1..Len(s) \/ i = n
    BY <1>1
<1>c. Count(s, X) = Cardinality(A) /\ Count(Append(s, x), X) = Cardinality(B)
    BY DEF Count
<1>3. n \notin A /\ IsFiniteSet(A) /\ Cardinality(A) \in Nat
    <2>1. n \notin A
        BY <1>1
    <2>2. IsFiniteSet(A) /\ Count(s, X) \in Nat
        BY CountType
    <2>3. QED
        BY <1>c, <2>1, <2>2
<1>4. CASE x \in X
    <2>1. B = A \cup {n}
        BY <1>1, <1>2, <1>4
    <2>2. Cardinality(B) = Cardinality(A) + 1
        BY <1>3, <2>1, FS_AddElement
    <2> HIDE DEF A, B
    <2>3. QED
        BY <1>c, <1>4, <2>2 DEF One
<1>5. CASE x \notin X
    <2>1. B = A
        BY <1>1, <1>2, <1>5
    <2> HIDE DEF A, B
    <2>2. QED
        BY <1>c, <1>3, <1>5, <2>1 DEF One
<1>6. QED
    BY <1>4, <1>5

(* A sequence is its front and its last element.                           *)
LEMMA FrontLast ==
    ASSUME NEW S, NEW s \in Seq(S), s # << >>
    PROVE  /\ Front(s) \in Seq(S) /\ Last(s) \in S
           /\ Len(Front(s)) = Len(s) - 1
           /\ \A i \in 1..(Len(s) - 1) : Front(s)[i] = s[i]
           /\ s = Append(Front(s), Last(s))
<1>1. Len(s) \in Nat /\ Len(s) >= 1
    OBVIOUS
<1>2. Front(s) = SubSeq(s, 1, Len(s) - 1) /\ Last(s) = s[Len(s)]
    BY DEF Front, Last
<1>3. /\ Front(s) \in Seq(S) /\ Len(Front(s)) = Len(s) - 1
      /\ \A i \in 1..(Len(s) - 1) : Front(s)[i] = s[i]
    <2>1. ASSUME NEW n \in Nat, \A i \in 1..n : s[i] \in S
          PROVE  /\ SubSeq(s, 1, n) \in Seq(S) /\ Len(SubSeq(s, 1, n)) = n
                 /\ \A i \in 1..n : SubSeq(s, 1, n)[i] = s[i]
        <3>1. /\ SubSeq(s, 1, n) \in Seq(S)
              /\ Len(SubSeq(s, 1, n)) = (IF 1 <= n THEN n - 1 + 1 ELSE 0)
              /\ \A i \in 1..(n - 1 + 1) : SubSeq(s, 1, n)[i] = s[1 + i - 1]
            BY <2>1, SubSeqProperties
        <3>2. n - 1 + 1 = n /\ \A i \in 1..n : 1 + i - 1 = i
            OBVIOUS
        <3>3. QED
            BY <3>1, <3>2
    <2>2. Len(s) - 1 \in Nat /\ \A i \in 1..(Len(s) - 1) : s[i] \in S
        BY <1>1
    <2>3. QED
        BY <1>2, <2>1, <2>2
<1>4. Last(s) \in S
    BY <1>1, <1>2
<1>5. s = Append(Front(s), Last(s))
    BY <1>1, <1>2, <1>3
<1>6. QED
    BY <1>3, <1>4, <1>5

(* One less at the end.                                                    *)
LEMMA CountFront ==
    ASSUME NEW S, NEW s \in Seq(S), s # << >>, NEW X
    PROVE  Count(s, X) = Count(Front(s), X) + One(Last(s), X)
<1>1. Front(s) \in Seq(S) /\ Last(s) \in S /\ s = Append(Front(s), Last(s))
    BY FrontLast
<1>2. QED
    BY <1>1, CountAppend

(* One less at the beginning.                                              *)
LEMMA CountTail ==
    ASSUME NEW S, NEW s \in Seq(S), s # << >>, NEW X
    PROVE  Count(s, X) = Count(Tail(s), X) + One(Head(s), X)
<1> DEFINE A == {i \in 1..Len(Tail(s)) : Tail(s)[i] \in X}
           B == {i \in 1..Len(s) : s[i] \in X}
           f == [i \in A |-> i + 1]
<1>1. /\ Len(s) \in Nat /\ Len(s) >= 1 /\ Len(Tail(s)) = Len(s) - 1 /\ Head(s) = s[1]
      /\ Tail(s) \in Seq(S)
      /\ \A i \in 1..(Len(s) - 1) : Tail(s)[i] = s[i + 1]
    OBVIOUS
<1>c. Count(s, X) = Cardinality(B) /\ Count(Tail(s), X) = Cardinality(A)
    BY DEF Count
<1>2. IsFiniteSet(A) /\ IsFiniteSet(B) /\ Cardinality(A) \in Nat /\ Cardinality(B) \in Nat
    <2>1. IsFiniteSet(A) /\ IsFiniteSet(B) /\ Count(s, X) \in Nat /\ Count(Tail(s), X) \in Nat
        BY <1>1, CountType
    <2>2. QED
        BY <1>c, <2>1
<1>3. f \in Bijection(A, B \ {1})
    <2>1. \A i \in A : i \in Int /\ i + 1 \in B \ {1}
        BY <1>1
    <2>2. \A i, j \in A : f[i] = f[j] => i = j
        BY <2>1
    <2>3. \A k \in B \ {1} : \E i \in A : f[i] = k
        <3>1. ASSUME NEW k \in B \ {1} PROVE \E i \in A : f[i] = k
            <4>1. k - 1 \in 1..(Len(s) - 1) /\ (k - 1) + 1 = k
                BY <1>1
            <4>2. k - 1 \in A
                BY <1>1, <4>1
            <4>3. QED
                BY <4>1, <4>2
        <3>2. QED
            BY <3>1
    <2>4. QED
        BY <2>1, <2>2, <2>3 DEF Bijection, Injection, Surjection, IsInjective
<1>4. Cardinality(B \ {1}) = Cardinality(A)
    BY <1>2, <1>3, FS_Bijection DEF ExistsBijection
<1>5. CASE Head(s) \in X
    <2>1. 1 \in B
        BY <1>1, <1>5
    <2>2. Cardinality(B \ {1}) = Cardinality(B) - 1
        BY <1>2, <2>1, FS_RemoveElement
    <2> HIDE DEF A, B
    <2>3. QED
        BY <1>c, <1>2, <1>4, <1>5, <2>2 DEF One
<1>6. CASE Head(s) \notin X
    <2>1. B \ {1} = B
        BY <1>1, <1>6
    <2>2. Cardinality(A) = Cardinality(B)
        BY <1>4, <2>1
    <2> HIDE DEF A, B
    <2>3. QED
        BY <1>c, <1>2, <1>6, <2>2 DEF One
<1>7. QED
    BY <1>5, <1>6
-----------------------------------------------------------------------------
(* The items and frames of each side are items and frames.                 *)
LEMMA ItemTypes ==
    /\ SystemItem \subseteq Item /\ ApplicationItem \subseteq Item
    /\ \A t \in Callers : Sent(t) \subseteq Item /\ Sync(t) \in SystemItem /\ Sync(t) \in Sent(t)
    /\ \A item \in SystemItem : Destination(item) = "system"
    /\ \A item \in ApplicationItem : Destination(item) = "application" /\ item.kind # "sync"
<1>1. SystemItem \subseteq Item
    BY DEF SystemItem, Item
<1>2. ApplicationItem \subseteq Item
    BY DEF ApplicationItem, Item
<1>3. \A t \in Callers : Sent(t) \subseteq Item
    BY DEF Sent, Item
<1>4. \A t \in Callers : Sync(t) \in SystemItem /\ Sync(t) \in Sent(t)
    BY DEF SystemItem, Sent, Sync
<1>5. \A item \in SystemItem : Destination(item) = "system"
    BY DEF SystemItem, Destination
<1>6. \A item \in ApplicationItem : Destination(item) = "application" /\ item.kind # "sync"
    BY DEF ApplicationItem, Destination
<1>7. QED
    BY <1>1, <1>2, <1>3, <1>4, <1>5, <1>6

(* The frames of a thread are frames.                                      *)
LEMMA FrameTypes ==
    ASSUME NEW t \in Threads
    PROVE  Frames(t) \subseteq Frame
<1>1. CASE t = "system"
    <2>1. [op : {"run"}, item : SystemItem] \subseteq Frame
        BY ItemTypes DEF Frame
    <2>2. [op : {"put"}, item : ApplicationItem] \subseteq Frame
        BY ItemTypes DEF Frame
    <2>3. QED
        BY <1>1, <2>1, <2>2 DEF Frames, Tasks, Frame
<1>2. CASE t # "system"
    <2>1. t \in Callers
        BY <1>2 DEF Threads
    <2>2. [op : {"run"}, item : ApplicationItem] \subseteq Frame
        BY ItemTypes DEF Frame
    <2>3. [op : {"put"}, item : Sent(t)] \subseteq Frame
        BY <2>1, ItemTypes DEF Frame
    <2>4. [op : {"get"}, item : {Sync(t)}] \subseteq Frame
        BY <2>1, ItemTypes DEF Frame
    <2>5. QED
        BY <1>2, <2>2, <2>3, <2>4 DEF Frames, Frame
<1>3. QED
    BY <1>1, <1>2

(* The threads are told apart.                                             *)
LEMMA ThreadNames ==
    /\ "system" \in Threads /\ "application" \in Callers /\ "application" \in Threads
    /\ "system" \notin Callers /\ Callers \subseteq Threads
    /\ \A t \in Threads : t # "system" => t \in Callers
BY ThreadsAssumption DEF Threads, Callers
-----------------------------------------------------------------------------
(* A frame that neither refers to a promise nor holds a task.              *)
Plain(f) == f.op # "task" /\ (f.op \in {"put", "run"} => f.item.kind # "sync")

(* The two stacks hold the same references and tasks.                      *)
Same(s, u) ==
    /\ \A t \in Callers : /\ Count(s, {PutSync(t)}) = Count(u, {PutSync(t)})
                          /\ Count(s, {RunSync(t)}) = Count(u, {RunSync(t)})
    /\ Count(s, Tasks) = Count(u, Tasks)

(* A plain frame makes no difference.                                      *)
LEMMA PlainFrame ==
    ASSUME NEW f, Plain(f)
    PROVE  /\ \A t \in Callers : One(f, {PutSync(t)}) = 0 /\ One(f, {RunSync(t)}) = 0
           /\ One(f, Tasks) = 0
<1>1. \A t \in Callers : f # PutSync(t) /\ f # RunSync(t)
    BY DEF Plain, PutSync, RunSync, DoItem
<1>2. f \notin Tasks
    BY DEF Plain, Tasks
<1>3. QED
    BY <1>1, <1>2 DEF One

(* One more plain frame.                                                   *)
LEMMA SameAppend ==
    ASSUME NEW S, NEW s \in Seq(S), NEW f \in S, Plain(f)
    PROVE  Same(s, Append(s, f)) /\ Append(s, f) \in Seq(S)
<1>1. ASSUME NEW X, One(f, X) = 0 PROVE Count(s, X) = Count(Append(s, f), X)
    <2>1. Count(Append(s, f), X) = Count(s, X) + One(f, X) /\ Count(s, X) \in Nat
        BY CountAppend, CountType
    <2>2. QED
        BY <1>1, <2>1
<1>2. Append(s, f) \in Seq(S)
    OBVIOUS
<1>3. Same(s, Append(s, f))
    BY <1>1, PlainFrame DEF Same
<1>4. QED
    BY <1>2, <1>3

(* One plain frame less.                                                   *)
LEMMA SameFront ==
    ASSUME NEW S, NEW s \in Seq(S), s # << >>, Plain(Last(s))
    PROVE  Same(s, Front(s)) /\ Front(s) \in Seq(S)
<1>0. Front(s) \in Seq(S)
    BY FrontLast
<1>1. ASSUME NEW X, One(Last(s), X) = 0 PROVE Count(s, X) = Count(Front(s), X)
    <2>1. Count(s, X) = Count(Front(s), X) + One(Last(s), X) /\ Count(Front(s), X) \in Nat
        BY <1>0, CountFront, CountType
    <2>2. QED
        BY <1>1, <2>1
<1>2. QED
    BY <1>0, <1>1, PlainFrame DEF Same

(* Frames that replace the innermost one, one by one.                      *)
LEMMA Concatenated ==
    ASSUME NEW S, NEW s \in Seq(S)
    PROVE  /\ s \o << >> = s
           /\ \A a \in S : s \o <<a>> = Append(s, a)
           /\ \A a, b \in S : s \o <<a, b>> = Append(Append(s, a), b)
<1>1. s \o << >> = s
    OBVIOUS
<1>2. \A a \in S : s \o <<a>> = Append(s, a)
    OBVIOUS
<1>3. \A a, b \in S : s \o <<a, b>> = Append(Append(s, a), b)
    OBVIOUS
<1>4. QED
    BY <1>1, <1>2, <1>3
-----------------------------------------------------------------------------
(* What the frames of a thread say about its side of the queues.           *)
LEMMA FrameItems ==
    /\ \A f \in Frames("system") :
           /\ f.op = "run" => f.item \in SystemItem
           /\ f.op = "put" => f.item \in ApplicationItem
           /\ f.op = "task" => f \in Tasks
           /\ f.op # "get"
    /\ \A t \in Callers : \A f \in Frames(t) :
           /\ f.op = "run" => f.item \in ApplicationItem
           /\ f.op = "put" => f.item \in Sent(t)
           /\ f.op # "task"
<1>1. ASSUME NEW f \in Frames("system")
      PROVE  /\ f.op = "run" => f.item \in SystemItem
             /\ f.op = "put" => f.item \in ApplicationItem
             /\ f.op = "task" => f \in Tasks
             /\ f.op # "get"
    BY DEF Frames, Tasks
<1>2. ASSUME NEW t \in Callers, NEW f \in Frames(t)
      PROVE  /\ f.op = "run" => f.item \in ApplicationItem
             /\ f.op = "put" => f.item \in Sent(t)
             /\ f.op # "task"
    BY ThreadNames DEF Frames
<1>3. QED
    BY <1>1, <1>2

(* The innermost frame of a thread that is doing something.                *)
LEMMA Innermost ==
    ASSUME Stacked, NEW t \in Threads, NEW op, Doing(t, op)
    PROVE  /\ stack[t] \in Seq(Frames(t)) /\ stack[t] # << >>
           /\ Last(stack[t]) \in Frames(t) /\ Last(stack[t]).op = op
           /\ Front(stack[t]) \in Seq(Frames(t))
           /\ op \notin {"put", "run", "task"} => Plain(Last(stack[t]))
<1>1. stack[t] \in Seq(Frames(t)) /\ stack[t] # << >> /\ Last(stack[t]).op = op
    BY DEF Stacked, Doing
<1>2. QED
    BY <1>1, FrontLast DEF Plain

(* A thread whose application code runs does not wait for a promise.       *)
LEMMA NotPending ==
    ASSUME Waits, NEW t \in Callers,
           Resting(t) \/ (stack[t] # << >> /\ Last(stack[t]).op \notin {"get", "put"})
    PROVE  promise[t] # "pending"
BY DEF Waits, Awaits, Resting

(* A change of one stack.                                                  *)
LEMMA StackChange ==
    ASSUME Stacked, NEW t \in Threads, NEW X \in Seq(Frames(t)),
           stack' = [stack EXCEPT ![t] = X]
    PROVE  /\ Stacked' /\ stack'[t] = X
           /\ \A u \in Threads : u # t => stack'[u] = stack[u]
<1>1. X \in Seq(Frame)
    BY FrameTypes, SeqMonotonic
<1>2. stack'[t] = X /\ \A u \in Threads : u # t => stack'[u] = stack[u]
    BY DEF Stacked
<1>3. stack' \in [Threads -> Seq(Frame)]
    BY <1>1 DEF Stacked
<1>4. \A u \in Threads : stack'[u] \in Seq(Frames(u))
    BY <1>2 DEF Stacked
<1>5. QED
    BY <1>2, <1>3, <1>4 DEF Stacked

(* The flags and counts no invariant is about.                             *)
FlagsOK ==
    /\ waiting \in [Jobs -> BOOLEAN]
    /\ resetPending \in BOOLEAN /\ resetEnabled \in BOOLEAN
    /\ started \in BOOLEAN /\ halted \in BOOLEAN

(* The system queue holds as many references to each promise as before.    *)
SameQueued == \A u \in Callers : Count(systemQueue', {Sync(u)}) = Count(systemQueue, {Sync(u)})

(* Types of the parts.                                                     *)
LEMMA TypesAssembled ==
    ASSUME Routed', Stacked', FlagsOK',
           promise' \in [Callers -> {"none", "pending", "complete"}],
           isrTasks' \in Seq(Events), pool' \in 0..PoolBlocks
    PROVE  TypeOK'
<1>1. systemQueue' \in Seq(Item) /\ applicationQueue' \in Seq(Item)
    BY ItemTypes, SeqMonotonic DEF Routed
<1>2. QED
    BY <1>1 DEF TypeOK, Routed, Stacked, FlagsOK

(* The references to a promise after a change of one stack.                *)
LEMMA RefsAfter ==
    ASSUME Stacked, NEW t \in Threads, NEW X \in Seq(Frames(t)),
           stack' = [stack EXCEPT ![t] = X], NEW u \in Callers
    PROVE  Refs(u)' = Count(systemQueue', {Sync(u)})
                        + (IF t = u THEN Count(X, {PutSync(u)}) ELSE Count(stack[u], {PutSync(u)}))
                        + (IF t = "system" THEN Count(X, {RunSync(u)})
                           ELSE Count(stack["system"], {RunSync(u)}))
<1>1. /\ stack'[u] = IF t = u THEN X ELSE stack[u]
      /\ stack'["system"] = IF t = "system" THEN X ELSE stack["system"]
    BY StackChange, ThreadNames
<1>2. Refs(u)' = Count(systemQueue', {Sync(u)}) + Count(stack'[u], {PutSync(u)})
                   + Count(stack'["system"], {RunSync(u)})
    BY DEF Refs, Count, PutSync, RunSync, Sync, DoItem
<1>3. QED
    BY <1>1, <1>2

(* The number of tasks the system thread is notifying, likewise.           *)
LEMMA TasksAfter ==
    ASSUME Stacked, NEW t \in Threads, NEW X \in Seq(Frames(t)),
           stack' = [stack EXCEPT ![t] = X],
           t = "system" => Count(X, Tasks) = Count(stack["system"], Tasks),
           isrTasks' = isrTasks, pool' = pool, Blocks
    PROVE  Blocks'
<1>1. stack'["system"] = IF t = "system" THEN X ELSE stack["system"]
    BY StackChange, ThreadNames
<1>2. Count(stack'["system"], Tasks) = Count(stack["system"], Tasks)
    BY <1>1
<1>3. QED
    BY <1>2 DEF Blocks, Count, Tasks

(* A step that leaves every reference where it is.                         *)
LEMMA RefsKept ==
    ASSUME Inv, NEW t \in Threads, NEW X \in Seq(Frames(t)),
           \A u \in Callers : /\ Count(stack[t], {PutSync(u)}) = Count(X, {PutSync(u)})
                              /\ Count(stack[t], {RunSync(u)}) = Count(X, {RunSync(u)}),
           stack' = [stack EXCEPT ![t] = X], Routed', FlagsOK', SameQueued,
           promise' = promise, isrTasks' \in Seq(Events), pool' \in 0..PoolBlocks, Blocks',
           t \in Callers /\ promise[t] = "pending" => Awaits(X)
    PROVE  Inv'
<1>1. /\ Stacked' /\ stack'[t] = X
      /\ \A u \in Threads : u # t => stack'[u] = stack[u]
    BY StackChange DEF Inv
<1>2. TypeOK'
    <2>1. promise' \in [Callers -> {"none", "pending", "complete"}]
        BY DEF Inv, TypeOK
    <2>2. QED
        BY <1>1, <2>1, TypesAssembled
<1>3. Waits'
    <2>1. ASSUME NEW u \in Callers, promise'[u] = "pending" PROVE Awaits(stack'[u])
        BY <1>1, <2>1, ThreadNames DEF Inv, Waits
    <2>2. QED
        BY <2>1 DEF Waits, Awaits
<1>4. OneReference'
    <2>1. ASSUME NEW u \in Callers PROVE Refs(u)' = Refs(u)
        <3>1. Stacked /\ Count(systemQueue', {Sync(u)}) = Count(systemQueue, {Sync(u)})
            BY DEF Inv, SameQueued
        <3>2. Refs(u)' = Count(systemQueue', {Sync(u)})
                           + (IF t = u THEN Count(X, {PutSync(u)})
                              ELSE Count(stack[u], {PutSync(u)}))
                           + (IF t = "system" THEN Count(X, {RunSync(u)})
                              ELSE Count(stack["system"], {RunSync(u)}))
            BY <3>1, RefsAfter
        <3>3. QED
            BY <3>1, <3>2 DEF Refs
    <2>2. QED
        BY <2>1 DEF Inv, OneReference
<1>5. QED
    BY <1>1, <1>2, <1>3, <1>4 DEF Inv

(* A step that leaves every reference and every task where it is.          *)
LEMMA Neutral ==
    ASSUME Inv, NEW t \in Threads, NEW X \in Seq(Frames(t)), Same(stack[t], X),
           stack' = [stack EXCEPT ![t] = X], Routed', FlagsOK', SameQueued,
           promise' = promise, isrTasks' = isrTasks, pool' = pool,
           t \in Callers /\ promise[t] = "pending" => Awaits(X)
    PROVE  Inv'
<1>1. Blocks'
    BY TasksAfter DEF Inv, Same
<1>2. isrTasks' \in Seq(Events) /\ pool' \in 0..PoolBlocks
    BY DEF Inv, TypeOK
<1>3. QED
    BY <1>1, <1>2, RefsKept DEF Same

(* A message that finds room.                                              *)
LEMMA QueuedEffect ==
    ASSUME Routed, NEW item \in SystemItem \cup ApplicationItem, Room(item), Queued(item)
    PROVE  /\ Routed'
           /\ \A u \in Callers : Count(systemQueue', {Sync(u)})
                                   = Count(systemQueue, {Sync(u)}) + One(item, {Sync(u)})
<1>1. CASE item \in SystemItem
    <2>1. /\ systemQueue' = Append(systemQueue, item) /\ applicationQueue' = applicationQueue
          /\ Len(systemQueue) < SystemQueueSize
        BY <1>1, ItemTypes DEF Queued, Room
    <2>2. Routed'
        <3>1. /\ systemQueue' \in Seq(SystemItem)
              /\ Len(systemQueue') = Len(systemQueue) + 1 /\ Len(systemQueue) \in Nat
            BY <1>1, <2>1 DEF Routed
        <3>2. QED
            BY <2>1, <3>1, ThreadsAssumption DEF Routed
    <2>3. \A u \in Callers : Count(systemQueue', {Sync(u)})
                               = Count(systemQueue, {Sync(u)}) + One(item, {Sync(u)})
        BY <1>1, <2>1, CountAppend DEF Routed
    <2>4. QED
        BY <2>2, <2>3
<1>2. CASE item \in ApplicationItem
    <2>1. /\ applicationQueue' = Append(applicationQueue, item) /\ systemQueue' = systemQueue
          /\ Len(applicationQueue) < ApplicationQueueSize
        BY <1>2, ItemTypes DEF Queued, Room
    <2>2. Routed'
        <3>1. /\ applicationQueue' \in Seq(ApplicationItem)
              /\ Len(applicationQueue') = Len(applicationQueue) + 1
              /\ Len(applicationQueue) \in Nat
            BY <1>2, <2>1 DEF Routed
        <3>2. QED
            BY <2>1, <3>1, ThreadsAssumption DEF Routed
    <2>3. ASSUME NEW u \in Callers
          PROVE  Count(systemQueue', {Sync(u)})
                   = Count(systemQueue, {Sync(u)}) + One(item, {Sync(u)})
        <3>1. item # Sync(u)
            BY <1>2, ItemTypes DEF Sync
        <3>2. One(item, {Sync(u)}) = 0 /\ Count(systemQueue, {Sync(u)}) \in Nat
            BY <3>1, CountType DEF One, Routed
        <3>3. QED
            BY <2>1, <3>2
    <2>4. QED
        BY <2>2, <2>3
<1>3. QED
    BY <1>1, <1>2

(* Anything but a promise.                                                 *)
LEMMA QueuedOther ==
    ASSUME Routed, NEW item \in SystemItem \cup ApplicationItem, Room(item), Queued(item),
           item.kind # "sync"
    PROVE  Routed' /\ SameQueued
<1>1. ASSUME NEW u \in Callers
      PROVE  Count(systemQueue', {Sync(u)}) = Count(systemQueue, {Sync(u)})
    <2>1. item # Sync(u)
        BY DEF Sync
    <2>2. One(item, {Sync(u)}) = 0 /\ Count(systemQueue, {Sync(u)}) \in Nat
        BY <2>1, CountType DEF One, Routed
    <2>3. Count(systemQueue', {Sync(u)}) = Count(systemQueue, {Sync(u)}) + One(item, {Sync(u)})
        BY QueuedEffect
    <2>4. QED
        BY <2>2, <2>3
<1>2. QED
    BY <1>1, QueuedEffect DEF SameQueued

(* os_queue_put() of anything but a promise.                               *)
LEMMA SendEffect ==
    ASSUME Routed, NEW t \in Threads, NEW frames \in Seq(Frames(t)), NEW kind, NEW of,
           kind # "sync", DoItem("put", kind, of) \in Frames(t),
           DoItem("put", kind, of).item \in SystemItem \cup ApplicationItem,
           Send(t, frames, kind, of)
    PROVE  /\ Routed' /\ SameQueued
           /\ \E X \in Seq(Frames(t)) :
                  stack' = [stack EXCEPT ![t] = X] /\ Same(frames, X)
<1> DEFINE put == DoItem("put", kind, of)
<1>1. put.item.kind # "sync" /\ put.op = "put"
    BY DEF DoItem
<1>2. Plain(put)
    BY <1>1 DEF Plain
<1>3. CASE Room(put.item)
    <2>1. Queued(put.item) /\ stack' = [stack EXCEPT ![t] = frames]
        BY <1>3 DEF Send
    <2>2. Routed' /\ SameQueued
        BY <1>1, <1>3, <2>1, QueuedOther
    <2>3. QED
        BY <2>1, <2>2 DEF Same
<1>4. CASE ~Room(put.item)
    <2>1. stack' = [stack EXCEPT ![t] = Append(frames, put)] /\ UNCHANGED queues
        BY <1>4 DEF Send
    <2>2. Same(frames, Append(frames, put)) /\ Append(frames, put) \in Seq(Frames(t))
        BY <1>2, SameAppend
    <2>3. Routed' /\ SameQueued
        BY <2>1 DEF Routed, SameQueued, queues
    <2>4. QED
        BY <2>1, <2>2, <2>3
<1>5. QED
    BY <1>3, <1>4

(* system_notify_event_async(), in place or through the queue.             *)
LEMMA NotifiedEffect ==
    ASSUME Routed, NEW t \in Threads, NEW frames \in Seq(Frames(t)), NEW e,
           e \in Events \/ (t = "system" /\ e = "reset_pending"),
           Notified(t, frames, e)
    PROVE  /\ Routed' /\ SameQueued
           /\ \E X \in Seq(Frames(t)) :
                  stack' = [stack EXCEPT ![t] = X] /\ Same(frames, X)
<1>1. CASE InPlace(t)
    <2>1. stack' = [stack EXCEPT ![t] = frames] /\ UNCHANGED queues
        BY <1>1 DEF Notified
    <2>2. QED
        BY <2>1 DEF Same, Routed, SameQueued, queues
<1>2. CASE ~InPlace(t)
    <2>1. Send(t, frames, "event", e)
        BY <1>2 DEF Notified
    <2>2. DoItem("put", "event", e).item \in ApplicationItem
        BY DEF DoItem, ApplicationItem
    <2>3. DoItem("put", "event", e) \in Frames(t)
        <3>1. CASE t = "system"
            BY <3>1, <2>2 DEF Frames, DoItem
        <3>2. CASE t # "system"
            BY <3>2 DEF Frames, DoItem, Sent
        <3>3. QED
            BY <3>1, <3>2
    <2>4. QED
        BY <2>1, <2>2, <2>3, SendEffect
<1>3. QED
    BY <1>1, <1>2
-----------------------------------------------------------------------------
(* A waiting os_queue_put() finds room: the reference to a promise moves   *)
(* from the caller's stack to the queue.                                   *)
LEMMA PutKept ==
    ASSUME Inv, FlagsOK, NEW t \in Threads, Put(t)
    PROVE  Inv'
<1> DEFINE f == Last(stack[t])
           X == Front(stack[t])
<1>1. Routed /\ Stacked /\ Waits /\ OneReference /\ Blocks
    BY DEF Inv
<1>2. /\ Doing(t, "put") /\ Room(f.item) /\ Queued(f.item)
      /\ stack' = [stack EXCEPT ![t] = Front(stack[t]) \o << >>]
      /\ promise' = promise /\ isrTasks' = isrTasks /\ pool' = pool
      /\ UNCHANGED <<waiting, flags, started, halted>>
    BY DEF Put, Become
<1>3. /\ stack[t] \in Seq(Frames(t)) /\ stack[t] # << >> /\ f \in Frames(t) /\ f.op = "put"
      /\ X \in Seq(Frames(t))
    BY <1>1, <1>2, Innermost
<1>4. stack' = [stack EXCEPT ![t] = X]
    BY <1>2, <1>3, Concatenated
<1>5. FlagsOK'
    BY <1>2 DEF FlagsOK, flags
<1>6. t \in Callers /\ promise[t] = "pending" => Awaits(X)
    BY <1>1, <1>3 DEF Waits, Awaits
<1>7. f.item \in SystemItem \cup ApplicationItem
    <2>1. CASE t = "system"
        BY <1>3, <2>1, FrameItems
    <2>2. CASE t # "system"
        <3>1. f.item \in Sent(t) /\ t \in Callers
            BY <1>3, <2>2, FrameItems, ThreadNames
        <3>2. QED
            BY <3>1 DEF Sent, SystemItem, ApplicationItem
    <2>3. QED
        BY <2>1, <2>2
<1>8. CASE f.item.kind # "sync"
    <2>1. Same(stack[t], X)
        BY <1>3, <1>8, SameFront DEF Plain
    <2>2. Routed' /\ SameQueued
        BY <1>1, <1>2, <1>7, <1>8, QueuedOther
    <2> HIDE DEF f, X
    <2>3. QED
        BY <1>2, <1>3, <1>4, <1>5, <1>6, <2>1, <2>2, Neutral
<1>9. CASE f.item.kind = "sync"
    <2>1. t \in Callers /\ f.item \in Sent(t)
        BY <1>3, <1>9, FrameItems, ThreadNames, ItemTypes
    <2>2. f.item = Sync(t)
        BY <1>9, <2>1 DEF Sent, Sync
    <2>3. f = PutSync(t)
        <3>1. f \in [op : {"put"}, item : Sent(t)]
            BY <1>3, <2>1, ThreadNames DEF Frames
        <3>2. QED
            BY <2>2, <3>1 DEF PutSync, DoItem, Sync
    <2>4. Routed' /\ Stacked'
        BY <1>1, <1>2, <1>3, <1>4, <1>7, QueuedEffect, StackChange
    <2>5. TypeOK'
        BY <1>2, <1>5, <2>4, TypesAssembled DEF Inv, TypeOK
    <2>6. Waits'
        <3>1. ASSUME NEW u \in Callers, promise'[u] = "pending" PROVE Awaits(stack'[u])
            BY <1>1, <1>2, <1>3, <1>4, <1>6, <3>1, StackChange, ThreadNames DEF Waits
        <3>2. QED
            BY <3>1 DEF Waits, Awaits
    <2>7. OneReference'
        <3>1. ASSUME NEW u \in Callers PROVE Refs(u)' = Refs(u)
            <4>1. Refs(u)' = Count(systemQueue', {Sync(u)})
                               + (IF t = u THEN Count(X, {PutSync(u)})
                                  ELSE Count(stack[u], {PutSync(u)}))
                               + Count(stack["system"], {RunSync(u)})
                BY <1>1, <1>3, <1>4, <2>1, RefsAfter, ThreadNames
            <4>2. Count(systemQueue', {Sync(u)})
                    = Count(systemQueue, {Sync(u)}) + One(f.item, {Sync(u)})
                BY <1>1, <1>2, <1>7, QueuedEffect
            <4>3. Count(stack[t], {PutSync(u)}) = Count(X, {PutSync(u)}) + One(f, {PutSync(u)})
                BY <1>3, CountFront
            <4>4. /\ u = t => One(f.item, {Sync(u)}) = 1 /\ One(f, {PutSync(u)}) = 1
                  /\ u # t => One(f.item, {Sync(u)}) = 0
                BY <2>2, <2>3 DEF One, Sync
            <4>5. /\ Count(systemQueue, {Sync(u)}) \in Nat /\ Count(X, {PutSync(u)}) \in Nat
                  /\ Count(stack[u], {PutSync(u)}) \in Nat
                  /\ Count(stack["system"], {RunSync(u)}) \in Nat
                BY <1>1, <1>3, CountType, ThreadNames DEF Routed, Stacked
            <4> HIDE DEF f, X
            <4>6. QED
                BY <4>1, <4>2, <4>3, <4>4, <4>5 DEF Refs
        <3>2. QED
            BY <1>1, <1>2, <3>1 DEF OneReference
    <2>8. Blocks'
        BY <1>1, <1>2, <1>3, <1>4, <2>1, TasksAfter, ThreadNames
    <2>9. QED
        BY <2>4, <2>5, <2>6, <2>7, <2>8 DEF Inv
<1>10. QED
    BY <1>8, <1>9

(* A pump takes a message: a reference moves from the queue to the stack   *)
(* of the system thread.                                                   *)
LEMMA ProcessKept ==
    ASSUME Inv, FlagsOK, NEW t \in Threads, Process(t)
    PROVE  Inv'
<1>1. Routed /\ Stacked /\ Waits /\ OneReference /\ Blocks
    BY DEF Inv
<1>2. /\ promise' = promise /\ isrTasks' = isrTasks /\ pool' = pool /\ PumpOpen(t)
      /\ UNCHANGED <<waiting, flags, started, halted>>
    BY DEF Process
<1>3. FlagsOK'
    BY <1>2 DEF FlagsOK, flags
<1>4. stack[t] \in Seq(Frames(t))
    BY <1>1 DEF Stacked
<1>5. CASE t = "system"
    <2> DEFINE h == Head(systemQueue)
               f == [op |-> "run", item |-> h]
               X == Append(stack[t], f)
    <2>1. /\ systemQueue # << >> /\ stack' = [stack EXCEPT ![t] = stack[t] \o <<f>>]
          /\ systemQueue' = Tail(systemQueue) /\ applicationQueue' = applicationQueue
        BY <1>5 DEF Process, Push
    <2>2. /\ h \in SystemItem /\ Tail(systemQueue) \in Seq(SystemItem)
          /\ Len(Tail(systemQueue)) = Len(systemQueue) - 1 /\ Len(systemQueue) \in Nat
        BY <1>1, <2>1, HeadTailProperties DEF Routed
    <2>3. f \in Frames(t)
        BY <1>5, <2>2 DEF Frames
    <2>4. X \in Seq(Frames(t)) /\ stack' = [stack EXCEPT ![t] = X]
        <3>1. X \in Seq(Frames(t))
            BY <1>4, <2>3
        <3>2. stack[t] \o <<f>> = X
            BY <1>4, <2>3, Concatenated
        <3> HIDE DEF X
        <3>3. QED
            BY <2>1, <3>1, <3>2
    <2>5. Routed' /\ Stacked'
        <3>1. Routed'
            BY <1>1, <2>1, <2>2, ThreadsAssumption DEF Routed
        <3> HIDE DEF X
        <3>2. QED
            BY <1>1, <2>4, <3>1, StackChange
    <2>6. TypeOK'
        BY <1>2, <1>3, <2>5, TypesAssembled DEF Inv, TypeOK
    <2>7. Waits'
        <3>1. ASSUME NEW u \in Callers, promise'[u] = "pending" PROVE Awaits(stack'[u])
            BY <1>1, <1>2, <1>5, <2>4, <3>1, StackChange, ThreadNames DEF Waits
        <3>2. QED
            BY <3>1 DEF Waits, Awaits
    <2>8. OneReference'
        <3>1. ASSUME NEW u \in Callers PROVE Refs(u)' = Refs(u)
            <4>1. Refs(u)' = Count(systemQueue', {Sync(u)}) + Count(stack[u], {PutSync(u)})
                               + Count(X, {RunSync(u)})
                BY <1>1, <1>5, <2>4, RefsAfter, ThreadNames
            <4>2. Count(systemQueue, {Sync(u)})
                    = Count(systemQueue', {Sync(u)}) + One(h, {Sync(u)})
                BY <1>1, <2>1, CountTail DEF Routed
            <4>3. Count(X, {RunSync(u)}) = Count(stack[t], {RunSync(u)}) + One(f, {RunSync(u)})
                BY <1>4, <2>3, CountAppend
            <4>4. One(h, {Sync(u)}) = One(f, {RunSync(u)}) /\ One(h, {Sync(u)}) \in Nat
                <5>1. h = Sync(u) <=> f = RunSync(u)
                    BY DEF Sync, RunSync, DoItem
                <5>2. QED
                    BY <5>1 DEF One
            <4>5. /\ Count(systemQueue', {Sync(u)}) \in Nat /\ Count(stack[u], {PutSync(u)}) \in Nat
                  /\ Count(stack[t], {RunSync(u)}) \in Nat
                BY <1>1, <1>4, <2>1, <2>2, CountType, ThreadNames DEF Stacked
            <4> HIDE DEF h, f, X
            <4>6. QED
                BY <1>5, <4>1, <4>2, <4>3, <4>4, <4>5 DEF Refs
        <3>2. QED
            BY <1>1, <1>2, <3>1 DEF OneReference
    <2>9. Blocks'
        <3>1. f \notin Tasks
            BY DEF Tasks
        <3>2. Count(X, Tasks) = Count(stack[t], Tasks) + One(f, Tasks) /\ Count(stack[t], Tasks) \in Nat
            BY <1>4, <2>3, CountAppend, CountType
        <3>3. Count(X, Tasks) = Count(stack[t], Tasks)
            BY <3>1, <3>2 DEF One
        <3> HIDE DEF X
        <3>4. QED
            BY <1>1, <1>2, <1>5, <2>4, <3>3, TasksAfter
    <2>10. QED
        BY <2>5, <2>6, <2>7, <2>8, <2>9 DEF Inv
<1>6. CASE t # "system"
    <2> DEFINE h == Head(applicationQueue)
               f == [op |-> "run", item |-> h]
               X == Append(stack[t], f)
    <2>1. t = "application" /\ UserCode(t) /\ t \in Callers
        BY <1>2, <1>6, ThreadNames DEF PumpOpen
    <2>2. /\ applicationQueue # << >> /\ stack' = [stack EXCEPT ![t] = stack[t] \o <<f>>]
          /\ applicationQueue' = Tail(applicationQueue) /\ systemQueue' = systemQueue
        BY <1>6 DEF Process, Push
    <2>3. /\ h \in ApplicationItem /\ Tail(applicationQueue) \in Seq(ApplicationItem)
          /\ Len(Tail(applicationQueue)) = Len(applicationQueue) - 1
          /\ Len(applicationQueue) \in Nat
        BY <1>1, <2>2, HeadTailProperties DEF Routed
    <2>4. f \in Frames(t)
        BY <1>6, <2>3 DEF Frames
    <2>5. X \in Seq(Frames(t)) /\ stack' = [stack EXCEPT ![t] = X]
        <3>1. X \in Seq(Frames(t))
            BY <1>4, <2>4
        <3>2. stack[t] \o <<f>> = X
            BY <1>4, <2>4, Concatenated
        <3> HIDE DEF X
        <3>3. QED
            BY <2>2, <3>1, <3>2
    <2>6. Plain(f)
        BY <2>3, ItemTypes DEF Plain
    <2>7. Same(stack[t], X)
        BY <1>4, <2>4, <2>6, SameAppend
    <2>8. promise[t] # "pending"
        BY <1>1, <2>1, NotPending DEF UserCode, Doing
    <2>9. Routed' /\ SameQueued
        BY <1>1, <2>2, <2>3, ThreadsAssumption DEF Routed, SameQueued
    <2> HIDE DEF X
    <2>10. QED
        BY <1>2, <1>3, <2>5, <2>7, <2>8, <2>9, Neutral
<1>7. QED
    BY <1>5, <1>6

(* A message ends: that of a promise drops the last reference to it.       *)
LEMMA FinishKept ==
    ASSUME Inv, FlagsOK, NEW t \in Threads, NEW pass \in BOOLEAN, Finish(t, pass)
    PROVE  Inv'
<1> DEFINE f == Last(stack[t])
           X == Front(stack[t])
<1>1. Routed /\ Stacked /\ Waits /\ OneReference /\ Blocks
    BY DEF Inv
<1>2. /\ Doing(t, "run") /\ (pass => t = "system")
      /\ isrTasks' = isrTasks /\ pool' = pool
      /\ UNCHANGED <<flags, started, halted>>
      /\ f.item.kind # "sync" => promise' = promise
      /\ f.item.kind = "sync" => promise' = [promise EXCEPT ![f.item.of] = "complete"]
    BY DEF Finish
<1>3. /\ stack[t] \in Seq(Frames(t)) /\ stack[t] # << >> /\ f \in Frames(t) /\ f.op = "run"
      /\ X \in Seq(Frames(t))
    BY <1>1, <1>2, Innermost
<1>4. FlagsOK'
    <2>1. waiting' \in [Jobs -> BOOLEAN]
        BY DEF Finish, FlagsOK
    <2>2. QED
        BY <1>2, <2>1 DEF FlagsOK, flags
<1>5. t \in Callers => promise[t] # "pending"
    BY <1>1, <1>3, NotPending
<1>6. Do("idle isr") \in Frames("system") /\ Plain(Do("idle isr"))
    BY DEF Do, Frames, Plain
<1>7. t \in Threads => Do("resetting") \in Frames(t) /\ Plain(Do("resetting"))
    BY DEF Do, Frames, Plain
<1>8. CASE f.item.kind = "function"
    <2>1. t \in Callers /\ f.item \in ApplicationItem
        <3>1. t # "system"
            BY <1>3, <1>8, FrameItems DEF SystemItem
        <3>2. QED
            BY <1>3, <3>1, FrameItems, ThreadNames
    <2>2. f.item.of \in Functions
        BY <1>8, <2>1 DEF ApplicationItem
    <2>3. Send(t, X, "reply", f.item.of)
        BY <1>8 DEF Finish
    <2>4. DoItem("put", "reply", f.item.of).item \in SystemItem
        BY <2>2 DEF DoItem, SystemItem
    <2>5. DoItem("put", "reply", f.item.of) \in Frames(t)
        BY <2>1, <2>2, ThreadNames DEF DoItem, Frames, Sent
    <2>6. Same(stack[t], X)
        BY <1>3, <1>8, SameFront DEF Plain
    <2> HIDE DEF f, X
    <2>7. /\ Routed' /\ SameQueued
          /\ \E Y \in Seq(Frames(t)) : stack' = [stack EXCEPT ![t] = Y] /\ Same(X, Y)
        BY <1>1, <1>3, <2>3, <2>4, <2>5, SendEffect
    <2>8. PICK Y \in Seq(Frames(t)) : stack' = [stack EXCEPT ![t] = Y] /\ Same(X, Y)
        BY <2>7
    <2>9. Same(stack[t], Y)
        BY <2>6, <2>8 DEF Same
    <2>10. QED
        BY <1>2, <1>4, <1>5, <1>8, <2>1, <2>7, <2>8, <2>9, Neutral
<1>9. CASE f.item.kind # "function"
    <2>1. /\ UNCHANGED queues
          /\ stack' = [stack EXCEPT ![t] = X
                 \o ((IF f.item.kind = "reset" THEN ShutdownIfEnabled ELSE << >>)
                       \o (IF pass THEN <<Do("idle isr")>> ELSE << >>))]
        BY <1>9 DEF Finish, Become
    <2>2. Routed' /\ SameQueued
        BY <1>1, <2>1 DEF queues, Routed, SameQueued
    <2>3. t = "system" => f.item.kind # "reset"
        BY <1>3, FrameItems DEF SystemItem
    <2>4. \E Y \in Seq(Frames(t)) : stack' = [stack EXCEPT ![t] = Y] /\ Same(X, Y)
        <3>1. \/ stack' = [stack EXCEPT ![t] = X \o << >>]
              \/ stack' = [stack EXCEPT ![t] = X \o <<Do("resetting")>>]
              \/ t = "system" /\ stack' = [stack EXCEPT ![t] = X \o <<Do("idle isr")>>]
            <4>1. CASE pass
                <5>1. stack' = [stack EXCEPT ![t] = X \o (<< >> \o <<Do("idle isr")>>)]
                    BY <1>2, <2>1, <2>3, <4>1
                <5>2. << >> \o <<Do("idle isr")>> = <<Do("idle isr")>>
                    OBVIOUS
                <5>3. QED
                    BY <1>2, <4>1, <5>1, <5>2
            <4>2. CASE ~pass
                <5>1. \/ stack' = [stack EXCEPT ![t] = X \o (<< >> \o << >>)]
                      \/ stack' = [stack EXCEPT ![t] = X \o (<<Do("resetting")>> \o << >>)]
                    BY <2>1, <4>2 DEF ShutdownIfEnabled
                <5>2. /\ << >> \o << >> = << >>
                      /\ <<Do("resetting")>> \o << >> = <<Do("resetting")>>
                    OBVIOUS
                <5>3. QED
                    BY <5>1, <5>2
            <4>3. QED
                BY <4>1, <4>2
        <3> HIDE DEF X
        <3>2. CASE stack' = [stack EXCEPT ![t] = X \o << >>]
            BY <1>3, <3>2, Concatenated DEF Same
        <3>3. CASE stack' = [stack EXCEPT ![t] = X \o <<Do("resetting")>>]
            <4>1. stack' = [stack EXCEPT ![t] = Append(X, Do("resetting"))]
                BY <1>3, <1>7, <3>3, Concatenated
            <4>2. QED
                BY <1>3, <1>7, <4>1, SameAppend
        <3>4. CASE t = "system" /\ stack' = [stack EXCEPT ![t] = X \o <<Do("idle isr")>>]
            <4>1. stack' = [stack EXCEPT ![t] = Append(X, Do("idle isr"))]
                BY <1>3, <1>6, <3>4, Concatenated
            <4>2. QED
                BY <1>3, <1>6, <3>4, <4>1, SameAppend
        <3>5. QED
            BY <3>1, <3>2, <3>3, <3>4
    <2>5. PICK Y \in Seq(Frames(t)) : stack' = [stack EXCEPT ![t] = Y] /\ Same(X, Y)
        BY <2>4
    <2>6. CASE f.item.kind # "sync"
        <3>1. Same(stack[t], X)
            BY <1>3, <2>6, SameFront DEF Plain
        <3> HIDE DEF X, f
        <3>2. Same(stack[t], Y)
            BY <2>5, <3>1 DEF Same
        <3>3. QED
            BY <1>2, <1>4, <1>5, <2>2, <2>5, <2>6, <3>2, Neutral
    <2>7. CASE f.item.kind = "sync"
        <3>1. t = "system"
            BY <1>3, <2>7, FrameItems, ItemTypes, ThreadNames
        <3>2. f.item \in SystemItem /\ f \in [op : {"run"}, item : SystemItem]
            BY <1>3, <3>1, FrameItems DEF Frames, Tasks
        <3>3. PICK v \in Callers : f.item.of = v
            BY <2>7, <3>2 DEF SystemItem
        <3>4. f.item = Sync(v) /\ f = RunSync(v)
            BY <2>7, <3>2, <3>3 DEF SystemItem, Sync, RunSync, DoItem
        <3>5. promise' = [promise EXCEPT ![v] = "complete"]
            BY <1>2, <2>7, <3>3
        <3>6. ASSUME NEW u \in Callers
              PROVE  /\ u # v => Refs(u)' = Refs(u)
                     /\ u = v => Refs(u)' + 1 = Refs(u)
                     /\ Refs(u)' \in Nat
            <4>1. Refs(u)' = Count(systemQueue', {Sync(u)}) + Count(stack[u], {PutSync(u)})
                               + Count(Y, {RunSync(u)})
                BY <1>1, <2>5, <3>1, RefsAfter, ThreadNames
            <4>2. Count(stack[t], {RunSync(u)}) = Count(X, {RunSync(u)}) + One(f, {RunSync(u)})
                BY <1>3, CountFront
            <4>3. /\ u = v => One(f, {RunSync(u)}) = 1
                  /\ u # v => One(f, {RunSync(u)}) = 0
                BY <3>4 DEF One, RunSync, DoItem
            <4>4. Count(Y, {RunSync(u)}) = Count(X, {RunSync(u)})
                BY <2>5 DEF Same
            <4>5. Count(systemQueue', {Sync(u)}) = Count(systemQueue, {Sync(u)})
                BY <2>2 DEF SameQueued
            <4>6. /\ Count(systemQueue, {Sync(u)}) \in Nat /\ Count(X, {RunSync(u)}) \in Nat
                  /\ Count(stack[u], {PutSync(u)}) \in Nat
                BY <1>1, <1>3, CountType, ThreadNames DEF Routed, Stacked
            <4> HIDE DEF f, X
            <4>7. QED
                BY <3>1, <4>1, <4>2, <4>3, <4>4, <4>5, <4>6 DEF Refs
        <3>7. promise \in [Callers -> {"none", "pending", "complete"}]
            BY DEF Inv, TypeOK
        <3>8. OneReference'
            <4>1. ASSUME NEW u \in Callers
                  PROVE  Refs(u)' = IF promise'[u] = "pending" THEN 1 ELSE 0
                <5>1. Refs(u) = IF promise[u] = "pending" THEN 1 ELSE 0
                    BY <1>1 DEF OneReference
                <5>2. CASE u = v
                    <6>1. promise'[u] = "complete"
                        BY <3>5, <3>7, <5>2
                    <6>2. Refs(u)' + 1 = Refs(u) /\ Refs(u)' \in Nat
                        BY <3>6, <5>2
                    <6>3. Refs(u)' = 0
                        BY <5>1, <6>2
                    <6>4. QED
                        BY <6>1, <6>3
                <5>3. CASE u # v
                    BY <3>5, <3>6, <3>7, <5>1, <5>3
                <5>4. QED
                    BY <5>2, <5>3
            <4>2. QED
                BY <4>1 DEF OneReference
        <3>9. Waits'
            <4>1. ASSUME NEW u \in Callers, promise'[u] = "pending" PROVE Awaits(stack'[u])
                <5>1. promise[u] = "pending"
                    BY <3>5, <3>7, <4>1
                <5>2. stack'[u] = stack[u]
                    BY <1>1, <2>5, <3>1, StackChange, ThreadNames
                <5>3. QED
                    BY <1>1, <5>1, <5>2 DEF Waits
            <4>2. QED
                BY <4>1 DEF Waits, Awaits
        <3>10. Blocks'
            <4>1. Count(stack[t], Tasks) = Count(X, Tasks) + One(f, Tasks) /\ Count(X, Tasks) \in Nat
                BY <1>3, CountFront, CountType
            <4>2. One(f, Tasks) = 0
                BY <1>3 DEF One, Tasks
            <4>3. Count(Y, Tasks) = Count(stack["system"], Tasks)
                BY <2>5, <3>1, <4>1, <4>2 DEF Same
            <4>4. QED
                BY <1>1, <1>2, <2>5, <4>3, TasksAfter
        <3>11. Stacked'
            BY <1>1, <2>5, StackChange
        <3>12. TypeOK'
            <4>1. /\ promise' \in [Callers -> {"none", "pending", "complete"}]
                  /\ isrTasks' \in Seq(Events) /\ pool' \in 0..PoolBlocks
                BY <1>2, <3>5, <3>7 DEF Inv, TypeOK
            <4>2. QED
                BY <1>4, <2>2, <3>11, <4>1, TypesAssembled
        <3>13. QED
            BY <2>2, <3>8, <3>9, <3>10, <3>11, <3>12 DEF Inv
    <2>8. QED
        BY <2>6, <2>7
<1>10. QED
    BY <1>8, <1>9

(* SYSTEM_THREAD_CONTEXT_SYNC: the one reference to the new promise is in  *)
(* the queue, or waits to be put.                                          *)
LEMMA CallSyncKept ==
    ASSUME Inv, FlagsOK, NEW t \in Callers, CallSync(t)
    PROVE  Inv'
<1> DEFINE get == DoItem("get", "sync", t)
           G == Append(stack[t], get)
<1>1. Routed /\ Stacked /\ Waits /\ OneReference /\ Blocks
    BY DEF Inv
<1>2. /\ UserCode(t) /\ Send(t, G, "sync", t)
      /\ promise' = [promise EXCEPT ![t] = "pending"]
      /\ isrTasks' = isrTasks /\ pool' = pool
      /\ UNCHANGED <<waiting, flags, started, halted>>
    BY DEF CallSync
<1>3. t \in Threads /\ t # "system"
    BY ThreadNames
<1>4. stack[t] \in Seq(Frames(t))
    BY <1>1, <1>3 DEF Stacked
<1>5. get \in Frames(t) /\ Plain(get) /\ get.op = "get"
    BY <1>3 DEF Frames, DoItem, Plain, Sync
<1>6. G \in Seq(Frames(t)) /\ Same(stack[t], G)
    BY <1>4, <1>5, SameAppend
<1>7. G # << >> /\ Last(G) = get
    BY <1>4, <1>5 DEF Last
<1>8. PutSync(t) \in Frames(t) /\ PutSync(t).item = Sync(t) /\ PutSync(t).op = "put"
    BY <1>3, ItemTypes DEF Frames, PutSync, DoItem, Sync
<1>9. promise[t] # "pending"
    BY <1>1, <1>2, NotPending DEF UserCode, Doing
<1>10. FlagsOK'
    BY <1>2 DEF FlagsOK, flags
<1>11. promise \in [Callers -> {"none", "pending", "complete"}]
    BY DEF Inv, TypeOK
<1> HIDE DEF get, G
<1>12. \E X \in Seq(Frames(t)) :
           /\ Routed' /\ Awaits(X) /\ stack' = [stack EXCEPT ![t] = X]
           /\ \A u \in Callers :
                  Count(systemQueue', {Sync(u)}) + Count(X, {PutSync(u)})
                    = Count(systemQueue, {Sync(u)}) + Count(stack[t], {PutSync(u)})
                        + (IF u = t THEN 1 ELSE 0)
           /\ \A u \in Callers :
                  u # t => Count(systemQueue', {Sync(u)}) = Count(systemQueue, {Sync(u)})
    <2>1. ASSUME NEW u \in Callers
          PROVE  /\ Count(systemQueue, {Sync(u)}) \in Nat /\ Count(stack[t], {PutSync(u)}) \in Nat
                 /\ Count(G, {PutSync(u)}) = Count(stack[t], {PutSync(u)})
                 /\ One(Sync(t), {Sync(u)}) = (IF u = t THEN 1 ELSE 0)
                 /\ One(PutSync(t), {PutSync(u)}) = (IF u = t THEN 1 ELSE 0)
        BY <1>1, <1>4, <1>6, CountType DEF Routed, Same, One, Sync, PutSync, DoItem
    <2>2. CASE Room(Sync(t))
        <3>1. Queued(Sync(t)) /\ stack' = [stack EXCEPT ![t] = G]
            BY <1>2, <1>8, <2>2 DEF Send, PutSync
        <3>2. /\ Routed'
              /\ \A u \in Callers : Count(systemQueue', {Sync(u)})
                                      = Count(systemQueue, {Sync(u)}) + One(Sync(t), {Sync(u)})
            BY <1>1, <2>2, <3>1, QueuedEffect, ItemTypes
        <3>3. Awaits(G)
            BY <1>5, <1>7 DEF Awaits
        <3>4. ASSUME NEW u \in Callers
              PROVE  /\ Count(systemQueue', {Sync(u)}) + Count(G, {PutSync(u)})
                          = Count(systemQueue, {Sync(u)}) + Count(stack[t], {PutSync(u)})
                              + (IF u = t THEN 1 ELSE 0)
                     /\ u # t => Count(systemQueue', {Sync(u)}) = Count(systemQueue, {Sync(u)})
            BY <2>1, <3>2
        <3>5. QED
            BY <1>6, <3>1, <3>2, <3>3, <3>4
    <2>3. CASE ~Room(Sync(t))
        <3> DEFINE X == Append(G, PutSync(t))
        <3>1. stack' = [stack EXCEPT ![t] = X] /\ UNCHANGED queues
            BY <1>2, <1>8, <2>3 DEF Send, PutSync
        <3>2. X \in Seq(Frames(t)) /\ X # << >> /\ Last(X) = PutSync(t) /\ Front(X) = G
            <4>1. X \in Seq(Frames(t)) /\ X # << >>
                BY <1>6, <1>8
            <4>2. Last(X) = PutSync(t)
                BY <1>6, <1>8 DEF Last
            <4>3. Front(X) = G
                <5>1. /\ Front(X) \in Seq(Frames(t)) /\ X = Append(Front(X), Last(X))
                      /\ Len(Front(X)) = Len(X) - 1
                      /\ \A i \in 1..(Len(X) - 1) : Front(X)[i] = X[i]
                    BY <4>1, FrontLast
                <5>2. Len(X) = Len(G) + 1 /\ \A i \in 1..Len(G) : X[i] = G[i]
                    BY <1>6, <1>8
                <5>3. Len(G) \in Nat
                    BY <1>6
                <5> HIDE DEF X
                <5>4. Len(Front(X)) = Len(G) /\ \A i \in 1..Len(G) : Front(X)[i] = G[i]
                    BY <5>1, <5>2, <5>3
                <5>5. QED
                    BY <1>6, <5>1, <5>4, SeqEqual
            <4>4. QED
                BY <4>1, <4>2, <4>3
        <3>3. Awaits(X)
            BY <1>5, <1>7, <1>8, <3>2 DEF Awaits
        <3>4. Routed' /\ systemQueue' = systemQueue
            BY <1>1, <3>1 DEF Routed, queues
        <3>5. \A u \in Callers :
                  Count(X, {PutSync(u)}) = Count(G, {PutSync(u)}) + One(PutSync(t), {PutSync(u)})
            BY <1>6, <1>8, CountAppend
        <3> HIDE DEF X
        <3>6. ASSUME NEW u \in Callers
              PROVE  Count(systemQueue', {Sync(u)}) + Count(X, {PutSync(u)})
                       = Count(systemQueue, {Sync(u)}) + Count(stack[t], {PutSync(u)})
                           + (IF u = t THEN 1 ELSE 0)
            <4>1. /\ Count(systemQueue, {Sync(u)}) \in Nat /\ Count(stack[t], {PutSync(u)}) \in Nat
                  /\ Count(X, {PutSync(u)}) = Count(stack[t], {PutSync(u)}) + (IF u = t THEN 1 ELSE 0)
                BY <2>1, <3>5
            <4>2. QED
                BY <3>4, <4>1
        <3>7. QED
            BY <3>1, <3>2, <3>3, <3>4, <3>6
    <2>4. QED
        BY <2>2, <2>3
<1>13. PICK X \in Seq(Frames(t)) :
           /\ Routed' /\ Awaits(X) /\ stack' = [stack EXCEPT ![t] = X]
           /\ \A u \in Callers :
                  Count(systemQueue', {Sync(u)}) + Count(X, {PutSync(u)})
                    = Count(systemQueue, {Sync(u)}) + Count(stack[t], {PutSync(u)})
                        + (IF u = t THEN 1 ELSE 0)
           /\ \A u \in Callers :
                  u # t => Count(systemQueue', {Sync(u)}) = Count(systemQueue, {Sync(u)})
    BY <1>12
<1>14. /\ Stacked' /\ stack'[t] = X
       /\ \A u \in Threads : u # t => stack'[u] = stack[u]
    BY <1>1, <1>3, <1>13, StackChange
<1>15. OneReference'
    <2>1. ASSUME NEW u \in Callers
          PROVE  Refs(u)' = IF promise'[u] = "pending" THEN 1 ELSE 0
        <3>1. Refs(u)' = Count(systemQueue', {Sync(u)})
                           + (IF t = u THEN Count(X, {PutSync(u)})
                              ELSE Count(stack[u], {PutSync(u)}))
                           + Count(stack["system"], {RunSync(u)})
            BY <1>1, <1>3, <1>13, RefsAfter
        <3>2. /\ Count(stack["system"], {RunSync(u)}) \in Nat
              /\ Count(systemQueue, {Sync(u)}) \in Nat /\ Count(stack[u], {PutSync(u)}) \in Nat
            BY <1>1, CountType, ThreadNames DEF Routed, Stacked
        <3>3. Refs(u) = IF promise[u] = "pending" THEN 1 ELSE 0
            BY <1>1 DEF OneReference
        <3>4. CASE u = t
            <4>1. Refs(u)' = Refs(u) + 1
                <5>1. /\ Count(systemQueue', {Sync(u)}) + Count(X, {PutSync(u)})
                           = Count(systemQueue, {Sync(u)}) + Count(stack[u], {PutSync(u)}) + 1
                      /\ Refs(u)' = Count(systemQueue', {Sync(u)}) + Count(X, {PutSync(u)})
                                      + Count(stack["system"], {RunSync(u)})
                    BY <1>13, <3>1, <3>4
                <5>2. QED
                    BY <3>2, <5>1 DEF Refs
            <4>2. QED
                BY <1>2, <1>9, <1>11, <3>3, <3>4, <4>1
        <3>5. CASE u # t
            <4>1. Refs(u)' = Refs(u)
                BY <1>13, <3>1, <3>5 DEF Refs
            <4>2. QED
                BY <1>2, <1>11, <3>3, <3>5, <4>1
        <3>6. QED
            BY <3>4, <3>5
    <2>2. QED
        BY <2>1 DEF OneReference
<1>16. Waits'
    <2>1. ASSUME NEW u \in Callers, promise'[u] = "pending" PROVE Awaits(stack'[u])
        <3>1. CASE u = t
            BY <1>13, <1>14, <3>1
        <3>2. CASE u # t
            BY <1>1, <1>2, <1>11, <1>14, <2>1, <3>2, ThreadNames DEF Waits
        <3>3. QED
            BY <3>1, <3>2
    <2>2. QED
        BY <2>1 DEF Waits, Awaits
<1>17. Blocks'
    BY <1>1, <1>2, <1>3, <1>13, TasksAfter
<1>18. TypeOK'
    <2>1. /\ promise' \in [Callers -> {"none", "pending", "complete"}]
          /\ isrTasks' \in Seq(Events) /\ pool' \in 0..PoolBlocks
        BY <1>2, <1>11 DEF Inv, TypeOK
    <2>2. QED
        BY <1>10, <1>13, <1>14, <2>1, TypesAssembled
<1>19. QED
    BY <1>13, <1>14, <1>15, <1>16, <1>17, <1>18 DEF Inv

(* SystemISRTaskQueue.process(): the task's block is that of the notifying *)
(* frame from now on.                                                      *)
LEMMA TakeKept ==
    ASSUME Inv, FlagsOK, NEW t, t = "system", NEW op, op \notin {"put", "run", "task"}, Doing(t, op),
           NEW a \in Frames(t), Plain(a), TakeISRTask(t, a),
           promise' = promise, pool' = pool,
           resetPending' = resetPending, resetEnabled' = resetEnabled,
           started' = started, halted' = halted
    PROVE  Inv'
<1> DEFINE e == Head(isrTasks)
           F == Front(stack[t])
           b == DoItem("task", "event", e)
<1>1. /\ Routed /\ Stacked /\ Blocks /\ isrTasks \in Seq(Events)
      /\ pool \in 0..PoolBlocks /\ pool \in Nat /\ PoolBlocks \in Nat
    <2>1. pool \in 0..PoolBlocks /\ isrTasks \in Seq(Events)
        BY DEF Inv, TypeOK
    <2>2. pool \in Nat /\ PoolBlocks \in Nat
        BY <2>1, ThreadsAssumption
    <2>3. QED
        BY <2>1, <2>2 DEF Inv
<1>2. isrTasks # << >> /\ isrTasks' = Tail(isrTasks) /\ Notified(t, F \o <<a, b>>, e)
    BY DEF TakeISRTask
<1>3. /\ stack[t] \in Seq(Frames(t)) /\ F \in Seq(Frames(t)) /\ Same(stack[t], F)
      /\ t \in Threads /\ t \notin Callers
    BY <1>1, Innermost, SameFront, ThreadNames
<1>4. /\ e \in Events /\ Tail(isrTasks) \in Seq(Events)
      /\ Len(Tail(isrTasks)) = Len(isrTasks) - 1 /\ Len(isrTasks) \in Nat
    <2>1. isrTasks \in Seq(Events) /\ isrTasks # << >>
        BY <1>1, <1>2
    <2>2. /\ Head(isrTasks) \in Events /\ Tail(isrTasks) \in Seq(Events)
          /\ Len(Tail(isrTasks)) = Len(isrTasks) - 1
        BY <2>1, HeadTailProperties
    <2>3. Len(isrTasks) \in Nat
        BY <2>1, LenProperties
    <2>4. QED
        BY <2>2, <2>3
<1>5. a \in Frames(t) /\ Plain(a)
    OBVIOUS
<1>6. b \in Tasks /\ b.op = "task"
    BY <1>4 DEF DoItem, Tasks
<1>7. b \in Frames(t) /\ \A u \in Callers : b # PutSync(u) /\ b # RunSync(u)
    BY <1>6 DEF Frames, PutSync, RunSync, DoItem
<1> HIDE DEF e, F, b
<1> DEFINE H == Append(F, a)
           G == Append(H, b)
<1>8. /\ H \in Seq(Frames(t)) /\ Same(F, H)
      /\ G \in Seq(Frames(t)) /\ F \o <<a, b>> = G
    <2>0. F \in Seq(Frames(t)) /\ a \in Frames(t) /\ b \in Frames(t)
        BY <1>3, <1>5, <1>7
    <2>1. H \in Seq(Frames(t)) /\ Same(F, H)
        BY <1>3, <1>5, SameAppend
    <2>2. F \o <<a, b>> = G
        <3>1. \A x, y \in Frames(t) : F \o <<x, y>> = Append(Append(F, x), y)
            BY <2>0, Concatenated
        <3>2. QED
            BY <2>0, <3>1
    <2> HIDE DEF H
    <2>3. G \in Seq(Frames(t))
        BY <2>0, <2>1
    <2>4. QED
        BY <2>1, <2>2, <2>3
<1>9. /\ Routed' /\ SameQueued
      /\ \E Y \in Seq(Frames(t)) : stack' = [stack EXCEPT ![t] = Y] /\ Same(G, Y)
    <2> HIDE DEF G, H
    <2>1. Notified(t, G, e)
        BY <1>2, <1>8
    <2>2. QED
        BY <1>1, <1>3, <1>4, <1>8, <2>1, NotifiedEffect
<1>10. PICK Y \in Seq(Frames(t)) : stack' = [stack EXCEPT ![t] = Y] /\ Same(G, Y)
    BY <1>9
<1>11. ASSUME NEW X PROVE Count(G, X) = Count(H, X) + One(b, X)
    BY <1>7, <1>8, CountAppend
<1>12. \A u \in Callers : /\ Count(stack[t], {PutSync(u)}) = Count(Y, {PutSync(u)})
                          /\ Count(stack[t], {RunSync(u)}) = Count(Y, {RunSync(u)})
    <2>1. ASSUME NEW u \in Callers
          PROVE  /\ Count(stack[t], {PutSync(u)}) = Count(Y, {PutSync(u)})
                 /\ Count(stack[t], {RunSync(u)}) = Count(Y, {RunSync(u)})
        <3>1. One(b, {PutSync(u)}) = 0 /\ One(b, {RunSync(u)}) = 0
            BY <1>7 DEF One
        <3>2. /\ Count(H, {PutSync(u)}) \in Nat
              /\ Count(H, {RunSync(u)}) \in Nat
            BY <1>8, CountType
        <3>3. /\ Count(G, {PutSync(u)}) = Count(H, {PutSync(u)})
              /\ Count(G, {RunSync(u)}) = Count(H, {RunSync(u)})
            <4>1. /\ Count(G, {PutSync(u)}) = Count(H, {PutSync(u)}) + One(b, {PutSync(u)})
                  /\ Count(G, {RunSync(u)}) = Count(H, {RunSync(u)}) + One(b, {RunSync(u)})
                BY <1>11
            <4> HIDE DEF G, H
            <4>2. QED
                BY <3>1, <3>2, <4>1
        <3> HIDE DEF G, H
        <3>4. QED
            BY <1>3, <1>8, <1>10, <3>3 DEF Same
    <2>2. QED
        BY <2>1
<1>13. Blocks'
    <2>1. Count(Y, Tasks) = Count(stack[t], Tasks) + 1 /\ Count(stack[t], Tasks) \in Nat
        <3>1. Count(G, Tasks) = Count(H, Tasks) + One(b, Tasks)
            BY <1>11
        <3>2. One(b, Tasks) = 1 /\ Count(stack[t], Tasks) \in Nat
            BY <1>3, <1>6, CountType DEF One
        <3> HIDE DEF G, H
        <3>3. QED
            BY <1>3, <1>8, <1>10, <3>1, <3>2 DEF Same
    <2>2. stack'[t] = Y
        BY <1>1, <1>3, <1>10, StackChange
    <2>3. pool' = pool /\ Len(isrTasks') = Len(isrTasks) - 1
        BY <1>2, <1>4
    <2>4. Count(stack'[t], Tasks) = Count(stack[t], Tasks) + 1
        BY <2>1, <2>2
    <2>5. pool' + Len(isrTasks') + Count(stack'[t], Tasks) = PoolBlocks
        <3>1. pool + Len(isrTasks) + Count(stack[t], Tasks) = PoolBlocks
            BY <1>1 DEF Blocks
        <3>2. QED
            BY <1>1, <1>4, <2>1, <2>3, <2>4, <3>1
    <2>6. QED
        BY <2>5 DEF Blocks, Count, Tasks
<1>14. FlagsOK'
    <2>1. waiting' \in [Jobs -> BOOLEAN]
        BY DEF TakeISRTask, FlagsOK
    <2>2. QED
        BY <2>1 DEF FlagsOK, flags
<1>15. isrTasks' \in Seq(Events) /\ pool' \in 0..PoolBlocks
    BY <1>2, <1>4 DEF Inv, TypeOK
<1>16. QED
    BY <1>3, <1>9, <1>10, <1>12, <1>13, <1>14, <1>15, RefsKept
-----------------------------------------------------------------------------
(* Two frames, one after the other.                                        *)
LEMMA Paired ==
    ASSUME NEW S, NEW a \in S, NEW b \in S
    PROVE  <<a>> \o <<b>> = <<a, b>>
<1> DEFINE s == <<a>>
<1>1. s \in Seq(S) /\ Len(s) = 1 /\ s[1] = a
    OBVIOUS
<1>2. s \o <<b>> = Append(s, b)
    BY <1>1, Concatenated
<1>3. Append(s, b) \in Seq(S) /\ Len(Append(s, b)) = 2 /\ Append(s, b)[1] = a /\ Append(s, b)[2] = b
    <2> HIDE DEF s
    <2>0. s \in Seq(S) /\ 1 \in 1..Len(s)
        BY <1>1
    <2>1. Append(s, b) \in Seq(S) /\ Len(Append(s, b)) = Len(s) + 1
        BY <2>0, AppendProperties
    <2>2. Append(s, b)[1] = s[1]
        BY <2>0, AppendProperties
    <2>3. Append(s, b)[Len(s) + 1] = b
        BY <2>0, AppendProperties
    <2>4. QED
        BY <1>1, <2>1, <2>2, <2>3
<1>4. <<a, b>> \in Seq(S) /\ Len(<<a, b>>) = 2 /\ <<a, b>>[1] = a /\ <<a, b>>[2] = b
    OBVIOUS
<1>5. \A i \in 1..2 : i = 1 \/ i = 2
    OBVIOUS
<1>6. Append(s, b) = <<a, b>>
    <2> DEFINE A == Append(s, b)
               B == <<a, b>>
    <2>1. A \in Seq(S) /\ B \in Seq(S) /\ Len(A) = Len(B) /\ \A i \in 1..Len(A) : A[i] = B[i]
        BY <1>3, <1>4, <1>5
    <2> HIDE DEF A, B
    <2>2. A = B
        BY <2>1, SeqEqual
    <2>3. QED
        BY <2>2 DEF A, B
<1>7. QED
    BY <1>2, <1>6

(* The innermost frame, one that holds no message, is replaced by others   *)
(* of that kind.                                                           *)
LEMMA Refill ==
    ASSUME Stacked, NEW t \in Threads, NEW op, op \notin {"put", "run", "task"}, Doing(t, op)
    PROVE  /\ Front(stack[t]) \o << >> \in Seq(Frames(t))
           /\ Same(stack[t], Front(stack[t]) \o << >>)
           /\ \A a \in Frames(t) :
                  Plain(a) => /\ Front(stack[t]) \o <<a>> \in Seq(Frames(t))
                              /\ Same(stack[t], Front(stack[t]) \o <<a>>)
           /\ \A a, b \in Frames(t) :
                  Plain(a) /\ Plain(b) => /\ Front(stack[t]) \o <<a, b>> \in Seq(Frames(t))
                                          /\ Same(stack[t], Front(stack[t]) \o <<a, b>>)
<1> DEFINE F == Front(stack[t])
<1>1. F \in Seq(Frames(t)) /\ Same(stack[t], F)
    BY Innermost, SameFront
<1> HIDE DEF F
<1>2. F \o << >> \in Seq(Frames(t)) /\ Same(stack[t], F \o << >>)
    BY <1>1, Concatenated
<1>3. ASSUME NEW a \in Frames(t), Plain(a)
      PROVE  F \o <<a>> \in Seq(Frames(t)) /\ Same(stack[t], F \o <<a>>)
    <2>1. F \o <<a>> = Append(F, a)
        BY <1>1, Concatenated
    <2>2. Append(F, a) \in Seq(Frames(t)) /\ Same(F, Append(F, a))
        BY <1>1, <1>3, SameAppend
    <2>3. QED
        BY <1>1, <2>1, <2>2 DEF Same
<1>4. ASSUME NEW a \in Frames(t), Plain(a), NEW b \in Frames(t), Plain(b)
      PROVE  F \o <<a, b>> \in Seq(Frames(t)) /\ Same(stack[t], F \o <<a, b>>)
    <2> DEFINE H == Append(F, a)
    <2>1. F \o <<a, b>> = Append(H, b)
        BY <1>1, Concatenated
    <2>2. H \in Seq(Frames(t)) /\ Same(F, H)
        BY <1>1, <1>4, SameAppend
    <2> HIDE DEF H
    <2>3. Append(H, b) \in Seq(Frames(t)) /\ Same(H, Append(H, b))
        BY <1>4, <2>2, SameAppend
    <2>4. QED
        BY <1>1, <2>1, <2>2, <2>3 DEF Same
<1>5. QED
    BY <1>2, <1>3, <1>4 DEF F

(* The frames of the system thread's background pass hold no message.      *)
LEMMA PassFrames ==
    \A op \in {"idle isr", "idle cloud", "idle shutdown", "listen", "shutdown", "resetting"} :
        Do(op) \in Frames("system") /\ Plain(Do(op))
BY DEF Do, Frames, Plain

(* A step of one thread that touches no queue, promise or pool.            *)
LEMMA Quiet ==
    ASSUME Inv, NEW t \in Threads, NEW X \in Seq(Frames(t)), Same(stack[t], X),
           stack' = [stack EXCEPT ![t] = X], FlagsOK',
           systemQueue' = systemQueue, applicationQueue' = applicationQueue,
           promise' = promise, isrTasks' = isrTasks, pool' = pool,
           t \in Callers /\ promise[t] = "pending" => Awaits(X)
    PROVE  Inv'
<1>1. Routed' /\ SameQueued
    BY DEF Inv, Routed, SameQueued
<1>2. QED
    BY <1>1, Neutral

(* A step that leaves all but the flags alone.                             *)
LEMMA FlagsOnly ==
    ASSUME Inv, FlagsOK', stack' = stack,
           systemQueue' = systemQueue, applicationQueue' = applicationQueue,
           promise' = promise, isrTasks' = isrTasks, pool' = pool
    PROVE  Inv'
<1>1. Stacked' /\ Routed'
    BY DEF Inv, Stacked, Routed
<1>2. TypeOK'
    BY <1>1, TypesAssembled DEF Inv, TypeOK
<1>3. Waits' /\ Blocks'
    BY DEF Inv, Waits, Awaits, Blocks, Count, Tasks
<1>4. OneReference'
    BY DEF Inv, OneReference, Refs, Count, PutSync, RunSync, Sync, DoItem
<1>5. QED
    BY <1>1, <1>2, <1>3, <1>4 DEF Inv

(* An event notified by a thread, left with the frames X.                  *)
LEMMA NotifiedKept ==
    ASSUME Inv, NEW t \in Threads, NEW X \in Seq(Frames(t)), Same(stack[t], X), NEW e,
           e \in Events \/ (t = "system" /\ e = "reset_pending"),
           Notified(t, X, e), FlagsOK', promise' = promise, isrTasks' = isrTasks, pool' = pool,
           t \in Callers => promise[t] # "pending"
    PROVE  Inv'
<1>1. /\ Routed' /\ SameQueued
      /\ \E Y \in Seq(Frames(t)) : stack' = [stack EXCEPT ![t] = Y] /\ Same(X, Y)
    BY NotifiedEffect DEF Inv
<1>2. PICK Y \in Seq(Frames(t)) : stack' = [stack EXCEPT ![t] = Y] /\ Same(X, Y)
    BY <1>1
<1>3. Same(stack[t], Y)
    BY <1>2 DEF Same
<1>4. QED
    BY <1>1, <1>2, <1>3, Neutral

(* Another message than a promise put by a thread, likewise.               *)
LEMMA SentKept ==
    ASSUME Inv, NEW t \in Threads, NEW X \in Seq(Frames(t)), Same(stack[t], X),
           NEW kind, NEW of, kind # "sync", DoItem("put", kind, of) \in Frames(t),
           DoItem("put", kind, of).item \in SystemItem \cup ApplicationItem,
           Send(t, X, kind, of), FlagsOK', promise' = promise, isrTasks' = isrTasks, pool' = pool,
           t \in Callers => promise[t] # "pending"
    PROVE  Inv'
<1>1. /\ Routed' /\ SameQueued
      /\ \E Y \in Seq(Frames(t)) : stack' = [stack EXCEPT ![t] = Y] /\ Same(X, Y)
    BY SendEffect DEF Inv
<1>2. PICK Y \in Seq(Frames(t)) : stack' = [stack EXCEPT ![t] = Y] /\ Same(X, Y)
    BY <1>1
<1>3. Same(stack[t], Y)
    BY <1>2 DEF Same
<1>4. QED
    BY <1>1, <1>2, <1>3, Neutral

(* os_queue_put() gives up: only a message for the application, which is   *)
(* never a promise.                                                        *)
LEMMA PutTimesOutKept ==
    ASSUME Inv, FlagsOK, NEW t \in Threads, PutTimesOut(t)
    PROVE  Inv'
<1> DEFINE f == Last(stack[t])
           X == Front(stack[t])
<1>1. /\ Doing(t, "put") /\ PutExpires(f.item) /\ stack' = [stack EXCEPT ![t] = X]
      /\ systemQueue' = systemQueue /\ applicationQueue' = applicationQueue
      /\ promise' = promise /\ isrTasks' = isrTasks /\ pool' = pool
      /\ resetPending' = resetPending /\ resetEnabled' = resetEnabled
      /\ started' = started /\ halted' = halted
    BY DEF PutTimesOut, GivenUp, queues, flags
<1>2. waiting' \in [Jobs -> BOOLEAN]
    BY DEF PutTimesOut, FlagsOK
<1>3. FlagsOK'
    BY <1>1, <1>2 DEF FlagsOK
<1>4. /\ stack[t] \in Seq(Frames(t)) /\ stack[t] # << >> /\ f \in Frames(t) /\ f.op = "put"
    BY <1>1, Innermost DEF Inv
<1>5. f.item.kind # "sync"
    BY <1>1 DEF PutExpires, Destination
<1>6. Plain(f)
    BY <1>4, <1>5 DEF Plain
<1>7. X \in Seq(Frames(t)) /\ Same(stack[t], X)
    BY <1>4, <1>6, SameFront
<1>8. t \in Callers /\ promise[t] = "pending" => Awaits(X)
    <2>1. ASSUME t \in Callers, promise[t] = "pending" PROVE Awaits(X)
        <3>1. Awaits(stack[t])
            BY <2>1 DEF Inv, Waits
        <3>2. X # << >> /\ Last(X).op = "get"
            BY <1>4, <3>1 DEF Awaits
        <3>3. QED
            BY <3>2 DEF Awaits
    <2>2. QED
        BY <2>1
<1> HIDE DEF X
<1>9. QED
    BY <1>1, <1>3, <1>7, <1>8, Quiet

(* system_notify_event() on a thread.                                      *)
LEMMA NotifyKept ==
    ASSUME Inv, FlagsOK, NEW t \in Threads, NEW e \in Events, Notify(t, e)
    PROVE  Inv'
<1>1. /\ Notified(t, stack[t], e) /\ promise' = promise /\ isrTasks' = isrTasks /\ pool' = pool
      /\ resetPending' = resetPending /\ resetEnabled' = resetEnabled
      /\ started' = started /\ halted' = halted
    BY DEF Notify, flags
<1>2. waiting' \in [Jobs -> BOOLEAN]
    BY DEF Notify, FlagsOK, InPlace
<1>3. FlagsOK'
    BY <1>1, <1>2 DEF FlagsOK
<1>4. t \in Callers => promise[t] # "pending"
    <2>1. ASSUME t \in Callers PROVE promise[t] # "pending"
        <3>1. UserCode(t)
            BY <2>1, ThreadNames DEF Notify
        <3>2. QED
            BY <2>1, <3>1, NotPending DEF Inv, UserCode, Doing
    <2>2. QED
        BY <2>1
<1>5. stack[t] \in Seq(Frames(t)) /\ Same(stack[t], stack[t])
    BY DEF Inv, Stacked, Same
<1>6. QED
    BY <1>1, <1>3, <1>4, <1>5, NotifiedKept

(* system_pool_free(): the block of the task is free again.                *)
LEMMA FreeTaskKept ==
    ASSUME Inv, FlagsOK, NEW t \in Threads, FreeTask(t)
    PROVE  Inv'
<1> DEFINE f == Last(stack[t])
           X == Front(stack[t])
<1>1. /\ Doing(t, "task") /\ stack' = [stack EXCEPT ![t] = X \o << >>]
      /\ systemQueue' = systemQueue /\ applicationQueue' = applicationQueue
      /\ promise' = promise /\ isrTasks' = isrTasks /\ pool' = pool + 1 /\ waiting' = waiting
      /\ resetPending' = resetPending /\ resetEnabled' = resetEnabled
      /\ started' = started /\ halted' = halted
    BY DEF FreeTask, Become, queues, flags
<1>2. FlagsOK'
    BY <1>1 DEF FlagsOK
<1>3. /\ stack[t] \in Seq(Frames(t)) /\ stack[t] # << >> /\ f \in Frames(t) /\ f.op = "task"
      /\ X \in Seq(Frames(t))
    BY <1>1, Innermost DEF Inv
<1>4. t = "system" /\ t \notin Callers /\ f \in Tasks
    BY <1>3, FrameItems, ThreadNames
<1>5. \A u \in Callers : f # PutSync(u) /\ f # RunSync(u)
    BY <1>3 DEF PutSync, RunSync, DoItem
<1>6. X \o << >> = X
    BY <1>3, Concatenated
<1>7. ASSUME NEW Z PROVE Count(stack[t], Z) = Count(X, Z) + One(f, Z) /\ Count(X, Z) \in Nat
    BY <1>3, CountFront, CountType
<1> HIDE DEF X, f
<1>8. ASSUME NEW u \in Callers
      PROVE  /\ Count(stack[t], {PutSync(u)}) = Count(X, {PutSync(u)})
             /\ Count(stack[t], {RunSync(u)}) = Count(X, {RunSync(u)})
    <2>1. One(f, {PutSync(u)}) = 0 /\ One(f, {RunSync(u)}) = 0
        BY <1>5 DEF One
    <2>2. /\ Count(stack[t], {PutSync(u)}) = Count(X, {PutSync(u)}) + One(f, {PutSync(u)})
          /\ Count(stack[t], {RunSync(u)}) = Count(X, {RunSync(u)}) + One(f, {RunSync(u)})
          /\ Count(X, {PutSync(u)}) \in Nat /\ Count(X, {RunSync(u)}) \in Nat
        BY <1>7
    <2>3. QED
        BY <2>1, <2>2
<1>9. /\ pool \in Nat /\ PoolBlocks \in Nat /\ Len(isrTasks) \in Nat /\ isrTasks \in Seq(Events)
      /\ Routed /\ Stacked /\ Blocks
    <2>1. pool \in 0..PoolBlocks /\ isrTasks \in Seq(Events) /\ Routed /\ Stacked /\ Blocks
        BY DEF Inv, TypeOK
    <2>2. QED
        BY <2>1, ThreadsAssumption
<1>10. Count(stack[t], Tasks) = Count(X, Tasks) + 1 /\ Count(X, Tasks) \in Nat
    <2>1. Count(stack[t], Tasks) = Count(X, Tasks) + One(f, Tasks) /\ Count(X, Tasks) \in Nat
        BY <1>7
    <2>2. One(f, Tasks) = 1
        BY <1>4 DEF One
    <2>3. QED
        BY <2>1, <2>2
<1>11. pool' \in 0..PoolBlocks /\ pool' + Len(isrTasks') + Count(X, Tasks) = PoolBlocks
    <2>1. pool + Len(isrTasks) + Count(stack[t], Tasks) = PoolBlocks
        BY <1>4, <1>9 DEF Blocks
    <2>2. pool + 1 \in 0..PoolBlocks /\ pool + 1 + Len(isrTasks) + Count(X, Tasks) = PoolBlocks
        BY <1>9, <1>10, <2>1
    <2>3. QED
        BY <1>1, <2>2
<1>12. stack' = [stack EXCEPT ![t] = X] /\ stack'["system"] = X
    <2>1. stack' = [stack EXCEPT ![t] = X]
        BY <1>1, <1>6
    <2>2. QED
        BY <1>3, <1>4, <1>9, <2>1, StackChange
<1>13. Blocks'
    <2>1. pool' + Len(isrTasks') + Count(stack'["system"], Tasks) = PoolBlocks
        BY <1>11, <1>12
    <2>2. QED
        BY <2>1 DEF Blocks, Count, Tasks
<1>14. Routed' /\ SameQueued
    BY <1>1, <1>9 DEF Routed, SameQueued
<1>15. QED
    BY <1>1, <1>2, <1>3, <1>4, <1>8, <1>9, <1>11, <1>12, <1>13, <1>14, RefsKept

(* SYSTEM_THREAD_CONTEXT_ASYNC                                             *)
LEMMA CallAsyncKept ==
    ASSUME Inv, FlagsOK, NEW t \in Callers, CallAsync(t)
    PROVE  Inv'
<1>1. /\ UserCode(t) /\ Send(t, stack[t], "async", t)
      /\ promise' = promise /\ isrTasks' = isrTasks /\ pool' = pool /\ waiting' = waiting
      /\ resetPending' = resetPending /\ resetEnabled' = resetEnabled
      /\ started' = started /\ halted' = halted
    BY DEF CallAsync, flags
<1>2. FlagsOK'
    BY <1>1 DEF FlagsOK
<1>3. t \in Threads /\ t # "system"
    BY ThreadNames
<1>4. promise[t] # "pending"
    BY <1>1, NotPending DEF Inv, UserCode, Doing
<1>5. stack[t] \in Seq(Frames(t)) /\ Same(stack[t], stack[t])
    BY <1>3 DEF Inv, Stacked, Same
<1>6. DoItem("put", "async", t).item \in SystemItem
    BY DEF DoItem, SystemItem
<1>7. DoItem("put", "async", t) \in Frames(t)
    BY <1>3 DEF DoItem, Frames, Sent
<1>8. QED
    BY <1>1, <1>2, <1>3, <1>4, <1>5, <1>6, <1>7, SentKept

(* get() returns: nothing refers to the promise the caller deletes.        *)
LEMMA ReturnKept ==
    ASSUME Inv, FlagsOK, NEW t \in Callers, Return(t)
    PROVE  Inv'
<1> DEFINE X == Front(stack[t]) \o << >>
<1>1. /\ Doing(t, "get") /\ promise[t] = "complete" /\ stack' = [stack EXCEPT ![t] = X]
      /\ systemQueue' = systemQueue /\ applicationQueue' = applicationQueue
      /\ promise' = [promise EXCEPT ![t] = "none"]
      /\ isrTasks' = isrTasks /\ pool' = pool /\ waiting' = waiting
      /\ resetPending' = resetPending /\ resetEnabled' = resetEnabled
      /\ started' = started /\ halted' = halted
    BY DEF Return, Completed, Become, queues, flags
<1>2. FlagsOK'
    BY <1>1 DEF FlagsOK
<1>3. t \in Threads /\ t # "system"
    BY ThreadNames
<1>4. X \in Seq(Frames(t)) /\ Same(stack[t], X)
    BY <1>1, <1>3, Refill DEF Inv
<1> HIDE DEF X
<1>5. Stacked' /\ stack'[t] = X /\ \A u \in Threads : u # t => stack'[u] = stack[u]
    BY <1>1, <1>3, <1>4, StackChange DEF Inv
<1>6. Routed' /\ SameQueued
    BY <1>1 DEF Inv, Routed, SameQueued
<1>7. promise \in [Callers -> {"none", "pending", "complete"}]
    BY DEF Inv, TypeOK
<1>8. TypeOK'
    <2>1. /\ promise' \in [Callers -> {"none", "pending", "complete"}]
          /\ isrTasks' \in Seq(Events) /\ pool' \in 0..PoolBlocks
        BY <1>1, <1>7 DEF Inv, TypeOK
    <2>2. QED
        BY <1>2, <1>5, <1>6, <2>1, TypesAssembled
<1>9. Waits'
    <2>1. ASSUME NEW u \in Callers, promise'[u] = "pending" PROVE Awaits(stack'[u])
        <3>1. u # t /\ promise[u] = "pending"
            BY <1>1, <1>7, <2>1
        <3>2. QED
            BY <1>5, <3>1, ThreadNames DEF Inv, Waits
    <2>2. QED
        BY <2>1 DEF Waits, Awaits
<1>10. OneReference'
    <2>1. ASSUME NEW u \in Callers
          PROVE  Refs(u)' = IF promise'[u] = "pending" THEN 1 ELSE 0
        <3>1. Refs(u)' = Count(systemQueue', {Sync(u)})
                           + (IF t = u THEN Count(X, {PutSync(u)})
                              ELSE Count(stack[u], {PutSync(u)}))
                           + Count(stack["system"], {RunSync(u)})
            BY <1>1, <1>3, <1>4, RefsAfter DEF Inv
        <3>2. Count(X, {PutSync(u)}) = Count(stack[t], {PutSync(u)})
            BY <1>4 DEF Same
        <3>3. Refs(u)' = Refs(u)
            BY <1>1, <3>1, <3>2 DEF Refs
        <3>4. Refs(u) = IF promise[u] = "pending" THEN 1 ELSE 0
            BY DEF Inv, OneReference
        <3>5. QED
            BY <1>1, <1>7, <3>3, <3>4
    <2>2. QED
        BY <2>1 DEF OneReference
<1>11. Blocks'
    BY <1>1, <1>3, <1>4, TasksAfter DEF Inv
<1>12. QED
    BY <1>5, <1>6, <1>8, <1>9, <1>10, <1>11 DEF Inv

(* system_notify_event() in an interrupt takes a block, or loses the event. *)
LEMMA NotifyFromISRKept ==
    ASSUME Inv, FlagsOK, NEW e \in Events, NotifyFromISR(e)
    PROVE  Inv'
<1>1. /\ stack' = stack /\ systemQueue' = systemQueue /\ applicationQueue' = applicationQueue
      /\ promise' = promise
      /\ resetPending' = resetPending /\ resetEnabled' = resetEnabled
      /\ started' = started /\ halted' = halted
    BY DEF NotifyFromISR, queues, flags
<1>2. waiting' \in [Jobs -> BOOLEAN]
    BY DEF NotifyFromISR, FlagsOK
<1>3. FlagsOK'
    BY <1>1, <1>2 DEF FlagsOK
<1>4. CASE pool > 0
    <2>1. pool' = pool - 1 /\ isrTasks' = Append(isrTasks, e)
        BY <1>4 DEF NotifyFromISR
    <2>2. /\ isrTasks \in Seq(Events) /\ pool \in 0..PoolBlocks /\ PoolBlocks \in Nat
          /\ Count(stack["system"], Tasks) \in Nat
        <3>1. stack["system"] \in Seq(Frames("system"))
            BY ThreadNames DEF Inv, Stacked
        <3>2. QED
            BY <3>1, CountType, ThreadsAssumption DEF Inv, TypeOK
    <2>3. /\ isrTasks' \in Seq(Events) /\ Len(isrTasks') = Len(isrTasks) + 1
          /\ Len(isrTasks) \in Nat
        BY <2>1, <2>2
    <2>4. pool' \in 0..PoolBlocks
        BY <1>4, <2>1, <2>2
    <2>5. Blocks'
        <3>1. pool + Len(isrTasks) + Count(stack["system"], Tasks) = PoolBlocks
            BY DEF Inv, Blocks
        <3>2. pool' + Len(isrTasks') = pool + Len(isrTasks)
            BY <2>1, <2>2, <2>3
        <3>3. pool' + Len(isrTasks') + Count(stack'["system"], Tasks) = PoolBlocks
            BY <1>1, <3>1, <3>2
        <3>4. QED
            BY <3>3 DEF Blocks, Count, Tasks
    <2>6. Stacked' /\ Routed' /\ Waits' /\ OneReference'
        <3>1. Stacked' /\ Routed' /\ Waits'
            BY <1>1 DEF Inv, Stacked, Routed, Waits, Awaits
        <3>2. OneReference'
            BY <1>1 DEF Inv, OneReference, Refs, Count, PutSync, RunSync, Sync, DoItem
        <3>3. QED
            BY <3>1, <3>2
    <2>7. TypeOK'
        <3>1. promise' \in [Callers -> {"none", "pending", "complete"}]
            BY <1>1 DEF Inv, TypeOK
        <3>2. QED
            BY <1>3, <2>3, <2>4, <2>6, <3>1, TypesAssembled
    <2>8. QED
        BY <2>5, <2>6, <2>7 DEF Inv
<1>5. CASE ~(pool > 0)
    <2>1. pool' = pool /\ isrTasks' = isrTasks
        BY <1>5 DEF NotifyFromISR
    <2>2. QED
        BY <1>1, <1>3, <2>1, FlagsOnly
<1>6. QED
    BY <1>4, <1>5

(* The state after power on, and after a reset of the device.              *)
PowerOn ==
    /\ stack = [t \in Threads |-> << >>]
    /\ systemQueue = << >> /\ applicationQueue = << >>
    /\ promise = [t \in Callers |-> "none"]
    /\ isrTasks = << >> /\ pool = PoolBlocks
    /\ waiting = [j \in Jobs |-> FALSE]
    /\ resetPending = FALSE /\ resetEnabled = TRUE /\ started = FALSE
    /\ halted \in BOOLEAN

(* At power on every stack and queue is empty and every block free.        *)
LEMMA Initial == PowerOn => Inv
<1> SUFFICES ASSUME PowerOn PROVE Inv
    OBVIOUS
<1>1. /\ \A t \in Threads : stack[t] = << >>
      /\ stack \in [Threads -> Seq(Frame)]
      /\ systemQueue = << >> /\ applicationQueue = << >> /\ isrTasks = << >>
      /\ pool = PoolBlocks /\ PoolBlocks \in Nat
      /\ SystemQueueSize \in Nat /\ ApplicationQueueSize \in Nat
    BY ThreadsAssumption DEF PowerOn
<1>2. Stacked /\ Routed
    BY <1>1 DEF Stacked, Routed
<1>3. TypeOK
    <2>1. /\ systemQueue \in Seq(Item) /\ Len(systemQueue) <= SystemQueueSize
          /\ applicationQueue \in Seq(Item) /\ Len(applicationQueue) <= ApplicationQueueSize
          /\ isrTasks \in Seq(Events) /\ pool \in 0..PoolBlocks
        BY <1>1
    <2>2. /\ promise \in [Callers -> {"none", "pending", "complete"}]
          /\ waiting \in [Jobs -> BOOLEAN]
        BY DEF PowerOn
    <2>3. resetPending \in BOOLEAN /\ resetEnabled \in BOOLEAN /\ started \in BOOLEAN
          /\ halted \in BOOLEAN
        BY DEF PowerOn
    <2>4. QED
        BY <1>1, <2>1, <2>2, <2>3 DEF TypeOK
<1>4. \A t \in Callers : promise[t] = "none"
    BY DEF PowerOn
<1>5. Waits
    BY <1>4 DEF Waits
<1>6. ASSUME NEW X PROVE Count(<< >>, X) = 0
    <2>1. << >> \in Seq({})
        OBVIOUS
    <2>2. QED
        BY <2>1, CountType
<1>7. OneReference
    BY <1>1, <1>4, <1>6, ThreadNames DEF OneReference, Refs
<1>8. Blocks
    BY <1>1, <1>6, ThreadNames DEF Blocks
<1>9. QED
    BY <1>2, <1>3, <1>5, <1>7, <1>8 DEF Inv

(* The frames of the background pass, one action at a time.                *)
LEMMA PassKept ==
    ASSUME Inv, FlagsOK,
           \/ StartIdle \/ IdleISR \/ IdleCloud \/ ListenISR
           \/ EndListening \/ IdleShutdown \/ EndShutdown
           \/ \E e \in Events : IdleNotify(e)
           \/ \E f \in Functions : IdleFunctionCall(f)
    PROVE  Inv'
<1> DEFINE t == "system"
<1>1. t \in Threads /\ t \notin Callers /\ Routed /\ Stacked
    BY ThreadNames DEF Inv
<1>2. stack[t] \in Seq(Frames(t))
    BY <1>1 DEF Stacked
<1>3. /\ Do("idle isr") \in Frames(t) /\ Plain(Do("idle isr"))
      /\ Do("idle cloud") \in Frames(t) /\ Plain(Do("idle cloud"))
      /\ Do("idle shutdown") \in Frames(t) /\ Plain(Do("idle shutdown"))
      /\ Do("listen") \in Frames(t) /\ Plain(Do("listen"))
      /\ Do("shutdown") \in Frames(t) /\ Plain(Do("shutdown"))
      /\ Do("resetting") \in Frames(t) /\ Plain(Do("resetting"))
    BY PassFrames
<1>4. ASSUME NEW X \in Seq(Frames(t)), Same(stack[t], X), stack' = [stack EXCEPT ![t] = X],
             UNCHANGED queues, FlagsOK', UNCHANGED <<promise, isrTasks, pool>>
      PROVE  Inv'
    BY <1>1, <1>4, Quiet DEF queues
<1>5. ASSUME NEW op, op \notin {"put", "run", "task"}, Doing(t, op)
      PROVE  /\ Front(stack[t]) \o << >> \in Seq(Frames(t))
             /\ Same(stack[t], Front(stack[t]) \o << >>)
             /\ \A a \in Frames(t) :
                    Plain(a) => /\ Front(stack[t]) \o <<a>> \in Seq(Frames(t))
                                /\ Same(stack[t], Front(stack[t]) \o <<a>>)
             /\ \A a, b \in Frames(t) :
                    Plain(a) /\ Plain(b) => /\ Front(stack[t]) \o <<a, b>> \in Seq(Frames(t))
                                            /\ Same(stack[t], Front(stack[t]) \o <<a, b>>)
    BY <1>1, <1>5, Refill
<1>6. CASE StartIdle
    <2> DEFINE X == stack[t] \o <<Do("idle isr")>>
    <2>1. /\ stack' = [stack EXCEPT ![t] = X]
          /\ UNCHANGED queues /\ UNCHANGED <<promise, isrTasks, pool, waiting, flags, started, halted>>
        BY <1>6 DEF StartIdle, Push
    <2>2. FlagsOK'
        BY <2>1 DEF FlagsOK, flags
    <2>3. X = Append(stack[t], Do("idle isr"))
        BY <1>2, <1>3, Concatenated
    <2>4. Append(stack[t], Do("idle isr")) \in Seq(Frames(t))
          /\ Same(stack[t], Append(stack[t], Do("idle isr")))
        BY <1>2, <1>3, SameAppend
    <2> HIDE DEF X
    <2>5. QED
        BY <1>4, <2>1, <2>2, <2>3, <2>4
<1>7. CASE IdleISR
    <2>1. /\ Doing(t, "idle isr") /\ promise' = promise /\ pool' = pool
          /\ resetPending' = resetPending /\ resetEnabled' = resetEnabled
          /\ started' = started /\ halted' = halted
        BY <1>7 DEF IdleISR, flags
    <2>2. CASE TakeISRTask(t, Do("idle cloud"))
        <3> DEFINE op == "idle isr"
        <3>1. op \notin {"put", "run", "task"} /\ Doing(t, op)
            BY <2>1
        <3> HIDE DEF op
        <3>2. QED
            BY <1>3, <2>1, <2>2, <3>1, TakeKept
    <2>3. CASE ~TakeISRTask(t, Do("idle cloud"))
        <3> DEFINE X == Front(stack[t]) \o <<Do("idle cloud")>>
        <3>1. stack' = [stack EXCEPT ![t] = X] /\ UNCHANGED queues /\ UNCHANGED <<isrTasks, waiting>>
            BY <1>7, <2>3 DEF IdleISR, Become
        <3>2. FlagsOK'
            BY <2>1, <3>1 DEF FlagsOK
        <3>3. X \in Seq(Frames(t)) /\ Same(stack[t], X)
            BY <1>3, <1>5, <2>1
        <3> HIDE DEF X
        <3>4. QED
            BY <1>4, <2>1, <3>1, <3>2, <3>3
    <2>4. QED
        BY <2>2, <2>3
<1>8. CASE ListenISR
    <2>1. /\ Doing(t, "listen") /\ promise' = promise /\ pool' = pool
          /\ resetPending' = resetPending /\ resetEnabled' = resetEnabled
          /\ started' = started /\ halted' = halted
          /\ TakeISRTask(t, Do("listen"))
        BY <1>8 DEF ListenISR, flags
    <2> DEFINE op == "listen"
    <2>2. op \notin {"put", "run", "task"} /\ Doing(t, op)
        BY <2>1
    <2> HIDE DEF op
    <2>3. QED
        BY <1>3, <2>1, <2>2, TakeKept
<1>9. CASE EndListening
    <2> DEFINE X == Front(stack[t]) \o << >>
    <2>1. /\ stack' = [stack EXCEPT ![t] = X] /\ Doing(t, "listen")
          /\ UNCHANGED queues /\ UNCHANGED <<promise, isrTasks, pool, waiting, flags, started, halted>>
        BY <1>9 DEF EndListening, Become
    <2>2. FlagsOK'
        BY <2>1 DEF FlagsOK, flags
    <2>3. X \in Seq(Frames(t)) /\ Same(stack[t], X)
        BY <1>5, <2>1
    <2> HIDE DEF X
    <2>4. QED
        BY <1>4, <2>1, <2>2, <2>3
<1>10. CASE EndShutdown
    <2> DEFINE X == Front(stack[t]) \o ShutdownIfEnabled
    <2>1. /\ stack' = [stack EXCEPT ![t] = X] /\ Doing(t, "shutdown")
          /\ UNCHANGED queues /\ UNCHANGED <<promise, isrTasks, pool, waiting, flags, started, halted>>
        BY <1>10 DEF EndShutdown, Become
    <2>2. FlagsOK'
        BY <2>1 DEF FlagsOK, flags
    <2>3. X \in Seq(Frames(t)) /\ Same(stack[t], X)
        BY <1>3, <1>5, <2>1 DEF ShutdownIfEnabled
    <2> HIDE DEF X
    <2>4. QED
        BY <1>4, <2>1, <2>2, <2>3
<1>11. CASE IdleShutdown
    <2>1. /\ Doing(t, "idle shutdown")
          /\ UNCHANGED <<promise, isrTasks, pool, waiting, flags, started, halted>>
        BY <1>11 DEF IdleShutdown
    <2>2. FlagsOK'
        BY <2>1 DEF FlagsOK, flags
    <2>3. CASE canShutdown /\ started
        <3> DEFINE X == Front(stack[t]) \o <<Do("shutdown")>>
        <3>1. Send(t, X, "reset", "system")
            BY <1>11, <2>3 DEF IdleShutdown
        <3>2. X \in Seq(Frames(t)) /\ Same(stack[t], X)
            BY <1>3, <1>5, <2>1
        <3>3. DoItem("put", "reset", "system").item \in ApplicationItem
            BY DEF DoItem, ApplicationItem
        <3>4. DoItem("put", "reset", "system") \in Frames(t)
            BY <3>3 DEF DoItem, Frames
        <3> HIDE DEF X
        <3>5. QED
            BY <1>1, <2>1, <2>2, <3>1, <3>2, <3>3, <3>4, SentKept
    <2>4. CASE ~(canShutdown /\ started)
        <3>1. UNCHANGED queues
              /\ \/ stack' = [stack EXCEPT ![t] = Front(stack[t]) \o << >>]
                 \/ stack' = [stack EXCEPT ![t] = Front(stack[t]) \o
                                (<<Do("shutdown")>> \o <<Do("resetting")>>)]
            BY <1>11, <2>4 DEF IdleShutdown, Become, ShutdownIfEnabled
        <3>2. <<Do("shutdown")>> \o <<Do("resetting")>> = <<Do("shutdown"), Do("resetting")>>
            BY <1>3, Paired
        <3>3. CASE stack' = [stack EXCEPT ![t] = Front(stack[t]) \o << >>]
            <4> DEFINE X == Front(stack[t]) \o << >>
            <4>1. X \in Seq(Frames(t)) /\ Same(stack[t], X) /\ stack' = [stack EXCEPT ![t] = X]
                BY <1>5, <2>1, <3>3
            <4> HIDE DEF X
            <4>2. QED
                BY <1>4, <2>1, <2>2, <3>1, <4>1
        <3>4. CASE stack' = [stack EXCEPT ![t] = Front(stack[t]) \o
                                (<<Do("shutdown")>> \o <<Do("resetting")>>)]
            <4> DEFINE X == Front(stack[t]) \o <<Do("shutdown"), Do("resetting")>>
            <4>1. X \in Seq(Frames(t)) /\ Same(stack[t], X)
                BY <1>3, <1>5, <2>1
            <4>2. stack' = [stack EXCEPT ![t] = X]
                BY <3>2, <3>4
            <4> HIDE DEF X
            <4>3. QED
                BY <1>4, <2>1, <2>2, <3>1, <4>1, <4>2
        <3>5. QED
            BY <3>1, <3>3, <3>4
    <2>5. QED
        BY <2>3, <2>4
<1>12. CASE IdleCloud
    <2>1. /\ Doing(t, "idle cloud")
          /\ UNCHANGED <<promise, isrTasks, pool, waiting, resetEnabled, started, halted>>
        BY <1>12 DEF IdleCloud
    <2>2. resetPending' \in BOOLEAN
        BY <1>12 DEF IdleCloud, FlagsOK
    <2>3. FlagsOK'
        BY <2>1, <2>2 DEF FlagsOK
    <2> DEFINE X == Front(stack[t]) \o <<Do("idle shutdown")>>
               Y == Front(stack[t]) \o <<Do("idle shutdown"), Do("listen")>>
    <2>4. /\ X \in Seq(Frames(t)) /\ Same(stack[t], X)
          /\ Y \in Seq(Frames(t)) /\ Same(stack[t], Y)
        BY <1>3, <1>5, <2>1
    <2>5. \/ stack' = [stack EXCEPT ![t] = X] /\ UNCHANGED queues
          \/ stack' = [stack EXCEPT ![t] = Y] /\ UNCHANGED queues
          \/ Notified(t, X, "reset_pending")
        BY <1>12 DEF IdleCloud, Become
    <2> HIDE DEF X, Y
    <2>6. CASE Notified(t, X, "reset_pending")
        BY <1>1, <2>1, <2>3, <2>4, <2>6, NotifiedKept
    <2>7. QED
        BY <1>4, <2>1, <2>3, <2>4, <2>5, <2>6
<1>13. ASSUME NEW e \in Events, IdleNotify(e) PROVE Inv'
    <2> DEFINE X == Front(stack[t]) \o <<Do("idle shutdown")>>
    <2>1. /\ Doing(t, "idle cloud") /\ Notified(t, X, e)
          /\ UNCHANGED <<promise, isrTasks, pool, flags, started, halted>>
        BY <1>13 DEF IdleNotify
    <2>2. waiting' \in [Jobs -> BOOLEAN]
        BY <1>13 DEF IdleNotify, FlagsOK, InPlace
    <2>3. FlagsOK'
        BY <2>1, <2>2 DEF FlagsOK, flags
    <2>4. X \in Seq(Frames(t)) /\ Same(stack[t], X)
        BY <1>3, <1>5, <2>1
    <2> HIDE DEF X
    <2>5. QED
        BY <1>1, <2>1, <2>3, <2>4, NotifiedKept
<1>14. ASSUME NEW f \in Functions, IdleFunctionCall(f) PROVE Inv'
    <2> DEFINE X == Front(stack[t]) \o <<Do("idle shutdown")>>
    <2>1. /\ Doing(t, "idle cloud")
          /\ UNCHANGED <<promise, isrTasks, pool, flags, started, halted>>
          /\ started => Send(t, X, "function", f)
          /\ ~started => stack' = [stack EXCEPT ![t] = X] /\ UNCHANGED queues
        BY <1>14 DEF IdleFunctionCall, Become
    <2>2. waiting' \in [Jobs -> BOOLEAN]
        BY <1>14 DEF IdleFunctionCall, FlagsOK
    <2>3. FlagsOK'
        BY <2>1, <2>2 DEF FlagsOK, flags
    <2>4. X \in Seq(Frames(t)) /\ Same(stack[t], X)
        BY <1>3, <1>5, <2>1
    <2>5. DoItem("put", "function", f).item \in ApplicationItem
        BY DEF DoItem, ApplicationItem
    <2>6. DoItem("put", "function", f) \in Frames(t)
        BY <2>5 DEF DoItem, Frames
    <2> HIDE DEF X
    <2>7. CASE started
        BY <1>1, <2>1, <2>3, <2>4, <2>5, <2>6, <2>7, SentKept
    <2>8. CASE ~started
        BY <1>4, <2>1, <2>3, <2>4, <2>8
    <2>9. QED
        BY <2>7, <2>8
<1>15. QED
    BY <1>6, <1>7, <1>8, <1>9, <1>10, <1>11, <1>12, <1>13, <1>14

(* Every step keeps the invariant.                                         *)
LEMMA StepKeeps == Inv /\ [Next]_vars => Inv'
<1> SUFFICES ASSUME Inv, [Next]_vars PROVE Inv'
    OBVIOUS
<1>1. FlagsOK
    BY DEF Inv, TypeOK, FlagsOK
<1>2. ASSUME NEW t \in Threads,
             \/ Put(t) \/ PutTimesOut(t) \/ Process(t)
             \/ \E pass \in BOOLEAN : Finish(t, pass)
             \/ \E e \in Events : Notify(t, e)
             \/ FreeTask(t) \/ Reset(t)
      PROVE  Inv'
    <2>1. CASE Put(t)
        BY <1>1, <2>1, PutKept
    <2>2. CASE PutTimesOut(t)
        BY <1>1, <2>2, PutTimesOutKept
    <2>3. CASE Process(t)
        BY <1>1, <2>3, ProcessKept
    <2>4. ASSUME NEW pass \in BOOLEAN, Finish(t, pass) PROVE Inv'
        BY <1>1, <2>4, FinishKept
    <2>5. ASSUME NEW e \in Events, Notify(t, e) PROVE Inv'
        BY <1>1, <2>5, NotifyKept
    <2>6. CASE FreeTask(t)
        BY <1>1, <2>6, FreeTaskKept
    <2>7. CASE Reset(t)
        <3>1. PowerOn'
            BY <2>7 DEF Reset, PowerOn, Threads, Callers, Jobs
        <3>2. (PowerOn => Inv)'
            BY Initial, PTL
        <3>3. QED
            BY <3>1, <3>2
    <2>8. QED
        BY <1>2, <2>1, <2>2, <2>3, <2>4, <2>5, <2>6, <2>7
<1>3. ASSUME NEW t \in Callers,
             \/ CallSync(t) \/ CallAsync(t) \/ Return(t)
             \/ \E enabled \in BOOLEAN : SetResetEnabled(t, enabled)
      PROVE  Inv'
    <2>1. CASE CallSync(t)
        BY <1>1, <2>1, CallSyncKept
    <2>2. CASE CallAsync(t)
        BY <1>1, <2>2, CallAsyncKept
    <2>3. CASE Return(t)
        BY <1>1, <2>3, ReturnKept
    <2>4. ASSUME NEW enabled \in BOOLEAN, SetResetEnabled(t, enabled) PROVE Inv'
        <3>1. /\ resetEnabled' \in BOOLEAN /\ UNCHANGED queues
              /\ UNCHANGED <<stack, promise, isrTasks, pool, waiting, resetPending, started, halted>>
            BY <2>4 DEF SetResetEnabled
        <3>2. FlagsOK'
            BY <1>1, <3>1 DEF FlagsOK
        <3>3. QED
            BY <3>1, <3>2, FlagsOnly DEF queues
    <2>5. QED
        BY <1>3, <2>1, <2>2, <2>3, <2>4
<1>4. ASSUME NEW e \in Events, NotifyFromISR(e) PROVE Inv'
    BY <1>1, <1>4, NotifyFromISRKept
<1>5. CASE \/ StartIdle \/ IdleISR \/ IdleCloud \/ ListenISR
           \/ EndListening \/ IdleShutdown \/ EndShutdown
           \/ \E e \in Events : IdleNotify(e)
           \/ \E f \in Functions : IdleFunctionCall(f)
    BY <1>1, <1>5, PassKept
<1>6. CASE StartApplication
    <2>1. /\ started' = TRUE /\ UNCHANGED queues
          /\ UNCHANGED <<stack, promise, isrTasks, pool, waiting, flags, halted>>
        BY <1>6 DEF StartApplication
    <2>2. FlagsOK'
        BY <1>1, <2>1 DEF FlagsOK, flags
    <2>3. QED
        BY <2>1, <2>2, FlagsOnly DEF queues
<1>7. CASE UNCHANGED vars
    <2>1. UNCHANGED queues /\ UNCHANGED flags
          /\ UNCHANGED <<stack, promise, isrTasks, pool, waiting, started, halted>>
        BY <1>7 DEF vars
    <2>2. FlagsOK'
        BY <1>1, <2>1 DEF FlagsOK, flags
    <2>3. QED
        BY <2>1, <2>2, FlagsOnly DEF queues
<1>8. QED
    BY <1>2, <1>3, <1>4, <1>5, <1>6, <1>7 DEF Next

(* The invariant holds from power on.                                      *)
LEMMA Invariance == Spec => []Inv
<1>1. Init => PowerOn
    BY DEF Init, PowerOn
<1>2. QED
    BY <1>1, Initial, StepKeeps, PTL DEF Spec

(* The places that hold a pointer to a promise are those that are counted. *)
LEMMA Counted ==
    ASSUME Inv, NEW t \in Callers
    PROVE  References(t) = Refs(t)
<1>1. /\ systemQueue \in Seq(SystemItem)
      /\ stack[t] \in Seq(Frames(t)) /\ stack["system"] \in Seq(Frames("system"))
    BY ThreadNames DEF Inv, Routed, Stacked
<1>2. /\ DOMAIN systemQueue = 1..Len(systemQueue) /\ DOMAIN stack[t] = 1..Len(stack[t])
      /\ DOMAIN stack["system"] = 1..Len(stack["system"])
    BY <1>1
<1>3. ASSUME NEW x \in SystemItem PROVE x.kind = "sync" /\ x.of = t <=> x \in {Sync(t)}
    BY DEF SystemItem, Sync
<1>4. ASSUME NEW f \in Frames(t)
      PROVE  f.op = "put" /\ f.item.kind = "sync" /\ f.item.of = t <=> f \in {PutSync(t)}
    <2>1. ASSUME f.op = "put", f.item.kind = "sync", f.item.of = t PROVE f = PutSync(t)
        <3>1. f \in [op : {"put"}, item : Sent(t)]
            BY <2>1, ThreadNames DEF Frames
        <3>2. f.item = Sync(t)
            BY <2>1, <3>1 DEF Sent, Sync
        <3>3. QED
            BY <3>1, <3>2 DEF PutSync, DoItem, Sync
    <2>2. ASSUME f = PutSync(t) PROVE f.op = "put" /\ f.item.kind = "sync" /\ f.item.of = t
        BY <2>2 DEF PutSync, DoItem
    <2>3. QED
        BY <2>1, <2>2
<1>5. ASSUME NEW f \in Frames("system")
      PROVE  f.op = "run" /\ f.item.kind = "sync" /\ f.item.of = t <=> f \in {RunSync(t)}
    <2>1. ASSUME f.op = "run", f.item.kind = "sync", f.item.of = t PROVE f = RunSync(t)
        <3>1. f \in [op : {"run"}, item : SystemItem]
            BY <2>1 DEF Frames, Tasks
        <3>2. f.item = Sync(t)
            BY <2>1, <3>1 DEF SystemItem, Sync
        <3>3. QED
            BY <3>1, <3>2 DEF RunSync, DoItem, Sync
    <2>2. ASSUME f = RunSync(t) PROVE f.op = "run" /\ f.item.kind = "sync" /\ f.item.of = t
        BY <2>2 DEF RunSync, DoItem
    <2>3. QED
        BY <2>1, <2>2
<1>6. {i \in DOMAIN systemQueue : systemQueue[i].kind = "sync" /\ systemQueue[i].of = t}
        = {i \in 1..Len(systemQueue) : systemQueue[i] \in {Sync(t)}}
    BY <1>1, <1>2, <1>3
<1>7. {i \in DOMAIN stack[t] : stack[t][i].op = "put"
                                 /\ (stack[t][i].item.kind = "sync" /\ stack[t][i].item.of = t)}
        = {i \in 1..Len(stack[t]) : stack[t][i] \in {PutSync(t)}}
    BY <1>1, <1>2, <1>4
<1>8. {i \in DOMAIN stack["system"] :
          stack["system"][i].op = "run"
            /\ (stack["system"][i].item.kind = "sync" /\ stack["system"][i].item.of = t)}
        = {i \in 1..Len(stack["system"]) : stack["system"][i] \in {RunSync(t)}}
    BY <1>1, <1>2, <1>5
<1>9. QED
    BY <1>6, <1>7, <1>8 DEF References, Refs, Count

(* Every variable keeps its type, and both queues and the pool their       *)
(* bounds, for any number of threads and any sizes.                        *)
THEOREM TypeCorrect == Spec => []TypeOK
<1>1. Inv => TypeOK
    BY DEF Inv
<1>2. QED
    BY <1>1, Invariance, PTL

(* While a synchronous call's promise is incomplete exactly one place      *)
(* refers to it, and none once it is complete or deleted: neither thread   *)
(* runs a deleted promise, or one twice (Promise, ActiveObject::process).  *)
THEOREM PromiseReferences == Spec => []PromiseOutlivesUse
<1>1. Inv => PromiseOutlivesUse
    BY Counted DEF Inv, OneReference, PromiseOutlivesUse
<1>2. QED
    BY <1>1, Invariance, PTL

(* Every block of the system pool is free, waits with its task in the      *)
(* interrupt task queue, or is that of a task being notified               *)
(* (SystemEventTask, system_pool_alloc, system_pool_free).                 *)
THEOREM PoolBlocksConserved == Spec => []PoolConserved
<1>1. ASSUME Inv PROVE PoolConserved
    <2>1. stack["system"] \in Seq(Frames("system"))
        BY <1>1, ThreadNames DEF Inv, Stacked
    <2>2. \A f \in Frames("system") : f.op = "task" <=> f \in Tasks
        BY FrameItems DEF Tasks
    <2>3. {i \in DOMAIN stack["system"] : stack["system"][i].op = "task"}
            = {i \in 1..Len(stack["system"]) : stack["system"][i] \in Tasks}
        BY <2>1, <2>2
    <2>4. QED
        BY <1>1, <2>3 DEF Inv, Blocks, Count, PoolConserved
<1>2. Inv => PoolConserved
    BY <1>1
<1>3. QED
    BY <1>2, Invariance, PTL
=============================================================================
