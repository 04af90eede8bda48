------------------------------- MODULE Equeue -------------------------------
(***************************************************************************)
(* The event queue of src/events/equeue/equeue.c, on which the LoRa task   *)
(* runs every deferred call, with the RTOS objects of this port: two       *)
(* mutexes, a semaphore and the tick of the kernel.                        *)
(*                                                                         *)
(* The dispatcher (LoRaTask in dispatch_forever()) and the tasks that post *)
(* and cancel interleave in any order.  A step is a critical section, or   *)
(* one access to what is shared outside of a critical section; an          *)
(* operation that takes several steps keeps its local variables in task[t].*)
(* Events live in one buffer and are named by their place in it, 1 being   *)
(* the first and 0 the null pointer; next, sibling and ref are the         *)
(* pointers of the code.  Ticks do not wrap around: they are 32 bits wide. *)
(***************************************************************************)
EXTENDS Integers, Sequences, FiniteSets

CONSTANTS
    Tasks,       \* the tasks that use the queue
    Dispatcher,  \* the one that runs equeue_dispatch()
    Priority,    \* of each task, the smaller number being the more urgent
    Cancellers,  \* the tasks that call equeue_cancel()
    Breakers,    \* the tasks that call equeue_break()
    SlabSize,    \* units of memory in the buffer
    Requests,    \* for each task, the calls it posts: the memory an event takes,
                 \* the delay of equeue_call_in() or 0 for equeue_call(), and the
                 \* period of equeue_call_every() or -1 for a single call
    DispatchFor, \* the argument of equeue_dispatch(), negative for ever
    IdLimit,     \* largest event id: 255, the id being a uint8_t
    GenerationLimit, \* number of generations: 256, for the same reason
    Kept,        \* the calls, counted from 1, whose id somebody keeps to cancel them
    MaxCalls,    \* bound on the calls posted
    MaxBreaks,   \* bound on the calls of equeue_break()
    MaxTick      \* bound on the tick

ASSUME EqueueAssumption ==
    /\ Dispatcher \in Tasks
    /\ Priority \in [Tasks -> Nat]
    /\ Cancellers \subseteq Tasks
    /\ Breakers \subseteq Tasks
    /\ SlabSize \in Nat \ {0}
    /\ Requests \in [Tasks -> SUBSET [size : 1 .. SlabSize, delay : Nat,
                                     period : Nat \union {-1}]]
    /\ DispatchFor \in Int
    /\ IdLimit \in Nat \ {0}
    /\ GenerationLimit \in Nat \ {0}
    /\ Kept \subseteq Nat \ {0}
    /\ MaxCalls \in Nat
    /\ MaxBreaks \in Nat
    /\ MaxTick \in Nat

VARIABLES
    now,    \* what equeue_tick() returns
    q,      \* the equeue_t, with the events in its buffer
    task,   \* the operation each task is in the middle of
    loop,   \* the local variables of equeue_dispatch()
    calls,  \* history: what was asked of the queue, for the properties only
    breaks  \* how often equeue_break() was called

vars == <<now, q, task, loop, calls, breaks>>

Events == 1 .. SlabSize
Links == 0 .. SlabSize
Cells == {<<"queue", 0>>, <<"chunks", 0>>} \union ({"next", "sibling"} \X Events)

\* The unique id equeue_post() returns, and the 0 that names no event.
NoHandle == <<0, 0>>

\* A task that does nothing with the queue.
Idle == [pc |-> "idle", e |-> 0, tick |-> 0, n |-> 0, handle |-> NoHandle]

Init ==
    /\ now = 0
    /\ q = [queue |-> 0, tick |-> 0, generation |-> 0, break_requested |-> FALSE,
            chunks |-> 0, slab |-> 1, sema |-> 0,
            ev |-> [e \in Events |->
                      [size |-> 0, id |-> 0, generation |-> 0, next |-> 0,
                       sibling |-> 0, ref |-> <<"queue", 0>>, target |-> 0,
                       period |-> -1, cb |-> 0]]]
    /\ task = [t \in Tasks |-> Idle]
    /\ loop = [pc |-> "out", es |-> 0, e |-> 0, tick |-> 0, timeout |-> 0,
               wake |-> 0, running |-> 0]
    /\ calls = <<>>
    /\ breaks = 0

-----------------------------------------------------------------------------
(* Pointers *)

Queue == <<"queue", 0>>
Chunks == <<"chunks", 0>>

Load(s, p) ==
    CASE p[1] = "queue"   -> s.queue
      [] p[1] = "chunks"  -> s.chunks
      [] p[1] = "next"    -> s.ev[p[2]].next
      [] p[1] = "sibling" -> s.ev[p[2]].sibling

Store(s, p, e) ==
    CASE p[1] = "queue"   -> [s EXCEPT !.queue = e]
      [] p[1] = "chunks"  -> [s EXCEPT !.chunks = e]
      [] p[1] = "next"    -> [s EXCEPT !.ev[p[2]].next = e]
      [] p[1] = "sibling" -> [s EXCEPT !.ev[p[2]].sibling = e]

\* x->ref = p, when x is not null.
SetRef(s, x, p) == IF x = 0 THEN s ELSE [s EXCEPT !.ev[x].ref = p]

\* The events that a chain of pointers starting at e visits, up to the null
\* pointer; a chain that runs in a circle is cut where it has repeated itself.
Chain(link, e) ==
    LET at[k \in Events] ==
            IF k = 1 THEN e
            ELSE IF at[k - 1] = 0 THEN 0 ELSE link[at[k - 1]]
    IN  SelectSeq([k \in Events |-> at[k]], LAMBDA x : x # 0)

NextChain(s, e) == Chain([x \in Events |-> s.ev[x].next], e)
SiblingChain(s, e) == Chain([x \in Events |-> s.ev[x].sibling], e)

LeastOf(S) == CHOOSE x \in S : \A y \in S : x <= y
LaterOf(a, b) == IF a < b THEN b ELSE a
Backwards(list) == [i \in DOMAIN list |-> list[Len(list) + 1 - i]]

\* The cell where a walk along next that begins at root stops: at the first
\* event that is not passed over, or at the null pointer.
Walk(s, root, passed) ==
    LET list == NextChain(s, Load(s, root))
        stops == {i \in DOMAIN list : list[i] \notin passed} \union {Len(list) + 1}
    IN  IF LeastOf(stops) = 1 THEN root ELSE <<"next", list[LeastOf(stops) - 1]>>

-----------------------------------------------------------------------------
(* The memory of the events.  Each operation is one section under memlock. *)

\* Takes a chunk of at least the given size off the list of free chunks, where
\* chunks of one size are siblings, or else cuts one from the slab.
mem_alloc(s, size) ==
    LET p == Walk(s, Chunks, {x \in Events : s.ev[x].size < size})
        e == Load(s, p)
        sibling == s.ev[e].sibling
    IN  IF e # 0 THEN
            [e |-> e,
             q |-> IF sibling # 0
                   THEN [Store(s, p, sibling) EXCEPT !.ev[sibling].next = s.ev[e].next]
                   ELSE Store(s, p, s.ev[e].next)]
        ELSE IF s.slab + size - 1 <= SlabSize THEN
            [e |-> s.slab,
             q |-> [s EXCEPT !.slab = @ + size,
                             !.ev[s.slab].size = size, !.ev[s.slab].id = 1]]
        ELSE [e |-> 0, q |-> s]

mem_dealloc(s, e) ==
    LET p == Walk(s, Chunks, {x \in Events : s.ev[x].size < s.ev[e].size})
        at == Load(s, p)
        alike == at # 0 /\ s.ev[at].size = s.ev[e].size
    IN  Store([s EXCEPT !.ev[e].sibling = IF alike THEN at ELSE 0,
                        !.ev[e].next = IF alike THEN s.ev[at].next ELSE at],
              p, e)

-----------------------------------------------------------------------------
(* The list of slots.  Each operation is one section under queuelock. *)

incid(s, e) == [s EXCEPT !.ev[e].id = IF @ = IdLimit THEN 1 ELSE @ + 1]

\* A slot holds the events of one target, the newest first; slots are sorted.
enqueue(s, e) ==
    LET p == Walk(s, Queue, {x \in Events : s.ev[x].target < s.ev[e].target})
        at == Load(s, p)
        shared == at # 0 /\ s.ev[at].target = s.ev[e].target
        next == IF shared THEN s.ev[at].next ELSE at
        linked == SetRef([s EXCEPT !.ev[e].next = next,
                                   !.ev[e].sibling = IF shared THEN at ELSE 0],
                         next, <<"next", e>>)
        headed == IF shared
                  THEN SetRef([linked EXCEPT !.ev[at].next = 0], at, <<"sibling", e>>)
                  ELSE linked
    IN  SetRef(Store(headed, p, e), e, p)

\* Mutant: an event due at the very tick of the last dequeue is taken to wait.
InFlight_by_target(s, e) == s.ev[e].target < s.tick

\* The dispatcher has taken the event off the list, or so it looks.
InFlight(s, e) ==
    \/ s.ev[e].target < s.tick
    \/ s.ev[e].target = s.tick /\ s.ev[e].generation # s.generation

\* Mutant: the event that takes the place keeps its old back pointer.
disentangle_ref_kept(s, e) ==
    LET next == s.ev[e].next
        sibling == s.ev[e].sibling
    IN  IF sibling # 0
        THEN SetRef(Store([s EXCEPT !.ev[sibling].next = next], s.ev[e].ref, sibling),
                    next, <<"next", sibling>>)
        ELSE Store(s, s.ev[e].ref, next)

\* Mutant: the older events of the slot are dropped with the cancelled one.
disentangle_siblings_dropped(s, e) ==
    SetRef(Store(s, s.ev[e].ref, s.ev[e].next), s.ev[e].next, s.ev[e].ref)

disentangle(s, e) ==
    LET next == s.ev[e].next
        sibling == s.ev[e].sibling
        ref == s.ev[e].ref
        heir == IF sibling # 0 THEN sibling ELSE next
        passed == IF sibling # 0
                  THEN SetRef([s EXCEPT !.ev[sibling].next = next], next, <<"next", sibling>>)
                  ELSE s
    IN  SetRef(Store(passed, ref, heir), heir, ref)

\* The event to free, 0 when there is none, and the queue.
unqueue(s, handle) ==
    LET e == handle[2]
        cleared == [s EXCEPT !.ev[e].cb = 0, !.ev[e].period = -1]
    IN  IF s.ev[e].id # handle[1] THEN [e |-> 0, q |-> s]
        ELSE IF InFlight(s, e) THEN [e |-> 0, q |-> cleared]
        ELSE [e |-> e, q |-> incid(disentangle(cleared, e), e)]

\* Cuts the slots that are due off the list; head is the first of them.
dequeue(s, target) ==
    LET p == Walk(s, Queue, {x \in Events : s.ev[x].target <= target})
        rest == Load(s, p)
        marked == [s EXCEPT !.generation = (@ + 1) % GenerationLimit,
                            !.tick = LaterOf(@, target)]
        cut == SetRef(Store(marked, p, 0), rest, Queue)
    IN  [head |-> IF p = Queue THEN 0 ELSE s.queue,
         q |-> [cut EXCEPT !.queue = rest]]

\* The events of the slots in the order they run: slot by slot, the oldest first.
RunOrder(s, head) ==
    LET slots == NextChain(s, head)
        upto[i \in 0 .. Len(slots)] ==
            IF i = 0 THEN <<>>
            ELSE upto[i - 1] \o Backwards(SiblingChain(s, slots[i]))
    IN  upto[Len(slots)]

\* Mutant: the newest event of a slot runs first.
flatten_newest_first(s, head) ==
    LET slots == NextChain(s, head)
        upto[i \in 0 .. Len(slots)] ==
            IF i = 0 THEN <<>> ELSE upto[i - 1] \o SiblingChain(s, slots[i])
        order == upto[Len(slots)]
        After(e) == LET i == CHOOSE j \in DOMAIN order : order[j] = e
                    IN  IF i = Len(order) THEN 0 ELSE order[i + 1]
    IN  [e |-> IF order = <<>> THEN 0 ELSE order[1],
         q |-> [s EXCEPT !.ev = [e \in Events |->
                    IF \E i \in DOMAIN order : order[i] = e
                    THEN [s.ev[e] EXCEPT !.next = After(e)] ELSE s.ev[e]]]]

\* Links the events of the slots in that order.
flatten(s, head) ==
    LET order == RunOrder(s, head)
        After(e) == LET i == CHOOSE j \in DOMAIN order : order[j] = e
                    IN  IF i = Len(order) THEN 0 ELSE order[i + 1]
    IN  [e |-> IF order = <<>> THEN 0 ELSE order[1],
         q |-> [s EXCEPT !.ev = [e \in Events |->
                    IF \E i \in DOMAIN order : order[i] = e
                    THEN [s.ev[e] EXCEPT !.next = After(e)] ELSE s.ev[e]]]]

-----------------------------------------------------------------------------
(* The tasks.  The dispatcher uses the queue between two dispatches and from *)
(* inside a callback. *)

\* The kernel runs t: no task that is more urgent has work, or it waits for a
\* mutex that t may hold.
Scheduled(t) ==
    \A u \in Tasks :
        Priority[u] < Priority[t] => task[u].pc \in {"idle", "insert", "free"}

MayUse(t) ==
    /\ task[t].pc = "idle"
    /\ t = Dispatcher => loop.pc = "out" \/ (loop.pc = "called" /\ loop.running # 0)

\* equeue_call(), equeue_call_in() and equeue_call_every(): a call for which there
\* is no memory changes nothing, its caller gets the id 0.
Call(t, request) ==
    LET got == mem_alloc(q, request.size) IN
    /\ MayUse(t)
    /\ Len(calls) < MaxCalls
    /\ got.e # 0
    /\ q' = [got.q EXCEPT !.ev[got.e].target = request.delay,
                          !.ev[got.e].period = request.period]
    /\ calls' = Append(calls, [immediate |-> request.delay = 0, handle |-> NoHandle,
                               posted |-> FALSE, cancelled |-> FALSE, begun |-> 0])
    /\ task' = [task EXCEPT ![t] = [@ EXCEPT !.pc = "tick", !.e = got.e,
                                             !.n = Len(calls')]]
    /\ UNCHANGED <<now, loop, breaks>>

\* equeue_post() reads the tick.
ReadTick(t) ==
    /\ task[t].pc = "tick"
    /\ q' = [q EXCEPT !.ev[task[t].e].cb = task[t].n,
                      !.ev[task[t].e].target = now + @]
    /\ task' = [task EXCEPT ![t] = [@ EXCEPT !.pc = "stamp", !.tick = now]]
    /\ UNCHANGED <<now, loop, calls, breaks>>

\* equeue_enqueue() before it has the lock.
Stamp(t) ==
    LET e == task[t].e IN
    /\ task[t].pc = "stamp"
    /\ q' = [q EXCEPT !.ev[e].target = LaterOf(@, task[t].tick),
                      !.ev[e].generation = q.generation]
    /\ task' = [task EXCEPT ![t] = [@ EXCEPT !.pc = "insert",
                                             !.handle = <<q.ev[e].id, e>>]]
    /\ UNCHANGED <<now, loop, calls, breaks>>

Repeats(t) == t = Dispatcher /\ loop.pc = "again"

\* equeue_enqueue() under the lock, for a post and for a periodic event.
Insert(t) ==
    LET n == task[t].n IN
    /\ task[t].pc = "insert"
    /\ q' = enqueue(q, task[t].e)
    /\ calls' = [calls EXCEPT ![n].posted = TRUE]
    /\ task' = [task EXCEPT ![t] = IF Repeats(t) THEN Idle ELSE [@ EXCEPT !.pc = "signal"]]
    /\ loop' = IF Repeats(t) THEN [loop EXCEPT !.pc = "next", !.e = 0, !.running = 0] ELSE loop
    /\ UNCHANGED <<now, breaks>>

\* Mutant: a post is not counted while the dispatcher is busy.
Signal_not_counted(t) ==
    LET n == task[t].n IN
    /\ task[t].pc = "signal"
    /\ loop' = IF loop.pc = "asleep" THEN [loop EXCEPT !.pc = "check", !.wake = 0]
               ELSE loop
    /\ calls' = IF n = 0 THEN calls ELSE [calls EXCEPT ![n].handle = task[t].handle]
    /\ task' = [task EXCEPT ![t] = Idle]
    /\ UNCHANGED <<now, q, breaks>>

\* OSSemPost(): wakes the dispatcher when it waits, else counts.  The operation
\* returns, equeue_post() with the id.
Signal(t) ==
    LET n == task[t].n IN
    /\ task[t].pc = "signal"
    /\ IF loop.pc = "asleep"
       THEN /\ loop' = [loop EXCEPT !.pc = "check", !.wake = 0]
            /\ UNCHANGED q
       ELSE /\ q' = [q EXCEPT !.sema = @ + 1]
            /\ UNCHANGED loop
    /\ calls' = IF n = 0 THEN calls ELSE [calls EXCEPT ![n].handle = task[t].handle]
    /\ task' = [task EXCEPT ![t] = Idle]
    /\ UNCHANGED <<now, breaks>>

\* equeue_cancel() of a call whose id its caller has kept.
Cancel(t, n) ==
    LET found == unqueue(q, calls[n].handle) IN
    /\ MayUse(t) /\ t \in Cancellers
    /\ calls[n].handle # NoHandle /\ ~calls[n].cancelled
    /\ q' = found.q
    /\ calls' = [calls EXCEPT ![n].cancelled = TRUE]
    /\ task' = IF found.e = 0 THEN task
               ELSE [task EXCEPT ![t] = [@ EXCEPT !.pc = "free", !.e = found.e]]
    /\ UNCHANGED <<now, loop, breaks>>

Free(t) ==
    /\ task[t].pc = "free"
    /\ q' = mem_dealloc(q, task[t].e)
    /\ task' = [task EXCEPT ![t] = Idle]
    /\ UNCHANGED <<now, loop, calls, breaks>>

\* equeue_break()
Break(t) ==
    /\ MayUse(t) /\ t \in Breakers
    /\ breaks < MaxBreaks
    /\ breaks' = breaks + 1
    /\ q' = [q EXCEPT !.break_requested = TRUE]
    /\ task' = [task EXCEPT ![t] = [@ EXCEPT !.pc = "signal", !.n = 0]]
    /\ UNCHANGED <<now, loop, calls>>

-----------------------------------------------------------------------------
(* equeue_dispatch() *)

Dispatch ==
    /\ loop.pc = "out" /\ task[Dispatcher].pc = "idle"
    /\ loop' = [loop EXCEPT !.pc = "dequeue", !.tick = now,
                            !.timeout = IF DispatchFor < 0 THEN 0 ELSE now + DispatchFor]
    /\ UNCHANGED <<now, q, task, calls, breaks>>

Dequeue ==
    LET taken == dequeue(q, loop.tick) IN
    /\ loop.pc = "dequeue"
    /\ q' = taken.q
    /\ loop' = [loop EXCEPT !.pc = "flatten", !.es = taken.head, !.tick = 0]
    /\ UNCHANGED <<now, task, calls, breaks>>

Flatten ==
    LET flat == flatten(q, loop.es) IN
    /\ loop.pc = "flatten"
    /\ q' = flat.q
    /\ loop' = [loop EXCEPT !.pc = "next", !.es = flat.e]
    /\ UNCHANGED <<now, task, calls, breaks>>

\* Takes the next event of the batch and, unless it was cancelled, calls it.
Begin ==
    LET e == loop.es
        n == q.ev[e].cb
    IN
    /\ loop.pc = "next" /\ e # 0
    /\ loop' = [loop EXCEPT !.pc = "called", !.e = e, !.es = q.ev[e].next,
                            !.running = n]
    /\ calls' = IF n = 0 THEN calls ELSE [calls EXCEPT ![n].begun = @ + 1]
    /\ UNCHANGED <<now, q, task, breaks>>

\* The callback returns.  The event will be put back when it is periodic; otherwise
\* its id changes.
Finish ==
    LET single == q.ev[loop.e].period < 0 IN
    /\ loop.pc = "called" /\ task[Dispatcher].pc = "idle"
    /\ q' = IF single THEN incid(q, loop.e) ELSE q
    /\ loop' = IF single THEN [loop EXCEPT !.pc = "free", !.running = 0]
               ELSE [loop EXCEPT !.pc = "again"]
    /\ UNCHANGED <<now, task, calls, breaks>>

FreeEvent ==
    /\ loop.pc = "free"
    /\ q' = mem_dealloc(q, loop.e)
    /\ loop' = [loop EXCEPT !.pc = "next", !.e = 0]
    /\ UNCHANGED <<now, task, calls, breaks>>

\* Puts a periodic event back: Stamp and Insert follow.  The period is read anew,
\* a cancel() meanwhile has made it -1.
Again ==
    /\ loop.pc = "again" /\ task[Dispatcher].pc = "idle"
    /\ q' = [q EXCEPT !.ev[loop.e].target = @ + q.ev[loop.e].period]
    /\ task' = [task EXCEPT ![Dispatcher] =
                  [@ EXCEPT !.pc = "stamp", !.e = loop.e, !.tick = now, !.n = loop.running]]
    /\ UNCHANGED <<now, loop, calls, breaks>>

\* The batch is done: the time is read, and dispatching for a limited time stops.
BatchDone ==
    /\ loop.pc = "next" /\ loop.es = 0
    /\ IF DispatchFor >= 0 /\ loop.timeout <= now
       THEN /\ loop' = [loop EXCEPT !.pc = "out", !.timeout = 0]
            /\ q' = [q EXCEPT !.break_requested = FALSE]
       ELSE /\ loop' = [loop EXCEPT !.pc = "deadline", !.tick = now]
            /\ UNCHANGED q
    /\ UNCHANGED <<now, task, calls, breaks>>

\* Mutant: the time to the first slot is not clamped.
Deadline_unclamped ==
    LET left == IF DispatchFor >= 0 THEN {loop.timeout - loop.tick} ELSE {}
        diff == IF q.queue = 0 THEN {} ELSE {q.ev[q.queue].target - loop.tick}
    IN
    /\ loop.pc = "deadline"
    /\ loop' = [loop EXCEPT !.pc = "pend", !.tick = 0,
                  !.wake = IF left \union diff = {} THEN 0 ELSE LeastOf(left \union diff)]
    /\ UNCHANGED <<now, q, task, calls, breaks>>

\* The ticks to wait: until the first slot or the time limit; 0 is for ever, for
\* OSSemPend() as here.
Deadline ==
    LET left == IF DispatchFor >= 0 THEN {loop.timeout - loop.tick} ELSE {}
        diff == IF q.queue = 0 THEN {}
                ELSE {LaterOf(q.ev[q.queue].target - loop.tick, 0)}
    IN
    /\ loop.pc = "deadline"
    /\ loop' = [loop EXCEPT !.pc = "pend", !.tick = 0,
                  !.wake = IF left \union diff = {} THEN 0 ELSE LeastOf(left \union diff)]
    /\ UNCHANGED <<now, q, task, calls, breaks>>

Pend ==
    /\ loop.pc = "pend"
    /\ IF q.sema > 0
       THEN /\ q' = [q EXCEPT !.sema = @ - 1]
            /\ loop' = [loop EXCEPT !.pc = "check", !.wake = 0]
       ELSE /\ loop' = [loop EXCEPT !.pc = "asleep",
                                    !.wake = IF @ = 0 THEN 0 ELSE now + @]
            /\ UNCHANGED q
    /\ UNCHANGED <<now, task, calls, breaks>>

TimeOut ==
    /\ loop.pc = "asleep" /\ loop.wake # 0 /\ loop.wake <= now
    /\ loop' = [loop EXCEPT !.pc = "check", !.wake = 0]
    /\ UNCHANGED <<now, q, task, calls, breaks>>

CheckBreak ==
    /\ loop.pc = "check"
    /\ IF q.break_requested
       THEN /\ q' = [q EXCEPT !.break_requested = FALSE]
            /\ loop' = [loop EXCEPT !.pc = "out", !.timeout = 0]
       ELSE /\ loop' = [loop EXCEPT !.pc = "dequeue", !.tick = now]
            /\ UNCHANGED q
    /\ UNCHANGED <<now, task, calls, breaks>>

Tick ==
    /\ now < MaxTick
    /\ now' = now + 1
    /\ UNCHANGED <<q, task, loop, calls, breaks>>

-----------------------------------------------------------------------------

Proceed(t) ==
    /\ Scheduled(t)
    /\ ReadTick(t) \/ Stamp(t) \/ Insert(t) \/ Signal(t) \/ Free(t)

Use(t) ==
    /\ Scheduled(t)
    /\ \/ \E request \in Requests[t] : Call(t, request)
       \/ \E n \in DOMAIN calls \intersect Kept : Cancel(t, n)
       \/ Break(t)

Run ==
  /\ Scheduled(Dispatcher)
  /\ \/ Dispatch \/ Dequeue \/ Flatten \/ Begin \/ Finish \/ FreeEvent
     \/ Again \/ BatchDone \/ Deadline \/ Pend \/ TimeOut \/ CheckBreak

Next ==
    \/ \E t \in Tasks : Proceed(t)
    \/ \E t \in Tasks : Use(t)
    \/ Run
    \/ Tick

Spec == Init /\ [][Next]_vars

\* A task that has begun an operation goes on, the dispatcher runs, time passes.
FairSpec ==
    /\ Spec
    /\ \A t \in Tasks : WF_vars(Proceed(t))
    /\ WF_vars(Run)
    /\ WF_vars(Tick)
=============================================================================
