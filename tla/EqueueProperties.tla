-------------------------- MODULE EqueueProperties --------------------------
(***************************************************************************)
(* What should hold of the event queue of equeue.c.                        *)
(***************************************************************************)
EXTENDS Equeue

\* Where an event can be: on the list of slots, in the batch of the dispatcher,
\* among the free chunks, or in the hands of a task.
Waiting == RunOrder(q, q.queue)
Batch == IF loop.pc = "flatten" THEN RunOrder(q, loop.es) ELSE NextChain(q, loop.es)
Unused == RunOrder(q, q.chunks)
InHands(t) ==
    \/ task[t].pc \in {"tick", "stamp", "insert", "free"} /\ ~Repeats(t)
TaskEvents == {t \in Tasks : InHands(t)}
Called == IF loop.pc \in {"called", "free", "again"} THEN <<loop.e>> ELSE <<>>

Elements(list) == {list[i] : i \in DOMAIN list}

-----------------------------------------------------------------------------

PCs == {"idle", "tick", "stamp", "insert", "signal", "free"}
LoopPCs == {"out", "dequeue", "flatten", "next", "called", "free", "again",
            "deadline", "pend", "asleep", "check"}
Handles == (0 .. IdLimit) \X Links

\* Type invariant of the queue, its tasks and its dispatcher.
TypeOK ==
    /\ now \in 0 .. MaxTick
    /\ q \in [queue : Links, tick : Nat, generation : 0 .. GenerationLimit - 1,
              break_requested : BOOLEAN, chunks : Links, slab : 1 .. SlabSize + 1,
              sema : Nat,
              ev : [Events -> [size : 0 .. SlabSize, id : 0 .. IdLimit,
                               generation : 0 .. GenerationLimit - 1, next : Links,
                               sibling : Links, ref : Cells, target : Nat,
                               period : Int, cb : 0 .. MaxCalls]]]
    /\ task \in [Tasks -> [pc : PCs, e : Links, tick : Nat, n : 0 .. MaxCalls,
                           handle : Handles]]
    /\ loop \in [pc : LoopPCs, es : Links, e : Links, tick : Nat, timeout : Nat,
                 wake : Nat, running : 0 .. MaxCalls]
    /\ calls \in Seq([immediate : BOOLEAN, handle : Handles, posted : BOOLEAN,
                      cancelled : BOOLEAN, begun : Nat])

\* Every piece of memory cut from the slab is in exactly one place: it waits, is
\* about to run, is free, or is in the hands of one task.  An event that is freed
\* twice, or freed while it waits, is in two; one that nobody frees is in none.
OneOwner ==
    LET owned == Waiting \o Batch \o Unused \o Called
        held == {task[t].e : t \in TaskEvents}
    IN  /\ \A i, j \in DOMAIN owned : owned[i] = owned[j] => i = j
        /\ \A t, u \in TaskEvents : task[t].e = task[u].e => t = u
        /\ Elements(owned) \intersect held = {}
        /\ Elements(owned) \union held = {e \in Events : q.ev[e].size > 0}

\* The back pointer of every waiting event leads to the cell that points at it,
\* also the one a cancel() will use after posts, cancels and dispatches around it.
BackPointersLead ==
    \A e \in Elements(Waiting) : Load(q, q.ev[e].ref) = e

\* A call that was posted and not cancelled waits, runs next or has run, whatever
\* else is cancelled, freed and reused meanwhile.
NoCallLost ==
    \A n \in DOMAIN calls :
        calls[n].posted /\ ~calls[n].cancelled /\ calls[n].begun = 0
            => \E e \in Elements(Waiting \o Batch) : q.ev[e].cb = n

\* No wake-up is lost: while the dispatcher sleeps there is neither a call posted
\* with equeue_call() that waits nor a request to break, but for what a task is
\* about to announce with the semaphore.
NoLostWakeup ==
    loop.pc = "asleep" /\ (\A t \in Tasks : task[t].pc # "signal")
        => /\ ~q.break_requested
           /\ \A e \in Elements(Waiting) :
                 q.ev[e].cb # 0 => ~calls[q.ev[e].cb].immediate

\* A call that was posted is called, unless it is cancelled.
PostedCallsRun ==
    \A n \in 1 .. MaxCalls :
        (n \in DOMAIN calls /\ calls[n].posted)
            ~> (n \in DOMAIN calls /\ (calls[n].begun > 0 \/ calls[n].cancelled))

Asked == UNION {{r.delay, r.period} : r \in UNION {Requests[t] : t \in Tasks}}
LargestDelay == CHOOSE d \in Asked : \A x \in Asked : x <= d

\* The calls that events stand for, without those that were cancelled.
CallsOf(list) == SelectSeq([i \in DOMAIN list |-> q.ev[list[i]].cb], LAMBDA n : n # 0)
WaitingCalls ==
    LET live == SelectSeq(Waiting, LAMBDA e : q.ev[e].cb # 0)
    IN  [i \in DOMAIN live |-> [call |-> q.ev[live[i]].cb, due |-> q.ev[live[i]].target]]

Promise == INSTANCE CallQueue WITH
    Calls <- 1 .. MaxCalls,
    Times <- 0 .. MaxTick + LargestDelay,
    clock <- now,
    waiting <- WaitingCalls,
    batch <- CallsOf(Batch),
    running <- loop.running,
    posted <- {n \in DOMAIN calls : calls[n].posted},
    withdrawn <- {n \in DOMAIN calls : calls[n].cancelled}

\* The lists, identifiers and generations of equeue.c implement the queue of calls:
\* calls run once, in the order of their times and of their posting, not before
\* their time, and not after they were cancelled.
ImplementsCallQueue == Promise!Spec
=============================================================================
