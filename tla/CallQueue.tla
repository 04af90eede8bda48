------------------------------ MODULE CallQueue ------------------------------
(***************************************************************************)
(* What an event queue promises the tasks that use it: a call waits until  *)
(* its time, calls that fall due run in the order of their times and, for  *)
(* equal times, in the order they were posted, each once, and a call that  *)
(* is withdrawn before it begins never begins.  Memory, lists, identifiers *)
(* and the semaphore are out of sight.                                     *)
(***************************************************************************)
EXTENDS Naturals, Sequences

CONSTANTS
    Calls,      \* what names a call: positive numbers
    Times       \* what the clock may show

VARIABLES
    clock,
    waiting,    \* the calls that wait, with the time each is due
    batch,      \* the calls that fell due and run next
    running,    \* the call that runs, 0 when none does
    posted,     \* every call posted so far
    withdrawn   \* the calls somebody cancelled

vars == <<clock, waiting, batch, running, posted, withdrawn>>

Init ==
    /\ clock \in Times
    /\ waiting = <<>>
    /\ batch = <<>>
    /\ running = 0
    /\ posted = {}
    /\ withdrawn = {}

\* A call goes behind every call that is not due later.
InOrder(w, n, time) ==
    SelectSeq(w, LAMBDA x : x.due <= time)
        \o <<[call |-> n, due |-> time]>>
        \o SelectSeq(w, LAMBDA x : x.due > time)

Advance ==
    /\ clock' \in {time \in Times : time > clock}
    /\ UNCHANGED <<waiting, batch, running, posted, withdrawn>>

Post(n, time) ==
    /\ n \notin posted
    /\ posted' = posted \union {n}
    /\ waiting' = InOrder(waiting, n, time)
    /\ UNCHANGED <<clock, batch, running, withdrawn>>

Withdraw(n) ==
    /\ withdrawn' = withdrawn \union {n}
    /\ waiting' = SelectSeq(waiting, LAMBDA x : x.call # n)
    /\ batch' = SelectSeq(batch, LAMBDA x : x # n)
    /\ UNCHANGED <<clock, running, posted>>

Collect(time) ==
    /\ time <= clock
    /\ batch = <<>> /\ running = 0
    /\ LET expired == SelectSeq(waiting, LAMBDA x : x.due <= time)
       IN  batch' = [i \in DOMAIN expired |-> expired[i].call]
    /\ waiting' = SelectSeq(waiting, LAMBDA x : x.due > time)
    /\ UNCHANGED <<clock, running, posted, withdrawn>>

Begin ==
    /\ running = 0 /\ batch # <<>>
    /\ running' = Head(batch)
    /\ batch' = Tail(batch)
    /\ UNCHANGED <<clock, waiting, posted, withdrawn>>

End ==
    /\ running # 0
    /\ running' = 0
    /\ UNCHANGED <<clock, waiting, batch, posted, withdrawn>>

\* A periodic call waits for its next time, unless it was withdrawn meanwhile.
Repeat(n, time) ==
    /\ running = n /\ n # 0
    /\ n \notin withdrawn
    /\ running' = 0
    /\ waiting' = InOrder(waiting, n, time)
    /\ UNCHANGED <<clock, batch, posted, withdrawn>>

Next ==
    \/ Advance
    \/ Begin
    \/ End
    \/ \E n \in Calls, time \in Times : Post(n, time) \/ Repeat(n, time)
    \/ \E n \in Calls : Withdraw(n)
    \/ \E time \in Times : Collect(time)

Spec == Init /\ [][Next]_vars
=============================================================================
