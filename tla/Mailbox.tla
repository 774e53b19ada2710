------------------------------- MODULE Mailbox -------------------------------
(***************************************************************************)
(* What an event queue of the service components promises to the threads   *)
(* that push and pull: a bounded FIFO.  There are no locks and no waiting   *)
(* threads here; module EventQueue shows how the code keeps the promise.    *)
(***************************************************************************)
EXTENDS Naturals, Sequences

CONSTANTS
    Event,      \* what can be queued
    Puller,     \* the threads that pull
    MaxSize,    \* the queue holds fewer than MaxSize events; 0: no bound
    None        \* a pull that returned without an event

VARIABLES
    queue,      \* accepted and not yet handed out, oldest first
    pulled      \* what the last pull of each puller returned

vars == <<queue, pulled>>

Init ==
    /\ queue = <<>>
    /\ pulled = [p \in Puller |-> None]

Accept(e) ==
    /\ MaxSize = 0 \/ Len(queue) + 1 < MaxSize
    /\ queue' = Append(queue, e)
    /\ UNCHANGED pulled

\* The oldest accepted event goes to one puller, and leaves the queue.
HandOut(p) ==
    /\ queue # <<>>
    /\ pulled' = [pulled EXCEPT ![p] = Head(queue)]
    /\ queue' = Tail(queue)

\* A pull comes back empty-handed only when there is nothing to hand out.
HandOutNothing(p) ==
    /\ queue = <<>>
    /\ pulled' = [pulled EXCEPT ![p] = None]
    /\ UNCHANGED queue

Flush ==
    /\ queue' = <<>>
    /\ UNCHANGED pulled

Next ==
    \/ \E e \in Event : Accept(e)
    \/ \E p \in Puller : HandOut(p) \/ HandOutNothing(p)
    \/ Flush

Spec == Init /\ [][Next]_vars
=============================================================================
