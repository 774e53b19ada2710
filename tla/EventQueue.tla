----------------------------- MODULE EventQueue -----------------------------
(***************************************************************************)
(* The thread-safe event queue of the service components: a std::queue     *)
(* under one mutex with one condition variable.  push, pull and reset hold *)
(* the mutex for their whole body, so each is one action; pull gives the   *)
(* mutex up while it waits, so it is three: the call, the wakeup and the   *)
(* part after the wait.                                                    *)
(***************************************************************************)
EXTENDS Naturals, Sequences, FiniteSets

CONSTANTS
    Event,      \* the values that can be queued
    Puller,     \* the threads that call pull
    MaxSize,    \* the constructor's maxQueueSize
    None        \* pull returned false

ASSUME QueueAssumption ==
    /\ MaxSize \in Nat
    /\ IsFiniteSet(Puller)
    /\ None \notin Event

VARIABLES
    queue,      \* m_queue, front first
    waiting,    \* pullers blocked in m_condVar.wait
    woken,      \* pullers that left the wait and have not got the mutex yet
    pulled      \* the last result of each puller's pull

vars == <<queue, waiting, woken, pulled>>

TypeOK ==
    /\ queue \in Seq(Event)
    /\ waiting \subseteq Puller
    /\ woken \subseteq Puller
    /\ waiting \cap woken = {}
    /\ pulled \in [Puller -> Event \cup {None}]

Init ==
    /\ queue = <<>>
    /\ waiting = {}
    /\ woken = {}
    /\ pulled = [p \in Puller |-> None]
-----------------------------------------------------------------------------
\* m_condVar.notify_one: one blocked puller, whichever, may go on; with
\* nobody blocked the notification is gone.
NotifyOne ==
    \/ /\ waiting = {}
       /\ UNCHANGED <<waiting, woken>>
    \/ \E p \in waiting :
          /\ waiting' = waiting \ {p}
          /\ woken' = woken \cup {p}

\* Faulty variant: the bound is compared with the size before the push.
HasRoomOffByOne == MaxSize # Len(queue)

HasRoom == MaxSize # Len(queue) + 1

\* Faulty variant: push notifies only when the queue was empty before.
PushNotifyingOnce(e) ==
    /\ HasRoom
    /\ queue' = Append(queue, e)
    /\ IF queue = <<>> THEN NotifyOne ELSE UNCHANGED <<waiting, woken>>
    /\ UNCHANGED pulled

\* Faulty variant: push does not notify.
PushUnnotified(e) ==
    /\ HasRoom
    /\ queue' = Append(queue, e)
    /\ UNCHANGED <<waiting, woken, pulled>>

\* push returns true; a push that finds no room returns false and changes
\* nothing.
Push(e) ==
    /\ HasRoom
    /\ queue' = Append(queue, e)
    /\ NotifyOne
    /\ UNCHANGED pulled

TakeFront(p) ==
    /\ queue # <<>>
    /\ pulled' = [pulled EXCEPT ![p] = Head(queue)]
    /\ queue' = Tail(queue)

\* pull finds an event and returns it at once.
Pull(p) ==
    /\ p \notin waiting \cup woken
    /\ TakeFront(p)
    /\ UNCHANGED <<waiting, woken>>

\* pull finds nothing and blocks.
PullWaits(p) ==
    /\ p \notin waiting \cup woken
    /\ queue = <<>>
    /\ waiting' = waiting \cup {p}
    /\ UNCHANGED <<queue, woken, pulled>>

\* The wait has no predicate: a spurious wakeup ends it too.
WakesSpuriously(p) ==
    /\ p \in waiting
    /\ waiting' = waiting \ {p}
    /\ woken' = woken \cup {p}
    /\ UNCHANGED <<queue, pulled>>

\* Faulty variant: the queue is not looked at after the wait.
PullResumesBlindly(p) ==
    /\ p \in woken
    /\ woken' = woken \ {p}
    /\ pulled' = [pulled EXCEPT ![p] = None]
    /\ UNCHANGED <<queue, waiting>>

\* The rest of pull, with the mutex held again: it looks once.
PullResumes(p) ==
    /\ p \in woken
    /\ woken' = woken \ {p}
    /\ \/ TakeFront(p)
       \/ /\ queue = <<>>
          /\ pulled' = [pulled EXCEPT ![p] = None]
          /\ UNCHANGED queue
    /\ UNCHANGED waiting

Reset ==
    /\ queue' = <<>>
    /\ NotifyOne
    /\ UNCHANGED pulled

PullerStep(p) ==
    \/ Pull(p)
    \/ PullWaits(p)
    \/ WakesSpuriously(p)
    \/ PullResumes(p)

Next ==
    \/ \E e \in Event : Push(e)
    \/ \E p \in Puller : PullerStep(p)
    \/ Reset

Spec == Init /\ [][Next]_vars

\* A woken thread gets the mutex sooner or later: nobody holds it for long.
\* Nothing obliges a thread to push, to reset or to pull once more.
FairSpec == Spec /\ \A p \in Puller : WF_vars(PullResumes(p))
-----------------------------------------------------------------------------
\* The queue never holds MaxSize events, whatever the order of the pushes.
\* EventQueue.hpp:76 compares for equality, so this rests on the size never
\* getting past the bound.
Bounded == MaxSize # 0 => Len(queue) < MaxSize

\* No event is stranded: while a puller is blocked, every queued event has a
\* puller of its own that was woken and is on its way, so no notify_one is
\* missing however pushes, pulls, resets and spurious wakeups interleave
\* (EventQueue.hpp:81, 91).
NoStrandedEvent == waiting # {} => Len(queue) <= Cardinality(woken)

\* The queue is a bounded FIFO: each event accepted is handed out once, in
\* order, to one puller, or flushed; pull fails only on an empty queue.
Box == INSTANCE Mailbox
IsMailbox == Box!Spec

\* An event that is queued while threads are blocked in pull reaches one:
\* pushes that wake and late pulls that steal cannot leave both for ever.
EventReachesWaiter ==
    (queue # <<>> /\ waiting # {}) ~> (queue = <<>> \/ waiting = {})
=============================================================================
