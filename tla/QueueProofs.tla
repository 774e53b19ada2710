---------------------------- MODULE QueueProofs ----------------------------
(***************************************************************************)
(* The two queues a service component is fed from: its event queue, for    *)
(* any set of events, any finite set of pullers and any bound; and the     *)
(* queues of its subscribed sockets, between any publishers and with any   *)
(* number of sockets.  What is sent undisturbed under a topic that stays   *)
(* subscribed waits in the one socket of its publisher, behind what its    *)
(* thread has sent before.                                                 *)
(***************************************************************************)
EXTENDS EventQueue, Notifications, FiniteSetTheorems, TLAPS

-----------------------------------------------------------------------------
(* The event queue. *)

\* A notification moves at most one thread from the blocked to the woken
\* ones, and does so whenever a thread is blocked.
LEMMA NotifyOneMoves ==
    ASSUME TypeOK, NotifyOne
    PROVE  /\ waiting' \subseteq Puller
           /\ woken' \subseteq Puller
           /\ waiting' \cap woken' = {}
           /\ waiting # {} => Cardinality(woken') = Cardinality(woken) + 1
           /\ waiting = {} => waiting' = {} /\ woken' = woken
  <1>1. CASE waiting = {}
    BY <1>1 DEF NotifyOne, TypeOK
  <1>2. CASE waiting # {}
    <2>1. PICK p \in waiting : /\ waiting' = waiting \ {p}
                               /\ woken' = woken \cup {p}
      BY <1>2 DEF NotifyOne
    <2>2. p \notin woken /\ p \in Puller
      BY DEF TypeOK
    <2>3. IsFiniteSet(woken)
      BY QueueAssumption, FS_Subset DEF TypeOK
    <2>4. Cardinality(woken') = Cardinality(woken) + 1
      BY <2>1, <2>2, <2>3, FS_AddElement
    <2>5. QED
      BY <1>2, <2>1, <2>2, <2>4 DEF TypeOK
  <1>3. QED
    BY <1>1, <1>2

\* Taking the front keeps the types and shortens the queue by one.
LEMMA TakeFrontShortens ==
    ASSUME TypeOK, NEW p \in Puller, TakeFront(p)
    PROVE  /\ queue' \in Seq(Event)
           /\ pulled' \in [Puller -> Event \cup {None}]
           /\ Len(queue') = Len(queue) - 1
           /\ Len(queue) > 0
  BY DEF TypeOK, TakeFront

-----------------------------------------------------------------------------
\* Every variable keeps its type: in particular no thread is both blocked
\* and woken.
THEOREM TypeCorrect == Spec => []TypeOK
  <1>1. Init => TypeOK
    BY DEF Init, TypeOK
  <1>2. TypeOK /\ [Next]_vars => TypeOK'
    <2> SUFFICES ASSUME TypeOK, [Next]_vars PROVE TypeOK'
      OBVIOUS
    <2>1. ASSUME NEW e \in Event, Push(e) PROVE TypeOK'
      BY <2>1, NotifyOneMoves DEF Push, TypeOK
    <2>2. ASSUME NEW p \in Puller, Pull(p) PROVE TypeOK'
      BY <2>2, TakeFrontShortens DEF Pull, TypeOK
    <2>3. ASSUME NEW p \in Puller, PullWaits(p) PROVE TypeOK'
      BY <2>3 DEF PullWaits, TypeOK
    <2>4. ASSUME NEW p \in Puller, WakesSpuriously(p) PROVE TypeOK'
      BY <2>4 DEF WakesSpuriously, TypeOK
    <2>5. ASSUME NEW p \in Puller, PullResumes(p) PROVE TypeOK'
      BY <2>5, TakeFrontShortens DEF PullResumes, TypeOK
    <2>6. ASSUME Reset PROVE TypeOK'
      BY <2>6, NotifyOneMoves DEF Reset, TypeOK
    <2>7. CASE UNCHANGED vars
      BY <2>7 DEF vars, TypeOK
    <2>8. QED
      BY <2>1, <2>2, <2>3, <2>4, <2>5, <2>6, <2>7 DEF Next, PullerStep
  <1>3. QED
    BY <1>1, <1>2, PTL DEF Spec

\* The bound is never reached, although push compares for equality only.
THEOREM NeverOverfull == Spec => []Bounded
  <1>1. Init => Bounded
    BY QueueAssumption DEF Init, Bounded
  <1>2. TypeOK /\ Bounded /\ [Next]_vars => Bounded'
    <2> SUFFICES ASSUME TypeOK, Bounded, [Next]_vars, MaxSize # 0
                 PROVE  Len(queue') < MaxSize
      BY DEF Bounded
    <2>1. ASSUME NEW e \in Event, Push(e) PROVE Len(queue') < MaxSize
      BY <2>1, QueueAssumption DEF Push, HasRoom, TypeOK, Bounded
    <2>2. ASSUME NEW p \in Puller, TakeFront(p) PROVE Len(queue') < MaxSize
      BY <2>2, QueueAssumption, TakeFrontShortens DEF TypeOK, Bounded
    <2>3. CASE UNCHANGED queue
      BY <2>3 DEF Bounded
    <2>4. CASE queue' = <<>>
      BY <2>4, QueueAssumption
    <2>5. QED
      BY <2>1, <2>2, <2>3, <2>4
         DEF Next, PullerStep, Pull, PullWaits, WakesSpuriously, PullResumes, Reset, vars
  <1>3. QED
    BY <1>1, <1>2, TypeCorrect, PTL DEF Spec

\* As long as a puller is blocked, every queued event has been signalled to
\* a thread that is on its way to fetch it: no notification is lost.
THEOREM NothingStranded == Spec => []NoStrandedEvent
  <1>1. Init => NoStrandedEvent
    BY DEF Init, NoStrandedEvent
  <1>2. TypeOK /\ NoStrandedEvent /\ [Next]_vars => NoStrandedEvent'
    <2> SUFFICES ASSUME TypeOK, NoStrandedEvent, [Next]_vars, waiting' # {}
                 PROVE  Len(queue') <= Cardinality(woken')
      BY DEF NoStrandedEvent
    <2>1. IsFiniteSet(woken) /\ Cardinality(woken) \in Nat
      BY QueueAssumption, FS_Subset, FS_CardinalityType DEF TypeOK
    <2>2. Len(queue) \in Nat
      BY DEF TypeOK
    <2>3. ASSUME NEW e \in Event, Push(e)
          PROVE  Len(queue') <= Cardinality(woken')
      <3>1. waiting # {}
        BY <2>3, NotifyOneMoves DEF Push
      <3>2. Len(queue') = Len(queue) + 1
        BY <2>3 DEF Push, TypeOK
      <3>3. Cardinality(woken') = Cardinality(woken) + 1
        BY <2>3, <3>1, NotifyOneMoves DEF Push
      <3>4. QED
        BY <2>1, <2>2, <3>1, <3>2, <3>3 DEF NoStrandedEvent
    <2>4. ASSUME NEW p \in Puller, Pull(p)
          PROVE  Len(queue') <= Cardinality(woken')
      BY <2>1, <2>2, <2>4, TakeFrontShortens DEF Pull, NoStrandedEvent
    <2>5. ASSUME NEW p \in Puller, PullWaits(p)
          PROVE  Len(queue') <= Cardinality(woken')
      BY <2>1, <2>5 DEF PullWaits
    <2>6. ASSUME NEW p \in Puller, WakesSpuriously(p)
          PROVE  Len(queue') <= Cardinality(woken')
      <3>1. p \notin woken /\ waiting # {}
        BY <2>6 DEF WakesSpuriously, TypeOK
      <3>2. Cardinality(woken') = Cardinality(woken) + 1
        BY <2>1, <2>6, <3>1, FS_AddElement DEF WakesSpuriously
      <3>3. QED
        BY <2>1, <2>2, <2>6, <3>1, <3>2 DEF WakesSpuriously, NoStrandedEvent
    <2>7. ASSUME NEW p \in Puller, PullResumes(p)
          PROVE  Len(queue') <= Cardinality(woken')
      <3>1. Cardinality(woken') = Cardinality(woken) - 1
        BY <2>1, <2>7, FS_RemoveElement DEF PullResumes
      <3>2. Len(queue) <= Cardinality(woken)
        BY <2>7 DEF PullResumes, NoStrandedEvent
      <3>3. CASE TakeFront(p)
        BY <2>1, <2>2, <3>1, <3>2, <3>3, TakeFrontShortens
      <3>4. CASE queue = <<>> /\ UNCHANGED queue
        <4>1. woken' \subseteq Puller
          BY <2>7 DEF PullResumes, TypeOK
        <4>2. Cardinality(woken') \in Nat
          BY <4>1, QueueAssumption, FS_Subset, FS_CardinalityType
        <4>3. QED
          BY <3>4, <4>2
      <3>5. QED
        BY <2>7, <3>3, <3>4 DEF PullResumes
    <2>8. ASSUME Reset
          PROVE  Len(queue') <= Cardinality(woken')
      <3>1. IsFiniteSet(woken')
        BY <2>8, NotifyOneMoves, QueueAssumption, FS_Subset DEF Reset
      <3>2. QED
        BY <2>8, <3>1, FS_CardinalityType DEF Reset
    <2>9. CASE UNCHANGED vars
      BY <2>9 DEF vars, NoStrandedEvent
    <2>10. QED
      BY <2>3, <2>4, <2>5, <2>6, <2>7, <2>8, <2>9 DEF Next, PullerStep
  <1>3. QED
    BY <1>1, <1>2, TypeCorrect, PTL DEF Spec

\* The code's queue is a bounded FIFO that hands each event out once.
THEOREM ImplementsMailbox == Spec => IsMailbox
  <1>1. Init => Box!Init
    BY DEF Init, Box!Init
  <1>2. TypeOK /\ Bounded /\ [Next]_vars => [Box!Next]_(Box!vars)
    <2> SUFFICES ASSUME TypeOK, Bounded, [Next]_vars
                 PROVE  Box!Next \/ UNCHANGED Box!vars
      OBVIOUS
    <2>1. ASSUME NEW e \in Event, Push(e) PROVE Box!Accept(e)
      BY <2>1, QueueAssumption DEF Push, HasRoom, Box!Accept, TypeOK, Bounded
    <2>2. ASSUME NEW p \in Puller, TakeFront(p) PROVE Box!HandOut(p)
      BY <2>2 DEF TakeFront, Box!HandOut
    <2>3. ASSUME NEW p \in Puller, PullResumes(p)
          PROVE  Box!HandOut(p) \/ Box!HandOutNothing(p)
      BY <2>2, <2>3 DEF PullResumes, Box!HandOutNothing
    <2>4. ASSUME Reset PROVE Box!Flush
      BY <2>4 DEF Reset, Box!Flush
    <2>5. ASSUME NEW p \in Puller, PullWaits(p) \/ WakesSpuriously(p)
          PROVE  UNCHANGED Box!vars
      BY <2>5 DEF PullWaits, WakesSpuriously, Box!vars
    <2>6. CASE UNCHANGED vars
      BY <2>6 DEF vars, Box!vars
    <2>7. QED
      BY <2>1, <2>2, <2>3, <2>4, <2>5, <2>6 DEF Next, PullerStep, Pull, Box!Next
  <1>3. QED
    BY <1>1, <1>2, TypeCorrect, NeverOverfull, PTL DEF Spec, IsMailbox, Box!Spec

-----------------------------------------------------------------------------
(* Notifications: the inductive invariant. *)

Sending == [message : Notification \cup {Nothing}, alone : BOOLEAN, wanted : BOOLEAN]
Entry == [topic : Topic, message : Notification]
Socket == [address : Publisher \cup {""}, topics : SUBSET Topic, receives : Nat,
           queue : Seq(Entry)]

TypeInv ==
    /\ frames \in [Publisher -> Seq(Topic)]
    /\ DOMAIN sending = Publisher
    /\ \A p \in Publisher : sending[p] \in [Notifier[p] -> Sending]
    /\ sockets \in [Sockets -> Socket]
    /\ DOMAIN subscriptions \subseteq Publisher \X Topic
    /\ \A k \in DOMAIN subscriptions : subscriptions[k] \in Sockets
    /\ received \in Seq(Notification)
    /\ due \subseteq Notification
    /\ notified \in 0..MaxNotified
    /\ subscribed \in 0..MaxSubscribed
    /\ socketFailures \in 0..MaxSocketFailures

\* A connected socket has a receive pending.
Receiving == \A s \in Sockets : sockets[s].address # "" => sockets[s].receives > 0

\* SocketsFitSubscriptions, without the sets of subscriptions of a socket.
TopicsFit ==
    \A s \in Sockets : \A topic :
       topic \in sockets[s].topics <=>
          \E k \in DOMAIN subscriptions : subscriptions[k] = s /\ topic = k[2]
AddressFits ==
    \A k \in DOMAIN subscriptions : sockets[subscriptions[k]].address = k[1]
NoSocketLost ==
    \A s \in Sockets : sockets[s].address # "" =>
       (\E k \in DOMAIN subscriptions : subscriptions[k] = s) \/ socketFailures > 0
OneSocketEach ==
    \A s \in Sockets : sockets[s].address # "" =>
       \A r \in Sockets : sockets[r].address = sockets[s].address => r = s

FitInv == TopicsFit /\ AddressFits /\ NoSocketLost /\ OneSocketEach

\* A thread that is alone between its two calls has its topic, and nothing else, in the
\* socket of its publisher; without threads between their calls there is nothing.
FramesInv ==
    \A p \in Publisher :
        /\ (\A t \in Notifier[p] : ~Notifying(p, t)) => frames[p] = <<>>
        /\ \A t \in Notifier[p] :
              /\ Notifying(p, t) =>
                    /\ sending[p][t].message.from = p /\ sending[p][t].message.by = t
                    /\ sending[p][t].message.no <= notified
              /\ Notifying(p, t) /\ sending[p][t].alone =>
                    /\ frames[p] = <<sending[p][t].message.topic>>
                    /\ \A u \in Notifier[p] : Notifying(p, u) => u = t

\* What has to arrive is subscribed to, and waits where its subscription is.
QueuedInv ==
    /\ \A m \in due : <<m.from, m.topic>> \in DOMAIN subscriptions
    /\ \A s \in Sockets : \A i \in DOMAIN sockets[s].queue :
          LET entry == sockets[s].queue[i] IN
          entry.message \in due =>
             /\ entry.topic = entry.message.topic
             /\ subscriptions[<<entry.message.from, entry.message.topic>>] = s

\* What a thread sends next is newer than whatever it has sent.
Newer(k) ==
    /\ k.no <= notified
    /\ \A p \in Publisher : \A t \in Notifier[p] :
          Notifying(p, t) /\ k.from = p /\ k.by = t => k.no < sending[p][t].message.no

NumbersInv ==
    /\ \A i \in DOMAIN received : Newer(received[i])
    /\ \A s \in Sockets : \A i \in DOMAIN sockets[s].queue : Newer(sockets[s].queue[i].message)

\* The order of two notifications that have to arrive.
InOrder(k, m) ==
    {k, m} \subseteq due /\ k.from = m.from /\ k.by = m.by => k.no < m.no

OrderInv ==
    /\ \A i, j \in DOMAIN received : i < j => InOrder(received[i], received[j])
    /\ \A s \in Sockets : \A i, j \in DOMAIN sockets[s].queue :
          i < j => InOrder(sockets[s].queue[i].message, sockets[s].queue[j].message)
    /\ \A s \in Sockets : \A i \in DOMAIN received : \A j \in DOMAIN sockets[s].queue :
          InOrder(received[i], sockets[s].queue[j].message)

NotificationIInv ==
    /\ TypeInv /\ Receiving
    /\ FitInv /\ NothingLostUnlessOverlapping
    /\ FramesInv /\ QueuedInv /\ NumbersInv /\ OrderInv

-----------------------------------------------------------------------------
(* What the operators do. *)

\* The two forms of the agreement of sockets and subscriptions.
LEMMA FitForm == TypeInv => (SocketsFitSubscriptions <=> FitInv)
  <1> SUFFICES ASSUME TypeInv PROVE SocketsFitSubscriptions <=> FitInv
    OBVIOUS
  <1> DEFINE Mine(s) == {k \in DOMAIN subscriptions : subscriptions[k] = s}
  <1>1. \A s \in Sockets :
          sockets[s].topics = {k[2] : k \in Mine(s)} <=>
             \A topic : topic \in sockets[s].topics <=>
                         \E k \in DOMAIN subscriptions : subscriptions[k] = s /\ topic = k[2]
    <2> SUFFICES ASSUME NEW s \in Sockets, NEW topics
                 PROVE  topics = {k[2] : k \in Mine(s)} <=>
                           \A topic : topic \in topics <=>
                             \E k \in DOMAIN subscriptions : subscriptions[k] = s /\ topic = k[2]
      OBVIOUS
    <2>1. \A topic : topic \in {k[2] : k \in Mine(s)} <=>
                    \E k \in DOMAIN subscriptions : subscriptions[k] = s /\ topic = k[2]
      OBVIOUS
    <2> QED
      BY <2>1
  <1>2. \A s \in Sockets : Mine(s) # {} <=> \E k \in DOMAIN subscriptions : subscriptions[k] = s
    OBVIOUS
  <1>3. (\A s \in Sockets : \A k \in Mine(s) : sockets[s].address = k[1]) <=> AddressFits
    BY DEF TypeInv, AddressFits
  <1>4. SocketsFitSubscriptions <=>
          \A s \in Sockets :
             /\ sockets[s].topics = {k[2] : k \in Mine(s)}
             /\ \A k \in Mine(s) : sockets[s].address = k[1]
             /\ sockets[s].address # "" =>
                   /\ Mine(s) # {} \/ socketFailures > 0
                   /\ \A r \in Sockets \ {s} : sockets[r].address # sockets[s].address
    BY DEF SocketsFitSubscriptions
  <1> HIDE DEF Mine
  <1> QED
    BY <1>1, <1>2, <1>3, <1>4 DEF FitInv, TopicsFit, NoSocketLost, OneSocketEach

\* The search for a socket finds the one with the address, or a free one if there is none.
LEMMA SocketForFits ==
    ASSUME NEW a, NEW s \in SocketFor(a)
    PROVE  /\ s \in Sockets
           /\ sockets[s].address \in {a, ""}
           /\ \A r \in Sockets : sockets[r].address = a => sockets[s].address = a
  BY DEF SocketFor, FirstWith

\* The parts of a notification.
LEMMA NotificationParts ==
    ASSUME NEW k \in Notification
    PROVE  k.from \in Publisher /\ k.no \in Nat /\ k.no <= MaxNotified /\ k.topic \in Topic
  <1>1. k.no \in 1..MaxNotified
    BY DEF Notification
  <1>2. k.from \in Publisher /\ k.topic \in Topic
    BY DEF Notification
  <1>3. MaxNotified \in Nat
    BY NotificationAssumption
  <1>4. \A n \in 1..MaxNotified : n \in Nat /\ n <= MaxNotified
    BY <1>3
  <1> QED
    BY <1>1, <1>2, <1>4

\* A counter below its bound counts on.
LEMMA CountsOn ==
    \A n \in Nat : \A k \in 0..n : /\ k \in Nat /\ k + 1 > 0
                                   /\ k < n => k + 1 \in 0..n /\ k + 1 \in 1..n
  OBVIOUS

\* A failure is counted, or there is none.
LEMMA FailuresCount ==
    ASSUME TypeInv,
           \/ socketFailures' = socketFailures
           \/ socketFailures < MaxSocketFailures /\ socketFailures' = socketFailures + 1
    PROVE  /\ socketFailures' \in 0..MaxSocketFailures
           /\ socketFailures > 0 \/ socketFailures' = socketFailures + 1 => socketFailures' > 0
  <1>1. socketFailures \in 0..MaxSocketFailures /\ MaxSocketFailures \in Nat
    BY NotificationAssumption DEF TypeInv
  <1> QED
    BY <1>1, CountsOn

\* A queued notification has its topic and its message.
LEMMA EntriesTyped ==
    ASSUME TypeInv, NEW s \in Sockets, NEW i \in DOMAIN sockets[s].queue
    PROVE  /\ sockets[s].queue[i].topic \in Topic
           /\ sockets[s].queue[i].message \in Notification
           /\ sockets[s].queue[i].message \in Queued(s)
  <1>1. sockets[s].queue \in Seq(Entry)
    BY DEF TypeInv, Socket
  <1>2. sockets[s].queue[i] \in Entry
    BY <1>1
  <1>3. sockets[s].queue[i].message \in Queued(s)
    BY DEF Queued
  <1> QED
    BY <1>2, <1>3 DEF Entry

\* What a thread sends next is nowhere yet.
LEMMA SentIsNew ==
    ASSUME NotificationIInv, NEW p \in Publisher, NEW t \in Notifier[p], Notifying(p, t)
    PROVE  LET m == sending[p][t].message
           IN  /\ m \in Notification /\ m.from = p /\ m.by = t
               /\ \A i \in DOMAIN received : received[i] # m
               /\ \A s \in Sockets : \A i \in DOMAIN sockets[s].queue :
                     sockets[s].queue[i].message # m
               /\ m \notin due
  <1> DEFINE m == sending[p][t].message
  <1>1. m \in Notification /\ m.from = p /\ m.by = t
    BY DEF NotificationIInv, TypeInv, FramesInv, Sending, Notifying
  <1>2. \A k : Newer(k) => k # m
    <2> SUFFICES ASSUME Newer(m) PROVE FALSE
      OBVIOUS
    <2>1. m.no < m.no
      BY <1>1 DEF Newer
    <2>2. m.no \in Nat
      BY <1>1, NotificationParts
    <2> QED
      BY <2>1, <2>2
  <1>3. /\ \A i \in DOMAIN received : received[i] # m
        /\ \A s \in Sockets : \A i \in DOMAIN sockets[s].queue : sockets[s].queue[i].message # m
    BY <1>2 DEF NotificationIInv, NumbersInv
  <1>4. m \notin due
    <2> SUFFICES ASSUME m \in due PROVE FALSE
      OBVIOUS
    <2>1. m \in ToSet(received) \/ \E s \in Sockets : m \in Queued(s)
      BY DEF NotificationIInv, NothingLostUnlessOverlapping
    <2>2. m \notin ToSet(received)
      BY <1>3 DEF NotificationIInv, TypeInv, ToSet
    <2>3. \A s \in Sockets : m \notin Queued(s)
      BY <1>3 DEF Queued
    <2> QED
      BY <2>1, <2>2, <2>3
  <1> QED
    BY <1>1, <1>3, <1>4

\* The socket of a subscription is the only one with its publisher's address.
LEMMA OneSocketPerAddress ==
    ASSUME TypeInv, FitInv, NEW k \in DOMAIN subscriptions
    PROVE  /\ subscriptions[k] \in Sockets
           /\ k[1] \in Publisher /\ k[2] \in Topic /\ k = <<k[1], k[2]>>
           /\ sockets[subscriptions[k]].address = k[1]
           /\ k[2] \in sockets[subscriptions[k]].topics
           /\ \A r \in Sockets : sockets[r].address = k[1] => r = subscriptions[k]
  <1>1. /\ subscriptions[k] \in Sockets
        /\ k[1] \in Publisher /\ k[2] \in Topic /\ k = <<k[1], k[2]>>
    BY DEF TypeInv
  <1>2. /\ sockets[subscriptions[k]].address = k[1]
        /\ k[2] \in sockets[subscriptions[k]].topics
    BY <1>1 DEF FitInv, TopicsFit, AddressFits
  <1>3. sockets[subscriptions[k]].address # ""
    BY <1>1, <1>2, NotificationAssumption
  <1> QED
    BY <1>1, <1>2, <1>3 DEF FitInv, OneSocketEach

\* A socket has the topics of its subscriptions.
LEMMA TopicsSubscribed ==
    ASSUME NotificationIInv, NEW r \in Sockets, NEW x
    PROVE  x \in sockets[r].topics <=>
              \E k \in DOMAIN subscriptions : subscriptions[k] = r /\ x = k[2]
  BY DEF NotificationIInv, FitInv, TopicsFit

-----------------------------------------------------------------------------
(* The initial state. *)

LEMMA NotificationInitially == NotificationInit => NotificationIInv
  <1> SUFFICES ASSUME NotificationInit PROVE NotificationIInv
    OBVIOUS
  <1> USE DEF NotificationInit
  <1>n. <<>> \in Seq(Topic) /\ <<>> \in Seq(Notification) /\ <<>> \in Seq(Entry) /\ DOMAIN <<>> = {}
    OBVIOUS
  <1>f. /\ FreeSocket \in Socket /\ FreeSocket.address = "" /\ FreeSocket.topics = {}
        /\ DOMAIN FreeSocket.queue = {}
    <2>1. FreeSocket.queue = <<>>
      BY DEF FreeSocket
    <2>2. FreeSocket \in Socket
      BY <1>n DEF FreeSocket, Socket
    <2> QED
      BY <2>1, <2>2, <1>n DEF FreeSocket
  <1>s. \A s \in Sockets : sockets[s] = FreeSocket
    OBVIOUS
  <1>d. DOMAIN subscriptions = {} /\ DOMAIN received = {}
    BY <1>n
  <1>1. TypeInv
    <2>1. frames \in [Publisher -> Seq(Topic)]
      BY <1>n
    <2>2. \A p \in Publisher : sending[p] \in [Notifier[p] -> Sending]
      BY DEF Sending
    <2>3. sockets \in [Sockets -> Socket]
      BY <1>f
    <2>5. DOMAIN sending = Publisher
      OBVIOUS
    <2>6. received \in Seq(Notification) /\ due = {}
      BY <1>n
    <2>4. \A n \in Nat : 0 \in 0..n
      OBVIOUS
    <2>7. /\ notified \in 0..MaxNotified
          /\ subscribed \in 0..MaxSubscribed /\ socketFailures \in 0..MaxSocketFailures
      BY <2>4, NotificationAssumption
    <2>8. /\ DOMAIN subscriptions \subseteq Publisher \X Topic
          /\ \A k \in DOMAIN subscriptions : subscriptions[k] \in Sockets
      BY <1>d
    <2> HIDE DEF NotificationInit
    <2> QED
      BY <2>1, <2>2, <2>3, <2>5, <2>6, <2>7, <2>8 DEF TypeInv
  <1>2. Receiving /\ FitInv
    BY <1>f, <1>s, <1>d DEF Receiving, FitInv, TopicsFit, AddressFits, NoSocketLost, OneSocketEach
  <1>3. NothingLostUnlessOverlapping
    BY DEF NothingLostUnlessOverlapping
  <1>4. FramesInv
    BY DEF FramesInv, Notifying
  <1>5. QueuedInv /\ NumbersInv /\ OrderInv
    BY <1>f, <1>s, <1>d DEF QueuedInv, NumbersInv, OrderInv
  <1> QED
    BY <1>1, <1>2, <1>3, <1>4, <1>5 DEF NotificationIInv

-----------------------------------------------------------------------------
(* The publishers. *)

\* The topic goes into the socket of the publisher; its message gets the next number.
LEMMA SendsTopicKeeps ==
    ASSUME NotificationIInv, NEW p \in Publisher, NEW t \in Notifier[p], SendsTopic(p, t)
    PROVE  NotificationIInv'
  <1> USE DEF NotificationIInv
  <1>1. PICK topic \in Topic :
          /\ frames' = [frames EXCEPT ![p] = Append(@, topic)]
          /\ sending' = [sending EXCEPT ![p] = [u \in Notifier[p] |->
                IF u = t
                THEN [message |-> [from |-> p, by |-> t, no |-> notified + 1,
                                   topic |-> topic],
                      alone |-> \A v \in Notifier[p] : ~Notifying(p, v),
                      wanted |-> <<p, topic>> \in DOMAIN subscriptions]
                ELSE [@[u] EXCEPT !.alone = FALSE]]]
    BY DEF SendsTopic
  <1> DEFINE m == [from |-> p, by |-> t, no |-> notified + 1, topic |-> topic]
  <1>u. /\ UNCHANGED <<sockets, subscriptions, received, due, subscribed, socketFailures>>
        /\ notified' = notified + 1 /\ notified < MaxNotified
    BY DEF SendsTopic
  <1>n. notified \in Nat /\ notified + 1 \in 1..MaxNotified /\ notified' \in 0..MaxNotified
    <2> QED
      BY CountsOn, <1>u, NotificationAssumption DEF TypeInv
  <1>m. m \in Notification /\ m # Nothing /\ m.from = p /\ m.by = t /\ m.no = notified + 1
    <2>1. t \in UNION {Notifier[q] : q \in Publisher}
      OBVIOUS
    <2>2. m \in Notification
      BY <1>n, <2>1 DEF Notification
    <2>3. m.no # Nothing.no
      BY <1>n DEF Nothing
    <2> QED
      BY <2>2, <2>3
  <1>s. /\ DOMAIN sending' = Publisher
        /\ \A q \in Publisher \ {p} : sending'[q] = sending[q] /\ frames'[q] = frames[q]
        /\ frames'[p] = Append(frames[p], topic)
        /\ DOMAIN sending'[p] = Notifier[p]
        /\ sending'[p][t].message = m
        /\ sending'[p][t].alone = \A v \in Notifier[p] : ~Notifying(p, v)
        /\ \A u \in Notifier[p] \ {t} : /\ sending'[p][u].message = sending[p][u].message
                                        /\ sending'[p][u].alone = FALSE
                                        /\ sending'[p][u] \in Sending
    <2>1. /\ DOMAIN sending = Publisher /\ DOMAIN frames = Publisher
          /\ \A u \in Notifier[p] : sending[p][u] \in Sending
      BY DEF TypeInv
    <2>2. /\ DOMAIN sending' = Publisher
          /\ \A q \in Publisher \ {p} : sending'[q] = sending[q] /\ frames'[q] = frames[q]
          /\ frames'[p] = Append(frames[p], topic)
      BY <1>1, <2>1
    <2>3. sending'[p] = [u \in Notifier[p] |->
                IF u = t
                THEN [message |-> m, alone |-> \A v \in Notifier[p] : ~Notifying(p, v),
                      wanted |-> <<p, topic>> \in DOMAIN subscriptions]
                ELSE [sending[p][u] EXCEPT !.alone = FALSE]]
      BY <1>1, <2>1
    <2>4. /\ DOMAIN sending'[p] = Notifier[p]
          /\ sending'[p][t] = [message |-> m, alone |-> \A v \in Notifier[p] : ~Notifying(p, v),
                               wanted |-> <<p, topic>> \in DOMAIN subscriptions]
      BY <2>3
    <2>5. \A u \in Notifier[p] \ {t} : sending'[p][u] = [sending[p][u] EXCEPT !.alone = FALSE]
      BY <2>3
    <2>6. \A u \in Notifier[p] \ {t} : /\ sending'[p][u].message = sending[p][u].message
                                        /\ sending'[p][u].alone = FALSE
                                        /\ sending'[p][u] \in Sending
      BY <2>1, <2>5 DEF Sending
    <2> QED
      BY <2>2, <2>4, <2>6
  <1>p. sending'[p] \in [Notifier[p] -> Sending]
    <2> SUFFICES ASSUME NEW u \in Notifier[p] PROVE sending'[p][u] \in Sending
      BY <1>1, <1>s DEF TypeInv
    <2>1. CASE u = t
      BY <1>1, <1>m, <2>1 DEF TypeInv, Sending
    <2>2. CASE u # t
      BY <1>s, <2>2
    <2> QED
      BY <2>1, <2>2
  <1>o. /\ Notifying(p, t)'
        /\ ~Notifying(p, t)
        /\ \A q \in Publisher : \A u \in Notifier[q] :
              q # p \/ u # t => (Notifying(q, u)' <=> Notifying(q, u))
    BY <1>m, <1>s DEF Notifying, SendsTopic
  <1>2. TypeInv'
    <2>1. frames' \in [Publisher -> Seq(Topic)]
      BY <1>1 DEF TypeInv
    <2>2. \A q \in Publisher : sending'[q] \in [Notifier[q] -> Sending]
      <3> SUFFICES ASSUME NEW q \in Publisher PROVE sending'[q] \in [Notifier[q] -> Sending]
        OBVIOUS
      <3>1. CASE q = p
        BY <1>p, <3>1
      <3>2. CASE q # p
        BY <1>s, <3>2 DEF TypeInv
      <3> QED
        BY <3>1, <3>2
    <2> QED
      BY <2>1, <2>2, <1>u, <1>s, <1>n DEF TypeInv
  <1>3. (Receiving /\ FitInv /\ NothingLostUnlessOverlapping)'
    <2>1. Receiving'
      BY <1>u DEF Receiving
    <2>2. FitInv'
      <3>1. TopicsFit' /\ AddressFits'
        BY <1>u DEF FitInv, TopicsFit, AddressFits
      <3>2. NoSocketLost' /\ OneSocketEach'
        BY <1>u DEF FitInv, NoSocketLost, OneSocketEach
      <3> QED
        BY <3>1, <3>2 DEF FitInv
    <2>3. NothingLostUnlessOverlapping'
      BY <1>u DEF NothingLostUnlessOverlapping, Queued
    <2> QED
      BY <2>1, <2>2, <2>3
  <1>4. QueuedInv' /\ OrderInv'
    BY <1>u, SMTT(30) DEF QueuedInv, OrderInv, InOrder
  <1>5. FramesInv'
    <2> SUFFICES ASSUME NEW q \in Publisher
                 PROVE  /\ (\A u \in Notifier[q] : ~Notifying(q, u)') => frames'[q] = <<>>
                        /\ \A u \in Notifier[q] :
                              /\ Notifying(q, u)' =>
                                    /\ sending'[q][u].message.from = q
                                    /\ sending'[q][u].message.by = u
                                    /\ sending'[q][u].message.no <= notified'
                              /\ Notifying(q, u)' /\ sending'[q][u].alone =>
                                    /\ frames'[q] = <<sending'[q][u].message.topic>>
                                    /\ \A v \in Notifier[q] : Notifying(q, v)' => v = u
      BY DEF FramesInv
    <2>1. \A u \in Notifier[q] : Notifying(q, u) =>
             /\ sending[q][u].message.from = q
             /\ sending[q][u].message.by = u
             /\ sending[q][u].message.no <= notified'
      <3> SUFFICES ASSUME NEW u \in Notifier[q], Notifying(q, u)
                   PROVE  /\ sending[q][u].message.from = q
                          /\ sending[q][u].message.by = u
                          /\ sending[q][u].message.no <= notified'
        OBVIOUS
      <3>1. sending[q][u].message.no \in Nat
        BY SentIsNew, NotificationParts
      <3>2. /\ sending[q][u].message.from = q
            /\ sending[q][u].message.by = u
            /\ sending[q][u].message.no <= notified
        BY DEF FramesInv
      <3> QED
        BY <3>1, <3>2, <1>n, <1>u
    <2>2. CASE q # p
      BY <1>s, <1>o, <2>1, <2>2 DEF FramesInv
    <2>3. CASE q = p
      <3>1. (\A v \in Notifier[p] : ~Notifying(p, v)) => frames'[p] = <<topic>>
        <4>1. (\A v \in Notifier[p] : ~Notifying(p, v)) => frames[p] = <<>>
          BY DEF FramesInv
        <4>2. frames'[p] = Append(frames[p], topic)
          BY <1>s
        <4>3. Append(<<>>, topic) = <<topic>>
          OBVIOUS
        <4> QED
          BY <4>1, <4>2, <4>3
      <3>2. m.topic = topic /\ m.no <= notified'
        BY <1>u, <1>n
      <3>3. /\ sending'[p][t].message.from = p
            /\ sending'[p][t].message.by = t
            /\ sending'[p][t].message.no <= notified'
            /\ sending'[p][t].message.topic = topic
        BY <1>s, <1>m, <3>2
      <3>4. sending'[p][t].alone => /\ frames'[p] = <<sending'[p][t].message.topic>>
                                    /\ \A v \in Notifier[p] : Notifying(p, v)' => v = t
        BY <1>s, <1>o, <3>1, <3>3
      <3>5. \A u \in Notifier[p] \ {t} :
               /\ sending'[p][u].alone = FALSE
               /\ Notifying(p, u)' => /\ sending'[p][u].message.from = p
                                      /\ sending'[p][u].message.by = u
                                      /\ sending'[p][u].message.no <= notified'
        BY <1>s, <1>o, <2>1, <2>3
      <3> QED
        BY <1>o, <2>3, <3>3, <3>4, <3>5
    <2> QED
      BY <2>2, <2>3
  <1>6. NumbersInv'
    <2> DEFINE NewerNow(k) ==
                /\ k.no <= notified'
                /\ \A q \in Publisher : \A u \in Notifier[q] :
                      Notifying(q, u)' /\ k.from = q /\ k.by = u => k.no < sending'[q][u].message.no
    <2>1. ASSUME NEW k \in Notification, Newer(k) PROVE NewerNow(k)
      <3>1. k.no \in Nat /\ k.no <= notified
        BY <2>1, NotificationParts DEF Newer
      <3>2. k.no <= notified' /\ k.no < m.no
        BY <3>1, <1>n, <1>u
      <3> QED
        BY <2>1, <3>2, <1>s, <1>o DEF Newer
    <2>2. \A i \in DOMAIN received : received[i] \in Notification
      BY DEF TypeInv
    <2>3. \A i \in DOMAIN received : NewerNow(received[i])
      BY <2>1, <2>2 DEF NumbersInv
    <2>4. \A s \in Sockets : \A i \in DOMAIN sockets[s].queue : NewerNow(sockets[s].queue[i].message)
      BY <2>1, EntriesTyped DEF NumbersInv
    <2> QED
      BY <2>3, <2>4, <1>u DEF NumbersInv, Newer
  <1> QED
    BY <1>2, <1>3, <1>4, <1>5, <1>6

\* The queue of a socket with one more notification at its end.
LEMMA QueueGrows ==
    ASSUME NEW q \in Seq(Entry), NEW entry \in Entry
    PROVE  /\ Append(q, entry) \in Seq(Entry)
           /\ DOMAIN Append(q, entry) = DOMAIN q \cup {Len(q) + 1}
           /\ Append(q, entry)[Len(q) + 1] = entry
           /\ \A i \in DOMAIN q : /\ Append(q, entry)[i] = q[i]
                                  /\ i \in Nat /\ i < Len(q) + 1
           /\ Len(q) + 1 \notin DOMAIN q
  OBVIOUS

\* The message goes to the socket that is subscribed to the first frame, if there is one.
LEMMA SendsMessageKeeps ==
    ASSUME NotificationIInv, NEW p \in Publisher, NEW t \in Notifier[p], SendsMessage(p, t)
    PROVE  NotificationIInv'
  <1> USE DEF NotificationIInv
  <1> DEFINE m == sending[p][t].message
             Idle == [message |-> Nothing, alone |-> FALSE, wanted |-> FALSE]
             Matches(s) == /\ frames[p] # <<>>
                           /\ sockets[s].address = p
                           /\ Head(frames[p]) \in sockets[s].topics
             entry == [topic |-> Head(frames[p]), message |-> m]
             Counts == /\ sending[p][t].alone /\ sending[p][t].wanted
                       /\ <<p, m.topic>> \in DOMAIN subscriptions
  <1>u. /\ UNCHANGED <<notified, subscriptions, received, subscribed, socketFailures>>
        /\ Notifying(p, t)
    BY DEF SendsMessage
  <1>a. sockets' = [s \in Sockets |-> IF Matches(s)
                                      THEN [sockets[s] EXCEPT !.queue = Append(@, entry)]
                                      ELSE sockets[s]]
    BY DEF SendsMessage
  <1>d. due' = IF Counts THEN due \cup {m} ELSE due
    BY DEF SendsMessage
  <1>f. frames' = [frames EXCEPT ![p] = <<>>] /\ sending' = [sending EXCEPT ![p][t] = Idle]
    BY DEF SendsMessage
  <1>m. /\ m \in Notification /\ m.from = p /\ m.by = t
        /\ \A i \in DOMAIN received : received[i] # m
        /\ \A s \in Sockets : \A i \in DOMAIN sockets[s].queue : sockets[s].queue[i].message # m
        /\ m \notin due
    BY <1>u, SentIsNew
  <1>e. /\ \A s \in Sockets : Matches(s) => entry \in Entry
        /\ entry.message = m /\ entry.topic = Head(frames[p])
    <2>1. frames[p] \in Seq(Topic)
      BY DEF TypeInv
    <2>2. frames[p] # <<>> => Head(frames[p]) \in Topic
      BY <2>1
    <2> QED
      BY <2>2, <1>m DEF Entry
  <1>s. /\ DOMAIN sending' = Publisher
        /\ \A q \in Publisher \ {p} : sending'[q] = sending[q] /\ frames'[q] = frames[q]
        /\ frames'[p] = <<>>
        /\ DOMAIN sending'[p] = Notifier[p]
        /\ sending'[p][t] = Idle
        /\ \A u \in Notifier[p] \ {t} : sending'[p][u] = sending[p][u]
    <2>1. /\ DOMAIN sending = Publisher /\ DOMAIN frames = Publisher
          /\ DOMAIN sending[p] = Notifier[p]
      BY DEF TypeInv
    <2> QED
      BY <1>f, <2>1
  <1>o. /\ ~Notifying(p, t)'
        /\ \A q \in Publisher : \A u \in Notifier[q] :
              q # p \/ u # t => (Notifying(q, u)' <=> Notifying(q, u))
    BY <1>s DEF Notifying
  \* The queues have grown at their ends.
  <1>q. \A s \in Sockets :
           /\ sockets'[s].address = sockets[s].address /\ sockets'[s].topics = sockets[s].topics
           /\ sockets'[s].receives = sockets[s].receives
           /\ sockets'[s] \in Socket
           /\ ~Matches(s) => sockets'[s].queue = sockets[s].queue
           /\ Matches(s) => sockets'[s].queue = Append(sockets[s].queue, entry)
    <2> SUFFICES ASSUME NEW s \in Sockets
                 PROVE  /\ sockets'[s].address = sockets[s].address
                        /\ sockets'[s].topics = sockets[s].topics
                        /\ sockets'[s].receives = sockets[s].receives
                        /\ sockets'[s] \in Socket
                        /\ ~Matches(s) => sockets'[s].queue = sockets[s].queue
                        /\ Matches(s) => sockets'[s].queue = Append(sockets[s].queue, entry)
      OBVIOUS
    <2> HIDE DEF entry
    <2>1. sockets[s] \in Socket
      BY DEF TypeInv
    <2>2. CASE Matches(s)
      <3>1. sockets'[s] = [sockets[s] EXCEPT !.queue = Append(sockets[s].queue, entry)]
        BY <1>a, <2>2
      <3>2. Append(sockets[s].queue, entry) \in Seq(Entry)
        <4>1. entry \in Entry /\ sockets[s].queue \in Seq(Entry)
          BY <1>e, <2>1, <2>2 DEF Socket
        <4> QED
          BY <4>1, QueueGrows
      <3> HIDE DEF Matches
      <3> QED
        BY <2>1, <2>2, <3>1, <3>2 DEF Socket
    <2>3. CASE ~Matches(s)
      BY <1>a, <2>1, <2>3
    <2> QED
      BY <2>2, <2>3
  <1>g. \A s \in Sockets : \A i \in DOMAIN sockets'[s].queue :
           \/ i \in DOMAIN sockets[s].queue /\ sockets'[s].queue[i] = sockets[s].queue[i]
           \/ /\ Matches(s) /\ sockets'[s].queue[i] = entry
              /\ \A j \in DOMAIN sockets[s].queue : j \in Nat /\ j < i
    <2> SUFFICES ASSUME NEW s \in Sockets, NEW i \in DOMAIN sockets'[s].queue
                 PROVE  \/ /\ i \in DOMAIN sockets[s].queue
                           /\ sockets'[s].queue[i] = sockets[s].queue[i]
                        \/ /\ Matches(s) /\ sockets'[s].queue[i] = entry
                           /\ \A j \in DOMAIN sockets[s].queue : j \in Nat /\ j < i
      OBVIOUS
    <2> HIDE DEF entry
    <2>1. sockets[s].queue \in Seq(Entry)
      BY DEF TypeInv, Socket
    <2>2. CASE Matches(s)
      <3>1. entry \in Entry /\ sockets'[s].queue = Append(sockets[s].queue, entry)
        BY <1>e, <1>q, <2>2
      <3> HIDE DEF Matches
      <3> QED
        BY <2>1, <2>2, <3>1, QueueGrows
    <2>3. CASE ~Matches(s)
      BY <1>q, <2>3
    <2> QED
      BY <2>2, <2>3
  <1>h. \A s \in Sockets : \A i \in DOMAIN sockets[s].queue :
           i \in DOMAIN sockets'[s].queue /\ sockets'[s].queue[i] = sockets[s].queue[i]
    <2> SUFFICES ASSUME NEW s \in Sockets, NEW i \in DOMAIN sockets[s].queue
                 PROVE  i \in DOMAIN sockets'[s].queue /\ sockets'[s].queue[i] = sockets[s].queue[i]
      OBVIOUS
    <2> HIDE DEF entry
    <2>1. sockets[s].queue \in Seq(Entry)
      BY DEF TypeInv, Socket
    <2>2. CASE Matches(s)
      <3>1. entry \in Entry /\ sockets'[s].queue = Append(sockets[s].queue, entry)
        BY <1>e, <1>q, <2>2
      <3> QED
        BY <2>1, <3>1, QueueGrows
    <2>3. CASE ~Matches(s)
      BY <1>q, <2>3
    <2> QED
      BY <2>2, <2>3
  \* A message that has to arrive goes to the socket of its subscription.
  <1>c. Counts => /\ entry.topic = m.topic
                  /\ subscriptions[<<p, m.topic>>] \in Sockets
                  /\ Matches(subscriptions[<<p, m.topic>>])
                  /\ \A s \in Sockets : Matches(s) => s = subscriptions[<<p, m.topic>>]
    <2> SUFFICES ASSUME Counts
                 PROVE  /\ Head(frames[p]) = m.topic
                        /\ subscriptions[<<p, m.topic>>] \in Sockets
                        /\ Matches(subscriptions[<<p, m.topic>>])
                        /\ \A s \in Sockets : sockets[s].address = p => s = subscriptions[<<p, m.topic>>]
      BY <1>e
    <2>1. frames[p] = <<m.topic>>
      BY <1>u DEF FramesInv
    <2>2. frames[p] # <<>> /\ Head(frames[p]) = m.topic
      BY <2>1
    <2>3. /\ subscriptions[<<p, m.topic>>] \in Sockets
          /\ sockets[subscriptions[<<p, m.topic>>]].address = p
          /\ m.topic \in sockets[subscriptions[<<p, m.topic>>]].topics
          /\ \A s \in Sockets : sockets[s].address = p => s = subscriptions[<<p, m.topic>>]
      <3> DEFINE k == <<p, m.topic>>
      <3>1. k \in DOMAIN subscriptions /\ k[1] = p /\ k[2] = m.topic
        OBVIOUS
      <3> HIDE DEF k
      <3>2. /\ subscriptions[k] \in Sockets
            /\ sockets[subscriptions[k]].address = k[1]
            /\ k[2] \in sockets[subscriptions[k]].topics
            /\ \A s \in Sockets : sockets[s].address = k[1] => s = subscriptions[k]
        BY <3>1, OneSocketPerAddress
      <3> QED
        BY <3>1, <3>2 DEF k
    <2> QED
      BY <2>2, <2>3
  <1> HIDE DEF entry, Matches, Counts, Idle
  <1>2. TypeInv'
    <2>1. frames' \in [Publisher -> Seq(Topic)]
      BY <1>f DEF TypeInv
    <2>2. \A q \in Publisher : sending'[q] \in [Notifier[q] -> Sending]
      <3> SUFFICES ASSUME NEW q \in Publisher PROVE sending'[q] \in [Notifier[q] -> Sending]
        OBVIOUS
      <3>1. sending[q] \in [Notifier[q] -> Sending] /\ DOMAIN sending = Publisher
        BY DEF TypeInv
      <3>2. Idle \in Sending
        BY DEF Idle, Sending
      <3>3. CASE q = p
        BY <1>f, <3>1, <3>2, <3>3
      <3>4. CASE q # p
        BY <1>s, <3>1, <3>4
      <3> QED
        BY <3>3, <3>4
    <2>3. sockets' \in [Sockets -> Socket]
      BY <1>a, <1>q
    <2>4. due' \subseteq Notification
      BY <1>d, <1>m DEF TypeInv
    <2> QED
      BY <2>1, <2>2, <2>3, <2>4, <1>u, <1>s DEF TypeInv
  <1>3. Receiving'
    BY <1>q DEF Receiving
  <1>4. FitInv'
    <2>1. /\ \A s \in Sockets : /\ sockets'[s].address = sockets[s].address
                              /\ sockets'[s].topics = sockets[s].topics
          /\ subscriptions' = subscriptions /\ socketFailures' = socketFailures
      BY <1>q, <1>u
    <2>2. TopicsFit'
      BY <2>1 DEF FitInv, TopicsFit
    <2>3. AddressFits'
      BY <2>1 DEF FitInv, AddressFits, TypeInv
    <2>4. NoSocketLost'
      BY <2>1 DEF FitInv, NoSocketLost
    <2>5. OneSocketEach'
      BY <2>1 DEF FitInv, OneSocketEach
    <2> QED
      BY <2>2, <2>3, <2>4, <2>5 DEF FitInv
  <1>5. NothingLostUnlessOverlapping'
    <2> SUFFICES ASSUME NEW k \in due'
                 PROVE  k \in ToSet(received) \/ \E s \in Sockets : k \in Queued(s)'
      BY <1>u DEF NothingLostUnlessOverlapping
    <2>1. \A s \in Sockets : Queued(s) \subseteq Queued(s)'
      BY <1>h DEF Queued
    <2>2. CASE k \in due
      BY <2>1, <2>2 DEF NothingLostUnlessOverlapping
    <2>3. CASE k \notin due
      <3>1. k = m /\ Counts
        BY <1>d, <2>3
      <3>2. PICK s \in Sockets : Matches(s)
        BY <1>c, <3>1
      <3>3. sockets[s].queue \in Seq(Entry) /\ entry \in Entry
        BY <1>e, <3>2 DEF TypeInv, Socket
      <3>4. sockets'[s].queue = Append(sockets[s].queue, entry)
        BY <1>q, <3>2
      <3>5. /\ Len(sockets[s].queue) + 1 \in DOMAIN sockets'[s].queue
            /\ sockets'[s].queue[Len(sockets[s].queue) + 1] = entry
        BY <3>3, <3>4, QueueGrows
      <3>6. k \in Queued(s)'
        BY <1>e, <3>1, <3>5 DEF Queued
      <3> QED
        BY <3>6
    <2> QED
      BY <2>2, <2>3
  <1>6. FramesInv'
    <2> SUFFICES ASSUME NEW q \in Publisher
                 PROVE  /\ (\A u \in Notifier[q] : ~Notifying(q, u)') => frames'[q] = <<>>
                        /\ \A u \in Notifier[q] :
                              /\ Notifying(q, u)' =>
                                    /\ sending'[q][u].message.from = q
                                    /\ sending'[q][u].message.by = u
                                    /\ sending'[q][u].message.no <= notified
                              /\ Notifying(q, u)' /\ sending'[q][u].alone =>
                                    /\ frames'[q] = <<sending'[q][u].message.topic>>
                                    /\ \A v \in Notifier[q] : Notifying(q, v)' => v = u
      BY <1>u DEF FramesInv
    <2>1. CASE q # p
      BY <1>s, <1>o, <2>1 DEF FramesInv
    <2>2. CASE q = p
      <3>1. \A u \in Notifier[p] : Notifying(p, u)' => u # t /\ Notifying(p, u)
        BY <1>o
      <3>2. \A u \in Notifier[p] : Notifying(p, u) /\ sending[p][u].alone => u = t
        BY <1>u DEF FramesInv
      <3>3. \A u \in Notifier[p] : Notifying(p, u) =>
               /\ sending[p][u].message.from = p
               /\ sending[p][u].message.by = u
               /\ sending[p][u].message.no <= notified
        BY DEF FramesInv
      <3> QED
        BY <1>s, <2>2, <3>1, <3>2, <3>3
    <2> QED
      BY <2>1, <2>2
  <1>7. QueuedInv'
    <2>1. \A k \in due' : <<k.from, k.topic>> \in DOMAIN subscriptions
      BY <1>d, <1>m DEF QueuedInv, Counts
    <2>2. ASSUME NEW s \in Sockets, NEW i \in DOMAIN sockets'[s].queue,
                 sockets'[s].queue[i].message \in due'
          PROVE  LET e == sockets'[s].queue[i]
                 IN  /\ e.topic = e.message.topic
                     /\ subscriptions[<<e.message.from, e.message.topic>>] = s
      <3>1. CASE i \in DOMAIN sockets[s].queue /\ sockets'[s].queue[i] = sockets[s].queue[i]
        <4>1. sockets[s].queue[i].message \in due
          BY <1>d, <1>m, <2>2, <3>1
        <4> QED
          BY <3>1, <4>1 DEF QueuedInv
      <3>2. CASE Matches(s) /\ sockets'[s].queue[i] = entry
        <4>1. Counts
          BY <1>d, <1>e, <1>m, <2>2, <3>2
        <4> QED
          BY <1>c, <1>e, <1>m, <3>2, <4>1
      <3> QED
        BY <1>g, <3>1, <3>2
    <2> QED
      BY <2>1, <2>2, <1>u DEF QueuedInv
  <1>8. NumbersInv'
    <2> DEFINE NewerNow(k) ==
                /\ k.no <= notified
                /\ \A q \in Publisher : \A u \in Notifier[q] :
                      Notifying(q, u)' /\ k.from = q /\ k.by = u => k.no < sending'[q][u].message.no
    <2>1. ASSUME NEW k, Newer(k) PROVE NewerNow(k)
      BY <2>1, <1>s, <1>o DEF Newer
    <2>2. NewerNow(m)
      <3>1. m.no <= notified
        BY <1>u DEF FramesInv
      <3> QED
        BY <3>1, <1>o, <1>m
    <2>3. \A i \in DOMAIN received : NewerNow(received[i])
      BY <2>1 DEF NumbersInv
    <2>4. \A s \in Sockets : \A i \in DOMAIN sockets[s].queue : NewerNow(sockets[s].queue[i].message)
      BY <2>1 DEF NumbersInv
    <2> HIDE DEF NewerNow
    <2>5. \A s \in Sockets : \A i \in DOMAIN sockets'[s].queue : NewerNow(sockets'[s].queue[i].message)
      BY <2>2, <2>4, <1>e, <1>g
    <2> QED
      BY <2>3, <2>5, <1>u DEF NumbersInv, Newer, NewerNow
  <1>9. OrderInv'
    <2> DEFINE Ordered(k, l) == {k, l} \subseteq due' /\ k.from = l.from /\ k.by = l.by => k.no < l.no
    <2>1. ASSUME NEW k, NEW l, k # m, l # m, InOrder(k, l) PROVE Ordered(k, l)
      BY <2>1, <1>d DEF InOrder
    <2>2. ASSUME NEW k, Newer(k) PROVE Ordered(k, m)
      BY <2>2, <1>m, <1>u DEF Newer
    <2>3. /\ \A i \in DOMAIN received : received[i] # m /\ Newer(received[i])
          /\ \A s \in Sockets : \A i \in DOMAIN sockets[s].queue :
                sockets[s].queue[i].message # m /\ Newer(sockets[s].queue[i].message)
      BY <1>m DEF NumbersInv
    <2> HIDE DEF Ordered, m
    <2>4. \A i, j \in DOMAIN received : i < j => Ordered(received[i], received[j])
      BY <2>1, <2>3 DEF OrderInv
    <2>5. ASSUME NEW s \in Sockets, NEW i \in DOMAIN sockets'[s].queue,
                 NEW j \in DOMAIN sockets'[s].queue, i < j
          PROVE  Ordered(sockets'[s].queue[i].message, sockets'[s].queue[j].message)
      <3>1. sockets[s].queue \in Seq(Entry)
        BY DEF TypeInv, Socket
      <3>n. i \in Nat /\ j \in Nat
        <4>1. sockets'[s].queue \in Seq(Entry)
          BY <1>q DEF Socket
        <4> QED
          BY <4>1
      <3>2. CASE j \in DOMAIN sockets[s].queue /\ sockets'[s].queue[j] = sockets[s].queue[j]
        <4>1. i \in DOMAIN sockets[s].queue /\ sockets'[s].queue[i] = sockets[s].queue[i]
          <5>2. ~(j \in Nat /\ j < i)
            BY <2>5, <3>n
          <5> QED
            BY <1>g, <3>2, <5>2
        <4> QED
          BY <2>1, <2>3, <2>5, <3>2, <4>1 DEF OrderInv
      <3>3. CASE /\ Matches(s) /\ sockets'[s].queue[j] = entry
                 /\ \A l \in DOMAIN sockets[s].queue : l \in Nat /\ l < j
        <4>1. i \in DOMAIN sockets[s].queue /\ sockets'[s].queue[i] = sockets[s].queue[i]
          <5>1. sockets'[s].queue = Append(sockets[s].queue, entry) /\ entry \in Entry
            BY <1>e, <1>q, <3>3
          <5>2. DOMAIN sockets'[s].queue = DOMAIN sockets[s].queue \cup {Len(sockets[s].queue) + 1}
            BY <3>1, <5>1, QueueGrows
          <5>3. j = Len(sockets[s].queue) + 1 \/ j \in DOMAIN sockets[s].queue
            BY <5>2
          <5>4. j \notin DOMAIN sockets[s].queue
            BY <3>3
          <5>5. i # j
            BY <2>5, <3>n
          <5> QED
            BY <1>h, <5>2, <5>3, <5>4, <5>5
        <4> QED
          BY <2>2, <2>3, <1>e, <3>3, <4>1
      <3> QED
        BY <1>g, <3>2, <3>3
    <2>6. ASSUME NEW s \in Sockets, NEW i \in DOMAIN received, NEW j \in DOMAIN sockets'[s].queue
          PROVE  Ordered(received[i], sockets'[s].queue[j].message)
      <3>1. CASE j \in DOMAIN sockets[s].queue /\ sockets'[s].queue[j] = sockets[s].queue[j]
        BY <2>1, <2>3, <3>1 DEF OrderInv
      <3>2. CASE Matches(s) /\ sockets'[s].queue[j] = entry
        BY <2>2, <2>3, <1>e, <3>2
      <3> QED
        BY <1>g, <3>1, <3>2
    <2> QED
      BY <2>4, <2>5, <2>6, <1>u DEF OrderInv, InOrder, Ordered
  <1> QED
    BY <1>2, <1>3, <1>4, <1>5, <1>6, <1>7, <1>8, <1>9

-----------------------------------------------------------------------------
(* The subscriber. *)

\* A change of sockets and subscriptions that leaves the queues, and the subscriptions of
\* what has to arrive, as they are.
LEMMA QueuesStay ==
    ASSUME NotificationIInv, UNCHANGED <<frames, sending, notified, received>>,
           \A s \in Sockets : sockets'[s].queue = sockets[s].queue,
           due' \subseteq due,
           \A k \in DOMAIN subscriptions :
              (\E m \in due' : k = <<m.from, m.topic>>) =>
                 k \in DOMAIN subscriptions' /\ subscriptions'[k] = subscriptions[k]
    PROVE  /\ NothingLostUnlessOverlapping'
           /\ FramesInv' /\ QueuedInv' /\ NumbersInv' /\ OrderInv'
  <1> USE DEF NotificationIInv
  <1>1. NothingLostUnlessOverlapping'
    BY DEF NothingLostUnlessOverlapping, Queued
  <1>2. FramesInv'
    BY DEF FramesInv, Notifying
  <1>3. QueuedInv'
    <2>1. \A m \in due' : <<m.from, m.topic>> \in DOMAIN subscriptions'
      BY DEF QueuedInv
    <2>2. ASSUME NEW s \in Sockets, NEW i \in DOMAIN sockets[s].queue,
                 sockets[s].queue[i].message \in due'
          PROVE  LET entry == sockets[s].queue[i]
                 IN  /\ entry.topic = entry.message.topic
                     /\ subscriptions'[<<entry.message.from, entry.message.topic>>] = s
      BY <2>2 DEF QueuedInv
    <2> QED
      BY <2>1, <2>2 DEF QueuedInv
  <1>4. NumbersInv'
    BY DEF NumbersInv, Newer, Notifying
  <1>5. OrderInv'
    <2> DEFINE Ordered(k, m) == {k, m} \subseteq due' /\ k.from = m.from /\ k.by = m.by => k.no < m.no
    <2>1. ASSUME NEW k, NEW m, InOrder(k, m) PROVE Ordered(k, m)
      BY <2>1 DEF InOrder
    <2> HIDE DEF Ordered
    <2>2. \A i, j \in DOMAIN received : i < j => Ordered(received[i], received[j])
      BY <2>1 DEF OrderInv
    <2>3. \A s \in Sockets : \A i, j \in DOMAIN sockets[s].queue :
             i < j => Ordered(sockets[s].queue[i].message, sockets[s].queue[j].message)
      BY <2>1 DEF OrderInv
    <2>4. \A s \in Sockets : \A i \in DOMAIN received : \A j \in DOMAIN sockets[s].queue :
             Ordered(received[i], sockets[s].queue[j].message)
      BY <2>1 DEF OrderInv
    <2> QED
      BY <2>2, <2>3, <2>4, SMTT(30) DEF OrderInv, InOrder, Ordered
  <1> QED
    BY <1>1, <1>2, <1>3, <1>4, <1>5

\* A subscription takes the socket of its publisher, or a free one.
LEMMA SubscribeKeeps ==
    ASSUME NotificationIInv, NEW p \in Publisher, NEW topic \in Topic, Subscribe(p, topic)
    PROVE  NotificationIInv'
  <1> USE DEF NotificationIInv
  <1> DEFINE key == <<p, topic>>
  <1>1. /\ UNCHANGED <<frames, sending, notified, received, due>>
        /\ key \notin DOMAIN subscriptions
        /\ subscribed < MaxSubscribed /\ subscribed' = subscribed + 1
    BY DEF Subscribe
  <1>n. subscribed' \in 0..MaxSubscribed
    <2> QED
      BY CountsOn, <1>1, NotificationAssumption DEF TypeInv
  <1>2. CASE SubscribeFails(p)
    <2>1. UNCHANGED <<sockets, subscriptions>>
      BY <1>2 DEF SubscribeFails
    <2>2. socketFailures' \in 0..MaxSocketFailures /\ (socketFailures > 0 => socketFailures' > 0)
      <3>2. /\ socketFailures' = socketFailures \/ socketFailures' = socketFailures + 1
            /\ socketFailures' = socketFailures \/ socketFailures < MaxSocketFailures
        BY <1>2 DEF SubscribeFails
      <3> QED
        BY <3>2, FailuresCount
    <2>3. TypeInv'
      BY <1>1, <1>n, <2>1, <2>2 DEF TypeInv
    <2>4. Receiving'
      BY <2>1 DEF Receiving
    <2>5. FitInv'
      <3>1. TopicsFit' /\ AddressFits'
        BY <2>1 DEF FitInv, TopicsFit, AddressFits
      <3>2. OneSocketEach'
        BY <2>1 DEF FitInv, OneSocketEach
      <3>3. NoSocketLost'
        BY <2>1, <2>2 DEF FitInv, NoSocketLost
      <3> QED
        BY <3>1, <3>2, <3>3 DEF FitInv
    <2> QED
      BY <1>1, <2>1, <2>3, <2>4, <2>5, QueuesStay
  <1>3. ASSUME NEW s \in SocketFor(p), SubscribesTo(p, topic, s), UNCHANGED socketFailures
        PROVE  NotificationIInv'
    <2>1. /\ s \in Sockets /\ sockets[s].address \in {p, ""}
          /\ \A r \in Sockets : sockets[r].address = p => sockets[s].address = p
      BY SocketForFits
    <2>2. p # ""
      BY NotificationAssumption
    <2>3. /\ sockets' = [sockets EXCEPT ![s].address = p, ![s].topics = @ \cup {topic},
                            ![s].receives = IF sockets[s].address = "" THEN @ + 1 ELSE @]
          /\ subscriptions' = [k \in DOMAIN subscriptions \cup {key} |->
                                  IF k = key THEN s ELSE subscriptions[k]]
      BY <1>3 DEF SubscribesTo
    <2>o. /\ sockets[s] \in Socket /\ DOMAIN sockets = Sockets
          /\ \A r \in Sockets : sockets[r] \in Socket
      BY <2>1 DEF TypeInv
    <2>t. /\ sockets'[s] = [sockets[s] EXCEPT !.address = p, !.topics = @ \cup {topic},
                               !.receives = IF sockets[s].address = "" THEN @ + 1 ELSE @]
          /\ sockets' = [r \in Sockets |-> sockets'[r]]
          /\ \A r \in Sockets \ {s} : sockets'[r] = sockets[r]
      BY <2>1, <2>3, <2>o
    <2>v. sockets[s].receives \in Nat /\ sockets[s].receives + 1 \in Nat
      <3>1. sockets[s].receives \in Nat
        BY <2>o DEF Socket
      <3> QED
        BY <3>1
    <2>4. /\ sockets' \in [Sockets -> Socket]
          /\ \A r \in Sockets \ {s} : sockets'[r] = sockets[r]
          /\ sockets'[s].address = p
          /\ sockets'[s].topics = sockets[s].topics \cup {topic}
          /\ sockets'[s].queue = sockets[s].queue
          /\ sockets'[s].receives =
                IF sockets[s].address = "" THEN sockets[s].receives + 1 ELSE sockets[s].receives
      <3>1. sockets'[s] \in Socket
        <4> DEFINE R == IF sockets[s].address = "" THEN sockets[s].receives + 1
                                                   ELSE sockets[s].receives
                   T == sockets[s].topics \cup {topic}
        <4>1. R \in Nat
          BY <2>v
        <4>2. T \in SUBSET Topic
          BY <2>o DEF Socket
        <4>3. sockets'[s] = [sockets[s] EXCEPT !.address = p, !.topics = T, !.receives = R]
          BY <2>o, <2>t DEF Socket
        <4> HIDE DEF R, T
        <4> QED
          BY <2>o, <4>1, <4>2, <4>3 DEF Socket
      <3>3. sockets' \in [Sockets -> Socket]
        BY <2>o, <2>t, <3>1
      <3> QED
        BY <2>o, <2>t, <3>3 DEF Socket
    <2>5. /\ DOMAIN subscriptions' = DOMAIN subscriptions \cup {key}
          /\ subscriptions'[key] = s
          /\ \A k \in DOMAIN subscriptions : subscriptions'[k] = subscriptions[k]
          /\ \A k \in DOMAIN subscriptions' : subscriptions'[k] \in Sockets
      BY <1>1, <2>1, <2>3 DEF TypeInv
    <2>6. TypeInv'
      <3>1. DOMAIN subscriptions' \subseteq Publisher \X Topic
        BY <2>5 DEF TypeInv
      <3> QED
        BY <3>1, <1>1, <1>n, <1>3, <2>4, <2>5 DEF TypeInv
    <2>7. Receiving'
      <3>1. sockets'[s].receives > 0
        <4>1. sockets[s].receives \in Nat
          BY <2>1 DEF TypeInv, Socket
        <4>2. CASE sockets[s].address = ""
          <5>1. sockets'[s].receives = sockets[s].receives + 1
            BY <4>2, <2>4
          <5> QED
            BY <4>1, <5>1
        <4>3. CASE sockets[s].address # ""
          BY <4>3, <2>1, <2>4 DEF Receiving
        <4> QED
          BY <4>2, <4>3
      <3> QED
        BY <3>1, <2>4 DEF Receiving
    <2>8. FitInv'
      <3>k. key[1] = p /\ key[2] = topic
        OBVIOUS
      <3> HIDE DEF key
      <3>1. \A k \in DOMAIN subscriptions : subscriptions[k] = s => k[1] = p
        <4> SUFFICES ASSUME NEW k \in DOMAIN subscriptions, subscriptions[k] = s PROVE k[1] = p
          OBVIOUS
        <4>1. sockets[s].address = k[1] /\ k[1] \in Publisher
          BY OneSocketPerAddress
        <4> QED
          BY <4>1, <2>1, NotificationAssumption
      <3>2. TopicsFit'
        <4> SUFFICES ASSUME NEW r \in Sockets, NEW x
                     PROVE  x \in sockets'[r].topics <=>
                               \E k \in DOMAIN subscriptions' : subscriptions'[k] = r /\ x = k[2]
          BY DEF TopicsFit
        <4>1. x \in sockets[r].topics <=>
                \E k \in DOMAIN subscriptions : subscriptions[k] = r /\ x = k[2]
          BY DEF FitInv, TopicsFit
        <4>2. (\E k \in DOMAIN subscriptions' : subscriptions'[k] = r /\ x = k[2]) <=>
              \/ \E k \in DOMAIN subscriptions : subscriptions[k] = r /\ x = k[2]
              \/ s = r /\ x = topic
          BY <2>5, <3>k
        <4> QED
          BY <4>1, <4>2, <2>4
      <3>3. AddressFits'
        <4> SUFFICES ASSUME NEW k \in DOMAIN subscriptions'
                     PROVE  sockets'[subscriptions'[k]].address = k[1]
          BY DEF AddressFits
        <4>1. CASE k = key
          BY <4>1, <2>4, <2>5, <3>k
        <4>2. CASE k \in DOMAIN subscriptions
          <5>1. /\ subscriptions'[k] = subscriptions[k] /\ subscriptions[k] \in Sockets
                /\ sockets[subscriptions[k]].address = k[1]
            BY <4>2, <2>5, OneSocketPerAddress
          <5> QED
            BY <5>1, <4>2, <2>4, <3>1
        <4> QED
          BY <4>1, <4>2, <2>5
      <3>4. NoSocketLost'
        <4> SUFFICES ASSUME NEW r \in Sockets, sockets'[r].address # ""
                     PROVE  \/ \E k \in DOMAIN subscriptions' : subscriptions'[k] = r
                            \/ socketFailures > 0
          BY <1>3 DEF NoSocketLost
        <4>1. CASE r = s
          BY <4>1, <2>5
        <4>2. CASE r # s
          BY <4>2, <2>4, <2>5, ZenonT(60) DEF FitInv, NoSocketLost
        <4> QED
          BY <4>1, <4>2
      <3>5. OneSocketEach'
        <4>1. \A r \in Sockets : sockets[r].address = p => r = s
          BY <2>1, <2>2 DEF FitInv, OneSocketEach
        <4> QED
          BY <4>1, <2>1, <2>4, ZenonT(60) DEF FitInv, OneSocketEach
      <3> QED
        BY <3>2, <3>3, <3>4, <3>5 DEF FitInv
    <2>9. \A r \in Sockets : sockets'[r].queue = sockets[r].queue
      BY <2>4
    <2> HIDE DEF key
    <2> QED
      BY <1>1, <2>5, <2>6, <2>7, <2>8, <2>9, QueuesStay
  <1> QED
    BY <1>2, <1>3 DEF Subscribe

\* A subscription ends; its socket is free unless it has others or does not disconnect.
LEMMA UnsubscribeKeeps ==
    ASSUME NotificationIInv, NEW p \in Publisher, NEW topic \in Topic, Unsubscribe(p, topic)
    PROVE  NotificationIInv'
  <1> USE DEF NotificationIInv
  <1> DEFINE key == <<p, topic>>
             s == subscriptions[key]
             rest == DOMAIN subscriptions \ {key}
             Without(address) == [sockets EXCEPT ![s].topics = @ \ {topic},
                                                 ![s].address = address]
  <1>1. /\ UNCHANGED <<frames, sending, notified, received, subscribed>>
        /\ key \in DOMAIN subscriptions
        /\ subscriptions' = [k \in rest |-> subscriptions[k]]
        /\ due' = {m \in due : <<m.from, m.topic>> # key}
    BY DEF Unsubscribe
  <1>k. key[1] = p /\ key[2] = topic
    OBVIOUS
  <1>2. PICK address :
          /\ address = p \/ address = ""
          /\ sockets' = Without(address)
          /\ address = "" => \A k \in rest : subscriptions[k] # s
          /\ \/ (\E k \in rest : subscriptions[k] = s) /\ UNCHANGED socketFailures
             \/ address = "" /\ UNCHANGED socketFailures
             \/ socketFailures < MaxSocketFailures /\ socketFailures' = socketFailures + 1
    <2>1. CASE /\ StillSubscribed(s, rest)
               /\ sockets' = Without(p)
               /\ UNCHANGED socketFailures
      BY <2>1, NotificationAssumption DEF StillSubscribed
    <2>2. CASE /\ ~StillSubscribed(s, rest)
               /\ sockets' = Without("")
               /\ UNCHANGED socketFailures
      BY <2>2 DEF StillSubscribed
    <2>3. CASE /\ ~StillSubscribed(s, rest)
               /\ socketFailures < MaxSocketFailures
               /\ socketFailures' = socketFailures + 1
               /\ sockets' = Without(p)
      BY <2>3, NotificationAssumption DEF StillSubscribed
    <2> QED
      BY <2>1, <2>2, <2>3 DEF Unsubscribe
  <1>3. /\ s \in Sockets /\ sockets[s].address = p /\ p # ""
        /\ \A k \in DOMAIN subscriptions : subscriptions[k] \in Sockets
    <2> HIDE DEF key
    <2> QED
      BY <1>1, <1>k, OneSocketPerAddress, NotificationAssumption
  <1>4. /\ sockets' \in [Sockets -> Socket]
        /\ \A r \in Sockets \ {s} : sockets'[r] = sockets[r]
        /\ sockets'[s].address = address
        /\ sockets'[s].topics = sockets[s].topics \ {topic}
        /\ sockets'[s].queue = sockets[s].queue
        /\ sockets'[s].receives = sockets[s].receives
    <2>1. sockets[s] \in Socket /\ sockets \in [Sockets -> Socket]
      BY <1>3 DEF TypeInv
    <2> HIDE DEF s
    <2>2. /\ sockets'[s] = [sockets[s] EXCEPT !.topics = @ \ {topic}, !.address = address]
          /\ sockets' = [r \in Sockets |-> sockets'[r]]
          /\ \A r \in Sockets \ {s} : sockets'[r] = sockets[r]
      BY <1>2, <1>3, <2>1
    <2>3. sockets'[s] \in Socket
      <3> DEFINE T == sockets[s].topics \ {topic}
      <3>1. T \in SUBSET Topic
        BY <2>1 DEF Socket
      <3>2. sockets'[s] = [sockets[s] EXCEPT !.topics = T, !.address = address]
        BY <2>2
      <3> HIDE DEF T
      <3>3. address \in Publisher \cup {""}
        BY <1>2
      <3> QED
        BY <2>1, <3>1, <3>2, <3>3 DEF Socket
    <2>4. sockets' \in [Sockets -> Socket]
      BY <2>1, <2>2, <2>3
    <2> QED
      BY <2>1, <2>2, <2>4 DEF Socket
  <1>5. DOMAIN subscriptions' = rest /\ \A k \in rest : subscriptions'[k] = subscriptions[k]
    BY <1>1
  <1> HIDE DEF key, s, Without
  <1>6. /\ socketFailures' \in 0..MaxSocketFailures
        /\ socketFailures > 0 \/ socketFailures' = socketFailures + 1 => socketFailures' > 0
    BY <1>2, FailuresCount
  <1>7. TypeInv'
    <2>1. /\ DOMAIN subscriptions' \subseteq Publisher \X Topic
          /\ \A k \in DOMAIN subscriptions' : subscriptions'[k] \in Sockets
      BY <1>3, <1>5 DEF TypeInv
    <2>2. due' \subseteq Notification
      BY <1>1 DEF TypeInv
    <2> QED
      BY <2>1, <2>2, <1>1, <1>4, <1>6 DEF TypeInv
  <1>8. Receiving'
    BY <1>3, <1>4 DEF Receiving
  <1>9. FitInv'
    <2>1. TopicsFit'
      <3> SUFFICES ASSUME NEW r \in Sockets, NEW x
                   PROVE  x \in sockets'[r].topics <=>
                             \E k \in DOMAIN subscriptions' : subscriptions'[k] = r /\ x = k[2]
        BY DEF TopicsFit
      <3>0. (\E k \in DOMAIN subscriptions' : subscriptions'[k] = r /\ x = k[2]) <=>
            \E k \in rest : subscriptions[k] = r /\ x = k[2]
        BY <1>5
      <3>1. x \in sockets[r].topics <=>
                \E k \in DOMAIN subscriptions : subscriptions[k] = r /\ x = k[2]
        BY TopicsSubscribed
      <3>2. CASE r # s
        <4>1. subscriptions[key] # r
          BY <3>2 DEF s
        <4> QED
          BY <3>0, <3>1, <3>2, <4>1, <1>4
      <3>3. CASE r = s
        <4>1. \A k \in rest : subscriptions[k] = s => k[2] # topic
          <5> SUFFICES ASSUME NEW k \in rest, subscriptions[k] = s, k[2] = topic PROVE FALSE
            OBVIOUS
          <5>1. sockets[s].address = k[1] /\ k = <<k[1], k[2]>>
            BY OneSocketPerAddress
          <5>2. k = key
            BY <5>1, <1>3 DEF key
          <5> QED
            BY <5>2
        <4>2. subscriptions[key] = s
          BY DEF s
        <4> QED
          BY <3>0, <3>1, <3>3, <4>1, <4>2, <1>1, <1>4, <1>k
      <3> QED
        BY <3>2, <3>3
    <2>2. AddressFits'
      <3> SUFFICES ASSUME NEW k \in rest
                   PROVE  sockets'[subscriptions[k]].address = k[1]
        BY <1>5 DEF AddressFits
      <3>1. sockets[subscriptions[k]].address = k[1]
        BY OneSocketPerAddress
      <3>2. CASE subscriptions[k] = s
        BY <3>1, <3>2, <1>2, <1>3, <1>4
      <3>3. CASE subscriptions[k] # s
        BY <3>1, <3>3, <1>3, <1>4
      <3> QED
        BY <3>2, <3>3
    <2>3. NoSocketLost'
      <3> SUFFICES ASSUME NEW r \in Sockets, sockets'[r].address # ""
                   PROVE  \/ \E k \in rest : subscriptions[k] = r
                          \/ socketFailures' > 0
        BY <1>5 DEF NoSocketLost
      <3>1. CASE r # s
        <4>1. subscriptions[key] # r
          BY <3>1 DEF s
        <4>2. (\E k \in DOMAIN subscriptions : subscriptions[k] = r) \/ socketFailures > 0
          BY <3>1, <1>4 DEF FitInv, NoSocketLost
        <4> QED
          BY <4>1, <4>2, <1>6
      <3>2. CASE r = s
        <4>1. address # ""
          BY <3>2, <1>4
        <4>2. (\E k \in rest : subscriptions[k] = s) \/ socketFailures' = socketFailures + 1
          BY <4>1, <1>2
        <4> QED
          BY <3>2, <4>2, <1>6
      <3> QED
        BY <3>1, <3>2
    <2>4. OneSocketEach'
      <3> SUFFICES ASSUME NEW r \in Sockets, NEW q \in Sockets, sockets'[r].address # "",
                          sockets'[q].address = sockets'[r].address
                   PROVE  q = r
        BY DEF OneSocketEach
      <3>1. /\ sockets'[r].address = sockets[r].address
            /\ sockets'[q].address = sockets[q].address
        BY <1>2, <1>3, <1>4
      <3> QED
        BY <3>1 DEF FitInv, OneSocketEach
    <2> QED
      BY <2>1, <2>2, <2>3, <2>4 DEF FitInv
  <1>10. \A r \in Sockets : sockets'[r].queue = sockets[r].queue
    BY <1>4
  <1>11. \A k \in DOMAIN subscriptions :
            (\E m \in due' : k = <<m.from, m.topic>>) =>
               k \in DOMAIN subscriptions' /\ subscriptions'[k] = subscriptions[k]
    BY <1>1, <1>5
  <1>12. due' \subseteq due
    BY <1>1
  <1> QED
    BY <1>1, <1>7, <1>8, <1>9, <1>10, <1>11, <1>12, QueuesStay

\* The queue of a socket without its first notification, and what was handed on with it.
LEMMA QueueShrinks ==
    ASSUME NEW S, NEW q \in Seq(S), q # <<>>
    PROVE  /\ Tail(q) \in Seq(S) /\ 1 \in DOMAIN q /\ Head(q) = q[1]
           /\ \A i \in DOMAIN Tail(q) : /\ i \in Nat /\ i + 1 \in DOMAIN q
                                        /\ Tail(q)[i] = q[i + 1] /\ 1 < i + 1
           /\ \A i \in DOMAIN q : i = 1 \/ \E j \in DOMAIN Tail(q) : i = j + 1
  <1>1. Len(q) \in Nat \ {0}
    OBVIOUS
  <1>2. Tail(q) \in Seq(S) /\ Len(Tail(q)) = Len(q) - 1
    BY <1>1
  <1>3. 1 \in DOMAIN q /\ Head(q) = q[1]
    BY <1>1
  <1>4. \A i \in DOMAIN Tail(q) : i \in Nat /\ i + 1 \in DOMAIN q /\ Tail(q)[i] = q[i + 1] /\ 1 < i + 1
    BY <1>1, <1>2
  <1>5. \A i \in DOMAIN q : i = 1 \/ (i - 1 \in DOMAIN Tail(q) /\ i = (i - 1) + 1)
    BY <1>1, <1>2
  <1> QED
    BY <1>2, <1>3, <1>4, <1>5

LEMMA HandedGrows ==
    ASSUME NEW S, NEW q \in Seq(S), NEW e \in S
    PROVE  /\ Append(q, e) \in Seq(S)
           /\ \A i \in DOMAIN q : i \in DOMAIN Append(q, e) /\ Append(q, e)[i] = q[i]
           /\ \A i \in DOMAIN Append(q, e) :
                 \/ i \in DOMAIN q /\ Append(q, e)[i] = q[i]
                 \/ /\ i = Len(q) + 1 /\ Append(q, e)[i] = e
           /\ \A i \in DOMAIN Append(q, e) : i \in Nat /\ i <= Len(q) + 1
           /\ Len(q) \in Nat /\ Len(q) + 1 \in DOMAIN Append(q, e)
           /\ Append(q, e)[Len(q) + 1] = e
  OBVIOUS

\* The socket hands its first notification on, or drops it: then it had not to arrive.
LEMMA ReceiveKeeps ==
    ASSUME NotificationIInv, NEW s \in Sockets, ReceiveNotification(s)
    PROVE  NotificationIInv'
  <1> USE DEF NotificationIInv
  <1> DEFINE entry == Head(sockets[s].queue)
             Hands == /\ entry.topic \in sockets[s].topics
                      /\ received' = Append(received, entry.message)
                      /\ sockets' = [sockets EXCEPT ![s].queue = Tail(@),
                                                    ![s].receives = ReceivesAfter(s)]
             Drops == /\ entry.topic \notin sockets[s].topics
                      /\ sockets' = [sockets EXCEPT ![s].queue = Tail(@)]
                      /\ received' = received
  <1>1. /\ UNCHANGED <<frames, sending, notified, subscriptions, due, subscribed, socketFailures>>
        /\ sockets[s].receives > 0 /\ sockets[s].queue # <<>>
        /\ Hands \/ Drops
    BY DEF ReceiveNotification, Handed
  <1>s. sockets[s] \in Socket /\ sockets \in [Sockets -> Socket]
    BY DEF TypeInv
  <1>q. /\ sockets[s].queue \in Seq(Entry)
        /\ Tail(sockets[s].queue) \in Seq(Entry)
        /\ 1 \in DOMAIN sockets[s].queue /\ entry = sockets[s].queue[1]
    BY <1>1, <1>s, QueueShrinks DEF Socket
  <1>e. entry.topic \in Topic /\ entry.message \in Notification
    BY <1>q, EntriesTyped
  <1>2. /\ sockets' \in [Sockets -> Socket]
        /\ \A r \in Sockets \ {s} : sockets'[r] = sockets[r]
        /\ sockets'[s].address = sockets[s].address /\ sockets'[s].topics = sockets[s].topics
        /\ sockets'[s].queue = Tail(sockets[s].queue)
        /\ sockets[s].address # "" => sockets'[s].receives = sockets[s].receives
    <2>1. CASE Hands
      <3>1. /\ ReceivesAfter(s) \in Nat
            /\ sockets[s].address # "" => ReceivesAfter(s) = sockets[s].receives
        <4>1. sockets[s].receives \in Nat /\ sockets[s].receives > 0
          BY <1>1, <1>s DEF Socket
        <4>2. sockets[s].receives - 1 \in Nat
          BY <4>1
        <4> QED
          BY <4>1, <4>2 DEF ReceivesAfter
      <3> HIDE DEF entry
      <3>2. /\ sockets'[s] = [sockets[s] EXCEPT !.queue = Tail(@), !.receives = ReceivesAfter(s)]
            /\ \A r \in Sockets \ {s} : sockets'[r] = sockets[r]
            /\ sockets' = [r \in Sockets |-> sockets'[r]]
        BY <2>1, <1>s
      <3>3. sockets'[s] \in Socket
        BY <1>q, <1>s, <3>1, <3>2 DEF Socket
      <3>4. sockets' \in [Sockets -> Socket]
        BY <1>s, <3>2, <3>3
      <3> QED
        BY <1>s, <3>1, <3>2, <3>4 DEF Socket
    <2>2. CASE Drops
      <3> HIDE DEF entry
      <3>1. /\ sockets'[s] = [sockets[s] EXCEPT !.queue = Tail(@)]
            /\ \A r \in Sockets \ {s} : sockets'[r] = sockets[r]
            /\ sockets' = [r \in Sockets |-> sockets'[r]]
        BY <2>2, <1>s
      <3>2. sockets'[s] \in Socket
        BY <1>q, <1>s, <3>1 DEF Socket
      <3>3. sockets' \in [Sockets -> Socket]
        BY <1>s, <3>1, <3>2
      <3> QED
        BY <1>s, <3>1, <3>3 DEF Socket
    <2> QED
      BY <1>1, <2>1, <2>2
  \* What waits now has waited before, behind what is handed on or dropped.
  <1>g. \A i \in DOMAIN sockets'[s].queue :
           /\ i \in Nat /\ i + 1 \in DOMAIN sockets[s].queue /\ 1 < i + 1
           /\ sockets'[s].queue[i] = sockets[s].queue[i + 1]
    <2> DEFINE q == sockets[s].queue
    <2>1. q \in Seq(Entry) /\ q # <<>> /\ sockets'[s].queue = Tail(q)
      BY <1>1, <1>2, <1>q
    <2> HIDE DEF q
    <2>2. \A i \in DOMAIN Tail(q) : /\ i \in Nat /\ i + 1 \in DOMAIN q /\ 1 < i + 1
                                   /\ Tail(q)[i] = q[i + 1]
      BY <2>1, QueueShrinks
    <2> QED
      BY <2>1, <2>2 DEF q
  <1>h. \A i \in DOMAIN sockets[s].queue :
           i = 1 \/ \E j \in DOMAIN sockets'[s].queue : i = j + 1
    <2> DEFINE q == sockets[s].queue
    <2>1. q \in Seq(Entry) /\ q # <<>> /\ sockets'[s].queue = Tail(q)
      BY <1>1, <1>2, <1>q
    <2> HIDE DEF q
    <2>2. \A i \in DOMAIN q : i = 1 \/ \E j \in DOMAIN Tail(q) : i = j + 1
      BY <2>1, QueueShrinks
    <2> QED
      BY <2>1, <2>2 DEF q
  \* What the handler has got.
  <1>r. /\ received \in Seq(Notification) /\ received' \in Seq(Notification)
        /\ \A i \in DOMAIN received : i \in DOMAIN received' /\ received'[i] = received[i]
        /\ \A i \in DOMAIN received' : \/ i \in DOMAIN received /\ received'[i] = received[i]
                                       \/ i = Len(received) + 1 /\ received'[i] = entry.message
        /\ \A i \in DOMAIN received' : i \in Nat /\ i <= Len(received) + 1
        /\ Len(received) \in Nat
        /\ Hands => /\ Len(received) + 1 \in DOMAIN received'
                    /\ received'[Len(received) + 1] = entry.message
    <2>0. received \in Seq(Notification)
      BY DEF TypeInv
    <2>1. CASE Hands
      <3> HIDE DEF entry
      <3> QED
        BY <2>0, <2>1, <1>e, HandedGrows
    <2>2. CASE Drops /\ ~Hands
      <3> HIDE DEF Hands
      <3> QED
        BY <2>0, <2>2
    <2> QED
      BY <1>1, <2>1, <2>2
  \* What has to arrive is not dropped.
  <1>d. entry.message \in due => Hands
    <2> SUFFICES ASSUME entry.message \in due PROVE entry.topic \in sockets[s].topics
      BY <1>1
    <2> DEFINE k == <<entry.message.from, entry.message.topic>>
    <2>1. /\ k \in DOMAIN subscriptions /\ subscriptions[k] = s
          /\ entry.topic = entry.message.topic
      BY <1>q DEF QueuedInv
    <2>2. k[2] = entry.topic
      BY <2>1
    <2> HIDE DEF k
    <2> QED
      BY <2>1, <2>2, OneSocketPerAddress
  <1> HIDE DEF entry, Hands, Drops
  <1>3. TypeInv'
    BY <1>1, <1>2, <1>r DEF TypeInv
  <1>4. Receiving'
    <2> SUFFICES ASSUME NEW r \in Sockets, sockets'[r].address # "" PROVE sockets'[r].receives > 0
      BY DEF Receiving
    <2>1. CASE r = s
      BY <2>1, <1>1, <1>2
    <2>2. CASE r # s
      BY <2>2, <1>2 DEF Receiving
    <2> QED
      BY <2>1, <2>2
  <1>5. FitInv'
    <2>1. \A r \in Sockets : /\ sockets'[r].address = sockets[r].address
                             /\ sockets'[r].topics = sockets[r].topics
      BY <1>2
    <2>2. TopicsFit'
      BY <1>1, <2>1 DEF FitInv, TopicsFit
    <2>3. AddressFits'
      BY <1>1, <2>1 DEF FitInv, AddressFits, TypeInv
    <2>4. NoSocketLost'
      BY <1>1, <2>1 DEF FitInv, NoSocketLost
    <2>5. OneSocketEach'
      BY <2>1, ZenonT(60) DEF FitInv, OneSocketEach
    <2> QED
      BY <2>2, <2>3, <2>4, <2>5 DEF FitInv
  <1>6. NothingLostUnlessOverlapping'
    <2> SUFFICES ASSUME NEW m \in due
                 PROVE  m \in ToSet(received') \/ \E r \in Sockets : m \in Queued(r)'
      BY <1>1 DEF NothingLostUnlessOverlapping, ToSet
    <2>1. CASE m \in ToSet(received)
      BY <2>1, <1>r DEF ToSet
    <2>2. ASSUME NEW r \in Sockets, m \in Queued(r)
          PROVE  m \in ToSet(received') \/ m \in Queued(r)'
      <3>1. CASE r # s
        BY <2>2, <3>1, <1>2 DEF Queued
      <3>2. CASE r = s
        <4>1. PICK i \in DOMAIN sockets[s].queue : m = sockets[s].queue[i].message
          BY <2>2, <3>2 DEF Queued
        <4>2. CASE i = 1
          <5>1. m = entry.message
            BY <4>1, <4>2, <1>q
          <5>2. m \in ToSet(received')
            BY <5>1, <1>d, <1>r DEF ToSet
          <5> QED
            BY <5>2
        <4>3. CASE i # 1
          <5>1. PICK j \in DOMAIN sockets'[s].queue : i = j + 1
            BY <4>3, <1>h
          <5>2. m = sockets'[s].queue[j].message
            BY <4>1, <5>1, <1>g
          <5> QED
            BY <3>2, <5>2 DEF Queued
        <4> QED
          BY <4>2, <4>3
      <3> QED
        BY <3>1, <3>2
    <2> QED
      BY <2>1, <2>2 DEF NothingLostUnlessOverlapping
  <1>7. FramesInv'
    BY <1>1 DEF FramesInv, Notifying
  <1>8. QueuedInv'
    <2> SUFFICES ASSUME NEW r \in Sockets, NEW i \in DOMAIN sockets'[r].queue,
                        sockets'[r].queue[i].message \in due
                 PROVE  LET e == sockets'[r].queue[i]
                        IN  /\ e.topic = e.message.topic
                            /\ subscriptions[<<e.message.from, e.message.topic>>] = r
      BY <1>1 DEF QueuedInv
    <2>1. CASE r = s
      BY <2>1, <1>g DEF QueuedInv
    <2>2. CASE r # s
      <3>1. sockets'[r] = sockets[r]
        BY <2>2, <1>2
      <3>2. i \in DOMAIN sockets[r].queue /\ sockets[r].queue[i].message \in due
        BY <3>1
      <3> QED
        BY <3>1, <3>2 DEF QueuedInv
    <2> QED
      BY <2>1, <2>2
  <1>9. NumbersInv'
    <2>1. /\ \A i \in DOMAIN received : Newer(received[i])
          /\ Newer(entry.message)
          /\ \A r \in Sockets : \A i \in DOMAIN sockets[r].queue : Newer(sockets[r].queue[i].message)
      BY <1>q DEF NumbersInv
    <2>2. \A i \in DOMAIN received' : Newer(received'[i])
      BY <2>1, <1>r
    <2>3. \A r \in Sockets : \A i \in DOMAIN sockets'[r].queue : Newer(sockets'[r].queue[i].message)
      <3> SUFFICES ASSUME NEW r \in Sockets, NEW i \in DOMAIN sockets'[r].queue
                   PROVE  Newer(sockets'[r].queue[i].message)
        OBVIOUS
      <3>1. CASE r = s
        BY <3>1, <2>1, <1>g
      <3>2. CASE r # s
        BY <3>2, <2>1, <1>2
      <3> QED
        BY <3>1, <3>2
    <2> QED
      BY <2>2, <2>3, <1>1 DEF NumbersInv, Newer, Notifying
  <1>10. OrderInv'
    \* The order of what waits in two sockets: what has to arrive from one publisher does
    \* not.
    <2>1. ASSUME NEW r \in Sockets \ {s}, NEW j \in DOMAIN sockets[r].queue
          PROVE  InOrder(entry.message, sockets[r].queue[j].message)
      <3> SUFFICES ASSUME entry.message \in due, sockets[r].queue[j].message \in due,
                          entry.message.from = sockets[r].queue[j].message.from
                   PROVE  FALSE
        BY DEF InOrder
      <3> DEFINE k == <<entry.message.from, entry.message.topic>>
                 l == <<sockets[r].queue[j].message.from, sockets[r].queue[j].message.topic>>
      <3>1. /\ k \in DOMAIN subscriptions /\ subscriptions[k] = s
            /\ l \in DOMAIN subscriptions /\ subscriptions[l] = r
        BY <1>q DEF QueuedInv
      <3>2. k[1] = l[1]
        OBVIOUS
      <3> HIDE DEF k, l
      <3> QED
        BY <3>1, <3>2, OneSocketPerAddress
    <2>2. ASSUME NEW j \in DOMAIN sockets'[s].queue
          PROVE  InOrder(entry.message, sockets'[s].queue[j].message)
      BY <1>g, <1>q DEF OrderInv
    <2>3. ASSUME NEW i \in DOMAIN received
          PROVE  InOrder(received[i], entry.message)
      BY <1>q DEF OrderInv
    <2>4. ASSUME NEW i \in DOMAIN received', NEW j \in DOMAIN received', i < j
          PROVE  InOrder(received'[i], received'[j])
      <3>1. CASE j \in DOMAIN received /\ received'[j] = received[j]
        <4>1. i \in DOMAIN received /\ received'[i] = received[i]
          <5>1. j \in 1..Len(received) /\ Len(received) \in Nat /\ i \in Nat
            BY <3>1, <1>r
          <5>2. i # Len(received) + 1
            BY <5>1, <2>4
          <5> QED
            BY <5>2, <1>r
        <4> QED
          BY <2>4, <3>1, <4>1 DEF OrderInv
      <3>2. CASE j = Len(received) + 1 /\ received'[j] = entry.message
        <4>1. i \in DOMAIN received /\ received'[i] = received[i]
          <5>1. Len(received) \in Nat /\ i \in Nat
            BY <1>r
          <5>2. i # Len(received) + 1
            BY <5>1, <2>4, <3>2
          <5> QED
            BY <5>2, <1>r
        <4> QED
          BY <2>3, <3>2, <4>1
      <3> QED
        BY <1>r, <3>1, <3>2
    <2>5. ASSUME NEW r \in Sockets, NEW i \in DOMAIN sockets'[r].queue,
                 NEW j \in DOMAIN sockets'[r].queue, i < j
          PROVE  InOrder(sockets'[r].queue[i].message, sockets'[r].queue[j].message)
      <3>1. CASE r = s
        <4>1. /\ i + 1 \in DOMAIN sockets[s].queue /\ j + 1 \in DOMAIN sockets[s].queue
              /\ sockets'[s].queue[i] = sockets[s].queue[i + 1]
              /\ sockets'[s].queue[j] = sockets[s].queue[j + 1]
              /\ i \in Nat /\ j \in Nat
          BY <3>1, <1>g
        <4>2. i + 1 < j + 1
          BY <2>5, <4>1
        <4> QED
          BY <3>1, <4>1, <4>2 DEF OrderInv
      <3>2. CASE r # s
        BY <2>5, <3>2, <1>2 DEF OrderInv
      <3> QED
        BY <3>1, <3>2
    <2>6. ASSUME NEW r \in Sockets, NEW i \in DOMAIN received', NEW j \in DOMAIN sockets'[r].queue
          PROVE  InOrder(received'[i], sockets'[r].queue[j].message)
      <3>1. CASE received'[i] = entry.message
        BY <2>1, <2>2, <3>1, <1>2
      <3>2. CASE i \in DOMAIN received /\ received'[i] = received[i]
        <4>1. CASE r = s
          BY <3>2, <4>1, <1>g DEF OrderInv
        <4>2. CASE r # s
          BY <3>2, <4>2, <1>2 DEF OrderInv
        <4> QED
          BY <4>1, <4>2
      <3> QED
        BY <1>r, <3>1, <3>2
    <2> QED
      BY <2>4, <2>5, <2>6, <1>1 DEF OrderInv, InOrder
  <1> QED
    BY <1>3, <1>4, <1>5, <1>6, <1>7, <1>8, <1>9, <1>10

-----------------------------------------------------------------------------
(* The invariant. *)

LEMMA NotificationStep == NotificationIInv /\ [NotificationNext]_notificationVars => NotificationIInv'
  <1> SUFFICES ASSUME NotificationIInv, [NotificationNext]_notificationVars
               PROVE  NotificationIInv'
    OBVIOUS
  <1>1. CASE UNCHANGED notificationVars
    <2>1. /\ UNCHANGED <<frames, sending, notified, received, sockets, subscriptions, due,
                         subscribed, socketFailures>>
      BY <1>1 DEF notificationVars
    <2>2. /\ NothingLostUnlessOverlapping'
          /\ FramesInv' /\ QueuedInv' /\ NumbersInv' /\ OrderInv'
      BY <2>1, QueuesStay
    <2>3. TypeInv' /\ Receiving'
      BY <2>1 DEF NotificationIInv, TypeInv, Receiving
    <2>4. TopicsFit' /\ AddressFits'
      BY <2>1 DEF NotificationIInv, FitInv, TopicsFit, AddressFits
    <2>5. NoSocketLost' /\ OneSocketEach'
      BY <2>1 DEF NotificationIInv, FitInv, NoSocketLost, OneSocketEach
    <2> QED
      BY <2>2, <2>3, <2>4, <2>5 DEF NotificationIInv, FitInv
  <1>2. ASSUME NEW p \in Publisher, NEW t \in Notifier[p], SendsTopic(p, t)
        PROVE  NotificationIInv'
    BY <1>2, SendsTopicKeeps
  <1>3. ASSUME NEW p \in Publisher, NEW t \in Notifier[p], SendsMessage(p, t)
        PROVE  NotificationIInv'
    BY <1>3, SendsMessageKeeps
  <1>4. ASSUME NEW p \in Publisher, NEW topic \in Topic, Subscribe(p, topic)
        PROVE  NotificationIInv'
    BY <1>4, SubscribeKeeps
  <1>5. ASSUME NEW p \in Publisher, NEW topic \in Topic, Unsubscribe(p, topic)
        PROVE  NotificationIInv'
    BY <1>5, UnsubscribeKeeps
  <1>6. ASSUME NEW s \in Sockets, ReceiveNotification(s)
        PROVE  NotificationIInv'
    BY <1>6, ReceiveKeeps
  <1> QED
    BY <1>1, <1>2, <1>3, <1>4, <1>5, <1>6 DEF NotificationNext

LEMMA NotificationImplied == NotificationIInv => NotificationInvariant
  <1> SUFFICES ASSUME NotificationIInv PROVE NotificationInvariant
    OBVIOUS
  <1> USE DEF NotificationIInv
  <1>1. SocketsFitSubscriptions
    BY FitForm
  <1>2. NotificationTypeOK
    <2>1. \A p \in Publisher : \A t \in Notifier[p] :
             sending[p][t].message \in Notification \cup {Nothing}
      BY DEF TypeInv, Sending
    <2>2. \A s \in Sockets :
             /\ sockets[s].address \in Publisher \cup {""}
             /\ sockets[s].topics \subseteq Topic
             /\ sockets[s].receives \in Nat
      BY DEF TypeInv, Socket
    <2>3. \A s \in Sockets : Queued(s) \subseteq Notification
      BY EntriesTyped DEF Queued
    <2> QED
      BY <2>1, <2>2, <2>3 DEF TypeInv, Receiving, NotificationTypeOK
  <1>3. OrderKept
    BY DEF OrderInv, InOrder, OrderKept
  <1> QED
    BY <1>1, <1>2, <1>3 DEF NotificationInvariant

\* However publishers, subscribers and the threads of a publisher interleave, and whichever
\* socket calls fail (Publisher.cpp, Subscriber.cpp): the sockets and the map of subscriptions
\* agree, a notification that no other thread has broken into is not lost while its topic
\* stays subscribed, and the handler gets those of a thread in their order.
THEOREM UndisturbedArrivesInOrder == NotificationSpec => []NotificationInvariant
  <1>1. NotificationInit => NotificationIInv
    BY NotificationInitially
  <1>2. NotificationIInv /\ [NotificationNext]_notificationVars => NotificationIInv'
    BY NotificationStep
  <1>3. NotificationIInv => NotificationInvariant
    BY NotificationImplied
  <1> QED
    BY <1>1, <1>2, <1>3, PTL DEF NotificationSpec
=============================================================================
