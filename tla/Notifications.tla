---------------------------- MODULE Notifications ----------------------------
(***************************************************************************)
(* Notifications: the publishers of the components, and the subscriber of  *)
(* one component with its sockets.  A notification is two frames, its      *)
(* topic and its message, which a thread sends one after the other; the    *)
(* socket joins the frames of all threads to one message until a frame     *)
(* comes that is the last of its message.                                  *)
(***************************************************************************)
EXTENDS Naturals, Sequences, FiniteSets, SequencesExt

CONSTANTS
    Publisher,
    Topic,
    Notifier,           \* the threads of each publisher that notify
    MaxSubscriptionSockets,
    MaxNotified,        \* bound: notifications of all threads
    MaxSubscribed,      \* bound: calls of subscribe
    MaxSocketFailures   \* bound: socket calls that fail

ASSUME NotificationAssumption ==
    /\ "" \notin Publisher
    /\ MaxSubscriptionSockets \in Nat \ {0}
    /\ MaxNotified \in Nat
    /\ MaxSubscribed \in Nat
    /\ MaxSocketFailures \in Nat

VARIABLES
    frames,         \* topics that a publisher's socket has got since its last message
    sending,        \* the notification whose message a thread sends next
    notified,       \* how many notifications were begun: each has its number
    sockets,        \* m_socketInfoArray
    subscriptions,  \* m_subscriptionMap
    received,       \* history: the notifications handed to the message handler
    due,            \* history: the notifications that have to arrive
    subscribed,
    socketFailures

notificationVars == <<frames, sending, notified, sockets, subscriptions, received, due,
                      subscribed, socketFailures>>

Sockets == 1..MaxSubscriptionSockets

Notification == [from : Publisher, by : UNION {Notifier[p] : p \in Publisher},
                 no : 1..MaxNotified, topic : Topic]
Nothing == [from |-> "", by |-> "", no |-> 0, topic |-> ""]

\* receives counts the pending calls of async_receive_more; an entry of the queue is a
\* notification and the topic that it came under.
FreeSocket == [address |-> "", topics |-> {}, receives |-> 0, queue |-> <<>>]

NotificationInit ==
    /\ frames = [p \in Publisher |-> <<>>]
    /\ sending = [p \in Publisher |-> [t \in Notifier[p] |->
                    [message |-> Nothing, alone |-> FALSE, wanted |-> FALSE]]]
    /\ notified = 0
    /\ sockets = [s \in Sockets |-> FreeSocket]
    /\ subscriptions = <<>>
    /\ received = <<>>
    /\ due = {}
    /\ subscribed = 0
    /\ socketFailures = 0
-----------------------------------------------------------------------------
Notifying(p, t) == sending[p][t].message # Nothing

\* publish, first call: the topic, with more to come.  The other threads that are
\* between their two calls are not alone any more.
SendsTopic(p, t) ==
    /\ ~Notifying(p, t)
    /\ notified < MaxNotified
    /\ notified' = notified + 1
    /\ \E topic \in Topic :
          /\ frames' = [frames EXCEPT ![p] = Append(@, topic)]
          /\ sending' = [sending EXCEPT ![p] = [u \in Notifier[p] |->
                IF u = t
                THEN [message |-> [from |-> p, by |-> t, no |-> notified + 1,
                                   topic |-> topic],
                      alone |-> \A v \in Notifier[p] : ~Notifying(p, v),
                      wanted |-> <<p, topic>> \in DOMAIN subscriptions]
                ELSE [@[u] EXCEPT !.alone = FALSE]]]
    /\ UNCHANGED <<sockets, subscriptions, received, due, subscribed, socketFailures>>

\* publish, second call: the message ends what the socket has got.  It goes to the
\* sockets that are subscribed to the first frame; a message without a topic before it
\* goes nowhere.
SendsMessage(p, t) ==
    /\ Notifying(p, t)
    /\ LET m == sending[p][t].message
           Matches(s) == /\ frames[p] # <<>>
                         /\ sockets[s].address = p
                         /\ Head(frames[p]) \in sockets[s].topics
       IN  /\ sockets' = [s \in Sockets |->
                 IF Matches(s)
                 THEN [sockets[s] EXCEPT !.queue =
                          Append(@, [topic |-> Head(frames[p]), message |-> m])]
                 ELSE sockets[s]]
           /\ due' = IF /\ sending[p][t].alone
                        /\ sending[p][t].wanted
                        /\ <<p, m.topic>> \in DOMAIN subscriptions
                     THEN due \cup {m} ELSE due
    /\ frames' = [frames EXCEPT ![p] = <<>>]
    /\ sending' = [sending EXCEPT ![p][t] =
                      [message |-> Nothing, alone |-> FALSE, wanted |-> FALSE]]
    /\ UNCHANGED <<notified, subscriptions, received, subscribed, socketFailures>>

FirstWith(address) == {s \in Sockets : /\ sockets[s].address = address
                                       /\ \A r \in 1..(s - 1) : sockets[r].address # address}

\* findSocket: the socket that is connected to the address, or else the first free one.
SocketFor(address) ==
    IF \E s \in Sockets : sockets[s].address = address
    THEN FirstWith(address)
    ELSE FirstWith("")

\* subscribe: a new connection starts to receive.
SubscribesTo(p, topic, s) ==
    /\ sockets' = [sockets EXCEPT
          ![s].address = p,
          ![s].topics = @ \cup {topic},
          ![s].receives = IF sockets[s].address = "" THEN @ + 1 ELSE @]
    /\ subscriptions' = [k \in DOMAIN subscriptions \cup {<<p, topic>>} |->
                            IF k = <<p, topic>> THEN s ELSE subscriptions[k]]

\* No socket left, or connecting or setting the option failed and was undone.
SubscribeFails(p) ==
    /\ SocketFor(p) # {} => socketFailures < MaxSocketFailures
    /\ socketFailures' = IF SocketFor(p) = {} THEN socketFailures ELSE socketFailures + 1
    /\ UNCHANGED <<sockets, subscriptions>>

Subscribe(p, topic) ==
    /\ subscribed < MaxSubscribed
    /\ subscribed' = subscribed + 1
    /\ <<p, topic>> \notin DOMAIN subscriptions
    /\ \/ /\ \E s \in SocketFor(p) : SubscribesTo(p, topic, s)
          /\ UNCHANGED socketFailures
       \/ SubscribeFails(p)
    /\ UNCHANGED <<frames, sending, notified, received, due>>

\* Faulty variant: the subscription that is being removed is the only one that counts.
NotCounted(s, rest) == FALSE

\* getSubscriptionCount: the socket has other subscriptions.
StillSubscribed(s, rest) == \E k \in rest : subscriptions[k] = s

\* unsubscribe: without other subscriptions the socket is disconnected and free; it keeps
\* what it has got and its pending receive.  If disconnecting fails, it keeps its address.
Unsubscribe(p, topic) ==
    /\ <<p, topic>> \in DOMAIN subscriptions
    /\ LET s == subscriptions[<<p, topic>>]
           rest == DOMAIN subscriptions \ {<<p, topic>>}
           Without(address) == [sockets EXCEPT ![s].topics = @ \ {topic},
                                               ![s].address = address]
       IN  /\ subscriptions' = [k \in rest |-> subscriptions[k]]
           /\ \/ /\ StillSubscribed(s, rest)
                 /\ sockets' = Without(p)
                 /\ UNCHANGED socketFailures
              \/ /\ ~StillSubscribed(s, rest)
                 /\ sockets' = Without("")
                 /\ UNCHANGED socketFailures
              \/ /\ ~StillSubscribed(s, rest)
                 /\ socketFailures < MaxSocketFailures
                 /\ socketFailures' = socketFailures + 1
                 /\ sockets' = Without(p)
    /\ due' = {m \in due : <<m.from, m.topic>> # <<p, topic>>}
    /\ UNCHANGED <<frames, sending, notified, received, subscribed>>

\* Faulty variant: the next receive is started only if the socket was lonely.
ReceivesOnce(s) == sockets[s].receives - 1

\* A completed receive starts the next one while the socket is connected.
ReceivesAfter(s) ==
    IF sockets[s].address # "" THEN sockets[s].receives ELSE sockets[s].receives - 1

\* The handler that is registered for the message is called.
Handed(message) == received' = Append(received, message)

\* The IO thread hands the next notification to the handler; the socket drops what
\* nobody subscribes to any more.
ReceiveNotification(s) ==
    /\ sockets[s].receives > 0
    /\ sockets[s].queue # <<>>
    /\ LET entry == Head(sockets[s].queue)
       IN  \/ /\ entry.topic \in sockets[s].topics
              /\ Handed(entry.message)
              /\ sockets' = [sockets EXCEPT ![s].queue = Tail(@),
                                            ![s].receives = ReceivesAfter(s)]
           \/ /\ entry.topic \notin sockets[s].topics
              /\ sockets' = [sockets EXCEPT ![s].queue = Tail(@)]
              /\ UNCHANGED received
    /\ UNCHANGED <<frames, sending, notified, subscriptions, due, subscribed, socketFailures>>

NotificationNext ==
    \/ \E p \in Publisher : \E t \in Notifier[p] : SendsTopic(p, t) \/ SendsMessage(p, t)
    \/ \E p \in Publisher, topic \in Topic : Subscribe(p, topic) \/ Unsubscribe(p, topic)
    \/ \E s \in Sockets : ReceiveNotification(s)

NotificationFairness == \A s \in Sockets : WF_notificationVars(ReceiveNotification(s))

NotificationSpec ==
    NotificationInit /\ [][NotificationNext]_notificationVars /\ NotificationFairness
-----------------------------------------------------------------------------
Queued(s) == {sockets[s].queue[i].message : i \in DOMAIN sockets[s].queue}

\* The variables have their types, and a connected socket has a receive pending.
NotificationTypeOK ==
    /\ frames \in [Publisher -> Seq(Topic)]
    /\ \A p \in Publisher : \A t \in Notifier[p] :
          sending[p][t].message \in Notification \cup {Nothing}
    /\ \A s \in Sockets :
          /\ sockets[s].address \in Publisher \cup {""}
          /\ sockets[s].topics \subseteq Topic
          /\ sockets[s].receives \in Nat
          /\ sockets[s].address # "" => sockets[s].receives > 0
          /\ Queued(s) \subseteq Notification
    /\ DOMAIN subscriptions \subseteq Publisher \X Topic
    /\ \A k \in DOMAIN subscriptions : subscriptions[k] \in Sockets
    /\ received \in Seq(Notification)
    /\ due \subseteq Notification
    /\ notified \in 0..MaxNotified
    /\ subscribed \in 0..MaxSubscribed
    /\ socketFailures \in 0..MaxSocketFailures

\* Through every order of subscribing and unsubscribing, with its failures, the sockets
\* and the map of subscriptions agree: each subscription has its socket, an address has
\* one socket, and no socket is lost but by a failed disconnect.
SocketsFitSubscriptions ==
    \A s \in Sockets :
       LET mine == {k \in DOMAIN subscriptions : subscriptions[k] = s}
       IN  /\ sockets[s].topics = {k[2] : k \in mine}
           /\ \A k \in mine : sockets[s].address = k[1]
           /\ sockets[s].address # "" =>
                 /\ mine # {} \/ socketFailures > 0
                 /\ \A r \in Sockets \ {s} : sockets[r].address # sockets[s].address

\* A notification whose two frames no other thread has broken into, under a topic that
\* stays subscribed, is on its way to the handler or has reached it.
NothingLostUnlessOverlapping ==
    \A m \in due : \/ m \in ToSet(received)
                   \/ \E s \in Sockets : m \in Queued(s)

\* The handler gets what has to arrive from a thread in its order.  (A socket that was
\* freed and taken again may still hold what came under an earlier subscription.)
OrderKept ==
    \A i, j \in DOMAIN received :
       /\ i < j
       /\ {received[i], received[j]} \subseteq due
       /\ received[i].from = received[j].from
       /\ received[i].by = received[j].by
       => received[i].no < received[j].no

\* Again and again all that had to arrive has arrived: a socket never stops receiving
\* while it is subscribed.
DueArrives == []<>(due \subseteq ToSet(received))

\* What holds of notifications at any time: through all changes of the subscriptions
\* each has its socket, and what is sent undisturbed is handed on once and in order.
NotificationInvariant ==
    /\ NotificationTypeOK
    /\ SocketsFitSubscriptions
    /\ NothingLostUnlessOverlapping
    /\ OrderKept
=============================================================================
