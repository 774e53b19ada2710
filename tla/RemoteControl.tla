---------------------------- MODULE RemoteControl ----------------------------
(***************************************************************************)
(* The user interface of the machine: UserInterfaceControl, whose worker   *)
(* turns the machine's notifications into lights and messages, and         *)
(* RemoteControlServer, whose thread polls mongoose and answers clients.   *)
(* m_mutexStartStop guards the connections, the start and the stop.  What  *)
(* is handed to mongoose is sent by the polls that follow.                 *)
(***************************************************************************)
EXTENDS Naturals, Sequences

CONSTANTS
    Client,         \* those that connect, each once
    Listener,       \* the connection that listens
    MachineEvent,   \* the machine's notifications that occur
    MaxNotices,     \* bound: how many notifications the machine publishes
    MaxInbox,       \* m_eventQueue takes fewer than MaxInbox events
    MaxAsked,       \* bound: how many requests the clients send
    MaxGarbled      \* bound: how many sends of the worker meet a busy poll

\* What the machine publishes, as the events of the user interface.
MachineNotices == {"MachineSwitchedOff", "MachineError", "MachineStopped", "MachineHeatingUp",
                   "MachineStarting", "MachineRunning"}

ASSUME RemoteAssumption ==
    /\ Listener \notin Client
    /\ MachineEvent \subseteq MachineNotices
    /\ MaxInbox \in Nat \ {0}
    /\ {MaxNotices, MaxAsked, MaxGarbled} \subseteq Nat

VARIABLES
    server,         \* where the thread of the server is
    guard,          \* who holds m_mutexStartStop over several steps
    ruler,          \* where the application is in start and stop
    doListen,
    connections,    \* the keys of m_connections
    webs,           \* the connections with m_isOpenWebsocket
    sockets,        \* what mongoose holds: "none", "http", "web" or "gone"
    wants,          \* the request that each client sent and the server has not read
    event,          \* what the server handles: an event of a connection
    reply,          \* the state or the result to be sent to the asking client
    latest,         \* the machine's last notification
    inbox,          \* m_eventQueue of UserInterfaceControl
    lastMachineEvent,
    lights,         \* power, run and ready
    worker,         \* where the worker of UserInterfaceControl is
    view,           \* the state that the messages told each client last
    overtaken,      \* history: clients whose reply came after a newer message
    deaf,           \* history: clients that lost the last message of the worker
    garbled,        \* history: how many messages were lost
    refused,         \* history: the last notification found the queue full
    notices, asked

uiVars == <<latest, inbox, lastMachineEvent, lights, worker, refused, notices>>
serverVars == <<server, ruler, doListen, connections, webs, sockets, wants, event, reply, asked>>
talkVars == <<view, overtaken, deaf, garbled>>
remoteVars == <<uiVars, serverVars, guard, talkVars>>

NoEvent == [kind |-> "none", of |-> Listener]
NoReply == "none"
NoRequest == "none"

\* A request for the state, and any other that has an answer: a command, known or not, an
\* empty type or one that is not supported.  Malformed is a message that is no JSON, that
\* has no type or command, or one that is no string.
Answerable == {"state", "command"}
Requests == Answerable \cup {"malformed"}

Unknown == "unknown"

Lights(power, run, ready) == [power |-> power, run |-> run, ready |-> ready]

RemoteInit ==
    /\ server = "none" /\ guard = "free" /\ ruler = "idle"
    /\ doListen = FALSE
    /\ connections = {} /\ webs = {}
    /\ sockets = [c \in Client \cup {Listener} |-> "none"]
    /\ wants = [c \in Client |-> NoRequest]
    /\ event = NoEvent /\ reply = NoReply
    /\ latest = "MachineSwitchedOff" /\ lastMachineEvent = "MachineSwitchedOff"
    /\ inbox = <<>>
    /\ lights = Lights(FALSE, FALSE, FALSE)
    /\ worker = "pulls"
    /\ view = [c \in Client |-> Unknown]
    /\ overtaken = {} /\ deaf = {} /\ garbled = 0 /\ refused = FALSE
    /\ notices = 0 /\ asked = 0
-----------------------------------------------------------------------------
\* The state that a message tells for an event.
Converted(e) ==
    CASE e = "MachineSwitchedOff" -> "off"
      [] e = "MachineStopped" -> "stopped"
      [] e \in {"MachineHeatingUp", "MachineStarting"} -> "starting"
      [] e = "MachineRunning" -> "running"
      [] e = "MachineError" -> "error"

LightsFor(e) ==
    CASE e \in {"MachineError", "MachineSwitchedOff"} -> Lights(FALSE, FALSE, FALSE)
      [] e = "MachineStopped" -> Lights(TRUE, FALSE, FALSE)
      [] e \in {"MachineHeatingUp", "MachineStarting"} -> Lights(TRUE, TRUE, FALSE)
      [] e = "MachineRunning" -> Lights(TRUE, TRUE, TRUE)

\* handleEventMessage: a full queue refuses the event, and nobody is told.
Pushed(e) == IF Len(inbox) + 1 < MaxInbox THEN Append(inbox, e) ELSE inbox

\* The IO thread of the component receives a notification of the machine.
Notified(e) ==
    /\ notices < MaxNotices
    /\ notices' = notices + 1
    /\ latest' = e
    /\ inbox' = Pushed(e)
    /\ refused' = (inbox' = inbox)
    /\ UNCHANGED <<lastMachineEvent, lights, worker, serverVars, guard, talkVars>>

\* handleMachineStateChange up to the message, which is composed after the control was
\* asked for the speed.  Whatever it answers, the message says 0.
HandlesStateChange ==
    /\ worker = "pulls"
    /\ inbox # <<>>
    /\ inbox' = Tail(inbox)
    /\ lastMachineEvent' = Head(inbox)
    /\ lights' = LightsFor(Head(inbox))
    /\ worker' = "notifies"
    /\ UNCHANGED <<latest, refused, notices, serverVars, guard, talkVars>>

\* sendNotification: the worker takes the mutex and goes through the connections.
LocksConnections ==
    /\ worker = "notifies"
    /\ guard = "free"
    /\ guard' = "worker"
    /\ worker' = "sends"
    /\ UNCHANGED <<latest, inbox, lastMachineEvent, lights, refused, notices,
                   serverVars, talkVars>>

\* Faulty variant: the worker goes on with the mutex.
KeepsGuard == guard

GuardAfterSending == "free"

\* Faulty variant: a client that is about to get a reply is passed over.
IdleReceivers == IF server = "ended" THEN {} ELSE webs \ {event.of}

\* The message is composed for every open websocket, but without a thread that polls it
\* stays in the buffers of mongoose.
Receivers == IF server = "ended" THEN {} ELSE webs

\* mongoose is not made for two threads: the message to a connection that the other
\* thread is busy with may be lost.
SendsNotification ==
    /\ worker = "sends"
    /\ \E lost \in SUBSET Receivers :
          LET told == Receivers \ lost IN
          /\ lost # {} => server = "polls" /\ garbled < MaxGarbled
          /\ garbled' = IF lost = {} THEN garbled ELSE garbled + 1
          /\ view' = [c \in Client |-> IF c \in told THEN Converted(lastMachineEvent)
                                       ELSE view[c]]
          /\ deaf' = (deaf \ told) \cup lost
          /\ overtaken' = (overtaken \ told) \cup
                          (IF server = "replies" /\ event.kind = "state" THEN {event.of} ELSE {})
    /\ guard' = GuardAfterSending
    /\ worker' = "pulls"
    /\ UNCHANGED <<latest, inbox, lastMachineEvent, lights, refused, notices, serverVars>>
-----------------------------------------------------------------------------
\* start: the mutex is held while the thread is started.
StartsServer ==
    /\ ruler = "idle" /\ server = "none"
    /\ guard = "free"
    /\ server' = "created"
    /\ UNCHANGED <<uiVars, guard, ruler, doListen, connections, webs, sockets, wants, event,
                   reply, asked, talkVars>>

\* listen: a failure ends the thread, and start has already returned true.
Listens ==
    /\ server = "created"
    /\ \/ /\ server' = "ended"
          /\ UNCHANGED <<sockets, event>>
       \/ /\ sockets' = [sockets EXCEPT ![Listener] = "http"]
          /\ event' = [kind |-> "open", of |-> Listener]
          /\ server' = "polls"
    /\ UNCHANGED <<uiVars, guard, ruler, doListen, connections, webs, reply, wants, asked,
                   talkVars>>

\* The loop begins, whatever stop has said before.
BeginsLoop ==
    /\ server = "polls"
    /\ event.kind = "listening"
    /\ doListen' = TRUE
    /\ event' = NoEvent
    /\ UNCHANGED <<uiVars, server, guard, ruler, connections, webs, sockets, reply, wants,
                   asked, talkVars>>

\* Between two polls the thread looks at m_doListen.
ChecksListen ==
    /\ server = "polls"
    /\ event = NoEvent
    /\ ~doListen
    /\ connections' = {}
    /\ webs' = {}
    /\ server' = "ended"
    /\ UNCHANGED <<uiVars, guard, ruler, doListen, sockets, event, reply, wants, asked,
                   talkVars>>

\* A client sends a request, whether or not anybody still polls its websocket.
Asks(c, kind) ==
    /\ sockets[c] = "web"
    /\ wants[c] = NoRequest
    /\ asked < MaxAsked
    /\ wants' = [wants EXCEPT ![c] = kind]
    /\ asked' = asked + 1
    /\ UNCHANGED <<uiVars, server, guard, ruler, doListen, connections, webs, sockets, event,
                   reply, talkVars>>

\* What mongoose reports next: a connection, an upgrade of it, its end.
Reports(c, kind) ==
    /\ server = "polls"
    /\ event = NoEvent
    /\ \/ kind = "open" /\ sockets[c] = "none"
       \/ kind = "upgrade" /\ sockets[c] = "http"
       \/ kind = "close" /\ sockets[c] \in {"http", "web"}
       \/ kind = "closing" /\ c \in webs
    /\ event' = [kind |-> kind, of |-> c]
    /\ sockets' = IF kind = "open" THEN [sockets EXCEPT ![c] = "http"] ELSE sockets
    /\ UNCHANGED <<uiVars, server, guard, ruler, doListen, connections, webs, reply, wants,
                   asked, talkVars>>

\* Or the message that a client sent.
ReportsRequest(c) ==
    /\ server = "polls"
    /\ event = NoEvent
    /\ sockets[c] = "web"
    /\ wants[c] # NoRequest
    /\ event' = [kind |-> wants[c], of |-> c]
    /\ wants' = [wants EXCEPT ![c] = NoRequest]
    /\ UNCHANGED <<uiVars, server, guard, ruler, doListen, connections, webs, sockets, reply,
                   asked, talkVars>>

\* Every handler takes the mutex, if only to look for its connection.
Guarded == guard = "free"

Handles(kind) == server = "polls" /\ event.kind = kind /\ Guarded

Opened(c) == connections \cup {c}

HandlesOpen ==
    /\ Handles("open")
    /\ connections' = Opened(event.of)
    /\ webs' = webs \ {event.of}
    /\ event' = IF event.of = Listener THEN [event EXCEPT !.kind = "listening"] ELSE NoEvent
    /\ UNCHANGED <<uiVars, server, guard, ruler, doListen, sockets, reply, wants, asked,
                   talkVars>>

HandlesUpgrade ==
    /\ Handles("upgrade")
    /\ sockets' = [sockets EXCEPT ![event.of] = "web"]
    /\ webs' = webs \cup {event.of}
    /\ event' = NoEvent
    /\ UNCHANGED <<uiVars, server, guard, ruler, doListen, connections, reply, wants, asked,
                   talkVars>>

\* The client announces the end of its websocket; mongoose closes the connection.
HandlesClosing ==
    /\ Handles("closing")
    /\ webs' = webs \ {event.of}
    /\ event' = [event EXCEPT !.kind = "close"]
    /\ UNCHANGED <<uiVars, server, guard, ruler, doListen, connections, sockets, reply,
                   wants, asked, talkVars>>

Closed(c) == connections \ {c}

\* Afterwards mongoose frees the connection, with what it had not read.
HandlesClose ==
    /\ Handles("close")
    /\ connections' = Closed(event.of)
    /\ webs' = webs \ {event.of}
    /\ sockets' = [sockets EXCEPT ![event.of] = "gone"]
    /\ wants' = [c \in Client |-> IF c = event.of THEN NoRequest ELSE wants[c]]
    /\ event' = NoEvent
    /\ UNCHANGED <<uiVars, server, guard, ruler, doListen, reply, asked, talkVars>>

\* receiveRequest, without the mutex: what the control of the machine has to say is waited
\* for; nothing is waited for that is not supported.
HandlesRequest ==
    /\ server = "polls"
    /\ event.kind \in Answerable
    /\ Guarded
    /\ server' = "asks"
    /\ UNCHANGED <<uiVars, guard, ruler, doListen, connections, webs, sockets, wants, event,
                   reply, asked, talkVars>>

\* A malformed message throws where it is parsed or where receiveRequest looks for its
\* type or command.  Nothing catches that before the thread, which ends: the flag of the
\* loop and the connections stay as they are.
ThrowsOut ==
    /\ Handles("malformed")
    /\ server' = "ended"
    /\ event' = NoEvent
    /\ UNCHANGED <<uiVars, guard, ruler, doListen, connections, webs, sockets, reply, wants,
                   asked, talkVars>>

\* The control has answered, or has not.
Replies ==
    /\ server = "asks"
    /\ \/ event.kind = "state" /\ reply' = Converted(lastMachineEvent)
       \/ event.kind = "command" /\ reply' \in {"success", "error"}
    /\ server' = "replies"
    /\ UNCHANGED <<uiVars, guard, ruler, doListen, connections, webs, sockets, wants, event,
                   asked, talkVars>>

SendsReply ==
    /\ server = "replies"
    /\ view' = IF event.kind = "state" THEN [view EXCEPT ![event.of] = reply] ELSE view
    /\ deaf' = IF event.kind = "state" THEN deaf \ {event.of} ELSE deaf
    /\ reply' = NoReply
    /\ event' = NoEvent
    /\ server' = "polls"
    /\ UNCHANGED <<uiVars, guard, ruler, doListen, connections, webs, sockets, wants, asked,
                   overtaken, garbled>>
-----------------------------------------------------------------------------
\* stop: under the mutex, and only when there is a thread.
StopsServer ==
    /\ ruler = "idle"
    /\ guard = "free"
    /\ server # "none"
    /\ doListen' = FALSE
    /\ guard' = "ruler"
    /\ ruler' = "joins"
    /\ UNCHANGED <<uiVars, server, connections, webs, sockets, event, reply, wants, asked,
                   talkVars>>

JoinsServer ==
    /\ ruler = "joins"
    /\ server = "ended"
    /\ ruler' = "frees"
    /\ UNCHANGED <<uiVars, server, guard, doListen, connections, webs, sockets, wants, event,
                   reply, asked, talkVars>>

\* mg_mgr_free reports the end of every connection that is left, to a handler that
\* waits for the mutex its own thread holds.
FreesManager ==
    /\ ruler = "frees"
    /\ \A c \in DOMAIN sockets : sockets[c] \in {"none", "gone"}
    /\ ruler' = "stopped"
    /\ guard' = "free"
    /\ UNCHANGED <<uiVars, server, doListen, connections, webs, sockets, event, reply,
                   wants, asked, talkVars>>

WorkerDoes == HandlesStateChange \/ LocksConnections \/ SendsNotification
ServerDoes ==
    \/ Listens \/ BeginsLoop \/ ChecksListen
    \/ HandlesOpen \/ HandlesUpgrade \/ HandlesClosing \/ HandlesClose
    \/ HandlesRequest \/ ThrowsOut \/ Replies \/ SendsReply
    \/ \E c \in Client : ReportsRequest(c)
RulerDoes == JoinsServer \/ FreesManager

RemoteNext ==
    \/ \E e \in MachineEvent : Notified(e)
    \/ \E c \in Client, kind \in {"open", "upgrade", "close", "closing"} : Reports(c, kind)
    \/ \E c \in Client, kind \in Requests : Asks(c, kind)
    \/ WorkerDoes \/ ServerDoes \/ RulerDoes
    \/ StartsServer \/ StopsServer

\* A thread goes on when it can; nothing has to connect, to ask or to stop.
RemoteFairness ==
    /\ WF_remoteVars(WorkerDoes)
    /\ WF_remoteVars(ServerDoes)
    /\ WF_remoteVars(RulerDoes)

RemoteSpec == RemoteInit /\ [][RemoteNext]_remoteVars /\ RemoteFairness
-----------------------------------------------------------------------------
\* The variables have their types; the queue stays below its bound, and only an open
\* connection is a websocket.
RemoteTypeOK ==
    /\ server \in {"none", "created", "polls", "asks", "replies", "ended"}
    /\ guard \in {"free", "worker", "ruler"}
    /\ ruler \in {"idle", "joins", "frees", "stopped"}
    /\ doListen \in BOOLEAN
    /\ connections \subseteq Client \cup {Listener}
    /\ webs \subseteq connections \cap Client
    /\ sockets \in [Client \cup {Listener} -> {"none", "http", "web", "gone"}]
    /\ wants \in [Client -> Requests \cup {NoRequest}]
    /\ Len(inbox) < MaxInbox
    /\ worker \in {"pulls", "notifies", "sends"}
    /\ guard = "worker" <=> worker = "sends"
    /\ view \in [Client -> {Unknown, "off", "stopped", "starting", "running", "error"}]

\* A handler finds the connection of its event: the assertion in getConnection holds.
EventHasConnection ==
    event.kind \notin {"none", "open"} => event.of \in connections

\* Whatever the worker may send to is a connection that mongoose has not freed.
ConnectionsLive == \A c \in connections : sockets[c] \in {"http", "web"}

\* While the worker goes through the connections no other thread changes the map, the
\* unguarded clear() at the end of the loop included.
UndisturbedWhileSending == [][guard = "worker" => connections' = connections]_remoteVars

Settled == inbox = <<>> /\ worker = "pulls" /\ server \notin {"asks", "replies"}

\* When nothing is under way the lights show the machine's last notification, unless it
\* found the queue full, and each client was last told the same state, unless a newer
\* message overtook the reply to its own request or was lost between the threads, or the
\* thread that sends has ended: the lights go on, the pages show what they showed.
ViewIsCurrent ==
    Settled =>
      /\ refused \/ lastMachineEvent = latest
      /\ lights = LightsFor(lastMachineEvent)
      /\ server # "ended" => \A c \in webs \ (overtaken \cup deaf) :
            view[c] \in {Unknown, Converted(lastMachineEvent)}

\* A client that sent a request which has an answer, or whose request is being handled.
AwaitsAnswer(c) ==
    \/ wants[c] \in Answerable
    \/ event.kind \in Answerable /\ event.of = c

\* Every request that can be understood is answered, whoever else connects, asks, closes
\* or is sent to meanwhile, unless the server is being stopped or its thread has ended:
\* one malformed message, of any client, leaves all others without an answer for good
\* (Connection.cpp:125, UserInterfaceControl.cpp:91, Thread.cpp:89).
Asked == \E c \in Client : AwaitsAnswer(c)
Answered == (\A c \in Client : ~AwaitsAnswer(c)) \/ guard = "ruler" \/ server = "ended"
RequestsAnswered == Asked ~> Answered

\* Every notification gets to the lights, and through the connections to the library
\* that sends it, unless the server is stopped.
Noticed == inbox # <<>>
Shown == Settled \/ guard = "ruler"
NoticesShown == Noticed ~> Shown

\* What holds of the web interface at any time: handlers and worker use connections that
\* exist, and clients and lights show the machine's state.
RemoteInvariant == RemoteTypeOK /\ EventHasConnection /\ ConnectionsLive /\ ViewIsCurrent
=============================================================================
