---------------------------- MODULE ServiceGateway ----------------------------
(***************************************************************************)
(* The service gateway: JSON-RPC clients outside the machine send letters  *)
(* to its reply socket; its thread turns a request into one to the broker  *)
(* of a component, waits for the answer, and responds.  A reply socket     *)
(* that has received a letter receives nothing else until it has replied.  *)
(***************************************************************************)
EXTENDS MessageBroker, FiniteSets

CONSTANTS
    GatewayBroker,  \* the broker of the gateway itself, one of Broker
    Letter,         \* what clients send: [kind, to, id], each at most once
    MaxLetters      \* bound: how many of them

\* Of a letter that is a request the method names a receiver and a message.  Others have
\* a method without two parts, expect no response, or cannot be read.
Kind == {"request", "unformatted", "notification", "garbage", "empty", "invalid"}

ASSUME GatewayAssumption ==
    /\ GatewayBroker \in Broker
    \* the gateway has no handler of its own, and asks nothing but for its clients
    /\ Handlers[GatewayBroker].asks = <<>>
    /\ \A asked \in Plans : asked[GatewayBroker] = <<>>
    /\ Letter \subseteq [kind : Kind, to : Broker, id : Identifiers]
    /\ MaxLetters \in Nat

VARIABLES
    letters,        \* what waits at the socket
    arrived,        \* history: the letters that were sent
    reading,        \* the letters that the thread is at: one or none
    owes,           \* the socket has received a letter and not replied
    gatewayThread,  \* "running", or "ended" by an exception
    responses       \* history: the responses

gatewayVars == <<letters, arrived, reading, owes, gatewayThread, responses>>

GatewayInit ==
    /\ letters = <<>> /\ arrived = {} /\ reading = {}
    /\ owes = FALSE
    /\ gatewayThread = "running"
    /\ responses = {}
-----------------------------------------------------------------------------
Arrives(l) ==
    /\ l \notin arrived
    /\ Cardinality(arrived) < MaxLetters
    /\ arrived' = arrived \cup {l}
    /\ letters' = Append(letters, l)
    /\ UNCHANGED <<brokerVars, reading, owes, gatewayThread, responses>>

\* A socket that owes a reply does not receive: the thread logs an error, and tries again.
ReceivesLetter ==
    /\ gatewayThread = "running"
    /\ reading = {} /\ ~owes
    /\ letters # <<>>
    /\ reading' = {Head(letters)}
    /\ letters' = Tail(letters)
    /\ owes' = TRUE
    /\ UNCHANGED <<brokerVars, arrived, gatewayThread, responses>>

Responds(l, type, code) ==
    /\ responses' = responses \cup {[to |-> l, type |-> type, code |-> code]}
    /\ owes' = FALSE
    /\ reading' = {}

\* An empty letter, a notification and one that is no JSON get no reply.
Unanswered(l) == l.kind \in {"empty", "notification", "garbage"}

GivesNoReply(l) ==
    /\ Unanswered(l)
    /\ reading' = {}
    /\ UNCHANGED <<brokerVars, letters, arrived, owes, gatewayThread, responses>>

\* JSON that is no JSON-RPC raises an exception that nobody but the thread catches.
ThrowsAt(l) ==
    /\ l.kind = "invalid"
    /\ gatewayThread' = "ended"
    /\ reading' = {}
    /\ UNCHANGED <<brokerVars, letters, arrived, owes, responses>>

RejectsMethod(l) ==
    /\ l.kind = "unformatted" /\ ~Unanswered(l)
    /\ Responds(l, "error", "InvalidMessage")
    /\ UNCHANGED <<brokerVars, letters, arrived, gatewayThread>>

\* The calls of send that the gateway has made, and the last one.
Forwarded(l) == {o \in outcomes : o.request.from = GatewayBroker /\ o.to = l.to}
LastOutcome == CHOOSE o \in outcomes : /\ o.request.from = GatewayBroker
                                       /\ o.request.seq = sequence[GatewayBroker] - 1

\* processRequestMessage calls send of the gateway's broker, once for each letter.
AsksComponent(l) ==
    /\ l.kind = "request"
    /\ ~Calling(GatewayBroker, "worker")
    /\ sequence[GatewayBroker] = Cardinality({r \in responses : r.to.kind = "request"})
    /\ Enters(GatewayBroker, "worker", l.to, l.id, NoRequest)
    /\ UNCHANGED <<plan, holder, awaiting, peers, sequence, inbox, serving, answers, handled,
                   outcomes, timeouts, gatewayVars>>

\* Faulty variant: any answer is good.
ResponseIfSent(o) == IF o.failure = "none" THEN "result" ELSE "error"

ResponseType(o) ==
    IF o.failure = "none" /\ o.response.result = "Success" THEN "result" ELSE "error"

\* The response has the result that send left in the message: Success when it failed.
RespondsFor(l) ==
    /\ l.kind = "request"
    /\ ~Calling(GatewayBroker, "worker")
    /\ sequence[GatewayBroker] > Cardinality({r \in responses : r.to.kind = "request"})
    /\ Responds(l, ResponseType(LastOutcome), LastOutcome.response.result)
    /\ UNCHANGED <<brokerVars, letters, arrived, gatewayThread>>

ProcessesLetter ==
    \E l \in reading :
       GivesNoReply(l) \/ ThrowsAt(l) \/ RejectsMethod(l) \/ AsksComponent(l) \/ RespondsFor(l)

GatewayDoes == ReceivesLetter \/ ProcessesLetter

GatewayNext ==
    \/ \E l \in Letter : Arrives(l)
    \/ GatewayDoes
    \/ BrokerNext /\ UNCHANGED gatewayVars

\* The thread of the gateway runs, and so do those of the brokers.
GatewayFairness == WF_<<brokerVars, gatewayVars>>(GatewayDoes)

GatewaySpec ==
    /\ BrokerInit /\ GatewayInit
    /\ [][GatewayNext]_<<brokerVars, gatewayVars>>
    /\ BrokerFairness /\ GatewayFairness
-----------------------------------------------------------------------------
\* The variables have their types; whoever reads a letter owes a reply.
GatewayTypeOK ==
    /\ letters \in Seq(Letter) /\ arrived \subseteq Letter
    /\ reading \subseteq Letter /\ Cardinality(reading) <= 1
    /\ reading # {} => owes
    /\ gatewayThread \in {"running", "ended"}
    /\ responses \subseteq [to : Letter, type : {"result", "error"},
                            code : Results \cup {"InvalidMessage"}]

\* A client that gets a result has had its message handled by the component that its
\* method named, whatever was late before; one that gets an error has not been told a
\* component's success (ServiceGateway.cpp:150-168), unless its call of send failed.
GatewayTellsTruth ==
    \A r \in responses :
       /\ r.type = "result" => \E o \in Forwarded(r.to) :
                                  /\ o.request.id = r.to.id
                                  /\ o.request \in handled /\ o.response.request = o.request
       /\ r.type = "error" /\ r.code = "Success" =>
             \E o \in Forwarded(r.to) : o.failure # "none"

Answered(l) == \E r \in responses : r.to = l

\* Again and again all that came is answered, be its method good or bad, unless a letter
\* that gets no reply or ends the thread came before: from then on nobody is answered
\* (Server.cpp:119-131).
LettersAnswered ==
    []<>(\A l \in arrived :
            \/ Answered(l)
            \/ \E k \in arrived : k.kind \notin {"request", "unformatted"})

\* What holds of the gateway at any time: a client is told what became of its own letter.
GatewayInvariant == GatewayTypeOK /\ GatewayTellsTruth
=============================================================================
