---------------------------- MODULE MessageBroker ----------------------------
(***************************************************************************)
(* Requests between message brokers.  Each broker has one client socket,   *)
(* used by the threads of its component one at a time, and one server      *)
(* socket, served by its IO thread.  The sockets are those of ZeroMQ: a    *)
(* request socket that has sent a request does nothing else until it has   *)
(* received the answer.                                                    *)
(***************************************************************************)
EXTENDS Naturals, Sequences, SequencesExt

CONSTANTS
    Broker,
    Plans,          \* what the worker of each broker asks, one after the other
    Handlers,       \* whom the request handler of a broker asks, and whether it
                    \* stops at the first failure
    MaxTimeouts     \* bound: requests whose answer takes too long

Identifiers == Broker \cup {"unknown"}

\* A service identifier goes with the address it is sent to, which need not be that of
\* the component that knows it.
RequestIds == [to : Broker, id : Identifiers]

ASSUME BrokerAssumption ==
    /\ Broker \cap {"nobody", "unknown"} = {}
    /\ Plans \subseteq [Broker -> Seq(RequestIds)]
    /\ Handlers \in [Broker -> [asks : Seq(Broker), stops : BOOLEAN]]
    \* a handler that does not stop at a failure forwards, to one receiver
    /\ \A b \in Broker : Handlers[b].stops \/ Len(Handlers[b].asks) <= 1
    /\ MaxTimeouts \in Nat

VARIABLES
    plan,           \* what each worker has still to ask
    call,           \* the call of send that each thread is in
    holder,         \* the thread that holds m_mutexClient, or "none"
    awaiting,       \* the client socket has sent a request and waits for the answer
    peers,          \* the brokers that the client socket is connected to
    sequence,       \* m_sequenceNumber
    inbox,          \* requests that reached the server socket
    serving,        \* the request that the IO thread handles
    answers,        \* answers that reached the client socket
    handled,        \* history: the requests that a handler has processed
    outcomes,       \* history: how the calls of send ended
    timeouts

brokerVars == <<plan, call, holder, awaiting, peers, sequence, inbox, serving, answers,
                handled, outcomes, timeouts>>

Caller == {"worker", "io"}
Results == {"Success", "UnsupportedRequest"}

\* A request is known by who sent it with which sequence number; its id says whose
\* handler it is for.
Requests == [from : Broker, seq : Nat, id : Identifiers]
NoRequest == [from |-> "nobody", seq |-> 0, id |-> "unknown"]

NoCall == [stage |-> "none", to |-> "nobody", request |-> NoRequest, cause |-> NoRequest]
Idle == [request |-> NoRequest, rest |-> <<>>, result |-> "Success"]

BrokerInit ==
    /\ plan \in Plans
    /\ call = [b \in Broker |-> [t \in Caller |-> NoCall]]
    /\ holder = [b \in Broker |-> "none"]
    /\ awaiting = [b \in Broker |-> FALSE]
    /\ peers = [b \in Broker |-> {}]
    /\ sequence = [b \in Broker |-> 0]
    /\ inbox = [b \in Broker |-> <<>>]
    /\ serving = [b \in Broker |-> Idle]
    /\ answers = [b \in Broker |-> {}]
    /\ handled = {}
    /\ outcomes = {}
    /\ timeouts = 0
-----------------------------------------------------------------------------
Calling(b, t) == call[b][t].stage # "none"
Serving(b) == serving[b] # Idle

\* A thread of b enters send.
Enters(b, t, to, id, cause) ==
    call' = [call EXCEPT ![b][t] =
                [stage |-> "entered", to |-> to,
                 request |-> [from |-> b, seq |-> 0, id |-> id], cause |-> cause]]

\* The worker of b sends its next request.
Asks(b) ==
    /\ plan[b] # <<>>
    /\ ~Calling(b, "worker")
    /\ Enters(b, "worker", Head(plan[b]).to, Head(plan[b]).id, NoRequest)
    /\ plan' = [plan EXCEPT ![b] = Tail(@)]
    /\ UNCHANGED <<holder, awaiting, peers, sequence, inbox, serving, answers, handled,
                   outcomes, timeouts>>

\* The request handler of b sends its next request.
HandlerAsks(b) ==
    /\ Serving(b)
    /\ serving[b].rest # <<>>
    /\ ~Calling(b, "io")
    /\ LET to == Head(serving[b].rest) IN Enters(b, "io", to, to, serving[b].request)
    /\ serving' = [serving EXCEPT ![b].rest = Tail(@)]
    /\ UNCHANGED <<plan, holder, awaiting, peers, sequence, inbox, answers, handled,
                   outcomes, timeouts>>

\* What the handler of b has still to ask after a call.
Remaining(b, succeeded) ==
    IF Handlers[b].stops /\ ~succeeded THEN <<>> ELSE serving[b].rest

\* How a call ends: with the request that was sent, the result in the response (a
\* response that was never filled in says Success), and why it failed, if it did.
\* The handler takes the result for its own answer.
Ends(b, t, request, response, failure) ==
    /\ call' = [call EXCEPT ![b][t] = NoCall]
    /\ outcomes' = outcomes \cup
          {[request |-> request, to |-> call[b][t].to, cause |-> call[b][t].cause,
            response |-> response, failure |-> failure]}
    /\ IF t = "io"
       THEN serving' = [serving EXCEPT
               ![b].result = response.result,
               ![b].rest = Remaining(b, failure = "none" /\ response.result = "Success")]
       ELSE UNCHANGED serving

NoResponse == [request |-> NoRequest, by |-> "nobody", result |-> "Success"]

\* The lock ends with the call.
Unlocked(b, t) == [holder EXCEPT ![b] = "none"]

\* send: lock the mutex, connect, and send the request with the next sequence number.
\* A socket that waits for an answer refuses it; the connection stays.
Sends(b, t) ==
    /\ call[b][t].stage = "entered"
    /\ holder[b] = "none"
    /\ LET to == call[b][t].to
           request == [call[b][t].request EXCEPT !.seq = sequence[b]]
       IN  /\ peers' = [peers EXCEPT ![b] = @ \cup {to}]
           /\ sequence' = [sequence EXCEPT ![b] = @ + 1]
           /\ \/ /\ ~awaiting[b]
                 /\ holder' = [holder EXCEPT ![b] = t]
                 /\ awaiting' = [awaiting EXCEPT ![b] = TRUE]
                 /\ \E p \in peers'[b] : inbox' = [inbox EXCEPT ![p] = Append(@, request)]
                 /\ call' = [call EXCEPT ![b][t].stage = "sent", ![b][t].request = request]
                 /\ UNCHANGED <<serving, outcomes>>
              \/ /\ awaiting[b]
                 /\ Ends(b, t, request, NoResponse, "refused")
                 /\ holder' = Unlocked(b, t)
                 /\ UNCHANGED <<awaiting, inbox>>
    /\ UNCHANGED <<plan, answers, handled, timeouts>>

\* The connection is undone.
PeersAfter(b, to) == [peers EXCEPT ![b] = @ \ {to}]

\* The answer is there: the socket is free again, and disconnected.
Receives(b, t) ==
    /\ call[b][t].stage = "sent"
    /\ \E a \in answers[b] :
          /\ answers' = [answers EXCEPT ![b] = @ \ {a}]
          /\ Ends(b, t, call[b][t].request, a, "none")
    /\ awaiting' = [awaiting EXCEPT ![b] = FALSE]
    /\ peers' = PeersAfter(b, call[b][t].to)
    /\ holder' = [holder EXCEPT ![b] = "none"]
    /\ UNCHANGED <<plan, sequence, inbox, handled, timeouts>>

\* Faulty variant: the time-out frees the socket for the next request.
FreedSocket(b) == [awaiting EXCEPT ![b] = FALSE]

\* The socket goes on waiting after a time-out.
SocketAfterTimeout(b) == awaiting

\* The answer takes longer than MaxMessageTransmissionTime: the call ends.
TimesOut(b, t) ==
    /\ call[b][t].stage = "sent"
    /\ timeouts < MaxTimeouts
    /\ timeouts' = timeouts + 1
    /\ Ends(b, t, call[b][t].request, NoResponse, "timeout")
    /\ awaiting' = SocketAfterTimeout(b)
    /\ holder' = [holder EXCEPT ![b] = "none"]
    /\ UNCHANGED <<plan, peers, sequence, inbox, answers, handled>>

\* The IO thread of b receives a request and looks for its handler.
Serves(b) ==
    /\ ~Serving(b)
    /\ inbox[b] # <<>>
    /\ inbox' = [inbox EXCEPT ![b] = Tail(@)]
    /\ LET request == Head(inbox[b])
       IN  \/ /\ request.id = b
              /\ serving' = [serving EXCEPT ![b] = [request |-> request,
                                rest |-> Handlers[b].asks, result |-> "Success"]]
              /\ handled' = handled \cup {request}
           \/ /\ request.id # b
              /\ serving' = [serving EXCEPT ![b] = [request |-> request,
                                rest |-> <<>>, result |-> "UnsupportedRequest"]]
              /\ UNCHANGED handled
    /\ UNCHANGED <<plan, call, holder, awaiting, peers, sequence, answers, outcomes, timeouts>>

\* The answer refers to the request and goes to who sent it.
Answer(b) ==
    [request |-> serving[b].request, by |-> b, result |-> serving[b].result]

Replies(b) ==
    /\ Serving(b)
    /\ serving[b].rest = <<>>
    /\ ~Calling(b, "io")
    /\ answers' = [answers EXCEPT ![serving[b].request.from] = @ \cup {Answer(b)}]
    /\ serving' = [serving EXCEPT ![b] = Idle]
    /\ UNCHANGED <<plan, call, holder, awaiting, peers, sequence, inbox, handled, outcomes,
                   timeouts>>

CallerStep(b, t) == Sends(b, t) \/ Receives(b, t)
IoStep(b) == Serves(b) \/ HandlerAsks(b) \/ Replies(b)

BrokerNext ==
    \E b \in Broker :
       \/ Asks(b)
       \/ IoStep(b)
       \/ \E t \in Caller : CallerStep(b, t) \/ TimesOut(b, t)

\* Threads run; nobody can take the mutex for ever, as the plans are finite.
BrokerFairness ==
    \A b \in Broker :
       /\ WF_brokerVars(IoStep(b))
       /\ \A t \in Caller : WF_brokerVars(CallerStep(b, t))

BrokerSpec == BrokerInit /\ [][BrokerNext]_brokerVars /\ BrokerFairness
-----------------------------------------------------------------------------
\* The variables have their types; the mutex is held exactly while a request is under
\* way, and only then is an answer of the socket taken.
BrokerTypeOK ==
    /\ plan \in [Broker -> Seq(RequestIds)]
    /\ holder \in [Broker -> Caller \cup {"none"}]
    /\ awaiting \in [Broker -> BOOLEAN]
    /\ peers \in [Broker -> SUBSET Broker]
    /\ sequence \in [Broker -> Nat]
    /\ \A b \in Broker :
          /\ \A t \in Caller :
                /\ call[b][t].stage \in {"none", "entered", "sent"}
                /\ call[b][t].stage = "sent" <=> holder[b] = t
                /\ call[b][t].stage = "sent" => awaiting[b]
          /\ inbox[b] \in Seq(Requests)
          /\ serving[b].request \in Requests \cup {NoRequest}
          /\ serving[b].result \in Results
    /\ handled \subseteq Requests
    /\ timeouts \in 0..MaxTimeouts

\* Whatever times out, the answer that a call returns is the one to its own request,
\* by the broker that it asked (MessageBroker::send, one socket for all peers).
AnswersMatch ==
    \A o \in outcomes :
       o.failure = "none" => /\ o.response.request = o.request
                             /\ o.response.by = o.to

Succeeded(o) == o.failure = "none" /\ o.response.result = "Success"

\* A request that a component answered with Success has been handled by all that its
\* handler asks, unless one of those calls was refused or ran out of time: then the
\* response that nobody filled in stands for Success (ServiceComponent::forward,
\* MachineControl::onRequestIncreaseMotorSpeed).
SuccessMeansHandled ==
    \A o \in outcomes :
       Succeeded(o) =>
          /\ o.request \in handled
          /\ LET made == {p \in outcomes : p.cause = o.request}
             IN  \/ {p.to : p \in {q \in made : Succeeded(q)}} = ToSet(Handlers[o.to].asks)
                 \/ \E p \in made : p.failure # "none"

\* Every call of send returns, whichever threads of whichever components call: again
\* and again no call is under way.
CallsEnd == []<>(\A b \in Broker, t \in Caller : ~Calling(b, t))

\* A call fails only by its own time-out.  The code does not keep this: after one
\* time-out the socket refuses every later request.
FailsOnlyByItsOwnTimeout == \A o \in outcomes : o.failure # "refused"

\* What holds of requests at any time: an answer belongs to its request and means what it
\* says, time-outs and late answers included.
BrokerInvariant == BrokerTypeOK /\ AnswersMatch /\ SuccessMeansHandled
=============================================================================
