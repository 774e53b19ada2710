-------------------------- MODULE MessageBrokerProofs --------------------------
(***************************************************************************)
(* Requests between any number of brokers, whatever they ask and whoever   *)
(* runs out of time.  What makes an answer belong to its request is that   *)
(* a broker never has two requests on their way: the client socket sends   *)
(* only when nothing of an earlier request is left anywhere, and a socket  *)
(* whose call ran out of time sends nothing any more.                      *)
(***************************************************************************)
EXTENDS MessageBroker, TLAPS

-----------------------------------------------------------------------------
(* The inductive invariant. *)

Responses == [request : Requests \cup {NoRequest}, by : Broker \cup {"nobody"}, result : Results]

Calls == [stage : {"none", "entered", "sent"}, to : Broker \cup {"nobody"},
          request : Requests \cup {NoRequest}, cause : Requests \cup {NoRequest}]

Outcomes == [request : Requests, to : Broker, cause : Requests \cup {NoRequest},
             response : Responses, failure : {"none", "timeout", "refused"}]

\* What a thread asks is real, and the request handler asks only for what it serves.
CallsFit ==
    \A b \in Broker : \A t \in Caller :
        Calling(b, t) =>
            /\ call[b][t].to \in Broker
            /\ call[b][t].request \in Requests
            /\ call[b][t].request.from = b
            /\ t = "worker" => call[b][t].cause = NoRequest
            /\ t = "io" => /\ serving[b].request \in Requests
                           /\ serving[b].request.id = b
                           /\ call[b][t].cause = serving[b].request

TypeInv ==
    /\ BrokerTypeOK
    /\ call \in [Broker -> [Caller -> Calls]]
    /\ inbox \in [Broker -> Seq(Requests)]
    /\ serving \in [Broker -> [request : Requests \cup {NoRequest}, rest : Seq(Broker),
                               result : Results]]
    /\ \A b \in Broker : serving[b].request = NoRequest => serving[b] = Idle
    /\ answers \in [Broker -> SUBSET [request : Requests, by : Broker, result : Results]]
    /\ outcomes \subseteq Outcomes
    /\ CallsFit

\* The mutex is held exactly while a request is under way.
Guarded ==
    \A b \in Broker : \A t \in Caller :
        /\ call[b][t].stage \in {"none", "entered", "sent"}
        /\ call[b][t].stage = "sent" <=> holder[b] = t
        /\ call[b][t].stage = "sent" => awaiting[b]

\* The requests at each broker that it has not answered: the one it serves, then those
\* that reached its socket.
Pending ==
    [c \in Broker |->
        [i \in DOMAIN inbox[c] \cup (IF serving[c].request = NoRequest THEN {} ELSE {0}) |->
            IF i = 0 THEN serving[c].request ELSE inbox[c][i]]]

\* Of each broker one request, or the answer to it, is on its way.
OnePlace ==
    /\ \A c, d \in Broker : \A i \in DOMAIN Pending[c], j \in DOMAIN Pending[d] :
          Pending[c][i].from = Pending[d][j].from => c = d /\ i = j
    /\ \A c \in Broker : \A i \in DOMAIN Pending[c] : answers[Pending[c][i].from] = {}
    /\ \A b \in Broker : \A a, k \in answers[b] : a = k

\* Only while its socket waits; then it has one peer, unless it waits in vain.
OnlyWhileAwaiting ==
    /\ \A c \in Broker : \A i \in DOMAIN Pending[c] : awaiting[Pending[c][i].from]
    /\ \A b \in Broker : answers[b] # {} => awaiting[b]
    /\ \A b \in Broker : ~awaiting[b] => peers[b] = {}
    /\ \A b \in Broker, t \in Caller : holder[b] = t => peers[b] = {call[b][t].to}

\* What is on its way belongs to the thread that holds the mutex.
OfTheHolder ==
    /\ \A c \in Broker, t \in Caller : \A i \in DOMAIN Pending[c] :
          LET r == Pending[c][i] IN
          holder[r.from] = t => r = call[r.from][t].request /\ c = call[r.from][t].to
    /\ \A b \in Broker : \A a \in answers[b] :
          /\ a.request.from = b
          /\ \A t \in Caller :
                holder[b] = t => a.request = call[b][t].request /\ a.by = call[b][t].to

\* A request that is still to be sent gets a number that no other has.
Numbered ==
    /\ \A c \in Broker : \A i \in DOMAIN Pending[c] :
          Pending[c][i].seq < sequence[Pending[c][i].from]
    /\ \A b \in Broker : \A a \in answers[b] : a.request.seq < sequence[b]
    /\ \A b \in Broker, t \in Caller :
          call[b][t].stage = "sent" => call[b][t].request.seq < sequence[b]
    /\ \A o \in outcomes :
          /\ o.request.seq < sequence[o.request.from]
          /\ o.cause # NoRequest => o.cause.seq < sequence[o.cause.from]

\* No call was made for a request that waits, and none that was answered is pending.
Causes ==
    \A o \in outcomes : \A c \in Broker : \A i \in DOMAIN Pending[c] :
        /\ i # 0 => o.cause # Pending[c][i]
        /\ o.failure = "none" => o.request # Pending[c][i]

ToAsk(c) == ToSet(Handlers[c].asks)

\* What has been asked for r, by the handler of c, and how it ended.
AskedOnly(r, c) == \A p \in outcomes : p.cause = r => p.to \in ToAsk(c)
Reached(r, d) == \E p \in outcomes : p.cause = r /\ p.to = d /\ Succeeded(p)
Failed(r) == \E p \in outcomes : p.cause = r /\ p.failure # "none"

\* All that the handler of c asks for r has succeeded, or a call has failed.
Covered(r, c) == AskedOnly(r, c) /\ (Failed(r) \/ \A d \in ToAsk(c) : Reached(r, d))

AsksFor(c, d) == Calling(c, "io") /\ call[c]["io"].to = d

\* How far the handler of c is: what it is to ask it has reached, asks or has still to
\* ask, unless a call has failed or has been answered with another result.
HandlesAll(c) ==
    LET r == serving[c].request IN
    /\ r.id = c /\ r \in handled
    /\ AskedOnly(r, c)
    /\ ToSet(serving[c].rest) \subseteq ToAsk(c)
    /\ Calling(c, "io") => call[c]["io"].to \in ToAsk(c)
    /\ \/ Failed(r)
       \/ \A d \in ToAsk(c) : Reached(r, d) \/ d \in ToSet(serving[c].rest) \/ AsksFor(c, d)
       \/ /\ serving[c].result = "UnsupportedRequest"
          /\ serving[c].rest = <<>> /\ ~Calling(c, "io")
    /\ Handlers[c].stops \/ Len(serving[c].rest) <= 1
    /\ Handlers[c].stops \/ ~Calling(c, "io") \/ serving[c].rest = <<>>

Rejects(c) ==
    /\ serving[c].request.id # c
    /\ serving[c].result = "UnsupportedRequest"
    /\ serving[c].rest = <<>>

Covers ==
    /\ \A c \in Broker : serving[c].request # NoRequest => Rejects(c) \/ HandlesAll(c)
    /\ \A b \in Broker : \A a \in answers[b] :
          a.result = "Success" => a.request \in handled /\ Covered(a.request, a.by)
    /\ \A o \in outcomes : Succeeded(o) => o.request \in handled /\ Covered(o.request, o.to)

PlacesInv == OnePlace /\ OnlyWhileAwaiting /\ OfTheHolder /\ Numbered /\ Causes

BrokerIInv == TypeInv /\ PlacesInv /\ Covers /\ AnswersMatch

-----------------------------------------------------------------------------
(* What the operators do. *)

LEMMA ToSetOfTail ==
    ASSUME NEW s \in Seq(Broker), s # <<>>
    PROVE  /\ Head(s) \in Broker
           /\ Tail(s) \in Seq(Broker)
           /\ Len(Tail(s)) = Len(s) - 1
           /\ ToSet(s) = {Head(s)} \cup ToSet(Tail(s))
  <1>1. /\ Tail(s) \in Seq(Broker) /\ Head(s) = s[1] /\ 1 \in DOMAIN s
        /\ Len(Tail(s)) = Len(s) - 1
    OBVIOUS
  <1>2. \A i \in DOMAIN Tail(s) : i + 1 \in DOMAIN s /\ Tail(s)[i] = s[i + 1]
    OBVIOUS
  <1>3. \A i \in DOMAIN s : i = 1 \/ (i - 1 \in DOMAIN Tail(s) /\ Tail(s)[i - 1] = s[i])
    OBVIOUS
  <1>4. ToSet(s) \subseteq {Head(s)} \cup ToSet(Tail(s))
    BY <1>1, <1>3, ZenonT(60) DEF ToSet
  <1>5. {Head(s)} \cup ToSet(Tail(s)) \subseteq ToSet(s)
    BY <1>1, <1>2 DEF ToSet
  <1>6. QED
    BY <1>1, <1>4, <1>5

LEMMA ToSetOfNone == ToSet(<<>>) = {}
  BY DEF ToSet

\* A request reaches the socket of p.
Delivers(b, t, p) ==
    LET request == [call[b][t].request EXCEPT !.seq = sequence[b]] IN
    /\ call[b][t].stage = "entered"
    /\ holder[b] = "none"
    /\ ~awaiting[b]
    /\ peers' = [peers EXCEPT ![b] = @ \cup {call[b][t].to}]
    /\ p \in peers'[b]
    /\ sequence' = [sequence EXCEPT ![b] = @ + 1]
    /\ holder' = [holder EXCEPT ![b] = t]
    /\ awaiting' = [awaiting EXCEPT ![b] = TRUE]
    /\ inbox' = [inbox EXCEPT ![p] = Append(@, request)]
    /\ call' = [call EXCEPT ![b][t].stage = "sent", ![b][t].request = request]
    /\ UNCHANGED <<plan, serving, answers, handled, outcomes, timeouts>>

\* The socket refuses it.
Refuses(b, t) ==
    /\ call[b][t].stage = "entered"
    /\ holder[b] = "none"
    /\ awaiting[b]
    /\ peers' = [peers EXCEPT ![b] = @ \cup {call[b][t].to}]
    /\ sequence' = [sequence EXCEPT ![b] = @ + 1]
    /\ Ends(b, t, [call[b][t].request EXCEPT !.seq = sequence[b]], NoResponse, "refused")
    /\ holder' = [holder EXCEPT ![b] = "none"]
    /\ UNCHANGED <<plan, awaiting, inbox, answers, handled, timeouts>>

LEMMA SendsSplits ==
    ASSUME TypeInv, NEW b \in Broker, NEW t \in Caller, Sends(b, t)
    PROVE  Refuses(b, t) \/ \E p \in Broker : Delivers(b, t, p)
  <1> DEFINE to == call[b][t].to
             request == [call[b][t].request EXCEPT !.seq = sequence[b]]
  <1>1. to \in Broker
    BY DEF Sends, TypeInv, CallsFit, Calling
  <1>2. peers' = [peers EXCEPT ![b] = @ \cup {to}] /\ peers'[b] \subseteq Broker
    BY <1>1 DEF Sends, TypeInv, BrokerTypeOK
  <1>3. CASE awaiting[b]
    BY <1>3 DEF Sends, Refuses, Unlocked
  <1>4. CASE ~awaiting[b]
    <2>1. PICK p \in peers'[b] : inbox' = [inbox EXCEPT ![p] = Append(@, request)]
      BY <1>4 DEF Sends
    <2>2. Delivers(b, t, p)
      BY <1>4, <2>1 DEF Sends, Delivers
    <2>3. QED
      BY <1>2, <2>1, <2>2
  <1>5. QED
    BY <1>3, <1>4

-----------------------------------------------------------------------------
(* Types. *)

LEMMA Sentinels ==
    /\ NoRequest \notin Requests
    /\ NoCall \in Calls /\ NoCall.stage = "none"
    /\ NoResponse \in Responses
    /\ Idle.request = NoRequest
    /\ Idle \in [request : Requests \cup {NoRequest}, rest : Seq(Broker), result : Results]
    /\ "nobody" \notin Broker /\ "none" \notin Caller
  BY BrokerAssumption
     DEF NoRequest, Requests, NoCall, Calls, NoResponse, Responses, Idle, Results, Caller

\* What entering send changes.
LEMMA EnteringKeepsCalls ==
    ASSUME TypeInv, NEW b \in Broker, NEW t \in Caller, NEW to \in Broker,
           NEW id \in Identifiers, NEW cause \in Requests \cup {NoRequest},
           ~Calling(b, t), Enters(b, t, to, id, cause)
    PROVE  /\ call' \in [Broker -> [Caller -> Calls]]
           /\ call'[b][t].stage = "entered" /\ call'[b][t].to = to
           /\ call'[b][t].cause = cause
           /\ call'[b][t].request \in Requests /\ call'[b][t].request.from = b
           /\ \A c \in Broker : \A u \in Caller :
                 c # b \/ u # t => call'[c][u] = call[c][u]
  <1> DEFINE new == [stage |-> "entered", to |-> to, cause |-> cause,
                     request |-> [from |-> b, seq |-> 0, id |-> id]]
  <1>1. [from |-> b, seq |-> 0, id |-> id] \in Requests
    BY DEF Requests
  <1>2. new \in Calls
    BY <1>1 DEF Calls
  <1>3. call' = [call EXCEPT ![b][t] = new]
    BY DEF Enters
  <1>4. call \in [Broker -> [Caller -> Calls]]
    BY DEF TypeInv
  <1> HIDE DEF new
  <1>5. /\ call' \in [Broker -> [Caller -> Calls]]
        /\ call'[b][t] = new
        /\ \A c \in Broker : \A u \in Caller :
                 c # b \/ u # t => call'[c][u] = call[c][u]
    BY <1>2, <1>3, <1>4
  <1>6. /\ new.stage = "entered" /\ new.to = to /\ new.cause = cause
        /\ new.request \in Requests /\ new.request.from = b
    BY <1>1 DEF new
  <1>7. QED
    BY <1>5, <1>6

\* What the end of a call changes.
LEMMA EndingKeepsTypes ==
    ASSUME TypeInv, NEW b \in Broker, NEW t \in Caller, Calling(b, t),
           NEW request \in Requests, NEW response \in Responses,
           NEW failure \in {"none", "timeout", "refused"},
           Ends(b, t, request, response, failure)
    PROVE  /\ call' \in [Broker -> [Caller -> Calls]]
           /\ call'[b][t] = NoCall
           /\ \A c \in Broker : \A u \in Caller :
                 c # b \/ u # t => call'[c][u] = call[c][u]
           /\ serving' \in [Broker -> [request : Requests \cup {NoRequest},
                                       rest : Seq(Broker), result : Results]]
           /\ \A c \in Broker : serving'[c].request = serving[c].request
           /\ \A c \in Broker \ {b} : serving'[c] = serving[c]
           /\ t = "worker" => serving' = serving
           /\ t = "io" => /\ serving'[b].result = response.result
                          /\ serving'[b].rest =
                                Remaining(b, failure = "none" /\ response.result = "Success")
           /\ \A c \in Broker : serving'[c].request = NoRequest => serving'[c] = Idle
           /\ outcomes' \subseteq Outcomes
  <1> DEFINE rest == Remaining(b, failure = "none" /\ response.result = "Success")
             Servings == [request : Requests \cup {NoRequest}, rest : Seq(Broker),
                          result : Results]
             new == [serving[b] EXCEPT !.result = response.result, !.rest = rest]
             made == [request |-> request, to |-> call[b][t].to, cause |-> call[b][t].cause,
                      response |-> response, failure |-> failure]
  <1>1. /\ call' \in [Broker -> [Caller -> Calls]]
        /\ call'[b][t] = NoCall
        /\ \A c \in Broker : \A u \in Caller :
                 c # b \/ u # t => call'[c][u] = call[c][u]
    BY Sentinels DEF Ends, TypeInv
  <1>2. serving \in [Broker -> Servings]
    BY DEF TypeInv
  <1>3. outcomes' \subseteq Outcomes
    <2>1. call[b][t].to \in Broker /\ call[b][t].cause \in Requests \cup {NoRequest}
      BY DEF TypeInv, CallsFit, Calls
    <2>2. made \in Outcomes
      BY <2>1 DEF Outcomes
    <2>3. QED
      BY <2>2 DEF Ends, TypeInv
  <1>4. rest \in Seq(Broker) /\ response.result \in Results
    BY <1>2 DEF Remaining, Responses
  <1>5. new \in Servings /\ new.request = serving[b].request
        /\ new.result = response.result /\ new.rest = rest
    BY <1>2, <1>4
  <1>6. CASE t = "io"
    <2>1. serving' = [serving EXCEPT ![b] = new]
      BY <1>6, <1>2 DEF Ends
    <2>2. serving[b].request # NoRequest
      BY <1>6, Sentinels DEF TypeInv, CallsFit
    <2> HIDE DEF new, Servings, rest
    <2>3. /\ serving' \in [Broker -> Servings]
          /\ serving'[b] = new
          /\ \A c \in Broker \ {b} : serving'[c] = serving[c]
      BY <2>1, <1>2, <1>5
    <2>4. \A c \in Broker : serving'[c].request = NoRequest => serving'[c] = Idle
      BY <2>2, <2>3, <1>5 DEF TypeInv
    <2>5. QED
      BY <1>1, <1>3, <1>5, <1>6, <2>3, <2>4 DEF Servings, rest
  <1>7. CASE t = "worker"
    <2>1. serving' = serving
      BY <1>7 DEF Ends
    <2>2. QED
      BY <1>1, <1>2, <1>3, <1>7, <2>1 DEF TypeInv
  <1>8. QED
    BY <1>6, <1>7 DEF Caller

\* The worker of a broker enters send, for itself or for a client outside.
LEMMA WorkerEnteringKeepsTypes ==
    ASSUME TypeInv, NEW b \in Broker, NEW to \in Broker, NEW id \in Identifiers,
           ~Calling(b, "worker"), Enters(b, "worker", to, id, NoRequest),
           plan' \in [Broker -> Seq(RequestIds)],
           UNCHANGED <<holder, awaiting, peers, sequence, inbox, serving, answers, handled,
                       outcomes, timeouts>>
    PROVE  TypeInv'
  <1>1. "worker" \in Caller
    BY DEF Caller
  <1>2. /\ call' \in [Broker -> [Caller -> Calls]]
        /\ call'[b]["worker"].stage = "entered" /\ call'[b]["worker"].to = to
        /\ call'[b]["worker"].cause = NoRequest
        /\ call'[b]["worker"].request \in Requests
        /\ call'[b]["worker"].request.from = b
        /\ \A c \in Broker : \A u \in Caller :
              c # b \/ u # "worker" => call'[c][u] = call[c][u]
    BY <1>1, EnteringKeepsCalls
  <1>3. CallsFit'
    BY <1>2 DEF TypeInv, CallsFit, Calling
  <1>4. Guarded'
    <2> SUFFICES ASSUME NEW c \in Broker, NEW u \in Caller
                 PROVE  /\ call'[c][u].stage \in {"none", "entered", "sent"}
                        /\ call'[c][u].stage = "sent" <=> holder[c] = u
                        /\ call'[c][u].stage = "sent" => awaiting[c]
      BY DEF Guarded
    <2>1. CASE c = b /\ u = "worker"
      BY <1>2, <2>1 DEF TypeInv, BrokerTypeOK, Calling
    <2>2. CASE c # b \/ u # "worker"
      BY <1>2, <2>2, SMTT(30) DEF TypeInv, BrokerTypeOK
    <2>3. QED
      BY <2>1, <2>2
  <1>5. QED
    BY <1>2, <1>3, <1>4 DEF TypeInv, BrokerTypeOK, Guarded

LEMMA AsksKeepsTypes ==
    ASSUME TypeInv, NEW b \in Broker, Asks(b)
    PROVE  TypeInv'
  <1>1. plan \in [Broker -> Seq(RequestIds)]
    BY DEF TypeInv, BrokerTypeOK
  <1>2. Head(plan[b]) \in RequestIds /\ plan' \in [Broker -> Seq(RequestIds)]
    <2>1. Head(plan[b]) \in RequestIds /\ Tail(plan[b]) \in Seq(RequestIds)
      BY <1>1 DEF Asks
    <2>2. QED
      BY <1>1, <2>1 DEF Asks
  <1>3. Head(plan[b]).to \in Broker /\ Head(plan[b]).id \in Identifiers
    BY <1>2 DEF RequestIds
  <1>4. QED
    BY <1>2, <1>3, WorkerEnteringKeepsTypes DEF Asks

LEMMA HandlerAsksKeepsTypes ==
    ASSUME TypeInv, Covers, NEW b \in Broker, HandlerAsks(b)
    PROVE  /\ TypeInv'
           /\ serving[b].request \in Requests
           /\ serving'[b].request = serving[b].request
           /\ serving'[b].result = serving[b].result
           /\ serving'[b].rest = Tail(serving[b].rest)
           /\ \A c \in Broker \ {b} : serving'[c] = serving[c]
           /\ call'[b]["io"].stage = "entered"
           /\ call'[b]["io"].to = Head(serving[b].rest)
           /\ \A c \in Broker : \A u \in Caller :
                 c # b \/ u # "io" => call'[c][u] = call[c][u]
  <1> DEFINE to == Head(serving[b].rest)
             Servings == [request : Requests \cup {NoRequest}, rest : Seq(Broker),
                          result : Results]
             new == [serving[b] EXCEPT !.rest = Tail(@)]
  <1>1. serving \in [Broker -> Servings]
    BY DEF TypeInv
  <1>2. serving[b].request \in Requests
    BY <1>1, Sentinels DEF HandlerAsks, Serving, TypeInv
  <1>3. to \in Broker /\ Tail(serving[b].rest) \in Seq(Broker)
    BY <1>1, ToSetOfTail DEF HandlerAsks
  <1>4. new \in Servings /\ new.request = serving[b].request
        /\ new.result = serving[b].result /\ new.rest = Tail(serving[b].rest)
    BY <1>1, <1>3
  <1>5. serving' = [serving EXCEPT ![b] = new]
    BY <1>1 DEF HandlerAsks
  <1>6. serving[b].request.id = b
    BY <1>2, Sentinels DEF Covers, Rejects, HandlesAll, HandlerAsks
  <1> HIDE DEF Servings, new
  <1>7. /\ serving' \in [Broker -> Servings] /\ serving'[b] = new
        /\ \A c \in Broker \ {b} : serving'[c] = serving[c]
    BY <1>1, <1>4, <1>5
  <1>8. "io" \in Caller /\ to \in Identifiers
    BY <1>3 DEF Caller, Identifiers
  <1>9. /\ call' \in [Broker -> [Caller -> Calls]]
        /\ call'[b]["io"].stage = "entered" /\ call'[b]["io"].to = to
        /\ call'[b]["io"].cause = serving[b].request
        /\ call'[b]["io"].request \in Requests
        /\ call'[b]["io"].request.from = b
        /\ \A c \in Broker : \A u \in Caller :
              c # b \/ u # "io" => call'[c][u] = call[c][u]
    BY <1>2, <1>3, <1>8, EnteringKeepsCalls DEF HandlerAsks
  <1>10. \A c \in Broker : serving'[c].request = serving[c].request
    BY <1>4, <1>7
  <1>11. \A c \in Broker : serving'[c].request = NoRequest => serving'[c] = Idle
    BY <1>2, <1>4, <1>7, Sentinels DEF TypeInv
  <1>12. CallsFit'
    <2> SUFFICES ASSUME NEW c \in Broker, NEW u \in Caller, call'[c][u].stage # "none"
                 PROVE  /\ call'[c][u].to \in Broker
                        /\ call'[c][u].request \in Requests
                        /\ call'[c][u].request.from = c
                        /\ u = "worker" => call'[c][u].cause = NoRequest
                        /\ u = "io" => /\ serving'[c].request \in Requests
                                       /\ serving'[c].request.id = c
                                       /\ call'[c][u].cause = serving'[c].request
      BY DEF CallsFit, Calling
    <2>1. CASE c = b /\ u = "io"
      BY <1>2, <1>3, <1>6, <1>9, <1>10, <2>1
    <2>2. CASE c # b \/ u # "io"
      BY <1>9, <1>10, <2>2 DEF TypeInv, CallsFit, Calling
    <2>3. QED
      BY <2>1, <2>2
  <1>13. Guarded'
    <2> SUFFICES ASSUME NEW c \in Broker, NEW u \in Caller
                 PROVE  /\ call'[c][u].stage \in {"none", "entered", "sent"}
                        /\ call'[c][u].stage = "sent" <=> holder[c] = u
                        /\ call'[c][u].stage = "sent" => awaiting[c]
      BY DEF Guarded, HandlerAsks
    <2>1. CASE c = b /\ u = "io"
      BY <1>9, <2>1 DEF TypeInv, BrokerTypeOK, Calling, HandlerAsks
    <2>2. CASE c # b \/ u # "io"
      BY <1>9, <2>2, SMTT(30) DEF TypeInv, BrokerTypeOK
    <2>3. QED
      BY <2>1, <2>2
  <1>14. \A c \in Broker : serving'[c].request \in Requests \cup {NoRequest}
                           /\ serving'[c].result \in Results
    BY <1>7 DEF Servings
  <1>15. QED
    BY <1>2, <1>4, <1>7, <1>9, <1>11, <1>12, <1>13, <1>14
       DEF Servings, TypeInv, BrokerTypeOK, Guarded, HandlerAsks

\* A call ends, whatever happens to the socket besides.
LEMMA EndsKeepsTypes ==
    ASSUME TypeInv, NEW b \in Broker, NEW t \in Caller, Calling(b, t),
           NEW request \in Requests, NEW response \in Responses,
           NEW failure \in {"none", "timeout", "refused"},
           Ends(b, t, request, response, failure),
           holder[b] \in {t, "none"}, holder' = [holder EXCEPT ![b] = "none"],
           awaiting' \in [Broker -> BOOLEAN],
           \A c \in Broker \ {b} : awaiting'[c] = awaiting[c],
           peers' \in [Broker -> SUBSET Broker], sequence' \in [Broker -> Nat],
           answers' \in [Broker -> SUBSET [request : Requests, by : Broker, result : Results]],
           timeouts' \in 0..MaxTimeouts,
           UNCHANGED <<plan, inbox, handled>>
    PROVE  TypeInv'
  <1>1. /\ call' \in [Broker -> [Caller -> Calls]]
        /\ call'[b][t] = NoCall
        /\ \A c \in Broker : \A u \in Caller :
                 c # b \/ u # t => call'[c][u] = call[c][u]
        /\ serving' \in [Broker -> [request : Requests \cup {NoRequest},
                                    rest : Seq(Broker), result : Results]]
        /\ \A c \in Broker : serving'[c].request = serving[c].request
        /\ \A c \in Broker : serving'[c].request = NoRequest => serving'[c] = Idle
        /\ outcomes' \subseteq Outcomes
    BY EndingKeepsTypes
  <1>2. ASSUME NEW c \in Broker, NEW u \in Caller, call'[c][u].stage # "none"
        PROVE  (c # b \/ u # t) /\ call'[c][u] = call[c][u] /\ Calling(c, u)
    BY <1>1, <1>2, Sentinels DEF Calling
  <1>3. CallsFit'
    <2> SUFFICES ASSUME NEW c \in Broker, NEW u \in Caller, call'[c][u].stage # "none"
                 PROVE  /\ call'[c][u].to \in Broker
                        /\ call'[c][u].request \in Requests
                        /\ call'[c][u].request.from = c
                        /\ u = "worker" => call'[c][u].cause = NoRequest
                        /\ u = "io" => /\ serving'[c].request \in Requests
                                       /\ serving'[c].request.id = c
                                       /\ call'[c][u].cause = serving'[c].request
      BY DEF CallsFit, Calling
    <2>1. QED
      BY <1>1, <1>2 DEF TypeInv, CallsFit
  <1>4. Guarded'
    <2> SUFFICES ASSUME NEW c \in Broker, NEW u \in Caller
                 PROVE  /\ call'[c][u].stage \in {"none", "entered", "sent"}
                        /\ call'[c][u].stage = "sent" <=> holder'[c] = u
                        /\ call'[c][u].stage = "sent" => awaiting'[c]
      BY DEF Guarded
    <2>1. holder \in [Broker -> Caller \cup {"none"}]
      BY DEF TypeInv, BrokerTypeOK
    <2>2. CASE c = b /\ u = t
      BY <1>1, <2>1, <2>2, Sentinels
    <2>3. CASE c = b /\ u # t
      BY <1>1, <2>1, <2>3, Sentinels DEF TypeInv, BrokerTypeOK
    <2>4. CASE c # b
      BY <1>1, <2>1, <2>4 DEF TypeInv, BrokerTypeOK
    <2>5. QED
      BY <2>2, <2>3, <2>4
  <1>5. holder' \in [Broker -> Caller \cup {"none"}]
    BY DEF TypeInv, BrokerTypeOK
  <1>6. \A c \in Broker : serving'[c].request \in Requests \cup {NoRequest}
                          /\ serving'[c].result \in Results
    BY <1>1
  <1>7. QED
    BY <1>1, <1>3, <1>4, <1>5, <1>6 DEF TypeInv, BrokerTypeOK, Guarded

\* The number makes what is sent a request of its own.
LEMMA NumberedRequest ==
    ASSUME TypeInv, NEW b \in Broker, NEW t \in Caller, Calling(b, t)
    PROVE  LET request == [call[b][t].request EXCEPT !.seq = sequence[b]] IN
           /\ request \in Requests
           /\ request.from = b
           /\ request.seq = sequence[b]
  <1>1. call[b][t].request \in Requests /\ call[b][t].request.from = b
    BY DEF TypeInv, CallsFit
  <1>2. sequence[b] \in Nat
    BY DEF TypeInv, BrokerTypeOK
  <1>3. QED
    BY <1>1, <1>2 DEF Requests

LEMMA RefusesKeepsTypes ==
    ASSUME TypeInv, NEW b \in Broker, NEW t \in Caller, Refuses(b, t)
    PROVE  TypeInv'
  <1> DEFINE request == [call[b][t].request EXCEPT !.seq = sequence[b]]
  <1>1. Calling(b, t) /\ call[b][t].to \in Broker /\ request \in Requests
    BY NumberedRequest DEF Refuses, Calling, TypeInv, CallsFit
  <1>2. Ends(b, t, request, NoResponse, "refused")
    BY DEF Refuses
  <1>3. sequence' \in [Broker -> Nat] /\ peers' \in [Broker -> SUBSET Broker]
    <2>1. sequence \in [Broker -> Nat] /\ peers \in [Broker -> SUBSET Broker]
      BY DEF TypeInv, BrokerTypeOK
    <2>2. sequence' \in [Broker -> Nat]
      BY <2>1 DEF Refuses
    <2>3. peers' \in [Broker -> SUBSET Broker]
      BY <1>1, <2>1 DEF Refuses
    <2>4. QED
      BY <2>2, <2>3
  <1>4. /\ awaiting' = awaiting /\ awaiting \in [Broker -> BOOLEAN]
        /\ holder[b] = "none" /\ holder' = [holder EXCEPT ![b] = "none"]
        /\ answers' \in [Broker -> SUBSET [request : Requests, by : Broker, result : Results]]
        /\ timeouts' \in 0..MaxTimeouts
        /\ UNCHANGED <<plan, inbox, handled>>
    BY DEF Refuses, TypeInv, BrokerTypeOK
  <1> HIDE DEF request
  <1>5. QED
    BY <1>1, <1>2, <1>3, <1>4, EndsKeepsTypes, Sentinels

LEMMA ReceivesKeepsTypes ==
    ASSUME TypeInv, NEW b \in Broker, NEW t \in Caller, Receives(b, t)
    PROVE  TypeInv'
  <1> DEFINE Answers == [request : Requests, by : Broker, result : Results]
  <1>1. PICK a \in answers[b] : /\ answers' = [answers EXCEPT ![b] = @ \ {a}]
                                /\ Ends(b, t, call[b][t].request, a, "none")
    BY DEF Receives
  <1>2. Calling(b, t) /\ call[b][t].to \in Broker /\ call[b][t].request \in Requests
    BY DEF Receives, Calling, TypeInv, CallsFit
  <1>3. answers \in [Broker -> SUBSET Answers]
    BY DEF TypeInv
  <1>4. a \in Answers
    BY <1>3
  <1>5. a \in Responses
    BY <1>4 DEF Responses
  <1>6. answers' \in [Broker -> SUBSET Answers]
    <2> HIDE DEF Answers
    <2>1. QED
      BY <1>1, <1>3
  <1>7. /\ awaiting' \in [Broker -> BOOLEAN] /\ peers' \in [Broker -> SUBSET Broker]
        /\ \A c \in Broker \ {b} : awaiting'[c] = awaiting[c]
        /\ holder[b] = t /\ holder' = [holder EXCEPT ![b] = "none"]
    BY DEF Receives, PeersAfter, TypeInv, BrokerTypeOK
  <1>8. /\ sequence' \in [Broker -> Nat] /\ timeouts' \in 0..MaxTimeouts
        /\ UNCHANGED <<plan, inbox, handled>>
    BY DEF Receives, TypeInv, BrokerTypeOK
  <1>9. QED
    BY <1>1, <1>2, <1>5, <1>6, <1>7, <1>8, EndsKeepsTypes

LEMMA TimesOutKeepsTypes ==
    ASSUME TypeInv, NEW b \in Broker, NEW t \in Caller, TimesOut(b, t)
    PROVE  TypeInv'
  <1>1. Calling(b, t) /\ call[b][t].to \in Broker /\ call[b][t].request \in Requests
    BY DEF TimesOut, Calling, TypeInv, CallsFit
  <1>2. Ends(b, t, call[b][t].request, NoResponse, "timeout")
    BY DEF TimesOut
  <1>3. /\ holder[b] = t /\ holder' = [holder EXCEPT ![b] = "none"]
        /\ awaiting' = awaiting /\ awaiting \in [Broker -> BOOLEAN]
        /\ timeouts' \in 0..MaxTimeouts
    BY BrokerAssumption DEF TimesOut, SocketAfterTimeout, TypeInv, BrokerTypeOK
  <1>4. /\ answers' \in [Broker -> SUBSET [request : Requests, by : Broker, result : Results]]
        /\ sequence' \in [Broker -> Nat] /\ peers' \in [Broker -> SUBSET Broker]
        /\ UNCHANGED <<plan, inbox, handled>>
    BY DEF TimesOut, TypeInv, BrokerTypeOK
  <1>5. QED
    BY <1>1, <1>2, <1>3, <1>4, EndsKeepsTypes, Sentinels

LEMMA DeliversKeepsTypes ==
    ASSUME TypeInv, NEW b \in Broker, NEW t \in Caller, NEW p \in Broker, Delivers(b, t, p)
    PROVE  /\ TypeInv'
           /\ call'[b][t].stage = "sent"
           /\ call'[b][t].to = call[b][t].to /\ call[b][t].to \in Broker
           /\ call'[b][t].request = [call[b][t].request EXCEPT !.seq = sequence[b]]
           /\ \A c \in Broker : \A u \in Caller :
                 c # b \/ u # t => call'[c][u] = call[c][u]
           /\ \A u \in Caller \ {t} : call[b][u].stage # "sent"
  <1> DEFINE request == [call[b][t].request EXCEPT !.seq = sequence[b]]
             new == [call[b][t] EXCEPT !.stage = "sent", !.request = request]
  <1>0. serving' = serving
    BY DEF Delivers
  <1>1. Calling(b, t) /\ call[b][t].to \in Broker /\ request \in Requests /\ request.from = b
    BY NumberedRequest DEF Delivers, Calling, TypeInv, CallsFit
  <1>2. call \in [Broker -> [Caller -> Calls]] /\ call[b][t] \in Calls
    BY DEF TypeInv
  <1>3. call' = [call EXCEPT ![b][t] = new]
    BY <1>2 DEF Delivers, Calls
  <1>4. /\ new \in Calls /\ new.stage = "sent" /\ new.to = call[b][t].to
        /\ new.request = request /\ new.cause = call[b][t].cause
    BY <1>1, <1>2 DEF Calls
  <1> HIDE DEF new, request
  <1>5. /\ call' \in [Broker -> [Caller -> Calls]]
        /\ call'[b][t] = new
        /\ \A c \in Broker : \A u \in Caller :
                 c # b \/ u # t => call'[c][u] = call[c][u]
    BY <1>2, <1>3, <1>4
  <1>6. holder \in [Broker -> Caller \cup {"none"}] /\ holder[b] = "none"
    BY DEF TypeInv, BrokerTypeOK, Delivers
  <1>7. \A u \in Caller : call[b][u].stage # "sent"
    BY <1>6, Sentinels DEF TypeInv, BrokerTypeOK
  <1>8. CallsFit'
    <2> SUFFICES ASSUME NEW c \in Broker, NEW u \in Caller, call'[c][u].stage # "none"
                 PROVE  /\ call'[c][u].to \in Broker
                        /\ call'[c][u].request \in Requests
                        /\ call'[c][u].request.from = c
                        /\ u = "worker" => call'[c][u].cause = NoRequest
                        /\ u = "io" => /\ serving[c].request \in Requests
                                       /\ serving[c].request.id = c
                                       /\ call'[c][u].cause = serving[c].request
      BY <1>0 DEF CallsFit, Calling
    <2>1. CASE c = b /\ u = t
      <3>1. /\ call'[c][u].to = call[b][t].to /\ call'[c][u].request = request
            /\ call'[c][u].cause = call[b][t].cause
        BY <1>4, <1>5, <2>1
      <3>2. /\ t = "worker" => call[b][t].cause = NoRequest
            /\ t = "io" => /\ serving[b].request \in Requests
                           /\ serving[b].request.id = b
                           /\ call[b][t].cause = serving[b].request
        BY <1>1 DEF TypeInv, CallsFit
      <3>3. QED
        BY <1>1, <2>1, <3>1, <3>2
    <2>2. CASE c # b \/ u # t
      BY <1>5, <2>2 DEF TypeInv, CallsFit, Calling
    <2>3. QED
      BY <2>1, <2>2
  <1>9. Guarded'
    <2> SUFFICES ASSUME NEW c \in Broker, NEW u \in Caller
                 PROVE  /\ call'[c][u].stage \in {"none", "entered", "sent"}
                        /\ call'[c][u].stage = "sent" <=> holder'[c] = u
                        /\ call'[c][u].stage = "sent" => awaiting'[c]
      BY DEF Guarded
    <2>1. awaiting \in [Broker -> BOOLEAN]
      BY DEF TypeInv, BrokerTypeOK
    <2>2. CASE c = b /\ u = t
      BY <1>4, <1>5, <1>6, <2>1, <2>2 DEF Delivers
    <2>3. CASE c = b /\ u # t
      BY <1>5, <1>6, <1>7, <2>3 DEF Delivers, TypeInv, BrokerTypeOK
    <2>4. CASE c # b
      BY <1>5, <1>6, <2>1, <2>4, SMTT(30) DEF Delivers, TypeInv, BrokerTypeOK
    <2>5. QED
      BY <2>2, <2>3, <2>4
  <1>10. inbox' \in [Broker -> Seq(Requests)]
    <2>1. inbox' = [inbox EXCEPT ![p] = Append(@, request)]
      BY DEF Delivers, request
    <2>2. QED
      BY <1>1, <2>1 DEF TypeInv
  <1>11. /\ holder' \in [Broker -> Caller \cup {"none"}]
         /\ awaiting' \in [Broker -> BOOLEAN]
         /\ peers' \in [Broker -> SUBSET Broker]
         /\ sequence' \in [Broker -> Nat]
    <2>1. /\ holder \in [Broker -> Caller \cup {"none"}] /\ awaiting \in [Broker -> BOOLEAN]
          /\ peers \in [Broker -> SUBSET Broker] /\ sequence \in [Broker -> Nat]
      BY DEF TypeInv, BrokerTypeOK
    <2>2. peers' \in [Broker -> SUBSET Broker]
      BY <1>1, <2>1 DEF Delivers
    <2>3. sequence' \in [Broker -> Nat]
      BY <2>1 DEF Delivers
    <2>4. QED
      BY <2>1, <2>2, <2>3 DEF Delivers
  <1>12. TypeInv'
    BY <1>5, <1>8, <1>9, <1>10, <1>11 DEF Delivers, TypeInv, BrokerTypeOK, Guarded
  <1>13. QED
    BY <1>1, <1>4, <1>5, <1>7, <1>12 DEF request

LEMMA ServesKeepsTypes ==
    ASSUME TypeInv, NEW b \in Broker, Serves(b)
    PROVE  /\ TypeInv'
           /\ Head(inbox[b]) \in Requests
           /\ serving[b].request = NoRequest
           /\ ~Calling(b, "io")
           /\ serving'[b].request = Head(inbox[b])
           /\ \A c \in Broker \ {b} : serving'[c] = serving[c]
           /\ \/ /\ Head(inbox[b]).id = b
                 /\ serving'[b].rest = Handlers[b].asks
                 /\ handled' = handled \cup {Head(inbox[b])}
              \/ /\ Head(inbox[b]).id # b
                 /\ serving'[b].rest = <<>>
                 /\ serving'[b].result = "UnsupportedRequest"
                 /\ handled' = handled
  <1> DEFINE request == Head(inbox[b])
             Servings == [request : Requests \cup {NoRequest}, rest : Seq(Broker),
                          result : Results]
  <1>1. /\ inbox \in [Broker -> Seq(Requests)] /\ inbox[b] # <<>>
        /\ serving \in [Broker -> Servings]
    BY DEF TypeInv, Serves
  <1>2. request \in Requests /\ inbox' \in [Broker -> Seq(Requests)]
    <2> HIDE DEF Servings
    <2>1. request \in Requests /\ Tail(inbox[b]) \in Seq(Requests)
      BY <1>1
    <2>2. QED
      BY <1>1, <2>1 DEF Serves
  <1>3. serving[b].request = NoRequest
    BY Sentinels DEF Serves, Serving, TypeInv
  <1>4. "io" \in Caller /\ ~Calling(b, "io")
    BY <1>3, Sentinels DEF Caller, TypeInv, CallsFit
  <1>5. PICK new \in Servings :
           /\ serving' = [serving EXCEPT ![b] = new]
           /\ new.request = request
           /\ \/ /\ request.id = b
                 /\ new.rest = Handlers[b].asks
                 /\ handled' = handled \cup {request}
              \/ /\ request.id # b
                 /\ new.rest = <<>>
                 /\ new.result = "UnsupportedRequest"
                 /\ handled' = handled
    <2>1. Handlers[b].asks \in Seq(Broker) /\ <<>> \in Seq(Broker)
      BY BrokerAssumption
    <2>2. {"Success", "UnsupportedRequest"} = Results
      BY DEF Results
    <2> DEFINE Taking(rest, result) == [request |-> request, rest |-> rest, result |-> result]
    <2>3. CASE request.id = b
      <3>1. /\ serving' = [serving EXCEPT ![b] = Taking(Handlers[b].asks, "Success")]
            /\ handled' = handled \cup {request}
        BY <2>3 DEF Serves
      <3>2. Taking(Handlers[b].asks, "Success") \in Servings
        BY <1>2, <2>1, <2>2
      <3>3. QED
        BY <2>3, <3>1, <3>2
    <2>4. CASE request.id # b
      <3>1. /\ serving' = [serving EXCEPT ![b] = Taking(<<>>, "UnsupportedRequest")]
            /\ handled' = handled
        BY <2>4 DEF Serves
      <3>2. Taking(<<>>, "UnsupportedRequest") \in Servings
        BY <1>2, <2>1, <2>2
      <3>3. QED
        BY <2>4, <3>1, <3>2
    <2>5. QED
      BY <2>3, <2>4
  <1>6. new \in Servings /\ new.request # NoRequest
    BY <1>2, <1>5, Sentinels
  <1>7. /\ serving' \in [Broker -> Servings] /\ serving'[b] = new
        /\ \A c \in Broker \ {b} : serving'[c] = serving[c]
    <2> HIDE DEF Servings
    <2>1. QED
      BY <1>1, <1>5
  <1>8. \A c \in Broker : serving'[c].request = NoRequest => serving'[c] = Idle
    <2>1. \A c \in Broker : serving[c].request = NoRequest => serving[c] = Idle
      BY DEF TypeInv
    <2> HIDE DEF Servings
    <2>2. QED
      BY <1>6, <1>7, <2>1
  <1>9. UNCHANGED <<plan, call, holder, awaiting, peers, sequence, answers, outcomes, timeouts>>
    BY DEF Serves
  <1>10. CallsFit'
    <2> SUFFICES ASSUME NEW c \in Broker, NEW u \in Caller, call[c][u].stage # "none"
                 PROVE  /\ call[c][u].to \in Broker
                        /\ call[c][u].request \in Requests
                        /\ call[c][u].request.from = c
                        /\ u = "worker" => call[c][u].cause = NoRequest
                        /\ u = "io" => /\ serving'[c].request \in Requests
                                       /\ serving'[c].request.id = c
                                       /\ call[c][u].cause = serving'[c].request
      BY <1>9 DEF CallsFit, Calling
    <2>1. Calling(c, u) /\ (c # b \/ u # "io")
      BY <1>4 DEF Calling
    <2>2. c # b => serving'[c] = serving[c]
      BY <1>7
    <2>3. u = "io" => c # b
      BY <2>1
    <2>4. QED
      BY <2>1, <2>2, <2>3 DEF TypeInv, CallsFit
  <1>11. \A c \in Broker : serving'[c].request \in Requests \cup {NoRequest}
                           /\ serving'[c].result \in Results
    BY <1>7
  <1>12. handled' \subseteq Requests
    BY <1>2, <1>5 DEF TypeInv, BrokerTypeOK
  <1>13. BrokerTypeOK'
    <2>1. \A c \in Broker : inbox'[c] \in Seq(Requests)
      BY <1>2
    <2>2. QED
      BY <1>9, <1>11, <1>12, <2>1 DEF TypeInv, BrokerTypeOK
  <1>14. TypeInv'
    BY <1>2, <1>7, <1>8, <1>9, <1>10, <1>13 DEF TypeInv
  <1>15. QED
    BY <1>2, <1>3, <1>4, <1>5, <1>7, <1>14

LEMMA RepliesKeepsTypes ==
    ASSUME TypeInv, NEW b \in Broker, Replies(b)
    PROVE  /\ TypeInv'
           /\ serving[b].request \in Requests
           /\ serving'[b] = Idle
           /\ \A c \in Broker \ {b} : serving'[c] = serving[c]
           /\ answers' = [answers EXCEPT ![serving[b].request.from] = @ \cup
                            {[request |-> serving[b].request, by |-> b,
                              result |-> serving[b].result]}]
  <1> DEFINE request == serving[b].request
             Servings == [request : Requests \cup {NoRequest}, rest : Seq(Broker),
                          result : Results]
             Answers == [request : Requests, by : Broker, result : Results]
             new == [request |-> request, by |-> b, result |-> serving[b].result]
  <1>1. serving \in [Broker -> Servings] /\ answers \in [Broker -> SUBSET Answers]
    BY DEF TypeInv
  <1>2. request \in Requests
    BY <1>1, Sentinels DEF Replies, Serving, TypeInv
  <1>3. new \in Answers /\ request.from \in Broker
    BY <1>1, <1>2 DEF Requests
  <1>4. /\ answers' = [answers EXCEPT ![request.from] = @ \cup {new}]
        /\ serving' = [serving EXCEPT ![b] = Idle]
        /\ ~Calling(b, "io")
        /\ UNCHANGED <<plan, call, holder, awaiting, peers, sequence, inbox, handled, outcomes,
                       timeouts>>
    BY DEF Replies, Answer
  <1>5. Idle \in Servings
    BY Sentinels
  <1>6. /\ serving' \in [Broker -> Servings] /\ serving'[b] = Idle
        /\ \A c \in Broker \ {b} : serving'[c] = serving[c]
        /\ answers' \in [Broker -> SUBSET Answers]
    <2> HIDE DEF Servings, Answers, new, request
    <2>1. QED
      BY <1>1, <1>3, <1>4, <1>5
  <1>7. \A c \in Broker : serving'[c].request = NoRequest => serving'[c] = Idle
    BY <1>6 DEF TypeInv
  <1>8. CallsFit'
    <2> SUFFICES ASSUME NEW c \in Broker, NEW u \in Caller, call[c][u].stage # "none"
                 PROVE  /\ call[c][u].to \in Broker
                        /\ call[c][u].request \in Requests
                        /\ call[c][u].request.from = c
                        /\ u = "worker" => call[c][u].cause = NoRequest
                        /\ u = "io" => /\ serving'[c].request \in Requests
                                       /\ serving'[c].request.id = c
                                       /\ call[c][u].cause = serving'[c].request
      BY <1>4 DEF CallsFit, Calling
    <2>1. Calling(c, u) /\ (c # b \/ u # "io")
      BY <1>4 DEF Calling
    <2>2. c # b => serving'[c] = serving[c]
      BY <1>6
    <2>3. u = "io" => c # b
      BY <2>1
    <2>4. QED
      BY <2>1, <2>2, <2>3 DEF TypeInv, CallsFit
  <1>9. \A c \in Broker : serving'[c].request \in Requests \cup {NoRequest}
                          /\ serving'[c].result \in Results
    BY <1>6
  <1>10. BrokerTypeOK'
    BY <1>4, <1>9 DEF TypeInv, BrokerTypeOK
  <1>11. TypeInv'
    BY <1>4, <1>6, <1>7, <1>8, <1>10 DEF TypeInv
  <1>12. QED
    BY <1>2, <1>4, <1>6, <1>11

-----------------------------------------------------------------------------
(* What the steps do to the pending requests. *)

LEMMA PendingTypes ==
    ASSUME TypeInv, NEW c \in Broker
    PROVE  /\ DOMAIN Pending[c] \subseteq Nat
           /\ \A i \in DOMAIN Pending[c] : Pending[c][i] \in Requests
           /\ \A i \in DOMAIN Pending[c] : Pending[c][i].from \in Broker
           /\ serving[c].request # NoRequest =>
                 0 \in DOMAIN Pending[c] /\ Pending[c][0] = serving[c].request
           /\ 0 \in DOMAIN Pending[c] => serving[c].request # NoRequest
  <1>1. inbox[c] \in Seq(Requests) /\ serving[c].request \in Requests \cup {NoRequest}
    BY DEF TypeInv, BrokerTypeOK
  <1>2. \A i \in DOMAIN inbox[c] : i \in Nat \ {0} /\ inbox[c][i] \in Requests
    BY <1>1
  <1>3. \A r \in Requests : r.from \in Broker
    BY DEF Requests
  <1>4. QED
    BY <1>1, <1>2, <1>3 DEF Pending

LEMMA PendingStays ==
    ASSUME inbox' = inbox, \A c \in Broker : serving'[c].request = serving[c].request
    PROVE  Pending' = Pending
  BY DEF Pending

LEMMA PendingGrows ==
    ASSUME TypeInv, NEW b \in Broker, NEW t \in Caller, NEW p \in Broker, Delivers(b, t, p),
           NEW c \in Broker, NEW i \in DOMAIN Pending'[c]
    PROVE  \/ i \in DOMAIN Pending[c] /\ Pending'[c][i] = Pending[c][i]
           \/ /\ c = p /\ i = Len(inbox[p]) + 1
              /\ Pending'[c][i] = [call[b][t].request EXCEPT !.seq = sequence[b]]
  <1> DEFINE request == [call[b][t].request EXCEPT !.seq = sequence[b]]
  <1>1. /\ inbox \in [Broker -> Seq(Requests)] /\ request \in Requests
        /\ inbox' = [inbox EXCEPT ![p] = Append(@, request)]
        /\ serving' = serving
    BY NumberedRequest DEF TypeInv, Delivers, Calling
  <1> HIDE DEF request
  <1>2. c # p => inbox'[c] = inbox[c]
    BY <1>1
  <1>3. /\ inbox'[p] = Append(inbox[p], request)
        /\ DOMAIN inbox'[p] = DOMAIN inbox[p] \cup {Len(inbox[p]) + 1}
        /\ \A j \in DOMAIN inbox[p] : inbox'[p][j] = inbox[p][j] /\ j # 0
        /\ inbox'[p][Len(inbox[p]) + 1] = request
        /\ Len(inbox[p]) + 1 # 0
    BY <1>1
  <1>4. i \in DOMAIN inbox'[c] \cup (IF serving[c].request = NoRequest THEN {} ELSE {0})
    BY <1>1 DEF Pending
  <1>5. Pending'[c][i] = IF i = 0 THEN serving[c].request ELSE inbox'[c][i]
    BY <1>1, <1>4 DEF Pending
  <1>6. CASE c = p /\ i = Len(inbox[p]) + 1
    BY <1>3, <1>5, <1>6 DEF request
  <1>7. CASE c = p /\ i # Len(inbox[p]) + 1
    BY <1>3, <1>4, <1>5, <1>7 DEF Pending
  <1>8. CASE c # p
    BY <1>2, <1>4, <1>5, <1>8 DEF Pending
  <1>9. QED
    BY <1>6, <1>7, <1>8

LEMMA PendingShifts ==
    ASSUME TypeInv, NEW b \in Broker, Serves(b),
           NEW c \in Broker, NEW i \in DOMAIN Pending'[c]
    PROVE  \/ /\ c # b
              /\ i \in DOMAIN Pending[c] /\ Pending'[c][i] = Pending[c][i]
           \/ /\ c = b /\ i \in Nat
              /\ i + 1 \in DOMAIN Pending[c] /\ Pending'[c][i] = Pending[c][i + 1]
  <1>1. /\ inbox \in [Broker -> Seq(Requests)] /\ inbox[b] # <<>>
        /\ inbox' = [inbox EXCEPT ![b] = Tail(@)]
    BY DEF TypeInv, Serves
  <1>2. /\ serving'[b].request = Head(inbox[b])
        /\ \A d \in Broker \ {b} : serving'[d] = serving[d]
    BY ServesKeepsTypes
  <1>3. i \in DOMAIN inbox'[c] \cup (IF serving'[c].request = NoRequest THEN {} ELSE {0})
    BY DEF Pending
  <1>4. Pending'[c][i] = IF i = 0 THEN serving'[c].request ELSE inbox'[c][i]
    BY <1>3 DEF Pending
  <1>5. CASE c # b
    <2>1. inbox'[c] = inbox[c] /\ serving'[c] = serving[c]
      BY <1>1, <1>2, <1>5
    <2>2. QED
      BY <1>3, <1>4, <1>5, <2>1 DEF Pending
  <1>6. CASE c = b
    <2>1. inbox'[b] = Tail(inbox[b])
      BY <1>1
    <2>2. /\ 1 \in DOMAIN inbox[b] /\ Head(inbox[b]) = inbox[b][1]
          /\ \A j \in DOMAIN Tail(inbox[b]) :
                /\ j \in Nat \ {0} /\ j + 1 \in DOMAIN inbox[b] /\ j + 1 # 0
                /\ Tail(inbox[b])[j] = inbox[b][j + 1]
      BY <1>1
    <2>3. CASE i = 0
      BY <1>2, <1>4, <1>6, <2>2, <2>3 DEF Pending
    <2>4. CASE i # 0
      BY <1>3, <1>4, <1>6, <2>1, <2>2, <2>4 DEF Pending
    <2>5. QED
      BY <2>3, <2>4
  <1>7. QED
    BY <1>5, <1>6

LEMMA PendingShrinks ==
    ASSUME TypeInv, NEW b \in Broker, Replies(b),
           NEW c \in Broker, NEW i \in DOMAIN Pending'[c]
    PROVE  /\ c = b => i # 0
           /\ i \in DOMAIN Pending[c] /\ Pending'[c][i] = Pending[c][i]
  <1>1. /\ inbox' = inbox /\ serving'[b].request = NoRequest
        /\ \A d \in Broker \ {b} : serving'[d] = serving[d]
    BY RepliesKeepsTypes, Sentinels DEF Replies
  <1>2. inbox[c] \in Seq(Requests)
    BY DEF TypeInv
  <1>3. i \in DOMAIN inbox[c] \cup (IF serving'[c].request = NoRequest THEN {} ELSE {0})
    BY <1>1 DEF Pending
  <1>4. Pending'[c][i] = IF i = 0 THEN serving'[c].request ELSE inbox[c][i]
    BY <1>1, <1>3 DEF Pending
  <1>5. CASE c = b
    <2>1. i # 0 /\ i \in DOMAIN inbox[c]
      BY <1>1, <1>2, <1>3, <1>5
    <2>2. QED
      BY <1>4, <2>1 DEF Pending
  <1>6. CASE c # b
    BY <1>1, <1>3, <1>4, <1>6 DEF Pending
  <1>7. QED
    BY <1>5, <1>6

-----------------------------------------------------------------------------
(* The steps. *)

\* A call is entered: nothing is on its way that was not before.
LEMMA EnteringKeepsPlaces ==
    ASSUME BrokerIInv, TypeInv', NEW b \in Broker, NEW t \in Caller, ~Calling(b, t),
           call'[b][t].stage = "entered",
           \A c \in Broker : \A u \in Caller : c # b \/ u # t => call'[c][u] = call[c][u],
           Pending' = Pending,
           UNCHANGED <<holder, awaiting, peers, sequence, answers, outcomes>>
    PROVE  PlacesInv' /\ AnswersMatch'
  <1>1. OnePlace' /\ Causes'
    BY DEF BrokerIInv, PlacesInv, OnePlace, Causes
  <1>2. \A c \in Broker, u \in Caller :
           call'[c][u].stage = "sent" \/ holder[c] = u => call'[c][u] = call[c][u]
    BY DEF BrokerIInv, TypeInv, BrokerTypeOK, Calling
  <1>3. OnlyWhileAwaiting'
    BY <1>2 DEF BrokerIInv, PlacesInv, OnlyWhileAwaiting
  <1>4. OfTheHolder'
    <2>1. \A c \in Broker : \A i \in DOMAIN Pending[c] : Pending[c][i].from \in Broker
      BY PendingTypes DEF BrokerIInv
    <2>2. QED
      BY <1>2, <2>1 DEF BrokerIInv, PlacesInv, OfTheHolder
  <1>5. Numbered'
    BY <1>2 DEF BrokerIInv, PlacesInv, Numbered
  <1>6. AnswersMatch'
    BY DEF BrokerIInv, AnswersMatch
  <1>7. QED
    BY <1>1, <1>3, <1>4, <1>5, <1>6 DEF PlacesInv

\* A handler that the step is not about stays as far as it is.
LEMMA HandlingStays ==
    ASSUME NEW c \in Broker, Rejects(c) \/ HandlesAll(c),
           serving'[c] = serving[c], handled \subseteq handled',
           outcomes \subseteq outcomes',
           \A o \in outcomes' \ outcomes : o.cause # serving[c].request,
           call'[c]["io"].stage = "none" <=> call[c]["io"].stage = "none",
           Calling(c, "io") => call'[c]["io"].to = call[c]["io"].to
    PROVE  Rejects(c)' \/ HandlesAll(c)'
  <1>1. CASE Rejects(c)
    BY <1>1 DEF Rejects
  <1>2. CASE HandlesAll(c)
    BY <1>2 DEF HandlesAll, AskedOnly, Reached, Failed, Succeeded, AsksFor, Calling
  <1>3. QED
    BY <1>1, <1>2

\* What was covered stays so when the outcomes that come are of other requests.
LEMMA CoverStays ==
    ASSUME NEW r, NEW c \in Broker, Covered(r, c), outcomes \subseteq outcomes',
           \A o \in outcomes' \ outcomes : o.cause # r
    PROVE  Covered(r, c)'
  BY DEF Covered, AskedOnly, Reached, Failed, Succeeded

LEMMA WorkerEnteringKeepsInv ==
    ASSUME BrokerIInv, NEW b \in Broker, NEW to \in Broker, NEW id \in Identifiers,
           ~Calling(b, "worker"), Enters(b, "worker", to, id, NoRequest),
           plan' \in [Broker -> Seq(RequestIds)],
           UNCHANGED <<holder, awaiting, peers, sequence, inbox, serving, answers, handled,
                       outcomes, timeouts>>
    PROVE  BrokerIInv'
  <1>1. TypeInv /\ TypeInv'
    BY WorkerEnteringKeepsTypes DEF BrokerIInv
  <1>2. "worker" \in Caller /\ "io" \in Caller /\ NoRequest \in Requests \cup {NoRequest}
    BY DEF Caller
  <1>3. /\ call'[b]["worker"].stage = "entered"
        /\ \A c \in Broker : \A u \in Caller :
              c # b \/ u # "worker" => call'[c][u] = call[c][u]
    BY <1>1, <1>2, EnteringKeepsCalls
  <1>4. PlacesInv' /\ AnswersMatch'
    BY <1>1, <1>2, <1>3, PendingStays, EnteringKeepsPlaces
  <1>5. \A c \in Broker : call'[c]["io"] = call[c]["io"]
    BY <1>2, <1>3
  <1>6. Covers'
    <2>1. \A c \in Broker : serving'[c].request # NoRequest => Rejects(c)' \/ HandlesAll(c)'
      BY <1>5, HandlingStays DEF BrokerIInv, Covers
    <2>2. \A c \in Broker : \A a \in answers'[c] :
             a.result = "Success" => a.request \in handled' /\ Covered(a.request, a.by)'
      <3>1. \A c \in Broker : \A a \in answers[c] : a.by \in Broker
        BY <1>1 DEF TypeInv
      <3>2. QED
        BY <3>1, CoverStays DEF BrokerIInv, Covers
    <2>3. \A o \in outcomes' : Succeeded(o) => o.request \in handled' /\ Covered(o.request, o.to)'
      BY <1>1, CoverStays DEF BrokerIInv, Covers, TypeInv, Outcomes
    <2>4. QED
      BY <2>1, <2>2, <2>3 DEF Covers, Succeeded
  <1>7. QED
    BY <1>1, <1>4, <1>6 DEF BrokerIInv

\* What was answered with Success stays covered in a step without outcomes.
LEMMA AnsweredStays ==
    ASSUME BrokerIInv, outcomes' = outcomes, handled \subseteq handled'
    PROVE  /\ \A c \in Broker : \A a \in answers[c] :
                 a.result = "Success" => a.request \in handled' /\ Covered(a.request, a.by)'
           /\ \A o \in outcomes' : Succeeded(o) => o.request \in handled' /\ Covered(o.request, o.to)'
  <1>1. \A c \in Broker : \A a \in answers[c] : a.by \in Broker
    BY DEF BrokerIInv, TypeInv
  <1>2. \A o \in outcomes : o.to \in Broker
    BY DEF BrokerIInv, TypeInv, Outcomes
  <1>3. QED
    BY <1>1, <1>2, CoverStays DEF BrokerIInv, Covers

LEMMA HandlerAsksKeepsInv ==
    ASSUME BrokerIInv, NEW b \in Broker, HandlerAsks(b)
    PROVE  BrokerIInv'
  <1> DEFINE rest == serving[b].rest
             to == Head(rest)
  <1>1. /\ TypeInv /\ TypeInv'
        /\ serving[b].request \in Requests
        /\ serving'[b].request = serving[b].request
        /\ serving'[b].result = serving[b].result
        /\ serving'[b].rest = Tail(rest)
        /\ \A c \in Broker \ {b} : serving'[c] = serving[c]
        /\ call'[b]["io"].stage = "entered"
        /\ call'[b]["io"].to = to
        /\ \A c \in Broker : \A u \in Caller :
              c # b \/ u # "io" => call'[c][u] = call[c][u]
    BY HandlerAsksKeepsTypes DEF BrokerIInv
  <1>2. /\ "io" \in Caller /\ ~Calling(b, "io") /\ rest # <<>>
        /\ UNCHANGED <<plan, holder, awaiting, peers, sequence, inbox, answers, handled,
                       outcomes, timeouts>>
    BY DEF HandlerAsks, Caller
  <1>3. Pending' = Pending
    BY <1>1, <1>2, PendingStays
  <1>4. PlacesInv' /\ AnswersMatch'
    BY <1>1, <1>2, <1>3, EnteringKeepsPlaces
  <1>5. HandlesAll(b)'
    <2>1. rest \in Seq(Broker)
      BY <1>1 DEF TypeInv
    <2>2. /\ Tail(rest) \in Seq(Broker) /\ Len(Tail(rest)) = Len(rest) - 1
          /\ Len(rest) \in Nat
          /\ ToSet(rest) = {to} \cup ToSet(Tail(rest))
      BY <1>2, <2>1, ToSetOfTail
    <2>3. HandlesAll(b)
      BY <1>1, <1>2, Sentinels DEF BrokerIInv, Covers, Rejects
    <2>4. Len(rest) <= 1 => Tail(rest) = <<>>
      BY <2>2
    <2>5. Handlers[b].stops \/ Len(Tail(rest)) <= 1
      BY <2>2, <2>3 DEF HandlesAll
    <2>6. Handlers[b].stops \/ Tail(rest) = <<>>
      BY <2>3, <2>4 DEF HandlesAll
    <2>7. ToSet(Tail(rest)) \subseteq ToAsk(b) /\ to \in ToAsk(b)
      BY <2>2, <2>3 DEF HandlesAll
    <2>8. \/ Failed(serving[b].request)
          \/ \A d \in ToAsk(b) : \/ Reached(serving[b].request, d)
                                 \/ d \in ToSet(Tail(rest)) \/ d = to
      BY <1>2, <2>2, <2>3 DEF HandlesAll, AsksFor
    <2>9. call'[b]["io"].stage # "none"
      BY <1>1
    <2> HIDE DEF to, rest
    <2>10. QED
      BY <1>1, <1>2, <2>3, <2>5, <2>6, <2>7, <2>8, <2>9
         DEF HandlesAll, AskedOnly, Reached, Failed, Succeeded, AsksFor, Calling
  <1>6. \A c \in Broker : serving'[c].request # NoRequest => Rejects(c)' \/ HandlesAll(c)'
    <2>1. \A c \in Broker \ {b} : serving'[c] = serving[c] /\ call'[c]["io"] = call[c]["io"]
      BY <1>1, <1>2
    <2>2. \A c \in Broker \ {b} : serving'[c].request # NoRequest => Rejects(c)' \/ HandlesAll(c)'
      BY <1>2, <2>1, HandlingStays DEF BrokerIInv, Covers
    <2>3. QED
      BY <1>5, <2>2
  <1>7. Covers'
    BY <1>2, <1>6, AnsweredStays DEF Covers
  <1>8. QED
    BY <1>1, <1>4, <1>7 DEF BrokerIInv

LEMMA DeliversKeepsInv ==
    ASSUME BrokerIInv, NEW b \in Broker, NEW t \in Caller, NEW p \in Broker, Delivers(b, t, p)
    PROVE  BrokerIInv'
  <1> DEFINE request == [call[b][t].request EXCEPT !.seq = sequence[b]]
  <1>1. /\ TypeInv /\ TypeInv'
        /\ call'[b][t].stage = "sent"
        /\ call'[b][t].to = call[b][t].to /\ call[b][t].to \in Broker
        /\ call'[b][t].request = request
        /\ \A c \in Broker : \A u \in Caller :
              c # b \/ u # t => call'[c][u] = call[c][u]
        /\ \A u \in Caller \ {t} : call[b][u].stage # "sent"
    BY DeliversKeepsTypes DEF BrokerIInv
  <1>2. Calling(b, t) /\ request \in Requests /\ request.from = b /\ request.seq = sequence[b]
    BY <1>1, NumberedRequest DEF Delivers, Calling
  <1>3. /\ holder \in [Broker -> Caller \cup {"none"}] /\ awaiting \in [Broker -> BOOLEAN]
        /\ peers \in [Broker -> SUBSET Broker] /\ sequence \in [Broker -> Nat]
        /\ \A c \in Broker : \A u \in Caller : call[c][u].stage = "sent" <=> holder[c] = u
    BY <1>1 DEF TypeInv, BrokerTypeOK
  <1>4. /\ ~awaiting[b] /\ holder[b] = "none"
        /\ peers' = [peers EXCEPT ![b] = @ \cup {call[b][t].to}] /\ p \in peers'[b]
        /\ holder' = [holder EXCEPT ![b] = t]
        /\ awaiting' = [awaiting EXCEPT ![b] = TRUE]
        /\ sequence' = [sequence EXCEPT ![b] = @ + 1]
        /\ UNCHANGED <<serving, answers, handled, outcomes>>
    BY DEF Delivers
  <1>5. \A c \in Broker : \A i \in DOMAIN Pending'[c] :
           \/ i \in DOMAIN Pending[c] /\ Pending'[c][i] = Pending[c][i]
           \/ c = p /\ i = Len(inbox[p]) + 1 /\ Pending'[c][i] = request
    BY <1>1, PendingGrows
  <1>6. /\ \A c \in Broker : \A i \in DOMAIN Pending[c] :
              Pending[c][i].from \in Broker \ {b} /\ Pending[c][i] \in Requests
        /\ answers[b] = {}
        /\ peers[b] = {}
    BY <1>1, <1>4, PendingTypes DEF BrokerIInv, PlacesInv, OnlyWhileAwaiting
  <1>7. peers'[b] = {call[b][t].to} /\ p = call[b][t].to
    BY <1>3, <1>4, <1>6
  <1> HIDE DEF request
  <1>8. OnePlace'
    <2>1. \A c \in Broker : \A i \in DOMAIN Pending'[c] :
             \/ /\ i \in DOMAIN Pending[c] /\ Pending'[c][i] = Pending[c][i]
                /\ Pending'[c][i].from \in Broker \ {b}
             \/ c = p /\ i = Len(inbox[p]) + 1 /\ Pending'[c][i].from = b
      BY <1>2, <1>5, <1>6
    <2>2. \A c, d \in Broker : \A i \in DOMAIN Pending'[c], j \in DOMAIN Pending'[d] :
             Pending'[c][i].from = Pending'[d][j].from => c = d /\ i = j
      <3> TAKE c \in Broker, d \in Broker
      <3> TAKE i \in DOMAIN Pending'[c], j \in DOMAIN Pending'[d]
      <3> HAVE Pending'[c][i].from = Pending'[d][j].from
      <3>1. CASE Pending'[c][i].from = b
        BY <2>1, <3>1
      <3>2. CASE Pending'[c][i].from # b
        <4>1. /\ i \in DOMAIN Pending[c] /\ j \in DOMAIN Pending[d]
              /\ Pending[c][i].from = Pending[d][j].from
          BY <2>1, <3>2
        <4>2. QED
          BY <4>1 DEF BrokerIInv, PlacesInv, OnePlace
      <3>3. QED
        BY <3>1, <3>2
    <2>3. \A c \in Broker : \A i \in DOMAIN Pending'[c] : answers[Pending'[c][i].from] = {}
      <3> TAKE c \in Broker
      <3> TAKE i \in DOMAIN Pending'[c]
      <3>1. CASE i \in DOMAIN Pending[c] /\ Pending'[c][i] = Pending[c][i]
        <4>1. answers[Pending[c][i].from] = {}
          BY <3>1 DEF BrokerIInv, PlacesInv, OnePlace
        <4>2. QED
          BY <3>1, <4>1
      <3>2. CASE Pending'[c][i].from = b
        BY <1>6, <3>2
      <3>3. QED
        BY <2>1, <3>1, <3>2
    <2>4. QED
      BY <1>4, <2>2, <2>3 DEF BrokerIInv, PlacesInv, OnePlace
  <1>9. OnlyWhileAwaiting'
    <2>1. ASSUME NEW c \in Broker, NEW i \in DOMAIN Pending'[c]
          PROVE  awaiting'[Pending'[c][i].from]
      <3>1. CASE i \in DOMAIN Pending[c] /\ Pending'[c][i] = Pending[c][i]
        <4>1. awaiting[Pending[c][i].from] /\ Pending[c][i].from \in Broker \ {b}
          BY <1>6, <3>1 DEF BrokerIInv, PlacesInv, OnlyWhileAwaiting
        <4>2. QED
          BY <1>3, <1>4, <3>1, <4>1
      <3>2. CASE Pending'[c][i] = request
        BY <1>2, <1>3, <1>4, <3>2
      <3>3. QED
        BY <1>5, <3>1, <3>2
    <2>2. \A c \in Broker : answers'[c] # {} => awaiting'[c]
      BY <1>3, <1>4 DEF BrokerIInv, PlacesInv, OnlyWhileAwaiting
    <2>3. \A c \in Broker : ~awaiting'[c] => peers'[c] = {}
      BY <1>3, <1>4 DEF BrokerIInv, PlacesInv, OnlyWhileAwaiting
    <2>4. \A c \in Broker, u \in Caller : holder'[c] = u => peers'[c] = {call'[c][u].to}
      BY <1>1, <1>3, <1>4, <1>7 DEF BrokerIInv, PlacesInv, OnlyWhileAwaiting
    <2>5. QED
      BY <2>1, <2>2, <2>3, <2>4 DEF OnlyWhileAwaiting
  <1>10. OfTheHolder'
    <2>1. \A c \in Broker : c # b => holder'[c] = holder[c] /\ call'[c] = call[c]
      BY <1>1, <1>3, <1>4 DEF TypeInv
    <2>2. holder'[b] = t
      BY <1>3, <1>4
    <2>3. ASSUME NEW c \in Broker, NEW u \in Caller, NEW i \in DOMAIN Pending'[c],
                 holder'[Pending'[c][i].from] = u
          PROVE  /\ Pending'[c][i] = call'[Pending'[c][i].from][u].request
                 /\ c = call'[Pending'[c][i].from][u].to
      <3>1. CASE i \in DOMAIN Pending[c] /\ Pending'[c][i] = Pending[c][i]
        BY <1>6, <2>1, <2>3, <3>1 DEF BrokerIInv, PlacesInv, OfTheHolder
      <3>2. CASE c = p /\ Pending'[c][i] = request
        BY <1>1, <1>2, <1>7, <2>2, <2>3, <3>2
      <3>3. QED
        BY <1>5, <3>1, <3>2
    <2>4. \A c \in Broker : \A a \in answers'[c] :
             /\ a.request.from = c
             /\ \A u \in Caller :
                   holder'[c] = u => a.request = call'[c][u].request /\ a.by = call'[c][u].to
      BY <1>4, <1>6, <2>1 DEF BrokerIInv, PlacesInv, OfTheHolder
    <2>5. QED
      BY <2>3, <2>4 DEF OfTheHolder
  <1>11. Numbered'
    <2>1. sequence'[b] = sequence[b] + 1 /\ \A c \in Broker \ {b} : sequence'[c] = sequence[c]
      BY <1>3, <1>4
    <2>2. \A c \in Broker : \A i \in DOMAIN Pending'[c] :
             Pending'[c][i].seq < sequence'[Pending'[c][i].from]
      BY <1>2, <1>3, <1>5, <1>6, <2>1 DEF BrokerIInv, PlacesInv, Numbered
    <2>3. \A c \in Broker : \A a \in answers'[c] : a.request.seq < sequence'[c]
      BY <1>4, <1>6, <2>1 DEF BrokerIInv, PlacesInv, Numbered
    <2>4. \A c \in Broker, u \in Caller :
             call'[c][u].stage = "sent" => call'[c][u].request.seq < sequence'[c]
      <3> TAKE c \in Broker, u \in Caller
      <3>1. CASE c = b /\ u = t
        BY <1>1, <1>2, <1>3, <2>1, <3>1
      <3>2. CASE c = b /\ u # t
        BY <1>1, <3>2
      <3>3. CASE c # b
        BY <1>1, <2>1, <3>3 DEF BrokerIInv, PlacesInv, Numbered
      <3>4. QED
        BY <3>1, <3>2, <3>3
    <2>5. \A o \in outcomes' :
             /\ o.request.seq < sequence'[o.request.from]
             /\ o.cause # NoRequest => o.cause.seq < sequence'[o.cause.from]
      <3>1. \A o \in outcomes :
               /\ o.request \in Requests
               /\ o.cause # NoRequest => o.cause \in Requests
        BY <1>1 DEF TypeInv, Outcomes
      <3>2. \A r \in Requests : r.from \in Broker /\ r.seq \in Nat
        BY DEF Requests
      <3>3. QED
        BY <1>3, <1>4, <2>1, <3>1, <3>2 DEF BrokerIInv, PlacesInv, Numbered
    <2>6. QED
      BY <2>2, <2>3, <2>4, <2>5 DEF Numbered
  <1>12. Causes'
    <2>1. \A o \in outcomes : o.cause # request /\ o.request # request
      <3>1. \A o \in outcomes : o.cause = request => o.cause # NoRequest
        BY <1>2, Sentinels
      <3>2. QED
        BY <1>2, <1>3, <3>1 DEF BrokerIInv, PlacesInv, Numbered
    <2>2. QED
      BY <1>4, <1>5, <2>1 DEF BrokerIInv, PlacesInv, Causes
  <1>13. AnswersMatch'
    BY <1>4 DEF BrokerIInv, AnswersMatch
  <1>14. Covers'
    <2>1. \A c \in Broker : serving'[c].request # NoRequest => Rejects(c)' \/ HandlesAll(c)'
      <3>1. "io" \in Caller
        BY DEF Caller
      <3>2. \A c \in Broker : /\ call'[c]["io"].stage = "none" <=> call[c]["io"].stage = "none"
                              /\ Calling(c, "io") => call'[c]["io"].to = call[c]["io"].to
        BY <1>1, <1>2, <3>1 DEF Calling
      <3>3. QED
        BY <1>4, <3>2, HandlingStays DEF BrokerIInv, Covers
    <2>2. QED
      BY <1>4, <2>1, AnsweredStays DEF Covers
  <1>15. QED
    BY <1>1, <1>8, <1>9, <1>10, <1>11, <1>12, <1>13, <1>14 DEF BrokerIInv, PlacesInv

\* A call ends: with an answer, by its time-out or refused.
LEMMA EndsKeepsInv ==
    ASSUME BrokerIInv, TypeInv', NEW b \in Broker, NEW t \in Caller, Calling(b, t),
           NEW to \in Broker, call[b][t].to = to,
           NEW request \in Requests, request.from = b, request.seq < sequence'[b],
           NEW response \in Responses, NEW failure \in {"none", "timeout", "refused"},
           Ends(b, t, request, response, failure),
           failure = "none" => /\ holder[b] = t /\ request = call[b][t].request
                               /\ response \in answers[b],
           holder' = [holder EXCEPT ![b] = "none"],
           UNCHANGED <<inbox, handled>>,
           \A c \in Broker : sequence[c] <= sequence'[c] /\ answers'[c] \subseteq answers[c],
           \A c \in Broker \ {b} : awaiting'[c] = awaiting[c] /\ peers'[c] = peers[c],
           \/ awaiting'[b]
           \/ answers[b] # {} /\ answers'[b] = {} /\ peers'[b] = {}
    PROVE  BrokerIInv'
  <1> PICK cause : cause = call[b][t].cause
    OBVIOUS
  <1> DEFINE new == [request |-> request, to |-> to, cause |-> cause,
                     response |-> response, failure |-> failure]
  <1>1. /\ TypeInv
        /\ call'[b][t] = NoCall
        /\ \A c \in Broker : \A u \in Caller :
              c # b \/ u # t => call'[c][u] = call[c][u]
        /\ \A c \in Broker : serving'[c].request = serving[c].request
        /\ \A c \in Broker \ {b} : serving'[c] = serving[c]
        /\ t = "worker" => serving' = serving
        /\ t = "io" => /\ serving'[b].result = response.result
                       /\ serving'[b].rest =
                             Remaining(b, failure = "none" /\ response.result = "Success")
    BY EndingKeepsTypes DEF BrokerIInv
  <1>2. /\ t = "worker" => cause = NoRequest
        /\ t = "io" => /\ serving[b].request \in Requests
                       /\ serving[b].request.id = b
                       /\ cause = serving[b].request
    BY <1>1 DEF TypeInv, CallsFit
  <1>3. outcomes' = outcomes \cup {new}
    BY DEF Ends
  <1>4. /\ new.request = request /\ new.to = to /\ new.cause = cause
        /\ new.response = response /\ new.failure = failure
    OBVIOUS
  <1> HIDE DEF new
  <1>5. Pending' = Pending
    BY <1>1, PendingStays
  <1>6. /\ holder'[b] = "none"
        /\ \A c \in Broker \ {b} : holder'[c] = holder[c]
        /\ \A c \in Broker : sequence[c] \in Nat /\ sequence'[c] \in Nat
    BY <1>1 DEF TypeInv, BrokerTypeOK
  <1>7. \A c \in Broker : \A u \in Caller : holder'[c] = u => c # b
    BY <1>6, Sentinels
  <1>8. /\ \A c \in Broker : \A i \in DOMAIN Pending[c] :
              Pending[c][i] \in Requests /\ Pending[c][i].from \in Broker
        /\ \A c \in Broker : serving[c].request # NoRequest =>
              0 \in DOMAIN Pending[c] /\ Pending[c][0] = serving[c].request
    BY <1>1, PendingTypes
  <1>9. cause = NoRequest \/ (t = "io" /\ 0 \in DOMAIN Pending[b] /\ cause = Pending[b][0])
    BY <1>2, <1>8, Sentinels DEF Caller
  <1>10. /\ OnePlace /\ OnlyWhileAwaiting /\ OfTheHolder /\ Numbered /\ Causes
         /\ Covers /\ AnswersMatch
    BY DEF BrokerIInv, PlacesInv
  <1>11. failure = "none" => response.request = request /\ response.by = to
    BY <1>10 DEF OfTheHolder
  <1>12. answers[b] # {} =>
            \A c \in Broker : \A i \in DOMAIN Pending[c] : Pending[c][i].from # b
    <2>1. ASSUME NEW c \in Broker, NEW i \in DOMAIN Pending[c], Pending[c][i].from = b
          PROVE  answers[b] = {}
      <3>1. answers[Pending[c][i].from] = {}
        BY <1>10 DEF OnePlace
      <3>2. QED
        BY <2>1, <3>1
    <2>2. QED
      BY <2>1
  <1>13. OnePlace'
    <2>1. \A c \in Broker : \A i \in DOMAIN Pending[c] : answers'[Pending[c][i].from] = {}
      <3> TAKE c \in Broker
      <3> TAKE i \in DOMAIN Pending[c]
      <3>1. Pending[c][i].from \in Broker /\ answers[Pending[c][i].from] = {}
        BY <1>8, <1>10 DEF OnePlace
      <3>2. QED
        BY <3>1
    <2>2. \A c \in Broker : \A a, k \in answers'[c] : a = k
      BY <1>10 DEF OnePlace
    <2>3. QED
      BY <1>5, <1>10, <2>1, <2>2 DEF OnePlace
  <1>14. OnlyWhileAwaiting'
    <2>1. \A c \in Broker : \A i \in DOMAIN Pending[c] : awaiting'[Pending[c][i].from]
      BY <1>8, <1>10, <1>12 DEF OnlyWhileAwaiting
    <2>2. \A c \in Broker : /\ answers'[c] # {} => awaiting'[c]
                            /\ ~awaiting'[c] => peers'[c] = {}
      BY <1>10 DEF OnlyWhileAwaiting
    <2>3. \A c \in Broker, u \in Caller : holder'[c] = u => peers'[c] = {call'[c][u].to}
      BY <1>1, <1>6, <1>7, <1>10 DEF OnlyWhileAwaiting
    <2>4. QED
      BY <1>5, <2>1, <2>2, <2>3 DEF OnlyWhileAwaiting
  <1>15. OfTheHolder'
    <2>1. ASSUME NEW c \in Broker, NEW u \in Caller, NEW i \in DOMAIN Pending[c],
                 holder'[Pending[c][i].from] = u
          PROVE  /\ Pending[c][i] = call'[Pending[c][i].from][u].request
                 /\ c = call'[Pending[c][i].from][u].to
      BY <1>1, <1>6, <1>7, <1>8, <1>10, <2>1 DEF OfTheHolder
    <2>2. ASSUME NEW c \in Broker, NEW a \in answers'[c]
          PROVE  /\ a.request.from = c
                 /\ \A u \in Caller :
                       holder'[c] = u => a.request = call'[c][u].request /\ a.by = call'[c][u].to
      BY <1>1, <1>6, <1>7, <1>10 DEF OfTheHolder
    <2>3. QED
      BY <1>5, <2>1, <2>2 DEF OfTheHolder
  <1>16. Numbered'
    <2>1. \A r \in Requests : r.from \in Broker /\ r.seq \in Nat
      BY DEF Requests
    <2>2. \A c \in Broker : \A i \in DOMAIN Pending[c] :
             Pending[c][i].seq < sequence'[Pending[c][i].from]
      BY <1>6, <1>8, <1>10, <2>1 DEF Numbered
    <2>3. \A c \in Broker : \A a \in answers'[c] : a.request.seq < sequence'[c]
      <3>1. \A c \in Broker : \A a \in answers[c] : a.request \in Requests
        BY <1>1 DEF TypeInv
      <3>2. QED
        BY <1>6, <1>10, <2>1, <3>1 DEF Numbered
    <2>4. ASSUME NEW c \in Broker, NEW u \in Caller, call'[c][u].stage = "sent"
          PROVE  call'[c][u].request.seq < sequence'[c]
      <3>1. call'[c][u] = call[c][u]
        BY <1>1, <2>4, Sentinels
      <3>2. call[c][u].request \in Requests
        BY <1>1, <2>4, <3>1 DEF TypeInv, CallsFit, Calling
      <3>3. QED
        BY <1>6, <1>10, <2>1, <2>4, <3>1, <3>2 DEF Numbered
    <2>5. \A o \in outcomes : /\ o.request.seq < sequence'[o.request.from]
                              /\ o.cause # NoRequest => o.cause.seq < sequence'[o.cause.from]
      <3>1. \A o \in outcomes : /\ o.request \in Requests
                                /\ o.cause # NoRequest => o.cause \in Requests
        BY <1>1 DEF TypeInv, Outcomes
      <3>2. QED
        BY <1>6, <1>10, <2>1, <3>1 DEF Numbered
    <2>6. cause # NoRequest => cause.seq < sequence'[cause.from]
      BY <1>9, <2>2
    <2>7. QED
      BY <1>3, <1>4, <1>5, <2>2, <2>3, <2>4, <2>5, <2>6 DEF Numbered
  <1>17. Causes'
    <2>1. \A c \in Broker : \A i \in DOMAIN Pending[c] : i # 0 => cause # Pending[c][i]
      BY <1>8, <1>9, <1>10, Sentinels DEF OnePlace
    <2>2. \A c \in Broker : \A i \in DOMAIN Pending[c] :
             failure = "none" => request # Pending[c][i]
      BY <1>12
    <2>3. QED
      BY <1>3, <1>4, <1>5, <1>10, <2>1, <2>2 DEF Causes
  <1>18. AnswersMatch'
    BY <1>3, <1>4, <1>10, <1>11 DEF AnswersMatch
  <1> DEFINE NotCaused(r) == \A o \in outcomes' \ outcomes : o.cause # r
  <1>19. ASSUME NEW r, cause # r PROVE NotCaused(r)
    BY <1>3, <1>4, <1>19
  <1>20. \A c \in Broker : serving'[c].request # NoRequest => Rejects(c)' \/ HandlesAll(c)'
    <2>1. "io" \in Caller
      BY DEF Caller
    <2>2. ASSUME NEW c \in Broker, c # b \/ t = "worker", serving[c].request # NoRequest
          PROVE  Rejects(c)' \/ HandlesAll(c)'
      <3>1. cause # serving[c].request
        BY <1>8, <1>9, <1>10, <2>2 DEF OnePlace
      <3>2. call'[c]["io"] = call[c]["io"] /\ serving'[c] = serving[c]
        BY <1>1, <2>1, <2>2
      <3>3. NotCaused(serving[c].request)
        BY <1>19, <3>1
      <3>4. QED
        BY <1>3, <1>10, <2>2, <3>2, <3>3, HandlingStays DEF Covers
    <2>3. ASSUME t = "io" PROVE HandlesAll(b)'
      <3> PICK r : r = serving[b].request
        OBVIOUS
      <3> PICK rest : rest = serving[b].rest
        OBVIOUS
      <3>1. HandlesAll(b)
        BY <1>2, <1>10, <2>3, Sentinels DEF Covers, Rejects
      <3>2. /\ r.id = b /\ r \in handled /\ AskedOnly(r, b) /\ ToSet(rest) \subseteq ToAsk(b)
            /\ to \in ToAsk(b)
            /\ Failed(r) \/ \A d \in ToAsk(b) : Reached(r, d) \/ d \in ToSet(rest) \/ d = to
            /\ Handlers[b].stops \/ Len(rest) <= 1
            /\ Handlers[b].stops \/ rest = <<>>
        BY <2>3, <3>1 DEF HandlesAll, AsksFor
      <3>3. /\ serving'[b].request = r /\ serving'[b].result = response.result
            /\ call'[b]["io"].stage = "none"
            /\ new.cause = r /\ new.to = to
        BY <1>1, <1>2, <1>4, <2>3, Sentinels
      <3>4. AskedOnly(r, b)' /\ (Failed(r) => Failed(r)')
            /\ \A d \in ToAsk(b) : Reached(r, d) => Reached(r, d)'
        BY <1>3, <3>2, <3>3 DEF AskedOnly, Failed, Reached, Succeeded
      <3>5. /\ serving'[b].rest \in {rest, <<>>}
            /\ ToSet(serving'[b].rest) \subseteq ToAsk(b)
            /\ Handlers[b].stops \/ serving'[b].rest = <<>>
        BY <1>1, <2>3, <3>2, ToSetOfNone DEF Remaining
      <3>6. \/ Failed(r)'
            \/ \A d \in ToAsk(b) : Reached(r, d)' \/ d \in ToSet(serving'[b].rest)
            \/ response.result = "UnsupportedRequest" /\ serving'[b].rest = <<>>
        <4>1. CASE failure # "none"
          BY <1>3, <1>4, <3>3, <4>1 DEF Failed
        <4>2. CASE failure = "none" /\ response.result = "Success"
          <5>1. Succeeded(new)
            BY <1>4, <4>2 DEF Succeeded
          <5>2. Reached(r, to)'
            BY <1>3, <3>3, <5>1 DEF Reached, Succeeded
          <5>3. serving'[b].rest = rest
            BY <1>1, <2>3, <4>2 DEF Remaining
          <5>4. QED
            BY <3>2, <3>4, <5>2, <5>3
        <4>3. CASE failure = "none" /\ response.result = "UnsupportedRequest"
          BY <1>1, <2>3, <3>2, <4>3 DEF Remaining
        <4>4. QED
          BY <4>1, <4>2, <4>3 DEF Responses, Results
      <3>7. Handlers[b].stops \/ Len(serving'[b].rest) <= 1
        BY <3>5
      <3>8. QED
        BY <3>2, <3>3, <3>4, <3>5, <3>6, <3>7 DEF HandlesAll, AsksFor, Calling
    <2>4. QED
      BY <1>1, <2>2, <2>3 DEF Caller
  <1>21. \A c \in Broker : \A a \in answers'[c] :
            a.result = "Success" => a.request \in handled' /\ Covered(a.request, a.by)'
    <2> SUFFICES ASSUME NEW c \in Broker, NEW a \in answers[c], a.result = "Success"
                 PROVE  a.request \in handled /\ Covered(a.request, a.by)'
      OBVIOUS
    <2>1. a.by \in Broker /\ a.request \in Requests /\ a.request.from = c
      BY <1>1, <1>10 DEF TypeInv, OfTheHolder
    <2>2. cause # a.request
      <3>1. answers[c] # {}
        OBVIOUS
      <3>2. \A d \in Broker : \A i \in DOMAIN Pending[d] : Pending[d][i].from # c
        <4> TAKE d \in Broker
        <4> TAKE i \in DOMAIN Pending[d]
        <4>1. answers[Pending[d][i].from] = {}
          BY <1>10 DEF OnePlace
        <4>2. QED
          BY <3>1, <4>1
      <3>3. QED
        BY <1>9, <2>1, <3>2, Sentinels
    <2>3. NotCaused(a.request)
      BY <1>19, <2>2
    <2>4. QED
      BY <1>3, <1>10, <2>1, <2>3, CoverStays DEF Covers
  <1>22. ASSUME NEW o \in outcomes', Succeeded(o)
         PROVE  o.request \in handled' /\ Covered(o.request, o.to)'
    <2>1. CASE o \in outcomes
      <3>1. o.to \in Broker /\ o.request \in Requests
        BY <1>1, <2>1 DEF TypeInv, Outcomes
      <3>2. cause # o.request
        BY <1>9, <1>10, <1>22, <2>1, <3>1, Sentinels DEF Causes, Succeeded
      <3>3. NotCaused(o.request)
        BY <1>19, <3>2
      <3>4. QED
        BY <1>3, <1>10, <1>22, <2>1, <3>1, <3>3, CoverStays DEF Covers
    <2>2. CASE o = new
      <3>1. /\ response \in answers[b] /\ response.result = "Success"
            /\ request = response.request /\ to = response.by
        BY <1>4, <1>11, <1>22, <2>2 DEF Succeeded
      <3>2. request \in handled /\ Covered(request, to)
        BY <1>10, <3>1 DEF Covers
      <3>3. cause # request
        BY <1>9, <1>12, <3>1, Sentinels
      <3>4. NotCaused(request)
        BY <1>19, <3>3
      <3>5. Covered(request, to)'
        BY <1>2, <1>3, <3>2, <3>4, CoverStays
      <3>6. QED
        BY <1>4, <2>2, <3>2, <3>5 DEF Covered, AskedOnly, Failed, Reached, Succeeded
    <2>3. QED
      BY <1>3, <2>1, <2>2
  <1>23. Covers'
    BY <1>20, <1>21, <1>22 DEF Covers, Succeeded
  <1>24. QED
    BY <1>13, <1>14, <1>15, <1>16, <1>17, <1>18, <1>23 DEF BrokerIInv, PlacesInv

LEMMA RefusesKeepsInv ==
    ASSUME BrokerIInv, NEW b \in Broker, NEW t \in Caller, Refuses(b, t)
    PROVE  BrokerIInv'
  <1> PICK request : request = [call[b][t].request EXCEPT !.seq = sequence[b]]
    OBVIOUS
  <1> PICK to : to = call[b][t].to
    OBVIOUS
  <1>1. TypeInv /\ TypeInv'
    BY RefusesKeepsTypes DEF BrokerIInv
  <1>2. /\ Calling(b, t) /\ to \in Broker
        /\ request \in Requests /\ request.from = b /\ request.seq = sequence[b]
    BY <1>1, NumberedRequest DEF Refuses, Calling, TypeInv, CallsFit
  <1>3. Ends(b, t, request, NoResponse, "refused")
    BY DEF Refuses
  <1>4. /\ holder' = [holder EXCEPT ![b] = "none"]
        /\ awaiting[b] /\ peers' = [peers EXCEPT ![b] = @ \cup {call[b][t].to}]
        /\ sequence' = [sequence EXCEPT ![b] = @ + 1]
        /\ UNCHANGED <<awaiting, inbox, handled, answers>>
    BY DEF Refuses
  <1>5. sequence \in [Broker -> Nat] /\ peers \in [Broker -> SUBSET Broker]
    BY <1>1 DEF TypeInv, BrokerTypeOK
  <1>6. /\ request.seq < sequence'[b]
        /\ \A c \in Broker : sequence[c] <= sequence'[c] /\ answers'[c] \subseteq answers[c]
        /\ \A c \in Broker \ {b} : awaiting'[c] = awaiting[c] /\ peers'[c] = peers[c]
        /\ awaiting'[b]
    BY <1>2, <1>4, <1>5
  <1>7. QED
    BY <1>1, <1>2, <1>3, <1>4, <1>6, Sentinels, EndsKeepsInv

LEMMA ReceivesKeepsInv ==
    ASSUME BrokerIInv, NEW b \in Broker, NEW t \in Caller, Receives(b, t)
    PROVE  BrokerIInv'
  <1> PICK request : request = call[b][t].request
    OBVIOUS
  <1> PICK to : to = call[b][t].to
    OBVIOUS
  <1>1. TypeInv /\ TypeInv' /\ OnePlace /\ OnlyWhileAwaiting /\ Numbered
    BY ReceivesKeepsTypes DEF BrokerIInv, PlacesInv
  <1>2. PICK a \in answers[b] : /\ answers' = [answers EXCEPT ![b] = @ \ {a}]
                                /\ Ends(b, t, request, a, "none")
    BY DEF Receives
  <1>3. /\ call[b][t].stage = "sent"
        /\ holder' = [holder EXCEPT ![b] = "none"]
        /\ awaiting' = [awaiting EXCEPT ![b] = FALSE]
        /\ peers' = [peers EXCEPT ![b] = @ \ {to}]
        /\ UNCHANGED <<inbox, handled, sequence>>
    BY DEF Receives, PeersAfter
  <1>4. /\ Calling(b, t) /\ to \in Broker /\ holder[b] = t
        /\ request \in Requests /\ request.from = b
    BY <1>1, <1>3 DEF Calling, TypeInv, BrokerTypeOK, CallsFit
  <1>5. a \in Responses
    BY <1>1 DEF TypeInv, Responses
  <1>6. /\ sequence \in [Broker -> Nat] /\ peers \in [Broker -> SUBSET Broker]
        /\ awaiting \in [Broker -> BOOLEAN]
        /\ DOMAIN answers = Broker
    BY <1>1 DEF TypeInv, BrokerTypeOK
  <1>7. request.seq < sequence'[b]
    BY <1>1, <1>3 DEF Numbered
  <1>8. /\ answers[b] # {} /\ answers'[b] = {}
        /\ \A c \in Broker : answers'[c] \subseteq answers[c]
    <2>1. \A k \in answers[b] : k = a
      BY <1>1 DEF OnePlace
    <2>2. QED
      BY <1>2, <1>6, <2>1
  <1>9. peers'[b] = {}
    <2>1. peers[b] = {to}
      BY <1>1, <1>4 DEF OnlyWhileAwaiting
    <2>2. QED
      BY <1>3, <1>6, <2>1
  <1>10. /\ \A c \in Broker : sequence[c] <= sequence'[c]
         /\ \A c \in Broker \ {b} : awaiting'[c] = awaiting[c] /\ peers'[c] = peers[c]
    BY <1>3, <1>6
  <1>11. QED
    BY <1>1, <1>2, <1>3, <1>4, <1>5, <1>7, <1>8, <1>9, <1>10, EndsKeepsInv

LEMMA TimesOutKeepsInv ==
    ASSUME BrokerIInv, NEW b \in Broker, NEW t \in Caller, TimesOut(b, t)
    PROVE  BrokerIInv'
  <1> PICK request : request = call[b][t].request
    OBVIOUS
  <1> PICK to : to = call[b][t].to
    OBVIOUS
  <1>1. TypeInv /\ TypeInv' /\ Numbered
    BY TimesOutKeepsTypes DEF BrokerIInv, PlacesInv
  <1>2. /\ call[b][t].stage = "sent"
        /\ Ends(b, t, request, NoResponse, "timeout")
        /\ holder' = [holder EXCEPT ![b] = "none"]
        /\ UNCHANGED <<inbox, handled, sequence, answers, awaiting, peers>>
    BY DEF TimesOut, SocketAfterTimeout
  <1>3. /\ Calling(b, t) /\ to \in Broker /\ awaiting[b]
        /\ request \in Requests /\ request.from = b
    BY <1>1, <1>2 DEF Calling, TypeInv, BrokerTypeOK, CallsFit
  <1>4. sequence \in [Broker -> Nat]
    BY <1>1 DEF TypeInv, BrokerTypeOK
  <1>5. request.seq < sequence'[b]
    BY <1>1, <1>2 DEF Numbered
  <1>6. \A c \in Broker : sequence[c] <= sequence'[c]
    BY <1>2, <1>4
  <1>7. QED
    BY <1>1, <1>2, <1>3, <1>5, <1>6, Sentinels, EndsKeepsInv

LEMMA ServesKeepsInv ==
    ASSUME BrokerIInv, NEW b \in Broker, Serves(b)
    PROVE  BrokerIInv'
  <1> PICK request : request = Head(inbox[b])
    OBVIOUS
  <1>1. /\ TypeInv /\ TypeInv' /\ PlacesInv /\ Covers /\ AnswersMatch
        /\ request \in Requests
        /\ ~Calling(b, "io")
        /\ serving'[b].request = request
        /\ \A c \in Broker \ {b} : serving'[c] = serving[c]
        /\ \/ /\ request.id = b
              /\ serving'[b].rest = Handlers[b].asks
              /\ handled' = handled \cup {request}
           \/ /\ request.id # b
              /\ serving'[b].rest = <<>>
              /\ serving'[b].result = "UnsupportedRequest"
              /\ handled' = handled
    BY ServesKeepsTypes DEF BrokerIInv
  <1>2. UNCHANGED <<plan, call, holder, awaiting, peers, sequence, answers, outcomes, timeouts>>
    BY DEF Serves
  <1>3. \A c \in Broker : \A i \in DOMAIN Pending'[c] :
           \E j \in DOMAIN Pending[c] :
              /\ Pending'[c][i] = Pending[c][j]
              /\ j = IF c = b THEN i + 1 ELSE i
    BY <1>1, PendingShifts
  <1>4. \A c \in Broker : DOMAIN Pending'[c] \subseteq Nat /\ DOMAIN Pending[c] \subseteq Nat
    <2>1. \A c \in Broker : DOMAIN Pending'[c] \subseteq Nat
      BY <1>1, PendingShifts, PendingTypes
    <2>2. QED
      BY <1>1, <2>1, PendingTypes
  <1>5. OnePlace'
    <2>1. ASSUME NEW c \in Broker, NEW d \in Broker, NEW i \in DOMAIN Pending'[c],
                 NEW j \in DOMAIN Pending'[d], Pending'[c][i].from = Pending'[d][j].from
          PROVE  c = d /\ i = j
      <3>1. PICK k \in DOMAIN Pending[c] : /\ Pending'[c][i] = Pending[c][k]
                                           /\ k = IF c = b THEN i + 1 ELSE i
        BY <1>3
      <3>2. PICK l \in DOMAIN Pending[d] : /\ Pending'[d][j] = Pending[d][l]
                                           /\ l = IF d = b THEN j + 1 ELSE j
        BY <1>3
      <3>3. c = d /\ k = l
        BY <1>1, <2>1, <3>1, <3>2 DEF PlacesInv, OnePlace
      <3>4. i \in Nat /\ j \in Nat
        BY <1>4
      <3>5. QED
        BY <3>1, <3>2, <3>3, <3>4
    <2>2. ASSUME NEW c \in Broker, NEW i \in DOMAIN Pending'[c]
          PROVE  answers[Pending'[c][i].from] = {}
      <3>1. PICK j \in DOMAIN Pending[c] : Pending'[c][i] = Pending[c][j]
        BY <1>3
      <3>2. answers[Pending[c][j].from] = {}
        BY <1>1 DEF PlacesInv, OnePlace
      <3>3. QED
        BY <3>1, <3>2
    <2>3. QED
      BY <1>1, <1>2, <2>1, <2>2 DEF PlacesInv, OnePlace
  <1>6. OnlyWhileAwaiting'
    BY <1>1, <1>2, <1>3 DEF PlacesInv, OnlyWhileAwaiting
  <1>7. OfTheHolder'
    BY <1>1, <1>2, <1>3 DEF PlacesInv, OfTheHolder
  <1>8. Numbered'
    BY <1>1, <1>2, <1>3 DEF PlacesInv, Numbered
  <1>9. Causes'
    <2>1. ASSUME NEW o \in outcomes, NEW c \in Broker, NEW i \in DOMAIN Pending'[c]
          PROVE  /\ i # 0 => o.cause # Pending'[c][i]
                 /\ o.failure = "none" => o.request # Pending'[c][i]
      <3>1. PICK j \in DOMAIN Pending[c] : /\ Pending'[c][i] = Pending[c][j]
                                           /\ j = IF c = b THEN i + 1 ELSE i
        BY <1>3
      <3>2. i # 0 => j # 0
        BY <1>4, <3>1
      <3>3. QED
        BY <1>1, <3>1, <3>2 DEF PlacesInv, Causes
    <2>2. QED
      BY <1>2, <2>1 DEF Causes
  <1>10. AnswersMatch'
    BY <1>1, <1>2 DEF AnswersMatch
  <1>11. Rejects(b)' \/ HandlesAll(b)'
    <2>1. CASE request.id # b
      BY <1>1, <2>1 DEF Rejects
    <2>2. CASE request.id = b
      <3>1. \A o \in outcomes : o.cause # request
        <4>1. /\ inbox[b] \in Seq(Requests) /\ inbox[b] # <<>>
          BY <1>1 DEF TypeInv, Serves
        <4>2. 1 \in DOMAIN inbox[b] /\ inbox[b][1] = request
          BY <4>1
        <4>3. 1 \in DOMAIN Pending[b] /\ Pending[b][1] = request
          BY <4>2 DEF Pending
        <4>4. QED
          BY <1>1, <4>3 DEF PlacesInv, Causes
      <3>2. Handlers[b].stops \/ Len(Handlers[b].asks) <= 1
        BY BrokerAssumption
      <3>3. \A d \in ToAsk(b) : d \in ToSet(serving'[b].rest)
        BY <1>1, <2>2 DEF ToAsk
      <3>4. ToSet(serving'[b].rest) \subseteq ToAsk(b)
        BY <1>1, <2>2 DEF ToAsk
      <3>5. QED
        BY <1>1, <1>2, <2>2, <3>1, <3>2, <3>3, <3>4 DEF HandlesAll, AskedOnly, Calling
    <2>3. QED
      BY <2>1, <2>2
  <1>12. \A c \in Broker : serving'[c].request # NoRequest => Rejects(c)' \/ HandlesAll(c)'
    <2>1. ASSUME NEW c \in Broker \ {b}, serving[c].request # NoRequest
          PROVE  Rejects(c)' \/ HandlesAll(c)'
      BY <1>1, <1>2, <2>1, HandlingStays DEF Covers
    <2>2. QED
      BY <1>1, <1>11, <2>1
  <1>13. Covers'
    BY <1>1, <1>2, <1>12, AnsweredStays DEF Covers
  <1>14. QED
    BY <1>1, <1>5, <1>6, <1>7, <1>8, <1>9, <1>10, <1>13 DEF BrokerIInv, PlacesInv

LEMMA RepliesKeepsInv ==
    ASSUME BrokerIInv, NEW b \in Broker, Replies(b)
    PROVE  BrokerIInv'
  <1> PICK request : request = serving[b].request
    OBVIOUS
  <1> PICK from : from = request.from
    OBVIOUS
  <1> PICK answer : answer = [request |-> request, by |-> b, result |-> serving[b].result]
    OBVIOUS
  <1>1. /\ TypeInv /\ TypeInv' /\ PlacesInv /\ Covers /\ AnswersMatch
        /\ request \in Requests
        /\ serving'[b] = Idle
        /\ \A c \in Broker \ {b} : serving'[c] = serving[c]
        /\ answers' = [answers EXCEPT ![from] = @ \cup {answer}]
    BY RepliesKeepsTypes DEF BrokerIInv
  <1>2. /\ serving[b].rest = <<>> /\ ~Calling(b, "io")
        /\ UNCHANGED <<plan, call, holder, awaiting, peers, sequence, inbox, handled, outcomes,
                       timeouts>>
    BY DEF Replies
  <1>3. answer.request = request /\ answer.by = b /\ answer.result = serving[b].result
    OBVIOUS
  <1>4. from \in Broker /\ 0 \in DOMAIN Pending[b] /\ Pending[b][0] = request
    BY <1>1, PendingTypes, Sentinels DEF Requests
  <1>5. \A c \in Broker : \A i \in DOMAIN Pending'[c] :
           /\ c = b => i # 0
           /\ i \in DOMAIN Pending[c] /\ Pending'[c][i] = Pending[c][i]
    BY <1>1, PendingShrinks
  <1>6. answers[from] = {}
    BY <1>1, <1>4 DEF PlacesInv, OnePlace
  <1>7. /\ answers'[from] = {answer}
        /\ \A c \in Broker \ {from} : answers'[c] = answers[c]
    <2>1. DOMAIN answers = Broker
      BY <1>1 DEF TypeInv
    <2>2. QED
      BY <1>1, <1>4, <1>6, <2>1
  <1>8. \A c \in Broker : \A i \in DOMAIN Pending'[c] : Pending'[c][i].from \in Broker \ {from}
    <2> TAKE c \in Broker
    <2> TAKE i \in DOMAIN Pending'[c]
    <2>1. i \in DOMAIN Pending[c] /\ Pending'[c][i] = Pending[c][i] /\ (c # b \/ i # 0)
      BY <1>5
    <2>2. Pending[c][i].from \in Broker
      BY <1>1, <2>1, PendingTypes
    <2>3. Pending[c][i].from # Pending[b][0].from
      BY <1>1, <1>4, <2>1 DEF PlacesInv, OnePlace
    <2>4. QED
      BY <1>4, <2>1, <2>2, <2>3
  <1> HIDE DEF Pending
  <1>9. OnePlace'
    <2>1. \A c, d \in Broker : \A i \in DOMAIN Pending'[c], j \in DOMAIN Pending'[d] :
             Pending'[c][i].from = Pending'[d][j].from => c = d /\ i = j
      BY <1>1, <1>5 DEF PlacesInv, OnePlace
    <2>2. \A c \in Broker : \A i \in DOMAIN Pending'[c] : answers'[Pending'[c][i].from] = {}
      <3> TAKE c \in Broker
      <3> TAKE i \in DOMAIN Pending'[c]
      <3>1. Pending'[c][i].from \in Broker \ {from} /\ Pending'[c][i] = Pending[c][i]
            /\ i \in DOMAIN Pending[c]
        BY <1>5, <1>8
      <3>2. answers[Pending[c][i].from] = {}
        BY <1>1, <3>1 DEF PlacesInv, OnePlace
      <3>3. QED
        BY <1>7, <3>1, <3>2
    <2>3. \A c \in Broker : \A a, k \in answers'[c] : a = k
      BY <1>1, <1>7 DEF PlacesInv, OnePlace
    <2>4. QED
      BY <2>1, <2>2, <2>3 DEF OnePlace
  <1>10. OnlyWhileAwaiting'
    <2>1. awaiting[from]
      BY <1>1, <1>4 DEF PlacesInv, OnlyWhileAwaiting
    <2>2. \A c \in Broker : answers'[c] # {} => awaiting[c]
      BY <1>1, <1>7, <2>1 DEF PlacesInv, OnlyWhileAwaiting
    <2>3. QED
      BY <1>1, <1>2, <1>5, <2>2 DEF PlacesInv, OnlyWhileAwaiting
  <1>11. OfTheHolder'
    <2>1. \A u \in Caller : holder[from] = u => /\ request = call[from][u].request
                                                /\ b = call[from][u].to
      BY <1>1, <1>4 DEF PlacesInv, OfTheHolder
    <2>2. \A c \in Broker : \A a \in answers'[c] :
             /\ a.request.from = c
             /\ \A u \in Caller :
                   holder[c] = u => a.request = call[c][u].request /\ a.by = call[c][u].to
      BY <1>1, <1>3, <1>7, <2>1 DEF PlacesInv, OfTheHolder
    <2>3. QED
      BY <1>1, <1>2, <1>5, <2>2 DEF PlacesInv, OfTheHolder
  <1>12. Numbered'
    <2>1. request.seq < sequence[from]
      BY <1>1, <1>4 DEF PlacesInv, Numbered
    <2>2. \A c \in Broker : \A a \in answers'[c] : a.request.seq < sequence[c]
      BY <1>1, <1>3, <1>7, <2>1 DEF PlacesInv, Numbered
    <2>3. QED
      BY <1>1, <1>2, <1>5, <2>2 DEF PlacesInv, Numbered
  <1>13. Causes'
    BY <1>1, <1>2, <1>5 DEF PlacesInv, Causes
  <1>14. AnswersMatch'
    BY <1>1, <1>2 DEF AnswersMatch
  <1>15. \A c \in Broker : serving'[c].request # NoRequest => Rejects(c)' \/ HandlesAll(c)'
    <2>1. ASSUME NEW c \in Broker \ {b}, serving[c].request # NoRequest
          PROVE  Rejects(c)' \/ HandlesAll(c)'
      BY <1>1, <1>2, <2>1, HandlingStays DEF Covers
    <2>2. QED
      BY <1>1, <2>1, Sentinels
  <1>16. answer.result = "Success" => request \in handled /\ Covered(request, b)
    <2> HAVE answer.result = "Success"
    <2>1. HandlesAll(b)
      BY <1>1, <1>3, Sentinels DEF Covers, Rejects
    <2>2. QED
      BY <1>2, <1>3, <2>1, ToSetOfNone DEF HandlesAll, Covered, AsksFor
  <1>17. \A c \in Broker : \A a \in answers'[c] :
            a.result = "Success" => a.request \in handled' /\ Covered(a.request, a.by)'
    <2>1. \A c \in Broker : \A a \in answers[c] :
             a.result = "Success" => a.request \in handled' /\ Covered(a.request, a.by)'
      BY <1>2, AnsweredStays
    <2>2. Covered(request, b) => Covered(request, b)'
      BY <1>2, CoverStays
    <2>3. answer.result = "Success" => /\ answer.request \in handled'
                                       /\ Covered(answer.request, answer.by)'
      BY <1>2, <1>3, <1>16, <2>2 DEF Covered, AskedOnly, Failed, Reached
    <2>4. QED
      BY <1>7, <2>1, <2>3
  <1>18. Covers'
    BY <1>2, <1>15, <1>17, AnsweredStays DEF Covers
  <1>19. QED
    BY <1>1, <1>9, <1>10, <1>11, <1>12, <1>13, <1>14, <1>18 DEF BrokerIInv, PlacesInv

-----------------------------------------------------------------------------
(* The theorem. *)

LEMMA BrokerInitHolds == BrokerInit => BrokerIInv
  <1> SUFFICES ASSUME BrokerInit PROVE BrokerIInv
    OBVIOUS
  <1>1. /\ call = [b \in Broker |-> [t \in Caller |-> NoCall]]
        /\ holder = [b \in Broker |-> "none"]
        /\ awaiting = [b \in Broker |-> FALSE]
        /\ peers = [b \in Broker |-> {}]
        /\ sequence = [b \in Broker |-> 0]
        /\ inbox = [b \in Broker |-> <<>>]
        /\ serving = [b \in Broker |-> Idle]
        /\ answers = [b \in Broker |-> {}]
        /\ handled = {} /\ outcomes = {} /\ timeouts = 0
    BY DEF BrokerInit
  <1>2. plan \in [Broker -> Seq(RequestIds)]
    BY BrokerAssumption DEF BrokerInit
  <1>3. \A c \in Broker : DOMAIN Pending[c] = {}
    BY <1>1, Sentinels DEF Pending
  <1>4. \A b \in Broker : serving[b] = Idle /\ serving[b].result \in Results
    BY <1>1 DEF Idle, Results
  <1>5. call \in [Broker -> [Caller -> Calls]]
        /\ \A b \in Broker : \A t \in Caller : call[b][t].stage = "none" /\ ~Calling(b, t)
    BY <1>1, Sentinels DEF Calling
  <1>6. CallsFit
    BY <1>5 DEF CallsFit
  <1>7. BrokerTypeOK
    <2>1. timeouts \in 0..MaxTimeouts
      BY <1>1, BrokerAssumption
    <2>2. \A b \in Broker : inbox[b] \in Seq(Requests)
      BY <1>1
    <2>3. Guarded
      BY <1>1, <1>5, Sentinels DEF Guarded
    <2>4. QED
      BY <1>1, <1>2, <1>4, <2>1, <2>2, <2>3, Sentinels DEF BrokerTypeOK, Guarded
  <1>8. TypeInv
    BY <1>1, <1>5, <1>6, <1>7, Sentinels DEF TypeInv
  <1>9. PlacesInv
    <2>1. OnePlace /\ Causes /\ OfTheHolder
      BY <1>1, <1>3 DEF OnePlace, Causes, OfTheHolder
    <2>2. OnlyWhileAwaiting
      BY <1>1, <1>3, Sentinels DEF OnlyWhileAwaiting
    <2>3. Numbered
      BY <1>1, <1>3, <1>5 DEF Numbered
    <2>4. QED
      BY <2>1, <2>2, <2>3 DEF PlacesInv
  <1>10. Covers /\ AnswersMatch
    BY <1>1, Sentinels DEF Covers, AnswersMatch
  <1>11. QED
    BY <1>8, <1>9, <1>10 DEF BrokerIInv

LEMMA BrokerStutterKeepsInv == BrokerIInv /\ UNCHANGED brokerVars => BrokerIInv'
  <1> SUFFICES ASSUME BrokerIInv, UNCHANGED brokerVars PROVE BrokerIInv'
    OBVIOUS
  <1>1. UNCHANGED <<plan, call, holder, awaiting, peers, sequence, inbox, serving, answers,
                    handled, outcomes, timeouts>>
    BY DEF brokerVars
  <1>2. TypeInv'
    <2>1. TypeInv
      BY DEF BrokerIInv
    <2>2. BrokerTypeOK'
      BY <1>1, <2>1 DEF TypeInv, BrokerTypeOK
    <2>3. CallsFit'
      BY <1>1, <2>1 DEF TypeInv, CallsFit, Calling
    <2>4. QED
      BY <1>1, <2>1, <2>2, <2>3 DEF TypeInv
  <1>3. Pending' = Pending
    BY <1>1, PendingStays
  <1>4. PlacesInv' /\ AnswersMatch'
    BY <1>1, <1>3 DEF BrokerIInv, PlacesInv, OnePlace, OnlyWhileAwaiting, OfTheHolder,
                      Numbered, Causes, AnswersMatch
  <1>5. \A c \in Broker : serving'[c].request # NoRequest => Rejects(c)' \/ HandlesAll(c)'
    BY <1>1, HandlingStays DEF BrokerIInv, Covers
  <1>6. Covers'
    BY <1>1, <1>5, AnsweredStays DEF Covers
  <1>7. QED
    BY <1>2, <1>4, <1>6 DEF BrokerIInv

LEMMA AsksKeepsInv == ASSUME BrokerIInv, NEW b \in Broker, Asks(b) PROVE BrokerIInv'
  <1>1. plan \in [Broker -> Seq(RequestIds)]
    BY DEF BrokerIInv, TypeInv, BrokerTypeOK
  <1>2. Head(plan[b]) \in RequestIds /\ plan' \in [Broker -> Seq(RequestIds)]
    <2>1. Head(plan[b]) \in RequestIds /\ Tail(plan[b]) \in Seq(RequestIds)
      BY <1>1 DEF Asks
    <2>2. QED
      BY <1>1, <2>1 DEF Asks
  <1>3. Head(plan[b]).to \in Broker /\ Head(plan[b]).id \in Identifiers
    BY <1>2 DEF RequestIds
  <1>4. QED
    BY <1>2, <1>3, WorkerEnteringKeepsInv DEF Asks

LEMMA BrokerStepKeepsInv == ASSUME BrokerIInv, BrokerNext PROVE BrokerIInv'
  <1>1. PICK b \in Broker : \/ Asks(b)
                            \/ IoStep(b)
                            \/ \E t \in Caller : CallerStep(b, t) \/ TimesOut(b, t)
    BY DEF BrokerNext
  <1>2. CASE Asks(b)
    BY <1>2, AsksKeepsInv
  <1>3. CASE IoStep(b)
    BY <1>3, ServesKeepsInv, HandlerAsksKeepsInv, RepliesKeepsInv DEF IoStep
  <1>4. ASSUME NEW t \in Caller, Sends(b, t) PROVE BrokerIInv'
    <2>1. Refuses(b, t) \/ \E p \in Broker : Delivers(b, t, p)
      BY <1>4, SendsSplits DEF BrokerIInv
    <2>2. QED
      BY <2>1, RefusesKeepsInv, DeliversKeepsInv
  <1>5. ASSUME NEW t \in Caller, Receives(b, t) \/ TimesOut(b, t) PROVE BrokerIInv'
    BY <1>5, ReceivesKeepsInv, TimesOutKeepsInv
  <1>6. QED
    BY <1>1, <1>2, <1>3, <1>4, <1>5 DEF CallerStep

\* What the invariant says of a success, in the words of the property.
LEMMA CoveredMeansHandled == BrokerIInv => SuccessMeansHandled
  <1> SUFFICES ASSUME BrokerIInv, NEW o \in outcomes, Succeeded(o)
               PROVE  /\ o.request \in handled
                      /\ LET made == {p \in outcomes : p.cause = o.request}
                         IN  \/ {p.to : p \in {q \in made : Succeeded(q)}} =
                                   ToSet(Handlers[o.to].asks)
                             \/ \E p \in made : p.failure # "none"
    BY DEF SuccessMeansHandled
  <1> DEFINE made == {p \in outcomes : p.cause = o.request}
             reached == {p.to : p \in {q \in made : Succeeded(q)}}
  <1>1. o.request \in handled /\ Covered(o.request, o.to)
    BY DEF BrokerIInv, Covers
  <1>2. CASE Failed(o.request)
    BY <1>1, <1>2 DEF Failed
  <1>3. CASE \A d \in ToAsk(o.to) : Reached(o.request, d)
    <2>1. reached \subseteq ToAsk(o.to)
      BY <1>1 DEF Covered, AskedOnly
    <2>2. ToAsk(o.to) \subseteq reached
      BY <1>3 DEF Reached
    <2>3. reached = ToAsk(o.to)
      BY <2>1, <2>2
    <2>4. QED
      BY <1>1, <2>3 DEF ToAsk
  <1>4. QED
    BY <1>1, <1>2, <1>3 DEF Covered

\* For any brokers, whatever their workers and handlers ask and however many time-outs:
\* an answer belongs to the request of its call and comes from whom it asked, and Success
\* means handled by all (MessageBroker.cpp:82-130, Client.cpp:87-116).
THEOREM AnswersBelong == BrokerSpec => []BrokerInvariant
  <1>1. BrokerIInv /\ [BrokerNext]_brokerVars => BrokerIInv'
    BY BrokerStepKeepsInv, BrokerStutterKeepsInv
  <1>2. BrokerIInv => BrokerInvariant
    BY CoveredMeansHandled DEF BrokerIInv, BrokerInvariant, TypeInv
  <1>3. QED
    BY BrokerInitHolds, <1>1, <1>2, PTL DEF BrokerSpec
=============================================================================
