----------------------------- MODULE GatewayProofs -----------------------------
(***************************************************************************)
(* What the gateway tells its clients, whatever they ask in which order    *)
(* and whichever of its calls fail.  The gateway finds the outcome of its  *)
(* call by its number: that it is the outcome of the letter it reads rests *)
(* on the order of its steps, one call for each request and one response   *)
(* after it.                                                               *)
(***************************************************************************)
EXTENDS ServiceGateway, MessageBrokerProofs, FiniteSetTheorems

-----------------------------------------------------------------------------
(* The inductive invariant. *)

Response == [to : Letter, type : {"result", "error"}, code : Results \cup {"InvalidMessage"}]

\* The responses to requests: as many as the gateway has called send.
Told == {r \in responses : r.to.kind = "request"}

GatewayTypeInv ==
    /\ letters \in Seq(Letter) /\ arrived \subseteq Letter
    /\ reading \subseteq Letter
    /\ reading # {} => owes
    /\ gatewayThread \in {"running", "ended"}
    /\ responses \subseteq Response
    /\ IsFiniteSet(responses)

\* A letter is in one place: it waits, or is read, or has been answered.
OnePlaceEach ==
    /\ \A k, l \in reading : k = l
    /\ \A i \in DOMAIN letters : /\ letters[i] \in arrived \ reading
                                 /\ ~Answered(letters[i])
    /\ \A i, j \in DOMAIN letters : letters[i] = letters[j] => i = j
    /\ \A l \in reading : l \in arrived /\ ~Answered(l)
    /\ \A r \in responses : r.to \in arrived

Mine(o) == o.request.from = GatewayBroker
MyCall == call[GatewayBroker]["worker"]
MySequence == sequence[GatewayBroker]

\* A call of the gateway, under way or ended, is for the letter l.
IsFor(request, to, l) == l.kind = "request" /\ request.id = l.id /\ to = l.to

\* The number of the request under way is of no call that has ended.
NotEnded(o) == MyCall.stage = "sent" => o.request.seq # MyCall.request.seq

\* The steps for a request: before send, in it, and after it.
CallOfLetter ==
    /\ plan[GatewayBroker] = <<>>
    /\ ~Calling(GatewayBroker, "io")
    /\ \A o, p \in outcomes : Mine(o) /\ Mine(p) /\ o.request.seq = p.request.seq => o = p
    /\ \A o \in outcomes : Mine(o) => NotEnded(o)
    /\ MyCall.stage = "none" =>
          \/ MySequence = Cardinality(Told)
          \/ /\ MySequence = Cardinality(Told) + 1
             /\ \E l \in reading, o \in outcomes :
                   Mine(o) /\ o.request.seq = Cardinality(Told) /\ IsFor(o.request, o.to, l)
    /\ MyCall.stage # "none" => \E l \in reading : IsFor(MyCall.request, MyCall.to, l)
    /\ MyCall.stage = "entered" => MySequence = Cardinality(Told)
    /\ MyCall.stage = "sent" => /\ MySequence = Cardinality(Told) + 1
                                /\ MyCall.request.seq = Cardinality(Told)

LettersInv == GatewayTypeInv /\ OnePlaceEach

GatewayIInv == BrokerIInv /\ LettersInv /\ CallOfLetter /\ GatewayTellsTruth

-----------------------------------------------------------------------------
(* What a step of the brokers does to the gateway. *)

\* Nothing, as far as its calls go.
PassesBy ==
    /\ plan'[GatewayBroker] = plan[GatewayBroker]
    /\ call'[GatewayBroker] = call[GatewayBroker]
    /\ MySequence' = MySequence
    /\ outcomes \subseteq outcomes'
    /\ \A o \in outcomes' \ outcomes : ~Mine(o)

\* The request of its call is sent.
GetsNumber ==
    /\ plan'[GatewayBroker] = plan[GatewayBroker]
    /\ MyCall.stage = "entered" /\ MyCall'.stage = "sent"
    /\ call'[GatewayBroker]["io"] = call[GatewayBroker]["io"]
    /\ MyCall'.to = MyCall.to
    /\ MyCall'.request.id = MyCall.request.id
    /\ MyCall'.request.seq = MySequence
    /\ MySequence' = MySequence + 1
    /\ outcomes' = outcomes

\* Its call ends; one that the socket refuses has used a number too.
GetsOutcome ==
    /\ plan'[GatewayBroker] = plan[GatewayBroker]
    /\ call'[GatewayBroker]["io"] = call[GatewayBroker]["io"]
    /\ MyCall'.stage = "none"
    /\ \E o \in Outcomes :
          /\ outcomes' = outcomes \cup {o}
          /\ Mine(o) /\ o.to = MyCall.to /\ o.request.id = MyCall.request.id
          /\ \/ /\ MyCall.stage = "entered" /\ MySequence' = MySequence + 1
                /\ o.request.seq = MySequence
             \/ /\ MyCall.stage = "sent" /\ MySequence' = MySequence
                /\ o.request.seq = MyCall.request.seq

\* A call ends: one of the gateway is its worker's.
LEMMA EndReachesGateway ==
    ASSUME TypeInv, ~Calling(GatewayBroker, "io"), plan' = plan,
           NEW b \in Broker, NEW t \in Caller, Calling(b, t),
           NEW request \in Requests, request.from = b, request.id = call[b][t].request.id,
           NEW response \in Responses, NEW failure \in {"none", "timeout", "refused"},
           Ends(b, t, request, response, failure),
           \/ /\ call[b][t].stage = "entered" /\ request.seq = sequence[b]
              /\ sequence' = [sequence EXCEPT ![b] = @ + 1]
           \/ /\ call[b][t].stage = "sent" /\ request.seq = call[b][t].request.seq
              /\ sequence' = sequence
    PROVE  PassesBy \/ GetsOutcome
  <1> DEFINE made == [request |-> request, to |-> call[b][t].to, cause |-> call[b][t].cause,
                      response |-> response, failure |-> failure]
  <1>1. /\ call' \in [Broker -> [Caller -> Calls]]
        /\ call'[b][t] = NoCall
        /\ \A c \in Broker : \A u \in Caller :
              c # b \/ u # t => call'[c][u] = call[c][u]
        /\ outcomes' \subseteq Outcomes
    BY EndingKeepsTypes
  <1>2. outcomes' = outcomes \cup {made}
    BY DEF Ends
  <1>3. made \in Outcomes /\ made.request = request /\ made.to = call[b][t].to
    BY <1>1, <1>2
  <1>4. GatewayBroker \in Broker /\ "worker" \in Caller /\ "io" \in Caller
    BY GatewayAssumption DEF Caller
  <1>5. sequence \in [Broker -> Nat] /\ call \in [Broker -> [Caller -> Calls]]
    BY DEF TypeInv, BrokerTypeOK
  <1> HIDE DEF made
  <1>6. CASE b # GatewayBroker
    <2>1. ~Mine(made)
      BY <1>3, <1>6 DEF Mine
    <2>2. sequence'[GatewayBroker] = sequence[GatewayBroker]
      BY <1>4, <1>5, <1>6
    <2>3. call'[GatewayBroker] = call[GatewayBroker]
      BY <1>1, <1>4, <1>5, <1>6
    <2>4. QED
      BY <1>2, <2>1, <2>2, <2>3 DEF PassesBy, MySequence
  <1>7. CASE b = GatewayBroker
    <2>1. t = "worker"
      BY <1>7 DEF Caller
    <2>2. call'[GatewayBroker]["io"] = call[GatewayBroker]["io"] /\ MyCall'.stage = "none"
      BY <1>1, <1>4, <1>7, <2>1, Sentinels DEF MyCall
    <2>3. Mine(made) /\ made.to = MyCall.to /\ made.request.id = MyCall.request.id
      BY <1>3, <1>7, <2>1 DEF Mine, MyCall
    <2>4. \/ /\ MyCall.stage = "entered" /\ MySequence' = MySequence + 1
             /\ made.request.seq = MySequence
          \/ /\ MyCall.stage = "sent" /\ MySequence' = MySequence
             /\ made.request.seq = MyCall.request.seq
      BY <1>3, <1>4, <1>5, <1>7, <2>1 DEF MyCall, MySequence
    <2>5. QED
      BY <1>2, <1>3, <2>2, <2>3, <2>4 DEF GetsOutcome
  <1>8. QED
    BY <1>6, <1>7

LEMMA BrokerStepAtGateway ==
    ASSUME BrokerIInv, CallOfLetter, BrokerNext
    PROVE  /\ PassesBy \/ GetsNumber \/ GetsOutcome
           /\ outcomes \subseteq outcomes' /\ handled \subseteq handled'
  <1>1. /\ TypeInv /\ Covers
        /\ GatewayBroker \in Broker /\ plan[GatewayBroker] = <<>>
        /\ ~Calling(GatewayBroker, "io")
    BY GatewayAssumption DEF BrokerIInv, CallOfLetter
  <1>2. /\ sequence \in [Broker -> Nat] /\ call \in [Broker -> [Caller -> Calls]]
        /\ plan \in [Broker -> Seq(RequestIds)]
    BY <1>1 DEF TypeInv, BrokerTypeOK
  <1>3. PICK b \in Broker : \/ Asks(b)
                            \/ IoStep(b)
                            \/ \E t \in Caller : CallerStep(b, t) \/ TimesOut(b, t)
    BY DEF BrokerNext
  <1>4. CASE Asks(b)
    <2>1. b # GatewayBroker
      BY <1>1, <1>4 DEF Asks
    <2>2. call'[GatewayBroker] = call[GatewayBroker] /\ plan'[GatewayBroker] = plan[GatewayBroker]
      BY <1>1, <1>2, <1>4, <2>1 DEF Asks, Enters
    <2>3. UNCHANGED <<sequence, outcomes, handled>>
      BY <1>4 DEF Asks
    <2>4. QED
      BY <2>2, <2>3 DEF PassesBy, MySequence
  <1>5. CASE HandlerAsks(b)
    <2>1. b # GatewayBroker
      <3> SUFFICES ASSUME b = GatewayBroker PROVE FALSE
        OBVIOUS
      <3>1. serving[b].request # NoRequest /\ serving[b].rest # <<>>
        BY <1>1, <1>5 DEF HandlerAsks, Serving, TypeInv
      <3>2. HandlesAll(b)
        BY <1>1, <3>1 DEF Covers, Rejects
      <3>3. serving[b].rest \in Seq(Broker)
        BY <1>1 DEF TypeInv
      <3>4. Head(serving[b].rest) \in ToSet(serving[b].rest)
        BY <3>1, <3>3, ToSetOfTail
      <3>5. ToAsk(b) = {}
        BY GatewayAssumption, ToSetOfNone DEF ToAsk
      <3>6. QED
        BY <3>2, <3>4, <3>5 DEF HandlesAll
    <2>2. call'[GatewayBroker] = call[GatewayBroker]
      BY <1>1, <1>2, <1>5, <2>1 DEF HandlerAsks, Enters
    <2>3. UNCHANGED <<plan, sequence, outcomes, handled>>
      BY <1>5 DEF HandlerAsks
    <2>4. QED
      BY <2>2, <2>3 DEF PassesBy, MySequence
  <1>6. CASE Serves(b) \/ Replies(b)
    <2>1. UNCHANGED <<plan, call, sequence, outcomes>> /\ handled \subseteq handled'
      BY <1>6 DEF Serves, Replies
    <2>2. QED
      BY <2>1 DEF PassesBy, MySequence
  <1>7. ASSUME NEW t \in Caller, NEW p \in Broker, Delivers(b, t, p)
        PROVE  /\ PassesBy \/ GetsNumber
               /\ outcomes \subseteq outcomes' /\ handled \subseteq handled'
    <2>1. UNCHANGED <<plan, outcomes, handled>> /\ call[b][t].stage = "entered"
          /\ sequence' = [sequence EXCEPT ![b] = @ + 1]
      BY <1>7 DEF Delivers
    <2>2. /\ call' \in [Broker -> [Caller -> Calls]]
          /\ call'[b][t].stage = "sent" /\ call'[b][t].to = call[b][t].to
          /\ call'[b][t].request = [call[b][t].request EXCEPT !.seq = sequence[b]]
          /\ \A c \in Broker : \A u \in Caller :
                c # b \/ u # t => call'[c][u] = call[c][u]
      BY <1>1, <1>7, DeliversKeepsTypes, ZenonT(60) DEF TypeInv
    <2>3. CASE b # GatewayBroker
      <3>1. \A u \in Caller : call'[GatewayBroker][u] = call[GatewayBroker][u]
        BY <1>1, <2>2, <2>3
      <3>2. /\ call[GatewayBroker] \in [Caller -> Calls]
            /\ call'[GatewayBroker] \in [Caller -> Calls]
        BY <1>1, <1>2, <2>2
      <3>3. call'[GatewayBroker] = call[GatewayBroker]
        BY <3>1, <3>2
      <3>4. sequence'[GatewayBroker] = sequence[GatewayBroker]
        BY <1>1, <1>2, <2>1, <2>3
      <3>5. QED
        BY <2>1, <3>3, <3>4 DEF PassesBy, MySequence
    <2>4. CASE b = GatewayBroker
      <3>1. t = "worker"
        BY <1>1, <2>1, <2>4 DEF Calling, Caller
      <3>2. call[b][t].request \in Requests
        BY <1>1, <2>1 DEF TypeInv, CallsFit, Calling
      <3>3. MyCall'.request.id = MyCall.request.id /\ MyCall'.request.seq = MySequence
        BY <1>2, <2>2, <2>4, <3>1, <3>2 DEF MyCall, MySequence, Requests
      <3>4. MySequence' = MySequence + 1
        BY <1>1, <1>2, <2>1, <2>4 DEF MySequence
      <3>5. call'[GatewayBroker]["io"] = call[GatewayBroker]["io"]
        BY <1>1, <2>2, <3>1 DEF Caller
      <3>6. QED
        BY <2>1, <2>2, <2>4, <3>1, <3>3, <3>4, <3>5 DEF GetsNumber, MyCall
    <2>5. QED
      BY <2>1, <2>3, <2>4
  <1>8. ASSUME NEW t \in Caller, Refuses(b, t)
        PROVE  /\ PassesBy \/ GetsOutcome
               /\ outcomes \subseteq outcomes' /\ handled \subseteq handled'
    <2> PICK request : request = [call[b][t].request EXCEPT !.seq = sequence[b]]
      OBVIOUS
    <2>1. Calling(b, t) /\ call[b][t].stage = "entered" /\ plan' = plan /\ handled' = handled
          /\ Ends(b, t, request, NoResponse, "refused")
          /\ sequence' = [sequence EXCEPT ![b] = @ + 1]
      BY <1>8 DEF Refuses, Calling
    <2>2. request \in Requests /\ request.from = b /\ request.seq = sequence[b]
      BY <1>1, <2>1, NumberedRequest
    <2>3. request.id = call[b][t].request.id
      BY <1>1, <2>1 DEF TypeInv, CallsFit, Requests
    <2>4. PassesBy \/ GetsOutcome
      BY <1>1, <2>1, <2>2, <2>3, Sentinels, EndReachesGateway
    <2>5. QED
      BY <2>1, <2>4 DEF Ends
  <1>9. ASSUME NEW t \in Caller, NEW response \in Responses,
               NEW failure \in {"none", "timeout"},
               call[b][t].stage = "sent", Ends(b, t, call[b][t].request, response, failure),
               UNCHANGED <<plan, sequence, handled>>
        PROVE  /\ PassesBy \/ GetsOutcome
               /\ outcomes \subseteq outcomes' /\ handled \subseteq handled'
    <2>1. /\ Calling(b, t) /\ call[b][t].request \in Requests
          /\ call[b][t].request.from = b
      BY <1>1, <1>9 DEF Calling, TypeInv, CallsFit
    <2>2. PassesBy \/ GetsOutcome
      BY <1>1, <1>9, <2>1, EndReachesGateway
    <2>3. QED
      BY <1>9, <2>2 DEF Ends
  <1>10. ASSUME NEW t \in Caller, Receives(b, t)
         PROVE  /\ PassesBy \/ GetsOutcome
                /\ outcomes \subseteq outcomes' /\ handled \subseteq handled'
    <2>1. PICK a \in answers[b] : Ends(b, t, call[b][t].request, a, "none")
      BY <1>10 DEF Receives
    <2>2. a \in [request : Requests, by : Broker, result : Results]
      BY <1>1, <2>1 DEF TypeInv
    <2>3. a \in Responses
      BY <2>2 DEF Responses
    <2>4. QED
      BY <1>9, <1>10, <2>1, <2>3 DEF Receives
  <1>11. ASSUME NEW t \in Caller, TimesOut(b, t)
         PROVE  /\ PassesBy \/ GetsOutcome
                /\ outcomes \subseteq outcomes' /\ handled \subseteq handled'
    BY <1>9, <1>11, Sentinels DEF TimesOut
  <1>12. ASSUME NEW t \in Caller, Sends(b, t)
         PROVE  /\ PassesBy \/ GetsNumber \/ GetsOutcome
                /\ outcomes \subseteq outcomes' /\ handled \subseteq handled'
    <2>1. Refuses(b, t) \/ \E p \in Broker : Delivers(b, t, p)
      BY <1>1, <1>12, SendsSplits
    <2>2. QED
      BY <1>7, <1>8, <2>1
  <1>13. QED
    BY <1>3, <1>4, <1>5, <1>6, <1>10, <1>11, <1>12 DEF IoStep, CallerStep

-----------------------------------------------------------------------------
(* The steps of the brokers keep the invariant. *)

LEMMA TellingStays ==
    ASSUME GatewayTellsTruth, responses' = responses,
           outcomes \subseteq outcomes', handled \subseteq handled'
    PROVE  GatewayTellsTruth'
  BY DEF GatewayTellsTruth, Forwarded

LEMMA CountIsNumber ==
    ASSUME GatewayTypeInv
    PROVE  Cardinality(Told) \in Nat
  <1>1. IsFiniteSet(Told)
    BY FS_Subset DEF GatewayTypeInv, Told
  <1>2. QED
    BY <1>1, FS_CardinalityType

LEMMA LettersStay ==
    ASSUME LettersInv, UNCHANGED <<letters, arrived, reading, owes, gatewayThread, responses>>
    PROVE  LettersInv'
  BY DEF LettersInv, GatewayTypeInv, OnePlaceEach, Answered

LEMMA PassingKeepsCall ==
    ASSUME CallOfLetter, PassesBy, UNCHANGED <<reading, responses>>
    PROVE  CallOfLetter'
  <1>1. /\ call'[GatewayBroker] = call[GatewayBroker] /\ MyCall' = MyCall
        /\ MySequence' = MySequence /\ plan'[GatewayBroker] = plan[GatewayBroker]
        /\ Cardinality(Told)' = Cardinality(Told)
    BY DEF PassesBy, MyCall, Told
  <1>2. \A o \in outcomes' : Mine(o) => o \in outcomes
    BY DEF PassesBy
  <1>3. outcomes \subseteq outcomes'
    BY DEF PassesBy
  <1>4. /\ plan'[GatewayBroker] = <<>> /\ ~Calling(GatewayBroker, "io")'
        /\ \A o, p \in outcomes' :
              Mine(o) /\ Mine(p) /\ o.request.seq = p.request.seq => o = p
        /\ \A o \in outcomes' : Mine(o) => NotEnded(o)'
    BY <1>1, <1>2 DEF CallOfLetter, Calling, NotEnded
  <1>5. MyCall'.stage = "none" =>
          \/ MySequence' = Cardinality(Told)'
          \/ /\ MySequence' = Cardinality(Told)' + 1
             /\ \E l \in reading', o \in outcomes' :
                   Mine(o) /\ o.request.seq = Cardinality(Told)' /\ IsFor(o.request, o.to, l)
    BY <1>1, <1>3 DEF CallOfLetter
  <1>6. QED
    BY <1>1, <1>4, <1>5 DEF CallOfLetter

LEMMA NumberKeepsCall ==
    ASSUME BrokerIInv, GatewayTypeInv, CallOfLetter, GetsNumber, UNCHANGED <<reading, responses>>
    PROVE  CallOfLetter'
  <1>1. Cardinality(Told)' = Cardinality(Told)
    BY DEF Told
  <1>2. /\ outcomes' = outcomes /\ plan'[GatewayBroker] = <<>>
        /\ ~Calling(GatewayBroker, "io")' /\ MyCall'.stage = "sent"
        /\ MySequence' = Cardinality(Told) + 1
        /\ MyCall'.request.seq = Cardinality(Told)
        /\ MySequence = Cardinality(Told)
    BY DEF GetsNumber, CallOfLetter, Calling
  <1>3. \E l \in reading : IsFor(MyCall'.request, MyCall'.to, l)
    BY DEF GetsNumber, CallOfLetter, IsFor
  <1>4. \A o \in outcomes : Mine(o) => o.request.seq # Cardinality(Told)
    <2> SUFFICES ASSUME NEW o \in outcomes, Mine(o) PROVE o.request.seq # Cardinality(Told)
      OBVIOUS
    <2>1. o.request.seq < MySequence
      BY DEF BrokerIInv, PlacesInv, Numbered, Mine, MySequence
    <2>2. o.request.seq \in Nat
      BY DEF BrokerIInv, TypeInv, Outcomes, Requests
    <2>3. QED
      BY <1>2, <2>1, <2>2, CountIsNumber
  <1>5. QED
    BY <1>1, <1>2, <1>3, <1>4 DEF CallOfLetter, NotEnded

LEMMA OutcomeKeepsCall ==
    ASSUME BrokerIInv, GatewayTypeInv, CallOfLetter, GetsOutcome, UNCHANGED <<reading, responses>>
    PROVE  CallOfLetter'
  <1>1. Cardinality(Told)' = Cardinality(Told)
    BY DEF Told
  <1>2. PICK o \in Outcomes :
           /\ outcomes' = outcomes \cup {o}
           /\ Mine(o) /\ o.to = MyCall.to /\ o.request.id = MyCall.request.id
           /\ \/ /\ MyCall.stage = "entered" /\ MySequence' = MySequence + 1
                 /\ o.request.seq = MySequence
              \/ /\ MyCall.stage = "sent" /\ MySequence' = MySequence
                 /\ o.request.seq = MyCall.request.seq
    BY DEF GetsOutcome
  <1>3. /\ plan'[GatewayBroker] = <<>> /\ ~Calling(GatewayBroker, "io")'
        /\ MyCall'.stage = "none"
    BY DEF GetsOutcome, CallOfLetter, Calling
  <1>4. MyCall.stage # "none" /\ MyCall.stage \in {"entered", "sent"}
    BY <1>2
  <1>5. MySequence' = Cardinality(Told) + 1 /\ o.request.seq = Cardinality(Told)
    BY <1>2 DEF CallOfLetter
  <1>6. PICK l \in reading : IsFor(o.request, o.to, l)
    BY <1>2, <1>4 DEF CallOfLetter, IsFor
  <1>7. \A p \in outcomes : Mine(p) => p.request.seq # o.request.seq
    <2> SUFFICES ASSUME NEW p \in outcomes, Mine(p) PROVE p.request.seq # o.request.seq
      OBVIOUS
    <2>1. CASE MyCall.stage = "sent"
      BY <1>2, <2>1 DEF CallOfLetter, NotEnded
    <2>2. CASE MyCall.stage = "entered"
      <3>1. p.request.seq < MySequence
        BY DEF BrokerIInv, PlacesInv, Numbered, Mine, MySequence
      <3>2. p.request.seq \in Nat /\ o.request.seq = MySequence
        BY <1>2, <2>2 DEF BrokerIInv, TypeInv, Outcomes, Requests
      <3>3. o.request.seq \in Nat
        BY DEF Outcomes, Requests
      <3>4. QED
        BY <3>1, <3>2, <3>3
    <2>3. QED
      BY <1>4, <2>1, <2>2
  <1>8. \A p, q \in outcomes' : Mine(p) /\ Mine(q) /\ p.request.seq = q.request.seq => p = q
    BY <1>2, <1>7 DEF CallOfLetter
  <1>9. QED
    BY <1>1, <1>2, <1>3, <1>5, <1>6, <1>8 DEF CallOfLetter, NotEnded

LEMMA BrokerStepKeepsGateway ==
    ASSUME GatewayIInv, BrokerNext, UNCHANGED gatewayVars
    PROVE  GatewayIInv'
  <1>1. UNCHANGED <<letters, arrived, reading, owes, gatewayThread, responses>>
    BY DEF gatewayVars
  <1>2. BrokerIInv /\ LettersInv /\ GatewayTypeInv /\ CallOfLetter /\ GatewayTellsTruth
    BY DEF GatewayIInv, LettersInv
  <1>3. /\ PassesBy \/ GetsNumber \/ GetsOutcome
        /\ outcomes \subseteq outcomes' /\ handled \subseteq handled'
    BY <1>2, BrokerStepAtGateway
  <1>4. CallOfLetter'
    BY <1>1, <1>2, <1>3, PassingKeepsCall, NumberKeepsCall, OutcomeKeepsCall
  <1>5. BrokerIInv' /\ LettersInv' /\ GatewayTellsTruth'
    BY <1>1, <1>2, <1>3, BrokerStepKeepsInv, LettersStay, TellingStays
  <1>6. QED
    BY <1>4, <1>5 DEF GatewayIInv

-----------------------------------------------------------------------------
(* The steps of the gateway. *)

\* A step that leaves the brokers alone and tells nobody of a request.
LEMMA CallStays ==
    ASSUME CallOfLetter, UNCHANGED brokerVars, Told' = Told,
           \A l \in reading : l.kind = "request" => l \in reading'
    PROVE  CallOfLetter'
  <1>1. UNCHANGED <<plan, call, sequence, outcomes>>
    BY DEF brokerVars
  <1>2. MyCall' = MyCall /\ MySequence' = MySequence
    BY <1>1 DEF MyCall, MySequence
  <1>3. /\ plan'[GatewayBroker] = <<>> /\ ~Calling(GatewayBroker, "io")'
        /\ \A o, p \in outcomes' :
              Mine(o) /\ Mine(p) /\ o.request.seq = p.request.seq => o = p
        /\ \A o \in outcomes' : Mine(o) => NotEnded(o)'
    BY <1>1, <1>2 DEF CallOfLetter, Calling, NotEnded
  <1>4. MyCall.stage # "none" => \E l \in reading' : IsFor(MyCall.request, MyCall.to, l)
    BY DEF CallOfLetter, IsFor
  <1>5. MyCall.stage = "none" =>
          \/ MySequence = Cardinality(Told)
          \/ /\ MySequence = Cardinality(Told) + 1
             /\ \E l \in reading', o \in outcomes :
                   Mine(o) /\ o.request.seq = Cardinality(Told) /\ IsFor(o.request, o.to, l)
    BY DEF CallOfLetter, IsFor
  <1>6. QED
    BY <1>1, <1>2, <1>3, <1>4, <1>5 DEF CallOfLetter

LEMMA ArrivesKeepsGateway ==
    ASSUME GatewayIInv, NEW l \in Letter, Arrives(l)
    PROVE  GatewayIInv'
  <1>1. /\ l \notin arrived /\ arrived' = arrived \cup {l} /\ letters' = Append(letters, l)
        /\ UNCHANGED <<brokerVars, reading, owes, gatewayThread, responses>>
    BY DEF Arrives
  <1>2. LettersInv /\ CallOfLetter /\ GatewayTellsTruth /\ BrokerIInv
    BY DEF GatewayIInv
  <1>3. letters \in Seq(Letter)
    BY <1>2 DEF LettersInv, GatewayTypeInv
  <1>4. /\ letters' \in Seq(Letter)
        /\ \A i \in DOMAIN letters' :
              \/ i \in DOMAIN letters /\ letters'[i] = letters[i]
              \/ i = Len(letters) + 1 /\ letters'[i] = l
    BY <1>1, <1>3
  <1>5. GatewayTypeInv'
    BY <1>1, <1>2, <1>4 DEF LettersInv, GatewayTypeInv
  <1>6. l \notin reading /\ ~Answered(l)
    BY <1>1, <1>2 DEF LettersInv, OnePlaceEach, Answered
  <1>7. \A i \in DOMAIN letters' : /\ letters'[i] \in arrived' \ reading'
                                   /\ ~Answered(letters[i])'
    <2>1. \A i \in DOMAIN letters : letters[i] \in arrived \ reading /\ ~Answered(letters[i])
      BY <1>2 DEF LettersInv, OnePlaceEach
    <2>2. QED
      BY <1>1, <1>4, <1>6, <2>1 DEF Answered
  <1>8. \A i, j \in DOMAIN letters' : letters'[i] = letters'[j] => i = j
    <2>1. \A i \in DOMAIN letters : letters[i] # l
      BY <1>1, <1>2 DEF LettersInv, OnePlaceEach
    <2>2. QED
      BY <1>2, <1>4, <2>1 DEF LettersInv, OnePlaceEach
  <1>9. OnePlaceEach'
    BY <1>1, <1>2, <1>7, <1>8 DEF LettersInv, OnePlaceEach, Answered
  <1>10. CallOfLetter'
    BY <1>1, <1>2, CallStays DEF Told
  <1>11. BrokerIInv'
    BY <1>1, <1>2, BrokerStutterKeepsInv
  <1>12. GatewayTellsTruth'
    BY <1>1, <1>2, TellingStays DEF brokerVars
  <1>13. QED
    BY <1>5, <1>9, <1>10, <1>11, <1>12 DEF GatewayIInv, LettersInv

LEMMA ReceivesLetterKeepsGateway ==
    ASSUME GatewayIInv, ReceivesLetter
    PROVE  GatewayIInv'
  <1>1. /\ reading = {} /\ letters # <<>>
        /\ reading' = {Head(letters)} /\ letters' = Tail(letters) /\ owes' = TRUE
        /\ UNCHANGED <<brokerVars, arrived, gatewayThread, responses>>
    BY DEF ReceivesLetter
  <1>2. LettersInv /\ CallOfLetter /\ GatewayTellsTruth /\ BrokerIInv
    BY DEF GatewayIInv
  <1>3. letters \in Seq(Letter)
    BY <1>2 DEF LettersInv, GatewayTypeInv
  <1>4. /\ letters' \in Seq(Letter)
        /\ 1 \in DOMAIN letters /\ Head(letters) = letters[1] /\ letters[1] \in Letter
        /\ \A i \in DOMAIN letters' : /\ i \in Nat \ {0} /\ i + 1 \in DOMAIN letters
                                      /\ letters'[i] = letters[i + 1]
    BY <1>1, <1>3
  <1>5. GatewayTypeInv'
    BY <1>1, <1>2, <1>4 DEF LettersInv, GatewayTypeInv
  <1>6. /\ \A i \in DOMAIN letters : letters[i] \in arrived /\ ~Answered(letters[i])
        /\ \A i, j \in DOMAIN letters : letters[i] = letters[j] => i = j
    BY <1>2 DEF LettersInv, OnePlaceEach
  <1>7. \A i \in DOMAIN letters' : /\ letters'[i] \in arrived /\ letters'[i] # letters[1]
                                   /\ ~Answered(letters'[i])
    <2> TAKE i \in DOMAIN letters'
    <2>1. i \in Nat \ {0} /\ i + 1 \in DOMAIN letters /\ letters'[i] = letters[i + 1]
      BY <1>4
    <2>2. letters[i + 1] # letters[1]
      BY <1>4, <1>6, <2>1
    <2>3. QED
      BY <1>6, <2>1, <2>2
  <1>8. \A i, j \in DOMAIN letters' : letters'[i] = letters'[j] => i = j
    <2> TAKE i, j \in DOMAIN letters'
    <2>1. i \in Nat /\ j \in Nat
      BY <1>4
    <2>2. letters[i + 1] = letters[j + 1] => i + 1 = j + 1
      BY <1>4, <1>6
    <2>3. QED
      BY <1>4, <2>1, <2>2
  <1>9. OnePlaceEach'
    <2>1. \A i \in DOMAIN letters' : /\ letters'[i] \in arrived' \ reading'
                                     /\ ~Answered(letters[i])'
      BY <1>1, <1>4, <1>7 DEF Answered
    <2>2. \A l \in reading' : l \in arrived' /\ ~Answered(l)'
      BY <1>1, <1>4, <1>6 DEF Answered
    <2>3. \A k, l \in reading' : k = l
      BY <1>1
    <2>4. \A r \in responses' : r.to \in arrived'
      BY <1>1, <1>2 DEF LettersInv, OnePlaceEach
    <2>5. QED
      BY <1>8, <2>1, <2>2, <2>3, <2>4 DEF OnePlaceEach
  <1>10. CallOfLetter'
    BY <1>1, <1>2, CallStays DEF Told
  <1>11. BrokerIInv'
    BY <1>1, <1>2, BrokerStutterKeepsInv
  <1>12. GatewayTellsTruth'
    BY <1>1, <1>2, TellingStays DEF brokerVars
  <1>13. QED
    BY <1>5, <1>9, <1>10, <1>11, <1>12 DEF GatewayIInv, LettersInv

\* A letter that is no request: the thread is done with it.
LEMMA PassesOnKeepsGateway ==
    ASSUME GatewayIInv, NEW l \in reading, GivesNoReply(l) \/ ThrowsAt(l)
    PROVE  GatewayIInv'
  <1>1. /\ l.kind # "request" /\ reading' = {}
        /\ gatewayThread' \in {gatewayThread, "ended"}
        /\ UNCHANGED <<brokerVars, letters, arrived, owes, responses>>
    BY DEF GivesNoReply, ThrowsAt, Unanswered
  <1>2. LettersInv /\ CallOfLetter /\ GatewayTellsTruth /\ BrokerIInv
    BY DEF GatewayIInv
  <1>3. LettersInv'
    BY <1>1, <1>2 DEF LettersInv, GatewayTypeInv, OnePlaceEach, Answered
  <1>4. \A k \in reading : k.kind # "request"
    BY <1>1, <1>2 DEF LettersInv, OnePlaceEach
  <1>5. CallOfLetter'
    BY <1>1, <1>2, <1>4, CallStays DEF Told
  <1>6. BrokerIInv' /\ GatewayTellsTruth'
    BY <1>1, <1>2, BrokerStutterKeepsInv, TellingStays DEF brokerVars
  <1>7. QED
    BY <1>3, <1>5, <1>6 DEF GatewayIInv

LEMMA RespondingKeepsLetters ==
    ASSUME LettersInv, NEW l \in reading, NEW type \in {"result", "error"},
           NEW code \in Results \cup {"InvalidMessage"}, Responds(l, type, code),
           UNCHANGED <<letters, arrived, gatewayThread>>
    PROVE  LettersInv'
  <1>1. responses' = responses \cup {[to |-> l, type |-> type, code |-> code]}
        /\ owes' = FALSE /\ reading' = {}
    BY DEF Responds
  <1>2. l \in Letter /\ l \in arrived
    BY DEF LettersInv, GatewayTypeInv, OnePlaceEach
  <1>3. IsFiniteSet(responses')
    BY <1>1, FS_AddElement DEF LettersInv, GatewayTypeInv
  <1>4. responses' \subseteq Response
    BY <1>1, <1>2 DEF LettersInv, GatewayTypeInv, Response
  <1>5. GatewayTypeInv'
    BY <1>1, <1>3, <1>4 DEF LettersInv, GatewayTypeInv
  <1>6. \A k : Answered(k)' => Answered(k) \/ k = l
    BY <1>1 DEF Answered
  <1>7. OnePlaceEach'
    BY <1>1, <1>2, <1>6 DEF LettersInv, OnePlaceEach
  <1>8. QED
    BY <1>5, <1>7 DEF LettersInv

LEMMA RejectsMethodKeepsGateway ==
    ASSUME GatewayIInv, NEW l \in reading, RejectsMethod(l)
    PROVE  GatewayIInv'
  <1>1. /\ l.kind = "unformatted" /\ Responds(l, "error", "InvalidMessage")
        /\ UNCHANGED <<brokerVars, letters, arrived, gatewayThread>>
    BY DEF RejectsMethod
  <1>2. LettersInv /\ CallOfLetter /\ GatewayTellsTruth /\ BrokerIInv
    BY DEF GatewayIInv
  <1>3. LettersInv'
    BY <1>1, <1>2, RespondingKeepsLetters
  <1>4. Told' = Told
    BY <1>1 DEF Told, Responds
  <1>5. \A k \in reading : k.kind # "request"
    BY <1>1, <1>2 DEF LettersInv, OnePlaceEach
  <1>6. CallOfLetter'
    BY <1>1, <1>2, <1>4, <1>5, CallStays
  <1>7. BrokerIInv'
    BY <1>1, <1>2, BrokerStutterKeepsInv
  <1>8. GatewayTellsTruth'
    BY <1>1, <1>2 DEF GatewayTellsTruth, Forwarded, Responds, brokerVars
  <1>9. QED
    BY <1>3, <1>6, <1>7, <1>8 DEF GatewayIInv

LEMMA AsksComponentKeepsGateway ==
    ASSUME GatewayIInv, NEW l \in reading, AsksComponent(l)
    PROVE  GatewayIInv'
  <1>1. /\ l.kind = "request" /\ ~Calling(GatewayBroker, "worker")
        /\ MySequence = Cardinality(Told)
        /\ Enters(GatewayBroker, "worker", l.to, l.id, NoRequest)
        /\ UNCHANGED <<plan, holder, awaiting, peers, sequence, inbox, serving, answers, handled,
                       outcomes, timeouts>>
        /\ UNCHANGED <<letters, arrived, reading, owes, gatewayThread, responses>>
    BY DEF AsksComponent, gatewayVars, MySequence, Told
  <1>2. LettersInv /\ CallOfLetter /\ GatewayTellsTruth /\ BrokerIInv /\ TypeInv
    BY DEF GatewayIInv, BrokerIInv
  <1>3. /\ GatewayBroker \in Broker /\ l.to \in Broker /\ l.id \in Identifiers
        /\ "worker" \in Caller /\ "io" \in Caller /\ NoRequest \in Requests \cup {NoRequest}
    BY <1>2, GatewayAssumption DEF LettersInv, GatewayTypeInv, Caller
  <1>4. plan' \in [Broker -> Seq(RequestIds)]
    BY <1>1, <1>2 DEF TypeInv, BrokerTypeOK
  <1>5. BrokerIInv'
    BY <1>1, <1>2, <1>3, <1>4, WorkerEnteringKeepsInv
  <1>6. /\ MyCall'.stage = "entered" /\ MyCall'.to = l.to
        /\ call'[GatewayBroker]["io"] = call[GatewayBroker]["io"]
    BY <1>1, <1>2, <1>3, EnteringKeepsCalls DEF MyCall
  <1>7. MyCall'.request.id = l.id
    BY <1>1, <1>2, <1>3 DEF Enters, MyCall, TypeInv
  <1>8. CallOfLetter'
    <2>1. /\ plan'[GatewayBroker] = <<>> /\ ~Calling(GatewayBroker, "io")'
          /\ \A o, p \in outcomes' :
                Mine(o) /\ Mine(p) /\ o.request.seq = p.request.seq => o = p
          /\ \A o \in outcomes' : Mine(o) => NotEnded(o)'
      BY <1>1, <1>2, <1>6 DEF CallOfLetter, Calling, NotEnded
    <2>2. IsFor(MyCall'.request, MyCall'.to, l)
      BY <1>1, <1>6, <1>7 DEF IsFor
    <2>3. MySequence' = Cardinality(Told)'
      BY <1>1 DEF MySequence, Told
    <2>4. QED
      BY <1>1, <1>6, <2>1, <2>2, <2>3 DEF CallOfLetter
  <1>9. LettersInv' /\ GatewayTellsTruth'
    BY <1>1, <1>2, LettersStay, TellingStays
  <1>10. QED
    BY <1>5, <1>8, <1>9 DEF GatewayIInv

LEMMA RespondsForKeepsGateway ==
    ASSUME GatewayIInv, NEW l \in reading, RespondsFor(l)
    PROVE  GatewayIInv'
  <1> DEFINE type == ResponseType(LastOutcome)
             code == LastOutcome.response.result
             response == [to |-> l, type |-> type, code |-> code]
  <1>1. /\ l.kind = "request" /\ ~Calling(GatewayBroker, "worker")
        /\ MySequence > Cardinality(Told)
        /\ Responds(l, type, code)
        /\ UNCHANGED <<brokerVars, letters, arrived, gatewayThread>>
    BY DEF RespondsFor, MySequence, Told
  <1>2. LettersInv /\ CallOfLetter /\ GatewayTellsTruth /\ BrokerIInv /\ TypeInv
    BY DEF GatewayIInv, BrokerIInv
  <1>3. Cardinality(Told) \in Nat /\ MyCall.stage = "none"
    BY <1>1, <1>2, CountIsNumber DEF Calling, MyCall, LettersInv
  <1>4. PICK k \in reading, o \in outcomes :
           /\ MySequence = Cardinality(Told) + 1
           /\ Mine(o) /\ o.request.seq = Cardinality(Told) /\ IsFor(o.request, o.to, k)
    BY <1>1, <1>2, <1>3 DEF CallOfLetter
  <1>5. k = l
    BY <1>2 DEF LettersInv, OnePlaceEach
  <1>6. LastOutcome = o
    <2>1. o.request.from = GatewayBroker /\ o.request.seq = sequence[GatewayBroker] - 1
      BY <1>3, <1>4 DEF Mine, MySequence
    <2>2. \A p \in outcomes : /\ p.request.from = GatewayBroker
                              /\ p.request.seq = sequence[GatewayBroker] - 1
                              => p = o
      BY <1>2, <2>1 DEF CallOfLetter, Mine
    <2>3. QED
      BY <2>1, <2>2 DEF LastOutcome
  <1>7. /\ o \in Outcomes /\ code = o.response.result /\ code \in Results
        /\ type \in {"result", "error"}
    BY <1>2, <1>6 DEF TypeInv, Outcomes, Responses, ResponseType
  <1>8. responses' = responses \cup {response}
    BY <1>1 DEF Responds
  <1> HIDE DEF type, code
  <1>9. LettersInv'
    BY <1>1, <1>2, <1>7, RespondingKeepsLetters
  <1>10. Cardinality(Told') = Cardinality(Told) + 1
    <2>1. Told' = Told \cup {response}
      BY <1>1, <1>8 DEF Told
    <2>2. response \notin Told
      BY <1>2 DEF Told, LettersInv, OnePlaceEach, Answered
    <2>3. IsFiniteSet(Told)
      BY <1>2, FS_Subset DEF Told, LettersInv, GatewayTypeInv
    <2>4. QED
      BY <2>1, <2>2, <2>3, FS_AddElement
  <1>11. CallOfLetter'
    <2>1. UNCHANGED <<plan, call, sequence, outcomes>>
      BY <1>1 DEF brokerVars
    <2>2. MySequence' = Cardinality(Told') /\ MyCall'.stage = "none"
      BY <1>3, <1>4, <1>10, <2>1 DEF MySequence, MyCall
    <2>3. /\ plan'[GatewayBroker] = <<>> /\ ~Calling(GatewayBroker, "io")'
          /\ \A p, q \in outcomes' :
                Mine(p) /\ Mine(q) /\ p.request.seq = q.request.seq => p = q
          /\ \A p \in outcomes' : Mine(p) => NotEnded(p)'
      BY <1>2, <2>1, <2>2 DEF CallOfLetter, Calling, NotEnded
    <2>4. QED
      BY <2>2, <2>3 DEF CallOfLetter
  <1>12. o \in Forwarded(l) /\ o.request.id = l.id
    BY <1>4, <1>5 DEF Forwarded, Mine, IsFor
  <1>13. type = "result" => o.request \in handled /\ o.response.request = o.request
    <2> HAVE type = "result"
    <2>1. Succeeded(o)
      BY <1>6 DEF type, ResponseType, Succeeded
    <2>2. QED
      BY <1>2, <2>1 DEF BrokerIInv, Covers, AnswersMatch, Succeeded
  <1>14. type = "error" /\ code = "Success" => o.failure # "none"
    BY <1>6 DEF type, code, ResponseType
  <1>15. GatewayTellsTruth'
    <2>1. handled' = handled /\ \A m : Forwarded(m)' = Forwarded(m)
      BY <1>1 DEF brokerVars, Forwarded
    <2>2. response.to = l /\ response.type = type /\ response.code = code
      OBVIOUS
    <2> HIDE DEF response
    <2>3. QED
      BY <1>2, <1>8, <1>12, <1>13, <1>14, <2>1, <2>2 DEF GatewayTellsTruth
  <1>16. BrokerIInv'
    BY <1>1, <1>2, BrokerStutterKeepsInv
  <1>17. QED
    BY <1>9, <1>11, <1>15, <1>16 DEF GatewayIInv

-----------------------------------------------------------------------------
(* The theorem. *)

LEMMA GatewayInitHolds == BrokerInit /\ GatewayInit => GatewayIInv
  <1> SUFFICES ASSUME BrokerInit, GatewayInit PROVE GatewayIInv
    OBVIOUS
  <1>1. BrokerIInv
    BY BrokerInitHolds
  <1>2. /\ letters = <<>> /\ arrived = {} /\ reading = {} /\ owes = FALSE
        /\ gatewayThread = "running" /\ responses = {}
    BY DEF GatewayInit
  <1>3. LettersInv
    BY <1>2, FS_EmptySet DEF LettersInv, GatewayTypeInv, OnePlaceEach
  <1>4. GatewayBroker \in Broker /\ "worker" \in Caller /\ "io" \in Caller
    BY GatewayAssumption DEF Caller
  <1>5. CallOfLetter
    <2>1. plan[GatewayBroker] = <<>> /\ outcomes = {}
      BY GatewayAssumption DEF BrokerInit
    <2>2. MyCall.stage = "none" /\ ~Calling(GatewayBroker, "io")
      BY <1>4, Sentinels DEF BrokerInit, MyCall, Calling
    <2>3. Cardinality(Told) = 0
      <3>1. Told = {}
        BY <1>2 DEF Told
      <3>2. QED
        BY <3>1, FS_EmptySet
    <2>4. MySequence = 0
      BY <1>4 DEF BrokerInit, MySequence
    <2>5. QED
      BY <2>1, <2>2, <2>3, <2>4 DEF CallOfLetter
  <1>6. GatewayTellsTruth
    BY <1>2 DEF GatewayTellsTruth
  <1>7. QED
    BY <1>1, <1>3, <1>5, <1>6 DEF GatewayIInv

LEMMA GatewayStepKeepsInv ==
    ASSUME GatewayIInv, [GatewayNext]_<<brokerVars, gatewayVars>>
    PROVE  GatewayIInv'
  <1>1. CASE \E l \in Letter : Arrives(l)
    BY <1>1, ArrivesKeepsGateway
  <1>2. CASE ReceivesLetter
    BY <1>2, ReceivesLetterKeepsGateway
  <1>3. CASE ProcessesLetter
    <2>1. PICK l \in reading : \/ GivesNoReply(l) \/ ThrowsAt(l)
                               \/ RejectsMethod(l) \/ AsksComponent(l) \/ RespondsFor(l)
      BY <1>3 DEF ProcessesLetter
    <2>2. QED
      BY <2>1, PassesOnKeepsGateway, RejectsMethodKeepsGateway, AsksComponentKeepsGateway,
         RespondsForKeepsGateway
  <1>4. CASE BrokerNext /\ UNCHANGED gatewayVars
    BY <1>4, BrokerStepKeepsGateway
  <1>5. CASE UNCHANGED <<brokerVars, gatewayVars>>
    <2>1. BrokerIInv' /\ LettersInv' /\ GatewayTellsTruth'
      BY <1>5, BrokerStutterKeepsInv, LettersStay, TellingStays
         DEF GatewayIInv, brokerVars, gatewayVars
    <2>2. CallOfLetter'
      BY <1>5, CallStays DEF GatewayIInv, gatewayVars, Told
    <2>3. QED
      BY <2>1, <2>2 DEF GatewayIInv
  <1>6. QED
    BY <1>1, <1>2, <1>3, <1>4, <1>5 DEF GatewayNext, GatewayDoes

\* For any clients and any components behind the gateway: a client that gets a result has
\* had its own message handled by whom it named, and one that gets an error has not been
\* told of a success, unless its call of send failed (ServiceGateway.cpp:115-178).
THEOREM ClientsAreToldTheTruth == GatewaySpec => []GatewayInvariant
  <1>1. GatewayIInv /\ [GatewayNext]_<<brokerVars, gatewayVars>> => GatewayIInv'
    BY GatewayStepKeepsInv
  <1>2. GatewayIInv => GatewayInvariant
    <2> SUFFICES ASSUME GatewayIInv PROVE GatewayInvariant
      OBVIOUS
    <2>1. Cardinality(reading) <= 1
      <3>1. \A k, l \in reading : k = l
        BY DEF GatewayIInv, LettersInv, OnePlaceEach
      <3>2. CASE reading = {}
        BY <3>2, FS_EmptySet
      <3>3. CASE reading # {}
        <4>1. PICK l : reading = {l}
          BY <3>1, <3>3
        <4>2. QED
          BY <4>1, FS_Singleton
      <3>4. QED
        BY <3>2, <3>3
    <2>2. QED
      BY <2>1 DEF GatewayIInv, LettersInv, GatewayTypeInv, Response, GatewayInvariant,
                  GatewayTypeOK
  <1>3. QED
    BY GatewayInitHolds, <1>1, <1>2, PTL DEF GatewaySpec
=============================================================================
