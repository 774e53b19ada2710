----------------------------- MODULE MCMessages -----------------------------
(***************************************************************************)
(* Instance of EventQueue, MessageBroker, ServiceGateway, Notifications.   *)
(* A run is about one of them; the others rest.                            *)
(***************************************************************************)
EXTENDS EventQueue, ServiceGateway, Notifications

CONSTANTS e1, e2, p1, p2, p3

VARIABLE unit

messageVars == <<unit, vars, brokerVars, gatewayVars, notificationVars>>

\* Three pullers on a queue of two kinds of events: one more puller than the two that
\* the smallest steal needs, and room for as many events.
SomeEvents == {e1, e2}
SomePullers == {p1, p2, p3}

\* The user interface asks the control, which sets the speed at the control of the
\* coil and at the merger; the control of the coil forwards to the motor.
SomeBrokers == {"ui", "control", "coil", "merger", "motor", "gateway"}

Simple == [asks |-> <<>>, stops |-> FALSE]
SomeHandlers ==
    [[b \in SomeBrokers |-> Simple] EXCEPT
        !["control"] = [asks |-> <<"coil", "merger">>, stops |-> TRUE],
        !["coil"] = [asks |-> <<"motor">>, stops |-> FALSE]]

To(b) == [to |-> b, id |-> b]
NoPlan == [b \in SomeBrokers |-> <<>>]
SomePlans ==
    {NoPlan,
     [NoPlan EXCEPT !["ui"] = <<To("control"), To("control")>>,
                    !["control"] = <<To("coil"), To("merger")>>],
     [NoPlan EXCEPT !["ui"] = <<To("control"), [to |-> "motor", id |-> "unknown"], To("coil")>>]}

SomeLetters ==
    {[kind |-> "request", to |-> "control", id |-> "control"],
     [kind |-> "request", to |-> "coil", id |-> "coil"],
     [kind |-> "request", to |-> "motor", id |-> "unknown"]} \cup
    {[kind |-> k, to |-> "control", id |-> "unknown"] : k \in Kind \ {"request"}}

SomePublishers == {"sensor", "motor", "heater"}
SomeNotifiers ==
    [p \in SomePublishers |-> IF p = "sensor" THEN {"worker", "observer"} ELSE {}]

MessageInit ==
    /\ Init
    /\ BrokerInit
    /\ GatewayInit
    /\ NotificationInit
    /\ unit \in {"events", "requests", "gateway", "notifications"}
    /\ unit = "requests" <=> plan # NoPlan

MessageNext ==
    \/ /\ unit = "events"
       /\ Next
       /\ UNCHANGED <<unit, brokerVars, gatewayVars, notificationVars>>
    \/ /\ unit = "requests"
       /\ BrokerNext
       /\ UNCHANGED <<unit, vars, gatewayVars, notificationVars>>
    \/ /\ unit = "gateway"
       /\ GatewayNext
       /\ UNCHANGED <<unit, vars, notificationVars>>
    \/ /\ unit = "notifications"
       /\ NotificationNext
       /\ UNCHANGED <<unit, vars, brokerVars, gatewayVars>>

MessageSpec ==
    /\ MessageInit
    /\ [][MessageNext]_messageVars
    /\ \A p \in Puller : WF_vars(PullResumes(p))
    /\ BrokerFairness /\ GatewayFairness /\ NotificationFairness

\* What has to happen with messages: requests end, letters are answered, and notifications
\* arrive (MessageBroker.cpp, ServiceGateway.cpp, Subscriber.cpp).
MessagesProgress == CallsEnd /\ LettersAnswered /\ DueArrives
=============================================================================
