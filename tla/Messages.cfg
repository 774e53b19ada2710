SPECIFICATION MessageSpec
CONSTANTS
    Event <- SomeEvents
    Puller <- SomePullers
    MaxSize = 4
    None = None
    e1 = e1
    e2 = e2
    p1 = p1
    p2 = p2
    p3 = p3
    Broker <- SomeBrokers
    Plans <- SomePlans
    Handlers <- SomeHandlers
    MaxTimeouts = 1
    GatewayBroker = "gateway"
    Letter <- SomeLetters
    MaxLetters = 3
    Publisher <- SomePublishers
    Topic = {"low", "high"}
    Notifier <- SomeNotifiers
    MaxSubscriptionSockets = 2
    MaxNotified = 2
    MaxSubscribed = 3
    MaxSocketFailures = 1
INVARIANTS
    Bounded
    NoStrandedEvent
    BrokerInvariant
    GatewayInvariant
    NotificationInvariant
PROPERTIES IsMailbox EventReachesWaiter MessagesProgress
CHECK_DEADLOCK FALSE
