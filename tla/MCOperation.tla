----------------------------- MODULE MCOperation -----------------------------
(***************************************************************************)
(* Instance of Application, Hal, Thread, RemoteControl, Configuration and  *)
(* ServiceComponentParser.  A run is about one of them; the others rest.   *)
(***************************************************************************)
EXTENDS Application, Hal, Thread, RemoteControl, Configuration, ServiceComponentParser

VARIABLE unit

operationVars ==
    <<unit, appVars, halVars, threadVars, remoteVars, configurationVars, parserVars>>

SomeGroup == << "control", "heater", "ui" >>
SomeMotors == << "feeder", "coil" >>
SomeSensors == << "merger", "preHeater" >>

\* Two pins, one with a name that begins like the other's, and the list of pins.
SomeSubs == {<< "m" >>, << "m", "x" >>}
Pins == << "gpio" >>
PinOf(s) == Pins \o << "." >> \o s \o << ".", "pin" >>
Enabled == << "gpio", "-enabled" >>
SomeOptions == {Enabled} \cup {PinOf(s) : s \in SomeSubs}
SomeLists == {Enabled}
SomeLeaves ==
    [name : SomeOptions \cup {<< "unknown" >>}, scalars : {<<>>, << "1" >>, << "2", "3" >>}]
SomeFiles == UNION {[1..n -> SomeLeaves] : n \in 0..3}

\* Two components of two states; the second may subscribe to the first, or take it over.
Transition(s, e, n) == [state |-> s, event |-> e, next |-> n]
SomeMatching ==
    [r \in {"Off", "On", "O", "X"} |->
        CASE r = "O" -> {"Off", "On"} [] r = "X" -> {} [] OTHER -> {r}]
SomeEntries ==
    {<<>>, << Transition("Off", "go", "On"), Transition("O", "stop", "Off") >>} \cup
    {<< Transition("Off", "go", "On"), t >> :
        t \in {Transition("O", "go", "On"), Transition("Off", "go", "Off"),
               Transition("X", "go", "On"), Transition("O", "go", "Lost"),
               Transition("O", "lost", "On")}}
Message(from, name, pushes, forward) ==
    [from |-> from, name |-> name, event |-> pushes, forward |-> forward]
Described(name, entries, messages) ==
    [name |-> name, hidden |-> FALSE, using |-> "none", messages |-> messages,
     publishes |-> {"told"}, states |-> << "Off", "On" >>, start |-> "Off",
     events |-> {"go", "stop"}, entries |-> entries]
SomeFirst ==
    {Described("A", e, << Message("none", "Go", TRUE, f) >>) : e \in SomeEntries, f \in BOOLEAN}
SomeSecond ==
    {Described(n, << Transition("O", "go", "On") >>, << Message(p, t, TRUE, FALSE) >>) :
        n \in {"A", "B"}, p \in {"A", "B", "C"}, t \in {"told", "lost"}}
    \cup {Described("B", <<>>, << Message("A", "told", FALSE, TRUE) >>)}
    \cup {[Described("B", <<>>, <<>>) EXCEPT !.using = u] : u \in {"A", "C"}}
    \cup {[Described("B", <<>>, <<>>) EXCEPT !.hidden = TRUE],
          [Described("B", <<>>, <<>>) EXCEPT !.start = "Lost"]}
SomeDescriptions ==
    {<< a, b >> : a \in SomeFirst, b \in SomeSecond} \cup {<< b, a >> : a \in SomeFirst, b \in SomeSecond}

\* An application that rests has failed at its options: it has nothing left to do, while
\* the fairness of one that could go on would not let the others run alone.
ApplicationRests ==
    /\ stage = "leaves" /\ outcome = "failure"
    /\ turn = 1 /\ call = "none" /\ succeeds = TRUE /\ result = FALSE /\ hal = FALSE
    /\ work = [c \in Bundled |-> "none"]
    /\ io = [c \in Bundled |-> "none"]
    /\ bound = [c \in Bundled |-> {}]
    /\ subscribed = {} /\ remote = "none" /\ thrown = 0 /\ missed = FALSE

RestingDescription == CHOOSE d \in SomeDescriptions : TRUE

OperationInit ==
    /\ unit \in {"application", "hal", "thread", "remote", "configuration",
                "parser"}
    /\ IF unit = "application" THEN ApplicationInit ELSE ApplicationRests
    /\ IF unit = "configuration" THEN file \in File ELSE file = <<>>
    /\ IF unit = "parser" THEN description \in Descriptions ELSE description = RestingDescription
    /\ HalInit /\ ThreadInit /\ RemoteInit /\ ConfigurationInit /\ ParserInit

OperationNext ==
    \/ /\ unit = "application"
       /\ ApplicationNext
       /\ UNCHANGED <<unit, halVars, threadVars, remoteVars, configurationVars, parserVars>>
    \/ /\ unit = "hal"
       /\ HalNext
       /\ UNCHANGED <<unit, appVars, threadVars, remoteVars, configurationVars, parserVars>>
    \/ /\ unit = "thread"
       /\ ThreadNext
       /\ UNCHANGED <<unit, appVars, halVars, remoteVars, configurationVars, parserVars>>
    \/ /\ unit = "remote"
       /\ RemoteNext
       /\ UNCHANGED <<unit, appVars, halVars, threadVars, configurationVars, parserVars>>
    \/ /\ unit = "configuration"
       /\ ConfigurationNext
       /\ UNCHANGED <<unit, appVars, halVars, threadVars, remoteVars, parserVars>>
    \/ /\ unit = "parser"
       /\ ParserNext
       /\ UNCHANGED <<unit, appVars, halVars, threadVars, remoteVars, configurationVars>>

\* The threads of the unit that a run is about go on when they can.
OperationSpec ==
    /\ OperationInit
    /\ [][OperationNext]_operationVars
    /\ ApplicationFairness /\ ThreadFairness /\ RemoteFairness

\* What the steps of the application and of its threads have to lead to, and must not do
\* meanwhile (MachineApplication.cpp, Thread.cpp, RemoteControlServer.cpp).
\* It is StartDecides for the application, WaitEnds for its threads, RequestsAnswered and
\* NoticesShown for the web interface; since the unit never changes two formulas do for
\* the five, one for each context, which TLC checks in half the time.
OperationProgress ==
    /\ GatewayFailureStopsGroup
    /\ UndisturbedWhileSending
    /\ \A c \in Context :
          (\/ unit = "application" /\ stage = "options"
           \/ unit = "thread" /\ Rejoins(c)
           \/ unit = "remote" /\ IF c = "io" THEN Asked ELSE Noticed)
              ~> (\/ unit = "application" /\ Decided
                  \/ unit = "thread" /\ Released(c)
                  \/ unit = "remote" /\ IF c = "io" THEN Answered ELSE Shown)
=============================================================================
