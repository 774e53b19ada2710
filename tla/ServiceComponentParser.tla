------------------------ MODULE ServiceComponentParser ------------------------
(***************************************************************************)
(* The generator of the components' interfaces: it parses a description of *)
(* components one after the other, validates what they subscribe to, and   *)
(* writes a header and a source file for each.  The first error ends it;   *)
(* what was written until then stays.                                      *)
(***************************************************************************)
EXTENDS Naturals, Sequences, SequencesExt

CONSTANTS
    Descriptions,   \* sequences of components as the file describes them
    Matching        \* the states that a regular expression matches from their start on

ASSUME ParserAssumption ==
    /\ \A d \in Descriptions : \A i \in DOMAIN d :
          \A j \in DOMAIN d[i].entries : d[i].entries[j].state \in DOMAIN Matching

VARIABLES
    description,
    parserAt,       \* "parses", "validates", "generates" or "ends"
    at,             \* which component of the description, or of those parsed, is next
    names,          \* the components in the order of the dictionary
    objects,        \* what was parsed of each; two names may share one
    generated,      \* the files that were written, in order
    failed          \* why the program ends: "no", "parse" or "other"

parserVars == <<description, parserAt, at, names, objects, generated, failed>>

ParserInit ==
    /\ description \in Descriptions
    /\ parserAt = "parses" /\ at = 1
    /\ names = <<>> /\ objects = <<>>
    /\ generated = <<>>
    /\ failed = "no"

Fails(why) == failed' = why /\ parserAt' = "ends"
-----------------------------------------------------------------------------
\* The entries that a transition of the description stands for, in the order of the states.
Expanded(d, t) ==
    LET states == SelectSeq(d.states, LAMBDA s : s \in Matching[t.state])
    IN  [i \in DOMAIN states |-> [state |-> states[i], next |-> t.next, event |-> t.event]]

Known(d, t) == Expanded(d, t) # <<>> /\ t.next \in ToSet(d.states) /\ t.event \in d.events

\* A transition extends the table, or makes the description wrong: an entry may not be
\* there twice.  Two entries that differ in their next state only may.
WithTransition(d, parsed, t) ==
    IF parsed.ok /\ Known(d, t) /\ ToSet(parsed.table) \cap ToSet(Expanded(d, t)) = {}
    THEN [parsed EXCEPT !.table = @ \o Expanded(d, t)]
    ELSE [parsed EXCEPT !.ok = FALSE]

StateMachineOf(d) ==
    FoldLeft(LAMBDA parsed, t : WithTransition(d, parsed, t),
             [ok |-> d.start \in ToSet(d.states), table |-> <<>>], d.entries)

\* A message that both pushes an event and is forwarded is refused.
MessagesFit(d) == \A i \in DOMAIN d.messages : ~(d.messages[i].event /\ d.messages[i].forward)

\* A name that is there keeps its place in the dictionary.
Named(name) == IF name \in ToSet(names) THEN names ELSE Append(names, name)

Keeps(name, object) ==
    /\ names' = Named(name)
    /\ objects' = [n \in ToSet(Named(name)) |-> IF n = name THEN object ELSE objects[n]]
    /\ UNCHANGED <<parserAt, failed>>

\* A component is ignored, or takes over another one, or is parsed itself.
ParsesComponent ==
    /\ parserAt = "parses"
    /\ at <= Len(description)
    /\ at' = at + 1
    /\ LET d == description[at] IN
       \/ /\ d.hidden
          /\ UNCHANGED <<parserAt, names, objects, failed>>
       \/ /\ ~d.hidden /\ d.using # "none"
          /\ IF d.using \in ToSet(names)
             THEN Keeps(d.name, objects[d.using])
             ELSE Fails("parse") /\ UNCHANGED <<names, objects>>
       \/ /\ ~d.hidden /\ d.using = "none"
          /\ IF MessagesFit(d) /\ StateMachineOf(d).ok
             THEN Keeps(d.name, [messages |-> d.messages, publishes |-> d.publishes,
                                 states |-> d.states, start |-> d.start,
                                 table |-> StateMachineOf(d).table])
             ELSE Fails("parse") /\ UNCHANGED <<names, objects>>
    /\ UNCHANGED <<description, generated>>

AfterParsing == "validates"

\* Faulty variant: the generation goes on where the parsing was.
HasParsedAndGoesOn ==
    /\ parserAt = "parses"
    /\ at > Len(description)
    /\ parserAt' = AfterParsing
    /\ UNCHANGED <<description, at, names, objects, generated, failed>>

HasParsed ==
    /\ parserAt = "parses"
    /\ at > Len(description)
    /\ parserAt' = AfterParsing
    /\ at' = 1
    /\ UNCHANGED <<description, names, objects, generated, failed>>

\* A message of a component's own is a request; the others are notifications of a component.
HasPublisher(message) ==
    message.from # "none" =>
        /\ message.from \in ToSet(names)
        /\ message.name \in objects[message.from].publishes

ValidatesMessages ==
    /\ parserAt = "validates"
    /\ IF \A n \in ToSet(names) :
             \A i \in DOMAIN objects[n].messages : HasPublisher(objects[n].messages[i])
       THEN parserAt' = "generates" /\ UNCHANGED failed
       ELSE Fails("parse")
    /\ UNCHANGED <<description, at, names, objects, generated>>
-----------------------------------------------------------------------------
Header(n) == [of |-> n, part |-> "header"]
Source(n) == [of |-> n, part |-> "source"]

\* A notification cannot be forwarded, which shows only when its handler is written.
CanWriteSource(n) ==
    \A i \in DOMAIN objects[n].messages :
        ~(objects[n].messages[i].from # "none" /\ objects[n].messages[i].forward)

Generates ==
    /\ parserAt = "generates"
    /\ at <= Len(names)
    /\ IF CanWriteSource(names[at])
       THEN /\ generated' = generated \o << Header(names[at]), Source(names[at]) >>
            /\ at' = at + 1
            /\ UNCHANGED <<parserAt, failed>>
       ELSE /\ generated' = Append(generated, Header(names[at]))
            /\ Fails("other")
            /\ UNCHANGED at
    /\ UNCHANGED <<description, names, objects>>

HasGenerated ==
    /\ parserAt = "generates"
    /\ at > Len(names)
    /\ parserAt' = "ends"
    /\ UNCHANGED <<description, at, names, objects, generated, failed>>

ParserNext == ParsesComponent \/ HasParsed \/ ValidatesMessages \/ Generates \/ HasGenerated

ParserSpec == ParserInit /\ [][ParserNext]_parserVars
-----------------------------------------------------------------------------
\* What is generated is closed: a table stays in its states, whatever regular expressions
\* and takeovers it came from, and a component subscribes only to what is published.
GeneratedIsClosed ==
    \A f \in ToSet(generated) :
       LET o == objects[f.of] IN
       /\ o.start \in ToSet(o.states)
       /\ \A e \in ToSet(o.table) : {e.state, e.next} \subseteq ToSet(o.states)
       /\ \A i \in DOMAIN o.messages : HasPublisher(o.messages[i])

\* A description that is refused leaves no file, and one that is not gets all of them;
\* only what the source file alone refuses leaves files behind
\* (ServiceComponentSourceGenerator.py:208-209).
WholeOrRefused ==
    /\ failed = "parse" => generated = <<>>
    /\ parserAt = "ends" /\ failed = "no" =>
          ToSet(generated) = {Header(n) : n \in ToSet(names)} \cup {Source(n) : n \in ToSet(names)}

\* Every transition of a component that is generated is in its table, for all the states
\* that it matches, and the table has nothing else.
TableIsDescription ==
    \A i \in DOMAIN description :
       LET d == description[i] IN
       (/\ ~d.hidden /\ d.using = "none"
        /\ d.name \in {f.of : f \in ToSet(generated)}
        /\ \A j \in DOMAIN description : description[j].name = d.name => i = j) =>
          /\ Len(objects[d.name].table) =
                FoldLeft(LAMBDA sum, t : sum + Len(Expanded(d, t)), 0, d.entries)
          /\ ToSet(objects[d.name].table) =
                UNION {ToSet(Expanded(d, d.entries[k])) : k \in DOMAIN d.entries}
          /\ IsInjective(objects[d.name].table)

\* What holds of the generator at any time: it writes what was described, all of it or
\* nothing.
ParserInvariant == GeneratedIsClosed /\ WholeOrRefused /\ TableIsDescription
=============================================================================
