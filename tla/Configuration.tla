---------------------------- MODULE Configuration ----------------------------
(***************************************************************************)
(* The configuration: options with defaults, a parser that gives them the  *)
(* values of a JSON file, and the extraction of the part that a sub        *)
(* component of the hardware reads.  A name is a sequence of    *)
(* characters, a file the list of its leaves: a name and its scalars.      *)
(***************************************************************************)
EXTENDS Naturals, Sequences

LOCAL INSTANCE SequencesExt

CONSTANTS
    Option,         \* the names of the options that were added
    List,           \* those that hold a list of values
    File,           \* the files that are read, each a sequence of leaves
    Base,           \* the name of the part that has sub components
    Sub             \* the identifiers of sub components

ASSUME ConfigurationAssumption == List \subseteq Option

VARIABLES
    file,           \* what is being read
    leaf,           \* which leaf is next
    parsed,         \* the parsed options, in the order of the file
    values,         \* m_mapOptions: the values of each option
    parsing         \* how far the parser is

configurationVars == <<file, leaf, parsed, values, parsing>>

Default == << "default" >>
Empty == ""

ConfigurationInit ==
    /\ file \in File
    /\ leaf = 1
    /\ parsed = <<>>
    /\ values = [o \in Option |-> Default]
    /\ parsing = "leaves"
-----------------------------------------------------------------------------
\* The scalars that a leaf pushes: a list without elements is a scalar without text.
Scalars(l) == IF l.scalars = <<>> THEN << Empty >> ELSE l.scalars

\* Faulty variant: a leaf replaces the one before it.
Replaced(l) == SubSeq(parsed, 1, Len(parsed) - 1) \o << [name |-> l.name, scalars |-> Scalars(l)] >>

\* pushOption: consecutive values of one name become one option.
Joined(l) ==
    SubSeq(parsed, 1, Len(parsed) - 1)
        \o << [parsed[Len(parsed)] EXCEPT !.scalars = @ \o Scalars(l)] >>

PushesOption ==
    /\ parsing = "leaves"
    /\ leaf <= Len(file)
    /\ LET l == file[leaf] IN
       IF l.name \notin Option
       THEN parsing' = "failed" /\ UNCHANGED <<leaf, parsed>>
       ELSE /\ parsed' = IF parsed # <<>> /\ parsed[Len(parsed)].name = l.name
                         THEN Joined(l)
                         ELSE Append(parsed, [name |-> l.name, scalars |-> Scalars(l)])
            /\ leaf' = leaf + 1
            /\ UNCHANGED parsing
    /\ UNCHANGED <<file, values>>

\* A file without leaves: the root has no name, of which the point in front of a name
\* could be cut off, and the parser throws.
FindsNoLeaf ==
    /\ parsing = "leaves"
    /\ file = <<>>
    /\ parsing' = "failed"
    /\ UNCHANGED <<file, leaf, parsed, values>>

Occurrences(o) == {i \in DOMAIN parsed : parsed[i].name = o}

\* An option that is no list may occur once, with one value.
Acceptable(o) ==
    o \in List \/ \A i, j \in Occurrences(o) : i = j /\ Len(parsed[i].scalars) = 1

\* The values of all occurrences, in order.
Collected(o) ==
    LET own == SelectSeq(parsed, LAMBDA p : p.name = o) IN
    FlattenSeq([i \in DOMAIN own |-> own[i].scalars])

\* po::store throws at the first value that does not fit, and nothing is set then.
Stores ==
    /\ parsing = "leaves"
    /\ file # <<>>
    /\ leaf > Len(file)
    /\ IF \A o \in Option : Acceptable(o)
       THEN /\ values' = [o \in Option |-> IF Occurrences(o) = {} THEN values[o]
                                           ELSE Collected(o)]
            /\ parsing' = "done"
       ELSE parsing' = "failed" /\ UNCHANGED values
    /\ UNCHANGED <<file, leaf, parsed>>

ConfigurationNext == FindsNoLeaf \/ PushesOption \/ Stores

ConfigurationSpec == ConfigurationInit /\ [][ConfigurationNext]_configurationVars
-----------------------------------------------------------------------------
\* The prefix of the options of a sub component.
PrefixOf(base, sub) == base \o << "." >> \o sub \o << "." >>

StartsWith(name, prefix) ==
    Len(prefix) <= Len(name) /\ SubSeq(name, 1, Len(prefix)) = prefix

\* extract: the options below a prefix, by what is left of their names.
Extracted(base, sub) ==
    {SubSeq(o, Len(PrefixOf(base, sub)) + 1, Len(o)) :
        o \in {p \in Option : StartsWith(p, PrefixOf(base, sub))}}

\* The values that a sub component reads, by the names of its own.
Read(base, sub) == [x \in Extracted(base, sub) |-> values[PrefixOf(base, sub) \o x]]
-----------------------------------------------------------------------------
Written(o) == SelectSeq(file, LAMBDA l : l.name = o)

\* A parser that fails leaves every option as it was: nothing starts with half a
\* configuration (ConfigurationParser.cpp:38-56).
AllOrNothing == parsing = "failed" => \A o \in Option : values[o] = Default

\* A parser that succeeds has found an option in the file, has given each option of the
\* file its values in the order of the file, wherever they stand in it, and left the
\* others at their defaults.
AsWritten ==
    parsing = "done" =>
        /\ file # <<>>
        /\ \A o \in Option :
              values[o] = IF Written(o) = <<>> THEN Default
                          ELSE FlattenSeq([i \in DOMAIN Written(o) |-> Scalars(Written(o)[i])])

\* A sub component reads every option of its own with the value of the file, and none of
\* another one, although the name of the other may begin like its own (HalHelper.hpp:56).
OwnOptionsOnly ==
    parsing = "done" =>
        \A s \in Sub, x \in {"pin", "state"} :
            LET o == Base \o << "." >> \o s \o << ".", x >> IN
            /\ o \in Option <=> << x >> \in DOMAIN Read(Base, s)
            /\ o \in Option => Read(Base, s)[<< x >>] = values[o]
            /\ DOMAIN Read(Base, s) \subseteq {<< "pin" >>, << "state" >>}

\* What holds of the configuration at any time: each option has the value of the file, or
\* none has, and each device reads its own.
ConfigurationInvariant == AllOrNothing /\ AsWritten /\ OwnOptionsOnly
=============================================================================
