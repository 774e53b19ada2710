-------------------------------- MODULE SpiBus --------------------------------
(***************************************************************************)
(* Several temperature sensors on one SPI bus.  They are set up one after  *)
(* the other; then every heater's timer reads its own sensor from its own  *)
(* thread, and nothing keeps the threads apart: they share the transfer    *)
(* structure of SpiControl, which points into the stack of the thread that *)
(* filled it, and each selects its chip while the other may be selected.   *)
(***************************************************************************)
EXTENDS Naturals, Sequences, FiniteSets

CONSTANTS
    Sensors,        \* the sensors, in the order of the configuration
    MaxReadings,    \* bound: readings of all sensors together
    MaxSpiFaults    \* bound: calls of a pin or of the SPI device that fail

ASSUME SpiAssumption ==
    /\ MaxReadings \in Nat /\ MaxSpiFaults \in Nat
    /\ \A i \in DOMAIN Sensors : Sensors[i] # "nobody"

VARIABLES
    stage,          \* how far each sensor is: "new", "written", "ready", "failed"
    spiAt,          \* what the thread of a sensor does next
    sent,           \* how many bytes of its message it has sent
    received,       \* what it got for those after the first
    rbuf,           \* the byte on its stack that receives
    transfer,       \* m_tr: whose stack tx_buf and rx_buf point into
    chips,          \* selected or not, and the register that comes next
    configured,     \* the chips that convert automatically
    reading,        \* the latest reading of each sensor
    readings,
    spiFaults,
    disturbed,      \* history: chips whose message met another one or a failed call
    doubtful,       \* history: those that have had one since their configuration
    stuck           \* history: chips that could not be deselected

spiVars == <<stage, spiAt, sent, received, rbuf, transfer, chips, configured, reading,
             readings, spiFaults, disturbed, doubtful, stuck>>

Chips == {Sensors[i] : i \in DOMAIN Sensors}

Config == 0
RtdMsb == 1
FaultStatus == 7
WriteMask == 128
AutoConversion == 192   \* ConfigRegisterBias | ConfigRegisterConversionModeAuto

Nobody == "nobody"
Noise == [chip |-> Nobody, register |-> 0]
Item == [chip : Chips, register : 0 .. FaultStatus] \cup {Noise}

\* A chip that is not selected, or was just selected, takes the next byte for an address.
Addressed == FaultStatus + 1
Deselected == [selected |-> FALSE, next |-> Addressed, writes |-> FALSE]
JustSelected == [selected |-> TRUE, next |-> Addressed, writes |-> FALSE]

Nothing == [bytes |-> <<>>, disturbed |-> FALSE]

SpiInit ==
    /\ stage = [c \in Chips |-> "new"]
    /\ spiAt = [c \in Chips |-> "idle"]
    /\ sent = [c \in Chips |-> 0]
    /\ received = [c \in Chips |-> <<>>]
    /\ rbuf = [c \in Chips |-> Noise]
    /\ transfer = [tx |-> Nobody, rx |-> Nobody]
    /\ chips = [c \in Chips |-> Deselected]
    /\ configured = {}
    /\ reading = [c \in Chips |-> Nothing]
    /\ readings = 0
    /\ spiFaults = 0
    /\ disturbed = {}
    /\ doubtful = {}
    /\ stuck = {}
-----------------------------------------------------------------------------
Reads(first, size) == <<first>> \o [i \in 1 .. size |-> 0]

\* init writes the configuration and reads all registers; getTemperature reads two.
Message(c) ==
    CASE stage[c] = "new" -> <<Config + WriteMask, AutoConversion>>
      [] stage[c] = "written" -> Reads(Config, FaultStatus + 1)
      [] OTHER -> Reads(RtdMsb, 2)

AllReady == \A c \in Chips : stage[c] = "ready"

\* One thread sets up the sensors in order; the timers start when all are ready.
MayBegin(c) ==
    \/ AllReady /\ readings < MaxReadings
    \/ /\ stage[c] \in {"new", "written"}
       /\ LET i == CHOOSE j \in DOMAIN Sensors : Sensors[j] = c
          IN  \A j \in 1 .. i - 1 : stage[Sensors[j]] = "ready"

Busy == {c \in Chips : spiAt[c] # "idle"}

Begins(c) ==
    /\ spiAt[c] = "idle"
    /\ MayBegin(c)
    /\ spiAt' = [spiAt EXCEPT ![c] = "selecting"]
    /\ disturbed' = CASE Busy # {} -> disturbed \cup Busy \cup {c}
                      [] Busy = {} /\ stuck # {} -> disturbed \cup {c}
                      [] OTHER -> disturbed \ {c}
    /\ doubtful' = doubtful \cup {d \in disturbed' : stage[d] # "new"}
    /\ readings' = IF stage[c] = "ready" THEN readings + 1 ELSE readings
    /\ UNCHANGED <<stage, sent, received, rbuf, transfer, chips, configured, reading,
                   spiFaults, stuck>>

CallFails(c) ==
    /\ spiFaults < MaxSpiFaults
    /\ spiFaults' = spiFaults + 1
    /\ disturbed' = disturbed \cup {c}
    /\ doubtful' = IF stage[c] = "new" THEN doubtful ELSE doubtful \cup {c}

CallWorks == UNCHANGED <<spiFaults, disturbed, doubtful>>

\* Selecting a chip that stayed selected does not begin a new message for it.
Selects(c) ==
    /\ spiAt[c] = "selecting"
    /\ \/ /\ CallWorks
          /\ spiAt' = [spiAt EXCEPT ![c] = "filling"]
          /\ chips' = IF chips[c].selected THEN chips ELSE [chips EXCEPT ![c] = JustSelected]
       \/ /\ CallFails(c)
          /\ spiAt' = [spiAt EXCEPT ![c] = "failing"]
          /\ UNCHANGED chips
    /\ UNCHANGED <<stage, sent, received, rbuf, transfer, configured, reading, readings, stuck>>

\* writeByte fills m_tr: first tx_buf, then rx_buf.
Fills(c) ==
    /\ \/ /\ spiAt[c] = "filling"
          /\ spiAt' = [spiAt EXCEPT ![c] = "half"]
          /\ transfer' = [transfer EXCEPT !.tx = c]
       \/ /\ spiAt[c] = "half"
          /\ spiAt' = [spiAt EXCEPT ![c] = "transferring"]
          /\ transfer' = [transfer EXCEPT !.rx = c]
    /\ UNCHANGED <<stage, sent, received, rbuf, chips, configured, reading, readings,
                   spiFaults, disturbed, doubtful, stuck>>
-----------------------------------------------------------------------------
\* What is sent: the byte of the thread that tx_buf points to; anything when that
\* thread has left writeByte and its stack is used for something else.
Bytes ==
    IF transfer.tx = Nobody THEN {0, RtdMsb, Config + WriteMask, AutoConversion}
    ELSE {Message(transfer.tx)[sent[transfer.tx] + 1]}

\* A selected chip takes a byte for an address, writes it or answers.
ChipAfter(chip, byte) ==
    CASE ~chip.selected -> chip
      [] chip.selected /\ chip.next = Addressed ->
            [chip EXCEPT !.next = byte % (FaultStatus + 1), !.writes = byte >= WriteMask]
      [] OTHER -> [chip EXCEPT !.next = (@ + 1) % (FaultStatus + 1)]

Written == {c \in Chips : chips[c].selected /\ chips[c].writes /\ chips[c].next = Config}

\* One answer can be read; several at a time, or none, are noise.
Answer ==
    LET answering == {c \in Chips : chips[c].selected}
        answers(c) == chips[c].next # Addressed /\ ~chips[c].writes
    IN  IF \E c \in answering : answering = {c} /\ answers(c)
        THEN LET c == CHOOSE d \in answering : TRUE
             IN  [chip |-> c, register |-> chips[c].next]
        ELSE Noise

Moves ==
    \E byte \in Bytes :
       /\ chips' = [c \in Chips |-> ChipAfter(chips[c], byte)]
       /\ configured' = IF byte = AutoConversion THEN configured \cup Written ELSE configured \ Written

\* writeByte returns the byte of its own stack, whoever has filled it; from then on
\* a pointer into that stack is dead.  A failed ioctl moves nothing and is not reported.
SendsByte(c) ==
    /\ spiAt[c] = "transferring"
    /\ \E worked \in BOOLEAN :
          LET got == IF worked /\ transfer.rx # Nobody
                     THEN [rbuf EXCEPT ![transfer.rx] = Answer] ELSE rbuf
          IN  /\ IF worked THEN CallWorks /\ Moves ELSE CallFails(c) /\ UNCHANGED <<chips, configured>>
              /\ received' = IF sent[c] = 0 THEN received
                             ELSE [received EXCEPT ![c] = Append(@, got[c])]
              /\ rbuf' = [got EXCEPT ![c] = Noise]
    /\ transfer' = [tx |-> IF transfer.tx = c THEN Nobody ELSE transfer.tx,
                    rx |-> IF transfer.rx = c THEN Nobody ELSE transfer.rx]
    /\ sent' = [sent EXCEPT ![c] = @ + 1]
    /\ spiAt' = [spiAt EXCEPT ![c] =
                    IF sent'[c] = Len(Message(c)) THEN "deselecting" ELSE "filling"]
    /\ UNCHANGED <<stage, reading, readings, stuck>>
-----------------------------------------------------------------------------
\* init compares what it read of Config and FaultStatus: noise may look like anything,
\* and a chip may report a fault.
Verified(c) ==
    IF received[c][Config + 1] = [chip |-> c, register |-> Config] /\ c \notin configured
    THEN {FALSE} ELSE BOOLEAN

Fails(c) == stage' = [stage EXCEPT ![c] = "failed"] /\ UNCHANGED reading

\* init fails with any call of the pin that fails; getTemperature looks at none.
Concludes(c, worked) ==
    CASE stage[c] = "new" /\ worked ->
            stage' = [stage EXCEPT ![c] = "written"] /\ UNCHANGED reading
      [] stage[c] = "written" /\ worked ->
            \E verified \in Verified(c) :
               IF verified
               THEN stage' = [stage EXCEPT ![c] = "ready"] /\ UNCHANGED reading
               ELSE Fails(c)
      [] stage[c] = "ready" ->
            /\ reading' = [reading EXCEPT ![c] = [bytes |-> received[c],
                                                  disturbed |-> c \in disturbed']]
            /\ UNCHANGED stage
      [] OTHER -> Fails(c)

Ends(c) ==
    /\ spiAt' = [spiAt EXCEPT ![c] = "idle"]
    /\ sent' = [sent EXCEPT ![c] = 0]
    /\ received' = [received EXCEPT ![c] = <<>>]

\* Faulty variant: the chip is left selected.
LeftSelected(c) == chips

Released(c) == [chips EXCEPT ![c] = Deselected]

Deselects(c) ==
    /\ spiAt[c] = "deselecting"
    /\ \/ CallWorks /\ chips' = Released(c) /\ Concludes(c, TRUE) /\ stuck' = stuck \ {c}
       \/ CallFails(c) /\ stuck' = stuck \cup {c} /\ Concludes(c, FALSE) /\ UNCHANGED chips
    /\ Ends(c)
    /\ UNCHANGED <<rbuf, transfer, configured, readings>>

\* The chip could not be selected; the buffer keeps its zeros.
GivesUpSelecting(c) ==
    /\ spiAt[c] = "failing"
    /\ CallWorks
    /\ Concludes(c, FALSE)
    /\ Ends(c)
    /\ UNCHANGED <<rbuf, transfer, chips, configured, readings, stuck>>

SpiNext ==
    \E c \in Chips :
       \/ Begins(c) \/ Selects(c) \/ Fills(c) \/ SendsByte(c)
       \/ Deselects(c) \/ GivesUpSelecting(c)

SpiSpec == SpiInit /\ [][SpiNext]_spiVars
-----------------------------------------------------------------------------
\* The threads and the chips are where they can be, no message is longer than the
\* registers, and a chip is selected by a thread that works with it or is stuck.
SpiTypeOK ==
    /\ stage \in [Chips -> {"new", "written", "ready", "failed"}]
    /\ spiAt \in [Chips -> {"idle", "selecting", "filling", "half", "transferring",
                            "deselecting", "failing"}]
    /\ \A c \in Chips : sent[c] \in 0 .. Len(Message(c))
    /\ \A c \in Chips : Len(received[c]) <= FaultStatus + 1
    /\ rbuf \in [Chips -> Item]
    /\ transfer \in [tx : Chips \cup {Nobody}, rx : Chips \cup {Nobody}]
    /\ configured \subseteq Chips
    /\ \A c \in Chips : chips[c].next \in 0 .. Addressed
    /\ \A c \in Chips : chips[c].selected => c \in Busy \cup stuck
    /\ readings \in 0 .. MaxReadings
    /\ spiFaults \in 0 .. MaxSpiFaults

\* A temperature is made of the two registers of the sensor that was asked, unless two
\* threads used the bus at a time or a call failed: then it may be of the other heater's
\* sensor, of other registers or of uninitialized bytes, and nothing tells.
ReadsItsOwnChip ==
    \A c \in Chips :
       \/ reading[c] = Nothing
       \/ reading[c].disturbed
       \/ reading[c].bytes = << [chip |-> c, register |-> RtdMsb],
                                [chip |-> c, register |-> RtdMsb + 1] >>

\* When the sensors are ready each converts, although init looks at no byte's success but
\* reads back what it wrote; it goes on doing so until a message of its own is disturbed.
ReadyMeansConfigured == AllReady => Chips \subseteq configured \cup doubtful

\* What holds of the sensors at any time: as long as their threads meet on the bus with
\* nothing failing, each is set up and read for itself (Max31865.cpp, SpiControl.cpp).
SpiInvariant == SpiTypeOK /\ ReadsItsOwnChip /\ ReadyMeansConfigured
=============================================================================
