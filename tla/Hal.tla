--------------------------------- MODULE Hal ---------------------------------
(***************************************************************************)
(* The hardware abstraction layer: it is brought up in order, pins before  *)
(* sensors before motors, and destroyed in the order of its members.  All  *)
(* motor controllers hang on one reset pin, which each driver pulls when   *)
(* it is made and when it is deleted.  What a controller is told in detail *)
(* is in module StepperMotor.                                              *)
(***************************************************************************)
EXTENDS Naturals, Sequences, FiniteSets

CONSTANTS
    MotorList,      \* the enabled motors in the order of the configuration
    SensorList,     \* the enabled temperature sensors
    MaxTurns        \* bound: how often a motor is told to turn

Motors == {MotorList[i] : i \in DOMAIN MotorList}

ASSUME HalAssumption ==
    /\ MotorList \in Seq(Motors)
    /\ MaxTurns \in Nat

VARIABLES
    halAt,          \* which part is brought up or destroyed next
    halTurn,        \* which sensor or motor of it
    devices,        \* what is open: the pins, the SPI and the I2C bus
    drivers,        \* the motors whose driver has a controller object
    resetPin,       \* the level of GpioPinMotorControlReset
    tic,            \* the controllers themselves
    believed,       \* the motors that their services take for turning
    deleted,        \* history: a driver has deleted its controller in use
    misused,        \* history: something was used after its end
    turns

halVars == <<halAt, halTurn, devices, drivers, resetPin, tic, believed, deleted, misused, turns>>

\* A controller that starts: settings from its own memory, nothing turns.
Restarted == [stepMode |-> "stored", limits |-> FALSE, turning |-> FALSE]

AllRestarted == [m \in Motors |-> Restarted]

HalInit ==
    /\ halAt = "chip" /\ halTurn = 1
    /\ devices = {} /\ drivers = {}
    /\ resetPin = "low"
    /\ tic = AllRestarted
    /\ believed = {}
    /\ deleted = FALSE /\ misused = FALSE
    /\ turns = 0
-----------------------------------------------------------------------------
\* Destructors run in the reverse order of the members.
Destruction == << "destroySpi", "destroyMotors", "destroyPins", "gone" >>

AfterDestroying(part) ==
    Destruction[1 + CHOOSE i \in DOMAIN Destruction : Destruction[i] = part]

\* A part that cannot be brought up fails the initialization; the caller destroys the rest.
GivesUp == halAt' = Destruction[1]

OpensChip ==
    /\ halAt = "chip"
    /\ \/ GivesUp /\ UNCHANGED devices
       \/ halAt' = "pins" /\ devices' = devices \cup {"chip"}
    /\ UNCHANGED <<halTurn, drivers, resetPin, tic, believed, deleted, misused, turns>>

\* The pins of the chip, each with its direction and default state, among them the two
\* that the motors need.
InitsPins ==
    /\ halAt = "pins"
    /\ \/ GivesUp /\ UNCHANGED devices
       \/ halAt' = "spi" /\ devices' = devices \cup {"pins"}
    /\ UNCHANGED <<halTurn, drivers, resetPin, tic, believed, deleted, misused, turns>>

\* SpiControl::init opens the device and sets it up in several calls, all or nothing.
InitsSpi ==
    /\ halAt = "spi"
    /\ \/ GivesUp /\ UNCHANGED devices
       \/ halAt' = "sensors" /\ devices' = devices \cup {"spi"}
    /\ UNCHANGED <<halTurn, drivers, resetPin, tic, believed, deleted, misused, turns>>

InitsSensor ==
    /\ halAt = "sensors"
    /\ IF halTurn <= Len(SensorList)
       THEN \/ GivesUp /\ UNCHANGED halTurn
            \/ halTurn' = halTurn + 1 /\ UNCHANGED halAt
       ELSE halAt' = "i2c" /\ halTurn' = 1
    /\ UNCHANGED <<devices, drivers, resetPin, tic, believed, deleted, misused, turns>>

InitsI2c ==
    /\ halAt = "i2c"
    /\ \/ GivesUp /\ UNCHANGED devices
       \/ halAt' = "motors" /\ devices' = devices \cup {"i2c"}
    /\ UNCHANGED <<halTurn, drivers, resetPin, tic, believed, deleted, misused, turns>>

\* TicController::init pulls the reset pin, which restarts the controllers of all motors,
\* and sets its own up.  Whether the step mode was set is ignored.
InitsMotor ==
    /\ halAt = "motors"
    /\ halTurn <= Len(MotorList)
    /\ \/ \E mode \in {"stored", "eighth"} :
             /\ resetPin' = "high"
             /\ tic' = [AllRestarted EXCEPT ![MotorList[halTurn]].stepMode = mode]
             /\ drivers' = drivers \cup {MotorList[halTurn]}
             /\ halTurn' = halTurn + 1
             /\ UNCHANGED halAt
       \/ /\ resetPin' = "low"
          /\ tic' = AllRestarted
          /\ GivesUp
          /\ UNCHANGED <<drivers, halTurn>>
    /\ UNCHANGED <<devices, believed, deleted, misused, turns>>

GetsUp ==
    /\ halAt = "motors"
    /\ halTurn > Len(MotorList)
    /\ halAt' = "up"
    /\ UNCHANGED <<halTurn, devices, drivers, resetPin, tic, believed, deleted, misused, turns>>
-----------------------------------------------------------------------------
\* Faulty variant: what the initialization has set up is not set up again.
TurnedOn(t) == [t EXCEPT !.limits = TRUE, !.turning = TRUE]

\* prepareForMotion sets the step mode and the limits again before the motor turns.
Prepared(t) == [stepMode |-> "eighth", limits |-> TRUE, turning |-> TRUE]

\* A motor is told to turn.  A failure leaves it as it was, but for one: when the step
\* mode cannot be set the driver deletes its controller object, and that pulls the reset
\* pin of all motors for good.  A controller in reset does not answer at all.
Turns(m) ==
    /\ halAt = "up"
    /\ m \in drivers \ believed
    /\ turns < MaxTurns
    /\ turns' = turns + 1
    /\ \/ UNCHANGED <<drivers, resetPin, tic, believed, deleted>>
       \/ /\ resetPin = "high"
          /\ tic' = [tic EXCEPT ![m] = Prepared(@)]
          /\ believed' = believed \cup {m}
          /\ UNCHANGED <<drivers, resetPin, deleted>>
       \/ /\ resetPin = "high"
          /\ drivers' = drivers \ {m}
          /\ resetPin' = "low"
          /\ tic' = AllRestarted
          /\ deleted' = TRUE
          /\ UNCHANGED believed
    /\ UNCHANGED <<halAt, halTurn, devices, misused>>

Stopped(m) == [tic EXCEPT ![m].turning = FALSE]

\* A motor is told to stop.  A stop that fails leaves the motor turning.
StopsTurning(m) ==
    /\ halAt = "up"
    /\ m \in drivers \cap believed
    /\ resetPin = "high"
    /\ tic' = Stopped(m)
    /\ believed' = believed \ {m}
    /\ UNCHANGED <<halAt, halTurn, devices, drivers, resetPin, deleted, misused, turns>>
-----------------------------------------------------------------------------
\* The layer is left, whatever its motors do; finalize of the layer itself does nothing.
IsLeft ==
    /\ halAt = "up"
    /\ GivesUp
    /\ UNCHANGED <<halTurn, devices, drivers, resetPin, tic, believed, deleted, misused, turns>>

DestroysSpi ==
    /\ halAt = "destroySpi"
    /\ devices' = devices \ {"spi"}
    /\ halAt' = AfterDestroying("destroySpi")
    /\ UNCHANGED <<halTurn, drivers, resetPin, tic, believed, deleted, misused, turns>>

\* A driver that is deleted pulls the reset pin if it is high.
TurnedOff == [pin |-> "low", tic |-> AllRestarted]

\* The bus is deleted before the drivers that refer to it; they use the pin only.
DestroysMotors ==
    /\ halAt = "destroyMotors"
    /\ devices' = devices \ {"i2c"}
    /\ IF drivers # {}
       THEN /\ resetPin' = TurnedOff.pin
            /\ tic' = TurnedOff.tic
            /\ misused' = ("pins" \notin devices)
       ELSE UNCHANGED <<resetPin, tic, misused>>
    /\ drivers' = {}
    /\ halAt' = AfterDestroying("destroyMotors")
    /\ UNCHANGED <<halTurn, believed, deleted, turns>>

DestroysPins ==
    /\ halAt = "destroyPins"
    /\ devices' = devices \ {"pins", "chip"}
    /\ halAt' = AfterDestroying("destroyPins")
    /\ UNCHANGED <<halTurn, drivers, resetPin, tic, believed, deleted, misused, turns>>

HalNext ==
    \/ OpensChip \/ InitsPins \/ InitsSpi \/ InitsSensor \/ InitsI2c \/ InitsMotor \/ GetsUp
    \/ \E m \in Motors : Turns(m) \/ StopsTurning(m)
    \/ IsLeft \/ DestroysSpi \/ DestroysMotors \/ DestroysPins

HalSpec == HalInit /\ [][HalNext]_halVars
-----------------------------------------------------------------------------
\* The variables have their types; whoever has a driver has pins and, until the motors
\* are destroyed, a bus to drive it with.
HalTypeOK ==
    /\ devices \subseteq {"chip", "pins", "spi", "i2c"}
    /\ "pins" \in devices => "chip" \in devices
    /\ drivers \subseteq Motors /\ believed \subseteq Motors
    /\ resetPin \in {"low", "high"}
    /\ drivers # {} => {"pins", "i2c"} \subseteq devices
    /\ halAt = "up" => devices = {"chip", "pins", "spi", "i2c"}
    /\ turns \in 0..MaxTurns

\* When the layer is gone, however far it got and whatever failed, no motor turns.
NothingTurnsWhenGone == halAt = "gone" => \A m \in Motors : ~tic[m].turning

\* A motor that turns has its step mode and its limits, although the initialization of
\* the next motor restarts its controller (TicController.cpp:76-79).
TurnsAsSetUp == \A m \in Motors : tic[m].turning => tic[m].stepMode = "eighth" /\ tic[m].limits

\* A motor that its service takes for turning turns, unless a driver has deleted its
\* controller and with the reset pin taken all motors down (StepperMotor.cpp:149-154).
NoSilentStop == halAt = "up" /\ ~deleted => \A m \in believed : tic[m].turning

\* Nothing is used after its end while the layer is destroyed: the drivers still have the
\* reset pin.
NothingMisused == ~misused

\* What holds of the hardware at any time: a motor turns as set up and as its service
\* believes, although all hang on one reset pin, and not when the layer is gone.
HalInvariant ==
    /\ HalTypeOK
    /\ NothingTurnsWhenGone
    /\ TurnsAsSetUp
    /\ NoSilentStop
    /\ NothingMisused
=============================================================================
