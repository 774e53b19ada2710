----------------------------- MODULE StepperMotor -----------------------------
(***************************************************************************)
(* The driver of a stepper motor and the Tic controller that it commands   *)
(* over I2C.  A call of the driver is a list of transfers, each of which   *)
(* may fail and then changes what is left of the call.  The controller is  *)
(* outside the repository; of it the model has what the driver relies on.  *)
(* Velocities are without their sign: the direction is never changed.      *)
(***************************************************************************)
EXTENDS Integers, Sequences

CONSTANT MaxSpeed   \* the configured maximum in rpm

\* rpmToMicrostepsPer10kSeconds and back, with the integer division of the code,
\* which loses a fraction: 1 rpm reads back as 0.
MicroStepsPerRound == 200 * 8
SecondsPerMinute == 60
rpmToMicrostepsPer10kSeconds(rpm) == (rpm * MicroStepsPerRound * 10000) \div SecondsPerMinute
microstepsPer10kSecondsToRpm(v) == (v * SecondsPerMinute) \div (MicroStepsPerRound * 10000)

\* The int product of the first does not overflow.
ASSUME MotorAssumption == MaxSpeed \in 1..134

\* The controller after power-up: its driver is on, nothing moves.  locked is its
\* safe-start error; a controller may be set up not to use it (safeStart).
PoweredUp(safeStart) ==
    [there |-> TRUE, target |-> 0, velocity |-> 0, energized |-> TRUE,
     locked |-> safeStart, safeStart |-> safeStart]

\* The operation state is Normal, and the motor follows the target velocity.
Normal(d) == d.there /\ d.energized /\ ~d.locked
Ramped(d) == [d EXCEPT !.velocity = d.target]

Halted(d) == [d EXCEPT !.velocity = 0, !.target = 0]

\* What a transfer that reached the controller makes of it.
Effect(d, step, velocity) ==
    CASE step \in {"setTargetVelocity", "setRotationVelocity"} -> [d EXCEPT !.target = velocity]
      [] step = "setZeroVelocity" -> [d EXCEPT !.target = 0]
      [] step \in {"haltAndHold", "haltAndSetPosition"} -> Halted(d)
      [] step = "energize" -> [d EXCEPT !.energized = TRUE]
      [] step = "deEnergize" -> [d EXCEPT !.energized = FALSE, !.velocity = 0]
      [] step \in {"exitSafeStart", "initExitSafeStart"} -> [d EXCEPT !.locked = FALSE]
      [] step \in {"enterSafeStart", "initEnterSafeStart"} ->
            IF d.safeStart THEN [Halted(d) EXCEPT !.locked = TRUE] ELSE d
      [] step = "reset" -> PoweredUp(d.safeStart)
      [] OTHER -> d

\* finalize turns the controller off and deletes it.
Deleted(d) == [Halted(d) EXCEPT !.there = FALSE, !.energized = FALSE]
-----------------------------------------------------------------------------
(* The calls of the driver as lists of transfers. *)

Shutdown == << "deEnergize", "enterSafeStart" >>

\* waitAndShutdown reads the state once in vain, polls until the motor stands, and
\* shuts the controller down whatever came of it.
WaitAndShutdown(immediately) ==
    << "readState", IF immediately THEN "pollOnce" ELSE "poll" >> \o Shutdown

Stop(immediately) ==
    << IF immediately THEN "haltAndHold" ELSE "setZeroVelocity" >>
        \o WaitAndShutdown(immediately)

\* configure stands for two transfers that nobody else sees: maximum speed and current.
PrepareForMotion ==
    << "checkStill", "setStepMode", "configure", "clearErrors", "exitSafeStart", "energize" >>

\* rotate sets the velocity of the speed that the driver keeps.
Rotate == PrepareForMotion \o << "rotationSpeed" >>

Reset == << "getSpeed" >>

InitController ==
    << "reset", "resetCommandTimeout", "initExitSafeStart", "haltAndSetPosition",
       "initStepMode", "getInitState", "initEnterSafeStart" >>

\* A command is one message to the controller, which knows it by its first byte.
Commands ==
    {"reset", "resetCommandTimeout", "initExitSafeStart", "haltAndSetPosition",
     "initStepMode", "initEnterSafeStart", "setStepMode", "configure", "exitSafeStart",
     "energize", "setTargetVelocity", "setRotationVelocity", "haltAndHold",
     "setZeroVelocity", "deEnergize", "enterSafeStart"}

\* The others read the state in blocks, and fail with any of them.  The check of the
\* error line in init may read it once more and never finds an error: whatever bit is
\* set, errorState stays false.
StateReads ==
    {"getInitState", "getSpeed", "checkStill", "clearErrors", "readState", "poll", "pollOnce"}

Transfers == Commands \cup StateReads
-----------------------------------------------------------------------------
\* What is left of a stop after a transfer: the stop waits as long as the state says
\* that the motor turns, unless it could not be told to stop.
AfterStopTransfer(d, step, ok, rest) ==
    IF step = "poll" /\ ok /\ Normal(d) /\ d.velocity # 0 THEN << "poll" >> \o rest
    ELSE IF step \in {"haltAndHold", "setZeroVelocity"} /\ ~ok THEN [rest EXCEPT ![2] = "pollOnce"]
    ELSE rest

\* What is left of rotate: it gives up at a failure, and stops the motor if it may
\* be about to turn.
AfterRotateTransfer(d, step, ok, rest) ==
    IF ok /\ (step = "checkStill" => d.velocity = 0) THEN rest
    ELSE IF step \in {"exitSafeStart", "energize", "setRotationVelocity"}
         THEN Stop(TRUE) \o << "startFailed" >>
    ELSE << "startFailed" >>

\* What is left of the initialization of the controller.
AfterInitTransfer(d, step, ok, rest) ==
    CASE step = "resetCommandTimeout" /\ ~ok -> << "initExitSafeStart", "initFailed" >>
      [] step = "initStepMode" -> rest
      [] step = "getInitState" /\ ok /\ ~Normal(d) -> << "initEnterSafeStart", "initFailed" >>
      [] OTHER -> IF ok THEN rest ELSE << "initFailed" >>

After(d, step, ok, rest) ==
    CASE step \in {"haltAndHold", "setZeroVelocity", "readState", "poll", "pollOnce",
                   "deEnergize", "enterSafeStart", "clearErrors"} ->
            AfterStopTransfer(d, step, ok, rest)
      [] step \in {"checkStill", "setStepMode", "configure", "exitSafeStart", "energize",
                   "setRotationVelocity"} -> AfterRotateTransfer(d, step, ok, rest)
      [] step = "setTargetVelocity" -> IF ok THEN rest ELSE Stop(TRUE) \o rest
      [] step = "getSpeed" ->
            IF ok /\ microstepsPer10kSecondsToRpm(d.velocity) # 0 THEN Stop(TRUE) \o rest ELSE rest
      [] OTHER -> AfterInitTransfer(d, step, ok, rest)

\* What becomes of the controller: a step mode that cannot be set deletes it.
Controller(d, step, ok, velocity) ==
    IF ok THEN Effect(d, step, velocity)
    ELSE IF step = "setStepMode" THEN Deleted(d)
    ELSE d
=============================================================================
