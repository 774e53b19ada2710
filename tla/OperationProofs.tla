---------------------------- MODULE OperationProofs ----------------------------
(***************************************************************************)
(* What is around the machine: threads, for any number of them; the        *)
(* hardware layer, for any list of motors and sensors; the application,    *)
(* for any group of components; and the remote control, for any clients.   *)
(***************************************************************************)
EXTENDS Hal, Thread, Application, RemoteControl, TLAPS

-----------------------------------------------------------------------------
(* Thread: the start hand-shake. *)

\* A thread that may run has been prepared, whatever an earlier run has left.
ReadyInv == \A c \in Context : isReady[c] => prepared[c] /\ returned[c]

ThreadIInv == ThreadInvariant /\ ReadyInv

LEMMA ThreadStepKeepsInv ==
    ASSUME ThreadIInv, NEW c \in Context,
           \/ StartsThread(c) \/ Stops(c) \/ Waits(c)
           \/ OwnerStep(c) \/ ThreadStep(c) \/ ReturnsOrThrows(c)
    PROVE  ThreadIInv'
  <1> USE DEF ThreadIInv, ThreadInvariant, ThreadTypeOK, RunsPrepared, ReadyInv
  <1>1. CASE StartsThread(c)
    BY <1>1, ThreadAssumption DEF StartsThread
  <1>2. CASE Stops(c)
    BY <1>2 DEF Stops
  <1>3. CASE Waits(c)
    BY <1>3 DEF Waits
  <1>4. CASE LetsRun(c)
    <2>1. PICK set \in BOOLEAN : /\ prepared' = [prepared EXCEPT ![c] = set]
                                 /\ isReady' = [isReady EXCEPT ![c] = set]
                                 /\ returned' = [returned EXCEPT ![c] = set]
      BY <1>4 DEF LetsRun, ReadyIf
    <2>2. QED
      BY <1>4, <2>1 DEF LetsRun
  <1>5. CASE Joins(c)
    BY <1>5 DEF Joins
  <1>6. CASE Prepares(c)
    BY <1>6 DEF Prepares
  <1>7. CASE Runs(c)
    BY <1>7 DEF Runs
  <1>8. CASE ThreadEnds(c)
    BY <1>8 DEF ThreadEnds
  <1>9. CASE ReturnsOrThrows(c)
    BY <1>9 DEF ReturnsOrThrows
  <1>10. QED
    BY <1>1, <1>2, <1>3, <1>4, <1>5, <1>6, <1>7, <1>8, <1>9 DEF OwnerStep, ThreadStep

\* For any number of contexts, real-time ones among them: the mutex is held by whom the
\* hand-shake says, and no process runs before its thread is prepared (Thread.cpp:33-102).
THEOREM ThreadsRunPrepared == ThreadSpec => []ThreadInvariant
  <1>1. ThreadInit => ThreadIInv
    BY ThreadAssumption
       DEF ThreadInit, ThreadIInv, ThreadInvariant, ThreadTypeOK, RunsPrepared, ReadyInv
  <1>2. ThreadIInv /\ [ThreadNext]_threadVars => ThreadIInv'
    <2>1. ThreadIInv /\ UNCHANGED threadVars => ThreadIInv'
      BY DEF threadVars, ThreadIInv, ThreadInvariant, ThreadTypeOK, RunsPrepared, ReadyInv
    <2>2. QED
      BY <2>1, ThreadStepKeepsInv DEF ThreadNext
  <1>3. ThreadIInv => ThreadInvariant
    BY DEF ThreadIInv
  <1>4. QED
    BY <1>1, <1>2, <1>3, PTL DEF ThreadSpec

-----------------------------------------------------------------------------
(* Hal: the hardware layer. *)

\* What is open at each stage.  While the layer comes up exactly the parts before are,
\* and no service has told a motor anything.
StageInv ==
    /\ halAt \in {"chip", "pins", "spi", "sensors", "i2c", "motors", "up",
                  "destroySpi", "destroyMotors", "destroyPins", "gone"}
    /\ halAt = "chip" => devices = {}
    /\ halAt = "pins" => devices = {"chip"}
    /\ halAt = "spi" => devices = {"chip", "pins"}
    /\ halAt \in {"sensors", "i2c"} => devices = {"chip", "pins", "spi"}
    /\ halAt = "motors" => devices = {"chip", "pins", "spi", "i2c"}
    /\ halAt \in {"chip", "pins", "spi", "sensors", "i2c", "destroyPins", "gone"}
          => drivers = {}
    /\ halAt \in {"chip", "pins", "spi", "sensors", "i2c", "motors"} => believed = {}

Controller == [stepMode : {"stored", "eighth"}, limits : BOOLEAN, turning : BOOLEAN]

\* Only a motor with a driver turns: a driver that goes restarts all controllers.
DriverInv ==
    /\ halTurn \in Nat \ {0}
    /\ tic \in [Motors -> Controller]
    /\ \A m \in Motors : tic[m].turning => m \in drivers

HalIInv == HalInvariant /\ StageInv /\ DriverInv

LEMMA DestructionOrder ==
    /\ AfterDestroying("destroySpi") = "destroyMotors"
    /\ AfterDestroying("destroyMotors") = "destroyPins"
    /\ AfterDestroying("destroyPins") = "gone"
    /\ Destruction[1] = "destroySpi"
  BY DEF AfterDestroying, Destruction

\* What the reset pin does to the controllers.
LEMMA NothingTurnsRestarted ==
    AllRestarted \in [Motors -> Controller] /\ \A m \in Motors : ~AllRestarted[m].turning
  <1>1. Restarted \in Controller /\ ~Restarted.turning
    BY DEF Restarted, Controller
  <1>2. QED
    BY <1>1 DEF AllRestarted

LEMMA HalInitHolds == HalInit => HalIInv
  BY HalAssumption, NothingTurnsRestarted
     DEF HalInit, HalIInv, HalInvariant, HalTypeOK, NothingTurnsWhenGone, TurnsAsSetUp,
         NoSilentStop, NothingMisused, StageInv, DriverInv

\* The parts come up in order; whichever fails, the destruction begins.
LEMMA ComingUpKeepsInv ==
    ASSUME HalIInv,
           OpensChip \/ InitsPins \/ InitsSpi \/ InitsSensor \/ InitsI2c \/ GetsUp
    PROVE  HalIInv'
  <1> USE DestructionOrder, HalAssumption
      DEF HalIInv, HalInvariant, HalTypeOK, NothingTurnsWhenGone, TurnsAsSetUp,
          NoSilentStop, NothingMisused, StageInv, DriverInv, GivesUp
  <1>1. CASE OpensChip
    BY <1>1 DEF OpensChip
  <1>2. CASE InitsPins
    BY <1>2 DEF InitsPins
  <1>3. CASE InitsSpi
    BY <1>3 DEF InitsSpi
  <1>4. CASE InitsSensor
    BY <1>4 DEF InitsSensor
  <1>5. CASE InitsI2c
    BY <1>5 DEF InitsI2c
  <1>6. CASE GetsUp
    BY <1>6 DEF GetsUp
  <1>7. QED
    BY <1>1, <1>2, <1>3, <1>4, <1>5, <1>6

LEMMA InitsMotorKeepsInv == ASSUME HalIInv, InitsMotor PROVE HalIInv'
  <1> DEFINE next == MotorList[halTurn]
  <1>1. next \in Motors
    BY DEF InitsMotor, Motors, HalIInv, DriverInv
  <1>2. /\ tic' \in [Motors -> Controller]
        /\ \A m \in Motors : ~tic'[m].turning
    <2>1. CASE tic' = AllRestarted
      BY <2>1, NothingTurnsRestarted
    <2>2. ASSUME NEW mode \in {"stored", "eighth"},
                 tic' = [AllRestarted EXCEPT ![next].stepMode = mode]
          PROVE  tic' \in [Motors -> Controller] /\ \A m \in Motors : ~tic'[m].turning
      <3>1. /\ [AllRestarted[next] EXCEPT !.stepMode = mode] \in Controller
            /\ ~[AllRestarted[next] EXCEPT !.stepMode = mode].turning
        BY <1>1, NothingTurnsRestarted DEF Controller
      <3>2. tic' = [AllRestarted EXCEPT ![next] =
                       [AllRestarted[next] EXCEPT !.stepMode = mode]]
        BY <2>2
      <3>3. QED
        BY <3>1, <3>2, <1>1, NothingTurnsRestarted
    <2>3. QED
      BY <2>1, <2>2 DEF InitsMotor
  <1>3. (HalTypeOK /\ StageInv /\ NothingMisused)' /\ (halTurn \in Nat \ {0})'
    BY <1>1, DestructionOrder
       DEF InitsMotor, GivesUp, HalIInv, HalInvariant, HalTypeOK, NothingMisused, StageInv,
           DriverInv
  <1>4. halAt' # "up"
    BY DestructionOrder DEF InitsMotor, GivesUp
  <1>5. QED
    BY <1>2, <1>3, <1>4
       DEF HalIInv, HalInvariant, DriverInv, NothingTurnsWhenGone, TurnsAsSetUp, NoSilentStop

LEMMA TurningKeepsInv ==
    ASSUME HalIInv, NEW m \in Motors, Turns(m) \/ StopsTurning(m)
    PROVE  HalIInv'
  <1> USE DEF HalIInv, HalInvariant, HalTypeOK, NothingTurnsWhenGone, TurnsAsSetUp,
              NoSilentStop, NothingMisused, StageInv, DriverInv
  <1>1. ASSUME Turns(m), UNCHANGED <<drivers, resetPin, tic, believed, deleted>>
        PROVE  HalIInv'
    BY <1>1, HalAssumption DEF Turns
  <1>2. ASSUME Turns(m), tic' = [tic EXCEPT ![m] = Prepared(@)],
               believed' = believed \cup {m}, UNCHANGED <<drivers, resetPin, deleted>>
        PROVE  HalIInv'
    <2>1. Prepared(tic[m]) \in Controller
      BY DEF Prepared, Controller
    <2>2. /\ tic' \in [Motors -> Controller]
          /\ tic'[m] = Prepared(tic[m])
          /\ \A k \in Motors \ {m} : tic'[k] = tic[k]
      BY <1>2, <2>1
    <2>3. m \in drivers
      BY <1>2 DEF Turns
    <2>4. /\ Prepared(tic[m]).turning /\ Prepared(tic[m]).limits
          /\ Prepared(tic[m]).stepMode = "eighth"
      BY DEF Prepared
    <2>5. HalTypeOK' /\ StageInv' /\ NothingMisused'
      BY <1>2, HalAssumption DEF Turns
    <2>6. QED
      BY <1>2, <2>2, <2>3, <2>4, <2>5 DEF Turns
  <1>3. ASSUME Turns(m), drivers' = drivers \ {m}, resetPin' = "low",
               tic' = AllRestarted, deleted' = TRUE, UNCHANGED believed
        PROVE  HalIInv'
    BY <1>3, HalAssumption, NothingTurnsRestarted DEF Turns
  <1>4. CASE StopsTurning(m)
    <2>1. [tic[m] EXCEPT !.turning = FALSE] \in Controller
      BY ZenonT(60) DEF Controller
    <2>2. tic' = [tic EXCEPT ![m] = [tic[m] EXCEPT !.turning = FALSE]]
      BY <1>4 DEF StopsTurning, Stopped
    <2>3. /\ tic' \in [Motors -> Controller]
          /\ ~tic'[m].turning
          /\ \A k \in Motors \ {m} : tic'[k] = tic[k]
      BY <2>1, <2>2 DEF Controller
    <2>4. HalTypeOK' /\ StageInv' /\ NothingMisused' /\ (halTurn \in Nat \ {0})'
      BY <1>4 DEF StopsTurning
    <2>5. QED
      BY <1>4, <2>3, <2>4 DEF StopsTurning
  <1>5. QED
    BY <1>1, <1>2, <1>3, <1>4 DEF Turns

LEMMA DestroyingKeepsInv ==
    ASSUME HalIInv, IsLeft \/ DestroysSpi \/ DestroysMotors \/ DestroysPins
    PROVE  HalIInv'
  <1> USE DestructionOrder, HalAssumption
      DEF HalIInv, HalInvariant, HalTypeOK, NothingTurnsWhenGone, TurnsAsSetUp,
          NoSilentStop, NothingMisused, StageInv, DriverInv, GivesUp
  <1>1. CASE IsLeft
    BY <1>1 DEF IsLeft
  <1>2. CASE DestroysSpi
    BY <1>2 DEF DestroysSpi
  <1>3. CASE DestroysMotors
    <2>1. tic' \in [Motors -> Controller] /\ \A m \in Motors : ~tic'[m].turning
      BY <1>3, NothingTurnsRestarted DEF DestroysMotors, TurnedOff
    <2>2. ~misused'
      BY <1>3 DEF DestroysMotors
    <2>3. HalTypeOK' /\ StageInv' /\ (halTurn \in Nat \ {0})'
      BY <1>3 DEF DestroysMotors, TurnedOff
    <2>4. QED
      BY <1>3, <2>1, <2>2, <2>3 DEF DestroysMotors
  <1>4. CASE DestroysPins
    BY <1>4 DEF DestroysPins
  <1>5. QED
    BY <1>1, <1>2, <1>3, <1>4

\* For any motors on the one reset pin, and whatever part fails: a motor turns only as it
\* was set up and as its service believes, nothing is used after its end, and nothing
\* turns when the layer is gone (HardwareAbstractionLayer.cpp, TicController.cpp:76-79).
THEOREM HardwareIsSafe == HalSpec => []HalInvariant
  <1>1. HalIInv /\ [HalNext]_halVars => HalIInv'
    <2>1. HalIInv /\ UNCHANGED halVars => HalIInv'
      BY DEF halVars, HalIInv, HalInvariant, HalTypeOK, NothingTurnsWhenGone, TurnsAsSetUp,
             NoSilentStop, NothingMisused, StageInv, DriverInv
    <2>2. QED
      BY <2>1, ComingUpKeepsInv, InitsMotorKeepsInv, TurningKeepsInv, DestroyingKeepsInv
         DEF HalNext
  <1>2. HalIInv => HalInvariant
    BY DEF HalIInv
  <1>3. QED
    BY HalInitHolds, <1>1, <1>2, PTL DEF HalSpec

-----------------------------------------------------------------------------
(* Application: the start of everything, and its end. *)

Complete(c) ==
    /\ c \in Member => work[c] = "running"
    /\ bound[c] = {"publisher", "server"}
    /\ c \in subscribed

Down(c) == work[c] = "none" /\ io[c] = "none" /\ bound[c] = {}

\* What the start of the current component has got done, by its next step; it succeeds
\* only with all of it.
StartInv ==
    /\ call \in {"work", "io", "publisher", "server", "complete", "started"}
    /\ call = "work" => stage = "group"
    /\ call \in {"work", "io", "publisher"} => succeeds
    /\ stage = "group" /\ call \notin {"work", "started"} => work[Current] = "running"
    /\ stage = "group" /\ "server" \in bound[Current] => work[Current] = "running"
    /\ call = "server" /\ succeeds => "publisher" \in bound[Current]
    /\ call = "complete" => "server" \in bound[Current]
    /\ call = "complete" /\ succeeds => "publisher" \in bound[Current]
    /\ call = "started" /\ succeeds => Complete(Current)

\* What there is of the components at each stage of the start.
UpInv ==
    /\ stage \in {"options", "hal"} => \A c \in Bundled : Down(c)
    /\ stage \in {"options", "hal", "group"} => Down(Gateway) /\ Gateway \notin subscribed
    /\ stage = "group" =>
          /\ hal /\ StartInv
          /\ \A i \in DOMAIN Group : i < turn => Complete(Group[i])
          /\ \A i \in DOMAIN Group : i > turn => Down(Group[i])
    /\ stage = "gateway" => hal /\ StartInv /\ \A c \in Member : Complete(c)
    /\ stage \in {"remote", "waits"} => hal /\ \A c \in Bundled : Complete(c)

\* The stop of the group goes in its order, each member by its worker, its sockets and
\* its IO thread.  The application leaves its wait when no IO thread of the group is left.
DownInv ==
    /\ stage = "remote" => turn = 1
    /\ stage = "waits" => \A i \in DOMAIN Group : i < turn => io[Group[i]] = "none"
    /\ stage \in {"stopRemote", "stopGateway", "finalize"} => \A c \in Member : io[c] = "none"
    /\ stage = "stopGateway" => call \in {"unbindServer", "unbindPublisher", "stopIo"}
    /\ stage = "stopGroup" =>
          /\ hal
          /\ call \in {"stopWork", "unbindServer", "unbindPublisher", "stopIo"}
          /\ call # "stopWork" => work[Current] = "none"
          /\ call = "unbindPublisher" => "server" \notin bound[Current]
          /\ call = "stopIo" => bound[Current] = {}
          /\ \A i \in DOMAIN Group : i < turn => Down(Group[i])

ApplicationIInv ==
    /\ ApplicationInvariant
    /\ work \in [Bundled -> {"none", "running"}]
    /\ io \in [Bundled -> {"none", "running", "ended"}]
    /\ bound \in [Bundled -> SUBSET {"publisher", "server"}]
    /\ subscribed \subseteq Bundled
    /\ outcome # "none" => stage = "leaves"
    /\ stage \in {"options", "hal"} => turn = 1 /\ succeeds
    /\ UpInv
    /\ DownInv

LEMMA StartOrder ==
    /\ \A c : c # Gateway => Head(StartCalls(c)) = "work"
    /\ Head(StartCalls(Gateway)) = "io"
    /\ \A c : c # Gateway /\ call = "work" => Following(c) = "io"
    /\ \A c : call = "io" => Following(c) = "publisher"
    /\ \A c : call = "publisher" => Following(c) = "server"
    /\ \A c : call = "server" => Following(c) = "complete"
    /\ \A c : call = "complete" => Following(c) = "started"
  <1>1. (\A c : c # Gateway => Head(StartCalls(c)) = "work") /\ Head(StartCalls(Gateway)) = "io"
    BY DEF StartCalls
  <1>2. ASSUME NEW c, c # Gateway
        PROVE  /\ call = "work" => Following(c) = "io"
               /\ call = "io" => Following(c) = "publisher"
               /\ call = "publisher" => Following(c) = "server"
               /\ call = "server" => Following(c) = "complete"
               /\ call = "complete" => Following(c) = "started"
    BY <1>2 DEF StartCalls, Following
  <1>3. /\ call = "io" => Following(Gateway) = "publisher"
        /\ call = "publisher" => Following(Gateway) = "server"
        /\ call = "server" => Following(Gateway) = "complete"
        /\ call = "complete" => Following(Gateway) = "started"
    BY DEF StartCalls, Following
  <1>4. QED
    BY <1>1, <1>2, <1>3

\* The members are told apart by their places, and the gateway is none of them.
LEMMA Places ==
    /\ Len(Group) \in Nat \ {0} /\ DOMAIN Group = 1..Len(Group)
    /\ \A i \in DOMAIN Group : Group[i] \in Member /\ Group[i] # Gateway
    /\ \A i, j \in DOMAIN Group : Group[i] = Group[j] => i = j
    /\ \A c \in Member : \E i \in DOMAIN Group : c = Group[i]
    /\ Gateway \notin Member
    /\ Bundled = Member \cup {Gateway}
  BY ApplicationAssumption DEF Member, Bundled

LEMMA ApplicationInitHolds == ApplicationInit => ApplicationIInv
  <1> SUFFICES ASSUME ApplicationInit PROVE ApplicationIInv
    OBVIOUS
  <1>1. /\ stage = "options" /\ turn = 1 /\ turn \in DOMAIN Group
        /\ work \in [Bundled -> {"none", "running"}]
        /\ io \in [Bundled -> {"none", "running", "ended"}]
        /\ bound \in [Bundled -> SUBSET {"publisher", "server"}]
        /\ subscribed = {}
        /\ \A c \in Bundled : Down(c)
    BY Places DEF ApplicationInit, Down
  <1>2. ApplicationTypeOK
    BY <1>1, Places DEF ApplicationInit, ApplicationTypeOK, Down
  <1>3. WaitsForCompleteSystem /\ ServesWithWorker /\ HardwareOutlivesIo
    BY <1>1, Places DEF WaitsForCompleteSystem, ServesWithWorker, HardwareOutlivesIo, Down
  <1>4. UpInv /\ DownInv
    BY <1>1, Places DEF UpInv, DownInv
  <1>5. QED
    BY <1>1, <1>2, <1>3, <1>4 DEF ApplicationInit, ApplicationIInv, ApplicationInvariant

LEMMA BeginningKeepsInv ==
    ASSUME ApplicationIInv, ParsesOptions \/ InitializesHal
    PROVE  ApplicationIInv'
  <1>1. CASE ParsesOptions
    BY <1>1, Places DEF ParsesOptions, ApplicationIInv, ApplicationInvariant, ApplicationTypeOK,
                WaitsForCompleteSystem, ServesWithWorker, HardwareOutlivesIo, UpInv, DownInv,
                Down, Complete, Leaves
  <1>2. CASE InitializesHal
    <2>1. /\ UNCHANGED <<turn, succeeds, work, io, bound, subscribed, remote, outcome>>
          /\ stage = "hal" /\ turn = 1 /\ succeeds /\ \A c \in Bundled : Down(c)
          /\ \/ stage' = "group" /\ call' = "work" /\ hal' = TRUE /\ UNCHANGED result
             \/ stage' = "leaves" /\ result' = FALSE /\ UNCHANGED hal
      BY <1>2, Places, StartOrder DEF InitializesHal, Leaves, ApplicationIInv, UpInv
    <2>2. ApplicationTypeOK'
      BY <2>1, Places DEF ApplicationIInv, ApplicationInvariant, ApplicationTypeOK
    <2>3. (WaitsForCompleteSystem /\ ServesWithWorker /\ HardwareOutlivesIo)'
      BY <2>1, Places DEF WaitsForCompleteSystem, ServesWithWorker, HardwareOutlivesIo, Down
    <2>4. \A c \in Bundled : Down(c)'
      BY <2>1 DEF Down
    <2>5. stage' = "group" => StartInv'
      BY <2>1, <2>4, Places DEF StartInv, Current, Down
    <2>6. UpInv'
      BY <2>1, <2>4, <2>5, Places DEF UpInv, ApplicationIInv
    <2>7. DownInv'
      BY <2>1 DEF DownInv
    <2>8. QED
      BY <2>1, <2>2, <2>3, <2>6, <2>7 DEF ApplicationIInv, ApplicationInvariant
  <1>3. QED
    BY <1>1, <1>2

\* A step of a start touches the current component only.
LEMMA StartingKeepsInv ==
    ASSUME ApplicationIInv, stage \in {"group", "gateway"}, NEW c, c = Current,
           UNCHANGED <<appRest, outcome>>,
           succeeds' \in BOOLEAN,
           work' \in [Bundled -> {"none", "running"}],
           io' \in [Bundled -> {"none", "running", "ended"}],
           bound' \in [Bundled -> SUBSET {"publisher", "server"}],
           \A d \in Bundled \ {c} : /\ work'[d] = work[d] /\ io'[d] = io[d]
                                    /\ bound'[d] = bound[d],
           subscribed \subseteq subscribed', subscribed' \subseteq subscribed \cup {c},
           c = Gateway => work'[c] = "none",
           StartInv'
    PROVE  ApplicationIInv'
  <1>1. UNCHANGED <<stage, turn, result, hal, remote, outcome>>
    BY DEF appRest
  <1>2. /\ c = (IF stage = "gateway" THEN Gateway ELSE Group[turn])
        /\ c \in Bundled /\ turn \in DOMAIN Group
    BY Places DEF Current, ApplicationIInv, ApplicationInvariant, ApplicationTypeOK
  <1>3. \A d \in Bundled \ {c} : /\ Complete(d) => Complete(d)'
                                 /\ Down(d) => Down(d)'
    BY DEF Complete, Down
  <1>4. ApplicationTypeOK'
    BY <1>1, <1>2, Places DEF ApplicationIInv, ApplicationInvariant, ApplicationTypeOK, UpInv, Down
  <1>5. hal
    BY DEF ApplicationIInv, UpInv
  <1>6. \A d \in Member : "server" \in bound'[d] => work'[d] = "running"
    <2>1. SUFFICES ASSUME NEW d \in Member, "server" \in bound'[d] PROVE work'[d] = "running"
      OBVIOUS
    <2>2. CASE d = c
      BY <1>1, <1>2, <2>1, <2>2, Places DEF StartInv, Current
    <2>3. CASE d # c
      BY <1>1, <2>1, <2>3, Places DEF ApplicationIInv, ApplicationInvariant, ServesWithWorker
    <2>4. QED
      BY <2>2, <2>3
  <1>7. (WaitsForCompleteSystem /\ ServesWithWorker /\ HardwareOutlivesIo)'
    BY <1>1, <1>5, <1>6 DEF WaitsForCompleteSystem, ServesWithWorker, HardwareOutlivesIo
  <1>8. UpInv'
    <2>1. CASE stage = "group"
      <3>1. \A i \in DOMAIN Group : i # turn => Group[i] \in Bundled \ {c}
        BY <1>2, <2>1, Places
      <3>2. \A i \in DOMAIN Group : /\ i < turn => Complete(Group[i])
                                    /\ i > turn => Down(Group[i])
        BY <2>1 DEF ApplicationIInv, UpInv
      <3>3. \A i \in DOMAIN Group : /\ i < turn => i # turn /\ Complete(Group[i])'
                                    /\ i > turn => i # turn /\ Down(Group[i])'
        BY <1>2, <1>3, <3>1, <3>2, Places
      <3>4. Down(Gateway)' /\ Gateway \notin subscribed'
        BY <1>2, <1>3, <2>1, Places DEF ApplicationIInv, UpInv
      <3>5. stage' = "group" /\ hal' /\ turn' = turn
        BY <1>1, <1>5, <2>1
      <3>6. \A i \in DOMAIN Group : i < turn' => Complete(Group[i])'
        BY <3>3, <3>5
      <3>7. \A i \in DOMAIN Group : i > turn' => Down(Group[i])'
        BY <3>3, <3>5
      <3>8. QED
        BY <3>4, <3>5, <3>6, <3>7 DEF UpInv
    <2>2. CASE stage = "gateway"
      <3>1. \A d \in Member : Complete(d)'
        BY <1>2, <1>3, <2>2, Places DEF ApplicationIInv, UpInv
      <3>2. QED
        BY <1>1, <1>5, <2>2, <3>1 DEF UpInv
    <2>3. QED
      BY <2>1, <2>2
  <1>9. DownInv'
    BY <1>1 DEF DownInv
  <1>10. subscribed' \subseteq Bundled
    BY <1>2 DEF ApplicationIInv
  <1>11. QED
    BY <1>1, <1>4, <1>7, <1>8, <1>9, <1>10 DEF ApplicationIInv, ApplicationInvariant

LEMMA StepsOfStartKeepInv ==
    ASSUME ApplicationIInv,
           StartsWorker \/ StartsIo \/ BindsPublisher \/ BindsServer \/ Completes
    PROVE  ApplicationIInv'
  <1> PICK c : c = Current
    OBVIOUS
  <1>1. /\ stage \in {"group", "gateway"} /\ outcome = "none" /\ UNCHANGED <<appRest, outcome>>
        /\ StartInv
    BY DEF StartsWorker, StartsIo, BindsPublisher, BindsServer, Completes, Starting,
           ApplicationIInv, UpInv
  <1>2. UNCHANGED <<stage, turn>> /\ Current' = Current
    BY <1>1 DEF appRest, Current
  <1>3. /\ c = (IF stage = "gateway" THEN Gateway ELSE Group[turn])
        /\ c \in Bundled /\ turn \in DOMAIN Group
        /\ c = Gateway => work[c] = "none"
        /\ c = Gateway <=> stage = "gateway"
    BY <1>1, Places DEF Current, ApplicationIInv, ApplicationInvariant, ApplicationTypeOK
  <1>4. /\ succeeds \in BOOLEAN
        /\ work \in [Bundled -> {"none", "running"}]
        /\ io \in [Bundled -> {"none", "running", "ended"}]
        /\ bound \in [Bundled -> SUBSET {"publisher", "server"}]
    BY DEF ApplicationIInv, ApplicationInvariant, ApplicationTypeOK
  <1>5. CASE StartsWorker
    <2>1. PICK ok \in BOOLEAN :
             /\ call' = IF ok THEN Following(c) ELSE "started"
             /\ succeeds' = (succeeds /\ ok)
             /\ work' = [work EXCEPT ![c] = IF ok THEN "running" ELSE @]
      BY <1>5 DEF StartsWorker, GoesOnIf
    <2>2. call = "work" /\ stage = "group" /\ UNCHANGED <<io, bound, subscribed>>
      BY <1>1, <1>5 DEF StartsWorker, Starting, StartInv
    <2>3. call' = IF ok THEN "io" ELSE "started"
      BY <1>3, <2>1, <2>2, StartOrder
    <2>4. StartInv'
      BY <1>1, <1>2, <1>3, <1>4, <2>1, <2>2, <2>3 DEF StartInv
    <2>5. work' \in [Bundled -> {"none", "running"}] /\ succeeds' \in BOOLEAN
      BY <1>3, <1>4, <2>1
    <2>6. QED
      BY <1>1, <1>3, <1>4, <2>1, <2>2, <2>4, <2>5, StartingKeepsInv
  <1>6. CASE StartsIo
    <2>1. PICK ok \in BOOLEAN :
             /\ call' = IF ok THEN Following(c) ELSE "started"
             /\ succeeds' = (succeeds /\ ok)
             /\ io' = [io EXCEPT ![c] = IF ok THEN "running" ELSE @]
      BY <1>6 DEF StartsIo, GoesOnIf
    <2>2. call = "io" /\ UNCHANGED <<work, bound, subscribed>>
      BY <1>6 DEF StartsIo, Starting
    <2>3. call' = IF ok THEN "publisher" ELSE "started"
      BY <2>1, <2>2, StartOrder
    <2>4. StartInv'
      BY <1>1, <1>2, <1>3, <1>4, <2>1, <2>2, <2>3 DEF StartInv
    <2>5. io' \in [Bundled -> {"none", "running", "ended"}] /\ succeeds' \in BOOLEAN
      BY <1>3, <1>4, <2>1
    <2>6. QED
      BY <1>1, <1>3, <1>4, <2>1, <2>2, <2>4, <2>5, StartingKeepsInv
  <1>7. CASE BindsPublisher
    <2>1. PICK ok \in BOOLEAN :
             /\ succeeds' = (succeeds /\ ok)
             /\ bound' = [bound EXCEPT ![c] = IF ok THEN @ \cup {"publisher"} ELSE @]
      BY <1>7 DEF BindsPublisher, Binds
    <2>2. call = "publisher" /\ UNCHANGED <<work, io, subscribed>>
      BY <1>7 DEF BindsPublisher, Starting
    <2>3. call' = "server"
      BY <1>7, <2>2, StartOrder DEF BindsPublisher
    <2>4. StartInv'
      BY <1>1, <1>2, <1>3, <1>4, <2>1, <2>2, <2>3 DEF StartInv
    <2>5. bound' \in [Bundled -> SUBSET {"publisher", "server"}] /\ succeeds' \in BOOLEAN
      BY <1>3, <1>4, <2>1
    <2>6. QED
      BY <1>1, <1>3, <1>4, <2>1, <2>2, <2>4, <2>5, StartingKeepsInv
  <1>10. CASE BindsServer
    <2>1. PICK ok \in BOOLEAN :
             /\ succeeds' = (succeeds /\ ok)
             /\ call' = IF ok THEN Following(c) ELSE "started"
             /\ bound' = [bound EXCEPT ![c] = IF ok THEN @ \cup {"server"} ELSE @]
      BY <1>10 DEF BindsServer, Binds, GoesOnIf
    <2>2. call = "server" /\ UNCHANGED <<work, io, subscribed>>
      BY <1>10 DEF BindsServer, Starting
    <2>3. call' = IF ok THEN "complete" ELSE "started"
      BY <2>1, <2>2, StartOrder
    <2>4. StartInv'
      BY <1>1, <1>2, <1>3, <1>4, <2>1, <2>2, <2>3 DEF StartInv
    <2>5. bound' \in [Bundled -> SUBSET {"publisher", "server"}] /\ succeeds' \in BOOLEAN
      BY <1>3, <1>4, <2>1
    <2>6. QED
      BY <1>1, <1>3, <1>4, <2>1, <2>2, <2>4, <2>5, StartingKeepsInv
  <1>8. CASE Completes
    <2>1. PICK ok \in BOOLEAN :
             /\ succeeds' = AllCount(ok)
             /\ subscribed' = IF AllCount(ok) THEN subscribed \cup {c} ELSE subscribed
      BY <1>8 DEF Completes
    <2>2. call = "complete" /\ UNCHANGED <<work, io, bound>> /\ call' = "started"
      BY <1>8, StartOrder DEF Completes, Starting
    <2>3. StartInv'
      BY <1>1, <1>2, <1>3, <1>4, <2>1, <2>2, Places DEF StartInv, AllCount, Complete
    <2>4. QED
      BY <1>1, <1>3, <1>4, <2>1, <2>2, <2>3, StartingKeepsInv DEF AllCount
  <1>9. QED
    BY <1>5, <1>6, <1>7, <1>8, <1>10

\* The facts about the current state that the steps need.
LEMMA ApplicationFacts ==
    ASSUME ApplicationIInv
    PROVE  /\ turn \in DOMAIN Group /\ turn \in Nat
           /\ Group[turn] \in Member /\ Group[turn] \in Bundled /\ Gateway \in Bundled
           /\ stage # "gateway" /\ stage # "stopGateway" => Current = Group[turn]
           /\ stage \in {"gateway", "stopGateway"} => Current = Gateway
           /\ work \in [Bundled -> {"none", "running"}] /\ work[Gateway] = "none"
           /\ io \in [Bundled -> {"none", "running", "ended"}]
           /\ bound \in [Bundled -> SUBSET {"publisher", "server"}]
           /\ subscribed \subseteq Bundled
           /\ hal \in BOOLEAN /\ succeeds \in BOOLEAN /\ result \in BOOLEAN
           /\ ApplicationTypeOK /\ ServesWithWorker /\ HardwareOutlivesIo /\ UpInv /\ DownInv
           /\ outcome # "none" => stage = "leaves"
  BY Places DEF ApplicationIInv, ApplicationInvariant, ApplicationTypeOK, Current

LEMMA BundleStartedKeepsInv == ASSUME ApplicationIInv, BundleStarted PROVE ApplicationIInv'
  <1>1. /\ UNCHANGED <<result, hal, work, io, bound, subscribed, remote, outcome>>
        /\ succeeds' = TRUE /\ call = "started" /\ stage \in {"group", "gateway"}
        /\ outcome = "none" /\ hal /\ StartInv
    BY DEF BundleStarted, Starting, ApplicationIInv, UpInv
  <1>2. \A c : (Complete(c)' <=> Complete(c)) /\ (Down(c)' <=> Down(c))
    BY <1>1 DEF Complete, Down
  <1>3. succeeds => Complete(Current)
    BY <1>1 DEF StartInv
  <1>4. ASSUME stage = "group", ~succeeds PROVE ApplicationIInv'
    <2>1. stage' = "leaves" /\ UNCHANGED <<turn, call>>
      BY <1>4 DEF BundleStarted
    <2>2. ApplicationTypeOK'
      BY <1>1, <2>1, ApplicationFacts, Places DEF ApplicationTypeOK
    <2>3. (WaitsForCompleteSystem /\ ServesWithWorker /\ HardwareOutlivesIo)'
      BY <1>1, <1>4, <2>1, ApplicationFacts
         DEF WaitsForCompleteSystem, ServesWithWorker, HardwareOutlivesIo
    <2>4. UpInv' /\ DownInv'
      BY <2>1 DEF UpInv, DownInv
    <2>5. QED
      BY <1>1, <2>1, <2>2, <2>3, <2>4, ApplicationFacts DEF ApplicationIInv, ApplicationInvariant
  <1>5. ASSUME stage = "group", succeeds, turn < Len(Group) PROVE ApplicationIInv'
    <2>1. stage' = "group" /\ turn' = turn + 1 /\ call' = "work" /\ turn + 1 \in DOMAIN Group
      BY <1>5, StartOrder, ApplicationFacts, Places DEF BundleStarted
    <2>2. ApplicationTypeOK'
      BY <1>1, <1>5, <2>1, ApplicationFacts, Places DEF ApplicationTypeOK
    <2>3. (WaitsForCompleteSystem /\ ServesWithWorker /\ HardwareOutlivesIo)'
      BY <1>1, <1>5, <2>1, ApplicationFacts
         DEF WaitsForCompleteSystem, ServesWithWorker, HardwareOutlivesIo
    <2>4. /\ \A i \in DOMAIN Group : i < turn + 1 => Complete(Group[i])
          /\ \A i \in DOMAIN Group : i > turn => Down(Group[i])
          /\ Down(Gateway) /\ Gateway \notin subscribed
      <3>1. Complete(Group[turn])
        BY <1>3, <1>5, ApplicationFacts
      <3>2. \A i \in DOMAIN Group : i \in Nat /\ (i < turn + 1 => i < turn \/ i = turn)
        BY ApplicationFacts, Places
      <3>3. QED
        BY <1>5, <3>1, <3>2, ApplicationFacts DEF UpInv
    <2>5. Down(Group[turn + 1])
      BY <2>1, <2>4, ApplicationFacts
    <2>6. StartInv'
      BY <1>1, <2>1, <2>5 DEF StartInv, Current, Down
    <2>7. \A i \in DOMAIN Group : i > turn + 1 => Down(Group[i])
      BY <2>4, ApplicationFacts, Places
    <2>8. UpInv'
      <3>1. /\ \A i \in DOMAIN Group : i < turn' => Complete(Group[i])'
            /\ \A i \in DOMAIN Group : i > turn' => Down(Group[i])'
            /\ Down(Gateway)'
        BY <1>2, <2>1, <2>4, <2>7
      <3>2. QED
        BY <1>1, <2>1, <2>4, <2>6, <3>1 DEF UpInv
    <2>9. DownInv'
      BY <2>1 DEF DownInv
    <2>10. QED
      BY <1>1, <2>1, <2>2, <2>3, <2>8, <2>9, ApplicationFacts
         DEF ApplicationIInv, ApplicationInvariant
  <1>6. ASSUME stage = "group", succeeds, ~(turn < Len(Group)) PROVE ApplicationIInv'
    <2>1. stage' = "gateway" /\ turn' = turn /\ call' = "io" /\ turn = Len(Group)
      BY <1>6, StartOrder, ApplicationFacts, Places DEF BundleStarted
    <2>2. ApplicationTypeOK'
      BY <1>1, <2>1, ApplicationFacts, Places DEF ApplicationTypeOK
    <2>3. (WaitsForCompleteSystem /\ ServesWithWorker /\ HardwareOutlivesIo)'
      BY <1>1, <1>6, <2>1, ApplicationFacts
         DEF WaitsForCompleteSystem, ServesWithWorker, HardwareOutlivesIo
    <2>4. \A c \in Member : Complete(c)
      <3>1. SUFFICES ASSUME NEW i \in DOMAIN Group PROVE Complete(Group[i])
        BY Places
      <3>2. i < turn \/ i = turn
        BY <2>1, ApplicationFacts, Places
      <3>3. QED
        BY <1>3, <1>6, <3>2, ApplicationFacts DEF UpInv
    <2>5. Down(Gateway)
      BY <1>6, ApplicationFacts DEF UpInv
    <2>6. StartInv'
      BY <1>1, <2>1, <2>5 DEF StartInv, Current, Down
    <2>7. UpInv'
      BY <1>1, <1>2, <2>1, <2>4, <2>6 DEF UpInv
    <2>8. DownInv'
      BY <2>1 DEF DownInv
    <2>9. QED
      BY <1>1, <2>1, <2>2, <2>3, <2>7, <2>8, ApplicationFacts
         DEF ApplicationIInv, ApplicationInvariant
  <1>7. ASSUME stage = "gateway" PROVE ApplicationIInv'
    <2>1. /\ stage' = IF succeeds THEN "remote" ELSE "stopGroup"
          /\ turn' = 1 /\ call' = "stopWork" /\ 1 \in DOMAIN Group
      BY <1>7, Places DEF BundleStarted
    <2>2. ApplicationTypeOK'
      BY <1>1, <2>1, ApplicationFacts, Places DEF ApplicationTypeOK
    <2>3. \A c \in Member : Complete(c)
      BY <1>7, ApplicationFacts DEF UpInv
    <2>4. succeeds => \A c \in Bundled : Complete(c)
      BY <1>3, <1>7, <2>3, ApplicationFacts, Places
    <2>5. WaitsForCompleteSystem'
      BY <1>1, <2>1, <2>4, ApplicationFacts, Places DEF WaitsForCompleteSystem, Complete
    <2>6. (ServesWithWorker /\ HardwareOutlivesIo)'
      BY <1>1, <2>1, <2>3 DEF ServesWithWorker, HardwareOutlivesIo, Complete
    <2>7. UpInv'
      BY <1>1, <1>2, <2>1, <2>4 DEF UpInv
    <2>8. DownInv'
      BY <1>1, <2>1, Places DEF DownInv
    <2>9. QED
      BY <1>1, <2>1, <2>2, <2>5, <2>6, <2>7, <2>8, ApplicationFacts
         DEF ApplicationIInv, ApplicationInvariant
  <1>8. QED
    BY <1>1, <1>4, <1>5, <1>6, <1>7

\* What the components keep, and nothing more is asked of the next stage.
LEMMA StandingKeepsInv ==
    ASSUME ApplicationIInv, UNCHANGED <<work, bound, subscribed>>,
           io' \in [Bundled -> {"none", "running", "ended"}],
           \A c \in Bundled : io'[c] = "running" => io[c] = "running",
           stage \notin {"options", "hal", "group", "gateway", "stopGroup"},
           stage' \notin {"options", "hal", "group", "gateway", "stopGroup"},
           ApplicationTypeOK',
           stage' \in {"remote", "waits"} => hal' /\ \A c \in Bundled : Complete(c),
           hal' \/ \A c \in Member : io'[c] # "running",
           DownInv',
           outcome' # "none" => stage' = "leaves"
    PROVE  ApplicationIInv'
  <1>1. \A c : Complete(c)' <=> Complete(c)
    BY DEF Complete
  <1>2. WaitsForCompleteSystem'
    <2>1. CASE stage' \in {"remote", "waits"}
      <3>1. hal' /\ \A c \in Bundled : Complete(c)
        BY <2>1
      <3>2. subscribed = Bundled
        BY <3>1, ApplicationFacts DEF Complete
      <3>3. QED
        BY <3>1, <3>2, Places DEF WaitsForCompleteSystem, Complete
    <2>2. QED
      BY <2>1 DEF WaitsForCompleteSystem
  <1>3. ServesWithWorker' /\ HardwareOutlivesIo'
    BY ApplicationFacts DEF ServesWithWorker, HardwareOutlivesIo
  <1>4. UpInv'
    BY <1>1 DEF UpInv
  <1>5. QED
    BY <1>2, <1>3, <1>4, ApplicationFacts DEF ApplicationIInv, ApplicationInvariant

LEMMA RunningKeepsInv ==
    ASSUME ApplicationIInv, StartsRemote \/ WaitsFor \/ StopsRemote \/ FinalizesHal \/ Destroys
    PROVE  ApplicationIInv'
  <1>1. CASE StartsRemote
    <2>1. /\ UNCHANGED <<turn, result, hal, succeeds, work, io, bound, subscribed, outcome>>
          /\ stage = "remote" /\ stage' = "waits" /\ remote' \in {"listening", "failed"}
          /\ outcome = "none"
      BY <1>1, ApplicationFacts DEF StartsRemote
    <2>2. ApplicationTypeOK'
      BY <2>1, ApplicationFacts DEF ApplicationTypeOK
    <2>3. hal' /\ \A c \in Bundled : Complete(c)
      BY <2>1, ApplicationFacts DEF UpInv
    <2>4. DownInv'
      BY <2>1, ApplicationFacts, Places DEF DownInv
    <2>5. QED
      BY <2>1, <2>2, <2>3, <2>4, ApplicationFacts, StandingKeepsInv
  <1>2. CASE WaitsFor
    <2>1. /\ UNCHANGED <<result, hal, succeeds, work, bound, subscribed, remote, outcome>>
          /\ stage = "waits" /\ outcome = "none"
          /\ io' = [io EXCEPT ![Group[turn]] = "none"]
          /\ \/ stage' = "waits" /\ turn < Len(Group) /\ turn' = turn + 1
             \/ stage' = "stopRemote" /\ ~(turn < Len(Group)) /\ turn' = turn
      BY <1>2, ApplicationFacts DEF WaitsFor
    <2>2. turn' \in DOMAIN Group
      BY <2>1, ApplicationFacts, Places
    <2>3. ApplicationTypeOK'
      BY <2>1, <2>2, ApplicationFacts DEF ApplicationTypeOK
    <2>4. hal' /\ \A c \in Bundled : Complete(c)
      BY <2>1, ApplicationFacts DEF UpInv
    <2>5. \A i \in DOMAIN Group : i \in Nat /\ (i < turn + 1 => io'[Group[i]] = "none")
      BY <2>1, ApplicationFacts, Places DEF DownInv
    <2>6. DownInv'
      <3>1. CASE stage' = "waits"
        BY <2>1, <2>5, <3>1 DEF DownInv
      <3>2. CASE stage' = "stopRemote"
        <4>1. \A i \in DOMAIN Group : i < turn + 1
          BY <2>1, <3>2, ApplicationFacts, Places
        <4>2. \A c \in Member : io'[c] = "none"
          BY <2>5, <4>1, Places
        <4>3. QED
          BY <3>2, <4>2 DEF DownInv
      <3>3. QED
        BY <2>1, <3>1, <3>2
    <2>7. /\ io' \in [Bundled -> {"none", "running", "ended"}]
          /\ \A c \in Bundled : io'[c] = "running" => io[c] = "running"
      BY <2>1, ApplicationFacts
    <2>8. QED
      BY <2>1, <2>3, <2>4, <2>6, <2>7, StandingKeepsInv
  <1>3. CASE StopsRemote
    <2>1. /\ UNCHANGED <<turn, result, hal, succeeds, work, io, bound, subscribed, outcome>>
          /\ stage = "stopRemote" /\ stage' = "stopGateway" /\ remote' = "none"
          /\ outcome = "none" /\ call' = "unbindServer"
      BY <1>3, ApplicationFacts DEF StopsRemote
    <2>2. ApplicationTypeOK'
      BY <2>1, ApplicationFacts DEF ApplicationTypeOK
    <2>3. DownInv' /\ \A c \in Member : io'[c] # "running"
      BY <2>1, ApplicationFacts DEF DownInv
    <2>4. QED
      BY <2>1, <2>2, <2>3, ApplicationFacts, StandingKeepsInv
  <1>4. CASE FinalizesHal
    <2>1. /\ UNCHANGED <<turn, succeeds, work, io, bound, subscribed, remote, outcome>>
          /\ stage = "finalize" /\ stage' = "leaves" /\ hal' = FALSE /\ result' = TRUE
          /\ outcome = "none"
      BY <1>4, ApplicationFacts DEF FinalizesHal, Leaves
    <2>2. ApplicationTypeOK'
      BY <2>1, ApplicationFacts DEF ApplicationTypeOK
    <2>3. DownInv' /\ \A c \in Member : io'[c] # "running"
      BY <2>1, ApplicationFacts DEF DownInv
    <2>4. QED
      BY <2>1, <2>2, <2>3, ApplicationFacts, StandingKeepsInv
  <1>5. CASE Destroys
    <2>1. /\ UNCHANGED <<stage, turn, call, succeeds, result, work, io, bound, subscribed, remote>>
          /\ stage = "leaves" /\ outcome' \in {"success", "failure", "terminated"}
          /\ hal' \in BOOLEAN
          /\ \/ UNCHANGED hal
             \/ \A c \in Bundled : io[c] = "none"
      BY <1>5, ApplicationFacts DEF Destroys
    <2>2. ApplicationTypeOK'
      BY <2>1, ApplicationFacts DEF ApplicationTypeOK
    <2>3. hal' \/ \A c \in Member : io'[c] # "running"
      BY <2>1, ApplicationFacts, Places DEF HardwareOutlivesIo
    <2>4. DownInv'
      BY <2>1 DEF DownInv
    <2>5. QED
      BY <2>1, <2>2, <2>3, <2>4, ApplicationFacts, StandingKeepsInv
  <1>6. QED
    BY <1>1, <1>2, <1>3, <1>4, <1>5

LEMMA ThrowsKeepsInv ==
    ASSUME ApplicationIInv, NEW c \in Bundled, Throws(c)
    PROVE  ApplicationIInv'
  <1>1. /\ UNCHANGED <<stage, turn, call, succeeds, result, hal, remote, work, bound,
                       subscribed, outcome>>
        /\ outcome = "none"
        /\ io[c] = "running" /\ io' = [io EXCEPT ![c] = "ended"]
    BY DEF Throws, appRest
  <1>2. /\ io' \in [Bundled -> {"none", "running", "ended"}]
        /\ \A d \in Bundled : /\ io'[d] = "running" => io[d] = "running"
                              /\ io[d] = "none" => io'[d] = "none"
    BY <1>1, ApplicationFacts
  <1>3. \A d \in Bundled : /\ Complete(d)' <=> Complete(d)
                           /\ Down(d) => Down(d)'
    BY <1>1, <1>2 DEF Complete, Down
  <1>4. (StartInv' <=> StartInv) /\ Current' = Current
    BY <1>1 DEF StartInv, Current, Complete
  <1>5. ApplicationTypeOK'
    BY <1>1, <1>2, ApplicationFacts DEF ApplicationTypeOK
  <1>6. WaitsForCompleteSystem'
    BY <1>1 DEF ApplicationIInv, ApplicationInvariant, WaitsForCompleteSystem
  <1>7. (ServesWithWorker /\ HardwareOutlivesIo)'
    BY <1>1, <1>2, <1>4, ApplicationFacts, Places DEF ServesWithWorker, HardwareOutlivesIo
  <1>8. \A i \in DOMAIN Group : /\ Complete(Group[i])' <=> Complete(Group[i])
                                /\ Down(Group[i]) => Down(Group[i])'
                                /\ io[Group[i]] = "none" => io'[Group[i]] = "none"
    BY <1>2, <1>3, Places
  <1>9. Down(Gateway) => Down(Gateway)'
    BY <1>3, Places
  <1>10. UpInv'
    BY <1>1, <1>3, <1>4, <1>8, <1>9, ApplicationFacts, Places DEF UpInv
  <1>11. DownInv'
    <2>1. CASE stage = "stopGroup"
      BY <1>1, <1>4, <1>8, <2>1, ApplicationFacts DEF DownInv
    <2>2. CASE stage # "stopGroup"
      BY <1>1, <1>2, <1>8, <2>2, ApplicationFacts, Places DEF DownInv
    <2>3. QED
      BY <2>1, <2>2
  <1>12. QED
    BY <1>1, <1>2, <1>5, <1>6, <1>7, <1>10, <1>11, ApplicationFacts
       DEF ApplicationIInv, ApplicationInvariant

\* A step of the stop of the group touches the current member only.
LEMMA StoppingKeepsInv ==
    ASSUME ApplicationIInv, stage = "stopGroup",
           UNCHANGED <<stage, turn, result, hal, remote, succeeds, subscribed, outcome>>,
           call' \in {"stopWork", "unbindServer", "unbindPublisher", "stopIo"},
           work' \in [Bundled -> {"none", "running"}],
           bound' \in [Bundled -> SUBSET {"publisher", "server"}],
           UNCHANGED io,
           \A d \in Bundled : d # Group[turn] => work'[d] = work[d] /\ bound'[d] = bound[d],
           call' # "stopWork" => work'[Group[turn]] = "none",
           call' = "unbindPublisher" => "server" \notin bound'[Group[turn]],
           call' = "stopIo" => bound'[Group[turn]] = {}
    PROVE  ApplicationIInv'
  <1>1. Current = Group[turn] /\ Current' = Group[turn]
    BY ApplicationFacts DEF Current
  <1>2. ApplicationTypeOK'
    BY ApplicationFacts, Places DEF ApplicationTypeOK
  <1>3. (WaitsForCompleteSystem /\ ServesWithWorker /\ HardwareOutlivesIo)'
    BY <1>1, ApplicationFacts, Places
       DEF WaitsForCompleteSystem, ServesWithWorker, HardwareOutlivesIo
  <1>4. \A i \in DOMAIN Group : i < turn => Down(Group[i])'
    <2>1. SUFFICES ASSUME NEW i \in DOMAIN Group, i < turn PROVE Down(Group[i])'
      OBVIOUS
    <2>2. Group[i] # Group[turn] /\ Group[i] \in Bundled
      BY <2>1, ApplicationFacts, Places
    <2>3. Down(Group[i])
      BY <2>1, ApplicationFacts DEF DownInv
    <2>4. QED
      BY <2>2, <2>3 DEF Down
  <1>5. DownInv'
    BY <1>1, <1>4, ApplicationFacts DEF DownInv
  <1>6. UpInv'
    BY DEF UpInv
  <1>7. QED
    BY <1>2, <1>3, <1>5, <1>6, ApplicationFacts DEF ApplicationIInv, ApplicationInvariant

LEMMA StopsWorkerKeepsInv == ASSUME ApplicationIInv, StopsWorker PROVE ApplicationIInv'
  <1>1. /\ stage = "stopGroup" /\ call = "stopWork" /\ Current = Group[turn]
        /\ UNCHANGED <<stage, turn, result, hal, remote, succeeds, subscribed, outcome>>
        /\ UNCHANGED <<io, bound>>
    BY ApplicationFacts DEF StopsWorker, Stopping, DownInv, appRest
  <1>2. \/ work' = [work EXCEPT ![Group[turn]] = "none"] /\ call' = "unbindServer"
        \/ UNCHANGED <<work, call>>
    BY <1>1 DEF StopsWorker
  <1>3. QED
    BY <1>1, <1>2, ApplicationFacts, StoppingKeepsInv

\* What the stop of a bundle undoes is undone.
LEMMA UnbindsKeepsInv ==
    ASSUME ApplicationIInv, UnbindsServer \/ UnbindsPublisher
    PROVE  ApplicationIInv'
  <1>1. /\ stage \in {"stopGroup", "stopGateway"}
        /\ UNCHANGED <<stage, turn, result, hal, remote, succeeds, subscribed, outcome>>
        /\ UNCHANGED <<io, work>>
        /\ \/ /\ call = "unbindServer" /\ call' = "unbindPublisher"
              /\ bound' = [bound EXCEPT ![Current] = @ \ {"server"}]
           \/ /\ call = "unbindPublisher" /\ call' = "stopIo"
              /\ bound' = [bound EXCEPT ![Current] = @ \ {"publisher"}]
    BY DEF UnbindsServer, UnbindsPublisher, Unbinds, Stopping, appRest
  <1>2. CASE stage = "stopGroup"
    <2>1. /\ work[Group[turn]] = "none"
          /\ call = "unbindPublisher" => "server" \notin bound[Group[turn]]
      BY <1>1, <1>2, ApplicationFacts DEF DownInv
    <2>2. /\ bound' \in [Bundled -> SUBSET {"publisher", "server"}]
          /\ \A d \in Bundled : d # Group[turn] => bound'[d] = bound[d]
          /\ call' = "unbindPublisher" => "server" \notin bound'[Group[turn]]
      BY <1>1, <1>2, ApplicationFacts
    <2>3. call' = "stopIo" => bound'[Group[turn]] = {}
      BY <1>1, <1>2, <2>1, ApplicationFacts
    <2>4. QED
      BY <1>1, <1>2, <2>1, <2>2, <2>3, ApplicationFacts, StoppingKeepsInv
  <1>3. CASE stage = "stopGateway"
    <2>1. /\ bound' \in [Bundled -> SUBSET {"publisher", "server"}]
          /\ \A c \in Bundled : c # Gateway => bound'[c] = bound[c]
      BY <1>1, <1>3, ApplicationFacts
    <2>2. ApplicationTypeOK'
      BY <1>1, <2>1, ApplicationFacts DEF ApplicationTypeOK
    <2>3. (WaitsForCompleteSystem /\ ServesWithWorker /\ HardwareOutlivesIo)'
      BY <1>1, <1>3, <2>1, ApplicationFacts, Places
         DEF WaitsForCompleteSystem, ServesWithWorker, HardwareOutlivesIo
    <2>4. UpInv' /\ DownInv'
      BY <1>1, <1>3, ApplicationFacts DEF UpInv, DownInv
    <2>5. QED
      BY <1>1, <2>1, <2>2, <2>3, <2>4, ApplicationFacts DEF ApplicationIInv, ApplicationInvariant
  <1>4. QED
    BY <1>1, <1>2, <1>3

LEMMA StopsIoKeepsInv ==
    ASSUME ApplicationIInv, StopsIo
    PROVE  /\ ApplicationIInv'
           /\ stage = "stopGroup" /\ stage' = "leaves" => GroupIsDown'
  <1>1. /\ stage \in {"stopGroup", "stopGateway"} /\ call = "stopIo" /\ outcome = "none"
        /\ UNCHANGED <<succeeds, hal, work, bound, subscribed, remote, outcome>>
        /\ io' = [io EXCEPT ![Current] = "none"]
        /\ io' \in [Bundled -> {"none", "running", "ended"}]
        /\ \A c \in Bundled : /\ io'[c] = "running" => io[c] = "running"
                              /\ io[c] = "none" => io'[c] = "none"
    BY ApplicationFacts DEF StopsIo, Stopping
  <1>2. CASE stage = "stopGateway"
    <2>1. stage' = "finalize" /\ UNCHANGED <<turn, call, result>>
      BY <1>2 DEF StopsIo
    <2>2. ApplicationTypeOK'
      BY <1>1, <2>1, ApplicationFacts DEF ApplicationTypeOK
    <2>3. DownInv' /\ \A c \in Member : io'[c] # "running"
      BY <1>1, <1>2, <2>1, ApplicationFacts, Places DEF DownInv
    <2>4. QED
      BY <1>1, <1>2, <2>1, <2>2, <2>3, StandingKeepsInv
  <1>3. CASE stage = "stopGroup"
    <2>1. /\ Current = Group[turn] /\ work[Group[turn]] = "none" /\ bound[Group[turn]] = {}
          /\ \A i \in DOMAIN Group : i < turn => Down(Group[i])
          /\ hal
      BY <1>1, <1>3, ApplicationFacts DEF DownInv
    <2>2. \A i \in DOMAIN Group : i \in Nat /\ (i < turn + 1 => Down(Group[i])')
      <3>1. PICK now \in DOMAIN Group : now = turn
        BY ApplicationFacts
      <3>2. Down(Group[now])'
        BY <1>1, <2>1, <3>1, ApplicationFacts DEF Down
      <3>3. ASSUME NEW i \in DOMAIN Group, i < turn PROVE Down(Group[i])'
        BY <1>1, <2>1, <3>3, Places DEF Down
      <3>4. \A i \in DOMAIN Group : i \in Nat /\ (i < turn + 1 => i < turn \/ i = now)
        BY <3>1, ApplicationFacts, Places
      <3>5. QED
        BY <3>2, <3>3, <3>4
    <2>3. \/ turn < Len(Group) /\ turn' = turn + 1 /\ call' = "stopWork" /\ UNCHANGED <<stage, result>>
          \/ /\ ~(turn < Len(Group)) /\ stage' = "leaves" /\ result' = FALSE
             /\ UNCHANGED <<turn, call>>
      BY <1>3 DEF StopsIo, Leaves
    <2>4. turn' \in DOMAIN Group
      BY <2>3, ApplicationFacts, Places
    <2>5. ApplicationTypeOK'
      BY <1>1, <1>3, <2>3, <2>4, ApplicationFacts DEF ApplicationTypeOK
    <2>6. (WaitsForCompleteSystem /\ ServesWithWorker /\ HardwareOutlivesIo)'
      BY <1>1, <1>3, <2>1, <2>3, ApplicationFacts, Places
         DEF WaitsForCompleteSystem, ServesWithWorker, HardwareOutlivesIo
    <2>7. UpInv'
      BY <1>3, <2>3 DEF UpInv
    <2>8. DownInv'
      BY <1>1, <1>3, <2>1, <2>2, <2>3 DEF DownInv
    <2>9. stage' = "leaves" => GroupIsDown'
      <3>1. SUFFICES ASSUME stage' = "leaves", NEW i \in DOMAIN Group PROVE Down(Group[i])'
        BY Places DEF GroupIsDown, Down
      <3>2. i < turn + 1
        BY <1>3, <2>3, <3>1, ApplicationFacts, Places
      <3>3. QED
        BY <2>2, <3>2
    <2>10. QED
      BY <1>1, <1>3, <2>3, <2>5, <2>6, <2>7, <2>8, <2>9, ApplicationFacts
         DEF ApplicationIInv, ApplicationInvariant
  <1>4. QED
    BY <1>1, <1>2, <1>3

LEMMA ApplicationStepKeepsInv ==
    ASSUME ApplicationIInv, [ApplicationNext]_appVars
    PROVE  ApplicationIInv'
  <1>1. CASE UNCHANGED appVars
    <2>1. UNCHANGED <<stage, turn, call, succeeds, result, hal, work, io, bound, subscribed,
                      remote, outcome>>
      BY <1>1 DEF appVars
    <2>2. (ApplicationInvariant' <=> ApplicationInvariant) /\ (UpInv' <=> UpInv)
          /\ (DownInv' <=> DownInv)
      BY <2>1 DEF ApplicationInvariant, ApplicationTypeOK, WaitsForCompleteSystem,
                  ServesWithWorker, HardwareOutlivesIo, UpInv, DownInv, StartInv, Complete,
                  Down, Current
    <2>3. QED
      BY <2>1, <2>2 DEF ApplicationIInv
  <1>2. CASE MainDoes
    BY <1>2, BeginningKeepsInv, StepsOfStartKeepInv, BundleStartedKeepsInv, RunningKeepsInv,
       StopsWorkerKeepsInv, UnbindsKeepsInv, StopsIoKeepsInv DEF MainDoes
  <1>3. CASE \E c \in Bundled : Throws(c)
    BY <1>3, ThrowsKeepsInv
  <1>4. QED
    BY <1>1, <1>2, <1>3 DEF ApplicationNext

\* For any group of components, whatever fails in their starts and whichever IO threads
\* throw: the application waits only for a complete system, a member serves only with its
\* worker, and the hardware outlives the IO threads (MachineApplication.cpp:71-196).
THEOREM ServesWhatHasStarted == ApplicationSpec => []ApplicationInvariant
  <1>1. ApplicationIInv => ApplicationInvariant
    BY DEF ApplicationIInv
  <1>2. QED
    BY ApplicationInitHolds, ApplicationStepKeepsInv, <1>1, PTL DEF ApplicationSpec

\* For any group: a gateway that fails leaves no thread and no socket of a member
\* (MachineApplication.cpp:71-196, ExecutionGroup::stop).
THEOREM FailedGatewayLeavesNothing == ApplicationSpec => GatewayFailureStopsGroup
  <1>1. ASSUME ApplicationIInv, ApplicationNext, stage \in {"gateway", "stopGroup"},
               stage' = "leaves"
        PROVE  GroupIsDown'
    <2>1. StopsIo /\ stage = "stopGroup"
      BY <1>1 DEF ApplicationNext, MainDoes, ParsesOptions, InitializesHal, StartsWorker,
                  StartsIo, BindsPublisher, BindsServer, Completes, Starting, BundleStarted,
                  StartsRemote, Throws, WaitsFor, StopsRemote, StopsWorker, UnbindsServer,
                  UnbindsPublisher, StopsIo, Stopping, FinalizesHal, Destroys, Leaves, appRest
    <2>2. QED
      BY <1>1, <2>1, StopsIoKeepsInv
  <1>2. ApplicationIInv /\ [ApplicationNext]_appVars
           => [(stage \in {"gateway", "stopGroup"} /\ stage' = "leaves") => GroupIsDown']_appVars
    BY <1>1
  <1>3. QED
    BY ApplicationInitHolds, ApplicationStepKeepsInv, <1>2, PTL
       DEF ApplicationSpec, GatewayFailureStopsGroup

-----------------------------------------------------------------------------
(* RemoteControl: the user interface and the server for its clients. *)

Told == {"off", "stopped", "starting", "running", "error"}
Kinds == {"none", "open", "listening", "upgrade", "close", "closing"} \cup Requests

RemoteTypes ==
    /\ RemoteTypeOK
    /\ event \in [kind : Kinds, of : Client \cup {Listener}]
    /\ latest \in MachineNotices /\ lastMachineEvent \in MachineNotices
    /\ inbox \in Seq(MachineNotices)
    /\ guard = "ruler" <=> ruler \in {"joins", "frees"}

\* The events of the connections come in their order, and while the thread polls each open
\* connection is known, but the one whose opening is the event.
ConnectionInv ==
    /\ server \in {"none", "created"} =>
          event = NoEvent /\ connections = {} /\ \A c \in Client \cup {Listener} : sockets[c] = "none"
    /\ server = "ended" => event = NoEvent
    /\ server \in {"asks", "replies"} => event.kind \in Answerable
    /\ event.kind \notin {"none", "open", "listening"} => event.of \in Client
    /\ event.kind = "none" => event = NoEvent
    /\ event.kind = "open" => sockets[event.of] = "http"
    /\ event.kind = "listening" => event.of = Listener
    /\ event.kind = "upgrade" => sockets[event.of] = "http"
    /\ event.kind \in Requests => sockets[event.of] = "web"
    /\ server \in {"polls", "asks", "replies"} =>
          \A c \in Client \cup {Listener} : sockets[c] \in {"http", "web"} =>
             c \in connections \/ (event.kind = "open" /\ event.of = c)
    /\ \A c \in webs : sockets[c] = "web"

\* m_doListen is FALSE only before the loop, or while stop waits with the mutex.
LoopInv ==
    server \in {"polls", "asks", "replies"} /\ ~doListen =>
       \/ ruler = "joins"
       \/ event.kind \in {"open", "listening"} /\ event.of = Listener

\* What is on its way to the lights and, while there is a thread that sends, the clients.
ViewInv ==
    /\ refused \/ IF inbox = <<>> THEN lastMachineEvent = latest ELSE inbox[Len(inbox)] = latest
    /\ lights = LightsFor(lastMachineEvent)
    /\ \A c \in Client : sockets[c] \in {"none", "http"} => view[c] = Unknown
    /\ server = "replies" /\ event.kind = "state" => reply \in Told
    /\ server = "replies" /\ event.kind = "state" /\ worker = "pulls" =>
          event.of \in overtaken \/ reply = Converted(lastMachineEvent)
    /\ worker = "pulls" /\ server # "ended" =>
          \A c \in webs \ (overtaken \cup deaf) :
             view[c] \in {Unknown, Converted(lastMachineEvent)}

RemoteIInv ==
    /\ RemoteTypes /\ EventHasConnection /\ ConnectionsLive
    /\ ConnectionInv /\ LoopInv /\ ViewInv

LEMMA ConvertedTold == \A e \in MachineNotices : Converted(e) \in Told /\ Converted(e) # Unknown
  BY DEF Converted, Told, MachineNotices, Unknown

LEMMA LastOfTail ==
    ASSUME NEW S, NEW q \in Seq(S), q # <<>>
    PROVE  /\ Head(q) \in S /\ Tail(q) \in Seq(S) /\ Len(Tail(q)) = Len(q) - 1
           /\ Tail(q) = <<>> => Head(q) = q[Len(q)]
           /\ Tail(q) # <<>> => Tail(q)[Len(Tail(q))] = q[Len(q)]
  <1>1. Len(q) \in Nat \ {0}
    OBVIOUS
  <1>2. Tail(q) \in Seq(S) /\ Len(Tail(q)) = Len(q) - 1 /\ Head(q) \in S
    BY <1>1
  <1>3. ASSUME Tail(q) = <<>> PROVE Head(q) = q[Len(q)]
    <2>1. Len(q) = 1
      BY <1>1, <1>2, <1>3
    <2>2. QED
      BY <2>1
  <1>4. ASSUME Tail(q) # <<>> PROVE Tail(q)[Len(Tail(q))] = q[Len(q)]
    <2>1. Len(q) - 1 \in 1..Len(Tail(q))
      BY <1>1, <1>2, <1>4
    <2>2. QED
      BY <1>1, <1>2, <2>1
  <1>5. QED
    BY <1>2, <1>3, <1>4

LEMMA RemoteInitHolds == RemoteInit => RemoteIInv
  <1> SUFFICES ASSUME RemoteInit PROVE RemoteIInv
    OBVIOUS
  <1>1. RemoteTypes
    <2>1. NoEvent \in [kind : Kinds, of : Client \cup {Listener}]
      BY DEF NoEvent, Kinds
    <2>2. /\ sockets \in [Client \cup {Listener} -> {"none", "http", "web", "gone"}]
          /\ wants \in [Client -> Requests \cup {NoRequest}]
          /\ view \in [Client -> {Unknown, "off", "stopped", "starting", "running", "error"}]
      BY DEF RemoteInit
    <2>3. inbox \in Seq(MachineNotices) /\ Len(inbox) < MaxInbox
      BY RemoteAssumption DEF RemoteInit
    <2>4. RemoteTypeOK
      BY <2>2, <2>3 DEF RemoteInit, RemoteTypeOK
    <2>5. QED
      BY <2>1, <2>3, <2>4 DEF RemoteInit, RemoteTypes, MachineNotices
  <1>2. EventHasConnection /\ ConnectionsLive
    BY DEF RemoteInit, EventHasConnection, ConnectionsLive, NoEvent
  <1>3. ConnectionInv /\ LoopInv
    BY DEF RemoteInit, ConnectionInv, LoopInv, NoEvent, Requests, Answerable
  <1>4. ViewInv
    BY DEF RemoteInit, ViewInv, LightsFor, Lights
  <1>5. QED
    BY <1>1, <1>2, <1>3, <1>4 DEF RemoteIInv

\* The worker of the user interface and its queue.
LEMMA NotifiedKeepsInv ==
    ASSUME RemoteIInv, NEW e \in MachineEvent, Notified(e)
    PROVE  RemoteIInv'
  <1>1. /\ UNCHANGED <<server, guard, ruler, doListen, connections, webs, sockets, wants, event, reply,
                       lastMachineEvent, lights, worker, view, overtaken, deaf>>
        /\ latest' = e /\ e \in MachineNotices
        /\ refused' = (inbox' = inbox)
        /\ \/ inbox' = inbox
           \/ inbox' = Append(inbox, e) /\ Len(inbox) + 1 < MaxInbox
    BY RemoteAssumption DEF Notified, Pushed, serverVars, talkVars
  <1>2. inbox \in Seq(MachineNotices)
    BY DEF RemoteIInv, RemoteTypes
  <1>3. /\ inbox' \in Seq(MachineNotices) /\ Len(inbox') < MaxInbox
        /\ inbox' # inbox => inbox' # <<>> /\ inbox'[Len(inbox')] = e
    BY <1>1, <1>2, RemoteAssumption, SMTT(30) DEF RemoteIInv, RemoteTypes, RemoteTypeOK
  <1>4. RemoteTypes'
    BY <1>1, <1>3 DEF RemoteIInv, RemoteTypes, RemoteTypeOK
  <1>5. (EventHasConnection /\ ConnectionsLive /\ ConnectionInv /\ LoopInv)'
    BY <1>1 DEF RemoteIInv, EventHasConnection, ConnectionsLive, ConnectionInv, LoopInv
  <1>6. ViewInv'
    BY <1>1, <1>3 DEF RemoteIInv, ViewInv
  <1>7. QED
    BY <1>4, <1>5, <1>6 DEF RemoteIInv

LEMMA HandlesStateChangeKeepsInv == ASSUME RemoteIInv, HandlesStateChange PROVE RemoteIInv'
  <1>1. /\ UNCHANGED <<server, guard, ruler, doListen, connections, webs, sockets, wants, event, reply,
                       latest, refused, view, overtaken, deaf>>
        /\ inbox # <<>> /\ inbox' = Tail(inbox) /\ lastMachineEvent' = Head(inbox)
        /\ lights' = LightsFor(Head(inbox)) /\ worker = "pulls" /\ worker' = "notifies"
    BY DEF HandlesStateChange, serverVars, talkVars
  <1>2. inbox \in Seq(MachineNotices)
    BY DEF RemoteIInv, RemoteTypes
  <1>3. /\ inbox' \in Seq(MachineNotices) /\ Len(inbox') < MaxInbox
        /\ lastMachineEvent' \in MachineNotices
        /\ inbox' = <<>> => lastMachineEvent' = inbox[Len(inbox)]
        /\ inbox' # <<>> => inbox'[Len(inbox')] = inbox[Len(inbox)]
    <2>1. Len(inbox) < MaxInbox /\ Len(inbox) \in Nat
      BY <1>2 DEF RemoteIInv, RemoteTypes, RemoteTypeOK
    <2>2. QED
      BY <1>1, <1>2, <2>1, LastOfTail, RemoteAssumption
  <1>4. RemoteTypes'
    BY <1>1, <1>3 DEF RemoteIInv, RemoteTypes, RemoteTypeOK
  <1>5. (EventHasConnection /\ ConnectionsLive /\ ConnectionInv /\ LoopInv)'
    BY <1>1 DEF RemoteIInv, EventHasConnection, ConnectionsLive, ConnectionInv, LoopInv
  <1>6. lights' = LightsFor(lastMachineEvent')
    BY <1>1
  <1>7. ViewInv'
    BY <1>1, <1>3, <1>6 DEF RemoteIInv, ViewInv, LightsFor
  <1>8. QED
    BY <1>4, <1>5, <1>7 DEF RemoteIInv

LEMMA LocksConnectionsKeepsInv == ASSUME RemoteIInv, LocksConnections PROVE RemoteIInv'
  <1>1. /\ UNCHANGED <<server, ruler, doListen, connections, webs, sockets, wants, event, reply,
                       latest, inbox, lastMachineEvent, lights, refused, view, overtaken, deaf>>
        /\ worker = "notifies" /\ worker' = "sends" /\ guard = "free" /\ guard' = "worker"
    BY DEF LocksConnections, serverVars, talkVars
  <1>2. RemoteTypes'
    BY <1>1 DEF RemoteIInv, RemoteTypes, RemoteTypeOK
  <1>3. (EventHasConnection /\ ConnectionsLive /\ ConnectionInv /\ LoopInv)'
    BY <1>1 DEF RemoteIInv, EventHasConnection, ConnectionsLive, ConnectionInv, LoopInv
  <1>4. ViewInv'
    BY <1>1 DEF RemoteIInv, ViewInv
  <1>5. QED
    BY <1>2, <1>3, <1>4 DEF RemoteIInv

\* Whoever is told knows the last event; whoever is not is remembered.
LEMMA SendsNotificationKeepsInv == ASSUME RemoteIInv, SendsNotification PROVE RemoteIInv'
  <1>1. PICK lost \in SUBSET Receivers :
           /\ view' = [c \in Client |-> IF c \in Receivers \ lost THEN Converted(lastMachineEvent)
                                        ELSE view[c]]
           /\ deaf' = (deaf \ (Receivers \ lost)) \cup lost
           /\ overtaken' = (overtaken \ (Receivers \ lost)) \cup
                           (IF server = "replies" /\ event.kind = "state" THEN {event.of} ELSE {})
    BY DEF SendsNotification
  <1>2. /\ UNCHANGED <<server, ruler, doListen, connections, webs, sockets, wants, event, reply,
                       latest, inbox, lastMachineEvent, lights, refused>>
        /\ worker = "sends" /\ worker' = "pulls" /\ guard' = "free"
    BY DEF SendsNotification, GuardAfterSending, serverVars
  <1>3. RemoteTypes /\ ConnectionInv /\ ViewInv /\ guard = "worker"
    BY <1>2 DEF RemoteIInv, RemoteTypes, RemoteTypeOK
  <1>4. Converted(lastMachineEvent) \in Told /\ view \in [Client -> Told \cup {Unknown}]
    BY <1>3, ConvertedTold DEF RemoteTypes, RemoteTypeOK, Told
  <1>5. view' \in [Client -> Told \cup {Unknown}]
    BY <1>1, <1>4
  <1>6. RemoteTypes'
    BY <1>2, <1>3, <1>5 DEF RemoteTypes, RemoteTypeOK, Told
  <1>7. (EventHasConnection /\ ConnectionsLive /\ ConnectionInv /\ LoopInv)'
    BY <1>2 DEF RemoteIInv, EventHasConnection, ConnectionsLive, ConnectionInv, LoopInv
  <1>8. /\ webs \subseteq Client /\ \A c \in webs : sockets[c] = "web"
        /\ Receivers \subseteq webs /\ (server # "ended" => Receivers = webs)
    BY <1>3 DEF RemoteTypes, RemoteTypeOK, ConnectionInv, Receivers
  <1>9. server # "ended" =>
           \A c \in webs \ (overtaken' \cup deaf') : view'[c] = Converted(lastMachineEvent)
    BY <1>1, <1>8
  <1>10. \A c \in Client : sockets[c] \in {"none", "http"} => view'[c] = Unknown
    BY <1>1, <1>3, <1>8 DEF ViewInv
  <1>11. server = "replies" /\ event.kind = "state" => event.of \in overtaken'
    BY <1>1
  <1>12. ViewInv'
    BY <1>2, <1>3, <1>9, <1>10, <1>11 DEF ViewInv
  <1>13. QED
    BY <1>6, <1>7, <1>12 DEF RemoteIInv

\* The thread of the server.
LEMMA ListensKeepsInv == ASSUME RemoteIInv, Listens PROVE RemoteIInv'
  <1>1. /\ UNCHANGED <<latest, inbox, lastMachineEvent, lights, worker, refused, view,
                       overtaken, deaf, guard, ruler, doListen, connections, webs, wants, reply>>
        /\ server = "created"
        /\ \/ server' = "ended" /\ UNCHANGED <<sockets, event>>
           \/ /\ sockets' = [sockets EXCEPT ![Listener] = "http"]
              /\ event' = [kind |-> "open", of |-> Listener] /\ server' = "polls"
    BY DEF Listens, uiVars, serverVars, talkVars, NoReply
  <1>2. /\ RemoteTypes /\ EventHasConnection /\ ConnectionsLive
        /\ ConnectionInv /\ LoopInv /\ ViewInv
    BY DEF RemoteIInv
  <1> USE RemoteAssumption DEF RemoteTypes, RemoteTypeOK, NoEvent, Kinds, Requests, Answerable
  <1>3. RemoteTypes'
    BY <1>1, <1>2
  <1>4. EventHasConnection' /\ ConnectionsLive'
    BY <1>1, <1>2 DEF EventHasConnection, ConnectionsLive, ConnectionInv
  <1>5. ConnectionInv'
    BY <1>1, <1>2 DEF ConnectionInv, EventHasConnection
  <1>6. LoopInv'
    BY <1>1, <1>2 DEF LoopInv, ConnectionInv
  <1>7. ViewInv'
    BY <1>1, <1>2 DEF ViewInv, ConnectionInv
  <1>8. QED
    BY <1>3, <1>4, <1>5, <1>6, <1>7 DEF RemoteIInv

LEMMA BeginsLoopKeepsInv == ASSUME RemoteIInv, BeginsLoop PROVE RemoteIInv'
  <1>1. /\ UNCHANGED <<latest, inbox, lastMachineEvent, lights, worker, refused, view,
                       overtaken, deaf, server, guard, ruler, connections, webs, sockets, wants,
                       reply>>
        /\ server = "polls" /\ event.kind = "listening"
        /\ doListen' = TRUE /\ event' = NoEvent
    BY DEF BeginsLoop, uiVars, serverVars, talkVars, NoReply
  <1>2. /\ RemoteTypes /\ EventHasConnection /\ ConnectionsLive
        /\ ConnectionInv /\ LoopInv /\ ViewInv
    BY DEF RemoteIInv
  <1> USE RemoteAssumption DEF RemoteTypes, RemoteTypeOK, NoEvent, Kinds, Requests, Answerable
  <1>3. RemoteTypes'
    BY <1>1, <1>2
  <1>4. EventHasConnection' /\ ConnectionsLive'
    BY <1>1, <1>2 DEF EventHasConnection, ConnectionsLive, ConnectionInv
  <1>5. ConnectionInv'
    BY <1>1, <1>2 DEF ConnectionInv, EventHasConnection
  <1>6. LoopInv'
    BY <1>1, <1>2 DEF LoopInv, ConnectionInv
  <1>7. ViewInv'
    BY <1>1, <1>2 DEF ViewInv, ConnectionInv
  <1>8. QED
    BY <1>3, <1>4, <1>5, <1>6, <1>7 DEF RemoteIInv

LEMMA ChecksListenKeepsInv == ASSUME RemoteIInv, ChecksListen PROVE RemoteIInv'
  <1>1. /\ UNCHANGED <<latest, inbox, lastMachineEvent, lights, worker, refused, view,
                       overtaken, deaf, guard, ruler, doListen, sockets, wants, event, reply>>
        /\ server = "polls" /\ event = NoEvent /\ ~doListen
        /\ connections' = {} /\ webs' = {} /\ server' = "ended"
    BY DEF ChecksListen, uiVars, serverVars, talkVars, NoReply
  <1>2. /\ RemoteTypes /\ EventHasConnection /\ ConnectionsLive
        /\ ConnectionInv /\ LoopInv /\ ViewInv
    BY DEF RemoteIInv
  <1> USE RemoteAssumption DEF RemoteTypes, RemoteTypeOK, NoEvent, Kinds, Requests, Answerable
  <1>3. RemoteTypes'
    BY <1>1, <1>2
  <1>4. EventHasConnection' /\ ConnectionsLive'
    BY <1>1, <1>2 DEF EventHasConnection, ConnectionsLive, ConnectionInv
  <1>5. ConnectionInv'
    BY <1>1, <1>2 DEF ConnectionInv, EventHasConnection
  <1>6. LoopInv'
    BY <1>1, <1>2 DEF LoopInv, ConnectionInv
  <1>7. ViewInv'
    BY <1>1, <1>2 DEF ViewInv, ConnectionInv
  <1>8. QED
    BY <1>3, <1>4, <1>5, <1>6, <1>7 DEF RemoteIInv

LEMMA ReportsKeepsInv ==
    ASSUME RemoteIInv, NEW c \in Client,
           NEW kind \in {"open", "upgrade", "close", "closing"},
           Reports(c, kind)
    PROVE  RemoteIInv'
  <1>1. /\ UNCHANGED <<latest, inbox, lastMachineEvent, lights, worker, refused, view,
                       overtaken, deaf, server, guard, ruler, doListen, connections, webs, wants,
                       reply>>
        /\ server = "polls" /\ event = NoEvent /\ event' = [kind |-> kind, of |-> c]
        /\ kind = "open" => sockets[c] = "none"
        /\ kind = "upgrade" => sockets[c] = "http"
        /\ kind = "close" => sockets[c] \in {"http", "web"}
        /\ kind = "closing" => c \in webs
        /\ sockets' = IF kind = "open" THEN [sockets EXCEPT ![c] = "http"] ELSE sockets
    BY DEF Reports, uiVars, serverVars, talkVars, NoReply
  <1>2. /\ RemoteTypes /\ EventHasConnection /\ ConnectionsLive
        /\ ConnectionInv /\ LoopInv /\ ViewInv
    BY DEF RemoteIInv
  <1> USE RemoteAssumption DEF RemoteTypes, RemoteTypeOK, NoEvent, Kinds, Requests, Answerable
  <1>3. RemoteTypes'
    BY <1>1, <1>2
  <1>4. EventHasConnection' /\ ConnectionsLive'
    BY <1>1, <1>2 DEF EventHasConnection, ConnectionsLive, ConnectionInv
  <1>5. ConnectionInv'
    BY <1>1, <1>2 DEF ConnectionInv, EventHasConnection
  <1>6. LoopInv'
    BY <1>1, <1>2 DEF LoopInv, ConnectionInv
  <1>7. ViewInv'
    BY <1>1, <1>2 DEF ViewInv, ConnectionInv
  <1>8. QED
    BY <1>3, <1>4, <1>5, <1>6, <1>7 DEF RemoteIInv

LEMMA AsksKeepsInv ==
    ASSUME RemoteIInv, NEW c \in Client, NEW kind \in Requests, Asks(c, kind)
    PROVE  RemoteIInv'
  <1>1. /\ UNCHANGED <<latest, inbox, lastMachineEvent, lights, worker, refused, view,
                       overtaken, deaf, server, guard, ruler, doListen, connections, webs,
                       sockets, event, reply>>
        /\ wants' = [wants EXCEPT ![c] = kind]
    BY DEF Asks, uiVars, talkVars
  <1>2. /\ RemoteTypes /\ EventHasConnection /\ ConnectionsLive
        /\ ConnectionInv /\ LoopInv /\ ViewInv
    BY DEF RemoteIInv
  <1> USE RemoteAssumption DEF RemoteTypes, RemoteTypeOK, NoEvent, Kinds, Requests, Answerable
  <1>3. RemoteTypes'
    BY <1>1, <1>2
  <1>4. EventHasConnection' /\ ConnectionsLive'
    BY <1>1, <1>2 DEF EventHasConnection, ConnectionsLive, ConnectionInv
  <1>5. ConnectionInv'
    BY <1>1, <1>2 DEF ConnectionInv, EventHasConnection
  <1>6. LoopInv'
    BY <1>1, <1>2 DEF LoopInv, ConnectionInv
  <1>7. ViewInv'
    BY <1>1, <1>2 DEF ViewInv, ConnectionInv
  <1>8. QED
    BY <1>3, <1>4, <1>5, <1>6, <1>7 DEF RemoteIInv

LEMMA ReportsRequestKeepsInv ==
    ASSUME RemoteIInv, NEW c \in Client, ReportsRequest(c)
    PROVE  RemoteIInv'
  <1>1. /\ UNCHANGED <<latest, inbox, lastMachineEvent, lights, worker, refused, view,
                       overtaken, deaf, server, guard, ruler, doListen, connections, webs,
                       sockets, reply>>
        /\ server = "polls" /\ event = NoEvent /\ sockets[c] = "web" /\ wants[c] # NoRequest
        /\ event' = [kind |-> wants[c], of |-> c]
        /\ wants' = [wants EXCEPT ![c] = NoRequest]
    BY DEF ReportsRequest, uiVars, talkVars
  <1>2. /\ RemoteTypes /\ EventHasConnection /\ ConnectionsLive
        /\ ConnectionInv /\ LoopInv /\ ViewInv
    BY DEF RemoteIInv
  <1> USE RemoteAssumption DEF RemoteTypes, RemoteTypeOK, NoEvent, Kinds, Requests, Answerable
  <1>3. RemoteTypes'
    BY <1>1, <1>2
  <1>4. EventHasConnection' /\ ConnectionsLive'
    BY <1>1, <1>2 DEF EventHasConnection, ConnectionsLive, ConnectionInv
  <1>5. ConnectionInv'
    BY <1>1, <1>2 DEF ConnectionInv, EventHasConnection
  <1>6. LoopInv'
    BY <1>1, <1>2 DEF LoopInv, ConnectionInv
  <1>7. ViewInv'
    BY <1>1, <1>2 DEF ViewInv, ConnectionInv
  <1>8. QED
    BY <1>3, <1>4, <1>5, <1>6, <1>7 DEF RemoteIInv

LEMMA HandlesOpenKeepsInv == ASSUME RemoteIInv, HandlesOpen PROVE RemoteIInv'
  <1>1. /\ UNCHANGED <<latest, inbox, lastMachineEvent, lights, worker, refused, view,
                       overtaken, deaf, server, guard, ruler, doListen, sockets, wants, reply>>
        /\ server = "polls" /\ guard = "free" /\ event.kind = "open"
        /\ connections' = connections \cup {event.of} /\ webs' = webs \ {event.of}
        /\ event' = IF event.of = Listener THEN [event EXCEPT !.kind = "listening"] ELSE NoEvent
    BY DEF HandlesOpen, Handles, Guarded, Opened, Closed, uiVars, serverVars, talkVars, NoReply
  <1>2. /\ RemoteTypes /\ EventHasConnection /\ ConnectionsLive
        /\ ConnectionInv /\ LoopInv /\ ViewInv
    BY DEF RemoteIInv
  <1> USE RemoteAssumption DEF RemoteTypes, RemoteTypeOK, NoEvent, Kinds, Requests, Answerable
  <1>3. RemoteTypes'
    BY <1>1, <1>2
  <1>4. EventHasConnection' /\ ConnectionsLive'
    BY <1>1, <1>2 DEF EventHasConnection, ConnectionsLive, ConnectionInv
  <1>5. ConnectionInv'
    BY <1>1, <1>2 DEF ConnectionInv, EventHasConnection
  <1>6. LoopInv'
    BY <1>1, <1>2 DEF LoopInv, ConnectionInv
  <1>7. ViewInv'
    BY <1>1, <1>2 DEF ViewInv, ConnectionInv
  <1>8. QED
    BY <1>3, <1>4, <1>5, <1>6, <1>7 DEF RemoteIInv

LEMMA HandlesUpgradeKeepsInv == ASSUME RemoteIInv, HandlesUpgrade PROVE RemoteIInv'
  <1>1. /\ UNCHANGED <<latest, inbox, lastMachineEvent, lights, worker, refused, view,
                       overtaken, deaf, server, guard, ruler, doListen, connections, wants, reply>>
        /\ server = "polls" /\ guard = "free" /\ event.kind = "upgrade"
        /\ sockets' = [sockets EXCEPT ![event.of] = "web"]
        /\ webs' = webs \cup {event.of} /\ event' = NoEvent
    BY DEF HandlesUpgrade, Handles, Guarded, Opened, Closed, uiVars, serverVars, talkVars, NoReply
  <1>2. /\ RemoteTypes /\ EventHasConnection /\ ConnectionsLive
        /\ ConnectionInv /\ LoopInv /\ ViewInv
    BY DEF RemoteIInv
  <1> USE RemoteAssumption DEF RemoteTypes, RemoteTypeOK, NoEvent, Kinds, Requests, Answerable
  <1>a. event.of \in connections \cap Client
    BY <1>1, <1>2 DEF EventHasConnection, ConnectionInv
  <1>3. RemoteTypes'
    BY <1>1, <1>2, <1>a
  <1>4. EventHasConnection' /\ ConnectionsLive'
    BY <1>1, <1>2 DEF EventHasConnection, ConnectionsLive, ConnectionInv
  <1>5. ConnectionInv'
    BY <1>1, <1>2 DEF ConnectionInv, EventHasConnection
  <1>6. LoopInv'
    BY <1>1, <1>2 DEF LoopInv, ConnectionInv
  <1>7. ViewInv'
    BY <1>1, <1>2 DEF ViewInv, ConnectionInv
  <1>8. QED
    BY <1>3, <1>4, <1>5, <1>6, <1>7 DEF RemoteIInv

LEMMA HandlesClosingKeepsInv == ASSUME RemoteIInv, HandlesClosing PROVE RemoteIInv'
  <1>1. /\ UNCHANGED <<latest, inbox, lastMachineEvent, lights, worker, refused, view,
                       overtaken, deaf, server, guard, ruler, doListen, connections, sockets, wants, reply>>
        /\ server = "polls" /\ guard = "free" /\ event.kind = "closing"
        /\ webs' = webs \ {event.of} /\ event' = [event EXCEPT !.kind = "close"]
    BY DEF HandlesClosing, Handles, Guarded, Opened, Closed, uiVars, serverVars, talkVars, NoReply
  <1>2. /\ RemoteTypes /\ EventHasConnection /\ ConnectionsLive
        /\ ConnectionInv /\ LoopInv /\ ViewInv
    BY DEF RemoteIInv
  <1> USE RemoteAssumption DEF RemoteTypes, RemoteTypeOK, NoEvent, Kinds, Requests, Answerable
  <1>3. RemoteTypes'
    BY <1>1, <1>2
  <1>4. EventHasConnection' /\ ConnectionsLive'
    BY <1>1, <1>2 DEF EventHasConnection, ConnectionsLive, ConnectionInv
  <1>5. ConnectionInv'
    BY <1>1, <1>2 DEF ConnectionInv, EventHasConnection
  <1>6. LoopInv'
    BY <1>1, <1>2 DEF LoopInv, ConnectionInv
  <1>7. ViewInv'
    BY <1>1, <1>2 DEF ViewInv, ConnectionInv
  <1>8. QED
    BY <1>3, <1>4, <1>5, <1>6, <1>7 DEF RemoteIInv

LEMMA HandlesCloseKeepsInv == ASSUME RemoteIInv, HandlesClose PROVE RemoteIInv'
  <1>1. /\ UNCHANGED <<latest, inbox, lastMachineEvent, lights, worker, refused, view,
                       overtaken, deaf, server, guard, ruler, doListen, reply>>
        /\ server = "polls" /\ guard = "free" /\ event.kind = "close"
        /\ connections' = connections \ {event.of} /\ webs' = webs \ {event.of}
        /\ sockets' = [sockets EXCEPT ![event.of] = "gone"] /\ event' = NoEvent
        /\ wants' = [c \in Client |-> IF c = event.of THEN NoRequest ELSE wants[c]]
    BY DEF HandlesClose, Handles, Guarded, Opened, Closed, uiVars, serverVars, talkVars, NoReply
  <1>2. /\ RemoteTypes /\ EventHasConnection /\ ConnectionsLive
        /\ ConnectionInv /\ LoopInv /\ ViewInv
    BY DEF RemoteIInv
  <1> USE RemoteAssumption DEF RemoteTypes, RemoteTypeOK, NoEvent, Kinds, Requests, Answerable
  <1>3. RemoteTypes'
    BY <1>1, <1>2
  <1>4. EventHasConnection' /\ ConnectionsLive'
    BY <1>1, <1>2 DEF EventHasConnection, ConnectionsLive, ConnectionInv
  <1>5. ConnectionInv'
    BY <1>1, <1>2 DEF ConnectionInv, EventHasConnection
  <1>6. LoopInv'
    BY <1>1, <1>2 DEF LoopInv, ConnectionInv
  <1>7. ViewInv'
    BY <1>1, <1>2 DEF ViewInv, ConnectionInv
  <1>8. QED
    BY <1>3, <1>4, <1>5, <1>6, <1>7 DEF RemoteIInv

LEMMA HandlesRequestKeepsInv == ASSUME RemoteIInv, HandlesRequest PROVE RemoteIInv'
  <1>1. /\ UNCHANGED <<latest, inbox, lastMachineEvent, lights, worker, refused, view,
                       overtaken, deaf, guard, ruler, doListen, connections, webs, sockets, wants, event, reply>>
        /\ server = "polls" /\ event.kind \in Answerable /\ server' = "asks"
    BY DEF HandlesRequest, Guarded, uiVars, serverVars, talkVars, NoReply
  <1>2. /\ RemoteTypes /\ EventHasConnection /\ ConnectionsLive
        /\ ConnectionInv /\ LoopInv /\ ViewInv
    BY DEF RemoteIInv
  <1> USE RemoteAssumption DEF RemoteTypes, RemoteTypeOK, NoEvent, Kinds, Requests, Answerable
  <1>3. RemoteTypes'
    BY <1>1, <1>2
  <1>4. EventHasConnection' /\ ConnectionsLive'
    BY <1>1, <1>2 DEF EventHasConnection, ConnectionsLive, ConnectionInv
  <1>5. ConnectionInv'
    BY <1>1, <1>2 DEF ConnectionInv, EventHasConnection
  <1>6. LoopInv'
    BY <1>1, <1>2 DEF LoopInv, ConnectionInv
  <1>7. ViewInv'
    BY <1>1, <1>2 DEF ViewInv, ConnectionInv
  <1>8. QED
    BY <1>3, <1>4, <1>5, <1>6, <1>7 DEF RemoteIInv

\* The end of the thread leaves connections behind, but nothing that it was about.
LEMMA ThrowsOutKeepsInv == ASSUME RemoteIInv, ThrowsOut PROVE RemoteIInv'
  <1>1. /\ UNCHANGED <<latest, inbox, lastMachineEvent, lights, worker, refused, view,
                       overtaken, deaf, guard, ruler, doListen, connections, webs, sockets,
                       wants, reply>>
        /\ server = "polls" /\ event.kind = "malformed" /\ server' = "ended"
        /\ event' = NoEvent
    BY DEF ThrowsOut, Handles, uiVars, talkVars
  <1>2. /\ RemoteTypes /\ EventHasConnection /\ ConnectionsLive
        /\ ConnectionInv /\ LoopInv /\ ViewInv
    BY DEF RemoteIInv
  <1> USE RemoteAssumption DEF RemoteTypes, RemoteTypeOK, NoEvent, Kinds, Requests, Answerable
  <1>3. RemoteTypes'
    BY <1>1, <1>2
  <1>4. EventHasConnection' /\ ConnectionsLive'
    BY <1>1, <1>2 DEF EventHasConnection, ConnectionsLive, ConnectionInv
  <1>5. ConnectionInv'
    BY <1>1, <1>2 DEF ConnectionInv, EventHasConnection
  <1>6. LoopInv'
    BY <1>1, <1>2 DEF LoopInv, ConnectionInv
  <1>7. ViewInv'
    BY <1>1, <1>2 DEF ViewInv, ConnectionInv
  <1>8. QED
    BY <1>3, <1>4, <1>5, <1>6, <1>7 DEF RemoteIInv

LEMMA RepliesToClientKeepsInv == ASSUME RemoteIInv, Replies PROVE RemoteIInv'
  <1>1. /\ UNCHANGED <<latest, inbox, lastMachineEvent, lights, worker, refused, view,
                       overtaken, deaf, guard, ruler, doListen, connections, webs, sockets, wants, event>>
        /\ server = "asks" /\ server' = "replies"
        /\ event.kind = "state" => reply' = Converted(lastMachineEvent)
    BY DEF Replies, uiVars, serverVars, talkVars, NoReply
  <1>2. /\ RemoteTypes /\ EventHasConnection /\ ConnectionsLive
        /\ ConnectionInv /\ LoopInv /\ ViewInv
    BY DEF RemoteIInv
  <1> USE RemoteAssumption DEF RemoteTypes, RemoteTypeOK, NoEvent, Kinds, Requests, Answerable
  <1>3. RemoteTypes'
    BY <1>1, <1>2
  <1>4. EventHasConnection' /\ ConnectionsLive'
    BY <1>1, <1>2 DEF EventHasConnection, ConnectionsLive, ConnectionInv
  <1>5. ConnectionInv'
    BY <1>1, <1>2 DEF ConnectionInv, EventHasConnection
  <1>6. LoopInv'
    BY <1>1, <1>2 DEF LoopInv, ConnectionInv
  <1>7. ViewInv'
    BY <1>1, <1>2, ConvertedTold DEF ViewInv, ConnectionInv
  <1>8. QED
    BY <1>3, <1>4, <1>5, <1>6, <1>7 DEF RemoteIInv

LEMMA SendsReplyKeepsInv == ASSUME RemoteIInv, SendsReply PROVE RemoteIInv'
  <1>1. /\ UNCHANGED <<latest, inbox, lastMachineEvent, lights, worker, refused, guard, ruler,
                       doListen, connections, webs, sockets, wants, overtaken>>
        /\ server = "replies" /\ server' = "polls" /\ event' = NoEvent
        /\ IF event.kind = "state"
           THEN view' = [view EXCEPT ![event.of] = reply] /\ deaf' = deaf \ {event.of}
           ELSE UNCHANGED <<view, deaf>>
    BY DEF SendsReply, uiVars
  <1>2. /\ RemoteTypes /\ EventHasConnection /\ ConnectionsLive
        /\ ConnectionInv /\ LoopInv /\ ViewInv
    BY DEF RemoteIInv
  <1> USE RemoteAssumption DEF RemoteTypes, RemoteTypeOK, NoEvent, Kinds, Requests, Answerable
  <1>3. RemoteTypes'
    <2>1. view' \in [Client -> Told \cup {Unknown}]
      BY <1>1, <1>2 DEF ViewInv, Told
    <2>2. QED
      BY <1>1, <1>2, <2>1 DEF Told
  <1>4. EventHasConnection' /\ ConnectionsLive'
    BY <1>1, <1>2 DEF EventHasConnection, ConnectionsLive
  <1>5. ConnectionInv'
    BY <1>1, <1>2 DEF ConnectionInv
  <1>6. LoopInv'
    BY <1>1, <1>2 DEF LoopInv, ConnectionInv
  <1>7. ViewInv'
    <2>1. \A c \in Client : sockets[c] \in {"none", "http"} => view'[c] = Unknown
      BY <1>1, <1>2 DEF ViewInv, ConnectionInv
    <2>2. ASSUME worker = "pulls", NEW c \in webs, c \notin overtaken, c \notin deaf'
          PROVE  view'[c] \in {Unknown, Converted(lastMachineEvent)}
      <3>1. CASE event.kind = "state" /\ c = event.of
        BY <1>1, <1>2, <2>2, <3>1 DEF ViewInv
      <3>2. CASE ~(event.kind = "state" /\ c = event.of)
        BY <1>1, <1>2, <2>2, <3>2 DEF ViewInv
      <3>3. QED
        BY <3>1, <3>2
    <2>3. QED
      BY <1>1, <1>2, <2>1, <2>2 DEF ViewInv
  <1>8. QED
    BY <1>3, <1>4, <1>5, <1>6, <1>7 DEF RemoteIInv

\* start and stop of the server.
LEMMA StartsServerKeepsInv == ASSUME RemoteIInv, StartsServer PROVE RemoteIInv'
  <1>1. /\ UNCHANGED <<latest, inbox, lastMachineEvent, lights, worker, refused, view,
                       overtaken, deaf, guard, ruler, doListen, connections, webs, sockets, wants, event, reply>>
        /\ server = "none" /\ server' = "created" /\ ruler = "idle" /\ guard = "free"
    BY DEF StartsServer, uiVars, serverVars, talkVars, NoReply
  <1>2. /\ RemoteTypes /\ EventHasConnection /\ ConnectionsLive
        /\ ConnectionInv /\ LoopInv /\ ViewInv
    BY DEF RemoteIInv
  <1> USE RemoteAssumption DEF RemoteTypes, RemoteTypeOK, NoEvent, Kinds, Requests, Answerable
  <1>3. RemoteTypes'
    BY <1>1, <1>2
  <1>4. EventHasConnection' /\ ConnectionsLive'
    BY <1>1, <1>2 DEF EventHasConnection, ConnectionsLive, ConnectionInv
  <1>5. ConnectionInv'
    BY <1>1, <1>2 DEF ConnectionInv, EventHasConnection
  <1>6. LoopInv'
    BY <1>1, <1>2 DEF LoopInv, ConnectionInv
  <1>7. ViewInv'
    BY <1>1, <1>2 DEF ViewInv, ConnectionInv
  <1>8. QED
    BY <1>3, <1>4, <1>5, <1>6, <1>7 DEF RemoteIInv

LEMMA StopsServerKeepsInv == ASSUME RemoteIInv, StopsServer PROVE RemoteIInv'
  <1>1. /\ UNCHANGED <<latest, inbox, lastMachineEvent, lights, worker, refused, view,
                       overtaken, deaf, server, connections, webs, sockets, wants, event, reply>>
        /\ guard = "free" /\ guard' = "ruler" /\ ruler' = "joins" /\ doListen' = FALSE
    BY DEF StopsServer, uiVars, serverVars, talkVars, NoReply
  <1>2. /\ RemoteTypes /\ EventHasConnection /\ ConnectionsLive
        /\ ConnectionInv /\ LoopInv /\ ViewInv
    BY DEF RemoteIInv
  <1> USE RemoteAssumption DEF RemoteTypes, RemoteTypeOK, NoEvent, Kinds, Requests, Answerable
  <1>3. RemoteTypes'
    BY <1>1, <1>2
  <1>4. EventHasConnection' /\ ConnectionsLive'
    BY <1>1, <1>2 DEF EventHasConnection, ConnectionsLive, ConnectionInv
  <1>5. ConnectionInv'
    BY <1>1, <1>2 DEF ConnectionInv, EventHasConnection
  <1>6. LoopInv'
    BY <1>1, <1>2 DEF LoopInv, ConnectionInv
  <1>7. ViewInv'
    BY <1>1, <1>2 DEF ViewInv, ConnectionInv
  <1>8. QED
    BY <1>3, <1>4, <1>5, <1>6, <1>7 DEF RemoteIInv

LEMMA JoinsServerKeepsInv == ASSUME RemoteIInv, JoinsServer PROVE RemoteIInv'
  <1>1. /\ UNCHANGED <<latest, inbox, lastMachineEvent, lights, worker, refused, view,
                       overtaken, deaf, server, guard, doListen, connections, webs, sockets, wants, event, reply>>
        /\ server = "ended" /\ ruler = "joins" /\ ruler' = "frees"
    BY DEF JoinsServer, uiVars, serverVars, talkVars, NoReply
  <1>2. /\ RemoteTypes /\ EventHasConnection /\ ConnectionsLive
        /\ ConnectionInv /\ LoopInv /\ ViewInv
    BY DEF RemoteIInv
  <1> USE RemoteAssumption DEF RemoteTypes, RemoteTypeOK, NoEvent, Kinds, Requests, Answerable
  <1>3. RemoteTypes'
    BY <1>1, <1>2
  <1>4. EventHasConnection' /\ ConnectionsLive'
    BY <1>1, <1>2 DEF EventHasConnection, ConnectionsLive, ConnectionInv
  <1>5. ConnectionInv'
    BY <1>1, <1>2 DEF ConnectionInv, EventHasConnection
  <1>6. LoopInv'
    BY <1>1, <1>2 DEF LoopInv, ConnectionInv
  <1>7. ViewInv'
    BY <1>1, <1>2 DEF ViewInv, ConnectionInv
  <1>8. QED
    BY <1>3, <1>4, <1>5, <1>6, <1>7 DEF RemoteIInv

LEMMA FreesManagerKeepsInv == ASSUME RemoteIInv, FreesManager PROVE RemoteIInv'
  <1>1. /\ UNCHANGED <<latest, inbox, lastMachineEvent, lights, worker, refused, view,
                       overtaken, deaf, server, doListen, connections, webs, sockets, wants, event, reply>>
        /\ ruler = "frees" /\ ruler' = "stopped" /\ guard' = "free"
    BY DEF FreesManager, uiVars, serverVars, talkVars, NoReply
  <1>2. /\ RemoteTypes /\ EventHasConnection /\ ConnectionsLive
        /\ ConnectionInv /\ LoopInv /\ ViewInv
    BY DEF RemoteIInv
  <1> USE RemoteAssumption DEF RemoteTypes, RemoteTypeOK, NoEvent, Kinds, Requests, Answerable
  <1>3. RemoteTypes'
    BY <1>1, <1>2
  <1>4. EventHasConnection' /\ ConnectionsLive'
    BY <1>1, <1>2 DEF EventHasConnection, ConnectionsLive, ConnectionInv
  <1>5. ConnectionInv'
    BY <1>1, <1>2 DEF ConnectionInv, EventHasConnection
  <1>6. LoopInv'
    BY <1>1, <1>2 DEF LoopInv, ConnectionInv
  <1>7. ViewInv'
    BY <1>1, <1>2 DEF ViewInv, ConnectionInv
  <1>8. QED
    BY <1>3, <1>4, <1>5, <1>6, <1>7 DEF RemoteIInv

LEMMA RemoteStepKeepsInv ==
    ASSUME RemoteIInv, [RemoteNext]_remoteVars
    PROVE  RemoteIInv'
  <1>1. CASE UNCHANGED remoteVars
    <2>1. /\ UNCHANGED <<latest, inbox, lastMachineEvent, lights, worker, refused, server, ruler,
                         doListen, connections, webs, sockets, wants, event, reply, guard, view,
                         overtaken, deaf>>
      BY <1>1 DEF remoteVars, uiVars, serverVars, talkVars
    <2>2. (RemoteTypes /\ EventHasConnection /\ ConnectionsLive /\ ConnectionInv /\ LoopInv)'
      BY <2>1 DEF RemoteIInv, RemoteTypes, RemoteTypeOK, EventHasConnection, ConnectionsLive,
                  ConnectionInv, LoopInv
    <2>3. ViewInv'
      BY <2>1 DEF RemoteIInv, ViewInv
    <2>4. QED
      BY <2>2, <2>3 DEF RemoteIInv
  <1>2. CASE \E e \in MachineEvent : Notified(e)
    BY <1>2, NotifiedKeepsInv
  <1>3. CASE \E c \in Client : \/ \E kind \in {"open", "upgrade", "close", "closing"} :
                                    Reports(c, kind)
                               \/ \E kind \in Requests : Asks(c, kind)
    BY <1>3, ReportsKeepsInv, AsksKeepsInv
  <1>4. CASE WorkerDoes
    BY <1>4, HandlesStateChangeKeepsInv, LocksConnectionsKeepsInv, SendsNotificationKeepsInv
       DEF WorkerDoes
  <1>5. CASE ServerDoes
    BY <1>5, ListensKeepsInv, BeginsLoopKeepsInv, ChecksListenKeepsInv, HandlesOpenKeepsInv,
       HandlesUpgradeKeepsInv, HandlesClosingKeepsInv, HandlesCloseKeepsInv,
       HandlesRequestKeepsInv, ThrowsOutKeepsInv, RepliesToClientKeepsInv,
       SendsReplyKeepsInv, ReportsRequestKeepsInv DEF ServerDoes
  <1>6. CASE RulerDoes \/ StartsServer \/ StopsServer
    BY <1>6, JoinsServerKeepsInv, FreesManagerKeepsInv, StartsServerKeepsInv,
       StopsServerKeepsInv DEF RulerDoes
  <1>7. QED
    BY <1>1, <1>2, <1>3, <1>4, <1>5, <1>6 DEF RemoteNext

\* For any clients, queue and notifications: every event finds its connection, the worker
\* sends to connections that exist, and at rest lights and clients show the machine's last
\* notification (RemoteControlServer.cpp:65-188, UserInterfaceControl.cpp:219-242).
THEOREM ClientsSeeTheMachine == RemoteSpec => []RemoteInvariant
  <1>1. RemoteIInv => RemoteInvariant
    <2>1. RemoteIInv /\ Settled /\ server # "ended" => \A c \in webs \ (overtaken \cup deaf) :
                                     view[c] \in {Unknown, Converted(lastMachineEvent)}
      BY DEF RemoteIInv, ViewInv, Settled
    <2>2. RemoteIInv => ViewIsCurrent
      BY <2>1 DEF RemoteIInv, ViewInv, ViewIsCurrent, Settled
    <2>3. QED
      BY <2>2 DEF RemoteIInv, RemoteTypes, RemoteInvariant
  <1>2. QED
    BY RemoteInitHolds, RemoteStepKeepsInv, <1>1, PTL DEF RemoteSpec

\* While the worker goes through the connections with the mutex nobody changes them, not
\* even the clear at the end of the loop, which takes no mutex: the loop ends only when
\* stop has the mutex (RemoteControlServer.cpp:91-101, 180-186).
THEOREM NobodyDisturbsTheWorker == RemoteSpec => UndisturbedWhileSending
  <1>1. ASSUME RemoteIInv, RemoteNext, guard = "worker" PROVE connections' = connections
    <2>1. ~ChecksListen
      BY <1>1 DEF ChecksListen, RemoteIInv, RemoteTypes, LoopInv, NoEvent
    <2>2. ~HandlesOpen /\ ~HandlesClose
      BY <1>1 DEF HandlesOpen, HandlesClose, Handles, Guarded
    <2>3. QED
      BY <1>1, <2>1, <2>2
         DEF RemoteNext, WorkerDoes, ServerDoes, RulerDoes, Notified, Asks, Reports,
             ReportsRequest, ThrowsOut, HandlesStateChange,
             LocksConnections, SendsNotification, StartsServer, Listens, BeginsLoop,
             HandlesUpgrade, HandlesClosing, HandlesRequest, Replies, SendsReply, StopsServer,
             JoinsServer, FreesManager, serverVars
  <1>2. RemoteIInv /\ [RemoteNext]_remoteVars
           => [guard = "worker" => connections' = connections]_remoteVars
    BY <1>1
  <1>3. QED
    BY RemoteInitHolds, RemoteStepKeepsInv, <1>2, PTL DEF RemoteSpec, UndisturbedWhileSending
=============================================================================
