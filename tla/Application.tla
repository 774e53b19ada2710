----------------------------- MODULE Application -----------------------------
(***************************************************************************)
(* MachineApplication::start: options, hardware, the group of machine      *)
(* components, the service gateway and the remote control are brought up   *)
(* one after the other; then the application waits for the IO threads of   *)
(* the group, and brings down what it does bring down.  Each component has *)
(* a worker (a gateway has none), an IO thread and two bound sockets.      *)
(* Leaving start destroys what it owns; a thread object that still stands  *)
(* for a thread ends the process then.                                     *)
(***************************************************************************)
EXTENDS Naturals, Sequences, FiniteSets

CONSTANTS
    Group,          \* the components in the order of the bundles
    Gateway,        \* the component of the service gateway
    Subscriber,     \* the components that subscribe to notifications
    MaxThrown       \* bound: how many IO threads end by an exception

Member == {Group[i] : i \in DOMAIN Group}
Bundled == Member \cup {Gateway}

ASSUME ApplicationAssumption ==
    /\ Group \in Seq(Member)
    /\ \A i, j \in DOMAIN Group : Group[i] = Group[j] => i = j
    /\ \A i \in DOMAIN Group : Group[i] # Gateway
    /\ Len(Group) > 0
    /\ MaxThrown \in Nat

VARIABLES
    stage,          \* how far MachineApplication::start is
    turn,           \* which bundle it starts, waits for or stops
    call,           \* where the start or stop of that bundle is
    succeeds,       \* what start of that bundle will return
    result,         \* what MachineApplication::start will return
    hal,            \* the hardware abstraction layer is initialized
    work, io,       \* the worker and the IO thread of each component
    bound,          \* the sockets each component has bound
    subscribed,     \* the components that have subscribed
    remote,         \* the thread of the remote control server
    outcome,        \* what came of the process: "none" while it runs
    thrown,
    missed          \* history: a worker missed the call to stop

appVars == <<stage, turn, call, succeeds, result, hal, work, io, bound, subscribed, remote,
             outcome, thrown, missed>>

\* The component that the call is about.
Current == IF stage \in {"gateway", "stopGateway"} THEN Gateway ELSE Group[turn]

ApplicationInit ==
    /\ stage = "options" /\ turn = 1 /\ call = "none"
    /\ succeeds = TRUE /\ result = FALSE
    /\ hal = FALSE
    /\ work = [c \in Bundled |-> "none"]
    /\ io = [c \in Bundled |-> "none"]
    /\ bound = [c \in Bundled |-> {}]
    /\ subscribed = {}
    /\ remote = "none"
    /\ outcome = "none"
    /\ thrown = 0
    /\ missed = FALSE

\* The calls of a component's start; complete stands for the subscriptions of a member
\* and for the JSON-RPC socket of the gateway.
StartCalls(c) ==
    IF c = Gateway THEN << "io", "publisher", "server", "complete", "started" >>
    ELSE << "work", "io", "publisher", "server", "complete", "started" >>

Following(c) ==
    LET calls == StartCalls(c) IN
    calls[1 + CHOOSE i \in DOMAIN calls : calls[i] = call]

appRest == <<stage, turn, result, hal, remote>>
Leaves(r) == stage' = "leaves" /\ result' = r

\* The command line and the configuration file, which may be missing, are parsed.
ParsesOptions ==
    /\ stage = "options"
    /\ \/ stage' = "hal" /\ UNCHANGED result
       \/ Leaves(FALSE)
    /\ UNCHANGED <<turn, call, succeeds, hal, work, io, bound, subscribed, remote, outcome,
                   thrown, missed>>

InitializesHal ==
    /\ stage = "hal"
    /\ \/ /\ hal' = TRUE
          /\ stage' = "group"
          /\ call' = Head(StartCalls(Group[1]))
          /\ UNCHANGED result
       \/ /\ Leaves(FALSE)
          /\ UNCHANGED <<hal, call>>
    /\ UNCHANGED <<turn, succeeds, work, io, bound, subscribed, remote, outcome, thrown, missed>>
-----------------------------------------------------------------------------
Starting(step) == stage \in {"group", "gateway"} /\ call = step /\ outcome = "none"

\* A failed step ends the start of its component.
GoesOnIf(ok) ==
    /\ call' = IF ok THEN Following(Current) ELSE "started"
    /\ succeeds' = (succeeds /\ ok)

\* A worker that starts gets to its loop (Thread); the process of a member is always set.
StartsWorker ==
    /\ Starting("work")
    /\ \E ok \in BOOLEAN :
          /\ GoesOnIf(ok)
          /\ work' = [work EXCEPT ![Current] = IF ok THEN "running" ELSE @]
    /\ UNCHANGED <<appRest, io, bound, subscribed, outcome, thrown, missed>>

StartsIo ==
    /\ Starting("io")
    /\ \E ok \in BOOLEAN :
          /\ GoesOnIf(ok)
          /\ io' = [io EXCEPT ![Current] = IF ok THEN "running" ELSE @]
    /\ UNCHANGED <<appRest, work, bound, subscribed, outcome, thrown, missed>>

Binds(socket, ok) == bound' = [bound EXCEPT ![Current] = IF ok THEN @ \cup {socket} ELSE @]

\* A publisher that cannot bind is remembered, and the server is started all the same.
BindsPublisher ==
    /\ Starting("publisher")
    /\ \E ok \in BOOLEAN : succeeds' = (succeeds /\ ok) /\ Binds("publisher", ok)
    /\ call' = Following(Current)
    /\ UNCHANGED <<appRest, work, io, subscribed, outcome, thrown, missed>>

BindsServer ==
    /\ Starting("server")
    /\ \E ok \in BOOLEAN : GoesOnIf(ok) /\ Binds("server", ok)
    /\ UNCHANGED <<appRest, work, io, subscribed, outcome, thrown, missed>>

\* Faulty variant: a component counts as started with its last step.
LastCounts(ok) == ok

AllCount(ok) == succeeds /\ ok

\* Subscribing, or binding the JSON-RPC socket, if the broker was started.
Completes ==
    /\ Starting("complete")
    /\ \E ok \in BOOLEAN :
          /\ ok \/ Current \in Subscriber \cup {Gateway}
          /\ succeeds' = AllCount(ok)
          /\ subscribed' = IF AllCount(ok) THEN subscribed \cup {Current} ELSE subscribed
    /\ call' = Following(Current)
    /\ UNCHANGED <<appRest, work, io, bound, outcome, thrown, missed>>

\* A failed member ends the application at once; a failed gateway stops the group.
BundleStarted ==
    /\ Starting("started")
    /\ succeeds' = TRUE
    /\ IF stage = "group"
       THEN IF ~succeeds
            THEN stage' = "leaves" /\ UNCHANGED <<turn, call>>
            ELSE IF turn < Len(Group)
            THEN /\ turn' = turn + 1
                 /\ call' = Head(StartCalls(Group[turn + 1]))
                 /\ UNCHANGED stage
            ELSE stage' = "gateway" /\ call' = Head(StartCalls(Gateway)) /\ UNCHANGED turn
       ELSE /\ stage' = IF succeeds THEN "remote" ELSE "stopGroup"
            /\ turn' = 1
            /\ call' = "stopWork"
    /\ UNCHANGED <<result, hal, work, io, bound, subscribed, remote, outcome, thrown, missed>>

\* The start of the remote control cannot fail: its thread keeps the policy, and a
\* failure to listen shows only later.
StartsRemote ==
    /\ stage = "remote"
    /\ remote' \in {"listening", "failed"}
    /\ stage' = "waits"
    /\ UNCHANGED <<turn, call, succeeds, result, hal, work, io, bound, subscribed, outcome,
                   thrown, missed>>
-----------------------------------------------------------------------------
\* An exception ends an IO thread.
Throws(c) ==
    /\ outcome = "none"
    /\ io[c] = "running"
    /\ thrown < MaxThrown
    /\ thrown' = thrown + 1
    /\ io' = [io EXCEPT ![c] = "ended"]
    /\ UNCHANGED <<appRest, call, succeeds, work, bound, subscribed, outcome, missed>>

\* waitUntilFinished joins the IO threads, one after the other, and no worker.
WaitsFor ==
    /\ stage = "waits"
    /\ io[Group[turn]] = "ended"
    /\ io' = [io EXCEPT ![Group[turn]] = "none"]
    /\ IF turn < Len(Group)
       THEN turn' = turn + 1 /\ UNCHANGED stage
       ELSE stage' = "stopRemote" /\ UNCHANGED turn
    /\ UNCHANGED <<call, succeeds, result, hal, work, bound, subscribed, remote, outcome,
                   thrown, missed>>

\* The stop of a remote control that listens does not return (RemoteControl).
StopsRemote ==
    /\ stage = "stopRemote"
    /\ remote = "failed"
    /\ remote' = "none"
    /\ stage' = "stopGateway"
    /\ call' = "unbindServer"
    /\ UNCHANGED <<turn, succeeds, result, hal, work, io, bound, subscribed, outcome, thrown,
                   missed>>

Stopping(step) == stage \in {"stopGroup", "stopGateway"} /\ call = step

\* The worker of a member ends, or misses the call to stop and is waited for in vain.
StopsWorker ==
    /\ Stopping("stopWork")
    /\ ~missed
    /\ \/ /\ work' = [work EXCEPT ![Current] = "none"]
          /\ call' = "unbindServer"
          /\ UNCHANGED missed
       \/ /\ missed' = TRUE
          /\ UNCHANGED <<work, call>>
    /\ UNCHANGED <<appRest, succeeds, io, bound, subscribed, outcome, thrown>>

\* A broker takes its server down before its publisher; what is not bound stays so.
Unbinds(socket) == bound' = [bound EXCEPT ![Current] = @ \ {socket}]

UnbindsServer ==
    /\ Stopping("unbindServer")
    /\ Unbinds("server")
    /\ call' = "unbindPublisher"
    /\ UNCHANGED <<appRest, succeeds, work, io, subscribed, outcome, thrown, missed>>

UnbindsPublisher ==
    /\ Stopping("unbindPublisher")
    /\ Unbinds("publisher")
    /\ call' = "stopIo"
    /\ UNCHANGED <<appRest, succeeds, work, io, subscribed, outcome, thrown, missed>>

StopsIo ==
    /\ Stopping("stopIo")
    /\ io' = [io EXCEPT ![Current] = "none"]
    /\ IF stage = "stopGateway"
       THEN stage' = "finalize" /\ UNCHANGED <<turn, call, result>>
       ELSE IF turn < Len(Group)
       THEN turn' = turn + 1 /\ call' = "stopWork" /\ UNCHANGED <<stage, result>>
       ELSE Leaves(FALSE) /\ UNCHANGED <<turn, call>>
    /\ UNCHANGED <<succeeds, hal, work, bound, subscribed, remote, outcome, thrown, missed>>

FinalizesHal ==
    /\ stage = "finalize"
    /\ hal' = FALSE
    /\ Leaves(TRUE)
    /\ UNCHANGED <<turn, call, succeeds, work, io, bound, subscribed, remote, outcome, thrown,
                   missed>>

\* What start owns is destroyed, the hardware last.  No destructor stops a component: a
\* thread that nobody has joined, a worker that nobody was waiting for among them, ends
\* the process.
Destroys ==
    /\ stage = "leaves"
    /\ outcome = "none"
    /\ IF remote = "none" /\ \A c \in Bundled : work[c] = "none" /\ io[c] = "none"
       THEN /\ outcome' = IF result THEN "success" ELSE "failure"
            /\ hal' = FALSE
       ELSE /\ outcome' = "terminated"
            /\ UNCHANGED hal
    /\ UNCHANGED <<stage, turn, call, succeeds, result, work, io, bound, subscribed, remote,
                   thrown, missed>>

MainDoes ==
    \/ ParsesOptions \/ InitializesHal
    \/ StartsWorker \/ StartsIo \/ BindsPublisher \/ BindsServer \/ Completes
    \/ BundleStarted \/ StartsRemote
    \/ WaitsFor \/ StopsRemote \/ StopsWorker \/ UnbindsServer \/ UnbindsPublisher
    \/ StopsIo
    \/ FinalizesHal \/ Destroys

ApplicationNext == MainDoes \/ \E c \in Bundled : Throws(c)

\* The main thread goes on when it can.
ApplicationFairness == WF_appVars(MainDoes)

ApplicationSpec == ApplicationInit /\ [][ApplicationNext]_appVars /\ ApplicationFairness
-----------------------------------------------------------------------------
\* The variables have their types; a component binds its sockets only when its IO thread
\* was started, and the gateway has neither worker nor anything before its turn.
ApplicationTypeOK ==
    /\ stage \in {"options", "hal", "group", "gateway", "remote", "waits", "stopRemote",
                  "stopGateway", "stopGroup", "finalize", "leaves"}
    /\ turn \in DOMAIN Group
    /\ hal \in BOOLEAN /\ succeeds \in BOOLEAN /\ result \in BOOLEAN
    /\ \A c \in Bundled :
          /\ work[c] \in {"none", "running"}
          /\ io[c] \in {"none", "running", "ended"}
          /\ bound[c] \subseteq {"publisher", "server"}
    /\ work[Gateway] = "none"
    /\ stage \in {"options", "hal", "group"} => io[Gateway] = "none"
    /\ remote \in {"none", "listening", "failed"}
    /\ outcome \in {"none", "success", "failure", "terminated"}

\* The application waits for a system that is complete: every start of every component
\* succeeded in all its steps (ExecutionGroup.hpp:78).
WaitsForCompleteSystem ==
    stage \in {"remote", "waits"} =>
        /\ hal
        /\ subscribed = Bundled
        /\ \A c \in Bundled : bound[c] = {"publisher", "server"}
        /\ \A c \in Member : work[c] = "running"

\* A component that takes requests has a worker for the events they push, from its start
\* until its own stop (StatedServiceComponent.hpp:84-97).
ServesWithWorker ==
    \A c \in Member :
        "server" \in bound[c] => work[c] = "running" \/ (stage = "stopGroup" /\ c = Current)

GroupIsDown == \A c \in Member : work[c] = "none" /\ io[c] = "none" /\ bound[c] = {}

\* A gateway that fails takes the group down before start returns: no thread and no
\* socket of a member is left.
GatewayFailureStopsGroup ==
    [][(stage \in {"gateway", "stopGroup"} /\ stage' = "leaves") => GroupIsDown']_appVars

\* The hardware is there as long as an IO thread of the group runs, which handles
\* requests that use it.
HardwareOutlivesIo == (\E c \in Member : io[c] = "running") => hal

\* The application gets to its wait or its end, whatever fails, unless a worker of a
\* group that is stopped misses the call.
Decided == stage = "waits" \/ outcome # "none" \/ missed
StartDecides == <>Decided

\* What holds of the application at any time: it serves only with what has started, and
\* nothing is taken away from a thread that is waited for.
ApplicationInvariant ==
    /\ ApplicationTypeOK
    /\ WaitsForCompleteSystem
    /\ ServesWithWorker
    /\ HardwareOutlivesIo
=============================================================================
