-------------------- MODULE StatedServiceComponentProofs --------------------
(***************************************************************************)
(* The active object, for any state machine, any events and any bound.     *)
(***************************************************************************)
EXTENDS StatedServiceComponent, TLAPS

\* Where the worker is tells where it is in the queue and in an action.
WorkerInv ==
    /\ worker = "none" <=> owner \in {"joined", "stopped", "starting"}
    /\ waiting \cup woken # {} => worker = "pull"
    /\ raising # {} => worker = "action"

\* After the reset and before the next start only late events are queued.
BacklogInv == AfterReset => \A i \in DOMAIN queue : queue[i].late

-----------------------------------------------------------------------------
LEMMA TaggedType == ASSUME TypeOK, NEW n \in Name
                    PROVE  Tagged(n) \in Entry
  BY DEF TypeOK, Tagged, Entry, AfterReset

LEMMA NotifyOneKeepsTypes ==
    ASSUME TypeOK, Q!NotifyOne
    PROVE  /\ waiting' \subseteq {Worker}
           /\ woken' \subseteq {Worker}
           /\ waiting' \cap woken' = {}
           /\ waiting' \cup woken' = waiting \cup woken
  BY DEF TypeOK, Q!TypeOK, Q!NotifyOne

\* What a push of any thread does to the queue and its threads.
LEMMA PushEventEffect ==
    ASSUME TypeOK, NEW n \in Name, PushEvent(n)
    PROVE  /\ Q!TypeOK'
           /\ pulled' = pulled
           /\ waiting' \cup woken' = waiting \cup woken
           /\ queue' = Append(queue, Tagged(n)) \/ queue' = queue
  <1>1. CASE Q!Push(Tagged(n))
    <2>1. queue' \in Seq(Entry)
      BY <1>1, TaggedType DEF TypeOK, Q!TypeOK, Q!Push
    <2>2. QED
      BY <1>1, <2>1, NotifyOneKeepsTypes DEF TypeOK, Q!TypeOK, Q!Push
  <1>2. CASE UNCHANGED queueVars
    BY <1>2 DEF TypeOK, Q!TypeOK, queueVars
  <1>3. QED
    BY <1>1, <1>2 DEF PushEvent

\* What the worker's pull does.
LEMMA PullsEffect ==
    ASSUME TypeOK, Pulls
    PROVE  /\ Q!TypeOK'
           /\ worker = "pull"
           /\ worker' \in {"pull", "check", "dispatch"}
           /\ worker' # "pull" => waiting' \cup woken' = {}
           /\ worker' = "dispatch" => /\ queue # <<>>
                                      /\ queue' = Tail(queue)
                                      /\ pulled'[Worker] = Head(queue)
                                      /\ pulled'[Worker] \in Entry
           /\ worker' # "dispatch" => queue' = queue
  <1>1. TypeOK /\ Q!TypeOK
    BY DEF TypeOK
  <1>2. None \notin Entry
    BY NoneAssumption
  <1>3. CASE Q!Pull(Worker) /\ worker' = "dispatch"
    BY <1>1, <1>3 DEF Pulls, Q!TypeOK, Q!Pull, Q!TakeFront
  <1>4. CASE Q!PullWaits(Worker) /\ UNCHANGED worker
    BY <1>1, <1>4 DEF Pulls, Q!TypeOK, Q!PullWaits
  <1>5. CASE /\ Q!PullResumes(Worker)
             /\ worker' = IF pulled'[Worker] = None THEN "check" ELSE "dispatch"
    <2> waiting' \cup woken' = {}
      BY <1>1, <1>5 DEF Q!TypeOK, Q!PullResumes
    <2>1. CASE Q!TakeFront(Worker)
      BY <1>1, <1>2, <1>5, <2>1 DEF Pulls, Q!TypeOK, Q!PullResumes, Q!TakeFront
    <2>2. CASE queue = <<>> /\ UNCHANGED queue
               /\ pulled' = [pulled EXCEPT ![Worker] = None]
      BY <1>1, <1>2, <1>5, <2>2 DEF Pulls, Q!TypeOK, Q!PullResumes
    <2>3. QED
      BY <1>5, <2>1, <2>2 DEF Q!PullResumes
  <1>6. QED
    BY <1>3, <1>4, <1>5 DEF Pulls

-----------------------------------------------------------------------------
\* Every variable keeps its type.
THEOREM TypeCorrect == Spec => []TypeOK
  <1>1. Init => TypeOK
    <2> SUFFICES ASSUME Init PROVE TypeOK
      OBVIOUS
    <2>1. Q!TypeOK
      BY DEF Init, Q!Init, Q!TypeOK
    <2>2. QED
      BY <2>1, ComponentAssumption DEF Init, TypeOK, OwnerAt, WorkerAt
  <1>2. TypeOK /\ [Next]_vars => TypeOK'
    <2> SUFFICES ASSUME TypeOK, [Next]_vars PROVE TypeOK'
      OBVIOUS
    <2> USE DEF OwnerAt, WorkerAt
    <2>1. ASSUME NEW n \in Name, IoPushes(n) PROVE TypeOK'
      BY <2>1, PushEventEffect DEF IoPushes, TypeOK, threadVars
    <2>2. ASSUME NEW n \in Name, SensorPushes(n) PROVE TypeOK'
      BY <2>2, PushEventEffect DEF SensorPushes, TypeOK, threadVars
    <2>3. CASE Start
      BY <2>3 DEF Start, TypeOK, Q!TypeOK, queueVars
    <2>4. CASE StartWorker
      BY <2>4 DEF StartWorker, TypeOK, Q!TypeOK, queueVars
    <2>5. CASE StartBroker
      BY <2>5 DEF StartBroker, TypeOK, Q!TypeOK, queueVars
    <2>6. CASE Stop
      BY <2>6 DEF Stop, TypeOK, Q!TypeOK, queueVars
    <2>7. CASE StopResetsQueue
      <3>1. Q!TypeOK'
        BY <2>7, NotifyOneKeepsTypes DEF StopResetsQueue, Q!Reset, TypeOK, Q!TypeOK
      <3>2. QED
        BY <2>7, <3>1 DEF StopResetsQueue, Q!Reset, TypeOK
    <2>8. CASE StopJoins
      BY <2>8 DEF StopJoins, TypeOK, Q!TypeOK, queueVars
    <2>9. CASE StopBroker
      BY <2>9 DEF StopBroker, TypeOK, Q!TypeOK, queueVars
    <2>10. CASE ChecksFlag
      BY <2>10 DEF ChecksFlag, TypeOK, Q!TypeOK, queueVars
    <2>11. CASE Pulls
      BY <2>11, PullsEffect DEF Pulls, TypeOK
    <2>12. ASSUME NEW i \in DOMAIN Transitions, Dispatches(i) PROVE TypeOK'
      <3>1. Transitions[i] \in TransitionType
        BY ComponentAssumption
      <3>2. QED
        BY <2>12, <3>1 DEF TransitionType, Dispatches, TypeOK, Q!TypeOK, queueVars
    <2>13. CASE DispatchFails
      BY <2>13 DEF DispatchFails, TypeOK, Q!TypeOK, queueVars
    <2>14. ASSUME NEW n \in Name, ActionPushes(n) PROVE TypeOK'
      BY <2>14, PushEventEffect DEF ActionPushes, TypeOK
    <2>15. CASE ActionReturns
      BY <2>15 DEF ActionReturns, TypeOK, Q!TypeOK, queueVars
    <2>16. CASE WakesSpuriously
      <3>1. Q!TypeOK'
        BY <2>16 DEF WakesSpuriously, Q!WakesSpuriously, TypeOK, Q!TypeOK
      <3>2. QED
        BY <2>16, <3>1 DEF WakesSpuriously, Q!WakesSpuriously, TypeOK, threadVars
    <2>17. CASE UNCHANGED vars
      BY <2>17 DEF vars, queueVars, threadVars, TypeOK, Q!TypeOK
    <2>18. QED
      BY <2>1, <2>2, <2>3, <2>4, <2>5, <2>6, <2>7, <2>8, <2>9, <2>10, <2>11,
         <2>12, <2>13, <2>14, <2>15, <2>16, <2>17, ComponentAssumption
         DEF Next, StartStep, StopStep, WorkerStep
  <1>3. QED
    BY <1>1, <1>2, PTL DEF Spec

LEMMA WorkerInvHolds == Spec => []WorkerInv
  <1>1. Init => WorkerInv
    BY DEF Init, Q!Init, WorkerInv
  <1>2. TypeOK /\ WorkerInv /\ [Next]_vars => WorkerInv'
    <2> SUFFICES ASSUME TypeOK, WorkerInv, [Next]_vars PROVE WorkerInv'
      OBVIOUS
    <2> USE DEF WorkerInv
    <2>1. ASSUME NEW n \in Name, IoPushes(n) PROVE WorkerInv'
      BY <2>1, PushEventEffect DEF IoPushes, threadVars
    <2>2. ASSUME NEW n \in Name, SensorPushes(n) PROVE WorkerInv'
      BY <2>2, PushEventEffect DEF SensorPushes, threadVars
    <2>3. CASE Start
      BY <2>3 DEF Start, queueVars
    <2>4. CASE StartWorker
      BY <2>4 DEF StartWorker, queueVars
    <2>5. CASE StartBroker
      BY <2>5 DEF StartBroker, queueVars
    <2>6. CASE Stop
      BY <2>6 DEF Stop, queueVars
    <2>7. CASE StopResetsQueue
      BY <2>7, NotifyOneKeepsTypes DEF StopResetsQueue, Q!Reset
    <2>8. CASE StopJoins
      BY <2>8 DEF StopJoins, queueVars
    <2>9. CASE StopBroker
      BY <2>9 DEF StopBroker, queueVars
    <2>10. CASE ChecksFlag
      BY <2>10 DEF ChecksFlag, queueVars
    <2>11. CASE Pulls
      BY <2>11, PullsEffect DEF Pulls
    <2>12. ASSUME NEW i \in DOMAIN Transitions, Dispatches(i) PROVE WorkerInv'
      BY <2>12 DEF Dispatches, queueVars
    <2>13. CASE DispatchFails
      BY <2>13 DEF DispatchFails, queueVars
    <2>14. ASSUME NEW n \in Name, ActionPushes(n) PROVE WorkerInv'
      BY <2>14, PushEventEffect DEF ActionPushes
    <2>15. CASE ActionReturns
      BY <2>15 DEF ActionReturns, queueVars
    <2>16. CASE WakesSpuriously
      BY <2>16 DEF WakesSpuriously, Q!WakesSpuriously, threadVars
    <2>17. CASE UNCHANGED vars
      BY <2>17 DEF vars, queueVars, threadVars
    <2>18. QED
      BY <2>1, <2>2, <2>3, <2>4, <2>5, <2>6, <2>7, <2>8, <2>9, <2>10, <2>11,
         <2>12, <2>13, <2>14, <2>15, <2>16, <2>17, ComponentAssumption
         DEF Next, StartStep, StopStep, WorkerStep
  <1>3. QED
    BY <1>1, <1>2, TypeCorrect, PTL DEF Spec

\* Once stop() has joined, nothing of the worker is left anywhere.
THEOREM QuietWhenStopped == Spec => []StoppedMeansQuiet
  <1>1. TypeOK /\ WorkerInv => StoppedMeansQuiet
    BY DEF WorkerInv, StoppedMeansQuiet
  <1>2. QED
    BY <1>1, TypeCorrect, WorkerInvHolds, PTL

-----------------------------------------------------------------------------
\* A push adds a late event, or one of the current session.
LEMMA PushKeepsBacklog ==
    ASSUME TypeOK, OldEventsAreLate, BacklogInv, NEW n \in Name, PushEvent(n),
           UNCHANGED <<worker, owner, session>>
    PROVE  OldEventsAreLate' /\ BacklogInv'
  <1>1. queue \in Seq(Entry)
    BY DEF TypeOK, Q!TypeOK
  <1>2. pulled' = pulled
    BY PushEventEffect
  <1>3. CASE queue' = queue
    BY <1>2, <1>3 DEF OldEventsAreLate, BacklogInv, AfterReset
  <1>4. CASE queue' = Append(queue, Tagged(n))
    <2>1. ASSUME NEW i \in DOMAIN queue'
          PROVE  queue'[i] = Tagged(n) \/ (i \in DOMAIN queue /\ queue'[i] = queue[i])
      BY <1>1, <1>4, <2>1, TaggedType
    <2>2. Tagged(n).session = session /\ Tagged(n).late = AfterReset
      BY DEF Tagged
    <2>3. QED
      BY <1>2, <2>1, <2>2 DEF OldEventsAreLate, BacklogInv, AfterReset
  <1>5. QED
    BY <1>3, <1>4, PushEventEffect

\* No event of an earlier session is handled after a restart, but for those
\* that were accepted while that session's stop() was under way or later.
THEOREM OldEventsComeLate == Spec => []OldEventsAreLate
  <1>1. Init => OldEventsAreLate /\ BacklogInv
    BY DEF Init, Q!Init, OldEventsAreLate, BacklogInv
  <1>2. TypeOK /\ WorkerInv /\ OldEventsAreLate /\ BacklogInv /\ [Next]_vars
          => OldEventsAreLate' /\ BacklogInv'
    <2> SUFFICES ASSUME TypeOK, WorkerInv, OldEventsAreLate, BacklogInv, [Next]_vars
                 PROVE  OldEventsAreLate' /\ BacklogInv'
      OBVIOUS
    <2>1. queue \in Seq(Entry)
      BY DEF TypeOK, Q!TypeOK
    <2>2. ASSUME NEW n \in Name, IoPushes(n) PROVE OldEventsAreLate' /\ BacklogInv'
      BY <2>2, PushKeepsBacklog DEF IoPushes, threadVars
    <2>3. ASSUME NEW n \in Name, SensorPushes(n)
          PROVE  OldEventsAreLate' /\ BacklogInv'
      BY <2>3, PushKeepsBacklog DEF SensorPushes, threadVars
    <2>4. ASSUME NEW n \in Name, ActionPushes(n)
          PROVE  OldEventsAreLate' /\ BacklogInv'
      BY <2>4, PushKeepsBacklog DEF ActionPushes
    <2>5. CASE Start
      <3>1. queue' = queue /\ AfterReset /\ worker' = "none" /\ ~AfterReset'
        BY <2>5 DEF Start, queueVars, AfterReset, WorkerInv
      <3>2. QED
        BY <3>1 DEF OldEventsAreLate, BacklogInv
    <2>6. CASE StopResetsQueue
      BY <2>6 DEF StopResetsQueue, Q!Reset, OldEventsAreLate, BacklogInv
    <2>7. CASE Pulls
      <3>1. UNCHANGED <<owner, session>>
        BY <2>7 DEF Pulls
      <3>2. CASE worker' = "dispatch"
        <4>1. queue # <<>> /\ queue' = Tail(queue) /\ pulled'[Worker] = Head(queue)
          BY <2>7, <3>2, PullsEffect
        <4>2. Head(queue) = queue[1] /\ 1 \in DOMAIN queue
          BY <2>1, <4>1
        <4>3. \A i \in DOMAIN queue' : i + 1 \in DOMAIN queue /\ queue'[i] = queue[i + 1]
          BY <2>1, <4>1
        <4>4. QED
          BY <3>1, <4>1, <4>2, <4>3 DEF OldEventsAreLate, BacklogInv, AfterReset
      <3>3. CASE worker' # "dispatch"
        BY <2>7, <3>1, <3>3, PullsEffect DEF OldEventsAreLate, BacklogInv, AfterReset
      <3>4. QED
        BY <3>2, <3>3
    <2>8. CASE WakesSpuriously
      BY <2>8 DEF WakesSpuriously, Q!WakesSpuriously, threadVars, OldEventsAreLate,
                  BacklogInv, AfterReset
    <2>9. CASE /\ UNCHANGED <<queue, pulled, session>>
               /\ worker' = "dispatch" => worker = "dispatch"
               /\ AfterReset' => AfterReset
      BY <2>9 DEF OldEventsAreLate, BacklogInv
    <2>10. QED
      BY <2>2, <2>3, <2>4, <2>5, <2>6, <2>7, <2>8, <2>9, ComponentAssumption
         DEF Next, StartStep, StopStep, WorkerStep, StartWorker, StartBroker, Stop,
             StopJoins, StopBroker, ChecksFlag, Dispatches, DispatchFails,
             ActionReturns, vars, queueVars, threadVars, AfterReset
  <1>3. QED
    BY <1>1, <1>2, TypeCorrect, WorkerInvHolds, PTL DEF Spec
=============================================================================
