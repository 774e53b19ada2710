------------------------------- MODULE Thread -------------------------------
(***************************************************************************)
(* Threads and the contexts that run them.  An owner starts its context,   *)
(* waits for it or stops it, and starts it again.  The new thread is held  *)
(* back until the owner has set its scheduling policy; it runs with the    *)
(* mutex of the thread object held.                                        *)
(***************************************************************************)
EXTENDS Naturals

CONSTANTS
    Context,        \* the contexts, each with an owner
    RealTime,       \* the contexts with PolicyRealTime
    Stoppable,      \* the contexts whose process ends only when it is told to
    MaxRuns         \* bound: how often a context is started

ASSUME ThreadAssumption ==
    /\ RealTime \subseteq Context
    /\ Stoppable \subseteq Context
    /\ MaxRuns \in Nat

VARIABLES
    owner,          \* where the owner is in start, stop or waitUntilFinished
    thread,         \* where the thread is
    joinable,       \* a thread was created and not yet joined
    mutex,          \* who holds m_mutex of the thread
    isReady,        \* m_isReady
    told,           \* the stop function has been called since the start
    prepared,       \* history: the policy of the thread was set as it has to be
    returned,       \* history: what the last start returned
    runs

threadVars == <<owner, thread, joinable, mutex, isReady, told, prepared, returned, runs>>

ThreadInit ==
    /\ owner = [c \in Context |-> "idle"]
    /\ thread = [c \in Context |-> "none"]
    /\ joinable = [c \in Context |-> FALSE]
    /\ mutex = [c \in Context |-> "free"]
    /\ isReady = [c \in Context |-> FALSE]
    /\ told = [c \in Context |-> FALSE]
    /\ prepared = [c \in Context |-> FALSE]
    /\ returned = [c \in Context |-> FALSE]
    /\ runs = [c \in Context |-> 0]
-----------------------------------------------------------------------------
\* ProcessContext::start and Thread::start: take the mutex and create the thread.
StartsThread(c) ==
    /\ owner[c] = "idle"
    /\ ~joinable[c]
    /\ runs[c] < MaxRuns
    /\ mutex[c] = "free"
    /\ mutex' = [mutex EXCEPT ![c] = "owner"]
    /\ isReady' = [isReady EXCEPT ![c] = FALSE]
    /\ joinable' = [joinable EXCEPT ![c] = TRUE]
    /\ thread' = [thread EXCEPT ![c] = "created"]
    /\ told' = [told EXCEPT ![c] = FALSE]
    /\ prepared' = [prepared EXCEPT ![c] = FALSE]
    /\ owner' = [owner EXCEPT ![c] = "starting"]
    /\ runs' = [runs EXCEPT ![c] = @ + 1]
    /\ UNCHANGED returned

\* Faulty variant: the thread is released before its policy is known.
ReadyAtOnce(c, set) == TRUE

\* What start returns, and what the thread waits for.
ReadyIf(c, set) == set

\* The owner sets the policy, lets the thread run, and returns; the lock ends.  Setting
\* the policy fails without the rights.
LetsRun(c) ==
    /\ owner[c] = "starting"
    /\ \E set \in IF c \in RealTime THEN BOOLEAN ELSE {TRUE} :
          /\ prepared' = [prepared EXCEPT ![c] = set]
          /\ isReady' = [isReady EXCEPT ![c] = ReadyIf(c, set)]
          /\ returned' = [returned EXCEPT ![c] = ReadyIf(c, set)]
    /\ mutex' = [mutex EXCEPT ![c] = "free"]
    /\ owner' = [owner EXCEPT ![c] = "idle"]
    /\ UNCHANGED <<thread, joinable, told, runs>>

\* stop: call the stop function, then wait for the thread.
Stops(c) ==
    /\ owner[c] = "idle"
    /\ told' = [told EXCEPT ![c] = TRUE]
    /\ owner' = [owner EXCEPT ![c] = IF joinable[c] THEN "joining" ELSE "idle"]
    /\ UNCHANGED <<thread, joinable, mutex, isReady, prepared, returned, runs>>

\* waitUntilFinished without stopping.
Waits(c) ==
    /\ owner[c] = "idle"
    /\ joinable[c]
    /\ owner' = [owner EXCEPT ![c] = "joining"]
    /\ UNCHANGED <<thread, joinable, mutex, isReady, told, prepared, returned, runs>>

Joins(c) ==
    /\ owner[c] = "joining"
    /\ thread[c] = "ended"
    /\ thread' = [thread EXCEPT ![c] = "none"]
    /\ joinable' = [joinable EXCEPT ![c] = FALSE]
    /\ owner' = [owner EXCEPT ![c] = "idle"]
    /\ UNCHANGED <<mutex, isReady, told, prepared, returned, runs>>
-----------------------------------------------------------------------------
\* The new thread locks its memory if it is a real-time one; that may fail.
Prepares(c) ==
    /\ thread[c] = "created"
    /\ \/ thread' = [thread EXCEPT ![c] = "waiting"]
       \/ /\ c \in RealTime
          /\ thread' = [thread EXCEPT ![c] = "ending"]
    /\ UNCHANGED <<owner, joinable, mutex, isReady, told, prepared, returned, runs>>

\* It waits under the mutex until it may run.
Runs(c) ==
    /\ thread[c] = "waiting"
    /\ mutex[c] = "free"
    /\ isReady[c]
    /\ mutex' = [mutex EXCEPT ![c] = "thread"]
    /\ thread' = [thread EXCEPT ![c] = "running"]
    /\ UNCHANGED <<owner, joinable, isReady, told, prepared, returned, runs>>

\* The process returns when it was told to, or by itself, or throws.
ReturnsOrThrows(c) ==
    /\ thread[c] = "running"
    /\ thread' = [thread EXCEPT ![c] = "ending"]
    /\ mutex' = [mutex EXCEPT ![c] = "free"]
    /\ UNCHANGED <<owner, joinable, isReady, told, prepared, returned, runs>>

\* The last thing that the thread does, without the mutex.
ThreadEnds(c) ==
    /\ thread[c] = "ending"
    /\ isReady' = [isReady EXCEPT ![c] = FALSE]
    /\ thread' = [thread EXCEPT ![c] = "ended"]
    /\ UNCHANGED <<owner, joinable, mutex, told, prepared, returned, runs>>

OwnerStep(c) == LetsRun(c) \/ Joins(c)
ThreadStep(c) == Prepares(c) \/ Runs(c) \/ ThreadEnds(c)
\* A process ends when it was told to, one that is not stoppable in any case.
MustReturn(c) == ReturnsOrThrows(c) /\ (told[c] \/ c \notin Stoppable)

ThreadNext ==
    \E c \in Context :
       \/ StartsThread(c) \/ Stops(c) \/ Waits(c)
       \/ OwnerStep(c) \/ ThreadStep(c) \/ ReturnsOrThrows(c)

ThreadFairness ==
    \A c \in Context :
       /\ WF_threadVars(OwnerStep(c))
       /\ WF_threadVars(ThreadStep(c))
       /\ WF_threadVars(MustReturn(c))

ThreadSpec == ThreadInit /\ [][ThreadNext]_threadVars /\ ThreadFairness
-----------------------------------------------------------------------------
\* The variables have their types; the mutex is held by the owner exactly while it
\* starts, by the thread exactly while the process runs.
ThreadTypeOK ==
    /\ owner \in [Context -> {"idle", "starting", "joining"}]
    /\ thread \in [Context -> {"none", "created", "waiting", "running", "ending", "ended"}]
    /\ joinable \in [Context -> BOOLEAN]
    /\ mutex \in [Context -> {"free", "owner", "thread"}]
    /\ isReady \in [Context -> BOOLEAN]
    /\ told \in [Context -> BOOLEAN]
    /\ prepared \in [Context -> BOOLEAN]
    /\ returned \in [Context -> BOOLEAN]
    /\ runs \in [Context -> 0..MaxRuns]
    /\ \A c \in Context :
          /\ mutex[c] = "owner" <=> owner[c] = "starting"
          /\ mutex[c] = "thread" <=> thread[c] = "running"
          /\ joinable[c] <=> thread[c] # "none"

\* A process never runs before the scheduling policy of its thread is set, in the first
\* run and in every later one: m_isReady of an earlier run does not let it pass.
RunsPrepared == \A c \in Context : thread[c] = "running" => prepared[c] /\ returned[c]

\* An owner that waits for its thread gets it back, unless the policy could not be set,
\* for then the thread waits for ever, or the process was never told to stop.
Rejoins(c) == owner[c] = "joining"
Released(c) ==
    \/ owner[c] = "idle"
    \/ thread[c] = "waiting" /\ ~isReady[c]
    \/ c \in Stoppable /\ ~told[c]
WaitEnds == \A c \in Context : Rejoins(c) ~> Released(c)

\* What holds of threads at any time: the hand-shake of the start keeps a process back
\* until it may run (Thread.cpp:33-102).
ThreadInvariant == ThreadTypeOK /\ RunsPrepared
=============================================================================
