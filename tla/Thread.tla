------------------------------- MODULE Thread -------------------------------
(***************************************************************************)
(* base/utils/thread.cpp: one Thread object, the pthreads that run its     *)
(* _threadLoop(), and the threads that call its public functions.          *)
(*                                                                         *)
(* A section under mLock is one step, split where it waits on              *)
(* mThreadExitedCondition; what _threadLoop() does between two sections    *)
(* (readyToRun(), threadLoop()) is a step of its own.                      *)
(***************************************************************************)
EXTENDS Integers, FiniteSets

CONSTANTS
  Callers,       \* threads that call run(), join(), requestExit()...
  Pthreads,      \* ids pthread_create() may return; an id is reused once its thread ended
  NoTid,         \* pthread_t(-1)
  ReadyResults,  \* what the derived class's readyToRun() may return
  LoopResults,   \* what the derived class's threadLoop() may return
  CreateMayFail, \* may pthread_create() fail?
  ExitRequests   \* are requestExit() and requestExitAndWait() called?

ASSUME ThreadAssumption ==
  /\ NoTid \notin Pthreads
  /\ ReadyResults \subseteq {"NO_ERROR", "NO_INIT"}
  /\ LoopResults \subseteq BOOLEAN
  /\ {CreateMayFail, ExitRequests} \subseteq BOOLEAN

VARIABLES
  mStatus,
  mThreadTid,
  mExitPending,
  mRunning,
  wpc,     \* where each pthread is in _threadLoop()
  result,  \* its local variable of that name
  cpc,     \* where each caller is: outside, waiting on the condition, or woken
  again,   \* ghost: a pthread called threadLoop() after it announced its exit
  stuck    \* ghost: a pthread ended without an announcement

object == <<mStatus, mThreadTid, mExitPending, mRunning>>
ghosts == <<again, stuck>>
vars == <<mStatus, mThreadTid, mExitPending, mRunning, wpc, result, cpc, again, stuck>>

Statuses == {"NO_ERROR", "NO_INIT", "UNKNOWN_ERROR"}
WorkerPcs == {"none", "start", "first", "loop", "check", "self_wait"}
CallerPcs == {"out", "join_wait", "join_woken", "exit_wait", "exit_woken"}

\* The constructor.
Init ==
  /\ mStatus = "NO_ERROR"
  /\ mThreadTid = NoTid
  /\ mExitPending = FALSE
  /\ mRunning = FALSE
  /\ wpc = [w \in Pthreads |-> "none"]
  /\ result = [w \in Pthreads |-> FALSE]
  /\ cpc = [c \in Callers |-> "out"]
  /\ again = FALSE /\ stuck = FALSE

WGoto(w, l) == wpc' = [wpc EXCEPT ![w] = l]
CGoto(c, l) == cpc' = [cpc EXCEPT ![c] = l]

-----------------------------------------------------------------------------
(* The callers.                                                             *)

\* Fault: run() does not look at mRunning.
MayStart_Always == TRUE
MayStart == ~mRunning

\* What run() leaves in mStatus when pthread_create() fails; the fault leaves
\* the error number of pthread_create().
CreateError_Errno == "EAGAIN"
CreateError == "UNKNOWN_ERROR"

\* run(): nothing to do when already running (INVALID_OPERATION); else the
\* members are reset and the pthread is created, all under mLock.
RunThread(c) ==
  /\ cpc[c] = "out" /\ MayStart
  /\ mExitPending' = FALSE
  /\ \/ \E w \in Pthreads :
          /\ wpc[w] = "none"
          /\ WGoto(w, "start")
          /\ mThreadTid' = w
          /\ mRunning' = TRUE
          /\ mStatus' = "NO_ERROR"
     \/ /\ CreateMayFail
        /\ mThreadTid' = NoTid
        /\ mRunning' = FALSE
        /\ mStatus' = CreateError
        /\ UNCHANGED wpc
  /\ UNCHANGED <<result, cpc, ghosts>>

RequestExit(c) ==
  /\ cpc[c] = "out" /\ ExitRequests
  /\ mExitPending' = TRUE
  /\ UNCHANGED <<mStatus, mThreadTid, mRunning, wpc, result, cpc, ghosts>>

\* requestExitAndWait(), from another thread: up to its wait, or to its end.
RequestExitAndWait(c) ==
  /\ cpc[c] = "out" /\ ExitRequests
  /\ mExitPending' = mRunning
  /\ CGoto(c, IF mRunning THEN "exit_wait" ELSE "out")
  /\ UNCHANGED <<mStatus, mThreadTid, mRunning, wpc, result, ghosts>>

\* join(), from another thread: it waits, or returns mStatus at once.
Join(c) ==
  /\ cpc[c] = "out"
  /\ CGoto(c, IF mRunning THEN "join_wait" ELSE "out")
  /\ UNCHANGED <<object, wpc, result, ghosts>>

\* pthread_cond_wait() may return with no broadcast.
SpuriousWake(c) ==
  /\ \/ cpc[c] = "join_wait" /\ CGoto(c, "join_woken")
     \/ cpc[c] = "exit_wait" /\ CGoto(c, "exit_woken")
  /\ UNCHANGED <<object, wpc, result, ghosts>>

\* A woken waiter holds mLock again and tests mRunning again.  When the thread
\* is gone, requestExitAndWait() clears mExitPending before it returns.
Resume(c) ==
  /\ \/ /\ cpc[c] = "join_woken"
        /\ CGoto(c, IF mRunning THEN "join_wait" ELSE "out")
        /\ UNCHANGED mExitPending
     \/ /\ cpc[c] = "exit_woken"
        /\ CGoto(c, IF mRunning THEN "exit_wait" ELSE "out")
        /\ mExitPending' = (mExitPending /\ mRunning)
  /\ UNCHANGED <<mStatus, mThreadTid, mRunning, wpc, result, ghosts>>

-----------------------------------------------------------------------------
(* The pthread, in _threadLoop().                                           *)

\* self->mStatus = self->readyToRun(), without mLock; on an error the loop ends.
ReadyToRun(w) ==
  /\ wpc[w] = "start"
  /\ \E s \in ReadyResults :
       /\ mStatus' = s
       /\ WGoto(w, IF s = "NO_ERROR" THEN "first" ELSE "none")
       /\ stuck' = (stuck \/ s # "NO_ERROR")
  /\ UNCHANGED <<mThreadTid, mExitPending, mRunning, result, cpc, again>>

\* First iteration: threadLoop() is called only if exitPending(), and its
\* result is not followed by the test that announces the exit.
FirstIteration(w) ==
  /\ wpc[w] = "first"
  /\ \/ ~mExitPending /\ WGoto(w, "loop") /\ UNCHANGED stuck
     \/ /\ mExitPending
        /\ \E r \in LoopResults :
             /\ WGoto(w, IF r THEN "loop" ELSE "none")
             /\ stuck' = (stuck \/ ~r)
  /\ UNCHANGED <<object, result, cpc, again>>

\* threadLoop() runs in the later iterations and returns r.
LoopReturns(w, r) ==
  /\ wpc[w] = "loop"
  /\ result' = [result EXCEPT ![w] = r]
  /\ WGoto(w, "check")
  /\ UNCHANGED <<object, cpc, ghosts>>

\* threadLoop() itself calls requestExit().
ExitFromLoop(w) ==
  /\ wpc[w] = "loop" /\ ExitRequests
  /\ mExitPending' = TRUE
  /\ UNCHANGED <<mStatus, mThreadTid, mRunning, wpc, result, cpc, ghosts>>

\* pthread_equal(mThreadTid, pthread_self()); the fault never finds it true.
IsSelf_Never(w) == FALSE
IsSelf(w) == mThreadTid = w

\* threadLoop() itself calls join(): WOULD_BLOCK, or nothing to wait for, or
\* it waits, for its own end if it is the one that runs.
JoinFromLoop(w) ==
  /\ wpc[w] = "loop"
  /\ WGoto(w, IF IsSelf(w) \/ ~mRunning THEN "loop" ELSE "self_wait")
  /\ UNCHANGED <<object, result, cpc, ghosts>>

\* A broadcast ends the wait, when another pthread announced an exit.
SelfResume(w) ==
  /\ wpc[w] = "self_wait" /\ ~mRunning
  /\ WGoto(w, "loop")
  /\ UNCHANGED <<object, result, cpc, ghosts>>

\* The broadcast moves every waiter to where it competes for mLock.
Broadcast ==
  cpc' = [c \in Callers |->
            CASE cpc[c] = "join_wait" -> "join_woken"
              [] cpc[c] = "exit_wait" -> "exit_woken"
              [] OTHER -> cpc[c]]

\* Fault: the exit wakes one waiter (signal), not all.
Announce_Signal(w) ==
  /\ mExitPending' = TRUE
  /\ mRunning' = FALSE
  /\ mThreadTid' = NoTid
  /\ \/ \E c \in Callers : cpc[c] = "join_wait" /\ CGoto(c, "join_woken")
     \/ \E c \in Callers : cpc[c] = "exit_wait" /\ CGoto(c, "exit_woken")
     \/ UNCHANGED cpc /\ \A c \in Callers : cpc[c] \notin {"join_wait", "exit_wait"}

\* Fault: the exit is not announced to the waiters.
Announce_NoBroadcast(w) ==
  mExitPending' = TRUE /\ mRunning' = FALSE /\ mThreadTid' = NoTid /\ UNCHANGED cpc

Announce(w) ==
  /\ mExitPending' = TRUE
  /\ mRunning' = FALSE
  /\ mThreadTid' = NoTid
  /\ Broadcast

\* The test that announces the exit; the fault never announces it.
Leaving_Never(w) == FALSE
Leaving(w) == ~result[w] \/ mExitPending

\* while (result != false); the fault loops for ever.
GoesOn_Forever(w) == TRUE
GoesOn(w) == result[w]

\* The section after threadLoop().  Its break leaves the inner do-while only:
\* the outer loop goes on as long as threadLoop() returned true.
AfterLoop(w) ==
  /\ wpc[w] = "check"
  /\ \/ Leaving(w) /\ Announce(w)
     \/ ~Leaving(w) /\ UNCHANGED <<mExitPending, mRunning, mThreadTid, cpc>>
  /\ WGoto(w, IF GoesOn(w) THEN "loop" ELSE "none")
  /\ again' = (again \/ (Leaving(w) /\ result[w]))
  /\ UNCHANGED <<mStatus, result, stuck>>

-----------------------------------------------------------------------------

Caller(c) ==
  RunThread(c) \/ RequestExit(c) \/ RequestExitAndWait(c) \/ Join(c)
  \/ SpuriousWake(c) \/ Resume(c)

Worker(w) ==
  \/ ReadyToRun(w) \/ FirstIteration(w) \/ ExitFromLoop(w) \/ JoinFromLoop(w)
  \/ SelfResume(w)
  \/ (\E r \in LoopResults : LoopReturns(w, r)) \/ AfterLoop(w)

Next == (\E c \in Callers : Caller(c)) \/ (\E w \in Pthreads : Worker(w))

Spec == Init /\ [][Next]_vars

\* pthreads and woken waiters are scheduled, mLock is always given up, and a
\* threadLoop() that may return false finally does.
Fairness ==
  /\ \A w \in Pthreads :
       /\ WF_vars(ReadyToRun(w) \/ FirstIteration(w) \/ AfterLoop(w))
       /\ WF_vars(\E r \in LoopResults : LoopReturns(w, r))
       /\ SF_vars(LoopReturns(w, FALSE))
  /\ \A c \in Callers : WF_vars(Resume(c))

FairSpec == Spec /\ Fairness

-----------------------------------------------------------------------------
(* Properties.                                                              *)

\* The variables have their types, and a thread id is that of a thread.
TypeOK ==
  /\ mStatus \in Statuses
  /\ mThreadTid \in Pthreads \cup {NoTid}
  /\ {mExitPending, mRunning} \subseteq BOOLEAN
  /\ wpc \in [Pthreads -> WorkerPcs]
  /\ result \in [Pthreads -> BOOLEAN]
  /\ cpc \in [Callers -> CallerPcs]
  /\ {again, stuck} \subseteq BOOLEAN

Live == {w \in Pthreads : wpc[w] # "none"}

\* Once mRunning is false (isRunning() says so, join() returns) no pthread of
\* this object is left that could still call threadLoop(), unless one went on
\* after its announcement.
ExitedIsQuiet == ~again /\ ~mRunning => Live = {}

\* While a pthread is live, mThreadTid names it, so the WOULD_BLOCK test of
\* join() and requestExitAndWait() recognises it, and there is no second one.
TidIsLive == ~again /\ mRunning => \A w \in Live : mThreadTid = w

\* No thread waits for its own end.
NoSelfDeadlock == ~again => \A w \in Pthreads : wpc[w] # "self_wait"

\* No lost wakeup: whoever sleeps on mThreadExitedCondition sleeps because
\* mRunning is true, so the exit that clears it is still to come.
NoLostWakeup == \A c \in Callers : cpc[c] \in {"join_wait", "exit_wait"} => mRunning

\* Every join() and requestExitAndWait() returns, unless a pthread ended without
\* an announcement or the program keeps starting the thread again: a waiter
\* that is overtaken by run() sleeps through the next life.
JoinReturns ==
  \A c \in Callers :
    \/ cpc[c] # "out" ~> cpc[c] = "out"
    \/ []<><<\E d \in Callers : RunThread(d)>>_vars
    \/ <>stuck

\* A pthread that ends without an announcement is the only way in which mRunning
\* stays true with no pthread behind it.
RunningKnown == mRunning /\ ~stuck => Live # {}

\* Thread.h:41: isRunning() says whether the thread is running.
RunningHasThread == mRunning => Live # {}

\* Thread.h:50-52: threadLoop() is called again only if requestExit() was not
\* called, so a thread that announced its exit is not in threadLoop().
NotCalledAgain == \A w \in Pthreads : wpc[w] = "loop" => mRunning
=============================================================================
