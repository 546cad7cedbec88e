---------------------------- MODULE ThreadProofs ----------------------------
(* Theorems about Thread, for any number of callers and pthreads.           *)
EXTENDS Thread, TLAPS

\* The members keep their types, whatever the derived class does.
THEOREM TypeCorrect == Spec => []TypeOK
<1>1. Init => TypeOK
  BY ThreadAssumption DEF Init, TypeOK, Statuses, WorkerPcs, CallerPcs
<1>2. TypeOK /\ [Next]_vars => TypeOK'
  <2> SUFFICES ASSUME TypeOK, [Next]_vars
               PROVE  TypeOK'
    OBVIOUS
  <2> USE ThreadAssumption DEF TypeOK, object, ghosts
  <2>1. ASSUME NEW c \in Callers, RunThread(c)
        PROVE  TypeOK'
    BY <2>1 DEF RunThread, WGoto, WorkerPcs, CreateError, Statuses
  <2>2. ASSUME NEW c \in Callers, RequestExit(c)
        PROVE  TypeOK'
    BY <2>2 DEF RequestExit
  <2>3. ASSUME NEW c \in Callers, RequestExitAndWait(c)
        PROVE  TypeOK'
    BY <2>3 DEF RequestExitAndWait, CGoto, CallerPcs
  <2>4. ASSUME NEW c \in Callers, Join(c) \/ SpuriousWake(c)
        PROVE  TypeOK'
    BY <2>4 DEF Join, SpuriousWake, CGoto, CallerPcs
  <2>5. ASSUME NEW c \in Callers, Resume(c)
        PROVE  TypeOK'
    <3>1. mExitPending' \in BOOLEAN
      BY <2>5, Zenon DEF Resume
    <3>2. cpc' \in [Callers -> CallerPcs]
      BY <2>5 DEF Resume, CGoto, CallerPcs
    <3> QED
      BY <2>5, <3>1, <3>2 DEF Resume
  <2>6. ASSUME NEW w \in Pthreads, ReadyToRun(w)
        PROVE  TypeOK'
    BY <2>6 DEF ReadyToRun, WGoto, WorkerPcs, Statuses
  <2>7. ASSUME NEW w \in Pthreads, FirstIteration(w) \/ JoinFromLoop(w) \/ SelfResume(w)
        PROVE  TypeOK'
    BY <2>7 DEF FirstIteration, JoinFromLoop, SelfResume, WGoto, WorkerPcs
  <2>8. ASSUME NEW w \in Pthreads, NEW r \in LoopResults, LoopReturns(w, r)
        PROVE  TypeOK'
    BY <2>8 DEF LoopReturns, WGoto, WorkerPcs
  <2>9. ASSUME NEW w \in Pthreads, ExitFromLoop(w)
        PROVE  TypeOK'
    BY <2>9 DEF ExitFromLoop
  <2>10. ASSUME NEW w \in Pthreads, AfterLoop(w)
         PROVE  TypeOK'
    <3>1. wpc' \in [Pthreads -> WorkerPcs]
      BY <2>10 DEF AfterLoop, WGoto, WorkerPcs
    <3>2. cpc' \in [Callers -> CallerPcs]
      BY <2>10 DEF AfterLoop, Announce, Broadcast, CallerPcs
    <3> QED
      BY <2>10, <3>1, <3>2 DEF AfterLoop, Announce
  <2>11. CASE UNCHANGED vars
    BY <2>11 DEF vars
  <2> QED
    BY <2>1, <2>2, <2>3, <2>4, <2>5, <2>6, <2>7, <2>8, <2>9, <2>10, <2>11
       DEF Next, Caller, Worker
<1> QED
  BY <1>1, <1>2, PTL DEF Spec

-----------------------------------------------------------------------------
(* What an observer can conclude from mRunning, as long as every pthread    *)
(* that announced its exit ended with it.                                   *)

\* The inductive invariant.  A live pthread is the one mThreadTid names and
\* mRunning is true; that is what makes the other parts inductive.
OnceInv ==
  /\ TypeOK
  /\ ExitedIsQuiet
  /\ TidIsLive
  /\ NoSelfDeadlock
  /\ NoLostWakeup

\* OnceInv holds of a Thread just made.
LEMMA OnceInit == Init => OnceInv
  BY ThreadAssumption
     DEF Init, OnceInv, TypeOK, Statuses, WorkerPcs, CallerPcs, ExitedIsQuiet, Live,
         TidIsLive, NoSelfDeadlock, NoLostWakeup

\* Every step keeps OnceInv.
LEMMA OnceStep ==
  ASSUME OnceInv, TypeOK', [Next]_vars
  PROVE  OnceInv'
<1> USE ThreadAssumption
    DEF OnceInv, TypeOK, ExitedIsQuiet, Live, TidIsLive, NoSelfDeadlock, NoLostWakeup,
        object, ghosts
<1>1. ASSUME NEW c \in Callers, RunThread(c)
      PROVE  OnceInv'
  <2>1. ~again => Live = {}
    BY <1>1 DEF RunThread, MayStart
  <2>2. CASE \E w \in Pthreads :
               /\ wpc[w] = "none" /\ WGoto(w, "start")
               /\ mThreadTid' = w /\ mRunning' = TRUE
    BY <1>1, <2>1, <2>2 DEF RunThread, WGoto
  <2>3. CASE UNCHANGED <<wpc, mRunning>>
    BY <1>1, <2>1, <2>3 DEF RunThread
  <2> QED
    BY <1>1, <2>1, <2>2, <2>3 DEF RunThread, MayStart
<1>2. ASSUME NEW c \in Callers, RequestExit(c)
      PROVE  OnceInv'
  BY <1>2 DEF RequestExit
<1>3. ASSUME NEW c \in Callers, RequestExitAndWait(c) \/ Join(c)
      PROVE  OnceInv'
  BY <1>3 DEF RequestExitAndWait, Join, CGoto
<1>4. ASSUME NEW c \in Callers, SpuriousWake(c) \/ Resume(c)
      PROVE  OnceInv'
  BY <1>4 DEF SpuriousWake, Resume, CGoto
<1>5. ASSUME NEW w \in Pthreads, ReadyToRun(w)
      PROVE  OnceInv'
  BY <1>5 DEF ReadyToRun, WGoto
<1>6. ASSUME NEW w \in Pthreads, FirstIteration(w)
      PROVE  OnceInv'
  BY <1>6 DEF FirstIteration, WGoto
<1>7. ASSUME NEW w \in Pthreads, NEW r \in LoopResults, LoopReturns(w, r)
      PROVE  OnceInv'
  BY <1>7 DEF LoopReturns, WGoto
<1>8. ASSUME NEW w \in Pthreads, ExitFromLoop(w) \/ SelfResume(w)
      PROVE  OnceInv'
  BY <1>8 DEF ExitFromLoop, SelfResume, WGoto
<1>9. ASSUME NEW w \in Pthreads, JoinFromLoop(w)
      PROVE  OnceInv'
  \* Unless again, w is live, so mRunning holds and mThreadTid is w: WOULD_BLOCK.
  <2>1. CASE again
    BY <1>9, <2>1 DEF JoinFromLoop
  <2>2. CASE ~again
    <3>1. wpc' = wpc
      BY <1>9, <2>2 DEF JoinFromLoop, IsSelf, WGoto
    <3> QED
      BY <1>9, <3>1 DEF JoinFromLoop
  <2> QED
    BY <2>1, <2>2
<1>10. ASSUME NEW w \in Pthreads, AfterLoop(w)
       PROVE  OnceInv'
  <2>1. CASE Leaving(w)
    <3>1. \A c \in Callers : cpc'[c] \notin {"join_wait", "exit_wait"}
      BY <1>10, <2>1 DEF AfterLoop, Announce, Broadcast, CallerPcs
    <3>2. ~mRunning'
      BY <1>10, <2>1 DEF AfterLoop, Announce
    <3>3. CASE again \/ result[w]
      <4>1. again'
        BY <1>10, <2>1, <3>3 DEF AfterLoop
      <4> QED
        BY <3>1, <4>1
    <3>4. CASE ~again /\ ~result[w]
      <4>1. \A v \in Pthreads : wpc[v] # "none" => v = w
        <5>1. w \in Live
          BY <1>10 DEF AfterLoop
        <5> QED
          BY <3>4, <5>1
      <4>2. Live' = {}
        BY <1>10, <3>4, <4>1 DEF AfterLoop, GoesOn, WGoto
      <4> QED
        BY <3>1, <3>2, <4>2
    <3> QED
      BY <3>3, <3>4
  <2>2. CASE ~Leaving(w)
    <3>1. wpc' = [wpc EXCEPT ![w] = "loop"] /\ wpc[w] = "check"
      BY <1>10, <2>2 DEF AfterLoop, Leaving, GoesOn, WGoto
    <3>2. UNCHANGED <<mExitPending, mRunning, mThreadTid, cpc>>
      BY <1>10, <2>2, Zenon DEF AfterLoop
    <3>3. again' = again
      BY <1>10, <2>2 DEF AfterLoop
    <3> QED
      BY <3>1, <3>2, <3>3
  <2> QED
    BY <2>1, <2>2
<1>11. CASE UNCHANGED vars
  BY <1>11 DEF vars
<1> QED
  BY <1>1, <1>2, <1>3, <1>4, <1>5, <1>6, <1>7, <1>8, <1>9, <1>10, <1>11
     DEF Next, Caller, Worker

\* OnceInv holds in every reachable state.
LEMMA OnceInvariance == Spec => []OnceInv
<1>1. OnceInv /\ TypeOK' /\ [Next]_vars => OnceInv'
  BY OnceStep
<1> QED
  BY <1>1, OnceInit, TypeCorrect, PTL DEF Spec

\* Whatever exit requests, failures of readyToRun() or of pthread_create() occur:
\* as long as no pthread went on after its announcement, a cleared mRunning means
\* that no pthread is left that could still call threadLoop().
THEOREM OnceSafe == Spec => []ExitedIsQuiet
<1>1. OnceInv => ExitedIsQuiet
  BY DEF OnceInv
<1> QED
  BY <1>1, OnceInvariance, PTL

\* Under the same condition the live pthread is the one mThreadTid names: run()
\* never starts a second one, and the WOULD_BLOCK tests compare with the right id.
THEOREM OneLivePthread == Spec => []TidIsLive
<1>1. OnceInv => TidIsLive
  BY DEF OnceInv
<1> QED
  BY <1>1, OnceInvariance, PTL

\* So a join() or requestExitAndWait() from threadLoop() never waits for itself.
THEOREM NoSelfWait == Spec => []NoSelfDeadlock
<1>1. OnceInv => NoSelfDeadlock
  BY DEF OnceInv
<1> QED
  BY <1>1, OnceInvariance, PTL

\* No waiter sleeps through the last broadcast, with no condition on what the
\* pthreads do: mRunning is tested and cleared under one mutex.
THEOREM WakeupsArrive == Spec => []NoLostWakeup
<1>1. OnceInv => NoLostWakeup
  BY DEF OnceInv
<1> QED
  BY <1>1, OnceInvariance, PTL

-----------------------------------------------------------------------------
(* mRunning and the pthread behind it.                                      *)

\* Every step keeps RunningKnown.
LEMMA RunningStep ==
  ASSUME TypeOK, RunningKnown, [Next]_vars
  PROVE  RunningKnown'
<1> USE ThreadAssumption DEF TypeOK, RunningKnown, Live, object, ghosts
<1>1. ASSUME NEW c \in Callers, RunThread(c)
      PROVE  RunningKnown'
  BY <1>1 DEF RunThread, WGoto
<1>2. ASSUME NEW c \in Callers, RequestExit(c) \/ RequestExitAndWait(c) \/ Join(c)
      PROVE  RunningKnown'
  BY <1>2 DEF RequestExit, RequestExitAndWait, Join
<1>3. ASSUME NEW c \in Callers, SpuriousWake(c) \/ Resume(c)
      PROVE  RunningKnown'
  BY <1>3 DEF SpuriousWake, Resume
<1>4. ASSUME NEW w \in Pthreads, ReadyToRun(w)
      PROVE  RunningKnown'
  BY <1>4 DEF ReadyToRun, WGoto
<1>5. ASSUME NEW w \in Pthreads, FirstIteration(w)
      PROVE  RunningKnown'
  BY <1>5 DEF FirstIteration, WGoto
<1>6. ASSUME NEW w \in Pthreads, NEW r \in LoopResults, LoopReturns(w, r)
      PROVE  RunningKnown'
  BY <1>6 DEF LoopReturns, WGoto
<1>7. ASSUME NEW w \in Pthreads, ExitFromLoop(w) \/ JoinFromLoop(w) \/ SelfResume(w)
      PROVE  RunningKnown'
  BY <1>7 DEF ExitFromLoop, JoinFromLoop, SelfResume, WGoto
<1>8. ASSUME NEW w \in Pthreads, AfterLoop(w)
      PROVE  RunningKnown'
  <2>1. CASE Leaving(w)
    BY <1>8, <2>1 DEF AfterLoop, Announce
  <2>2. CASE ~Leaving(w)
    BY <1>8, <2>2 DEF AfterLoop, Leaving, GoesOn, WGoto
  <2> QED
    BY <2>1, <2>2
<1>9. CASE UNCHANGED vars
  BY <1>9 DEF vars
<1> QED
  BY <1>1, <1>2, <1>3, <1>4, <1>5, <1>6, <1>7, <1>8, <1>9 DEF Next, Caller, Worker

\* A pthread that ends without an announcement is the only way in which mRunning
\* stays true with no pthread behind it: otherwise isRunning() is true only of a
\* thread that runs, for threadLoop()s of both styles and any exit requests.
THEOREM RunningExact == Spec => []RunningKnown
<1>1. Init => RunningKnown
  BY DEF Init, RunningKnown
<1>2. TypeOK /\ RunningKnown /\ [Next]_vars => RunningKnown'
  BY RunningStep
<1> QED
  BY <1>1, <1>2, TypeCorrect, PTL DEF Spec
=============================================================================
