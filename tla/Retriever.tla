----------------------------- MODULE Retriever ------------------------------
(***************************************************************************)
(* The threaded metric retriever (mretr.c): a controller thread that       *)
(* starts the retriever threads, passes wakeup requests on to them and     *)
(* waits for their end, and the retriever threads, which sample the due    *)
(* blocks of a MetricList.                                                 *)
(*                                                                         *)
(* The threads share an MR_Control under one mutex.  What a thread does    *)
(* between taking and releasing that mutex is one step; a wait on a        *)
(* condition variable ends a step and leaves the thread in a wait set,     *)
(* from which a signal, or nothing at all (POSIX allows a wait to end      *)
(* without a signal), removes it.                                          *)
(***************************************************************************)
EXTENDS MetricList

CONSTANTS Retrievers,   \* the numthreads retriever threads of MR_Init
          NoBlock

ASSUME RetrieversAssumption ==
  IsFiniteSet(Retrievers) /\ Cardinality(Retrievers) <= MaxClients
ASSUME NoBlockAssumption == NoBlock \notin Blocks

VARIABLES control,       \* MR_Control: "none" (not yet or no more allocated), "live"
          retrieverNum,
          retrieverCmd,
          controllerCmd,
          cpc,           \* where the controller thread is
          rpc,           \* where each retriever thread is
          cWaiting,      \* the controller is in the wait set of condController
          rWaiting,      \* retrievers in the wait set of condRetriever
          mb,            \* each retriever's metric block
          currentTime,   \* each retriever's last reading of the clock
          nextTime       \* each retriever's time of the next wakeup

mcvars  == <<control, retrieverNum, retrieverCmd, controllerCmd, cWaiting, rWaiting>>
mrvars  == <<mcvars, cpc, rpc, mb, currentTime, nextTime>>
rlocals == <<mb, currentTime, nextTime>>
chvars  == <<chain, processingState, nextSampleDue, mlmutex, held, sampledAt>>

\* Where a retriever neither exists nor will touch the control structure.
Gone == {"none", "exited"}

MRInit ==
  /\ control = "none"
  /\ retrieverNum = 0
  /\ retrieverCmd = "REGULAR"
  /\ controllerCmd = "REGULAR"
  /\ cpc = "none"
  /\ rpc = [r \in Retrievers |-> "none"]
  /\ cWaiting = FALSE
  /\ rWaiting = {}
  /\ mb = [r \in Retrievers |-> NoBlock]
  /\ currentTime = [r \in Retrievers |-> 0]
  /\ nextTime = [r \in Retrievers |-> 0]

-----------------------------------------------------------------------------
(* The calls of the client (the control thread of gather.c).               *)

\* MR_Init up to and with the creation of the controller thread.
MR_Init ==
  /\ control' = "live"
  /\ retrieverNum' = 0
  /\ retrieverCmd' = "REGULAR"
  /\ controllerCmd' = "REGULAR"
  /\ cWaiting' = FALSE
  /\ rWaiting' = {}
  /\ cpc' = "start"
  /\ rpc' = [r \in Retrievers |-> "none"]
  /\ UNCHANGED rlocals

\* MR_Wakeup; the signal is lost unless the controller waits.
MR_Wakeup ==
  /\ controllerCmd' = "WAKEUP"
  /\ cWaiting' = FALSE
  /\ UNCHANGED <<control, retrieverNum, retrieverCmd, rWaiting, cpc, rpc, rlocals>>

\* MR_Finish, first part: request termination.
MR_FinishRequest ==
  /\ controllerCmd' = "TERMINATE"
  /\ cWaiting' = FALSE
  /\ UNCHANGED <<control, retrieverNum, retrieverCmd, rWaiting, cpc, rpc, rlocals>>

\* MR_Finish, second part: the controller has been joined, free everything.
MR_FinishJoin ==
  /\ cpc = "exited"
  /\ control' = "none"
  /\ cpc' = "none"
  /\ UNCHANGED <<retrieverNum, retrieverCmd, controllerCmd, cWaiting, rWaiting,
                 rpc, rlocals>>

-----------------------------------------------------------------------------
(* MR_Controller.                                                          *)

\* startRetrievers: creates the detached threads; each counts itself later.
StartRetrievers ==
  /\ cpc = "start"
  /\ cpc' = "main"
  /\ rpc' = [r \in Retrievers |-> "enter"]
  /\ UNCHANGED <<mcvars, rlocals>>

\* The test of the main loop, at first and after each end of the wait.
MainLoop(cmd) ==
  IF cmd # "TERMINATE"
  THEN cWaiting' = TRUE  /\ cpc' = "mainwait"
  ELSE cWaiting' = FALSE /\ cpc' = "stop"

ControllerMain ==
  /\ cpc = "main"
  /\ MainLoop(controllerCmd)
  /\ UNCHANGED <<control, retrieverNum, retrieverCmd, controllerCmd, rWaiting, rpc, rlocals>>

ControllerWokenUp ==
  /\ cpc = "mainwait"
  /\ ~cWaiting
  /\ IF controllerCmd = "WAKEUP"
     THEN /\ controllerCmd' = "REGULAR"
          /\ retrieverCmd' = "WAKEUP"
          /\ rWaiting' = {}
     ELSE UNCHANGED <<controllerCmd, retrieverCmd, rWaiting>>
  /\ MainLoop(controllerCmd)
  /\ UNCHANGED <<control, retrieverNum, rpc, rlocals>>

\* Mutant: the controller does not wait for the retrievers.
ExitAtOnce == cWaiting' = FALSE /\ cpc' = "exited"

\* The test of the termination loop.
TerminationLoop ==
  IF retrieverNum # 0
  THEN cWaiting' = TRUE  /\ cpc' = "stopwait"
  ELSE cWaiting' = FALSE /\ cpc' = "exited"

ControllerStop ==
  /\ cpc = "stop"
  /\ retrieverCmd' = "STOPALL"
  /\ rWaiting' = {}
  /\ TerminationLoop
  /\ UNCHANGED <<control, retrieverNum, controllerCmd, rpc, rlocals>>

ControllerStopWokenUp ==
  /\ cpc = "stopwait"
  /\ ~cWaiting
  /\ TerminationLoop
  /\ UNCHANGED <<control, retrieverNum, retrieverCmd, controllerCmd, rWaiting, rpc, rlocals>>

Controller ==
  /\ StartRetrievers \/ ControllerMain \/ ControllerWokenUp \/ ControllerStop
       \/ ControllerStopWokenUp
  /\ UNCHANGED <<chvars, now>>

-----------------------------------------------------------------------------
(* MR_Retriever.                                                           *)

\* A thread of the program can only touch a control structure that exists.
At(r, label) == control = "live" /\ rpc[r] = label

Goto(r, label) == rpc' = [rpc EXCEPT ![r] = label]

\* A pending wakeup is over once a retriever has noticed it.
Noticed(cmd) == IF cmd = "WAKEUP" THEN "REGULAR" ELSE cmd

\* The head of the loop, entered with n retrievers: go on, or leave.
LoopHead(r, n) ==
  /\ retrieverCmd' = Noticed(retrieverCmd)
  /\ IF retrieverCmd' = "REGULAR"
     THEN Goto(r, "time") /\ retrieverNum' = n
     ELSE Goto(r, "signal") /\ retrieverNum' = n - 1
  /\ UNCHANGED <<control, controllerCmd, cWaiting, rWaiting, cpc, rlocals, chvars, now>>

\* The new thread makes itself visible and enters the loop.
Enter(r)    == At(r, "enter") /\ LoopHead(r, retrieverNum + 1)
Continue(r) == At(r, "loop")  /\ LoopHead(r, retrieverNum)

\* After its last unlock the thread wakes the controller up.
SignalController(r) ==
  /\ At(r, "signal")
  /\ cWaiting' = FALSE
  /\ Goto(r, "exited")
  /\ UNCHANGED <<control, retrieverNum, retrieverCmd, controllerCmd, rWaiting, cpc,
                 rlocals, chvars, now>>

\* The thread comes to use a control structure that was freed: undefined
\* behaviour, of which the model follows only that the thread is lost.
UseFreedControl(r) ==
  /\ control = "none"
  /\ rpc[r] \notin Gone
  /\ Goto(r, "exited")
  /\ UNCHANGED <<mcvars, cpc, rlocals, chvars, now>>

ReadTime(r) ==
  /\ At(r, "time")
  /\ currentTime' = [currentTime EXCEPT ![r] = now]
  /\ Goto(r, "select")
  /\ UNCHANGED <<mcvars, cpc, mb, nextTime, chvars, now>>

SelectDue(r, b) ==
  /\ At(r, "select")
  /\ ML_SelectNextDue(b, currentTime[r])
  /\ mb' = [mb EXCEPT ![r] = b]
  /\ Goto(r, "sample")
  /\ UNCHANGED <<mcvars, cpc, currentTime, nextTime>>

SelectLater(r, b) ==
  /\ At(r, "select")
  /\ ML_ReserveNextDue(b, currentTime[r])
  /\ nextTime' = [nextTime EXCEPT ![r] = nextSampleDue[b]]
  /\ Goto(r, "nap")
  /\ UNCHANGED <<mcvars, cpc, mb, currentTime>>

SelectNothing(r) ==
  /\ At(r, "select")
  /\ ML_NothingDue(currentTime[r])
  /\ Goto(r, "sleep")
  /\ UNCHANGED <<mcvars, cpc, rlocals>>

\* sleepuntil(mc, 0): waits once, without a look at retrieverCmd.
Sleep(r) ==
  /\ At(r, "sleep")
  /\ rWaiting' = rWaiting \union {r}
  /\ Goto(r, "sleeping")
  /\ UNCHANGED <<control, retrieverNum, retrieverCmd, controllerCmd, cWaiting, cpc,
                 rlocals, chvars, now>>

SleepEnds(r) ==
  /\ At(r, "sleeping")
  /\ r \notin rWaiting
  /\ retrieverCmd' = Noticed(retrieverCmd)
  /\ Goto(r, "loop")
  /\ UNCHANGED <<control, retrieverNum, controllerCmd, cWaiting, rWaiting, cpc,
                 rlocals, chvars, now>>

\* Mutant: a nap that does not look at retrieverCmd.
NapToTheEnd(r) ==
  /\ \/ At(r, "nap")
     \/ At(r, "napping") /\ (r \notin rWaiting \/ now >= nextTime[r])
  /\ IF now < nextTime[r]
     THEN rWaiting' = rWaiting \union {r} /\ Goto(r, "napping")
     ELSE rWaiting' = rWaiting \ {r} /\ Goto(r, "loop")
  /\ UNCHANGED <<control, retrieverNum, retrieverCmd, controllerCmd, cWaiting, cpc,
                 rlocals, chvars, now>>

\* sleepuntil(mc, nextTime): the test of its loop, at first and whenever a
\* wait has ended by a signal or at its time.
Nap(r) ==
  /\ \/ At(r, "nap")
     \/ At(r, "napping") /\ (r \notin rWaiting \/ now >= nextTime[r])
  /\ IF now < nextTime[r] /\ retrieverCmd = "REGULAR"
     THEN /\ rWaiting' = rWaiting \union {r}
          /\ Goto(r, "napping")
          /\ UNCHANGED retrieverCmd
     ELSE /\ rWaiting' = rWaiting \ {r}
          /\ retrieverCmd' = Noticed(retrieverCmd)
          /\ Goto(r, "loop")
  /\ UNCHANGED <<control, retrieverNum, controllerCmd, cWaiting, cpc, rlocals, chvars, now>>

Relocate(r) ==
  /\ At(r, "relocate")
  /\ ML_Relocate(mb[r])
  /\ mb' = [mb EXCEPT ![r] = NoBlock]
  /\ Goto(r, "loop")
  /\ UNCHANGED <<mcvars, cpc, currentTime, nextTime>>

\* Everything a retriever does but the call of the block's sampler.
RetrieverStep(r) ==
  \/ Enter(r) \/ Continue(r) \/ SignalController(r) \/ UseFreedControl(r)
  \/ ReadTime(r) \/ SelectNothing(r) \/ Sleep(r) \/ SleepEnds(r) \/ Nap(r)
  \/ Relocate(r)
  \/ \E b \in Blocks : SelectDue(r, b) \/ SelectLater(r, b)

\* A wait that ends without a signal.
SpuriousWakeup ==
  /\ \/ cWaiting /\ cWaiting' = FALSE /\ UNCHANGED rWaiting
     \/ \E r \in rWaiting : rWaiting' = rWaiting \ {r} /\ UNCHANGED cWaiting
  /\ UNCHANGED <<control, retrieverNum, retrieverCmd, controllerCmd, cpc, rpc, rlocals,
                 chvars, now>>
=============================================================================
