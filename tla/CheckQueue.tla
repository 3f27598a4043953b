----------------------------- MODULE CheckQueue -----------------------------
(***************************************************************************)
(* The queue of script checks (checkqueue.h).  A master, the thread that   *)
(* connects a block, pushes batches of checks; the worker threads and,     *)
(* once it waits for the result, the master itself take checks off the     *)
(* queue and run them outside the lock.                                    *)
(*                                                                         *)
(* The queue's order is left out: the code says of it that it "doesn't     *)
(* matter", so the queue and a thread's batch are sets of checks.  A batch *)
(* is kept until the thread has accounted for it, so nNow is its size.     *)
(***************************************************************************)
EXTENDS Integers, FiniteSets

CONSTANTS
  Worker,     \* the threads of ThreadScriptCheck
  Master,     \* the threads that connect blocks
  Check,      \* the checks a block may need
  Bad,        \* the checks that return false
  nBatchSize  \* the largest batch a thread takes

Thread == Worker \cup Master

ASSUME ThreadsAssumption ==
  IsFiniteSet(Worker) /\ IsFiniteSet(Master) /\ Worker \cap Master = {}
ASSUME ChecksAssumption == IsFiniteSet(Check) /\ Bad \subseteq Check
ASSUME BatchAssumption == nBatchSize \in Nat \ {0}

VARIABLES
  pc,        \* where each thread is; "test" is the code that holds the mutex
  vChecks,   \* the batch of each thread
  fOk,       \* each thread's own result
  queue,     \* the checks nobody has taken yet
  nTodo,     \* the number of checks not accounted for
  fAllOk,    \* the result of the round so far
  nIdle, nTotal,
  round,     \* the checks added since the control object was made
  executed,  \* the checks of the round that were run
  answer     \* what the last call of Wait returned

vars == <<pc, vChecks, fOk, queue, nTodo, fAllOk, nIdle, nTotal,
          round, executed, answer>>

Places == {"outside", "adding", "lock", "test", "waiting", "woken", "running",
           "interrupted"}

\* A worker starts in Loop; a master has no control object.
Init ==
  /\ pc = [t \in Thread |-> IF t \in Worker THEN "lock" ELSE "outside"]
  /\ vChecks = [t \in Thread |-> {}]
  /\ fOk = [t \in Thread |-> TRUE]
  /\ queue = {} /\ nTodo = 0 /\ fAllOk = TRUE
  /\ nIdle = 0 /\ nTotal = 0
  /\ round = {} /\ executed = {} /\ answer = TRUE

Unlocked == \A t \in Thread : pc[t] # "test"

nNow(t) == Cardinality(vChecks[t])

Control(t) == t \in Master /\ pc[t] # "outside"

----------------------------------------------------------------------------
(* The master: the control object, Add, Wait. *)

\* CCheckQueueControl's constructor takes ControlMutex.
Begin(m) ==
  /\ pc[m] = "outside"
  /\ \A u \in Thread : ~Control(u)
  /\ pc' = [pc EXCEPT ![m] = "adding"]
  /\ round' = {} /\ executed' = {}
  /\ UNCHANGED <<vChecks, fOk, queue, nTodo, fAllOk, nIdle, nTotal, answer>>

SleepingWorkers == {w \in Worker : pc[w] = "waiting"}

\* notify_one for one check, notify_all for more, nothing for none.
Notified(n) ==
  IF n = 1 /\ SleepingWorkers # {} THEN {{w} : w \in SleepingWorkers}
  ELSE IF n > 1 THEN {SleepingWorkers} ELSE {{}}

Add(m, checks) ==
  /\ pc[m] = "adding" /\ Unlocked
  /\ queue' = queue \cup checks
  /\ round' = round \cup checks
  /\ nTodo' = nTodo + Cardinality(checks)
  /\ \E woken \in Notified(Cardinality(checks)) :
       pc' = [t \in Thread |-> IF t \in woken THEN "woken" ELSE pc[t]]
  /\ UNCHANGED <<vChecks, fOk, fAllOk, nIdle, nTotal, executed, answer>>

\* Wait, from ConnectBlock or from the destructor when ConnectBlock returns early.
Wait(m) ==
  /\ pc[m] = "adding"
  /\ pc' = [pc EXCEPT ![m] = "lock"]
  /\ UNCHANGED <<vChecks, fOk, queue, nTodo, fAllOk, nIdle, nTotal,
                 round, executed, answer>>

----------------------------------------------------------------------------
(* Loop. *)

\* The first run of the loop.
FirstRun(t) ==
  /\ pc[t] = "lock" /\ Unlocked /\ vChecks[t] = {}
  /\ nTotal' = nTotal + 1
  /\ pc' = [pc EXCEPT ![t] = "test"]
  /\ UNCHANGED <<vChecks, fOk, queue, nTodo, fAllOk, nIdle,
                 round, executed, answer>>

\* A variant that tells the master only while checks are left.
TellsOnEmptyQueue(t) == queue # {} /\ nTodo = nNow(t) /\ t \notin Master

\* A worker that accounts for the last check tells the master.
TellsMaster(t) == nTodo = nNow(t) /\ t \notin Master

\* A thread accounts for the batch it has run.
CleanUp(t) ==
  /\ pc[t] = "lock" /\ Unlocked /\ vChecks[t] # {}
  /\ fAllOk' = (fAllOk /\ fOk[t])
  /\ nTodo' = nTodo - nNow(t)
  /\ vChecks' = [vChecks EXCEPT ![t] = {}]
  /\ pc' = [u \in Thread |->
              IF u = t THEN "test"
              ELSE IF TellsMaster(t) /\ u \in Master /\ pc[u] = "waiting" THEN "woken"
              ELSE pc[u]]
  /\ UNCHANGED <<fOk, queue, nIdle, nTotal, round, executed, answer>>

\* A variant that does not wait for the batches in hand.
ReturnsOnEmptyQueue(t) == t \in Master

\* The master may leave Loop once nothing is outstanding (fQuit is never set).
MayReturn(t) == t \in Master /\ nTodo = 0

\* A variant that does not reset the result.
KeepsResult(ok) == ok

\* fAllOk is reset for the next round.
AfterReturn(ok) == TRUE

\* The master returns from Loop, its locals end, and its control object releases
\* ControlMutex.
Return(t) ==
  /\ pc[t] = "test" /\ queue = {} /\ MayReturn(t)
  /\ nTotal' = nTotal - 1
  /\ answer' = fAllOk
  /\ fAllOk' = AfterReturn(fAllOk)
  /\ fOk' = [fOk EXCEPT ![t] = TRUE]
  /\ pc' = [pc EXCEPT ![t] = "outside"]
  /\ UNCHANGED <<vChecks, queue, nTodo, nIdle, round, executed>>

\* A variant that does not count the thread as idle.
SleepsUncounted(t) ==
  /\ pc[t] = "test" /\ queue = {} /\ ~MayReturn(t)
  /\ pc' = [pc EXCEPT ![t] = "waiting"]
  /\ UNCHANGED <<vChecks, fOk, queue, nTodo, fAllOk, nIdle, nTotal,
                 round, executed, answer>>

Sleep(t) ==
  /\ pc[t] = "test" /\ queue = {} /\ ~MayReturn(t)
  /\ nIdle' = nIdle + 1
  /\ pc' = [pc EXCEPT ![t] = "waiting"]
  /\ UNCHANGED <<vChecks, fOk, queue, nTodo, fAllOk, nTotal,
                 round, executed, answer>>

\* A variant that does not count the thread as awake.
KeepsIdle(t) ==
  /\ pc[t] = "woken" /\ Unlocked
  /\ pc' = [pc EXCEPT ![t] = "test"]
  /\ UNCHANGED <<vChecks, fOk, queue, nTodo, fAllOk, nIdle, nTotal,
                 round, executed, answer>>

\* A notified thread gets the mutex back and tests the queue again.
Wake(t) ==
  /\ pc[t] = "woken" /\ Unlocked
  /\ nIdle' = nIdle - 1
  /\ pc' = [pc EXCEPT ![t] = "test"]
  /\ UNCHANGED <<vChecks, fOk, queue, nTodo, fAllOk, nTotal,
                 round, executed, answer>>

\* A condition variable may wake a thread that nobody notified.
SpuriousWakeup(t) ==
  /\ pc[t] = "waiting"
  /\ pc' = [pc EXCEPT ![t] = "woken"]
  /\ UNCHANGED <<vChecks, fOk, queue, nTodo, fAllOk, nIdle, nTotal,
                 round, executed, answer>>

\* At shutdown the worker threads are interrupted: the wait throws, and the
\* thread leaves Loop without undoing nIdle++ and nTotal++.
Interrupt(w) ==
  /\ pc[w] \in {"waiting", "woken"} /\ Unlocked
  /\ pc' = [pc EXCEPT ![w] = "interrupted"]
  /\ UNCHANGED <<vChecks, fOk, queue, nTodo, fAllOk, nIdle, nTotal,
                 round, executed, answer>>

\* The number of checks a thread takes: at least one, so that it can end.
BatchSize ==
  LET share == Cardinality(queue) \div (nTotal + nIdle + 1)
  IN  IF share < 1 THEN 1 ELSE IF share > nBatchSize THEN nBatchSize ELSE share

\* A variant that leaves the batch in the queue.
LeavesInQueue(t) ==
  /\ pc[t] = "test" /\ queue # {}
  /\ \E batch \in SUBSET queue :
       Cardinality(batch) = BatchSize /\ vChecks' = [vChecks EXCEPT ![t] = batch]
  /\ fOk' = [fOk EXCEPT ![t] = fAllOk]
  /\ pc' = [pc EXCEPT ![t] = "running"]
  /\ UNCHANGED <<queue, nTodo, fAllOk, nIdle, nTotal, round, executed, answer>>

Take(t) ==
  /\ pc[t] = "test" /\ queue # {}
  /\ \E batch \in SUBSET queue :
       /\ Cardinality(batch) = BatchSize
       /\ vChecks' = [vChecks EXCEPT ![t] = batch]
       /\ queue' = queue \ batch
  /\ fOk' = [fOk EXCEPT ![t] = fAllOk]
  /\ pc' = [pc EXCEPT ![t] = "running"]
  /\ UNCHANGED <<nTodo, fAllOk, nIdle, nTotal, round, executed, answer>>

\* The checks of a batch that are run: up to the first that fails, and none
\* when the round has already failed.
RunOf(batch, ok) ==
  IF ~ok THEN {{}}
  ELSE IF batch \cap Bad = {} THEN {batch}
  ELSE {ran \in SUBSET batch : Cardinality(ran \cap Bad) = 1}

\* The checks run outside the lock and touch nothing shared, so one step will do.
Execute(t) ==
  /\ pc[t] = "running"
  /\ \E ran \in RunOf(vChecks[t], fOk[t]) :
       /\ executed' = executed \cup ran
       /\ fOk' = [fOk EXCEPT ![t] = @ /\ ran \cap Bad = {}]
  /\ pc' = [pc EXCEPT ![t] = "lock"]
  /\ UNCHANGED <<vChecks, queue, nTodo, fAllOk, nIdle, nTotal, round, answer>>

----------------------------------------------------------------------------
Loop(t) ==
  FirstRun(t) \/ CleanUp(t) \/ Return(t) \/ Sleep(t) \/ Wake(t) \/ Take(t) \/ Execute(t)

Next ==
  \/ \E m \in Master : \/ Begin(m)
                       \/ \E checks \in SUBSET (Check \ round) : Add(m, checks)
                       \/ Wait(m)
  \/ \E t \in Thread : Loop(t) \/ SpuriousWakeup(t)
  \/ \E w \in Worker : Interrupt(w)

Spec == Init /\ [][Next]_vars

\* A thread that can run is run, and a thread that wants the mutex while it is
\* released again and again gets it.  Nothing makes a wait end by itself, and
\* nothing makes ConnectBlock add checks.
Fairness ==
  \A t \in Thread : /\ WF_vars(Return(t) \/ Sleep(t) \/ Take(t) \/ Execute(t))
                    /\ SF_vars(FirstRun(t) \/ CleanUp(t) \/ Wake(t))

FairSpec == Spec /\ Fairness

----------------------------------------------------------------------------
(* Properties. *)

\* The type of every variable of CCheckQueue and its threads.
TypeOK ==
  /\ pc \in [Thread -> Places]
  /\ vChecks \in [Thread -> SUBSET Check]
  /\ fOk \in [Thread -> BOOLEAN]
  /\ queue \subseteq Check /\ round \subseteq Check /\ executed \subseteq Check
  /\ nTodo \in Nat /\ nIdle \in Nat /\ nTotal \in Nat
  /\ fAllOk \in BOOLEAN /\ answer \in BOOLEAN

\* Wait returned true exactly when no check added since the control object was
\* made fails, and then every one of them was really run: ConnectBlock relies on
\* this to accept a block's scripts.
ResultExact ==
  (\A t \in Thread : ~Control(t)) =>
    /\ answer <=> round \cap Bad = {}
    /\ answer => executed = round

\* Once Wait has returned nothing of the round is left, in the queue or in a
\* worker's hands, and the state is fresh for the next block: no check of one
\* block can count for another.
NothingLeftOver ==
  (\A t \in Thread : ~Control(t)) =>
    /\ queue = {} /\ nTodo = 0 /\ fAllOk
    /\ \A t \in Thread : vChecks[t] = {}

\* No check is in two hands at once, or in a hand and in the queue.
NoCheckTwice ==
  /\ \A t \in Thread : vChecks[t] \cap queue = {}
  /\ \A t, u \in Thread : t # u => vChecks[t] \cap vChecks[u] = {}

\* nIdle never exceeds nTotal, whoever wakes or is interrupted: the batch size
\* divides by a number that stays within the number of threads.
IdleBounded == nIdle <= nTotal /\ nTotal <= Cardinality(Thread)

\* A master that waits for the result gets it, with any number of workers left.
WaitReturns ==
  \A m \in Master : pc[m] = "lock" ~> pc[m] = "outside"
=============================================================================
