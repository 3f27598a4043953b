-------------------------- MODULE CheckQueueProofs --------------------------
(***************************************************************************)
(* The safety of the check queue, for any number of workers, masters and   *)
(* checks and any batch size.                                              *)
(***************************************************************************)
EXTENDS CheckQueue, FiniteSetTheorems, TLAPS

Outstanding == queue \cup UNION {vChecks[t] : t \in Thread}

\* Only a thread between Take and CleanUp has a batch, and then it is not empty.
BatchWhere ==
  \A t \in Thread : /\ pc[t] = "running" => vChecks[t] # {}
                    /\ pc[t] \notin {"lock", "running"} => vChecks[t] = {}

\* One thread holds the mutex, one master ControlMutex; a worker is always in Loop.
Exclusive ==
  /\ \A t, u \in Thread : pc[t] = "test" /\ pc[u] = "test" => t = u
  /\ \A t, u \in Thread : Control(t) /\ Control(u) => t = u
  /\ \A w \in Worker : pc[w] \notin {"outside", "adding"}

\* nTodo counts the checks that are queued or in a batch, all of them of this round.
TodoExact == nTodo = Cardinality(Outstanding) /\ Outstanding \subseteq round

\* What fAllOk and a finished batch's fOk say about the checks behind them.
ResultSoFar ==
  /\ executed \subseteq round
  /\ fAllOk /\ (\E t \in Thread : Control(t)) =>
       /\ round \ Outstanding \subseteq executed
       /\ (round \ Outstanding) \cap Bad = {}
  /\ ~fAllOk => round \cap Bad # {}
  /\ \A t \in Thread : vChecks[t] # {} /\ ~fOk[t] => round \cap Bad # {}
  /\ \A t \in Thread : pc[t] = "lock" /\ vChecks[t] # {} /\ fOk[t] =>
       vChecks[t] \subseteq executed /\ vChecks[t] \cap Bad = {}

\* The threads nIdle and nTotal count; an interrupted worker stays counted.
IdleThreads == {t \in Thread : pc[t] \in {"waiting", "woken", "interrupted"}}

LoopThreads ==
  {t \in Thread : \/ pc[t] \in {"test", "waiting", "woken", "running", "interrupted"}
                  \/ vChecks[t] # {}}

CountersExact ==
  nIdle = Cardinality(IdleThreads) /\ nTotal = Cardinality(LoopThreads)

IInv == /\ TypeOK /\ BatchWhere /\ Exclusive /\ NoCheckTwice /\ TodoExact
        /\ ResultSoFar /\ CountersExact /\ NothingLeftOver /\ ResultExact

----------------------------------------------------------------------------
USE DEF Thread

\* The sets the counters count are finite.
LEMMA Finite ==
  ASSUME TypeOK
  PROVE  /\ IsFiniteSet(Outstanding) /\ Outstanding \subseteq Check
         /\ IsFiniteSet(Thread) /\ IsFiniteSet(IdleThreads) /\ IsFiniteSet(LoopThreads)
         /\ \A t \in Thread : IsFiniteSet(vChecks[t])
<1>1. Outstanding \subseteq Check
  BY DEF TypeOK, Outstanding
<1>2. IsFiniteSet(Thread)
  BY FS_Union, ThreadsAssumption, Zenon DEF ThreadsAssumption
<1>3. IdleThreads \subseteq Thread /\ LoopThreads \subseteq Thread
  BY DEF IdleThreads, LoopThreads
<1>4. \A t \in Thread : vChecks[t] \subseteq Check
  BY DEF TypeOK
<1> QED
  BY <1>1, <1>2, <1>3, <1>4, FS_Subset, ChecksAssumption DEF ChecksAssumption

\* A new control object starts an empty round: nothing is left of the last one.
LEMMA BeginStep ==
  ASSUME IInv, NEW m \in Master, Begin(m)
  PROVE  IInv'
<1> USE DEF IInv
<1>0. Outstanding' = Outstanding /\ Outstanding = {} /\ fAllOk
  BY DEF Outstanding, NothingLeftOver, Begin
<1>7. CountersExact'
  BY Zenon DEF CountersExact, IdleThreads, LoopThreads, TypeOK, Begin
<1>1. TypeOK'
  BY <1>7, Finite DEF TypeOK, Places, Begin
<1>2. BatchWhere'
  BY DEF BatchWhere, TypeOK, Begin
<1>3. Exclusive'
  BY ThreadsAssumption DEF ThreadsAssumption, Exclusive, Control, Unlocked, TypeOK, Begin
<1>4. NoCheckTwice'
  BY DEF NoCheckTwice, TypeOK, Begin
<1>5. TodoExact'
  BY <1>0, FS_EmptySet, Zenon DEF TodoExact, Begin
<1>6. ResultSoFar'
  BY <1>0 DEF ResultSoFar, Outstanding, TypeOK, Begin
<1>8. NothingLeftOver'
  BY DEF NothingLeftOver, Control, TypeOK, Begin
<1>9. ResultExact'
  BY DEF ResultExact, Control, TypeOK, Begin
<1> QED
  BY <1>1, <1>2, <1>3, <1>4, <1>5, <1>6, <1>7, <1>8, <1>9

\* Add queues checks the round did not have; it only wakes workers.
LEMMA AddStep ==
  ASSUME IInv, NEW m \in Master, NEW checks \in SUBSET (Check \ round), Add(m, checks)
  PROVE  IInv'
<1> USE DEF IInv
<1>w. PICK woken \in Notified(Cardinality(checks)) :
            pc' = [t \in Thread |-> IF t \in woken THEN "woken" ELSE pc[t]]
  BY Zenon DEF Add
<1>s. woken \subseteq SleepingWorkers
  BY DEF Notified
<1>p. /\ pc' \in [Thread -> Places]
      /\ \A t \in Thread : \/ pc'[t] = pc[t]
                           \/ t \in Worker /\ pc[t] = "waiting" /\ pc'[t] = "woken"
  BY <1>w, <1>s DEF SleepingWorkers, TypeOK, Places
<1>u. UNCHANGED <<vChecks, fOk, fAllOk, nIdle, nTotal, executed, answer>>
  BY DEF Add
<1>q. /\ queue' = queue \cup checks /\ round' = round \cup checks
      /\ nTodo' = nTodo + Cardinality(checks)
  BY DEF Add
<1>m. Control(m) /\ Control(m)'
  BY <1>p DEF Control, Add
<1>0. /\ Outstanding' = Outstanding \cup checks /\ Outstanding \cap checks = {}
      /\ IsFiniteSet(checks)
  <2>1. Outstanding' = Outstanding \cup checks
    BY <1>q, <1>u DEF Outstanding
  <2>2. Outstanding \cap checks = {}
    BY DEF TodoExact
  <2> QED
    BY <2>1, <2>2, FS_Subset, ChecksAssumption DEF ChecksAssumption
<1>7. CountersExact'
  <2>1. IdleThreads' = IdleThreads /\ LoopThreads' = LoopThreads
    BY <1>p, <1>u DEF IdleThreads, LoopThreads
  <2> QED
    BY <2>1, <1>u, Zenon DEF CountersExact
<1>1. TypeOK'
  <2>1. Cardinality(checks) \in Nat
    BY <1>0, FS_CardinalityType
  <2> QED
    BY <2>1, <1>p, <1>q, <1>u DEF TypeOK
<1>2. BatchWhere'
  BY <1>p, <1>u DEF BatchWhere
<1>3. Exclusive'
  BY <1>p, ThreadsAssumption DEF ThreadsAssumption, Exclusive, Control
<1>4. NoCheckTwice'
  <2>1. \A t \in Thread : vChecks[t] \cap checks = {}
    BY <1>0 DEF Outstanding
  <2> QED
    BY <2>1, <1>q, <1>u DEF NoCheckTwice
<1>5. TodoExact'
  <2>1. Cardinality(Outstanding \cup checks) = Cardinality(Outstanding) + Cardinality(checks)
    <3>1. /\ Cardinality(Outstanding) \in Nat /\ Cardinality(checks) \in Nat
          /\ Cardinality(Outstanding \cap checks) = 0
      BY <1>0, Finite, FS_CardinalityType, FS_EmptySet, Zenon
    <3>2. Cardinality(Outstanding \cup checks) =
            Cardinality(Outstanding) + Cardinality(checks) - Cardinality(Outstanding \cap checks)
      BY <1>0, Finite, FS_Union, Zenon
    <3> QED
      BY <3>1, <3>2
  <2> QED
    BY <2>1, <1>0, <1>q DEF TodoExact
<1>6. ResultSoFar'
  <2>1. round' \ Outstanding' = round \ Outstanding
    BY <1>0, <1>q DEF TodoExact
  <2>2. pc'[m] = pc[m] /\ \A t \in Thread : pc'[t] = "lock" => pc[t] = "lock"
    BY <1>p, ThreadsAssumption DEF ThreadsAssumption
  <2>3. \E t \in Thread : Control(t)
    BY <1>m
  <2> QED
    BY <2>1, <2>2, <2>3, <1>q, <1>u DEF ResultSoFar
<1>8. NothingLeftOver'
  BY <1>m DEF NothingLeftOver
<1>9. ResultExact'
  BY <1>m DEF ResultExact
<1> QED
  BY <1>1, <1>2, <1>3, <1>4, <1>5, <1>6, <1>7, <1>8, <1>9

\* The master enters Loop.
LEMMA WaitStep ==
  ASSUME IInv, NEW m \in Master, Wait(m)
  PROVE  IInv'
<1> USE DEF IInv
<1>0. Outstanding' = Outstanding
  BY DEF Outstanding, Wait
<1>7. CountersExact'
  BY Zenon DEF CountersExact, IdleThreads, LoopThreads, TypeOK, Wait
<1>1. TypeOK'
  BY <1>7, Finite DEF TypeOK, Places, Wait
<1>2. BatchWhere'
  BY DEF BatchWhere, TypeOK, Wait
<1>3. Exclusive'
  BY ThreadsAssumption DEF ThreadsAssumption, Exclusive, Control, Unlocked, TypeOK, Wait
<1>4. NoCheckTwice'
  BY DEF NoCheckTwice, TypeOK, Wait
<1>5. TodoExact'
  BY <1>0 DEF TodoExact, TypeOK, Wait
<1>6. ResultSoFar'
  BY <1>0 DEF ResultSoFar, BatchWhere, Control, TypeOK, Wait
<1>8. NothingLeftOver'
  BY DEF NothingLeftOver, Control, TypeOK, Wait
<1>9. ResultExact'
  BY DEF ResultExact, Control, TypeOK, Wait
<1> QED
  BY <1>1, <1>2, <1>3, <1>4, <1>5, <1>6, <1>7, <1>8, <1>9

\* A thread that enters Loop is counted.
LEMMA FirstRunStep ==
  ASSUME IInv, NEW t \in Thread, FirstRun(t)
  PROVE  IInv'
<1> USE DEF IInv
<1>0. Outstanding' = Outstanding
  BY DEF Outstanding, FirstRun
<1>7. CountersExact'
  <2>1. IdleThreads' = IdleThreads
    BY DEF IdleThreads, FirstRun, TypeOK
  <2>2. LoopThreads' = LoopThreads \cup {t} /\ t \notin LoopThreads
    BY DEF LoopThreads, FirstRun, TypeOK
  <2>3. Cardinality(LoopThreads \cup {t}) = Cardinality(LoopThreads) + 1
    BY <2>2, Finite, FS_AddElement, Zenon
  <2> QED
    BY <2>1, <2>2, <2>3 DEF CountersExact, FirstRun
<1>1. TypeOK'
  BY <1>7, Finite DEF TypeOK, Places, FirstRun
<1>2. BatchWhere'
  BY DEF BatchWhere, TypeOK, FirstRun
<1>3. Exclusive'
  BY ThreadsAssumption DEF ThreadsAssumption, Exclusive, Control, Unlocked, TypeOK, FirstRun
<1>4. NoCheckTwice'
  BY DEF NoCheckTwice, TypeOK, FirstRun
<1>5. TodoExact'
  BY <1>0 DEF TodoExact, TypeOK, FirstRun
<1>6. ResultSoFar'
  BY <1>0 DEF ResultSoFar, BatchWhere, Control, TypeOK, FirstRun
<1>8. NothingLeftOver'
  BY DEF NothingLeftOver, Control, TypeOK, FirstRun
<1>9. ResultExact'
  BY DEF ResultExact, Control, TypeOK, FirstRun
<1> QED
  BY <1>1, <1>2, <1>3, <1>4, <1>5, <1>6, <1>7, <1>8, <1>9

\* A batch that was run is accounted for, with its result.
LEMMA CleanUpStep ==
  ASSUME IInv, NEW t \in Thread, CleanUp(t)
  PROVE  IInv'
<1> USE DEF IInv
<1>p. /\ pc' \in [Thread -> Places] /\ pc'[t] = "test" /\ pc[t] = "lock"
      /\ \A u \in Thread : u # t => \/ pc'[u] = pc[u]
                                    \/ u \in Master /\ pc[u] = "waiting" /\ pc'[u] = "woken"
  BY DEF CleanUp, TypeOK, Places
<1>c. \A u \in Thread : Control(u)' <=> Control(u)
  BY <1>p DEF Control
<1>v. /\ vChecks'[t] = {} /\ vChecks[t] # {} /\ \A u \in Thread : u # t => vChecks'[u] = vChecks[u]
      /\ vChecks' \in [Thread -> SUBSET Check] /\ vChecks' = [vChecks EXCEPT ![t] = {}]
  BY DEF CleanUp, TypeOK
<1>u. UNCHANGED <<fOk, queue, nIdle, nTotal, round, executed, answer>>
  BY DEF CleanUp
<1>q. nTodo' = nTodo - Cardinality(vChecks[t]) /\ fAllOk' = (fAllOk /\ fOk[t])
  BY DEF CleanUp, nNow
<1>0. Outstanding' = Outstanding \ vChecks[t] /\ vChecks[t] \subseteq Outstanding
  BY <1>u, <1>v DEF Outstanding, NoCheckTwice
<1>7. CountersExact'
  <2>1. IdleThreads' = IdleThreads /\ LoopThreads' = LoopThreads
    BY <1>p, <1>v DEF IdleThreads, LoopThreads
  <2> QED
    BY <2>1, <1>u, Zenon DEF CountersExact
<1>1. TypeOK'
  <2>1. nTodo' \in Nat
    <3>1. /\ Cardinality(Outstanding) \in Nat /\ Cardinality(vChecks[t]) \in Nat
          /\ Cardinality(vChecks[t]) <= Cardinality(Outstanding)
      BY <1>0, Finite, FS_CardinalityType, FS_Subset
    <3> QED
      BY <3>1, <1>q DEF TodoExact
  <2>2. fAllOk' \in BOOLEAN
    BY <1>q DEF TypeOK
  <2> QED
    BY <2>1, <2>2, <1>p, <1>v, <1>u DEF TypeOK
<1>2. BatchWhere'
  BY <1>p, <1>v DEF BatchWhere
<1>3. Exclusive'
  BY ThreadsAssumption DEF ThreadsAssumption, Exclusive, Control, Unlocked, TypeOK, CleanUp
<1>4. NoCheckTwice'
  BY <1>u, <1>v DEF NoCheckTwice
<1>5. TodoExact'
  <2>1. Cardinality(Outstanding \ vChecks[t]) = Cardinality(Outstanding) - Cardinality(vChecks[t])
    <3>1. Outstanding \cap vChecks[t] = vChecks[t]
      BY <1>0
    <3> QED
      BY <3>1, Finite, FS_Difference, Zenon
  <2> QED
    BY <2>1, <1>0, <1>q, <1>u DEF TodoExact
<1>6. ResultSoFar'
  <2>1. fAllOk' /\ (\E u \in Thread : Control(u)') =>
          /\ round' \ Outstanding' \subseteq executed'
          /\ (round' \ Outstanding') \cap Bad = {}
    BY <1>0, <1>c, <1>p, <1>q, <1>u, <1>v, Zenon DEF ResultSoFar
  <2>2. ~fAllOk' => round' \cap Bad # {}
    BY <1>q, <1>u, <1>v, Zenon DEF ResultSoFar
  <2>3. \A u \in Thread : vChecks'[u] # {} => u # t /\ vChecks'[u] = vChecks[u]
    BY <1>v
  <2>4. \A u \in Thread : pc'[u] = "lock" => pc[u] = "lock"
    BY <1>p
  <2> QED
    BY <2>1, <2>2, <2>3, <2>4, <1>u DEF ResultSoFar
<1>8. NothingLeftOver'
  <2>1. vChecks[t] = {} \/ \E u \in Thread : Control(u)
    BY DEF NothingLeftOver
  <2> QED
    BY <2>1, <1>c, <1>v DEF NothingLeftOver
<1>9. ResultExact'
  <2>1. \E u \in Thread : Control(u)
    BY <1>v DEF NothingLeftOver
  <2> QED
    BY <2>1, <1>c DEF ResultExact
<1> QED
  BY <1>1, <1>2, <1>3, <1>4, <1>5, <1>6, <1>7, <1>8, <1>9

\* Wait returns when nothing is outstanding: its answer is the round's.
LEMMA ReturnStep ==
  ASSUME IInv, NEW t \in Thread, Return(t)
  PROVE  IInv'
<1> USE DEF IInv
<1>p. /\ pc' = [pc EXCEPT ![t] = "outside"] /\ pc[t] = "test" /\ t \in Master
      /\ nTodo = 0 /\ UNCHANGED <<vChecks, queue, nTodo, nIdle, round, executed>>
      /\ fOk' = [fOk EXCEPT ![t] = TRUE] /\ fAllOk' = TRUE /\ answer' = fAllOk
      /\ nTotal' = nTotal - 1
  BY DEF Return, MayReturn, AfterReturn
<1>0. Outstanding' = Outstanding /\ Outstanding = {}
  <2>1. Outstanding' = Outstanding
    BY <1>p DEF Outstanding
  <2>2. Cardinality(Outstanding) = 0
    BY <1>p DEF TodoExact
  <2> QED
    BY <2>1, <2>2, Finite, FS_EmptySet, Zenon
<1>c. Control(t) /\ \A u \in Thread : ~Control(u)'
  BY <1>p DEF Control, Exclusive, TypeOK
<1>e. queue = {} /\ \A u \in Thread : vChecks[u] = {}
  BY <1>0 DEF Outstanding
<1>7. CountersExact'
  <2>1. IdleThreads' = IdleThreads
    BY <1>p DEF IdleThreads, TypeOK
  <2>2. LoopThreads' = LoopThreads \ {t} /\ t \in LoopThreads
    BY <1>p, <1>e DEF LoopThreads, TypeOK
  <2>3. Cardinality(LoopThreads \ {t}) = Cardinality(LoopThreads) - 1
    BY <2>2, Finite, FS_RemoveElement, Zenon
  <2> QED
    BY <2>1, <2>2, <2>3, <1>p DEF CountersExact
<1>1. TypeOK'
  <2>1. nTotal' \in Nat
    <3>1. t \in LoopThreads
      BY <1>p DEF LoopThreads
    <3>2. Cardinality(LoopThreads) \in Nat /\ Cardinality(LoopThreads) # 0
      BY <3>1, Finite, FS_CardinalityType, FS_EmptySet
    <3> QED
      BY <3>2, <1>p DEF CountersExact
  <2> QED
    BY <2>1, <1>p DEF TypeOK, Places
<1>2. BatchWhere'
  BY DEF BatchWhere, TypeOK, Return
<1>3. Exclusive'
  BY <1>p, ThreadsAssumption DEF ThreadsAssumption, Exclusive, Control, TypeOK
<1>4. NoCheckTwice'
  BY DEF NoCheckTwice, TypeOK, Return
<1>5. TodoExact'
  BY <1>0 DEF TodoExact, TypeOK, Return
<1>6. ResultSoFar'
  BY <1>c, <1>e, <1>p DEF ResultSoFar
<1>8. NothingLeftOver'
  BY <1>e, <1>p DEF NothingLeftOver
<1>9. ResultExact'
  <2>1. fAllOk => round \subseteq executed /\ round \cap Bad = {}
    BY <1>0, <1>c DEF ResultSoFar
  <2> QED
    BY <2>1, <1>p, Zenon DEF ResultExact, ResultSoFar, TypeOK
<1> QED
  BY <1>1, <1>2, <1>3, <1>4, <1>5, <1>6, <1>7, <1>8, <1>9

\* A thread that waits is idle.
LEMMA SleepStep ==
  ASSUME IInv, NEW t \in Thread, Sleep(t)
  PROVE  IInv'
<1> USE DEF IInv
<1>0. Outstanding' = Outstanding
  BY DEF Outstanding, Sleep
<1>7. CountersExact'
  <2>1. LoopThreads' = LoopThreads
    BY DEF LoopThreads, Sleep, TypeOK
  <2>2. IdleThreads' = IdleThreads \cup {t} /\ t \notin IdleThreads
    BY DEF IdleThreads, Sleep, TypeOK
  <2>3. Cardinality(IdleThreads \cup {t}) = Cardinality(IdleThreads) + 1
    BY <2>2, Finite, FS_AddElement, Zenon
  <2> QED
    BY <2>1, <2>2, <2>3 DEF CountersExact, Sleep
<1>1. TypeOK'
  BY <1>7, Finite DEF TypeOK, Places, Sleep
<1>2. BatchWhere'
  BY DEF BatchWhere, TypeOK, Sleep
<1>3. Exclusive'
  BY ThreadsAssumption DEF ThreadsAssumption, Exclusive, Control, Unlocked, TypeOK, Sleep
<1>4. NoCheckTwice'
  BY DEF NoCheckTwice, TypeOK, Sleep
<1>5. TodoExact'
  BY <1>0 DEF TodoExact, TypeOK, Sleep
<1>6. ResultSoFar'
  BY <1>0 DEF ResultSoFar, BatchWhere, Control, TypeOK, Sleep
<1>8. NothingLeftOver'
  BY DEF NothingLeftOver, Control, TypeOK, Sleep
<1>9. ResultExact'
  BY DEF ResultExact, Control, TypeOK, Sleep
<1> QED
  BY <1>1, <1>2, <1>3, <1>4, <1>5, <1>6, <1>7, <1>8, <1>9

\* A thread that wakes is not idle any more.
LEMMA WakeStep ==
  ASSUME IInv, NEW t \in Thread, Wake(t)
  PROVE  IInv'
<1> USE DEF IInv
<1>0. Outstanding' = Outstanding
  BY DEF Outstanding, Wake
<1>7. CountersExact'
  <2>1. LoopThreads' = LoopThreads
    BY DEF LoopThreads, Wake, TypeOK
  <2>2. IdleThreads' = IdleThreads \ {t} /\ t \in IdleThreads
    BY DEF IdleThreads, Wake, TypeOK
  <2>3. Cardinality(IdleThreads \ {t}) = Cardinality(IdleThreads) - 1
    BY <2>2, Finite, FS_RemoveElement, Zenon
  <2> QED
    BY <2>1, <2>2, <2>3 DEF CountersExact, Wake
<1>1. TypeOK'
  <2>1. nIdle' \in Nat
    <3>1. t \in IdleThreads
      BY DEF IdleThreads, Wake
    <3>2. Cardinality(IdleThreads) \in Nat /\ Cardinality(IdleThreads) # 0
      BY <3>1, Finite, FS_CardinalityType, FS_EmptySet
    <3> QED
      BY <3>2 DEF CountersExact, Wake
  <2> QED
    BY <2>1 DEF TypeOK, Places, Wake
<1>2. BatchWhere'
  BY DEF BatchWhere, TypeOK, Wake
<1>3. Exclusive'
  BY ThreadsAssumption DEF ThreadsAssumption, Exclusive, Control, Unlocked, TypeOK, Wake
<1>4. NoCheckTwice'
  BY DEF NoCheckTwice, TypeOK, Wake
<1>5. TodoExact'
  BY <1>0 DEF TodoExact, TypeOK, Wake
<1>6. ResultSoFar'
  BY <1>0 DEF ResultSoFar, BatchWhere, Control, TypeOK, Wake
<1>8. NothingLeftOver'
  BY DEF NothingLeftOver, Control, TypeOK, Wake
<1>9. ResultExact'
  BY DEF ResultExact, Control, TypeOK, Wake
<1> QED
  BY <1>1, <1>2, <1>3, <1>4, <1>5, <1>6, <1>7, <1>8, <1>9

\* A spurious wake-up changes nothing but the thread's place.
LEMMA SpuriousWakeupStep ==
  ASSUME IInv, NEW t \in Thread, SpuriousWakeup(t)
  PROVE  IInv'
<1> USE DEF IInv
<1>0. Outstanding' = Outstanding
  BY DEF Outstanding, SpuriousWakeup
<1>7. CountersExact'
  BY Zenon DEF CountersExact, IdleThreads, LoopThreads, TypeOK, SpuriousWakeup
<1>1. TypeOK'
  BY <1>7, Finite DEF TypeOK, Places, SpuriousWakeup
<1>2. BatchWhere'
  BY DEF BatchWhere, TypeOK, SpuriousWakeup
<1>3. Exclusive'
  BY ThreadsAssumption DEF ThreadsAssumption, Exclusive, Control, Unlocked, TypeOK, SpuriousWakeup
<1>4. NoCheckTwice'
  BY DEF NoCheckTwice, TypeOK, SpuriousWakeup
<1>5. TodoExact'
  BY <1>0 DEF TodoExact, TypeOK, SpuriousWakeup
<1>6. ResultSoFar'
  BY <1>0 DEF ResultSoFar, BatchWhere, Control, TypeOK, SpuriousWakeup
<1>8. NothingLeftOver'
  BY DEF NothingLeftOver, Control, TypeOK, SpuriousWakeup
<1>9. ResultExact'
  BY DEF ResultExact, Control, TypeOK, SpuriousWakeup
<1> QED
  BY <1>1, <1>2, <1>3, <1>4, <1>5, <1>6, <1>7, <1>8, <1>9

\* An interrupted worker holds no batch, so nothing is lost.
LEMMA InterruptStep ==
  ASSUME IInv, NEW t \in Worker, Interrupt(t)
  PROVE  IInv'
<1> USE DEF IInv
<1>0. Outstanding' = Outstanding
  BY DEF Outstanding, Interrupt
<1>7. CountersExact'
  BY Zenon DEF CountersExact, IdleThreads, LoopThreads, TypeOK, Interrupt
<1>1. TypeOK'
  BY <1>7, Finite DEF TypeOK, Places, Interrupt
<1>2. BatchWhere'
  BY DEF BatchWhere, TypeOK, Interrupt
<1>3. Exclusive'
  BY ThreadsAssumption DEF ThreadsAssumption, Exclusive, Control, Unlocked, TypeOK, Interrupt
<1>4. NoCheckTwice'
  BY DEF NoCheckTwice, TypeOK, Interrupt
<1>5. TodoExact'
  BY <1>0 DEF TodoExact, TypeOK, Interrupt
<1>6. ResultSoFar'
  BY <1>0 DEF ResultSoFar, BatchWhere, Control, TypeOK, Interrupt
<1>8. NothingLeftOver'
  BY DEF NothingLeftOver, Control, TypeOK, Interrupt
<1>9. ResultExact'
  BY DEF ResultExact, Control, TypeOK, Interrupt
<1> QED
  BY <1>1, <1>2, <1>3, <1>4, <1>5, <1>6, <1>7, <1>8, <1>9

\* A batch moves from the queue to a thread.
LEMMA TakeStep ==
  ASSUME IInv, NEW t \in Thread, Take(t)
  PROVE  IInv'
<1> USE DEF IInv
<1>k. PICK batch \in SUBSET queue : /\ Cardinality(batch) = BatchSize
                                   /\ vChecks' = [vChecks EXCEPT ![t] = batch]
                                   /\ queue' = queue \ batch
  BY Zenon DEF Take
<1>n. batch # {}
  <2>1. BatchSize # 0
    BY BatchAssumption DEF BatchAssumption, BatchSize
  <2> QED
    BY <2>1, <1>k, FS_EmptySet
<1>p. /\ pc[t] = "test" /\ vChecks[t] = {} /\ pc' = [pc EXCEPT ![t] = "running"]
      /\ fOk' = [fOk EXCEPT ![t] = fAllOk]
      /\ UNCHANGED <<nTodo, fAllOk, nIdle, nTotal, round, executed, answer>>
  BY DEF Take, BatchWhere
<1>v. /\ vChecks'[t] = batch /\ \A u \in Thread : u # t => vChecks'[u] = vChecks[u]
      /\ vChecks' \in [Thread -> SUBSET Check]
  BY <1>k DEF TypeOK
<1>0. Outstanding' = Outstanding
  BY <1>k, <1>p, <1>v DEF Outstanding
<1>c. (\A u \in Thread : Control(u)' <=> Control(u)) /\ \E u \in Thread : Control(u)
  BY <1>k, <1>n, <1>p DEF NothingLeftOver, Control, TypeOK
<1>7. CountersExact'
  <2>1. IdleThreads' = IdleThreads /\ LoopThreads' = LoopThreads
    BY <1>p, <1>v, <1>n DEF IdleThreads, LoopThreads, TypeOK
  <2> QED
    BY <2>1, <1>p, Zenon DEF CountersExact
<1>1. TypeOK'
  BY <1>k, <1>p, <1>v DEF TypeOK, Places
<1>2. BatchWhere'
  BY <1>n, <1>p, <1>v DEF BatchWhere, TypeOK
<1>3. Exclusive'
  BY ThreadsAssumption DEF ThreadsAssumption, Exclusive, Control, Unlocked, TypeOK, Take
<1>4. NoCheckTwice'
  BY <1>k, <1>v DEF NoCheckTwice
<1>5. TodoExact'
  BY <1>0, <1>p DEF TodoExact
<1>6. ResultSoFar'
  <2>1. vChecks'[t] # {} /\ ~fOk'[t] => round' \cap Bad # {}
    BY <1>p DEF ResultSoFar, TypeOK
  <2>2. \A u \in Thread : u # t => /\ pc'[u] = pc[u] /\ fOk'[u] = fOk[u]
                                    /\ vChecks'[u] = vChecks[u]
    BY <1>p, <1>v DEF TypeOK
  <2>3. pc'[t] # "lock"
    BY <1>p DEF TypeOK
  <2> QED
    BY <2>1, <2>2, <2>3, <1>0, <1>c, <1>p DEF ResultSoFar
<1>8. NothingLeftOver'
  BY <1>c DEF NothingLeftOver
<1>9. ResultExact'
  BY <1>c DEF ResultExact
<1> QED
  BY <1>1, <1>2, <1>3, <1>4, <1>5, <1>6, <1>7, <1>8, <1>9

\* A batch is run: all of it, or up to a check that fails.
LEMMA ExecuteStep ==
  ASSUME IInv, NEW t \in Thread, Execute(t)
  PROVE  IInv'
<1> USE DEF IInv
<1>k. PICK ran \in RunOf(vChecks[t], fOk[t]) :
            /\ executed' = executed \cup ran
            /\ fOk' = [fOk EXCEPT ![t] = fOk[t] /\ ran \cap Bad = {}]
  BY DEF Execute
<1>r. /\ ran \subseteq vChecks[t]
      /\ fOk[t] /\ ran \cap Bad = {} => ran = vChecks[t]
  <2>1. Cardinality({}) # 1
    BY FS_EmptySet
  <2>2. CASE ~fOk[t]
    BY <2>2, <1>k DEF RunOf
  <2>3. CASE fOk[t] /\ vChecks[t] \cap Bad = {}
    BY <2>3, <1>k, Zenon DEF RunOf
  <2>4. CASE fOk[t] /\ vChecks[t] \cap Bad # {}
    BY <2>1, <2>4, <1>k, Zenon DEF RunOf
  <2> QED
    BY <2>2, <2>3, <2>4
<1>p. /\ pc[t] = "running" /\ vChecks[t] # {} /\ pc' = [pc EXCEPT ![t] = "lock"]
      /\ UNCHANGED <<vChecks, queue, nTodo, fAllOk, nIdle, nTotal, round, answer>>
  BY DEF Execute, BatchWhere
<1>0. Outstanding' = Outstanding /\ vChecks[t] \subseteq round
  BY <1>p DEF Outstanding, TodoExact
<1>f. fOk'[t] = (fOk[t] /\ ran \cap Bad = {}) /\ \A u \in Thread : u # t => fOk'[u] = fOk[u]
  BY <1>k DEF TypeOK
<1>c. (\A u \in Thread : Control(u)' <=> Control(u)) /\ \E u \in Thread : Control(u)
  BY <1>p DEF NothingLeftOver, Control, TypeOK
<1>7. CountersExact'
  <2>1. IdleThreads' = IdleThreads /\ LoopThreads' = LoopThreads
    BY <1>p DEF IdleThreads, LoopThreads, TypeOK
  <2> QED
    BY <2>1, <1>p, Zenon DEF CountersExact
<1>1. TypeOK'
  <2>1. fOk' \in [Thread -> BOOLEAN]
    BY <1>k DEF TypeOK
  <2>2. executed' \subseteq Check
    BY <1>k, <1>r DEF TypeOK
  <2> QED
    BY <2>1, <2>2, <1>p DEF TypeOK, Places
<1>2. BatchWhere'
  BY <1>p DEF BatchWhere, TypeOK
<1>3. Exclusive'
  BY ThreadsAssumption DEF ThreadsAssumption, Exclusive, Control, Unlocked, TypeOK, Execute
<1>4. NoCheckTwice'
  BY <1>p DEF NoCheckTwice
<1>5. TodoExact'
  BY <1>0, <1>p DEF TodoExact
<1>6. ResultSoFar'
  <2>1. executed' \subseteq round' /\ executed \subseteq executed'
    BY <1>k, <1>r, <1>0, <1>p DEF ResultSoFar
  <2>2. ~fOk'[t] => round' \cap Bad # {}
    BY <1>f, <1>r, <1>0, <1>p, Zenon DEF ResultSoFar
  <2>3. fOk'[t] => vChecks[t] \subseteq executed' /\ vChecks[t] \cap Bad = {}
    BY <1>f, <1>k, <1>r, Zenon
  <2>4. \A u \in Thread : u # t => pc'[u] = pc[u]
    BY <1>p DEF TypeOK
  <2> QED
    BY <2>1, <2>2, <2>3, <2>4, <1>0, <1>c, <1>f, <1>p, Zenon DEF ResultSoFar
<1>8. NothingLeftOver'
  BY <1>c DEF NothingLeftOver
<1>9. ResultExact'
  BY <1>c DEF ResultExact
<1> QED
  BY <1>1, <1>2, <1>3, <1>4, <1>5, <1>6, <1>7, <1>8, <1>9

----------------------------------------------------------------------------
\* Before the first block nothing is queued and nobody holds a check.
LEMMA InitIInv == Init => IInv
<1> SUFFICES ASSUME Init PROVE IInv
  OBVIOUS
<1>1. Outstanding = {} /\ Cardinality({}) = 0
  BY FS_EmptySet DEF Outstanding, Init
<1>2. IdleThreads = {} /\ LoopThreads = {}
  BY ThreadsAssumption DEF ThreadsAssumption, IdleThreads, LoopThreads, Init
<1>3. TypeOK
  BY DEF TypeOK, Places, Init
<1>4. BatchWhere /\ NoCheckTwice /\ NothingLeftOver /\ ResultExact
  BY DEF BatchWhere, NoCheckTwice, NothingLeftOver, ResultExact, Init
<1>5. Exclusive
  BY ThreadsAssumption DEF ThreadsAssumption, Exclusive, Control, Init
<1>6. TodoExact /\ CountersExact
  BY <1>1, <1>2 DEF TodoExact, CountersExact, Init
<1>7. ResultSoFar
  BY <1>1 DEF ResultSoFar, Init
<1> QED
  BY <1>3, <1>4, <1>5, <1>6, <1>7 DEF IInv

\* Every step of a master, a worker or the shutdown keeps the invariant.
LEMMA NextIInv == IInv /\ [Next]_vars => IInv'
<1> SUFFICES ASSUME IInv, [Next]_vars PROVE IInv'
  OBVIOUS
<1>1. ASSUME NEW m \in Master, Begin(m) \/ Wait(m) PROVE IInv'
  BY <1>1, BeginStep, WaitStep
<1>2. ASSUME NEW m \in Master, NEW checks \in SUBSET (Check \ round), Add(m, checks) PROVE IInv'
  BY <1>2, AddStep
<1>3. ASSUME NEW t \in Thread, Loop(t) PROVE IInv'
  BY <1>3, FirstRunStep, CleanUpStep, ReturnStep, SleepStep, WakeStep, TakeStep, ExecuteStep DEF Loop
<1>4. ASSUME NEW t \in Thread, SpuriousWakeup(t) PROVE IInv'
  BY <1>4, SpuriousWakeupStep
<1>5. ASSUME NEW w \in Worker, Interrupt(w) PROVE IInv'
  BY <1>5, InterruptStep
<1>6. CASE UNCHANGED vars
  <2>1. Outstanding' = Outstanding /\ IdleThreads' = IdleThreads /\ LoopThreads' = LoopThreads
    BY <1>6, Zenon DEF vars, Outstanding, IdleThreads, LoopThreads
  <2> QED
    BY <2>1, <1>6 DEF vars, IInv, TypeOK, BatchWhere, Exclusive, Control, NoCheckTwice, TodoExact,
       ResultSoFar, CountersExact, NothingLeftOver, ResultExact
<1> QED
  BY <1>1, <1>2, <1>3, <1>4, <1>5, <1>6 DEF Next

\* The invariant holds in every state of the queue.
LEMMA Invariance == Spec => []IInv
  BY InitIInv, NextIInv, PTL DEF Spec

\* Wait's answer is the conjunction of the checks of its round, each of which was
\* run when it is true (CCheckQueue::Wait, ConnectBlock's use of it).
THEOREM ResultExactAlways == Spec => []ResultExact
<1>1. IInv => ResultExact
  BY DEF IInv
<1> QED
  BY <1>1, Invariance, PTL

\* A block's checks never reach the next block's round (CCheckQueue::Loop's reset
\* of fAllOk and its test of nTodo).
THEOREM NothingLeftOverAlways == Spec => []NothingLeftOver
<1>1. IInv => NothingLeftOver
  BY DEF IInv
<1> QED
  BY <1>1, Invariance, PTL

\* Every variable keeps its type, the unsigned and signed counters of Loop included.
THEOREM TypeOKAlways == Spec => []TypeOK
<1>1. IInv => TypeOK
  BY DEF IInv
<1> QED
  BY <1>1, Invariance, PTL

\* The checks Loop swaps out of the queue are in one thread's hands only.
THEOREM NoCheckTwiceAlways == Spec => []NoCheckTwice
<1>1. IInv => NoCheckTwice
  BY DEF IInv
<1> QED
  BY <1>1, Invariance, PTL

\* The divisor of Loop's batch size stays within the number of threads.
THEOREM IdleBoundedAlways == Spec => []IdleBounded
<1>1. IInv => IdleBounded
  <2> SUFFICES ASSUME IInv PROVE IdleBounded
    OBVIOUS
  <2>1. IdleThreads \subseteq LoopThreads /\ LoopThreads \subseteq Thread
    BY DEF IdleThreads, LoopThreads
  <2>2. Cardinality(IdleThreads) <= Cardinality(LoopThreads)
    BY <2>1, Finite, FS_Subset, Zenon DEF IInv
  <2>3. Cardinality(LoopThreads) <= Cardinality(Thread)
    BY <2>1, Finite, FS_Subset, Zenon DEF IInv
  <2> QED
    BY <2>2, <2>3, Zenon DEF IInv, CountersExact, IdleBounded
<1> QED
  BY <1>1, Invariance, PTL
=============================================================================
