-------------------------- MODULE ThreadPoolProofs --------------------------
(***************************************************************************)
(* Proofs about ThreadPool, for any number of threads and items.           *)
(***************************************************************************)
EXTENDS ThreadPool, FiniteSetTheorems, TLAPS

(***************************************************************************)
(* The destroyer's progress determines the state of the pool, a worker     *)
(* whose wait has expired has made timedOut true, and the counters count.  *)
(***************************************************************************)
DestroyerState ==
    /\ state = "VALID" <=> destroyer = "none"
    /\ state = "FREED" <=> destroyer = "done"

ExpiredTimedOut == (\E w \in Workers : pc[w] = "expired") => timedOut

AliveExact == alive = Cardinality(Alive)
IdleExact  == idle = Cardinality(Idle)
AliveBound == alive <= MaxThreads

IInv ==
    /\ TypeOK
    /\ DestroyerState
    /\ ExpiredTimedOut
    /\ AliveExact
    /\ IdleExact
    /\ AliveBound
    /\ FreedWhenAllLeft
    /\ NoOverrunWithoutTimeout

\* Alloc_threadpool() establishes the invariant.
LEMMA InitIInv == Init => IInv
<1> SUFFICES ASSUME Init PROVE IInv
  OBVIOUS
<1>1. TypeOK
  <2>1. enq \in Seq(Items)
    BY DEF Init
  <2>2. item \in [Workers -> Items \cup {Null} \cup Unwritten]
    BY DEF Init
  <2>3. mustExit \in [Workers -> BOOLEAN] /\ timedOut \in BOOLEAN /\ overrun \in BOOLEAN
    BY Zenon DEF Init
  <2>4. pc \in [Workers -> WorkerPc]
    BY DEF Init, WorkerPc
  <2>5. alive \in Int /\ idle \in Int /\ head \in Nat
    BY DEF Init
  <2>6. QED
    BY <2>1, <2>2, <2>3, <2>4, <2>5, Zenon DEF Init, TypeOK
<1>2. Alive = {} /\ Idle = {}
  BY DEF Init, Alive, Idle, Sleeping
<1>3. AliveExact /\ IdleExact
  BY <1>2, FS_EmptySet DEF AliveExact, IdleExact, Init
<1>4. QED
  BY <1>1, <1>2, <1>3, PoolAssumption
     DEF IInv, Init, DestroyerState, ExpiredTimedOut, AliveBound, FreedWhenAllLeft,
         NoOverrunWithoutTimeout

-----------------------------------------------------------------------------
(***************************************************************************)
(* The sets of live and of idle workers, when some workers move            *)
(***************************************************************************)

LEMMA WorkerSetsFinite ==
  /\ IsFiniteSet(Alive) /\ IsFiniteSet(Idle)
  /\ Cardinality(Alive) \in Nat /\ Cardinality(Idle) \in Nat
<1>1. Alive \subseteq Workers /\ Idle \subseteq Workers
  BY DEF Alive, Idle
<1>2. IsFiniteSet(Alive) /\ IsFiniteSet(Idle)
  BY <1>1, PoolAssumption, FS_Subset
<1>3. QED
  BY <1>2, FS_CardinalityType

\* The type of the program counters, the only part of TypeOK the sets need.
PcType == pc \in [Workers -> WorkerPc]

\* A worker that stays alive and stays outside, or inside, the wait changes no set.
LEMMA SetsKept ==
  ASSUME \A w \in Workers : /\ pc[w] \in {"unborn", "dead"} <=> pc'[w] \in {"unborn", "dead"}
                            /\ pc[w] \in Sleeping <=> pc'[w] \in Sleeping
  PROVE  Alive' = Alive /\ Idle' = Idle
BY DEF Alive, Idle

\* A worker enters the wait.
LEMMA SetsEnter ==
  ASSUME PcType, NEW w \in Workers, pc[w] = "loop", pc' = [pc EXCEPT ![w] = "wait"]
  PROVE  Alive' = Alive /\ Cardinality(Idle') = Cardinality(Idle) + 1
<1>1. Alive' = Alive /\ Idle' = Idle \cup {w} /\ w \notin Idle
  BY DEF Alive, Idle, Sleeping, PcType
<1>2. QED
  BY <1>1, WorkerSetsFinite, FS_AddElement

\* A worker comes back from the wait with an item or without.
LEMMA SetsTake ==
  ASSUME PcType, NEW w \in Workers, pc[w] \in Sleeping,
         NEW x \in {"run", "leave", "loop"}, pc' = [pc EXCEPT ![w] = x]
  PROVE  Alive' = Alive /\ Cardinality(Idle') = Cardinality(Idle) - 1
<1>1. Alive' = Alive /\ Idle' = Idle \ {w} /\ w \in Idle
  BY DEF Alive, Idle, Sleeping, PcType
<1>2. QED
  BY <1>1, WorkerSetsFinite, FS_RemoveElement

\* A worker ends.
LEMMA SetsLeave ==
  ASSUME PcType, NEW w \in Workers, pc[w] = "leave",
         pc'[w] = "dead",
         \A v \in Workers \ {w} : pc'[v] = pc[v] \/ (pc[v] = "wait" /\ pc'[v] = "woken")
  PROVE  Idle' = Idle /\ Cardinality(Alive') = Cardinality(Alive) - 1
<1>1. Idle' = Idle /\ Alive' = Alive \ {w} /\ w \in Alive
  BY DEF Alive, Idle, Sleeping, PcType
<1>2. QED
  BY <1>1, WorkerSetsFinite, FS_RemoveElement

\* A worker is created, and perhaps another one is woken.
LEMMA SetsCreate ==
  ASSUME PcType, NEW w \in Workers, pc[w] = "unborn", pc'[w] = "loop",
         \A v \in Workers \ {w} : pc'[v] = pc[v] \/ (pc[v] = "wait" /\ pc'[v] = "woken")
  PROVE  Idle' = Idle /\ Cardinality(Alive') = Cardinality(Alive) + 1
<1>1. Idle' = Idle /\ Alive' = Alive \cup {w} /\ w \notin Alive
  BY DEF Alive, Idle, Sleeping, PcType
<1>2. QED
  BY <1>1, WorkerSetsFinite, FS_AddElement

-----------------------------------------------------------------------------
(***************************************************************************)
(* Type correctness                                                        *)
(***************************************************************************)

\* The variables of a worker's look at the queue.
LookType ==
    /\ idle \in Int /\ head \in Nat /\ enq \in Seq(Items)
    /\ pc \in [Workers -> WorkerPc]
    /\ item \in [Workers -> Items \cup {Null} \cup Unwritten]
    /\ mustExit \in [Workers -> BOOLEAN]
    /\ overrun \in BOOLEAN

LEMMA TakeType ==
  ASSUME TypeOK, NEW w \in Workers, NEW exit \in BOOLEAN, NEW n \in Int, Take(w, exit, n)
  PROVE  LookType'
<1>1. PICK d \in Front :
        /\ head' = head + 1
        /\ overrun' = (overrun \/ QueueEmpty)
        /\ idle' = n - 1
        /\ item' = [item EXCEPT ![w] = d]
        /\ mustExit' = [mustExit EXCEPT ![w] = exit \/ state = "EXIT"]
        /\ pc' = [pc EXCEPT ![w] = AfterTake(d, exit \/ state = "EXIT")]
        /\ enq' = enq
  BY Zenon DEF Take
<1>2. d \in Items \cup {Null} \cup Unwritten
  BY DEF Front, TypeOK
<1>3. item' \in [Workers -> Items \cup {Null} \cup Unwritten]
  BY <1>1, <1>2 DEF TypeOK
<1>4. mustExit' \in [Workers -> BOOLEAN] /\ overrun' \in BOOLEAN
  BY <1>1, Zenon DEF TypeOK
<1>5. AfterTake(d, exit \/ state = "EXIT") \in WorkerPc
  BY DEF AfterTake, WorkerPc
<1>6. pc' \in [Workers -> WorkerPc]
  BY <1>1, <1>5, Zenon DEF TypeOK
<1>7. idle' \in Int /\ head' \in Nat /\ enq' \in Seq(Items)
  BY <1>1 DEF TypeOK
<1>8. QED
  BY <1>3, <1>4, <1>6, <1>7, Zenon DEF LookType

LEMMA LookForWorkType ==
  ASSUME TypeOK, NEW w \in Workers, NEW n \in Int, LookForWork(w, n)
  PROVE  LookType'
<1>1. CASE QueueEmpty /\ state # "EXIT"
  <2>1. Sleep(w, n)
    BY <1>1 DEF LookForWork
  <2>2. pc' \in [Workers -> WorkerPc]
    BY <2>1 DEF Sleep, TypeOK, WorkerPc
  <2>3. QED
    BY <2>1, <2>2, Zenon DEF Sleep, TypeOK, LookType, queue
<1>2. CASE ~(QueueEmpty /\ state # "EXIT")
  <2>1. Take(w, mustExit[w], n)
    BY <1>2 DEF LookForWork
  <2>2. mustExit[w] \in BOOLEAN
    BY Zenon DEF TypeOK
  <2>3. QED
    BY <2>1, <2>2, TakeType
<1>3. QED
  BY <1>1, <1>2

\* Every step of the pool keeps every variable in its type.
LEMMA TypeStep == TypeOK /\ [Next]_vars => TypeOK'
<1> SUFFICES ASSUME TypeOK, [Next]_vars PROVE TypeOK'
  OBVIOUS
<1>1. ASSUME NEW d \in Items, Dispatch(d) PROVE TypeOK'
  <2>1. pc' \in [Workers -> WorkerPc]
    BY <1>1 DEF Dispatch, Signal, TypeOK, WorkerPc
  <2>2. enq' \in Seq(Items) /\ head' = head
    BY <1>1 DEF Dispatch, Enqueue, TypeOK
  <2>3. alive' \in Int
    BY <1>1 DEF Dispatch, TypeOK
  <2>4. accepted' \in SUBSET Items
    BY <1>1 DEF Dispatch, TypeOK
  <2>5. UNCHANGED <<state, idle, item, mustExit, destroyer, handled, timedOut, overrun>>
    BY <1>1 DEF Dispatch
  <2>6. QED
    BY <2>1, <2>2, <2>3, <2>4, <2>5, Zenon DEF TypeOK
<1>2. ASSUME NEW w \in Workers, Enter(w) \/ Resume(w) \/ Expire(w) PROVE TypeOK'
  <2>1. LookType'
    <3>1. CASE Enter(w)
      <4>1. idle + 1 \in Int
        BY DEF TypeOK
      <4>2. QED
        BY <3>1, <4>1, LookForWorkType DEF Enter
    <3>2. CASE Resume(w)
      BY <3>2, LookForWorkType DEF Resume, TypeOK
    <3>3. CASE Expire(w)
      <4>1. idle \in Int /\ TRUE \in BOOLEAN
        BY DEF TypeOK
      <4>2. QED
        BY <3>3, <4>1, TakeType DEF Expire
    <3>4. QED
      BY <1>2, <3>1, <3>2, <3>3
  <2>2. UNCHANGED <<state, alive, destroyer, history>>
    BY <1>2 DEF Enter, Resume, Expire
  <2>3. QED
    BY <2>1, <2>2, Zenon DEF TypeOK, LookType, history
<1>3. ASSUME NEW w \in Workers, Run(w) PROVE TypeOK'
  <2>1. handled' \in SUBSET Items /\ pc' \in [Workers -> WorkerPc]
    BY <1>3 DEF Run, TypeOK, WorkerPc
  <2>2. QED
    BY <1>3, <2>1, Zenon DEF Run, TypeOK, queue
<1>4. ASSUME NEW w \in Workers, Leave(w) PROVE TypeOK'
  <2>1. alive' \in Int /\ pc' \in [Workers -> WorkerPc]
    BY <1>4 DEF Leave, Broadcast, Woken, TypeOK, WorkerPc
  <2>2. destroyer' \in {"none", "wait", "woken", "done"}
    BY <1>4 DEF Leave, Broadcast, Woken, TypeOK
  <2>3. QED
    BY <1>4, <2>1, <2>2, Zenon DEF Leave, TypeOK, queue, history
<1>5. ASSUME NEW w \in Workers, WaitEnds(w) PROVE TypeOK'
  <2>1. pc' \in [Workers -> WorkerPc]
    BY <1>5 DEF WaitEnds, TypeOK, WorkerPc
  <2>2. timedOut' \in BOOLEAN
    BY <1>5, Zenon DEF WaitEnds, TypeOK
  <2>3. QED
    BY <1>5, <2>1, <2>2, Zenon DEF WaitEnds, TypeOK, queue
<1>6. CASE Destroy \/ DestroyResume \/ DestroyWaitEnds
  <2>1. pc' \in [Workers -> WorkerPc]
    BY <1>6 DEF Destroy, DestroyResume, DestroyWaitEnds, Woken, TypeOK, WorkerPc
  <2>2. state' \in {"VALID", "EXIT", "FREED"} /\ destroyer' \in {"none", "wait", "woken", "done"}
    BY <1>6 DEF Destroy, DestroyResume, DestroyWaitEnds, AwaitWorkers, TypeOK
  <2>3. UNCHANGED <<alive, idle, queue, item, mustExit, history, overrun>>
    BY <1>6 DEF Destroy, DestroyResume, DestroyWaitEnds
  <2>4. QED
    BY <2>1, <2>2, <2>3, Zenon DEF TypeOK, queue, history
<1>7. CASE UNCHANGED vars
  BY <1>7, Zenon DEF vars, TypeOK
<1>8. QED
  BY <1>1, <1>2, <1>3, <1>4, <1>5, <1>6, <1>7 DEF Next, Worker

\* The variables of the pool always have their types.
THEOREM PoolTypeOK == Spec => []TypeOK
<1>1. Init => TypeOK
  BY InitIInv DEF IInv
<1>2. QED
  BY <1>1, TypeStep, PTL DEF Spec

-----------------------------------------------------------------------------
(***************************************************************************)
(* The invariant is inductive                                              *)
(***************************************************************************)

\* A look at the queue from the top of the loop and one from the wait.
LEMMA LookCounts ==
  ASSUME IInv, NEW w \in Workers,
         Enter(w) \/ Resume(w) \/ Expire(w)
  PROVE  AliveExact' /\ IdleExact' /\ ExpiredTimedOut' /\ NoOverrunWithoutTimeout'
<1> USE DEF IInv, PcType
<1>0. /\ PcType /\ alive = Cardinality(Alive) /\ idle = Cardinality(Idle)
      /\ UNCHANGED <<state, alive, destroyer, timedOut>>
  BY DEF TypeOK, AliveExact, IdleExact, Enter, Resume, Expire, history
<1>1. ASSUME NEW n, Sleep(w, n), \/ pc[w] = "loop" /\ n = idle + 1
                                 \/ pc[w] = "woken" /\ n = idle
      PROVE  /\ Cardinality(Alive') = Cardinality(Alive) /\ idle' = Cardinality(Idle')
             /\ \A v \in Workers : pc'[v] = "expired" => pc[v] = "expired"
             /\ overrun' => overrun
  <2>1. pc' = [pc EXCEPT ![w] = "wait"] /\ idle' = n /\ overrun' = overrun
    BY <1>1 DEF Sleep
  <2>2. CASE pc[w] = "loop"
    BY <1>0, <1>1, <2>1, <2>2, SetsEnter, WorkerSetsFinite
  <2>3. CASE pc[w] = "woken"
    <3>1. Alive' = Alive /\ Idle' = Idle
      BY <1>0, <2>1, <2>3 DEF Alive, Idle, Sleeping
    <3>2. QED
      BY <1>0, <1>1, <2>1, <2>3, <3>1
  <2>4. QED
    BY <1>1, <2>2, <2>3
<1>2. ASSUME NEW n, NEW exit, Take(w, exit, n), \/ pc[w] = "loop" /\ n = idle + 1
                                                \/ pc[w] \in {"woken", "expired"} /\ n = idle
      PROVE  /\ Cardinality(Alive') = Cardinality(Alive) /\ idle' = Cardinality(Idle')
             /\ \A v \in Workers : pc'[v] = "expired" => pc[v] = "expired"
             /\ overrun' => overrun \/ QueueEmpty
  <2>1. PICK d \in Front : /\ overrun' = (overrun \/ QueueEmpty)
                           /\ idle' = n - 1
                           /\ pc' = [pc EXCEPT ![w] = AfterTake(d, exit \/ state = "EXIT")]
    BY <1>2, Zenon DEF Take
  <2>2. PICK x \in {"run", "leave", "loop"} : pc' = [pc EXCEPT ![w] = x]
    BY <2>1 DEF AfterTake
  <2>3. CASE pc[w] = "loop"
    <3>1. Alive' = Alive /\ Idle' = Idle
      BY <1>0, <2>2, <2>3 DEF Alive, Idle, Sleeping
    <3>2. idle' = Cardinality(Idle')
      BY <1>0, <1>2, <2>1, <2>3, <3>1, WorkerSetsFinite
    <3>3. \A v \in Workers : pc'[v] = "expired" => pc[v] = "expired"
      BY <1>0, <2>2
    <3>4. QED
      BY <2>1, <3>1, <3>2, <3>3
  <2>4. CASE pc[w] \in {"woken", "expired"}
    <3>1. pc[w] \in Sleeping
      BY <2>4 DEF Sleeping
    <3>2. Alive' = Alive /\ Cardinality(Idle') = Cardinality(Idle) - 1
      BY <1>0, <2>2, <3>1, SetsTake
    <3>3. \A v \in Workers : pc'[v] = "expired" => pc[v] = "expired"
      BY <1>0, <2>2
    <3>4. idle' = Cardinality(Idle')
      BY <1>0, <1>2, <2>1, <2>4, <3>2
    <3>5. QED
      BY <2>1, <3>2, <3>3, <3>4
  <2>5. QED
    BY <1>2, <2>3, <2>4
<1>3. /\ Cardinality(Alive') = Cardinality(Alive) /\ idle' = Cardinality(Idle')
      /\ \A v \in Workers : pc'[v] = "expired" => pc[v] = "expired"
      /\ overrun' => overrun \/ timedOut \/ state = "EXIT"
  <2>1. CASE Enter(w)
    <3>1. PICK n : pc[w] = "loop" /\ n = idle + 1 /\ LookForWork(w, n)
      BY <2>1, Zenon DEF Enter
    <3>2. CASE QueueEmpty /\ state # "EXIT"
      <4>1. Sleep(w, n)
        BY <3>1, <3>2 DEF LookForWork
      <4>2. QED
        BY <1>1, <3>1, <4>1
    <3>3. CASE ~(QueueEmpty /\ state # "EXIT")
      <4>1. Take(w, mustExit[w], n)
        BY <3>1, <3>3 DEF LookForWork
      <4>2. QED
        BY <1>2, <3>1, <3>3, <4>1
    <3>4. QED
      BY <3>2, <3>3
  <2>2. CASE Resume(w)
    <3>1. pc[w] = "woken" /\ LookForWork(w, idle)
      BY <2>2 DEF Resume
    <3>2. CASE QueueEmpty /\ state # "EXIT"
      BY <1>1, <3>1, <3>2 DEF LookForWork
    <3>3. CASE ~(QueueEmpty /\ state # "EXIT")
      BY <1>2, <3>1, <3>3 DEF LookForWork
    <3>4. QED
      BY <3>2, <3>3
  <2>3. CASE Expire(w)
    <3>1. pc[w] = "expired" /\ Take(w, TRUE, idle)
      BY <2>3 DEF Expire
    <3>2. timedOut
      BY <3>1 DEF ExpiredTimedOut
    <3>3. QED
      BY <1>2, <3>1, <3>2
  <2>4. QED
    BY <2>1, <2>2, <2>3
<1>4. AliveExact' /\ IdleExact'
  BY <1>0, <1>3 DEF AliveExact, IdleExact
<1>5. ExpiredTimedOut' /\ NoOverrunWithoutTimeout'
  BY <1>0, <1>3 DEF ExpiredTimedOut, NoOverrunWithoutTimeout
<1>6. QED
  BY <1>4, <1>5

\* Every step of the pool preserves the invariant.
LEMMA IInvStep == IInv /\ [Next]_vars => IInv'
<1> SUFFICES ASSUME IInv, [Next]_vars PROVE IInv'
  OBVIOUS
<1>0. TypeOK' /\ PcType
  BY TypeStep DEF IInv, TypeOK, PcType
<1> DEFINE Rest == /\ DestroyerState /\ ExpiredTimedOut /\ AliveExact /\ IdleExact
                   /\ AliveBound /\ FreedWhenAllLeft /\ NoOverrunWithoutTimeout
<1> SUFFICES Rest'
  BY <1>0 DEF IInv
<1>1. ASSUME NEW d \in Items, Dispatch(d) PROVE Rest'
  <2>1. /\ state = "VALID" /\ UNCHANGED <<state, idle, destroyer, timedOut, overrun>>
        /\ \A v \in Workers : pc'[v] = "expired" => pc[v] = "expired"
    BY <1>0, <1>1 DEF Dispatch, Signal, PcType
  <2>2. /\ idle' = Cardinality(Idle') /\ alive' = Cardinality(Alive') /\ alive' <= MaxThreads
    <3>1. CASE WantsThread /\ alive' = alive + 1 /\
               \E w \in Workers : pc[w] = "unborn" /\ Signal([pc EXCEPT ![w] = "loop"])
      <4>1. PICK w \in Workers : pc[w] = "unborn" /\ Signal([pc EXCEPT ![w] = "loop"])
        BY <3>1
      <4>2. /\ pc'[w] = "loop"
            /\ \A v \in Workers \ {w} : pc'[v] = pc[v] \/ (pc[v] = "wait" /\ pc'[v] = "woken")
        BY <1>0, <4>1 DEF Signal, PcType
      <4>3. Idle' = Idle /\ Cardinality(Alive') = Cardinality(Alive) + 1
        BY <1>0, <4>1, <4>2, SetsCreate
      <4>4. alive + 1 <= MaxThreads
        BY <3>1, PoolAssumption DEF WantsThread, IInv, TypeOK
      <4>5. QED
        BY <2>1, <3>1, <4>3, <4>4 DEF IInv, AliveExact, IdleExact
    <3>2. CASE Signal(pc) /\ alive' = alive
      <4>1. Alive' = Alive /\ Idle' = Idle
        <5>1. \A v \in Workers : pc'[v] = pc[v] \/ (pc[v] = "wait" /\ pc'[v] = "woken")
          BY <1>0, <3>2 DEF Signal, PcType
        <5>2. QED
          BY <5>1, SetsKept DEF Sleeping
      <4>2. QED
        BY <2>1, <3>2, <4>1 DEF IInv, AliveExact, IdleExact, AliveBound
    <3>3. QED
      BY <1>1, <3>1, <3>2 DEF Dispatch
  <2>3. QED
    BY <2>1, <2>2 DEF IInv, DestroyerState, ExpiredTimedOut, AliveExact, IdleExact, AliveBound,
                      FreedWhenAllLeft, NoOverrunWithoutTimeout
<1>2. ASSUME NEW w \in Workers, Enter(w) \/ Resume(w) \/ Expire(w) PROVE Rest'
  <2>1. AliveExact' /\ IdleExact' /\ ExpiredTimedOut' /\ NoOverrunWithoutTimeout'
    BY <1>2, LookCounts
  <2>2. UNCHANGED <<state, alive, destroyer>> /\ w \in Alive
    BY <1>2 DEF Enter, Resume, Expire, Alive
  <2>3. FreedWhenAllLeft'
    BY <2>2 DEF IInv, FreedWhenAllLeft
  <2>4. QED
    BY <2>1, <2>2, <2>3 DEF IInv, DestroyerState, AliveBound
<1>3. ASSUME NEW w \in Workers, Run(w) PROVE Rest'
  <2>1. Alive' = Alive /\ Idle' = Idle
    BY <1>0, <1>3 DEF Run, PcType, Alive, Idle, Sleeping
  <2>2. \A v \in Workers : pc'[v] = "expired" => pc[v] = "expired"
    BY <1>0, <1>3 DEF Run, PcType
  <2>3. QED
    BY <1>3, <2>1, <2>2 DEF Run, IInv, DestroyerState, ExpiredTimedOut, AliveExact, IdleExact,
                            AliveBound, FreedWhenAllLeft, NoOverrunWithoutTimeout
<1>4. ASSUME NEW w \in Workers, Leave(w) PROVE Rest'
  <2>1. /\ pc[w] = "leave" /\ alive' = alive - 1 /\ pc'[w] = "dead"
        /\ \A v \in Workers \ {w} : pc'[v] = pc[v] \/ (pc[v] = "wait" /\ pc'[v] = "woken")
    BY <1>0, <1>4 DEF Leave, Broadcast, Woken, PcType
  <2>2. Idle' = Idle /\ Cardinality(Alive') = Cardinality(Alive) - 1
    BY <1>0, <2>1, SetsLeave
  <2>3. UNCHANGED <<state, idle, timedOut, overrun>> /\ destroyer' \in {destroyer, Woken(destroyer)}
    BY <1>4 DEF Leave, Broadcast, history
  <2>4. w \in Alive
    BY <2>1 DEF Alive
  <2>5. AliveExact' /\ IdleExact' /\ AliveBound'
    BY <2>1, <2>2, <2>3, PoolAssumption DEF IInv, AliveExact, IdleExact, AliveBound, TypeOK
  <2>6. DestroyerState' /\ FreedWhenAllLeft'
    BY <2>3, <2>4 DEF IInv, DestroyerState, FreedWhenAllLeft, Woken
  <2>7. ExpiredTimedOut' /\ NoOverrunWithoutTimeout'
    BY <2>1, <2>3 DEF IInv, ExpiredTimedOut, NoOverrunWithoutTimeout
  <2>8. QED
    BY <2>5, <2>6, <2>7
<1>5. ASSUME NEW w \in Workers, WaitEnds(w) PROVE Rest'
  <2>1. Alive' = Alive /\ Idle' = Idle
    BY <1>0, <1>5 DEF WaitEnds, PcType, Alive, Idle, Sleeping
  <2>2. ExpiredTimedOut'
    BY <1>0, <1>5 DEF WaitEnds, PcType, IInv, ExpiredTimedOut
  <2>3. NoOverrunWithoutTimeout'
    BY <1>5 DEF WaitEnds, IInv, NoOverrunWithoutTimeout
  <2>4. QED
    BY <1>5, <2>1, <2>2, <2>3 DEF WaitEnds, IInv, DestroyerState, AliveExact, IdleExact,
                                  AliveBound, FreedWhenAllLeft
<1>6. CASE Destroy \/ DestroyResume \/ DestroyWaitEnds
  <2>1. \A v \in Workers : pc'[v] = pc[v] \/ (pc[v] = "wait" /\ pc'[v] = "woken")
    BY <1>6 DEF Destroy, DestroyResume, DestroyWaitEnds, Woken
  <2>2. Alive' = Alive /\ Idle' = Idle
    BY <2>1, SetsKept DEF Sleeping
  <2>3. UNCHANGED <<alive, idle, timedOut, overrun>>
    BY <1>6 DEF Destroy, DestroyResume, DestroyWaitEnds, history
  <2>4. DestroyerState' /\ (state' = "VALID" => state = "VALID")
    BY <1>6 DEF Destroy, DestroyResume, DestroyWaitEnds, AwaitWorkers, IInv, DestroyerState
  <2>5. FreedWhenAllLeft'
    <3>1. CASE DestroyWaitEnds
      BY <2>2, <3>1 DEF DestroyWaitEnds, IInv, FreedWhenAllLeft
    <3>2. CASE state' = "FREED" /\ AwaitWorkers
      <4>1. alive = 0
        BY <3>2, WorkerSetsFinite DEF AwaitWorkers, IInv, AliveExact
      <4>2. QED
        BY <2>2, <4>1, WorkerSetsFinite, FS_EmptySet DEF IInv, AliveExact, FreedWhenAllLeft
    <3>3. QED
      BY <1>6, <3>1, <3>2 DEF Destroy, DestroyResume, FreedWhenAllLeft
  <2>6. ExpiredTimedOut' /\ NoOverrunWithoutTimeout'
    BY <2>1, <2>3, <2>4 DEF IInv, ExpiredTimedOut, NoOverrunWithoutTimeout
  <2>7. QED
    BY <2>2, <2>3, <2>4, <2>5, <2>6 DEF IInv, AliveExact, IdleExact, AliveBound
<1>7. CASE UNCHANGED vars
  BY <1>7 DEF vars, IInv, DestroyerState, ExpiredTimedOut, AliveExact, IdleExact, AliveBound,
              FreedWhenAllLeft, NoOverrunWithoutTimeout, Alive, Idle
<1>8. QED
  BY <1>1, <1>2, <1>3, <1>4, <1>5, <1>6, <1>7 DEF Next, Worker

LEMMA SpecIInv == Spec => []IInv
BY InitIInv, IInvStep, PTL DEF Spec

\* m_thread_alive and m_thread_idle count what their names say, and the pool
\* never has more than m_max_threads threads.
THEOREM PoolCounters == Spec => []CountersExact
<1>1. IInv => CountersExact
  BY DEF IInv, CountersExact, AliveExact, IdleExact, AliveBound
<1>2. QED
  BY <1>1, SpecIInv, PTL

\* destroy_threadpool deletes the pool after the last worker has left it.
THEOREM PoolFreedWhenAllLeft == Spec => []FreedWhenAllLeft
<1>1. IInv => FreedWhenAllLeft
  BY DEF IInv
<1>2. QED
  BY <1>1, SpecIInv, PTL

\* A worker takes an item from an empty queue only after an idle timeout or
\* when the pool is being destroyed.
THEOREM PoolNoOverrun == Spec => []NoOverrunWithoutTimeout
<1>1. IInv => NoOverrunWithoutTimeout
  BY DEF IInv
<1>2. QED
  BY <1>1, SpecIInv, PTL

-----------------------------------------------------------------------------
(***************************************************************************)
(* Where an accepted item is                                               *)
(***************************************************************************)

\* The items pop() has removed.
Taken == {enq[i] : i \in 1..head}

RunsAt(w) == pc[w] = "run"

\* An item is pushed when it is accepted, and only once.
PushedOnce ==
    /\ \A i \in 1..Len(enq) : enq[i] \in accepted
    /\ \A i, j \in 1..Len(enq) : enq[i] = enq[j] => i = j
    /\ \A d \in accepted : \E i \in 1..Len(enq) : enq[i] = d

\* Every item that was taken is with one worker or handled.
TakenOnce ==
    /\ head <= Len(enq)
    /\ \A w \in Workers : RunsAt(w) => item[w] \in Taken /\ item[w] \notin handled
    /\ \A w, v \in Workers : (RunsAt(w) /\ RunsAt(v) /\ item[w] = item[v]) => w = v
    /\ handled \subseteq Taken
    /\ \A d \in Taken : d \in handled \/ \E w \in Workers : RunsAt(w) /\ item[w] = d

ItemsInv == PushedOnce /\ (~overrun => TakenOnce)

LEMMA InitItems == Init => ItemsInv
<1> SUFFICES ASSUME Init PROVE ItemsInv
  OBVIOUS
<1>1. Len(enq) = 0 /\ head = 0
  BY DEF Init
<1>2. Taken = {}
  BY <1>1 DEF Taken
<1>3. PushedOnce /\ TakenOnce
  BY <1>1, <1>2 DEF Init, PushedOnce, TakenOnce, RunsAt
<1>4. QED
  BY <1>3 DEF ItemsInv

\* dispatch() pushes an item nobody has seen before.
LEMMA DispatchItems ==
  ASSUME IInv, ItemsInv, NEW d \in Items, Dispatch(d)
  PROVE  ItemsInv'
<1>1. /\ d \notin accepted /\ accepted' = accepted \cup {d} /\ enq' = Append(enq, d)
      /\ UNCHANGED <<head, item, handled, overrun>>
  BY DEF Dispatch, Enqueue
<1>2. enq \in Seq(Items) /\ Len(enq) \in Nat /\ head \in Nat /\ pc \in [Workers -> WorkerPc]
  BY DEF IInv, TypeOK
<1>3. /\ Len(enq') = Len(enq) + 1 /\ enq'[Len(enq) + 1] = d
      /\ \A i \in 1..Len(enq) : enq'[i] = enq[i]
  BY <1>1, <1>2
<1>4. \A i \in 1..Len(enq') : \/ i \in 1..Len(enq) /\ enq'[i] = enq[i]
                              \/ i = Len(enq) + 1 /\ enq'[i] = d
  BY <1>2, <1>3
<1>5. PushedOnce'
  <2>0. /\ \A i \in 1..Len(enq) : enq[i] \in accepted
        /\ \A i, j \in 1..Len(enq) : enq[i] = enq[j] => i = j
        /\ \A e \in accepted : \E i \in 1..Len(enq) : enq[i] = e
    BY DEF ItemsInv, PushedOnce
  <2>1. \A i \in 1..Len(enq') : enq'[i] \in accepted'
    BY <1>1, <1>4, <2>0
  <2>2. \A i, j \in 1..Len(enq') : enq'[i] = enq'[j] => i = j
    BY <1>1, <1>4, <2>0
  <2>3. ASSUME NEW e \in accepted' PROVE \E i \in 1..Len(enq') : enq'[i] = e
    <3>1. CASE e = d
      BY <1>2, <1>3, <3>1
    <3>2. CASE e \in accepted
      <4>1. PICK i \in 1..Len(enq) : enq[i] = e
        BY <2>0, <3>2
      <4>2. i \in 1..Len(enq') /\ enq'[i] = e
        BY <1>2, <1>3, <4>1
      <4>3. QED
        BY <4>2
    <3>3. QED
      BY <1>1, <2>3, <3>1, <3>2
  <2>4. QED
    BY <2>1, <2>2, <2>3 DEF PushedOnce
<1>6. \A w \in Workers : RunsAt(w)' <=> RunsAt(w)
  BY <1>2 DEF Dispatch, Signal, RunsAt
<1>7. ASSUME TakenOnce PROVE TakenOnce'
  <2>1. head <= Len(enq) /\ head' <= Len(enq')
    BY <1>1, <1>2, <1>3, <1>7 DEF TakenOnce
  <2>2. Taken' = Taken
    BY <1>1, <1>2, <1>3, <2>1 DEF Taken
  <2>3. QED
    BY <1>1, <1>6, <1>7, <2>1, <2>2 DEF TakenOnce, RunsAt
<1>8. QED
  BY <1>1, <1>5, <1>7 DEF ItemsInv

\* A worker takes the first item of a queue that is not empty, and runs it.
LEMMA TakeItems ==
  ASSUME IInv, ItemsInv, NEW w \in Workers, ~RunsAt(w), NEW exit, NEW n, Take(w, exit, n),
         UNCHANGED <<accepted, handled>>
  PROVE  ItemsInv'
<1>1. PICK d \in Front :
        /\ head' = head + 1
        /\ overrun' = (overrun \/ QueueEmpty)
        /\ item' = [item EXCEPT ![w] = d]
        /\ pc' = [pc EXCEPT ![w] = AfterTake(d, exit \/ state = "EXIT")]
        /\ enq' = enq
  BY Zenon DEF Take
<1>2. /\ enq \in Seq(Items) /\ Len(enq) \in Nat /\ head \in Nat
      /\ pc \in [Workers -> WorkerPc] /\ item \in [Workers -> Items \cup {Null} \cup Unwritten]
  BY DEF IInv, TypeOK
<1>3. PushedOnce'
  BY <1>1 DEF ItemsInv, PushedOnce
<1>4. ASSUME ~overrun' PROVE TakenOnce'
  <2>1. ~overrun /\ ~QueueEmpty
    BY <1>1, <1>4, Zenon
  <2>2. TakenOnce
    BY <2>1 DEF ItemsInv
  <2>3. head + 1 \in 1..Len(enq) /\ head < Len(enq)
    BY <1>2, <2>1, <2>2 DEF TakenOnce, QueueEmpty
  <2>4. d = enq[head + 1] /\ d \in Items /\ d # Null
    BY <1>2, <2>3, PoolAssumption DEF Front
  <2>5. /\ RunsAt(w)' /\ item'[w] = d
        /\ \A v \in Workers \ {w} : (RunsAt(v)' <=> RunsAt(v)) /\ item'[v] = item[v]
    BY <1>1, <1>2, <2>4 DEF RunsAt, AfterTake
  <2>6. Taken' = Taken \cup {d}
    <3>1. \A i : i \in 1..head' <=> i \in 1..head \/ i = head + 1
      BY <1>1, <1>2
    <3>2. QED
      BY <1>1, <2>4, <3>1 DEF Taken
  <2>7. d \notin Taken
    BY <1>2, <2>3, <2>4 DEF Taken, ItemsInv, PushedOnce
  <2>8. head' <= Len(enq')
    BY <1>1, <1>2, <2>3
  <2>9. \A v \in Workers : RunsAt(v)' => item'[v] \in Taken' /\ item'[v] \notin handled'
    BY <2>2, <2>5, <2>6, <2>7 DEF TakenOnce
  <2>10. ASSUME NEW u \in Workers, NEW v \in Workers, RunsAt(u)', RunsAt(v)', item'[u] = item'[v]
         PROVE  u = v
    BY <2>2, <2>5, <2>7, <2>10 DEF TakenOnce
  <2>11. handled' \subseteq Taken'
    BY <2>2, <2>6 DEF TakenOnce
  <2>12. ASSUME NEW e \in Taken' PROVE e \in handled' \/ \E v \in Workers : RunsAt(v)' /\ item'[v] = e
    <3>1. CASE e = d
      BY <2>5, <3>1
    <3>2. CASE e \in Taken /\ e \notin handled
      <4>1. PICK v \in Workers : RunsAt(v) /\ item[v] = e
        BY <2>2, <3>2 DEF TakenOnce
      <4>2. v # w
        BY <4>1
      <4>3. QED
        BY <2>5, <4>1, <4>2
    <3>3. QED
      BY <2>6, <2>12, <3>1, <3>2
  <2>13. QED
    BY <2>8, <2>9, <2>10, <2>11, <2>12 DEF TakenOnce, RunsAt
<1>5. QED
  BY <1>3, <1>4 DEF ItemsInv

\* The handler returns.
LEMMA RunItems ==
  ASSUME IInv, ItemsInv, NEW w \in Workers, Run(w)
  PROVE  ItemsInv'
<1>1. /\ RunsAt(w) /\ handled' = handled \cup ({item[w]} \cap Items)
      /\ UNCHANGED <<head, enq, item, accepted, overrun>>
  BY DEF Run, RunsAt, queue
<1>2. ~RunsAt(w)' /\ \A v \in Workers \ {w} : RunsAt(v)' <=> RunsAt(v)
  BY DEF IInv, TypeOK, Run, RunsAt
<1>3. PushedOnce' /\ Taken' = Taken
  BY <1>1 DEF ItemsInv, PushedOnce, Taken
<1>4. ASSUME TakenOnce PROVE TakenOnce'
  <2>1. item[w] \in Taken /\ item[w] \in Items
    <3>1. item[w] \in Taken /\ head <= Len(enq)
      BY <1>1, <1>4 DEF TakenOnce
    <3>2. QED
      BY <3>1 DEF Taken, IInv, TypeOK
  <2>2. handled' = handled \cup {item[w]}
    BY <1>1, <2>1
  <2>3. \A v \in Workers : RunsAt(v)' => item[v] \in Taken /\ item[v] \notin handled'
    BY <1>1, <1>2, <1>4, <2>2 DEF TakenOnce
  <2>4. \A d \in Taken : d \in handled' \/ \E v \in Workers : RunsAt(v)' /\ item[v] = d
    BY <1>2, <1>4, <2>2 DEF TakenOnce
  <2>5. \A u, v \in Workers : (RunsAt(u)' /\ RunsAt(v)' /\ item[u] = item[v]) => u = v
    BY <1>2, <1>4 DEF TakenOnce
  <2>6. head <= Len(enq) /\ handled' \subseteq Taken
    BY <1>4, <2>1, <2>2 DEF TakenOnce
  <2>7. QED
    BY <1>1, <1>3, <2>3, <2>4, <2>5, <2>6 DEF TakenOnce, RunsAt
<1>5. QED
  BY <1>1, <1>3, <1>4 DEF ItemsInv

\* A step that starts or ends no handler and takes no item.
LEMMA IdleItems ==
  ASSUME ItemsInv, UNCHANGED <<head, enq, item, accepted, handled, overrun>>,
         \A w \in Workers : RunsAt(w)' <=> RunsAt(w)
  PROVE  ItemsInv'
<1>1. PushedOnce' /\ Taken' = Taken
  BY DEF ItemsInv, PushedOnce, Taken
<1>2. TakenOnce => TakenOnce'
  BY <1>1 DEF TakenOnce, RunsAt
<1>3. QED
  BY <1>1, <1>2 DEF ItemsInv

LEMMA ItemsStep == IInv /\ ItemsInv /\ [Next]_vars => ItemsInv'
<1> SUFFICES ASSUME IInv, ItemsInv, [Next]_vars PROVE ItemsInv'
  OBVIOUS
<1>0. PcType
  BY DEF IInv, TypeOK, PcType
<1>1. ASSUME NEW d \in Items, Dispatch(d) PROVE ItemsInv'
  BY <1>1, DispatchItems
<1>2. ASSUME NEW w \in Workers, Enter(w) \/ Resume(w) \/ Expire(w) PROVE ItemsInv'
  <2>1. ~RunsAt(w) /\ UNCHANGED <<accepted, handled>>
    BY <1>2 DEF Enter, Resume, Expire, RunsAt, history
  <2>2. ASSUME NEW n, Sleep(w, n) PROVE ItemsInv'
    <3>1. UNCHANGED <<head, enq, item, accepted, handled, overrun>>
      BY <2>1, <2>2 DEF Sleep, queue
    <3>2. \A v \in Workers : RunsAt(v)' <=> RunsAt(v)
      BY <1>0, <2>1, <2>2 DEF Sleep, RunsAt, PcType
    <3>3. QED
      BY <3>1, <3>2, IdleItems
  <2>3. ASSUME NEW exit, NEW n, Take(w, exit, n) PROVE ItemsInv'
    BY <2>1, <2>3, TakeItems
  <2>4. ASSUME NEW n, LookForWork(w, n) PROVE ItemsInv'
    BY <2>2, <2>3, <2>4, Zenon DEF LookForWork
  <2>5. QED
    BY <1>2, <2>3, <2>4 DEF Enter, Resume, Expire
<1>3. ASSUME NEW w \in Workers, Run(w) PROVE ItemsInv'
  BY <1>3, RunItems
<1>4. ASSUME NEW w \in Workers, Leave(w) \/ WaitEnds(w) PROVE ItemsInv'
  <2>1. UNCHANGED <<head, enq, item, accepted, handled, overrun>>
    BY <1>4 DEF Leave, WaitEnds, queue, history
  <2>2. \A v \in Workers : RunsAt(v)' <=> RunsAt(v)
    BY <1>0, <1>4 DEF Leave, Broadcast, Woken, WaitEnds, RunsAt, PcType
  <2>3. QED
    BY <2>1, <2>2, IdleItems
<1>5. CASE Destroy \/ DestroyResume \/ DestroyWaitEnds
  <2>1. UNCHANGED <<head, enq, item, accepted, handled, overrun>>
    BY <1>5 DEF Destroy, DestroyResume, DestroyWaitEnds, queue, history
  <2>2. \A v \in Workers : RunsAt(v)' <=> RunsAt(v)
    BY <1>0, <1>5 DEF Destroy, DestroyResume, DestroyWaitEnds, Woken, RunsAt, PcType
  <2>3. QED
    BY <2>1, <2>2, IdleItems
<1>6. CASE UNCHANGED vars
  BY <1>6, IdleItems DEF vars, RunsAt
<1>7. QED
  BY <1>1, <1>2, <1>3, <1>4, <1>5, <1>6 DEF Next, Worker

\* The invariant puts an item in one place.
LEMMA InvEachItemOnce == IInv /\ ItemsInv => EachItemOnce
<1> SUFFICES ASSUME IInv, ItemsInv, ~overrun, NEW d \in accepted
             PROVE  \/ Cardinality(Queued(d)) = 1 /\ Running(d) = {} /\ d \notin handled
                    \/ Queued(d) = {} /\ Cardinality(Running(d)) = 1 /\ d \notin handled
                    \/ Queued(d) = {} /\ Running(d) = {} /\ d \in handled
  BY DEF EachItemOnce
<1>1. Len(enq) \in Nat /\ head \in Nat /\ PushedOnce /\ TakenOnce
  BY DEF IInv, TypeOK, ItemsInv
<1>2. PICK i \in 1..Len(enq) : enq[i] = d
  BY <1>1 DEF PushedOnce
<1>3. \A j \in 1..Len(enq) : enq[j] = d => j = i
  BY <1>1, <1>2 DEF PushedOnce
<1>4. d \in Taken <=> i \in 1..head
  BY <1>1, <1>2, <1>3 DEF Taken, TakenOnce
<1>5. CASE d \notin Taken
  <2>1. Queued(d) = {i}
    BY <1>1, <1>2, <1>3, <1>4, <1>5 DEF Queued, TakenOnce
  <2>2. Running(d) = {} /\ d \notin handled
    BY <1>1, <1>5 DEF TakenOnce, Running, RunsAt
  <2>3. Cardinality(Queued(d)) = 1
    BY <2>1, FS_Singleton
  <2>4. QED
    BY <2>2, <2>3
<1>6. CASE d \in Taken
  <2>1. Queued(d) = {}
    BY <1>1, <1>3, <1>4, <1>6 DEF Queued, TakenOnce
  <2>2. CASE d \in handled
    <3>1. Running(d) = {}
      BY <1>1, <2>2 DEF TakenOnce, Running, RunsAt
    <3>2. QED
      BY <2>1, <2>2, <3>1
  <2>3. CASE d \notin handled
    <3>1. PICK w \in Workers : RunsAt(w) /\ item[w] = d
      BY <1>1, <1>6, <2>3 DEF TakenOnce
    <3>2. Running(d) = {w}
      BY <1>1, <3>1 DEF TakenOnce, Running, RunsAt
    <3>3. Cardinality(Running(d)) = 1
      BY <3>2, FS_Singleton
    <3>4. QED
      BY <2>1, <2>3, <3>3
  <2>4. QED
    BY <2>2, <2>3
<1>7. QED
  BY <1>5, <1>6

\* No item dispatch() has accepted is lost, doubled or handed to two workers,
\* until a worker has taken from an empty queue.
THEOREM PoolEachItemOnce == Spec => []EachItemOnce
BY InitItems, ItemsStep, SpecIInv, InvEachItemOnce, PTL DEF Spec
=============================================================================
