----------------------------- MODULE ThreadPool -----------------------------
(***************************************************************************)
(* lib/thread-pool.cpp: dispatch(), the worker thread, destroy_threadpool()*)
(* and the one mutex and one condition variable they share.                *)
(*                                                                         *)
(* Everything between a lock and the next wait or unlock is one step.  The *)
(* queue is kept the way std::deque keeps it, as two positions that are    *)
(* equal when the queue is empty, because the worker calls front() and     *)
(* pop() on an empty queue: front() then reads memory nothing was written  *)
(* to, and pop() moves the first position past the second.                 *)
(***************************************************************************)
EXTENDS Integers, Sequences, FiniteSets

CONSTANTS
    Workers,      \* identities of worker threads; one is used once
    Items,        \* the usr_data pointers dispatched; one is dispatched once
    MaxThreads,   \* m_max_threads
    Null,         \* the null pointer
    Unwritten,    \* the pointers that memory nothing was written to may hold
    MaxUnderflow, \* bound: how far the first position runs past the second
    IdleTimeouts, \* whether an idle period may exceed m_idle_timeout
    CreateFails   \* whether pthread_create may fail

ASSUME PoolAssumption ==
    /\ MaxThreads \in Nat \ {0}
    /\ IsFiniteSet(Workers)
    /\ Null \notin Items /\ Unwritten \cap Items = {}
    /\ MaxUnderflow \in Nat
    /\ IdleTimeouts \in BOOLEAN /\ CreateFails \in BOOLEAN

VARIABLES
    state,      \* m_state; "FREED" once the pool is deleted
    alive,      \* m_thread_alive
    idle,       \* m_thread_idle
    head,       \* how many times pop() was called
    enq,        \* every item push() was called with, in order
    pc,         \* where each worker is
    item,       \* item.data of each worker
    mustExit,   \* must_exit of each worker
    destroyer,  \* where the thread that calls destroy_threadpool is
    accepted,   \* items for which dispatch() returned true
    handled,    \* items the handler was called with, and has returned from
    timedOut,   \* whether a worker's wait has ever timed out
    overrun     \* whether a worker has taken an item from an empty queue

vars == <<state, alive, idle, head, enq, pc, item, mustExit, destroyer,
          accepted, handled, timedOut, overrun>>

queue == <<head, enq>>
history == <<accepted, handled, timedOut>>

\* "wait": in pthread_cond_timedwait.  "woken", "expired": the wait is over,
\* with 0 or with ETIMEDOUT, and the thread is about to own the mutex again.
WorkerPc == {"unborn", "loop", "wait", "woken", "expired", "run", "leave", "dead"}
Sleeping == {"wait", "woken", "expired"}

Alive == {w \in Workers : pc[w] \notin {"unborn", "dead"}}
Idle  == {w \in Workers : pc[w] \in Sleeping}

QueueEmpty == head = Len(enq)

-----------------------------------------------------------------------------
(***************************************************************************)
(* The condition variable m_pool_cond, which idle workers and the          *)
(* destroyer both wait on                                                  *)
(***************************************************************************)

\* Variant: nobody is woken.
SignalNobody(newPc) == pc' = newPc

\* pthread_cond_signal wakes one of the waiting threads, if there is one.  It
\* is called while the pool is valid, when the destroyer does not wait yet.
Signal(newPc) ==
    \/ \E w \in Workers : /\ pc[w] = "wait"
                          /\ pc' = [newPc EXCEPT ![w] = "woken"]
    \/ /\ \A w \in Workers : pc[w] # "wait"
       /\ pc' = newPc

Woken(p) == IF p = "wait" THEN "woken" ELSE p

\* pthread_cond_broadcast wakes them all.
Broadcast(newPc) ==
    /\ pc' = [w \in Workers |-> Woken(newPc[w])]
    /\ destroyer' = Woken(destroyer)

-----------------------------------------------------------------------------
(***************************************************************************)
(* dispatch()                                                              *)
(***************************************************************************)

Enqueue(d) ==
    /\ enq' = Append(enq, d)
    /\ UNCHANGED head

WantsThread == idle = 0 /\ alive < MaxThreads

Dispatch(d) ==
    /\ state = "VALID"
    /\ d \notin accepted
    /\ Enqueue(d)
    /\ accepted' = accepted \cup {d}
    /\ \/ /\ WantsThread
          /\ \E w \in Workers : /\ pc[w] = "unborn"
                                /\ Signal([pc EXCEPT ![w] = "loop"])
          /\ alive' = alive + 1
       \/ /\ ~WantsThread \/ CreateFails
          /\ Signal(pc)
          /\ UNCHANGED alive
    /\ UNCHANGED <<state, idle, item, mustExit, destroyer, handled, timedOut, overrun>>

-----------------------------------------------------------------------------
(***************************************************************************)
(* The worker                                                              *)
(***************************************************************************)

\* What front() yields: the item at the first position, or, when the
\* positions have met or crossed, whatever the memory holds.
Front == IF head < Len(enq) THEN {enq[head + 1]} ELSE Unwritten

AfterTake(d, exit) ==
    IF d # Null THEN "run" ELSE IF exit THEN "leave" ELSE "loop"

\* Variant: pop() is missing.
TakeWithoutPop(w, exit, idleNow) ==
    \E d \in Front :
        /\ head < Len(enq) + MaxUnderflow
        /\ overrun' = (overrun \/ QueueEmpty)
        /\ idle' = idleNow - 1
        /\ item' = [item EXCEPT ![w] = d]
        /\ mustExit' = [mustExit EXCEPT ![w] = exit \/ state = "EXIT"]
        /\ pc' = [pc EXCEPT ![w] = AfterTake(d, exit \/ state = "EXIT")]
        /\ UNCHANGED <<head, enq>>

\* front(), pop(), and what follows up to the test of item.data; idleNow is
\* m_thread_idle before the decrement.
Take(w, exit, idleNow) ==
    \E d \in Front :
        /\ head < Len(enq) + MaxUnderflow
        /\ head' = head + 1
        /\ overrun' = (overrun \/ QueueEmpty)
        /\ idle' = idleNow - 1
        /\ item' = [item EXCEPT ![w] = d]
        /\ mustExit' = [mustExit EXCEPT ![w] = exit \/ state = "EXIT"]
        /\ pc' = [pc EXCEPT ![w] = AfterTake(d, exit \/ state = "EXIT")]
        /\ UNCHANGED enq

Sleep(w, idleNow) ==
    /\ idle' = idleNow
    /\ pc' = [pc EXCEPT ![w] = "wait"]
    /\ UNCHANGED <<queue, item, mustExit, overrun>>

\* The test of the inner while loop.
LookForWork(w, idleNow) ==
    IF QueueEmpty /\ state # "EXIT"
    THEN Sleep(w, idleNow)
    ELSE Take(w, mustExit[w], idleNow)

Enter(w) ==
    /\ pc[w] = "loop"
    /\ LookForWork(w, idle + 1)
    /\ UNCHANGED <<state, alive, destroyer, history>>

\* Variant: the inner loop is an if.
ResumeWithoutLook(w) ==
    /\ pc[w] = "woken"
    /\ Take(w, mustExit[w], idle)
    /\ UNCHANGED <<state, alive, destroyer, history>>

\* Variant: m_thread_idle++ is inside the inner loop.
ResumeCountsAgain(w) ==
    /\ pc[w] = "woken"
    /\ LookForWork(w, idle + 1)
    /\ UNCHANGED <<state, alive, destroyer, history>>

Resume(w) ==
    /\ pc[w] = "woken"
    /\ LookForWork(w, idle)
    /\ UNCHANGED <<state, alive, destroyer, history>>

\* ETIMEDOUT leaves the inner loop without another look at the queue.
Expire(w) ==
    /\ pc[w] = "expired"
    /\ Take(w, TRUE, idle)
    /\ UNCHANGED <<state, alive, destroyer, history>>

\* The wait ends by itself: spuriously, or because its deadline has passed.
WaitEnds(w) ==
    /\ pc[w] = "wait"
    /\ \/ /\ pc' = [pc EXCEPT ![w] = "woken"]
          /\ UNCHANGED timedOut
       \/ /\ IdleTimeouts
          /\ pc' = [pc EXCEPT ![w] = "expired"]
          /\ timedOut' = TRUE
    /\ UNCHANGED <<state, alive, idle, queue, item, mustExit, destroyer, accepted, handled, overrun>>

\* The handler returns and the worker goes back to the top of its loop.
Run(w) ==
    /\ pc[w] = "run"
    /\ handled' = handled \cup ({item[w]} \cap Items)
    /\ pc' = [pc EXCEPT ![w] = "loop"]
    /\ UNCHANGED <<state, alive, idle, queue, item, mustExit, destroyer, accepted, timedOut, overrun>>

\* Variant: the last worker does not broadcast.
LeaveSilently(w) ==
    /\ pc[w] = "leave"
    /\ alive' = alive - 1
    /\ pc' = [pc EXCEPT ![w] = "dead"]
    /\ UNCHANGED <<state, idle, queue, item, mustExit, destroyer, history, overrun>>

Leave(w) ==
    /\ pc[w] = "leave"
    /\ alive' = alive - 1
    /\ LET newPc == [pc EXCEPT ![w] = "dead"]
       IN IF alive' = 0 THEN Broadcast(newPc)
                        ELSE pc' = newPc /\ UNCHANGED destroyer
    /\ UNCHANGED <<state, idle, queue, item, mustExit, history, overrun>>

Worker(w) == Enter(w) \/ Resume(w) \/ Expire(w) \/ Run(w) \/ Leave(w)

-----------------------------------------------------------------------------
(***************************************************************************)
(* destroy_threadpool()                                                    *)
(***************************************************************************)

\* The loop "while (m_thread_alive > 0)", and what follows it.
AwaitWorkers ==
    IF alive > 0
    THEN destroyer' = "wait" /\ state' = "EXIT"
    ELSE destroyer' = "done" /\ state' = "FREED"

Destroy ==
    /\ destroyer = "none"
    /\ state = "VALID"
    /\ AwaitWorkers
    /\ IF alive > 0 THEN pc' = [w \in Workers |-> Woken(pc[w])] ELSE UNCHANGED pc
    /\ UNCHANGED <<alive, idle, queue, item, mustExit, history, overrun>>

DestroyWaitEnds ==
    /\ destroyer = "wait"
    /\ destroyer' = "woken"
    /\ UNCHANGED <<state, alive, idle, queue, pc, item, mustExit, history, overrun>>

\* Variant: the loop around pthread_cond_wait is an if.
DestroyResumeOnce ==
    /\ destroyer = "woken"
    /\ destroyer' = "done" /\ state' = "FREED"
    /\ UNCHANGED <<alive, idle, queue, pc, item, mustExit, history, overrun>>

DestroyResume ==
    /\ destroyer = "woken"
    /\ AwaitWorkers
    /\ UNCHANGED <<alive, idle, queue, pc, item, mustExit, history, overrun>>

-----------------------------------------------------------------------------

\* alloc_threadpool()
Init ==
    /\ state = "VALID"
    /\ alive = 0 /\ idle = 0
    /\ head = 0 /\ enq = <<>>
    /\ pc = [w \in Workers |-> "unborn"]
    /\ item = [w \in Workers |-> Null]
    /\ mustExit = [w \in Workers |-> FALSE]
    /\ destroyer = "none"
    /\ accepted = {} /\ handled = {}
    /\ timedOut = FALSE /\ overrun = FALSE

Next ==
    \/ \E d \in Items : Dispatch(d)
    \/ \E w \in Workers : Worker(w) \/ WaitEnds(w)
    \/ Destroy
    \/ DestroyWaitEnds
    \/ DestroyResume

Spec == Init /\ [][Next]_vars

\* A thread that can run does run; neither the client's calls nor the end of
\* a wait without a signal is owed to anybody.
Fairness ==
    /\ \A w \in Workers : WF_vars(Worker(w))
    /\ WF_vars(DestroyResume)

FairSpec == Spec /\ Fairness

-----------------------------------------------------------------------------
(***************************************************************************)
(* Properties                                                              *)
(***************************************************************************)

\* The type of every variable.
TypeOK ==
    /\ state \in {"VALID", "EXIT", "FREED"}
    /\ alive \in Int /\ idle \in Int
    /\ head \in Nat /\ enq \in Seq(Items)
    /\ pc \in [Workers -> WorkerPc]
    /\ item \in [Workers -> Items \cup {Null} \cup Unwritten]
    /\ mustExit \in [Workers -> BOOLEAN]
    /\ destroyer \in {"none", "wait", "woken", "done"}
    /\ accepted \in SUBSET Items /\ handled \in SUBSET Items
    /\ timedOut \in BOOLEAN /\ overrun \in BOOLEAN

\* m_thread_alive and m_thread_idle, which dispatch() decides by, count the
\* threads that live and the threads that look for work, and the pool never
\* has more than m_max_threads of them.
CountersExact ==
    /\ alive = Cardinality(Alive)
    /\ idle = Cardinality(Idle)
    /\ alive <= MaxThreads

\* destroy_threadpool deletes the pool only when every worker has made its
\* last access to it.
FreedWhenAllLeft == state = "FREED" => Alive = {}

\* While the pool is valid and no wait has timed out, no worker takes an item
\* from an empty queue.
NoOverrunWithoutTimeout == overrun => (timedOut \/ state # "VALID")

Running(d) == {w \in Workers : pc[w] = "run" /\ item[w] = d}
Queued(d) == {i \in (head + 1)..Len(enq) : enq[i] = d}

\* As long as no worker has taken an item from an empty queue, an accepted
\* item is in one place: once in the queue, with one worker, or handled.
EachItemOnce ==
    ~overrun =>
        \A d \in accepted :
            \/ Cardinality(Queued(d)) = 1 /\ Running(d) = {} /\ d \notin handled
            \/ Queued(d) = {} /\ Cardinality(Running(d)) = 1 /\ d \notin handled
            \/ Queued(d) = {} /\ Running(d) = {} /\ d \in handled

\* Once there is a worker, every item dispatch() accepted is handled in the
\* end, whether or not the pool is destroyed meanwhile, pthread_create fails or
\* waits time out; all bets are off only when a worker that timed out has taken
\* from an empty queue.
AcceptedIsHandled ==
    \A d \in Items :
        (d \in accepted /\ Alive # {}) ~> (d \in handled \/ (timedOut /\ overrun))

\* destroy_threadpool returns, timeouts or not, as long as the empty queue was
\* taken from at most once for every worker: past that, front() has handed some
\* worker memory that is not zero, or one that timed out has made the queue look
\* full, and the workers never stop taking.
DestroyReturns ==
    destroyer = "wait" ~> (destroyer = "done" \/ head > Len(enq) + MaxThreads)
=============================================================================
