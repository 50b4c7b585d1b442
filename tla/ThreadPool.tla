----------------------------- MODULE ThreadPool -----------------------------
(***************************************************************************)
(* ThreadPool of mzcache_threadpool.h: groups of workers, each with its    *)
(* queue, mutex and condition variables; enqueue, wait_idle_all and the    *)
(* destructor.  The client is the life of a pool between two calls of      *)
(* reconfigure_thread_pool: enqueue tasks, wait_idle_all, ~ThreadPool.     *)
(* A task of the DECOMP group enqueues one of the FREE group, the way      *)
(* kv_decomp_worker does for the last chunk of a layer.                    *)
(*                                                                         *)
(* A critical section is one step, except where a thread holds the mutex   *)
(* between finding its wait predicate false and blocking: the predicate    *)
(* reads stop, which the destructor does not write under that mutex.       *)
(***************************************************************************)
EXTENDS Naturals, Sequences, FiniteSets, Functions

CONSTANTS
    NumWorkers,      \* threads of each group
    NumJobs          \* DECOMP tasks the client enqueues

Groups == {"DECOMP", "FREE"}
Client == <<"main", 0>>

ASSUME PoolAssumption ==
    NumWorkers \in [Groups -> Nat \ {0}] /\ NumJobs \in Nat

Crew(g) == {g} \X (1 .. NumWorkers[g])
AllWorkers == Crew("DECOMP") \cup Crew("FREE")
GroupOf(w) == w[1]
Tasks == Groups \X (1 .. NumJobs)
Nobody == <<"nobody", 0>>

VARIABLES
    main,        \* the client: <<operation, argument>>
    wpc,         \* workers: "lock", "block", "asleep", "run", "spawn",
                 \* "notify", "finish", "exit"
    job,         \* the task a worker runs
    tasks,       \* ThreadGroup::tasks
    active,      \* ThreadGroup::active
    owner,       \* who holds ThreadGroup::mtx between two steps
    stop,        \* ThreadPool::stop
    idleWait,    \* groups on whose idle_cv the client is blocked
    done         \* tasks that have run

vars == <<main, wpc, job, tasks, active, owner, stop, idleWait, done>>

Init ==
    /\ main = <<"enqueue", 1>>
    /\ wpc = [w \in AllWorkers |-> "lock"]
    /\ job = [w \in AllWorkers |-> Nobody]
    /\ tasks = [g \in Groups |-> <<>>]
    /\ active = [g \in Groups |-> 0]
    /\ owner = [g \in Groups |-> Nobody]
    /\ stop = FALSE /\ idleWait = {} /\ done = {}

Free(g) == owner[g] = Nobody
Asleep(g) == {w \in Crew(g) : wpc[w] = "asleep"}

-----------------------------------------------------------------------------
(* Condition variables.                                                    *)

\* Faulty: nobody is notified.
NotifyOne_Nobody(g, pcs) == wpc' = pcs

\* notify_one on ThreadGroup::condition: a sleeper, if any, contends for the
\* mutex again.  pcs is wpc with the notifier moved on.
NotifyOne(g, pcs) ==
    IF Asleep(g) = {} THEN wpc' = pcs
    ELSE \E w \in Asleep(g) : wpc' = [pcs EXCEPT ![w] = "lock"]

\* notify_all on ThreadGroup::condition
NotifyAll(g) ==
    wpc' = [w \in AllWorkers |-> IF w \in Asleep(g) THEN "lock" ELSE wpc[w]]

-----------------------------------------------------------------------------
(* The client.                                                             *)

\* enqueue(DECOMP, ...) under the mutex, then notify_one without it.
Enqueue ==
    /\ main[1] = "enqueue" /\ main[2] <= NumJobs
    /\ Free("DECOMP")
    /\ tasks' = [tasks EXCEPT !["DECOMP"] = Append(@, <<"DECOMP", main[2]>>)]
    /\ main' = <<"notify", main[2]>>
    /\ UNCHANGED <<wpc, job, active, owner, stop, idleWait, done>>

EnqueueNotify ==
    /\ main[1] = "notify"
    /\ NotifyOne("DECOMP", wpc)
    /\ main' = <<"enqueue", main[2] + 1>>
    /\ UNCHANGED <<job, tasks, active, owner, stop, idleWait, done>>

\* Faulty: the groups are waited for in the opposite order.
WaitOrder_Reversed == <<"FREE", "DECOMP">>

\* std::map<CoreType, ThreadGroup> iterates in the order of enum CoreType.
WaitOrder == <<"DECOMP", "FREE">>

EnqueuedAll ==
    /\ main = <<"enqueue", NumJobs + 1>>
    /\ main' = <<"wait", 1>>
    /\ UNCHANGED <<wpc, job, tasks, active, owner, stop, idleWait, done>>

\* The predicate of wait_idle and wait_idle_all.
IdleNow(g) == tasks[g] = <<>> /\ active[g] = 0

\* One group of wait_idle_all: the predicate only changes under the mutex, so
\* testing it and blocking on idle_cv is one step.
WaitIdle ==
    /\ main[1] = "wait" /\ main[2] <= Len(WaitOrder)
    /\ LET g == WaitOrder[main[2]]
       IN  /\ Free(g) /\ g \notin idleWait
           /\ IF IdleNow(g)
              THEN main' = <<"wait", main[2] + 1>> /\ UNCHANGED idleWait
              ELSE idleWait' = idleWait \cup {g} /\ UNCHANGED main
    /\ UNCHANGED <<wpc, job, tasks, active, owner, stop, done>>

\* ~ThreadPool: stop is written under global_mutex, not under any group's mtx.
SetStop ==
    /\ main = <<"wait", Len(WaitOrder) + 1>>
    /\ stop' = TRUE
    /\ main' = <<"signal", 1>>
    /\ UNCHANGED <<wpc, job, tasks, active, owner, idleWait, done>>

SignalGroup ==
    /\ main[1] = "signal" /\ main[2] <= Len(WaitOrder)
    /\ NotifyAll(WaitOrder[main[2]])
    /\ main' = <<"signal", main[2] + 1>>
    /\ UNCHANGED <<job, tasks, active, owner, stop, idleWait, done>>

Join ==
    /\ main = <<"signal", Len(WaitOrder) + 1>>
    /\ \A w \in AllWorkers : wpc[w] = "exit"
    /\ main' = <<"joined", 0>>
    /\ UNCHANGED <<wpc, job, tasks, active, owner, stop, idleWait, done>>

Main == \/ Enqueue \/ EnqueueNotify \/ EnqueuedAll \/ WaitIdle
        \/ SetStop \/ SignalGroup \/ Join

-----------------------------------------------------------------------------
(* worker_loop.                                                            *)

\* The wait predicate is true: leave, or pop a task and count as active.
TakeOrLeave(w) ==
    LET g == GroupOf(w)
    IN  /\ wpc[w] = "lock" /\ Free(g)
        /\ stop \/ tasks[g] # <<>>
        /\ IF tasks[g] = <<>>
           THEN /\ wpc' = [wpc EXCEPT ![w] = "exit"]
                /\ UNCHANGED <<job, tasks, active>>
           ELSE /\ wpc' = [wpc EXCEPT ![w] = "run"]
                /\ job' = [job EXCEPT ![w] = Head(tasks[g])]
                /\ tasks' = [tasks EXCEPT ![g] = Tail(@)]
                /\ active' = [active EXCEPT ![g] = @ + 1]
        /\ UNCHANGED <<main, owner, stop, idleWait, done>>

\* The wait predicate is false: the worker still holds the mutex ...
PredicateFalse(w) ==
    LET g == GroupOf(w)
    IN  /\ wpc[w] = "lock" /\ Free(g)
        /\ ~stop /\ tasks[g] = <<>>
        /\ owner' = [owner EXCEPT ![g] = w]
        /\ wpc' = [wpc EXCEPT ![w] = "block"]
        /\ UNCHANGED <<main, job, tasks, active, stop, idleWait, done>>

\* ... until it blocks, which releases it.
Block(w) ==
    /\ wpc[w] = "block"
    /\ owner' = [owner EXCEPT ![GroupOf(w)] = Nobody]
    /\ wpc' = [wpc EXCEPT ![w] = "asleep"]
    /\ UNCHANGED <<main, job, tasks, active, stop, idleWait, done>>

\* t(): the task runs; a DECOMP task ends by enqueueing a FREE task.
Run(w) ==
    /\ wpc[w] = "run"
    /\ done' = done \cup {job[w]}
    /\ wpc' = [wpc EXCEPT ![w] = IF GroupOf(w) = "DECOMP" THEN "spawn" ELSE "finish"]
    /\ UNCHANGED <<main, job, tasks, active, owner, stop, idleWait>>

Spawn(w) ==
    /\ wpc[w] = "spawn" /\ Free("FREE")
    /\ tasks' = [tasks EXCEPT !["FREE"] = Append(@, <<"FREE", job[w][2]>>)]
    /\ wpc' = [wpc EXCEPT ![w] = "notify"]
    /\ UNCHANGED <<main, job, active, owner, stop, idleWait, done>>

SpawnNotify(w) ==
    /\ wpc[w] = "notify"
    /\ NotifyOne("FREE", [wpc EXCEPT ![w] = "finish"])
    /\ UNCHANGED <<main, job, tasks, active, owner, stop, idleWait, done>>

\* Faulty: a worker counts itself out twice.
Active_TwoLess(g) == active[g] - 2

\* --grp.active
Active(g) == active[g] - 1

\* Faulty: the last active worker does not count itself out first.
BecomesIdle_Never(g) == active[g] = 0 /\ tasks[g] = <<>>

\* --grp.active == 0 && grp.tasks.empty()
BecomesIdle(g) == Active(g) = 0 /\ tasks[g] = <<>>

Finish(w) ==
    LET g == GroupOf(w)
    IN  /\ wpc[w] = "finish" /\ Free(g)
        /\ active' = [active EXCEPT ![g] = Active(g)]
        /\ idleWait' = IF BecomesIdle(g) THEN idleWait \ {g} ELSE idleWait
        /\ wpc' = [wpc EXCEPT ![w] = "lock"]
        /\ job' = [job EXCEPT ![w] = Nobody]
        /\ UNCHANGED <<main, tasks, owner, stop, done>>

\* A condition variable may wake a sleeper for no reason.
SpuriousWake(w) ==
    /\ wpc[w] = "asleep"
    /\ wpc' = [wpc EXCEPT ![w] = "lock"]
    /\ UNCHANGED <<main, job, tasks, active, owner, stop, idleWait, done>>

Worker(w) == \/ TakeOrLeave(w) \/ PredicateFalse(w) \/ Block(w) \/ Run(w)
             \/ Spawn(w) \/ SpawnNotify(w) \/ Finish(w)

Next == Main \/ \E w \in AllWorkers : Worker(w) \/ SpuriousWake(w)

\* Threads that can run do run, and a mutex that is free again and again is
\* acquired in the end; nothing makes a spurious wakeup happen.
Spec == /\ Init /\ [][Next]_vars
        /\ SF_vars(Main) /\ \A w \in AllWorkers : SF_vars(Worker(w))

-----------------------------------------------------------------------------
(* Properties.                                                             *)

\* Type correctness of the pool.
TypeOK ==
    /\ main[1] \in {"enqueue", "notify", "wait", "signal", "joined"} /\ main[2] \in Nat
    /\ wpc \in [AllWorkers -> {"lock", "block", "asleep", "run", "spawn",
                               "notify", "finish", "exit"}]
    /\ job \in [AllWorkers -> Tasks \cup {Nobody}]
    /\ tasks \in [Groups -> Seq(Tasks)]
    /\ active \in [Groups -> Nat]
    /\ owner \in [Groups -> AllWorkers \cup {Nobody}]
    /\ stop \in BOOLEAN /\ idleWait \subseteq Groups /\ done \subseteq Tasks

\* wait_idle_all returns only when every task has run, those that tasks have
\* enqueued while it was waiting included; so no enqueue meets a stopped pool
\* (which would throw inside a worker and abort the process).
DrainedAtStop == stop => done = Tasks /\ \A w \in AllWorkers : wpc[w] # "spawn"

\* No wakeup of enqueue is lost: a queued task is run.
QueuedRuns ==
    \A t \in Tasks : (t \in Range(tasks[t[1]])) ~> (t \in done)

\* wait_idle_all returns.
WaitIdleReturns == (main[1] = "wait") ~> stop

\* The destructor signals stop to all groups and joins all workers
\* (mzcache_threadpool.h:46).
DestructorJoins == stop ~> (main[1] = "joined")

-----------------------------------------------------------------------------
(* The inductive invariant behind DrainedAtStop.                           *)

\* Workers of a group between popping a task and --grp.active.
Busy(g) == {w \in Crew(g) : wpc[w] \in {"run", "spawn", "notify", "finish"}}

\* active counts the busy workers; they have, and the queue holds, tasks of the
\* group.
WorkInv ==
    \A g \in Groups :
        /\ active[g] = Cardinality(Busy(g))
        /\ \A t \in Range(tasks[g]) : t[1] = g
        /\ \A w \in Busy(g) :
             /\ job[w] \in Tasks /\ job[w][1] = g
             /\ wpc[w] # "run" => job[w] \in done
             /\ wpc[w] \in {"spawn", "notify"} => g = "DECOMP"

\* A task is queued, run by a worker, or has run.
Known(t) == \/ t \in Range(tasks[t[1]]) \/ t \in done
            \/ \E w \in Busy(t[1]) : wpc[w] = "run" /\ job[w] = t

\* How many tasks the client has enqueued.
Enqueued == IF main[1] = "enqueue" THEN main[2] - 1
            ELSE IF main[1] = "notify" THEN main[2] ELSE NumJobs

\* What was enqueued is not lost, and a DECOMP task that has run has enqueued its
\* FREE task, unless its worker is about to.
TaskInv ==
    /\ \A j \in 1 .. Enqueued : Known(<<"DECOMP", j>>)
    /\ \A j \in 1 .. NumJobs : <<"DECOMP", j>> \in done =>
         \/ Known(<<"FREE", j>>)
         \/ \E w \in Busy("DECOMP") : wpc[w] = "spawn" /\ job[w] = <<"DECOMP", j>>

\* wait_idle_all is past the group.
Passed(g) == \/ main[1] \in {"signal", "joined"}
             \/ main[1] = "wait" /\ main[2] > (IF g = "DECOMP" THEN 1 ELSE 2)

\* A group that wait_idle_all is past stays idle, and only then the pool stops.
ClientInv ==
    /\ main[1] = "enqueue" => main[2] \in 1 .. NumJobs + 1
    /\ main[1] = "notify" => main[2] \in 1 .. NumJobs
    /\ main[1] \in {"wait", "signal"} => main[2] \in 1 .. 3
    /\ \A g \in Groups : Passed(g) => IdleNow(g)
    /\ stop => main[1] \in {"signal", "joined"}

\* worker_loop, enqueue and wait_idle_all together: active counts the busy
\* workers, no enqueued task is lost before it has run, and a group that
\* wait_idle_all has found idle stays idle.
PoolInv == TypeOK /\ WorkInv /\ TaskInv /\ ClientInv
=============================================================================
