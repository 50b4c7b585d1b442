------------------------- MODULE ThreadPoolProofs -------------------------
(***************************************************************************)
(* PoolInv is an invariant of ThreadPool for every number of workers and   *)
(* tasks, and with it wait_idle_all returns only when every task has run,  *)
(* those that tasks enqueued meanwhile included.                           *)
(***************************************************************************)
EXTENDS ThreadPool, FiniteSetTheorems, TLAPS

\* The time the provers get for a leaf.
USE SMTT(15), ZenonT(20)

\* Where a worker of worker_loop has a task, and where it has none.
BusyStates == {"run", "spawn", "notify", "finish"}
IdleStates == {"lock", "block", "asleep", "exit"}

\* Appending to a queue adds the task to it.
LEMMA AppendFacts ==
    ASSUME NEW s \in Seq(Tasks), NEW t \in Tasks
    PROVE  /\ Append(s, t) \in Seq(Tasks) /\ Append(s, t) # <<>>
           /\ Range(Append(s, t)) = Range(s) \cup {t}
<1>1. /\ Append(s, t) \in Seq(Tasks) /\ Append(s, t) # <<>> /\ Len(s) \in Nat
      /\ DOMAIN s = 1 .. Len(s) /\ DOMAIN Append(s, t) = 1 .. Len(s) + 1
      /\ Append(s, t)[Len(s) + 1] = t /\ \A i \in 1 .. Len(s) : Append(s, t)[i] = s[i]
  OBVIOUS
<1>2. Range(Append(s, t)) \subseteq Range(s) \cup {t}
  BY <1>1 DEF Range
<1>3. Range(s) \cup {t} \subseteq Range(Append(s, t))
  BY <1>1 DEF Range
<1> QED
  BY <1>1, <1>2, <1>3

\* Popping from a queue takes its first task.
LEMMA PopFacts ==
    ASSUME NEW s \in Seq(Tasks), s # <<>>
    PROVE  /\ Head(s) \in Tasks /\ Tail(s) \in Seq(Tasks)
           /\ Range(s) = Range(Tail(s)) \cup {Head(s)}
<1>1. Head(s) \in Tasks /\ Tail(s) \in Seq(Tasks) /\ Len(s) \in Nat \ {0}
  OBVIOUS
<1>2. Range(s) \subseteq Range(Tail(s)) \cup {Head(s)}
  <2> SUFFICES ASSUME NEW i \in DOMAIN s, i # 1 PROVE s[i] \in Range(Tail(s))
    BY <1>1 DEF Range
  <2>1. i \in 1 .. Len(s) /\ i - 1 \in 1 .. Len(Tail(s)) /\ Tail(s)[i - 1] = s[i]
    BY <1>1
  <2> QED
    BY <1>1, <2>1 DEF Range
<1>3. Range(Tail(s)) \cup {Head(s)} \subseteq Range(s)
  BY <1>1 DEF Range
<1> QED
  BY <1>1, <1>2, <1>3

\* The crews are finite, disjoint, and all the workers.
LEMMA CrewFacts ==
    /\ \A g \in Groups : IsFiniteSet(Busy(g)) /\ Busy(g) \subseteq Crew(g) /\ Crew(g) \subseteq AllWorkers
    /\ \A g \in Groups : \A w \in Crew(g) : GroupOf(w) = g
    /\ \A w \in AllWorkers : GroupOf(w) \in Groups /\ w \in Crew(GroupOf(w))
<1>1. ASSUME NEW g \in Groups PROVE IsFiniteSet(Crew(g))
  <2>0. 1 \in Int /\ NumWorkers[g] \in Int
    BY PoolAssumption
  <2>1. IsFiniteSet({g}) /\ IsFiniteSet(1 .. NumWorkers[g])
    BY <2>0, FS_Singleton, FS_Interval, Zenon
  <2> QED
    BY <2>1, FS_Product, Zenon DEF Crew
<1>2. \A g \in Groups : Busy(g) \subseteq Crew(g)
  BY DEF Busy
<1>3. \A g \in Groups : IsFiniteSet(Busy(g))
  BY <1>1, <1>2, FS_Subset, Zenon
<1>4. \A g \in Groups : Crew(g) \subseteq AllWorkers
  BY DEF Groups, AllWorkers
<1>5. \A g \in Groups : \A w \in Crew(g) : GroupOf(w) = g
  BY DEF Crew, GroupOf
<1>6. \A w \in AllWorkers : GroupOf(w) \in Groups /\ w \in Crew(GroupOf(w))
  BY <1>5, Zenon DEF AllWorkers, Groups
<1> QED
  BY <1>2, <1>3, <1>4, <1>5, <1>6, Zenon

\* With no worker counted active none is busy.
LEMMA IdleFacts ==
    ASSUME WorkInv, NEW g \in Groups
    PROVE  /\ active[g] = 0 <=> Busy(g) = {}
           /\ IdleNow(g) => Busy(g) = {}
<1>1. active[g] = Cardinality(Busy(g)) /\ IsFiniteSet(Busy(g))
  BY CrewFacts, Zenon DEF WorkInv
<1>2. active[g] = 0 <=> Busy(g) = {}
  BY <1>1, FS_EmptySet, Zenon
<1> QED
  BY <1>2, Zenon DEF IdleNow

\* What Known says of a task <<g, j>>, now and after a step.
LEMMA KnownFacts ==
    ASSUME NEW g, NEW j
    PROVE  /\ Known(<<g, j>>) <=> \/ <<g, j>> \in Range(tasks[g]) \/ <<g, j>> \in done
                                  \/ \E w \in Busy(g) : wpc[w] = "run" /\ job[w] = <<g, j>>
           /\ Known(<<g, j>>)' <=> \/ <<g, j>> \in Range(tasks'[g]) \/ <<g, j>> \in done'
                                   \/ \E w \in Busy(g)' : wpc'[w] = "run" /\ job'[w] = <<g, j>>
<1>1. <<g, j>>[1] = g
  OBVIOUS
<1> QED
  BY <1>1, Zenon DEF Known

\* WorkInv after a step in which the busy workers are those of before, or less.
LEMMA WorkAgain ==
    ASSUME WorkInv, UNCHANGED <<job, done>>,
           \A g \in Groups : active'[g] = Cardinality(Busy(g)') /\ Busy(g)' \subseteq Busy(g),
           \A g \in Groups : \A t \in Range(tasks'[g]) : t[1] = g,
           \A g \in Groups : \A w \in Busy(g)' :
             wpc'[w] = wpc[w] \/ (wpc[w] # "run" /\ wpc'[w] \in {"notify", "finish"} /\ g = "DECOMP")
    PROVE  WorkInv'
<1> SUFFICES ASSUME NEW g \in Groups, NEW w \in Busy(g)'
             PROVE  /\ job'[w] \in Tasks /\ job'[w][1] = g
                    /\ wpc'[w] # "run" => job'[w] \in done'
                    /\ wpc'[w] \in {"spawn", "notify"} => g = "DECOMP"
  BY Zenon DEF WorkInv
<1>1. /\ job[w] \in Tasks /\ job[w][1] = g
      /\ wpc[w] # "run" => job[w] \in done
      /\ wpc[w] \in {"spawn", "notify"} => g = "DECOMP"
  BY Zenon DEF WorkInv
<1> QED
  BY <1>1

\* The tasks known stay known through a step that moves no worker in or out of
\* its task: waiting, waking up, leaving.
LEMMA CalmStep ==
    ASSUME TypeOK, WorkInv, UNCHANGED <<job, tasks, active, done>>,
           \A w \in AllWorkers : wpc'[w] = wpc[w] \/ (wpc[w] \in IdleStates /\ wpc'[w] \in IdleStates)
    PROVE  /\ WorkInv' /\ \A g \in Groups : Busy(g)' = Busy(g)
           /\ \A g \in Groups : \A w \in Busy(g) : wpc'[w] = wpc[w]
           /\ \A g \in Groups : \A j : Known(<<g, j>>) => Known(<<g, j>>)'
<1>1. \A w \in AllWorkers : wpc[w] \in BusyStates \/ wpc'[w] \in BusyStates => wpc'[w] = wpc[w]
  BY DEF IdleStates, BusyStates
<1>2. \A g \in Groups : Busy(g)' = Busy(g) /\ \A w \in Busy(g) : wpc'[w] = wpc[w]
  BY <1>1, CrewFacts, Zenon DEF Busy, BusyStates
<1>3. WorkInv'
  <2>1. ASSUME NEW g \in Groups
        PROVE  active'[g] = Cardinality(Busy(g)') /\ \A t \in Range(tasks'[g]) : t[1] = g
    <3>1. active[g] = Cardinality(Busy(g)) /\ \A t \in Range(tasks[g]) : t[1] = g
      BY Zenon DEF WorkInv
    <3>2. Busy(g)' = Busy(g)
      BY <1>2, Zenon
    <3> QED
      BY <3>1, <3>2, Zenon
  <2> QED
    BY <1>2, <2>1, WorkAgain
<1>4. ASSUME NEW g \in Groups, NEW j, Known(<<g, j>>) PROVE Known(<<g, j>>)'
  BY <1>2, <1>4, KnownFacts, Zenon
<1> QED
  BY <1>2, <1>3, <1>4

\* What a worker's step may not touch.
LEMMA ClientKept ==
    ASSUME ClientInv, UNCHANGED <<main, stop>>,
           \A g \in Groups : Passed(g) => tasks'[g] = tasks[g] /\ active'[g] = active[g]
    PROVE  ClientInv' /\ Enqueued' = Enqueued
<1>1. \A g \in Groups : Passed(g)' <=> Passed(g)
  BY DEF Passed
<1>2. \A g \in Groups : Passed(g)' => IdleNow(g)'
  BY <1>1, Zenon DEF ClientInv, IdleNow
<1> QED
  BY <1>2, Zenon DEF ClientInv, Enqueued

\* TaskInv after a step that loses no task and runs none.
LEMMA TasksKept ==
    ASSUME PoolInv, TypeOK', WorkInv', ClientInv', Enqueued' = Enqueued, done' = done,
           \A g \in Groups : \A j : Known(<<g, j>>) => Known(<<g, j>>)',
           \A j \in 1 .. NumJobs : \A v \in Busy("DECOMP") : wpc[v] = "spawn" /\ job[v] = <<"DECOMP", j>> =>
             \/ v \in Busy("DECOMP")' /\ wpc'[v] = "spawn" /\ job'[v] = <<"DECOMP", j>>
             \/ Known(<<"FREE", j>>)'
    PROVE  PoolInv'
<1>1. "DECOMP" \in Groups /\ "FREE" \in Groups
  BY DEF Groups
<1>2. ASSUME NEW j \in 1 .. Enqueued' PROVE Known(<<"DECOMP", j>>)'
  BY <1>1, <1>2, Zenon DEF PoolInv, TaskInv
<1>3. ASSUME NEW j \in 1 .. NumJobs, <<"DECOMP", j>> \in done'
      PROVE  \/ Known(<<"FREE", j>>)'
             \/ \E w \in Busy("DECOMP")' : wpc'[w] = "spawn" /\ job'[w] = <<"DECOMP", j>>
  <2>1. \/ Known(<<"FREE", j>>)
        \/ \E w \in Busy("DECOMP") : wpc[w] = "spawn" /\ job[w] = <<"DECOMP", j>>
    BY <1>3, Zenon DEF PoolInv, TaskInv
  <2> QED
    BY <1>1, <2>1, Zenon
<1>4. TaskInv'
  BY <1>2, <1>3, Zenon DEF TaskInv
<1> QED
  BY <1>4, Zenon DEF PoolInv

\* The steps of the client and of the condition variables.
LEMMA CalmInv ==
    ASSUME PoolInv, UNCHANGED <<job, tasks, active, done>>, TypeOK', ClientInv',
           Enqueued' = Enqueued,
           \A w \in AllWorkers : wpc'[w] = wpc[w] \/ (wpc[w] \in IdleStates /\ wpc'[w] \in IdleStates)
    PROVE  PoolInv'
<1>1. /\ WorkInv' /\ \A g \in Groups : Busy(g)' = Busy(g)
      /\ \A g \in Groups : \A w \in Busy(g) : wpc'[w] = wpc[w]
      /\ \A g \in Groups : \A j : Known(<<g, j>>) => Known(<<g, j>>)'
  BY CalmStep, Zenon DEF PoolInv
<1>2. "DECOMP" \in Groups
  BY DEF Groups
<1>3. \A j \in 1 .. NumJobs : \A v \in Busy("DECOMP") : wpc[v] = "spawn" /\ job[v] = <<"DECOMP", j>> =>
        v \in Busy("DECOMP")' /\ wpc'[v] = "spawn" /\ job'[v] = <<"DECOMP", j>>
  BY <1>1, <1>2, Zenon
<1> QED
  BY <1>1, <1>3, TasksKept, Zenon

\* What the steps of the proofs need of the types.
LEMMA Typing ==
    ASSUME PoolInv
    PROVE  /\ wpc \in [AllWorkers -> BusyStates \cup IdleStates] /\ job \in [AllWorkers -> Tasks \cup {Nobody}]
           /\ tasks \in [Groups -> Seq(Tasks)] /\ active \in [Groups -> Nat]
           /\ owner \in [Groups -> AllWorkers \cup {Nobody}]
           /\ NumJobs \in Nat
<1>1. {"lock", "block", "asleep", "run", "spawn", "notify", "finish", "exit"} = BusyStates \cup IdleStates
  BY DEF BusyStates, IdleStates
<1> QED
  BY <1>1, PoolAssumption, Zenon DEF PoolInv, TypeOK

\* notify_one and notify_all move sleepers only, and only to the mutex.
LEMMA NotifyFacts ==
    ASSUME wpc \in [AllWorkers -> BusyStates \cup IdleStates], NEW g \in Groups,
           NotifyOne(g, wpc) \/ NotifyAll(g)
    PROVE  /\ wpc' \in [AllWorkers -> BusyStates \cup IdleStates]
           /\ \A w \in AllWorkers : wpc'[w] = wpc[w] \/ (wpc[w] \in IdleStates /\ wpc'[w] \in IdleStates)
<1>1. \A w \in Asleep(g) : w \in AllWorkers /\ wpc[w] = "asleep"
  BY CrewFacts DEF Asleep
<1>2. CASE NotifyOne(g, wpc)
  <2>1. CASE Asleep(g) = {}
    BY <1>2, <2>1 DEF NotifyOne
  <2>2. CASE Asleep(g) # {}
    <3>1. PICK v \in Asleep(g) : wpc' = [wpc EXCEPT ![v] = "lock"]
      BY <1>2, <2>2, Zenon DEF NotifyOne
    <3>2. v \in AllWorkers /\ wpc[v] = "asleep"
      BY <1>1
    <3> QED
      BY <3>1, <3>2 DEF IdleStates
  <2> QED
    BY <2>1, <2>2
<1>3. CASE NotifyAll(g)
  BY <1>1, <1>3 DEF NotifyAll, IdleStates
<1> QED
  BY <1>2, <1>3

-----------------------------------------------------------------------------
(* The client.                                                             *)

\* The client's own steps, all but enqueue: it waits for each group in turn, and
\* what it has seen idle stays so.
LEMMA ClientStep ==
    ASSUME PoolInv, EnqueueNotify \/ EnqueuedAll \/ WaitIdle \/ SetStop \/ SignalGroup \/ Join
    PROVE  PoolInv'
<1> USE DEF PoolInv
<1>1. /\ UNCHANGED <<job, tasks, active, done, owner>>
  BY Zenon DEF EnqueueNotify, EnqueuedAll, WaitIdle, SetStop, SignalGroup, Join
<1>2. \A g \in Groups : IdleNow(g)' <=> IdleNow(g)
  BY <1>1, Zenon DEF IdleNow
<1>3. /\ WaitOrder[1] = "DECOMP" /\ WaitOrder[2] = "FREE" /\ Len(WaitOrder) = 2
      /\ \A g \in Groups : g \in {"DECOMP", "FREE"} /\ "DECOMP" \in Groups /\ "FREE" \in Groups
  BY DEF WaitOrder, Groups
<1>4. /\ wpc' \in [AllWorkers -> BusyStates \cup IdleStates]
      /\ \A w \in AllWorkers : wpc'[w] = wpc[w] \/ (wpc[w] \in IdleStates /\ wpc'[w] \in IdleStates)
  <2>1. CASE EnqueueNotify
    BY <1>3, <2>1, Typing, NotifyFacts, Zenon DEF EnqueueNotify, Groups
  <2>2. CASE SignalGroup
    <3>1. main[2] \in Nat
      BY Zenon DEF TypeOK
    <3>2. main[2] \in 1 .. 2
      <4>1. main[1] = "signal" /\ main[2] <= Len(WaitOrder)
        BY <2>2, Zenon DEF SignalGroup
      <4>2. main[2] \in 1 .. 3
        BY <4>1 DEF ClientInv
      <4> QED
        BY <1>3, <4>1, <4>2
    <3>3. WaitOrder[main[2]] \in Groups
      BY <1>3, <3>2 DEF Groups
    <3> QED
      BY <2>2, <3>3, Typing, NotifyFacts, Zenon DEF SignalGroup
  <2>3. CASE EnqueuedAll \/ WaitIdle \/ SetStop \/ Join
    BY <2>3, Typing, Zenon DEF EnqueuedAll, WaitIdle, SetStop, Join
  <2> QED
    BY <2>1, <2>2, <2>3
<1>5. /\ main'[1] \in {"enqueue", "notify", "wait", "signal", "joined"} /\ main'[2] \in Nat
      /\ stop' \in BOOLEAN /\ idleWait' \subseteq Groups
      /\ ClientInv' /\ Enqueued' = Enqueued
  <2>0. main[2] \in Nat /\ idleWait \subseteq Groups /\ stop \in BOOLEAN /\ NumJobs \in Nat
    BY PoolAssumption, Zenon DEF TypeOK
  <2>1. CASE EnqueueNotify
    <3>1. main[1] = "notify" /\ main' = <<"enqueue", main[2] + 1>> /\ UNCHANGED <<stop, idleWait>>
      BY <2>1, Zenon DEF EnqueueNotify
    <3> QED
      BY <2>0, <3>1 DEF ClientInv, Passed, Enqueued
  <2>2. CASE EnqueuedAll
    BY <2>0, <2>2 DEF EnqueuedAll, ClientInv, Passed, Enqueued
  <2>3. CASE WaitIdle
    <3>1. /\ main[1] = "wait" /\ main[2] \in 1 .. 2 /\ stop' = stop
          /\ WaitOrder[main[2]] \in Groups
      <4>1. main[1] = "wait" /\ main[2] <= Len(WaitOrder) /\ stop' = stop
        BY <2>3, Zenon DEF WaitIdle
      <4>2. main[2] \in 1 .. 3
        BY <4>1 DEF ClientInv
      <4>3. main[2] \in {1, 2}
        BY <1>3, <4>1, <4>2
      <4> QED
        BY <1>3, <4>1, <4>3 DEF Groups
    <3>2. CASE IdleNow(WaitOrder[main[2]])
      <4>1. main' = <<"wait", main[2] + 1>> /\ idleWait' = idleWait
        BY <2>3, <3>2 DEF WaitIdle
      <4>2. ASSUME NEW g \in Groups, Passed(g)' PROVE IdleNow(g)
        BY <1>3, <3>1, <3>2, <4>1, <4>2 DEF Passed, ClientInv
      <4> QED
        BY <1>2, <2>0, <3>1, <4>1, <4>2 DEF ClientInv, Enqueued
    <3>3. CASE ~IdleNow(WaitOrder[main[2]])
      <4>1. main' = main /\ idleWait' \subseteq Groups
        BY <2>0, <2>3, <3>1, <3>3 DEF WaitIdle
      <4> QED
        BY <1>1, <2>0, <3>1, <4>1, ClientKept
    <3> QED
      BY <3>2, <3>3
  <2>4. CASE SetStop
    <3>1. /\ main[1] = "wait" /\ main[2] = 3 /\ main'[1] = "signal" /\ main'[2] = 1
          /\ stop' = TRUE /\ idleWait' = idleWait
      BY <1>3, <2>4 DEF SetStop
    <3>2. \A g \in Groups : IdleNow(g)
      BY <1>3, <3>1 DEF Passed, ClientInv
    <3> QED
      BY <1>2, <2>0, <3>1, <3>2 DEF ClientInv, Enqueued
  <2>5. CASE SignalGroup \/ Join
    <3>1. /\ main[1] = "signal" /\ main'[1] \in {"signal", "joined"} /\ main'[2] \in Nat
          /\ stop' = stop /\ idleWait' = idleWait
          /\ main'[1] = "signal" => main'[2] \in 1 .. 3
      <4>1. CASE SignalGroup
        <5>1. /\ main[1] = "signal" /\ main[2] <= 2 /\ main' = <<"signal", main[2] + 1>>
              /\ UNCHANGED <<stop, idleWait>>
          BY <1>3, <4>1, Zenon DEF SignalGroup
        <5> QED
          BY <2>0, <5>1
      <4>2. CASE Join
        BY <4>2 DEF Join
      <4> QED
        BY <2>5, <4>1, <4>2
    <3>2. \A g \in Groups : IdleNow(g)
      BY <3>1 DEF Passed, ClientInv
    <3> QED
      BY <1>2, <2>0, <3>1, <3>2 DEF ClientInv, Enqueued
  <2> QED
    BY <2>1, <2>2, <2>3, <2>4, <2>5
<1>6. TypeOK'
  <2>1. wpc' \in [AllWorkers -> {"lock", "block", "asleep", "run", "spawn", "notify", "finish", "exit"}]
    BY <1>4 DEF BusyStates, IdleStates
  <2> QED
    BY <1>1, <1>5, <2>1, Zenon DEF TypeOK
<1> QED
  BY <1>1, <1>4, <1>5, <1>6, CalmInv

\* enqueue: one task more in the DECOMP queue.
LEMMA EnqueueStep == ASSUME PoolInv, Enqueue PROVE PoolInv'
<1> DEFINE k == main[2]
           D == "DECOMP"
<1>1. /\ main[1] = "enqueue" /\ k <= NumJobs /\ main' = <<"notify", k>>
      /\ tasks' = [tasks EXCEPT ![D] = Append(@, <<D, k>>)]
      /\ UNCHANGED <<wpc, job, active, owner, stop, idleWait, done>>
  BY Zenon DEF Enqueue
<1>2. /\ k \in 1 .. NumJobs /\ <<D, k>> \in Tasks /\ D \in Groups /\ tasks[D] \in Seq(Tasks) /\ ~stop
  <2>1. k \in 1 .. NumJobs + 1 /\ ~stop
    BY <1>1 DEF PoolInv, ClientInv
  <2> QED
    BY <1>1, <2>1, Typing DEF Tasks, Groups
<1>3. /\ \A g \in Groups : g # D => tasks'[g] = tasks[g]
      /\ tasks'[D] = Append(tasks[D], <<D, k>>)
      /\ tasks' \in [Groups -> Seq(Tasks)]
  BY <1>1, <1>2, Typing, AppendFacts
<1>4. /\ Range(tasks'[D]) = Range(tasks[D]) \cup {<<D, k>>}
      /\ \A g \in Groups : Range(tasks[g]) \subseteq Range(tasks'[g])
  <2>1. Range(tasks'[D]) = Range(tasks[D]) \cup {<<D, k>>}
    BY <1>2, <1>3, AppendFacts, Zenon
  <2>2. ASSUME NEW g \in Groups PROVE Range(tasks[g]) \subseteq Range(tasks'[g])
    <3>1. CASE g = D
      BY <2>1, <3>1, Zenon
    <3>2. CASE g # D
      BY <1>3, <3>2, Zenon
    <3> QED
      BY <3>1, <3>2
  <2> QED
    BY <2>1, <2>2
<1>5. \A g \in Groups : Busy(g)' = Busy(g)
  BY <1>1, Zenon DEF Busy
<1>6. ASSUME NEW g \in Groups, NEW j, Known(<<g, j>>) PROVE Known(<<g, j>>)'
  BY <1>1, <1>4, <1>5, <1>6, KnownFacts, Zenon
<1>7. TypeOK'
  <2>1. main'[1] = "notify" /\ main'[2] \in Nat
    BY <1>1, <1>2
  <2> QED
    BY <1>1, <1>3, <2>1, Zenon DEF PoolInv, TypeOK
<1>8. WorkInv'
  <2>1. ASSUME NEW g \in Groups PROVE \A t \in Range(tasks'[g]) : t[1] = g
    <3>1. \A t \in Range(tasks[g]) : t[1] = g
      BY Zenon DEF PoolInv, WorkInv
    <3>2. <<D, k>>[1] = D
      OBVIOUS
    <3>3. CASE g = D
      BY <1>4, <3>1, <3>2, <3>3, Zenon
    <3>4. CASE g # D
      BY <1>3, <3>1, <3>4, Zenon
    <3> QED
      BY <3>3, <3>4
  <2>2. ASSUME NEW g \in Groups PROVE active'[g] = Cardinality(Busy(g)') /\ Busy(g)' \subseteq Busy(g)
    <3>1. active[g] = Cardinality(Busy(g)) /\ Busy(g)' = Busy(g)
      BY <1>5, Zenon DEF PoolInv, WorkInv
    <3> QED
      BY <1>1, <3>1, Zenon
  <2>3. WorkInv
    BY DEF PoolInv
  <2> QED
    BY <1>1, <2>1, <2>2, <2>3, WorkAgain, Zenon
<1>9. TaskInv'
  <2>1. ASSUME NEW j \in 1 .. Enqueued' PROVE Known(<<D, j>>)'
    <3>1. Enqueued' = k /\ Enqueued = k - 1
      BY <1>1 DEF Enqueued
    <3>2. j \in 1 .. Enqueued \/ j = k
      BY <1>2, <3>1
    <3>3. j \in 1 .. Enqueued => Known(<<D, j>>)
      BY Zenon DEF PoolInv, TaskInv
    <3>4. <<D, k>> \in Range(tasks'[D])
      BY <1>4
    <3> QED
      BY <1>2, <1>6, <3>2, <3>3, <3>4, KnownFacts, Zenon
  <2>2. "FREE" \in Groups
    BY DEF Groups
  <2>3. ASSUME NEW j \in 1 .. NumJobs, <<D, j>> \in done'
        PROVE  \/ Known(<<"FREE", j>>)'
               \/ \E w \in Busy(D)' : wpc'[w] = "spawn" /\ job'[w] = <<D, j>>
    BY <1>1, <1>2, <1>5, <1>6, <2>2, <2>3, Zenon DEF PoolInv, TaskInv
  <2> QED
    BY <2>1, <2>3, Zenon DEF TaskInv
<1>10. ClientInv'
  BY <1>1, <1>2 DEF ClientInv, Passed
<1> QED
  BY <1>7, <1>8, <1>9, <1>10 DEF PoolInv

-----------------------------------------------------------------------------
(* The workers.                                                            *)

\* A worker that waits: it finds its predicate false, blocks, wakes up, or leaves
\* a stopped pool.
LEMMA WaitingStep ==
    ASSUME PoolInv, NEW w \in AllWorkers,
           PredicateFalse(w) \/ Block(w) \/ SpuriousWake(w) \/ (TakeOrLeave(w) /\ tasks[GroupOf(w)] = <<>>)
    PROVE  PoolInv'
<1>1. /\ wpc[w] \in {"lock", "block", "asleep"}
      /\ \/ wpc' = [wpc EXCEPT ![w] = "block"] \/ wpc' = [wpc EXCEPT ![w] = "asleep"]
         \/ wpc' = [wpc EXCEPT ![w] = "lock"] \/ wpc' = [wpc EXCEPT ![w] = "exit"]
      /\ \/ owner' = owner \/ owner' = [owner EXCEPT ![GroupOf(w)] = w]
         \/ owner' = [owner EXCEPT ![GroupOf(w)] = Nobody]
      /\ UNCHANGED <<main, job, tasks, active, stop, idleWait, done>>
  BY Zenon DEF PredicateFalse, Block, SpuriousWake, TakeOrLeave
<1>2. /\ wpc' \in [AllWorkers -> BusyStates \cup IdleStates]
      /\ \A v \in AllWorkers : wpc'[v] = wpc[v] \/ (wpc[v] \in IdleStates /\ wpc'[v] \in IdleStates)
  BY <1>1, Typing, Zenon DEF IdleStates
<1>3. ClientInv' /\ Enqueued' = Enqueued
  BY <1>1, ClientKept, Zenon DEF PoolInv
<1>4. TypeOK'
  <2>1. wpc' \in [AllWorkers -> {"lock", "block", "asleep", "run", "spawn", "notify", "finish", "exit"}]
    BY <1>2 DEF BusyStates, IdleStates
  <2>2. owner' \in [Groups -> AllWorkers \cup {Nobody}]
    BY <1>1, Typing, Zenon
  <2> QED
    BY <1>1, <2>1, <2>2, Zenon DEF PoolInv, TypeOK
<1> QED
  BY <1>1, <1>2, <1>3, <1>4, CalmInv

\* What a busy worker is about.
LEMMA BusyFacts ==
    ASSUME PoolInv, NEW w \in AllWorkers, wpc[w] \in BusyStates
    PROVE  /\ GroupOf(w) \in Groups /\ w \in Busy(GroupOf(w)) /\ w \in Crew(GroupOf(w))
           /\ job[w] \in Tasks /\ job[w][1] = GroupOf(w)
           /\ wpc[w] # "run" => job[w] \in done
           /\ wpc[w] \in {"spawn", "notify"} => GroupOf(w) = "DECOMP"
           /\ ~Passed(GroupOf(w))
<1>1. GroupOf(w) \in Groups /\ w \in Busy(GroupOf(w)) /\ w \in Crew(GroupOf(w))
  BY CrewFacts, Zenon DEF Busy, BusyStates
<1>2. /\ job[w] \in Tasks /\ job[w][1] = GroupOf(w)
      /\ wpc[w] # "run" => job[w] \in done
      /\ wpc[w] \in {"spawn", "notify"} => GroupOf(w) = "DECOMP"
  BY <1>1, Zenon DEF PoolInv, WorkInv
<1>3. ~IdleNow(GroupOf(w))
  BY <1>1, IdleFacts, Zenon DEF PoolInv
<1>4. ~Passed(GroupOf(w))
  BY <1>1, <1>3, Zenon DEF PoolInv, ClientInv
<1> QED
  BY <1>1, <1>2, <1>4, Zenon

\* A worker pops the first task of its queue and counts itself active.
LEMMA TakeStep ==
    ASSUME PoolInv, NEW w \in AllWorkers, TakeOrLeave(w), tasks[GroupOf(w)] # <<>>
    PROVE  PoolInv'
<1> DEFINE g == GroupOf(w)
           q == tasks[g]
<1>1. /\ wpc[w] = "lock" /\ wpc' = [wpc EXCEPT ![w] = "run"]
      /\ job' = [job EXCEPT ![w] = Head(q)]
      /\ tasks' = [tasks EXCEPT ![g] = Tail(@)]
      /\ active' = [active EXCEPT ![g] = @ + 1]
      /\ UNCHANGED <<main, owner, stop, idleWait, done>>
  BY Zenon DEF TakeOrLeave
<1>2. /\ g \in Groups /\ w \in Crew(g) /\ q \in Seq(Tasks) /\ q # <<>>
      /\ \A h \in Groups : \A v \in Crew(h) : v \in AllWorkers /\ GroupOf(v) = h
      /\ \A h \in Groups : h # g => w \notin Crew(h)
  BY CrewFacts, Typing, Zenon
<1>3. /\ Head(q) \in Tasks /\ Head(q)[1] = g /\ Tail(q) \in Seq(Tasks)
      /\ Range(q) = Range(Tail(q)) \cup {Head(q)}
  <2>1. Head(q) \in Range(q)
    BY <1>2, PopFacts, Zenon
  <2>2. \A t \in Range(q) : t[1] = g
    BY <1>2, Zenon DEF PoolInv, WorkInv
  <2> QED
    BY <1>2, <2>1, <2>2, PopFacts, Zenon
<1>4. /\ tasks'[g] = Tail(q) /\ active'[g] = active[g] + 1 /\ wpc'[w] = "run" /\ job'[w] = Head(q)
      /\ \A h \in Groups : h # g => tasks'[h] = tasks[h] /\ active'[h] = active[h]
      /\ \A v \in AllWorkers : v # w => wpc'[v] = wpc[v] /\ job'[v] = job[v]
      /\ tasks' \in [Groups -> Seq(Tasks)] /\ active' \in [Groups -> Nat]
      /\ job' \in [AllWorkers -> Tasks \cup {Nobody}]
      /\ wpc' \in [AllWorkers -> BusyStates \cup IdleStates]
  BY <1>1, <1>2, <1>3, Typing DEF BusyStates
<1> HIDE DEF g, q
<1>5. /\ Busy(g)' = Busy(g) \cup {w} /\ w \notin Busy(g)
      /\ \A h \in Groups : h # g => Busy(h)' = Busy(h)
  <2>1. w \notin Busy(g)
    BY <1>1 DEF Busy
  <2>2. Busy(g)' = Busy(g) \cup {w}
    BY <1>2, <1>4 DEF Busy
  <2>3. \A h \in Groups : h # g => Busy(h)' = Busy(h)
    BY <1>2, <1>4, Zenon DEF Busy
  <2> QED
    BY <2>1, <2>2, <2>3
<1>6. TypeOK'
  <2>1. wpc' \in [AllWorkers -> {"lock", "block", "asleep", "run", "spawn", "notify", "finish", "exit"}]
    BY <1>4 DEF BusyStates, IdleStates
  <2> QED
    BY <1>1, <1>4, <2>1, Zenon DEF PoolInv, TypeOK
<1>7. WorkInv'
  <2> SUFFICES ASSUME NEW h \in Groups
               PROVE  /\ active'[h] = Cardinality(Busy(h)')
                      /\ \A t \in Range(tasks'[h]) : t[1] = h
                      /\ \A v \in Busy(h)' :
                           /\ job'[v] \in Tasks /\ job'[v][1] = h
                           /\ wpc'[v] # "run" => job'[v] \in done'
                           /\ wpc'[v] \in {"spawn", "notify"} => h = "DECOMP"
    BY Zenon DEF WorkInv
  <2>1. /\ active[h] = Cardinality(Busy(h)) /\ IsFiniteSet(Busy(h)) /\ Busy(h) \subseteq Crew(h)
        /\ \A t \in Range(tasks[h]) : t[1] = h
        /\ \A v \in Busy(h) :
             /\ job[v] \in Tasks /\ job[v][1] = h
             /\ wpc[v] # "run" => job[v] \in done
             /\ wpc[v] \in {"spawn", "notify"} => h = "DECOMP"
    BY CrewFacts, Zenon DEF PoolInv, WorkInv
  <2>2. \A v \in Busy(h) : v # w /\ v \in AllWorkers
    BY <1>2, <1>5, <2>1, Zenon
  <2>3. CASE h = g
    <3>1. active'[h] = Cardinality(Busy(h)')
      <4>1. Cardinality(Busy(g) \cup {w}) = Cardinality(Busy(g)) + 1
        BY <1>5, <2>1, <2>3, FS_AddElement, Zenon
      <4> QED
        BY <1>4, <1>5, <2>1, <2>3, <4>1, Zenon
    <3>2. \A t \in Range(tasks'[h]) : t[1] = h
      BY <1>3, <1>4, <2>1, <2>3, Zenon DEF q
    <3>3. ASSUME NEW v \in Busy(h)'
          PROVE  /\ job'[v] \in Tasks /\ job'[v][1] = h
                 /\ wpc'[v] # "run" => job'[v] \in done'
                 /\ wpc'[v] \in {"spawn", "notify"} => h = "DECOMP"
      <4>1. CASE v = w
        BY <1>3, <1>4, <2>3, <4>1
      <4>2. CASE v \in Busy(h)
        <5>1. job'[v] = job[v] /\ wpc'[v] = wpc[v] /\ done' = done
          BY <1>1, <1>4, <2>2, <4>2, Zenon
        <5> QED
          BY <2>1, <4>2, <5>1
      <4> QED
        BY <1>5, <2>3, <3>3, <4>1, <4>2, Zenon
    <3> QED
      BY <3>1, <3>2, <3>3
  <2>4. CASE h # g
    <3>1. /\ Busy(h)' = Busy(h) /\ active'[h] = active[h] /\ tasks'[h] = tasks[h] /\ done' = done
          /\ \A v \in Busy(h) : job'[v] = job[v] /\ wpc'[v] = wpc[v]
      BY <1>1, <1>4, <1>5, <2>2, <2>4, Zenon
    <3> QED
      BY <2>1, <3>1
  <2> QED
    BY <2>3, <2>4
<1>8. ASSUME NEW h \in Groups, NEW j, Known(<<h, j>>) PROVE Known(<<h, j>>)'
  <2>1. CASE <<h, j>> \in done
    BY <1>1, <2>1, KnownFacts, Zenon
  <2>2. CASE <<h, j>> \in Range(tasks[h])
    <3>1. CASE h = g /\ <<h, j>> = Head(q)
      <4>1. w \in Busy(h)' /\ wpc'[w] = "run" /\ job'[w] = <<h, j>>
        BY <1>4, <1>5, <3>1, Zenon
      <4> QED
        BY <4>1, KnownFacts, Zenon
    <3>2. CASE ~(h = g /\ <<h, j>> = Head(q))
      <4>1. <<h, j>> \in Range(tasks'[h])
        <5>1. CASE h = g
          <6>1. <<h, j>> \in Range(q) /\ <<h, j>> # Head(q) /\ tasks'[h] = Tail(q)
            BY <1>4, <2>2, <3>2, <5>1, Zenon DEF q
          <6> QED
            BY <1>3, <6>1, Zenon
        <5>2. CASE h # g
          BY <1>4, <2>2, <5>2, Zenon
        <5> QED
          BY <5>1, <5>2
      <4> QED
        BY <4>1, KnownFacts, Zenon
    <3> QED
      BY <3>1, <3>2
  <2>3. ASSUME NEW v \in Busy(h), wpc[v] = "run", job[v] = <<h, j>> PROVE Known(<<h, j>>)'
    <3>1. v # w /\ v \in AllWorkers /\ v \in Busy(h)'
      BY <1>1, <1>2, <1>5, <2>3 DEF Busy
    <3>2. wpc'[v] = "run" /\ job'[v] = <<h, j>>
      BY <1>4, <2>3, <3>1, Zenon
    <3> QED
      BY <3>1, <3>2, KnownFacts, Zenon
  <2> QED
    BY <1>8, <2>1, <2>2, <2>3, KnownFacts, Zenon
<1>9. \A j \in 1 .. NumJobs : \A v \in Busy("DECOMP") : wpc[v] = "spawn" /\ job[v] = <<"DECOMP", j>> =>
        v \in Busy("DECOMP")' /\ wpc'[v] = "spawn" /\ job'[v] = <<"DECOMP", j>>
  BY <1>1, <1>2, <1>4, <1>5 DEF Busy, Groups
<1>10. ClientInv' /\ Enqueued' = Enqueued
  <2>1. ~Passed(g)
    BY <1>2, Zenon DEF PoolInv, ClientInv, IdleNow, q
  <2> QED
    BY <1>1, <1>4, <2>1, ClientKept, Zenon DEF PoolInv
<1> QED
  BY <1>1, <1>6, <1>7, <1>8, <1>9, <1>10, TasksKept

\* t(): the task has run; a worker of DECOMP goes on to enqueue the FREE task.
LEMMA RunStep == ASSUME PoolInv, NEW w \in AllWorkers, Run(w) PROVE PoolInv'
<1> DEFINE g == GroupOf(w)
           next == IF g = "DECOMP" THEN "spawn" ELSE "finish"
<1>1. /\ wpc[w] = "run" /\ done' = done \cup {job[w]} /\ wpc' = [wpc EXCEPT ![w] = next]
      /\ UNCHANGED <<main, job, tasks, active, owner, stop, idleWait>>
  BY Zenon DEF Run
<1>2. /\ g \in Groups /\ w \in Busy(g) /\ job[w] \in Tasks /\ job[w][1] = g
  BY <1>1, BusyFacts DEF BusyStates
<1>3. /\ wpc'[w] = next /\ next \in {"spawn", "finish"} /\ (next = "spawn" => g = "DECOMP")
      /\ \A v \in AllWorkers : v # w => wpc'[v] = wpc[v]
      /\ wpc' \in [AllWorkers -> BusyStates \cup IdleStates]
  BY <1>1, Typing DEF BusyStates
<1> HIDE DEF g, next
<1>4. ASSUME NEW h \in Groups PROVE Busy(h)' = Busy(h) /\ \A v \in Busy(h) : v \in AllWorkers
  <2>1. \A v \in Crew(h) : v \in AllWorkers
    BY CrewFacts, Zenon
  <2>2. ASSUME NEW v \in Crew(h)
        PROVE  wpc'[v] \in {"run", "spawn", "notify", "finish"} <=> wpc[v] \in {"run", "spawn", "notify", "finish"}
    BY <1>1, <1>3, <2>1
  <2> QED
    BY <2>1, <2>2, Zenon DEF Busy
<1>5. TypeOK'
  <2>1. wpc' \in [AllWorkers -> {"lock", "block", "asleep", "run", "spawn", "notify", "finish", "exit"}]
    BY <1>3 DEF BusyStates, IdleStates
  <2>2. done \subseteq Tasks
    BY Zenon DEF PoolInv, TypeOK
  <2>3. done' \subseteq Tasks
    BY <1>1, <1>2, <2>2, Zenon
  <2> QED
    BY <1>1, <2>1, <2>3, Zenon DEF PoolInv, TypeOK
<1>6. WorkInv'
  <2> SUFFICES ASSUME NEW h \in Groups
               PROVE  /\ active'[h] = Cardinality(Busy(h)')
                      /\ \A t \in Range(tasks'[h]) : t[1] = h
                      /\ \A v \in Busy(h)' :
                           /\ job'[v] \in Tasks /\ job'[v][1] = h
                           /\ wpc'[v] # "run" => job'[v] \in done'
                           /\ wpc'[v] \in {"spawn", "notify"} => h = "DECOMP"
    BY Zenon DEF WorkInv
  <2>1. /\ active[h] = Cardinality(Busy(h))
        /\ \A t \in Range(tasks[h]) : t[1] = h
        /\ \A v \in Busy(h) :
             /\ job[v] \in Tasks /\ job[v][1] = h
             /\ wpc[v] # "run" => job[v] \in done
             /\ wpc[v] \in {"spawn", "notify"} => h = "DECOMP"
    BY Zenon DEF PoolInv, WorkInv
  <2>2. /\ active'[h] = Cardinality(Busy(h)') /\ \A t \in Range(tasks'[h]) : t[1] = h
    BY <1>1, <1>4, <2>1, Zenon
  <2>3. ASSUME NEW v \in Busy(h)
        PROVE  /\ job'[v] \in Tasks /\ job'[v][1] = h
               /\ wpc'[v] # "run" => job'[v] \in done'
               /\ wpc'[v] \in {"spawn", "notify"} => h = "DECOMP"
    <3>1. job'[v] = job[v] /\ done \subseteq done' /\ job[w] \in done'
      BY <1>1, Zenon
    <3>2. CASE v = w
      BY <1>2, <1>3, <2>1, <3>1, <3>2
    <3>3. CASE v # w
      <4>1. wpc'[v] = wpc[v]
        BY <1>3, <1>4, <3>3, Zenon
      <4> QED
        BY <2>1, <3>1, <4>1
    <3> QED
      BY <3>2, <3>3
  <2> QED
    BY <1>4, <2>2, <2>3, Zenon
<1>7. ASSUME NEW h \in Groups, NEW j, Known(<<h, j>>) PROVE Known(<<h, j>>)'
  <2>1. CASE <<h, j>> \in done \/ <<h, j>> \in Range(tasks[h])
    BY <1>1, <2>1, KnownFacts, Zenon
  <2>2. ASSUME NEW v \in Busy(h), wpc[v] = "run", job[v] = <<h, j>> PROVE Known(<<h, j>>)'
    <3>1. CASE v = w
      BY <1>1, <2>2, <3>1, KnownFacts, Zenon
    <3>2. CASE v # w
      <4>1. v \in Busy(h)' /\ wpc'[v] = "run" /\ job'[v] = <<h, j>>
        BY <1>1, <1>3, <1>4, <2>2, <3>2, Zenon
      <4> QED
        BY <4>1, KnownFacts, Zenon
    <3> QED
      BY <3>1, <3>2
  <2> QED
    BY <1>7, <2>1, <2>2, KnownFacts, Zenon
<1>8. ClientInv' /\ Enqueued' = Enqueued
  BY <1>1, ClientKept, Zenon DEF PoolInv
<1>9. "DECOMP" \in Groups /\ "FREE" \in Groups
  BY DEF Groups
<1>10. ASSUME NEW j \in 1 .. Enqueued' PROVE Known(<<"DECOMP", j>>)'
  BY <1>7, <1>8, <1>9, <1>10, Zenon DEF PoolInv, TaskInv
<1>11. ASSUME NEW j \in 1 .. NumJobs, <<"DECOMP", j>> \in done'
       PROVE  \/ Known(<<"FREE", j>>)'
              \/ \E v \in Busy("DECOMP")' : wpc'[v] = "spawn" /\ job'[v] = <<"DECOMP", j>>
  <2>1. CASE <<"DECOMP", j>> = job[w]
    <3>1. <<"DECOMP", j>>[1] = "DECOMP"
      OBVIOUS
    <3>2. g = "DECOMP" /\ next = "spawn"
      BY <1>2, <2>1, <3>1, Zenon DEF next
    <3>3. w \in Busy("DECOMP")' /\ wpc'[w] = "spawn" /\ job'[w] = <<"DECOMP", j>>
      BY <1>1, <1>2, <1>3, <1>4, <2>1, <3>2, Zenon
    <3> QED
      BY <3>3, Zenon
  <2>2. CASE <<"DECOMP", j>> \in done
    <3>1. \/ Known(<<"FREE", j>>)
          \/ \E v \in Busy("DECOMP") : wpc[v] = "spawn" /\ job[v] = <<"DECOMP", j>>
      BY <2>2, Zenon DEF PoolInv, TaskInv
    <3>2. ASSUME NEW v \in Busy("DECOMP"), wpc[v] = "spawn", job[v] = <<"DECOMP", j>>
          PROVE  v \in Busy("DECOMP")' /\ wpc'[v] = "spawn" /\ job'[v] = <<"DECOMP", j>>
      <4>1. v # w
        BY <1>1, <3>2
      <4> QED
        BY <1>1, <1>3, <1>4, <1>9, <3>2, <4>1, Zenon
    <3> QED
      BY <1>7, <1>9, <3>1, <3>2, Zenon
  <2> QED
    BY <1>1, <1>11, <2>1, <2>2, Zenon
<1>12. TaskInv'
  BY <1>10, <1>11, Zenon DEF TaskInv
<1> QED
  BY <1>5, <1>6, <1>8, <1>12, Zenon DEF PoolInv

\* The enqueue at the end of kv_decomp_worker, and its notify_one.
LEMMA SpawnStep ==
    ASSUME PoolInv, NEW w \in AllWorkers, Spawn(w) \/ SpawnNotify(w)
    PROVE  PoolInv'
<1> DEFINE F == "FREE"
           t == <<F, job[w][2]>>
<1>1. /\ wpc[w] \in {"spawn", "notify"} /\ UNCHANGED <<main, job, active, owner, stop, idleWait, done>>
  BY Zenon DEF Spawn, SpawnNotify
<1>2. /\ GroupOf(w) = "DECOMP" /\ w \in Busy("DECOMP") /\ job[w] \in Tasks /\ ~Passed("DECOMP") /\ wpc[w] # "run"
  BY <1>1, BusyFacts DEF BusyStates
<1>3. "DECOMP" \in Groups /\ F \in Groups /\ t \in Tasks /\ ~Passed(F)
  BY <1>2, Typing DEF Groups, Tasks, Passed, PoolInv, ClientInv
<1>4. /\ wpc' \in [AllWorkers -> BusyStates \cup IdleStates]
      /\ wpc'[w] \in {"notify", "finish"}
      /\ \A v \in AllWorkers : v # w =>
           wpc'[v] = wpc[v] \/ (wpc[v] \in IdleStates /\ wpc'[v] \in IdleStates)
  <2>1. CASE Spawn(w)
    BY <2>1, Typing DEF Spawn, BusyStates
  <2>2. CASE SpawnNotify(w)
    <3> DEFINE p == [wpc EXCEPT ![w] = "finish"]
    <3>1. /\ p \in [AllWorkers -> BusyStates \cup IdleStates] /\ p[w] = "finish"
          /\ \A v \in AllWorkers : v # w => p[v] = wpc[v]
      BY Typing DEF BusyStates
    <3>2. NotifyOne(F, p) /\ wpc[w] = "notify"
      BY <2>2, Zenon DEF SpawnNotify
    <3> HIDE DEF p
    <3>3. CASE wpc' = p
      BY <3>1, <3>3
    <3>4. CASE \E v \in Asleep(F) : wpc' = [p EXCEPT ![v] = "lock"]
      <4>1. PICK v \in Asleep(F) : wpc' = [p EXCEPT ![v] = "lock"]
        BY <3>4, Zenon
      <4>2. v \in AllWorkers /\ wpc[v] = "asleep" /\ v # w
        BY <1>3, <3>2, CrewFacts DEF Asleep
      <4> QED
        BY <3>1, <4>1, <4>2 DEF IdleStates
    <3> QED
      BY <3>2, <3>3, <3>4, Zenon DEF NotifyOne
  <2> QED
    BY <2>1, <2>2
<1>5. /\ tasks' \in [Groups -> Seq(Tasks)]
      /\ \A h \in Groups : h # F => tasks'[h] = tasks[h]
      /\ Range(tasks[F]) \subseteq Range(tasks'[F])
      /\ \A u \in Range(tasks'[F]) : u \in Range(tasks[F]) \/ u = t
      /\ wpc[w] = "spawn" => t \in Range(tasks'[F])
  <2>1. CASE Spawn(w)
    <3>1. tasks' = [tasks EXCEPT ![F] = Append(@, t)]
      BY <2>1, Zenon DEF Spawn
    <3>2. tasks[F] \in Seq(Tasks)
      BY <1>3, Typing
    <3>3. /\ Append(tasks[F], t) \in Seq(Tasks) /\ Range(Append(tasks[F], t)) = Range(tasks[F]) \cup {t}
      BY <1>3, <3>2, AppendFacts, Zenon
    <3>4. tasks'[F] = Append(tasks[F], t) /\ tasks' \in [Groups -> Seq(Tasks)]
      BY <1>3, <3>1, <3>3, Typing
    <3>5. \A h \in Groups : h # F => tasks'[h] = tasks[h]
      BY <3>1, Typing
    <3> QED
      BY <3>3, <3>4, <3>5, Zenon
  <2>2. CASE SpawnNotify(w)
    <3>1. tasks' = tasks /\ wpc[w] = "notify"
      BY <2>2, Zenon DEF SpawnNotify
    <3> QED
      BY <3>1, Typing
  <2> QED
    BY <2>1, <2>2
<1>6. ASSUME NEW h \in Groups
      PROVE  /\ Busy(h)' = Busy(h)
             /\ \A v \in Busy(h) : v \in AllWorkers /\ (v # w => wpc'[v] = wpc[v])
  <2>1. \A v \in Crew(h) : v \in AllWorkers
    BY CrewFacts, Zenon
  <2>2. ASSUME NEW v \in Crew(h)
        PROVE  /\ wpc'[v] \in {"run", "spawn", "notify", "finish"} <=> wpc[v] \in {"run", "spawn", "notify", "finish"}
               /\ v # w /\ wpc[v] \in {"run", "spawn", "notify", "finish"} => wpc'[v] = wpc[v]
    BY <1>1, <1>4, <2>1 DEF IdleStates
  <2> QED
    BY <2>1, <2>2, Zenon DEF Busy
<1>7. TypeOK'
  <2>1. wpc' \in [AllWorkers -> {"lock", "block", "asleep", "run", "spawn", "notify", "finish", "exit"}]
    BY <1>4 DEF BusyStates, IdleStates
  <2> QED
    BY <1>1, <1>5, <2>1, Zenon DEF PoolInv, TypeOK
<1> HIDE DEF t, F
<1>8. WorkInv'
  <2>1. ASSUME NEW h \in Groups
        PROVE  /\ active'[h] = Cardinality(Busy(h)') /\ Busy(h)' \subseteq Busy(h)
               /\ \A u \in Range(tasks'[h]) : u[1] = h
    <3>1. active[h] = Cardinality(Busy(h)) /\ \A u \in Range(tasks[h]) : u[1] = h
      BY Zenon DEF PoolInv, WorkInv
    <3>2. active'[h] = Cardinality(Busy(h)') /\ Busy(h)' \subseteq Busy(h)
      BY <1>1, <1>6, <3>1, Zenon
    <3>3. t[1] = F
      BY DEF t
    <3>4. CASE h = F
      <4>1. \A u \in Range(tasks'[h]) : u \in Range(tasks[h]) \/ u = t
        BY <1>5, <3>4, Zenon
      <4>2. t[1] = h
        BY <3>3, <3>4, Zenon
      <4> QED
        BY <3>1, <3>2, <4>1, <4>2, Zenon
    <3>5. CASE h # F
      <4>1. tasks'[h] = tasks[h]
        BY <1>5, <3>5, Zenon
      <4> QED
        BY <3>1, <3>2, <4>1, Zenon
    <3> QED
      BY <3>2, <3>4, <3>5
  <2>2. ASSUME NEW h \in Groups, NEW v \in Busy(h)'
        PROVE  wpc'[v] = wpc[v] \/ (wpc[v] # "run" /\ wpc'[v] \in {"notify", "finish"} /\ h = "DECOMP")
    <3>1. CASE v = w
      <4>1. GroupOf(v) = h
        <5>1. v \in Crew(h)
          BY <1>6, <2>2, CrewFacts, Zenon
        <5> QED
          BY <5>1, CrewFacts, Zenon
      <4> QED
        BY <1>2, <1>4, <3>1, <4>1, Zenon
    <3>2. CASE v # w
      BY <1>6, <2>2, <3>2, Zenon
    <3> QED
      BY <3>1, <3>2
  <2>3. WorkInv
    BY DEF PoolInv
  <2> QED
    BY <1>1, <2>1, <2>2, <2>3, WorkAgain, Zenon
<1>9. ASSUME NEW h \in Groups, NEW j, Known(<<h, j>>) PROVE Known(<<h, j>>)'
  <2>1. Range(tasks[h]) \subseteq Range(tasks'[h])
    <3>1. CASE h = F
      BY <1>5, <3>1, Zenon
    <3>2. CASE h # F
      BY <1>5, <3>2, Zenon
    <3> QED
      BY <3>1, <3>2
  <2>2. CASE <<h, j>> \in done \/ <<h, j>> \in Range(tasks[h])
    BY <1>1, <2>1, <2>2, KnownFacts, Zenon
  <2>3. ASSUME NEW v \in Busy(h), wpc[v] = "run", job[v] = <<h, j>> PROVE Known(<<h, j>>)'
    <3>1. v \in Busy(h)' /\ wpc'[v] = "run" /\ job'[v] = <<h, j>>
      BY <1>1, <1>2, <1>6, <2>3, Zenon
    <3> QED
      BY <3>1, KnownFacts, Zenon
  <2> QED
    BY <1>9, <2>2, <2>3, KnownFacts, Zenon
<1>10. ASSUME NEW j \in 1 .. NumJobs, NEW v \in Busy("DECOMP"), wpc[v] = "spawn", job[v] = <<"DECOMP", j>>
       PROVE  \/ v \in Busy("DECOMP")' /\ wpc'[v] = "spawn" /\ job'[v] = <<"DECOMP", j>>
              \/ Known(<<"FREE", j>>)'
  <2>1. CASE v = w
    <3>1. t = <<"FREE", j>>
      BY <1>10, <2>1 DEF t, F
    <3>2. t \in Range(tasks'["FREE"])
      BY <1>5, <1>10, <2>1, Zenon DEF F
    <3> QED
      BY <3>1, <3>2, KnownFacts, Zenon
  <2>2. CASE v # w
    BY <1>1, <1>3, <1>6, <1>10, <2>2, Zenon
  <2> QED
    BY <2>1, <2>2
<1>11. ClientInv' /\ Enqueued' = Enqueued
  BY <1>1, <1>3, <1>5, ClientKept, Zenon DEF PoolInv
<1> QED
  BY <1>1, <1>7, <1>8, <1>9, <1>10, <1>11, TasksKept, Zenon

\* --grp.active: the worker counts itself out; its task has run.
LEMMA FinishStep == ASSUME PoolInv, NEW w \in AllWorkers, Finish(w) PROVE PoolInv'
<1> DEFINE g == GroupOf(w)
<1>1. /\ wpc[w] = "finish" /\ wpc' = [wpc EXCEPT ![w] = "lock"]
      /\ active' = [active EXCEPT ![g] = active[g] - 1] /\ job' = [job EXCEPT ![w] = Nobody]
      /\ idleWait' = (IF BecomesIdle(g) THEN idleWait \ {g} ELSE idleWait)
      /\ UNCHANGED <<main, tasks, owner, stop, done>>
  BY Zenon DEF Finish, Active
<1>2. /\ g \in Groups /\ w \in Busy(g) /\ ~Passed(g)
  BY <1>1, BusyFacts DEF BusyStates
<1> HIDE DEF g
<1>3. /\ IsFiniteSet(Busy(g)) /\ active[g] = Cardinality(Busy(g)) /\ active[g] \in Nat
      /\ Cardinality(Busy(g) \ {w}) = active[g] - 1 /\ active[g] # 0
  <2>1. IsFiniteSet(Busy(g)) /\ active[g] = Cardinality(Busy(g)) /\ active[g] \in Nat
    BY <1>2, CrewFacts, Typing, Zenon DEF PoolInv, WorkInv
  <2>2. Cardinality(Busy(g) \ {w}) = Cardinality(Busy(g)) - 1
    BY <1>2, <2>1, FS_RemoveElement, Zenon
  <2>3. active[g] # 0
    BY <1>2, IdleFacts, Zenon DEF PoolInv
  <2> QED
    BY <2>1, <2>2, <2>3, Zenon
<1>4. /\ wpc'[w] = "lock" /\ active'[g] = active[g] - 1
      /\ \A v \in AllWorkers : v # w => wpc'[v] = wpc[v] /\ job'[v] = job[v]
      /\ \A h \in Groups : h # g => active'[h] = active[h]
      /\ wpc' \in [AllWorkers -> BusyStates \cup IdleStates]
      /\ job' \in [AllWorkers -> Tasks \cup {Nobody}] /\ active' \in [Groups -> Nat]
  BY <1>1, <1>2, <1>3, Typing DEF IdleStates
<1>5. /\ Busy(g)' = Busy(g) \ {w}
      /\ \A h \in Groups : \A v \in Busy(h) : v \in AllWorkers
      /\ \A h \in Groups : h # g => Busy(h)' = Busy(h) /\ w \notin Busy(h)
  <2>1. /\ \A h \in Groups : \A v \in Crew(h) : v \in AllWorkers /\ GroupOf(v) = h
        /\ \A h \in Groups : h # g => w \notin Crew(h)
    BY CrewFacts, Zenon DEF g
  <2>2. Busy(g)' = Busy(g) \ {w}
    BY <1>2, <1>4, <2>1 DEF Busy
  <2>3. \A h \in Groups : h # g => Busy(h)' = Busy(h) /\ w \notin Busy(h)
    BY <1>4, <2>1, Zenon DEF Busy
  <2>4. \A h \in Groups : \A v \in Busy(h) : v \in AllWorkers
    BY <2>1, Zenon DEF Busy
  <2> QED
    BY <2>2, <2>3, <2>4
<1>6. ASSUME NEW h \in Groups, NEW v \in Busy(h)'
      PROVE  v \in Busy(h) /\ v # w /\ v \in AllWorkers /\ wpc'[v] = wpc[v] /\ job'[v] = job[v]
  <2>1. v \in Busy(h) /\ v # w /\ v \in AllWorkers
    <3>1. CASE h = g
      BY <1>5, <1>6, <3>1
    <3>2. CASE h # g
      BY <1>5, <1>6, <3>2
    <3> QED
      BY <3>1, <3>2
  <2> QED
    BY <1>4, <2>1, Zenon
<1>7. TypeOK'
  <2>1. wpc' \in [AllWorkers -> {"lock", "block", "asleep", "run", "spawn", "notify", "finish", "exit"}]
    BY <1>4 DEF BusyStates, IdleStates
  <2>2. idleWait' \subseteq Groups
    BY <1>1, Zenon DEF PoolInv, TypeOK
  <2> QED
    BY <1>1, <1>4, <2>1, <2>2, Zenon DEF PoolInv, TypeOK
<1>8. WorkInv'
  <2> SUFFICES ASSUME NEW h \in Groups
               PROVE  /\ active'[h] = Cardinality(Busy(h)')
                      /\ \A t \in Range(tasks'[h]) : t[1] = h
                      /\ \A v \in Busy(h)' :
                           /\ job'[v] \in Tasks /\ job'[v][1] = h
                           /\ wpc'[v] # "run" => job'[v] \in done'
                           /\ wpc'[v] \in {"spawn", "notify"} => h = "DECOMP"
    BY Zenon DEF WorkInv
  <2>1. /\ active[h] = Cardinality(Busy(h))
        /\ \A t \in Range(tasks[h]) : t[1] = h
        /\ \A v \in Busy(h) :
             /\ job[v] \in Tasks /\ job[v][1] = h
             /\ wpc[v] # "run" => job[v] \in done
             /\ wpc[v] \in {"spawn", "notify"} => h = "DECOMP"
    BY Zenon DEF PoolInv, WorkInv
  <2>2. active'[h] = Cardinality(Busy(h)')
    <3>1. CASE h = g
      BY <1>3, <1>4, <1>5, <3>1, Zenon
    <3>2. CASE h # g
      BY <1>4, <1>5, <2>1, <3>2, Zenon
    <3> QED
      BY <3>1, <3>2
  <2>3. \A t \in Range(tasks'[h]) : t[1] = h
    BY <1>1, <2>1, Zenon
  <2>4. ASSUME NEW v \in Busy(h)'
        PROVE  /\ job'[v] \in Tasks /\ job'[v][1] = h
               /\ wpc'[v] # "run" => job'[v] \in done'
               /\ wpc'[v] \in {"spawn", "notify"} => h = "DECOMP"
    <3>1. v \in Busy(h) /\ wpc'[v] = wpc[v] /\ job'[v] = job[v] /\ done' = done
      BY <1>1, <1>6, <2>4, Zenon
    <3> QED
      BY <2>1, <3>1
  <2> QED
    BY <2>2, <2>3, <2>4
<1>9. ASSUME NEW h \in Groups, NEW v \in Busy(h), wpc[v] # "finish"
      PROVE  v \in Busy(h)' /\ wpc'[v] = wpc[v] /\ job'[v] = job[v]
  <2>1. v # w /\ v \in AllWorkers
    BY <1>1, <1>5, <1>9, Zenon
  <2>2. v \in Busy(h)'
    <3>1. CASE h = g
      BY <1>5, <1>9, <2>1, <3>1
    <3>2. CASE h # g
      BY <1>5, <1>9, <3>2
    <3> QED
      BY <3>1, <3>2
  <2> QED
    BY <1>4, <2>1, <2>2, Zenon
<1>10. ASSUME NEW h \in Groups, NEW j, Known(<<h, j>>) PROVE Known(<<h, j>>)'
  <2>1. CASE <<h, j>> \in done \/ <<h, j>> \in Range(tasks[h])
    BY <1>1, <2>1, KnownFacts, Zenon
  <2>2. ASSUME NEW v \in Busy(h), wpc[v] = "run", job[v] = <<h, j>> PROVE Known(<<h, j>>)'
    <3>1. wpc[v] # "finish"
      BY <2>2
    <3>2. v \in Busy(h)' /\ wpc'[v] = "run" /\ job'[v] = <<h, j>>
      BY <1>9, <2>2, <3>1, Zenon
    <3> QED
      BY <3>2, KnownFacts, Zenon
  <2> QED
    BY <1>10, <2>1, <2>2, KnownFacts, Zenon
<1>11. ASSUME NEW j \in 1 .. NumJobs, NEW v \in Busy("DECOMP"), wpc[v] = "spawn", job[v] = <<"DECOMP", j>>
       PROVE  v \in Busy("DECOMP")' /\ wpc'[v] = "spawn" /\ job'[v] = <<"DECOMP", j>>
  <2>1. "DECOMP" \in Groups /\ wpc[v] # "finish"
    BY <1>11 DEF Groups
  <2> QED
    BY <1>9, <1>11, <2>1, Zenon
<1>12. ClientInv' /\ Enqueued' = Enqueued
  BY <1>1, <1>2, <1>4, ClientKept, Zenon DEF PoolInv
<1> QED
  BY <1>1, <1>7, <1>8, <1>10, <1>11, <1>12, TasksKept, Zenon

-----------------------------------------------------------------------------
(* The theorems.                                                           *)

\* The constructor leaves empty queues and workers that contend for the mutex.
LEMMA InitStep == ASSUME Init PROVE PoolInv
<1>1. /\ main = <<"enqueue", 1>> /\ wpc = [w \in AllWorkers |-> "lock"] /\ job = [w \in AllWorkers |-> Nobody]
      /\ tasks = [g \in Groups |-> <<>>] /\ active = [g \in Groups |-> 0]
      /\ owner = [g \in Groups |-> Nobody] /\ stop = FALSE /\ idleWait = {} /\ done = {}
  BY DEF Init
<1>2. main[1] = "enqueue" /\ main[2] = 1 /\ NumJobs \in Nat
  BY <1>1, PoolAssumption
<1>3. TypeOK
  <2>1. main[1] \in {"enqueue", "notify", "wait", "signal", "joined"} /\ main[2] \in Nat
    BY <1>2
  <2>2. wpc \in [AllWorkers -> {"lock", "block", "asleep", "run", "spawn", "notify", "finish", "exit"}]
    BY <1>1
  <2>3. job \in [AllWorkers -> Tasks \cup {Nobody}]
    BY <1>1
  <2>4. tasks \in [Groups -> Seq(Tasks)]
    <3>1. <<>> \in Seq(Tasks)
      OBVIOUS
    <3> QED
      BY <1>1, <3>1
  <2>5. active \in [Groups -> Nat]
    BY <1>1
  <2>6. owner \in [Groups -> AllWorkers \cup {Nobody}]
    BY <1>1
  <2>7. stop \in BOOLEAN /\ idleWait \subseteq Groups /\ done \subseteq Tasks
    BY <1>1, Zenon
  <2> QED
    BY <2>1, <2>2, <2>3, <2>4, <2>5, <2>6, <2>7, Zenon DEF TypeOK
<1>4. \A g \in Groups : active[g] = 0 /\ Busy(g) = {} /\ Range(tasks[g]) = {}
  <2>1. \A g \in Groups : active[g] = 0 /\ tasks[g] = <<>>
    BY <1>1
  <2>2. \A g \in Groups : \A w \in Crew(g) : wpc[w] = "lock"
    BY <1>1, CrewFacts, Zenon
  <2>3. \A g \in Groups : Busy(g) = {}
    BY <2>2 DEF Busy
  <2>4. \A g \in Groups : Range(tasks[g]) = {}
    BY <2>1 DEF Range
  <2> QED
    BY <2>1, <2>3, <2>4
<1>5. WorkInv
  BY <1>4, FS_EmptySet, Zenon DEF WorkInv
<1>6. TaskInv
  BY <1>1, <1>2 DEF TaskInv, Enqueued
<1>7. ClientInv
  BY <1>1, <1>2 DEF ClientInv, Passed
<1> QED
  BY <1>3, <1>5, <1>6, <1>7 DEF PoolInv

\* Every step of the pool and of its client preserves the invariant.
LEMMA NextStep == ASSUME PoolInv, [Next]_vars PROVE PoolInv'
<1>1. CASE Main
  BY <1>1, EnqueueStep, ClientStep DEF Main
<1>2. ASSUME NEW w \in AllWorkers, Worker(w) \/ SpuriousWake(w) PROVE PoolInv'
  <2>1. CASE TakeOrLeave(w)
    BY <2>1, TakeStep, WaitingStep
  <2> QED
    BY <1>2, <2>1, WaitingStep, RunStep, SpawnStep, FinishStep DEF Worker
<1>3. CASE UNCHANGED vars
  <2>1. UNCHANGED <<main, wpc, job, tasks, active, owner, stop, idleWait, done>>
    BY <1>3 DEF vars
  <2>2. TypeOK'
    BY <2>1, Zenon DEF PoolInv, TypeOK
  <2>3. ClientInv' /\ Enqueued' = Enqueued
    BY <2>1, ClientKept, Zenon DEF PoolInv
  <2> QED
    BY <2>1, <2>2, <2>3, CalmInv
<1> QED
  BY <1>1, <1>2, <1>3 DEF Next

\* PoolInv is inductive: active counts the workers that run a task, no task is
\* lost, and a group that wait_idle_all has seen idle stays idle.
THEOREM PoolInvariant == Spec => []PoolInv
<1>1. Init => PoolInv
  BY InitStep
<1>2. PoolInv /\ [Next]_vars => PoolInv'
  BY NextStep
<1> QED
  BY <1>1, <1>2, PTL DEF Spec

\* Type correctness of the pool.
THEOREM PoolTypes == Spec => []TypeOK
<1>1. PoolInv => TypeOK
  BY DEF PoolInv
<1> QED
  BY <1>1, PoolInvariant, PTL

\* wait_idle_all returns only when every task has run, those that tasks enqueued
\* while it was waiting included, with any number of workers and of tasks: no
\* enqueue meets a stopped pool.
THEOREM PoolDrained == Spec => []DrainedAtStop
<1>1. ASSUME PoolInv, stop PROVE done = Tasks /\ \A w \in AllWorkers : wpc[w] # "spawn"
  <2>1. main[1] \in {"signal", "joined"}
    BY <1>1 DEF PoolInv, ClientInv
  <2>2. \A g \in Groups : tasks[g] = <<>> /\ Busy(g) = {}
    <3>1. \A g \in Groups : IdleNow(g)
      BY <1>1, <2>1 DEF PoolInv, ClientInv, Passed
    <3> QED
      BY <1>1, <3>1, IdleFacts, Zenon DEF PoolInv, IdleNow
  <2>3. \A g \in Groups : Range(tasks[g]) = {}
    BY <2>2 DEF Range
  <2>4. ASSUME NEW g \in Groups, NEW j, Known(<<g, j>>) PROVE <<g, j>> \in done
    BY <2>2, <2>3, <2>4, KnownFacts, Zenon
  <2>5. "DECOMP" \in Groups /\ "FREE" \in Groups /\ Enqueued = NumJobs
    BY <2>1 DEF Groups, Enqueued
  <2>6. \A j \in 1 .. NumJobs : <<"DECOMP", j>> \in done
    BY <1>1, <2>4, <2>5, Zenon DEF PoolInv, TaskInv
  <2>7. \A j \in 1 .. NumJobs : Known(<<"FREE", j>>)
    BY <1>1, <2>2, <2>5, <2>6, Zenon DEF PoolInv, TaskInv
  <2>8. \A j \in 1 .. NumJobs : <<"FREE", j>> \in done
    BY <2>4, <2>5, <2>7, Zenon
  <2>9. done = Tasks
    <3>1. done \subseteq Tasks
      BY <1>1, Zenon DEF PoolInv, TypeOK
    <3>2. \A t \in Tasks : t \in done
      BY <2>6, <2>8 DEF Tasks, Groups
    <3> QED
      BY <3>1, <3>2
  <2>10. ASSUME NEW w \in AllWorkers, wpc[w] = "spawn" PROVE FALSE
    BY <1>1, <2>2, <2>10, BusyFacts DEF BusyStates
  <2> QED
    BY <2>9, <2>10
<1>2. PoolInv => DrainedAtStop
  BY <1>1, Zenon DEF DrainedAtStop
<1> QED
  BY <1>2, PoolInvariant, PTL
=============================================================================
