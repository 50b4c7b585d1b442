---------------------------- MODULE SwapInProofs ----------------------------
(***************************************************************************)
(* The safety properties of a swap-in, and that it implements LayerGate,   *)
(* for any numbers of layers, chunks and threads.  In this order: the      *)
(* stages of the four variants of swapin_generate and what the main thread *)
(* has sent at each of them; the steps of the main thread, the decode      *)
(* thread and the pool groups, each of which preserves the invariant IInv; *)
(* the refinement; the theorems.                                           *)
(***************************************************************************)
EXTENDS SwapIn, TLAPS

\* The time the provers get for a leaf.
USE SMTT(15), ZenonT(20)

-----------------------------------------------------------------------------
(* The order of the stages in the variants.                                *)

Kinds == {"decomp", "load", "weight"}

\* The stage at each position of overlap.
LEMMA OverlapStages ==
    ASSUME NEW p \in Nat \ {0}
    PROVE  \/ p = 1 /\ StageOf("overlap", p) = "initialize_layer_sync"
           \/ p = 2 /\ StageOf("overlap", p) = "reload_all_arenas"
           \/ p = 3 /\ StageOf("overlap", p) = "async_decode"
           \/ p = 4 /\ StageOf("overlap", p) = "wait_graph"
           \/ p = 5 /\ StageOf("overlap", p) = "load"
           \/ p = 6 /\ StageOf("overlap", p) = "decomp"
           \/ p = 7 /\ StageOf("overlap", p) = "weight"
           \/ p = 8 /\ StageOf("overlap", p) = "get_decode"
           \/ p = 9 /\ StageOf("overlap", p) = "wait_syncs"
           \/ p = 10 /\ StageOf("overlap", p) = "ALLOC"
           \/ p = 11 /\ StageOf("overlap", p) = "READ"
           \/ p = 12 /\ StageOf("overlap", p) = "DECOMP"
           \/ p = 13 /\ StageOf("overlap", p) = "FREE"
           \/ p = 14 /\ StageOf("overlap", p) = "clean"
           \/ p > 14 /\ StageOf("overlap", p) = "returned"
BY DEF StageOf, Code, Overlap

\* The stage at each position of no_prefill_overlap.
LEMMA NoPrefillOverlapStages ==
    ASSUME NEW p \in Nat \ {0}
    PROVE  \/ p = 1 /\ StageOf("no_prefill_overlap", p) = "initialize_layer_sync"
           \/ p = 2 /\ StageOf("no_prefill_overlap", p) = "reload_all_arenas"
           \/ p = 3 /\ StageOf("no_prefill_overlap", p) = "load"
           \/ p = 4 /\ StageOf("no_prefill_overlap", p) = "decomp"
           \/ p = 5 /\ StageOf("no_prefill_overlap", p) = "weight"
           \/ p = 6 /\ StageOf("no_prefill_overlap", p) = "wait_syncs"
           \/ p = 7 /\ StageOf("no_prefill_overlap", p) = "async_decode"
           \/ p = 8 /\ StageOf("no_prefill_overlap", p) = "get_decode"
           \/ p = 9 /\ StageOf("no_prefill_overlap", p) = "wait_syncs"
           \/ p = 10 /\ StageOf("no_prefill_overlap", p) = "ALLOC"
           \/ p = 11 /\ StageOf("no_prefill_overlap", p) = "READ"
           \/ p = 12 /\ StageOf("no_prefill_overlap", p) = "DECOMP"
           \/ p = 13 /\ StageOf("no_prefill_overlap", p) = "FREE"
           \/ p = 14 /\ StageOf("no_prefill_overlap", p) = "clean"
           \/ p > 14 /\ StageOf("no_prefill_overlap", p) = "returned"
BY DEF StageOf, Code, NoPrefillOverlap

\* The stage at each position of no_alloc_overlap.
LEMMA NoAllocOverlapStages ==
    ASSUME NEW p \in Nat \ {0}
    PROVE  \/ p = 1 /\ StageOf("no_alloc_overlap", p) = "async_decode"
           \/ p = 2 /\ StageOf("no_alloc_overlap", p) = "wait_graph"
           \/ p = 3 /\ StageOf("no_alloc_overlap", p) = "initialize_layer_sync"
           \/ p = 4 /\ StageOf("no_alloc_overlap", p) = "reload_all_arenas"
           \/ p = 5 /\ StageOf("no_alloc_overlap", p) = "weight_alloc"
           \/ p = 6 /\ StageOf("no_alloc_overlap", p) = "await_weight"
           \/ p = 7 /\ StageOf("no_alloc_overlap", p) = "decomp_alloc"
           \/ p = 8 /\ StageOf("no_alloc_overlap", p) = "load_alloc"
           \/ p = 9 /\ StageOf("no_alloc_overlap", p) = "await_kv"
           \/ p = 10 /\ StageOf("no_alloc_overlap", p) = "decomp_only"
           \/ p = 11 /\ StageOf("no_alloc_overlap", p) = "load_only"
           \/ p = 12 /\ StageOf("no_alloc_overlap", p) = "weight_only"
           \/ p = 13 /\ StageOf("no_alloc_overlap", p) = "READ"
           \/ p = 14 /\ StageOf("no_alloc_overlap", p) = "get_decode"
           \/ p = 15 /\ StageOf("no_alloc_overlap", p) = "wait_syncs"
           \/ p = 16 /\ StageOf("no_alloc_overlap", p) = "ALLOC"
           \/ p = 17 /\ StageOf("no_alloc_overlap", p) = "READ"
           \/ p = 18 /\ StageOf("no_alloc_overlap", p) = "DECOMP"
           \/ p = 19 /\ StageOf("no_alloc_overlap", p) = "FREE"
           \/ p = 20 /\ StageOf("no_alloc_overlap", p) = "clean"
           \/ p > 20 /\ StageOf("no_alloc_overlap", p) = "returned"
BY DEF StageOf, Code, NoAllocOverlap

\* The stage at each position of no_overlap.
LEMMA NoOverlapStages ==
    ASSUME NEW p \in Nat \ {0}
    PROVE  \/ p = 1 /\ StageOf("no_overlap", p) = "initialize_layer_sync"
           \/ p = 2 /\ StageOf("no_overlap", p) = "reload_all_arenas"
           \/ p = 3 /\ StageOf("no_overlap", p) = "weight_alloc"
           \/ p = 4 /\ StageOf("no_overlap", p) = "await_weight"
           \/ p = 5 /\ StageOf("no_overlap", p) = "decomp_alloc"
           \/ p = 6 /\ StageOf("no_overlap", p) = "load_alloc"
           \/ p = 7 /\ StageOf("no_overlap", p) = "await_kv"
           \/ p = 8 /\ StageOf("no_overlap", p) = "decomp_only"
           \/ p = 9 /\ StageOf("no_overlap", p) = "load_only"
           \/ p = 10 /\ StageOf("no_overlap", p) = "weight_only"
           \/ p = 11 /\ StageOf("no_overlap", p) = "READ"
           \/ p = 12 /\ StageOf("no_overlap", p) = "wait_syncs"
           \/ p = 13 /\ StageOf("no_overlap", p) = "async_decode"
           \/ p = 14 /\ StageOf("no_overlap", p) = "get_decode"
           \/ p = 15 /\ StageOf("no_overlap", p) = "wait_syncs"
           \/ p = 16 /\ StageOf("no_overlap", p) = "ALLOC"
           \/ p = 17 /\ StageOf("no_overlap", p) = "READ"
           \/ p = 18 /\ StageOf("no_overlap", p) = "DECOMP"
           \/ p = 19 /\ StageOf("no_overlap", p) = "FREE"
           \/ p = 20 /\ StageOf("no_overlap", p) = "clean"
           \/ p > 20 /\ StageOf("no_overlap", p) = "returned"
BY DEF StageOf, Code, NoOverlap

\* Where the stages of a variant stand with respect to each other.
LEMMA StageOrder ==
    ASSUME NEW f \in AllFlows, NEW p \in Nat \ {0}, NEW q \in Nat \ {0}
    PROVE  LET S(n) == StageOf(f, n)
           IN  /\ S(p) = S(q)
                  /\ S(p) \in Loops \cup {"initialize_layer_sync", "async_decode"}
                  => p = q
               /\ S(p) \in Kinds =>
                    S(q) \notin {"load_alloc", "decomp_alloc", "weight_alloc",
                                 "load_only", "decomp_only", "weight_only"}
               /\ S(p) \in {"initialize_layer_sync", "reload_all_arenas"}
                  /\ S(q) \in Loops => p < q
               /\ S(p) \in Loops /\ S(q) = "wait_syncs" => p < q
               /\ S(p) = "reload_all_arenas" /\ S(q) = "clean" => p < q
               /\ S(p) = "async_decode" /\ S(q) = "get_decode" => p < q
               /\ S(p) = "async_decode" /\ f \in {"overlap", "no_alloc_overlap"}
                  /\ S(q) \in Loops => p < q
               /\ S(p) = "async_decode" => S(p + 1) \in {"wait_graph", "get_decode"}
               /\ S(1) # "returned"
               /\ S(p + 1) = "returned" <=> S(p) \in {"clean", "returned"}
<1> DEFINE S(n) == StageOf(f, n)
<1> USE DEF Loops, Kinds
<1>0. p + 1 \in Nat \ {0} /\ 1 \in Nat \ {0}
  OBVIOUS
<1>1. CASE f = "overlap"
  BY <1>0, <1>1, OverlapStages
<1>2. CASE f = "no_prefill_overlap"
  BY <1>0, <1>2, NoPrefillOverlapStages
<1>3. CASE f = "no_alloc_overlap"
  BY <1>0, <1>3, NoAllocOverlapStages
<1>4. CASE f = "no_overlap"
  BY <1>0, <1>4, NoOverlapStages
<1> QED
  BY <1>1, <1>2, <1>3, <1>4, Zenon DEF AllFlows

\* The first stage a variant has of the kind another stage relies on.
LEMMA StagesPresent ==
    ASSUME NEW f \in AllFlows, NEW p \in Nat \ {0}
    PROVE  LET S(n) == StageOf(f, n)
           IN  /\ S(p) \in Loops \cup {"wait_syncs"} => Before(f, p, "initialize_layer_sync")
               /\ S(p) \in Loops => Before(f, p, "reload_all_arenas")
               /\ S(p) = "FREE" => Before(f, p, "wait_syncs")
               /\ S(p) = "clean" => /\ Before(f, p, "wait_syncs")
                                    /\ Before(f, p, "FREE")
                                    /\ Before(f, p, "get_decode")
               /\ S(p) = "returned" => /\ Before(f, p, "wait_syncs")
                                       /\ Before(f, p, "clean")
               /\ S(p) = "get_decode" => Before(f, p, "async_decode")
               /\ S(p) = "async_decode" /\ f \in {"no_prefill_overlap", "no_overlap"}
                  => Before(f, p, "wait_syncs")
               /\ S(p) = "async_decode" /\ f # "no_alloc_overlap"
                  => Before(f, p, "initialize_layer_sync")
               /\ S(p) = "load_only" => Before(f, p, "load_alloc")
               /\ S(p) = "decomp_only" => Before(f, p, "decomp_alloc")
               /\ S(p) = "weight_only" => Before(f, p, "weight_alloc")
<1> DEFINE S(n) == StageOf(f, n)
<1>0. \A q \in Nat \ {0} : \A s : q < p /\ S(q) = s => Before(f, p, s)
  BY DEF Before
<1> HIDE DEF S
<1> USE DEF Loops
<1>1. CASE f = "overlap"
  <2>1. S(1) = "initialize_layer_sync" /\ S(2) = "reload_all_arenas"
        /\ S(3) = "async_decode" /\ S(8) = "get_decode" /\ S(9) = "wait_syncs"
        /\ S(13) = "FREE" /\ S(14) = "clean"
    BY <1>1, OverlapStages DEF S
  <2>2. /\ S(p) \in Loops \cup {"wait_syncs", "async_decode"} => p > 2
        /\ S(p) = "get_decode" => p > 3
        /\ S(p) = "FREE" => p > 9
        /\ S(p) = "clean" => p > 13
        /\ S(p) = "returned" => p > 14
        /\ S(p) \notin {"load_only", "decomp_only", "weight_only"}
    BY <1>1, OverlapStages DEF S
  <2> QED
    BY <1>0, <1>1, <2>1, <2>2 DEF S
<1>2. CASE f = "no_prefill_overlap"
  <2>1. S(1) = "initialize_layer_sync" /\ S(2) = "reload_all_arenas"
        /\ S(6) = "wait_syncs" /\ S(7) = "async_decode" /\ S(8) = "get_decode"
        /\ S(13) = "FREE" /\ S(14) = "clean"
    BY <1>2, NoPrefillOverlapStages DEF S
  <2>2. /\ S(p) \in Loops \cup {"wait_syncs"} => p > 2
        /\ S(p) = "async_decode" => p > 6
        /\ S(p) = "get_decode" => p > 7
        /\ S(p) = "FREE" => p > 9
        /\ S(p) = "clean" => p > 13
        /\ S(p) = "returned" => p > 14
        /\ S(p) \notin {"load_only", "decomp_only", "weight_only"}
    BY <1>2, NoPrefillOverlapStages DEF S
  <2> QED
    BY <1>0, <1>2, <2>1, <2>2 DEF S
<1>3. CASE f = "no_alloc_overlap"
  <2>1. S(1) = "async_decode" /\ S(3) = "initialize_layer_sync"
        /\ S(4) = "reload_all_arenas" /\ S(5) = "weight_alloc"
        /\ S(7) = "decomp_alloc" /\ S(8) = "load_alloc" /\ S(14) = "get_decode"
        /\ S(15) = "wait_syncs" /\ S(19) = "FREE" /\ S(20) = "clean"
    BY <1>3, NoAllocOverlapStages DEF S
  <2>2. /\ S(p) \in Loops \cup {"wait_syncs"} => p > 4
        /\ S(p) \in {"load_only", "decomp_only", "weight_only"} => p > 8
        /\ S(p) = "get_decode" => p > 1
        /\ S(p) = "FREE" => p > 15
        /\ S(p) = "clean" => p > 19
        /\ S(p) = "returned" => p > 20
    BY <1>3, NoAllocOverlapStages DEF S
  <2> QED
    BY <1>0, <1>3, <2>1, <2>2 DEF S
<1>4. CASE f = "no_overlap"
  <2>1. S(1) = "initialize_layer_sync" /\ S(2) = "reload_all_arenas"
        /\ S(3) = "weight_alloc" /\ S(5) = "decomp_alloc" /\ S(6) = "load_alloc"
        /\ S(12) = "wait_syncs" /\ S(13) = "async_decode" /\ S(14) = "get_decode"
        /\ S(19) = "FREE" /\ S(20) = "clean"
    BY <1>4, NoOverlapStages DEF S
  <2>2. /\ S(p) \in Loops \cup {"wait_syncs"} => p > 2
        /\ S(p) \in {"load_only", "decomp_only", "weight_only"} => p > 6
        /\ S(p) = "async_decode" => p > 12
        /\ S(p) = "get_decode" => p > 13
        /\ S(p) = "FREE" => p > 12
        /\ S(p) = "clean" => p > 19
        /\ S(p) = "returned" => p > 20
    BY <1>4, NoOverlapStages DEF S
  <2> QED
    BY <1>0, <1>4, <2>1, <2>2 DEF S
<1> QED
  BY <1>1, <1>2, <1>3, <1>4, Zenon DEF AllFlows

-----------------------------------------------------------------------------
(* What the main thread has passed and sent.                               *)

\* The parts of a piece and of a task.
LEMMA Parts ==
    /\ \A x \in Pieces : x[1] \in Kinds /\ x[2] \in Layers
    /\ \A x \in Tasks : x[2] \in Layers
BY DEF Pieces, Tasks, Kinds

\* Only an enqueue loop enqueues, and what it enqueues beside allocations are
\* the tasks that restore a piece.
LEMMA LoopsEnqueue ==
    ASSUME NEW s, NEW g, NEW x, x[1] \in Kinds, Enqueues(s, g, x[1])
    PROVE  /\ s \in Loops
           /\ g \in {"ALLOC", "READ", "DECOMP"}
           /\ g # "ALLOC" => g = Restorer(x)
BY DEF Enqueues, Loops, Kinds, Restorer

\* A variant enqueues the tasks of a group for a kind of pieces in one loop.
LEMMA OneLoop ==
    ASSUME NEW f \in AllFlows, NEW p \in Nat \ {0}, NEW q \in Nat \ {0}, NEW g,
           NEW k \in Kinds, Enqueues(StageOf(f, p), g, k), Enqueues(StageOf(f, q), g, k)
    PROVE  p = q
<1> DEFINE s == StageOf(f, p)
           t == StageOf(f, q)
<1>1. s \in Loops /\ t \in Loops
  BY DEF Enqueues, Loops, Kinds
<1>2. s = t \/ (s \in Kinds /\ t \notin Kinds) \/ (t \in Kinds /\ s \notin Kinds)
  BY DEF Enqueues, Kinds
<1>3. /\ s \in Kinds => t \in Kinds
      /\ t \in Kinds => s \in Kinds
  <2>1. s \in Kinds => t \notin {"load_alloc", "decomp_alloc", "weight_alloc",
                                 "load_only", "decomp_only", "weight_only"}
    BY StageOrder
  <2>2. t \in Kinds => s \notin {"load_alloc", "decomp_alloc", "weight_alloc",
                                 "load_only", "decomp_only", "weight_only"}
    BY StageOrder
  <2> QED
    BY <1>1, <2>1, <2>2 DEF Loops, Kinds
<1>4. s = t
  BY <1>2, <1>3
<1> QED
  BY <1>1, <1>4, StageOrder

\* The loop that restores a kind of pieces comes not before the loop that
\* allocates them.
LEMMA AllocLoop ==
    ASSUME NEW f \in AllFlows, NEW p \in Nat \ {0}, NEW x, x[1] \in Kinds,
           Enqueues(StageOf(f, p), Restorer(x), x[1])
    PROVE  \E q \in 1 .. p : Enqueues(StageOf(f, q), "ALLOC", x[1])
<1> DEFINE s == StageOf(f, p)
<1>1. CASE s = x[1]
  BY <1>1 DEF Enqueues
<1>2. CASE s = "load_only" /\ x[1] = "load"
  <2>1. PICK q \in 1 .. p - 1 : StageOf(f, q) = "load_alloc"
    BY <1>2, StagesPresent DEF Before
  <2> QED
    BY <1>2, <2>1 DEF Enqueues
<1>3. CASE s = "decomp_only" /\ x[1] = "decomp"
  <2>1. PICK q \in 1 .. p - 1 : StageOf(f, q) = "decomp_alloc"
    BY <1>3, StagesPresent DEF Before
  <2> QED
    BY <1>3, <2>1 DEF Enqueues
<1>4. CASE s = "weight_only" /\ x[1] = "weight"
  <2>1. PICK q \in 1 .. p - 1 : StageOf(f, q) = "weight_alloc"
    BY <1>4, StagesPresent DEF Before
  <2> QED
    BY <1>4, <2>1 DEF Enqueues
<1> QED
  BY <1>1, <1>2, <1>3, <1>4 DEF Enqueues, Restorer, Kinds

\* A task that is still to be enqueued has not been sent.
LEMMA TodoUnsent ==
    ASSUME TypeOK, NEW g, NEW x \in out, <<g, x>> \in todo
    PROVE  /\ ~Sent(g, x) /\ g \in Groups
           /\ Enqueues(Stage, g, x[1])
<1>1. flow \in AllFlows /\ pc \in Nat \ {0} /\ x[1] \in Kinds
  BY SwapInAssumption, Parts DEF TypeOK
<1>2. Enqueues(StageOf(flow, pc), g, x[1]) /\ g \in Groups
  BY DEF TypeOK, JobsOf, Stage
<1>3. ASSUME NEW p \in 1 .. pc, Enqueues(StageOf(flow, p), g, x[1])
      PROVE  p = pc
  BY <1>1, <1>2, <1>3, OneLoop
<1> QED
  BY <1>2, <1>3 DEF Sent, Stage

\* The allocation of a piece is sent before the task that restores it.
LEMMA AllocSent ==
    ASSUME TypeOK, NEW x \in out,
           <<"ALLOC", x>> \in todo /\ Enqueues(Stage, Restorer(x), x[1])
             => <<Restorer(x), x>> \in todo,
           Sent(Restorer(x), x)
    PROVE  Sent("ALLOC", x)
<1>1. flow \in AllFlows /\ pc \in Nat \ {0} /\ x[1] \in Kinds
  BY SwapInAssumption, Parts DEF TypeOK
<1>2. PICK p \in 1 .. pc : /\ Enqueues(StageOf(flow, p), Restorer(x), x[1])
                           /\ p = pc => <<Restorer(x), x>> \notin todo
  BY DEF Sent
<1>3. PICK q \in 1 .. p : Enqueues(StageOf(flow, q), "ALLOC", x[1])
  BY <1>1, <1>2, AllocLoop
<1>4. q \in 1 .. pc /\ (q = pc => p = pc)
  BY <1>1, <1>2, <1>3
<1>5. q = pc => <<"ALLOC", x>> \notin todo
  BY <1>2, <1>3, <1>4 DEF Stage
<1> QED
  BY <1>3, <1>4, <1>5 DEF Sent

\* Nothing is sent before the counts and the arenas are there, nor after the
\* layers have been waited for.
LEMMA SentWhen ==
    ASSUME TypeOK
    PROVE  /\ \A g, x : x \in out /\ Sent(g, x) =>
                Passed("initialize_layer_sync") /\ Passed("reload_all_arenas")
           /\ todo # {} => /\ Stage \in Loops
                           /\ ~Passed("wait_syncs") /\ ~Passed("FREE")
           /\ Stage = "initialize_layer_sync" => \A g, x : x \in out => ~Sent(g, x)
<1>1. flow \in AllFlows /\ pc \in Nat \ {0}
  BY SwapInAssumption DEF TypeOK
<1>2. ASSUME NEW p \in 1 .. pc, NEW g, NEW x \in out, Enqueues(StageOf(flow, p), g, x[1])
      PROVE  StageOf(flow, p) \in Loops
  BY <1>2, Parts, LoopsEnqueue, Zenon DEF TypeOK
<1>3. ASSUME NEW g, NEW x \in out, Sent(g, x)
      PROVE  /\ Passed("initialize_layer_sync") /\ Passed("reload_all_arenas")
             /\ Stage # "initialize_layer_sync"
  <2>1. PICK p \in 1 .. pc : StageOf(flow, p) \in Loops
    BY <1>2, <1>3 DEF Sent
  <2>2. Before(flow, p, "initialize_layer_sync") /\ Before(flow, p, "reload_all_arenas")
    BY <1>1, <2>1, StagesPresent
  <2>3. Stage # "initialize_layer_sync"
    <3>1. StageOf(flow, pc) = "initialize_layer_sync" => pc < p
      BY <1>1, <2>1, StageOrder
    <3> QED
      BY <1>1, <2>1, <3>1 DEF Stage
  <2> QED
    BY <1>1, <2>1, <2>2, <2>3 DEF Passed, Before
<1>4. ASSUME todo # {}
      PROVE  Stage \in Loops /\ ~Passed("wait_syncs") /\ ~Passed("FREE")
  <2>1. PICK j \in todo : j \in JobsOf(Stage)
    BY <1>4 DEF TypeOK
  <2>2. j[2] \in out /\ Enqueues(Stage, j[1], j[2][1])
    BY <2>1 DEF JobsOf
  <2>3. Stage \in Loops
    BY <2>2, Parts, LoopsEnqueue, Zenon DEF TypeOK
  <2>4. ASSUME NEW q \in 1 .. pc - 1
        PROVE  StageOf(flow, q) \notin {"wait_syncs", "FREE"}
    <3>1. StageOf(flow, q) # "wait_syncs"
      BY <1>1, <2>3, StageOrder DEF Stage
    <3>2. ASSUME StageOf(flow, q) = "FREE" PROVE FALSE
      <4>1. PICK r \in 1 .. q - 1 : StageOf(flow, r) = "wait_syncs"
        BY <1>1, <3>2, StagesPresent DEF Before
      <4>2. pc < r
        BY <1>1, <2>3, <4>1, StageOrder DEF Stage
      <4> QED
        BY <1>1, <4>1, <4>2
    <3> QED
      BY <3>1, <3>2
  <2> QED
    BY <2>3, <2>4 DEF Passed, Before
<1> QED
  BY <1>3, <1>4

\* Going on to the next stage sends nothing.
LEMMA AdvanceFacts ==
    ASSUME TypeOK, Advance, flow' = flow, out' = out, todo = {}
    PROVE  /\ \A g \in Groups, x \in out : Sent(g, x)' <=> Sent(g, x)
           /\ \A s : Passed(s)' <=> Passed(s) \/ Stage = s
           /\ pc' \in Nat \ {0} /\ pc' - 1 = pc
           /\ todo' = JobsOf(Stage)'
<1>1. pc \in Nat \ {0} /\ pc' = pc + 1 /\ todo' = JobsOf(Stage)'
  BY DEF TypeOK, Advance, Stage, JobsOf
<1>2. ASSUME NEW g \in Groups, NEW x \in out
      PROVE  Sent(g, x)' <=> Sent(g, x)
  <2>1. Enqueues(StageOf(flow, pc + 1), g, x[1]) => <<g, x>> \in todo'
    BY DEF Advance, JobsOf
  <2>2. ASSUME Sent(g, x)' PROVE Sent(g, x)
    <3>1. PICK p \in 1 .. pc + 1 : /\ Enqueues(StageOf(flow, p), g, x[1])
                                   /\ p = pc + 1 => <<g, x>> \notin todo'
      BY <1>1, <2>2 DEF Sent
    <3>2. p \in 1 .. pc
      BY <1>1, <2>1, <3>1
    <3> QED
      BY <3>1, <3>2 DEF Sent
  <2>3. ASSUME Sent(g, x) PROVE Sent(g, x)'
    <3>1. PICK p \in 1 .. pc : Enqueues(StageOf(flow, p), g, x[1])
      BY <2>3 DEF Sent
    <3>2. p \in 1 .. pc + 1 /\ p # pc + 1
      BY <1>1, <3>1
    <3> QED
      BY <1>1, <3>1, <3>2 DEF Sent
  <2> QED
    BY <2>2, <2>3
<1>3. ASSUME NEW s
      PROVE  Passed(s)' <=> Passed(s) \/ Stage = s
  BY <1>1 DEF Passed, Before, Stage
<1> QED
  BY <1>1, <1>2, <1>3

Consistent == IInv

\* Outside of the enqueue loops nothing is left to enqueue.
LEMMA NothingToDo ==
    ASSUME Consistent, Stage \notin Loops
    PROVE  todo = {}
BY SentWhen DEF Consistent, IInv

\* A step to the next stage that leaves the pieces and the pool alone keeps
\* what is known of them.
LEMMA AdvanceKeeps ==
    ASSUME Consistent, Advance, todo = {},
           UNCHANGED <<flow, out, mem, promises, granted, queue, running, counted>>
    PROVE  PoolInv' /\ DataInv'
<1>0. TypeOK /\ PoolInv /\ DataInv
  BY DEF Consistent, IInv
<1>1. /\ \A g \in Groups, x \in out : Sent(g, x)' <=> Sent(g, x)
      /\ todo' = JobsOf(Stage)'
  BY <1>0, AdvanceFacts
<1>2. \A x \in out : Restorer(x) \in {"READ", "DECOMP"}
  BY DEF Restorer
<1>3. \A x \in out : Enqueues(Stage, Restorer(x), x[1])' => <<Restorer(x), x>> \in todo'
  BY <1>1, <1>2 DEF JobsOf, Groups
<1>4. PoolInv'
  <2>1. \A g \in Groups : InPool(g)' = InPool(g) /\ Queued(g)' = Queued(g)
    BY DEF InPool, Queued
  <2>2. \A i : Compressed(i)' = Compressed(i)
    BY DEF Compressed
  <2>3. \A g \in {"READ", "DECOMP"}, x \in out : Sent(g, x)' <=> Sent(g, x)
    BY <1>1 DEF Groups
  <2> QED
    BY <1>0, <1>3, <2>1, <2>2, <2>3 DEF PoolInv, Restorer, Groups
<1>5. DataInv'
  <2>1. \A x \in out : /\ Sent("ALLOC", x)' <=> Sent("ALLOC", x)
                       /\ Sent(Restorer(x), x)' <=> Sent(Restorer(x), x)
    BY <1>1, <1>2 DEF Groups
  <2> QED
    BY <1>0, <2>1 DEF DataInv, Restorer
<1> QED
  BY <1>4, <1>5

\* A step to the next stage keeps what the stages leave behind, if the stage
\* it leaves does what its name says.
LEMMA AdvanceStages ==
    ASSUME Consistent, Advance, todo = {},
           UNCHANGED <<flow, out, decode, layer, graph, mem, queue, running, counted>>,
           Stage = "wait_syncs" => Missing = {} /\ counted = {},
           Stage = "FREE" => \A g \in Groups : Idle(g),
           Passed("clean") \/ Stage = "clean" => arenas' = {},
           Stage # "async_decode",
           Stage = "get_decode" => decode \in {"done", "failed"},
           Stage = "wait_graph" => graph
    PROVE  StageInv'
<1>0. TypeOK /\ StageInv
  BY DEF Consistent, IInv
<1>1. /\ \A s : Passed(s)' <=> Passed(s) \/ Stage = s
      /\ pc \in Nat \ {0}
  BY <1>0, AdvanceFacts DEF TypeOK
<1>2. Missing' = Missing /\ \A g \in Groups : Idle(g)' <=> Idle(g)
  BY DEF Missing, Idle
<1>3. decode # "start"
  <2>1. SUFFICES ASSUME decode = "start" PROVE FALSE
    OBVIOUS
  <2>2. ~graph /\ StageOf(flow, pc - 1) = "async_decode" /\ ~(decode = "off")
    BY <1>0, <2>1 DEF StageInv
  <2>3. pc # 1
    <3>1. Passed("async_decode")
      BY <1>0, <2>2 DEF StageInv
    <3> QED
      BY <1>1, <3>1 DEF Passed, Before
  <2>4. Stage \in {"wait_graph", "get_decode"}
    <3>1. pc - 1 \in Nat \ {0} /\ (pc - 1) + 1 = pc /\ flow \in AllFlows
      BY <1>0, <1>1, <2>3, SwapInAssumption DEF TypeOK
    <3> QED
      BY <2>2, <3>1, StageOrder DEF Stage
  <2> QED
    BY <2>1, <2>2, <2>4
<1>4. decode' = decode /\ layer' = layer /\ graph' = graph /\ counted' = counted
  OBVIOUS
<1> QED
  BY <1>0, <1>1, <1>2, <1>3, <1>4 DEF StageInv

-----------------------------------------------------------------------------
(* The steps of the main thread.                                           *)

\* What the proofs use of the sizes of sets of pieces.
SizeLaw ==
    \A S \in SUBSET Pieces :
      /\ Cardinality(S) \in Nat
      /\ Cardinality(S) = 0 <=> S = {}
      /\ \A x \in S : Cardinality(S \ {x}) = Cardinality(S) - 1

\* The sets whose sizes are counted are sets of pieces.
LEMMA CountedSets ==
    ASSUME SizeLaw, TypeOK, NEW i
    PROVE  /\ Unfinished(i) \subseteq Pieces /\ Compressed(i) \subseteq Pieces
           /\ Cardinality(Unfinished(i)) \in Nat /\ Cardinality(Compressed(i)) \in Nat
           /\ Cardinality(Unfinished(i)) = 0 <=> Unfinished(i) = {}
           /\ Cardinality(Compressed(i)) = 0 <=> Compressed(i) = {}
<1>1. Unfinished(i) \in SUBSET Pieces /\ Compressed(i) \in SUBSET Pieces
  BY DEF TypeOK, Unfinished, Compressed
<1> QED
  BY <1>1 DEF SizeLaw

\* initialize_layer_sync comes before anything is sent: it forgets no promise,
\* and it counts all the pieces that are out.
LEMMA InitializeStep ==
    ASSUME SizeLaw, Consistent, InitializeLayerSync
    PROVE  Consistent'
<1>0. TypeOK /\ PoolInv /\ DataInv /\ CountInv /\ StageInv
  BY DEF Consistent, IInv
<1>1. /\ Stage = "initialize_layer_sync" /\ Advance
      /\ promises' = {} /\ granted' = {}
      /\ UNCHANGED <<flow, out, decode, layer, graph, mem, arenas, queue, running, counted>>
  BY DEF InitializeLayerSync, decodeVars, poolVars
<1>2. todo = {}
  BY <1>1, NothingToDo DEF Loops
<1>3. promises = {} /\ granted = {}
  <2>1. \A x \in out : ~Sent("ALLOC", x)
    BY <1>0, <1>1, SentWhen
  <2> QED
    BY <1>0, <2>1 DEF DataInv, TypeOK
<1>4. \A x \in out : mem[x] = "gone"
  BY <1>0, <1>3 DEF DataInv
<1>5. PoolInv' /\ DataInv'
  BY <1>1, <1>2, <1>3, AdvanceKeeps
<1>6. \A s : Passed(s)' <=> Passed(s) \/ Stage = s
  BY <1>0, <1>1, <1>2, AdvanceFacts
<1>7. \A i : /\ Unfinished(i)' = OfLayer(i, {"decomp", "load", "weight"})
             /\ Compressed(i)' = OfLayer(i, {"decomp"})
             /\ Compressed(i)' = Compressed(i)
  <2>1. \A x \in out : x[1] \in {"decomp", "load", "weight"}
    BY <1>0, Parts DEF TypeOK, Kinds
  <2> QED
    BY <1>1, <1>4, <2>1 DEF Unfinished, Compressed, OfLayer
<1>8. \A i : Cardinality(Unfinished(i)') \in Int /\ Cardinality(Compressed(i)') \in Int
  <2>1. \A i : Unfinished(i)' \in SUBSET Pieces /\ Compressed(i)' \in SUBSET Pieces
    BY <1>0, <1>7 DEF TypeOK, OfLayer
  <2> QED
    BY <2>1 DEF SizeLaw
<1>9. /\ sync' = [i \in Layers |-> Cardinality(Unfinished(i)')]
      /\ compLeft' = [i \in Layers |-> Cardinality(Compressed(i)')]
  BY <1>7 DEF InitializeLayerSync
<1>10. sync' \in [Layers -> Int] /\ compLeft' \in [Layers -> Int]
  BY <1>8, <1>9
<1>11. CountInv'
  <2>1. Passed("reload_all_arenas")' => \A i \in Layers : Compressed(i)' # {} => i \in arenas'
    BY <1>0, <1>1, <1>6, <1>7 DEF CountInv
  <2>2. \A i \in Layers : /\ sync'[i] = Cardinality(Unfinished(i))'
                          /\ compLeft'[i] = Cardinality(Compressed(i))'
    BY <1>9
  <2> QED
    BY <1>10, <2>1, <2>2 DEF CountInv
<1>12. StageInv'
  <2>1. Passed("clean") => arenas' = {}
    BY <1>0, <1>1 DEF StageInv
  <2> QED
    BY <1>1, <1>2, <2>1, AdvanceStages
<1>13. TypeOK'
  <2>1. pc' \in Nat \ {0} /\ todo' = JobsOf(Stage)'
    BY <1>0, <1>1, <1>2, AdvanceFacts
  <2> QED
    BY <1>0, <1>1, <1>10, <2>1 DEF TypeOK
<1> QED
  BY <1>5, <1>11, <1>12, <1>13 DEF Consistent, IInv

\* A step to the next stage that changes no count keeps the counts.
LEMMA AdvanceCounts ==
    ASSUME Consistent, Advance, todo = {},
           UNCHANGED <<flow, out, mem, counted, sync, compLeft>>,
           Stage # "initialize_layer_sync",
           Stage = "reload_all_arenas" \/ arenas' = arenas,
           Stage = "reload_all_arenas" =>
             \A i \in Layers : Compressed(i) # {} => i \in arenas'
    PROVE  CountInv'
<1>0. TypeOK /\ CountInv
  BY DEF Consistent, IInv
<1>1. \A s : Passed(s)' <=> Passed(s) \/ Stage = s
  BY <1>0, AdvanceFacts
<1>2. \A i : Unfinished(i)' = Unfinished(i) /\ Compressed(i)' = Compressed(i)
  BY DEF Unfinished, Compressed
<1>3. sync' = sync /\ compLeft' = compLeft
  OBVIOUS
<1> QED
  BY <1>0, <1>1, <1>2, <1>3 DEF CountInv

\* A step to the next stage keeps the types.
LEMMA AdvanceTypes ==
    ASSUME Consistent, Advance, todo = {},
           UNCHANGED <<flow, out, layer, graph, sync, compLeft, mem, promises, granted,
                       queue, running, counted>>,
           decode' \in {decode, "start"}, arenas' \subseteq Layers
    PROVE  TypeOK'
<1>0. TypeOK
  BY DEF Consistent, IInv
<1>1. pc' \in Nat \ {0} /\ todo' = JobsOf(Stage)'
  BY <1>0, AdvanceFacts
<1> QED
  BY <1>0, <1>1 DEF TypeOK

\* mzcache_reload_all_arenas brings the arenas of all compressed chunks back.
LEMMA ReloadStep ==
    ASSUME Consistent, ReloadAllArenas
    PROVE  Consistent'
<1>0. TypeOK /\ StageInv
  BY DEF Consistent, IInv
<1>1. /\ Stage = "reload_all_arenas" /\ Advance
      /\ arenas' = {x[2] : x \in {y \in out : y[1] = "decomp"}}
      /\ UNCHANGED <<flow, out, decode, layer, graph, sync, compLeft, mem, promises,
                     granted, queue, running, counted>>
  BY DEF ReloadAllArenas, decodeVars, poolVars
<1>2. todo = {}
  BY <1>1, NothingToDo DEF Loops
<1>3. \A i \in Layers : Compressed(i) # {} => i \in arenas'
  BY <1>1 DEF Compressed
<1>4. arenas' \subseteq Layers
  BY <1>0, <1>1, Parts DEF TypeOK
<1>5. ~Passed("clean")
  <2>1. flow \in AllFlows /\ pc \in Nat \ {0}
    BY <1>0, SwapInAssumption DEF TypeOK
  <2>2. ASSUME NEW q \in 1 .. pc - 1, StageOf(flow, q) = "clean" PROVE FALSE
    <3>1. pc < q
      BY <1>1, <2>1, <2>2, StageOrder DEF Stage
    <3> QED
      BY <2>1, <3>1
  <2> QED
    BY <2>2 DEF Passed, Before
<1>6. PoolInv' /\ DataInv'
  BY <1>1, <1>2, AdvanceKeeps, Zenon
<1>7. CountInv'
  BY <1>1, <1>2, <1>3, AdvanceCounts
<1>8. StageInv'
  BY <1>1, <1>2, <1>5, AdvanceStages
<1>9. TypeOK'
  BY <1>1, <1>2, <1>4, AdvanceTypes
<1> QED
  BY <1>6, <1>7, <1>8, <1>9 DEF Consistent, IInv

\* The decode is started or called once.
LEMMA AsyncStep ==
    ASSUME Consistent, AsyncDecode
    PROVE  Consistent'
<1>0. TypeOK /\ StageInv
  BY DEF Consistent, IInv
<1>1. /\ Stage = "async_decode" /\ Advance
      /\ decode' = "start"
      /\ UNCHANGED <<flow, out, layer, graph, sync, compLeft, mem, arenas, promises,
                     granted, queue, running, counted>>
  BY DEF AsyncDecode, dataVars, poolVars
<1>2. todo = {}
  BY <1>1, NothingToDo DEF Loops
<1>3. ~Passed("async_decode") /\ ~Passed("get_decode")
  <2>1. flow \in AllFlows /\ pc \in Nat \ {0}
    BY <1>0, SwapInAssumption DEF TypeOK
  <2>2. ASSUME NEW q \in 1 .. pc - 1 PROVE StageOf(flow, q) \notin {"async_decode", "get_decode"}
    <3>1. StageOf(flow, q) = "async_decode" => pc = q
      BY <1>1, <2>1, StageOrder DEF Stage
    <3>2. StageOf(flow, q) = "get_decode" => pc < q
      BY <1>1, <2>1, StageOrder DEF Stage
    <3> QED
      BY <2>1, <3>1, <3>2
  <2> QED
    BY <2>2 DEF Passed, Before
<1>4. PoolInv' /\ DataInv'
  BY <1>1, <1>2, AdvanceKeeps
<1>5. CountInv'
  BY <1>1, <1>2, AdvanceCounts
<1>6. TypeOK'
  <2>1. arenas' \subseteq Layers
    BY <1>0, <1>1 DEF TypeOK
  <2> QED
    BY <1>1, <1>2, <2>1, AdvanceTypes
<1>7. StageInv'
  <2>1. /\ \A s : Passed(s)' <=> Passed(s) \/ Stage = s
        /\ StageOf(flow, pc - 1)' = Stage
    BY <1>0, <1>1, <1>2, AdvanceFacts DEF Stage
  <2>2. Missing' = Missing /\ \A g \in Groups : Idle(g)' <=> Idle(g)
    BY <1>1 DEF Missing, Idle
  <2>3. decode = "off" /\ layer = 0 /\ ~graph
    BY <1>0, <1>3 DEF StageInv
  <2> QED
    BY <1>0, <1>1, <1>3, <2>1, <2>2, <2>3 DEF StageInv
<1> QED
  BY <1>4, <1>5, <1>6, <1>7 DEF Consistent, IInv

\* A group that holds no task is idle.
LEMMA EmptyIdle ==
    ASSUME TypeOK, NEW g \in Groups, InPool(g) = {}
    PROVE  Idle(g)
<1>1. queue[g] \in Seq(Tasks)
  BY DEF TypeOK
<1>2. 1 \notin DOMAIN queue[g]
  BY DEF InPool, Queued
<1>3. queue[g] = <<>>
  BY <1>1, <1>2
<1> QED
  BY <1>3 DEF Idle, InPool

\* When all layers have been waited for, the groups that restore pieces are
\* idle.
LEMMA QuietAfterSyncs ==
    ASSUME Consistent, Missing = {}, counted = {}
    PROVE  \A g \in {"ALLOC", "READ", "DECOMP"} : InPool(g) = {} /\ Idle(g)
<1>0. TypeOK /\ PoolInv /\ DataInv
  BY DEF Consistent, IInv
<1>1. InPool("ALLOC") = {}
  <2>1. \A x \in promises \ granted : x \in Missing
    BY <1>0 DEF DataInv, TypeOK, Missing
  <2> QED
    BY <1>0, <2>1 DEF PoolInv
<1>2. \A g \in {"READ", "DECOMP"} : InPool(g) = {}
  BY <1>0 DEF PoolInv, Missing, TypeOK
<1> QED
  BY <1>0, <1>1, <1>2, EmptyIdle DEF Groups

\* A layer whose count is down has all of its pieces back.
LEMMA CountDownComplete ==
    ASSUME SizeLaw, Consistent, Passed("initialize_layer_sync"), NEW i \in Layers,
           SyncDown(i)
    PROVE  Unfinished(i) = {}
<1>1. TypeOK /\ CountInv
  BY DEF Consistent, IInv
<1>2. sync[i] = Cardinality(Unfinished(i)) /\ i \in DOMAIN sync
  BY <1>1 DEF CountInv
<1>3. Cardinality(Unfinished(i)) <= 0
  BY <1>2 DEF SyncDown
<1>4. Cardinality(Unfinished(i)) = 0
  BY <1>1, <1>3, CountedSets
<1> QED
  BY <1>1, <1>4, CountedSets

\* When all counts are down, everything is back.
LEMMA SyncsDown ==
    ASSUME SizeLaw, Consistent, Passed("initialize_layer_sync"),
           \A i \in Layers : SyncDown(i)
    PROVE  Missing = {} /\ counted = {}
<1>1. TypeOK /\ DataInv
  BY DEF Consistent, IInv
<1>2. \A i \in Layers : Unfinished(i) = {}
  BY CountDownComplete
<1>3. \A x \in out : x[2] \in Layers
  BY <1>1, Parts DEF TypeOK
<1>4. \A x \in out : mem[x] = "back" /\ x \notin counted
  BY <1>2, <1>3 DEF Unfinished
<1> QED
  BY <1>1, <1>4 DEF DataInv, TypeOK, Missing

\* The waits of the main thread and the ends of its loops.
LEMMA WaitStep ==
    ASSUME SizeLaw, Consistent, LoopEnds \/ Wait
    PROVE  Consistent'
<1>0. TypeOK /\ StageInv
  BY DEF Consistent, IInv
<1>1. /\ Advance
      /\ UNCHANGED <<flow, out, decode, layer, graph, sync, compLeft, mem, arenas,
                     promises, granted, queue, running, counted>>
  BY DEF LoopEnds, Wait, decodeVars, dataVars, poolVars
<1>2. /\ Stage \notin {"initialize_layer_sync", "reload_all_arenas", "async_decode", "clean"}
      /\ Stage \in Loops => todo = {}
      /\ Stage = "wait_syncs" => \A i \in Layers : SyncDown(i)
      /\ Stage = "FREE" => Idle("FREE")
      /\ Stage = "get_decode" => decode \in {"done", "failed"}
      /\ Stage = "wait_graph" => graph
  <2>1. CASE LoopEnds
    BY <2>1 DEF LoopEnds, Loops
  <2>2. CASE Wait
    BY <2>2 DEF Wait, Loops, Groups
  <2> QED
    BY <2>1, <2>2
<1>3. todo = {}
  BY <1>2, NothingToDo
<1>4. flow \in AllFlows /\ pc \in Nat \ {0} /\ arenas' \subseteq Layers
  BY <1>0, <1>1, SwapInAssumption DEF TypeOK
<1>5. Stage = "wait_syncs" => Missing = {} /\ counted = {}
  <2>1. Stage = "wait_syncs" => Passed("initialize_layer_sync")
    BY <1>4, StagesPresent DEF Stage, Passed
  <2> QED
    BY <1>2, <2>1, SyncsDown
<1>6. Stage = "FREE" => \A g \in Groups : Idle(g)
  <2>1. Stage = "FREE" => Passed("wait_syncs")
    BY <1>4, StagesPresent DEF Stage, Passed
  <2>2. Stage = "FREE" => Missing = {} /\ counted = {}
    BY <1>0, <2>1 DEF StageInv
  <2> QED
    BY <1>2, <2>2, QuietAfterSyncs DEF Groups
<1>7. PoolInv' /\ DataInv'
  BY <1>1, <1>3, AdvanceKeeps
<1>8. CountInv'
  BY <1>1, <1>2, <1>3, AdvanceCounts
<1>9. TypeOK'
  BY <1>1, <1>3, <1>4, AdvanceTypes
<1>10. StageInv'
  <2>1. Passed("clean") \/ Stage = "clean" => arenas' = {}
    BY <1>0, <1>1, <1>2 DEF StageInv
  <2> QED
    BY <1>1, <1>2, <1>3, <1>5, <1>6, <2>1, AdvanceStages
<1> QED
  BY <1>7, <1>8, <1>9, <1>10 DEF Consistent, IInv

\* clean_after_decompress finds everything restored and keeps no arena.
LEMMA CleanStep ==
    ASSUME Consistent, Clean
    PROVE  Consistent' /\ arenas' = {}
<1>0. TypeOK /\ StageInv
  BY DEF Consistent, IInv
<1>1. /\ Stage = "clean" /\ Advance
      /\ arenas' = {x[2] : x \in {y \in Pieces : y[1] = "decomp" /\ mem[y] # "back"}}
      /\ UNCHANGED <<flow, out, decode, layer, graph, sync, compLeft, mem, promises,
                     granted, queue, running, counted>>
  BY DEF Clean, decodeVars, poolVars
<1>2. todo = {}
  BY <1>1, NothingToDo DEF Loops
<1>3. flow \in AllFlows /\ pc \in Nat \ {0}
  BY <1>0, SwapInAssumption DEF TypeOK
<1>4. Missing = {} /\ counted = {}
  <2>1. Passed("wait_syncs")
    BY <1>1, <1>3, StagesPresent, Zenon DEF Stage, Passed
  <2> QED
    BY <1>0, <2>1 DEF StageInv
<1>5. arenas' = {}
  BY <1>1, <1>4 DEF Missing
<1>6. PoolInv' /\ DataInv'
  BY <1>1, <1>2, AdvanceKeeps
<1>7. CountInv'
  <2>1. TypeOK /\ CountInv
    BY DEF Consistent, IInv
  <2>2. \A s : Passed(s)' <=> Passed(s) \/ Stage = s
    BY <1>1, <1>2, <2>1, AdvanceFacts, Zenon
  <2>3. \A i : /\ Unfinished(i)' = Unfinished(i) /\ Compressed(i)' = Compressed(i)
               /\ Compressed(i) = {}
    BY <1>1, <1>4, <2>1, Zenon DEF Unfinished, Compressed, Missing, TypeOK
  <2>4. sync' = sync /\ compLeft' = compLeft
    BY <1>1, Zenon
  <2> QED
    BY <1>1, <2>1, <2>2, <2>3, <2>4 DEF CountInv
<1>8. TypeOK'
  BY <1>1, <1>2, <1>5, AdvanceTypes, Zenon
<1>9. StageInv'
  BY <1>1, <1>2, <1>5, AdvanceStages, Zenon
<1> QED
  BY <1>5, <1>6, <1>7, <1>8, <1>9 DEF Consistent, IInv

\* Adding a task to a queue.
LEMMA QueueAppend ==
    ASSUME NEW T, NEW s \in Seq(T), NEW x \in T, NEW t, t = Append(s, x)
    PROVE  /\ t \in Seq(T)
           /\ {t[k] : k \in DOMAIN t} = {s[k] : k \in DOMAIN s} \cup {x}
           /\ x \notin {s[k] : k \in DOMAIN s}
              /\ (\A k, n \in DOMAIN s : s[k] = s[n] => k = n)
              => \A k, n \in DOMAIN t : t[k] = t[n] => k = n
<1>1. /\ t \in Seq(T) /\ DOMAIN s = 1 .. Len(s) /\ DOMAIN t = 1 .. Len(s) + 1
      /\ t[Len(s) + 1] = x /\ Len(s) \in Nat
      /\ \A k \in 1 .. Len(s) : t[k] = s[k]
  OBVIOUS
<1>2. \A k \in DOMAIN t : k \in DOMAIN s \/ k = Len(s) + 1
  BY <1>1
<1>3. {t[k] : k \in DOMAIN t} = {s[k] : k \in DOMAIN s} \cup {x}
  BY <1>1, <1>2
<1>4. ASSUME x \notin {s[k] : k \in DOMAIN s},
             \A k, n \in DOMAIN s : s[k] = s[n] => k = n,
             NEW k \in DOMAIN t, NEW n \in DOMAIN t, t[k] = t[n]
      PROVE  k = n
  BY <1>1, <1>2, <1>4
<1> QED
  BY <1>1, <1>3, <1>4

\* Taking the first task of a queue.
LEMMA QueueTail ==
    ASSUME NEW T, NEW s \in Seq(T), s # <<>>
    PROVE  LET t == Tail(s)
           IN  /\ t \in Seq(T) /\ Head(s) \in T
               /\ {s[k] : k \in DOMAIN s} = {t[k] : k \in DOMAIN t} \cup {Head(s)}
               /\ (\A k, n \in DOMAIN s : s[k] = s[n] => k = n)
                  => /\ Head(s) \notin {t[k] : k \in DOMAIN t}
                     /\ \A k, n \in DOMAIN t : t[k] = t[n] => k = n
<1> DEFINE t == Tail(s)
<1>1. /\ t \in Seq(T) /\ DOMAIN s = 1 .. Len(s) /\ DOMAIN t = 1 .. Len(s) - 1
      /\ Head(s) = s[1] /\ Head(s) \in T /\ Len(s) \in Nat \ {0}
      /\ \A k \in 1 .. Len(s) - 1 : t[k] = s[k + 1]
  OBVIOUS
<1> HIDE DEF t
<1>2. \A k \in DOMAIN s : k = 1 \/ (k - 1 \in DOMAIN t /\ t[k - 1] = s[k])
  BY <1>1
<1>3. \A k \in DOMAIN t : k + 1 \in DOMAIN s /\ t[k] = s[k + 1] /\ k + 1 # 1
  BY <1>1
<1>4. {s[k] : k \in DOMAIN s} = {t[k] : k \in DOMAIN t} \cup {Head(s)}
  <2>1. ASSUME NEW k \in DOMAIN s
        PROVE  s[k] \in {t[n] : n \in DOMAIN t} \cup {Head(s)}
    BY <1>1, <1>2
  <2>2. ASSUME NEW k \in DOMAIN t
        PROVE  t[k] \in {s[n] : n \in DOMAIN s}
    BY <1>3
  <2>3. Head(s) \in {s[n] : n \in DOMAIN s}
    BY <1>1
  <2> QED
    BY <2>1, <2>2, <2>3, Zenon
<1>5. ASSUME \A k, n \in DOMAIN s : s[k] = s[n] => k = n
      PROVE  /\ Head(s) \notin {t[k] : k \in DOMAIN t}
             /\ \A k, n \in DOMAIN t : t[k] = t[n] => k = n
  <2>1. ASSUME NEW k \in DOMAIN t, t[k] = Head(s) PROVE FALSE
    BY <1>1, <1>3, <1>5, <2>1
  <2>2. ASSUME NEW k \in DOMAIN t, NEW n \in DOMAIN t, t[k] = t[n] PROVE k = n
    <3>1. k + 1 = n + 1
      BY <1>3, <1>5, <2>2
    <3> QED
      BY <1>1, <3>1
  <2> QED
    BY <2>1, <2>2
<1> QED
  BY <1>1, <1>4, <1>5, Zenon DEF t

\* A loop enqueues each of its tasks once, the allocation of a piece before
\* the task that restores it.
LEMMA EnqueueStep ==
    ASSUME Consistent, Enqueue
    PROVE  Consistent'
<1>0. TypeOK /\ PoolInv /\ DataInv /\ CountInv /\ StageInv
  BY DEF Consistent, IInv
<1>1. UNCHANGED <<flow, out, pc, decode, layer, graph, sync, compLeft, mem, arenas,
                  granted, running, counted>>
  BY DEF Enqueue, decodeVars
<1>2. PICK j \in todo :
         /\ \A k \in todo : Rank(j) <= Rank(k)
         /\ todo' = todo \ {j}
         /\ queue' = [queue EXCEPT ![j[1]] = Append(@, j[2])]
         /\ promises' = IF j[1] = "ALLOC" THEN promises \cup {j[2]} ELSE promises
  BY Zenon DEF Enqueue
<1> DEFINE g == j[1]
           x == j[2]
<1>3. j = <<g, x>> /\ x \in out /\ g \in Groups
  BY <1>0, <1>2 DEF TypeOK, JobsOf
<1>4. ~Sent(g, x) /\ Enqueues(Stage, g, x[1]) /\ <<g, x>> \in todo
  BY <1>0, <1>2, <1>3, TodoUnsent
<1>5. /\ x \in Pieces /\ x \in Tasks /\ x[1] \in Kinds
      /\ g \in {"ALLOC", "READ", "DECOMP"} /\ (g # "ALLOC" => g = Restorer(x))
  BY <1>0, <1>3, <1>4, Parts, LoopsEnqueue, Zenon DEF TypeOK, Tasks
<1>6. \A h, y : Sent(h, y)' <=> Sent(h, y) \/ (h = g /\ y = x)
  <2>1. \A h, y : <<h, y>> \in todo' <=> <<h, y>> \in todo /\ ~(h = g /\ y = x)
    BY <1>2, <1>3
  <2>2. pc' = pc /\ flow' = flow /\ pc \in Nat \ {0}
    BY <1>0, <1>1 DEF TypeOK
  <2>3. Sent(g, x)'
    BY <1>4, <2>1, <2>2 DEF Sent, Stage
  <2>4. ASSUME NEW h, NEW y, ~(h = g /\ y = x) PROVE Sent(h, y)' <=> Sent(h, y)
    BY <2>1, <2>2, <2>4 DEF Sent
  <2>5. ASSUME NEW h, NEW y PROVE Sent(h, y)' <=> Sent(h, y) \/ (h = g /\ y = x)
    BY <2>3, <2>4
  <2> QED
    BY <2>5
<1> HIDE DEF g, x
<1>7. /\ queue' = [queue EXCEPT ![g] = Append(queue[g], x)]
      /\ promises' = IF g = "ALLOC" THEN promises \cup {x} ELSE promises
  BY <1>0, <1>2, <1>3 DEF TypeOK, g, x
<1>8. /\ queue[g] \in Seq(Tasks) /\ queue'[g] = Append(queue[g], x)
      /\ \A h \in Groups : h # g => queue'[h] = queue[h]
  BY <1>0, <1>3, <1>7 DEF TypeOK
<1>9. /\ queue' \in [Groups -> Seq(Tasks)]
      /\ Queued(g)' = Queued(g) \cup {x}
      /\ \A h \in Groups : h # g => Queued(h)' = Queued(h)
  <2>1. queue'[g] \in Seq(Tasks)
    BY <1>5, <1>8
  <2>2. Queued(g)' = Queued(g) \cup {x}
    <3> DEFINE s == queue[g]
               t == queue'[g]
    <3>1. s \in Seq(Tasks) /\ x \in Tasks /\ t = Append(s, x)
      BY <1>5, <1>8, Zenon
    <3>2. {t[k] : k \in DOMAIN t} = {s[k] : k \in DOMAIN s} \cup {x}
      <4> HIDE DEF s, t
      <4> QED
        BY <3>1, QueueAppend
    <3> QED
      BY <3>2, Zenon DEF Queued
  <2>3. \A h \in Groups : h # g => Queued(h)' = Queued(h)
    BY <1>8 DEF Queued
  <2>4. queue' \in [Groups -> Seq(Tasks)]
    BY <1>0, <1>3, <1>7, <2>1 DEF TypeOK
  <2> QED
    BY <2>2, <2>3, <2>4
<1>10. x \notin InPool(g) /\ x \notin counted /\ (g # "ALLOC" => mem[x] # "back")
       /\ (g = "ALLOC" => x \notin promises)
  <2>1. CASE g = "ALLOC"
    <3>1. x \notin promises
      BY <1>0, <1>3, <1>4, <2>1, Zenon DEF DataInv
    <3>2. ~Sent("ALLOC", x) => ~Sent(Restorer(x), x)
      BY <1>0, <1>3, AllocSent, Zenon DEF PoolInv
    <3> QED
      BY <1>0, <1>3, <1>4, <2>1, <3>1, <3>2, Zenon DEF PoolInv, DataInv
  <2>2. CASE g # "ALLOC"
    <3>1. mem[x] # "back"
      BY <1>0, <1>3, <1>4, <1>5, <2>2 DEF DataInv
    <3> QED
      BY <1>0, <1>4, <1>5, <2>2, <3>1, ZenonT(40) DEF PoolInv, DataInv
  <2> QED
    BY <2>1, <2>2
<1>11. /\ InPool(g)' = InPool(g) \cup {x}
       /\ \A h \in Groups : h # g => InPool(h)' = InPool(h)
  BY <1>1, <1>9 DEF InPool
<1>12. \A s : Passed(s)' <=> Passed(s)
  BY <1>1 DEF Passed
<1>13. \A i : Compressed(i)' = Compressed(i) /\ Unfinished(i)' = Unfinished(i)
  BY <1>1 DEF Compressed, Unfinished
<1>14. TypeOK'
  <2>1. promises' \subseteq out /\ granted' \subseteq promises'
    BY <1>0, <1>1, <1>3, <1>7 DEF TypeOK
  <2>2. todo' \subseteq JobsOf(Stage)'
    BY <1>0, <1>1, <1>2, Zenon DEF TypeOK, JobsOf, Stage
  <2> QED
    BY <1>0, <1>1, <1>9, <2>1, <2>2 DEF TypeOK
<1>15. PoolInv'
  <2>1. ASSUME NEW y \in out, <<"ALLOC", y>> \in todo', Enqueues(Stage, Restorer(y), y[1])'
        PROVE  <<Restorer(y), y>> \in todo'
    <3>1. <<"ALLOC", y>> \in todo /\ <<Restorer(y), y>> \in todo
      BY <1>0, <1>1, <1>2, <2>1, Zenon DEF PoolInv, Stage
    <3>2. <<Restorer(y), y>> # j
      <4>1. Rank(<<Restorer(y), y>>) = Rank(<<"ALLOC", y>>) + 1 /\ Rank(<<"ALLOC", y>>) \in Int
        <5>1. y \in Pieces /\ Restorer(y) # "ALLOC"
          BY <1>0 DEF TypeOK, Restorer
        <5>2. Position(y) \in Int
          BY <5>1, SwapInAssumption DEF Pieces, Position, PerLayer, Layers
        <5> QED
          BY <5>1, <5>2 DEF Rank
      <4> QED
        BY <1>2, <3>1, <4>1
    <3> QED
      BY <1>2, <3>1, <3>2
  <2>2. \A y \in InPool("ALLOC")' : y \in promises' \ granted'
    BY <1>0, <1>1, <1>3, <1>7, <1>10, <1>11, ZenonT(40) DEF PoolInv, Groups, TypeOK
  <2>3. ASSUME NEW h \in {"READ", "DECOMP"}, NEW y \in InPool(h)'
        PROVE  y \in out' /\ h = Restorer(y) /\ Sent(h, y)' /\ (mem'[y] # "back" \/ y \in counted')
    <3>1. y \in InPool(h) \/ (h = g /\ y = x)
      BY <1>11 DEF Groups
    <3>2. CASE y \in InPool(h)
      BY <1>0, <1>1, <1>6, <3>2, Zenon DEF PoolInv
    <3>3. CASE h = g /\ y = x
      BY <1>1, <1>3, <1>5, <1>6, <1>10, <3>3, Zenon
    <3> QED
      BY <3>1, <3>2, <3>3
  <2>4. \A h \in {"READ", "DECOMP"} : Queued(h)' \cap counted' = {}
    <3>1. \A h \in {"READ", "DECOMP"} : Queued(h) \cap counted = {}
      BY <1>0, Zenon DEF PoolInv
    <3>2. \A h \in {"READ", "DECOMP"} : Queued(h)' \subseteq Queued(h) \cup {x}
      BY <1>9 DEF Groups
    <3> QED
      BY <1>1, <1>10, <3>1, <3>2
  <2>5. ASSUME NEW h \in {"ALLOC", "READ", "DECOMP"}
        PROVE  /\ \A k, n \in DOMAIN queue'[h] : queue'[h][k] = queue'[h][n] => k = n
               /\ Queued(h)' \cap running'[h] = {}
    <3>1. CASE h = g
      <4>1. x \notin {queue[g][k] : k \in DOMAIN queue[g]} /\ x \notin running[g]
        BY <1>10 DEF InPool, Queued
      <4>2. /\ \A k, n \in DOMAIN queue[g] : queue[g][k] = queue[g][n] => k = n
            /\ Queued(g) \cap running[g] = {}
        BY <1>0, <3>1, Zenon DEF PoolInv
      <4>3. \A k, n \in DOMAIN queue'[g] : queue'[g][k] = queue'[g][n] => k = n
        BY <1>5, <1>8, <4>1, <4>2, QueueAppend
      <4> QED
        BY <1>1, <1>9, <3>1, <4>1, <4>2, <4>3, Zenon
    <3>2. CASE h # g
      BY <1>0, <1>1, <1>8, <1>9, <3>2, Zenon DEF PoolInv, Groups
    <3> QED
      BY <3>1, <3>2
  <2>6. \A y \in InPool("FREE")' : Compressed(y[2])' = {}
    BY <1>0, <1>5, <1>11, <1>13, ZenonT(40) DEF PoolInv, Groups
  <2> QED
    BY <1>1, <2>1, <2>2, <2>3, <2>4, <2>5, <2>6, Zenon DEF PoolInv
<1>16. DataInv'
  <2>1. \A y \in out : y \in promises' <=> Sent("ALLOC", y)'
    BY <1>0, <1>6, <1>7 DEF DataInv
  <2>2. \A y \in out : mem[y] = "back" => Sent(Restorer(y), y)'
    BY <1>0, <1>6 DEF DataInv
  <2> QED
    BY <1>0, <1>1, <2>1, <2>2, Zenon DEF DataInv, Restorer
<1>17. CountInv'
  <2>1. sync' = sync /\ compLeft' = compLeft /\ arenas' = arenas
    BY <1>1
  <2> QED
    BY <1>0, <1>12, <1>13, <2>1, Zenon DEF CountInv
<1>18. StageInv'
  <2>1. ~Passed("FREE") /\ ~Passed("wait_syncs")
    BY <1>0, <1>4, SentWhen
  <2>2. StageOf(flow, pc - 1)' = StageOf(flow, pc - 1)
    BY <1>1
  <2>3. decode' = decode /\ layer' = layer /\ graph' = graph /\ arenas' = arenas
    BY <1>1
  <2> QED
    BY <1>0, <1>12, <2>1, <2>2, <2>3 DEF StageInv
<1> QED
  BY <1>14, <1>15, <1>16, <1>17, <1>18 DEF Consistent, IInv

-----------------------------------------------------------------------------
(* The steps of the decode thread.                                         *)

\* What the main thread has passed and sent does not depend on the others.
LEMMA MainFrame ==
    ASSUME UNCHANGED <<flow, out, pc, todo>>
    PROVE  /\ \A g, x : Sent(g, x)' <=> Sent(g, x)
           /\ \A s : Passed(s)' <=> Passed(s)
           /\ Stage' = Stage
           /\ JobsOf(Stage)' = JobsOf(Stage)
           /\ StageOf(flow, pc - 1)' = StageOf(flow, pc - 1)
<1>1. \A g, x : Sent(g, x)' <=> Sent(g, x)
  BY DEF Sent
<1>2. \A s : Passed(s)' <=> Passed(s)
  BY DEF Passed
<1>3. /\ Stage' = Stage /\ JobsOf(Stage)' = JobsOf(Stage)
      /\ StageOf(flow, pc - 1)' = StageOf(flow, pc - 1)
  BY DEF Stage, JobsOf
<1> QED
  BY <1>1, <1>2, <1>3

\* The decode thread computes the layers one after the other and ends once.
LEMMA DecodeStep ==
    ASSUME Consistent, Decode
    PROVE  Consistent'
<1>0. TypeOK /\ PoolInv /\ DataInv /\ CountInv /\ StageInv
  BY DEF Consistent, IInv
<1>1. UNCHANGED <<flow, out, pc, todo, sync, compLeft, mem, arenas, promises, granted,
                  queue, running, counted>>
  BY Zenon DEF Decode, GraphAllocated, ComputeLayer, DecodeRefused, DecodeFails, mainVars,
         dataVars, poolVars
<1>2. /\ \A g, x : Sent(g, x)' <=> Sent(g, x)
      /\ \A s : Passed(s)' <=> Passed(s)
      /\ Stage' = Stage
      /\ JobsOf(Stage)' = JobsOf(Stage)
      /\ StageOf(flow, pc - 1)' = StageOf(flow, pc - 1)
  BY <1>1, MainFrame
<1>3. /\ \A g : InPool(g)' = InPool(g) /\ Queued(g)' = Queued(g)
      /\ \A i : Compressed(i)' = Compressed(i) /\ Unfinished(i)' = Unfinished(i)
  BY <1>1 DEF InPool, Queued, Compressed, Unfinished
<1>4. PoolInv'
  BY <1>0, <1>1, <1>2, <1>3, ZenonT(40) DEF PoolInv, Restorer
<1>5. DataInv'
  BY <1>0, <1>1, <1>2, Zenon DEF DataInv, Restorer
<1>6. CountInv'
  <2>1. sync' = sync /\ compLeft' = compLeft /\ arenas' = arenas
    BY <1>1
  <2> QED
    BY <1>0, <1>2, <1>3, <2>1, Zenon DEF CountInv
<1>7. /\ decode \in {"start", "run"}
      /\ decode = "start" => /\ decode' \in {"run", "failed"} /\ layer' = 0
                             /\ graph' \in BOOLEAN
      /\ decode = "run" => /\ decode' \in {"run", "done", "failed"}
                           /\ layer' \in {layer, layer + 1} /\ graph' = graph
                           /\ decode' = "run" => layer' # NumLayers
                           /\ decode' = "done" => layer' = NumLayers
  <2>1. layer \in 0 .. NumLayers /\ graph \in BOOLEAN /\ NumLayers \in Nat
        /\ (decode = "start" => layer = 0)
    BY <1>0, SwapInAssumption DEF TypeOK, StageInv
  <2>2. CASE GraphAllocated
    BY <2>1, <2>2 DEF GraphAllocated
  <2>3. CASE ComputeLayer
    BY <2>1, <2>3 DEF ComputeLayer, AfterLayer
  <2>4. CASE DecodeRefused
    BY <2>1, <2>4 DEF DecodeRefused
  <2>5. CASE DecodeFails
    BY <2>1, <2>5 DEF DecodeFails
  <2> QED
    BY <2>2, <2>3, <2>4, <2>5 DEF Decode
<1>8. layer' \in 0 .. NumLayers /\ (decode' = "run" => layer' < NumLayers)
  <2>1. layer \in 0 .. NumLayers /\ NumLayers \in Nat \ {0} /\ (decode = "run" => layer < NumLayers)
    BY <1>0, SwapInAssumption DEF TypeOK, StageInv
  <2> QED
    BY <1>7, <2>1
<1>9. StageInv'
  <2>1. Missing' = Missing /\ \A g \in Groups : Idle(g)' <=> Idle(g)
    BY <1>1 DEF Missing, Idle
  <2>2. arenas' = arenas /\ counted' = counted
    BY <1>1
  <2> QED
    BY <1>0, <1>2, <1>7, <1>8, <2>1, <2>2, Zenon DEF StageInv
<1>10. TypeOK'
  <2>1. decode' \in {"off", "start", "run", "done", "failed"} /\ graph' \in BOOLEAN
    BY <1>0, <1>7 DEF TypeOK
  <2> QED
    BY <1>0, <1>1, <1>2, <1>8, <2>1, Zenon DEF TypeOK
<1> QED
  BY <1>4, <1>5, <1>6, <1>9, <1>10 DEF Consistent, IInv

-----------------------------------------------------------------------------
(* The steps of the workers.                                               *)

\* A worker takes the first task of its group's queue.
LEMMA TakeStep ==
    ASSUME Consistent, NEW g \in Groups, Take(g)
    PROVE  Consistent'
<1>0. TypeOK /\ PoolInv /\ DataInv /\ CountInv /\ StageInv
  BY DEF Consistent, IInv
<1>1. UNCHANGED <<flow, out, pc, todo, decode, layer, graph, sync, compLeft, mem, arenas,
                  promises, granted, counted>>
  BY DEF Take, mainVars, decodeVars, dataVars
<1>2. /\ \A h, x : Sent(h, x)' <=> Sent(h, x)
      /\ \A s : Passed(s)' <=> Passed(s)
      /\ Stage' = Stage
      /\ JobsOf(Stage)' = JobsOf(Stage)
      /\ StageOf(flow, pc - 1)' = StageOf(flow, pc - 1)
  BY <1>1, MainFrame
<1> DEFINE y == Head(queue[g])
<1>3. /\ queue[g] # <<>> /\ queue[g] \in Seq(Tasks)
      /\ running' = [running EXCEPT ![g] = running[g] \cup {y}]
      /\ queue' = [queue EXCEPT ![g] = Tail(queue[g])]
  BY <1>0 DEF Take, TypeOK
<1>4. /\ queue'[g] = Tail(queue[g]) /\ running'[g] = running[g] \cup {y}
      /\ \A h \in Groups : h # g => queue'[h] = queue[h] /\ running'[h] = running[h]
  BY <1>0, <1>3 DEF TypeOK
<1>5. /\ queue'[g] \in Seq(Tasks) /\ y \in Tasks
      /\ Queued(g) = Queued(g)' \cup {y}
      /\ (\A k, n \in DOMAIN queue[g] : queue[g][k] = queue[g][n] => k = n)
         => /\ y \notin Queued(g)'
            /\ \A k, n \in DOMAIN queue'[g] : queue'[g][k] = queue'[g][n] => k = n
  <2> DEFINE t == Tail(queue[g])
  <2>1. /\ t \in Seq(Tasks) /\ y \in Tasks
        /\ {queue[g][k] : k \in DOMAIN queue[g]} = {t[k] : k \in DOMAIN t} \cup {y}
        /\ (\A k, n \in DOMAIN queue[g] : queue[g][k] = queue[g][n] => k = n)
           => /\ y \notin {t[k] : k \in DOMAIN t}
              /\ \A k, n \in DOMAIN t : t[k] = t[n] => k = n
    BY <1>3, QueueTail, Zenon
  <2>2. queue'[g] = t
    BY <1>4
  <2> HIDE DEF t, y
  <2>3. /\ Queued(g)' = {t[k] : k \in DOMAIN t}
        /\ Queued(g) = {queue[g][k] : k \in DOMAIN queue[g]}
    BY <2>2 DEF Queued
  <2> QED
    BY <2>1, <2>2, <2>3, Zenon
<1> HIDE DEF y
<1>6. \A h \in Groups : InPool(h)' = InPool(h) /\ (h # g => Queued(h)' = Queued(h))
  <2>1. ASSUME NEW h \in Groups, h # g PROVE Queued(h)' = Queued(h)
    BY <1>4, <2>1, Zenon DEF Queued
  <2> QED
    BY <1>4, <1>5, <2>1, Zenon DEF InPool
<1>7. \A i : Compressed(i)' = Compressed(i) /\ Unfinished(i)' = Unfinished(i)
  BY <1>1, Zenon DEF Compressed, Unfinished
<1>8. TypeOK'
  <2>1. queue' \in [Groups -> Seq(Tasks)] /\ running' \in [Groups -> SUBSET Tasks]
    BY <1>0, <1>3, <1>4, <1>5, Zenon DEF TypeOK
  <2> QED
    BY <1>0, <1>1, <1>2, <2>1, Zenon DEF TypeOK
<1>9. PoolInv'
  <2>1. \A x \in out : <<"ALLOC", x>> \in todo' /\ Enqueues(Stage', Restorer(x), x[1])
                       => <<Restorer(x), x>> \in todo'
    BY <1>0, <1>1, <1>2, Zenon DEF PoolInv
  <2>2. \A x \in InPool("ALLOC")' : x \in promises' \ granted'
    BY <1>0, <1>1, <1>6, Zenon DEF PoolInv, Groups
  <2>3. \A h \in {"READ", "DECOMP"} : \A x \in InPool(h)' :
          x \in out' /\ h = Restorer(x) /\ Sent(h, x)' /\ (mem'[x] # "back" \/ x \in counted')
    <3>1. \A h \in {"READ", "DECOMP"} : \A x \in InPool(h) :
            x \in out /\ h = Restorer(x) /\ Sent(h, x) /\ (mem[x] # "back" \/ x \in counted)
      BY <1>0, Zenon DEF PoolInv
    <3>2. \A h \in {"READ", "DECOMP"} : InPool(h)' = InPool(h)
      BY <1>6 DEF Groups
    <3> QED
      BY <1>1, <1>2, <3>1, <3>2, Zenon
  <2>4. \A h \in {"READ", "DECOMP"} : Queued(h)' \cap counted' = {}
    BY <1>0, <1>1, <1>5, <1>6, Zenon DEF PoolInv, Groups
  <2>5. ASSUME NEW h \in {"ALLOC", "READ", "DECOMP"}
        PROVE  /\ \A k, n \in DOMAIN queue'[h] : queue'[h][k] = queue'[h][n] => k = n
               /\ Queued(h)' \cap running'[h] = {}
    <3>1. /\ \A k, n \in DOMAIN queue[h] : queue[h][k] = queue[h][n] => k = n
          /\ Queued(h) \cap running[h] = {}
      BY <1>0, Zenon DEF PoolInv
    <3>2. CASE h = g
      BY <1>4, <1>5, <3>1, <3>2, Zenon
    <3>3. CASE h # g
      <4>1. h \in Groups
        BY DEF Groups
      <4>2. queue'[h] = queue[h] /\ running'[h] = running[h] /\ Queued(h)' = Queued(h)
        BY <1>4, <1>6, <3>3, <4>1, Zenon
      <4> QED
        BY <3>1, <4>2, Zenon
    <3> QED
      BY <3>2, <3>3, Zenon
  <2>6. \A x \in InPool("FREE")' : Compressed(x[2])' = {}
    BY <1>0, <1>6, <1>7, Zenon DEF PoolInv, Groups
  <2> QED
    BY <1>1, <2>1, <2>2, <2>3, <2>4, <2>5, <2>6, Zenon DEF PoolInv, Restorer
<1>10. DataInv'
  <2>1. \A x \in out : Restorer(x) \in Groups
    BY DEF Restorer, Groups
  <2>2. \A h \in Groups : running[h] \subseteq running'[h]
    BY <1>4
  <2>3. \A x \in counted : mem[x] = "back" /\ x \in running'[Restorer(x)]
    BY <1>0, <2>1, <2>2, Zenon DEF DataInv, TypeOK
  <2> QED
    BY <1>0, <1>1, <1>2, <2>3, Zenon DEF DataInv, Restorer
<1>11. CountInv'
  <2>1. sync' = sync /\ compLeft' = compLeft /\ arenas' = arenas
    BY <1>1
  <2> QED
    BY <1>0, <1>2, <1>7, <2>1, Zenon DEF CountInv
<1>12. StageInv'
  <2>1. ~Passed("FREE")
    BY <1>0, <1>3 DEF StageInv, Idle
  <2>2. Missing' = Missing
    BY <1>1 DEF Missing
  <2> QED
    BY <1>0, <1>1, <1>2, <2>1, <2>2, Zenon DEF StageInv
<1> QED
  BY <1>8, <1>9, <1>10, <1>11, <1>12 DEF Consistent, IInv

\* An allocation task gives a piece its memory back, once.
LEMMA AllocStep ==
    ASSUME Consistent, NEW x \in running["ALLOC"], RunAlloc(x)
    PROVE  Consistent' /\ Missing' = Missing
<1>0. TypeOK /\ PoolInv /\ DataInv /\ CountInv /\ StageInv
  BY DEF Consistent, IInv
<1>1. /\ mem' = [mem EXCEPT ![x] = "alloc"]
      /\ granted' = granted \cup {x}
      /\ running' = [running EXCEPT !["ALLOC"] = running["ALLOC"] \ {x}]
      /\ UNCHANGED <<flow, out, pc, todo, decode, layer, graph, sync, compLeft, arenas,
                     promises, queue, counted>>
  BY DEF RunAlloc, mainVars, decodeVars
<1>2. /\ \A h, y : Sent(h, y)' <=> Sent(h, y)
      /\ \A s : Passed(s)' <=> Passed(s)
      /\ Stage' = Stage
      /\ JobsOf(Stage)' = JobsOf(Stage)
      /\ StageOf(flow, pc - 1)' = StageOf(flow, pc - 1)
  BY <1>1, MainFrame, Zenon
<1>3. x \in promises /\ x \notin granted /\ x \in out /\ x \in Pieces /\ mem[x] = "gone"
      /\ x \notin Queued("ALLOC")
  BY <1>0, Zenon DEF PoolInv, DataInv, TypeOK, InPool
<1>4. /\ mem' \in [Pieces -> {"gone", "alloc", "back"}]
      /\ mem'[x] = "alloc" /\ \A y \in Pieces : y # x => mem'[y] = mem[y]
  BY <1>0, <1>1, <1>3 DEF TypeOK
<1>5. /\ running' \in [Groups -> SUBSET Tasks]
      /\ running'["ALLOC"] = running["ALLOC"] \ {x}
      /\ \A g \in Groups : g # "ALLOC" => running'[g] = running[g]
  BY <1>0, <1>1, Zenon DEF TypeOK, Groups
<1>6. Missing' = Missing
  BY <1>3, <1>4 DEF Missing
<1>7. /\ \A y \in out : mem'[y] = "back" <=> mem[y] = "back"
      /\ \A y \in Pieces \ out : mem'[y] = mem[y]
  BY <1>0, <1>3, <1>4 DEF TypeOK
<1>8. \A i : Compressed(i)' = Compressed(i) /\ Unfinished(i)' = Unfinished(i)
  BY <1>1, <1>7, Zenon DEF Compressed, Unfinished
<1>9. /\ \A g : Queued(g)' = Queued(g)
      /\ InPool("ALLOC")' = InPool("ALLOC") \ {x}
      /\ \A g \in Groups : g # "ALLOC" => InPool(g)' = InPool(g)
  BY <1>1, <1>3, <1>5 DEF Queued, InPool
<1>10. TypeOK'
  <2>1. granted' \subseteq promises'
    BY <1>0, <1>1, <1>3, Zenon DEF TypeOK
  <2> QED
    BY <1>0, <1>1, <1>2, <1>4, <1>5, <2>1 DEF TypeOK
<1>11. PoolInv'
  <2>1. \A y \in out : <<"ALLOC", y>> \in todo' /\ Enqueues(Stage', Restorer(y), y[1])
                       => <<Restorer(y), y>> \in todo'
    BY <1>0, <1>1, <1>2, Zenon DEF PoolInv
  <2>2. \A y \in InPool("ALLOC")' : y \in promises' \ granted'
    BY <1>0, <1>1, <1>9, Zenon DEF PoolInv
  <2>3. \A h \in {"READ", "DECOMP"} : \A y \in InPool(h)' :
          y \in out' /\ h = Restorer(y) /\ Sent(h, y)' /\ (mem'[y] # "back" \/ y \in counted')
    BY <1>0, <1>1, <1>2, <1>7, <1>9 DEF PoolInv, Groups
  <2>4. \A h \in {"READ", "DECOMP"} : Queued(h)' \cap counted' = {}
    BY <1>0, <1>1, <1>9, Zenon DEF PoolInv
  <2>5. \A h \in {"ALLOC", "READ", "DECOMP"} :
          /\ \A k, n \in DOMAIN queue'[h] : queue'[h][k] = queue'[h][n] => k = n
          /\ Queued(h)' \cap running'[h] = {}
    BY <1>0, <1>1, <1>5, <1>9 DEF PoolInv, Groups
  <2>6. \A y \in InPool("FREE")' : Compressed(y[2])' = {}
    BY <1>0, <1>8, <1>9, ZenonT(40) DEF PoolInv, Groups
  <2> QED
    BY <1>1, <2>1, <2>2, <2>3, <2>4, <2>5, <2>6, Zenon DEF PoolInv, Restorer
<1>12. DataInv'
  <2>1. \A y \in out : mem'[y] = "gone" <=> y \notin granted'
    BY <1>0, <1>1, <1>3, <1>4, Zenon DEF DataInv, TypeOK
  <2>2. \A y \in counted : y \in running'[Restorer(y)]
    BY <1>0, <1>5, Zenon DEF DataInv, Restorer, Groups
  <2>3. \A y \in counted : mem'[y] = "back"
    BY <1>0, <1>7, Zenon DEF DataInv, TypeOK
  <2> QED
    BY <1>0, <1>1, <1>2, <1>7, <2>1, <2>2, <2>3, Zenon DEF DataInv, Restorer
<1>13. CountInv'
  <2>1. sync' = sync /\ compLeft' = compLeft /\ arenas' = arenas
    BY <1>1
  <2> QED
    BY <1>0, <1>2, <1>8, <2>1, Zenon DEF CountInv
<1>14. StageInv'
  <2>1. ~Passed("FREE")
    BY <1>0 DEF StageInv, Idle, Groups
  <2> QED
    BY <1>0, <1>1, <1>2, <1>6, <2>1, Zenon DEF StageInv
<1> QED
  BY <1>6, <1>10, <1>11, <1>12, <1>13, <1>14 DEF Consistent, IInv

-----------------------------------------------------------------------------
(* The work of the READ, DECOMP and FREE groups.                           *)

\* A READ or DECOMP task that has not done its work yet, and may.
LEMMA AtWork ==
    ASSUME Consistent, NEW g \in {"READ", "DECOMP"}, NEW x \in running[g],
           x \notin counted
    PROVE  /\ x \in out /\ x \in Pieces /\ g = Restorer(x) /\ Sent(g, x) /\ mem[x] # "back"
           /\ x[2] \in Layers
           /\ x \notin Queued("READ") /\ x \notin Queued("DECOMP")
           /\ Passed("initialize_layer_sync") /\ Passed("reload_all_arenas")
           /\ ~Passed("wait_syncs") /\ ~Passed("FREE")
<1>0. TypeOK /\ PoolInv /\ DataInv /\ StageInv
  BY Zenon DEF Consistent, IInv
<1>1. x \in out /\ g = Restorer(x) /\ Sent(g, x) /\ mem[x] # "back"
  BY <1>0, Zenon DEF PoolInv, InPool
<1>2. x \in Pieces /\ x[2] \in Layers
  BY <1>0, <1>1, Parts DEF TypeOK
<1>3. x \notin Queued("READ") /\ x \notin Queued("DECOMP")
  BY <1>0, <1>1, Zenon DEF PoolInv, InPool
<1>4. Passed("initialize_layer_sync") /\ Passed("reload_all_arenas")
  BY <1>0, <1>1, SentWhen, Zenon
<1>5. ~Passed("wait_syncs")
  BY <1>0, <1>1, <1>2, Zenon DEF StageInv, Missing
<1>6. ~Passed("FREE")
  BY <1>0, Zenon DEF StageInv, Idle, Groups
<1> QED
  BY <1>1, <1>2, <1>3, <1>4, <1>5, <1>6, Zenon

\* A READ or DECOMP task that does its work brings the piece back.
LEMMA WorkKeeps ==
    ASSUME Consistent, NEW g \in {"READ", "DECOMP"}, NEW x \in running[g],
           x \notin counted, x \in granted,
           mem' = [mem EXCEPT ![x] = "back"], counted' = counted \cup {x},
           UNCHANGED <<flow, out, pc, todo, decode, layer, graph, arenas, promises,
                       granted, running>>,
           \A h \in {"ALLOC", "READ", "DECOMP"} : queue'[h] = queue[h],
           queue' \in [Groups -> Seq(Tasks)], compLeft' \in [Layers -> Int], sync' = sync,
           \A y \in InPool("FREE")' : Compressed(y[2])' = {}
    PROVE  /\ TypeOK' /\ PoolInv' /\ DataInv' /\ StageInv'
           /\ \A i : /\ Unfinished(i)' = Unfinished(i)
                     /\ Compressed(i)' = Compressed(i) \ {x}
           /\ Missing' = Missing \ {x}
           /\ \A s : Passed(s)' <=> Passed(s)
<1>0. TypeOK /\ PoolInv /\ DataInv /\ CountInv /\ StageInv
  BY Zenon DEF Consistent, IInv
<1>1. /\ x \in out /\ x \in Pieces /\ g = Restorer(x) /\ Sent(g, x) /\ mem[x] # "back"
      /\ x \notin Queued("READ") /\ x \notin Queued("DECOMP")
      /\ ~Passed("wait_syncs") /\ ~Passed("FREE")
  BY AtWork, Zenon
<1>2. /\ \A h, y : Sent(h, y)' <=> Sent(h, y)
      /\ \A s : Passed(s)' <=> Passed(s)
      /\ Stage' = Stage
      /\ JobsOf(Stage)' = JobsOf(Stage)
      /\ StageOf(flow, pc - 1)' = StageOf(flow, pc - 1)
  BY MainFrame, Zenon
<1>3. /\ mem' \in [Pieces -> {"gone", "alloc", "back"}]
      /\ mem'[x] = "back" /\ \A y \in Pieces : y # x => mem'[y] = mem[y]
  BY <1>0, <1>1, Zenon DEF TypeOK
<1>4. Missing' = Missing \ {x}
  BY <1>3, Zenon DEF Missing
<1>5. \A i : Unfinished(i)' = Unfinished(i) /\ Compressed(i)' = Compressed(i) \ {x}
  <2>1. \A y \in out : y # x => mem'[y] = mem[y]
    BY <1>0, <1>3, Zenon DEF TypeOK
  <2>2. \A y : y \in counted' <=> y \in counted \/ y = x
    OBVIOUS
  <2> QED
    BY <1>1, <1>3, <2>1, <2>2 DEF Unfinished, Compressed
<1>6. TypeOK'
  <2>1. counted' \subseteq out'
    BY <1>0, <1>1, Zenon DEF TypeOK
  <2> QED
    BY <1>0, <1>2, <1>3, <2>1 DEF TypeOK
<1>7. \A h \in {"ALLOC", "READ", "DECOMP"} :
        Queued(h)' = Queued(h) /\ InPool(h)' = InPool(h)
  BY Zenon DEF Queued, InPool
<1>8. PoolInv'
  <2>1. \A y \in out : <<"ALLOC", y>> \in todo' /\ Enqueues(Stage', Restorer(y), y[1])
                       => <<Restorer(y), y>> \in todo'
    BY <1>0, <1>2, Zenon DEF PoolInv
  <2>2. \A y \in InPool("ALLOC")' : y \in promises' \ granted'
    BY <1>0, <1>7, Zenon DEF PoolInv
  <2>3. ASSUME NEW h \in {"READ", "DECOMP"}, NEW y \in InPool(h)'
        PROVE  y \in out' /\ h = Restorer(y) /\ Sent(h, y)' /\ (mem'[y] # "back" \/ y \in counted')
    <3>1. y \in out /\ h = Restorer(y) /\ Sent(h, y) /\ (mem[y] # "back" \/ y \in counted)
      <4>1. y \in InPool(h)
        BY <1>7, Zenon
      <4> QED
        BY <1>0, <4>1, Zenon DEF PoolInv
    <3>2. y \in Pieces
      BY <1>0, <3>1, Zenon DEF TypeOK
    <3> QED
      BY <1>2, <1>3, <3>1, <3>2, Zenon
  <2>4. \A h \in {"READ", "DECOMP"} : Queued(h)' \cap counted' = {}
    <3>1. \A h \in {"READ", "DECOMP"} : Queued(h) \cap counted = {}
      BY <1>0, Zenon DEF PoolInv
    <3>2. \A h \in {"READ", "DECOMP"} : Queued(h)' = Queued(h) /\ x \notin Queued(h)
      BY <1>1, <1>7, Zenon
    <3> QED
      BY <3>1, <3>2, Zenon
  <2>5. \A h \in {"ALLOC", "READ", "DECOMP"} :
          /\ \A k, n \in DOMAIN queue'[h] : queue'[h][k] = queue'[h][n] => k = n
          /\ Queued(h)' \cap running'[h] = {}
    BY <1>0, <1>7, Zenon DEF PoolInv
  <2> QED
    BY <2>1, <2>2, <2>3, <2>4, <2>5, ZenonT(30) DEF PoolInv, Restorer
<1>9. DataInv'
  <2>1. \A y \in out : mem'[y] = "gone" <=> y \notin granted
    BY <1>0, <1>3, Zenon DEF DataInv, TypeOK
  <2>2. \A y \in out : mem'[y] = "back" => Sent(Restorer(y), y)'
    BY <1>0, <1>1, <1>2, <1>3 DEF DataInv, TypeOK
  <2>3. \A y \in Pieces \ out : mem'[y] = "back"
    BY <1>0, <1>1, <1>3, Zenon DEF DataInv
  <2>4. \A y \in counted' : mem'[y] = "back" /\ y \in running[Restorer(y)]
    BY <1>0, <1>1, <1>3, ZenonT(40) DEF DataInv, TypeOK
  <2> QED
    BY <1>0, <1>2, <2>1, <2>2, <2>3, <2>4, Zenon DEF DataInv, Restorer
<1>10. StageInv'
  <2>1. decode' = decode /\ layer' = layer /\ graph' = graph /\ arenas' = arenas
    OBVIOUS
  <2> QED
    BY <1>0, <1>1, <1>2, <2>1 DEF StageInv
<1> QED
  BY <1>2, <1>4, <1>5, <1>6, <1>8, <1>9, <1>10, Zenon

\* A READ task restores a stored chunk or the weights of a layer.
LEMMA ReadStep ==
    ASSUME Consistent, NEW x \in running["READ"], RunRead(x)
    PROVE  Consistent' /\ Missing' = Missing \ {x}
<1>0. TypeOK /\ PoolInv /\ CountInv
  BY DEF Consistent, IInv
<1>1. /\ x \notin counted /\ x \in granted
      /\ mem' = [mem EXCEPT ![x] = "back"] /\ counted' = counted \cup {x}
      /\ UNCHANGED <<flow, out, pc, todo, decode, layer, graph, sync, compLeft, arenas,
                     promises, granted, queue, running>>
  BY Zenon DEF RunRead, mainVars, decodeVars
<1>2. x \in Pieces /\ "READ" = Restorer(x)
  BY <1>1, AtWork, Zenon
<1>3. \A i : Compressed(i)' = Compressed(i)
  <2>1. x[1] # "decomp"
    BY <1>2 DEF Restorer
  <2>2. \A y \in out : y # x => mem'[y] = mem[y]
    BY <1>0, <1>1, Zenon DEF TypeOK
  <2> QED
    BY <1>1, <2>1, <2>2, Zenon DEF Compressed
<1>4. /\ queue' \in [Groups -> Seq(Tasks)] /\ compLeft' \in [Layers -> Int]
      /\ \A y \in InPool("FREE")' : Compressed(y[2])' = {}
  <2>1. InPool("FREE")' = InPool("FREE")
    BY <1>1, Zenon DEF InPool, Queued
  <2> QED
    BY <1>0, <1>1, <1>3, <2>1, Zenon DEF TypeOK, PoolInv
<1>5. /\ TypeOK' /\ PoolInv' /\ DataInv' /\ StageInv'
      /\ \A i : Unfinished(i)' = Unfinished(i)
      /\ Missing' = Missing \ {x}
      /\ \A s : Passed(s)' <=> Passed(s)
  BY <1>1, <1>4, WorkKeeps, Zenon
<1>6. CountInv'
  <2>1. sync' = sync /\ compLeft' = compLeft /\ arenas' = arenas
    BY <1>1, Zenon
  <2> QED
    BY <1>0, <1>3, <1>5, <2>1, Zenon DEF CountInv
<1> QED
  BY <1>5, <1>6, Zenon DEF Consistent, IInv

\* A DECOMP task restores a compressed chunk; the layer's last one, and no
\* other, hands the layer's arenas to the FREE group.
LEMMA DecompStep ==
    ASSUME SizeLaw, Consistent, NEW x \in running["DECOMP"], RunDecomp(x)
    PROVE  Consistent' /\ Missing' = Missing \ {x}
<1>0. TypeOK /\ PoolInv /\ CountInv
  BY DEF Consistent, IInv
<1>1. /\ x \notin counted /\ x \in granted
      /\ mem' = [mem EXCEPT ![x] = "back"] /\ counted' = counted \cup {x}
      /\ compLeft' = [compLeft EXCEPT ![x[2]] = compLeft[x[2]] - 1]
      /\ UNCHANGED <<flow, out, pc, todo, decode, layer, graph, sync, arenas,
                     promises, granted, running>>
  BY Zenon DEF RunDecomp, mainVars, decodeVars
<1> DEFINE e == <<"free", x[2], 0>>
<1>2. /\ LastOfLayer(x[2]) => queue' = [queue EXCEPT !["FREE"] = Append(queue["FREE"], e)]
      /\ ~LastOfLayer(x[2]) => queue' = queue
  BY Zenon DEF RunDecomp
<1>3. /\ x \in out /\ x \in Pieces /\ x[2] \in Layers /\ "DECOMP" = Restorer(x)
      /\ mem[x] # "back" /\ Passed("initialize_layer_sync")
  BY <1>1, AtWork, Zenon
<1>4. x[1] = "decomp" /\ x \in Compressed(x[2])
  BY <1>3 DEF Restorer, Compressed
<1>5. \A y \in out : mem'[y] = IF y = x THEN "back" ELSE mem[y]
  BY <1>0, <1>1, Zenon DEF TypeOK
<1>6. /\ Compressed(x[2])' = Compressed(x[2]) \ {x}
      /\ \A i : i # x[2] => Compressed(i)' = Compressed(i)
  BY <1>1, <1>5, Zenon DEF Compressed
<1>7. /\ compLeft[x[2]] = Cardinality(Compressed(x[2]))
      /\ Cardinality(Compressed(x[2])') = compLeft[x[2]] - 1
      /\ Cardinality(Compressed(x[2])') = 0 <=> Compressed(x[2])' = {}
  <2>1. compLeft[x[2]] = Cardinality(Compressed(x[2]))
    BY <1>0, <1>3, Zenon DEF CountInv
  <2>2. Compressed(x[2]) \in SUBSET Pieces
    BY <1>0, CountedSets, Zenon
  <2>3. Compressed(x[2])' \in SUBSET Pieces
    BY <1>6, <2>2, Zenon
  <2> QED
    BY <1>4, <1>6, <2>1, <2>2, <2>3 DEF SizeLaw
<1>8. LastOfLayer(x[2]) => Compressed(x[2])' = {}
  BY <1>7 DEF LastOfLayer
<1>9. e \in Tasks /\ e[2] = x[2] /\ queue["FREE"] \in Seq(Tasks)
  BY <1>0, <1>3, Zenon DEF Tasks, TypeOK, Groups
<1> HIDE DEF e
<1>10. /\ \A h \in {"ALLOC", "READ", "DECOMP"} : queue'[h] = queue[h]
       /\ queue' \in [Groups -> Seq(Tasks)]
       /\ Queued("FREE")' \subseteq Queued("FREE") \cup {e}
       /\ ~LastOfLayer(x[2]) => Queued("FREE")' = Queued("FREE")
  <2>1. CASE LastOfLayer(x[2])
    <3>1. queue' = [queue EXCEPT !["FREE"] = Append(queue["FREE"], e)]
      BY <1>2, <2>1, Zenon
    <3>2. /\ queue'["FREE"] = Append(queue["FREE"], e)
          /\ \A h \in {"ALLOC", "READ", "DECOMP"} : queue'[h] = queue[h]
      BY <1>0, <3>1 DEF TypeOK, Groups
    <3>3. queue'["FREE"] \in Seq(Tasks)
      BY <1>9, <3>2
    <3>4. queue' \in [Groups -> Seq(Tasks)]
      BY <1>0, <3>1, <3>2, <3>3, Zenon DEF TypeOK
    <3>5. Queued("FREE")' = Queued("FREE") \cup {e}
      <4> DEFINE s == queue["FREE"]
                 t == queue'["FREE"]
      <4>1. s \in Seq(Tasks) /\ e \in Tasks /\ t = Append(s, e)
        BY <1>9, <3>2, Zenon
      <4>2. {t[k] : k \in DOMAIN t} = {s[k] : k \in DOMAIN s} \cup {e}
        <5> HIDE DEF s, t
        <5> QED
          BY <4>1, QueueAppend
      <4> QED
        BY <4>2, Zenon DEF Queued
    <3> QED
      BY <2>1, <3>2, <3>4, <3>5, Zenon
  <2>2. CASE ~LastOfLayer(x[2])
    BY <1>0, <1>2, <2>2, Zenon DEF TypeOK, Queued
  <2> QED
    BY <2>1, <2>2, Zenon
<1>11. \A y \in InPool("FREE")' : Compressed(y[2])' = {}
  <2>1. InPool("FREE")' \subseteq InPool("FREE") \cup {e}
        /\ (~LastOfLayer(x[2]) => InPool("FREE")' = InPool("FREE"))
    BY <1>1, <1>10, Zenon DEF InPool
  <2>2. \A y \in InPool("FREE") : Compressed(y[2])' = {}
    BY <1>0, <1>6, Zenon DEF PoolInv
  <2> QED
    BY <1>8, <1>9, <2>1, <2>2, Zenon
<1>12. compLeft' \in [Layers -> Int]
  BY <1>0, <1>1, <1>3 DEF TypeOK
<1>13. /\ TypeOK' /\ PoolInv' /\ DataInv' /\ StageInv'
       /\ \A i : Unfinished(i)' = Unfinished(i)
       /\ Missing' = Missing \ {x}
       /\ \A s : Passed(s)' <=> Passed(s)
  BY <1>1, <1>10, <1>11, <1>12, WorkKeeps, Zenon
<1>14. CountInv'
  <2>1. sync' = sync /\ arenas' = arenas
    BY <1>1, Zenon
  <2>2. \A i \in Layers : compLeft'[i] = Cardinality(Compressed(i))'
    <3>1. ASSUME NEW i \in Layers PROVE compLeft'[i] = Cardinality(Compressed(i)')
      <4>1. compLeft[i] = Cardinality(Compressed(i))
        BY <1>0, <1>3, Zenon DEF CountInv
      <4>2. compLeft'[i] = IF i = x[2] THEN compLeft[i] - 1 ELSE compLeft[i]
        BY <1>0, <1>1, <1>3, Zenon DEF TypeOK
      <4>3. CASE i = x[2]
        BY <1>7, <4>2, <4>3, Zenon
      <4>4. CASE i # x[2]
        BY <1>6, <4>1, <4>2, <4>4, Zenon
      <4> QED
        BY <4>3, <4>4
    <3> QED
      BY <3>1
  <2>3. \A i \in Layers : Compressed(i)' # {} => Compressed(i) # {}
    BY <1>4, <1>6, Zenon
  <2> QED
    BY <1>0, <1>13, <2>1, <2>2, <2>3, Zenon DEF CountInv
<1> QED
  BY <1>13, <1>14, Zenon DEF Consistent, IInv

\* taskDone() counts a layer down for a piece that is back.
LEMMA DoneStep ==
    ASSUME SizeLaw, Consistent, NEW g \in {"READ", "DECOMP"}, NEW x \in running[g],
           TaskDone(g, x)
    PROVE  Consistent' /\ Missing' = Missing
<1>0. TypeOK /\ PoolInv /\ DataInv /\ CountInv /\ StageInv
  BY DEF Consistent, IInv
<1>1. /\ x \in counted /\ counted' = counted \ {x}
      /\ running' = [running EXCEPT ![g] = running[g] \ {x}]
      /\ sync' = [sync EXCEPT ![x[2]] = sync[x[2]] - 1]
      /\ UNCHANGED <<flow, out, pc, todo, decode, layer, graph, compLeft, mem, arenas,
                     promises, granted, queue>>
  BY DEF TaskDone, CountDown, mainVars, decodeVars, dataVars
<1>2. /\ \A h, y : Sent(h, y)' <=> Sent(h, y)
      /\ \A s : Passed(s)' <=> Passed(s)
      /\ Stage' = Stage
      /\ JobsOf(Stage)' = JobsOf(Stage)
      /\ StageOf(flow, pc - 1)' = StageOf(flow, pc - 1)
  BY <1>1, MainFrame, Zenon
<1>3. x \in out /\ g = Restorer(x) /\ Sent(g, x) /\ mem[x] = "back" /\ x \notin Queued(g)
  BY <1>0, <1>1, Zenon DEF PoolInv, DataInv, InPool
<1>4. x[2] \in Layers /\ Passed("initialize_layer_sync")
  BY <1>0, <1>3, Parts, SentWhen, Zenon DEF TypeOK
<1>5. /\ sync \in [Layers -> Int] /\ sync' \in [Layers -> Int]
      /\ \A i \in Layers : sync'[i] = IF i = x[2] THEN sync[i] - 1 ELSE sync[i]
  <2>1. sync \in [Layers -> Int]
    BY <1>0, <1>4, Zenon DEF CountInv
  <2> QED
    BY <1>1, <1>4, <2>1
<1>6. /\ running' \in [Groups -> SUBSET Tasks]
      /\ running'[g] = running[g] \ {x}
      /\ \A h \in Groups : h # g => running'[h] = running[h]
  BY <1>0, <1>1, Zenon DEF TypeOK, Groups
<1>7. /\ x \in Unfinished(x[2])
      /\ Unfinished(x[2])' = Unfinished(x[2]) \ {x}
      /\ \A i : i # x[2] => Unfinished(i)' = Unfinished(i)
      /\ \A i : Compressed(i)' = Compressed(i)
  BY <1>1, <1>3, Zenon DEF Unfinished, Compressed
<1>8. Missing' = Missing
  BY <1>1, Zenon DEF Missing
<1>9. /\ \A h : Queued(h)' = Queued(h)
      /\ InPool(g)' = InPool(g) \ {x}
      /\ \A h \in Groups : h # g => InPool(h)' = InPool(h)
  <2>1. \A h : Queued(h)' = Queued(h)
    BY <1>1, Zenon DEF Queued
  <2>2. InPool(g)' = InPool(g) \ {x}
    BY <1>3, <1>6, <2>1, Zenon DEF InPool
  <2>3. \A h \in Groups : h # g => InPool(h)' = InPool(h)
    BY <1>6, <2>1, Zenon DEF InPool
  <2> QED
    BY <2>1, <2>2, <2>3
<1>10. TypeOK'
  <2>1. counted' \subseteq out
    BY <1>0, <1>1, Zenon DEF TypeOK
  <2>2. JobsOf(Stage)' = JobsOf(Stage)
    BY <1>2, Zenon
  <2> QED
    BY <1>0, <1>1, <1>5, <1>6, <2>1, <2>2 DEF TypeOK
<1>11. PoolInv'
  <2>1. \A y \in out : <<"ALLOC", y>> \in todo' /\ Enqueues(Stage', Restorer(y), y[1])
                       => <<Restorer(y), y>> \in todo'
    BY <1>0, <1>1, <1>2, Zenon DEF PoolInv
  <2>2. \A y \in InPool("ALLOC")' : y \in promises' \ granted'
    BY <1>0, <1>1, <1>9, Zenon DEF PoolInv, Groups
  <2>3. ASSUME NEW h \in {"READ", "DECOMP"}, NEW y \in InPool(h)'
        PROVE  y \in out' /\ h = Restorer(y) /\ Sent(h, y)' /\ (mem'[y] # "back" \/ y \in counted')
    <3>1. y \in InPool(h) /\ (h = g => y # x)
      BY <1>9 DEF Groups
    <3>2. y \in out /\ h = Restorer(y) /\ Sent(h, y) /\ (mem[y] # "back" \/ y \in counted)
      BY <1>0, <3>1, Zenon DEF PoolInv
    <3>3. y # x
      BY <1>3, <3>1, <3>2
    <3> QED
      BY <1>1, <1>2, <3>2, <3>3, Zenon
  <2>4. \A h \in {"READ", "DECOMP"} : Queued(h)' \cap counted' = {}
    BY <1>0, <1>1, <1>9, Zenon DEF PoolInv
  <2>5. \A h \in {"ALLOC", "READ", "DECOMP"} :
          /\ \A k, n \in DOMAIN queue'[h] : queue'[h][k] = queue'[h][n] => k = n
          /\ Queued(h)' \cap running'[h] = {}
    <3>1. \A h \in {"ALLOC", "READ", "DECOMP"} :
            /\ \A k, n \in DOMAIN queue[h] : queue[h][k] = queue[h][n] => k = n
            /\ Queued(h) \cap running[h] = {}
      BY <1>0, Zenon DEF PoolInv
    <3>2. queue' = queue /\ \A h \in {"ALLOC", "READ", "DECOMP"} : running'[h] \subseteq running[h]
      BY <1>1, <1>6, Zenon DEF Groups
    <3>3. \A h \in {"ALLOC", "READ", "DECOMP"} : Queued(h)' = Queued(h)
      BY <1>9, Zenon
    <3> QED
      BY <3>1, <3>2, <3>3
  <2>6. \A y \in InPool("FREE")' : Compressed(y[2])' = {}
    BY <1>0, <1>7, <1>9, Zenon DEF PoolInv, Groups
  <2> QED
    BY <1>1, <2>1, <2>2, <2>3, <2>4, <2>5, <2>6, Zenon DEF PoolInv, Restorer
<1>12. DataInv'
  <2>1. \A y \in counted' : mem[y] = "back" /\ y \in running'[Restorer(y)]
    BY <1>0, <1>1, <1>6, Zenon DEF DataInv, Restorer, Groups
  <2> QED
    BY <1>0, <1>1, <1>2, <2>1, Zenon DEF DataInv, Restorer
<1>13. CountInv'
  <2>1. ASSUME NEW i \in Layers PROVE sync'[i] = Cardinality(Unfinished(i)')
    <3>1. sync[i] = Cardinality(Unfinished(i))
      BY <1>0, <1>4, Zenon DEF CountInv
    <3>2. CASE i = x[2]
      <4>1. Unfinished(i) \in SUBSET Pieces
        BY <1>0, CountedSets, Zenon
      <4>2. Cardinality(Unfinished(i) \ {x}) = Cardinality(Unfinished(i)) - 1
        BY <1>7, <3>2, <4>1, Zenon DEF SizeLaw
      <4> QED
        BY <1>5, <1>7, <3>1, <3>2, <4>2, Zenon
    <3>3. CASE i # x[2]
      BY <1>5, <1>7, <3>1, <3>3, Zenon
    <3> QED
      BY <3>2, <3>3, Zenon
  <2>2. compLeft' = compLeft /\ arenas' = arenas
    BY <1>1
  <2>3. \A i \in Layers : sync'[i] = Cardinality(Unfinished(i))'
    BY <2>1
  <2> QED
    BY <1>0, <1>2, <1>5, <1>7, <2>2, <2>3, Zenon DEF CountInv
<1>14. StageInv'
  <2>1. ~Passed("FREE") /\ ~Passed("wait_syncs")
    BY <1>0, <1>1, Zenon DEF StageInv, Idle, Groups
  <2>2. decode' = decode /\ layer' = layer /\ graph' = graph /\ arenas' = arenas
    BY <1>1, Zenon
  <2> QED
    BY <1>0, <1>2, <2>1, <2>2, Zenon DEF StageInv
<1> QED
  BY <1>8, <1>10, <1>11, <1>12, <1>13, <1>14, Zenon DEF Consistent, IInv

\* free_layer_arenas frees arenas that no compressed chunk needs.
LEMMA FreeStep ==
    ASSUME Consistent, NEW x \in running["FREE"], RunFree(x)
    PROVE  Consistent' /\ Missing' = Missing
<1>0. TypeOK /\ PoolInv /\ DataInv /\ CountInv /\ StageInv
  BY DEF Consistent, IInv
<1>1. /\ arenas' = arenas \ {x[2]}
      /\ running' = [running EXCEPT !["FREE"] = running["FREE"] \ {x}]
      /\ UNCHANGED <<flow, out, pc, todo, decode, layer, graph, sync, compLeft, mem,
                     promises, granted, queue, counted>>
  BY DEF RunFree, mainVars, decodeVars
<1>2. /\ \A h, y : Sent(h, y)' <=> Sent(h, y)
      /\ \A s : Passed(s)' <=> Passed(s)
      /\ Stage' = Stage
      /\ JobsOf(Stage)' = JobsOf(Stage)
      /\ StageOf(flow, pc - 1)' = StageOf(flow, pc - 1)
  BY <1>1, MainFrame, Zenon
<1>3. Compressed(x[2]) = {}
  BY <1>0, Zenon DEF PoolInv, InPool
<1>4. /\ running' \in [Groups -> SUBSET Tasks]
      /\ running'["FREE"] = running["FREE"] \ {x}
      /\ \A h \in Groups : h # "FREE" => running'[h] = running[h]
  BY <1>0, <1>1, Zenon DEF TypeOK, Groups
<1>5. /\ \A i : Compressed(i)' = Compressed(i) /\ Unfinished(i)' = Unfinished(i)
      /\ Missing' = Missing
  BY <1>1, Zenon DEF Compressed, Unfinished, Missing
<1>6. /\ \A h : Queued(h)' = Queued(h)
      /\ InPool("FREE")' \subseteq InPool("FREE")
      /\ \A h \in {"ALLOC", "READ", "DECOMP"} : InPool(h)' = InPool(h)
  BY <1>1, <1>4, Zenon DEF Queued, InPool, Groups
<1>7. TypeOK'
  BY <1>0, <1>1, <1>2, <1>4, Zenon DEF TypeOK
<1>8. PoolInv'
  <2>1. \A y \in out : <<"ALLOC", y>> \in todo' /\ Enqueues(Stage', Restorer(y), y[1])
                       => <<Restorer(y), y>> \in todo'
    BY <1>0, <1>1, <1>2, Zenon DEF PoolInv
  <2>2. \A y \in InPool("ALLOC")' : y \in promises' \ granted'
    BY <1>0, <1>1, <1>6, Zenon DEF PoolInv
  <2>3. ASSUME NEW h \in {"READ", "DECOMP"}, NEW y \in InPool(h)'
        PROVE  y \in out' /\ h = Restorer(y) /\ Sent(h, y)' /\ (mem'[y] # "back" \/ y \in counted')
    <3>1. y \in InPool(h)
      BY <1>6, Zenon
    <3>2. y \in out /\ h = Restorer(y) /\ Sent(h, y) /\ (mem[y] # "back" \/ y \in counted)
      BY <1>0, <3>1, Zenon DEF PoolInv
    <3> QED
      BY <1>1, <1>2, <3>2, Zenon
  <2>4. \A h \in {"READ", "DECOMP"} : Queued(h)' \cap counted' = {}
    BY <1>0, <1>1, <1>6, Zenon DEF PoolInv
  <2>5. \A h \in {"ALLOC", "READ", "DECOMP"} :
          /\ \A k, n \in DOMAIN queue'[h] : queue'[h][k] = queue'[h][n] => k = n
          /\ Queued(h)' \cap running'[h] = {}
    <3>1. \A h \in {"ALLOC", "READ", "DECOMP"} :
            /\ \A k, n \in DOMAIN queue[h] : queue[h][k] = queue[h][n] => k = n
            /\ Queued(h) \cap running[h] = {}
      BY <1>0, Zenon DEF PoolInv
    <3>2. queue' = queue /\ \A h \in {"ALLOC", "READ", "DECOMP"} : running'[h] \subseteq running[h]
      BY <1>1, <1>4, Zenon DEF Groups
    <3>3. \A h \in {"ALLOC", "READ", "DECOMP"} : Queued(h)' = Queued(h)
      BY <1>6, Zenon
    <3> QED
      BY <3>1, <3>2, <3>3
  <2>6. \A y \in InPool("FREE")' : Compressed(y[2])' = {}
    BY <1>0, <1>5, <1>6, Zenon DEF PoolInv
  <2> QED
    BY <1>1, <2>1, <2>2, <2>3, <2>4, <2>5, <2>6, Zenon DEF PoolInv, Restorer
<1>9. DataInv'
  <2>1. \A y \in counted : mem[y] = "back" /\ y \in running'[Restorer(y)]
    BY <1>0, <1>4, Zenon DEF DataInv, Restorer, Groups
  <2> QED
    BY <1>0, <1>1, <1>2, <2>1, Zenon DEF DataInv, Restorer
<1>10. CountInv'
  <2>1. sync' = sync /\ compLeft' = compLeft
    BY <1>1
  <2> QED
    BY <1>0, <1>1, <1>2, <1>3, <1>5, <2>1, Zenon DEF CountInv
<1>11. StageInv'
  <2>1. ~Passed("FREE")
    BY <1>0, Zenon DEF StageInv, Idle, Groups
  <2> QED
    BY <1>0, <1>1, <1>2, <1>5, <2>1, Zenon DEF StageInv
<1> QED
  BY <1>5, <1>7, <1>8, <1>9, <1>10, <1>11, Zenon DEF Consistent, IInv

-----------------------------------------------------------------------------
(* The invariant and what follows from it.                                 *)

\* The initial states satisfy the invariant.
LEMMA InitConsistent ==
    ASSUME Init
    PROVE  Consistent
<1>1. /\ flow \in Flows /\ out \subseteq Pieces
      /\ pc = 1 /\ todo = {}
      /\ decode = "off" /\ layer = 0 /\ graph = FALSE
      /\ sync \in {<<>>, [i \in Layers |-> 0]}
      /\ compLeft = [i \in Layers |-> 0]
      /\ mem = [x \in Pieces |-> IF x \in out THEN "gone" ELSE "back"]
      /\ promises = {} /\ granted = {}
      /\ queue = [g \in Groups |-> <<>>]
      /\ running = [g \in Groups |-> {}] /\ counted = {}
  BY Zenon DEF Init, LastPieces
<1>2. arenas \subseteq Layers
  <2>1. arenas = {} \/ arenas = {x[2] : x \in {y \in out : y[1] = "decomp"}}
    BY Zenon DEF Init
  <2> QED
    BY <1>1, <2>1, Parts
<1>3. \A s : ~Passed(s)
  BY <1>1 DEF Passed, Before
<1>4. flow \in AllFlows /\ NumLayers \in Nat \ {0}
  BY <1>1, SwapInAssumption
<1>5. StageOf(flow, 1) \notin Loops
  <2>1. ~Before(flow, 1, "initialize_layer_sync")
    BY DEF Before
  <2> QED
    BY <1>4, <2>1, StagesPresent
<1>6. \A g, x : x \in out => ~Sent(g, x)
  <2>1. \A g, x : x \in out => ~Enqueues(StageOf(flow, 1), g, x[1])
    BY <1>1, <1>5, Parts, LoopsEnqueue, Zenon
  <2> QED
    <3>1. \A p \in 1 .. pc : p = 1
      BY <1>1
    <3> QED
      BY <2>1, <3>1, Zenon DEF Sent
<1>7. \A g \in Groups : queue[g] = <<>> /\ running[g] = {} /\ Queued(g) = {} /\ InPool(g) = {}
  <2>1. \A g \in Groups : queue[g] = <<>> /\ running[g] = {}
    BY <1>1
  <2>2. \A g \in Groups : Queued(g) = {}
    BY <2>1 DEF Queued
  <2> QED
    BY <2>1, <2>2, Zenon DEF InPool
<1>8. TypeOK
  <2>1. queue \in [Groups -> Seq(Tasks)] /\ running \in [Groups -> SUBSET Tasks]
    BY <1>1
  <2>2. sync = <<>> \/ sync \in [Layers -> Int]
    BY <1>1
  <2>3. mem \in [Pieces -> {"gone", "alloc", "back"}] /\ compLeft \in [Layers -> Int]
    BY <1>1
  <2>4. pc \in Nat \ {0} /\ layer \in 0 .. NumLayers
    BY <1>1, <1>4
  <2>5. /\ todo \subseteq JobsOf(Stage) /\ graph \in BOOLEAN
        /\ decode \in {"off", "start", "run", "done", "failed"}
        /\ promises \subseteq out /\ granted \subseteq promises /\ counted \subseteq out
        /\ flow \in Flows /\ out \subseteq Pieces
    BY <1>1, Zenon
  <2> QED
    BY <1>2, <2>1, <2>2, <2>3, <2>4, <2>5, Zenon DEF TypeOK
<1>9. PoolInv
  BY <1>1, <1>7 DEF PoolInv, Groups
<1>10. DataInv
  BY <1>1, <1>6 DEF DataInv
<1>11. CountInv
  BY <1>3, Zenon DEF CountInv
<1>12. StageInv
  BY <1>1, <1>3 DEF StageInv
<1> QED
  BY <1>8, <1>9, <1>10, <1>11, <1>12 DEF Consistent, IInv

\* A step that changes nothing keeps the invariant.
LEMMA StutterStep ==
    ASSUME Consistent, UNCHANGED vars
    PROVE  Consistent'
<1>0. TypeOK /\ PoolInv /\ DataInv /\ CountInv /\ StageInv
  BY DEF Consistent, IInv
<1>1. UNCHANGED <<flow, out, pc, todo, decode, layer, graph, sync, compLeft, mem, arenas,
                  promises, granted, queue, running, counted>>
  BY DEF vars, mainVars, decodeVars, dataVars, poolVars
<1>2. /\ \A g, x : Sent(g, x)' <=> Sent(g, x)
      /\ \A s : Passed(s)' <=> Passed(s)
      /\ Stage' = Stage
      /\ JobsOf(Stage)' = JobsOf(Stage)
      /\ StageOf(flow, pc - 1)' = StageOf(flow, pc - 1)
  BY <1>1, MainFrame, Zenon
<1>3. /\ \A g : InPool(g)' = InPool(g) /\ Queued(g)' = Queued(g) /\ (Idle(g)' <=> Idle(g))
      /\ \A i : Compressed(i)' = Compressed(i) /\ Unfinished(i)' = Unfinished(i)
      /\ Missing' = Missing
  BY <1>1, Zenon DEF InPool, Queued, Idle, Compressed, Unfinished, Missing
<1>4. TypeOK'
  BY <1>0, <1>1, <1>2, Zenon DEF TypeOK
<1>5. PoolInv'
  BY <1>0, <1>1, <1>2, <1>3, ZenonT(40) DEF PoolInv, Restorer
<1>6. DataInv'
  BY <1>0, <1>1, <1>2, Zenon DEF DataInv, Restorer
<1>7. CountInv'
  <2>1. sync' = sync /\ compLeft' = compLeft /\ arenas' = arenas
    BY <1>1
  <2> QED
    BY <1>0, <1>2, <1>3, <2>1, Zenon DEF CountInv
<1>8. StageInv'
  BY <1>0, <1>1, <1>2, <1>3, Zenon DEF StageInv
<1> QED
  BY <1>4, <1>5, <1>6, <1>7, <1>8 DEF Consistent, IInv

\* A step of a worker keeps the invariant, and brings back one piece at most.
LEMMA WorkerStep ==
    ASSUME SizeLaw, Consistent, NEW g \in Groups, Worker(g)
    PROVE  /\ Consistent'
           /\ Missing' = Missing \/ \E x \in Missing : Missing' = Missing \ {x}
           /\ UNCHANGED <<flow, pc, decode, layer>>
<1>1. CASE Take(g)
  <2>1. Consistent' /\ UNCHANGED <<flow, pc, decode, layer, mem>>
    <3>1. UNCHANGED <<flow, pc, decode, layer, mem>>
      BY <1>1, Zenon DEF Take, mainVars, decodeVars, dataVars
    <3> QED
      BY <1>1, <3>1, TakeStep
  <2> QED
    BY <2>1 DEF Missing
<1>2. CASE \E x \in running[g] : g = "ALLOC" /\ RunAlloc(x)
  <2>1. PICK x \in running["ALLOC"] : RunAlloc(x)
    BY <1>2
  <2>2. UNCHANGED <<flow, pc, decode, layer>>
    BY <2>1 DEF RunAlloc, mainVars, decodeVars
  <2>3. Consistent' /\ Missing' = Missing
    BY <2>1, AllocStep, Zenon
  <2> QED
    BY <2>2, <2>3
<1>3. CASE \E x \in running[g] : g \in {"READ", "DECOMP"} /\ TaskDone(g, x)
  <2>1. PICK x \in running[g] : TaskDone(g, x)
    BY <1>3
  <2>2. g \in {"READ", "DECOMP"}
    BY <1>3
  <2>3. Consistent' /\ Missing' = Missing
    BY <2>1, <2>2, DoneStep
  <2> QED
    BY <2>1, <2>3, Zenon DEF TaskDone, mainVars, decodeVars
<1>4. CASE \E x \in running[g] : g = "READ" /\ RunRead(x)
  <2>1. PICK x \in running["READ"] : RunRead(x)
    BY <1>4
  <2>2. x \notin counted /\ UNCHANGED <<flow, pc, decode, layer>>
    BY <2>1, Zenon DEF RunRead, mainVars, decodeVars
  <2>3. x \in Missing
    BY <2>2, AtWork, Zenon DEF Missing
  <2> QED
    BY <2>1, <2>2, <2>3, ReadStep, Zenon
<1>5. CASE \E x \in running[g] : g = "DECOMP" /\ RunDecomp(x)
  <2>1. PICK x \in running["DECOMP"] : RunDecomp(x)
    BY <1>5
  <2>2. x \notin counted /\ UNCHANGED <<flow, pc, decode, layer>>
    BY <2>1, Zenon DEF RunDecomp, mainVars, decodeVars
  <2>3. x \in Missing
    BY <2>2, AtWork, Zenon DEF Missing
  <2> QED
    BY <2>1, <2>2, <2>3, DecompStep, Zenon
<1>6. CASE \E x \in running[g] : g = "FREE" /\ RunFree(x)
  <2>1. PICK x \in running["FREE"] : RunFree(x)
    BY <1>6, Zenon
  <2>2. UNCHANGED <<flow, pc, decode, layer>>
    BY <2>1, Zenon DEF RunFree, mainVars, decodeVars
  <2>3. Consistent' /\ Missing' = Missing
    BY <2>1, FreeStep
  <2> QED
    BY <2>2, <2>3, Zenon
<1> QED
  BY <1>1, <1>2, <1>3, <1>4, <1>5, <1>6, Zenon DEF Worker

\* Every step keeps the invariant.
LEMMA NextConsistent ==
    ASSUME SizeLaw, Consistent, [Next]_vars
    PROVE  Consistent'
<1>1. CASE Main
  BY <1>1, InitializeStep, ReloadStep, AsyncStep, EnqueueStep, WaitStep, CleanStep, Zenon
     DEF Main
<1>2. CASE Decode
  BY <1>2, DecodeStep
<1>3. CASE \E g \in Groups : Worker(g)
  BY <1>3, WorkerStep
<1>4. CASE UNCHANGED vars
  BY <1>4, StutterStep
<1> QED
  BY <1>1, <1>2, <1>3, <1>4 DEF Next, Rest

\* The invariant gives each of the safety properties.
LEMMA ConsistentSafe ==
    ASSUME Consistent
    PROVE  /\ TypeOK /\ FuturesRegistered /\ ArenaPresent /\ GraphBeforeRestore
           /\ QuietAtClean /\ RestoredAtReturn
<1>0. TypeOK /\ PoolInv /\ DataInv /\ CountInv /\ StageInv
  BY DEF Consistent, IInv
<1>1. flow \in AllFlows /\ pc \in Nat \ {0}
  BY <1>0, SwapInAssumption, Zenon DEF TypeOK
<1>2. FuturesRegistered
  <2>1. ASSUME NEW g \in {"READ", "DECOMP"}, NEW x \in running[g]
        PROVE  x \in promises
    <3>1. x \in out /\ Sent(Restorer(x), x)
      <4>1. x \in InPool(g)
        BY Zenon DEF InPool
      <4>2. x \in out /\ g = Restorer(x) /\ Sent(g, x)
        BY <1>0, <4>1, Zenon DEF PoolInv
      <4> QED
        BY <4>2, Zenon
    <3>2. Sent("ALLOC", x)
      BY <1>0, <3>1, AllocSent, Zenon DEF PoolInv
    <3> QED
      BY <1>0, <3>1, <3>2, Zenon DEF DataInv
  <2> QED
    BY <2>1 DEF FuturesRegistered
<1>3. ArenaPresent
  <2>1. ASSUME NEW x \in running["DECOMP"], x \notin counted
        PROVE  x[2] \in arenas
    <3>1. /\ x \in out /\ x[2] \in Layers /\ "DECOMP" = Restorer(x) /\ mem[x] # "back"
          /\ Passed("reload_all_arenas")
      BY <2>1, AtWork, Zenon
    <3>2. x \in Compressed(x[2])
      BY <3>1, Zenon DEF Restorer, Compressed
    <3> QED
      BY <1>0, <3>1, <3>2, Zenon DEF CountInv
  <2> QED
    BY <2>1 DEF ArenaPresent
<1>4. GraphBeforeRestore
  <2>1. SUFFICES ASSUME decode = "start"
                 PROVE  \A g \in {"ALLOC", "READ", "DECOMP"} : Idle(g)
    BY DEF GraphBeforeRestore
  <2>2. StageOf(flow, pc - 1) = "async_decode" /\ Passed("async_decode")
    BY <1>0, <2>1 DEF StageInv
  <2>3. pc - 1 \in Nat \ {0} /\ (pc - 1) + 1 = pc
    BY <1>1, <2>2 DEF Passed, Before
  <2>4. CASE flow \in {"overlap", "no_alloc_overlap"}
    <3>1. StageOf(flow, pc) \notin Loops
      <4>1. StageOf(flow, pc) \in {"wait_graph", "get_decode"}
        BY <1>1, <2>2, <2>3, StageOrder, Zenon
      <4> QED
        BY <4>1 DEF Loops
    <3>2. \A p \in 1 .. pc : StageOf(flow, p) \notin Loops
      <4>1. ASSUME NEW p \in 1 .. pc, StageOf(flow, p) \in Loops PROVE FALSE
        <5>1. pc - 1 < p
          BY <1>1, <2>2, <2>3, <2>4, <4>1, StageOrder
        <5> QED
          BY <1>1, <3>1, <4>1, <5>1
      <4> QED
        BY <4>1
    <3>3. \A g, x : x \in out => ~Sent(g, x)
      BY <1>0, <3>2, Parts, LoopsEnqueue, Zenon DEF Sent, TypeOK
    <3>4. promises = {}
      BY <1>0, <3>3, Zenon DEF DataInv, TypeOK
    <3>5. \A g \in {"ALLOC", "READ", "DECOMP"} : InPool(g) = {}
      BY <1>0, <3>3, <3>4, Zenon DEF PoolInv
    <3> QED
      BY <1>0, <3>5, EmptyIdle DEF Groups
  <2>5. CASE flow \in {"no_prefill_overlap", "no_overlap"}
    <3>1. Before(flow, pc - 1, "wait_syncs")
      BY <1>1, <2>2, <2>3, <2>5, StagesPresent, Zenon
    <3>2. Passed("wait_syncs")
      BY <1>1, <3>1 DEF Passed, Before
    <3>3. Missing = {} /\ counted = {}
      BY <1>0, <3>2 DEF StageInv
    <3> QED
      BY <3>3, QuietAfterSyncs
  <2> QED
    BY <1>1, <2>4, <2>5 DEF AllFlows
<1>5. QuietAtClean
  <2>1. Stage = "clean" => Passed("FREE")
    BY <1>1, StagesPresent, Zenon DEF Stage, Passed
  <2> QED
    BY <1>0, <2>1 DEF StageInv, QuietAtClean
<1>6. RestoredAtReturn
  <2>1. Returned => Passed("wait_syncs") /\ Passed("clean")
    BY <1>1, StagesPresent, Zenon DEF Returned, Stage, Passed
  <2> QED
    BY <1>0, <2>1 DEF StageInv, RestoredAtReturn
<1> QED
  BY <1>0, <1>2, <1>3, <1>4, <1>5, <1>6

-----------------------------------------------------------------------------
(* The layer gate.                                                         *)

\* The variants that initialise the layer syncs before they start the decode.
SyncsFirst == "no_alloc_overlap" \notin Flows

\* The call returns with clean_after_decompress, and then rests.
LEMMA ReturnStep ==
    ASSUME TypeOK, flow' = flow,
           pc' = pc \/ (pc' = pc + 1 /\ Stage # "returned")
    PROVE  /\ pc' = pc => Returned' = Returned
           /\ pc' = pc + 1 => (Returned' <=> Stage = "clean") /\ ~Returned
<1>1. flow \in AllFlows /\ pc \in Nat \ {0}
  BY SwapInAssumption, Zenon DEF TypeOK
<1>2. StageOf(flow, pc + 1) = "returned" <=> StageOf(flow, pc) \in {"clean", "returned"}
  BY <1>1, StageOrder, Zenon
<1> QED
  BY <1>1, <1>2 DEF Returned, Stage

\* A layer that the decode thread computes has none of its pieces missing.
LEMMA ComputeComplete ==
    ASSUME SizeLaw, Consistent, SyncsFirst, ComputeLayer
    PROVE  layer < NumLayers /\ \A x \in Missing : LayerOf(x) # layer
<1>0. TypeOK /\ DataInv /\ StageInv
  BY DEF Consistent, IInv
<1>1. flow \in AllFlows /\ pc \in Nat \ {0} /\ flow # "no_alloc_overlap"
  BY <1>0, SwapInAssumption, Zenon DEF TypeOK, SyncsFirst
<1>2. decode = "run" /\ SyncDown(layer)
  BY DEF ComputeLayer
<1>3. layer \in Layers
  BY <1>0, <1>2, SwapInAssumption DEF TypeOK, StageInv, Layers
<1>4. Passed("initialize_layer_sync")
  <2>1. PICK p \in 1 .. pc - 1 : StageOf(flow, p) = "async_decode"
    BY <1>0, <1>2 DEF StageInv, Passed, Before
  <2>2. Before(flow, p, "initialize_layer_sync")
    BY <1>1, <2>1, StagesPresent
  <2> QED
    BY <1>1, <2>1, <2>2 DEF Passed, Before
<1>5. Unfinished(layer) = {}
  BY <1>2, <1>3, <1>4, CountDownComplete
<1>6. \A x \in Missing : x \in out /\ mem[x] # "back"
  BY <1>0, Zenon DEF DataInv, Missing
<1> QED
  BY <1>0, <1>2, <1>5, <1>6, Zenon DEF Unfinished, LayerOf, StageInv

\* Every step of a swap-in is a step of the layer gate, or none.
LEMMA GateStep ==
    ASSUME SizeLaw, Consistent, SyncsFirst, [Next]_vars
    PROVE  [Gate!Next]_(Gate!vars)
<1>0. TypeOK /\ StageInv
  BY DEF Consistent, IInv
<1>1. ASSUME Missing' = Missing, layer' = layer, Returned' <=> Returned,
             decode' = "failed" <=> decode = "failed"
      PROVE  UNCHANGED Gate!vars
  <2>1. Returned' = Returned /\ (decode' = "failed") = (decode = "failed")
    BY <1>1 DEF Returned
  <2> QED
    BY <1>1, <2>1 DEF Gate!vars
<1>2. ASSUME UNCHANGED <<flow, pc, mem, layer, decode>>
      PROVE  UNCHANGED Gate!vars
  <2>1. Missing' = Missing /\ Returned' = Returned
    BY <1>2 DEF Missing, Returned, Stage
  <2> QED
    BY <1>1, <1>2, <2>1
<1>3. CASE Clean
  <2>1. /\ Stage = "clean" /\ pc' = pc + 1
        /\ UNCHANGED <<flow, mem, layer, decode>>
    BY <1>3, Zenon DEF Clean, Advance, decodeVars
  <2>2. Returned' /\ ~Returned
    BY <1>0, <2>1, ReturnStep
  <2>3. flow \in AllFlows /\ pc \in Nat \ {0}
    BY <1>0, SwapInAssumption, Zenon DEF TypeOK
  <2>4. Passed("wait_syncs") /\ Passed("get_decode")
    BY <2>1, <2>3, StagesPresent, Zenon DEF Stage, Passed
  <2>5. Missing = {} /\ Missing' = Missing /\ decode \in {"done", "failed"}
    BY <1>0, <2>1, <2>4, Zenon DEF StageInv, Missing
  <2>6. layer = NumLayers \/ decode = "failed"
    BY <1>0, <2>5, Zenon DEF StageInv
  <2>7. Gate!Close
    BY <2>1, <2>2, <2>5, <2>6 DEF Gate!Close
  <2> QED
    BY <2>7 DEF Gate!Next
<1>4. CASE InitializeLayerSync \/ ReloadAllArenas \/ AsyncDecode \/ LoopEnds \/ Wait
  <2>1. /\ pc' = pc + 1 /\ Stage \notin {"clean", "returned"}
        /\ UNCHANGED <<flow, mem, layer>>
        /\ decode' = decode \/ (decode' = "start" /\ AsyncDecode)
    BY <1>4, Zenon DEF InitializeLayerSync, ReloadAllArenas, AsyncDecode, LoopEnds, Wait, Advance,
                decodeVars, dataVars, Loops, Groups
  <2>2. Returned' <=> Returned
    BY <1>0, <2>1, ReturnStep
  <2>3. Missing' = Missing
    BY <2>1 DEF Missing
  <2>4. AsyncDecode => decode # "failed"
    <3>1. SUFFICES ASSUME Stage = "async_decode" PROVE decode = "off"
      BY DEF AsyncDecode
    <3>2. flow \in AllFlows /\ pc \in Nat \ {0}
      BY <1>0, SwapInAssumption DEF TypeOK
    <3>3. ASSUME NEW q \in 1 .. pc - 1, StageOf(flow, q) = "async_decode" PROVE FALSE
      <4>1. pc = q
        BY <3>1, <3>2, <3>3, StageOrder DEF Stage
      <4> QED
        BY <3>2, <4>1
    <3> QED
      BY <1>0, <3>3, Zenon DEF StageInv, Passed, Before
  <2> QED
    BY <1>1, <2>1, <2>2, <2>3, <2>4
<1>5. CASE Enqueue
  BY <1>2, <1>5 DEF Enqueue, decodeVars
<1>6. CASE GraphAllocated
  <2>1. UNCHANGED <<flow, pc, mem, layer>> /\ decode = "start" /\ decode' = "run"
    BY <1>6 DEF GraphAllocated, mainVars, dataVars
  <2>2. Missing' = Missing /\ Returned' = Returned
    BY <2>1 DEF Missing, Returned, Stage
  <2> QED
    BY <1>1, <2>1, <2>2
<1>7. CASE ComputeLayer
  <2>1. /\ UNCHANGED <<flow, pc, mem>> /\ decode = "run" /\ decode' # "failed"
        /\ layer' = layer + 1
    BY <1>7 DEF ComputeLayer, mainVars, dataVars, AfterLayer
  <2>2. Missing' = Missing /\ Returned' = Returned
    BY <2>1 DEF Missing, Returned, Stage
  <2>3. layer < NumLayers /\ \A x \in Missing : LayerOf(x) # layer
    BY <1>7, ComputeComplete
  <2>4. Gate!Compute
    BY <2>1, <2>2, <2>3 DEF Gate!Compute
  <2> QED
    BY <2>4 DEF Gate!Next
<1>8. CASE DecodeRefused \/ DecodeFails
  <2>1. /\ UNCHANGED <<flow, pc, mem, layer>> /\ decode \in {"start", "run"}
        /\ decode' = "failed"
    BY <1>8 DEF DecodeRefused, DecodeFails, mainVars, dataVars
  <2>2. Missing' = Missing /\ Returned' = Returned
    BY <2>1 DEF Missing, Returned, Stage
  <2>3. layer < NumLayers
    BY <1>0, <2>1, SwapInAssumption DEF StageInv
  <2>4. Gate!Fail
    BY <2>1, <2>2, <2>3 DEF Gate!Fail
  <2> QED
    BY <2>4 DEF Gate!Next
<1>9. CASE \E g \in Groups : Worker(g)
  <2>1. /\ Missing' = Missing \/ \E x \in Missing : Missing' = Missing \ {x}
        /\ UNCHANGED <<flow, pc, decode, layer>>
    BY <1>9, WorkerStep
  <2>2. Returned' = Returned
    BY <2>1 DEF Returned, Stage
  <2>3. CASE Missing' = Missing
    BY <1>1, <2>1, <2>2, <2>3
  <2>4. CASE \E x \in Missing : Missing' = Missing \ {x}
    <3>1. PICK x \in Missing : Missing' = Missing \ {x}
      BY <2>4
    <3>2. x \in Pieces
      BY DEF Missing
    <3>3. Gate!Restore(x)
      BY <2>1, <2>2, <3>1 DEF Gate!Restore
    <3> QED
      BY <3>2, <3>3 DEF Gate!Next
  <2> QED
    BY <2>1, <2>3, <2>4
<1>10. CASE UNCHANGED vars
  BY <1>2, <1>10, Zenon DEF vars, mainVars, decodeVars, dataVars
<1> QED
  BY <1>3, <1>4, <1>5, <1>6, <1>7, <1>8, <1>9, <1>10, Zenon DEF Next, Main, Decode, Rest

-----------------------------------------------------------------------------
INSTANCE FiniteSetTheorems

\* A set of triples is finite when its parts are.
LEMMA TriplesFinite ==
    ASSUME NEW A, NEW B, NEW C, IsFiniteSet(A), IsFiniteSet(B), IsFiniteSet(C)
    PROVE  IsFiniteSet(A \X B \X C)
<1> DEFINE S == (A \X B) \X C
           T == A \X B \X C
           f == [p \in S |-> <<p[1][1], p[1][2], p[2]>>]
<1>1. f \in [S -> T]
  OBVIOUS
<1>2. ASSUME NEW t \in T PROVE \E p \in S : f[p] = t
  <2>1. PICK a \in A, b \in B, c \in C : t = <<a, b, c>>
    OBVIOUS
  <2>2. <<<<a, b>>, c>> \in S /\ f[<<<<a, b>>, c>>] = t
    BY <2>1, Zenon
  <2> QED
    BY <2>2, Zenon
<1> HIDE DEF S, T, f
<1>3. f \in Surjection(S, T)
  BY <1>1, <1>2, Zenon DEF Surjection
<1>4. IsFiniteSet(S)
  BY FS_Product, Zenon DEF S
<1>5. IsFiniteSet(T)
  BY <1>3, <1>4, FS_Surjection, Zenon
<1> QED
  BY <1>5, Zenon DEF T

\* The sets of pieces have the sizes the counts rely on.
LEMMA SizeLawHolds == SizeLaw
<1>1. IsFiniteSet(Pieces)
  <2>1. ASSUME NEW n \in Nat PROVE IsFiniteSet(0 .. n - 1)
    <3>1. 0 \in Int /\ n - 1 \in Int
      OBVIOUS
    <3> QED
      BY <3>1, FS_Interval, Zenon
  <2>2. IsFiniteSet(Layers) /\ IsFiniteSet(0 .. CompPer - 1) /\ IsFiniteSet(0 .. StorePer - 1)
    BY <2>1, SwapInAssumption, Zenon DEF Layers
  <2>3. /\ IsFiniteSet({"decomp"}) /\ IsFiniteSet({"load"}) /\ IsFiniteSet({"weight"})
        /\ IsFiniteSet({0})
    BY FS_Singleton, Zenon
  <2>4. /\ IsFiniteSet({"decomp"} \X Layers \X (0 .. CompPer - 1))
        /\ IsFiniteSet({"load"} \X Layers \X (0 .. StorePer - 1))
        /\ IsFiniteSet({"weight"} \X Layers \X {0})
    BY <2>2, <2>3, TriplesFinite, Zenon
  <2> QED
    BY <2>4, FS_Union, Zenon DEF Pieces
<1> QED
  BY <1>1, Zenon, FS_Subset, FS_CardinalityType, FS_EmptySet, FS_RemoveElement DEF SizeLaw

\* Every reachable state satisfies the inductive invariant: for any numbers of
\* layers, chunks and threads, every stop of the ladder, all four variants of
\* swapin_generate and any failure of the decode.
THEOREM SwapInInvariant == Spec => []IInv
<1>1. Init => IInv
  BY InitConsistent DEF Consistent
<1>2. IInv /\ [Next]_vars => IInv'
  BY SizeLawHolds, NextConsistent DEF Consistent
<1> QED
  BY <1>1, <1>2, PTL DEF Spec

\* The state of a swap-in keeps its types; in particular no task is enqueued that
\* the current loop does not enqueue.
THEOREM SwapInTypes == Spec => []TypeOK
<1>1. IInv => TypeOK
  BY ConsistentSafe DEF Consistent
<1> QED
  BY <1>1, SwapInInvariant, PTL

\* A READ or DECOMP worker that waits for an allocation finds its future
\* registered: wait_for_kv_allocation and wait_for_weight_allocation do not throw.
THEOREM AllocationsRegistered == Spec => []FuturesRegistered
<1>1. IInv => FuturesRegistered
  BY ConsistentSafe DEF Consistent
<1> QED
  BY <1>1, SwapInInvariant, PTL

\* A DECOMP worker reads from arenas that are in memory: free_layer_arenas runs
\* only after the layer's last chunk.
THEOREM ArenasPresent == Spec => []ArenaPresent
<1>1. IInv => ArenaPresent
  BY ConsistentSafe DEF Consistent
<1> QED
  BY <1>1, SwapInInvariant, PTL

\* No restore task is in the pool while the decode may still allocate its graph.
THEOREM RestoreAfterGraph == Spec => []GraphBeforeRestore
<1>1. IInv => GraphBeforeRestore
  BY ConsistentSafe DEF Consistent
<1> QED
  BY <1>1, SwapInInvariant, PTL

\* clean_after_decompress runs when no task is queued or running.
THEOREM CleanIsQuiet == Spec => []QuietAtClean
<1>1. IInv => QuietAtClean
  BY ConsistentSafe DEF Consistent
<1> QED
  BY <1>1, SwapInInvariant, PTL

\* A call that returns has restored every piece and keeps no arena, also when the
\* decode has failed.
THEOREM ReturnIsComplete == Spec => []RestoredAtReturn
<1>1. IInv => RestoredAtReturn
  BY ConsistentSafe DEF Consistent
<1> QED
  BY <1>1, SwapInInvariant, PTL

\* Where the layer syncs are initialised before the decode is started, no layer
\* is computed with one of its pieces missing.
THEOREM LayersComplete ==
    ASSUME SyncsFirst
    PROVE  Spec => ComputedComplete
<1>1. IInv /\ [Next]_vars => [layer' # layer => \A x \in Missing : LayerOf(x) # layer]_vars
  <2> SUFFICES ASSUME Consistent, [Next]_vars, layer' # layer
               PROVE  \A x \in Missing : LayerOf(x) # layer
    BY DEF Consistent
  <2>1. ComputeLayer
    <3>1. Main => layer' = layer
      BY Zenon DEF Main, InitializeLayerSync, ReloadAllArenas, AsyncDecode, Enqueue, LoopEnds, Wait,
             Clean, decodeVars
    <3>2. (\E g \in Groups : Worker(g)) => layer' = layer
      BY SizeLawHolds, WorkerStep
    <3>3. UNCHANGED vars => layer' = layer
      BY DEF vars, decodeVars
    <3>4. GraphAllocated \/ DecodeRefused \/ DecodeFails => layer' = layer
      BY Zenon DEF GraphAllocated, DecodeRefused, DecodeFails
    <3> QED
      BY <3>1, <3>2, <3>3, <3>4, Zenon DEF Next, Decode, Rest
  <2> QED
    BY <2>1, SizeLawHolds, ComputeComplete
<1> QED
  BY <1>1, SwapInInvariant, PTL DEF Spec, ComputedComplete

\* The variants of swapin_generate that initialise the layer syncs first
\* implement LayerGate.
THEOREM SwapInImplementsGate ==
    ASSUME SyncsFirst
    PROVE  Spec => ImplementsGate
<1>1. Init => Gate!Init
  <2> SUFFICES ASSUME Init PROVE Gate!Init
    OBVIOUS
  <2>1. flow \in AllFlows /\ pc = 1 /\ decode = "off" /\ layer = 0
    BY SwapInAssumption, Zenon DEF Init
  <2>2. Missing \in SUBSET Pieces
    BY DEF Missing
  <2>3. Returned = FALSE
    BY <2>1, StageOrder DEF Returned, Stage
  <2>4. (decode = "failed") = FALSE
    BY <2>1
  <2> QED
    BY <2>1, <2>2, <2>3, <2>4 DEF Gate!Init
<1>2. IInv /\ [Next]_vars => [Gate!Next]_(Gate!vars)
  BY SizeLawHolds, GateStep DEF Consistent
<1> QED
  BY <1>1, <1>2, SwapInInvariant, PTL DEF Spec, ImplementsGate, Gate!Spec
=============================================================================
