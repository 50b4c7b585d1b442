------------------------ MODULE WeightBuffersProofs ------------------------
(***************************************************************************)
(* Proofs that IInv of WeightBuffers is an invariant for every number of   *)
(* layers, tensors and threads, and what follows from it.                  *)
(***************************************************************************)
EXTENDS WeightBuffers, FiniteSetTheorems, TLAPS

\* A larger factor gives a larger product: the arithmetic of tensor indices.
LEMMA Scale == ASSUME NEW a \in Nat, NEW b \in Nat, NEW c \in Nat, a <= b PROVE c * a <= c * b
<1>1. PICK d \in Nat : b = a + d
  BY b - a \in Nat
<1>2. c * b = c * a + c * d /\ c * d \in Nat /\ c * a \in Nat
  BY <1>1
<1> QED
  BY <1>2

\* Slots and layers are finite; buffer 0 is no buffer.
LEMMA Finite ==
  /\ NumLayers * NumTensors + NumOther \in Nat
  /\ IsFiniteSet(Slots) /\ IsFiniteSet(Layers) /\ NoBuffer \notin Buffers
<1>1. NumLayers * NumTensors + NumOther \in Nat
  BY WeightAssumption
<1>2. IsFiniteSet(Slots) /\ IsFiniteSet(Layers)
  BY <1>1, FS_Interval, WeightAssumption DEF Slots, Layers
<1>3. NoBuffer \notin Buffers
  BY DEF Buffers, Slots, NoBuffer
<1> QED
  BY <1>1, <1>2, <1>3

\* What counting free slots and detached layers rests on: both sets are finite.
LEMMA Counts ==
  /\ IsFiniteSet(Free) /\ IsFiniteSet(Detached) /\ IsFiniteSet(Slots \ Free)
  /\ Cardinality(Free) \in Nat /\ Cardinality(Detached) \in Nat
  /\ Cardinality(Slots \ Free) \in Nat
<1>1. Free \subseteq Slots /\ Detached \subseteq Layers /\ Slots \ Free \subseteq Slots
  BY DEF Free, Detached
<1>2. IsFiniteSet(Free) /\ IsFiniteSet(Detached) /\ IsFiniteSet(Slots \ Free)
  BY <1>1, Finite, FS_Subset, Zenon
<1> QED
  BY <1>2, FS_CardinalityType, Zenon

\* The tensors of two layers have different indices, all of them slots.
LEMMA LoadedFacts ==
  ASSUME NEW l \in Layers
  PROVE  /\ Loaded(l) \subseteq Slots /\ Loaded(l) # {}
         /\ \A k \in Layers : k # l => Loaded(k) \intersect Loaded(l) = {}
<1>1. l \in Nat /\ l + 1 \in Nat /\ l + 1 <= NumLayers /\ NumLayers \in Nat /\ NumTensors \in Nat /\ NumTensors >= 1 /\ NumOther \in Nat
  BY WeightAssumption DEF Layers
<1>2. /\ NumTensors * l \in Nat /\ NumTensors * (l + 1) = NumTensors * l + NumTensors
      /\ NumTensors * NumLayers \in Nat /\ NumTensors * NumLayers = NumLayers * NumTensors
  BY <1>1
<1>3. NumTensors * (l + 1) <= NumTensors * NumLayers
  BY <1>1, Scale
<1>4. Loaded(l) \subseteq Slots
  BY <1>1, <1>2, <1>3 DEF Loaded, Slots
<1>5. NumOther + NumTensors * l + 1 \in Loaded(l)
  BY <1>1, <1>2 DEF Loaded
<1>6. ASSUME NEW k \in Layers, k # l PROVE Loaded(k) \intersect Loaded(l) = {}
  <2>1. k \in Nat /\ k + 1 \in Nat /\ NumTensors * k \in Nat /\ NumTensors * (k + 1) \in Nat
    BY <1>1 DEF Layers
  <2>2. CASE k < l
    <3>1. NumTensors * (k + 1) <= NumTensors * l
      BY <2>1, <2>2, <1>1, Scale
    <3> QED
      BY <3>1, <2>1, <1>1, <1>2 DEF Loaded
  <2>3. CASE l < k
    <3>1. NumTensors * (l + 1) <= NumTensors * k
      BY <2>1, <2>3, <1>1, Scale
    <3> QED
      BY <3>1, <2>1, <1>1, <1>2 DEF Loaded
  <2> QED
    BY <1>1, <1>6, <2>1, <2>2, <2>3
<1> QED
  BY <1>4, <1>5, <1>6

\* The weights as loading leaves them satisfy the invariant.
LEMMA InitIInv == ASSUME Init PROVE IInv
<1>1. Children = Slots /\ Free = {}
  BY Finite DEF Init, Children, Free, Buffers, NoBuffer, Slots
<1>2. \A l \in Layers : held[l] = Loaded(l)
  BY DEF Init
<1>3. Detached = {}
  BY <1>1, <1>2, LoadedFacts DEF Detached
<1>4. SlotsSuffice
  BY <1>1, <1>3, FS_EmptySet DEF SlotsSuffice
<1>5. CountExact
  <2>1. Slots \ Free = Slots
    BY <1>1
  <2> QED
    BY <2>1 DEF CountExact, Init
<1>6. OneOwner
  <2>1. \A i, j \in Slots : slots[i] = slots[j] /\ slots[i] # NoBuffer => i = j
    BY DEF Init
  <2>2. \A k, l \in Layers : k # l => held[k] \intersect held[l] = {}
    BY <1>2, LoadedFacts
  <2>3. \A l \in Layers : alloc[l] # "held" /\ held[l] \subseteq Children
    BY <1>1, <1>2, LoadedFacts DEF Init
  <2> QED
    BY <2>1, <2>2, <2>3 DEF OneOwner
<1>7. TypeOK
  <2>1. curN \in Nat
    BY Finite, FS_CardinalityType DEF Init
  <2>2. held \in [Layers -> SUBSET Buffers]
    BY LoadedFacts DEF Init, Buffers
  <2>3. slots \in [Slots -> Buffers \union {NoBuffer}]
    BY DEF Init, Buffers
  <2>4. cursor \in -1 .. NumLayers - 1 /\ nUnload \in 0 .. NumLayers /\ at \in 0 .. NumLayers /\ crashes \in 0 .. MaxCrashes
    BY WeightAssumption DEF Init
  <2>5. sync \in [Layers -> 0 .. 1]
    BY DEF Init
  <2> QED
    BY <2>1, <2>2, <2>3, <2>4, <2>5, Zenon DEF Init, TypeOK
<1>8. ASSUME NEW l \in Layers PROVE LayerInv(l) /\ IdleInv(l)
  <2>1. held[l] # {}
    BY <1>2, LoadedFacts
  <2>2. l <= cursor
    BY WeightAssumption DEF Init, Layers
  <2> QED
    BY <2>1, <2>2 DEF Init, LayerInv, IdleInv
<1>9. PhaseInv
  <2>1. nUnload = NumLayers - 1 - cursor
    BY WeightAssumption DEF Init
  <2> QED
    BY <1>8, <2>1 DEF PhaseInv, Init
<1>10. NoSpuriousAbort
  BY DEF NoSpuriousAbort, Init
<1> QED
  BY <1>4, <1>5, <1>6, <1>7, <1>8, <1>9, <1>10 DEF IInv

-----------------------------------------------------------------------------
(* Steps that leave the buffers alone.                                     *)

\* Owners, counts and room survive a step that moves no buffer and neither
\* starts nor ends an allocation.
LEMMA SameBuffers ==
  ASSUME OneOwner, CountExact, SlotsSuffice,
         slots' = slots, curN' = curN, held' = held,
         \A l \in Layers : alloc'[l] = "held" <=> alloc[l] = "held"
  PROVE  OneOwner' /\ CountExact' /\ SlotsSuffice'
<1>1. Children' = Children /\ Free' = Free /\ Detached' = Detached
  BY DEF Children, Free, Detached
<1>2. OneOwner'
  BY <1>1, Zenon DEF OneOwner
<1> QED
  BY <1>1, <1>2, Zenon DEF CountExact, SlotsSuffice

\* Writing a dump, being interrupted at it, and starting the engine.
LEMMA ToolStep == ASSUME IInv, Tool PROVE IInv'
<1>1. /\ pc = "dump" /\ pc' \in {"dump", "idle"} /\ at' \in 0 .. NumLayers /\ crashes' \in 0 .. MaxCrashes
      /\ UNCHANGED <<slots, curN, held, data, cursor, nUnload, alloc, read, promise, sync, size>>
  <2>1. at \in 0 .. NumLayers /\ crashes \in 0 .. MaxCrashes
    BY DEF IInv, TypeOK
  <2> QED
    BY <2>1, WeightAssumption DEF Tool, DumpLayer, DumpCrash, StartEngine, buffers, tasks
<1>2. /\ dump' \in [Layers -> {"none", "part", "whole"}]
      /\ \A l \in Layers : dump[l] # "none" => dump'[l] # "none"
  <2>1. dump \in [Layers -> {"none", "part", "whole"}]
    BY DEF IInv, TypeOK
  <2> QED
    BY <2>1 DEF Tool, DumpLayer, DumpCrash, StartEngine
<1>3. TypeOK'
  BY <1>1, <1>2, Zenon DEF IInv, TypeOK
<1>4. OneOwner' /\ CountExact' /\ SlotsSuffice'
  BY <1>1, SameBuffers, Zenon DEF IInv
<1>5. ASSUME NEW l \in Layers PROVE LayerInv(l)' /\ IdleInv(l)'
  BY <1>1, <1>2, Zenon DEF IInv, LayerInv, PhaseInv, IdleInv
<1>6. PhaseInv' /\ NoSpuriousAbort'
  BY <1>1, <1>5, Zenon DEF IInv, PhaseInv, NoSpuriousAbort
<1> QED
  BY <1>3, <1>4, <1>5, <1>6 DEF IInv

\* A swap-in starts with one sync count for each unloaded layer.
LEMMA SwapinStartStep == ASSUME IInv, SwapinStart PROVE IInv'
<1>1. /\ pc = "idle" /\ pc' \in {"reload", "alloc_only"} /\ at' = cursor + 1
      /\ UNCHANGED <<slots, curN, held, data, cursor, nUnload, dump, alloc, read, size, crashes>>
      /\ promise' = [l \in Layers |-> "none"] /\ cursor \in -1 .. NumLayers - 1
  BY DEF SwapinStart, buffers, IInv, TypeOK
<1>2. \A l \in Layers : sync'[l] = IF l > cursor THEN 1 ELSE 0
  BY DEF SwapinStart, Missing
<1>3. TypeOK'
  <2>1. sync' \in [Layers -> 0 .. 1] /\ at' \in 0 .. NumLayers
    BY <1>1, <1>2, WeightAssumption DEF SwapinStart, Missing
  <2>2. promise' \in [Layers -> {"none", "pending", "set"}]
    BY <1>1
  <2> QED
    BY <1>1, <2>1, <2>2, Zenon DEF IInv, TypeOK
<1>4. OneOwner' /\ CountExact' /\ SlotsSuffice'
  BY <1>1, SameBuffers, Zenon DEF IInv
<1>5. ASSUME NEW l \in Layers PROVE LayerInv(l)' /\ LoopInv(l)'
  <2>1. LayerInv(l) /\ IdleInv(l) /\ l \in Int
    BY <1>1 DEF IInv, PhaseInv, Layers
  <2>2. LayerInv(l)'
    BY <2>1, <1>1, Zenon DEF LayerInv, IdleInv
  <2>3. l > cursor \/ l <= cursor
    BY <1>1, <2>1
  <2>4. LoopInv(l)'
    BY <1>1, <1>2, <2>1, <2>3 DEF LoopInv, IdleInv
  <2> QED
    BY <2>2, <2>4
<1>6. PhaseInv' /\ NoSpuriousAbort'
  <2>1. at' > cursor'
    BY <1>1
  <2> QED
    BY <1>1, <1>5, <2>1, Zenon DEF IInv, PhaseInv, NoSpuriousAbort
<1> QED
  BY <1>3, <1>4, <1>5, <1>6 DEF IInv

-----------------------------------------------------------------------------
(* The main thread's loops.                                                *)

\* One turn of mzcache_reload_w_layers hands out both tasks of a layer.
LEMMA EnqueueLayerStep == ASSUME IInv, EnqueueLayer PROVE IInv'
<1>1. /\ pc = "reload" /\ at < NumLayers /\ at' = at + 1
      /\ promise' = [promise EXCEPT ![at] = "pending"] /\ alloc' = [alloc EXCEPT ![at] = "queued"]
      /\ read' = [read EXCEPT ![at] = "queued"]
      /\ UNCHANGED <<slots, curN, held, data, cursor, nUnload, dump, sync, pc, crashes, size>>
  BY DEF EnqueueLayer, buffers
<1>2. /\ at \in Layers /\ at > cursor /\ cursor \in Int /\ at \in Int
      /\ LoopInv(at) /\ LayerInv(at)
  BY <1>1, WeightAssumption DEF IInv, TypeOK, PhaseInv, Layers
<1>3. TypeOK'
  <2>1. at' \in 0 .. NumLayers
    BY <1>1, <1>2, WeightAssumption DEF Layers
  <2>2. /\ alloc' \in [Layers -> {"no", "queued", "held", "done"}]
        /\ read' \in [Layers -> {"no", "queued", "open", "done"}]
        /\ promise' \in [Layers -> {"none", "pending", "set"}]
    BY <1>1, Zenon DEF IInv, TypeOK
  <2> QED
    BY <1>1, <2>1, <2>2, Zenon DEF IInv, TypeOK
<1>4. OneOwner' /\ CountExact' /\ SlotsSuffice'
  <2>1. \A l \in Layers : alloc'[l] = "held" <=> alloc[l] = "held"
    BY <1>1, <1>2 DEF IInv, TypeOK, LoopInv
  <2> QED
    BY <1>1, <2>1, SameBuffers, Zenon DEF IInv
<1>5. ASSUME NEW l \in Layers PROVE LayerInv(l)' /\ LoopInv(l)'
  <2>1. LayerInv(l) /\ LoopInv(l) /\ l \in Int
    BY <1>1 DEF IInv, PhaseInv, Layers
  <2>2. CASE l = at
    <3>1. /\ alloc'[l] = "queued" /\ promise'[l] = "pending"
          /\ read'[l] = "queued"
          /\ l > cursor' /\ l < at' /\ ~ (l <= cursor') /\ ~ (l >= at')
      BY <1>1, <1>2, <2>2 DEF IInv, TypeOK
    <3>2. LayerInv(l)'
      BY <1>1, <1>2, <2>1, <2>2, <3>1 DEF LayerInv, LoopInv
    <3>3. LoopInv(l)'
      BY <1>1, <1>2, <2>1, <2>2, <3>1 DEF LoopInv
    <3> QED
      BY <3>2, <3>3
  <2>3. CASE l # at
    <3>1. /\ alloc'[l] = alloc[l] /\ promise'[l] = promise[l] /\ read'[l] = read[l]
      BY <1>1, <2>3 DEF IInv, TypeOK
    <3>2. (l >= at' => l >= at) /\ (l < at' => l < at)
      BY <1>1, <1>2, <2>1, <2>3
    <3>3. LayerInv(l)'
      BY <1>1, <2>1, <3>1, Zenon DEF LayerInv
    <3>4. LoopInv(l)'
      BY <1>1, <2>1, <3>1, <3>2, Zenon DEF LoopInv
    <3> QED
      BY <3>3, <3>4
  <2> QED
    BY <2>2, <2>3
<1>6. PhaseInv' /\ NoSpuriousAbort'
  <2>1. at' > cursor'
    BY <1>1, <1>2
  <2> QED
    BY <1>1, <1>5, <2>1, Zenon DEF IInv, PhaseInv, NoSpuriousAbort
<1> QED
  BY <1>3, <1>4, <1>5, <1>6 DEF IInv

\* One turn of the ALLOC loop.
LEMMA AllocOnlyStep == ASSUME IInv, AllocOnly PROVE IInv'
<1>1. /\ pc = "alloc_only" /\ at < NumLayers /\ at' = at + 1
      /\ promise' = [promise EXCEPT ![at] = "pending"] /\ alloc' = [alloc EXCEPT ![at] = "queued"]
      /\ UNCHANGED <<slots, curN, held, data, cursor, nUnload, dump, sync, pc, crashes, size, read>>
  BY DEF AllocOnly, buffers
<1>2. /\ at \in Layers /\ at > cursor /\ cursor \in Int /\ at \in Int
      /\ LoopInv(at) /\ LayerInv(at)
  BY <1>1, WeightAssumption DEF IInv, TypeOK, PhaseInv, Layers
<1>3. TypeOK'
  <2>1. at' \in 0 .. NumLayers
    BY <1>1, <1>2, WeightAssumption DEF Layers
  <2>2. /\ alloc' \in [Layers -> {"no", "queued", "held", "done"}]
        /\ read' \in [Layers -> {"no", "queued", "open", "done"}]
        /\ promise' \in [Layers -> {"none", "pending", "set"}]
    BY <1>1, Zenon DEF IInv, TypeOK
  <2> QED
    BY <1>1, <2>1, <2>2, Zenon DEF IInv, TypeOK
<1>4. OneOwner' /\ CountExact' /\ SlotsSuffice'
  <2>1. \A l \in Layers : alloc'[l] = "held" <=> alloc[l] = "held"
    BY <1>1, <1>2 DEF IInv, TypeOK, LoopInv
  <2> QED
    BY <1>1, <2>1, SameBuffers, Zenon DEF IInv
<1>5. ASSUME NEW l \in Layers PROVE LayerInv(l)' /\ LoopInv(l)'
  <2>1. LayerInv(l) /\ LoopInv(l) /\ l \in Int
    BY <1>1 DEF IInv, PhaseInv, Layers
  <2>2. CASE l = at
    <3>1. /\ alloc'[l] = "queued" /\ promise'[l] = "pending"
          /\ read'[l] = read[l]
          /\ l > cursor' /\ l < at' /\ ~ (l <= cursor') /\ ~ (l >= at')
      BY <1>1, <1>2, <2>2 DEF IInv, TypeOK
    <3>2. LayerInv(l)'
      BY <1>1, <1>2, <2>1, <2>2, <3>1 DEF LayerInv, LoopInv
    <3>3. LoopInv(l)'
      BY <1>1, <1>2, <2>1, <2>2, <3>1 DEF LoopInv
    <3> QED
      BY <3>2, <3>3
  <2>3. CASE l # at
    <3>1. /\ alloc'[l] = alloc[l] /\ promise'[l] = promise[l] /\ read'[l] = read[l]
      BY <1>1, <2>3 DEF IInv, TypeOK
    <3>2. (l >= at' => l >= at) /\ (l < at' => l < at)
      BY <1>1, <1>2, <2>1, <2>3
    <3>3. LayerInv(l)'
      BY <1>1, <2>1, <3>1, Zenon DEF LayerInv
    <3>4. LoopInv(l)'
      BY <1>1, <2>1, <3>1, <3>2, Zenon DEF LoopInv
    <3> QED
      BY <3>3, <3>4
  <2> QED
    BY <2>2, <2>3
<1>6. PhaseInv' /\ NoSpuriousAbort'
  <2>1. at' > cursor'
    BY <1>1, <1>2
  <2> QED
    BY <1>1, <1>5, <2>1, Zenon DEF IInv, PhaseInv, NoSpuriousAbort
<1> QED
  BY <1>3, <1>4, <1>5, <1>6 DEF IInv

\* One turn of the READ loop: the layer has its memory.
LEMMA ReadOnlyStep == ASSUME IInv, ReadOnly PROVE IInv'
<1>1. /\ pc = "read_only" /\ at < NumLayers /\ at' = at + 1
      /\ read' = [read EXCEPT ![at] = "queued"]
      /\ UNCHANGED <<slots, curN, held, data, cursor, nUnload, dump, sync, pc, crashes, size, alloc, promise>>
  BY DEF ReadOnly, buffers
<1>2. /\ at \in Layers /\ at > cursor /\ cursor \in Int /\ at \in Int
      /\ LoopInv(at) /\ LayerInv(at)
  BY <1>1, WeightAssumption DEF IInv, TypeOK, PhaseInv, Layers
<1>3. TypeOK'
  <2>1. at' \in 0 .. NumLayers
    BY <1>1, <1>2, WeightAssumption DEF Layers
  <2>2. /\ alloc' \in [Layers -> {"no", "queued", "held", "done"}]
        /\ read' \in [Layers -> {"no", "queued", "open", "done"}]
        /\ promise' \in [Layers -> {"none", "pending", "set"}]
    BY <1>1, Zenon DEF IInv, TypeOK
  <2> QED
    BY <1>1, <2>1, <2>2, Zenon DEF IInv, TypeOK
<1>4. OneOwner' /\ CountExact' /\ SlotsSuffice'
  <2>1. \A l \in Layers : alloc'[l] = "held" <=> alloc[l] = "held"
    BY <1>1, <1>2 DEF IInv, TypeOK, LoopInv
  <2> QED
    BY <1>1, <2>1, SameBuffers, Zenon DEF IInv
<1>5. ASSUME NEW l \in Layers PROVE LayerInv(l)' /\ LoopInv(l)'
  <2>1. LayerInv(l) /\ LoopInv(l) /\ l \in Int
    BY <1>1 DEF IInv, PhaseInv, Layers
  <2>2. CASE l = at
    <3>1. /\ alloc'[l] = alloc[l] /\ promise'[l] = promise[l]
          /\ read'[l] = "queued"
          /\ l > cursor' /\ l < at' /\ ~ (l <= cursor') /\ ~ (l >= at')
      BY <1>1, <1>2, <2>2 DEF IInv, TypeOK
    <3>2. LayerInv(l)'
      BY <1>1, <1>2, <2>1, <2>2, <3>1 DEF LayerInv, LoopInv
    <3>3. LoopInv(l)'
      BY <1>1, <1>2, <2>1, <2>2, <3>1 DEF LoopInv
    <3> QED
      BY <3>2, <3>3
  <2>3. CASE l # at
    <3>1. /\ alloc'[l] = alloc[l] /\ promise'[l] = promise[l] /\ read'[l] = read[l]
      BY <1>1, <2>3 DEF IInv, TypeOK
    <3>2. (l >= at' => l >= at) /\ (l < at' => l < at)
      BY <1>1, <1>2, <2>1, <2>3
    <3>3. LayerInv(l)'
      BY <1>1, <2>1, <3>1, Zenon DEF LayerInv
    <3>4. LoopInv(l)'
      BY <1>1, <2>1, <3>1, <3>2, Zenon DEF LoopInv
    <3> QED
      BY <3>3, <3>4
  <2> QED
    BY <2>2, <2>3
<1>6. PhaseInv' /\ NoSpuriousAbort'
  <2>1. at' > cursor'
    BY <1>1, <1>2
  <2> QED
    BY <1>1, <1>5, <2>1, Zenon DEF IInv, PhaseInv, NoSpuriousAbort
<1> QED
  BY <1>3, <1>4, <1>5, <1>6 DEF IInv

\* The loop of mzcache_reload_w_layers ends.
LEMMA EnqueueEndStep == ASSUME IInv, EnqueueEnd PROVE IInv'
<1>1. /\ pc = "reload" /\ pc' = "finish" /\ at = NumLayers /\ cursor' = NumLayers - 1
      /\ UNCHANGED <<slots, curN, held, data, nUnload, dump, alloc, read, promise, sync, at, crashes, size>>
  BY DEF EnqueueEnd, buffers, tasks
<1>2. TypeOK'
  <2>1. cursor' \in -1 .. NumLayers - 1
    BY <1>1, WeightAssumption
  <2> QED
    BY <1>1, <2>1, Zenon DEF IInv, TypeOK
<1>3. OneOwner' /\ CountExact' /\ SlotsSuffice'
  BY <1>1, SameBuffers, Zenon DEF IInv
<1>4. ASSUME NEW l \in Layers PROVE LayerInv(l)' /\ (sync'[l] = 0 => data'[l] = "own")
  <2>1. LayerInv(l) /\ LoopInv(l) /\ l \in Int /\ cursor \in Int
    BY <1>1 DEF IInv, PhaseInv, Layers, TypeOK
  <2>2. LayerInv(l)'
    BY <1>1, <2>1, Zenon DEF LayerInv
  <2>3. l > cursor \/ l <= cursor
    BY <2>1
  <2>4. sync[l] = 0 => data[l] = "own"
    BY <2>1, <2>3 DEF LoopInv
  <2> QED
    BY <1>1, <2>2, <2>4
<1>5. PhaseInv' /\ NoSpuriousAbort'
  BY <1>1, <1>4, Zenon DEF IInv, PhaseInv, NoSpuriousAbort
<1> QED
  BY <1>2, <1>3, <1>4, <1>5 DEF IInv

\* The READ group is idle.
LEMMA ReadOnlyEndStep == ASSUME IInv, ReadOnlyEnd PROVE IInv'
<1>1. /\ pc = "read_only" /\ pc' = "finish" /\ at = NumLayers /\ cursor' = NumLayers - 1
      /\ UNCHANGED <<slots, curN, held, data, nUnload, dump, alloc, read, promise, sync, at, crashes, size>>
  BY DEF ReadOnlyEnd, buffers, tasks
<1>2. TypeOK'
  <2>1. cursor' \in -1 .. NumLayers - 1
    BY <1>1, WeightAssumption
  <2> QED
    BY <1>1, <2>1, Zenon DEF IInv, TypeOK
<1>3. OneOwner' /\ CountExact' /\ SlotsSuffice'
  BY <1>1, SameBuffers, Zenon DEF IInv
<1>4. ASSUME NEW l \in Layers PROVE LayerInv(l)' /\ (sync'[l] = 0 => data'[l] = "own")
  <2>1. LayerInv(l) /\ LoopInv(l) /\ l \in Int /\ cursor \in Int
    BY <1>1 DEF IInv, PhaseInv, Layers, TypeOK
  <2>2. LayerInv(l)'
    BY <1>1, <2>1, Zenon DEF LayerInv
  <2>3. l > cursor \/ l <= cursor
    BY <2>1
  <2>4. sync[l] = 0 => data[l] = "own"
    BY <2>1, <2>3 DEF LoopInv
  <2> QED
    BY <1>1, <2>2, <2>4
<1>5. PhaseInv' /\ NoSpuriousAbort'
  BY <1>1, <1>4, Zenon DEF IInv, PhaseInv, NoSpuriousAbort
<1> QED
  BY <1>2, <1>3, <1>4, <1>5 DEF IInv

\* Every allocation has been waited for: the ALLOC tasks are done.
LEMMA AllocOnlyEndStep == ASSUME IInv, AllocOnlyEnd PROVE IInv'
<1>1. /\ pc = "alloc_only" /\ pc' = "read_only" /\ at = NumLayers /\ at' = cursor + 1
      /\ \A l \in Layers : l > cursor => promise[l] = "set"
      /\ UNCHANGED <<slots, curN, held, data, cursor, nUnload, dump, alloc, read, promise, sync, crashes, size>>
      /\ cursor \in -1 .. NumLayers - 1
  BY DEF AllocOnlyEnd, buffers, tasks, IInv, TypeOK
<1>2. TypeOK'
  <2>1. at' \in 0 .. NumLayers
    BY <1>1, WeightAssumption
  <2> QED
    BY <1>1, <2>1, Zenon DEF IInv, TypeOK
<1>3. OneOwner' /\ CountExact' /\ SlotsSuffice'
  BY <1>1, SameBuffers, Zenon DEF IInv
<1>4. ASSUME NEW l \in Layers PROVE LayerInv(l)' /\ LoopInv(l)'
  <2>1. LayerInv(l) /\ LoopInv(l) /\ l \in Int /\ l < at
    BY <1>1, WeightAssumption DEF IInv, PhaseInv, Layers
  <2>2. LayerInv(l)'
    BY <1>1, <2>1, Zenon DEF LayerInv
  <2>3. l > cursor => alloc[l] = "done"
    <3>1. alloc[l] \in {"no", "queued", "held", "done"}
      BY DEF IInv, TypeOK
    <3> QED
      BY <1>1, <2>1, <3>1 DEF LayerInv, LoopInv
  <2>4. LoopInv(l)'
    BY <1>1, <2>1, <2>3, Zenon DEF LoopInv
  <2> QED
    BY <2>2, <2>4
<1>5. PhaseInv' /\ NoSpuriousAbort'
  <2>1. at' > cursor'
    BY <1>1
  <2> QED
    BY <1>1, <1>4, <2>1, Zenon DEF IInv, PhaseInv, NoSpuriousAbort
<1> QED
  BY <1>2, <1>3, <1>4, <1>5 DEF IInv

\* The swap-in is over: every layer has its weights.
LEMMA FinishStep == ASSUME IInv, FinishSwapinCycle PROVE IInv'
<1>1. /\ pc = "finish" /\ pc' = "idle" /\ nUnload' = 0
      /\ \A l \in Layers : sync[l] = 0 /\ alloc[l] \in {"no", "done"} /\ read[l] \in {"no", "done"}
      /\ alloc' = [l \in Layers |-> "no"] /\ read' = [l \in Layers |-> "no"]
      /\ UNCHANGED <<slots, curN, held, data, cursor, dump, promise, sync, at, crashes, size>>
  BY DEF FinishSwapinCycle, buffers
<1>2. cursor = NumLayers - 1 /\ \A l \in Layers : data[l] = "own"
  BY <1>1 DEF IInv, PhaseInv
<1>3. TypeOK'
  <2>1. nUnload' \in 0 .. NumLayers
    BY <1>1, WeightAssumption
  <2>2. /\ alloc' \in [Layers -> {"no", "queued", "held", "done"}]
        /\ read' \in [Layers -> {"no", "queued", "open", "done"}]
    BY <1>1
  <2> QED
    BY <1>1, <2>1, <2>2, Zenon DEF IInv, TypeOK
<1>4. OneOwner' /\ CountExact' /\ SlotsSuffice'
  <2>1. \A l \in Layers : alloc'[l] = "held" <=> alloc[l] = "held"
    BY <1>1
  <2> QED
    BY <1>1, <2>1, SameBuffers, Zenon DEF IInv
<1>5. ASSUME NEW l \in Layers PROVE LayerInv(l)' /\ IdleInv(l)'
  <2>1. LayerInv(l) /\ l <= cursor /\ data[l] = "own"
    BY <1>2, WeightAssumption DEF IInv, Layers
  <2>2. alloc'[l] = "no" /\ read'[l] = "no"
    BY <1>1
  <2>3. LayerInv(l)'
    BY <1>1, <2>1, <2>2 DEF LayerInv
  <2>4. IdleInv(l)'
    BY <1>1, <2>1, <2>2 DEF IdleInv
  <2> QED
    BY <2>3, <2>4
<1>6. PhaseInv' /\ NoSpuriousAbort'
  <2>1. nUnload' = NumLayers - 1 - cursor'
    BY <1>1, <1>2, WeightAssumption
  <2> QED
    BY <1>1, <1>5, <2>1, Zenon DEF IInv, PhaseInv, NoSpuriousAbort
<1> QED
  BY <1>3, <1>4, <1>5, <1>6 DEF IInv

-----------------------------------------------------------------------------
(* The workers.                                                            *)

\* A stop of the process with the right to stop.
LEMMA StopStep ==
  ASSUME IInv, Abort, \E l \in Layers : size[l] # "same" \/ dump[l] = "part"
  PROVE  IInv'
<1>1. /\ pc' = "dead"
      /\ UNCHANGED <<slots, curN, held, data, cursor, nUnload, dump, alloc, read, promise, sync, at, crashes, size>>
  BY DEF Abort, buffers, tasks
<1>2. TypeOK'
  BY <1>1, Zenon DEF IInv, TypeOK
<1>3. OneOwner' /\ CountExact' /\ SlotsSuffice'
  BY <1>1, SameBuffers, Zenon DEF IInv
<1>4. \A l \in Layers : LayerInv(l)'
  BY <1>1, Zenon DEF IInv, LayerInv
<1>5. PhaseInv' /\ NoSpuriousAbort'
  BY <1>1 DEF PhaseInv, NoSpuriousAbort
<1> QED
  BY <1>2, <1>3, <1>4, <1>5 DEF IInv

\* No memory: the process stops.
LEMMA AllocFailsStep == ASSUME IInv, NEW l \in Layers, AllocFails(l) PROVE IInv'
<1>1. /\ pc' = "out_of_memory"
      /\ UNCHANGED <<slots, curN, held, data, cursor, nUnload, dump, alloc, read, promise, sync, at, crashes, size>>
  BY DEF AllocFails, buffers, tasks
<1>2. TypeOK'
  BY <1>1, Zenon DEF IInv, TypeOK
<1>3. OneOwner' /\ CountExact' /\ SlotsSuffice'
  BY <1>1, SameBuffers, Zenon DEF IInv
<1>4. \A k \in Layers : LayerInv(k)'
  BY <1>1, Zenon DEF IInv, LayerInv
<1>5. PhaseInv' /\ NoSpuriousAbort'
  BY <1>1 DEF PhaseInv, NoSpuriousAbort
<1> QED
  BY <1>2, <1>3, <1>4, <1>5 DEF IInv

\* A READ worker opens a dump, which is there.
LEMMA OpenDumpStep == ASSUME IInv, NEW l \in Layers, OpenDump(l) PROVE IInv'
<1>1. read[l] = "queued" /\ LayerInv(l)
  BY DEF OpenDump, First, IInv
<1>2. /\ read' = [read EXCEPT ![l] = "open"]
      /\ UNCHANGED <<slots, curN, held, data, cursor, nUnload, dump, alloc, promise, sync, pc, at, crashes, size>>
  BY <1>1 DEF OpenDump, Dumped, LayerInv, buffers
<1>3. /\ read'[l] = "open"
      /\ \A k \in Layers : k # l => read'[k] = read[k]
      /\ read' \in [Layers -> {"no", "queued", "open", "done"}]
  BY <1>2, Zenon DEF IInv, TypeOK
<1>4. TypeOK'
  BY <1>2, <1>3, Zenon DEF IInv, TypeOK
<1>5. OneOwner' /\ CountExact' /\ SlotsSuffice'
  BY <1>2, SameBuffers, Zenon DEF IInv
<1>6. ASSUME NEW k \in Layers
      PROVE  LayerInv(k)' /\ (IdleInv(k) => IdleInv(k)') /\ (LoopInv(k) => LoopInv(k)')
  <2>1. LayerInv(k)
    BY DEF IInv
  <2>2. CASE k = l
    BY <1>1, <1>2, <1>3, <2>1, <2>2 DEF LayerInv, IdleInv, LoopInv
  <2>3. CASE k # l
    <3>1. read'[k] = read[k]
      BY <1>3, <2>3
    <3> QED
      BY <1>2, <2>1, <3>1, Zenon DEF LayerInv, IdleInv, LoopInv
  <2> QED
    BY <2>2, <2>3
<1>7. PhaseInv' /\ NoSpuriousAbort'
  BY <1>2, <1>6, Zenon DEF IInv, PhaseInv, NoSpuriousAbort
<1> QED
  BY <1>4, <1>5, <1>6, <1>7 DEF IInv

\* A READ worker reads a dump into the layer's memory.  The promise it waited for
\* says the allocation is over, so what it writes to is among the children.
LEMMA ReadLayerStep == ASSUME IInv, NEW l \in Layers, ReadLayer(l) PROVE IInv'
<1>1. read[l] = "open" /\ promise[l] # "pending" /\ LayerInv(l)
  BY Zenon DEF ReadLayer, IInv
<1>2. alloc[l] = "done" /\ Allocated(l) /\ held[l] # {} /\ sync[l] = 1 /\ data[l] # "none" /\ dump[l] # "none"
  <2>1. alloc[l] \in {"no", "queued", "held", "done"}
    BY Zenon DEF IInv, TypeOK
  <2> QED
    BY <1>1, <2>1 DEF LayerInv, Allocated
<1>3. CASE ~ ReadsInFull(l)
  <2>1. size[l] # "same" \/ dump[l] = "part"
    <3>1. dump[l] \in {"none", "part", "whole"}
      BY Zenon DEF IInv, TypeOK
    <3> QED
      BY <1>2, <1>3, <3>1 DEF ReadsInFull
  <2>2. Abort
    BY <1>3 DEF ReadLayer
  <2> QED
    BY <2>1, <2>2, StopStep
<1>4. CASE ReadsInFull(l)
  <2>1. held[l] \subseteq Children
    BY <1>2 DEF IInv, OneOwner
  <2>2. /\ data' = [data EXCEPT ![l] = "own"]
        /\ sync' = [sync EXCEPT ![l] = sync[l] - 1]
        /\ read' = [read EXCEPT ![l] = "done"]
        /\ UNCHANGED <<slots, curN, held, cursor, nUnload, dump, alloc, promise, pc, at, crashes, size>>
    BY <1>2, <1>4, <2>1 DEF ReadLayer
  <2>3. /\ data' \in [Layers -> {"own", "blank", "none"}] /\ data'[l] = "own"
        /\ read' \in [Layers -> {"no", "queued", "open", "done"}] /\ read'[l] = "done"
        /\ \A k \in Layers : k # l => data'[k] = data[k] /\ read'[k] = read[k]
    BY <2>2, Zenon DEF IInv, TypeOK
  <2>4. /\ sync' \in [Layers -> 0 .. 1] /\ sync'[l] = 0
        /\ \A k \in Layers : k # l => sync'[k] = sync[k]
    BY <1>2, <2>2 DEF IInv, TypeOK
  <2>5. TypeOK'
    BY <2>2, <2>3, <2>4, Zenon DEF IInv, TypeOK
  <2>6. OneOwner' /\ CountExact' /\ SlotsSuffice'
    BY <2>2, SameBuffers, Zenon DEF IInv
  <2>7. ASSUME NEW k \in Layers
        PROVE  /\ LayerInv(k)' /\ (IdleInv(k) => IdleInv(k)') /\ (LoopInv(k) => LoopInv(k)')
               /\ (sync[k] = 0 => data[k] = "own") => (sync'[k] = 0 => data'[k] = "own")
    <3>1. LayerInv(k)
      BY DEF IInv
    <3>2. CASE k = l
      <4>1. LayerInv(l)'
        BY <1>1, <1>2, <2>2, <2>3, <2>4 DEF LayerInv
      <4>2. ~ IdleInv(l)
        BY <1>1 DEF IdleInv
      <4>3. LoopInv(l) => LoopInv(l)'
        BY <1>1, <1>2, <2>2, <2>3, <2>4 DEF LoopInv
      <4> QED
        BY <3>2, <4>1, <4>2, <4>3, <2>3
    <3>3. CASE k # l
      <4>1. data'[k] = data[k] /\ read'[k] = read[k] /\ sync'[k] = sync[k]
        BY <2>3, <2>4, <3>3
      <4> QED
        BY <2>2, <3>1, <4>1, Zenon DEF LayerInv, IdleInv, LoopInv
    <3> QED
      BY <3>2, <3>3
  <2>8. PhaseInv' /\ NoSpuriousAbort'
    BY <2>2, <2>7, Zenon DEF IInv, PhaseInv, NoSpuriousAbort
  <2> QED
    BY <2>5, <2>6, <2>7, <2>8 DEF IInv
<1> QED
  BY <1>3, <1>4

\* An ALLOC worker gets a buffer nobody has.
LEMMA AllocRangeStep == ASSUME IInv, NEW l \in Layers, AllocRange(l) PROVE IInv'
<1>1. alloc[l] = "queued" /\ LayerInv(l)
  BY Zenon DEF AllocRange, First, IInv
<1>2. held[l] = {} /\ promise[l] = "pending" /\ data[l] = "none" /\ dump[l] # "none"
  BY <1>1 DEF LayerInv
<1>3. CASE size[l] = "larger"
  BY <1>3, StopStep DEF AllocRange
<1>4. CASE size[l] # "larger"
  <2>1. PICK b \in Buffers \ (Children \union InFlight) :
             /\ held' = [held EXCEPT ![l] = {b}]
             /\ data' = [data EXCEPT ![l] = "blank"]
             /\ alloc' = [alloc EXCEPT ![l] = "held"]
             /\ UNCHANGED <<slots, curN, cursor, nUnload, dump, read, promise, sync, pc, at, crashes, size>>
    BY <1>4 DEF AllocRange
  <2>2. /\ data' \in [Layers -> {"own", "blank", "none"}] /\ data'[l] = "blank"
        /\ alloc' \in [Layers -> {"no", "queued", "held", "done"}] /\ alloc'[l] = "held"
        /\ held' \in [Layers -> SUBSET Buffers] /\ held'[l] = {b}
        /\ \A k \in Layers : k # l => data'[k] = data[k] /\ alloc'[k] = alloc[k] /\ held'[k] = held[k]
    BY <2>1, Zenon DEF IInv, TypeOK
  <2>3. TypeOK'
    BY <2>1, <2>2, Zenon DEF IInv, TypeOK
  <2>4. Children' = Children /\ Free' = Free
    BY <2>1 DEF Children, Free
  <2>5. \A k \in Layers : k # l => b \notin held[k]
    <3>1. \A k \in Layers : alloc[k] = "held" => held[k] \subseteq InFlight
      BY Zenon DEF InFlight
    <3>2. \A k \in Layers : alloc[k] # "held" => held[k] \subseteq Children
      BY DEF IInv, OneOwner
    <3> QED
      BY <2>1, <3>1, <3>2
  <2>6. OneOwner'
    <3>1. \A i, j \in Slots : slots'[i] = slots'[j] /\ slots'[i] # NoBuffer => i = j
      BY <2>1, Zenon DEF IInv, OneOwner
    <3>2. \A j, k \in Layers : j # k => held'[j] \intersect held'[k] = {}
      <4>1. \A j, k \in Layers : j # k => held[j] \intersect held[k] = {}
        BY DEF IInv, OneOwner
      <4> QED
        BY <2>2, <2>5, <4>1
    <3>3. ASSUME NEW k \in Layers
          PROVE  IF alloc'[k] = "held" THEN held'[k] \intersect Children' = {}
                                       ELSE held'[k] \subseteq Children'
      <4>1. CASE k = l
        BY <2>1, <2>2, <2>4, <4>1
      <4>2. CASE k # l
        BY <2>2, <2>4, <4>2 DEF IInv, OneOwner
      <4> QED
        BY <4>1, <4>2
    <3> QED
      BY <3>1, <3>2, <3>3, Zenon DEF OneOwner
  <2>7. Detached' = Detached
    <3>1. ASSUME NEW k \in Layers
          PROVE  (held'[k] # {} /\ held'[k] \subseteq Children') <=> (held[k] # {} /\ held[k] \subseteq Children)
      <4>1. CASE k = l
        BY <1>2, <2>1, <2>2, <2>4, <4>1
      <4>2. CASE k # l
        BY <2>2, <2>4, <4>2
      <4> QED
        BY <4>1, <4>2
    <3> QED
      BY <3>1, Zenon DEF Detached
  <2>8. CountExact' /\ SlotsSuffice'
    BY <2>1, <2>4, <2>7, Zenon DEF IInv, CountExact, SlotsSuffice
  <2>9. ASSUME NEW k \in Layers
        PROVE  /\ LayerInv(k)' /\ (IdleInv(k) => IdleInv(k)') /\ (LoopInv(k) => LoopInv(k)')
               /\ (sync[k] = 0 => data[k] = "own") => (sync'[k] = 0 => data'[k] = "own")
    <3>1. LayerInv(k)
      BY DEF IInv
    <3>2. CASE k = l
      <4>1. LayerInv(l)'
        BY <1>1, <1>2, <2>1, <2>2 DEF LayerInv
      <4>2. ~ IdleInv(l)
        BY <1>1 DEF IdleInv
      <4>3. LoopInv(l) => LoopInv(l)'
        BY <1>1, <1>2, <2>1, <2>2 DEF LoopInv
      <4> QED
        BY <1>2, <2>1, <3>2, <4>1, <4>2, <4>3
    <3>3. CASE k # l
      <4>1. data'[k] = data[k] /\ alloc'[k] = alloc[k] /\ held'[k] = held[k]
        BY <2>2, <3>3
      <4> QED
        BY <2>1, <3>1, <4>1, Zenon DEF LayerInv, IdleInv, LoopInv
    <3> QED
      BY <3>2, <3>3
  <2>10. PhaseInv' /\ NoSpuriousAbort'
    BY <2>1, <2>9, Zenon DEF IInv, PhaseInv, NoSpuriousAbort
  <2> QED
    BY <2>3, <2>6, <2>8, <2>9, <2>10 DEF IInv
<1> QED
  BY <1>3, <1>4

\* An ALLOC worker inserts its buffer.  There is room: the layer itself is out of
\* the multi-buffer, so one slot at least is free.
LEMMA ConcatStep == ASSUME IInv, NEW l \in Layers, Concat(l) PROVE IInv'
<1>1. alloc[l] = "held" /\ LayerInv(l) /\ held[l] \intersect Children = {}
  BY Zenon DEF Concat, IInv, OneOwner
<1>2. PICK b \in Buffers : held[l] = {b}
  BY <1>1, Zenon DEF LayerInv
<1>3. l \in Detached /\ b \notin Children
  BY <1>1, <1>2 DEF Detached
<1>4. Free # {}
  <2>1. Detached # {}
    BY <1>3
  <2>2. Cardinality(Detached) # 0
    BY <2>1, Counts, FS_EmptySet, Zenon
  <2>3. Cardinality(Free) # 0
    BY <2>2, Counts DEF IInv, SlotsSuffice
  <2> QED
    BY <2>3, FS_EmptySet, Zenon
<1>5. PICK i \in Free : slots' = [slots EXCEPT ![i] = b] /\ curN' = curN + 1
  BY <1>2, <1>4 DEF Concat, Target, Counted
<1>6. /\ alloc' = [alloc EXCEPT ![l] = "done"] /\ promise' = [promise EXCEPT ![l] = "set"]
      /\ UNCHANGED <<held, data, cursor, nUnload, dump, read, sync, pc, at, crashes, size>>
  BY DEF Concat
<1>7. /\ alloc' \in [Layers -> {"no", "queued", "held", "done"}] /\ alloc'[l] = "done"
      /\ promise' \in [Layers -> {"none", "pending", "set"}] /\ promise'[l] = "set"
      /\ \A k \in Layers : k # l => alloc'[k] = alloc[k] /\ promise'[k] = promise[k]
  BY <1>6, Zenon DEF IInv, TypeOK
<1>8. /\ i \in Slots /\ slots[i] = NoBuffer /\ slots'[i] = b
      /\ \A j \in Slots : j # i => slots'[j] = slots[j]
      /\ slots' \in [Slots -> Buffers \union {NoBuffer}]
  BY <1>5, Zenon DEF IInv, TypeOK, Free
<1>9. TypeOK'
  <2>1. curN' \in Nat
    BY <1>5 DEF IInv, TypeOK
  <2> QED
    BY <1>6, <1>7, <1>8, <2>1, Zenon DEF IInv, TypeOK
<1>10. b # NoBuffer
  BY Finite
<1>11. Children' = Children \union {b}
  BY <1>8, <1>10, Zenon DEF Children
<1>12. Free' = Free \ {i}
  BY <1>8, <1>10, Zenon DEF Free
<1>13. OneOwner'
  <2>1. \A j \in Slots : slots[j] # b
    BY <1>3, <1>10 DEF Children
  <2>2. \A j, k \in Slots : slots'[j] = slots'[k] /\ slots'[j] # NoBuffer => j = k
    <3>1. \A j, k \in Slots : slots[j] = slots[k] /\ slots[j] # NoBuffer => j = k
      BY DEF IInv, OneOwner
    <3> QED
      BY <1>8, <2>1, <3>1, Zenon
  <2>3. \A j, k \in Layers : j # k => held'[j] \intersect held'[k] = {}
    BY <1>6, Zenon DEF IInv, OneOwner
  <2>4. ASSUME NEW k \in Layers
        PROVE  IF alloc'[k] = "held" THEN held'[k] \intersect Children' = {}
                                     ELSE held'[k] \subseteq Children'
    <3>1. CASE k = l
      BY <1>2, <1>6, <1>7, <1>11, <3>1
    <3>2. CASE k # l
      <4>1. b \notin held[k]
        BY <1>2, <3>2 DEF IInv, OneOwner
      <4>2. IF alloc[k] = "held" THEN held[k] \intersect Children = {} ELSE held[k] \subseteq Children
        BY DEF IInv, OneOwner
      <4> QED
        BY <1>6, <1>7, <1>11, <3>2, <4>1, <4>2
    <3> QED
      BY <3>1, <3>2
  <2> QED
    BY <2>2, <2>3, <2>4, Zenon DEF OneOwner
<1>14. Detached' = Detached \ {l}
  <2>1. ASSUME NEW k \in Layers, k # l
        PROVE  (held'[k] # {} /\ held'[k] \subseteq Children') <=> (held[k] # {} /\ held[k] \subseteq Children)
    <3>1. b \notin held[k]
      BY <1>2, <2>1 DEF IInv, OneOwner
    <3> QED
      BY <1>6, <1>11, <3>1
  <2>2. held'[l] # {} /\ held'[l] \subseteq Children'
    BY <1>2, <1>6, <1>11
  <2> QED
    BY <2>1, <2>2, Zenon DEF Detached
<1>15. CountExact'
  <2>1. Slots \ Free' = (Slots \ Free) \union {i} /\ i \notin Slots \ Free
    BY <1>5, <1>8, <1>12
  <2>2. Cardinality(Slots \ Free') = Cardinality(Slots \ Free) + 1
    BY <2>1, Counts, FS_AddElement, Zenon
  <2> QED
    BY <1>5, <2>2 DEF CountExact, IInv
<1>16. SlotsSuffice'
  <2>1. Cardinality(Free') = Cardinality(Free) - 1
    BY <1>12, Counts, FS_RemoveElement, Zenon
  <2>2. Cardinality(Detached') = Cardinality(Detached) - 1
    BY <1>3, <1>14, Counts, FS_RemoveElement, Zenon
  <2> QED
    BY <2>1, <2>2, Counts DEF SlotsSuffice, IInv
<1>17. ASSUME NEW k \in Layers
       PROVE  LayerInv(k)' /\ (IdleInv(k) => IdleInv(k)') /\ (LoopInv(k) => LoopInv(k)')
  <2>1. LayerInv(k)
    BY DEF IInv
  <2>2. CASE k = l
    <3>1. LayerInv(l)'
      BY <1>1, <1>2, <1>6, <1>7 DEF LayerInv
    <3>2. ~ IdleInv(l)
      BY <1>1 DEF IdleInv
    <3>3. LoopInv(l) => LoopInv(l)'
      BY <1>1, <1>6, <1>7 DEF LoopInv
    <3> QED
      BY <2>2, <3>1, <3>2, <3>3
  <2>3. CASE k # l
    <3>1. alloc'[k] = alloc[k] /\ promise'[k] = promise[k]
      BY <1>7, <2>3
    <3> QED
      BY <1>6, <2>1, <3>1, Zenon DEF LayerInv, IdleInv, LoopInv
  <2> QED
    BY <2>2, <2>3
<1>18. PhaseInv' /\ NoSpuriousAbort'
  BY <1>6, <1>17, Zenon DEF IInv, PhaseInv, NoSpuriousAbort
<1> QED
  BY <1>9, <1>13, <1>15, <1>16, <1>17, <1>18 DEF IInv

\* A layer is unloaded: its buffers, each in one slot, are freed.
LEMMA UnloadStep == ASSUME IInv, UnloadLayer PROVE IInv'
<1>0. PICK l \in Layers : l = cursor
  BY WeightAssumption DEF UnloadLayer, IInv, TypeOK, Layers
<1> DEFINE B == held[l]
           S == {i \in Slots : slots[i] \in B}
<1>1. /\ pc = "idle" /\ l \in Layers /\ dump[l] # "none" /\ B \subseteq Children
      /\ slots' = Emptied(B) /\ curN' = curN - Cardinality(B)
      /\ held' = [held EXCEPT ![l] = {}] /\ data' = [data EXCEPT ![l] = "none"]
      /\ cursor' = l - 1 /\ nUnload' = nUnload + 1
      /\ UNCHANGED <<dump, alloc, read, promise, sync, pc, at, crashes, size>>
  BY <1>0 DEF UnloadLayer, Dumped, tasks
<1>2. IdleInv(l) /\ LayerInv(l) /\ l \in Int
  BY <1>1 DEF IInv, PhaseInv, Layers
<1>3. B # {} /\ B \subseteq Buffers /\ alloc[l] = "no"
  <2>1. data[l] = "own"
    BY <1>0, <1>2 DEF IdleInv
  <2> QED
    BY <1>1, <1>2, <2>1 DEF LayerInv, IdleInv, IInv, TypeOK
<1>4. /\ held' \in [Layers -> SUBSET Buffers] /\ held'[l] = {}
      /\ data' \in [Layers -> {"own", "blank", "none"}] /\ data'[l] = "none"
      /\ \A k \in Layers : k # l => held'[k] = held[k] /\ data'[k] = data[k]
  BY <1>1, Zenon DEF IInv, TypeOK
<1>5. /\ slots' \in [Slots -> Buffers \union {NoBuffer}]
      /\ \A i \in S : slots'[i] = NoBuffer
      /\ \A i \in Slots \ S : slots'[i] = slots[i]
  BY <1>1 DEF IInv, TypeOK, Emptied
<1>6. Children' = Children \ B
  BY <1>5, Zenon DEF Children
<1>7. Free' = Free \union S
  BY <1>5, Zenon DEF Free
<1>8. S \intersect Free = {} /\ S \subseteq Slots /\ S # {}
  <2>1. S \intersect Free = {}
    BY <1>3, Finite DEF Free
  <2>2. S # {}
    BY <1>1, <1>3, Zenon DEF Children
  <2> QED
    BY <2>1, <2>2
<1>9. IsFiniteSet(S) /\ Cardinality(S) \in Nat /\ Cardinality(S) >= 1 /\ Cardinality(B) = Cardinality(S)
  <2>1. IsFiniteSet(S)
    BY <1>8, Finite, FS_Subset, Zenon
  <2>2. Cardinality(S) \in Nat /\ Cardinality(S) # 0
    BY <1>8, <2>1, FS_CardinalityType, FS_EmptySet, Zenon
  <2>3. ExistsBijection(S, B)
    <3> DEFINE f == [i \in S |-> slots[i]]
    <3>1. f \in [S -> B] /\ \A i \in S : f[i] = slots[i]
      OBVIOUS
    <3>2. ASSUME NEW i \in S, NEW j \in S, f[i] = f[j] PROVE i = j
      <4>1. slots[i] = slots[j] /\ slots[i] # NoBuffer
        BY <1>3, <3>1, <3>2, Finite
      <4> QED
        BY <4>1 DEF IInv, OneOwner
    <3>3. ASSUME NEW b \in B PROVE \E i \in S : f[i] = b
      <4>1. PICK i \in Slots : slots[i] = b
        BY <1>1 DEF Children
      <4> QED
        BY <3>1, <4>1
    <3> HIDE DEF f
    <3>4. f \in Injection(S, B) /\ f \in Surjection(S, B)
      BY <3>1, <3>2, <3>3 DEF Injection, Surjection, IsInjective
    <3> QED
      BY <3>4, Zenon DEF ExistsBijection, Bijection
  <2> QED
    BY <2>1, <2>2, <2>3, FS_Bijection
<1> HIDE DEF S
<1>10. CountExact' /\ curN' \in Nat
  <2>1. Slots \ Free' = (Slots \ Free) \ S /\ (Slots \ Free) \intersect S = S
    BY <1>7, <1>8
  <2>2. Cardinality(Slots \ Free') = Cardinality(Slots \ Free) - Cardinality(S)
    <3>1. Cardinality((Slots \ Free) \ S) = Cardinality(Slots \ Free) - Cardinality((Slots \ Free) \intersect S)
      BY Counts, FS_Difference, Zenon
    <3> QED
      BY <2>1, <3>1, Zenon
  <2>3. IsFiniteSet(Slots \ Free') /\ Cardinality(Slots \ Free') \in Nat
    BY <2>1, Counts, FS_Difference, FS_CardinalityType, Zenon
  <2>4. curN = Cardinality(Slots \ Free)
    BY DEF IInv, CountExact
  <2>5. curN' = Cardinality(Slots \ Free')
    BY <1>1, <1>9, <2>2, <2>4
  <2> QED
    BY <2>3, <2>5 DEF CountExact
<1>11. TypeOK'
  <2>1. cursor' \in -1 .. NumLayers - 1
    BY <1>1, WeightAssumption DEF Layers
  <2>2. nUnload' \in 0 .. NumLayers
    BY <1>0, <1>1, WeightAssumption DEF Layers, IInv, PhaseInv
  <2> QED
    BY <1>1, <1>4, <1>5, <1>10, <2>1, <2>2, Zenon DEF IInv, TypeOK
<1>12. \A k \in Layers : k # l => held[k] \intersect B = {}
  BY <1>1 DEF IInv, OneOwner
<1>13. OneOwner'
  <2>1. \A i, j \in Slots : slots'[i] = slots'[j] /\ slots'[i] # NoBuffer => i = j
    <3>1. \A i \in Slots : slots'[i] # NoBuffer => slots'[i] = slots[i]
      BY <1>5, Zenon
    <3>2. \A i, j \in Slots : slots[i] = slots[j] /\ slots[i] # NoBuffer => i = j
      BY DEF IInv, OneOwner
    <3> QED
      BY <3>1, <3>2, Zenon
  <2>2. \A j, k \in Layers : j # k => held'[j] \intersect held'[k] = {}
    <3>1. \A j, k \in Layers : j # k => held[j] \intersect held[k] = {}
      BY DEF IInv, OneOwner
    <3> QED
      BY <1>4, <3>1
  <2>3. ASSUME NEW k \in Layers
        PROVE  IF alloc'[k] = "held" THEN held'[k] \intersect Children' = {}
                                     ELSE held'[k] \subseteq Children'
    <3>1. CASE k = l
      BY <1>4, <3>1
    <3>2. CASE k # l
      <4>1. held'[k] = held[k] /\ held[k] \intersect B = {}
        BY <1>4, <1>12, <3>2
      <4>2. IF alloc[k] = "held" THEN held[k] \intersect Children = {} ELSE held[k] \subseteq Children
        BY DEF IInv, OneOwner
      <4> QED
        BY <1>1, <1>6, <4>1, <4>2
    <3> QED
      BY <3>1, <3>2
  <2> QED
    BY <2>1, <2>2, <2>3, Zenon DEF OneOwner
<1>14. Detached' = Detached \union {l} /\ l \notin Detached
  <2>1. ASSUME NEW k \in Layers, k # l
        PROVE  (held'[k] # {} /\ held'[k] \subseteq Children') <=> (held[k] # {} /\ held[k] \subseteq Children)
    <3>1. held'[k] = held[k] /\ held[k] \intersect B = {}
      BY <1>4, <1>12, <2>1
    <3> QED
      BY <1>6, <3>1
  <2>2. held'[l] = {} /\ held[l] # {} /\ held[l] \subseteq Children
    BY <1>1, <1>3, <1>4
  <2> QED
    BY <1>1, <2>1, <2>2, Zenon DEF Detached
<1>15. SlotsSuffice'
  <2>1. Cardinality(Free') = Cardinality(Free) + Cardinality(S)
    <3>1. Free \intersect S = {}
      BY <1>8
    <3>2. Cardinality(Free \union S) = Cardinality(Free) + Cardinality(S) - Cardinality(Free \intersect S)
      BY <1>9, Counts, FS_Union
    <3>3. Cardinality(Free \intersect S) = 0
      BY <3>1, FS_EmptySet, Zenon
    <3> QED
      BY <1>7, <1>9, <3>2, <3>3, Counts
  <2>2. Cardinality(Detached') = Cardinality(Detached) + 1
    BY <1>14, Counts, FS_AddElement, Zenon
  <2> QED
    BY <1>9, <2>1, <2>2, Counts DEF SlotsSuffice, IInv
<1>16. ASSUME NEW k \in Layers PROVE LayerInv(k)' /\ IdleInv(k)'
  <2>1. LayerInv(k) /\ IdleInv(k) /\ k \in Int
    BY <1>1 DEF IInv, PhaseInv, Layers
  <2>2. CASE k = l
    <3>1. LayerInv(l)'
      BY <1>1, <1>2, <1>4 DEF LayerInv, IdleInv
    <3>2. ~ (l <= cursor')
      BY <1>1, <1>2
    <3>3. IdleInv(l)'
      BY <1>1, <1>2, <1>4, <3>2 DEF IdleInv
    <3> QED
      BY <2>2, <3>1, <3>3
  <2>3. CASE k # l
    <3>1. held'[k] = held[k] /\ data'[k] = data[k]
      BY <1>4, <2>3
    <3>2. k <= cursor' <=> k <= cursor
      BY <1>0, <1>1, <1>2, <2>1, <2>3
    <3>3. IdleInv(k)'
      BY <1>1, <2>1, <3>1, <3>2 DEF IdleInv
    <3>4. LayerInv(k)'
      BY <1>1, <2>1, <3>1, Zenon DEF LayerInv
    <3> QED
      BY <3>3, <3>4
  <2> QED
    BY <2>2, <2>3
<1>17. PhaseInv' /\ NoSpuriousAbort'
  <2>1. nUnload' = NumLayers - 1 - cursor'
    BY <1>0, <1>1, <1>2, WeightAssumption DEF IInv, PhaseInv, TypeOK
  <2> QED
    BY <1>1, <1>16, <2>1, Zenon DEF PhaseInv, NoSpuriousAbort
<1> QED
  BY <1>10, <1>11, <1>13, <1>15, <1>16, <1>17 DEF IInv

\* No step: nothing changes.
LEMMA StutterStep == ASSUME IInv, UNCHANGED vars PROVE IInv'
<1>1. UNCHANGED <<slots, curN, held, data, cursor, nUnload, dump, alloc, read, promise, sync, pc, at, crashes, size>>
  BY DEF vars, buffers, tasks
<1>2. TypeOK'
  BY <1>1, Zenon DEF IInv, TypeOK
<1>3. OneOwner' /\ CountExact' /\ SlotsSuffice'
  BY <1>1, SameBuffers, Zenon DEF IInv
<1>4. \A l \in Layers : LayerInv(l)'
  BY <1>1, Zenon DEF IInv, LayerInv
<1>5. PhaseInv' /\ NoSpuriousAbort'
  BY <1>1, Zenon DEF IInv, PhaseInv, IdleInv, LoopInv, NoSpuriousAbort
<1> QED
  BY <1>2, <1>3, <1>4, <1>5 DEF IInv

\* Every step preserves the invariant.
LEMMA NextStep == ASSUME IInv, [Next]_vars PROVE IInv'
<1>1. CASE Tool
  BY <1>1, ToolStep
<1>2. CASE UnloadLayer
  BY <1>2, UnloadStep
<1>3. CASE SwapinStart
  BY <1>3, SwapinStartStep
<1>4. CASE Main
  BY <1>4, EnqueueLayerStep, EnqueueEndStep, AllocOnlyStep, AllocOnlyEndStep, ReadOnlyStep,
     ReadOnlyEndStep, FinishStep DEF Main
<1>5. ASSUME NEW l \in Layers, Worker(l) PROVE IInv'
  BY <1>5, AllocRangeStep, ConcatStep, OpenDumpStep, ReadLayerStep DEF Worker
<1>6. ASSUME NEW l \in Layers, AllocFails(l) PROVE IInv'
  BY <1>6, AllocFailsStep
<1>7. CASE UNCHANGED vars
  BY <1>7, StutterStep
<1> QED
  BY <1>1, <1>2, <1>3, <1>4, <1>5, <1>6, <1>7, Zenon DEF Next

-----------------------------------------------------------------------------
(* The theorems.                                                           *)

\* The inductive invariant holds of every weight unload and reload, whatever the
\* number of layers, tensors and threads.
THEOREM WeightInvariant == Spec => []IInv
<1>1. Init => IInv
  BY InitIInv
<1>2. IInv /\ [Next]_vars => IInv'
  BY NextStep
<1> QED
  BY <1>1, <1>2, PTL DEF Spec

\* concat_buffer never runs out of slots, so no reloaded layer is left pointing
\* to a buffer that was freed for lack of one.
THEOREM RoomForEveryLayer == Spec => []SlotsSuffice
<1>1. IInv => SlotsSuffice
  BY DEF IInv
<1> QED
  BY <1>1, WeightInvariant, PTL

\* Unloading one layer frees no buffer of another, and finds each of its own.
THEOREM EveryBufferOneOwner == Spec => []OneOwner
<1>1. IInv => OneOwner
  BY DEF IInv
<1> QED
  BY <1>1, WeightInvariant, PTL

\* cur_n_buffers counts the children through every concurrent reload.
THEOREM ChildrenCounted == Spec => []CountExact
<1>1. IInv => CountExact
  BY DEF IInv
<1> QED
  BY <1>1, WeightInvariant, PTL

\* A layer whose sync has reached zero, or that was never unloaded, holds its own
\* weights when the backend computes it.
THEOREM OpenLayersOwnWeights == Spec => []OpenMeansOwn
<1>1. ASSUME IInv PROVE OpenMeansOwn
  <2>1. ASSUME pc \in {"reload", "alloc_only", "read_only"}, NEW l \in Layers, sync[l] = 0
        PROVE  data[l] = "own"
    <3>1. LoopInv(l)
      BY <1>1, <2>1, Zenon DEF IInv, PhaseInv
    <3>2. l <= cursor \/ l > cursor
      <4>1. cursor \in -1 .. NumLayers - 1
        BY <1>1, Zenon DEF IInv, TypeOK
      <4> QED
        BY <4>1 DEF Layers
    <3> QED
      BY <2>1, <3>1, <3>2 DEF LoopInv
  <2>2. pc = "finish" => \A l \in Layers : sync[l] = 0 => data[l] = "own"
    BY <1>1, Zenon DEF IInv, PhaseInv
  <2>3. pc = "idle" => \A l \in Layers : l <= cursor => data[l] = "own"
    BY <1>1 DEF IInv, PhaseInv, IdleInv
  <2> QED
    BY <2>1, <2>2, <2>3 DEF OpenMeansOwn
<1> QED
  BY <1>1, WeightInvariant, PTL

\* No READ worker finds its file missing, no future to wait for or its memory
\* unallocated: an abort means a dump cut off or layers of different sizes.
THEOREM AbortsHaveCause == Spec => []NoSpuriousAbort
<1>1. IInv => NoSpuriousAbort
  BY DEF IInv
<1> QED
  BY <1>1, WeightInvariant, PTL
=============================================================================
