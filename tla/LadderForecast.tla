--------------------------- MODULE LadderForecast ---------------------------
(***************************************************************************)
(* mzcache_profile_chunks_layers: the planner that predicts, without       *)
(* moving anything, how many chunks and layers a target ratio needs.  It   *)
(* is a second copy of the loops of swapout_impl, over counts and nominal  *)
(* sizes, with a different check order and its own allocate_chunks.  Here  *)
(* a program asks for a forecast on a fresh core, as mz_prefill does, and  *)
(* then runs the ladder of KVLadder to the same target.                    *)
(***************************************************************************)
EXTENDS KVLadder

CONSTANTS
    FreedNum,        \* COMP_FREED_NUM
    FreedDen         \* COMP_FREED_DEN

ASSUME ForecastAssumption == FreedNum \in Nat /\ FreedDen \in Nat \ {0}

VARIABLE
    forecast         \* the last prediction and what has become of it

NoForecast == [state |-> "none", target |-> 0, comp |-> 0, store |-> 0, unload |-> 0]
fvars == <<vars, forecast>>

-----------------------------------------------------------------------------
(* The planner.                                                            *)

\* get_freed_bytes
NominalFreed(comp, store, unload) ==
    (comp * RawBytes * FreedNum) \div FreedDen + store * RawBytes + unload * LayerBytes

\* Faulty: leaves nothing for phase 2.
PlanRoom_NoReserve(comp) == Max2(0, MaxComp - comp)

\* comp_room of the planner.
PlanRoom(comp) == Max2(0, MaxComp - BalanceChunks - comp)

\* allocate_chunks of the planner: what one side lacks room for goes to the
\* other side, as far as that has room, in one direction only.
PlanChunks(requested, comp, store) ==
    LET wantComp  == Scaled(requested)
        wantStore == requested - wantComp
        compRoom  == PlanRoom(comp)
        storeRoom == Max2(0, MaxStore - store)
        addComp   == Min2(wantComp, compRoom)
        addStore  == Min2(wantStore, storeRoom)
        shortage  == requested - (addComp + addStore)
    IN  IF shortage > 0 /\ addComp < wantComp /\ storeRoom > addStore
        THEN <<addComp, addStore + Min2(shortage, storeRoom - addStore)>>
        ELSE IF shortage > 0 /\ addStore < wantStore /\ compRoom > addComp
        THEN <<addComp + Min2(shortage, compRoom - addComp), addStore>>
        ELSE <<addComp, addStore>>

Reaches(t, comp, store, unload) ==
    TargetReached(NominalFreed(comp, store, unload), FullBytes, t)

\* Phase 2 of the planner, with i layers left to try.
RECURSIVE PlanPhase2(_, _, _, _, _)
PlanPhase2(t, comp, store, unload, i) ==
    IF i = 0 \/ Reaches(t, comp, store, unload)
    THEN <<comp, store, unload>>
    ELSE PlanPhase2(t, comp + Min2(Balance, TotalChunks - (comp + store)), store,
                    unload + 1, i - 1)

\* Phase 1 of the planner, which goes on to phase 2.
RECURSIVE PlanPhase1(_, _, _)
PlanPhase1(t, comp, store) ==
    LET add == PlanChunks(Min2(Step, TotalChunks - (comp + store)), comp, store)
    IN  IF comp + store < BoundChunks /\ Reaches(t, comp, store, nUnload)
        THEN <<comp, store, nUnload>>
        ELSE IF comp + store >= BoundChunks \/ add[1] + add[2] = 0
        THEN PlanPhase2(t, comp, store, nUnload, NumLayers)
        ELSE PlanPhase1(t, comp + add[1], store + add[2])

\* mzcache_profile_chunks_layers on a core with nothing swapped out.
Profile(t) ==
    /\ pc = "idle" /\ CleanLadder /\ nUnload = 0 /\ coreChunks = allocated
    /\ LET p == PlanPhase1(t, nComp, nStore)
       IN  forecast' = [state |-> "made", target |-> t,
                        comp |-> p[1], store |-> p[2], unload |-> p[3]]
    /\ UNCHANGED vars

-----------------------------------------------------------------------------
(* The program: prefill, forecast, swapout.                                *)

FInit == Init /\ forecast = NoForecast

\* The forecast is put to the test by the first swapout after it, if that is
\* to the same target and no weight dump is missing.
Run(t) ==
    /\ SwapoutStart(t)
    /\ forecast' = IF forecast.state = "made" /\ forecast.target = t
                   THEN [forecast EXCEPT !.state = "run"]
                   ELSE NoForecast

SwapoutStep ==
    /\ Swapout
    /\ forecast' = IF pc = "unload" /\ nUnload' = nUnload THEN NoForecast ELSE forecast

Prefill(n) == Grow(n) /\ forecast' = NoForecast

FNext == \/ \E t \in Targets : Profile(t) \/ Run(t)
         \/ SwapoutStep
         \/ \E n \in 1 .. MaxChunks : Prefill(n)

FSpec == FInit /\ [][FNext]_fvars

-----------------------------------------------------------------------------
(* Properties.                                                             *)

\* The planner predicts the ladder: where a compressed chunk has its nominal
\* size, a swapout to the forecast's target ends with exactly the chunks
\* compressed and stored and the layers unloaded that the forecast says.
ForecastHolds ==
    pc = "idle" /\ forecast.state = "run" =>
        /\ nComp = forecast.comp /\ nStore = forecast.store
        /\ nUnload = forecast.unload
=============================================================================
