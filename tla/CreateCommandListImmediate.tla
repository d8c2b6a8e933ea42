--------------------- MODULE CreateCommandListImmediate ---------------------
(***************************************************************************)
(* The L0 API-overhead benchmark CreateCommandListImmediate               *)
(* (create_command_list_immediate_l0.cpp): create cmdListCount immediate   *)
(* command lists and destroy them (warmup), then per iteration create     *)
(* them all (measured) and destroy them all.  Every                       *)
(* ASSERT_ZE_RESULT_SUCCESS may return Error.                             *)
(***************************************************************************)
EXTENDS Integers, Sequences, DriverObjects

CONSTANTS
  CmdListCounts,     \* values arguments.cmdListCount may take (positive)
  IterationCounts    \* values arguments.iterations may take

VARIABLES
  cmdListCount, iterations,   \* the run's arguments
  pc,
  commandLists,   \* std::vector<ze_command_list_handle_t> commandLists
  commandList,    \* the handle the last create wrote
  i,              \* index of the create and destroy loops
  j,              \* the benchmark loop counter
  result          \* the TestResult run() returned

cclVars == <<cmdListCount, iterations, pc, commandLists, commandList, i, j,
            result>>
vars == <<cclVars, objVars>>

Fixed == UNCHANGED <<cmdListCount, iterations>>

\* commandLists(arguments.cmdListCount): cmdListCount null handles.
Init ==
  /\ objInit
  /\ cmdListCount \in CmdListCounts /\ iterations \in IterationCounts
  /\ pc = "noop" /\ commandLists = [k \in 1..cmdListCount |-> NULLH]
  /\ commandList = NULLH
  /\ i = 0 /\ j = 0 /\ result = "none"

Return(r) == result' = r /\ pc' = "done"

\* An ASSERT_ZE_RESULT_SUCCESS fails: return TestResult::Error.
ReturnError ==
  Return("Error") /\ UNCHANGED <<commandLists, commandList, i, j>> /\ UNCHANGED objVars

\* isNoopRun(); LevelZero levelzero(queueProperties)
Start ==
  /\ pc = "noop"
  /\ \/ Return("Nooped")
     \/ pc' = "warm_create" /\ UNCHANGED result
  /\ UNCHANGED <<commandLists, commandList, i, j>> /\ UNCHANGED objVars /\ Fixed

\* One pass of a create loop: zeCommandListCreateImmediate(...,
\* &commandList); commandLists[i] = commandList; when the loop is done,
\* go to next.
CreateStep(next) ==
  IF i < cmdListCount
  THEN \/ ReturnError
       \/ /\ Create /\ commandLists' = [commandLists EXCEPT ![i + 1] = Fresh]
          /\ commandList' = Fresh /\ i' = i + 1 /\ UNCHANGED <<pc, j, result>>
  ELSE pc' = next /\ i' = 0 /\ UNCHANGED <<commandLists, commandList, j, result>>
                  /\ UNCHANGED objVars

\* Variant of DestroyStep whose loop stops one command list early.
DestroyStepSkipsLast(next) ==
  IF i < cmdListCount - 1
  THEN \/ ReturnError
       \/ /\ Release(commandLists[i + 1])
          /\ commandLists' = [commandLists EXCEPT ![i + 1] = NULLH]
          /\ i' = i + 1 /\ UNCHANGED <<pc, commandList, j, result>>
  ELSE pc' = next /\ i' = 0 /\ UNCHANGED <<commandLists, commandList, j, result>>
                  /\ UNCHANGED objVars

\* One pass of a destroy loop: zeCommandListDestroy(commandLists[i]);
\* commandLists[i] = nullptr; when the loop is done, go to next.
DestroyStep(next) ==
  IF i < cmdListCount
  THEN \/ ReturnError
       \/ /\ Release(commandLists[i + 1])
          /\ commandLists' = [commandLists EXCEPT ![i + 1] = NULLH]
          /\ i' = i + 1 /\ UNCHANGED <<pc, commandList, j, result>>
  ELSE pc' = next /\ i' = 0 /\ UNCHANGED <<commandLists, commandList, j, result>>
                  /\ UNCHANGED objVars

\* Warmup: create every command list, then destroy every one.
WarmCreate == pc = "warm_create" /\ CreateStep("warm_destroy") /\ Fixed
WarmDestroy == pc = "warm_destroy" /\ DestroyStep("bench") /\ Fixed

\* for (auto j = 0u; j < arguments.iterations; j++); return Success.
BenchHead ==
  /\ pc = "bench"
  /\ IF j < iterations THEN pc' = "create" /\ UNCHANGED result
                       ELSE Return("Success")
  /\ UNCHANGED <<commandLists, commandList, i, j>> /\ UNCHANGED objVars /\ Fixed

\* measureStart; create every command list; measureEnd; pushValue.
MeasuredCreate == pc = "create" /\ CreateStep("destroy") /\ Fixed

\* Destroy every command list of the iteration.
Destroy == pc = "destroy" /\ DestroyStep("next") /\ Fixed

\* The end of the iteration: j++.
NextIteration ==
  /\ pc = "next" /\ pc' = "bench" /\ j' = j + 1
  /\ UNCHANGED <<commandLists, commandList, i, result>> /\ UNCHANGED objVars
  /\ Fixed

Next ==
  \/ Start \/ WarmCreate \/ WarmDestroy \/ BenchHead \/ MeasuredCreate
  \/ Destroy \/ NextIteration

Spec == Init /\ [][Next]_vars

-----------------------------------------------------------------------------
\* No command list is destroyed twice, although commandList and every slot
\* of commandLists are reused by the warmup and by every iteration.
NoDoubleDestroy == "release" \notin misuse

\* A run that returns Success leaves no command list alive: each of the
\* iterations destroys the lists it created.
SuccessDestroysAll == result = "Success" => live = {}
=============================================================================
