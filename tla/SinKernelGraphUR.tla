---------------------------- MODULE SinKernelGraphUR ----------------------------
(***************************************************************************)
(* The Unified Runtime implementation of the SinKernelGraph benchmark      *)
(* (sin_kernel_graph_ur.cpp, run_model/run_kernel of sin_common_ur.cpp),   *)
(* driving the process-wide deviceMemMgr over the gtest instances of one   *)
(* binary, which run one after the other in the same process.              *)
(*                                                                         *)
(* Only what touches the pool is kept: every Tensor4D construction (an     *)
(* alloc), every deviceMemMgr.free, init and deinit.  Enqueues are steps   *)
(* at which a call may fail; when the GPU later reads or writes a buffer   *)
(* is not modelled.  Kernel arithmetic, events and timing are left out.    *)
(* Tensor variables of the C++ code are the function t from their          *)
(* names to the pointer they hold; run_model is a procedure whose frame is *)
(* rm, with the caller's tensor passed by reference (rm.arg).              *)
(***************************************************************************)
EXTENDS DeviceMemoryManager

CONSTANTS
  Instances,    \* withGraphs of each gtest instance, in gtest order
  NumKernels,   \* arguments.numKernels
  Iterations,   \* arguments.iterations
  Repeat,       \* int repeat = 100 of the measured loop
  N             \* count() of Tensor4D(a, b, c, d); Tensor4D(1,1,1,1) has 1

ASSUME Instances \in Seq(BOOLEAN) /\ Len(Instances) > 0
ASSUME NumKernels \in Nat \ {0}   \* events[0] is out of range for 0
ASSUME Iterations \in Nat /\ Repeat \in Nat \ {0} /\ N \in Nat /\ N > 1

Tensors == {"input", "output", "gr_input", "gr_output", "bm_input", "bm_output"}

VARIABLES
  pc,           \* label of run() / run_model() being executed
  t,            \* tensor variable -> its data pointer
  rm,           \* frame of the run_model call in progress
  inst,         \* index of the gtest instance being run
  iter,         \* measured-loop counter i
  rep,          \* inner repeat counter
  samples,      \* statistics.pushValue calls of this instance
  results,      \* TestResult returned by each finished instance
  exited,       \* check_result called exit(1)
  noop,         \* isNoopRun()
  kernelsFound  \* both .spv files were loaded

vars == <<dmmVars, pc, t, rm, inst, iter, rep, samples, results, exited,
          noop, kernelsFound>>

withGraphs == Instances[inst]

NoFrame == [arg |-> "input", out |-> NULL, itr |-> 0, graphs |-> FALSE,
            ret |-> "output", cont |-> "done"]

Running == ~aborted /\ ~exited

\* An enqueue reading or writing the buffer of tensor x.

Goto(l) == pc' = l

\* Call run_model(t[arg], ..., graphs) and store its result in t[ret].
CallRunModel(arg, graphs, ret, cont) ==
  /\ rm' = [arg |-> arg, out |-> NULL, itr |-> 0, graphs |-> graphs,
            ret |-> ret, cont |-> cont]
  /\ Goto("rm_a")

Init ==
  /\ dmmInit
  /\ pc = "noop"
  /\ t = [x \in Tensors |-> NULL]
  /\ rm = NoFrame
  /\ inst = 1
  /\ iter = 0
  /\ rep = 0
  /\ samples = 0
  /\ results = <<>>
  /\ exited = FALSE
  /\ noop \in BOOLEAN
  /\ kernelsFound \in BOOLEAN

Unchanged(vs) == UNCHANGED <<noop, kernelsFound, inst>> /\ UNCHANGED vs

(* --- run() of sin_kernel_graph_ur.cpp --------------------------------- *)

\* if (isNoopRun()) { pushUnitAndType; return Nooped; }
NoopCheck ==
  /\ pc = "noop" /\ Running
  /\ IF noop
       THEN /\ results' = Append(results, "Nooped")
            /\ Goto("done")
       ELSE /\ Goto("setup")
            /\ UNCHANGED results
  /\ Unchanged(<<dmmVars, t, rm, iter, rep, samples, exited>>)

\* urQueueCreate, urUSMPoolCreate, deviceMemMgr.init, load the kernels.
Setup ==
  /\ pc = "setup" /\ Running
  /\ init
  /\ IF kernelsFound
       THEN Goto("input") /\ UNCHANGED results
       ELSE Goto("done") /\ results' = Append(results, "KernelNotFound")
  /\ Unchanged(<<t, rm, iter, rep, samples, exited>>)

\* Tensor4D input(a, b, c, d); copy input_h in; output = run_model(input, ..., false).
MakeInput ==
  /\ pc = "input" /\ Running
  /\ alloc(N)
  /\ t' = [t EXCEPT !["input"] = allocResult(N)]
  /\ CallRunModel("input", FALSE, "output", "warm_free")
  /\ Unchanged(<<iter, rep, samples, results, exited>>)

\* Copy output to golden_h, then deviceMemMgr.free(input.data).
WarmFreeInput ==
  /\ pc = "warm_free" /\ Running
  /\ free(t["input"])
  /\ Goto("warm_free2")
  /\ Unchanged(<<t, rm, iter, rep, samples, results, exited>>)

\* deviceMemMgr.free(output.data).
WarmFreeOutput ==
  /\ pc = "warm_free2" /\ Running
  /\ free(t["output"])
  /\ Goto("gr")
  /\ Unchanged(<<t, rm, iter, rep, samples, results, exited>>)

\* Tensor4D gr_input(a, b, c, d); gr_output = run_model(gr_input, ..., withGraphs).
RecordGraph ==
  /\ pc = "gr" /\ Running
  /\ alloc(N)
  /\ t' = [t EXCEPT !["gr_input"] = allocResult(N)]
  /\ CallRunModel("gr_input", withGraphs, "gr_output", "exec")
  /\ Unchanged(<<iter, rep, samples, results, exited>>)

\* Copy input_h to gr_input.data; without graphs run the model again into
\* gr_output (the previous gr_output is not freed); with graphs enqueue the
\* recorded command buffer.
Execute ==
  /\ pc = "exec" /\ Running
  /\ IF withGraphs
       THEN Goto("check") /\ UNCHANGED rm
       ELSE CallRunModel("gr_input", FALSE, "gr_output", "check")
  /\ Unchanged(<<dmmVars, t, iter, rep, samples, results, exited>>)

\* Copy gr_output to output_h and compare with golden_h; the comparison
\* depends on device data, which is not modelled: either outcome is possible.
\* On a mismatch check_result calls exit(1).
CheckResult ==
  /\ pc = "check" /\ Running
  /\ \/ Goto("iter") /\ UNCHANGED exited
     \/ exited' = TRUE /\ UNCHANGED pc
  /\ Unchanged(<<dmmVars, t, rm, iter, rep, samples, results>>)

\* for (i < iterations) { Tensor4D bm_input(a, b, c, d); ...
LoopHead ==
  /\ pc = "iter" /\ Running
  /\ IF iter < Iterations
       THEN /\ alloc(N)
            /\ t' = [t EXCEPT !["bm_input"] = allocResult(N)]
            /\ Goto("bm_out")
       ELSE /\ Goto("final_free")
            /\ UNCHANGED <<dmmVars, t>>
  /\ Unchanged(<<rm, iter, rep, samples, results, exited>>)

\* ... Tensor4D bm_output(1, 1, 1, 1);
MakeBmOutput ==
  /\ pc = "bm_out" /\ Running
  /\ alloc(1)
  /\ t' = [t EXCEPT !["bm_output"] = allocResult(1)]
  /\ rep' = 0
  /\ Goto(IF withGraphs THEN "graph_rep" ELSE "rep")
  /\ Unchanged(<<rm, iter, samples, results, exited>>)

\* Without graphs, each repetition: deviceMemMgr.free(bm_output.data); ...
RepeatHead ==
  /\ pc = "rep" /\ Running
  /\ IF rep < Repeat
       THEN /\ free(t["bm_output"])
            /\ rep' = rep + 1
            /\ Goto("rep_run")
       ELSE /\ Goto("bm_free_in")
            /\ UNCHANGED <<dmmVars, rep>>
  /\ Unchanged(<<t, rm, iter, samples, results, exited>>)

\* ... copy input_h to bm_input.data; bm_output = run_model(bm_input, ..., false).
RepeatRun ==
  /\ pc = "rep_run" /\ Running
  /\ CallRunModel("bm_input", FALSE, "bm_output", "rep")
  /\ Unchanged(<<dmmVars, t, iter, rep, samples, results, exited>>)

\* deviceMemMgr.free(bm_input.data);
FreeBmInput ==
  /\ pc = "bm_free_in" /\ Running
  /\ free(t["bm_input"])
  /\ Goto("bm_free_out")
  /\ Unchanged(<<t, rm, iter, rep, samples, results, exited>>)

\* deviceMemMgr.free(bm_output.data);
FreeBmOutput ==
  /\ pc = "bm_free_out" /\ Running
  /\ free(t["bm_output"])
  /\ Goto("push")
  /\ Unchanged(<<t, rm, iter, rep, samples, results, exited>>)

\* With graphs, each repetition copies input_h to bm_input.data and enqueues
\* the command buffer; bm_input and bm_output are never freed.
GraphRepeat ==
  /\ pc = "graph_rep" /\ Running
  /\ Goto("push")
  /\ Unchanged(<<dmmVars, t, rm, iter, rep, samples, results, exited>>)

\* statistics.pushValue(timer.get(), ...); next iteration.
Push ==
  /\ pc = "push" /\ Running
  /\ samples' = samples + 1
  /\ iter' = iter + 1
  /\ Goto("iter")
  /\ Unchanged(<<dmmVars, t, rm, rep, results, exited>>)

\* deviceMemMgr.free(gr_input.data);
FinalFreeInput ==
  /\ pc = "final_free" /\ Running
  /\ free(t["gr_input"])
  /\ Goto("final_free2")
  /\ Unchanged(<<t, rm, iter, rep, samples, results, exited>>)

\* deviceMemMgr.free(gr_output.data);
FinalFreeOutput ==
  /\ pc = "final_free2" /\ Running
  /\ free(t["gr_output"])
  /\ Goto("deinit")
  /\ Unchanged(<<t, rm, iter, rep, samples, results, exited>>)

\* deviceMemMgr.deinit(); return result;
Finish ==
  /\ pc = "deinit" /\ Running
  /\ deinit
  /\ results' = Append(results, "Success")
  /\ Goto("done")
  /\ Unchanged(<<t, rm, iter, rep, samples, exited>>)

\* gtest runs the next instance in the same process: run()'s locals are new,
\* deviceMemMgr is the same object.
NextInstance ==
  /\ pc = "done" /\ Running
  /\ inst < Len(Instances)
  /\ inst' = inst + 1
  /\ t' = [x \in Tensors |-> NULL]
  /\ iter' = 0
  /\ samples' = 0
  /\ Goto("noop")
  /\ UNCHANGED <<dmmVars, rm, rep, results, exited, noop, kernelsFound>>

(* --- run_model() of sin_common_ur.cpp ------------------------------------ *)

\* output = run_kernel(input, *pkA, ...): Tensor4D output(...) allocates;
\* the kernel reads input.
RunKernelA ==
  /\ pc = "rm_a" /\ Running
  /\ alloc(N)
  /\ rm' = [rm EXCEPT !.out = allocResult(N)]
  /\ Goto("rm_s")
  /\ Unchanged(<<t, iter, rep, samples, results, exited>>)

\* input = output; output = run_kernel(input, *pkS, ...).  input is the
\* caller's Tensor4D&, so the caller's tensor is overwritten.
RunKernelS ==
  /\ pc = "rm_s" /\ Running
  /\ t' = [t EXCEPT ![rm.arg] = rm.out]
  /\ alloc(N)
  /\ rm' = [rm EXCEPT !.out = allocResult(N), !.itr = @ + 1]
  /\ Goto("rm_free")
  /\ Unchanged(<<iter, rep, samples, results, exited>>)

\* deviceMemMgr.free(input.data); loop while itr < kernelIterations, then
\* return output into the caller's variable.
RunModelFree ==
  /\ pc = "rm_free" /\ Running
  /\ free(t[rm.arg])
  /\ IF rm.itr < NumKernels
       THEN Goto("rm_s") /\ UNCHANGED t
       ELSE /\ t' = [t EXCEPT ![rm.ret] = rm.out]
            /\ Goto(rm.cont)
  /\ Unchanged(<<rm, iter, rep, samples, results, exited>>)

Next ==
  \/ NoopCheck \/ Setup \/ MakeInput \/ WarmFreeInput \/ WarmFreeOutput
  \/ RecordGraph \/ Execute \/ CheckResult \/ LoopHead \/ MakeBmOutput
  \/ RepeatHead \/ RepeatRun \/ FreeBmInput \/ FreeBmOutput \/ GraphRepeat
  \/ Push \/ FinalFreeInput \/ FinalFreeOutput \/ Finish \/ NextInstance
  \/ RunKernelA \/ RunKernelS \/ RunModelFree

Spec == Init /\ [][Next]_vars

TypeOK ==
  /\ dmmTypeOK
  /\ t \in [Tensors -> Nat]
  /\ inst \in 1..Len(Instances)
  /\ iter \in 0..Iterations /\ rep \in 0..Repeat
  /\ samples \in 0..Iterations
  /\ exited \in BOOLEAN

(***************************************************************************)
(* No buffer is freed twice: every deviceMemMgr.free finds its entry in    *)
(* use.  The L0 copy asserts this ("double free"); the UR copy has the     *)
(* assert commented out, so a second free silently decrements usedCnt.     *)
(***************************************************************************)
NoDoubleFree == "double_free" \notin misuse
=============================================================================
