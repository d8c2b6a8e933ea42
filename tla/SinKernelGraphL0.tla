---------------------------- MODULE SinKernelGraphL0 ----------------------------
(***************************************************************************)
(* The Level Zero implementation of the SinKernelGraph benchmark           *)
(* (sin_kernel_graph_l0.cpp, run_model/run_kernel of sin_common_l0.cpp),   *)
(* driving the process-wide deviceMemMgr over the gtest instances of one   *)
(* binary, run one after the other in the same process.                    *)
(*                                                                         *)
(* As in SinKernelGraphUR, only what touches the pool is kept.  Each       *)
(* ASSERT_ZE_RESULT_SUCCESS block between two pool operations is one       *)
(* point where the benchmark may return TestResult::Error (a failing       *)
(* driver call), leaving deviceMemMgr as it is.                            *)
(*                                                                         *)
(* check_result compares output_h with golden_h, but nothing ever writes   *)
(* output_h (the copy that would fill it is commented out, lines 213-235): *)
(* it reads uninitialized host memory.  Both outcomes are kept: a mismatch *)
(* (or a 0.0f) calls exit(-1); memory that happens to match goes on to the *)
(* measured loop and deinit.                                               *)
(***************************************************************************)
EXTENDS DeviceMemoryManager

CONSTANTS
  Instances,    \* withGraphs of each gtest instance, in gtest order
  NumKernels,   \* arguments.numKernels
  N,            \* count() of Tensor4D(a, b, c, d)
  Iterations,   \* arguments.iterations of the measured loop
  Repeat        \* int repeat = 100 of the measured loop

ASSUME Instances \in Seq(BOOLEAN) /\ Len(Instances) > 0
ASSUME NumKernels \in Nat /\ N \in Nat \ {0}
ASSUME Iterations \in Nat /\ Repeat \in Nat

Tensors == {"input", "output", "gr_input", "gr_output"}

VARIABLES
  pc,           \* label of run() / run_model() being executed
  t,            \* tensor variable -> its data pointer
  rm,           \* frame of the run_model call in progress
  inst,         \* index of the gtest instance being run
  results,      \* TestResult returned by each finished instance
  exited,       \* check_result called exit(-1)
  noop,         \* isNoopRun()
  kernelsFound, \* both .spv files were loaded
  itr,          \* measured-loop iteration
  rep           \* repeat-loop iteration

vars == <<dmmVars, pc, t, rm, inst, results, exited, noop, kernelsFound,
          itr, rep>>

withGraphs == Instances[inst]

NoFrame == [arg |-> "input", out |-> NULL, itr |-> 0, ret |-> "output",
            cont |-> "done"]

Running == ~aborted /\ ~exited


Goto(l) == pc' = l

CallRunModel(arg, ret, cont) ==
  /\ rm' = [arg |-> arg, out |-> NULL, itr |-> 0, ret |-> ret, cont |-> cont]
  /\ Goto("rm_a")

\* An ASSERT_ZE_RESULT_SUCCESS of the block fails: return TestResult::Error.
ReturnError ==
  /\ results' = Append(results, "Error")
  /\ Goto("done")
  /\ UNCHANGED <<dmmVars, t, rm>>

Fixed == UNCHANGED <<inst, noop, kernelsFound, itr, rep>>

Init ==
  /\ dmmInit
  /\ pc = "noop"
  /\ t = [x \in Tensors |-> NULL]
  /\ rm = NoFrame
  /\ inst = 1
  /\ results = <<>>
  /\ exited = FALSE
  /\ noop \in BOOLEAN
  /\ kernelsFound \in BOOLEAN
  /\ itr = 0
  /\ rep = 0

(* --- run() of sin_kernel_graph_l0.cpp --------------------------------- *)

\* if (isNoopRun()) { pushUnitAndType; return Nooped; }
NoopCheck ==
  /\ pc = "noop" /\ Running
  /\ IF noop
       THEN results' = Append(results, "Nooped") /\ Goto("done")
       ELSE Goto("setup") /\ UNCHANGED results
  /\ Fixed /\ UNCHANGED <<dmmVars, t, rm, exited>>

\* LevelZero; deviceMemMgr.init; load the kernels (KernelNotFound);
\* create modules, kernels and the two host buffers (ASSERTs).
Setup ==
  /\ pc = "setup" /\ Running
  /\ init
  /\ \/ ~kernelsFound /\ results' = Append(results, "KernelNotFound")
                      /\ Goto("done")
     \/ kernelsFound /\ results' = Append(results, "Error") /\ Goto("done")
     \/ kernelsFound /\ Goto("input") /\ UNCHANGED results
  /\ Fixed /\ UNCHANGED <<t, rm, exited>>

\* Tensor4D input(a, b, c, d);
MakeInput ==
  /\ pc = "input" /\ Running
  /\ alloc(N)
  /\ t' = [t EXCEPT !["input"] = allocResult(N)]
  /\ Goto("h2d")
  /\ Fixed /\ UNCHANGED <<rm, results, exited>>

\* Create cmdList, copy input_h into input.data, execute (ASSERTs); then
\* output = run_model(input, numKernels, ..., withGraphs, ...).
HostToDevice ==
  /\ pc = "h2d" /\ Running
  /\ \/ ReturnError
     \/ CallRunModel("input", "output", "golden") /\ UNCHANGED <<dmmVars, t, results>>
  /\ Fixed /\ UNCHANGED exited

\* Variant of Golden that frees input.data instead of output.data.
GoldenFreesInput ==
  /\ pc = "golden" /\ Running
  /\ \/ ReturnError
     \/ free(t["input"]) /\ Goto("gr") /\ UNCHANGED <<t, rm, results>>
  /\ Fixed /\ UNCHANGED exited

\* Copy output.data to golden_h and execute (ASSERTs); then
\* deviceMemMgr.free(output.data).
Golden ==
  /\ pc = "golden" /\ Running
  /\ \/ ReturnError
     \/ free(t["output"]) /\ Goto("gr") /\ UNCHANGED <<t, rm, results>>
  /\ Fixed /\ UNCHANGED exited

\* Tensor4D gr_input(a, b, c, d);
MakeGraphInput ==
  /\ pc = "gr" /\ Running
  /\ alloc(N)
  /\ t' = [t EXCEPT !["gr_input"] = allocResult(N)]
  /\ Goto("gr_rec")
  /\ Fixed /\ UNCHANGED <<rm, results, exited>>

\* Append the copy of input_h into gr_input.data (ASSERT); then
\* gr_output = run_model(gr_input, ..., withGraphs, ...).
RecordGraph ==
  /\ pc = "gr_rec" /\ Running
  /\ \/ ReturnError
     \/ CallRunModel("gr_input", "gr_output", "gr_close") /\ UNCHANGED <<dmmVars, t, results>>
  /\ Fixed /\ UNCHANGED exited

\* zeCommandListClose (ASSERT); deviceMemMgr.free(gr_output.data).
CloseGraph ==
  /\ pc = "gr_close" /\ Running
  /\ \/ ReturnError
     \/ free(t["gr_output"]) /\ Goto("host_out") /\ UNCHANGED <<t, rm, results>>
  /\ Fixed /\ UNCHANGED <<exited>>

\* Allocate output_h and create execCmdList (ASSERTs).
HostOutput ==
  /\ pc = "host_out" /\ Running
  /\ \/ ReturnError
     \/ Goto("classic") /\ UNCHANGED <<dmmVars, t, rm, results>>
  /\ Fixed /\ UNCHANGED <<exited>>

\* gr_input.data = deviceMemMgr.alloc(N);  (the "classic approach"; the free
\* that matched it is commented out)
ClassicAlloc ==
  /\ pc = "classic" /\ Running
  /\ alloc(N)
  /\ t' = [t EXCEPT !["gr_input"] = allocResult(N)]
  /\ Goto("imm")
  /\ Fixed /\ UNCHANGED <<rm, results, exited>>

\* Create the immediate list, append cmdList to it, close, execute,
\* synchronize and reset it (the last four are ASSERTs).
Immediate ==
  /\ pc = "imm" /\ Running
  /\ \/ ReturnError
     \/ Goto("check") /\ UNCHANGED <<dmmVars, t, rm, results>>
  /\ Fixed /\ UNCHANGED <<exited>>

\* check_result() reads output_h, which nothing wrote: uninitialized memory
\* that differs from golden_h (or is 0.0f) makes it call exit(-1); memory
\* that happens to match lets it return true.  It never returns false.
CheckResult ==
  /\ pc = "check" /\ Running
  /\ \/ exited' = TRUE /\ UNCHANGED pc
     \/ Goto("loop") /\ UNCHANGED exited
  /\ Fixed /\ UNCHANGED <<dmmVars, t, rm, results>>

\* for (itr < arguments.iterations): timer.measureStart(); with graphs the
\* repeat loop only appends zero command lists.
LoopHead ==
  /\ pc = "loop" /\ Running
  /\ IF itr < Iterations
       THEN Goto(IF withGraphs THEN "sync" ELSE "rep") /\ rep' = 0
       ELSE Goto("deinit") /\ UNCHANGED rep
  /\ UNCHANGED <<dmmVars, t, rm, results, exited, inst, noop,
                 kernelsFound, itr>>

\* for (i < repeat): gr_input.data = deviceMemMgr.alloc(N);
RepeatAlloc ==
  /\ pc = "rep" /\ Running
  /\ IF rep < Repeat
       THEN /\ alloc(N)
            /\ t' = [t EXCEPT !["gr_input"] = allocResult(N)]
            /\ Goto("rep_copy")
       ELSE Goto("sync") /\ UNCHANGED <<dmmVars, t>>
  /\ Fixed /\ UNCHANGED <<rm, results, exited>>

\* Append the copy of input_h into gr_input.data, close and execute
\* execCmdList (ASSERTs); gr_output = run_model(gr_input, ...).
RepeatCopy ==
  /\ pc = "rep_copy" /\ Running
  /\ \/ ReturnError
     \/ CallRunModel("gr_input", "gr_output", "rep_free") /\ UNCHANGED <<dmmVars, t, results>>
  /\ Fixed /\ UNCHANGED exited

\* deviceMemMgr.free(gr_output.data, "gr_output 235"); next repeat.
RepeatFree ==
  /\ pc = "rep_free" /\ Running
  /\ free(t["gr_output"])
  /\ rep' = rep + 1
  /\ Goto("rep")
  /\ UNCHANGED <<t, rm, results, exited, inst, noop, kernelsFound, itr>>

\* Synchronize and reset execCmdList (ASSERTs); timer.measureEnd() and
\* statistics.pushValue.
Sync ==
  /\ pc = "sync" /\ Running
  /\ \/ ReturnError /\ UNCHANGED itr
     \/ itr' = itr + 1 /\ Goto("loop") /\ UNCHANGED <<dmmVars, t, rm, results>>
  /\ UNCHANGED <<exited, inst, noop, kernelsFound, rep>>

\* zeMemFree input_h and golden_h; deviceMemMgr.deinit(); return result.
Deinit ==
  /\ pc = "deinit" /\ Running
  /\ deinit
  /\ results' = Append(results, "Success")
  /\ Goto("done")
  /\ Fixed /\ UNCHANGED <<t, rm, exited>>

\* gtest runs the next instance in the same process.
NextInstance ==
  /\ pc = "done" /\ Running
  /\ inst < Len(Instances)
  /\ inst' = inst + 1
  /\ t' = [x \in Tensors |-> NULL]
  /\ itr' = 0
  /\ rep' = 0
  /\ Goto("noop")
  /\ UNCHANGED <<dmmVars, rm, results, exited, noop, kernelsFound>>

(* --- run_model() of sin_common_l0.cpp ------------------------------------ *)

\* output = run_kernel(input, kernelA, cmdList): Tensor4D output(...)
\* allocates, the launch reads input.
RunKernelA ==
  /\ pc = "rm_a" /\ Running
  /\ alloc(N)
  /\ rm' = [rm EXCEPT !.out = allocResult(N)]
  /\ Goto("rm_a_free")
  /\ Fixed /\ UNCHANGED <<t, results, exited>>

\* deviceMemMgr.free(input.data, "rm: input A"); without graphs the list is
\* executed, synchronized and reset (unchecked calls).
FreeInputA ==
  /\ pc = "rm_a_free" /\ Running
  /\ free(t[rm.arg])
  /\ Goto("rm_s")
  /\ Fixed /\ UNCHANGED <<t, rm, results, exited>>

\* for (itr < kernelIterations) { input = output; output = run_kernel(input,
\* kernelS, cmdList); ... }  input is the caller's Tensor4D&.  After the
\* loop the result goes to the caller's variable.
RunKernelS ==
  /\ pc = "rm_s" /\ Running
  /\ IF rm.itr < NumKernels
       THEN /\ t' = [t EXCEPT ![rm.arg] = rm.out]
            /\ alloc(N)
            /\ rm' = [rm EXCEPT !.out = allocResult(N), !.itr = @ + 1]
            /\ Goto("rm_free")
       ELSE /\ t' = [t EXCEPT ![rm.ret] = rm.out]
            /\ Goto(rm.cont)
            /\ UNCHANGED <<dmmVars, rm>>
  /\ Fixed /\ UNCHANGED <<results, exited>>

\* deviceMemMgr.free(input.data, "rm: input S");
FreeInputS ==
  /\ pc = "rm_free" /\ Running
  /\ free(t[rm.arg])
  /\ Goto("rm_s")
  /\ Fixed /\ UNCHANGED <<t, rm, results, exited>>

Next ==
  \/ NoopCheck \/ Setup \/ MakeInput \/ HostToDevice \/ Golden
  \/ MakeGraphInput \/ RecordGraph \/ CloseGraph \/ HostOutput
  \/ ClassicAlloc \/ Immediate \/ CheckResult \/ LoopHead \/ RepeatAlloc
  \/ RepeatCopy \/ RepeatFree \/ Sync \/ Deinit \/ NextInstance
  \/ RunKernelA \/ FreeInputA \/ RunKernelS \/ FreeInputS

Spec == Init /\ [][Next]_vars

TypeOK ==
  /\ dmmTypeOK
  /\ t \in [Tensors -> Nat]
  /\ inst \in 1..Len(Instances)
  /\ results \in Seq({"Nooped", "KernelNotFound", "Error", "Success"})
  /\ exited \in BOOLEAN
  /\ itr \in 0..Iterations /\ rep \in 0..Repeat

(***************************************************************************)
(* No buffer is freed twice: run_model frees each intermediate exactly     *)
(* once although it rewrites the caller's tensor through Tensor4D&, and    *)
(* run() frees only the tensors run_model handed back.                     *)
(***************************************************************************)
NoDoubleFree == "double_free" \notin misuse

(***************************************************************************)
(* usedCnt agrees with the entries marked used after every step of every   *)
(* instance, including early returns.                                      *)
(***************************************************************************)
UsedCountAccurate == usedCnt = Cardinality(UsedPtrs)

(***************************************************************************)
(* A gtest instance's deviceMemMgr.init finds the pool empty, as its       *)
(* assert ("memory leak") demands, even after an earlier instance returned *)
(* early.                                                                  *)
(***************************************************************************)
InitFindsPoolEmpty == "init_leak" \notin misuse

(***************************************************************************)
(* deviceMemMgr.deinit at the end of a run that got through check_result   *)
(* finds every buffer given back, as its asserts ("memory leak") demand:   *)
(* each alloc of run() is matched by a free of run() or run_model.         *)
(***************************************************************************)
DeinitFindsNoLeak == "deinit_leak" \notin misuse

(***************************************************************************)
(* Neither of the pool's "memory leak" asserts fires: every init finds the *)
(* pool empty and every deinit finds every buffer given back.              *)
(***************************************************************************)
NoLeakAssert == InitFindsPoolEmpty /\ DeinitFindsNoLeak

(***************************************************************************)
(* A failure is turned into a TestResult and returned; the benchmark never *)
(* ends the whole process (spec, error handling: one benchmark's defect    *)
(* must not prevent measurement of the rest).                               *)
(***************************************************************************)
NoProcessExit == ~exited
=============================================================================
