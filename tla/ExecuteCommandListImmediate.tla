--------------------- MODULE ExecuteCommandListImmediate ---------------------
(***************************************************************************)
(* The SYCL API-overhead benchmark ExecuteCommandListImmediate            *)
(* (execute_command_list_immediate_sycl.cpp): a warmup kernel, then per   *)
(* iteration amountOfCalls empty kernels submitted under the timer and,   *)
(* with measureCompletionTime, a wait before the timer stops.  With       *)
(* useEventForHostSync every submission depends on the previous one's     *)
(* event and the host waits on the last event; otherwise it waits on the  *)
(* queue.  The queue is taken to be out of order (SYCL's default): a      *)
(* kernel may complete before an earlier one unless it depends on it.     *)
(* The GPU is a second process that completes kernels whose dependencies  *)
(* completed.                                                              *)
(***************************************************************************)
EXTENDS Naturals

CONSTANTS
  UseEvents,           \* values arguments.useEventForHostSync may take
  MeasureCompletion,   \* values arguments.measureCompletionTime may take
  IterationCounts,     \* values arguments.iterations may take
  CallCounts           \* values arguments.amountOfCalls may take

VARIABLES
  useEvents, measureCompletion, iterations, amountOfCalls,   \* arguments
  pc,
  submitted,   \* kernels submitted so far, numbered 1, 2, ...
  pending,     \* kernels submitted and not yet complete
  deps,        \* kernel -> the kernels whose events it waits for
  event,       \* the kernel whose event the variable event holds (0: none)
  i,           \* the benchmark loop counter
  iteration,   \* the submission loop counter
  timed,       \* kernels submitted since measureStart (ghost)
  unfinished,  \* of those, the ones not complete at measureEnd (ghost)
  result       \* the TestResult run() returned

eclVars == <<useEvents, measureCompletion, iterations, amountOfCalls, pc,
             submitted, pending, deps, event, i, iteration, timed,
             unfinished, result>>

Fixed == UNCHANGED <<useEvents, measureCompletion, iterations, amountOfCalls>>

Init ==
  /\ useEvents \in UseEvents /\ measureCompletion \in MeasureCompletion
  /\ iterations \in IterationCounts /\ amountOfCalls \in CallCounts
  /\ pc = "noop" /\ submitted = 0 /\ pending = {} /\ deps = [k \in {} |-> {}]
  /\ event = 0 /\ i = 0 /\ iteration = 0 /\ timed = {} /\ unfinished = {}
  /\ result = "none"

\* Go to label l; the queue and the counters are left alone.
Goto(l) ==
  pc' = l /\ UNCHANGED <<submitted, pending, deps, event, i, iteration,
                         timed, unfinished, result>>

\* sycl.queue.parallel_for(range, D, empty): submit kernel submitted + 1
\* depending on the kernels D; keepEvent says the returned event is stored.
Submit(D, keepEvent) ==
  LET k == submitted + 1 IN
  /\ submitted' = k /\ pending' = pending \cup {k}
  /\ deps' = [x \in DOMAIN deps \cup {k} |-> IF x = k THEN D ELSE deps[x]]
  /\ event' = IF keepEvent THEN k ELSE event

\* The host's wait: event.wait() returns once the event's kernel completed,
\* sycl.queue.wait() once every submitted kernel did.
Waited == IF useEvents THEN event \notin pending ELSE pending = {}

\* isNoopRun(); Sycl sycl{gpu}: the setup.
Start ==
  /\ pc = "noop"
  /\ \/ pc' = "done" /\ result' = "Nooped"
        /\ UNCHANGED <<submitted, pending, deps, event, i, iteration, timed,
                       unfinished>>
     \/ Goto("warmup")
  /\ Fixed

\* auto event = sycl.queue.parallel_for(range, empty); then the wait.
Warmup ==
  /\ pc = "warmup" /\ Submit({}, TRUE) /\ pc' = "warm_wait"
  /\ UNCHANGED <<i, iteration, timed, unfinished, result>> /\ Fixed

WarmWait == pc = "warm_wait" /\ Waited /\ Goto("bench") /\ Fixed

\* for (auto i = 0u; i < arguments.iterations; i++) { timer.measureStart();
BenchHead ==
  /\ pc = "bench"
  /\ IF i < iterations
     THEN pc' = "call" /\ iteration' = 0 /\ timed' = {}
          /\ UNCHANGED <<submitted, pending, deps, event, i, unfinished,
                         result>>
     ELSE Goto("final_wait")
  /\ Fixed

\* Variant of SubmitCall that drops the dependency on the previous event.
SubmitCallNoDep ==
  /\ Submit({}, useEvents)
  /\ timed' = timed \cup {submitted + 1}

\* One pass of the submission loop: with events, event =
\* parallel_for(range, event, empty); else parallel_for(range, empty).
SubmitCall ==
  /\ Submit(IF useEvents THEN {event} ELSE {}, useEvents)
  /\ timed' = timed \cup {submitted + 1}

\* for (iteration < arguments.amountOfCalls): submit, or leave the loop
\* for the wait (measureCompletionTime) or straight for measureEnd.
Call ==
  /\ pc = "call"
  /\ IF iteration < amountOfCalls
     THEN SubmitCall /\ iteration' = iteration + 1
          /\ UNCHANGED <<pc, i, unfinished, result>>
     ELSE Goto(IF measureCompletion THEN "wait" ELSE "end")
  /\ Fixed

\* if (arguments.measureCompletionTime) event.wait() or queue.wait()
Wait == pc = "wait" /\ Waited /\ Goto("end") /\ Fixed

\* timer.measureEnd(); statistics.pushValue(...); i++
MeasureEnd ==
  /\ pc = "end" /\ pc' = "bench" /\ i' = i + 1
  /\ unfinished' = timed \cap pending
  /\ UNCHANGED <<submitted, pending, deps, event, iteration, timed, result>>
  /\ Fixed

\* sycl.queue.wait(); return TestResult::Success.
FinalWait ==
  /\ pc = "final_wait" /\ pending = {}
  /\ pc' = "done" /\ result' = "Success"
  /\ UNCHANGED <<submitted, pending, deps, event, i, iteration, timed,
                 unfinished>>
  /\ Fixed

\* The GPU completes a kernel whose dependencies have completed.
Complete ==
  /\ \E k \in pending :
       /\ deps[k] \cap pending = {}
       /\ pending' = pending \ {k}
  /\ UNCHANGED <<pc, submitted, deps, event, i, iteration, timed,
                 unfinished, result>>
  /\ Fixed

Host ==
  \/ Start \/ Warmup \/ WarmWait \/ BenchHead \/ Call \/ Wait \/ MeasureEnd
  \/ FinalWait

Next == Host \/ Complete

Spec == Init /\ [][Next]_eclVars /\ WF_eclVars(Host) /\ WF_eclVars(Complete)

-----------------------------------------------------------------------------
\* With measureCompletionTime, every sample's measureEnd comes after all
\* amountOfCalls kernels of its iteration completed, although with
\* useEventForHostSync the host waits only on the event of the last one:
\* the chain of event dependencies must order the rest before it.
MeasuresCompletion == measureCompletion => unfinished = {}
=============================================================================
