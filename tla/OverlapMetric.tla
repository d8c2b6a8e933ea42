---------------------------- MODULE OverlapMetric ----------------------------
(***************************************************************************)
(* Rank 0's timing of the MPI Overlap test (testOverlap and                *)
(* mpiDummyCompute in mpi_workload_l0.cpp).  Loop 1 times a plain          *)
(* Isend + Wait per iteration into pureCommunicationTime; sendLatency is   *)
(* its mean.  Loop 2 times Isend, a dummy compute of sendLatency ns split  *)
(* into numMpiTestCalls chunks each followed by a timed MPI_Test, and the  *)
(* Wait; the printed overlap compares the time not spent computing with    *)
(* the pure communication time.  Each timed interval is a nondeterministic *)
(* choice from a small set of durations (in ns); how the interval is       *)
(* summed and subtracted is the code's.  Rank 1 only receives and is left  *)
(* out: MpiWorkload models the message exchange.                           *)
(***************************************************************************)
EXTENDS Integers

CONSTANTS
  WARMUP, ITERATIONS,   \* warmup and iterations of testOverlap
  TestCalls,     \* values numMpiTestCalls (testArg4) may take
  CommTimes,     \* durations of loop 1's Isend + Wait (t0 ~ t1)
  IsendTimes,    \* durations of loop 2's Isend (t0 ~ t1)
  TestTimes,     \* durations of one MPI_Test call
  WaitTimes,     \* durations of loop 2's Wait (t2 ~ t3)
  Overshoot,     \* how far a spin may run past durationNs
  SCALE          \* the 1e7 the overlap fraction is printed in

ASSUME WARMUP \in Nat /\ ITERATIONS \in Nat \ {0} /\ TestCalls \subseteq Int
ASSUME \A S \in {CommTimes, IsendTimes, TestTimes, WaitTimes, Overshoot} :
         S \subseteq Nat

VARIABLES
  numMpiTestCalls,        \* the argument; mpiDummyCompute's copy is n
  pc, i,
  pureCommunicationTime, sendLatency, totalTime, computeTime, mpiTestTime,
  n, durationNs,          \* mpiDummyCompute's parameters, as modified
  t1, t2,                 \* the iteration's elapsed time at t1 and at t2
  elapsed,                \* the iteration's elapsed time since t0
  commTime,               \* measured Isend, MPI_Test and Wait time (ghost)
  overlap                 \* the printed **Measurement

vars == <<numMpiTestCalls, pc, i, pureCommunicationTime, sendLatency,
          totalTime, computeTime, mpiTestTime, n, durationNs, t1, t2,
          elapsed, commTime, overlap>>

Loops == ITERATIONS + WARMUP

Init ==
  /\ numMpiTestCalls \in TestCalls
  /\ pc = "loop1" /\ i = 0
  /\ pureCommunicationTime = 0 /\ sendLatency = 0 /\ totalTime = 0
  /\ computeTime = 0 /\ mpiTestTime = 0 /\ n = 0 /\ durationNs = 0
  /\ t1 = 0 /\ t2 = 0 /\ elapsed = 0 /\ commTime = 0 /\ overlap = 0

\* Loop 1: MPI_Barrier; Isend; Wait; add t0 ~ t1 from the warmup on.  At the
\* end, sendLatency = pureCommunicationTime / iterations.
PureCommunication ==
  /\ pc = "loop1"
  /\ IF i < Loops
     THEN \E c \in CommTimes :
            /\ pureCommunicationTime' = pureCommunicationTime
                                          + (IF i >= WARMUP THEN c ELSE 0)
            /\ i' = i + 1 /\ UNCHANGED <<pc, sendLatency>>
     ELSE /\ sendLatency' = pureCommunicationTime \div ITERATIONS
          /\ pc' = "isend" /\ i' = 0
          /\ UNCHANGED pureCommunicationTime
  /\ UNCHANGED <<numMpiTestCalls, totalTime, computeTime, mpiTestTime, n,
                 durationNs, t1, t2, elapsed, commTime, overlap>>

\* Loop 2, rank 0: MPI_Barrier; t0; MPI_Isend; t1; mpiDummyCompute(
\* gpuCompute, sendLatency, numMpiTestCalls, &mpiTestTime, ...).
Isend ==
  /\ pc = "isend"
  /\ \E s \in IsendTimes : elapsed' = s /\ t1' = s
  /\ pc' = "compute"
  /\ UNCHANGED <<numMpiTestCalls, i, pureCommunicationTime, sendLatency,
                 totalTime, computeTime, mpiTestTime, n, durationNs, t2,
                 commTime, overlap>>

\* mpiDummyCompute's entry: *mpiTestTime = 0; if (numMpiTestCalls > 0)
\* durationNs /= numMpiTestCalls.
DummyComputeEntry ==
  /\ pc = "compute"
  /\ mpiTestTime' = 0 /\ n' = numMpiTestCalls
  /\ durationNs' = IF numMpiTestCalls > 0
                   THEN sendLatency \div numMpiTestCalls ELSE sendLatency
  /\ pc' = "spin"
  /\ UNCHANGED <<numMpiTestCalls, i, pureCommunicationTime, sendLatency,
                 totalTime, computeTime, t1, t2, elapsed, commTime, overlap>>

\* One pass of the do-while: spin until durationNs elapsed; if
\* numMpiTestCalls != 0 time one MPI_Test into *mpiTestTime;
\* numMpiTestCalls--; repeat while it is > 0, else return and take t2.
DummyComputeStep ==
  /\ pc = "spin"
  /\ \E o \in Overshoot, t \in TestTimes :
       LET test == IF n # 0 THEN t ELSE 0
           now == elapsed + durationNs + o + test IN
       /\ elapsed' = now
       /\ mpiTestTime' = mpiTestTime + test
       /\ commTime' = commTime + (IF i >= WARMUP THEN test ELSE 0)
       /\ n' = n - 1
       /\ IF n - 1 > 0 THEN UNCHANGED <<pc, t2>>
                       ELSE pc' = "wait" /\ t2' = now
  /\ UNCHANGED <<numMpiTestCalls, i, pureCommunicationTime, sendLatency,
                 totalTime, computeTime, durationNs, t1, overlap>>

\* MPI_Wait; t3; if (i >= warmup) { totalTime += t0 ~ t3;
\* computeTime += t1 ~ t2; }
Wait ==
  /\ pc = "wait"
  /\ \E w \in WaitTimes :
       LET t3 == elapsed + w IN
       /\ totalTime' = totalTime + (IF i >= WARMUP THEN t3 ELSE 0)
       /\ computeTime' = computeTime + (IF i >= WARMUP THEN t2 - t1 ELSE 0)
       /\ commTime' = commTime + (IF i >= WARMUP THEN t1 + w ELSE 0)
       /\ elapsed' = t3
  /\ i' = i + 1
  /\ pc' = IF i + 1 < Loops THEN "isend" ELSE "report"
  /\ UNCHANGED <<numMpiTestCalls, pureCommunicationTime, sendLatency,
                 mpiTestTime, n, durationNs, t1, t2, overlap>>

\* overlap = 1e7 * max(0, 1 - (totalTime - (computeTime - mpiTestTime)) /
\* double(pureCommunicationTime)), converted to uint64_t (truncated).
\* With pureCommunicationTime = 0 the quotient is +inf or NaN and max
\* yields 0.
OverlapOf(notComputing, pure) ==
  IF notComputing >= pure THEN 0
  ELSE (SCALE * (pure - notComputing)) \div pure

Report ==
  /\ pc = "report"
  /\ overlap' = OverlapOf(totalTime - (computeTime - mpiTestTime),
                          pureCommunicationTime)
  /\ pc' = "done"
  /\ UNCHANGED <<numMpiTestCalls, i, pureCommunicationTime, sendLatency,
                 totalTime, computeTime, mpiTestTime, n, durationNs, t1, t2,
                 elapsed, commTime>>

Next ==
  \/ PureCommunication \/ Isend \/ DummyComputeEntry \/ DummyComputeStep
  \/ Wait \/ Report

Spec == Init /\ [][Next]_vars

-----------------------------------------------------------------------------
TypeOK ==
  /\ pc \in {"loop1", "isend", "compute", "spin", "wait", "report", "done"}
  /\ \A v \in {pureCommunicationTime, totalTime, computeTime, mpiTestTime,
               commTime, overlap} : v \in Nat

=============================================================================
