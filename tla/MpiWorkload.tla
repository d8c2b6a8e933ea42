------------------------------ MODULE MpiWorkload ------------------------------
(***************************************************************************)
(* The MPI workload (mpi_workload_l0.cpp): every rank of MPI_COMM_WORLD    *)
(* runs run() with the same arguments, dispatching on testType.  A rank is *)
(* a process with its own pc; the ranks interact only through MPI.         *)
(*                                                                         *)
(* MPI is modelled at the level that decides whether the ranks can get     *)
(* stuck:                                                                  *)
(*  - point-to-point: msgs[<<s, d>>] messages from s to d not yet          *)
(*    received.  A send (MPI_Send, or MPI_Isend + MPI_Wait/Waitall)        *)
(*    completes only once its messages were received: the synchronous     *)
(*    behaviour MPI allows for any send, so a program deadlock-free here   *)
(*    is deadlock-free under every MPI implementation ("safe" program).    *)
(*  - collectives on MPI_COMM_WORLD are matched by their order: ncoll[r]   *)
(*    counts the collectives rank r has entered.  MPI_Barrier, Allreduce   *)
(*    and Alltoall complete once every rank entered the same one;          *)
(*    MPI_Reduce completes at once on a non-root and once all entered on   *)
(*    the root; MPI_Bcast completes at once on the root and once the root  *)
(*    entered it on the others.                                            *)
(*  - MPI_Init, MPI_Finalize, MPI_Test and the L0 calls are local steps.   *)
(* Timings are abstracted to the per-rank statistic val[r], a value of     *)
(* Durations; the root combines them as the code does.                     *)
(***************************************************************************)
EXTENDS Integers, FiniteSets, Folds

CONSTANTS
  NRanks,       \* size of MPI_COMM_WORLD
  Configs,      \* <<testType, testArg3>> pairs explored; testArg3 is
                \* nBatches of Bandwidth and gpuCompute of Overlap
  StatsTypes,   \* MpiStatisticsType values explored (statsType)
  WARMUP,       \* constexpr warmup of the loops (10 or 5 in the code)
  ITERATIONS,   \* constexpr iterations of the loops (200 or 50 in the code)
  BATCH_SIZE,   \* constexpr batchSize of Bandwidth (100 in the code)
  Durations,    \* values a rank's timing statistic can take
  Placements    \* memory types explored for testArg1 and testArg2

AllTests == {"Startup", "Bandwidth", "Latency", "Overlap", "Broadcast",
             "Reduce", "AllReduce", "AllToAll"}
AllStats == {"Avg", "Max", "Min"}

ASSUME NRanks \in Nat /\ NRanks >= 2
ASSUME Configs \subseteq AllTests \X Nat /\ StatsTypes \subseteq AllStats
ASSUME WARMUP \in Nat \ {0} /\ ITERATIONS \in Nat \ {0}
ASSUME BATCH_SIZE \in Nat \ {0} /\ Durations \subseteq Nat
\* "NonUsm" stands for every testArg value that is not a USM placement.
ASSUME Placements \subseteq {"Host", "Device", "Shared", "NonUsm"}

Ranks == 0..(NRanks - 1)
Root == 0
\* Rank 0 talks to rank 1, every other rank to rank 0.
Peer(r) == IF r = Root THEN 1 ELSE Root

NoValue == -1

VARIABLES
  testType, statsType, testArg3,  \* arguments, the same on every rank
  sendType, recvType,             \* testArg1 and testArg2
  pc,           \* rank -> label
  i,            \* rank -> loop counter
  phase,        \* rank -> which of Overlap's two loops
  ncoll,        \* rank -> collectives entered
  msgs,         \* <<s, d>> -> messages sent and not yet received
  val,          \* rank -> its timing statistic
  measurement,  \* what rank 0 prints as **Measurement
  result,       \* rank -> TestResult returned by run()
  fault,        \* a rank divided by zero or dereferenced an empty range
  bufs,         \* rank -> buffer -> memory type it was memAlloc'ed with
  freeFault     \* a memFree handed a pointer to the other deallocator

vars == <<testType, statsType, testArg3, sendType, recvType, pc, i, phase, ncoll,
          msgs, val, measurement, result, fault, bufs, freeFault>>

Pairs == Ranks \X Ranks

\* Iterations of the timed loop, warmup included.
LoopCount ==
  IF testType = "Bandwidth" THEN testArg3 + WARMUP ELSE ITERATIONS + WARMUP

gpuCompute == testArg3 # 0

\* Completion condition of rank r's current collective.
CollDone(r, kind) ==
  CASE kind = "all"    -> \A q \in Ranks : ncoll[q] >= ncoll[r]
    [] kind = "reduce" -> r # Root \/ \A q \in Ranks : ncoll[q] >= ncoll[r]
    [] kind = "bcast"  -> r = Root \/ ncoll[Root] >= ncoll[r]

CollKind ==
  CASE testType = "Broadcast" -> "bcast"
    [] testType = "Reduce"    -> "reduce"
    [] OTHER                  -> "all"

Go(r, l) == pc' = [pc EXCEPT ![r] = l]

(***************************************************************************)
(* Buffers.  memAlloc switches on the type: the three USM placements come  *)
(* from zeMemAlloc{Host,Device,Shared}, any other value from aligned_alloc; *)
(* memFree calls zeMemFree for a USM type and free() otherwise.  Each      *)
(* test passes its own type expression to memAlloc and again to memFree.  *)
(* Handing a pointer to the other deallocator is a failed zeMemFree (the   *)
(* buffer leaks) or free() of a USM pointer (heap corruption).             *)
(***************************************************************************)
BufNames == {"buf", "buffer", "sendBuf", "recvBuf", "gpuComputeBuf"}
NoBuf == "none"

UsmPlacements == {"Host", "Device", "Shared"}

\* Which deallocator memFree picks for a type: zeMemFree or free().
Deallocator(t) == IF t \in UsmPlacements THEN "zeMemFree" ELSE "free"

\* The buffers a test allocates right after MPI_Init, by its local name.
TestBuffers ==
  CASE testType = "Startup"                   -> {}
    [] testType \in {"Bandwidth", "Overlap"} -> {"buf"}
    [] testType = "Broadcast"                 -> {"buffer"}
    [] OTHER                                  -> {"sendBuf", "recvBuf"}

\* The type a test passes to memAlloc for buffer b on rank r.
AllocType(r, b) ==
  CASE b = "buf"           -> IF r = Root THEN sendType ELSE recvType
    [] b = "sendBuf"       -> sendType
    [] b = "recvBuf"       -> recvType
    [] b = "buffer"        -> sendType
    [] b = "gpuComputeBuf" -> "Device"

\* Variant of FreeType in which the two-buffer tests pass each buffer the
\* other's type.
FreeTypeSwapped(r, b) ==
  CASE b = "buf"           -> IF r = Root THEN sendType ELSE recvType
    [] b = "sendBuf"       -> recvType
    [] b = "recvBuf"       -> sendType
    [] b = "buffer"        -> sendType
    [] b = "gpuComputeBuf" -> "Device"

\* The type a test passes to memFree for buffer b on rank r.
FreeType(r, b) ==
  CASE b = "buf"           -> IF r = Root THEN sendType ELSE recvType
    [] b = "sendBuf"       -> sendType
    [] b = "recvBuf"       -> recvType
    [] b = "buffer"        -> sendType
    [] b = "gpuComputeBuf" -> "Device"

\* memAlloc of the buffers B on rank r.
MemAlloc(r, B) ==
  bufs' = [bufs EXCEPT ![r] = [b \in BufNames |->
                                 IF b \in B THEN AllocType(r, b) ELSE @[b]]]

\* memFree of the buffers B on rank r.
MemFree(r, B) ==
  /\ bufs' = [bufs EXCEPT ![r] = [b \in BufNames |->
                                   IF b \in B THEN NoBuf ELSE @[b]]]
  /\ freeFault' = (freeFault \/ \E b \in B :
                     Deallocator(FreeType(r, b)) # Deallocator(bufs[r][b]))

Init ==
  /\ \E c \in Configs : testType = c[1] /\ testArg3 = c[2]
  /\ statsType \in StatsTypes
  /\ pc = [r \in Ranks |-> "init"]
  /\ i = [r \in Ranks |-> 0]
  /\ phase = [r \in Ranks |-> 1]
  /\ ncoll = [r \in Ranks |-> 0]
  /\ msgs = [p \in Pairs |-> 0]
  /\ val = [r \in Ranks |-> NoValue]
  /\ measurement = NoValue
  /\ result = [r \in Ranks |-> "none"]
  /\ fault = FALSE
  /\ sendType \in Placements /\ recvType \in Placements
  /\ bufs = [r \in Ranks |-> [b \in BufNames |-> NoBuf]]
  /\ freeFault = FALSE

Args == <<testType, statsType, testArg3, sendType, recvType>>
bufVars == <<bufs, freeFault>>

\* Overlap's rank 0 with gpuCompute also allocates gpuComputeBuf (Device).
GpuBuffers(r) ==
  IF testType = "Overlap" /\ gpuCompute /\ r = Root THEN {"gpuComputeBuf"} ELSE {}

(***************************************************************************)
(* run(): push iterations zero samples, dispatch on testType; the test     *)
(* creates LevelZero, calls MPI_Init (zeInit first or not for Startup) and *)
(* memAllocs its buffers.  Overlap on rank 0 with gpuCompute then builds   *)
(* its kernel and may return KernelNotFound (no .spv) or Error (an         *)
(* ASSERT_ZE_RESULT_SUCCESS, before or after gpuComputeBuf's memAlloc)     *)
(* without memFree or MPI_Finalize.  Startup goes straight to its          *)
(* reduction.                                                              *)
(***************************************************************************)
Start(r) ==
  /\ pc[r] = "init"
  /\ \/ /\ GpuBuffers(r) # {}
        \* KernelNotFound, or an ASSERT before or after gpuComputeBuf's memAlloc
        /\ \/ /\ MemAlloc(r, TestBuffers)
              /\ \E res \in {"KernelNotFound", "Error"} :
                   result' = [result EXCEPT ![r] = res]
           \/ /\ MemAlloc(r, TestBuffers \cup GpuBuffers(r))
              /\ result' = [result EXCEPT ![r] = "Error"]
        /\ Go(r, "done")
     \/ /\ MemAlloc(r, TestBuffers \cup GpuBuffers(r))
        /\ Go(r, IF testType = "Startup" THEN "stats" ELSE "barrier")
        /\ UNCHANGED result
  /\ UNCHANGED <<Args, i, phase, ncoll, msgs, val, measurement, fault, freeFault>>

\* MPI_Barrier(MPI_COMM_WORLD) at the top of every iteration: enter ...
EnterBarrier(r) ==
  /\ pc[r] = "barrier"
  /\ ncoll' = [ncoll EXCEPT ![r] = @ + 1]
  /\ Go(r, "barrier_wait")
  /\ UNCHANGED <<Args, bufVars, i, phase, msgs, val, measurement, result, fault>>

\* Variant of LeaveBarrier in which Latency's other ranks send their reply
\* before receiving the ping.
LeaveBarrierSendFirst(r) ==
  /\ pc[r] = "barrier_wait"
  /\ CollDone(r, "all")
  /\ Go(r, CASE testType \in {"Bandwidth", "Overlap"} ->
                  IF r = Root THEN "send" ELSE "recv"
             [] testType = "Latency" -> "send"
             [] OTHER -> "coll")
  /\ UNCHANGED <<Args, bufVars, i, phase, ncoll, msgs, val, measurement, result, fault>>

\* ... and leave once every rank entered; then the test's communication.
LeaveBarrier(r) ==
  /\ pc[r] = "barrier_wait"
  /\ CollDone(r, "all")
  /\ Go(r, CASE testType \in {"Bandwidth", "Latency", "Overlap"} ->
                  IF r = Root THEN "send" ELSE "recv"
             [] OTHER -> "coll")
  /\ UNCHANGED <<Args, bufVars, i, phase, ncoll, msgs, val, measurement, result, fault>>

\* Messages rank r sends per iteration: batchSize Isends for Bandwidth,
\* one MPI_Send / MPI_Isend otherwise.
PerIteration == IF testType = "Bandwidth" THEN BATCH_SIZE ELSE 1

\* Rank r posts its send(s) to Peer(r).
Send(r) ==
  /\ pc[r] = "send"
  /\ msgs' = [msgs EXCEPT ![<<r, Peer(r)>>] = @ + PerIteration]
  /\ Go(r, "send_wait")
  /\ UNCHANGED <<Args, bufVars, i, phase, ncoll, val, measurement, result, fault>>

\* MPI_Send returns / MPI_Wait(all) completes once the peer received them.
\* Latency's rank 0 then receives the reply; every other send ends the
\* iteration.
SendDone(r) ==
  /\ pc[r] = "send_wait"
  /\ msgs[<<r, Peer(r)>>] = 0
  /\ Go(r, IF testType = "Latency" /\ r = Root THEN "recv" ELSE "next")
  /\ UNCHANGED <<Args, bufVars, i, phase, ncoll, msgs, val, measurement, result, fault>>

\* Variant of Recv that does not wait for the messages (no Waitall).
RecvNoWait(r) ==
  /\ pc[r] = "recv"
  /\ msgs' = [msgs EXCEPT ![<<Peer(r), r>>] = @ - PerIteration]
  /\ Go(r, IF testType = "Latency" /\ r # Root THEN "send" ELSE "next")
  /\ UNCHANGED <<Args, bufVars, i, phase, ncoll, val, measurement, result, fault>>

\* MPI_Recv / Irecv + Waitall from Peer(r).  Latency's other ranks reply.
Recv(r) ==
  /\ pc[r] = "recv"
  /\ msgs[<<Peer(r), r>>] >= PerIteration
  /\ msgs' = [msgs EXCEPT ![<<Peer(r), r>>] = @ - PerIteration]
  /\ Go(r, IF testType = "Latency" /\ r # Root THEN "send" ELSE "next")
  /\ UNCHANGED <<Args, bufVars, i, phase, ncoll, val, measurement, result, fault>>

\* MPI_Bcast / MPI_Reduce / MPI_Allreduce / MPI_Alltoall of the loop body.
EnterColl(r) ==
  /\ pc[r] = "coll"
  /\ ncoll' = [ncoll EXCEPT ![r] = @ + 1]
  /\ Go(r, "coll_wait")
  /\ UNCHANGED <<Args, bufVars, i, phase, msgs, val, measurement, result, fault>>

LeaveColl(r) ==
  /\ pc[r] = "coll_wait"
  /\ CollDone(r, CollKind)
  /\ Go(r, "next")
  /\ UNCHANGED <<Args, bufVars, i, phase, ncoll, msgs, val, measurement, result, fault>>

\* End of an iteration: loop, start Overlap's second loop, or go on to the
\* statistics (Overlap prints its overlap ratio without a reduction).
NextIteration(r) ==
  /\ pc[r] = "next"
  /\ IF i[r] + 1 < LoopCount
       THEN /\ i' = [i EXCEPT ![r] = @ + 1]
            /\ Go(r, "barrier")
            /\ UNCHANGED phase
     ELSE IF testType = "Overlap" /\ phase[r] = 1
       THEN /\ i' = [i EXCEPT ![r] = 0]
            /\ phase' = [phase EXCEPT ![r] = 2]
            /\ Go(r, "barrier")
     ELSE /\ Go(r, IF testType = "Overlap" THEN "finalize" ELSE "stats")
          /\ UNCHANGED <<i, phase>>
  /\ UNCHANGED <<Args, bufVars, ncoll, msgs, val, measurement, result, fault>>

(***************************************************************************)
(* The per-rank statistic over the nBatches / iterations durations, then   *)
(* MPI_Reduce of it to rank 0 with MPI_SUM, MPI_MAX or MPI_MIN.  With      *)
(* nBatches = 0, Bandwidth's Avg divides by zero and its Max/Min           *)
(* dereference min_element/max_element of an empty vector: the rank       *)
(* crashes.                                                                *)
(***************************************************************************)
EmptyDurations == testType = "Bandwidth" /\ testArg3 = 0

\* Avg: integer division by zero traps.  Max/Min: undefined behaviour; the
\* read of *end() crashes or yields a garbage value.
Stats(r) ==
  /\ pc[r] = "stats"
  /\ IF EmptyDurations
       THEN /\ fault' = TRUE
            /\ \/ /\ Go(r, "crashed")
                  /\ UNCHANGED <<ncoll, val>>
               \/ /\ statsType # "Avg"
                  /\ \E v \in Durations : val' = [val EXCEPT ![r] = v]
                  /\ ncoll' = [ncoll EXCEPT ![r] = @ + 1]
                  /\ Go(r, "reduce_wait")
       ELSE /\ \E v \in Durations : val' = [val EXCEPT ![r] = v]
            /\ ncoll' = [ncoll EXCEPT ![r] = @ + 1]
            /\ Go(r, "reduce_wait")
            /\ UNCHANGED fault
  /\ UNCHANGED <<Args, bufVars, i, phase, msgs, measurement, result>>

\* What rank 0 prints for the Avg statistic: the MPI_SUM of the per-rank
\* values divided by nRanks (Startup), by 2 * batchSize (Bandwidth) or by 2.
Sum(S) == MapThenFoldSet(LAMBDA x, y : x + y, 0, LAMBDA r : val[r], LAMBDA s : CHOOSE x \in s : TRUE, S)

AvgDivisor ==
  CASE testType = "Startup"   -> NRanks
    [] testType = "Bandwidth" -> 2 * BATCH_SIZE
    [] OTHER                  -> 2

Reduced ==
  CASE statsType = "Avg" -> Sum(Ranks) \div AvgDivisor
    [] statsType = "Max" /\ testType = "Bandwidth" ->
         CHOOSE m \in {val[r] : r \in Ranks} : \A r \in Ranks : m <= val[r]
    [] statsType = "Min" /\ testType = "Bandwidth" ->
         CHOOSE m \in {val[r] : r \in Ranks} : \A r \in Ranks : m >= val[r]
    [] statsType = "Max" ->
         CHOOSE m \in {val[r] : r \in Ranks} : \A r \in Ranks : m >= val[r]
    [] statsType = "Min" ->
         CHOOSE m \in {val[r] : r \in Ranks} : \A r \in Ranks : m <= val[r]

\* MPI_Reduce completes; rank 0 has the reduced value and prints it.
ReduceDone(r) ==
  /\ pc[r] = "reduce_wait"
  /\ CollDone(r, "reduce")
  /\ measurement' = IF r = Root THEN Reduced ELSE measurement
  /\ Go(r, "finalize")
  /\ UNCHANGED <<Args, bufVars, i, phase, ncoll, msgs, val, result, fault>>

\* Variant of FreedBuffers in which the two-buffer tests free only recvBuf.
FreedBuffersRecvOnly(r) == (TestBuffers \ {"sendBuf"}) \cup GpuBuffers(r)

\* The buffers a test memFrees before MPI_Finalize.
FreedBuffers(r) == TestBuffers \cup GpuBuffers(r)

\* memFree the buffers, MPI_Finalize, return TestResult::Success.  Overlap's
\* rank 0 with gpuCompute first frees gpuComputeBuf and destroys its kernel,
\* module and command list under ASSERT_ZE_RESULT_SUCCESS, which may return
\* Error before freeing buf and finalizing.
Finalize(r) ==
  /\ pc[r] = "finalize"
  /\ \/ /\ MemFree(r, FreedBuffers(r))
        /\ result' = [result EXCEPT ![r] = "Success"]
     \/ /\ GpuBuffers(r) # {}
        /\ MemFree(r, GpuBuffers(r))
        /\ result' = [result EXCEPT ![r] = "Error"]
  /\ Go(r, "done")
  /\ UNCHANGED <<Args, i, phase, ncoll, msgs, val, measurement, fault>>

Step(r) ==
  \/ Start(r) \/ EnterBarrier(r) \/ LeaveBarrier(r) \/ Send(r) \/ SendDone(r)
  \/ Recv(r) \/ EnterColl(r) \/ LeaveColl(r) \/ NextIteration(r) \/ Stats(r)
  \/ ReduceDone(r) \/ Finalize(r)

Next == \E r \in Ranks : Step(r)

\* Every rank is its own OS process: one that can go on eventually does.
Fairness == \A r \in Ranks : WF_vars(Step(r))

Spec == Init /\ [][Next]_vars /\ Fairness

Labels == {"init", "barrier", "barrier_wait", "send", "send_wait", "recv",
           "coll", "coll_wait", "next", "stats", "reduce_wait", "finalize",
           "done", "crashed"}

TypeOK ==
  /\ testType \in AllTests /\ statsType \in AllStats /\ testArg3 \in Nat
  /\ pc \in [Ranks -> Labels]
  /\ i \in [Ranks -> Nat] /\ phase \in [Ranks -> {1, 2}]
  /\ ncoll \in [Ranks -> Nat] /\ msgs \in [Pairs -> Nat]
  /\ val \in [Ranks -> Durations \cup {NoValue}]
  /\ result \in [Ranks -> {"none", "Success", "KernelNotFound", "Error"}]
  /\ fault \in BOOLEAN
  /\ sendType \in Placements /\ recvType \in Placements
  /\ bufs \in [Ranks -> [BufNames -> Placements \cup {"Device", NoBuf}]]
  /\ freeFault \in BOOLEAN

(***************************************************************************)
(* Every rank eventually returns from run(): no rank is left waiting in a  *)
(* barrier, a receive, a send or a reduction for a partner that will never *)
(* come, whichever test and statistic the command line selects.            *)
(***************************************************************************)
AllRanksFinish == <>(\A r \in Ranks : pc[r] = "done")

(***************************************************************************)
(* The tests' communication pattern cannot deadlock: in a run in which no  *)
(* rank returns early (KernelNotFound, Error) every rank eventually        *)
(* returns from run().  The early returns themselves are what              *)
(* AllRanksFinish is checked against.                                      *)
(***************************************************************************)
NoEarlyReturn == \A r \in Ranks : result[r] \in {"none", "Success"}

CommunicationFinishes ==
  []NoEarlyReturn => <>(\A r \in Ranks : pc[r] = "done")

(***************************************************************************)
(* With statsType Avg the printed measurement is the mean over all ranks   *)
(* of their per-rank values (per message for Bandwidth), as Startup        *)
(* computes it by dividing the MPI_SUM by nRanks.                          *)
(***************************************************************************)
AvgIsMeanOverRanks ==
  (statsType = "Avg" /\ measurement # NoValue) =>
    measurement = Sum(Ranks) \div
                    (NRanks * (IF testType = "Bandwidth" THEN BATCH_SIZE ELSE 1))

(***************************************************************************)
(* No rank divides by zero or reads past an empty vector while computing   *)
(* its statistic, for the arguments' default values included.              *)
(***************************************************************************)
NoArithmeticFault == ~fault

(***************************************************************************)
(* Every memFree hands its pointer to the deallocator of the allocator     *)
(* that produced it (zeMemFree for a USM placement, free() for             *)
(* aligned_alloc): the type expression each test passes to memFree agrees  *)
(* with the one it passed to memAlloc, on every rank, for the rank-        *)
(* dependent buf of Bandwidth and Overlap and the send/recv pairs alike.   *)
(***************************************************************************)
FreeMatchesAlloc == ~freeFault

(***************************************************************************)
(* A rank returns Success from run() only after memFree'ing every buffer   *)
(* its test memAlloc'ed, gpuComputeBuf included.                           *)
(***************************************************************************)
SuccessReleasesBuffers ==
  \A r \in Ranks : result[r] = "Success" => \A b \in BufNames : bufs[r][b] = NoBuf
=============================================================================
