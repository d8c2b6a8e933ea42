------------------------------ MODULE PoolClient ------------------------------
(***************************************************************************)
(* The DeviceMemoryManager driven by a caller that keeps the pool's        *)
(* contract: a Tensor4D construction allocates into a free slot, a slot's  *)
(* buffer is freed once, and deinit comes only after every slot is freed.  *)
(* This isolates the pool from the benchmark that uses it (modelled in     *)
(* SinKernelGraphL0 / SinKernelGraphUR), so that what is checked here is    *)
(* the pool's own bookkeeping.                                              *)
(***************************************************************************)
EXTENDS DeviceMemoryManager

CONSTANTS
  Slots,    \* tensors the caller can hold at once
  Counts    \* element counts the caller asks for (count())

ASSUME Counts \subseteq Nat \ {0}

VARIABLES
  held,     \* slot -> [ptr, count] of the tensor in it, or NoTensor
  ready     \* between init and deinit

vars == <<dmmVars, held, ready>>

NoTensor == [ptr |-> NULL, count |-> 0]

Init ==
  /\ dmmInit
  /\ held = [s \in Slots |-> NoTensor]
  /\ ready = FALSE

Start ==
  /\ ~ready
  /\ init
  /\ ready' = TRUE
  /\ UNCHANGED held

\* Tensor4D(A, B, C, D): data = deviceMemMgr.alloc(count()).
Construct(s, c) ==
  /\ ready
  /\ held[s] = NoTensor
  /\ alloc(c)
  /\ held' = [held EXCEPT ![s] = [ptr |-> allocResult(c), count |-> c]]
  /\ UNCHANGED ready

Release(s) ==
  /\ ready
  /\ held[s] # NoTensor
  /\ free(held[s].ptr)
  /\ held' = [held EXCEPT ![s] = NoTensor]
  /\ UNCHANGED ready

Stop ==
  /\ ready
  /\ \A s \in Slots : held[s] = NoTensor
  /\ deinit
  /\ ready' = FALSE
  /\ UNCHANGED held

Next ==
  \/ Start
  \/ \E s \in Slots, c \in Counts : Construct(s, c)
  \/ \E s \in Slots : Release(s)
  \/ Stop

Spec == Init /\ [][Next]_vars

TypeOK ==
  /\ dmmTypeOK
  /\ held \in [Slots -> [ptr : Nat, count : Nat]]
  /\ ready \in BOOLEAN

(***************************************************************************)
(* usedCnt counts exactly the entries marked used: alloc's two paths       *)
(* (reuse and new allocation), free and deinit keep the counter and the    *)
(* flags in step over any sequence of calls.                               *)
(***************************************************************************)
UsedCountAccurate == usedCnt = Cardinality(UsedPtrs)

(***************************************************************************)
(* Two tensors alive at the same time never share a device buffer: alloc's *)
(* first-fit search only hands out entries that are not in use.            *)
(***************************************************************************)
NoAliasing ==
  \A s, t \in Slots :
    s # t /\ held[s] # NoTensor /\ held[t] # NoTensor => held[s].ptr # held[t].ptr

(***************************************************************************)
(* A tensor's buffer holds at least the count() elements it was allocated  *)
(* for, even when alloc reused an entry first made for another size.       *)
(***************************************************************************)
BufferFits ==
  \A s \in Slots : held[s] # NoTensor => memInfos[held[s].ptr].count >= held[s].count

(***************************************************************************)
(* The pool implements the abstract allocator: the entries marked used are *)
(* exactly the buffers handed out and not yet taken back.                  *)
(***************************************************************************)
Abstract == INSTANCE Allocator WITH live <- UsedPtrs

RefinesAllocator == Abstract!AbsSpec
=============================================================================
