------------------------- MODULE DeviceMemoryManager -------------------------
(***************************************************************************)
(* The first-fit device-buffer pool of the graph API benchmark             *)
(* (class DeviceMemoryManager, sin_common_l0.cpp / sin_common_ur.cpp).     *)
(*                                                                         *)
(* memInfos is the std::vector<DeviceMemoryInfo>; an entry's data pointer  *)
(* is modelled by its position in the vector (entries are only appended,   *)
(* and only popped all together by deinit), 0 is nullptr.  The counters    *)
(* allocCnt and usedCnt are size_t: they wrap at SIZE_MAX.                 *)
(*                                                                         *)
(* The L0 copy guards every operation with assert(); the UR copy has all   *)
(* of them commented out but the one in free.  Which checks the build has  *)
(* is the constant Asserts (empty for an NDEBUG build).  A failing         *)
(* compiled-in check aborts the process (aborted = TRUE).  Every breach of *)
(* the pool's contract is also recorded in misuse, whether the build       *)
(* checks it or not, so that properties can talk about it.                 *)
(***************************************************************************)
EXTENDS Integers, Sequences, FiniteSets

CONSTANTS
  SIZE_MAX,   \* largest size_t value of the model; a counter wraps past it
  Asserts     \* the assert() calls compiled into this build

\* The assert() calls of the L0 copy, named by what they check.
AssertNames == {"init_leak", "deinit_leak", "double_free", "not_found"}

ASSUME SIZE_MAX \in Nat \ {0}
ASSUME Asserts \subseteq AssertNames

VARIABLES
  memInfos,   \* Seq([count, used])
  allocCnt,   \* number of device allocations made (allocCnt)
  usedCnt,    \* number of entries handed out (usedCnt)
  misuse,     \* contract breaches seen so far (history)
  aborted     \* a compiled-in assert() failed: the process is gone

dmmVars == <<memInfos, allocCnt, usedCnt, misuse, aborted>>

\* size_t ++ and -- with wrap-around.
SizeInc(x) == IF x = SIZE_MAX THEN 0 ELSE x + 1
SizeDec(x) == IF x = 0 THEN SIZE_MAX ELSE x - 1

NULL == 0

\* allocCnt decremented n times, with wrap-around.
RECURSIVE SizeDecBy(_, _)
SizeDecBy(x, n) == IF n = 0 THEN x ELSE SizeDecBy(SizeDec(x), n - 1)

\* Entries currently handed out.
UsedPtrs == {i \in DOMAIN memInfos : memInfos[i].used}

InUse(p) == p \in UsedPtrs

\* Breach of check c: recorded; fatal only when c is compiled in.
Breach(c) ==
  /\ misuse' = misuse \cup {c}
  /\ aborted' = (c \in Asserts)

NoBreach == UNCHANGED <<misuse, aborted>>

\* assert(ok) of check c in front of the state change effect: a compiled-in
\* failing check aborts before effect; otherwise effect happens.
Checked(c, ok, effect) ==
  IF ok THEN NoBreach /\ effect
  ELSE /\ Breach(c)
       /\ IF c \in Asserts THEN UNCHANGED <<memInfos, allocCnt, usedCnt>>
                          ELSE effect

dmmInit ==
  /\ memInfos = <<>>
  /\ allocCnt = 0
  /\ usedCnt = 0
  /\ misuse = {}
  /\ aborted = FALSE

(***************************************************************************)
(* DeviceMemoryManager::init: assert(allocCnt == 0 && usedCnt == 0 &&      *)
(* memInfos.size() == 0 && "memory leak"), then remember the context.      *)
(***************************************************************************)
init ==
  /\ ~aborted
  /\ Checked("init_leak", allocCnt = 0 /\ usedCnt = 0 /\ memInfos = <<>>,
             UNCHANGED <<memInfos, allocCnt, usedCnt>>)

(***************************************************************************)
(* DeviceMemoryManager::alloc(count): nullptr for count 0; otherwise the   *)
(* first unused entry at least count large, or a new device allocation     *)
(* appended to memInfos.  allocResult is the pointer alloc returns.        *)
(***************************************************************************)
\* Variants of the first-fit search, each missing one of its two checks.
FitIndicesAnyUse(count) ==
  {i \in DOMAIN memInfos : memInfos[i].count >= count}
FitIndicesAnySize(count) ==
  {i \in DOMAIN memInfos : ~memInfos[i].used}

FitIndices(count) ==
  {i \in DOMAIN memInfos : memInfos[i].count >= count /\ ~memInfos[i].used}

allocResult(count) ==
  IF count = 0 THEN NULL
  ELSE IF FitIndices(count) # {}
         THEN CHOOSE i \in FitIndices(count) :
                \A j \in FitIndices(count) : i <= j
         ELSE Len(memInfos) + 1

\* Variant of alloc whose reuse path forgets usedCnt++.
allocNoReuseCount(count) ==
  /\ ~aborted
  /\ IF count = 0
       THEN UNCHANGED <<memInfos, allocCnt, usedCnt>>
     ELSE IF FitIndices(count) # {}
       THEN /\ memInfos' = [memInfos EXCEPT ![allocResult(count)].used = TRUE]
            /\ UNCHANGED <<allocCnt, usedCnt>>
       ELSE /\ usedCnt' = SizeInc(usedCnt)
            /\ allocCnt' = SizeInc(allocCnt)
            /\ memInfos' = Append(memInfos, [count |-> count, used |-> TRUE])
  /\ NoBreach

alloc(count) ==
  /\ ~aborted
  /\ IF count = 0
       THEN UNCHANGED <<memInfos, allocCnt, usedCnt>>
     ELSE IF FitIndices(count) # {}
       THEN /\ memInfos' = [memInfos EXCEPT ![allocResult(count)].used = TRUE]
            /\ usedCnt' = SizeInc(usedCnt)
            /\ UNCHANGED allocCnt
       ELSE /\ usedCnt' = SizeInc(usedCnt)
            /\ allocCnt' = SizeInc(allocCnt)
            /\ memInfos' = Append(memInfos, [count |-> count, used |-> TRUE])
  /\ NoBreach

(***************************************************************************)
(* DeviceMemoryManager::free(data): the first entry with that pointer is   *)
(* marked unused and usedCnt decremented, after assert(info.used &&        *)
(* "double free") (L0 only); a pointer of no entry reaches                  *)
(* assert(!"should not reach here").                                       *)
(***************************************************************************)
\* Variant of free that never sets info.used = false.
freeKeepsUsed(data) ==
  /\ ~aborted
  /\ IF data \in DOMAIN memInfos
       THEN Checked("double_free", memInfos[data].used,
                    /\ usedCnt' = SizeDec(usedCnt)
                    /\ UNCHANGED <<memInfos, allocCnt>>)
       ELSE /\ Breach("not_found")
            /\ UNCHANGED <<memInfos, allocCnt, usedCnt>>

free(data) ==
  /\ ~aborted
  /\ IF data \in DOMAIN memInfos
       THEN Checked("double_free", memInfos[data].used,
                    /\ memInfos' = [memInfos EXCEPT ![data].used = FALSE]
                    /\ usedCnt' = SizeDec(usedCnt)
                    /\ UNCHANGED allocCnt)
       ELSE /\ Breach("not_found")
            /\ UNCHANGED <<memInfos, allocCnt, usedCnt>>

(***************************************************************************)
(* DeviceMemoryManager::deinit: assert(usedCnt == 0), then pop every entry *)
(* from the back, asserting it is unused, zeMemFree it and decrement       *)
(* allocCnt; finally assert(allocCnt == 0).  All three asserts say         *)
(* "memory leak".                                                          *)
(***************************************************************************)
deinit ==
  /\ ~aborted
  /\ LET remaining == SizeDecBy(allocCnt, Len(memInfos))
         leak == usedCnt # 0 \/ UsedPtrs # {} \/ remaining # 0
     IN  Checked("deinit_leak", ~leak,
                 /\ memInfos' = <<>>
                 /\ allocCnt' = remaining
                 /\ UNCHANGED usedCnt)

dmmTypeOK ==
  /\ memInfos \in Seq([count : Nat, used : BOOLEAN])
  /\ allocCnt \in 0..SIZE_MAX
  /\ usedCnt \in 0..SIZE_MAX
  /\ misuse \subseteq AssertNames
  /\ aborted \in BOOLEAN
=============================================================================
