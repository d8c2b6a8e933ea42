------------------------------ MODULE Allocator ------------------------------
(***************************************************************************)
(* What a buffer pool promises its caller, with no pool in it: alloc hands *)
(* out a buffer that nobody holds, free takes back a buffer that is held,  *)
(* and the pool is shut down only when nothing is held.                    *)
(***************************************************************************)
EXTENDS Naturals

VARIABLE live   \* buffers handed out and not yet taken back

AbsInit == live = {}

AbsAlloc == \E p \in live' \ live : p \in Nat \ {0} /\ live' = live \cup {p}

AbsFree == \E p \in live : live' = live \ {p}

AbsShutdown == live = {} /\ UNCHANGED live

AbsNext == AbsAlloc \/ AbsFree \/ AbsShutdown

AbsSpec == AbsInit /\ [][AbsNext]_live
=============================================================================
