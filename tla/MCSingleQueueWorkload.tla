------------------------ MODULE MCSingleQueueWorkload ------------------------
(***************************************************************************)
(* Model-checking instance of SingleQueueWorkload with a buffer offset:    *)
(* one work-item of one workgroup (four bytes) at one byte into the         *)
(* buffer, and one iteration after the warmup.                             *)
(***************************************************************************)
EXTENDS SingleQueueWorkload
=============================================================================
