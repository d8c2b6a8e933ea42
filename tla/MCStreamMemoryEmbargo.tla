------------------------ MODULE MCStreamMemoryEmbargo ------------------------
(***************************************************************************)
(* StreamMemoryEmbargo for TLC, asking what a sample is weighted with.     *)
(* Only the SYCL implementation is asked: its kernel is in the repository, *)
(* the L0 and OpenCL kernels are not, so the bytes one of their work-items *)
(* moves is not known.  Both pixel types, a size of 16 bytes and a         *)
(* maximum work-group size of 2.                                           *)
(***************************************************************************)
EXTENDS StreamMemoryEmbargo

MCSyclApi == {"SYCL"}
MCTypes == {"RGBtoY", "AlignedRGBtoY"}
MCSizes == {16}
MCGroupSizes == {2}
=============================================================================
