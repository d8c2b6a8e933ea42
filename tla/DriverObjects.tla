---------------------------- MODULE DriverObjects ----------------------------
(***************************************************************************)
(* The driver's side of the objects a benchmark creates and releases:      *)
(* device allocations, command lists, OpenCL buffers, programs, kernels   *)
(* and events.  Each successful create hands out a handle never handed out *)
(* before; a release takes a live handle back.  Releasing or using a      *)
(* handle that is not live is recorded in misuse, which the properties of *)
(* the benchmarks forbid.  (A real driver may hand a freed address out     *)
(* again; fresh handles make a stale handle visible instead of letting it  *)
(* alias a newer object.)                                                  *)
(***************************************************************************)
EXTENDS Naturals, Sequences, FiniteSets

VARIABLES
  live,       \* handles created and not yet released
  released,   \* handles released
  misuse      \* kinds of misuse seen: "release" or "use" of a dead handle

objVars == <<live, released, misuse>>

NULLH == 0

objInit == live = {} /\ released = {} /\ misuse = {}

\* The handle the next successful create returns.
Fresh == Cardinality(live \cup released) + 1

\* A create call succeeds and returns Fresh.
Create == live' = live \cup {Fresh} /\ UNCHANGED <<released, misuse>>

\* A release call on handle h.
Release(h) ==
  IF h \in live
  THEN live' = live \ {h} /\ released' = released \cup {h} /\ UNCHANGED misuse
  ELSE misuse' = misuse \cup {"release"} /\ UNCHANGED <<live, released>>

\* Release the handles of the sequence s, in order (a cleanup block): a
\* handle that is not live, or appears twice, is a misuse.
ReleaseSeq(s) ==
  LET S == {s[n] : n \in DOMAIN s} IN
  /\ live' = live \ S /\ released' = released \cup (S \cap live)
  /\ misuse' = IF S \subseteq live /\ Cardinality(S) = Len(s) THEN misuse
               ELSE misuse \cup {"release"}

\* A call that reads the handles S (enqueue, set argument, query).
Use(S) ==
  /\ misuse' = IF S \subseteq live THEN misuse ELSE misuse \cup {"use"}
  /\ UNCHANGED <<live, released>>

\* A call that reads the handles S and creates a new object (an enqueue
\* that returns an event).
CreateUsing(S) ==
  /\ misuse' = IF S \subseteq live THEN misuse ELSE misuse \cup {"use"}
  /\ live' = live \cup {Fresh} /\ UNCHANGED released
=============================================================================
