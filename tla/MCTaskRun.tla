----------------------------- MODULE MCTaskRun -----------------------------
(***************************************************************************)
(* TaskRun for TLC.  The configurations differ in which of the hard cases  *)
(* they combine: racing commands, failures, eviction, capacity, the limits *)
(* of the event log and of the file.                                       *)
(***************************************************************************)
EXTENDS TaskRun, TLC

LOCAL Sets == INSTANCE FiniteSetsExt

\* A file grows with its tasks and with their event logs.
MCFileSize(list) == Sets!MapThenSumSet(LAMBDA i : 1 + list[i].events, DOMAIN list)

Symmetry == Permutations(Callers)
=============================================================================
