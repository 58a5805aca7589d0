----------------------------- MODULE MCTaskView -----------------------------
(***************************************************************************)
(* The store and a window over it, for TLC: one task that repeated         *)
(* approvals can fill the log of, and the file with it, two projects to    *)
(* switch between, and two records at a time on their way to the window.   *)
(***************************************************************************)
EXTENDS TaskView, TLC

LOCAL Sets == INSTANCE FiniteSetsExt

\* A file grows with its tasks and with their event logs.
MCFileSize(list) == Sets!MapThenSumSet(LAMBDA i : 1 + list[i].events, DOMAIN list)

Symmetry == Permutations(Projects)
=============================================================================
