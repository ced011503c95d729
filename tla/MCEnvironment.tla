--------------------------- MODULE MCEnvironment ---------------------------
(* A small instance for TLC: a few edits and faults of the environment, and in it a few runs of  *)
(* the news workflow. Titles 1 and 2 differ in case only; 5 and 6 are what a dry run finds.       *)
EXTENDS NewsRuns

FewTitles == 1 .. 6
FewFold == <<1, 1, 3, 4, 5, 6>>
FewListed == 1 .. 4
FewStubs == <<5, 6>>
=============================================================================
