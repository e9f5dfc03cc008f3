--------------------------- MODULE MCBrowserRuns ---------------------------
(* A small instance of BrowserRuns for TLC.                                *)
EXTENDS BrowserRuns

CONSTANTS j1, j2, i1

Jobs   == {j1, j2}
ForIssue == {j1}
TheIssue == [j \in {j1} |-> i1]
=============================================================================
