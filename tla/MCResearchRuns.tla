-------------------------- MODULE MCResearchRuns ----------------------------
(* Two ticks or run-now requests, and two handlers, under way at once.     *)
EXTENDS ResearchRuns

CONSTANTS t1, t2, h1, h2
=============================================================================
