----------------------------- MODULE ScanProgress -----------------------------
(***************************************************************************)
(* What the long-running parts of a scan keep of their progress: the queue *)
(* of a wildcard scan, the record of the pipeline and the run of a task in *)
(* Greenbone.  They share no state: the queue sees of a session only that  *)
(* it returns, and the pipeline of an OpenVAS run only its status.         *)
(***************************************************************************)
EXTENDS WildcardScan, Greenbone, ScanPipeline

\* What goes on is not lost sight of: the saved index of a wildcard queue does not run ahead of
\* the sessions, no Greenbone task is left running unnoticed, the table of a session is complete,
\* and no scanner runs twice for it (deterministic_scan.go, openvas.go, pipeline.go).
ProgressIsTracked == IndexIsEarned /\ TaskIsTracked /\ ResultsAreFinal
===============================================================================
