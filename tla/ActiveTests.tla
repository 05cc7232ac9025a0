----------------------------- MODULE ActiveTests -----------------------------
(***************************************************************************)
(* What the tools that send approved writes promise together: the form     *)
(* fuzzer, the Server Action campaigns and the boundary probes.  They run  *)
(* as different jobs and share no state but the journal, in which each has *)
(* entries of its own.                                                     *)
(***************************************************************************)
EXTENDS FormFuzz, NextjsActions, NextjsBoundaries

\* What is reported is true: a finding names a broken boundary, a settled entry a complete
\* reset (nextjs_actions.go, nextjs_boundaries.go).
ReportIsTrue == FindingIsProven /\ BoundaryIsBroken /\ ResetIsComplete

\* Nothing is sent late or twice: no POST after the clean-up of its fuzz campaign, a case or fill
\* once, and on a resource that nothing sent before has left changed (form_fuzz_cleanup.go,
\* nextjs_actions.go, nextjs_boundaries.go).
SentInTurn == NothingAfterCleanup /\ SentOnceOnReady /\ FilledOnceWhenCold
==============================================================================
