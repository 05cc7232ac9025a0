-------------------------- MODULE MCAssessmentJobs --------------------------
(* Accepted plans for the model checker, of two jobs each. *)
EXTENDS AssessmentJobs, TLC

Chain == 1 :> {} @@ 2 :> {1}

\* The crawl and a tool that needs it, of a target with or without credentials.
CrawlPlan(a) ==
  [kind |-> 1 :> "crawl" @@ 2 :> "tool", deps |-> Chain,
   selected |-> {1, 2}, identity |-> {}, auth |-> a]

\* Authentication comes first, and the crawl depends on it.
AuthPlan ==
  [kind |-> 1 :> "auth" @@ 2 :> "crawl", deps |-> Chain,
   selected |-> {2}, identity |-> {}, auth |-> TRUE]

\* No crawl job: the tool, under a named identity, has the target crawled. The
\* second job was not selected.
IdentityPlan ==
  [kind |-> 1 :> "tool" @@ 2 :> "tool", deps |-> 1 :> {} @@ 2 :> {},
   selected |-> {1}, identity |-> {1}, auth |-> FALSE]

\* Two tools, of which the second depends on the first.
ToolPlan ==
  [kind |-> 1 :> "tool" @@ 2 :> "tool", deps |-> Chain,
   selected |-> {1, 2}, identity |-> {}, auth |-> FALSE]

AllPlans == {CrawlPlan(TRUE), CrawlPlan(FALSE), AuthPlan, IdentityPlan, ToolPlan}
CrawlPlans == {CrawlPlan(FALSE)}
=============================================================================
