---------------------------- MODULE AuthSession ----------------------------
(***************************************************************************)
(* Authenticated scanning of one web target: the verification of its       *)
(* credentials before the scan (web/assessment_auth.go and                 *)
(* assessment_auth_contexts.go) and the renewal of its sessions while jobs *)
(* run side by side.                                                       *)
(*                                                                         *)
(* Each identity is verified for itself, credential by credential; the     *)
(* first one serves the jobs that name none.  A job keeps the header lines *)
(* it was given and shows them to the refresher of its identity, which     *)
(* logs in again when the session is gone.  Each refresher has a renewal   *)
(* limit of its own.  The application may end sessions at any time, in     *)
(* particular when somebody logs in again.                                 *)
(***************************************************************************)
EXTENDS Naturals, Sequences, FiniteSets

CONSTANTS BindingSeq,   \* the access bindings of the target: identity and kind, in order
          IdentitySeq,  \* the identities, sorted
          JobIdentity,  \* the identity a job names, or None
          MaxRenewals,  \* maxSessionRenewals
          MaxExpiries,  \* bound of the sessions that end by themselves
          None

VARIABLES prep,       \* the identity and the binding that are verified next
          proven,     \* history: the bindings that passed both checks
          context,    \* header lines, state of the evidence and session of each identity
          sessions,   \* the sessions the application still accepts, by identity
          refresher,  \* the lock and the renewals of the refresher of each identity
          authJob,    \* the jobs: position, mode and the session they hold
          logins      \* history: logins during the scan, by identity

authVars == <<prep, proven, context, sessions, refresher, authJob, logins>>

Identities == {IdentitySeq[i] : i \in DOMAIN IdentitySeq}
Jobs == DOMAIN JobIdentity
Bindings == DOMAIN BindingSeq
Of(i) == {b \in Bindings : BindingSeq[b].identity = i}
HasForm(i) == \E b \in Of(i) : BindingSeq[b].kind = "form"

\* The primary identity of the target is the first one, verified or not.
Serves(j) == IF JobIdentity[j] = None THEN IdentitySeq[1] ELSE JobIdentity[j]

\* Every job runs under an identity of the target, and no job is called None.
ASSUME AuthAssumption ==
    /\ None \notin Jobs
    /\ IdentitySeq \in Seq(Identities)
    /\ \A j \in Jobs : Serves(j) \in Identities
    /\ MaxRenewals \in Nat

AuthInit ==
    /\ prep = [identity |-> 1, done |-> {}]
    /\ proven = {}
    /\ context = [i \in Identities |-> [lines |-> {}, state |-> "unavailable"]]
    /\ sessions = [i \in Identities |-> {0}]
    /\ refresher = [i \in Identities |-> [lock |-> None, renewals |-> 0]]
    /\ authJob = [j \in Jobs |-> [pc |-> "waiting", held |-> 0]]
    /\ logins = [i \in Identities |-> 0]

-----------------------------------------------------------------------------
(* Verification.                                                            *)

Verifying == prep.identity <= Len(IdentitySeq)
Identity == IdentitySeq[prep.identity]
\* The bindings of an identity are tried in order.
NextBinding(b) ==
    /\ b \in Of(Identity) \ prep.done
    /\ \A c \in Of(Identity) \ prep.done : b <= c

\* Mutant: the lines of a credential are handed out after the positive check alone.
EarnedMutant(positive, control) == positive
\* A marker or page that an anonymous request sees as well proves nothing.
Earned(positive, control) == positive /\ control

\* One binding: it cannot be tried, is rejected, or passes; its outcome is that of the target.
Verify(b) ==
    /\ Verifying /\ NextBinding(b)
    /\ prep' = [prep EXCEPT !.done = @ \cup {b}]
    /\ \/ /\ context' = [context EXCEPT ![Identity].state = "unavailable"]
          /\ UNCHANGED proven
       \/ \E positive, control \in BOOLEAN :
             /\ context' = [context EXCEPT ![Identity] =
                   IF Earned(positive, control)
                   THEN [lines |-> @.lines \cup {b}, state |-> "verified"]
                   ELSE [@ EXCEPT !.state = "failed"]]
             /\ proven' = IF positive /\ control THEN proven \cup {b} ELSE proven
    /\ UNCHANGED <<sessions, refresher, authJob, logins>>

\* All bindings of an identity were tried: what passed counts.
NextIdentity ==
    /\ Verifying /\ Of(Identity) \subseteq prep.done
    /\ prep' = [identity |-> prep.identity + 1, done |-> {}]
    /\ context' = [context EXCEPT ![Identity].state = IF context[Identity].lines # {}
                                                      THEN "verified" ELSE @]
    /\ UNCHANGED <<proven, sessions, refresher, authJob, logins>>

\* A job runs with the lines of its identity, and is skipped when there are none.
JobStarts(j) ==
    /\ ~ Verifying /\ authJob[j].pc = "waiting"
    /\ authJob' = [authJob EXCEPT ![j].pc =
                     IF context[Serves(j)].lines = {} THEN "skipped" ELSE "running"]
    /\ UNCHANGED <<prep, proven, context, sessions, refresher, logins>>

-----------------------------------------------------------------------------
(* The refresher of an identity, one caller at a time.                      *)

\* The check of a job comes due: at once for ZAP, at every tick for a command.
Ask(j) ==
    /\ authJob[j].pc = "running" /\ refresher[Serves(j)].lock = None
    /\ refresher' = [refresher EXCEPT ![Serves(j)].lock = j]
    /\ authJob' = [authJob EXCEPT ![j].pc = "checking"]
    /\ UNCHANGED <<prep, proven, context, sessions, logins>>

Answer(j, pc) ==
    /\ authJob' = [authJob EXCEPT ![j].pc = pc]
    /\ refresher' = [refresher EXCEPT ![Serves(j)].lock = None]

\* The session is still accepted.  A check may fail all the same, for a reason of its own.
SessionActive(j) ==
    /\ authJob[j].pc = "checking" /\ authJob[j].held \in sessions[Serves(j)]
    /\ Answer(j, "running")
    /\ UNCHANGED <<prep, proven, context, sessions, logins>>

\* Mutant: the counter is that of the caller, not of the refresher.
BudgetLeftMutant(j) == authJob[j].held < MaxRenewals
BudgetLeft(j) == refresher[Serves(j)].renewals < MaxRenewals

CheckFails(j) ==
    /\ authJob[j].pc = "checking"
    /\ IF HasForm(Serves(j)) /\ BudgetLeft(j)
       THEN /\ authJob' = [authJob EXCEPT ![j].pc = "login"]
            /\ refresher' = [refresher EXCEPT ![Serves(j)].renewals = @ + 1]
       ELSE Answer(j, "expired")
    /\ UNCHANGED <<prep, proven, context, sessions, logins>>

\* A fresh login, after which the application accepts the new session and perhaps the old ones.
Login(j) ==
    /\ authJob[j].pc = "login"
    /\ LET i == Serves(j)  new == logins[i] + 1 IN
       /\ logins' = [logins EXCEPT ![i] = new]
       /\ sessions' \in {[sessions EXCEPT ![i] = @ \cup {new}], [sessions EXCEPT ![i] = {new}]}
       /\ authJob' = [authJob EXCEPT ![j] = [pc |-> "renewed", held |-> new]]
       /\ refresher' = [refresher EXCEPT ![i].lock = None]
    /\ UNCHANGED <<prep, proven, context>>

LoginFails(j) ==
    /\ authJob[j].pc = "login"
    /\ logins' = [logins EXCEPT ![Serves(j)] = @ + 1]
    /\ Answer(j, "expired")
    /\ UNCHANGED <<prep, proven, context, sessions>>

\* ZAP goes on with the new lines; a command cannot change its arguments and is stopped.
GoOn(j) ==
    /\ authJob[j].pc = "renewed"
    /\ \E pc \in {"running", "expired"} : authJob' = [authJob EXCEPT ![j].pc = pc]
    /\ UNCHANGED <<prep, proven, context, sessions, refresher, logins>>

JobEnds(j) ==
    /\ authJob[j].pc = "running"
    /\ authJob' = [authJob EXCEPT ![j].pc = "ended"]
    /\ UNCHANGED <<prep, proven, context, sessions, refresher, logins>>

\* The application ends a session by itself.
Expire ==
    /\ \E i \in Identities, g \in 0 .. MaxExpiries :
         g \in sessions[i] /\ sessions' = [sessions EXCEPT ![i] = @ \ {g}]
    /\ UNCHANGED <<prep, proven, context, refresher, authJob, logins>>

AuthNext ==
    \/ \E b \in Bindings : Verify(b)
    \/ NextIdentity \/ Expire
    \/ \E j \in Jobs : \/ JobStarts(j) \/ Ask(j) \/ SessionActive(j) \/ CheckFails(j)
                       \/ Login(j) \/ LoginFails(j) \/ GoOn(j) \/ JobEnds(j)

AuthSpec == AuthInit /\ [][AuthNext]_authVars

-----------------------------------------------------------------------------
AuthTypeOK ==
    /\ prep.identity \in 1 .. Len(IdentitySeq) + 1 /\ prep.done \subseteq Bindings
    /\ proven \subseteq Bindings
    /\ context \in [Identities -> [lines : SUBSET Bindings,
                                   state : {"unavailable", "failed", "verified"}]]
    /\ \A i \in Identities : refresher[i].lock \in Jobs \cup {None}
    /\ \A j \in Jobs : authJob[j].pc \in {"waiting", "skipped", "running", "checking", "login",
                                          "renewed", "expired", "ended"}

\* A job runs with lines of its own identity only, each of which passed the positive check and
\* the anonymous control; a job whose identity could not be verified is skipped.  And the jobs
\* of one identity together log in no more often than the renewal limit allows, however their
\* checks, expiries and logins interleave.
CredentialsAreEarned ==
    /\ \A j \in Jobs : authJob[j].pc \notin {"waiting", "skipped"} =>
          /\ context[Serves(j)].lines # {}
          /\ context[Serves(j)].lines \subseteq Of(Serves(j)) \cap proven
    /\ \A i \in Identities : logins[i] <= MaxRenewals

\* Not kept by the code, although comments say so: the jobs of a target together get no more fresh
\* form logins than maxSessionRenewals, whatever identities they run under.  Each identity has a
\* refresher of its own.
TargetWithinRenewals ==
    \A i, k \in Identities : i # k => logins[i] + logins[k] <= MaxRenewals
=============================================================================
