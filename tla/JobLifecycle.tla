---------------------------- MODULE JobLifecycle ----------------------------
(***************************************************************************)
(* The chain-neutral job life cycle of job-lifecycle.ts: what the backend  *)
(* promises a job does whichever escrow carries it.  It knows parties only *)
(* by their role and is handed the time of every action; the deliverable   *)
(* and reason hashes are payload.  The V2 escrow implements it             *)
(* (AgonJobEscrow's ImplementsLifecycle).                                  *)
(***************************************************************************)
EXTENDS Naturals

CONSTANTS MIN_HOURS, MAX_HOURS   \* AGON_JOB_MIN_REVIEW_HOURS, AGON_JOB_MAX_REVIEW_HOURS

VARIABLES job,     \* the AgonJobLifecycle, NoJob before it is created
          now      \* the time the caller passes, in hours

NoJob == [state |-> "none"]

AgonJobActor  == {"buyer", "provider", "resolver", "public"}
AgonJobAction == {"accept", "submit", "accept_submission", "reject", "auto_accept",
                  "dispute", "resolve_pay", "resolve_refund", "fail"}

createAgonJobLifecycle(hours) ==
    /\ job = NoJob
    /\ hours \in MIN_HOURS..MAX_HOURS
    /\ job' = [state |-> "created", settlement |-> "none", reviewHours |-> hours,
               acceptanceDeadline |-> now + hours, reviewDeadline |-> 0, submittedAt |-> 0]

(* From one state to the next; from "submitted" on with the settlement. *)
Goes(from, to) == job.state \in from /\ job' = [job EXCEPT !.state = to]

Settles(from, to, settlement) ==
    job.state \in from /\ job' = [job EXCEPT !.state = to, !.settlement = settlement]

(* Who may take an action, and what it does to a job it is taken on. *)
transitionAgonJobLifecycle(action, actor) ==
    \/ /\ action = "accept" /\ actor = "provider"
       /\ now <= job.acceptanceDeadline
       /\ Goes({"created"}, "accepted")
    \/ /\ action = "submit" /\ actor = "provider"
       /\ now <= job.acceptanceDeadline
       /\ job.state = "accepted"
       /\ job' = [job EXCEPT !.state = "submitted", !.submittedAt = now,
                             !.reviewDeadline = now + job.reviewHours]
    \/ /\ action = "accept_submission" /\ actor = "buyer"
       /\ now <= job.reviewDeadline
       /\ Settles({"submitted"}, "complete", "provider_paid")
    \/ /\ action = "reject" /\ actor = "buyer"
       /\ now <= job.reviewDeadline
       /\ Goes({"submitted"}, "rejected")
    \/ /\ action = "auto_accept" /\ actor = "public"
       /\ now > job.reviewDeadline
       /\ Settles({"submitted"}, "complete", "provider_paid")
    \/ /\ action = "dispute" /\ actor \in {"buyer", "provider"}
       /\ Goes({"rejected"}, "disputed")
    \/ /\ action = "resolve_pay" /\ actor = "resolver"
       /\ Settles({"disputed"}, "complete", "provider_paid")
    \/ /\ action = "resolve_refund" /\ actor = "resolver"
       /\ Settles({"disputed"}, "failed", "buyer_refunded")
    \/ /\ action = "fail" /\ actor = "buyer"
       /\ now > job.acceptanceDeadline
       /\ Settles({"created", "accepted"}, "failed", "buyer_refunded")
-----------------------------------------------------------------------------
LifecycleInit == job = NoJob

LifecycleNext ==
    \/ \E hours \in MIN_HOURS..MAX_HOURS : createAgonJobLifecycle(hours)
    \/ /\ job # NoJob
       /\ \E action \in AgonJobAction, actor \in AgonJobActor :
              transitionAgonJobLifecycle(action, actor)

LifecycleSpec == LifecycleInit /\ [][LifecycleNext]_job
=============================================================================
