----------------------------- MODULE Onboarding -----------------------------
(***************************************************************************)
(* Registration composed with the workers of the queue it dispatches to:   *)
(* from a sign-up request to the welcome mail in the mailbox.  The job is  *)
(* identified by the row it greets (its user_id and email).                *)
(*                                                                         *)
(* The sync driver runs the job inside dispatch(); those behaviours are    *)
(* the ones here in which a job's steps directly follow its dispatch.      *)
(***************************************************************************)
EXTENDS Registration, Naturals

CONSTANT MaxRetries

ASSUME MaxRetriesAssumption == MaxRetries \in Nat

VARIABLES phase, tries, mails

Worker == INSTANCE WelcomeJob WITH Job <- Row

workerVars == <<phase, tries, mails>>
requestVars == <<pc, email, status, users, engine, channel>>

allVars == <<requestVars, dispatched, workerVars>>

OnboardingInit == Init /\ Worker!Init

OnboardingNext ==
  \/ Next /\ UNCHANGED workerVars
  \/ Worker!Next /\ UNCHANGED requestVars

\* The event loop resumes every coroutine whose await is over, and each
\* await here ends: with a result, an error or a time-out of its driver.
\* Some worker lives and keeps taking jobs from the queue.
OnboardingSpec ==
  /\ OnboardingInit
  /\ [][OnboardingNext]_allVars
  /\ \A r \in Request : WF_allVars(HandlerStep(r) /\ UNCHANGED workerVars)
  /\ \A j \in Row :
       WF_allVars(Worker!WorkOn(j) /\ UNCHANGED requestVars)

-----------------------------------------------------------------------------
\* However often somebody signs the same mailbox up, and however often the
\* mailer fails, the mailbox gets the welcome mail at most once per try of
\* one single job.
MailsPerMailbox ==
  \A j, k \in Row :
    /\ mails[j] <= MaxRetries + 1
    /\ mails[j] > 0 /\ mails[k] > 0 /\ Canon[j.email] = Canon[k.email] => j = k

\* Whoever is answered 201 is greeted, or the failure is reported, when the
\* event dispatcher works; or the job went down with its worker.
Welcomed ==
  \A r \in Request :
    status[r] = 201 /\ "events" \in Reliable
      ~> \E j \in Row : j.id = r /\ phase[j] \in {"sent", "failed", "lost"}

=============================================================================
