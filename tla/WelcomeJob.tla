----------------------------- MODULE WelcomeJob -----------------------------
(***************************************************************************)
(* SendWelcomeEmailJob on the queue's workers.  handle() builds a mailer   *)
(* and sends the WelcomeMail; when it raises, the worker runs the job      *)
(* again, at most max_retries times, and then calls on_failure().          *)
(*                                                                         *)
(* A mailer that raises has not necessarily failed: an SMTP session can be *)
(* lost after the server accepted the message.                             *)
(*                                                                         *)
(* A worker that dies takes the job it runs with it: dispatch() left it to *)
(* the worker (or, with the sync driver, ran it), and nobody is told.      *)
(***************************************************************************)
EXTENDS Naturals

CONSTANTS
  Job,         \* the jobs that may be dispatched
  MaxRetries   \* SendWelcomeEmailJob.max_retries

VARIABLES
  dispatched,  \* the jobs handed to the queue
  phase,       \* "queued", "sent", "failed" or "lost", for each job
  tries,       \* how often handle() of the job has run
  mails        \* how many messages of the job the mail server accepted

Init ==
  /\ phase = [j \in Job |-> "queued"]
  /\ tries = [j \in Job |-> 0]
  /\ mails = [j \in Job |-> 0]

\* A worker picks the job up: its first run, or a retry.
CanRun(j) ==
  /\ j \in dispatched
  /\ phase[j] = "queued"
  /\ tries[j] <= MaxRetries

Run(j) ==
  /\ CanRun(j)
  /\ tries' = [tries EXCEPT ![j] = @ + 1]
  /\ UNCHANGED dispatched

Accepted(j) == mails' = [mails EXCEPT ![j] = @ + 1]

HandleSends(j) ==
  /\ Run(j)
  /\ Accepted(j)
  /\ phase' = [phase EXCEPT ![j] = "sent"]

HandleRaises(j) ==
  /\ Run(j)
  /\ Accepted(j) \/ UNCHANGED mails
  /\ UNCHANGED phase

\* The worker dies during handle(), before or after the mail was accepted.
WorkerDies(j) ==
  /\ Run(j)
  /\ Accepted(j) \/ UNCHANGED mails
  /\ phase' = [phase EXCEPT ![j] = "lost"]

\* Variant with a bug: retries are counted from one.
OnFailureLate(j) ==
  /\ phase[j] = "queued"
  /\ tries[j] > MaxRetries + 1
  /\ phase' = [phase EXCEPT ![j] = "failed"]
  /\ UNCHANGED <<dispatched, tries, mails>>

\* The retries are used up.
OnFailure(j) ==
  /\ phase[j] = "queued"
  /\ tries[j] > MaxRetries
  /\ phase' = [phase EXCEPT ![j] = "failed"]
  /\ UNCHANGED <<dispatched, tries, mails>>

WorkOn(j) == HandleSends(j) \/ HandleRaises(j) \/ OnFailure(j)

Next == \E j \in Job : WorkOn(j) \/ WorkerDies(j)

=============================================================================
