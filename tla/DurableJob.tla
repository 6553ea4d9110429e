----------------------------- MODULE DurableJob -----------------------------
(***************************************************************************)
(* What a durable job promises, without workers, leases or fencing tokens: *)
(* it is tried a bounded number of times, one attempt after the other,     *)
(* every attempt has one outcome that is never rewritten, and a job that   *)
(* has settled stays as it is.                                             *)
(***************************************************************************)
EXTENDS Naturals

CONSTANTS Jobs, MaxAttempts

VARIABLES
  phase,   \* "absent", "waiting", "trying", "complete" or "terminal"
  log      \* [Jobs -> [1..MaxAttempts -> outcome]]; "none": no such attempt yet

Outcomes == {"completed", "failed", "deferred", "lease_expired"}
NoAttempt == [n \in 1..MaxAttempts |-> "none"]

Begun(j) == {n \in 1..MaxAttempts : log[j][n] # "none"}
Open(j)  == {n \in 1..MaxAttempts : log[j][n] = "open"}

Init == /\ phase = [j \in Jobs |-> "absent"]
        /\ log = [j \in Jobs |-> NoAttempt]

Submit(j) ==
  /\ phase[j] = "absent" /\ phase'[j] = "waiting"
  /\ log'[j] = log[j]

\* The next attempt begins.  One that was still open has lost its lease.
Try(j) == \E n \in 1..MaxAttempts :
  /\ phase[j] \in {"waiting", "trying"} /\ phase'[j] = "trying"
  /\ Begun(j) = 1..(n - 1)
  /\ log'[j] = [m \in 1..MaxAttempts |->
                  IF m = n THEN "open"
                  ELSE IF m \in Open(j) THEN "lease_expired" ELSE log[j][m]]

\* The open attempt ends, and the job with it or not.
EndAttempt(j) == \E o \in Outcomes :
  /\ phase[j] = "trying" /\ Open(j) # {}
  /\ log'[j] = [m \in 1..MaxAttempts |-> IF m \in Open(j) THEN o ELSE log[j][m]]
  /\ \/ o = "completed" /\ phase'[j] = "complete"
     \/ o \in {"failed", "deferred"} /\ phase'[j] = "waiting"
     \/ o \in {"failed", "lease_expired"} /\ phase'[j] = "terminal"

JobStep(j) == Submit(j) \/ Try(j) \/ EndAttempt(j)

\* One transaction may move several jobs.
Next == \A j \in Jobs : JobStep(j) \/ (phase'[j] = phase[j] /\ log'[j] = log[j])

Spec == Init /\ [][Next]_<<phase, log>>
=============================================================================
