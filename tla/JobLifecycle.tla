---------------------------- MODULE JobLifecycle ----------------------------
(***************************************************************************)
(* What the job store promises of a server's jobs, whoever writes them:    *)
(* jobs are created queued, an active job moves along ValidTransition and  *)
(* every write raises its revision by one, a restart ends all active jobs  *)
(* at once, and a terminal job never changes again.                        *)
(***************************************************************************)
EXTENDS JobRecords

CONSTANT MaxJobs   \* bound on the number of jobs

VARIABLE jobs

Init == jobs = << >>

Create ==
  /\ Len(jobs) < MaxJobs
  /\ \E kind \in JobKinds : jobs' = Append(jobs, QueuedJob(kind))

Advance(id) ==
  /\ IsActive(jobs[id])
  /\ jobs'[id].rev = jobs[id].rev + 1
  /\ \E status \in ActiveStatuses \cup TerminalStatuses :
       /\ ValidTransition(jobs[id].status, status)
       /\ \E phase \in Phases, class \in ErrorClasses :
            jobs' = [jobs EXCEPT ![id] = ApplyIntent(jobs[id], Intend(status, phase, class))]

Restart == jobs' = MarkUnfinishedInterrupted(jobs)

Next == Create \/ (\E id \in DOMAIN jobs : Advance(id)) \/ Restart

Spec == Init /\ [][Next]_jobs

=============================================================================
