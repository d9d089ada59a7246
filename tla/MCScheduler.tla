---------------------------- MODULE MCScheduler -----------------------------
(* Scheduler with two of the jobs of run_scheduler. *)
EXTENDS Scheduler

MCJobs == <<"daily_match", "daily_report">>

\* The intervals of run_scheduler, 8 and 10 hours, matter as different ones only.
MCIntervals == [j \in {"daily_match", "daily_report"} |-> IF j = "daily_match" THEN 1 ELSE 2]

=============================================================================
