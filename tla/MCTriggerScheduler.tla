------------------------- MODULE MCTriggerScheduler -------------------------
EXTENDS TriggerScheduler

\* a cron expression and a one-shot
MCTimings == {[type |-> "schedule", slots |-> {1, 2}], [type |-> "once", slots |-> {1}]}
\* two cron expressions
MCSchedules == {[type |-> "schedule", slots |-> {1, 2, 3}], [type |-> "schedule", slots |-> {1, 3}]}
MCSchedule == {[type |-> "schedule", slots |-> {1, 2}]}
=============================================================================
