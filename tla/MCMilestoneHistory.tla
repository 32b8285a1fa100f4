---- MODULE MCMilestoneHistory ----
EXTENDS MilestoneHistory
====
