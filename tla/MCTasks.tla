------------------------------ MODULE MCTasks ------------------------------
(* The instance of Tasks for TLC: three tasks, of which two can be due in  *)
(* one purge and one not, and one cookie, so that any answer may be taken  *)
(* for that of any request.                                                *)
EXTENDS Tasks
=============================================================================
