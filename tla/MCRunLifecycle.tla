--------------------------- MODULE MCRunLifecycle ---------------------------
(* Small instance of RunLifecycle: jobs of a cron schedule, and one that a  *)
(* dispatcher gave a run id.                                                *)
EXTENDS RunLifecycle

CONSTANTS j1, j2, j3
=============================================================================
