--------------------------- MODULE MCRunLifecycle ---------------------------
(* The environments the runs of RunLifecycle are checked in.               *)
EXTENDS RunLifecycle

\* Everything at once.
Anything == EnvEvents
=============================================================================
