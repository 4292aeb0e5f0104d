------------------------ MODULE MCRunnerRegistration ------------------------
(***************************************************************************)
(* A small instance of RunnerRegistration for TLC.                         *)
(***************************************************************************)
EXTENDS RunnerRegistration, MCRunnerBuilds
=============================================================================
