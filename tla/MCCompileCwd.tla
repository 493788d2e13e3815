---------------------------- MODULE MCCompileCwd ----------------------------
(***************************************************************************)
(* Job settings for the model checker.                                     *)
(***************************************************************************)
EXTENDS CompileCwd

\* --jobs=1 and --jobs=2.
ExplicitJobs == [jobs : {1, 2}, jobsAuto : {FALSE}, hardware : {2}]

\* No --jobs option: jobs keeps its default 0 and jobsAuto is set.
DefaultJobs == [jobs : {0}, jobsAuto : {TRUE}, hardware : {2}]
=============================================================================
