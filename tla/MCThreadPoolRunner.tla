-------------------------- MODULE MCThreadPoolRunner --------------------------
(* Instances of ThreadPoolRunner.                                            *)
EXTENDS ThreadPoolRunner

RunnerThreads == {"data", "feed", "wait", "user"}
FailuresSeen == {"timeout", "parse", "closed"}

=============================================================================
