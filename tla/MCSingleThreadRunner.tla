------------------------ MODULE MCSingleThreadRunner ------------------------
(* Instances of SingleThreadRunner.                                          *)
EXTENDS SingleThreadRunner

SingleThreads == {"start", "data", "loop", "wait", "user"}
SingleFailures == {"timeout", "parse", "closed", "send", "inactivity"}

Scenario(k, d, troubles) == [kind |-> k, given |-> d, troubles |-> troubles]

\* Each trouble alone, and the races of data, loop and wait_for() for each kind and timeout.
\* (A waiting command that is not submitted since the runner shuts down is left undone by
\* wait_for(): only another observer meets that trouble.)
SingleScenarios ==
    {Scenario(k, d, {}) : k \in Kinds, d \in {0, 1}}
    \cup {Scenario("observer", 3, {})}
    \cup {Scenario("waiting command", 0, {t}) : t \in {"send"}}
    \cup {Scenario("observer", 0, {t}) : t \in Troubles}

=============================================================================
