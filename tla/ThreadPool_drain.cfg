CONSTANTS
    Workers = {w1, w2}
    Calls = {c1}
    Submissions = {s1}
SPECIFICATION FairSpec
INVARIANTS DrainedMeansDone CompletionsKept
PROPERTIES AcceptedTasksRun DrainReturns
CHECK_DEADLOCK FALSE
