SPECIFICATION Spec
INVARIANT TypeOK
INVARIANT VerdictTrue
INVARIANT ManualOnlyWhenNeeded
INVARIANT AdviceFits
INVARIANT PlanHeals
PROPERTY RecoverSparesJobs
PROPERTY KnownHostOnly
