\* Three commands: a build that fails or dies, its repetition, and one more.
CONSTANT MaxRuns = 3
SPECIFICATION Spec
INVARIANTS TypeOK PublishedImageClean PriorStateRecoverable
           SuccessMeansRolledBack NoSpuriousFailure
CHECK_DEADLOCK FALSE
