SPECIFICATION FairSpec
CONSTANTS
    Users = {u1, u2}
    MaxPendingWrites = 2
    MaxWrites = 3
INVARIANTS TypeOK PipelineFollowsQueue AnswersMatchPipeline NoAssertFails
           CallersToldTheTruth WaitsAreForQueued SettledOnNewest
PROPERTIES ImplementsWriteQueue QueueDrains
