SPECIFICATION FairSpec
CONSTANTS
    NumEvents = 3
    SampleEvery = 2
    History = 3
    MaxRounds = 3
INVARIANTS TypeOK SamplesInTheirRound CompleteReports PipelineInOrder MeasureInv
PROPERTIES HandedOverFrozen ImplementsReports EndIsReported ImplementsFairReports
