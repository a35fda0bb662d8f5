SPECIFICATION Spec
CONSTANTS
    NumEvents = 3
    SampleEvery = 2
    History = 3
    MaxRounds = 2
INVARIANTS BounceInDifferentThread
