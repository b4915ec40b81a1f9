SPECIFICATION FairSpec
CONSTANT MaxRequests = 3
INVARIANTS TypeOK OneThreadPerSession AnswersAreReal
PROPERTY EveryNiEnds
