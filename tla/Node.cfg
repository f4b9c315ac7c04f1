SPECIFICATION MCSpec
CONSTANTS
    Consumers = {"c1", "c2"}
    MaxObjects = 2
    MaxWrites = 1
INVARIANTS
    ClaimIsOneDirectory
    AskedIsolationIsGiven
    AnswerTellsWhatRan
    CopyIsTheHolders
    TablesStayAsShipped
PROPERTY
    AcceptedFilesLandApart
CHECK_DEADLOCK FALSE
