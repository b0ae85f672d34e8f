\* One page, two keys: every order of owner and answers.
CONSTANTS
    k1 = k1 k2 = k2 None = None
    Keys = {k1, k2}
    MaxGeneration = 7
    MaxConnections = 3
SPECIFICATION FairSpec
INVARIANTS
    TypeOK
    ConsentIsForTheShownEvent
    LockCoversCommand
PROPERTIES
    CommandUnderUnbrokenConsent
    RefusalEndsItsOwnSession
    ControlsComeBack
