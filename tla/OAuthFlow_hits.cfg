CONSTANTS
    Hits = {h1, h2, h3}
    Others <- SomeOthers
SPECIFICATION FairSpec
CHECK_DEADLOCK FALSE
INVARIANTS TypeOK NoHandlerOutlivesFlow TimeoutMeansNoRedirect ExchangeIsGranted
PROPERTY CapturedFlowEnds
