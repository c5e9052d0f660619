CONSTANTS
    Hits = {h1}
    Others <- Foreign
SPECIFICATION FairSpec
CHECK_DEADLOCK FALSE
PROPERTY FlowEnds
