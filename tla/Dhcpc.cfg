SPECIFICATION FairDhcp
CONSTANTS
    MaxDiscover = 4
    MaxRequest = 2
PROPERTY
    GetsConfigured
CHECK_DEADLOCK FALSE
