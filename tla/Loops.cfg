SPECIFICATION FairSpec
CONSTANTS
    scrape = scrape
    r1 = r1
    Evasion = evasion
    Discovery = discovery
    Background = background
    Bootstrap = bootstrap
    Main = main
    Nobody = nobody
    Watching <- OneLoop
    Requests <- OneRequest
    MaxStarts = 2
INVARIANTS
    TypeOK
    Heard
    Served
PROPERTIES
    LoopsEnd
    CallsReturn
CHECK_DEADLOCK FALSE
