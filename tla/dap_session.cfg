CONSTANTS
    k1 = k1  k2 = k2  Invalid = Invalid
    Keys = {k1, k2}
    Traces <- AllTraces
    Waits = {TRUE, FALSE}
    MaxLaunches = 2  MaxCursor = 5  MaxRefs = 3
SPECIFICATION ToolSpec
INVARIANTS ToolTypeOK ShowsLastStop ThreadsAreAnnouncedByBoth RefsAreOfStops
PROPERTIES SessionIsTrace
