SPECIFICATION Spec
CONSTANTS
    Stretches <- MCStretches
    Editors = {e1}
    Task <- MCTask
    PortsOf <- MCPortsOf
    PortType <- MCPortType
    Target <- MCTarget
    Scripts <- MCScripts
    Additions <- MCAdditions
    Routes <- MCRoutes
    Https <- MCHttps
    PlainTexts <- MCPlainTexts
    BigInts <- MCBigInts
    Floats <- MCFloats
    Dates <- MCDates
    MaxSaves = 3
    None = None
INVARIANTS
    TypeOK
    RouteCodeIsChecked
PROPERTY SourceIsLaidOut
