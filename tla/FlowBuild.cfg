CONSTANTS
    Node <- MCNode
    Port <- MCPort
    LinkRequests <- MCLinkRequests
    Deletable <- MCDeletable
    ClassChoices <- MCClassChoices
    MaxHops = 2
    MaxDeletes = 1
    None = None
SPECIFICATION FairSpec
INVARIANTS
    TypeOK
    HopsAreFew
    ActualLinksAreReachable
    CompiledFlowIsSound
    CompiledFlowLoads
PROPERTY BuildEnds
