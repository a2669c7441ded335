\* Two calls on two event types, one of them also written by the MCP server.
SPECIFICATION Spec
CONSTANTS
    y1 = y1
    y2 = y2
    x1 = x1
    x2 = x2
    c1 = c1
    c2 = c2
    NoText = NoText
    NoType = NoType
    Types <- TwoTypes
    Contents <- TwoContents
    Clients <- TwoClients
    Remote = {y2}
    Ttl = 2
    MaxWrites = 3
SYMMETRY ClientSymmetry
INVARIANTS TypeOK SuccessIsVisible VersionNamesContent
CHECK_DEADLOCK FALSE
