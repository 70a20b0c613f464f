CONSTANTS
    r1 = r1
    r2 = r2
    Readers <- MCReaders
    Segments <- MCSegments
    Params <- MCParams
    Begins <- MCBegins
    Prefix <- MCPrefix
    Methods = {"GET", "PUT"}
    Requests <- MCRequests
    UserRoutes <- MCUserRoutes
    StatusPath <- MCStatusPath
    Get = "GET"
    Unknown = unknown
    Ports <- MCPorts
    MaxRoutes = 4
SPECIFICATION Spec
INVARIANT OkMeansUp
