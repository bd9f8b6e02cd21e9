\* Request construction against the RFC 3986 reference, every input.
CONSTANTS
    Hosts <- MCHosts
    IPs <- MCIPs
    Paths <- MCPaths
    Ports <- MCPorts
    HeaderNames <- MCHeaderNames
    UserAgents <- MCUserAgents
    MaxHeaders = 2
    NoIP = NoIP
    ResolveFail = ResolveFail
    NoRequest = NoRequest
SPECIFICATION Spec
INVARIANT TypeOK
INVARIANT URLRoundTrip
INVARIANT HeadersMatchConfig
