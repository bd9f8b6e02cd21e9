\* The Host sent is the configured Host, or else names the target and port.
CONSTANTS
    Hosts <- MCHosts
    IPs <- MCIPs
    Paths <- MCPaths
    Ports <- MCPorts
    HeaderNames <- MCHeaderNames
    UserAgents <- MCUserAgents
    MaxHeaders = 2
    NoIP = NoIP
    ResolveFail = ResolveFail
    NoRequest = NoRequest
SPECIFICATION Spec



INVARIANT HostHeaderCorrect
