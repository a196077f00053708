SPECIFICATION Spec
CONSTANTS
    Servers = {d1, c1}
    DockerServers = {d1}
    References = {e1}
    None = None
    MaxDepth = 8
    MaxEntries = 1
INVARIANTS
    AddressNamesTheView
    EveryControlIsServed
