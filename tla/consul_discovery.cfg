SPECIFICATION Spec
CONSTANTS
    Window = 2
    MaxFlakes = 3
    LocalIP = "ip"
    PortOf <- MCPortOf
    Configs <- MCConfigs
    MaxServices = 1
    Calls = {q1, q2}
    None = None
INVARIANT DiscoveryFaithful
