SPECIFICATION FairSpec
CONSTANTS
    host = host
    exempt = exempt
    Agents = {eth0, eth1}
    Hosts = {host}
    Sources = {plain, exempt}
    HostOf <- OneHost
    Exempt <- Whitelists
    MaxCommands = 3
    MaxFaults = 2
    Nothing = Nothing
INVARIANTS
    CopiesBounded
    ExemptNeverBlocked
    FirewallFollowsOrders
PROPERTIES
    ListenersGoOn
CHECK_DEADLOCK FALSE
