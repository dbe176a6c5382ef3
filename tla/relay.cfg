\* Three sessions of one slug at a time, one request, two faults.
SPECIFICATION FairRelay
CONSTANTS
    Tunnels = {tun1, tun2, tun3}
    Requests = {req1}
    KeepAlive = TRUE
    MaxFaults = 2
INVARIANTS
    NoDeadTunnel NoRequestStranded
PROPERTY TunnelComesBack
