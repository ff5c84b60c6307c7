SPECIFICATION Spec
CONSTANTS
    r1 = r1
    r2 = r2
    client = client
    None = None
    Registrations <- MCRegistrations
    Format = "slash"
    ExcludePaths <- MCExcludePaths
    Files <- MCFiles
    GlobalDefault = "global_default"
    Requests = {r1, r2}
    Clients = {client}
    Rate = 1
    Burst = 1
    ExpiryTime = 1
    MaxTime = 2
    Setups <- MCSetups
    Enable = TRUE
PROPERTY DenialsStand
CHECK_DEADLOCK FALSE
