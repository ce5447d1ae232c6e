SPECIFICATION DevSpec
CONSTANTS
    None = None
    Answers <- Addresses
    IpOf <- MCIpOf
    Loopback = "loopback"
    Outputs = {"env"}
    Services = {"api"}
    Primary = "server"
    Wrappers = {"server"}
    Codes <- MCCodes
    Absent = Absent
    Foreign = Foreign
CHECK_DEADLOCK FALSE
INVARIANTS TypeOK FilesTell NothingLeftRunning StoppedForAReason ExitCodeHonest
PROPERTY SessionEnds
