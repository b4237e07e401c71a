CONSTANTS
    None = None
    Junk = Junk
    Bits = 16
    Numerals <- MCNumerals
    Services = {"Math", "math", "Text"}
    Lower <- MCLower
    Capital <- MCCapital
    First <- MCFirst
    Protos <- MCProtos
    MaxKills = 1
    ServerConfs <- MCServerConfs
    ClientConfs <- MCClientConfs
    Removable = {"Makefile", "service_impl.h", "server.conf"}
    Hardware = {1, 4}
    LogOptions = {0, 7}
    LocalIps = {"0.0.0.0", "127.0.0.1"}
    HashCode <- MCHashCode
    MaxEdits = 2
SPECIFICATION ProjectSpec
INVARIANTS
    RightFunction
    DevelopersCodeRuns
    StartsLegal
CHECK_DEADLOCK FALSE
