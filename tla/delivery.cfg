SPECIFICATION EstablishedSpec
CONSTANTS
    Units = {u0, u1}
    None = None
    Shards <- MCShards
    Configs <- OperatorConfigs
    DbOffers <- AnnouncedOnly
    Stores = {s1}
    S3Creds = {}
    Disturbances = {"config", "container", "db", "openfga"}
    MaxDisturbances = 3
SYMMETRY UnitSymmetry
INVARIANTS Converged ActiveMeansValid LeaderPortsOpen NoHookError
