SPECIFICATION EstablishedSpec
CONSTANTS
    Units = {u0, u1}
    None = None
    Shards <- MCShards
    Configs <- DnsConfigs
    DbOffers <- AnnouncedOnly
    Stores = {}
    S3Creds = {}
    Disturbances = {"crash", "db", "schema", "config", "ui", "restart", "admin"}
    MaxDisturbances = 3
SYMMETRY UnitSymmetry
INVARIANTS Converged AdminInformed SchemaFollowsAdmin
