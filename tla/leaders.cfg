SPECIFICATION UnpinnedSpec
CONSTANTS
    Units = {u0, u1}
    None = None
    Shards <- MCShards
    Configs <- ShardConfigs
    DbOffers <- AnnouncedOnly
    Stores = {}
    S3Creds = {}
    Disturbances = {"leader", "config", "schema", "container"}
    MaxDisturbances = 4
SYMMETRY UnitSymmetry
INVARIANTS PlansAgreeOnShards
PROPERTIES ShardsWrittenOnce ImplementsRegister
