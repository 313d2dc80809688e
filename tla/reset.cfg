SPECIFICATION EstablishedSpec
CONSTANTS
    Units = {u0, u1}
    None = None
    Shards <- MCShards
    Configs <- DeployConfigs
    DbOffers <- OneOffer
    Stores = {}
    S3Creds = {}
    Disturbances = {"config"}
    MaxDisturbances = 1
SYMMETRY UnitSymmetry
INVARIANTS ShardChangeBlocks
