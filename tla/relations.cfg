SPECIFICATION EstablishedSpec
CONSTANTS
    Units = {u0, u1}
    None = None
    Shards <- MCShards
    Configs <- AuthConfigs
    DbOffers <- OneOffer
    Stores = {s1, s2}
    S3Creds = {k1, k2}
    Disturbances = {"openfga", "s3", "config", "crash", "endpoint"}
    MaxDisturbances = 3
SYMMETRY UnitSymmetry
INVARIANTS ModelBelongsToStore StoreFollowsProvider ArchivalFollowsIntegrator
