SPECIFICATION EstablishedSpec
CONSTANTS
    Units = {u0, u1}
    None = None
    Shards <- MCShards
    Configs <- BaseOnly
    DbOffers <- OneOffer
    Stores = {}
    S3Creds = {}
    Disturbances = {"schema", "container"}
    MaxDisturbances = 3
SYMMETRY UnitSymmetry
INVARIANTS SchemaFollowsAdmin
