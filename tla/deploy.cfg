SPECIFICATION DeploymentSpec
CONSTANTS
    Units = {u0, u1}
    None = None
    Shards <- MCShards
    Configs <- DeployConfigs
    DbOffers <- OneOffer
    Stores = {s1}
    S3Creds = {k1}
    Disturbances = {"config", "db", "admin", "ui", "openfga", "s3"}
    MaxDisturbances = 1
SYMMETRY UnitSymmetry
INVARIANTS TypeOK Converged AdminInformed
