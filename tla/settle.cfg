SPECIFICATION EstablishedFairSpec
CONSTANTS
    Units = {u0, u1}
    None = None
    Shards <- MCShards
    Configs <- TlsConfigs
    DbOffers <- AnyOffer
    Stores = {}
    S3Creds = {}
    Disturbances = {"config", "db", "container"}
    MaxDisturbances = 2
PROPERTIES EventuallySettled EventuallyReconciled
