SPECIFICATION Spec
CONSTANTS
    None = None
    Disturbances = {"certificates", "config", "container", "crash", "database", "restart"}
    MaxDisturbances = 4
INVARIANTS TypeOK FreshCertificateStored PlainWithoutRelation ServerRunsPlan
PROPERTIES StartsWithCertificate
