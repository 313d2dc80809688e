SPECIFICATION LibrariesSpec
CONSTANTS
    None = None
    MaxChanges = 5
    Attributes = {a1, a2}
    MaxRequests = 4
    MaxCertificates = 3
    MaxKeys = 2
    Members = {m1, m2}
    Endpoints = {e1, e2}
    Versions = {v1, v2}
    Groups = {user, tls}
    UserGroup = user
    MaxSecrets = 2
    Clients = {m1, m2}
    StoreIds = {s1, s2}
    Urls = {l1, l2}
    Archivers = {m1, m2}
    Buckets = {b1}
    KeyVersions = {k1, k2}
    Callers = {m1}
    Stores = {s1, s2}
    RuleUsers = {"alice"}
    RuleGroups = {"g1", "g2"}
    Namespaces = {"n1"}
    RoleNames = {"admin", "reader", "owner"}
    AllowedRoles <- MCRoles
    AdminGroups <- MCAdmins
    Empty = Empty
    PageSize = 1
    Pods = {m1, m2}
    Hostnames = {h1, h2}
    Routes = {l1, l2}
    Lokis = {a, b}
    Replicas = {m1, m2}
    LokiUrls = {l1, l2}
    Scraped = {m1, m2}
    Addresses = {l1, l2}
    FixedTargets = {"t1"}
    Jobs <- MCJobs
    AlertRules = {r1, r2}
    InvalidRules = {r2}
    Providers = {m1, m2}
    Grafanas = {n1, n2}
    Boards = {b1, b2}
    Undecodable = {b1}
    Malformed = {b2}
INVARIANTS LibrariesTypeOK RequestsMatch OneCertificatePerRequest RenewalScheduled NeverInClear CredentialsReadable StoreReachesUnits CredentialsFollowed ListingRegular ListingHasKeys RouteFollowsOption IngressServed LogsFollowLoki PrometheusFollowsCharm DashboardsShown
PROPERTIES ImplementsFeed ImplementsOffers
CHECK_DEADLOCK FALSE
