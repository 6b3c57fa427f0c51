SPECIFICATION CatalogSpec
CONSTANTS
    AgentIds = {"c"}
    Geos = {"us"}
    CatalogClients = {x1, x2}
    MaxVersions = 1
    MaxCatalogCalls = 2
INVARIANTS NoOrphanedSession
CHECK_DEADLOCK FALSE
