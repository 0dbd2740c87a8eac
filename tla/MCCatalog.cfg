SPECIFICATION CatalogSpec
CONSTANTS
    Endpoints = {"e1", "e2"}
    Secrets = {"s1", "s2"}
    Packages <- Samples
    MaxItems = 3
    MaxOps = 3
    MaxImports = 1
INVARIANTS
    RunsMatchCatalogue
    CaddyNeedsHosts
PROPERTIES
    ImportAddsOnly
CHECK_DEADLOCK FALSE
