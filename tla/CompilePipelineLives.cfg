\* Outdated caches and changing shapes.
SPECIFICATION FairSpec
CONSTANTS
    Tenants = {t1}
    Clusters = {c1}
    Switched = {t1}
    None = None
    Shapes <- MCOnOff
    MayLag = TRUE
    MayMove = FALSE
    MayDeleteTenant = FALSE
INVARIANTS NamedClustersAreThere AtRestInStep
PROPERTIES ReleasedByItsTenant TenantsGetInStep DeletedClustersGo
