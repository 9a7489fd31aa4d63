\* Outdated caches.
SPECIFICATION Spec
CONSTANTS
    Tenants = {t1}
    Clusters = {c1}
    Switched = {t1}
    None = None
    Shapes <- MCAlwaysOn
    MayLag = TRUE
    MayMove = FALSE
    MayDeleteTenant = FALSE
INVARIANTS GoneClusterUnreferenced
