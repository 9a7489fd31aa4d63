\* Clusters that move between tenants, and tenants that are deleted.
SPECIFICATION Spec
CONSTANTS
    Tenants = {t1, t2}
    Clusters = {c1}
    Switched = {}
    None = None
    Shapes <- MCAlwaysOn
    MayLag = FALSE
    MayMove = TRUE
    MayDeleteTenant = TRUE
SYMMETRY MCSymmetry
INVARIANTS TypeOK NamedClustersAreThere
PROPERTY ReleasedByItsTenant
