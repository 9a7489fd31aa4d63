\* A project that someone makes while the operator is about to make it.
SPECIFICATION Spec
CONSTANTS
    GitRepos = {r1}
    Foreign = Foreign
    None = None
    Specs <- MCDelete
    Templates <- MCNoTemplate
    ProtectionEdits = {}
    UseDeletionProtection = FALSE
    PartialCreate = FALSE
PROPERTIES ExistingNotManaged
