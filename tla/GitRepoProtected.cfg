\* A protected GitRepo is deleted.
SPECIFICATION Spec
CONSTANTS
    GitRepos = {r1}
    Foreign = Foreign
    None = None
    Specs <- MCDelete
    Templates <- MCNoTemplate
    ProtectionEdits = {"true", "false"}
    UseDeletionProtection = TRUE
    PartialCreate = FALSE
PROPERTIES ProtectedProjectKept
