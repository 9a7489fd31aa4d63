\* What watch events and retries achieve.
SPECIFICATION WatchSpec
CONSTANTS
    GitRepos = {r1}
    Foreign = Foreign
    None = None
    Specs <- MCAdoption
    Templates <- MCNoTemplate
    ProtectionEdits = {"false"}
    UseDeletionProtection = TRUE
    PartialCreate = TRUE
PROPERTIES ObjectsSettle ClaimedProjectsHeal
