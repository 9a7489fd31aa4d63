\* One GitRepo, every branch of the controller, templates, stale caches, crashes.
SPECIFICATION Spec
CONSTANTS
    GitRepos = {r1}
    Foreign = Foreign
    None = None
    Specs <- MCBranches
    Templates <- MCTemplates
    ProtectionEdits = {"false"}
    UseDeletionProtection = TRUE
    PartialCreate = FALSE
INVARIANTS TypeOK OwnedStaysClaimed AtRestSettled
PROPERTIES ForeignLeftToContenders ReleasedAsDeclared KeepsOwnership
