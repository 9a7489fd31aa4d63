\* A Cluster with a deletion policy of its own.
SPECIFICATION Spec
CONSTANTS
    BootstrapTokens = {b1}
    AccountTokens = {a1}
    OtherSecrets = {s1}
    CreatedTemplates = {g1}
    EditedTemplates = {}
    UnmanagedTemplates = {}
    DefaultPolicies <- MCArchive
    OwnPolicies <- MCOwn
    UseVault = TRUE
    UseDeletionProtection = FALSE
    ProtectionEdits = {}
    None = None
PROPERTIES SecretsReleasedAsDeclared
