\* One Cluster whose template is edited, with watch events and retries only.
SPECIFICATION FairSpec
CONSTANTS
    BootstrapTokens = {b1}
    AccountTokens = {a1}
    OtherSecrets = {}
    CreatedTemplates = {g1}
    EditedTemplates = {g2}
    UnmanagedTemplates = {g2}
    DefaultPolicies <- MCArchive
    OwnPolicies = {None}
    UseVault = TRUE
    UseDeletionProtection = FALSE
    ProtectionEdits = {}
    None = None
INVARIANT AtRestSettled
PROPERTIES ClusterSettles VaultGetsInStep DeletedClusterGoes
