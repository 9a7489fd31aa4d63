\* One Cluster under every default deletion policy, with deletion protection.
SPECIFICATION Spec
CONSTANTS
    BootstrapTokens = {b1, b2}
    AccountTokens = {a1}
    OtherSecrets = {s1}
    CreatedTemplates = {g1}
    EditedTemplates = {}
    UnmanagedTemplates = {}
    DefaultPolicies <- MCPolicies
    OwnPolicies <- MCRetain
    UseVault = TRUE
    UseDeletionProtection = TRUE
    ProtectionEdits <- MCFalse
    None = None
SYMMETRY MCTokens
INVARIANT TypeOK
PROPERTIES BootstrapTokenStable SecretsReleasedByDefaultPolicy
