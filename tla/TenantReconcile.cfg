\* One Tenant and a Cluster that comes, moves and goes.
SPECIFICATION FairSpec
CONSTANTS
    Clusters = {c1}
    PipelineFiles = {ci}
    CommonFile = CommonFile
    None = None
INVARIANTS TypeOK AtRestInStep
PROPERTIES ListedStaysListed RoleNamesMembers RoleDropsOthers FilesGetInStep
