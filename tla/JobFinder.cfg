SPECIFICATION JSpec
CONSTANTS
    Groups <- MCGroups
    Hosts <- MCHosts
    GroupOf <- MCGroupOf
    Windows = {"db2"}
    Scripted <- MCScripted
    FilesOn <- MCFilesOn
    Disabled <- MCDisabled
    ReleaseOf <- MCReleaseOf
    Addons <- MCAddons
    IndexOf <- MCIndexOf
    OneForAll <- MCOneForAll
    Printable <- MCPrintable
INVARIANTS
    FailureCleansUp
    UsersHaveOwners
    RestoreFindsBackup
    ArtifactsHaveTheirOwnFiles
    LockOrdersResolve
CHECK_DEADLOCK FALSE
