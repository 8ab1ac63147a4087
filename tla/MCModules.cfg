CONSTANTS
    Block <- MCBlock
    Priority <- MCPriority
    BlockOf <- MCBlockOf
    Owner <- MCModule
    Module <- MCModule
    Needs <- MCNeeds
    FileName <- MCFileName
    LeafName <- MCLeafName
    ByPath = {"log"}
    Files = {"log"}
    Tables = {"track", "nat", "log"}
    Caches = {"log"}
    ignore_proc_issues = FALSE
    MaxObjects = 1
    MaxChanges = 2
    MaxCommands = 2
SPECIFICATION Spec
INVARIANTS
    LoaderSound
    LeakCheckIsTrue
PROPERTIES
    EventReachesAll
    LoadAllComplete
    CommandsEnd
CHECK_DEADLOCK FALSE
