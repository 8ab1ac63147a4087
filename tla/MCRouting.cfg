SPECIFICATION Spec
CONSTANTS
    Name = {"lo", "eth0", "eth1"}
    Addr = {1, 2, 3, 4}
    Host = {3}
    Net = {{2, 3}, {3}, {4}}
    Boot <- MCBoot
    UpConf <- MCUpConf
    MaxIf = 4
    MaxRoute = 5
    MaxCache = 1
INVARIANTS TablesFit WildHasACause RemovalKeepsCacheTrue
CHECK_DEADLOCK FALSE
