CONSTANTS
    work = work  home = home  net = net
    docs = docs  code = code  pics = pics
    Folders = {work, home, net}
    Versioned = {work}
    Remote = {net}
    Dirs = {docs, code, pics}
    Parent <- MCParent
    Counts = {0, 1}
    Versions = {0, 1}
    None = None
    MaxEvents = 4
SPECIFICATION FairSpec
INVARIANTS TypeOK OneInFlight SizesFresh VersionsRight MessageCleared
PROPERTIES Settles
CHECK_DEADLOCK FALSE
