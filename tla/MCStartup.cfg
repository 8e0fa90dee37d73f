\* Servers that are only ended, as interxim is, and servers that are also closed, as
\* IMdkit lets them be; a name of every kind and one that nobody knows, in lists of up
\* to three names.
CONSTANTS
    s1 = s1  s2 = s2  s3 = s3
    kanji = kanji  hangul = hangul  lib = lib
    Server <- MCServer
    Name <- MCName
    NameOf <- MCNameOf
    Closer = {}
    Library = {lib}
    Wanted <- MCWanted
    NoServer = NoServer
    Absent = Absent
    Foreign = Foreign
    NoTarget = NoTarget
    Garbage = Garbage
    MaxOpen = 4
    MayClose <- MCMayClose
    MaxReopen = 3
    Value = {"v1", "v2"}
    Offered = {"locale", "serverTransport", "serverName", "inputStyles",
               "protocolHandler", "modifiers"}
    XAddress = {"v1"}
    Xi18nModifiers = {"v1"}
    Empty = Empty
    SetLists <- MCSetLists
    GetLists <- MCGetLists
SPECIFICATION StartupSpec
INVARIANTS
    TypeOK
    AvailableIsListed
    ServiceIsComplete
    GetReadsRegistered
    NoServerIsMissed
PROPERTIES
    OpenServerKeepsName
    SetStopsAtRefused
CHECK_DEADLOCK FALSE
