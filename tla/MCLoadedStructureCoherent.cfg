CONSTANTS
    s1 = s1
    s2 = s2
    s3 = s3
    t1 = t1
    t2 = t2
    t3 = t3
    r = r
    a = a
    b = b
    Servers <- MCServers
    Transformers <- MCTransformers
    Blocks <- MCBlocks
    Root <- r
    MaxPublish = 1
    ContentBlocks <- MCContentBlocks
    Reg <- MCReg
    Ver <- MCVer
    MaxRequests = 2
    MaxEvictions = 1
    NoEntry = NoEntry
    NotServed = NotServed
SPECIFICATION Spec
INVARIANT
    LoadedStructureCoherent
\* Each server serves MaxRequests requests and the course is published
\* MaxPublish times; after that the system stops.
CHECK_DEADLOCK FALSE
