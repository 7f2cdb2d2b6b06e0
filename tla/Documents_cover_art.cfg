\* A creative with a stream whose frame rate is reported as 0/0.
SPECIFICATION Spec
CONSTANTS
    Stripped <- StrippedTexts
    Keys <- AllKeys
    Requests = {r1}
    VastDocuments <- JustA
    VmapDocuments = {}
    Fillers = {""}
    PreIngests = {}
    Reports <- CoverArtOnly
    Blacklisted = {"a-hi"}
    KeyFields = {"universalAdId"}
    JitPackages = {FALSE}
    MaxJobs = 1
INVARIANT PackagedIsCached
