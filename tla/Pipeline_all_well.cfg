\* Nothing fails but jobs: what is started comes to an end.
SPECIFICATION FairSpec
CONSTANTS
    Ads = {a1}
    Creatives = {a1}
    Urls = {a1}
    CreativeId <- OwnKey
    MediaUrl <- OwnKey
    Requests = {r1, r2}
    JitPackage = FALSE
    JobResults = {"playable", "silent", "failed"}
    Faults = {}
    NoJob = NoJob
    NoAd = NoAd
INVARIANTS ListedIfItExists
PROPERTIES InProgressEnds TranscodedIsCached
