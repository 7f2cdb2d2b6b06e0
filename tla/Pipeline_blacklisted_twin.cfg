\* Two ads of one document share a cache key; the media file of one of them is blacklisted.
SPECIFICATION HistorySpec
CONSTANTS
    Ads = {a1, a2}
    Creatives = {c1}
    Urls = {a1, a2}
    CreativeId <- SharedKey
    MediaUrl <- OwnKey
    Requests = {r1, r2}
    JitPackage = TRUE
    JobResults = {"playable"}
    Faults = {}
    NoJob = NoJob
    NoAd = NoAd
INVARIANTS BlacklistHonoured
