\* Two requests transcode one creative; one job fails.
SPECIFICATION Spec
CONSTANTS
    Ads = {a1}
    Creatives = {a1}
    Urls = {a1}
    CreativeId <- OwnKey
    MediaUrl <- OwnKey
    Requests = {r1, r2}
    JitPackage = FALSE
    JobResults = {"playable", "failed"}
    Faults = {}
    NoJob = NoJob
    NoAd = NoAd
INVARIANTS ListedIfAnyExists
