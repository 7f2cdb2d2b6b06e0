\* Encore refuses the job.
SPECIFICATION Spec
CONSTANTS
    Ads = {a1}
    Creatives = {a1}
    Urls = {a1}
    CreativeId <- OwnKey
    MediaUrl <- OwnKey
    Requests = {r1}
    JitPackage = FALSE
    JobResults = {"playable", "silent", "audioFirst", "failed", "cancelled"}
    Faults = {"encore"}
    NoJob = NoJob
    NoAd = NoAd
INVARIANTS QueuedMeansSubmitted
