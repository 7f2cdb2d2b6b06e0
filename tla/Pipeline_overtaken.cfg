\* Encore and the packager finish before the dispatching goroutine records the job.
SPECIFICATION Spec
CONSTANTS
    Ads = {a1}
    Creatives = {a1}
    Urls = {a1}
    CreativeId <- OwnKey
    MediaUrl <- OwnKey
    Requests = {r1}
    JitPackage = FALSE
    JobResults = {"playable"}
    Faults = {"lag"}
    NoJob = NoJob
    NoAd = NoAd
INVARIANTS ListedIfItExists
