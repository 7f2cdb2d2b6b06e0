\* Two requests that may race for one creative; anything may fail.
SPECIFICATION Spec
CONSTANTS
    Ads = {a1}
    Creatives = {a1}
    Urls = {a1}
    CreativeId <- OwnKey
    MediaUrl <- OwnKey
    Requests = {r1, r2}
    JitPackage = FALSE
    JobResults = {"playable", "silent", "audioFirst", "failed", "cancelled"}
    Faults = {"encore", "valkey", "lose", "resend", "lag", "crash"}
    NoJob = NoJob
    NoAd = NoAd
SYMMETRY Symmetry
INVARIANTS TypeOK PackagingJobsReady
PROPERTIES ImplementsAdCache CompletedLostOnlyToStraggler
