\* Just-in-time packaging, two requests against the blacklist endpoint; of three ads two share a key and two a media file.
SPECIFICATION HistorySpec
CONSTANTS
    Ads = {a1, a2, a3}
    Creatives = {c1, c2}
    Urls = {u1, u2}
    CreativeId <- PairedKey
    MediaUrl <- PairedUrl
    Requests = {r1, r2}
    JitPackage = TRUE
    JobResults = {"playable", "silent"}
    Faults = {}
    NoJob = NoJob
    NoAd = NoAd
SYMMETRY Symmetry
INVARIANTS BlacklistHonouredByKey NoDuplicateOnceRecorded ServedOnlyProduced
