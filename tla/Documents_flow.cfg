\* Two requests for any of four documents, or to pre-ingest, under all settings.
SPECIFICATION Spec
CONSTANTS
    Stripped <- StrippedTexts
    Keys <- AllKeys
    Requests = {r1, r2}
    VastDocuments <- SomeVasts
    VmapDocuments <- SomeVmaps
    MaxJobs = 2
    Fillers = {"", "f-1"}
    PreIngests <- SomePreIngests
    Reports <- SomeReports
    Blacklisted = {"a-hi"}
    KeyFields = {"universalAdId", "url", "resolution"}
    JitPackages = {TRUE, FALSE}
SYMMETRY Symmetry
INVARIANTS TypeOK OnlyPlaylistsAnswered OwnPlaylistIfKeyed JsonListsPlaylists
           FiguresMatchAnswer RecordsShowJobs PackagedIsCachedIfNumeric
PROPERTIES ListedIfCachedAndAllowed NoTranscodeOfCached
