# Verification of the ad normalizer

The ad normalizer sits between a video player (or stitcher) and an ad server. It
replaces every ad creative in a VAST or VMAP response by a playlist transcoded
beforehand, leaves out the creatives it has no playlist for, and has those
transcoded for the next time. This directory holds TLA+ models of the code in
`src/`, their TLC configurations and proofs checked by TLAPS.

    tlc -workers 2 -config Pipeline_any_failure.cfg MCPipelineRefinement.tla
    tlapm PipelineProofs.tla

`PROJECT.json` lists the runs, the source lines behind each definition, the
hazards, the findings and the theorems.

## The system

| Component | State | Operations | Source | Modules |
|---|---|---|---|---|
| Request handling | per request the document and the partition of its creatives into found and missing | `HandleVast`, `HandleVmap` (one goroutine per ad break), `HandlePreIngestCreatives`, `partitionCreatives`, `dispatchJobs` (one goroutine per missing creative, not waited for) | `internal/serve/api.go` | `Pipeline`, `AdDocuments` |
| Encore callbacks | none | `HandleEncoreCallback`: IN_PROGRESS, FAILED, SUCCESSFUL | `internal/serve/encore.go` | `Pipeline`, `AdDocuments` |
| Packager callbacks | none | `HandlePackagingSuccess`, `HandlePackagingFailure` | `internal/serve/packager.go` | `Pipeline`, `AdDocuments` |
| Encore client | none | `CreateJob`, `GetEncoreJob` | `internal/encore/encorehandler.go` | `Pipeline` |
| Job data | none | `TranscodeInfoFromEncoreJob`, `GetTranscodeStatus`, `HasAudioOutput`, `GetFrameRates`, aspect ratio | `internal/structure` | `JobData` |
| Valkey store | in Valkey: a record per creative, the sorted set `job_time_index`, the sorted set `blacklist`, the packaging queue | `Get`, `Set`, `Delete`, `List`, `EnqueuePackagingJob`, `BlackList`, `InBlackList`, `RemoveFromBlackList`, `GetBlackList` | `internal/store/valkeystore.go` | `ValkeyStore`, `Paging`, `Pipeline` |
| Blacklist endpoint | none | POST, DELETE and paged GET | `internal/serve/api.go` | `Pipeline`, `AdDocuments` |
| Job list endpoint | none | paged GET with prev and next links | `internal/serve/api.go` | `Paging` |
| KPI collector | `kpiMap`, a channel of 1000 reports | `AdsHandled`, `runCollector`, `exportMetrics`, `postMetrics` | `internal/normalizerMetrics` | `KpiCollector` |
| VAST transformation | none | `GetCreatives`, `MakeCreatives`, `getKey`, `ReplaceMediaFiles`, `CreateFillerAd`, `ConvertToAssetDescriptionSlice` | `internal/util` | `VastTransform` |
| Process lifecycle | what main has started | start, signal, shutdown | `cmd/ad-normalizer/main.go` | `Lifecycle`, `KpiCollector` |
| Configuration, telemetry, OSC client | set once at startup | `ReadConfig`, `SetupOtelSdk`, `SetupOsc` | `internal/config`, `cmd/ad-normalizer/telemetry`, `internal/osaas` | `Lifecycle` |
| Logging | none | | `internal/logger` | |

How they interact. A request calls the store for each creative (Get, then
InBlackList), starts a goroutine for each missing one, reports its figures to the
KPI collector over a channel, and answers. The goroutine calls Encore and then
the store (Set QUEUED). Encore and the packager, which runs off the queue in
Valkey, call back over HTTP; each callback is handled in a goroutine of its own,
and again calls Encore and the store. There is no lock and no transaction: every
exchange between these goroutines is a Valkey command.

What is hard about it:

* check-then-act on a creative (`Get` ... `CreateJob` ... `Set`) with nothing
  between two requests to tell them apart;
* writes that take no notice of what they overwrite: the Set of QUEUED, and the
  Deletes of failed jobs, meet records that belong to other jobs or later states;
* calls and callbacks that fail, get lost, come twice or overtake each other, and
  errors that are ignored on purpose (`CreateJob`, `Set`, `InBlackList`, `Delete`);
* an ad, its best media file and its key are found anew by each function that needs
  them, on maps that merge ads of one key, and a record must fit all of them;
* store operations of several commands (record and index), and a list read page by
  page while it changes;
* a bounded channel between requests and collector, closed from the receiving side;
* errors of the startup that are shadowed, overwritten or ignored.

What makes each component correct: requests only list playlists that exist and are
their ads' own, are answered, honour the blacklist, and do not transcode what is
recorded; callbacks lead every record to COMPLETED or out of the cache, and do not take
a finished playlist away; a record shows the job it was made from; the packager only
gets what it can package; the index lists the records, and the job list all of them;
KPI reports are counted once, never block a request for good and never panic it in an
orderly shutdown; a process that serves has what it needs, and ends when it is told to.

## Modules

| Module | Content |
|---|---|
| `Pipeline` | requests, dispatching goroutines, callbacks, the store as they see it, and the services around them, command by command |
| `PipelineProperties` | what the pipeline must and must not do |
| `PipelineHistory` | the pipeline with two history variables, for properties that relate an answer to the time its request was open |
| `AdCache` | abstract specification: playlists are made, published and withdrawn; an answer shows what was cached while the request was open |
| `PipelineRefinement` | the refinement mapping from `Pipeline` to `AdCache` |
| `Slices` | what loops over slices keep of a sequence, and sorting |
| `VastTransform` | the functions that read and rewrite a VAST document |
| `JobData` | the functions that make a record from a finished Encore job |
| `AdDocuments` | the two at work: documents and jobs with their contents, requests, ad breaks, callbacks |
| `AdDocumentsProperties` | what a response and a record must show, against reference definitions |
| `ValkeyStore` | Set and Delete, one Valkey command at a time |
| `Paging` | `ValkeyStore` with the order of its index, List, and a client that follows the next links |
| `KpiCollector` | the channel, the collector, its posts and the shutdown |
| `Lifecycle` | main: configuration, startup, servers, signals, shutdown |
| `DataProofs` | lemmas about `Slices`, `VastTransform` and `JobData` |
| `StoreProofs` | the theorems about `ValkeyStore` and `Paging` |
| other `*Proofs` | the theorems about each, see below |
| `MC*` | constants and symmetry for TLC |

`Pipeline` and `AdDocuments` are two views of one flow. The first has every
interleaving and every fault, and knows ads, creatives and playlists as names; the
second has what these names stand for, with every handler one step and nothing
lost. Faults and contents hardly meet in the code: a failing command does not look at
what it fails to write, with one exception, the record that cannot be marshalled, which
is in `AdDocuments`.

### Pipeline

| Variable | In the code |
|---|---|
| `record` | the JSON `TranscodeInfo` under the creative's key; only status and, of a COMPLETED record, the playlist matter. A playlist is named by the job whose output it plays. No record is `Absent`. |
| `queue`, `blacklist` | the sorted sets, as sets: nothing the normalizer does depends on the scores |
| `phase`, `received`, `todo`, `lookup`, `found`, `missing` | the locals of `findMissingAndDispatchJobs` and `partitionCreatives`: `received` is the document, `todo` what is left of the map of its creatives, which has one ad for each key; `lookup` is the turn of the loop between Get and InBlackList; `found` and `missing` go by key |
| `dispatch` | where a goroutine of `dispatchJobs` is: before CreateJob, before Set, over |
| `handling` | goroutines inside `handleTranscodeCompleted`, after the Set: still to Delete (the Set failed), still to enqueue |
| `encore`, `packaged`, `callbacks` | external: Encore's jobs, the asset store, HTTP callbacks not yet handled |

One run of `findMissingAndDispatchJobs` (a VAST request, one ad break of a VMAP
request, a pre-ingest call) is a member of `Requests`; the ad breaks of one VMAP
are concurrent requests, as in `processVmap`. A job is named by its request and its
ad. Interleaving is as fine as the calls to Valkey and Encore, with one exception:
in a callback handler the fetch of the Encore job and the Set that follows are one
step, because a finished job does not change any more and nothing else reads what
the handler does in between. `Set` and `Delete` are single steps here; what their
several commands do to the time index is the subject of `ValkeyStore`, and the index
is not read by anything in the pipeline.

A member of `Faults` lets something fail: `encore` (a call to Encore fails; a
`CreateJob` that fails may still have created the job), `valkey` (a command fails,
applied or not), `lose` and `resend` (callbacks), `lag` (Encore may finish before the
dispatching goroutine has recorded its job), `crash` (all goroutines are lost; Valkey,
Encore and callbacks on their way are not). With `lag` absent Encore takes longer to
transcode than the goroutine to issue one Set, which is the usual case and not a
guarantee.

Encore jobs end as `playable`, `silent` (no output has audio; so has a job without
outputs), `audioFirst` (the first output has no video stream, on which
`TranscodeInfoFromEncoreJob` panics; net/http recovers), `failed` or `cancelled`
(its callback falls to the default case of `HandleEncoreCallback` and changes
nothing).

### VastTransform, JobData and AdDocuments

A document is a sequence of ads, an ad a sequence of creatives with media files, as far
as the code reads them; a VMAP document is a sequence of VAST documents, its ad breaks.
`VastTransform` is the code of `internal/util` that picks the best media file, makes
keys, builds the map of creatives (on which the last ad of a key wins) and rewrites the
document; what KEY_REGEX leaves of a text is the constant `Stripped`. A function that
would dereference nil or index an empty slice has a condition that says when it does
not (`CanKey`, `CanReplace`). Loops that drop elements, sort or compact are given by the
places of the elements that stay (`Keep`, `Sorted` in `Slices`): a form that can be
computed and proved about alike. `JobData` is `internal/structure`: frame rates are numbers
of hundredths, with the two values of a `float64` that are none, which
`json.Marshal` refuses (`CanMarshal`); `GetFrameRates` sorts and compacts; the aspect
ratio is divided by `gcd`, a recursive function.

| Variable of `AdDocuments` | In the code |
|---|---|
| `keyField`, `jitPackage` | the settings |
| `record` | the whole `TranscodeInfo` |
| `jobs` | Encore's jobs: key, input, outputs, and how far they have got |
| `dispatching` | goroutines of `dispatchJobs` before `CreateJob` |
| `request` | per request the document as fetched, as rewritten so far, the ad breaks whose goroutine is not done, and the KPI figures |

The documents, lists and reports are constants. `DocumentsAssumption` says that documents
have the shape of the types they are decoded into, with an id per ad that tells it from
the others (the code never reads it, the properties do); `KeysAssumption` that `Keys`, the
domain of `record`, has every key that can be made from them.

An ad break of a VMAP is rewritten by its own goroutine in one step. The ad server may
fail. A panic in a VAST request is recovered by the middleware; one in a goroutine of
an ad break ends the process, which takes the open requests and the dispatching
goroutines with it.

### ValkeyStore and Paging

Per client the command it sends next. A failing command may have been applied, and the
rest of the operation is not carried out; the death of a client is the same thing.
`alone` and `torn` are history: a key is torn if the last operation that wrote it was
cut short, or overlapped an opposite one (Set and Delete). Set is never called with a
TTL, so EXPIRE is left out and PERSIST changes nothing.

`Paging` adds `order`, the members of the index with the newest first, which a ZADD
changes and a ZREM closes up, and one client of the job list: it asks for a page,
List reads the index and then the records, and the client follows the next link as long
as there is one. Ints wrap around at `MaxInt`, and ZREVRANGE counts negative positions
from the end. `owed` is history: the jobs that were listed when the walk began, have not
been shown, and have been left alone since; a key leaving the index, or a record missing
from a page, ends all claims, since what follows moves up a page unseen or the walk
ends early. `gone` is history for the error of List.

### KpiCollector

`handler`, `ch`, `kpiMap`, `post` are the goroutines, the channel and the sums of
`kpireporter.go`; `main` follows `cmd/ad-normalizer/main.go` from the signal over
`server.Shutdown` (which waits for handlers, though no more than ten seconds: `forced`)
to the deferred `cancelKpi` and the end of the process. A report counts one ad and the
three figures of the code are one, as they are added up alike. `Capacity` is 1 for
1000: what matters is that the channel can be full.

### Lifecycle

`at` is where main is, `env` the environment it was started in: each variable absent,
malformed, good, or (`INSTANCEID`) the one value that is asked for. An error on the way
does what it does in the code: it is returned and ends the process, is lost to a
shadowed or overwritten `err`, or becomes a nil pointer. `started` is what has to be
shut down, and `deferred` the calls main has deferred by then; when main returns or panics,
`RunDeferred` makes them one by one, while requests go on. `Die` is an end without them.

After a signal main shuts down pprof's server (`Quit`, `PprofShutDown`) and then its own
(`ShutdownOver`), both within the same ten seconds; `overdue` says that they were not enough.
Requests may hang or end, and nothing is said of how they end, except that the goroutine of an
ad break may panic, which nobody recovers. `otelShutdown` is called without a deadline
(main.go:58); that it ends all the same is assumed, as the exporters have timeouts of their own.

## Runs

The passing runs; each cfg begins with what it is about.

| Run | Instance | Shows |
|---|---|---|
| `any_failure` | 1 creative, 2 requests, every fault, every job result, packaging | `TypeOK`, `PackagingJobsReady`, `ImplementsAdCache`, `CompletedLostOnlyToStraggler` |
| `history` | just-in-time packaging, 3 ads of which two share a key and two a media file, 2 requests for any of them, the blacklist changing, jobs that end well or without audio, no faults | `BlacklistHonouredByKey`, `NoDuplicateOnceRecorded`, `ServedOnlyProduced` |
| `all_well` | 1 creative, 2 requests, no faults, jobs that fail or have no audio (none is cancelled or lacks video) | `ListedIfItExists`, `InProgressEnds`, `TranscodedIsCached` |
| `documents` | 2 requests for a VAST document (with or without a filler), one of two VMAP documents or a pre-ingestion; 2 jobs; 2 reports of Encore; a blacklisted file; all key fields, both ways of packaging | `TypeOK`, `OnlyPlaylistsAnswered`, `OwnPlaylistIfKeyed`, `JsonListsPlaylists`, `FiguresMatchAnswer`, `RecordsShowJobs`, `PackagedIsCachedIfNumeric`, `ListedIfCachedAndAllowed`, `NoTranscodeOfCached` |
| `job_list` | 3 keys, 2 writers, failing commands, 3 queries, ints up to 7 | `PagingTypeOK`, `IndexMatchesRecords`, `WalkComplete`, `ListFailsOnlyForGone`, `FarPagesEmpty` |
| `kpi_reports` | 3 handlers, 2 subdomains, 2 ticks, with fairness | `TypeOK`, `EveryReportAccounted`, `PanicOnlyWhenForced`, `SendersNotStuck` |
| `lifecycle` | every environment that differs in at most two variables from one with all or with the mandatory ones only; 3 requests to the server and one to pprof's | `TypeOK`, `ServingMeansConfigured`, `EndedClean`, `CleanUpAfterRequests`, `StopsWhenAsked` |

Why these bounds. What goes wrong in the pipeline goes wrong between actors that work
on one creative: two requests give two jobs, two dispatching goroutines, two chains of
callbacks and, with `resend`, repetitions of each; a third request adds only another
rival of the same kind. Two ads with one key are two media files that compete for one
record. `history` has the least set of ads with a pair that shares a key and a pair that
shares a media file, and so two creatives.

The documents are chosen for what the functions tell apart: two renditions of which
the better comes second, a tie, a best media file in the second creative, an ad whose
media file has no bitrate, one without creatives, two ads of one universal ad id, within
a document and in two documents; the reports for frame rates that are equal as numbers
and not as texts, missing, out of order, or no numbers. `MaxJobs` of 2 lets two jobs
compete for a key, or one creative be cached while another is in progress. The two
VMAP documents reach the end of the process and a pair of ad breaks rewritten together.

In the store two opposite operations and one bystander suffice for any pair of commands
to meet; three keys and pages of one and two make a walk of three pages, with a last page
that is full or not. Ints of four bits are enough for a product to overflow to a position
before the end of the list (page 7 of two); the proofs hold for any width.
A channel of one, three senders and two ticks make the channel full, empty,
closed, and read while a post is under way.

Each request is used once in `Pipeline` and `AdDocuments`; apart from `MaxJobs` and
`MaxExports`, which bounds the ticks of the collector, nothing bounds the number of steps.

The runs that find a violation, each of one property, are disagreements between
the code and what the repository says of it (`findings` in `PROJECT.json` quotes the
lines):

| Run | What happens |
|---|---|
| `queued_without_job` | Encore refuses a job; `CreateJob` swallows the error; the creative is recorded as QUEUED and never tried again |
| `overtaken` | Encore, packager and callbacks are faster than one Set: COMPLETED is overwritten by QUEUED |
| `rival_fails` | two requests, two jobs for a creative; the failing one deletes the record of the other |
| `blacklisted_twin` | of two ads of one key only the last one's media file is held against the blacklist, and both are listed |
| `cover_art` | a stream with frame rate 0/0 makes a record with NaN in it, which cannot be marshalled: packaged, and never cached |

`CompletedLostOnlyToStraggler` is the positive side of the second and the third:
nothing but such late work ever costs a creative its playlist. `BlacklistHonouredByKey` and
`PackagedIsCachedIfNumeric` are those of the last two.

Disagreements seen while modelling that have no run of their own, because a glance shows
them or because the behaviour is a choice no test or document contradicts firmly:

* `IN_FLIGHT_TTL` (readme.md:160, config.go:189) is read and used nowhere: a callback that
  is lost leaves a creative in progress for ever. `InProgressEnds` is false with `lose`.
* An error of the lookup in the blacklist counts as "not blacklisted" (api.go:544),
  against readme.md:113. `BlacklistHonouredByKey` is false with `valkey`.
* The error of the last record of a page escapes from the loop that means to pass over it
  (valkeystore.go:330, 339), and the job list fails. `ListFailsOnlyForGone` says when.
* The error of an unparsable `OUTPUT_BUCKET_URL` is joined to a shadowed variable
  (config.go:103), that of `ENCORE_URL` too, before a nil pointer is dereferenced.
* `ASSET_SERVER_URL` is mandatory in config.go, and optional in readme.md:155.
* A cancelled job leaves its record QUEUED for ever (encore.go:53), and so does one whose
  first output has no video, over which the handler panics (structure.go:41).
  `InProgressEnds` is false with `cancelled` and with `audioFirst`.
* All fillers have one universal ad id (util.go:79), hence with the default KEY_FIELD one key:
  once one filler is transcoded, a request that brings another is answered with the first one's
  playlist. This is the case `OwnPlaylistIfKeyed` excludes.

### Fairness

`Fairness` in `Pipeline` is weak fairness of every goroutine (the Go scheduler runs
what can run), of the delivery of callbacks that are not lost, and of Encore and the
packager ending what they were given. It is used with `all_well` only, where no fault
is allowed.
In `KpiCollector` handlers and the collector run; posts need not end,
since the KPI service is not ours. In `Lifecycle` only main runs, its deferred calls included,
and with it the timer of the shutdown: nothing makes a request end.

`kpi_reports` and `lifecycle` switch off the deadlock check: the process ends. In all other
runs deadlock is checked: the blacklist can always change, and the store's clients never stop.

## Proofs

Each proof is for any values of the constants, from the assumptions that the modules
state, and from nothing else.

**Pipeline.** `PipelineProofs` proves, for any sets of ads, creatives, requests, any job
results and any faults, from `ConstantsAssumption`:

* `TypeCorrect`: `Spec => []TypeOK`;
* `OnlyProducedServed`: `Spec => []ServedOnlyProduced`;
* `OnlyReadyJobsQueued`: `Spec => []PackagingJobsReady`;
* `CompletedStays`: `Spec => CompletedLostOnlyToStraggler`;
* `ListedInTheEnd`: without faults, `Spec => []ListedIfItExists`.

`ServedOnlyProduced` is not inductive. `Inv` (theorem `Invariance`) follows a playlist
back from the answer: what is in `found` was in a lookup (`FoundSound`), what is in a
lookup was in a record (`LookupSound`), a COMPLETED record was written by a handler of
a SUCCESSFUL or PACKAGED callback (`RecordSound`), such a callback was sent for a job
that ended so or a playlist that was made (`CallbacksSound`), the playlist was made from
a queued job (`PackagingJobsReady`), and that was queued by a handler of a playable job
(`HandlingSound`). `CreatedOnce` is what makes it stick: a job is created by one
goroutine, once, so that a job that has ended never becomes `transcoding` again. The
lemmas `EncoreChanges`, `RecordChanges`, `RequestChanges`, `CallbacksChange` and
`WorkChanges` say what a step can do to each part of the state; `InvStep` puts them
together. `CompletedStays` needs the types only (`LossExplained`).

`ListedInTheEnd` has an invariant of its own, `OrderlyInv`. A creative that was looked up
before any of its jobs has ended may have many jobs, whose callbacks overwrite each other's
record, and COMPLETED may become QUEUED again. `Settled` says why it comes right: a step of a
job leaves the creative's record COMPLETED, or that very job still at work, or the job has come
to nothing. For this a job must be in one place at a time (`OnePlace`), which is where lost and
repeated callbacks, an overtaken goroutine and failing commands would break the argument.

`PipelineHistoryProofs` proves `RecordedNotDuplicated`, and `BlacklistIsHonoured`, `HistorySpec
=> []BlacklistHonouredByKey`, for any set of faults without `valkey`. A request acts on what its last commands returned, while
the properties speak of all the time it was open. `HistorySound` connects them: as long as
the request is processed, what has held all the time holds now too, so that a lookup now
contradicts, or confirms, the whole history. What is looked up comes from the document
(`FromDocument`); hence a key with a playlist has an ad in it whose own file was not on the
blacklist at some moment (`OthersAllowed`), which is as much as the code keeps of readme.md:113
when ads share keys.

`PipelineRefinementProofs` proves `PipelineImplementsAdCache`:
`Spec => ImplementsAdCache`. Each lemma takes one kind of step to a step of `AdCache`:
requests open, look, drop and close (`RequestRefines`); the goroutines that work on a
creative publish its playlist or withdraw it (`JobRefines`, where `RecordSound` supplies
that a published playlist was made); Encore, or the packager, makes playlists
(`ServiceRefines`); a crash closes the open requests together (`CrashRefines`). The one
fact wanted beyond `Inv` is `NothingFoundYet`: before a creative has had its turn nothing has
been found for it, so that looking it up shows what is cached and being blacklisted shows
nothing.

**Documents.** `AdDocumentsProofs` proves every property of the run `documents`, for any
documents, lists, fillers, jobs, reports, key fields and any `Stripped`, from
`DocumentsAssumption` and `KeysAssumption`:

* `DocumentsTyped`: `Spec => []TypeOK`;
* `PlaylistsAnswered`: `Spec => []OnlyPlaylistsAnswered`;
* `OwnPlaylistPlayed`: `Spec => []OwnPlaylistIfKeyed`;
* `JsonHasPlaylists`: `Spec => []JsonListsPlaylists`;
* `FiguresAddUp`: `Spec => []FiguresMatchAnswer`;
* `RecordsShow`: `Spec => []RecordsShowJobs`;
* `PackagedCached`: `Spec => []PackagedIsCachedIfNumeric`;
* `CacheAndBlacklistDecide`: `Spec => ListedIfCachedAndAllowed`;
* `CachedNotTranscoded`: `Spec => NoTranscodeOfCached`.

None of the invariants is inductive. Four that are lead to them, each on top of the ones
before:

* `DInv`: with keys made of URLs, the key and the URL in a goroutine, a job or a record
  belong together (`KeysOfUrls`). Every step hands them on together (`CreateJobInvariant`,
  `CallbackInvariant`), and the maps made from documents start them off so (`CreativesMatch`,
  `IngestedMatch`). A goroutine is only started for a key without a record, and a completed
  record for the same URL would be under that key: hence `CachedNotTranscoded`.
* `RInv`: a record is overwritten by callbacks of all jobs for its key, in any order, so it
  cannot be said whose it is from what was written last. `RecordsOfJobs` says what survives:
  it shows *some* job for its key as far as that one has got, or none yet. `JobsReported`
  adds that what is known of a job are the streams of one of Encore's reports.
  `PackagedIsCachedIfNumeric` is a part of `RInv` itself, `RecordsShow` follows with what
  `DataProofs` says of `gcd`, `Sorted` and `Compact`.
* `QInv`: an ad of an ad break already rewritten was received with it, under the same id,
  and now has a playlist made for its key (`RequestsOK`); a goroutine was started for an ad
  break that is done, with a URL some ad received has under that key (`DispatchesOK`), and so
  a job has such a URL (`JobsKnown`). Jobs never go away, so a playlist listed when the ad
  break was rewritten exists when the document is answered, whatever became of the record in
  between. `OwnPlaylistPlayed` adds that a key with one URL leaves no other choice, and
  `JsonHasPlaylists` that the playlist has the bitrate of the best media file and comes first,
  so that the search for the best, run again on the rewritten document, ends with it.
* `FiguresInv`: the figures add up over the ad breaks rewritten so far (`FiguresOK`). Found and
  missing creatives are counted by keys, ads by places in the document; the two agree where no
  two ads share a key (`FiguresOfBreak`).

`DataProofs` has what these need of the pure functions, for sequences of any length: `Keep`
keeps what it should in order (`KeepProperties`), the media files of an ad are those of its
creatives (`FlattenProperties`, `MediaFilesOfAd`), the loop finds the best media file
(`BestMediaFile`) and still finds it with the playlist in its place (`PlaylistBest`), `gcd`
gives the lowest terms (`LowestTerms`), the frame rates are those of the streams, once each
and ascending (`RatesFound`). Folds and `gcd` are recursive, and the library's induction cannot
be used; the proofs take a least counterexample instead (`Least`), and show separately that
there is a function which the recursive definition defines (`GcdDefined`, `SearchExists`,
`ConcatenationExists`).

**Store and job list.** `StoreProofs` proves `IndexCorrect`, `Spec =>
[]IndexMatchesRecords`, for any number of keys and clients, from `StoreAssumption`.
`IndexMatchesRecords` does not speak of keys in use, so it does not explain why the
operation that ends last leaves record and index in agreement. `IInv` adds that a client
still alone has no opposite operation beside it (`AloneMeansAlone`), and that therefore what
it wrote to the record still stands when it writes to the index (`AloneWritesStand`).

It goes on to prove `PagingTypeCorrect`, `IndexCorrectWhileListing`, `NothingSkipped`,
`ListErrorsExplained` and `PastTheEnd`, for any finite set of keys, any number of writers,
any page size and any width of int that holds twice the number of keys. `PagingInv` adds to
`IInv`: the order lists the index without repetition; what is owed lies on the page asked
for or behind it, and if it lies behind the page is full (`OwedAhead`), so that there is a
next link, and no product overflows where something is owed; an entry without a record is
being deleted, or torn (`EntriesExplained`), and a key of the page that has lost its record
is in `gone` (`LossesKnown`). The lemma it hangs on is `WriterOrder`: a writer moves its own
key to the front or takes it out, and leaves the others in order.

**KPIs and lifecycle.** `KpiCollectorProofs` proves `TypeCorrect`, `NoPanicUnlessForced`,
`Spec => []PanicOnlyWhenForced`, and `ReportsAccounted`, `Spec => []EveryReportAccounted`, for
any set of handlers, finite or not, any subdomains and any capacity, from
`CollectorAssumption`. The channel is closed only after main has cancelled the collector
(`ClosedByMain`), and main cancels without force only when nobody sends, after which nobody
starts to (`DrainedUnlessForced`). The books (`Books`) need two facts more: a post is not in use
before it is started (`FreshPosts`), and only finitely many reports have been made so far
(`SentFinite`). Each action then moves a report, or a sum of them, from one place to the next
(`SendBooked`, `ReceiptBooked`, `ExportBooked`, `PostBooked`); that the sum over the posts does
not depend on the order it is taken in is `AnyOrder`. `LifecycleProofs` proves `TypeCorrect`, `Configured`,
`EndsClean` and `CleansUpAfterRequests` for any set of environments, from
`LifecycleAssumption`: past ReadConfig nothing it reports or dereferences was wrong
(`Checked`); what has been started is shut down by a call that is deferred, once there may be
an end that runs it, or is pprof's server before the shutdown (`Covered`); and requests are
only let in before the shutdown, so that those left at its end are the ones it waited for
(`Attended`).

**Only model-checked.** Liveness (`InProgressEnds`, `TranscodedIsCached`, `SendersNotStuck`,
`StopsWhenAsked`), which rests on fairness and so on ENABLED, is out of the prover's reach.
Every other property of a passing run is a theorem. The properties of the runs that
find a violation are false, and so not proved.

## Not modelled

* Logging; the CORS and compression middlewares; what the pprof server and telemetry hand out.
* `ReplaceSubdomain` and `ValidPath` (texts of URLs), and the headers and query parameters
  handed on to the ad server: no state and no property of the system depends on them.
* The HTTP exchanges with Encore, OSC, the ad server and the KPI service come to "the call may
  fail"; gzip and decoding come to `AdServerFails`.
* `GetBlackList` and the GET of the blacklist, which change nothing; the GET validates page and
  size and ignores both, since they are declared again in an inner block (api.go:215).
* `Ttl`, which nobody calls, and the prev links and total of the job list, which nothing follows
  from.
* Timestamps, except for the order they give to the job list.

## Plan

Done: `Pipeline` with its properties, `AdCache` and the refinement, `ValkeyStore`,
`KpiCollector`, `VastTransform`, `JobData`, `AdDocuments`, `Paging`, `Lifecycle`, and the proofs
above. Next:

1. `AdDocuments` as a refinement of `AdCache`, so that the two views of the flow meet in one
   abstract specification.
2. The properties that the findings break, proved under the condition that excludes the finding:
   `QueuedMeansSubmitted` while Encore takes every job, `ListedIfAnyExists` with one job per
   creative, `BlacklistHonoured` with one ad per key.
3. What the collector loses: that an orderly shutdown loses no more than what is in the channel,
   in the last post and in posts that fail.
