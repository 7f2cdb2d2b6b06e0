----------------------- MODULE AdDocumentsProperties ------------------------
(* What responses must show, whatever documents and jobs look like.        *)
EXTENDS AdDocuments

Positions(breaks) == UNION {{b} \X DOMAIN breaks[b] : b \in DOMAIN breaks}

AdAt(breaks, p) == breaks[p[1]][p[2]]

(* The documents of requests that asked for ads and got them.              *)
Answered == {r \in Requests : /\ request[r].phase = "answered"
                              /\ request[r].kind # "preingest"}

(* The ad of the response as the ad server sent it.                        *)
Original(r, b, ad) ==
    LET fetched == request[r].fetched[b]
    IN fetched[CHOOSE i \in DOMAIN fetched : fetched[i].id = ad.id]

(* The URL of the best media file, by a definition without a loop: the     *)
(* first of the highest bitrate, and none if no bitrate is above zero.     *)
BestUrl(ad) ==
    LET files == MediaFiles(ad)
        best == {i \in DOMAIN files :
                    /\ files[i].bitrate > 0
                    /\ \A j \in DOMAIN files :
                          \/ files[j].bitrate < files[i].bitrate
                          \/ files[j].bitrate = files[i].bitrate /\ i <= j}
    IN IF best = {} THEN "" ELSE files[CHOOSE i \in best : TRUE].text

MakeablePlaylists == {n \in DOMAIN jobs : jobs[n].state = "packaged"}

(* What a player gets to see of an ad: its first creative.                 *)
Listed(ad) == ad.creatives[1].mediaFiles

-----------------------------------------------------------------------------
(* "modified VAST file where the mediafile objects have their links        *)
(* replaced with playlist URLs" (readme.md:48): a response has only ads    *)
(* whose first creative plays a playlist that exists, made for their own   *)
(* key; no ad break gets out before its goroutine is done with it          *)
(* (processVmap, ReplaceMediaFiles).                                       *)
OnlyPlaylistsAnswered ==
    \A r \in Answered : \A p \in Positions(request[r].breaks) :
        LET ad == AdAt(request[r].breaks, p)
        IN \E n \in MakeablePlaylists :
              /\ Len(Listed(ad)) = 1 /\ Listed(ad)[1].text = Playlist(n)
              /\ jobs[n].key = GetKey(keyField, Original(r, p[1], ad))

(* The ad at p plays what was transcoded from its own best media file.     *)
PlaysItself(r, p) ==
    LET ad == AdAt(request[r].breaks, p)
    IN \E n \in MakeablePlaylists :
          /\ Listed(ad)[1].text = Playlist(n)
          /\ jobs[n].input = BestUrl(Original(r, p[1], ad))

(* The URLs known under key k: of ads requested, or to be pre-ingested.    *)
UrlsOf(k) ==
    {BestUrl(ad) : ad \in {x \in UNION {{AdAt(request[r].fetched, p) :
                                           p \in Positions(request[r].fetched)} :
                                        r \in Requests} :
                           CanKey(keyField, x) /\ GetKey(keyField, x) = k}}
    \cup {u \in UNION {ToSet(urls) : urls \in PreIngests} : UrlToKey(u) = k}

(* "returns the master playlist URLs for the ad assets specified in the    *)
(* VAST or VMAP response" (readme.md:39): each ad plays what was           *)
(* transcoded from its own best media file, whoever had it transcoded,     *)
(* where its key belongs to one media file only.  Then no mixture of       *)
(* documents, settings and pre-ingested files leads an ad to a playlist    *)
(* that is not its own (GetBestMediaFileFromVastAd, getKey, partition and  *)
(* replacement each find the media file anew).  Two fillers have one key   *)
(* (util.go:79), and one of them does play the other's playlist.           *)
OwnPlaylistIfKeyed ==
    \A r \in Answered : \A p \in Positions(request[r].breaks) :
        LET k == GetKey(keyField, Original(r, p[1], AdAt(request[r].breaks, p)))
        IN (\A u, v \in UrlsOf(k) : u = v) => PlaysItself(r, p)

(* No other ad of the break has the key of its i-th ad.                    *)
KeyUnshared(ads, i) ==
    \A j \in DOMAIN ads : GetKey(keyField, ads[j]) = GetKey(keyField, ads[i]) => j = i

(* Ad break b of request r has been rewritten in this step.                *)
Rewritten(r, b) ==
    b \in request[r].open /\ b \notin request'[r].open

(* An ad that does not share its key is listed exactly if its creative is  *)
(* in the cache and its best media file not on the blacklist, and          *)
(* transcoded exactly if there is no record of it and it is not on the     *)
(* blacklist (readme.md:113), although both are decided by key, on a map,  *)
(* and applied to the ads in a second pass (partitionCreatives).           *)
ListedIfCachedAndAllowed ==
    [][\A r \in Requests : \A b \in request[r].open : Rewritten(r, b) =>
          LET ads == request[r].breaks[b] IN
          \A i \in DOMAIN ads : KeyUnshared(ads, i) =>
              LET status == record[GetKey(keyField, ads[i])].status
                  allowed == BestUrl(ads[i]) \notin blacklist
              IN /\ (\E x \in DOMAIN request'[r].breaks[b] :
                        request'[r].breaks[b][x].id = ads[i].id)
                       <=> (allowed /\ status = "COMPLETED")
                 /\ (\E d \in dispatching' :
                        /\ d.request = r /\ d.break = b
                        /\ d.key = GetKey(keyField, ads[i]))
                       <=> (allowed /\ status = "NONE")]_vars

(* A VAST request answered in JSON gets the playlists of the XML response, *)
(* in the same order, as long as the media files have bitrates to go by: that *)
(* of the first creative, and not what other creatives still contain       *)
(* (ConvertToAssetDescriptionSlice after ReplaceMediaFiles).               *)
JsonListsPlaylists ==
    \A r \in Answered : request[r].kind = "vast" =>
        LET ads == request[r].breaks[1]
            assets == ConvertToAssetDescriptionSlice(ads)
        IN \A i \in DOMAIN ads :
              BestUrl(Original(r, 1, ads[i])) # "" => assets[i].uri = Listed(ads[i])[1].text

(* The KPI figures of a request add up to what the player got and the ads  *)
(* it did not get, unless ads share keys: every ad listed is counted       *)
(* served, and no ad is counted twice (findMissingAndDispatchJobs).        *)
FiguresMatchAnswer ==
    \A r \in Answered :
        LET breaks == request[r].breaks
            fetched == request[r].fetched
            f == request[r].figures
        IN (\A p \in Positions(fetched) : KeyUnshared(fetched[p[1]], p[2])) =>
              /\ f.served = Cardinality(Positions(breaks))
              /\ f.served + f.ingested + f.broken <= Cardinality(Positions(fetched))

(* A media file is not transcoded again while its playlist is in the       *)
(* cache, if keys are made of URLs: what was pre-ingested is found by the  *)
(* requests to come, and the other way round (MakeCreatives, GetCreatives). *)
NoTranscodeOfCached ==
    [][keyField = "url" =>
          \A d \in dispatching' \ dispatching : \A k \in Keys :
              ~(record[k].status = "COMPLETED" /\ record[k].source = d.input)]_vars

(* A record shows the size and the rates of the job it was made from:      *)
(* the aspect ratio in lowest terms, and the frame rates of its streams    *)
(* once each, in ascending order (calculateAspectRatio, GetFrameRates).    *)
ShowsJob(info, job) ==
    LET video == FirstVideoStream(job.outputs)
        streams == VideoStreams(job.outputs)
        ratio == info.aspectRatio
        rates == info.frameRates
    IN /\ info.source = job.input
       /\ video.width * video.height > 0 =>
             ratio[1] * video.height = ratio[2] * video.width
       /\ \A d \in 2 .. ratio[2] : ~(ratio[1] % d = 0 /\ ratio[2] % d = 0)
       /\ \A x, y \in DOMAIN rates : x < y => rates[x] < rates[y]
       /\ ToSet(rates) = {ParseFrameRate(streams[i].frameRate) :
                             i \in {j \in DOMAIN streams : streams[j].frameRate # <<>>}}

RecordsShowJobs ==
    \A k \in Keys : record[k].status \in {"PACKAGING", "COMPLETED"} =>
        \E n \in DOMAIN jobs : /\ jobs[n].key = k
                               /\ jobs[n].state \in {"packaging", "packaged"}
                               /\ ShowsJob(record[k], jobs[n])

JobsFor(k) == {n \in DOMAIN jobs : jobs[n].key = k}

(* Every job for key k has led to a playlist.                              *)
AllPackaged(k) ==
    JobsFor(k) # {} /\ \A n \in JobsFor(k) : jobs[n].state = "packaged"

(* "If the packaging job is successful, the URL of the resulting           *)
(* multivariant playlist is added to the Redis cache" (readme.md:41).      *)
PackagedIsCached ==
    \A k \in Keys : AllPackaged(k) => record[k].status = "COMPLETED"

NumericRates(outputs) == ToSet(GetFrameRates(outputs)) \subseteq Nat \ {Infinite}

(* The same for jobs whose frame rates are numbers: the record then says   *)
(* COMPLETED and names one of their playlists, however many jobs requests  *)
(* and pre-ingestion have created for the key.                             *)
PackagedIsCachedIfNumeric ==
    \A k \in Keys :
        AllPackaged(k) /\ (\A n \in JobsFor(k) : NumericRates(jobs[n].outputs)) =>
            /\ record[k].status = "COMPLETED"
            /\ \E n \in JobsFor(k) : record[k].url = Playlist(n)
=============================================================================
