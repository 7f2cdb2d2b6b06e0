--------------------------- MODULE VastTransform ----------------------------
(***************************************************************************)
(* What is computed from a VAST document while a request is answered: the  *)
(* best media file of each ad, the keys of the creatives, and the document *)
(* rewritten with the playlists found (internal/util/util.go).             *)
(*                                                                         *)
(* inLine is FALSE for a wrapper, which has no creatives of its own.  adId *)
(* is the universal ad id of a creative or NoAdId, linear is FALSE for a   *)
(* companion or a non-linear creative.  A media file has its URL as text   *)
(* and its resolution as size.                                             *)
(***************************************************************************)
EXTENDS Integers, Slices

CONSTANT Stripped   \* what KEY_REGEX leaves of each text

MediaFile == [text : STRING, bitrate : Int, size : STRING]

Creative == [adId : STRING, linear : BOOLEAN, mediaFiles : Seq(MediaFile), duration : Nat]

Ad == [id : STRING, inLine : BOOLEAN, creatives : Seq(Creative)]

(* The id of an ad, which the code never reads, tells it from the others.  *)
IsDocument(ads) ==
    ads \in Seq(Ad) /\ \A i, j \in DOMAIN ads : ads[i].id = ads[j].id => i = j

NoAdId == "no universal ad id"

(* The zero value every search for the best media file starts from.        *)
NoMediaFile == [text |-> "", bitrate |-> 0, size |-> "0x0"]

(* The media files of all creatives of an ad, in document order.           *)
MediaFiles(ad) ==
    FlattenSeq([i \in DOMAIN ad.creatives |-> ad.creatives[i].mediaFiles])

(* Mutation: only the first creative is searched.                          *)
BestMediaFileOfFirstCreative(ad) ==
    FoldLeft(LAMBDA best, m : IF m.bitrate > best.bitrate THEN m ELSE best,
             NoMediaFile, IF ad.creatives = <<>> THEN <<>> ELSE ad.creatives[1].mediaFiles)

GetBestMediaFileFromVastAd(ad) ==
    FoldLeft(LAMBDA best, m : IF m.bitrate > best.bitrate THEN m ELSE best,
             NoMediaFile, MediaFiles(ad))

GetKey(keyField, ad) ==
    CASE keyField = "resolution" -> GetBestMediaFileFromVastAd(ad).size
      [] keyField = "url"        -> Stripped[GetBestMediaFileFromVastAd(ad).text]
      [] OTHER                   -> Stripped[ad.creatives[1].adId]

(* Finding the best media file and the key of an ad dereferences no nil    *)
(* pointer and no element that is not there.                               *)
CanKey(keyField, ad) ==
    /\ ad.inLine
    /\ \A i \in DOMAIN ad.creatives : ad.creatives[i].linear
    /\ keyField \notin {"resolution", "url"} =>
          ad.creatives # <<>> /\ ad.creatives[1].adId # NoAdId

(* A map written in the order of a sequence: the last value of a key stays. *)
MapOf(keys, values) ==
    [k \in ToSet(keys) |-> values[SelectLastInSeq(keys, LAMBDA x : x = k)]]

(* The URL to look for, or to transcode, for each key.                     *)
GetCreatives(ads, keyField) ==
    MapOf([i \in DOMAIN ads |-> GetKey(keyField, ads[i])],
          [i \in DOMAIN ads |-> GetBestMediaFileFromVastAd(ads[i]).text])

(* Mutation: KEY_REGEX is not applied.                                     *)
UrlToKeyUnstripped(url) == url

UrlToKey(url) == Stripped[url]

MakeCreatives(urls) == MapOf([i \in DOMAIN urls |-> UrlToKey(urls[i])], urls)

(* Mutation: the playlist is a new media file, without a bitrate.          *)
NewMediaFileFromNone(ad, playlist) == [NoMediaFile EXCEPT !.text = playlist]

(* The best media file of an ad, now with the playlist.                    *)
NewMediaFile(ad, playlist) == [GetBestMediaFileFromVastAd(ad) EXCEPT !.text = playlist]

PlaylistAd(ad, playlist) ==
    [ad EXCEPT !.creatives[1].mediaFiles = <<NewMediaFile(ad, playlist)>>]

(* Only ads whose creative was found stay, with its playlist as the only   *)
(* media file of their first creative.                                     *)
ReplaceMediaFiles(ads, found, keyField) ==
    LET kept == Keep(ads, {i \in DOMAIN ads : GetKey(keyField, ads[i]) \in DOMAIN found})
    IN [i \in DOMAIN kept |-> PlaylistAd(kept[i], found[GetKey(keyField, kept[i])])]

(* The replacement needs a first creative to go to.                        *)
CanReplace(ads, found, keyField) ==
    \A i \in DOMAIN ads :
        GetKey(keyField, ads[i]) \in DOMAIN found => ads[i].creatives # <<>>

FillerId == "NORMALIZER_FILLER"

CreateFillerAd(url) ==
    [id |-> FillerId, inLine |-> TRUE, creatives |->
        <<[adId |-> FillerId, linear |-> TRUE, duration |-> 0, mediaFiles |->
              <<[text |-> url, bitrate |-> 1, size |-> "0x0"]>>]>>]

GetAdDuration(ad) ==
    IF ad.creatives = <<>> THEN 0 ELSE ad.creatives[1].duration

(* The asset list for HLS interstitials.                                   *)
ConvertToAssetDescriptionSlice(ads) ==
    [i \in DOMAIN ads |-> [uri      |-> GetBestMediaFileFromVastAd(ads[i]).text,
                           duration |-> GetAdDuration(ads[i])]]
=============================================================================
