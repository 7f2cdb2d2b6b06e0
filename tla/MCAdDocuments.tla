--------------------------- MODULE MCAdDocuments ----------------------------
(* Small documents, jobs and settings for TLC.                             *)
EXTENDS AdDocumentsProperties

(* KEY_REGEX strips the hyphen.                                            *)
StrippedTexts ==
    "" :> "" @@ "a-lo" :> "alo" @@ "a-hi" :> "ahi" @@ "b-lo" :> "blo" @@ "b-hi" :> "bhi"
    @@ "c" :> "c" @@ "f-1" :> "f1"
    @@ "id-1" :> "id1" @@ "id-2" :> "id2" @@ FillerId :> FillerId

AllKeys ==
    {"", "a-hi", "ahi", "blo", "bhi", "c", "f1", "id1", "id2", FillerId, "0x0", "hd", "sd"}

File(text, bitrate, size) == [text |-> text, bitrate |-> bitrate, size |-> size]

CreativeOf(id, files, duration) ==
    [adId |-> id, linear |-> TRUE, mediaFiles |-> files, duration |-> duration]

AdOf(id, creatives) == [id |-> id, inLine |-> TRUE, creatives |-> creatives]

(* Two renditions, the better one first, and one of the same bitrate.      *)
AdA == AdOf("A", <<CreativeOf("id-1", <<File("a-lo", 1, "sd"), File("a-hi", 2, "hd"),
                                    File("c", 2, "hd")>>, 10)>>)

(* The best media file is that of the second creative.                     *)
AdB == AdOf("B", <<CreativeOf("id-2", <<File("b-lo", 1, "sd")>>, 10),
                 CreativeOf(NoAdId, <<File("b-hi", 2, "hd")>>, 20)>>)

(* Another file under the universal ad id of A.                            *)
AdC == AdOf("C", <<CreativeOf("id-1", <<File("c", 1, "sd")>>, 10)>>)

(* A bitrate that is not given.                                            *)
AdZero == AdOf("Z", <<CreativeOf("id-2", <<File("b-lo", 0, "sd")>>, 10)>>)

Hollow == AdOf("H", <<>>)

SomeVasts == { <<AdA, AdB>> }
SomeVmaps == { << <<AdA, AdC>>, <<AdZero, Hollow>> >>, << <<AdC>>, <<AdB>> >> }

JustA == { <<AdA>> }

Stream(w, h, rate) == [width |-> w, height |-> h, frameRate |-> rate]
Output(streams, audio) == [videoStreams |-> streams, audio |-> audio]

(* 50/1, 30000/1001 and 29.97 as 2997/100, 25, and one without a rate.     *)
MixedRates ==
    <<Output(<<Stream(1920, 1080, <<50, 1>>), Stream(640, 480, <<30000, 1001>>),
               Stream(640, 480, <<>>)>>, FALSE),
      Output(<<Stream(1280, 720, <<2997, 100>>), Stream(0, 0, <<25>>)>>, TRUE)>>

(* Cover art: a stream whose frame rate is reported as 0/0.                *)
CoverArt == <<Output(<<Stream(1280, 720, <<25, 1>>), Stream(600, 600, <<0, 0>>)>>, TRUE)>>

SomeReports == {MixedRates, CoverArt}
CoverArtOnly == {CoverArt}

SomePreIngests == {<<"a-hi">>}

Symmetry == Permutations(Requests)
=============================================================================
