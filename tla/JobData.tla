------------------------------- MODULE JobData -------------------------------
(***************************************************************************)
(* What is computed from a finished Encore job: the TranscodeInfo stored   *)
(* for its creative (internal/structure).                                  *)
(*                                                                         *)
(* A frame rate is the sequence of numbers its text is split into at the   *)
(* slashes: empty for no text, Unparsed for a part that is not a number.   *)
(***************************************************************************)
EXTENDS Integers, Slices

Unparsed == -1

VideoStream == [width : Nat, height : Nat, frameRate : Seq(Nat \cup {Unparsed})]

Outputs == Seq([videoStreams : Seq(VideoStream), audio : BOOLEAN])

(* Frame rates are numbers of hundredths, or one of the two values of a    *)
(* float64 that are none; NaN is sorted before, Infinite after the numbers. *)
NaN == -1
Infinite == 1000000

(* A quotient rounded to two decimals.                                     *)
Hundredths(n, d) ==
    IF d = 0 THEN IF n = 0 THEN NaN ELSE Infinite
             ELSE (200 * n + d) \div (2 * d)

ParseFrameRate(parts) ==
    LET denominator == IF Len(parts) = 2 /\ parts[2] # Unparsed THEN parts[2] ELSE 1
    IN IF parts[1] = Unparsed THEN 0 ELSE Hundredths(parts[1], denominator)

VideoStreams(outputs) ==
    FlattenSeq([i \in DOMAIN outputs |-> outputs[i].videoStreams])

(* Equal neighbours become one; no NaN equals another.                     *)
Compact(s) ==
    Keep(s, {i \in DOMAIN s : i = 1 \/ s[i] # s[i - 1] \/ s[i] = NaN})

(* The frame rates that are given, in the order of the streams.            *)
ParsedRates(streams) ==
    LET given == Keep(streams, {i \in DOMAIN streams : streams[i].frameRate # <<>>})
    IN [i \in DOMAIN given |-> ParseFrameRate(given[i].frameRate)]

(* Mutation: duplicates are removed without sorting first.                 *)
GetFrameRatesUnsorted(outputs) == Compact(ParsedRates(VideoStreams(outputs)))

GetFrameRates(outputs) == Compact(Sorted(ParsedRates(VideoStreams(outputs))))

HasAudioOutput(outputs) == \E i \in DOMAIN outputs : outputs[i].audio

(* Euclid's algorithm.                                                     *)
gcd[p \in Nat \X Nat] ==
    IF p[2] = 0 THEN p[1] ELSE gcd[<<p[2], p[1] % p[2]>>]

AspectRatio(width, height) ==
    IF width = 0 \/ height = 0
    THEN <<0, 0>>
    ELSE LET d == gcd[<<width, height>>] IN <<width \div d, height \div d>>

(* The first output must have a video stream: its size is the record's.    *)
FirstOutputUnreadable(outputs) == outputs[1].videoStreams = <<>>

FirstVideoStream(outputs) == outputs[1].videoStreams[1]

TranscodeInfoFromEncoreJob(job, jitPackage, playlist) ==
    LET OrDefault(n, default) == IF n # 0 THEN n ELSE default
        video == FirstVideoStream(job.outputs)
    IN [status      |-> IF jitPackage THEN "COMPLETED" ELSE "PACKAGING",
        url         |-> IF jitPackage THEN playlist ELSE "",
        source      |-> job.input,
        aspectRatio |-> AspectRatio(OrDefault(video.width, 1920),
                                    OrDefault(video.height, 1080)),
        frameRates  |-> GetFrameRates(job.outputs)]

(* json.Marshal has no notation for a number that is none.                 *)
CanMarshal(info) ==
    \A i \in DOMAIN info.frameRates : info.frameRates[i] \notin {NaN, Infinite}
=============================================================================
