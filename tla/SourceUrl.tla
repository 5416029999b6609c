----------------------------- MODULE SourceUrl ------------------------------
(***************************************************************************)
(* What transcription/inspection.py accepts as the URL of one video, what  *)
(* it hands to yt-dlp, and the canonical URL it returns.  A URL that       *)
(* passes _parse_url is its lower-case host, the segments of its path (an  *)
(* empty segment stands for a doubled or a trailing slash) and the fields  *)
(* of its query.  Segments are words of the accepted shapes or             *)
(* representatives of the classes that the patterns tell apart.            *)
(***************************************************************************)
EXTENDS Naturals, Sequences, Selection

\* Strings, naming the literals that classification puts into a URL, which
\* no prover knows to be in STRING.
UrlText == STRING \cup {"", "v", "watch", "www.youtube.com", "x.com", "id of eleven"}
QueryField == [key : UrlText, value : UrlText]
Url == [host : UrlText, path : Seq(UrlText), query : Seq(QueryField)]

YouTubeHosts == {"youtube.com", "www.youtube.com", "m.youtube.com", "music.youtube.com", "youtu.be"}
InstagramHosts == {"instagram.com", "www.instagram.com"}
FacebookHosts == {"facebook.com", "www.facebook.com", "m.facebook.com"}
TikTokHosts == {"www.tiktok.com"}
XHosts ==
    {"x.com", "www.x.com", "m.x.com", "mobile.x.com",
     "twitter.com", "www.twitter.com", "m.twitter.com", "mobile.twitter.com"}
ShortHosts(platform) ==
    CASE platform = "facebook" -> {"fb.watch"}
      [] platform = "tiktok" -> {"vm.tiktok.com", "vt.tiktok.com"}
      [] platform = "x" -> {"t.co"}
      [] OTHER -> {}

PlatformHosts(platform) ==
    CASE platform = "instagram" -> InstagramHosts
      [] platform = "facebook" -> FacebookHosts
      [] platform = "tiktok" -> TikTokHosts
      [] platform = "x" -> XHosts
      [] OTHER -> YouTubeHosts

Platforms == {"youtube", "instagram", "facebook", "tiktok", "x"}

\* Hosts that embed a supported host name are refused as deceptive.
DeceptiveHosts == {"youtube.com.example"}

-----------------------------------------------------------------------------
(* The patterns, as classes of segments. *)

\* Characters outside [0-9] that str.isdigit takes for digits; int takes the
\* decimal ones for numbers and raises ValueError for the others.
OtherDigits == {"arabic zero", "arabic three", "superscript two"}

IsVideoId(t) == t = "id of eleven"
IsSafeSegment(t) ==
    t \notin {"", "na.me", "video.php", "@name", "@n!", "n!", "id of eleven!"} \cup OtherDigits
IsOwner(t) == IsSafeSegment(t) \/ t \in {"na.me", "video.php"}
IsNumber(t) == t \in {"0", "12"}
IsFacebookId(t) == IsNumber(t) \/ t = "pfbid0"
IsXUser(t) == IsSafeSegment(t) /\ t # "n-m"
IsTikTokUser(t) == t = "@name"
IsDigit(t) == IsNumber(t) \/ t \in OtherDigits
IntRaises(t) == t = "superscript two"
IsZero(t) == t \in {"0", "arabic zero"}

-----------------------------------------------------------------------------
(* Paths and queries. *)

RemoveTrailingSlash(path) ==
    IF path # <<>> /\ path[Len(path)] = "" THEN SubSeq(path, 1, Len(path) - 1) ELSE path

\* _path_segments refuses a missing or empty path and empty segments.
IsSegments(path) == path # <<>> /\ \A i \in 1 .. Len(path) : path[i] # ""

Values(query) == Selected(query, LAMBDA field : field.key = "v")

\* _video_query_values: one lower-case identity field at most.
VideoQueryOK(query) ==
    Len(Values(query)) <= 1 /\ \A i \in 1 .. Len(query) : query[i].key # "V"

HasVideo(query) == VideoQueryOK(query) /\ Len(Values(query)) = 1
Video(query) == Values(query)[1].value
Without(query, key) == Selected(query, LAMBDA field : field.key # key)

-----------------------------------------------------------------------------
(* One predicate per platform: the path and query name one video. *)

\* _youtube_video_id; the candidate that must then be a video id.
YouTubeCandidates(host, path, query) ==
    IF ~VideoQueryOK(query) THEN {}
    ELSE IF host = "youtu.be" THEN
        IF Len(path) = 1 /\ ~HasVideo(query) THEN {path[1]} ELSE {}
    ELSE IF path[1] = "watch" THEN
        IF Len(path) = 1 /\ HasVideo(query) THEN {Video(query)} ELSE {}
    ELSE IF path[1] \in {"shorts", "embed", "live"} /\ Len(path) = 2 /\ ~HasVideo(query)
        THEN {path[2]} ELSE {}

YouTubeAccepts(host, path, query) ==
    \E id \in YouTubeCandidates(host, path, query) : IsVideoId(id)

InstagramAccepts(path) ==
    Len(path) = 2 /\ path[1] \in {"p", "tv", "reel", "reels"} /\ IsSafeSegment(path[2])

FacebookQueryPaths == {<<"watch">>, <<"video.php">>, <<"video", "video.php">>}

FacebookAccepts(host, path, query) ==
    LET n == Len(path) IN
    IF host \in ShortHosts("facebook") THEN n = 1 /\ IsSafeSegment(path[1])
    ELSE \/ path \in FacebookQueryPaths /\ HasVideo(query) /\ IsFacebookId(Video(query))
         \/ n = 2 /\ path[1] = "reel" /\ IsFacebookId(path[2])
         \/ n = 3 /\ path[1] = "share" /\ path[2] = "v" /\ IsSafeSegment(path[3])
         \/ n = 4 /\ path[1] = "share" /\ IsSafeSegment(path[4])
         \/ /\ n = 4 /\ path[1] # "share" /\ path[3] = "videos"
            /\ IsOwner(path[1]) /\ IsSafeSegment(path[2]) /\ IsFacebookId(path[4])
         \/ n = 3 /\ path[2] \in {"videos", "posts"} /\ IsOwner(path[1]) /\ IsFacebookId(path[3])

TikTokAccepts(host, path) ==
    LET n == Len(path) IN
    IF host \in ShortHosts("tiktok") THEN n = 1 /\ IsSafeSegment(path[1])
    ELSE \/ n = 2 /\ path[1] = "t" /\ IsSafeSegment(path[2])
         \/ n = 2 /\ path[1] = "embed" /\ IsNumber(path[2])
         \/ n = 3 /\ IsTikTokUser(path[1]) /\ path[2] = "video" /\ IsNumber(path[3])

\* A trailing /video/<n> is set aside before the status is looked for.
Indexed(path) == Len(path) >= 2 /\ path[Len(path) - 1] = "video"

\* The number <n> passes str.isdigit and then fails in int.
XRaises(host, path) ==
    /\ host \notin ShortHosts("x") /\ Indexed(path)
    /\ Len(path) >= 3 /\ IntRaises(path[Len(path)])

XAccepts(host, path) ==
    LET n == Len(path)
        base == IF Indexed(path) THEN SubSeq(path, 1, n - 2) ELSE path
    IN  IF host \in ShortHosts("x") THEN n = 1 /\ IsSafeSegment(path[1])
        ELSE /\ Indexed(path) => n >= 3 /\ IsDigit(path[n]) /\ ~IntRaises(path[n]) /\ ~IsZero(path[n])
             /\ \/ Len(base) = 3 /\ base[2] = "status" /\ IsXUser(base[1]) /\ IsNumber(base[3])
                \/ Len(base) = 4 /\ SubSeq(base, 1, 3) = <<"i", "web", "status">> /\ IsNumber(base[4])
                \/ Len(base) = 2 /\ base[1] = "statuses" /\ IsNumber(base[2])

-----------------------------------------------------------------------------
(* classify_submitted_url *)

Refused(error) == [error |-> error, platform |-> "none", url |-> [host |-> "", path |-> <<>>, query |-> <<>>]]
Accepted(platform, url) == [error |-> "none", platform |-> platform, url |-> url]
AcceptIf(accepts, platform, url) == IF accepts THEN Accepted(platform, url) ELSE Refused("invalid_url")

HostPlatform(host) ==
    {p \in Platforms : host \in PlatformHosts(p) \cup ShortHosts(p)}

YouTubeProviderUrl(id, query) ==
    [host |-> "www.youtube.com", path |-> <<"watch">>,
     query |-> <<[key |-> "v", value |-> id]>> \o Without(query, "v")]

ClassifyYouTube(u) ==
    IF IsSegments(u.path) /\ YouTubeAccepts(u.host, u.path, u.query)
    THEN Accepted("youtube", YouTubeProviderUrl("id of eleven", u.query))
    ELSE Refused("invalid_url")

ClassifyInstagram(u) ==
    LET path == RemoveTrailingSlash(u.path)
    IN  AcceptIf(IsSegments(path) /\ InstagramAccepts(path), "instagram", [u EXCEPT !.path = path])

\* Links under /share/v/ lose a trailing slash, every shared link loses its
\* tracking field, and /watch/ is taken for /watch.
ClassifyFacebook(u) ==
    LET full == u.host \in FacebookHosts
        sharedVideo == full /\ Len(u.path) >= 3 /\ SubSeq(u.path, 1, 2) = <<"share", "v">>
        path == IF sharedVideo \/ (full /\ u.path = <<"watch", "">>)
                THEN RemoveTrailingSlash(u.path) ELSE u.path
        query == IF full /\ path # <<>> /\ path[1] = "share" THEN Without(u.query, "mibextid") ELSE u.query
    IN  AcceptIf(IsSegments(path) /\ FacebookAccepts(u.host, path, u.query),
                 "facebook", [u EXCEPT !.path = path, !.query = query])

\* An exception of int leaves classification as it is.
ClassifyX(u) ==
    IF IsSegments(u.path) /\ XRaises(u.host, u.path) THEN Refused("value error")
    ELSE AcceptIf(IsSegments(u.path) /\ XAccepts(u.host, u.path), "x", u)

ClassifySubmittedUrl(u) ==
    IF HostPlatform(u.host) = {}
    THEN Refused(IF u.host \in DeceptiveHosts THEN "invalid_url" ELSE "unsupported_platform")
    ELSE LET platform == CHOOSE p \in Platforms : p \in HostPlatform(u.host)
         IN  CASE platform = "youtube" -> ClassifyYouTube(u)
               [] platform = "instagram" -> ClassifyInstagram(u)
               [] platform = "facebook" -> ClassifyFacebook(u)
               [] platform = "tiktok" ->
                    AcceptIf(IsSegments(u.path) /\ TikTokAccepts(u.host, u.path), "tiktok", u)
               [] OTHER -> ClassifyX(u)

-----------------------------------------------------------------------------
(* The canonical URL of the metadata that came back. *)

\* Mutation: no canonical URL keeps a query.
MutCanonicalWithoutQuery(platform, url) ==
    [host |-> IF platform = "x" THEN "x.com" ELSE url.host, path |-> url.path, query |-> <<>>]

\* _canonical_social_provider_url
CanonicalSocialProviderUrl(platform, url) ==
    [host |-> IF platform = "x" THEN "x.com" ELSE url.host,
     path |-> url.path,
     query |-> IF platform = "facebook" /\ url.path \in FacebookQueryPaths THEN Values(url.query) ELSE <<>>]

\* _canonical_social_url: a page of another platform, or a link that was not
\* resolved, is no canonical URL.  execute() makes a metadata failure of an
\* exception.
CanonicalSocialUrl(page, platform) ==
    LET source == ClassifySubmittedUrl(page)
    IN  IF page.host \in ShortHosts(platform) THEN Refused("metadata_retrieval_failed")
        ELSE IF page.host \notin PlatformHosts(platform) THEN Refused("invalid_url")
        ELSE IF source.error = "value error" THEN Refused("metadata_retrieval_failed")
        ELSE IF source.error # "none" THEN Refused("invalid_url")
        ELSE Accepted(platform, CanonicalSocialProviderUrl(platform, source.url))

\* The URL a finished job shows, for the page its metadata names.
CanonicalUrl(source, page) ==
    IF source.platform = "youtube"
    THEN Accepted("youtube", YouTubeProviderUrl("id of eleven", <<>>))
    ELSE CanonicalSocialUrl(page, source.platform)
=============================================================================
