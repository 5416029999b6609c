---------------------------- MODULE MCSourceWork ----------------------------
(* URLs of every accepted shape and their near misses, a page of every kind *)
(* of canonical URL, transcripts for each step of the normalisation.        *)
EXTENDS SourceWork

Field(key, value) == [key |-> key, value |-> value]
U(host, path, query) == [host |-> host, path |-> path, query |-> query]

Queries ==
    {<<>>, <<Field("v", "id of eleven")>>, <<Field("v", "12")>>, <<Field("V", "12")>>,
     <<Field("v", "12"), Field("v", "12")>>, <<Field("mibextid", "n"), Field("v", "12")>>,
     <<Field("list", "n"), Field("v", "id of eleven")>>}

\* Paths of the accepted shapes.
Shapes ==
    {<<"watch">>, <<"id of eleven">>, <<"shorts", "id of eleven">>, <<"reel", "12">>,
     <<"p", "name">>, <<"video.php">>, <<"video", "video.php">>, <<"share", "v", "name">>,
     <<"share", "name", "n-m", "name">>, <<"na.me", "videos", "pfbid0">>,
     <<"name", "n-m", "videos", "12">>, <<"name", "posts", "12">>, <<"t", "name">>,
     <<"embed", "12">>, <<"@name", "video", "12">>, <<"name", "status", "12">>,
     <<"i", "web", "status", "12">>, <<"statuses", "12">>, <<"name", "status", "12", "video", "12">>}

\* Other digits where a number may stand.
DigitShapes ==
    {[<<"name", "status", "12", "video", "12">> EXCEPT ![i] = digit] : i \in {3, 5}, digit \in OtherDigits}

Tokens == {"", "n!", "@n!", "n-m", "0", "12", "video", "id of eleven!"}

\* One segment replaced, dropped from the end or added to it.
Variants(path) ==
    {path, Append(path, ""), Append(path, "12"), SubSeq(path, 1, Len(path) - 1)}
        \cup {[path EXCEPT ![i] = t] : i \in 1 .. Len(path), t \in Tokens}

MCHosts ==
    {"youtube.com", "youtu.be", "www.instagram.com", "m.facebook.com", "fb.watch", "www.tiktok.com",
     "vm.tiktok.com", "mobile.twitter.com", "x.com", "t.co", "youtube.com.example", "example.com"}

MCSubmissions ==
    {U(host, path, query) : host \in MCHosts, query \in Queries,
                            path \in DigitShapes \cup UNION {Variants(s) : s \in Shapes}}

MCPages ==
    {U("instagram.com", <<"reel", "name", "">>, <<Field("list", "n")>>),
     U("www.facebook.com", <<"watch", "">>, <<Field("list", "n"), Field("v", "12")>>),
     U("www.tiktok.com", <<"@name", "video", "12">>, <<>>),
     U("twitter.com", <<"name", "status", "12", "video", "12">>, <<Field("list", "n")>>),
     U("x.com", <<"name", "status", "12", "video", "superscript two">>, <<>>),
     U("vt.tiktok.com", <<"name">>, <<>>), U("example.com", <<"name">>, <<>>)}

Segment(start, end, text) == [start |-> start, end |-> end, text |-> text]

\* Silent; plain; to be collapsed and sorted with a tie; not all in order;
\* too early.  Few, as TLC evaluates the fairness condition of a state
\* again for every successor.
MCRawTranscripts ==
    {<<Segment(0, 0, <<" ">>)>>, <<Segment(0, 0, <<"a">>)>>,
     <<Segment(1, 1, <<" ", "a">>), Segment(0, 1, <<"b", " ", "c">>),
       Segment(0, 1, <<"a">>)>>,
     <<Segment(0, 1, <<"a">>), Segment(1, 0, <<"a">>)>>,
     <<Segment(-1, 0, <<"a">>)>>}

\* Selected is the library's filter.
Letters == UNION {[1 .. n -> {" ", "a", "b"}] : n \in 0 .. 5}
ASSUME SelectedAssumption ==
    \A list \in Letters : CollapseWhitespace(list) = SelectSeq(list, LAMBDA word : word # Blank)

\* None, one of a group, one of each, and all but one of each.
MCExclusions ==
    {{}, {"segments"}, {"text", "title"},
     (SourceFields \ {"url"}) \cup (TranscriptFields \ {"text"})}
=============================================================================
