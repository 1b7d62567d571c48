------------------------------ MODULE MCHotspots ------------------------------
(* Hotspots for TLC: a feed with two endpoints, two platforms of TikHub, AI HOT. *)
EXTENDS Hotspots, TLC

CONSTANTS c1, c2, feed, weibo, douyin, aihot, a, b, c, d

MCPlatforms == {feed, weibo, douyin, aihot}
MCGroup == (feed :> "rss") @@ (weibo :> "tikhub") @@ (douyin :> "tikhub") @@ (aihot :> "aihot")
MCEndpoints == (feed :> 2) @@ (weibo :> 1) @@ (douyin :> 1) @@ (aihot :> 1)

\* Two topics whose links differ only in their query, and two without links.
MCTopics == {a, b, c, d}
MCUrl == (a :> "page") @@ (b :> "page") @@ (c :> None) @@ (d :> None)
MCSearchPage ==
    [p \in {feed, aihot} |-> [t \in MCTopics |-> None]]
    @@ (weibo :> [t \in MCTopics |-> "search"])
    @@ (douyin :> (a :> "a" @@ b :> "b" @@ c :> "c" @@ d :> "d"))
MCAnswers == {<<>>, <<a, c>>, <<b, d>>}
\* Of title c there may be two candidates; an id may be named twice, or made up.
MCSelections == {<< <<"url", "c">>, <<"url", "page">>, <<"url", "search">>, <<"url", "c">> >>,
                 << None, <<"title", d>>, <<"title", c>> >>}

\* Sources in any order, and one twice.
MCAsks == {<<aihot, douyin, feed>>, <<douyin>>, <<douyin, weibo, douyin>>, <<aihot, None>>}
MCAllowed == (c1 :> {feed, weibo, douyin, aihot}) @@ (c2 :> {douyin})
MCKeyed == (c1 :> TRUE) @@ (c2 :> TRUE)
==============================================================================
