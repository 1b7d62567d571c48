------------------------------ MODULE MCResearch ------------------------------
(* Research for TLC: two calls of one execution; a key for one provider, or for both. *)
EXTENDS Research

CONSTANTS c1, c2, turn, metaso, anspire, page, pageQuery, other, intranet

MCExecution == [x \in {c1, c2} |-> turn]
MCOrder == <<metaso, anspire>>
MCKeyed == (metaso :> TRUE) @@ (anspire :> FALSE)
MCBothKeyed == (metaso :> TRUE) @@ (anspire :> TRUE)
MCCanonical == [u \in {page, pageQuery, other, intranet} |-> IF u = pageQuery THEN page ELSE u]

One(u, sn, su) == [url |-> u, snippet |-> sn, summary |-> su]
MCAnswers == {<<>>,
              <<One(page, "none", "text"), One(pageQuery, "text", "command"), One(intranet, "text", "none")>>,
              <<One(pageQuery, "command", "none"), One(other, "text", "none")>>}
MCReferences == {{page, other}}
==============================================================================
