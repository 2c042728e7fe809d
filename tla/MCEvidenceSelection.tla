------------------------ MODULE MCEvidenceSelection ------------------------
(* A source file of up to three lines, a file at the top, documentation,   *)
(* and a link to a file that is elsewhere.                                 *)
EXTENDS EvidenceSelection, TLC

CONSTANTS source, top, docs, link, t1, t2, t3

MCAttributes ==
    LET plain == [parts |-> {}, top |-> "other", priority |-> 0, suffix |-> "py",
                  named |-> {}, hint |-> FALSE, large |-> FALSE, outside |-> FALSE]
    IN (source :> [plain EXCEPT !.priority = 1, !.named = {t2}]) @@
       (top :> plain) @@
       (docs :> [plain EXCEPT !.parts = {"docs"}, !.top = "docs", !.suffix = "md"]) @@
       (link :> [plain EXCEPT !.outside = TRUE])
MCWalkOrder == (top :> 1) @@ (docs :> 2) @@ (source :> 3) @@ (link :> 4)
SourceLines == {{}, {t1, "def"}, {t1, t2, "hint"}, {t2, "feed"}}
MCTexts ==
    {(source :> a) @@ (top :> b[1]) @@ (docs :> <<{t1}>>) @@ (link :> b[2]) :
        a \in {<<>>} \cup {<<k, l, m>> : k, l, m \in SourceLines},
        b \in {<<<<>>, <<>>>>, <<<<{t1}>>, <<{t1}>>>>,
               <<<<{t1, t2, "hint"}>>, <<>>>>}}
MCFallbackTerms == <<t1>>
MCPlannedTerms == {<<t2>>, <<t1, t3>>}
MCPlannedPaths == {{docs}}
MCLimits == {1, 2, -1}
=============================================================================
