--------------------------- MODULE MCFeedPipeline ---------------------------
(* An item published and then changed.  Both versions name c, and a group  *)
(* whose name is also that of a malware family; the first names technique  *)
(* t as well.  The summaries only name c.                                  *)
EXTENDS FeedPipeline

CONSTANTS c, t, actor, malware

KeyDef == [n \in {actor, malware} |-> "apt"]
NamedDef ==
    [text \in Texts |->
        {c} \cup (IF text.of = "summary" THEN {}
                  ELSE IF text.version = 1 THEN {t, actor} ELSE {malware})]
=============================================================================
