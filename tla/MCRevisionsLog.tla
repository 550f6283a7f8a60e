--------------------------- MODULE MCRevisionsLog ---------------------------
(* Two submitters: the starter of the release, whose first submission is an *)
(* edit, then makes those submissions that are not merged; the other makes  *)
(* edits, which are merged into whatever came in between.                   *)
EXTENDS RevisionsLog

Mixed == [r \in Request |-> IF r = Starter THEN {"exact", "source", "restore"} ELSE {"edit"}]
=============================================================================
