----------------------------- MODULE MCIngestion -----------------------------
(* Small stores for TLC. *)
EXTENDS Ingestion

(* One path source with two files, a url source and their URIs. *)
PathAndUrlKind == [notes |-> "path", site |-> "url"]
PathAndUrlScope == [notes |-> {"a.md", "b.md"}, site |-> {"http"}]

(* One feed whose window shows up to two entries. *)
FeedKind == [blog |-> "feed"]
FeedScope == [blog |-> {"p1", "p2"}]
=============================================================================
