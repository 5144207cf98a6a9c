--------------------------- MODULE MCIndexCommand ---------------------------
(* Instances of IndexCommand for TLC. *)
EXTENDS IndexCommand

CONSTANTS s1, s2, c1

MCJobs == 1..2
MCStores == {s1, s2}
MCClients == {c1}
(* One store beside the jobs of others; two on a queue of its own. *)
MCScopes == [daemon |-> {{s1}}, embedded |-> {{s1, s2}}]
=============================================================================
