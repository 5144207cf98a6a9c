------------------------------ MODULE MCSystem ------------------------------
(***************************************************************************)
(* Instances of DataDirectory, Catalog, Retrieval, Http, Chunker and        *)
(* MarkdownBlocks for TLC, side by side.  As modelled they share no state,  *)
(* so their interleavings add nothing: a behaviour picks one part and the   *)
(* others stay as they are.                                                 *)
(***************************************************************************)
EXTENDS DataDirectory, Catalog, Retrieval, Http, Chunker, MarkdownBlocks, TLC

VARIABLE part

systemVars == <<part, allVars, catalogVars, retrievalVars, httpVars, chunkerVars, markdownVars>>

Parts == {"directory", "catalog", "mcp", "index", "writers", "http", "chunker", "markdown"}

FirstDocument == CHOOSE d \in Documents : TRUE

SystemInit ==
    /\ part \in Parts
    /\ document \in IF part = "chunker" THEN Documents ELSE {FirstDocument}
    /\ DirInit /\ (part # "directory" => version = HeadVersion /\ config = "edited")
    /\ CatalogInit /\ RetrievalInit /\ HttpInit /\ ChunkerInit /\ MarkdownInit

OneClient == CHOOSE c \in Clients : TRUE
OneWriter == CHOOSE j \in Writers : TRUE

(* A walk over the store list only reads, so with two clients a walk beside  *)
(* another sees what it would see alone.                                     *)
OneWalk == \A c, d \in Clients : command'[c].pc = "page" /\ command'[d].pc = "page" => c = d

(* The ids of sources are only compared for equality: the smaller one is     *)
(* drawn first.                                                              *)
DrawnInTurn == \A i, j \in SourceIds : i < j /\ j \in drawn' => i \in drawn'

(* Embedding requests share neither pacing nor guard with fetches.           *)
EmbeddingApart ==
    \A r, q \in Requests :
        "kind" \in DOMAIN req'[r] /\ req'[r].kind = "embed" => q = r \/ req'[q].pc \in {"unused", "done"}

(* Catalogue commands of all clients, and apart from that MCP sessions       *)
(* beside the store commands of one; readers beside one process's index      *)
(* jobs, and apart from that the jobs of all processes.                      *)
SystemNext ==
    /\ UNCHANGED part
    /\ \/ part = "directory" /\ DirNext /\ UNCHANGED <<catalogVars, retrievalVars, httpVars, chunkerVars, markdownVars>>
       \/ /\ part \in {"catalog", "mcp"}
          /\ \/ part = "catalog" /\ (\E c \in Clients : ClientStep(c)) /\ OneWalk /\ DrawnInTurn
             \/ part = "mcp" /\ (StoreStep(OneClient) \/ McpStep)
             \/ DaemonStarts \/ DaemonDies
          /\ UNCHANGED <<allVars, retrievalVars, httpVars, chunkerVars, markdownVars>>
       \/ /\ \/ part = "index" /\ (JobStep(OneWriter) \/ Reading)
             \/ part = "writers" /\ \E j \in Writers : JobStep(j)
             \/ part \in {"index", "writers"} /\ Removal
          /\ UNCHANGED <<allVars, catalogVars, httpVars, chunkerVars, markdownVars>>
       \/ part = "http" /\ HttpNext /\ EmbeddingApart /\ UNCHANGED <<allVars, catalogVars, retrievalVars, chunkerVars, markdownVars>>
       \/ part = "chunker" /\ ChunkerNext /\ UNCHANGED <<allVars, catalogVars, retrievalVars, httpVars, markdownVars>>
       \/ part = "markdown" /\ MarkdownNext /\ UNCHANGED <<allVars, catalogVars, retrievalVars, httpVars, chunkerVars>>

SystemSpec == SystemInit /\ [][SystemNext]_systemVars

Symmetry == Permutations(Procs) \cup Permutations(Clients) \cup Permutations(Writers)

-----------------------------------------------------------------------------
(* Catalog: 2 is the name of a store and may be the id of another. *)
MCScopes == {<< >>, <<2>>, <<2, 9>>}

(* Retrieval: two stores that hold one URI each way, a document that is      *)
(* rewritten and one that is cut anew.                                       *)
MCVersions ==
    {<<1, 1, 1, 1>>, <<1, 1, 1, 2>>, <<1, 1, 2, 1>>, <<1, 2, 1, 1>>, <<2, 1, 1, 1>>, <<2, 2, 1, 1>>}
MCQueries ==
    {<<"http", << >>, 1, FALSE>>, <<"http", <<2>>, 1, TRUE>>,
     <<"cli", <<2, 1>>, 2, TRUE>>, <<"mcp", <<1, 1>>, 2, FALSE>>}
MCSimilarity(c) == c % 7
MCRelevance(c) == (c \div 1000) % 2

(* Http: a public site, a host with a public and a private address, and a    *)
(* literal private address.                                                  *)
MCHints == {NoHint, 1, 3}
MCAddresses == [site |-> {"public"}, mixed |-> {"public", "private"}, lan |-> {"private"}]
MCAsks ==
    ("r1" :> {<<"any", "site">>, <<"public", "mixed">>, <<"public", "lan">>, <<"embed", "lan">>})
    @@ ("r2" :> {<<"any", "site">>})

(* Chunker: texts from the characters and character widths of their lines,   *)
(* with lines and rows below, at and above the target.                       *)
Laid(spec, gap) ==
    FoldLeft(LAMBDA t, l :
                 LET s == IF t = << >> THEN 0 ELSE t[Len(t)].end + gap
                 IN Append(t, [start |-> s, end |-> s + l[1] * l[2], chars |-> l[1], width |-> l[2]]),
             << >>, spec)
UpTo(S, n) == UNION {[1..k -> S] : k \in 1..n}
MCLine(chars) == <<chars, 1>>
MCBlock(form, lines, parsed, flat) ==
    [kind |-> form, lines |-> lines, header |-> Laid(<<MCLine(1)>>, 0)[1], parsed |-> parsed, flat |-> flat]
MCDocument(preset, turns, blks) == [preset |-> preset, turns |-> turns, blocks |-> blks]
MCTexts == {Laid(t, 0) : t \in UpTo({<<1, 1>>, <<2, 2>>, <<4, 2>>, <<6, 1>>}, 3) \cup {<< <<11, 2>> >>}}
MCRows == {Laid([i \in DOMAIN r |-> MCLine(r[i])], 1) : r \in UpTo({1, 2, 4, 6}, 3) \cup {<< >>}}
MCTurn(chars) == [lines |-> Laid(<<MCLine(chars)>>, 0), flat |-> chars = 7]
MCTurnLengths == UpTo({1, 2, 7}, 4) \cup {<<5>>, <<5, 1>>, <<1, 5, 2>>}
MCDocuments ==
    {MCDocument("code", << >>, <<MCBlock("code", t, FALSE, FALSE)>>) : t \in MCTexts}
    \cup {MCDocument("prose", << >>, <<MCBlock("table", t, TRUE, FALSE)>>) : t \in MCRows}
    \cup {MCDocument("prose", [i \in DOMAIN t |-> MCTurn(t[i])], << >>) : t \in MCTurnLengths}
    \cup {MCDocument(preset, <<MCTurn(1)>>,
             <<MCBlock("text", Laid(<<MCLine(3), MCLine(2)>>, 0), FALSE, flat),
               MCBlock("table", Laid(<<MCLine(3), MCLine(6)>>, 0), FALSE, FALSE),
               MCBlock("reference", Laid(<<MCLine(9)>>, 0), FALSE, FALSE)>>)
             : preset \in {"prose", "code"}, flat \in BOOLEAN}
MCSize(texts) ==
    FoldLeft(LAMBDA n, t : n + (IF "lines" \in DOMAIN t THEN t.lines[1].chars ELSE t.chars), 0, texts)
=============================================================================
