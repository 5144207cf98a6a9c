--------------------------- MODULE MarkdownBlocks ---------------------------
(***************************************************************************)
(* markdown_to_blocks_with_pages (core/src/markdown_blocks.rs): the events  *)
(* of a Markdown parser become the typed blocks of a resource.  One action  *)
(* per event; the parser itself, pulldown_cmark, is external: it opens and  *)
(* closes elements in the order its grammar allows.  Of the tags the code   *)
(* ignores only those are kept that may hold text with no paragraph around  *)
(* it: list items ("tight" ones) and the terms of a definition list.        *)
(*                                                                          *)
(* A piece of text is known by its offset, and offsets count events.  A     *)
(* blank the code puts between pieces is 0: what is empty here is empty     *)
(* there.  The page of a block is a function of its start.  Front matter is *)
(* carved out before all this, as a block of its own, and left out.         *)
(***************************************************************************)
EXTENDS Integers, Sequences, FiniteSets, SequencesExt

CONSTANTS
    Levels,         \* of headings
    MaxElements,    \* of a document, table heads and cells apart
    MaxNesting,     \* of its open elements, likewise
    MaxPieces       \* of text

ASSUME MarkdownAssumption ==
    Levels \subseteq 1..6 /\ MaxElements \in Nat /\ MaxNesting \in Nat /\ MaxPieces \in Nat

VARIABLES
    open,       \* the parser's open elements, outermost first
    offset,     \* of the next event
    seen,       \* history: [elements, pieces, bounds, fragment, ended]
    stack,      \* the converter's open elements
    accum,      \* text_accum and accum_start
    converted   \* the blocks so far

parserVars == <<open, offset, seen>>
markdownVars == <<parserVars, stack, accum, converted>>

NoText == [texts |-> << >>, start |-> 0]

MarkdownInit ==
    /\ open = << >> /\ offset = 1
    /\ seen = [elements |-> 0, pieces |-> {}, bounds |-> {}, fragment |-> 0, ended |-> FALSE]
    /\ stack = << >> /\ accum = NoText
    /\ converted = << >>

-----------------------------------------------------------------------------
(* The parser.  Structural elements are blocks of their own; the others the  *)
(* code knows are running text.                                              *)

Structural == {"heading", "code", "table", "image"}
Handled == Structural \cup {"paragraph", "quote", "list"}
TableParts == {"head", "cell"}

(* Where a kind of element may be. *)
Within ==
    LET flow == {"document", "quote", "tight", "loose"}
        line == {"heading", "paragraph", "cell", "image", "tight", "term"}
    IN  [heading |-> flow, code |-> flow, table |-> flow, quote |-> flow, list |-> flow, term |-> flow,
         html |-> flow, paragraph |-> flow \ {"tight"}, image |-> line, text |-> line \cup {"code"},
         tight |-> {"list"}, loose |-> {"list"}, head |-> {"table"}, row |-> {"table"},
         cell |-> {"head", "row"}]

Inner == IF open = << >> THEN "document" ELSE Last(open).tag
Outermost == IF open = << >> THEN offset ELSE open[1].at
Around(tags) == {open[i].at : i \in {j \in DOMAIN open : open[j].tag \in tags}}
Highest(S) == IF S = {} THEN 0 ELSE CHOOSE x \in S : \A y \in S : y <= x
Piece ==
    [at |-> offset, unit |-> Outermost, home |-> Highest(Around(Structural)),
     adrift |-> \A a \in Around(Handled) : a < seen.fragment]

(* The elements of a table are in order: a head, then rows, a cell in each;  *)
(* a list has an item; its items are all tight or all loose.                 *)
InPlace(tag) ==
    /\ Inner \in Within[tag]
    /\ tag = "head" <=> Inner = "table" /\ Last(open).parts = {}
    /\ tag \in {"tight", "loose"} => Last(open).parts \subseteq {tag}
    /\ tag = "cell" => Last(open).parts = {}
    /\ tag \notin TableParts =>
          seen.elements < MaxElements
          /\ Cardinality({i \in DOMAIN open : open[i].tag \notin TableParts}) < MaxNesting

Starts(tag) ==
    /\ ~seen.ended /\ InPlace(tag)
    /\ offset' = offset + 1
    /\ open' = Append([i \in DOMAIN open |->
                         IF i = Len(open) THEN [open[i] EXCEPT !.parts = @ \cup {tag}] ELSE open[i]],
                      [tag |-> tag, at |-> offset, parts |-> {}])
    /\ seen' = [seen EXCEPT
                  !.elements = IF tag \in TableParts THEN @ ELSE @ + 1,
                  !.bounds = IF tag \in Structural THEN @ \cup {[at |-> offset, unit |-> Outermost]} ELSE @]

Ends(tag) ==
    /\ Inner = tag
    /\ tag \in {"table", "head", "row", "list"} => Last(open).parts # {}
    /\ offset' = offset + 1 /\ open' = Front(open)
    /\ UNCHANGED seen

Says ==
    /\ ~seen.ended /\ Inner \in Within["text"]
    /\ Cardinality(seen.pieces) < MaxPieces
    /\ offset' = offset + 1
    /\ seen' = [seen EXCEPT !.pieces = @ \cup {Piece}]
    /\ UNCHANGED open

-----------------------------------------------------------------------------
(* The converter's helpers: a string is its pieces and blanks. *)

Blank == <<0>>
Joined(strings, gap) ==
    FlattenSeq([k \in DOMAIN strings |-> IF k = 1 THEN strings[k] ELSE gap \o strings[k]])
Trimmed(s) == IF ToSet(s) \subseteq {0} THEN << >> ELSE s

ActiveBlock(form, level) ==
    [kind |-> form, level |-> level, start |-> offset, text |-> << >>,
     lines |-> << >>, row |-> << >>, cell |-> << >>, inHead |-> FALSE]
Pushed(form) == stack' = Append(stack, ActiveBlock(form, 0))
Top == Last(stack)
TopBecomes(b) == stack' = Append(Front(stack), b)

MarkdownBlock(b, s) == [kind |-> b.kind, level |-> b.level, text |-> s, start |-> b.start]

(* push_block! *)
PushBlock(b, s) ==
    converted' = IF s = << >> THEN converted ELSE Append(converted, MarkdownBlock(b, s))

(* Variant: the first contributor of a run gives it its place. *)
AccumPushFirst(acc, s, from) ==
    IF s = << >> THEN acc
    ELSE [texts |-> Append(acc.texts, s), start |-> IF acc.start = 0 THEN from ELSE acc.start]

(* accum_push! *)
AccumPush(acc, s, from) ==
    IF s = << >> THEN acc
    ELSE [texts |-> Append(acc.texts, s),
          start |-> IF acc.start = 0 \/ from < acc.start THEN from ELSE acc.start]

(* flush_text! *)
FlushText ==
    /\ accum' = NoText
    /\ converted' =
          IF accum.texts = << >> THEN converted
          ELSE Append(converted, [kind |-> "text", level |-> 0,
                                  text |-> Joined(accum.texts, Blank), start |-> accum.start])

NoOutput == UNCHANGED <<accum, converted>>

-----------------------------------------------------------------------------
(* Start events *)

StartHeading ==
    /\ Starts("heading")
    /\ FlushText
    /\ \E level \in Levels : stack' = Append(stack, ActiveBlock("heading", level))

StartOfBlock(tag) == Starts(tag) /\ FlushText /\ Pushed(tag)
StartCodeBlock == StartOfBlock("code")
StartTable == StartOfBlock("table")
StartImage == StartOfBlock("image")

StartOfText(tag) == Starts(tag) /\ Pushed(tag) /\ NoOutput
StartParagraph == StartOfText("paragraph")
StartBlockQuote == StartOfText("quote")
StartList == StartOfText("list")

StartTableHead ==
    /\ Starts("head")
    /\ TopBecomes([Top EXCEPT !.inHead = TRUE])
    /\ NoOutput

(* A separator before each item of a list but the first. *)
StartItem ==
    /\ Starts("tight") \/ Starts("loose")
    /\ IF stack # << >> /\ Top.kind = "list" /\ Top.text # << >>
       THEN TopBecomes([Top EXCEPT !.text = Append(@, Blank)])
       ELSE UNCHANGED stack
    /\ NoOutput

StartOther ==
    /\ Starts("term") \/ Starts("row") \/ Starts("cell")
    /\ UNCHANGED stack
    /\ NoOutput

-----------------------------------------------------------------------------
(* End events: an HTML fragment may have emptied the stack before. *)

EndOfBlock(tag) ==
    /\ Ends(tag) /\ stack # << >>
    /\ stack' = Front(stack)
    /\ PushBlock(Top, Joined(Top.text, << >>))
    /\ UNCHANGED accum
EndHeading == EndOfBlock("heading")
EndCodeBlock == EndOfBlock("code")

(* In a quote or a list a paragraph is part of its text. *)
EndParagraph ==
    /\ Ends("paragraph") /\ stack # << >>
    /\ LET said == Joined(Top.text, << >>)
           below == Front(stack)
       IN IF below # << >> /\ Last(below).kind \in {"quote", "list"}
          THEN /\ stack' = Append(Front(below),
                     [Last(below) EXCEPT !.text =
                         (IF @ = << >> THEN @ ELSE Append(@, Blank)) \o <<said>>])
               /\ NoOutput
          ELSE /\ stack' = below
               /\ accum' = AccumPush(accum, said, Top.start)
               /\ UNCHANGED converted

EndOfText(tag) ==
    /\ Ends(tag)
    /\ IF stack = << >> THEN UNCHANGED <<stack, accum>>
       ELSE /\ stack' = Front(stack)
            /\ accum' = AccumPush(accum, Joined(Top.text, Blank), Top.start)
    /\ UNCHANGED converted
EndBlockQuote == EndOfText("quote")
EndList == EndOfText("list")

(* Header and rows are written out again; a table is never empty. *)
EndTable ==
    /\ Ends("table") /\ stack # << >>
    /\ stack' = Front(stack)
    /\ PushBlock(Top, Joined(Top.lines, Blank) \o Blank)
    /\ UNCHANGED accum

EndTableCell ==
    /\ Ends("cell") /\ stack # << >>
    /\ LET cell == Trimmed(Joined(Top.cell, << >>))
       IN TopBecomes(IF Top.inHead THEN [Top EXCEPT !.cell = << >>, !.lines = Append(@, cell)]
                                   ELSE [Top EXCEPT !.cell = << >>, !.row = Append(@, cell)])
    /\ NoOutput

EndTableHead ==
    /\ Ends("head") /\ stack # << >>
    /\ TopBecomes([Top EXCEPT !.inHead = FALSE])
    /\ NoOutput

EndTableRow ==
    /\ Ends("row") /\ stack # << >>
    /\ TopBecomes(IF Top.inHead THEN Top
                  ELSE [Top EXCEPT !.lines = Append(@, Joined(Top.row, Blank)), !.row = << >>])
    /\ NoOutput

(* An image is emitted without an alternative text too. *)
EndImage ==
    /\ Ends("image") /\ stack # << >>
    /\ stack' = Front(stack)
    /\ converted' = Append(converted, MarkdownBlock(Top, Joined(Top.text, << >>)))
    /\ UNCHANGED accum

EndOther ==
    /\ \E tag \in {"tight", "loose", "term"} : Ends(tag)
    /\ UNCHANGED stack
    /\ NoOutput

-----------------------------------------------------------------------------
(* Text goes to the innermost element on the stack; with none it is dropped. *)
Text ==
    /\ Says
    /\ IF stack = << >> THEN UNCHANGED stack
       ELSE TopBecomes(IF Top.kind = "table" THEN [Top EXCEPT !.cell = Append(@, <<offset>>)]
                                             ELSE [Top EXCEPT !.text = Append(@, <<offset>>)])
    /\ NoOutput

(* An HTML fragment joins the run, after what the open elements hold. *)
Html ==
    /\ ~seen.ended /\ Inner \in Within["html"]
    /\ Cardinality(seen.pieces) < MaxPieces
    /\ offset' = offset + 1
    /\ seen' = [seen EXCEPT !.fragment = offset, !.pieces = @ \cup {[Piece EXCEPT !.adrift = FALSE]}]
    /\ stack' = << >>
    /\ LET swept[n \in 0 .. Len(stack)] ==
               IF n = 0 THEN accum
               ELSE LET b == stack[Len(stack) + 1 - n]
                    IN AccumPush(swept[n - 1], Joined(b.text, Blank), b.start)
       IN accum' = AccumPush(swept[Len(stack)], <<offset>>, offset)
    /\ UNCHANGED <<open, converted>>

EndDocument ==
    /\ ~seen.ended /\ open = << >>
    /\ FlushText
    /\ seen' = [seen EXCEPT !.ended = TRUE]
    /\ UNCHANGED <<open, offset, stack>>

-----------------------------------------------------------------------------
(* heading_path_from_blocks: a heading replaces what is at its level or      *)
(* deeper; what lies above the deepest one left is the path.                 *)
heading_path_from_blocks(n) ==
    LET After(path, b) ==
            IF b.kind # "heading" THEN path
            ELSE [l \in 1..6 |-> IF l < b.level THEN path[l] ELSE IF l = b.level THEN b.text ELSE << >>]
        path[m \in 0 .. n - 1] ==
            IF m = 0 THEN [l \in 1..6 |-> << >>] ELSE After(path[m - 1], converted[m])
    IN SubSeq(path[n - 1], 1, Highest({l \in 1..6 : path[n - 1][l] # << >>}))

StartEvent ==
    \/ StartHeading \/ StartCodeBlock \/ StartTable \/ StartImage
    \/ StartParagraph \/ StartBlockQuote \/ StartList
    \/ StartTableHead \/ StartItem \/ StartOther
EndEvent ==
    \/ EndHeading \/ EndCodeBlock \/ EndParagraph \/ EndBlockQuote \/ EndList
    \/ EndTable \/ EndTableCell \/ EndTableHead \/ EndTableRow \/ EndImage \/ EndOther

MarkdownNext == StartEvent \/ EndEvent \/ Text \/ Html \/ EndDocument

MarkdownSpec == MarkdownInit /\ [][MarkdownNext]_markdownVars

-----------------------------------------------------------------------------
BlocksOf(p) == {n \in DOMAIN converted : Contains(converted[n].text, p.at)}
Times(p) ==
    Cardinality(UNION {{<<n, i>> : i \in {j \in DOMAIN converted[n].text : converted[n].text[j] = p.at}}
                       : n \in DOMAIN converted})
BlockOf(p) == CHOOSE n \in BlocksOf(p) : TRUE
Kept == {p \in seen.pieces : BlocksOf(p) # {}}

(* Each piece is in one block once: that of the structural element it is in, *)
(* or else running text.  Lost is only what no element holds that the code   *)
(* knows and no HTML fragment has closed: the terms of a definition list,    *)
(* and the rest of a list item, or of the tight list, after a fragment.      *)
KeptOnce ==
    \A p \in seen.pieces :
        /\ Times(p) = 1 \/ (p.adrift /\ Times(p) = 0)
        /\ p \in Kept =>
              LET b == converted[BlockOf(p)]
              IN IF p.home = 0 THEN b.kind = "text" ELSE b.kind \in Structural /\ b.start = p.home

(* "A Text block is the run of consecutive running-text content between      *)
(* structural boundaries": what no structural element comes between is in    *)
(* one block, in what order the elements were; what one comes between is in  *)
(* two.  (Only so between elements that stand side by side: a list, a quote  *)
(* or a paragraph is one text, after the code or the images in it.)          *)
RunsWhole ==
    \A p, q \in {k \in Kept : k.home = 0} :
        /\ /\ p.at < q.at
           /\ \A b \in seen.bounds : b.at < p.unit \/ (b.at > q.at /\ b.unit # q.unit)
           => BlockOf(p) = BlockOf(q)
        /\ /\ p.at < q.at
           /\ \E b \in seen.bounds : p.at < b.at /\ b.at < q.at /\ b.unit \notin {p.unit, q.unit}
           => BlockOf(p) < BlockOf(q)

(* "A block's page is the page containing its first contributing byte": a    *)
(* run starts no later than its first piece and no earlier than the          *)
(* outermost element that piece is in, also where a nested element came to   *)
(* the run before the one around it.  (A contributor may be blank: a quote   *)
(* of two images leaves the separator of its paragraphs.)                    *)
StartsHold ==
    \A p \in Kept :
        LET b == converted[BlockOf(p)]
        IN (\A x \in ToSet(b.text) : p.at <= x \/ x = 0) /\ Head(b.text) # 0
              => p.unit <= b.start /\ b.start <= p.at

(* The headings that hold at a block are those with none at their level or   *)
(* above since, and stand at their levels.                                   *)
PathsHold ==
    \A n \in 1..Len(converted) + 1 :
        LET path == heading_path_from_blocks(n)
            Above(l) == {m \in 1..n - 1 : converted[m].kind = "heading" /\ converted[m].level <= l}
            Stands(l) == Above(l) # {} /\ converted[Highest(Above(l))].level = l
        IN  /\ \A l \in 1..6 : Stands(l) => l \in DOMAIN path /\ path[l] = converted[Highest(Above(l))].text
            /\ \A l \in DOMAIN path : path[l] # << >> => Stands(l)

(* The blocks of a document are faithful to it. *)
BlocksFaithful == seen.ended => KeptOnce /\ RunsWhole /\ StartsHold /\ PathsHold
=============================================================================
