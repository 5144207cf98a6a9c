---------------------------- MODULE ChunkerProofs ----------------------------
(***************************************************************************)
(* Proofs about Chunker, for every document, target and sizer: no text is  *)
(* lost, or held twice but by design, and what the chunkers put together   *)
(* fits the target.                                                        *)
(***************************************************************************)
EXTENDS Chunker, TLAPS

Forms == {"window", "slice", "prose", "header", "whole", "rows"}
Ids == {"turn", "block"} \X Nat
ChunkRecs ==
    [kind : Forms, blocks : SUBSET Ids, from : Nat, to : Nat, first : Nat, last : Nat]

ChunkerTypes ==
    /\ document \in Documents
    /\ routine \in {"turns", "blocks", "code", "split", "prose", "table", "done"}
    /\ caller \in {"turns", "blocks", "table"}
    /\ upcoming \in Nat \ {0}
    /\ shrunk \in Nat
    /\ of \in Ids
    /\ text \in Seq(Lines)
    /\ line \in Nat /\ start \in Nat /\ end \in Nat /\ pos \in Nat
    /\ row \in Nat /\ pending \in Nat
    /\ out \in Seq(ChunkRecs)

Called == routine \in {"code", "split", "prose"}
Turning == routine = "turns" \/ (Called /\ caller = "turns")
Cutting == Called \/ routine = "table"
InTable == routine = "table" \/ (Called /\ caller = "table")

(* Which block is being cut, and where its loops are. *)
Position ==
    /\ Cutting /\ Turning => of[1] = "turn" /\ of[2] \in 1..Turns /\ of[2] < upcoming
    /\ Cutting /\ ~Turning => of[1] = "block" /\ of[2] = upcoming - 1 /\ of[2] \in 1..Len(document.blocks)
    /\ ~Turning => upcoming <= Len(document.blocks) + 1
    /\ routine = "done" => upcoming = Len(document.blocks) + 1
    /\ shrunk # 0 => routine = "turns" /\ upcoming <= Turns /\ shrunk \in upcoming + 1..WindowEnd - 1
    /\ InTable => /\ Table.kind = "table" /\ Table.lines # << >>
                  /\ row \in 1..Len(Table.lines) + 1 /\ pending \in 1..row
    /\ Called /\ caller = "table" =>
          routine # "prose" /\ pending = row /\ row > 1 /\ text = <<Table.lines[row - 1]>>
    /\ Called /\ caller # "table" => text = LinesOf(of)
    /\ Called => IsText(text) /\ Contiguous(text)
    /\ routine = "code" => /\ line \in 1..Len(text) + 1
                           /\ end = (IF line = 1 THEN text[1].start ELSE text[line - 1].end)
                           /\ text[1].start <= start /\ start <= end
    /\ routine = "split" => /\ line \in 1..Len(text)
                            /\ text[line].start <= pos /\ pos <= text[line].end
    /\ routine = "prose" => text[1].start <= pos /\ pos <= EndOf(text)

(* How far the block being cut has been put into chunks. *)
Frontier ==
    IF routine = "code" THEN start
    ELSE IF routine \in {"split", "prose"} THEN pos
    ELSE IF pending <= Len(Table.lines) THEN Table.lines[pending].start
    ELSE EndOf(Table.lines)

Held(b, x) == \E n \in 1..Len(out) : Holds(out[n], b, x)
Whole(b) == \A x \in Nat : InText(b, x) => Held(b, x)

(* The turns and blocks that are done with. *)
Past(b) ==
    /\ b \in BlockIds
    /\ ~(Cutting /\ b = of)
    /\ IF b[1] = "turn" THEN Turning => b[2] < upcoming ELSE ~Turning /\ b[2] < upcoming

Coverage ==
    /\ \A b \in Ids : Past(b) => Whole(b)
    /\ Cutting => \A x \in Nat : InText(of, x) /\ x < Frontier => Held(of, x)

Order ==
    /\ \A m, n \in 1..Len(out) :
          /\ m < n
          /\ out[m].kind \notin {"window", "prose"} /\ out[n].kind \notin {"window", "prose"}
          /\ out[m].blocks = out[n].blocks
          => out[m].to <= out[n].from
    /\ Cutting =>
          \A n \in 1..Len(out) : out[n].kind # "window" /\ out[n].blocks = {of} => out[n].to <= Frontier

(* What chunks there are: none yet of a block that is still to come. *)
Begun(c) ==
    \/ \A b \in c.blocks : b[1] = "turn" /\ (c.kind # "window" /\ Turning => b[2] < upcoming)
    \/ \E i \in Nat : c.blocks = {<<"block", i>>} /\ ~Turning /\ i < upcoming
Extent == \A n \in 1..Len(out) : Begun(out[n])

Fit ==
    /\ ChunksFit
    /\ routine = "code" =>
          \/ end - start <= Target
          \/ line > 1 /\ start = text[line - 1].start /\ text[line - 1].chars <= Target
    /\ routine = "table" /\ pending < row => Size(RowsText(Table, pending, row - 1)) <= Target

ChunkerInvariant == ChunkerTypes /\ Position /\ Coverage /\ Order /\ Extent /\ Fit

-----------------------------------------------------------------------------
(* Facts about the data. *)

(* What IsDocument says of the document at hand. *)
LEMMA DocumentFacts ==
    ASSUME document \in Documents
    PROVE  /\ IsDocument(document)
           /\ Turns \in Nat /\ Len(document.blocks) \in Nat
           /\ \A i \in 1..Turns : /\ document.turns[i] \in TurnBlocks
                                  /\ IsText(document.turns[i].lines)
                                  /\ Contiguous(document.turns[i].lines)
           /\ \A i \in 1..Len(document.blocks) :
                  /\ document.blocks[i] \in OtherBlocks
                  /\ IsText(document.blocks[i].lines)
                  /\ \/ document.blocks[i].kind = "table" /\ document.blocks[i].parsed
                     \/ Contiguous(document.blocks[i].lines)
<1>1. IsDocument(document)
  BY ChunkerAssumption
<1>2. document.turns \in Seq(TurnBlocks) /\ document.blocks \in Seq(OtherBlocks)
  BY <1>1 DEF IsDocument
<1> QED
  BY <1>1, <1>2 DEF IsDocument, Turns

(* A text is a sequence of lines that are not empty and follow one another. *)
LEMMA TextFacts ==
    ASSUME NEW t, IsText(t)
    PROVE  /\ Len(t) \in Nat
           /\ \A i \in 1..Len(t) : /\ t[i] \in Lines
                                  /\ t[i].start \in Nat /\ t[i].end \in Nat
                                  /\ t[i].chars \in Nat \ {0} /\ t[i].width \in Nat \ {0}
                                  /\ t[i].end = t[i].start + t[i].chars * t[i].width
                                  /\ t[i].start < t[i].end
           /\ \A i, j \in 1..Len(t) : i < j => t[i].end <= t[j].start
<1>1. t \in Seq(Lines)
  BY DEF IsText
<1>2. ASSUME NEW i \in 1..Len(t)
      PROVE  /\ t[i] \in Lines
             /\ t[i].start \in Nat /\ t[i].end \in Nat
             /\ t[i].chars \in Nat \ {0} /\ t[i].width \in Nat \ {0}
             /\ t[i].end = t[i].start + t[i].chars * t[i].width
  <2>1. t[i] \in Lines
    BY <1>1
  <2>2. t[i].end = t[i].start + t[i].chars * t[i].width
    BY DEF IsText
  <2> QED
    BY <2>1, <2>2 DEF Lines
<1>3. ASSUME NEW a \in Nat \ {0}, NEW b \in Nat \ {0} PROVE a * b > 0
  OBVIOUS
<1>4. ASSUME NEW i \in 1..Len(t) PROVE t[i].start < t[i].end
  <2>1. t[i].chars * t[i].width > 0
    BY <1>2, <1>3
  <2>2. t[i].chars * t[i].width \in Int
    BY <1>2
  <2> QED
    BY <1>2, <2>1, <2>2
<1> QED
  BY <1>1, <1>2, <1>4 DEF IsText

LEMMA TextEnds ==
    ASSUME NEW t, IsText(t), Len(t) \in Nat \ {0}
    PROVE  /\ t[1].start \in Nat /\ EndOf(t) \in Nat /\ t[1].start <= EndOf(t)
           /\ \A i \in 1..Len(t) : t[1].start <= t[i].start /\ t[i].end <= EndOf(t)
<1>1. /\ \A i \in 1..Len(t) : t[i].start \in Nat /\ t[i].end \in Nat /\ t[i].start < t[i].end
      /\ \A i, j \in 1..Len(t) : i < j => t[i].end <= t[j].start
  BY TextFacts
<1>2. 1 \in 1..Len(t) /\ Len(t) \in 1..Len(t)
  OBVIOUS
<1>3. ASSUME NEW i \in 1..Len(t) PROVE t[1].start <= t[i].start /\ t[i].end <= t[Len(t)].end
  <2>1. t[1].start <= t[i].start
    <3>1. CASE i = 1
      BY <1>1, <3>1
    <3>2. CASE 1 < i
      BY <1>1, <1>2, <3>2
    <3> QED
      BY <3>1, <3>2
  <2>2. t[i].end <= t[Len(t)].end
    <3>1. CASE i = Len(t)
      BY <1>1, <3>1
    <3>2. CASE i < Len(t)
      BY <1>1, <1>2, <3>2
    <3> QED
      BY <3>1, <3>2
  <2> QED
    BY <2>1, <2>2
<1>4. t[1].start <= t[Len(t)].end
  BY <1>1, <1>2, <1>3
<1> QED
  BY <1>1, <1>2, <1>3, <1>4 DEF EndOf

(* A chunk that is added changes none that is there. *)
LEMMA Appending ==
    ASSUME out \in Seq(ChunkRecs), NEW c \in ChunkRecs, out' = Append(out, c)
    PROVE  /\ out' \in Seq(ChunkRecs)
           /\ Len(out) \in Nat /\ Len(out') = Len(out) + 1
           /\ out'[Len(out) + 1] = c
           /\ \A n \in 1..Len(out) : out'[n] = out[n] /\ out[n] \in ChunkRecs
  OBVIOUS

(* flush_range emits the slice from start to end, or nothing when there is none. *)
LEMMA FlushFacts ==
    ASSUME ChunkerTypes, FlushRange
    PROVE  \/ end > start /\ \E c \in ChunkRecs :
                  /\ out' = Append(out, c)
                  /\ c.kind = "slice" /\ c.blocks = {of}
                  /\ c.from = start /\ c.to = end
           \/ ~(end > start) /\ out' = out
<1>1. CASE end > start
  <2> DEFINE c == Chunk("slice", {of}, <<start, end>>, <<0, 0>>)
  <2>1. out' = Append(out, c)
    BY <1>1 DEF FlushRange, Emit, NoItems
  <2>2. "slice" \in Forms /\ {of} \in SUBSET Ids
    BY DEF ChunkerTypes, Forms
  <2>3. /\ c \in ChunkRecs /\ c.kind = "slice" /\ c.blocks = {of}
        /\ c.from = start /\ c.to = end
    BY <2>2 DEF ChunkerTypes, Chunk, ChunkRecs
  <2> QED
    BY <1>1, <2>1, <2>3
<1>2. CASE ~(end > start)
  BY <1>2 DEF FlushRange, EmitNothing
<1> QED
  BY <1>1, <1>2

(* The table being cut, while chunk_table runs. *)
LEMMA TableFacts ==
    ASSUME ChunkerTypes, Position, InTable
    PROVE  /\ of = <<"block", upcoming - 1>> /\ upcoming - 1 \in 1..Len(document.blocks)
           /\ LinesOf(of) = Table.lines /\ IsText(Table.lines) /\ Len(Table.lines) \in Nat \ {0}
           /\ row \in 1..Len(Table.lines) + 1 /\ pending \in 1..row
<1>1. ~Turning /\ Cutting
  BY DEF InTable, Turning, Cutting, Called
<1>2. of[1] = "block" /\ of[2] = upcoming - 1 /\ of[2] \in 1..Len(document.blocks)
  BY <1>1 DEF Position
<1>3. of = <<of[1], of[2]>>
  BY DEF ChunkerTypes, Ids
<1>4. LinesOf(of) = Table.lines
  BY <1>2 DEF LinesOf, Table
<1>5. IsText(Table.lines)
  BY <1>2, DocumentFacts DEF ChunkerTypes, Table
<1>6. Table.lines # << >> /\ row \in 1..Len(Table.lines) + 1 /\ pending \in 1..row
  BY DEF Position
<1>7. Len(Table.lines) \in Nat \ {0}
  BY <1>5, <1>6 DEF IsText
<1> QED
  BY <1>2, <1>3, <1>4, <1>5, <1>6, <1>7

(* flush_table_batch emits the pending rows, or nothing when there are none. *)
LEMMA BatchFacts ==
    ASSUME ChunkerTypes, Position, routine = "table", FlushTableBatch
    PROVE  \/ pending < row /\ \E c \in ChunkRecs :
                  /\ out' = Append(out, c)
                  /\ c.kind = "rows" /\ c.blocks = {of}
                  /\ c.from = Table.lines[pending].start /\ c.to = Table.lines[row - 1].end
                  /\ c.first = pending /\ c.last = row - 1
           \/ ~(pending < row) /\ out' = out
<1>0. InTable
  BY DEF InTable
<1>1. CASE pending < row
  <2> DEFINE a == Table.lines[pending].start
             b == Table.lines[row - 1].end
             c == Chunk("rows", {of}, <<a, b>>, <<pending, row - 1>>)
  <2>1. out' = Append(out, c)
    BY <1>1 DEF FlushTableBatch, Emit, PendingChunk
  <2>2. "rows" \in Forms /\ {of} \in SUBSET Ids
    BY DEF ChunkerTypes, Forms
  <2>3. pending \in 1..Len(Table.lines) /\ row - 1 \in 1..Len(Table.lines) /\ row - 1 \in Nat
    BY <1>0, <1>1, TableFacts
  <2>4. a \in Nat /\ b \in Nat
    BY <1>0, <2>3, TableFacts, TextFacts
  <2> HIDE DEF a, b
  <2>5. /\ c \in ChunkRecs /\ c.kind = "rows" /\ c.blocks = {of}
        /\ c.from = a /\ c.to = b /\ c.first = pending /\ c.last = row - 1
    BY <2>2, <2>3, <2>4 DEF ChunkerTypes, Chunk, ChunkRecs
  <2> HIDE DEF c
  <2> QED
    BY <1>1, <2>1, <2>5 DEF a, b
<1>2. CASE ~(pending < row)
  BY <1>2 DEF FlushTableBatch, EmitNothing
<1> QED
  BY <1>1, <1>2

-----------------------------------------------------------------------------
(* Types and positions. *)

(* The actions by what they do with the text of a block. *)
Starts ==
    \/ OversizedTurn \/ CodeBlock \/ ProseBlock \/ MalformedTable \/ TableBlock
(* A prose piece begins in the text, and leaves no gap after the last one. *)
LEMMA ProseStart ==
    ASSUME ChunkerTypes, Position, routine = "prose", NEW from \in ProseStarts
    PROVE  from \in Nat /\ text[1].start <= from /\ from <= pos
<1>1. IsText(text) /\ Contiguous(text) /\ text[1].start <= pos /\ pos \in Nat
  BY DEF Position, Called, ChunkerTypes
<1>2. text[1].start \in Nat
  BY <1>1, TextEnds DEF Contiguous, IsText
<1>3. from \in text[1].start..pos \/ from = pos
  BY DEF ProseStarts
<1> QED
  BY <1>1, <1>2, <1>3

Cuts == chunk_code \/ chunk_prose \/ chunk_table

LEMMA CallTypes ==
    ASSUME NEW t \in Seq(Lines), IsText(t), Contiguous(t),
           NEW flat \in BOOLEAN, NEW back \in {"turns", "blocks", "table"},
           ChunkerTypes, ChunkCode(t, back) \/ ChunkProse(t, flat, back)
    PROVE  /\ routine' \in {"code", "prose"} /\ caller' = back /\ text' = t
           /\ Len(t) \in Nat \ {0} /\ t[1].start \in Nat
           /\ routine' = "code" => line' = 1 /\ start' = t[1].start /\ end' = t[1].start
           /\ routine' = "prose" => pos' = t[1].start
           /\ line' \in Nat /\ start' \in Nat /\ end' \in Nat /\ pos' \in Nat
           /\ ChunkCode(t, back) => routine' = "code"
<1>1. Len(t) \in Nat \ {0} /\ t[1].start \in Nat
  <2>1. Len(t) \in Nat \ {0}
    BY DEF Contiguous
  <2> QED
    BY <2>1, TextFacts
<1>2. CASE ChunkCode(t, back)
  BY <1>1, <1>2 DEF ChunkCode, ChunkerTypes
<1>3. CASE ChunkProse(t, flat, back) /\ ~flat
  BY <1>1, <1>3 DEF ChunkProse, ChunkCode, ChunkerTypes
<1>4. CASE ChunkProse(t, flat, back) /\ flat
  BY <1>1, <1>2, <1>4 DEF ChunkProse
<1> QED
  BY <1>2, <1>3, <1>4

(* A text that chunk_blocks or chunk_messages hands to chunk_code or chunk_prose. *)
LEMMA StartText ==
    ASSUME ChunkerTypes
    PROVE  /\ upcoming <= Turns =>
                 LET b == document.turns[upcoming] IN
                 b.lines \in Seq(Lines) /\ IsText(b.lines) /\ Contiguous(b.lines) /\ b.flat \in BOOLEAN
           /\ upcoming <= Len(document.blocks) =>
                 /\ Block.lines \in Seq(Lines) /\ IsText(Block.lines) /\ Block.flat \in BOOLEAN
                 /\ ~(Block.kind = "table" /\ Block.parsed) => Contiguous(Block.lines)
<1>1. ASSUME upcoming <= Turns
      PROVE  LET b == document.turns[upcoming] IN
             b.lines \in Seq(Lines) /\ IsText(b.lines) /\ Contiguous(b.lines) /\ b.flat \in BOOLEAN
  <2>1. upcoming \in 1..Turns
    BY <1>1, DocumentFacts DEF ChunkerTypes
  <2> QED
    BY <2>1, DocumentFacts DEF ChunkerTypes, TurnBlocks
<1>2. ASSUME upcoming <= Len(document.blocks)
      PROVE  /\ Block.lines \in Seq(Lines) /\ IsText(Block.lines) /\ Block.flat \in BOOLEAN
             /\ ~(Block.kind = "table" /\ Block.parsed) => Contiguous(Block.lines)
  <2>1. upcoming \in 1..Len(document.blocks)
    BY <1>2, DocumentFacts DEF ChunkerTypes
  <2> QED
    BY <2>1, DocumentFacts DEF ChunkerTypes, OtherBlocks, Block
<1> QED
  BY <1>1, <1>2

(* What the five actions that begin to cut a block have in common. *)
LEMMA StartFacts ==
    ASSUME ChunkerTypes, Position, Starts
    PROVE  /\ document' = document /\ out' = out
           /\ \/ /\ OversizedTurn /\ routine = "turns" /\ upcoming <= Turns
                 /\ of' = <<"turn", upcoming>> /\ UNCHANGED tableVars
                 /\ routine' \in {"code", "prose"} /\ caller' = "turns"
                 /\ text' = document.turns[upcoming].lines
              \/ /\ ~OversizedTurn /\ routine = "blocks" /\ upcoming <= Len(document.blocks)
                 /\ upcoming' = upcoming + 1 /\ shrunk' = shrunk
                 /\ of' = <<"block", upcoming>>
                 /\ \/ /\ routine' \in {"code", "prose"} /\ caller' = "blocks"
                       /\ text' = Block.lines /\ UNCHANGED tableVars
                    \/ /\ TableBlock /\ routine' = "table" /\ row' = 1 /\ pending' = 1
                       /\ Block.kind = "table" /\ Block.lines # << >>
                       /\ UNCHANGED <<caller, text, line, start, end, pos>>
           /\ routine' # "table" =>
                 /\ text' \in Seq(Lines) /\ IsText(text') /\ Contiguous(text')
                 /\ Len(text') \in Nat \ {0} /\ text'[1].start \in Nat
                 /\ routine' = "code" => line' = 1 /\ start' = text'[1].start /\ end' = text'[1].start
                 /\ routine' = "prose" => pos' = text'[1].start
                 /\ line' \in Nat /\ start' \in Nat /\ end' \in Nat /\ pos' \in Nat
<1>1. CASE OversizedTurn
  <2> DEFINE b == document.turns[upcoming]
  <2>1. /\ routine = "turns" /\ upcoming <= Turns
        /\ of' = <<"turn", upcoming>> /\ ChunkProse(b.lines, b.flat, "turns")
        /\ document' = document /\ out' = out /\ UNCHANGED tableVars
    BY <1>1 DEF OversizedTurn, EmitNothing
  <2>2. b.lines \in Seq(Lines) /\ IsText(b.lines) /\ Contiguous(b.lines) /\ b.flat \in BOOLEAN
    BY <2>1, StartText
  <2> HIDE DEF b
  <2>3. /\ routine' \in {"code", "prose"} /\ caller' = "turns" /\ text' = b.lines
        /\ Len(b.lines) \in Nat \ {0} /\ b.lines[1].start \in Nat
        /\ routine' = "code" => line' = 1 /\ start' = b.lines[1].start /\ end' = b.lines[1].start
        /\ routine' = "prose" => pos' = b.lines[1].start
        /\ line' \in Nat /\ start' \in Nat /\ end' \in Nat /\ pos' \in Nat
    BY <2>1, <2>2, CallTypes
  <2> QED
    BY <1>1, <2>1, <2>2, <2>3 DEF b
<1>2. CASE TableBlock
  BY <1>2 DEF TableBlock, BeginBlock, Block, Format, cursors, OversizedTurn
<1>3. CASE CodeBlock \/ ProseBlock \/ MalformedTable
  <2>1. /\ routine = "blocks" /\ upcoming <= Len(document.blocks)
        /\ upcoming' = upcoming + 1 /\ shrunk' = shrunk /\ of' = <<"block", upcoming>>
        /\ document' = document /\ out' = out /\ UNCHANGED tableVars
        /\ ChunkCode(Block.lines, "blocks") \/ ChunkProse(Block.lines, Block.flat, "blocks")
    BY <1>3 DEF CodeBlock, ProseBlock, MalformedTable, BeginBlock
  <2>2. ~(Block.kind = "table" /\ Block.parsed)
    BY <1>3 DEF CodeBlock, ProseBlock, MalformedTable, BeginBlock, Format
  <2>3. /\ Block.lines \in Seq(Lines) /\ IsText(Block.lines) /\ Contiguous(Block.lines)
        /\ Block.flat \in BOOLEAN
    BY <2>1, <2>2, StartText
  <2>4. /\ routine' \in {"code", "prose"} /\ caller' = "blocks" /\ text' = Block.lines
        /\ Len(Block.lines) \in Nat \ {0} /\ Block.lines[1].start \in Nat
        /\ routine' = "code" => line' = 1 /\ start' = Block.lines[1].start /\ end' = Block.lines[1].start
        /\ routine' = "prose" => pos' = Block.lines[1].start
        /\ line' \in Nat /\ start' \in Nat /\ end' \in Nat /\ pos' \in Nat
    BY <2>1, <2>3, CallTypes
  <2>5. ~OversizedTurn
    BY <2>1 DEF OversizedTurn
  <2> QED
    BY <2>1, <2>3, <2>4, <2>5
<1> QED
  BY <1>1, <1>2, <1>3 DEF Starts

(* The window over the turns, and that the next one starts at a turn this    *)
(* one covers or right behind it.                                            *)
LEMMA WindowFacts ==
    ASSUME ChunkerTypes, Position, routine = "turns", upcoming <= Turns
    PROVE  /\ Turns \in Nat
           /\ WindowEnd \in upcoming + 1..Turns + 1
           /\ ActualEnd \in upcoming + 1..WindowEnd
           /\ Advance \in Nat /\ Advance > upcoming
           /\ \A i \in upcoming..Turns : i < Advance => i < ActualEnd
<1>1. Turns \in Nat /\ upcoming \in Nat \ {0} /\ shrunk \in Nat
  BY DocumentFacts DEF ChunkerTypes
<1>2. /\ WindowTurns \in Nat \ {0} /\ StrideTurns \in Nat /\ StrideTurns <= WindowTurns
  BY ChunkerAssumption
<1>3. WindowEnd \in upcoming + 1..Turns + 1
  BY <1>1, <1>2 DEF WindowEnd
<1>4. ActualEnd \in upcoming + 1..WindowEnd
  BY <1>1, <1>3 DEF ActualEnd, Position
<1>5. Advance \in Nat /\ Advance > upcoming
  BY <1>1, <1>2, <1>3, <1>4 DEF Advance
<1>6. ASSUME NEW i \in upcoming..Turns, i < Advance PROVE i < ActualEnd
  <2>1. CASE ActualEnd < WindowEnd
    BY <1>6, <2>1 DEF Advance
  <2>2. CASE ~(ActualEnd < WindowEnd)
    <3>1. ActualEnd = WindowEnd
      BY <1>1, <1>3, <1>4, <2>2
    <3>2. Advance <= upcoming + WindowTurns
      BY <1>1, <1>2, <2>2 DEF Advance
    <3> QED
      BY <1>1, <1>2, <1>5, <1>6, <3>1, <3>2 DEF WindowEnd
  <2> QED
    BY <2>1, <2>2
<1> QED
  BY <1>1, <1>3, <1>4, <1>5, <1>6

(* A step that cuts goes on with the same block, and adds at most one chunk. *)
LEMMA CutTypes ==
    ASSUME ChunkerTypes, Position, Cuts
    PROVE  /\ ChunkerTypes'
           /\ document' = document /\ upcoming' = upcoming /\ shrunk' = shrunk /\ of' = of
<1> USE DEF ChunkerTypes
<1>0. UNCHANGED <<document, upcoming, shrunk, of>>
  BY DEF Cuts, chunk_code, chunk_prose, chunk_table, PackLine, OverlongLine, SplitPiece, SplitDone,
         PackDone, ProsePiece, ProseDone, RowJoins, RowFlushes, RowOversized, TableDone
<1>1. ASSUME FlushRange PROVE out' \in Seq(ChunkRecs)
  BY <1>1, FlushFacts, Appending
<1>2. ASSUME FlushTableBatch, routine = "table" PROVE out' \in Seq(ChunkRecs)
  BY <1>2, BatchFacts, Appending
<1>3. ASSUME Called PROVE /\ \A i \in 1..Len(text) : text[i].start \in Nat /\ text[i].end \in Nat
                          /\ \A i \in 1..Len(text) : text[i].width \in Nat
                          /\ Len(text) \in Nat \ {0} /\ EndOf(text) \in Nat
  <2>1. IsText(text) /\ Contiguous(text)
    BY <1>3 DEF Position
  <2>2. Len(text) \in Nat \ {0}
    BY <2>1 DEF Contiguous
  <2>3. \A i \in 1..Len(text) : text[i].start \in Nat /\ text[i].end \in Nat /\ text[i].width \in Nat
    BY <2>1, TextFacts
  <2> QED
    BY <2>2, <2>3 DEF EndOf
<1>4. CASE PackLine
  <2>1. /\ line \in 1..Len(text) /\ text[line].start \in Nat /\ text[line].end \in Nat
        /\ UNCHANGED <<routine, caller, text, pos, row, pending>> /\ line' = line + 1
    BY <1>3, <1>4 DEF PackLine, Called, Position, tableVars
  <2>2. start' \in Nat /\ end' \in Nat
    BY <1>4, <2>1 DEF PackLine
  <2>3. out' \in Seq(ChunkRecs)
    BY <1>1, <1>4 DEF PackLine, EmitNothing
  <2> QED
    BY <1>0, <2>1, <2>2, <2>3
<1>5. CASE OverlongLine
  <2>1. /\ line \in 1..Len(text) /\ text[line].start \in Nat
        /\ UNCHANGED <<caller, text, line, start, end, row, pending>>
        /\ routine' = "split" /\ pos' = text[line].start /\ FlushRange
    BY <1>3, <1>5 DEF OverlongLine, Called, Position, tableVars
  <2> QED
    BY <1>0, <1>1, <2>1
<1>6. CASE SplitPiece
  <2>1. /\ routine = "split" /\ line \in 1..Len(text) /\ text[line].width \in Nat
        /\ UNCHANGED <<routine, caller, text, line, start, end, row, pending>>
    BY <1>3, <1>6 DEF SplitPiece, Called, Position, tableVars
  <2>2. PICK cut \in 1..Target :
           /\ Emit(Chunk("slice", {of}, <<pos, pos + cut * text[line].width>>, NoItems))
           /\ pos' = pos + cut * text[line].width
    BY <1>6 DEF SplitPiece
  <2>3. cut \in Nat
    BY ChunkerAssumption
  <2>4. cut * text[line].width \in Nat
    BY <2>1, <2>3
  <2>5. pos' \in Nat
    BY <2>2, <2>4
  <2>6. Chunk("slice", {of}, <<pos, pos + cut * text[line].width>>, NoItems) \in ChunkRecs
    BY <2>2, <2>5 DEF Chunk, ChunkRecs, NoItems, Forms
  <2>7. out' \in Seq(ChunkRecs)
    BY <2>2, <2>6, Appending DEF Emit
  <2> QED
    BY <1>0, <2>1, <2>5, <2>7
<1>7. CASE SplitDone
  <2>1. /\ line \in 1..Len(text) /\ text[line].end \in Nat
        /\ UNCHANGED <<caller, text, pos, row, pending, out>>
        /\ routine' = "code" /\ line' = line + 1 /\ start' = text[line].end /\ end' = text[line].end
    BY <1>3, <1>7 DEF SplitDone, Called, Position, tableVars, EmitNothing
  <2> QED
    BY <1>0, <2>1
<1>8. CASE PackDone
  <2>1. /\ UNCHANGED <<caller, text, line, start, end, pos, row, pending>>
        /\ routine' = caller /\ FlushRange
    BY <1>8 DEF PackDone, cursors, tableVars
  <2> QED
    BY <1>0, <1>1, <2>1
<1>9. CASE ProsePiece
  <2>1. routine = "prose" /\ UNCHANGED <<routine, caller, text, line, start, end, row, pending>>
    BY <1>9 DEF ProsePiece, tableVars
  <2>2. PICK from \in ProseStarts, to \in pos + 1..EndOf(text) :
           Emit(Chunk("prose", {of}, <<from, to>>, NoItems)) /\ pos' = to
    BY <1>9 DEF ProsePiece
  <2>3. to \in Nat /\ from \in Nat
    BY <1>3, <2>1, <2>2, ProseStart DEF Called
  <2>4. Chunk("prose", {of}, <<from, to>>, NoItems) \in ChunkRecs
    BY <2>3 DEF Chunk, ChunkRecs, NoItems, Forms
  <2>5. out' \in Seq(ChunkRecs)
    BY <2>2, <2>4, Appending DEF Emit
  <2> QED
    BY <1>0, <2>1, <2>2, <2>3, <2>5
<1>10. CASE ProseDone
  BY <1>0, <1>10 DEF ProseDone, cursors, tableVars
<1>11. CASE RowJoins
  BY <1>0, <1>11 DEF RowJoins, cursors, EmitNothing
<1>12. CASE RowFlushes
  <2>1. /\ UNCHANGED <<routine, caller, text, line, start, end, pos>>
        /\ routine = "table" /\ FlushTableBatch /\ pending' = row /\ row' = row + 1
    BY <1>12 DEF RowFlushes, cursors
  <2> QED
    BY <1>0, <1>2, <2>1
<1>13. CASE RowOversized
  <2> DEFINE t == <<Table.lines[row]>>
  <2>1. /\ routine = "table" /\ FlushTableBatch /\ pending' = row + 1 /\ row' = row + 1
        /\ row <= Len(Table.lines) /\ ChunkCode(t, "table")
    BY <1>13 DEF RowOversized
  <2>2. row \in 1..Len(Table.lines) /\ IsText(Table.lines)
    BY <2>1, TableFacts DEF InTable
  <2>3. Table.lines[row] \in Lines /\ Table.lines[row].start \in Nat
    BY <2>2, TextFacts
  <2>4. /\ routine' = "code" /\ caller' = "table" /\ text' = t /\ line' = 1
        /\ start' = t[1].start /\ end' = t[1].start /\ pos' = pos
    BY <2>1 DEF ChunkCode
  <2>5. t \in Seq(Lines) /\ t[1].start \in Nat
    BY <2>3
  <2> HIDE DEF t
  <2> QED
    BY <1>0, <1>2, <2>1, <2>4, <2>5
<1>14. CASE TableDone
  <2>1. /\ UNCHANGED <<caller, text, line, start, end, pos, row>>
        /\ routine = "table" /\ FlushTableBatch /\ pending' = row /\ routine' = "blocks"
    BY <1>14 DEF TableDone, cursors
  <2> QED
    BY <1>0, <1>2, <2>1
<1> QED
  BY <1>0, <1>4, <1>5, <1>6, <1>7, <1>8, <1>9, <1>10, <1>11, <1>12, <1>13, <1>14
     DEF Cuts, chunk_code, chunk_prose, chunk_table

LEMMA StartTypes ==
    ASSUME ChunkerTypes, Position, Starts
    PROVE  ChunkerTypes' /\ upcoming' > upcoming
<1> USE DEF ChunkerTypes
<1>1. /\ document' = document /\ out' = out
      /\ routine' \in {"code", "prose", "table"} /\ caller' \in {"turns", "blocks", "table"}
      /\ row' \in Nat /\ pending' \in Nat
  BY StartFacts DEF tableVars
<1>2. of' \in Ids
  BY StartFacts DEF Ids
<1>3. /\ text' \in Seq(Lines) /\ line' \in Nat /\ start' \in Nat /\ end' \in Nat /\ pos' \in Nat
  BY StartFacts
<1>4. upcoming' \in Nat \ {0} /\ shrunk' \in Nat /\ upcoming' > upcoming
  <2>1. CASE OversizedTurn
    <3>1. routine = "turns" /\ upcoming <= Turns /\ upcoming' = Advance /\ shrunk' = 0
      BY <2>1 DEF OversizedTurn
    <3> QED
      BY <3>1, WindowFacts
  <2>2. CASE ~OversizedTurn
    BY <2>2, StartFacts
  <2> QED
    BY <2>1, <2>2
<1> QED
  BY <1>1, <1>2, <1>3, <1>4

(* The chunk a window over turns becomes. *)
LEMMA WindowChunk ==
    ASSUME ChunkerTypes, Position, Window
    PROVE  \E c \in ChunkRecs :
              /\ out' = Append(out, c)
              /\ c.kind = "window" /\ c.blocks = {<<"turn", i>> : i \in upcoming..ActualEnd - 1}
              /\ c.first = upcoming /\ c.last = ActualEnd - 1
<1> DEFINE bs == {<<"turn", i>> : i \in upcoming..ActualEnd - 1}
           c == Chunk("window", bs, <<0, 0>>, <<upcoming, ActualEnd - 1>>)
<1>1. routine = "turns" /\ upcoming <= Turns /\ out' = Append(out, c)
  BY DEF Window, Emit, NoBytes
<1>2. upcoming \in Nat /\ ActualEnd - 1 \in Nat /\ ActualEnd \in Nat
  BY <1>1, WindowFacts DEF ChunkerTypes
<1>3. bs \in SUBSET Ids
  BY <1>2 DEF Ids
<1> HIDE DEF bs
<1>4. /\ c \in ChunkRecs /\ c.kind = "window" /\ c.blocks = bs
      /\ c.first = upcoming /\ c.last = ActualEnd - 1
  BY <1>2, <1>3 DEF Chunk, ChunkRecs, Forms, ChunkerTypes
<1> HIDE DEF c
<1> QED
  BY <1>1, <1>4 DEF bs

(* A block that is one chunk: a table without rows, or one passed through. *)
LEMMA OnlyChunk ==
    ASSUME ChunkerTypes, Position, HeaderOnly \/ Passthrough
    PROVE  /\ routine = "blocks" /\ upcoming \in 1..Len(document.blocks)
           /\ upcoming' = upcoming + 1 /\ of' = <<"block", upcoming>>
           /\ UNCHANGED <<document, shrunk, routine, caller, text, line, start, end, pos, row, pending>>
          
           /\ \E c \in ChunkRecs :
                 /\ out' = Append(out, c) /\ c.blocks = {<<"block", upcoming>>}
                 /\ \/ c.kind = "header" /\ Block.lines = << >>
                    \/ /\ c.kind = "whole" /\ Block.lines # << >>
                       /\ c.from = Block.lines[1].start /\ c.to = EndOf(Block.lines)
<1>1. /\ routine = "blocks" /\ upcoming <= Len(document.blocks)
      /\ upcoming' = upcoming + 1 /\ of' = <<"block", upcoming>>
      /\ UNCHANGED <<document, shrunk, routine, caller, text, line, start, end, pos, row, pending>>
  BY DEF HeaderOnly, Passthrough, BeginBlock, cursors, tableVars, Emit
<1>2. upcoming \in 1..Len(document.blocks)
  BY <1>1, DocumentFacts DEF ChunkerTypes
<1>3. "header" \in Forms /\ "whole" \in Forms /\ {<<"block", upcoming>>} \in SUBSET Ids
  BY <1>2 DEF Forms, Ids
<1>4. CASE HeaderOnly
  <2> DEFINE c == Chunk("header", {<<"block", upcoming>>}, <<0, 0>>, <<0, 0>>)
  <2>1. out' = Append(out, c) /\ Block.lines = << >>
    BY <1>4 DEF HeaderOnly, Emit, NoBytes, NoItems
  <2>2. c \in ChunkRecs /\ c.blocks = {<<"block", upcoming>>} /\ c.kind = "header"
    BY <1>3 DEF Chunk, ChunkRecs, ChunkerTypes
  <2> HIDE DEF c
  <2> QED
    BY <1>1, <1>2, <2>1, <2>2
<1>5. CASE Passthrough
  <2> DEFINE a == Block.lines[1].start
             b == EndOf(Block.lines)
             c == Chunk("whole", {<<"block", upcoming>>}, <<a, b>>, <<0, 0>>)
  <2>1. out' = Append(out, c)
    BY <1>5 DEF Passthrough, Emit, NoItems
  <2>2. Block.kind # "table"
    BY <1>5 DEF Passthrough, BeginBlock, Format
  <2>3. IsText(Block.lines) /\ Contiguous(Block.lines)
    BY <1>1, <2>2, StartText
  <2>4. Len(Block.lines) \in Nat \ {0} /\ Block.lines # << >>
    BY <2>3 DEF Contiguous, IsText
  <2>5. a \in Nat /\ b \in Nat
    BY <2>3, <2>4, TextFacts DEF EndOf
  <2> HIDE DEF a, b
  <2>6. /\ c \in ChunkRecs /\ c.blocks = {<<"block", upcoming>>} /\ c.kind = "whole"
        /\ c.from = a /\ c.to = b
    BY <1>3, <2>5 DEF Chunk, ChunkRecs, ChunkerTypes
  <2> HIDE DEF c
  <2> QED
    BY <1>1, <1>2, <2>1, <2>4, <2>6 DEF a, b
<1> QED
  BY <1>4, <1>5

LEMMA TypesStep ==
    ASSUME ChunkerTypes, Position, ChunkerNext
    PROVE  ChunkerTypes'
<1>1. CASE Starts
  BY <1>1, StartTypes
<1>2. CASE Cuts
  BY <1>2, CutTypes
<1>3. CASE Shrink
  <2>1. /\ routine = "turns" /\ upcoming <= Turns /\ shrunk' = ActualEnd - 1
        /\ UNCHANGED <<document, routine, caller, upcoming, of, text, line, start, end, pos, row,
                       pending, out>>
    BY <1>3 DEF Shrink, cursors, tableVars
  <2>2. shrunk' \in Nat
    BY <2>1, WindowFacts DEF ChunkerTypes
  <2> QED
    BY <2>1, <2>2 DEF ChunkerTypes
<1>4. CASE Window
  <2>1. /\ routine = "turns" /\ upcoming <= Turns /\ upcoming' = Advance /\ shrunk' = 0
        /\ UNCHANGED <<document, routine, caller, of, text, line, start, end, pos, row, pending>>
    BY <1>4 DEF Window, cursors, tableVars
  <2>2. upcoming' \in Nat \ {0}
    BY <2>1, WindowFacts DEF ChunkerTypes
  <2>3. out' \in Seq(ChunkRecs)
    BY <1>4, WindowChunk, Appending DEF ChunkerTypes
  <2> QED
    BY <2>1, <2>2, <2>3 DEF ChunkerTypes
<1>5. CASE TurnsDone \/ Finished
  BY <1>5 DEF TurnsDone, Finished, cursors, tableVars, ChunkerTypes
<1>6. CASE HeaderOnly \/ Passthrough
  <2>1. out' \in Seq(ChunkRecs)
    BY <1>6, OnlyChunk, Appending DEF ChunkerTypes
  <2>2. of' \in Ids
    BY <1>6, OnlyChunk DEF Ids
  <2>3. /\ UNCHANGED <<document, shrunk, routine, caller, text, line, start, end, pos, row, pending>>
        /\ upcoming' = upcoming + 1
    BY <1>6, OnlyChunk
  <2> QED
    BY <2>1, <2>2, <2>3 DEF ChunkerTypes
<1> QED
  BY <1>1, <1>2, <1>3, <1>4, <1>5, <1>6 DEF ChunkerNext, chunk_messages, chunk_blocks, Starts, Cuts

LEMMA StartPosition ==
    ASSUME ChunkerTypes, Position, Starts
    PROVE  /\ Position' /\ Cutting'
           /\ LinesOf(of)' = (IF routine' = "table" THEN Block.lines ELSE text')
           /\ IsText(LinesOf(of)')
           /\ \A x \in Nat : InText(of, x)' => ~(x < Frontier')
<1> USE DEF Called, Cutting, Turning, InTable
<1>0. ChunkerTypes' /\ upcoming' > upcoming /\ upcoming \in Nat
  BY StartTypes DEF ChunkerTypes
<1>1. CASE OversizedTurn
  <2>1. /\ document' = document /\ routine = "turns" /\ upcoming \in 1..Turns
        /\ of' = <<"turn", upcoming>> /\ routine' \in {"code", "prose"} /\ caller' = "turns"
        /\ text' = document.turns[upcoming].lines
    BY <1>1, StartFacts, DocumentFacts DEF ChunkerTypes
  <2>2. /\ IsText(text') /\ Contiguous(text') /\ Len(text') \in Nat \ {0}
        /\ routine' = "code" => line' = 1 /\ start' = text'[1].start /\ end' = text'[1].start
        /\ routine' = "prose" => pos' = text'[1].start
    BY <1>1, <2>1, StartFacts
  <2>3. LinesOf(of)' = text'
    BY <2>1 DEF LinesOf
  <2>4. text'[1].start <= EndOf(text')
    BY <2>2, TextEnds
  <2>5. Turns' = Turns
    BY <2>1 DEF Turns
  <2>6. shrunk' = 0
    BY <1>1 DEF OversizedTurn
  <2>7. text'[1].start \in Nat
    BY <2>2, TextFacts
  <2>8. Position'
    BY <1>0, <2>1, <2>2, <2>3, <2>4, <2>5, <2>6, <2>7 DEF Position
  <2>9. ASSUME NEW x \in Nat, InText(of, x)' PROVE ~(x < Frontier')
    <3>1. PICK i \in 1..Len(text') : text'[i].start <= x
      BY <2>3, <2>9 DEF InText
    <3>2. text'[1].start <= text'[i].start
      BY <2>2, TextEnds
    <3>3. Frontier' = text'[1].start
      BY <2>1, <2>2 DEF Frontier
    <3>4. text'[i].start \in Nat
      BY <2>2, TextFacts
    <3> QED
      BY <2>7, <3>1, <3>2, <3>3, <3>4
  <2>10. Cutting' /\ LinesOf(of)' = (IF routine' = "table" THEN Block.lines ELSE text')
    BY <2>1, <2>3
  <2>11. IsText(LinesOf(of)')
    BY <2>2, <2>3
  <2> QED
    BY <2>8, <2>9, <2>10, <2>11
<1>2. CASE ~OversizedTurn /\ routine' # "table"
  <2>1. /\ document' = document /\ routine = "blocks" /\ upcoming \in 1..Len(document.blocks)
        /\ of' = <<"block", upcoming>> /\ routine' \in {"code", "prose"} /\ caller' = "blocks"
        /\ upcoming' = upcoming + 1 /\ shrunk' = shrunk /\ text' = Block.lines
    BY <1>2, StartFacts, DocumentFacts DEF ChunkerTypes
  <2>2. /\ IsText(text') /\ Contiguous(text') /\ Len(text') \in Nat \ {0}
        /\ routine' = "code" => line' = 1 /\ start' = text'[1].start /\ end' = text'[1].start
        /\ routine' = "prose" => pos' = text'[1].start
    BY <1>2, <2>1, StartFacts
  <2>3. LinesOf(of)' = text'
    BY <2>1 DEF LinesOf, Block
  <2>4. text'[1].start <= EndOf(text') /\ text'[1].start \in Nat
    BY <2>2, TextEnds
  <2>6. shrunk' = 0 /\ Len(document.blocks) \in Nat
    BY <2>1, DocumentFacts DEF Position, ChunkerTypes
  <2>8. Position'
    BY <1>0, <2>1, <2>2, <2>3, <2>4, <2>6 DEF Position
  <2>9. ASSUME NEW x \in Nat, InText(of, x)' PROVE ~(x < Frontier')
    <3>1. PICK i \in 1..Len(text') : text'[i].start <= x
      BY <2>3, <2>9 DEF InText
    <3>2. text'[1].start <= text'[i].start
      BY <2>2, TextEnds
    <3>3. Frontier' = text'[1].start
      BY <2>1, <2>2 DEF Frontier
    <3>4. text'[i].start \in Nat
      BY <2>2, TextFacts
    <3> QED
      BY <2>4, <3>1, <3>2, <3>3, <3>4
  <2> QED
    BY <2>1, <2>2, <2>3, <2>8, <2>9
<1>3. CASE ~OversizedTurn /\ routine' = "table"
  <2>1. /\ document' = document /\ routine = "blocks" /\ upcoming \in 1..Len(document.blocks)
        /\ of' = <<"block", upcoming>> /\ row' = 1 /\ pending' = 1
        /\ upcoming' = upcoming + 1 /\ shrunk' = shrunk
        /\ Block.kind = "table" /\ Block.lines # << >>
    BY <1>3, StartFacts, DocumentFacts DEF ChunkerTypes
  <2>2. IsText(Block.lines) /\ Len(Block.lines) \in Nat \ {0}
    BY <2>1, StartText DEF IsText
  <2>3. LinesOf(of)' = Block.lines /\ Table' = Block
    BY <2>1 DEF LinesOf, Block, Table
  <2>6. shrunk' = 0 /\ Len(document.blocks) \in Nat
    BY <2>1, DocumentFacts DEF Position, ChunkerTypes
  <2>8. Position'
    BY <1>0, <1>3, <2>1, <2>2, <2>3, <2>6 DEF Position
  <2>9. ASSUME NEW x \in Nat, InText(of, x)' PROVE ~(x < Frontier')
    <3>1. PICK i \in 1..Len(Block.lines) : Block.lines[i].start <= x
      BY <2>3, <2>9 DEF InText
    <3>2. Block.lines[1].start <= Block.lines[i].start
      BY <2>2, TextEnds
    <3>3. Frontier' = Block.lines[1].start
      BY <1>3, <2>1, <2>2, <2>3 DEF Frontier
    <3>4. Block.lines[i].start \in Nat /\ Block.lines[1].start \in Nat
      BY <2>2, TextFacts
    <3> QED
      BY <3>1, <3>2, <3>3, <3>4
  <2> QED
    BY <1>3, <2>2, <2>3, <2>8, <2>9
<1> QED
  BY <1>1, <1>2, <1>3

-----------------------------------------------------------------------------
(* A step that cuts moves the frontier, past text it puts into a chunk. *)

Reach == IF Cutting' THEN Frontier' ELSE EndOf(LinesOf(of))

AddsNothing ==
    /\ out' = out
    /\ Frontier <= Reach
    /\ \A x \in Nat : InText(of, x) /\ x < Reach => x < Frontier

Adds(c) ==
    /\ out' = Append(out, c)
    /\ c.kind \in {"slice", "prose", "rows"} /\ c.blocks = {of}
    /\ c.kind # "prose" => Frontier <= c.from
    /\ Frontier <= Reach /\ c.from <= c.to /\ c.to <= Reach
    /\ \A x \in Nat : InText(of, x) /\ x < Reach /\ ~(x < Frontier) => c.from <= x /\ x < c.to

Moves == AddsNothing \/ \E c \in ChunkRecs : Adds(c)

(* Where the k-th line of a text starts, or the text ends. *)
StartOf(t, k) == IF k <= Len(t) THEN t[k].start ELSE EndOf(t)

(* Between two lines there is no text. *)
LEMMA Gap ==
    ASSUME NEW t, IsText(t), Len(t) \in Nat \ {0}, NEW k \in 2..Len(t) + 1
    PROVE  /\ StartOf(t, k) \in Nat /\ t[k - 1].end \in Nat /\ t[k - 1].start \in Nat
           /\ t[k - 1].end <= StartOf(t, k) /\ t[k - 1].start < t[k - 1].end
           /\ \A i \in 1..Len(t) : \A x \in Nat :
                 t[i].start <= x /\ x < t[i].end /\ x < StartOf(t, k) => x < t[k - 1].end
<1>1. /\ \A i \in 1..Len(t) : t[i].start \in Nat /\ t[i].end \in Nat /\ t[i].start < t[i].end
      /\ \A i, j \in 1..Len(t) : i < j => t[i].end <= t[j].start
  BY TextFacts
<1>2. k - 1 \in 1..Len(t)
  OBVIOUS
<1>3. CASE k <= Len(t)
  <2>1. k \in 1..Len(t) /\ StartOf(t, k) = t[k].start /\ k - 1 < k
    BY <1>3 DEF StartOf
  <2>2. t[k - 1].end <= t[k].start
    BY <1>1, <1>2, <2>1
  <2>3. ASSUME NEW i \in 1..Len(t), NEW x \in Nat, t[i].start <= x, x < t[i].end, x < t[k].start
        PROVE  x < t[k - 1].end
    <3>1. CASE i < k - 1
      <4>1. t[i].end <= t[k - 1].start
        BY <1>1, <1>2, <3>1
      <4> QED
        BY <1>1, <1>2, <2>3, <4>1
    <3>2. CASE i = k - 1
      BY <2>3, <3>2
    <3>3. CASE i = k
      BY <1>1, <2>3, <3>3
    <3>4. CASE k < i
      <4>1. t[k].end <= t[i].start
        BY <1>1, <2>1, <3>4
      <4> QED
        BY <1>1, <2>1, <2>3, <4>1
    <3> QED
      BY <3>1, <3>2, <3>3, <3>4
  <2> QED
    BY <1>1, <1>2, <2>1, <2>2, <2>3
<1>4. CASE k = Len(t) + 1
  <2>1. StartOf(t, k) = t[k - 1].end
    BY <1>4 DEF StartOf, EndOf
  <2> QED
    BY <1>1, <1>2, <2>1
<1> QED
  BY <1>3, <1>4

(* The lines chunk_code packs follow one another: the next one starts where  *)
(* what is current ends.                                                     *)
LEMMA NextLine ==
    ASSUME ChunkerTypes, Position, routine = "code", line <= Len(text)
    PROVE  /\ line \in 1..Len(text) /\ text[line].start = end
           /\ text[line] \in Lines /\ text[line].start \in Nat /\ text[line].end \in Nat
           /\ text[line].start < text[line].end
           /\ Len(text) \in Nat \ {0} /\ start <= end
<1>1. /\ IsText(text) /\ Contiguous(text) /\ line \in 1..Len(text) + 1 /\ start <= end
      /\ end = (IF line = 1 THEN text[1].start ELSE text[line - 1].end)
  BY DEF Position, Called
<1>2. line \in 1..Len(text) /\ Len(text) \in Nat \ {0}
  BY <1>1 DEF IsText, ChunkerTypes
<1>3. text[line].start = end
  <2>1. CASE line = 1
    BY <1>1, <2>1
  <2>2. CASE line # 1
    <3>1. line - 1 \in 1..Len(text) - 1
      BY <1>2, <2>2
    <3>2. text[line - 1].end = text[line - 1 + 1].start
      BY <1>1, <3>1 DEF Contiguous
    <3>3. line - 1 + 1 = line
      BY <1>2
    <3> QED
      BY <1>1, <2>2, <3>2, <3>3
  <2> QED
    BY <2>1, <2>2
<1> QED
  BY <1>1, <1>2, <1>3, TextFacts

LEMMA FlushMoves ==
    ASSUME ChunkerTypes, routine = "code", start <= end, FlushRange,
           Reach \in Nat, end <= Reach,
           \A x \in Nat : InText(of, x) /\ x < Reach => x < end
    PROVE  Moves
<1>1. Frontier = start /\ start \in Nat /\ end \in Nat
  BY DEF Frontier, ChunkerTypes
<1>2. CASE end > start
  <2>1. PICK c \in ChunkRecs : /\ out' = Append(out, c)
                               /\ c.kind = "slice" /\ c.blocks = {of}
                               /\ c.from = start /\ c.to = end
    BY <1>1, <1>2, FlushFacts
  <2> HIDE DEF Reach
  <2>2. Adds(c)
    BY <1>1, <1>2, <2>1 DEF Adds
  <2> QED
    BY <2>1, <2>2 DEF Moves
<1>3. CASE ~(end > start)
  <2>1. out' = out /\ start = end
    BY <1>1, <1>3, FlushFacts
  <2> HIDE DEF Reach
  <2>2. AddsNothing
    BY <1>1, <2>1 DEF AddsNothing
  <2> QED
    BY <2>2 DEF Moves
<1> QED
  BY <1>2, <1>3

LEMMA BatchMoves ==
    ASSUME ChunkerTypes, Position, routine = "table", FlushTableBatch,
           Reach = StartOf(Table.lines, row)
    PROVE  Moves
<1>1. /\ IsText(Table.lines) /\ Len(Table.lines) \in Nat \ {0} /\ LinesOf(of) = Table.lines
      /\ row \in 1..Len(Table.lines) + 1 /\ pending \in 1..row
  BY TableFacts DEF InTable
<1>2. Frontier = StartOf(Table.lines, pending)
  BY DEF Frontier, StartOf
<1> HIDE DEF Reach
<1>3. CASE pending < row
  <2>1. PICK c \in ChunkRecs :
           /\ out' = Append(out, c)
           /\ c.kind = "rows" /\ c.blocks = {of}
           /\ c.from = Table.lines[pending].start /\ c.to = Table.lines[row - 1].end
    BY <1>1, <1>3, BatchFacts
  <2>2. row \in 2..Len(Table.lines) + 1 /\ pending \in 1..Len(Table.lines) /\ row - 1 \in 1..Len(Table.lines)
    BY <1>1, <1>3
  <2>3. /\ Table.lines[row - 1].end \in Nat /\ Table.lines[row - 1].end <= Reach /\ Reach \in Nat
        /\ Table.lines[row - 1].start < Table.lines[row - 1].end
        /\ \A i \in 1..Len(Table.lines) : \A x \in Nat :
              Table.lines[i].start <= x /\ x < Table.lines[i].end /\ x < Reach
              => x < Table.lines[row - 1].end
    BY <1>1, <2>2, Gap
  <2>4. Frontier = Table.lines[pending].start /\ Frontier \in Nat
    BY <1>1, <1>2, <2>2, TextFacts DEF StartOf
  <2>5. Table.lines[pending].start <= Table.lines[row - 1].end
    <3>1. CASE pending = row - 1
      BY <2>3, <2>4, <3>1
    <3>2. CASE pending < row - 1
      <4>1. /\ Table.lines[pending].end <= Table.lines[row - 1].start
            /\ Table.lines[pending].start < Table.lines[pending].end
            /\ Table.lines[pending].end \in Nat /\ Table.lines[row - 1].start \in Nat
        BY <1>1, <2>2, <3>2, TextFacts
      <4> QED
        BY <2>3, <2>4, <4>1
    <3> QED
      BY <1>1, <1>3, <3>1, <3>2
  <2>6. \A x \in Nat : InText(of, x) /\ x < Reach => x < Table.lines[row - 1].end
    BY <1>1, <2>3 DEF InText
  <2>7. Adds(c)
    BY <2>1, <2>3, <2>4, <2>5, <2>6 DEF Adds
  <2> QED
    BY <2>1, <2>7 DEF Moves
<1>4. CASE ~(pending < row)
  <2>1. out' = out /\ pending = row
    BY <1>1, <1>4, BatchFacts
  <2>2. Frontier = Reach /\ Reach \in Nat
    <3>1. CASE row <= Len(Table.lines)
      BY <1>1, <1>2, <2>1, <3>1, TextFacts DEF StartOf
    <3>2. CASE ~(row <= Len(Table.lines))
      BY <1>1, <1>2, <2>1, <3>2, TextEnds DEF StartOf
    <3> QED
      BY <3>1, <3>2
  <2>3. AddsNothing
    BY <2>1, <2>2 DEF AddsNothing
  <2> QED
    BY <2>3 DEF Moves
<1> QED
  BY <1>3, <1>4

(* What chunk_code, chunk_prose and chunk_table do with the block they cut. *)
LEMMA CutStep ==
    ASSUME ChunkerTypes, Position, Cuts
    PROVE  Position' /\ Turning' = Turning /\ Cutting /\ Moves /\ Reach \in Nat
<1> USE DEF Called, Cutting, Turning, InTable
<1>0. ChunkerTypes' /\ UNCHANGED <<document, upcoming, shrunk, of>>
  BY CutTypes
<1>1. LinesOf(of)' = LinesOf(of) /\ Table' = Table /\ Turns' = Turns /\ WindowEnd' = WindowEnd
  BY <1>0 DEF LinesOf, Table, Turns, WindowEnd
<1>2. CASE PackLine
  <2>1. /\ routine = "code" /\ line <= Len(text) /\ line' = line + 1 /\ end' = text[line].end
        /\ UNCHANGED <<routine, caller, text, pos, row, pending>>
    BY <1>2 DEF PackLine, tableVars
  <2>2. /\ line \in 1..Len(text) /\ text[line].start = end
        /\ text[line].start \in Nat /\ text[line].end \in Nat /\ end < text[line].end
        /\ Len(text) \in Nat \ {0} /\ start <= end
    BY <2>1, NextLine
  <2>3. start' \in {start, end} /\ start' <= end
    BY <1>2, <2>2 DEF PackLine, ChunkerTypes
  <2>4. text[1].start <= start /\ start \in Nat /\ end \in Nat /\ text[1].start \in Nat
    BY <2>1, <2>2, TextFacts DEF Position, ChunkerTypes
  <2>5. text'[1].start <= start' /\ start' <= end'
    BY <2>1, <2>2, <2>3, <2>4
  <2>6. line' \in 1..Len(text') + 1 /\ end' = (IF line' = 1 THEN text'[1].start ELSE text'[line' - 1].end)
    BY <2>1, <2>2
  <2>7. Position'
    BY <1>0, <1>1, <2>1, <2>5, <2>6 DEF Position
  <2>8. Reach = start'
    BY <2>1 DEF Reach, Frontier
  <2>9. CASE out' = out /\ start' = start
    <3>1. Frontier = start
      BY <2>1 DEF Frontier
    <3>2. AddsNothing
      BY <2>4, <2>8, <2>9, <3>1 DEF AddsNothing
    <3> QED
      BY <2>1, <2>4, <2>7, <2>8, <2>9, <3>2 DEF Moves
  <2>10. CASE FlushRange /\ start' = end
    <3>1. Moves
      BY <2>1, <2>2, <2>4, <2>8, <2>10, FlushMoves
    <3> QED
      BY <2>1, <2>4, <2>7, <2>8, <2>10, <3>1
  <2>11. \/ out' = out /\ start' = start
         \/ FlushRange /\ start' = end
    BY <1>2, <2>2, <2>4 DEF PackLine, EmitNothing
  <2> QED
    BY <2>9, <2>10, <2>11
<1>3. CASE OverlongLine
  <2>1. /\ routine = "code" /\ line <= Len(text) /\ routine' = "split" /\ pos' = text[line].start
        /\ FlushRange /\ UNCHANGED <<caller, text, line, start, end, row, pending>>
    BY <1>3 DEF OverlongLine, tableVars
  <2>2. /\ line \in 1..Len(text) /\ text[line].start = end
        /\ text[line].start \in Nat /\ text[line].end \in Nat /\ end < text[line].end /\ start <= end
    BY <2>1, NextLine
  <2>3. Position'
    BY <1>0, <1>1, <2>1, <2>2 DEF Position
  <2>4. Reach = end
    BY <2>1, <2>2 DEF Reach, Frontier
  <2>5. Moves
    BY <2>1, <2>2, <2>4, FlushMoves
  <2> QED
    BY <2>1, <2>2, <2>3, <2>4, <2>5
<1>4. CASE SplitPiece
  <2>1. /\ routine = "split" /\ pos < text[line].end
        /\ UNCHANGED <<routine, caller, text, line, start, end, row, pending>>
    BY <1>4 DEF SplitPiece, tableVars
  <2>0. pos \in Nat
    BY DEF ChunkerTypes
  <2>2. /\ line \in 1..Len(text) /\ IsText(text)
        /\ text[line].start <= pos /\ pos <= text[line].end
    BY <2>1 DEF Position
  <2>3. /\ text[line].start \in Nat /\ text[line].end \in Nat /\ text[line].width \in Nat \ {0}
    BY <2>2, TextFacts
  <2>4. PICK window, cut \in 1..Target :
           /\ window * text[line].width <= text[line].end - pos
           /\ cut <= window
           /\ Emit(Chunk("slice", {of}, <<pos, pos + cut * text[line].width>>, NoItems))
           /\ pos' = pos + cut * text[line].width
    <3>1. PICK window, cut \in 1..Target :
             /\ \/ window * text[line].width = text[line].end - pos
                \/ window = Target /\ window * text[line].width < text[line].end - pos
             /\ cut = window \/ (cut < window /\ cut * 2 > window)
             /\ Emit(Chunk("slice", {of}, <<pos, pos + cut * text[line].width>>, NoItems))
             /\ pos' = pos + cut * text[line].width
      BY <1>4 DEF SplitPiece
    <3>2. window \in Nat /\ cut \in Nat
      BY ChunkerAssumption
    <3>3. window * text[line].width \in Nat /\ text[line].end - pos \in Int
      BY <2>0, <2>3, <3>2
    <3>4. window * text[line].width <= text[line].end - pos
      BY <3>1, <3>3
    <3>5. cut <= window
      BY <3>1, <3>2
    <3> QED
      BY <3>1, <3>4, <3>5
  <2>5. window \in Nat /\ cut \in Nat \ {0}
    BY ChunkerAssumption
  <2>6. /\ cut * text[line].width \in Nat /\ window * text[line].width \in Nat
        /\ cut * text[line].width <= window * text[line].width /\ 0 < cut * text[line].width
    BY <2>3, <2>4, <2>5
  <2>7. pos' \in Nat /\ pos < pos' /\ pos' <= text[line].end
    <3> DEFINE step == cut * text[line].width
               most == window * text[line].width
    <3>1. step \in Nat /\ most \in Nat /\ step <= most /\ 0 < step /\ pos' = pos + step
          /\ most <= text[line].end - pos
      BY <2>4, <2>6
    <3> HIDE DEF step, most
    <3> QED
      BY <2>0, <2>3, <3>1
  <2>8. Position'
    BY <1>0, <1>1, <2>1, <2>2, <2>3, <2>7 DEF Position, ChunkerTypes
  <2>9. Reach = pos' /\ Frontier = pos
    BY <2>1 DEF Reach, Frontier
  <2> DEFINE c == Chunk("slice", {of}, <<pos, pos'>>, NoItems)
  <2>10. out' = Append(out, c)
    BY <2>4 DEF Emit
  <2>11. /\ c \in ChunkRecs /\ c.kind = "slice" /\ c.blocks = {of}
         /\ c.from = pos /\ c.to = pos'
    BY <2>7 DEF Chunk, NoItems, ChunkRecs, Forms, ChunkerTypes
  <2> HIDE DEF c
  <2>12. Adds(c)
    BY <2>7, <2>9, <2>10, <2>11 DEF Adds, ChunkerTypes
  <2> QED
    BY <2>1, <2>7, <2>8, <2>9, <2>11, <2>12 DEF Moves
<1>5. CASE SplitDone
  <2>1. /\ routine = "split" /\ pos >= text[line].end /\ routine' = "code" /\ line' = line + 1
        /\ start' = text[line].end /\ end' = text[line].end /\ out' = out
        /\ UNCHANGED <<caller, text, pos, row, pending>>
    BY <1>5 DEF SplitDone, tableVars, EmitNothing
  <2>2. /\ line \in 1..Len(text) /\ IsText(text) /\ pos <= text[line].end /\ pos \in Nat
    BY <2>1 DEF Position, ChunkerTypes
  <2>3. text[line].end \in Nat /\ text[line].end = pos /\ Len(text) \in Nat \ {0}
    BY <2>1, <2>2, TextFacts
  <2>4. text[1].start <= text[line].end
    BY <2>2, <2>3, TextEnds, TextFacts
  <2>5. line' \in 1..Len(text) + 1 /\ end' = (IF line' = 1 THEN text[1].start ELSE text[line' - 1].end)
    BY <2>1, <2>2
  <2>6. Position'
    BY <1>0, <1>1, <2>1, <2>3, <2>4, <2>5 DEF Position
  <2>7. Reach = pos /\ Frontier = pos
    BY <2>1, <2>3 DEF Reach, Frontier
  <2> QED
    BY <2>1, <2>2, <2>6, <2>7 DEF Moves, AddsNothing
<1>6. CASE ProsePiece
  <2>1. routine = "prose" /\ UNCHANGED <<routine, caller, text, line, start, end, row, pending>>
    BY <1>6 DEF ProsePiece, tableVars
  <2>2. PICK from \in ProseStarts, to \in pos + 1..EndOf(text) :
           Emit(Chunk("prose", {of}, <<from, to>>, NoItems)) /\ pos' = to
    BY <1>6 DEF ProsePiece
  <2>11. from \in Nat /\ from <= pos
    BY <2>1, <2>2, ProseStart
  <2>3. IsText(text) /\ Contiguous(text) /\ text[1].start <= pos /\ pos \in Nat
    BY <2>1 DEF Position, ChunkerTypes
  <2>4. EndOf(text) \in Nat /\ text[1].start \in Nat
    BY <2>3, TextEnds DEF Contiguous, IsText
  <2>5. pos' \in Nat /\ pos < pos' /\ pos' <= EndOf(text) /\ text[1].start <= pos'
    BY <2>2, <2>3, <2>4
  <2>6. Position'
    BY <1>0, <1>1, <2>1, <2>5 DEF Position
  <2>7. Reach = pos' /\ Frontier = pos
    BY <2>1 DEF Reach, Frontier
  <2> DEFINE c == Chunk("prose", {of}, <<from, pos'>>, NoItems)
  <2>8. out' = Append(out, c)
    BY <2>2 DEF Emit
  <2>9. /\ c \in ChunkRecs /\ c.kind = "prose" /\ c.blocks = {of}
        /\ c.from = from /\ c.to = pos'
    BY <2>5, <2>11 DEF Chunk, NoItems, ChunkRecs, Forms, ChunkerTypes
  <2> HIDE DEF c
  <2>10. Adds(c)
    BY <2>3, <2>5, <2>7, <2>8, <2>9, <2>11 DEF Adds
  <2> QED
    BY <2>1, <2>5, <2>6, <2>7, <2>9, <2>10 DEF Moves
<1>7. CASE ProseDone
  <2>1. /\ routine = "prose" /\ pos >= EndOf(text) /\ routine' = caller /\ out' = out
        /\ UNCHANGED <<caller, text, line, start, end, pos, row, pending>>
    BY <1>7 DEF ProseDone, cursors, tableVars
  <2>2. /\ IsText(text) /\ Contiguous(text) /\ pos <= EndOf(text) /\ pos \in Nat
        /\ caller # "table" /\ text = LinesOf(of)
    BY <2>1 DEF Position, ChunkerTypes
  <2>3. EndOf(text) \in Nat
    BY <2>2, TextEnds DEF Contiguous, IsText
  <2>4. Position'
    BY <1>0, <1>1, <2>1, <2>2 DEF Position, ChunkerTypes
  <2>5. ~Cutting' /\ Turning' = Turning
    BY <2>1, <2>2 DEF ChunkerTypes
  <2>6. Reach = pos /\ Frontier = pos
    BY <2>1, <2>2, <2>3, <2>5 DEF Reach, Frontier
  <2> QED
    BY <2>1, <2>2, <2>4, <2>5, <2>6 DEF Moves, AddsNothing
<1>8. CASE PackDone
  <2>1. /\ routine = "code" /\ line > Len(text) /\ routine' = caller /\ FlushRange
        /\ UNCHANGED <<caller, text, line, start, end, pos, row, pending>>
    BY <1>8 DEF PackDone, cursors, tableVars
  <2>2. /\ IsText(text) /\ Contiguous(text) /\ line \in 1..Len(text) + 1 /\ start <= end
        /\ end = (IF line = 1 THEN text[1].start ELSE text[line - 1].end)
    BY <2>1 DEF Position
  <2>3. Len(text) \in Nat \ {0}
    BY <2>2 DEF IsText, Contiguous
  <2>4. end = EndOf(text) /\ EndOf(text) \in Nat
    BY <2>1, <2>2, <2>3, TextEnds DEF EndOf
  <2>5. CASE caller # "table"
    <3>1. text = LinesOf(of)
      BY <2>1, <2>5 DEF Position
    <3>2. Position'
      BY <1>0, <1>1, <2>1, <2>5 DEF Position, ChunkerTypes
    <3>3. ~Cutting' /\ Turning' = Turning
      BY <2>1, <2>5 DEF ChunkerTypes
    <3>4. Reach = end
      BY <2>4, <3>1, <3>3 DEF Reach
    <3>5. \A x \in Nat : InText(of, x) /\ x < Reach => x < end
      BY <3>4
    <3>6. Moves
      BY <2>1, <2>2, <2>4, <3>4, <3>5, FlushMoves
    <3> QED
      BY <2>1, <2>4, <3>2, <3>3, <3>4, <3>6
  <2>6. CASE caller = "table"
    <3>1. /\ row \in 2..Len(Table.lines) + 1 /\ pending = row /\ text = <<Table.lines[row - 1]>>
          /\ IsText(Table.lines) /\ Len(Table.lines) \in Nat \ {0} /\ LinesOf(of) = Table.lines
      BY <2>1, <2>6, TableFacts DEF Position
    <3>2. end = Table.lines[row - 1].end
      BY <2>4, <3>1 DEF EndOf
    <3>3. Position'
      BY <1>0, <1>1, <2>1, <2>6, <3>1 DEF Position
    <3>4. Reach = StartOf(Table.lines, row)
      BY <1>1, <2>1, <2>6, <3>1 DEF Reach, Frontier, StartOf
    <3> HIDE DEF Reach
    <3>5. /\ Reach \in Nat /\ end <= Reach
          /\ \A i \in 1..Len(Table.lines) : \A x \in Nat :
                Table.lines[i].start <= x /\ x < Table.lines[i].end /\ x < Reach => x < end
      BY <3>1, <3>2, <3>4, Gap
    <3>6. \A x \in Nat : InText(of, x) /\ x < Reach => x < end
      BY <3>1, <3>5 DEF InText
    <3>7. Moves
      BY <2>1, <2>2, <3>5, <3>6, FlushMoves
    <3> QED
      BY <2>1, <2>6, <3>3, <3>5, <3>7
  <2> QED
    BY <2>5, <2>6
<1>9. CASE RowJoins
  <2>1. /\ routine = "table" /\ row <= Len(Table.lines) /\ row' = row + 1
        /\ out' = out
        /\ UNCHANGED <<routine, caller, text, line, start, end, pos, pending>>
    BY <1>9 DEF RowJoins, cursors, EmitNothing
  <2>2. /\ row \in 1..Len(Table.lines) /\ pending \in 1..Len(Table.lines) /\ pending \in 1..row
        /\ IsText(Table.lines) /\ Table.kind = "table" /\ Table.lines # << >>
        /\ Len(Table.lines) \in Nat
    BY <2>1, TableFacts DEF Position
  <2>3. Position'
    BY <1>0, <1>1, <2>1, <2>2 DEF Position
  <2>4. Reach = Table.lines[pending].start /\ Frontier = Table.lines[pending].start
    BY <1>1, <2>1, <2>2 DEF Reach, Frontier
  <2>5. Table.lines[pending].start \in Nat
    BY <2>2, TextFacts
  <2> QED
    BY <2>1, <2>3, <2>4, <2>5 DEF Moves, AddsNothing
<1>10. CASE RowFlushes
  <2>1. /\ routine = "table" /\ row <= Len(Table.lines) /\ row' = row + 1 /\ pending' = row
        /\ FlushTableBatch /\ UNCHANGED <<routine, caller, text, line, start, end, pos>>
    BY <1>10 DEF RowFlushes, cursors
  <2>2. /\ row \in 1..Len(Table.lines) /\ Len(Table.lines) \in Nat /\ IsText(Table.lines)
        /\ Table.kind = "table" /\ Table.lines # << >>
    BY <2>1, TableFacts DEF Position
  <2>3. Position'
    BY <1>0, <1>1, <2>1, <2>2 DEF Position
  <2>4. Reach = StartOf(Table.lines, row) /\ Reach \in Nat
    BY <1>1, <2>1, <2>2, TextFacts DEF Reach, Frontier, StartOf
  <2>5. Moves
    BY <2>1, <2>4, BatchMoves
  <2> QED
    BY <2>1, <2>3, <2>4, <2>5
<1>11. CASE RowOversized
  <2> DEFINE t == <<Table.lines[row]>>
  <2>1. /\ routine = "table" /\ row <= Len(Table.lines) /\ row' = row + 1 /\ pending' = row + 1
        /\ FlushTableBatch /\ ChunkCode(t, "table")
    BY <1>11 DEF RowOversized
  <2>2. /\ row \in 1..Len(Table.lines) /\ Len(Table.lines) \in Nat /\ IsText(Table.lines)
        /\ Table.kind = "table" /\ Table.lines # << >>
    BY <2>1, TableFacts DEF Position
  <2>3. /\ Table.lines[row] \in Lines /\ Table.lines[row].start \in Nat
        /\ Table.lines[row].end = Table.lines[row].start + Table.lines[row].chars * Table.lines[row].width
    BY <2>2, TextFacts
  <2>4. /\ routine' = "code" /\ caller' = "table" /\ text' = t /\ line' = 1
        /\ start' = Table.lines[row].start /\ end' = Table.lines[row].start
    BY <2>1 DEF ChunkCode
  <2>5. IsText(t) /\ Contiguous(t) /\ Len(t) = 1 /\ t[1] = Table.lines[row]
    BY <2>3 DEF IsText, Contiguous
  <2>6. Position'
    <3>1. row' > 1 /\ pending' = row' /\ row' - 1 = row /\ row' \in 1..Len(Table.lines) + 1
      BY <2>1, <2>2
    <3>2. text' = <<Table.lines[row' - 1]>>
      BY <2>4, <3>1
    <3>3. IsText(text') /\ Contiguous(text') /\ Len(text') = 1 /\ text'[1].start = start'
      BY <2>4, <2>5
    <3> HIDE DEF t
    <3> QED
      BY <1>0, <1>1, <2>1, <2>2, <2>3, <2>4, <3>1, <3>2, <3>3 DEF Position
  <2>7. Reach = StartOf(Table.lines, row) /\ Reach \in Nat
    BY <2>2, <2>3, <2>4 DEF Reach, Frontier, StartOf
  <2>8. Moves
    BY <2>1, <2>7, BatchMoves
  <2> QED
    BY <2>1, <2>4, <2>6, <2>7, <2>8
<1>12. CASE TableDone
  <2>1. /\ routine = "table" /\ row > Len(Table.lines) /\ pending' = row /\ routine' = "blocks"
        /\ FlushTableBatch /\ UNCHANGED <<caller, text, line, start, end, pos, row>>
    BY <1>12 DEF TableDone, cursors
  <2>2. /\ Len(Table.lines) \in Nat \ {0} /\ IsText(Table.lines) /\ LinesOf(of) = Table.lines
    BY <2>1, TableFacts
  <2>3. Position'
    BY <1>0, <1>1, <2>1 DEF Position
  <2>4. Reach = StartOf(Table.lines, row) /\ Reach \in Nat
    BY <2>1, <2>2, TextEnds DEF Reach, StartOf, ChunkerTypes
  <2>5. Moves
    BY <2>1, <2>4, BatchMoves
  <2> QED
    BY <2>1, <2>3, <2>4, <2>5
<1> QED
  BY <1>2, <1>3, <1>4, <1>5, <1>6, <1>7, <1>8, <1>9, <1>10, <1>11, <1>12
     DEF Cuts, chunk_code, chunk_prose, chunk_table

-----------------------------------------------------------------------------
(* What the invariant says of the chunks is kept. *)

LEMMA FrontierNat ==
    ASSUME ChunkerTypes, Position, Cutting
    PROVE  Frontier \in Nat
<1>1. CASE Called
  BY <1>1 DEF Called, Frontier, ChunkerTypes
<1>2. CASE routine = "table"
  <2>1. IsText(Table.lines) /\ Len(Table.lines) \in Nat \ {0} /\ pending \in 1..row /\ row \in Nat
    BY <1>2, TableFacts DEF InTable
  <2>2. CASE pending <= Len(Table.lines)
    BY <1>2, <2>1, <2>2, TextFacts DEF Frontier
  <2>3. CASE ~(pending <= Len(Table.lines))
    BY <1>2, <2>1, <2>3, TextEnds DEF Frontier
  <2> QED
    BY <2>2, <2>3
<1> QED
  BY <1>1, <1>2 DEF Cutting

(* The block that is cut is of the document and has text. *)
LEMMA CutText ==
    ASSUME ChunkerTypes, Position, Cutting
    PROVE  /\ of \in BlockIds /\ IsText(LinesOf(of)) /\ Len(LinesOf(of)) \in Nat \ {0}
           /\ of = (IF Turning THEN <<"turn", of[2]>> ELSE <<"block", upcoming - 1>>)
<1>1. of = <<of[1], of[2]>>
  BY DEF ChunkerTypes, Ids
<1>2. of \in BlockIds /\ of = (IF Turning THEN <<"turn", of[2]>> ELSE <<"block", upcoming - 1>>)
  BY <1>1 DEF Position, BlockIds
<1>3. CASE InTable
  BY <1>2, <1>3, TableFacts
<1>4. CASE Called /\ caller # "table"
  <2>1. text = LinesOf(of) /\ IsText(text) /\ Contiguous(text)
    BY <1>4 DEF Position
  <2> QED
    BY <1>2, <2>1 DEF Contiguous, IsText
<1> QED
  BY <1>2, <1>3, <1>4 DEF Cutting, InTable

(* What a step that only adds to the chunks, or leaves them, keeps. *)
Grows == document' = document /\ (out' = out \/ \E c \in ChunkRecs : out' = Append(out, c))

LEMMA Kept ==
    ASSUME out \in Seq(ChunkRecs), Grows
    PROVE  /\ BlockIds' = BlockIds
           /\ \A b \in Ids : LinesOf(b)' = LinesOf(b)
           /\ \A b \in Ids, x \in Nat : (InText(b, x))' <=> InText(b, x)
           /\ \A b \in Ids, x \in Nat : Held(b, x) => (Held(b, x))'
           /\ \A b \in Ids : Whole(b) => (Whole(b))'
<1>1. BlockIds' = BlockIds /\ \A b \in Ids : LinesOf(b)' = LinesOf(b)
  BY DEF Grows, BlockIds, Turns, LinesOf
<1>2. \A b \in Ids, x \in Nat : (InText(b, x))' <=> InText(b, x)
  BY <1>1 DEF InText
<1>3. /\ Len(out) \in Nat /\ Len(out') \in Nat /\ Len(out) <= Len(out')
      /\ \A n \in 1..Len(out) : out'[n] = out[n]
  BY Appending DEF Grows
<1>4. ASSUME NEW b \in Ids, NEW x \in Nat, Held(b, x) PROVE (Held(b, x))'
  <2>1. PICK n \in 1..Len(out) : Holds(out[n], b, x)
    BY <1>4 DEF Held
  <2>2. n \in 1..Len(out') /\ out'[n] = out[n]
    BY <1>3
  <2> QED
    BY <2>1, <2>2 DEF Held, Holds
<1>5. \A b \in Ids : Whole(b) => (Whole(b))'
  BY <1>2, <1>4 DEF Whole
<1> QED
  BY <1>1, <1>2, <1>4, <1>5

LEMMA CutKeeps ==
    ASSUME ChunkerInvariant, Cuts
    PROVE  Coverage' /\ Order' /\ Extent'
<1> USE DEF ChunkerInvariant
<1>0. /\ ChunkerTypes' /\ document' = document /\ upcoming' = upcoming /\ of' = of
      /\ upcoming \in Nat /\ of \in Ids /\ out \in Seq(ChunkRecs)
  BY CutTypes DEF ChunkerTypes
<1>1. Turning' = Turning /\ Cutting /\ Moves /\ Reach \in Nat /\ Frontier \in Nat
  BY CutStep, FrontierNat
<1>2. /\ of \in BlockIds /\ IsText(LinesOf(of)) /\ Len(LinesOf(of)) \in Nat \ {0}
      /\ of = (IF Turning THEN <<"turn", of[2]>> ELSE <<"block", upcoming - 1>>)
      /\ Turning => of[2] < upcoming
  BY <1>1, CutText DEF Position
<1>3. Grows
  BY <1>0, <1>1 DEF Grows, Moves, AddsNothing, Adds
<1>4. /\ Len(out) \in Nat
      /\ \/ out' = out /\ AddsNothing
         \/ \E c \in ChunkRecs : /\ Adds(c) /\ Len(out') = Len(out) + 1 /\ out'[Len(out) + 1] = c
                                 /\ \A n \in 1..Len(out) : out'[n] = out[n]
  BY <1>0, <1>1, Appending DEF Moves, AddsNothing, Adds
<1>5. ASSUME NEW x \in Nat, InText(of, x), x < Reach PROVE (Held(of, x))'
  <2>1. CASE x < Frontier
    BY <1>0, <1>1, <1>3, <1>5, <2>1, Kept DEF Coverage
  <2>2. CASE ~(x < Frontier)
    <3>1. PICK c \in ChunkRecs : Adds(c) /\ Len(out') = Len(out) + 1 /\ out'[Len(out) + 1] = c
      BY <1>4, <1>5, <2>2 DEF AddsNothing
    <3>2. c.from <= x /\ x < c.to /\ c.blocks = {of}
      BY <1>5, <2>2, <3>1 DEF Adds
    <3>3. Len(out) + 1 \in 1..Len(out') /\ Holds(out'[Len(out) + 1], of, x)
      BY <1>4, <3>1, <3>2 DEF Holds
    <3> QED
      BY <1>0, <3>3 DEF Held, Holds
  <2> QED
    BY <2>1, <2>2
<1>6. Coverage'
  <2>1. ASSUME NEW b \in Ids, (Past(b))' PROVE (Whole(b))'
    <3>1. CASE Past(b)
      BY <1>0, <1>3, <3>1, Kept DEF Coverage
    <3>2. CASE ~Past(b)
      <4>1. BlockIds' = BlockIds
        BY <1>0, <1>3, Kept
      <4>2. b = of /\ ~Cutting'
        BY <1>0, <1>1, <2>1, <3>2, <4>1 DEF Past
      <4>3. ASSUME NEW x \in Nat, InText(of, x) PROVE x < Reach
        BY <1>2, <4>2, <4>3, TextEnds, TextFacts DEF InText, Reach
      <4>4. \A x \in Nat : InText(of, x) => (Held(of, x))'
        BY <1>5, <4>3
      <4> QED
        BY <1>0, <1>3, <4>2, <4>4, Kept DEF Whole
    <3> QED
      BY <3>1, <3>2
  <2>2. ASSUME Cutting', NEW x \in Nat, (InText(of, x))', x < Frontier' PROVE (Held(of, x))'
    <3>1. InText(of, x) /\ x < Reach
      BY <1>0, <1>3, <2>2, Kept DEF Reach, InText
    <3> QED
      BY <1>5, <3>1
  <2> QED
    BY <2>1, <2>2 DEF Coverage
<1> HIDE DEF Reach
<1>7. ASSUME NEW n \in 1..Len(out), out[n].kind # "window", out[n].blocks = {of} PROVE out[n].to <= Frontier
  BY <1>1, <1>7 DEF Order
<1>10. ASSUME NEW n \in 1..Len(out) PROVE out[n].to \in Nat
  <2>1. out[n] \in ChunkRecs
    BY <1>0
  <2> QED
    BY <2>1 DEF ChunkRecs
<1>8. CASE out' = out /\ AddsNothing
  <2>1. Order'
    <3>1. ASSUME Cutting', NEW n \in 1..Len(out), out[n].kind # "window", out[n].blocks = {of}
          PROVE out[n].to <= Frontier'
      <4>1. Frontier <= Reach /\ Reach = Frontier'
        BY <1>8, <3>1 DEF AddsNothing, Reach
      <4>2. out[n].to \in Nat
        BY <1>10
      <4> QED
        BY <1>1, <1>7, <3>1, <4>1, <4>2
    <3> QED
      BY <1>0, <1>8, <3>1 DEF Order
  <2> QED
    BY <1>0, <1>1, <1>6, <1>8, <2>1 DEF Extent, Begun
<1>9. CASE \E c \in ChunkRecs : /\ Adds(c) /\ Len(out') = Len(out) + 1 /\ out'[Len(out) + 1] = c
                                /\ \A n \in 1..Len(out) : out'[n] = out[n]
  <2> PICK c \in ChunkRecs : /\ Adds(c) /\ Len(out') = Len(out) + 1 /\ out'[Len(out) + 1] = c
                             /\ \A n \in 1..Len(out) : out'[n] = out[n]
    BY <1>9
  <2>1. /\ c.kind # "window" /\ c.blocks = {of}
        /\ c.kind # "prose" => Frontier <= c.from
        /\ Frontier <= Reach /\ c.from <= c.to /\ c.to <= Reach
        /\ c.from \in Nat /\ c.to \in Nat
    BY DEF Adds, ChunkRecs
  <2>2. \A n \in 1..Len(out') : \/ n \in 1..Len(out) /\ out'[n] = out[n]
                                \/ n = Len(out) + 1 /\ out'[n] = c
    BY <1>4
  <2>3. \A n \in 1..Len(out) : out[n].to \in Nat
    BY <1>10
  <2>4. Order'
    <3>1. ASSUME NEW m \in 1..Len(out'), NEW n \in 1..Len(out'), m < n,
                 out'[m].kind \notin {"window", "prose"}, out'[n].kind \notin {"window", "prose"},
                 out'[m].blocks = out'[n].blocks
          PROVE  out'[m].to <= out'[n].from
      <4>1. CASE n \in 1..Len(out)
        BY <1>4, <2>2, <3>1, <4>1 DEF Order
      <4>2. CASE n = Len(out) + 1
        <5>1. m \in 1..Len(out) /\ out'[m] = out[m] /\ out'[n] = c
          BY <1>4, <2>2, <3>1, <4>2
        <5>2. out[m].to <= Frontier
          BY <1>7, <2>1, <3>1, <5>1
        <5>3. Frontier <= c.from
          BY <2>1, <3>1, <5>1
        <5> QED
          BY <1>1, <2>1, <2>3, <5>1, <5>2, <5>3
      <4> QED
        BY <2>2, <4>1, <4>2
    <3>2. ASSUME Cutting', NEW n \in 1..Len(out'), out'[n].kind # "window", out'[n].blocks = {of}
          PROVE  out'[n].to <= Frontier'
      <4>1. Reach = Frontier'
        BY <3>2 DEF Reach
      <4>2. CASE n \in 1..Len(out)
        <5>1. out'[n] = out[n] /\ out[n].to <= Frontier
          BY <1>7, <3>2, <4>2
        <5> QED
          BY <1>1, <2>1, <2>3, <4>1, <4>2, <5>1
      <4>3. CASE n = Len(out) + 1
        BY <2>1, <4>1, <4>3
      <4> QED
        BY <2>2, <4>2, <4>3
    <3> QED
      BY <1>0, <3>1, <3>2 DEF Order
  <2>5. Extent'
    <3>1. Begun(c)
      <4>1. CASE Turning
        BY <1>2, <2>1, <4>1 DEF Begun
      <4>2. CASE ~Turning
        <5>1. upcoming - 1 \in Nat /\ upcoming - 1 < upcoming
          BY <1>0 DEF ChunkerTypes
        <5>2. c.blocks = {<<"block", upcoming - 1>>}
          BY <1>2, <2>1, <4>2
        <5> QED
          BY <4>2, <5>1, <5>2 DEF Begun
      <4> QED
        BY <4>1, <4>2
    <3>2. \A n \in 1..Len(out') : Begun(out'[n])
      BY <2>2, <3>1 DEF Extent
    <3> QED
      BY <1>0, <1>1, <3>2 DEF Extent, Begun
  <2> QED
    BY <1>6, <2>4, <2>5
<1> QED
  BY <1>4, <1>8, <1>9

(* The block that comes next has no chunks yet. *)
LEMMA NoneYet ==
    ASSUME ChunkerTypes, Extent, NEW n \in 1..Len(out)
    PROVE  /\ out[n] \in ChunkRecs
           /\ <<"block", upcoming>> \notin out[n].blocks
           /\ Turning /\ out[n].kind # "window" => <<"turn", upcoming>> \notin out[n].blocks
           /\ Turning => \A b \in out[n].blocks : b[1] = "turn"
<1>1. out[n] \in ChunkRecs /\ upcoming \in Nat
  BY DEF ChunkerTypes
<1>2. Begun(out[n])
  BY <1>1 DEF ChunkRecs, Extent
<1> QED
  BY <1>1, <1>2 DEF Begun

(* A chunk that has begun still has when the loops move on. *)
LEMMA StillBegun ==
    ASSUME NEW c \in ChunkRecs, Begun(c), Turning' => Turning, upcoming \in Nat, upcoming' \in Nat,
           \/ Turning' = Turning /\ upcoming <= upcoming'
           \/ Turning /\ ~Turning'
    PROVE  (Begun(c))'
<1>1. \A b \in c.blocks : b[2] \in Nat
  BY DEF ChunkRecs, Ids
<1>2. CASE \A b \in c.blocks : b[1] = "turn" /\ (c.kind # "window" /\ Turning => b[2] < upcoming)
  BY <1>1, <1>2 DEF Begun
<1>3. CASE \E i \in Nat : c.blocks = {<<"block", i>>} /\ ~Turning /\ i < upcoming
  BY <1>3 DEF Begun
<1> QED
  BY <1>2, <1>3 DEF Begun

LEMMA StartKeeps ==
    ASSUME ChunkerInvariant, Starts
    PROVE  Coverage' /\ Order' /\ Extent'
<1> USE DEF ChunkerInvariant
<1>0. /\ ChunkerTypes' /\ document' = document /\ out' = out /\ upcoming \in Nat /\ upcoming' \in Nat
      /\ upcoming < upcoming' /\ of' \in Ids /\ out \in Seq(ChunkRecs)
  BY StartTypes, StartFacts DEF ChunkerTypes
<1>1. /\ Cutting' /\ ~Cutting /\ Turning' = Turning
      /\ \A x \in Nat : (InText(of, x))' => ~(x < Frontier')
      /\ \/ Turning /\ of' = <<"turn", upcoming>> /\ OversizedTurn
         \/ ~Turning /\ of' = <<"block", upcoming>> /\ upcoming' = upcoming + 1
  BY StartPosition, StartFacts DEF Cutting, Turning, Called
<1>2. Grows
  BY <1>0 DEF Grows
<1>3. Coverage'
  <2>1. ASSUME NEW b \in Ids, (Past(b))' PROVE (Whole(b))'
    <3>1. BlockIds' = BlockIds
      BY <1>0, <1>2, Kept
    <3>2. /\ b \in BlockIds /\ b # of' /\ b = <<b[1], b[2]>> /\ b[2] \in Nat
          /\ IF b[1] = "turn" THEN Turning => b[2] < upcoming' ELSE ~Turning /\ b[2] < upcoming'
      BY <1>1, <2>1, <3>1 DEF Past, Ids
    <3>3. CASE OversizedTurn /\ Turning
      <4>1. /\ routine = "turns" /\ upcoming <= Turns /\ ActualEnd = upcoming + 1 /\ upcoming' = Advance
        BY <3>3 DEF OversizedTurn
      <4>2. b[1] = "turn" /\ b[2] < Advance /\ of' = <<"turn", upcoming>>
        BY <1>1, <3>2, <3>3, <4>1
      <4>3. b[2] \in 1..Turns
        BY <3>2, <4>2 DEF BlockIds
      <4>4. ~(b[2] > upcoming)
        <5>1. SUFFICES ASSUME b[2] > upcoming PROVE FALSE
          OBVIOUS
        <5>2. Turns \in Nat
          BY DocumentFacts DEF ChunkerTypes
        <5>3. b[2] \in upcoming..Turns
          BY <1>0, <4>3, <5>1, <5>2
        <5>4. b[2] < ActualEnd
          BY <4>1, <4>2, <5>3, WindowFacts
        <5> QED
          BY <1>0, <3>2, <4>1, <5>1, <5>4
      <4>5. b[2] # upcoming
        BY <3>2, <4>2
      <4>6. b[2] < upcoming
        BY <1>0, <3>2, <4>4, <4>5
      <4>7. Past(b)
        BY <1>1, <3>2, <4>2, <4>6 DEF Past
      <4> QED
        BY <1>0, <1>2, <4>7, Kept DEF Coverage
    <3>4. CASE ~Turning
      <4>1. of' = <<"block", upcoming>> /\ upcoming' = upcoming + 1
        BY <1>1, <3>4
      <4>2. b[1] \in {"turn", "block"}
        BY DEF Ids
      <4>3. b[1] # "turn" => b[2] < upcoming
        BY <1>0, <3>2, <4>1, <4>2
      <4>4. Past(b)
        BY <1>1, <3>2, <3>4, <4>3 DEF Past
      <4> QED
        BY <1>0, <1>2, <4>4, Kept DEF Coverage
    <3> QED
      BY <1>1, <3>3, <3>4
  <2>2. ASSUME Cutting', NEW x \in Nat, (InText(of, x))', x < Frontier' PROVE (Held(of, x))'
    BY <1>1, <2>2
  <2> QED
    BY <2>1, <2>2 DEF Coverage
<1>4. Order'
  <2>1. ASSUME NEW n \in 1..Len(out), out[n].kind # "window", out[n].blocks = {of'} PROVE FALSE
    BY <1>1, <2>1, NoneYet
  <2> QED
    BY <1>0, <2>1 DEF Order
<1>5. Extent'
  <2>1. ASSUME NEW n \in 1..Len(out) PROVE (Begun(out[n]))'
    <3>1. out[n] \in ChunkRecs /\ Begun(out[n])
      BY NoneYet DEF Extent
    <3>2. \A c \in ChunkRecs : Begun(c) => (Begun(c))'
      BY <1>0, <1>1, StillBegun
    <3> QED
      BY <1>0, <3>1, <3>2 DEF Begun
  <2> QED
    BY <1>0, <2>1 DEF Extent
<1> QED
  BY <1>3, <1>4, <1>5

LEMMA WindowKeeps ==
    ASSUME ChunkerInvariant, Window
    PROVE  Position' /\ Coverage' /\ Order' /\ Extent'
<1> USE DEF ChunkerInvariant
<1>0. /\ routine = "turns" /\ upcoming <= Turns /\ upcoming' = Advance /\ shrunk' = 0
      /\ UNCHANGED <<document, routine, caller, of, text, line, start, end, pos, row, pending>>
  BY DEF Window, cursors, tableVars
<1>1. /\ upcoming \in Nat /\ upcoming' \in Nat /\ upcoming < upcoming'
      /\ \A i \in upcoming..Turns : i < upcoming' => i < ActualEnd
      /\ ActualEnd \in Nat /\ Turns \in Nat /\ out \in Seq(ChunkRecs)
  BY <1>0, WindowFacts DEF ChunkerTypes
<1>2. Turning /\ Turning' /\ ~Cutting /\ ~Cutting' /\ ~InTable' /\ ~Called'
  BY <1>0 DEF Turning, Cutting, InTable, Called
<1>3. Position'
  BY <1>0, <1>2 DEF Position
<1> PICK c \in ChunkRecs :
       /\ out' = Append(out, c)
       /\ c.kind = "window" /\ c.blocks = {<<"turn", i>> : i \in upcoming..ActualEnd - 1}
  BY WindowChunk
<1>4. /\ Len(out) \in Nat /\ Len(out') = Len(out) + 1 /\ out'[Len(out) + 1] = c
      /\ \A n \in 1..Len(out) : out'[n] = out[n]
  BY <1>1, Appending
<1>5. \A n \in 1..Len(out') : \/ n \in 1..Len(out) /\ out'[n] = out[n]
                              \/ n = Len(out) + 1 /\ out'[n] = c
  BY <1>4
<1>6. Grows
  BY <1>0 DEF Grows
<1>7. Coverage'
  <2>1. ASSUME NEW b \in Ids, (Past(b))' PROVE (Whole(b))'
    <3>1. b \in BlockIds /\ b[1] = "turn" /\ b[2] < upcoming' /\ b = <<b[1], b[2]>> /\ b[2] \in Nat
      BY <1>1, <1>2, <1>6, <2>1, Kept DEF Past, Ids
    <3>2. CASE b[2] < upcoming
      <4>1. Past(b)
        BY <1>2, <3>1, <3>2 DEF Past
      <4> QED
        BY <1>1, <1>6, <4>1, Kept DEF Coverage
    <3>3. CASE ~(b[2] < upcoming)
      <4>1. b[2] \in 1..Turns
        BY <3>1 DEF BlockIds
      <4>2. b[2] \in upcoming..ActualEnd - 1
        BY <1>1, <3>1, <3>3, <4>1
      <4>3. b \in c.blocks
        BY <3>1, <4>2
      <4>4. ASSUME NEW x \in Nat PROVE (Held(b, x))'
        <5>1. Len(out) + 1 \in 1..Len(out') /\ Holds(out'[Len(out) + 1], b, x)
          BY <1>4, <4>3 DEF Holds
        <5> QED
          BY <5>1 DEF Held, Holds
      <4> QED
        BY <4>4 DEF Whole
    <3> QED
      BY <3>2, <3>3
  <2> QED
    BY <1>2, <2>1 DEF Coverage
<1>8. Order'
  BY <1>2, <1>4, <1>5 DEF Order
<1>9. Extent'
  <2>1. \A d \in ChunkRecs : Begun(d) => (Begun(d))'
    BY <1>1, <1>2, StillBegun
  <2>2. (Begun(c))'
    BY DEF Begun
  <2>3. \A n \in 1..Len(out) : out[n] \in ChunkRecs /\ Begun(out[n])
    BY NoneYet DEF Extent
  <2>4. \A n \in 1..Len(out') : out'[n] \in ChunkRecs /\ \E d \in ChunkRecs : d = out'[n] /\ (Begun(d))'
    BY <1>5, <2>1, <2>2, <2>3
  <2> QED
    BY <2>4 DEF Extent, Begun
<1> QED
  BY <1>3, <1>7, <1>8, <1>9

LEMMA OnlyKeeps ==
    ASSUME ChunkerInvariant, HeaderOnly \/ Passthrough
    PROVE  Position' /\ Coverage' /\ Order' /\ Extent'
<1> USE DEF ChunkerInvariant
<1>0. /\ routine = "blocks" /\ upcoming \in 1..Len(document.blocks)
      /\ upcoming' = upcoming + 1 /\ of' = <<"block", upcoming>>
      /\ UNCHANGED <<document, shrunk, routine, caller, text, line, start, end, pos, row, pending>>
  BY OnlyChunk
<1>1. upcoming \in Nat /\ upcoming' \in Nat /\ upcoming < upcoming' /\ out \in Seq(ChunkRecs)
      /\ Len(document.blocks) \in Nat
  BY <1>0, DocumentFacts DEF ChunkerTypes
<1>2. ~Turning /\ ~Turning' /\ ~Cutting /\ ~Cutting' /\ ~InTable' /\ ~Called'
  BY <1>0 DEF Turning, Cutting, InTable, Called
<1>3. Position'
  BY <1>0, <1>1, <1>2 DEF Position
<1> PICK c \in ChunkRecs :
       /\ out' = Append(out, c) /\ c.blocks = {<<"block", upcoming>>}
       /\ \/ c.kind = "header" /\ Block.lines = << >>
          \/ /\ c.kind = "whole" /\ Block.lines # << >>
             /\ c.from = Block.lines[1].start /\ c.to = EndOf(Block.lines)
  BY OnlyChunk
<1>4. /\ Len(out) \in Nat /\ Len(out') = Len(out) + 1 /\ out'[Len(out) + 1] = c
      /\ \A n \in 1..Len(out) : out'[n] = out[n]
  BY <1>1, Appending
<1>5. \A n \in 1..Len(out') : \/ n \in 1..Len(out) /\ out'[n] = out[n]
                              \/ n = Len(out) + 1 /\ out'[n] = c
  BY <1>4
<1>6. Grows
  BY <1>0 DEF Grows
<1>7. Coverage'
  <2>1. ASSUME NEW b \in Ids, (Past(b))' PROVE (Whole(b))'
    <3>1. /\ b \in BlockIds /\ b = <<b[1], b[2]>> /\ b[2] \in Nat /\ b[1] \in {"turn", "block"}
          /\ b[1] # "turn" => b[2] < upcoming + 1
      BY <1>0, <1>1, <1>2, <1>6, <2>1, Kept DEF Past, Ids
    <3>2. CASE b # <<"block", upcoming>>
      <4>3. Past(b)
        <5>1. CASE b[1] = "turn"
          BY <1>2, <3>1, <5>1 DEF Past
        <5>2. CASE b[1] = "block"
          <6>1. b = <<"block", b[2]>>
            BY <3>1, <5>2
          <6>2. b[2] # upcoming
            BY <3>2, <6>1
          <6>3. b[2] < upcoming + 1
            BY <3>1, <5>2
          <6>4. b[2] < upcoming
            BY <1>1, <3>1, <6>2, <6>3
          <6> QED
            BY <1>2, <3>1, <5>2, <6>4 DEF Past
        <5> QED
          BY <3>1, <5>1, <5>2
      <4> QED
        BY <1>1, <1>6, <4>3, Kept DEF Coverage
    <3>3. CASE b = <<"block", upcoming>>
      <4>1. LinesOf(b) = Block.lines /\ IsText(Block.lines)
        BY <1>0, <3>3, StartText DEF LinesOf, Block
      <4>2. ASSUME NEW x \in Nat, InText(b, x) PROVE (Held(b, x))'
        <5>1. PICK i \in 1..Len(Block.lines) : Block.lines[i].start <= x /\ x < Block.lines[i].end
          BY <4>1, <4>2 DEF InText
        <5>2. Len(Block.lines) \in Nat \ {0} /\ Block.lines # << >>
          BY <4>1, <5>1 DEF IsText
        <5>3. /\ Block.lines[1].start <= Block.lines[i].start /\ Block.lines[i].end <= EndOf(Block.lines)
              /\ Block.lines[1].start \in Nat /\ EndOf(Block.lines) \in Nat
              /\ Block.lines[i].start \in Nat /\ Block.lines[i].end \in Nat
          BY <4>1, <5>2, TextEnds, TextFacts
        <5>4. c.from <= x /\ x < c.to
          BY <5>1, <5>2, <5>3
        <5>5. Len(out) + 1 \in 1..Len(out') /\ Holds(out'[Len(out) + 1], b, x)
          BY <1>4, <3>3, <5>4 DEF Holds
        <5> QED
          BY <5>5 DEF Held, Holds
      <4>3. \A x \in Nat : (InText(b, x))' <=> InText(b, x)
        BY <1>1, <1>6, Kept
      <4> QED
        BY <4>2, <4>3 DEF Whole
    <3> QED
      BY <3>2, <3>3
  <2> QED
    BY <1>2, <2>1 DEF Coverage
<1>8. ASSUME NEW n \in 1..Len(out)
      PROVE  out[n].blocks \cap c.blocks = {} /\ out[n].blocks # c.blocks
  BY NoneYet
<1>9. Order'
  <2>1. ASSUME NEW m \in 1..Len(out'), NEW n \in 1..Len(out'), m < n,
               out'[m].kind \notin {"window", "prose"}, out'[n].kind \notin {"window", "prose"},
               out'[m].blocks = out'[n].blocks
        PROVE  out'[m].to <= out'[n].from
    <3>1. m \in 1..Len(out) /\ out'[m] = out[m]
      BY <1>4, <1>5, <2>1
    <3>2. n \in 1..Len(out) /\ out'[n] = out[n]
      BY <1>5, <1>8, <2>1, <3>1
    <3> QED
      BY <2>1, <3>1, <3>2 DEF Order
  <2> QED
    BY <1>2, <2>1 DEF Order
<1>10. Extent'
  <2>0. Turning' = Turning /\ upcoming <= upcoming'
    BY <1>0, <1>1 DEF Turning, Called
  <2>1. ASSUME NEW d \in ChunkRecs, Begun(d) PROVE (Begun(d))'
    BY <1>1, <1>2, <2>0, <2>1, StillBegun
  <2>2. (Begun(c))'
    BY <1>1, <1>2 DEF Begun
  <2>3. \A n \in 1..Len(out) : out[n] \in ChunkRecs /\ Begun(out[n])
    BY NoneYet DEF Extent
  <2>4. \A n \in 1..Len(out') : out'[n] \in ChunkRecs /\ \E d \in ChunkRecs : d = out'[n] /\ (Begun(d))'
    BY <1>5, <2>1, <2>2, <2>3
  <2> QED
    BY <2>4 DEF Extent, Begun
<1> QED
  BY <1>3, <1>7, <1>9, <1>10

(* Shrink, TurnsDone and Finished make no chunk. *)
LEMMA QuietKeeps ==
    ASSUME ChunkerInvariant, Shrink \/ TurnsDone \/ Finished
    PROVE  Position' /\ Coverage' /\ Order' /\ Extent'
<1> USE DEF ChunkerInvariant
<1>0. UNCHANGED <<document, out, of, caller>> /\ out \in Seq(ChunkRecs) /\ upcoming \in Nat \ {0}
  BY DEF Shrink, TurnsDone, Finished, ChunkerTypes
<1>1. Grows
  BY <1>0 DEF Grows
<1>2. ~Cutting /\ ~Cutting' /\ ~InTable' /\ ~Called' /\ (Turning => routine = "turns")
  BY DEF Shrink, TurnsDone, Finished, Turning, Cutting, InTable, Called
<1>3. Order'
  BY <1>0, <1>2 DEF Order
<1>4. CASE Shrink \/ Finished
  <2>1. upcoming' = upcoming /\ Turning' = Turning
    BY <1>4 DEF Shrink, Finished, Turning, Called
  <2>2. Position'
    <3>1. CASE Shrink
      <4>1. /\ routine = "turns" /\ routine' = routine /\ upcoming <= Turns
            /\ ActualEnd > upcoming + 1 /\ shrunk' = ActualEnd - 1
        BY <3>1 DEF Shrink
      <4>2. ActualEnd \in upcoming + 1..WindowEnd /\ WindowEnd \in Nat
        BY <4>1, WindowFacts DEF ChunkerTypes
      <4>3. shrunk' \in upcoming + 1..WindowEnd - 1
        BY <1>0, <4>1, <4>2
      <4>4. Turns' = Turns /\ WindowEnd' = WindowEnd /\ Turning'
        BY <1>0, <2>1, <4>1 DEF Turns, WindowEnd, Turning
      <4> QED
        BY <1>0, <1>2, <2>1, <4>1, <4>3, <4>4 DEF Position
    <3>2. CASE Finished
      <4>1. /\ routine = "blocks" /\ routine' = "done" /\ upcoming > Len(document.blocks)
            /\ shrunk' = shrunk
        BY <3>2 DEF Finished
      <4>2. ~Turning /\ upcoming <= Len(document.blocks) + 1 /\ shrunk = 0
        BY <4>1 DEF Turning, Called, Position
      <4>3. upcoming = Len(document.blocks) + 1
        BY <1>0, <4>1, <4>2, DocumentFacts DEF ChunkerTypes
      <4> QED
        BY <1>0, <1>2, <2>1, <4>1, <4>2, <4>3 DEF Position
    <3> QED
      BY <1>4, <3>1, <3>2
  <2>3. Coverage'
    <3>1. ASSUME NEW b \in Ids, (Past(b))' PROVE (Whole(b))'
      <4>1. Past(b)
        BY <1>0, <1>1, <1>2, <2>1, <3>1, Kept DEF Past
      <4> QED
        BY <1>0, <1>1, <4>1, Kept DEF Coverage
    <3> QED
      BY <1>2, <3>1 DEF Coverage
  <2>4. Extent'
    BY <1>0, <2>1 DEF Extent, Begun
  <2> QED
    BY <1>3, <2>2, <2>3, <2>4
<1>5. CASE TurnsDone
  <2>1. /\ routine = "turns" /\ upcoming > Turns /\ routine' = "blocks" /\ upcoming' = 1 /\ shrunk' = shrunk
    BY <1>5 DEF TurnsDone
  <2>2. Turning /\ ~Turning' /\ Turns \in Nat /\ Len(document.blocks) \in Nat
    BY <2>1, DocumentFacts DEF Turning, Called, ChunkerTypes
  <2>3. Position'
    <3>1. shrunk = 0
      BY <1>0, <2>1, <2>2 DEF Position
    <3> QED
      BY <1>0, <1>2, <2>1, <2>2, <3>1 DEF Position
  <2>4. Coverage'
    <3>1. ASSUME NEW b \in Ids, (Past(b))' PROVE (Whole(b))'
      <4>1. b \in BlockIds /\ b[2] \in Nat /\ (b[1] # "turn" => b[2] < 1)
        BY <1>0, <1>1, <2>1, <2>2, <3>1, Kept DEF Past, Ids
      <4>2. b[1] = "turn" /\ b[2] \in 1..Turns
        BY <4>1 DEF BlockIds
      <4>3. Past(b)
        BY <1>0, <1>2, <2>1, <2>2, <4>1, <4>2 DEF Past
      <4> QED
        BY <1>0, <1>1, <4>3, Kept DEF Coverage
    <3> QED
      BY <1>2, <3>1 DEF Coverage
  <2>5. \A n \in 1..Len(out) : \A b \in out[n].blocks : b[1] = "turn"
    BY <2>2, NoneYet
  <2>6. Extent'
    BY <1>0, <2>2, <2>5 DEF Extent, Begun
  <2> QED
    BY <1>3, <2>3, <2>4, <2>6
<1> QED
  BY <1>4, <1>5

-----------------------------------------------------------------------------
(* What fits the target. *)

LEMMA Scale ==
    ASSUME NEW m \in Nat, NEW n \in Nat, NEW w \in Nat, m <= n
    PROVE  m * w \in Nat /\ n * w \in Nat /\ m * w <= n * w
<1>1. (n - m) * w >= 0
  <2>1. n - m \in Nat
    OBVIOUS
  <2>2. \A d \in Nat : d * w \in Nat
    OBVIOUS
  <2> QED
    BY <2>1, <2>2
<1>2. (n - m) * w = n * w - m * w
  OBVIOUS
<1>3. m * w \in Nat /\ n * w \in Nat
  OBVIOUS
<1> QED
  BY <1>1, <1>2, <1>3

LEMMA FitKept ==
    ASSUME out \in Seq(ChunkRecs), document' = document, ChunksFit,
           out' = out \/ \E c \in ChunkRecs : out' = Append(out, c) /\ FitsTarget(c)
    PROVE  ChunksFit'
<1>1. \A n \in 1..Len(out') : FitsTarget(out'[n])
  <2>1. CASE out' = out
    BY <2>1 DEF ChunksFit
  <2>2. CASE \E c \in ChunkRecs : out' = Append(out, c) /\ FitsTarget(c)
    <3> PICK c \in ChunkRecs : out' = Append(out, c) /\ FitsTarget(c)
      BY <2>2
    <3>1. /\ Len(out) \in Nat /\ Len(out') = Len(out) + 1 /\ out'[Len(out) + 1] = c
          /\ \A n \in 1..Len(out) : out'[n] = out[n]
      BY Appending
    <3>2. \A n \in 1..Len(out') : (n \in 1..Len(out) /\ out'[n] = out[n]) \/ out'[n] = c
      BY <3>1
    <3>3. \A n \in 1..Len(out) : FitsTarget(out[n])
      BY DEF ChunksFit
    <3> HIDE DEF FitsTarget
    <3> QED
      BY <3>2, <3>3
  <2> QED
    BY <2>1, <2>2
<1>2. \A b : LinesOf(b)' = LinesOf(b)
  BY DEF LinesOf
<1>3. \A i, j : TurnsText(i, j)' = TurnsText(i, j)
  BY DEF TurnsText
<1> QED
  BY <1>1, <1>2, <1>3 DEF ChunksFit, FitsTarget

LEMMA FlushFits ==
    ASSUME ChunkerInvariant, routine = "code", FlushRange, document' = document
    PROVE  ChunksFit'
<1> USE DEF ChunkerInvariant
<1>1. ChunksFit /\ out \in Seq(ChunkRecs) /\ start \in Nat /\ end \in Nat /\ of \in Ids
  BY DEF Fit, ChunkerTypes
<1>2. CASE ~(end > start)
  BY <1>1, <1>2, FlushFacts, FitKept
<1>3. CASE end > start
  <2> PICK c \in ChunkRecs : /\ out' = Append(out, c) /\ c.kind = "slice" /\ c.blocks = {of}
                             /\ c.from = start /\ c.to = end
    BY <1>3, FlushFacts
  <2>1. CASE end - start <= Target
    BY <1>1, <2>1, FitKept DEF FitsTarget
  <2>2. CASE line > 1 /\ start = text[line - 1].start /\ text[line - 1].chars <= Target
    <3>1. /\ IsText(text) /\ line \in 1..Len(text) + 1 /\ Len(text) \in Nat
          /\ end = (IF line = 1 THEN text[1].start ELSE text[line - 1].end)
      BY TextFacts DEF Position, Called
    <3> DEFINE l == text[line - 1]
    <3>2. line - 1 \in 1..Len(text) /\ end = l.end
      BY <2>2, <3>1
    <3>3. /\ l.start \in Nat /\ l.chars \in Nat /\ l.width \in Nat
          /\ l.end = l.start + l.chars * l.width
      BY <3>1, <3>2, TextFacts
    <3>4. \E i \in 1..Len(LinesOf(of)) : LinesOf(of)[i] = l
      <4>1. CASE caller # "table"
        BY <3>2, <4>1 DEF Position, Called
      <4>2. CASE caller = "table"
        <5>1. LinesOf(of) = Table.lines /\ row - 1 \in 1..Len(Table.lines) /\ text = <<Table.lines[row - 1]>>
          BY <4>2, TableFacts DEF InTable, Called, Position
        <5>2. l = Table.lines[row - 1]
          BY <3>2, <5>1
        <5> HIDE DEF l
        <5> QED
          BY <5>1, <5>2
      <4> QED
        BY <4>1, <4>2
    <3>5. end - start <= Target * l.width
      <4>1. Target \in Nat /\ l.chars <= Target /\ start = l.start
        BY <2>2, ChunkerAssumption
      <4>2. l.chars * l.width <= Target * l.width /\ l.chars * l.width \in Nat /\ Target * l.width \in Nat
        BY <3>3, <4>1, Scale
      <4> DEFINE p == l.chars * l.width
                 q == Target * l.width
      <4>3. p <= q /\ p \in Nat /\ q \in Nat /\ end = start + p
        BY <3>2, <3>3, <4>1, <4>2
      <4> HIDE DEF p, q
      <4>4. end - start <= q
        BY <1>1, <4>3
      <4> QED
        BY <4>4 DEF q
    <3> HIDE DEF l
    <3>6. start = l.start /\ l.start <= start /\ end <= l.end
      BY <1>1, <2>2, <3>2 DEF l
    <3>7. \E i \in 1..Len(LinesOf(of)) :
             /\ LinesOf(of)[i].start <= c.from /\ c.to <= LinesOf(of)[i].end
             /\ c.to - c.from <= Target * LinesOf(of)[i].width
      BY <3>4, <3>5, <3>6
    <3>8. FitsTarget(c)
      BY <3>7 DEF FitsTarget
    <3> QED
      BY <1>1, <3>8, FitKept
  <2> QED
    BY <2>1, <2>2 DEF Fit
<1> QED
  BY <1>2, <1>3

LEMMA BatchFits ==
    ASSUME ChunkerInvariant, routine = "table", FlushTableBatch, document' = document
    PROVE  ChunksFit'
<1> USE DEF ChunkerInvariant
<1>1. ChunksFit /\ out \in Seq(ChunkRecs)
  BY DEF Fit, ChunkerTypes
<1>2. CASE ~(pending < row)
  BY <1>1, <1>2, BatchFacts, FitKept
<1>3. CASE pending < row
  <2> PICK c \in ChunkRecs : /\ out' = Append(out, c) /\ c.kind = "rows" /\ c.blocks = {of}
                             /\ c.first = pending /\ c.last = row - 1
    BY <1>3, BatchFacts
  <2>1. Size(RowsText(Table, pending, row - 1)) <= Target
    BY <1>3 DEF Fit
  <2>2. FitsTarget(c)
    BY <2>1 DEF FitsTarget, Table
  <2> QED
    BY <1>1, <2>2, FitKept
<1> QED
  BY <1>2, <1>3

LEMMA FitStep ==
    ASSUME ChunkerInvariant, ChunkerNext
    PROVE  Fit'
<1> USE DEF ChunkerInvariant
<1>0. /\ ChunksFit /\ out \in Seq(ChunkRecs) /\ Target \in Nat
      /\ start \in Nat /\ end \in Nat /\ pos \in Nat /\ ChunkerTypes'
  BY TypesStep, ChunkerAssumption DEF Fit, ChunkerTypes
<1>1. CASE Starts
  <2>1. document' = document /\ out' = out
    BY <1>1, StartFacts
  <2>2. ChunksFit'
    BY <1>0, <2>1, FitKept
  <2>3. routine' = "code" => end' - start' <= Target
    <3>1. routine' = "code" => end' = start' /\ start' \in Nat
      BY <1>1, StartFacts
    <3> QED
      BY <1>0, <3>1
  <2>4. routine' = "table" => ~(pending' < row')
    BY <1>1, StartFacts
  <2> QED
    BY <2>2, <2>3, <2>4 DEF Fit
<1>2. CASE Shrink \/ TurnsDone \/ Finished
  <2>1. document' = document /\ out' = out /\ routine' \in {"turns", "blocks", "done"}
    BY <1>2 DEF Shrink, TurnsDone, Finished
  <2> QED
    BY <1>0, <2>1, FitKept DEF Fit
<1>3. CASE HeaderOnly \/ Passthrough
  <2>1. document' = document /\ routine' = "blocks"
    BY <1>3, OnlyChunk
  <2>2. PICK c \in ChunkRecs : out' = Append(out, c) /\ c.kind \in {"header", "whole"}
    BY <1>3, OnlyChunk
  <2>3. FitsTarget(c)
    BY <2>2 DEF FitsTarget
  <2>4. ChunksFit'
    BY <1>0, <2>1, <2>2, <2>3, FitKept
  <2> QED
    BY <2>1, <2>4 DEF Fit
<1>4. CASE Window
  <2>1. document' = document /\ routine' = "turns" /\ WindowFits
    BY <1>4 DEF Window
  <2>2. PICK c \in ChunkRecs : /\ out' = Append(out, c) /\ c.kind = "window"
                               /\ c.first = upcoming /\ c.last = ActualEnd - 1
    BY <1>4, WindowChunk
  <2>3. FitsTarget(c)
    BY <2>1, <2>2 DEF FitsTarget, WindowFits
  <2>4. ChunksFit'
    BY <1>0, <2>1, <2>2, <2>3, FitKept
  <2> QED
    BY <2>1, <2>4 DEF Fit
<1>5. CASE PackLine
  <2>1. /\ routine = "code" /\ routine' = "code" /\ line <= Len(text) /\ text[line].chars <= Target
        /\ line' = line + 1 /\ end' = text[line].end /\ text' = text /\ document' = document
    BY <1>5 DEF PackLine
  <2>2. /\ line \in 1..Len(text) /\ text[line].start = end
        /\ text[line].start \in Nat /\ text[line].end \in Nat /\ start <= end
    BY <2>1, NextLine
  <2>3. CASE (end > start /\ end - start + (text[line].end - text[line].start) > Target) \/ end = start
    <3>1. start' = text[line].start
      BY <1>5, <2>2, <2>3 DEF PackLine
    <3>2. line' > 1 /\ line' - 1 = line
      BY <2>1, <2>2
    <3>3. ChunksFit'
      <4>1. CASE FlushRange
        BY <2>1, <4>1, FlushFits
      <4>2. CASE EmitNothing
        BY <1>0, <2>1, <4>2, FitKept DEF EmitNothing
      <4> QED
        BY <1>5, <4>1, <4>2 DEF PackLine
    <3> QED
      BY <2>1, <3>1, <3>2, <3>3 DEF Fit
  <2>4. CASE ~((end > start /\ end - start + (text[line].end - text[line].start) > Target) \/ end = start)
    <3>1. start' = start /\ EmitNothing
      BY <1>5, <2>4 DEF PackLine
    <3>2. end' - start' <= Target
      BY <1>0, <2>1, <2>2, <2>4, <3>1
    <3>3. ChunksFit'
      BY <1>0, <2>1, <3>1, FitKept DEF EmitNothing
    <3> QED
      BY <2>1, <3>2, <3>3 DEF Fit
  <2> QED
    BY <2>3, <2>4
<1>6. CASE OverlongLine
  <2>1. routine = "code" /\ FlushRange /\ document' = document /\ routine' = "split"
    BY <1>6 DEF OverlongLine
  <2> QED
    BY <2>1, FlushFits DEF Fit
<1>7. CASE SplitPiece
  <2>1. routine = "split" /\ pos < text[line].end /\ document' = document /\ routine' = "split"
    BY <1>7 DEF SplitPiece
  <2>2. PICK window, cut \in 1..Target :
           /\ \/ window * text[line].width = text[line].end - pos
              \/ window * text[line].width < text[line].end - pos
           /\ cut = window \/ cut < window
           /\ Emit(Chunk("slice", {of}, <<pos, pos + cut * text[line].width>>, NoItems))
    BY <1>7 DEF SplitPiece
  <2>3. IsText(text) /\ line \in 1..Len(text) /\ text[line].start <= pos
    BY <2>1 DEF Position, Called
  <2> DEFINE l == text[line]
             step == cut * l.width
             most == window * l.width
             c == Chunk("slice", {of}, <<pos, pos + step>>, NoItems)
  <2>4. l.start \in Nat /\ l.end \in Nat /\ l.width \in Nat \ {0}
    BY <2>3, TextFacts
  <2>5. window \in Nat /\ cut \in Nat /\ cut <= window /\ cut <= Target
    BY <1>0, <2>2
  <2>6. step \in Nat /\ most \in Nat /\ step <= most /\ step <= Target * l.width /\ Target * l.width \in Nat
    <3>1. window \in Nat /\ cut \in Nat /\ Target \in Nat /\ l.width \in Nat
      BY <1>0, <2>4, <2>5
    <3> HIDE DEF l
    <3> QED
      BY <2>5, <3>1, Scale
  <2>7. l.end - pos \in Int
    BY <1>0, <2>4
  <2>8. pos + step <= l.end
    <3>1. most <= l.end - pos
      BY <2>2, <2>6, <2>7
    <3> HIDE DEF step, most, l
    <3> QED
      BY <1>0, <2>4, <2>6, <3>1
  <2>10. out' = Append(out, c)
    BY <2>2 DEF Emit
  <2> HIDE DEF step
  <2>11. c \in ChunkRecs /\ c.kind = "slice" /\ c.blocks = {of} /\ c.from = pos /\ c.to = pos + step
    BY <1>0, <2>6 DEF Chunk, NoItems, ChunkRecs, Forms, ChunkerTypes
  <2> HIDE DEF c
  <2>12. \E i \in 1..Len(LinesOf(of)) : LinesOf(of)[i] = l
    <3>1. CASE caller # "table"
      BY <2>1, <2>3, <3>1 DEF Position, Called
    <3>2. CASE caller = "table"
      <4>1. LinesOf(of) = Table.lines /\ row - 1 \in 1..Len(Table.lines) /\ text = <<Table.lines[row - 1]>>
        BY <2>1, <3>2, TableFacts DEF InTable, Called, Position
      <4>2. l = Table.lines[row - 1]
        BY <2>3, <4>1
      <4> HIDE DEF l
      <4> QED
        BY <4>1, <4>2
    <3> QED
      BY <3>1, <3>2
  <2> HIDE DEF l
  <2>13. l.start <= pos
    BY <2>3 DEF l
  <2>14. \E i \in 1..Len(LinesOf(of)) :
            /\ LinesOf(of)[i].start <= c.from /\ c.to <= LinesOf(of)[i].end
            /\ c.to - c.from <= Target * LinesOf(of)[i].width
    <3>1. l.start <= c.from /\ c.to <= l.end
      BY <2>8, <2>11, <2>13
    <3>2. c.from = pos /\ c.to = pos + step /\ c.to \in Nat /\ c.from \in Nat
      BY <2>11 DEF ChunkRecs
    <3> DEFINE q == Target * l.width
    <3>3. step <= q /\ q \in Nat
      BY <2>6
    <3> HIDE DEF q
    <3>4. c.to - c.from <= q
      BY <1>0, <2>6, <3>2, <3>3
    <3>5. c.to - c.from <= Target * l.width
      BY <3>4 DEF q
    <3> QED
      BY <2>12, <3>1, <3>5
  <2>15. FitsTarget(c)
    BY <2>11, <2>14 DEF FitsTarget
  <2>16. ChunksFit'
    BY <1>0, <2>1, <2>10, <2>11, <2>15, FitKept
  <2> QED
    BY <2>1, <2>16 DEF Fit
<1>8. CASE SplitDone
  <2>1. /\ routine' = "code" /\ document' = document /\ out' = out /\ end' = start'
    BY <1>8 DEF SplitDone, EmitNothing
  <2>2. end' - start' <= Target
    <3>1. end' \in Nat /\ end' = start'
      BY <1>0, <2>1 DEF ChunkerTypes
    <3>2. \A n \in Nat : n - n <= Target
      BY <1>0
    <3> QED
      BY <3>1, <3>2, Zenon
  <2> QED
    BY <1>0, <2>1, <2>2, FitKept DEF Fit
<1>9. CASE PackDone
  <2>1. /\ routine = "code" /\ FlushRange /\ document' = document /\ routine' = caller
        /\ pending' = pending /\ row' = row
    BY <1>9 DEF PackDone, tableVars
  <2>2. routine' # "code" /\ (routine' = "table" => ~(pending' < row'))
    BY <2>1 DEF Position, Called, ChunkerTypes
  <2> QED
    BY <2>1, <2>2, FlushFits DEF Fit
<1>10. CASE ProsePiece
  <2>1. document' = document /\ routine' = "prose" /\ of \in Ids
    BY <1>10 DEF ProsePiece, ChunkerTypes
  <2>2. PICK c : out' = Append(out, c) /\ c.kind = "prose"
    BY <1>10 DEF ProsePiece, Emit, Chunk
  <2>3. c \in ChunkRecs
    <3>1. out' \in Seq(ChunkRecs) /\ Len(out') = Len(out) + 1 /\ out'[Len(out) + 1] = c
      BY <1>0, <2>2 DEF ChunkerTypes
    <3>2. Len(out) + 1 \in 1..Len(out')
      BY <1>0, <3>1
    <3> QED
      BY <3>1, <3>2
  <2>4. FitsTarget(c)
    BY <2>2 DEF FitsTarget
  <2>5. ChunksFit'
    BY <1>0, <2>1, <2>2, <2>3, <2>4, FitKept
  <2> QED
    BY <2>1, <2>5 DEF Fit
<1>11. CASE ProseDone
  <2>1. document' = document /\ out' = out /\ routine' = caller /\ routine = "prose"
    BY <1>11 DEF ProseDone
  <2>2. routine' \notin {"code", "table"}
    BY <2>1 DEF Position, Called, ChunkerTypes
  <2> QED
    BY <1>0, <2>1, <2>2, FitKept DEF Fit
<1>12. CASE RowJoins
  <2>1. /\ document' = document /\ out' = out /\ routine' = "table" /\ row' = row + 1
        /\ pending' = pending /\ of' = of /\ RowFitsBatch /\ row \in Nat
    BY <1>12 DEF RowJoins, EmitNothing, ChunkerTypes
  <2>2. Size(RowsText(Table, pending, row)) <= Target /\ row' - 1 = row /\ Table' = Table
    BY <2>1 DEF RowFitsBatch, Table
  <2> QED
    BY <1>0, <2>1, <2>2, FitKept DEF Fit, RowsText
<1>13. CASE RowFlushes
  <2>1. /\ document' = document /\ routine = "table" /\ FlushTableBatch /\ routine' = "table"
        /\ row' = row + 1 /\ pending' = row /\ of' = of /\ RowFitsAlone /\ row \in Nat
    BY <1>13 DEF RowFlushes, ChunkerTypes
  <2>2. Size(RowsText(Table, row, row)) <= Target /\ row' - 1 = row /\ Table' = Table
    BY <2>1 DEF RowFitsAlone, Table
  <2> QED
    BY <2>1, <2>2, BatchFits DEF Fit, RowsText
<1>14. CASE RowOversized
  <2>1. /\ document' = document /\ routine = "table" /\ FlushTableBatch /\ routine' = "code"
        /\ end' = start'
    BY <1>14 DEF RowOversized, ChunkCode
  <2>2. end' - start' <= Target
    <3>1. end' \in Nat /\ end' = start'
      BY <1>0, <2>1 DEF ChunkerTypes
    <3>2. \A n \in Nat : n - n <= Target
      BY <1>0
    <3> QED
      BY <3>1, <3>2, Zenon
  <2> QED
    BY <2>1, <2>2, BatchFits DEF Fit
<1>15. CASE TableDone
  <2>1. document' = document /\ routine = "table" /\ FlushTableBatch /\ routine' = "blocks"
    BY <1>15 DEF TableDone
  <2> QED
    BY <2>1, BatchFits DEF Fit
<1> QED
  BY <1>1, <1>2, <1>3, <1>4, <1>5, <1>6, <1>7, <1>8, <1>9, <1>10, <1>11, <1>12, <1>13, <1>14, <1>15
     DEF ChunkerNext, chunk_messages, chunk_blocks, chunk_code, chunk_prose, chunk_table, Starts

-----------------------------------------------------------------------------
(* The invariant holds. *)

LEMMA ChunkerStarts ==
    ASSUME ChunkerInit
    PROVE  ChunkerInvariant
<1>1. /\ document \in Documents /\ routine = "turns" /\ caller = "turns" /\ upcoming = 1 /\ shrunk = 0
      /\ of = <<"turn", 0>> /\ text = << >> /\ line = 1 /\ start = 0 /\ end = 0 /\ pos = 0
      /\ row = 1 /\ pending = 1 /\ out = << >> /\ Len(out) = 0
  BY DEF ChunkerInit
<1>2. ChunkerTypes
  BY <1>1 DEF ChunkerTypes, Ids
<1>3. Turning /\ ~Cutting /\ ~InTable /\ ~Called
  BY <1>1 DEF Turning, Cutting, InTable, Called
<1>4. Position
  BY <1>1, <1>3 DEF Position
<1>5. Coverage
  <2>1. ASSUME NEW b \in Ids, Past(b) PROVE FALSE
    <3>1. b \in BlockIds /\ b[1] = "turn" /\ b[2] < 1
      BY <1>1, <1>3, <2>1 DEF Past
    <3>2. b[2] \in 1..Turns /\ Turns \in Nat
      BY <1>1, <3>1, DocumentFacts DEF BlockIds
    <3> QED
      BY <3>1, <3>2
  <2> QED
    BY <1>3, <2>1 DEF Coverage
<1>6. Order /\ Extent /\ Fit
  <2>1. 1..Len(out) = {}
    BY <1>1
  <2> QED
    BY <1>1, <1>3, <2>1 DEF Order, Extent, Fit, ChunksFit
<1> QED
  BY <1>2, <1>4, <1>5, <1>6 DEF ChunkerInvariant

LEMMA ChunkerStep ==
    ASSUME ChunkerInvariant, [ChunkerNext]_chunkerVars
    PROVE  ChunkerInvariant'
<1>1. CASE ChunkerNext
  <2>1. ChunkerTypes' /\ Fit'
    BY <1>1, TypesStep, FitStep DEF ChunkerInvariant
  <2>2. Position' /\ Coverage' /\ Order' /\ Extent'
    <3>1. CASE Starts
      BY <3>1, StartKeeps, StartPosition DEF ChunkerInvariant
    <3>2. CASE Cuts
      BY <3>2, CutKeeps, CutStep DEF ChunkerInvariant
    <3>3. CASE Window
      BY <3>3, WindowKeeps
    <3>4. CASE HeaderOnly \/ Passthrough
      BY <3>4, OnlyKeeps
    <3>5. CASE Shrink \/ TurnsDone \/ Finished
      BY <3>5, QuietKeeps
    <3> QED
      BY <1>1, <3>1, <3>2, <3>3, <3>4, <3>5
         DEF ChunkerNext, chunk_messages, chunk_blocks, Starts, Cuts
  <2> QED
    BY <2>1, <2>2 DEF ChunkerInvariant
<1>2. CASE UNCHANGED chunkerVars
  <2>1. UNCHANGED <<document, routine, caller, upcoming, shrunk, of, text, line, start, end, pos, row,
                    pending, out>>
    BY <1>2 DEF chunkerVars, cursors, tableVars
  <2>2. /\ Turning' = Turning /\ Cutting' = Cutting /\ Called' = Called /\ InTable' = InTable
        /\ Table' = Table /\ Turns' = Turns /\ WindowEnd' = WindowEnd
    BY <2>1 DEF Turning, Cutting, Called, InTable, Table, Turns, WindowEnd
  <2>3. Frontier' = Frontier /\ BlockIds' = BlockIds
    BY <2>1, <2>2 DEF Frontier, BlockIds
  <2>4. /\ \A b : LinesOf(b)' = LinesOf(b)
        /\ \A b : (Past(b))' <=> Past(b)
        /\ \A b, x : (InText(b, x))' <=> InText(b, x)
        /\ \A b, x : (Held(b, x))' <=> Held(b, x)
    BY <2>1, <2>2, <2>3 DEF LinesOf, Past, InText, Held, Holds
  <2>5. ChunkerTypes'
    BY <2>1 DEF ChunkerInvariant, ChunkerTypes
  <2>6. Position'
    BY <2>1, <2>2, <2>4 DEF ChunkerInvariant, Position, LinesOf
  <2>7. Coverage'
    <3>1. ASSUME NEW b \in Ids, (Past(b))' PROVE (Whole(b))'
      BY <2>4, <3>1 DEF ChunkerInvariant, Coverage, Whole
    <3>2. ASSUME Cutting', NEW x \in Nat, (InText(of, x))', x < Frontier' PROVE (Held(of, x))'
      BY <2>1, <2>2, <2>3, <3>2 DEF ChunkerInvariant, Coverage, InText, LinesOf, Held, Holds
    <3> QED
      BY <3>1, <3>2 DEF Coverage
  <2>8. Order'
    BY <2>1, <2>2, <2>3 DEF ChunkerInvariant, Order
  <2>9. Extent'
    BY <2>1, <2>2 DEF ChunkerInvariant, Extent, Begun
  <2>10. Fit'
    <3>1. ChunksFit'
      BY <2>1, FitKept DEF ChunkerInvariant, ChunkerTypes, Fit
    <3> QED
      BY <2>1, <2>2, <3>1 DEF ChunkerInvariant, Fit, RowsText
  <2> QED
    BY <2>5, <2>6, <2>7, <2>8, <2>9, <2>10 DEF ChunkerInvariant
<1> QED
  BY <1>1, <1>2

(* The loops of chunk_blocks cut each block once and in order: what is in    *)
(* chunks so far is what lies below the loop's own position, in the sizes    *)
(* and under the numbers the code means to give.                             *)
THEOREM ChunkerInvariantHolds == ChunkerSpec => []ChunkerInvariant
<1>1. ChunkerInit => ChunkerInvariant
  BY ChunkerStarts
<1>2. ChunkerInvariant /\ [ChunkerNext]_chunkerVars => ChunkerInvariant'
  BY ChunkerStep
<1> QED
  BY <1>1, <1>2, PTL DEF ChunkerSpec

(* chunk_blocks loses no text of any document and puts none twice into       *)
(* slices or row batches of one block, for every target, overlap, window,    *)
(* stride no longer than the window, and sizer.                              *)
THEOREM NoTextLost == ChunkerSpec => []TextKept
<1>1. ChunkerInvariant => TextKept
  <2> SUFFICES ASSUME ChunkerInvariant PROVE TextKept
    OBVIOUS
  <2>1. ASSUME routine = "done", NEW b \in BlockIds, NEW i \in 1..Len(LinesOf(b)),
               NEW x \in LinesOf(b)[i].start..LinesOf(b)[i].end - 1
        PROVE  \E n \in 1..Len(out) : Holds(out[n], b, x)
    <3>1. /\ ~Turning /\ ~Cutting /\ document \in Documents
          /\ upcoming = Len(document.blocks) + 1 /\ Len(document.blocks) \in Nat
      BY <2>1, DocumentFacts DEF ChunkerInvariant, ChunkerTypes, Position, Turning, Cutting, Called
    <3>2. \/ \E j \in 1..Turns : b = <<"turn", j>>
          \/ \E j \in 1..Len(document.blocks) : b = <<"block", j>>
      BY DEF BlockIds
    <3>3. b \in Ids /\ IsText(LinesOf(b))
      BY <3>1, <3>2, DocumentFacts DEF Ids, LinesOf, Turns
    <3>4. Past(b)
      BY <3>1, <3>2, <3>3 DEF Past
    <3>5. x \in Nat /\ InText(b, x)
      <4>1. LinesOf(b)[i].start \in Nat /\ LinesOf(b)[i].end \in Nat
        BY <3>3, TextFacts
      <4>2. x \in Nat /\ LinesOf(b)[i].start <= x /\ x < LinesOf(b)[i].end
        BY <4>1
      <4> QED
        BY <4>2 DEF InText
    <3> QED
      BY <3>3, <3>4, <3>5 DEF ChunkerInvariant, Coverage, Whole, Held
  <2> QED
    BY <2>1 DEF TextKept, ChunkerInvariant, Order
<1> QED
  BY <1>1, ChunkerInvariantHolds, PTL

(* A window, a table batch, a packed slice and a piece of an overlong line   *)
(* fit the target, for every document and every sizer: the last in           *)
(* characters, however wide these are.                                       *)
THEOREM ChunksAlwaysFit == ChunkerSpec => []ChunksFit
<1>1. ChunkerInvariant => ChunksFit
  BY DEF ChunkerInvariant, Fit
<1> QED
  BY <1>1, ChunkerInvariantHolds, PTL
=============================================================================
