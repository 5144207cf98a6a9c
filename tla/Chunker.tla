------------------------------ MODULE Chunker ------------------------------
(***************************************************************************)
(* chunk_blocks (core/src/chunker): a document's blocks are cut into the    *)
(* chunks that are embedded and searched.  Each loop of the code is an      *)
(* action per round: the sliding window over the turns of a conversation,   *)
(* the line packer chunk_code with its split of overlong lines, and the     *)
(* table packer, which calls chunk_code for a row that fits no chunk.       *)
(*                                                                          *)
(* A text is its lines, and a line is where it starts and ends (bytes), its *)
(* characters and the bytes each of them takes.  Where a line has blanks is *)
(* not modelled: a cut backs off to any place the code allows.  Blocks      *)
(* without text are filtered out first and are no part of a document; turns *)
(* (Message and Segment blocks) are cut first and are kept apart from the   *)
(* others.  text_splitter::MarkdownSplitter is external: it cuts a prose    *)
(* text into pieces, each of which may begin before the end of the last.    *)
(***************************************************************************)
EXTENDS Integers, Sequences

CONSTANTS
    Documents,      \* [preset, turns, blocks]
    Target,         \* resolved_target_tokens()
    Overlap,        \* resolved_overlap_tokens()
    WindowTurns,    \* resolved_window_turns()
    StrideTurns,    \* resolved_stride_turns()
    Size(_)         \* the ChunkSizer: size of a sequence of texts, joined

Lines == [start : Nat, end : Nat, chars : Nat \ {0}, width : Nat \ {0}]

(* Lines that follow one another, as line_offsets yields them; of a table,   *)
(* the data rows, with blank rows and line ends between them.                *)
IsText(t) ==
    /\ t \in Seq(Lines)
    /\ \A i \in 1..Len(t) : t[i].end = t[i].start + t[i].chars * t[i].width
    /\ \A i, j \in 1..Len(t) : i < j => t[i].end <= t[j].start

Contiguous(t) ==
    /\ t # << >>
    /\ \A i \in 1..Len(t) - 1 : t[i].end = t[i + 1].start

(* flat: a text one of chunk_prose's two probes finds to have no structure.  *)
(* parsed: a table with a header and a separator row.                        *)
TurnBlocks == [lines : Seq(Lines), flat : BOOLEAN]
OtherBlocks ==
    [kind : {"code", "text", "table", "reference"}, lines : Seq(Lines),
     header : Lines, parsed : BOOLEAN, flat : BOOLEAN]

IsDocument(d) ==
    /\ d \in [preset : {"prose", "code"}, turns : Seq(TurnBlocks), blocks : Seq(OtherBlocks)]
    /\ \A i \in 1..Len(d.turns) : IsText(d.turns[i].lines) /\ Contiguous(d.turns[i].lines)
    /\ \A i \in 1..Len(d.blocks) :
          /\ IsText(d.blocks[i].lines)
          /\ (d.blocks[i].kind = "table" /\ d.blocks[i].parsed) \/ Contiguous(d.blocks[i].lines)

(* No preset has a window shorter than its stride. *)
ASSUME ChunkerAssumption ==
    /\ Target \in Nat \ {0} /\ Overlap \in Nat /\ WindowTurns \in Nat \ {0}
    /\ StrideTurns \in Nat /\ StrideTurns <= WindowTurns
    /\ \A d \in Documents : IsDocument(d)

VARIABLES
    document,   \* the document being cut
    routine,    \* the loop that runs
    caller,     \* the loop that called chunk_code or chunk_prose
    upcoming,   \* the next turn, then the next block
    shrunk,     \* fit_window_end's actual_end once it has shrunk the window, or 0
    of,         \* the block being cut: <<"turn", i>> or <<"block", i>>
    text,       \* chunk_code's argument, where it is in the block
    line,       \* its next line
    start,      \* current_start
    end,        \* current_end
    pos,        \* split_overlong_line's pos, or how far the prose splitter is
    row,        \* chunk_table's next data row
    pending,    \* the rows it holds back: from this one to row - 1
    out         \* the chunks so far

chunkerVars ==
    <<document, routine, caller, upcoming, shrunk, of, text, line, start, end, pos, row, pending, out>>
cursors == <<text, line, start, end, pos>>
tableVars == <<row, pending>>

LinesOf(b) == IF b[1] = "turn" THEN document.turns[b[2]].lines ELSE document.blocks[b[2]].lines
EndOf(t) == t[Len(t)].end

ChunkerInit ==
    /\ document \in Documents
    /\ routine = "turns" /\ caller = "turns" /\ upcoming = 1 /\ shrunk = 0
    /\ of = <<"turn", 0>> /\ text = << >> /\ line = 1
    /\ start = 0 /\ end = 0 /\ pos = 0
    /\ row = 1 /\ pending = 1
    /\ out = << >>

-----------------------------------------------------------------------------
(* A chunk: the blocks its text is from, the bytes of the block it holds,    *)
(* and the turns or rows it was put together from.  Its number in its block  *)
(* and its id, which chunk_each and chunk_blocks stamp once all is cut, are  *)
(* its position and left out.                                                *)

NoBytes == <<0, 0>>
NoItems == <<0, 0>>
Chunk(form, bs, bytes, items) ==
    [kind |-> form, blocks |-> bs, from |-> bytes[1], to |-> bytes[2],
     first |-> items[1], last |-> items[2]]

Emit(c) == out' = Append(out, c)
EmitNothing == out' = out

(* flush_range: an empty range is no chunk. *)
FlushRange ==
    IF end > start THEN Emit(Chunk("slice", {of}, <<start, end>>, NoItems)) ELSE EmitNothing

(* chunk_code(t), on behalf of a loop; t's bytes are counted in the block.   *)
ChunkCode(t, back) ==
    /\ routine' = "code" /\ caller' = back
    /\ text' = t /\ line' = 1
    /\ start' = t[1].start /\ end' = t[1].start
    /\ UNCHANGED pos

(* chunk_prose(t): what has no structure is left to chunk_code. *)
ChunkProse(t, flat, back) ==
    IF flat
    THEN ChunkCode(t, back)
    ELSE /\ routine' = "prose" /\ caller' = back
         /\ pos' = t[1].start
         /\ text' = t
         /\ UNCHANGED <<line, start, end>>

-----------------------------------------------------------------------------
(* chunk_messages *)

Turns == Len(document.turns)
WindowEnd == IF upcoming + WindowTurns <= Turns THEN upcoming + WindowTurns ELSE Turns + 1
TurnsText(first, last) == SubSeq(document.turns, first, last)

(* fit_window_end's actual_end: the whole window to begin with. *)
ActualEnd == IF shrunk = 0 THEN WindowEnd ELSE shrunk
WindowFits == Size(TurnsText(upcoming, ActualEnd - 1)) <= Target

(* Variant: the next window is a stride on, whatever this one covered. *)
AdvanceByStride == upcoming + (IF StrideTurns = 0 THEN 1 ELSE StrideTurns)

(* A window that was shrunk is followed by the turns it left out. *)
Advance ==
    IF ActualEnd < WindowEnd
    THEN ActualEnd
    ELSE upcoming + (IF StrideTurns = 0 THEN 1 ELSE StrideTurns)

(* One turn less, while there are several and they do not fit. *)
Shrink ==
    /\ routine = "turns" /\ upcoming <= Turns
    /\ ~WindowFits /\ ActualEnd > upcoming + 1
    /\ shrunk' = ActualEnd - 1
    /\ UNCHANGED <<document, routine, caller, upcoming, of, cursors, tableVars, out>>

Window ==
    /\ routine = "turns" /\ upcoming <= Turns
    /\ WindowFits
    /\ Emit(Chunk("window", {<<"turn", i>> : i \in upcoming..ActualEnd - 1},
                  NoBytes, <<upcoming, ActualEnd - 1>>))
    /\ upcoming' = Advance /\ shrunk' = 0
    /\ UNCHANGED <<document, routine, caller, of, cursors, tableVars>>

OversizedTurn ==
    /\ routine = "turns" /\ upcoming <= Turns
    /\ ~WindowFits /\ ActualEnd = upcoming + 1
    /\ of' = <<"turn", upcoming>>
    /\ ChunkProse(document.turns[upcoming].lines, document.turns[upcoming].flat, "turns")
    /\ upcoming' = Advance /\ shrunk' = 0
    /\ EmitNothing
    /\ UNCHANGED <<document, tableVars>>

(* The other blocks are next. *)
TurnsDone ==
    /\ routine = "turns" /\ upcoming > Turns
    /\ routine' = "blocks" /\ upcoming' = 1
    /\ UNCHANGED <<document, shrunk, caller, of, cursors, tableVars, out>>

-----------------------------------------------------------------------------
(* chunk_blocks, for one block after the other *)

Block == document.blocks[upcoming]

(* FORMATS: the first format that claims the block. *)
Format ==
    CASE Block.kind = "code" \/ (Block.kind = "text" /\ document.preset = "code") -> "code"
      [] Block.kind = "text" /\ document.preset # "code" -> "prose"
      [] Block.kind = "table" -> "table"
      [] OTHER -> "passthrough"

BeginBlock(format) ==
    /\ routine = "blocks" /\ upcoming <= Len(document.blocks)
    /\ Format = format
    /\ upcoming' = upcoming + 1
    /\ of' = <<"block", upcoming>>
    /\ UNCHANGED <<document, shrunk>>

CodeBlock ==
    /\ BeginBlock("code")
    /\ ChunkCode(Block.lines, "blocks")
    /\ UNCHANGED <<tableVars, out>>

ProseBlock ==
    /\ BeginBlock("prose")
    /\ ChunkProse(Block.lines, Block.flat, "blocks")
    /\ UNCHANGED <<tableVars, out>>

MalformedTable ==
    /\ BeginBlock("table") /\ ~Block.parsed
    /\ ChunkCode(Block.lines, "blocks")
    /\ UNCHANGED <<tableVars, out>>

HeaderOnly ==
    /\ BeginBlock("table") /\ Block.parsed /\ Block.lines = << >>
    /\ Emit(Chunk("header", {<<"block", upcoming>>}, NoBytes, NoItems))
    /\ UNCHANGED <<routine, caller, cursors, tableVars>>

TableBlock ==
    /\ BeginBlock("table") /\ Block.parsed /\ Block.lines # << >>
    /\ routine' = "table"
    /\ row' = 1 /\ pending' = 1
    /\ UNCHANGED <<caller, cursors, out>>

Passthrough ==
    /\ BeginBlock("passthrough")
    /\ Emit(Chunk("whole", {<<"block", upcoming>>}, <<Block.lines[1].start, EndOf(Block.lines)>>,
                      NoItems))
    /\ UNCHANGED <<routine, caller, cursors, tableVars>>

Finished ==
    /\ routine = "blocks" /\ upcoming > Len(document.blocks)
    /\ routine' = "done"
    /\ UNCHANGED <<document, shrunk, caller, upcoming, of, cursors, tableVars, out>>

-----------------------------------------------------------------------------
(* chunk_code *)

(* Variant: only what is current is compared with the target. *)
PackLineLate ==
    /\ routine = "code" /\ line <= Len(text) /\ text[line].chars <= Target
    /\ LET l == text[line]
           over == end > start /\ end - start > Target
       IN /\ IF over THEN FlushRange ELSE EmitNothing
          /\ start' = IF over \/ end = start THEN l.start ELSE start
          /\ end' = l.end
    /\ line' = line + 1
    /\ UNCHANGED <<document, shrunk, routine, caller, upcoming, of, text, pos, tableVars>>

(* A line that fits: what is current is flushed first when the line would    *)
(* take it over the target (bytes against a budget of characters).           *)
PackLine ==
    /\ routine = "code" /\ line <= Len(text) /\ text[line].chars <= Target
    /\ LET l == text[line]
           over == end > start /\ end - start + (l.end - l.start) > Target
       IN /\ IF over THEN FlushRange ELSE EmitNothing
          /\ start' = IF over \/ end = start THEN l.start ELSE start
          /\ end' = l.end
    /\ line' = line + 1
    /\ UNCHANGED <<document, shrunk, routine, caller, upcoming, of, text, pos, tableVars>>

(* An overlong line: flush, then split_overlong_line. *)
OverlongLine ==
    /\ routine = "code" /\ line <= Len(text) /\ text[line].chars > Target
    /\ FlushRange
    /\ routine' = "split" /\ pos' = text[line].start
    /\ UNCHANGED <<document, shrunk, caller, upcoming, of, text, line, start, end, tableVars>>

(* One piece: the target's characters or what is left, cut back to a blank   *)
(* only if more than half of them stays.                                     *)
SplitPiece ==
    /\ routine = "split" /\ pos < text[line].end
    /\ \E window, cut \in 1..Target :
          LET l == text[line]
              left == l.end - pos
          IN /\ window * l.width = left \/ (window = Target /\ window * l.width < left)
             /\ cut = window \/ (cut < window /\ cut * 2 > window)
             /\ Emit(Chunk("slice", {of}, <<pos, pos + cut * l.width>>, NoItems))
             /\ pos' = pos + cut * l.width
    /\ UNCHANGED <<document, shrunk, routine, caller, upcoming, of, text, line, start, end, tableVars>>

SplitDone ==
    /\ routine = "split" /\ pos >= text[line].end
    /\ routine' = "code" /\ line' = line + 1
    /\ start' = text[line].end /\ end' = text[line].end
    /\ EmitNothing
    /\ UNCHANGED <<document, shrunk, caller, upcoming, of, text, pos, tableVars>>

PackDone ==
    /\ routine = "code" /\ line > Len(text)
    /\ FlushRange
    /\ routine' = caller
    /\ UNCHANGED <<document, shrunk, caller, upcoming, of, cursors, tableVars>>

(* The splitter is asked to overlap only by less than its pieces' least size. *)
ProseStarts ==
    IF 0 < Overlap /\ Overlap < (Target * 3) \div 4 THEN text[1].start..pos ELSE {pos}

(* MarkdownSplitter's chunk_indices; the blanks it trims count to the piece. *)
ProsePiece ==
    /\ routine = "prose" /\ pos < EndOf(text)
    /\ \E from \in ProseStarts, to \in pos + 1..EndOf(text) :
          Emit(Chunk("prose", {of}, <<from, to>>, NoItems)) /\ pos' = to
    /\ UNCHANGED <<document, shrunk, routine, caller, upcoming, of, text, line, start, end, tableVars>>

ProseDone ==
    /\ routine = "prose" /\ pos >= EndOf(text)
    /\ routine' = caller
    /\ UNCHANGED <<document, shrunk, caller, upcoming, of, cursors, tableVars, out>>

-----------------------------------------------------------------------------
(* chunk_table *)

Table == document.blocks[of[2]]
RowsText(t, first, last) == <<t.header>> \o SubSeq(t.lines, first, last)
PendingChunk ==
    Chunk("rows", {of}, <<Table.lines[pending].start, Table.lines[row - 1].end>>, <<pending, row - 1>>)

(* flush_table_batch *)
FlushTableBatch ==
    IF pending < row THEN Emit(PendingChunk) ELSE EmitNothing

RowFitsAlone == Size(RowsText(Table, row, row)) <= Target
RowFitsBatch == Size(RowsText(Table, pending, row)) <= Target

RowJoins ==
    /\ routine = "table" /\ row <= Len(Table.lines)
    /\ RowFitsAlone /\ RowFitsBatch
    /\ row' = row + 1
    /\ EmitNothing
    /\ UNCHANGED <<document, shrunk, routine, caller, upcoming, of, cursors, pending>>

RowFlushes ==
    /\ routine = "table" /\ row <= Len(Table.lines)
    /\ RowFitsAlone /\ ~RowFitsBatch
    /\ FlushTableBatch
    /\ pending' = row /\ row' = row + 1
    /\ UNCHANGED <<document, shrunk, routine, caller, upcoming, of, cursors>>

(* A row that fits no chunk with the header goes through chunk_code alone.   *)
RowOversized ==
    /\ routine = "table" /\ row <= Len(Table.lines)
    /\ ~RowFitsAlone
    /\ FlushTableBatch
    /\ ChunkCode(<<Table.lines[row]>>, "table")
    /\ pending' = row + 1 /\ row' = row + 1
    /\ UNCHANGED <<document, shrunk, upcoming, of>>

TableDone ==
    /\ routine = "table" /\ row > Len(Table.lines)
    /\ FlushTableBatch
    /\ routine' = "blocks" /\ pending' = row
    /\ UNCHANGED <<document, shrunk, caller, upcoming, of, cursors, row>>

-----------------------------------------------------------------------------
chunk_messages == Shrink \/ Window \/ OversizedTurn \/ TurnsDone
chunk_blocks ==
    CodeBlock \/ ProseBlock \/ MalformedTable \/ HeaderOnly \/ TableBlock \/ Passthrough \/ Finished
chunk_code == PackLine \/ OverlongLine \/ SplitPiece \/ SplitDone \/ PackDone
chunk_prose == ProsePiece \/ ProseDone
chunk_table == RowJoins \/ RowFlushes \/ RowOversized \/ TableDone

ChunkerNext == chunk_messages \/ chunk_blocks \/ chunk_code \/ chunk_prose \/ chunk_table

ChunkerSpec == ChunkerInit /\ [][ChunkerNext]_chunkerVars

-----------------------------------------------------------------------------
BlockIds ==
    {<<"turn", i>> : i \in 1..Turns} \cup {<<"block", i>> : i \in 1..Len(document.blocks)}

Holds(c, b, x) == b \in c.blocks /\ (c.kind = "window" \/ (c.from <= x /\ x < c.to))

InText(b, x) == \E i \in 1..Len(LinesOf(b)) : LinesOf(b)[i].start <= x /\ x < LinesOf(b)[i].end

(* Every byte of every block is in a chunk of that block once the document   *)
(* is cut, and no byte is in two but by design, in windows over turns and in *)
(* the pieces of a prose text: chunks follow one another.  Neither a window  *)
(* that was shrunk to the budget, an overlong line amid others nor a row too *)
(* long for its table loses or repeats text.  (A table's header is in its    *)
(* packed chunks: a table none of whose rows fits with the header is indexed *)
(* without it.)                                                              *)
TextKept ==
    /\ routine = "done" =>
          \A b \in BlockIds : \A i \in 1..Len(LinesOf(b)) :
             \A x \in LinesOf(b)[i].start..LinesOf(b)[i].end - 1 :
                \E n \in 1..Len(out) : Holds(out[n], b, x)
    /\ \A m, n \in 1..Len(out) :
          /\ m < n
          /\ out[m].kind \notin {"window", "prose"} /\ out[n].kind \notin {"window", "prose"}
          /\ out[m].blocks = out[n].blocks
          => out[m].to <= out[n].from

(* What the chunkers put together themselves is within the budget: a window  *)
(* or a table batch by the sizer, a packed or split text by its characters,  *)
(* however many bytes these take.  (Left out: prose pieces are the           *)
(* splitter's, and those of an oversized turn get its label on top; blocks   *)
(* passed through and tables without rows are not measured.)                 *)
FitsTarget(c) ==
    CASE c.kind = "window" -> Size(TurnsText(c.first, c.last)) <= Target
      [] c.kind = "rows" ->
            \A b \in c.blocks : Size(RowsText(document.blocks[b[2]], c.first, c.last)) <= Target
      [] c.kind = "slice" ->
            \/ c.to - c.from <= Target
            \/ \E b \in c.blocks : \E i \in 1..Len(LinesOf(b)) :
                  /\ LinesOf(b)[i].start <= c.from /\ c.to <= LinesOf(b)[i].end
                  /\ c.to - c.from <= Target * LinesOf(b)[i].width
      [] OTHER -> TRUE
ChunksFit == \A n \in 1..Len(out) : FitsTarget(out[n])

=============================================================================
