--------------------------- MODULE MarkdownProofs ---------------------------
(***************************************************************************)
(* Theorems about module MarkdownBlocks, for every document, nesting and    *)
(* set of heading levels: the blocks are faithful to it.                    *)
(*                                                                          *)
(* The run that is being gathered, the elements on the stack and the blocks *)
(* so far are places, and each step moves what a place holds as a whole to  *)
(* one place, and a new piece to one.  So no piece is ever in two, and what *)
(* a place is tells what its pieces are in.  Steps are reduced to such      *)
(* moves first (Move, Carries), and the invariant is kept by every move.    *)
(***************************************************************************)
EXTENDS MarkdownBlocks, Lemmas

(* What a state is made of. *)
Tags == Handled \cup TableParts \cup {"row", "tight", "loose", "term"}
Elements == [tag : Tags, at : Nat, parts : SUBSET Tags]
Pieces == [at : Nat, unit : Nat, home : Nat, adrift : BOOLEAN]
Bounds == [at : Nat, unit : Nat]
Histories ==
    [elements : Nat, pieces : SUBSET Pieces, bounds : SUBSET Bounds, fragment : Nat, ended : BOOLEAN]
Texts == Seq(Seq(Nat))
Actives ==
    [kind : Handled, level : 0 .. 6, start : Nat, text : Texts,
     lines : Texts, row : Texts, cell : Texts, inHead : BOOLEAN]
Accums == [texts : Texts, start : Nat]
Blocks == [kind : Structural \cup {"text"}, level : 0 .. 6, text : Seq(Nat), start : Nat]

MarkdownTypeOK ==
    /\ open \in Seq(Elements) /\ offset \in Nat \ {0} /\ seen \in Histories
    /\ stack \in Seq(Actives) /\ accum \in Accums /\ converted \in Seq(Blocks)

(* The pieces of a string or of several, and that each is there once. *)
Said(s) == ToSet(s) \ {0}
Held(ss) == UNION {Said(ss[k]) : k \in 1 .. Len(ss)}
Once(s) == \A i, j \in 1 .. Len(s) : s[i] = s[j] => i = j \/ s[i] = 0
OnceAll(ss) ==
    /\ \A k \in 1 .. Len(ss) : Once(ss[k])
    /\ \A k, l \in 1 .. Len(ss) : k # l => Said(ss[k]) \cap Said(ss[l]) = {}

HeldBy(b) == Held(b.text) \cup Held(b.lines) \cup Held(b.row) \cup Held(b.cell)
InStack(i) == HeldBy(stack[i])
InAccum == Held(accum.texts)
InBlock(n) == Said(converted[n].text)

(* The open elements of the parser. *)
Flowing == {"quote", "list", "tight", "loose"}
Nested ==
    /\ seen.fragment < offset
    /\ \A i \in 1 .. Len(open) :
        /\ open[i].at \in 1 .. offset - 1 /\ open[i].at # seen.fragment
        /\ open[i].tag \notin Flowing => open[i].at > seen.fragment
        /\ open[i].tag \in {"head", "row"} => i > 1 /\ open[i - 1].tag = "table"
        /\ open[i].tag = "cell" => i > 1 /\ open[i - 1].tag \in {"head", "row"}
        /\ \A j \in i + 1 .. Len(open) :
            /\ open[i].at < open[j].at
            /\ open[i].tag \notin Flowing => open[j].tag \in {"image", "head", "row", "cell"}

(* The stack has those the code knows that no fragment has closed. *)
Mirrors ==
    /\ \A i \in 1 .. Len(stack) :
        /\ stack[i].start > seen.fragment
        /\ \E j \in 1 .. Len(open) : open[j].tag = stack[i].kind /\ open[j].at = stack[i].start
        /\ \A j \in i + 1 .. Len(stack) : stack[i].start < stack[j].start
    /\ \A j \in 1 .. Len(open) :
        open[j].tag \in Handled /\ open[j].at > seen.fragment =>
            \E i \in 1 .. Len(stack) : stack[i].start = open[j].at

(* A table keeps its text in cells, rows and lines, and knows where it is. *)
IsOpen(tag) == \E j \in 1 .. Len(open) : open[j].tag = tag
Fits(b) ==
    /\ b.kind = "heading" => b.level \in 1 .. 6
    /\ b.kind = "table" => b.text = << >>
    /\ b.kind # "table" => b.lines = << >> /\ b.row = << >> /\ b.cell = << >>
TablesFilled ==
    \A i \in 1 .. Len(stack) : stack[i].kind = "table" =>
        /\ stack[i].inHead <=> IsOpen("head")
        /\ stack[i].row # << >> => IsOpen("row")
        /\ stack[i].cell # << >> => IsOpen("cell")

(* Each piece has one place. *)
OnceIn(b) ==
    /\ OnceAll(b.text) /\ OnceAll(b.lines) /\ OnceAll(b.row) /\ OnceAll(b.cell)
    /\ Held(b.lines) \cap Held(b.row) = {} /\ Held(b.lines) \cap Held(b.cell) = {}
    /\ Held(b.row) \cap Held(b.cell) = {}
AccumSound(acc) ==
    /\ OnceAll(acc.texts)
    /\ acc.texts = << >> <=> acc.start = 0
    /\ \A k \in 1 .. Len(acc.texts) : acc.texts[k] # << >>
Sound ==
    /\ \A i \in 1 .. Len(stack) : OnceIn(stack[i]) /\ Fits(stack[i])
    /\ AccumSound(accum)
    /\ \A n \in 1 .. Len(converted) :
        /\ Once(converted[n].text)
        /\ converted[n].kind = "heading" => converted[n].level \in 1 .. 6 /\ converted[n].text # << >>
(* Where a piece may be: the run that is being gathered is place 0, the      *)
(* elements on the stack are the places below it, the blocks those above.    *)
Places == -Len(stack) .. Len(converted)
HeldIn(k) == IF k = 0 THEN InAccum ELSE IF k < 0 THEN InStack(-k) ELSE InBlock(k)
StartOf(k) == IF k = 0 THEN accum.start ELSE IF k < 0 THEN stack[-k].start ELSE converted[k].start
IsRun(k) ==
    \/ k = 0
    \/ k < 0 /\ stack[-k].kind \notin Structural
    \/ k > 0 /\ converted[k].kind = "text"
HomeOf(k) == IF IsRun(k) THEN 0 ELSE StartOf(k)

Apart == \A k, l \in Places : k # l => HeldIn(k) \cap HeldIn(l) = {}

Accounted ==
    /\ \A k \in Places : \A x \in HeldIn(k) : \E p \in seen.pieces : p.at = x
    /\ \A p \in seen.pieces : p.adrift \/ \E k \in Places : p.at \in HeldIn(k)
    /\ \A p, q \in seen.pieces : p.at = q.at => p = q

(* Events are in order, and so are the outermost elements they are in. *)
Ordered ==
    /\ \A e \in seen.pieces \cup seen.bounds :
        /\ e.at \in 1 .. offset - 1 /\ e.unit \in 1 .. e.at
        /\ open # << >> => e.unit = open[1].at \/ e.at < open[1].at
    /\ \A e, f \in seen.pieces \cup seen.bounds : e.at < f.at => e.unit = f.unit \/ e.at < f.unit
    /\ \A p \in seen.pieces : p.home = 0 \/ p.home \in p.unit .. p.at

(* Where a piece is tells what it is in. *)
Placed ==
    \A p \in seen.pieces : \A k \in Places : p.at \in HeldIn(k) =>
        /\ p.home = HomeOf(k) /\ StartOf(k) \in 1 .. p.at
        /\ k < 0 => open # << >> /\ p.unit = open[1].at

(* A run starts no earlier than the outermost element of its first piece. *)
StartsAfter(s, start) == s # << >> /\ \A p \in seen.pieces : p.at = s[1] => p.unit <= start
Started ==
    /\ accum.texts # << >> =>
        accum.start \in 1 .. offset - 1 /\ StartsAfter(accum.texts[1], accum.start)
    /\ \A n \in 1 .. Len(converted) :
        converted[n].kind = "text" => StartsAfter(converted[n].text, converted[n].start)

(* Runs are split at the bounds between them, and nowhere else. *)
Split(p, q) == \E b \in seen.bounds : b.at >= p.unit /\ (b.at <= q.at \/ b.unit = q.unit)
Runs == {p \in seen.pieces : p.home = 0}
Closed ==
    ~seen.ended =>
        \A p \in Runs : \A k \in 1 .. Len(converted) :
            p.at \in HeldIn(k) => \E b \in seen.bounds : p.at < b.at
SplitAtBounds ==
    \A p, q \in Runs : \A k, l \in Places :
        p.at < q.at /\ p.at \in HeldIn(k) /\ q.at \in HeldIn(l) /\ k # l /\ (k > 0 \/ l > 0) => Split(p, q)
BoundsClose ==
    \A p \in Runs : \A b \in seen.bounds : \A k \in Places :
        p.at < b.at /\ b.unit # p.unit /\ p.at \in HeldIn(k) => k > 0
BoundsPart ==
    \A p, q \in Runs : \A b \in seen.bounds : \A k, l \in 1 .. Len(converted) :
        p.at < b.at /\ b.at < q.at /\ b.unit # p.unit /\ p.at \in HeldIn(k) /\ q.at \in HeldIn(l) => k < l
RunsSplit == Closed /\ SplitAtBounds /\ BoundsClose /\ BoundsPart

Finished == seen.ended => open = << >> /\ accum.texts = << >>

MarkdownInvariant ==
    /\ MarkdownTypeOK
    /\ Nested /\ Mirrors /\ TablesFilled
    /\ Sound /\ Apart /\ Accounted
    /\ Ordered /\ Placed /\ Started /\ RunsSplit
    /\ Finished

-----------------------------------------------------------------------------
(* Sequences and texts. *)

(* All but the last. *)
LEMMA FrontIs ==
    ASSUME NEW S, NEW s \in Seq(S), s # << >>
    PROVE  /\ Len(s) \in Nat \ {0} /\ Last(s) = s[Len(s)] /\ Last(s) \in S
           /\ Front(s) \in Seq(S) /\ Len(Front(s)) = Len(s) - 1
           /\ \A i \in 1 .. Len(s) - 1 : Front(s)[i] = s[i]
<1>1. Len(s) \in Nat \ {0} /\ \A i \in 1 .. Len(s) : s[i] \in S
  OBVIOUS
<1>2. PICK n \in Nat \ {0} : n = Len(s)
  BY <1>1
<1>3. \A i \in 1 .. n - 1 : s[i] \in S /\ 1 + i - 1 = i
  BY <1>1, <1>2
<1>4. /\ SubSeq(s, 1, n - 1) \in Seq(S)
      /\ Len(SubSeq(s, 1, n - 1)) = IF 1 <= n - 1 THEN n - 1 - 1 + 1 ELSE 0
      /\ \A i \in 1 .. n - 1 - 1 + 1 : SubSeq(s, 1, n - 1)[i] = s[1 + i - 1]
  <2>1. 1 \in Int /\ n - 1 \in Int
    OBVIOUS
  <2> QED
    BY <1>3, <2>1, SubSeqProperties
<1>5. n - 1 - 1 + 1 = n - 1 /\ (IF 1 <= n - 1 THEN n - 1 - 1 + 1 ELSE 0) = n - 1
  OBVIOUS
<1>6. Front(s) = SubSeq(s, 1, n - 1) /\ Last(s) = s[n]
  BY <1>2 DEF Front, Last
<1> HIDE DEF Front, Last
<1> QED
  BY <1>1, <1>2, <1>3, <1>4, <1>5, <1>6

(* A sequence whose last member is replaced. *)
LEMMA TopChanges ==
    ASSUME NEW S, NEW s \in Seq(S), s # << >>, NEW e \in S
    PROVE  /\ Append(Front(s), e) \in Seq(S) /\ Len(Append(Front(s), e)) = Len(s)
           /\ Append(Front(s), e)[Len(s)] = e
           /\ \A i \in 1 .. Len(s) - 1 : Append(Front(s), e)[i] = s[i]
<1>1. /\ Len(s) \in Nat \ {0} /\ Front(s) \in Seq(S) /\ Len(Front(s)) = Len(s) - 1
      /\ \A i \in 1 .. Len(s) - 1 : Front(s)[i] = s[i]
  BY FrontIs
<1>2. PICK f \in Seq(S) : f = Front(s)
  BY <1>1
<1>3. PICK n \in Nat \ {0} : n = Len(s)
  BY <1>1
<1>4. /\ Append(f, e) \in Seq(S) /\ Len(Append(f, e)) = Len(f) + 1
      /\ \A i \in 1 .. Len(f) : Append(f, e)[i] = f[i]
      /\ Append(f, e)[Len(f) + 1] = e
  BY AppendProperties
<1>5. Len(f) = n - 1 /\ Len(f) + 1 = n
  BY <1>1, <1>2, <1>3
<1> QED
  BY <1>1, <1>2, <1>3, <1>4, <1>5

(* One more. *)
LEMMA AppendIs ==
    ASSUME NEW S, NEW s \in Seq(S), NEW e \in S
    PROVE  /\ Append(s, e) \in Seq(S) /\ Append(s, e) # << >> /\ Len(Append(s, e)) = Len(s) + 1
           /\ \A i \in 1 .. Len(s) : Append(s, e)[i] = s[i]
           /\ Append(s, e)[Len(s) + 1] = e
BY AppendProperties

(* What FlattenSeq makes of strings. *)
LEMMA FlattenStrings ==
    ASSUME NEW S, NEW parts \in Seq(Seq(S))
    PROVE  FlattenSeq(parts) = Strung(parts)[Len(parts)]
<1>1. PICK len \in Nat : len = Len(parts)
  OBVIOUS
<1> DEFINE flat == CHOOSE g : g = [i \in 1 .. len |-> IF i = 1 THEN parts[i] ELSE g[i - 1] \o parts[i]]
<1>2. PICK strung : strung = Strung(parts)
  OBVIOUS
<1>3. /\ strung \in [0 .. len -> Seq(S)] /\ strung[0] = << >>
      /\ \A i \in 1 .. len : strung[i] = strung[i - 1] \o parts[i]
  BY <1>1, <1>2, Strings
<1>4. \A i \in 1 .. len : parts[i] \in Seq(S)
  BY <1>1
<1>5. CASE len = 0
  <2>1. parts = << >>
    BY <1>1, <1>5, EmptySeq
  <2>2. FlattenSeq(parts) = << >>
    BY <1>1, <1>5, <2>1 DEF FlattenSeq
  <2> QED
    BY <1>1, <1>2, <1>3, <1>5, <2>2
<1>6. CASE len # 0
  <2> DEFINE cut == [i \in 1 .. len |-> strung[i]]
  <2>1. strung[1] = parts[1]
    <3>1. 1 \in 1 .. len /\ 1 - 1 = 0
      BY <1>6
    <3>2. strung[1] = strung[0] \o parts[1]
      BY <1>3, <3>1
    <3>3. parts[1] \in Seq(S)
      BY <1>4, <3>1
    <3>4. << >> \o parts[1] = parts[1]
      BY <3>3, ConcatEmptySeq
    <3> QED
      BY <1>3, <3>2, <3>4
  <2>2. cut = [i \in 1 .. len |-> IF i = 1 THEN parts[i] ELSE cut[i - 1] \o parts[i]]
    <3>1. ASSUME NEW i \in 1 .. len
          PROVE  strung[i] = IF i = 1 THEN parts[i] ELSE cut[i - 1] \o parts[i]
      <4>1. CASE i = 1
        BY <2>1, <4>1
      <4>2. CASE i # 1
        <5>1. i - 1 \in 1 .. len
          BY <4>2
        <5>2. cut[i - 1] = strung[i - 1]
          BY <5>1
        <5> QED
          BY <1>3, <4>2, <5>2
      <4> QED
        BY <4>1, <4>2
    <3> QED
      BY <3>1
  <2> HIDE DEF cut
  <2>3. flat = [i \in 1 .. len |-> IF i = 1 THEN parts[i] ELSE flat[i - 1] \o parts[i]]
    BY <2>2
  <2>4. FlattenSeq(parts) = flat[len]
    BY <1>1, <1>6 DEF FlattenSeq
  <2> HIDE DEF flat
  <2>5. /\ flat[1] = parts[1]
        /\ \A i \in 1 .. len : i # 1 => flat[i] = flat[i - 1] \o parts[i]
    <3>1. \A i \in 1 .. len : flat[i] = IF i = 1 THEN parts[i] ELSE flat[i - 1] \o parts[i]
      BY <2>3
    <3>2. 1 \in 1 .. len
      BY <1>6
    <3> QED
      BY <3>1, <3>2
  <2> DEFINE Same == {n \in Nat : n \in 1 .. len => flat[n] = strung[n]}
  <2>6. 0 \in Same
    OBVIOUS
  <2>7. ASSUME NEW n \in Nat, n \in Same
        PROVE  n + 1 \in Same
    <3> SUFFICES ASSUME n + 1 \in 1 .. len
                 PROVE  flat[n + 1] = strung[n + 1]
      OBVIOUS
    <3>1. CASE n = 0
      <4>1. n + 1 = 1
        BY <3>1
      <4> QED
        BY <2>1, <2>5, <4>1
    <3>2. CASE n # 0
      <4>1. n \in 1 .. len /\ (n + 1) - 1 = n /\ n + 1 # 1
        BY <3>2
      <4>2. flat[n] = strung[n]
        BY <2>7, <4>1
      <4>3. PICK m : m = n + 1
        OBVIOUS
      <4>4. m \in 1 .. len /\ m - 1 = n /\ m # 1
        BY <4>1, <4>3
      <4>5. flat[m] = flat[n] \o parts[m]
        BY <2>5, <4>4
      <4>6. strung[m] = strung[n] \o parts[m]
        BY <1>3, <4>4
      <4> QED
        BY <4>2, <4>3, <4>5, <4>6
    <3> QED
      BY <3>1, <3>2
  <2> HIDE DEF Same
  <2>8. Nat \subseteq Same
    BY <2>6, <2>7, Induction
  <2> USE DEF Same
  <2>9. flat[len] = strung[len]
    <3>1. len \in 1 .. len /\ len \in Same
      BY <1>6, <2>8
    <3> QED
      BY <3>1
  <2> QED
    BY <1>1, <1>2, <2>4, <2>9
<1> QED
  BY <1>5, <1>6

(* Strings of pieces and blanks. *)
LEMMA SaidBoth ==
    ASSUME NEW s \in Seq(Nat), NEW t \in Seq(Nat)
    PROVE  /\ s \o t \in Seq(Nat) /\ Said(s \o t) = Said(s) \cup Said(t)
           /\ Once(s) /\ Once(t) /\ Said(s) \cap Said(t) = {} => Once(s \o t)
<1>1. /\ s \o t \in Seq(Nat) /\ Len(s \o t) = Len(s) + Len(t)
      /\ \A i \in 1 .. Len(s) : (s \o t)[i] = s[i]
      /\ \A i \in 1 .. Len(t) : (s \o t)[Len(s) + i] = t[i]
  BY Concatenation
<1>2. Said(s \o t) = Said(s) \cup Said(t)
  BY JoinedMembers DEF Said
<1>3. PICK u : u = s \o t
  OBVIOUS
<1>4. PICK m \in Nat, n \in Nat : m = Len(s) /\ n = Len(t)
  OBVIOUS
<1>5. \A i \in 1 .. Len(u) : \/ i \in 1 .. m /\ u[i] = s[i]
                             \/ i \notin 1 .. m /\ i - m \in 1 .. n /\ u[i] = t[i - m]
  <2> TAKE i \in 1 .. Len(u)
  <2>1. CASE i \in 1 .. m
    BY <1>1, <1>3, <1>4, <2>1
  <2>2. CASE i \notin 1 .. m
    <3>1. i - m \in 1 .. n /\ m + (i - m) = i
      BY <1>1, <1>3, <1>4, <2>2
    <3>2. u[m + (i - m)] = t[i - m]
      BY <1>1, <1>3, <1>4, <3>1
    <3> QED
      BY <2>2, <3>1, <3>2
  <2> QED
    BY <2>1, <2>2
<1>6. ASSUME Once(s), Once(t), Said(s) \cap Said(t) = {}
      PROVE  Once(u)
  <2> SUFFICES ASSUME NEW i \in 1 .. Len(u), NEW j \in 1 .. Len(u), u[i] = u[j], u[i] # 0
               PROVE  i = j
    BY DEF Once
  <2>1. CASE i \in 1 .. m /\ j \in 1 .. m
    BY <1>4, <1>5, <1>6, <2>1 DEF Once
  <2>2. CASE i \notin 1 .. m /\ j \notin 1 .. m
    <3>1. /\ i - m \in 1 .. n /\ u[i] = t[i - m]
          /\ j - m \in 1 .. n /\ u[j] = t[j - m]
      BY <1>5, <2>2
    <3>2. i - m = j - m
      BY <1>4, <1>6, <3>1 DEF Once
    <3> QED
      BY <1>1, <1>3, <1>4, <3>2
  <2>3. ASSUME NEW k \in 1 .. Len(u), NEW l \in 1 .. Len(u), k \in 1 .. m, l \notin 1 .. m, u[k] = u[l], u[k] # 0
        PROVE  FALSE
    <3>1. u[k] = s[k] /\ l - m \in 1 .. n /\ u[l] = t[l - m]
      BY <1>5, <2>3
    <3>2. \A v \in Seq(Nat) : \A h \in 1 .. Len(v) : v[h] # 0 => v[h] \in Said(v)
      BY DEF Said, ToSet
    <3>3. s[k] # 0 /\ t[l - m] # 0 /\ k \in 1 .. Len(s) /\ l - m \in 1 .. Len(t)
      BY <1>4, <2>3, <3>1
    <3>4. u[k] \in Said(s) /\ u[k] \in Said(t)
      BY <2>3, <3>1, <3>2, <3>3
    <3> QED
      BY <1>6, <3>4
  <2> QED
    BY <2>1, <2>2, <2>3
<1> QED
  BY <1>1, <1>2, <1>3, <1>6

(* What the code puts between pieces says nothing. *)
LEMMA GapsSayNothing ==
    ASSUME NEW gap \in {<< >>, Blank}
    PROVE  gap \in Seq(Nat) /\ Said(gap) = {} /\ Once(gap)
<1>1. CASE gap = << >>
  BY <1>1 DEF Said, Once, ToSet
<1>2. CASE gap = Blank
  <2>1. gap \in Seq(Nat) /\ Len(gap) = 1 /\ gap[1] = 0 /\ DOMAIN gap = 1 .. 1
    BY <1>2 DEF Blank
  <2>2. Once(gap)
    BY <2>1 DEF Once
  <2>3. Said(gap) = {}
    BY <2>1 DEF Said, ToSet
  <2> QED
    BY <2>1, <2>2, <2>3
<1> QED
  BY <1>1, <1>2

(* Strings that say different things, each once, say them once together. *)
LEMMA StrungOnce ==
    ASSUME NEW parts \in Seq(Seq(Nat)), OnceAll(parts)
    PROVE  Once(Strung(parts)[Len(parts)])
<1>1. PICK len \in Nat : len = Len(parts)
  OBVIOUS
<1>2. PICK strung : strung = Strung(parts)
  OBVIOUS
<1>3. /\ strung \in [0 .. len -> Seq(Nat)] /\ strung[0] = << >>
      /\ \A i \in 1 .. len : strung[i] = strung[i - 1] \o parts[i]
  BY <1>1, <1>2, Strings
<1>4. \A i \in 1 .. len : parts[i] \in Seq(Nat) /\ Once(parts[i])
  BY <1>1 DEF OnceAll
<1>5. \A n \in 0 .. len : \A x \in ToSet(strung[n]) : \E k \in 1 .. n : x \in ToSet(parts[k])
  BY <1>1, <1>2, StrungMembers
<1> DEFINE Good == {n \in Nat : n \in 0 .. len => Once(strung[n])}
<1>6. 0 \in Good
  <2>1. Once(<< >>)
    BY DEF Once
  <2> QED
    BY <1>3, <2>1
<1>7. ASSUME NEW n \in Nat, n \in Good
      PROVE  n + 1 \in Good
  <2> SUFFICES ASSUME n + 1 \in 0 .. len
               PROVE  Once(strung[n + 1])
    OBVIOUS
  <2>1. n \in 0 .. len /\ n + 1 \in 1 .. len /\ (n + 1) - 1 = n
    OBVIOUS
  <2>2. strung[n + 1] = strung[n] \o parts[n + 1] /\ strung[n] \in Seq(Nat) /\ parts[n + 1] \in Seq(Nat)
    BY <1>3, <1>4, <2>1
  <2>3. Once(strung[n]) /\ Once(parts[n + 1])
    BY <1>4, <1>7, <2>1
  <2>4. Said(strung[n]) \cap Said(parts[n + 1]) = {}
    <3> SUFFICES ASSUME NEW x, x \in Said(strung[n]), x \in Said(parts[n + 1])
                 PROVE  FALSE
      OBVIOUS
    <3>1. PICK k \in 1 .. n : x \in ToSet(parts[k])
      BY <1>5, <2>1 DEF Said
    <3>2. k # n + 1 /\ k \in 1 .. len /\ x \in Said(parts[k])
      BY <2>1, <3>1 DEF Said
    <3> QED
      BY <1>1, <2>1, <3>2 DEF OnceAll
  <2> QED
    BY <2>2, <2>3, <2>4, SaidBoth
<1> HIDE DEF Good
<1>8. Nat \subseteq Good
  BY <1>6, <1>7, Induction
<1>9. len \in Good /\ len \in 0 .. len
  BY <1>8
<1> QED
  BY <1>1, <1>2, <1>9 DEF Good

(* The first string starts them all. *)
LEMMA StrungStart ==
    ASSUME NEW parts \in Seq(Seq(Nat)), parts # << >>, parts[1] # << >>
    PROVE  Strung(parts)[Len(parts)] # << >> /\ Strung(parts)[Len(parts)][1] = parts[1][1]
<1>1. PICK len \in Nat : len = Len(parts)
  OBVIOUS
<1>2. PICK strung : strung = Strung(parts)
  OBVIOUS
<1>3. /\ strung \in [0 .. len -> Seq(Nat)] /\ strung[0] = << >>
      /\ \A i \in 1 .. len : strung[i] = strung[i - 1] \o parts[i]
  BY <1>1, <1>2, Strings
<1>4. len # 0 /\ \A i \in 1 .. len : parts[i] \in Seq(Nat)
  BY <1>1
<1> DEFINE Start(s) == s # << >> /\ s[1] = parts[1][1]
           Good == {n \in Nat : n \in 1 .. len => Start(strung[n])}
<1>5. 0 \in Good
  OBVIOUS
<1>6. ASSUME NEW n \in Nat, n \in Good
      PROVE  n + 1 \in Good
  <2> SUFFICES ASSUME n + 1 \in 1 .. len
               PROVE  Start(strung[n + 1])
    OBVIOUS
  <2>1. n \in 0 .. len /\ (n + 1) - 1 = n
    OBVIOUS
  <2>2. strung[n + 1] = strung[n] \o parts[n + 1] /\ strung[n] \in Seq(Nat) /\ parts[n + 1] \in Seq(Nat)
    BY <1>3, <1>4, <2>1
  <2>3. CASE n = 0
    <3>1. strung[n] \o parts[n + 1] = parts[n + 1]
      BY <1>3, <2>2, <2>3, ConcatEmptySeq
    <3>2. n + 1 = 1
      BY <2>3
    <3> QED
      BY <2>2, <3>1, <3>2
  <2>4. CASE n # 0
    <3>1. Start(strung[n])
      BY <1>6, <2>1, <2>4
    <3>2. PICK s \in Seq(Nat), t \in Seq(Nat) : s = strung[n] /\ t = parts[n + 1]
      BY <2>2
    <3>3. 1 \in 1 .. Len(s)
      BY <3>1, <3>2, EmptySeq
    <3>4. (s \o t)[1] = s[1] /\ Len(s \o t) = Len(s) + Len(t)
      BY <3>3, Concatenation
    <3>5. s \o t # << >>
      BY <3>3, <3>4
    <3> QED
      BY <2>2, <3>1, <3>2, <3>4, <3>5
  <2> QED
    BY <2>3, <2>4
<1> HIDE DEF Good
<1>7. Nat \subseteq Good
  BY <1>5, <1>6, Induction
<1>8. len \in Good /\ len \in 1 .. len
  BY <1>4, <1>7
<1> QED
  BY <1>1, <1>2, <1>8 DEF Good

(* Joined strings say what the strings say, each thing once, and start the *)
(* same.                                                                   *)
LEMMA JoinedIs ==
    ASSUME NEW ss \in Texts, NEW gap \in {<< >>, Blank}
    PROVE  /\ Joined(ss, gap) \in Seq(Nat) /\ Said(Joined(ss, gap)) = Held(ss)
           /\ OnceAll(ss) => Once(Joined(ss, gap))
           /\ ss # << >> /\ ss[1] # << >> => Joined(ss, gap) # << >> /\ Joined(ss, gap)[1] = ss[1][1]
<1>1. PICK len \in Nat : len = Len(ss)
  BY DEF Texts
<1>2. ss \in Seq(Seq(Nat)) /\ DOMAIN ss = 1 .. len /\ \A k \in 1 .. len : ss[k] \in Seq(Nat)
  BY <1>1 DEF Texts
<1>3. gap \in Seq(Nat) /\ Said(gap) = {} /\ Once(gap)
  BY GapsSayNothing
<1> DEFINE e(k) == IF k = 1 THEN ss[k] ELSE gap \o ss[k]
           parts == [k \in 1 .. len |-> e(k)]
<1>4. \A s \in Seq(Nat) : gap \o s \in Seq(Nat) /\ Said(gap \o s) = Said(s) /\ (Once(s) => Once(gap \o s))
  BY ZenonT(40), <1>3, SaidBoth
<1> HIDE DEF Blank
<1>5. \A k \in 1 .. len : e(k) \in Seq(Nat) /\ Said(e(k)) = Said(ss[k]) /\ (Once(ss[k]) => Once(e(k)))
  <2> TAKE k \in 1 .. len
  <2>1. CASE k = 1
    BY <1>2, <2>1
  <2>2. CASE k # 1
    BY <1>2, <1>4, <2>2
  <2> QED
    BY <2>1, <2>2
<1>6. Joined(ss, gap) = FlattenSeq(parts)
  BY <1>2 DEF Joined
<1>7. PICK ps : ps = parts
  OBVIOUS
<1>8. ps \in Seq(Seq(Nat)) /\ Len(ps) = len
      /\ \A k \in 1 .. len : ps[k] \in Seq(Nat) /\ Said(ps[k]) = Said(ss[k]) /\ (Once(ss[k]) => Once(ps[k]))
  <2> HIDE DEF e
  <2> QED
    BY <1>5, <1>7, IsASeq
<1>9. ps # << >> /\ ss[1] # << >> => ps[1] = ss[1]
  BY <1>7, <1>8
<1> HIDE DEF parts
<1>10. Joined(ss, gap) = Strung(ps)[len]
  BY <1>6, <1>7, <1>8, FlattenStrings
<1>11. PICK str : str = Strung(ps)[len]
  OBVIOUS
<1>12. /\ \A x \in ToSet(str) : \E k \in 1 .. len : x \in ToSet(ps[k])
       /\ \A k \in 1 .. len : ToSet(ps[k]) \subseteq ToSet(str)
  <2>1. len \in 0 .. Len(ps)
    BY <1>8
  <2> QED
    BY <1>8, <1>11, <2>1, StrungMembers
<1>13. str \in Seq(Nat)
  <2>1. Strung(ps) \in [0 .. len -> Seq(Nat)] /\ len \in 0 .. len
    <3>1. Strung(ps) \in [0 .. Len(ps) -> Seq(Nat)]
      BY <1>8, Strings
    <3>2. len \in 0 .. len
      BY <1>1, <1>2, <1>8
    <3> QED
      BY <1>8, <3>1, <3>2
  <2> QED
    BY <1>11, <2>1
<1>14. Said(str) = Held(ss)
  <2>1. Said(str) = UNION {Said(ps[k]) : k \in 1 .. len}
    BY <1>12 DEF Said
  <2> QED
    BY <1>1, <1>8, <2>1 DEF Held
<1>15. ASSUME OnceAll(ss)
       PROVE  Once(str)
  <2>1. OnceAll(ps)
    BY <1>1, <1>8, <1>15 DEF OnceAll
  <2> QED
    BY <1>8, <1>11, <2>1, StrungOnce
<1>16. ASSUME ss # << >>, ss[1] # << >>
       PROVE  str # << >> /\ str[1] = ss[1][1]
  <2>1. ps # << >>
    BY <1>1, <1>2, <1>8, <1>16
  <2> QED
    BY <1>8, <1>9, <1>11, <1>16, <2>1, StrungStart
<1> QED
  BY <1>10, <1>11, <1>13, <1>14, <1>15, <1>16

-----------------------------------------------------------------------------
(* The parser, and the stack that mirrors it. *)

(* The innermost open element. *)
LEMMA InnermostIs ==
    ASSUME MarkdownTypeOK, open # << >>
    PROVE  /\ Len(open) \in Nat \ {0} /\ Len(open) \in 1 .. Len(open)
           /\ Inner = open[Len(open)].tag /\ Last(open) = open[Len(open)]
           /\ \A i \in 1 .. Len(open) : open[i] \in Elements
<1>1. open \in Seq(Elements)
  BY DEF MarkdownTypeOK
<1>2. Len(open) \in Nat \ {0} /\ Last(open) = open[Len(open)]
  BY <1>1, FrontIs
<1> QED
  BY <1>1, <1>2 DEF Inner

(* The element on top. *)
LEMMA TopIs ==
    ASSUME MarkdownTypeOK, stack # << >>
    PROVE  /\ Len(stack) \in Nat \ {0} /\ Len(stack) \in 1 .. Len(stack) /\ Top = stack[Len(stack)]
           /\ Top \in Actives
           /\ \A i \in 1 .. Len(stack) : stack[i] \in Actives
<1>1. stack \in Seq(Actives)
  BY DEF MarkdownTypeOK
<1>2. Len(stack) \in Nat \ {0} /\ Last(stack) = stack[Len(stack)]
  BY <1>1, FrontIs
<1> QED
  BY <1>1, <1>2 DEF Top

(* The top of the stack is the innermost element that is open, of those the  *)
(* code knows and no fragment has closed.                                    *)
LEMMA TopElement ==
    ASSUME MarkdownTypeOK, Nested, Mirrors,
           NEW j \in 1 .. Len(open), open[j].tag \in Handled, open[j].at > seen.fragment,
           \A k \in j + 1 .. Len(open) : open[k].tag \notin Handled
    PROVE  stack # << >> /\ Top.kind = open[j].tag /\ Top.start = open[j].at
<1>1. PICK i \in 1 .. Len(stack) : stack[i].start = open[j].at
  BY DEF Mirrors
<1>2. stack # << >> /\ open # << >>
  BY <1>1 DEF MarkdownTypeOK
<1>3. /\ Len(stack) \in 1 .. Len(stack) /\ Top = stack[Len(stack)] /\ Len(stack) \in Nat /\ Len(open) \in Nat
      /\ \A h \in 1 .. Len(stack) : stack[h] \in Actives
      /\ \A h \in 1 .. Len(open) : open[h] \in Elements
  BY <1>2, TopIs, InnermostIs
<1>4. PICK k \in 1 .. Len(open) : open[k].tag = Top.kind /\ open[k].at = Top.start
  BY <1>3 DEF Mirrors
<1>5. Top.kind \in Handled
  BY <1>3 DEF Actives
<1>6. ~(k > j)
  <2>1. k > j => k \in j + 1 .. Len(open)
    BY <1>3
  <2> QED
    BY <1>4, <1>5, <2>1
<1>7. k < j => open[k].at < open[j].at
  <2>1. k < j => j \in k + 1 .. Len(open)
    BY <1>3
  <2> QED
    BY <2>1 DEF Nested
<1>8. i # Len(stack) => stack[i].start < Top.start
  <2>1. i # Len(stack) => Len(stack) \in i + 1 .. Len(stack)
    BY <1>3
  <2> QED
    BY <1>3, <2>1 DEF Mirrors
<1>9. open[j].at \in Nat /\ open[k].at \in Nat
  BY <1>3 DEF Elements
<1>10. k = j
  BY <1>1, <1>4, <1>6, <1>7, <1>8, <1>9, <1>3
<1> QED
  BY <1>2, <1>4, <1>10

(* An element that ends is the one on top. *)
LEMMA TopMatches ==
    ASSUME MarkdownTypeOK, Nested, Mirrors, Inner \in Handled, stack # << >> \/ Inner \notin Flowing
    PROVE  /\ stack # << >> /\ open # << >> /\ Last(open).at > seen.fragment
           /\ Top.kind = Inner /\ Top.start = Last(open).at
<1>1. open # << >>
  BY DEF Inner, Handled, Structural
<1>2. /\ Len(open) \in Nat \ {0} /\ Len(open) \in 1 .. Len(open)
      /\ Inner = open[Len(open)].tag /\ Last(open) = open[Len(open)]
      /\ \A i \in 1 .. Len(open) : open[i] \in Elements
  BY <1>1, InnermostIs
<1>3. open[Len(open)].at > seen.fragment
  <2>1. CASE Inner \notin Flowing
    BY <1>2, <2>1 DEF Nested
  <2>2. CASE stack # << >>
    <3>1. /\ Len(stack) \in 1 .. Len(stack) /\ Top = stack[Len(stack)]
          /\ \A h \in 1 .. Len(stack) : stack[h] \in Actives
      BY <2>2, TopIs
    <3>2. Top.start > seen.fragment
      BY <3>1 DEF Mirrors
    <3>3. PICK j \in 1 .. Len(open) : open[j].at = Top.start
      BY <3>1 DEF Mirrors
    <3>4. j # Len(open) => open[j].at < open[Len(open)].at
      <4>1. j # Len(open) => Len(open) \in j + 1 .. Len(open)
        BY <1>2
      <4> QED
        BY <4>1 DEF Nested
    <3>5. open[j].at \in Nat /\ open[Len(open)].at \in Nat /\ seen.fragment \in Nat
      BY <1>2 DEF Elements, MarkdownTypeOK, Histories
    <3> QED
      BY <3>2, <3>3, <3>4, <3>5
  <2> QED
    BY <2>1, <2>2
<1>4. \A k \in Len(open) + 1 .. Len(open) : open[k].tag \notin Handled
  BY <1>2
<1>5. stack # << >> /\ Top.kind = open[Len(open)].tag /\ Top.start = open[Len(open)].at
  BY <1>2, <1>3, <1>4, TopElement
<1> QED
  BY <1>1, <1>2, <1>3, <1>5

(* In a part of a table the table is on top. *)
LEMMA TableOnTop ==
    ASSUME MarkdownTypeOK, Nested, Mirrors, Inner \in {"head", "row", "cell"}
    PROVE  stack # << >> /\ Top.kind = "table"
<1>1. open # << >>
  BY DEF Inner
<1>2. /\ Len(open) \in Nat \ {0} /\ Len(open) \in 1 .. Len(open)
      /\ Inner = open[Len(open)].tag
      /\ \A i \in 1 .. Len(open) : open[i] \in Elements
  BY <1>1, InnermostIs
<1>3. PICK n \in Nat \ {0} : n = Len(open)
  BY <1>2
<1>4. PICK j \in 1 .. n : open[j].tag = "table" /\ \A k \in j + 1 .. n : open[k].tag \in {"head", "row", "cell"}
  <2>1. CASE Inner \in {"head", "row"}
    <3>1. n > 1 /\ open[n - 1].tag = "table"
      BY <1>2, <1>3, <2>1 DEF Nested
    <3>2. n - 1 \in 1 .. n /\ \A k \in (n - 1) + 1 .. n : k = n
      BY <3>1
    <3> QED
      BY <1>2, <1>3, <3>1, <3>2
  <2>2. CASE Inner = "cell"
    <3>1. n > 1 /\ open[n - 1].tag \in {"head", "row"}
      BY <1>2, <1>3, <2>2 DEF Nested
    <3>2. PICK m \in 1 .. n : m = n - 1
      <4>1. n - 1 \in 1 .. n
        BY <3>1
      <4> QED
        BY <4>1
    <3>3. m > 1 /\ open[m - 1].tag = "table"
      BY <1>3, <3>1, <3>2 DEF Nested
    <3>4. m - 1 \in 1 .. n /\ \A k \in (m - 1) + 1 .. n : k = n \/ k = m
      BY <3>2, <3>3
    <3> QED
      BY <1>2, <1>3, <2>2, <3>1, <3>2, <3>3, <3>4
  <2> QED
    BY <2>1, <2>2
<1>5. open[j].tag \in Handled /\ open[j].at > seen.fragment
  <2>1. open[j].tag \in Handled /\ open[j].tag \notin Flowing
    BY <1>4 DEF Handled, Structural, Flowing
  <2> QED
    BY <1>3, <2>1 DEF Nested
<1>6. \A k \in j + 1 .. Len(open) : open[k].tag \notin Handled
  BY <1>3, <1>4 DEF Handled, Structural
<1> QED
  BY <1>3, <1>4, <1>5, <1>6, TopElement

(* Where the grammar has elements. *)
LEMMA Grammar ==
    /\ \A tag \in {"heading", "code", "table", "quote", "list", "term", "html", "paragraph"} :
          Within[tag] \subseteq {"document", "quote", "tight", "loose"}
    /\ Within["tight"] = {"list"} /\ Within["loose"] = {"list"}
    /\ Within["head"] = {"table"} /\ Within["row"] = {"table"} /\ Within["cell"] = {"head", "row"}
    /\ Within["text"] = {"heading", "paragraph", "cell", "image", "tight", "term", "code"}
BY DEF Within

(* What the parser does when an element starts. *)
LEMMA StartsOpens ==
    ASSUME MarkdownTypeOK, NEW tag \in Tags, Starts(tag)
    PROVE  /\ open' \in Seq(Elements) /\ Len(open) \in Nat /\ Len(open') = Len(open) + 1 /\ open' # << >>
           /\ \A i \in 1 .. Len(open) : open'[i].tag = open[i].tag /\ open'[i].at = open[i].at
           /\ open'[Len(open) + 1].tag = tag /\ open'[Len(open) + 1].at = offset
           /\ offset' = offset + 1 /\ offset \in Nat \ {0}
           /\ ~seen.ended /\ Inner \in Within[tag]
           /\ Outermost = (IF open = << >> THEN offset ELSE open[1].at) /\ open'[1].at = Outermost
           /\ seen' \in Histories /\ seen'.fragment = seen.fragment /\ seen'.ended = seen.ended
           /\ seen'.pieces = seen.pieces
           /\ seen'.bounds = IF tag \in Structural THEN seen.bounds \cup {[at |-> offset, unit |-> Outermost]}
                             ELSE seen.bounds
<1>1. open \in Seq(Elements) /\ offset \in Nat \ {0} /\ seen \in Histories
  BY DEF MarkdownTypeOK
<1>2. PICK n \in Nat : n = Len(open)
  BY <1>1
<1>3. \A i \in 1 .. n : open[i] \in Elements
  BY <1>1, <1>2
<1> DEFINE e(i) == IF i = n THEN [open[i] EXCEPT !.parts = @ \cup {tag}] ELSE open[i]
           before == [i \in 1 .. n |-> e(i)]
           new == [tag |-> tag, at |-> offset, parts |-> {}]
<1>4. ASSUME NEW i \in 1 .. n
      PROVE  e(i) \in Elements /\ e(i).tag = open[i].tag /\ e(i).at = open[i].at
  <2>1. PICK x \in Elements : x = open[i]
    BY <1>3
  <2>2. [x EXCEPT !.parts = @ \cup {tag}] \in Elements
    BY DEF Elements
  <2>3. [x EXCEPT !.parts = @ \cup {tag}].tag = x.tag /\ [x EXCEPT !.parts = @ \cup {tag}].at = x.at
    BY DEF Elements
  <2> QED
    BY <2>1, <2>2, <2>3
<1>5. new \in Elements /\ new.tag = tag /\ new.at = offset
  BY <1>1 DEF Elements
<1>6. DOMAIN open = 1 .. n
  BY <1>1, <1>2
<1>7. open' = Append(before, new)
  BY <1>2, <1>6 DEF Starts
<1> HIDE DEF new
<1>8. PICK b : b = before
  OBVIOUS
<1>9. b \in Seq(Elements) /\ Len(b) = n /\ \A i \in 1 .. n : b[i] = e(i)
  <2> HIDE DEF e
  <2> QED
    BY <1>4, <1>8, IsASeq
<1> HIDE DEF before, e
<1>10. /\ open' \in Seq(Elements) /\ Len(open') = n + 1
       /\ \A i \in 1 .. n : open'[i] = b[i]
       /\ open'[n + 1] = new /\ open' # << >>
  BY <1>5, <1>7, <1>8, <1>9, AppendIs
<1>11. \A i \in 1 .. n : open'[i].tag = open[i].tag /\ open'[i].at = open[i].at
  BY <1>4, <1>9, <1>10
<1>12. Outermost = (IF open = << >> THEN offset ELSE open[1].at) /\ Outermost \in Nat
  <2>1. open # << >> => 1 \in 1 .. n
    BY <1>1, <1>2
  <2>2. open # << >> => open[1].at \in Nat
    BY <1>3, <2>1 DEF Elements
  <2> QED
    BY <1>1, <2>2 DEF Outermost
<1>13. open'[1].at = Outermost
  <2>1. CASE open = << >>
    <3>1. n = 0 /\ n + 1 = 1
      BY <1>2, <2>1
    <3> QED
      BY <1>5, <1>10, <1>12, <2>1, <3>1
  <2>2. CASE open # << >>
    <3>1. 1 \in 1 .. n
      BY <1>1, <1>2, <2>2
    <3> QED
      BY <1>11, <1>12, <2>2, <3>1
  <2> QED
    BY <2>1, <2>2
<1>14. seen' = [seen EXCEPT
                  !.elements = IF tag \in TableParts THEN @ ELSE @ + 1,
                  !.bounds = IF tag \in Structural THEN @ \cup {[at |-> offset, unit |-> Outermost]} ELSE @]
  BY DEF Starts
<1>15. [at |-> offset, unit |-> Outermost] \in Bounds
  BY <1>1, <1>12 DEF Bounds
<1> HIDE DEF Outermost
<1>16. /\ seen' \in Histories /\ seen'.fragment = seen.fragment /\ seen'.ended = seen.ended
       /\ seen'.pieces = seen.pieces
       /\ seen'.bounds = IF tag \in Structural THEN seen.bounds \cup {[at |-> offset, unit |-> Outermost]}
                         ELSE seen.bounds
  <2>1. PICK bd \in Bounds : bd = [at |-> offset, unit |-> Outermost]
    BY <1>15
  <2>2. seen.elements \in Nat /\ seen.elements + 1 \in Nat
    BY <1>1 DEF Histories
  <2> QED
    BY <1>1, <1>14, <2>1, <2>2 DEF Histories
<1>17. offset' = offset + 1 /\ ~seen.ended /\ Inner \in Within[tag]
  BY DEF Starts, InPlace
<1> QED
  BY <1>1, <1>2, <1>5, <1>10, <1>11, <1>12, <1>13, <1>16, <1>17

(* What the parser does when an element ends. *)
LEMMA EndsCloses ==
    ASSUME MarkdownTypeOK, NEW tag \in Tags, Ends(tag)
    PROVE  /\ Inner = tag /\ open # << >> /\ Len(open) \in Nat \ {0} /\ open[Len(open)].tag = tag
           /\ open' \in Seq(Elements) /\ Len(open') = Len(open) - 1
           /\ \A i \in 1 .. Len(open) - 1 : open'[i] = open[i]
           /\ open' # << >> => open'[1] = open[1]
           /\ offset' = offset + 1 /\ offset \in Nat \ {0} /\ seen' = seen
<1>1. Inner = tag /\ offset' = offset + 1 /\ seen' = seen /\ open' = Front(open)
  BY DEF Ends
<1>2. open # << >>
  BY <1>1 DEF Inner, Tags, Handled, Structural, TableParts
<1>3. open \in Seq(Elements) /\ offset \in Nat \ {0}
  BY DEF MarkdownTypeOK
<1>4. /\ Len(open) \in Nat \ {0} /\ Last(open) = open[Len(open)]
      /\ open' \in Seq(Elements) /\ Len(open') = Len(open) - 1
      /\ \A i \in 1 .. Len(open) - 1 : open'[i] = open[i]
  BY <1>1, <1>2, <1>3, FrontIs
<1>5. open' # << >> => open'[1] = open[1]
  <2>1. open' # << >> => Len(open') \in Nat \ {0}
    BY <1>4, EmptySeq
  <2>2. open' # << >> => 1 \in 1 .. Len(open) - 1
    BY <1>4, <2>1
  <2> QED
    BY <1>4, <2>2
<1> QED
  BY <1>1, <1>2, <1>3, <1>4, <1>5 DEF Inner

(* Elements stay nested when one starts. *)
LEMMA NestedAfterStart ==
    ASSUME MarkdownTypeOK, Nested, NEW tag \in Tags, Starts(tag)
    PROVE  Nested'
<1>1. PICK n \in Nat : n = Len(open)
  BY DEF MarkdownTypeOK
<1>2. /\ Len(open') = n + 1
      /\ \A i \in 1 .. n : open'[i].tag = open[i].tag /\ open'[i].at = open[i].at
      /\ open'[n + 1].tag = tag /\ open'[n + 1].at = offset
      /\ offset' = offset + 1 /\ offset \in Nat \ {0}
      /\ Inner \in Within[tag] /\ seen'.fragment = seen.fragment
  BY <1>1, StartsOpens
<1>3. seen.fragment \in Nat
  BY DEF MarkdownTypeOK, Histories
<1>4. ASSUME NEW i \in 1 .. n
      PROVE  /\ open[i].at \in 1 .. offset - 1 /\ open[i].at # seen.fragment
             /\ open[i].tag \notin Flowing => open[i].at > seen.fragment
             /\ open[i].tag \in {"head", "row"} => i > 1 /\ open[i - 1].tag = "table"
             /\ open[i].tag = "cell" => i > 1 /\ open[i - 1].tag \in {"head", "row"}
             /\ \A j \in i + 1 .. n :
                   /\ open[i].at < open[j].at
                   /\ open[i].tag \notin Flowing => open[j].tag \in {"image", "head", "row", "cell"}
  BY <1>1 DEF Nested
<1>5. n # 0 => n \in 1 .. n /\ Inner = open[n].tag
  <2>1. n # 0 => open # << >>
    BY <1>1
  <2> QED
    BY <1>1, <2>1, InnermostIs
<1>6. n = 0 => Inner = "document"
  <2>1. n = 0 => open = << >>
    BY <1>1, EmptySeq DEF MarkdownTypeOK
  <2> QED
    BY <2>1 DEF Inner
<1>7. /\ tag \in {"head", "row"} => n # 0 /\ open[n].tag = "table"
      /\ tag = "cell" => n # 0 /\ open[n].tag \in {"head", "row"}
  BY <1>2, <1>5, <1>6, Grammar
<1>8. n # 0 /\ open[n].tag \notin Flowing => tag \in {"image", "head", "row", "cell"}
  <2>1. Inner \notin Flowing /\ Inner # "document" => tag \in {"image", "head", "row", "cell"}
    BY <1>2, Grammar DEF Flowing, Tags, Handled, Structural, TableParts
  <2>2. n # 0 => open[n] \in Elements /\ open[n].tag \in Tags
    <3>1. n # 0 => open # << >>
      BY <1>1
    <3> QED
      BY <1>1, <1>5, <3>1, InnermostIs DEF Elements
  <2> QED
    BY <1>5, <2>1, <2>2 DEF Tags, Handled, Structural, TableParts
<1>9. \A i \in 1 .. n : open[i].tag \notin Flowing => tag \in {"image", "head", "row", "cell"}
  <2> TAKE i \in 1 .. n
  <2>1. CASE i = n
    BY <1>8, <2>1
  <2>2. CASE i # n
    <3>1. n \in i + 1 .. n
      BY <2>2
    <3>2. open[i].tag \notin Flowing => open[n].tag \in {"image", "head", "row", "cell"}
      BY <1>4, <3>1
    <3>3. \A t \in {"image", "head", "row", "cell"} : t \notin Flowing
      BY DEF Flowing
    <3> QED
      BY <1>8, <3>2, <3>3, <3>1
  <2> QED
    BY <2>1, <2>2
<1>10. seen.fragment < offset
  BY DEF Nested
<1>11. ASSUME NEW i \in 1 .. n + 1
       PROVE  /\ open'[i].at \in 1 .. offset' - 1 /\ open'[i].at # seen'.fragment
              /\ open'[i].tag \notin Flowing => open'[i].at > seen'.fragment
              /\ open'[i].tag \in {"head", "row"} => i > 1 /\ open'[i - 1].tag = "table"
              /\ open'[i].tag = "cell" => i > 1 /\ open'[i - 1].tag \in {"head", "row"}
              /\ \A j \in i + 1 .. n + 1 :
                    /\ open'[i].at < open'[j].at
                    /\ open'[i].tag \notin Flowing => open'[j].tag \in {"image", "head", "row", "cell"}
  <2>1. offset' - 1 = offset
    BY <1>2
  <2>2. CASE i = n + 1
    <3>1. i - 1 = n /\ (n # 0 => i > 1 /\ n \in 1 .. n)
      BY <2>2
    <3>2. n # 0 => open'[n].tag = open[n].tag
      BY <1>2, <3>1
    <3>3. i + 1 .. n + 1 = {}
      BY <2>2
    <3>4. offset \in 1 .. offset /\ offset # seen.fragment /\ offset > seen.fragment
      BY <1>2, <1>3, <1>10
    <3> QED
      BY <1>2, <1>7, <2>1, <2>2, <3>1, <3>2, <3>3, <3>4
  <2>3. CASE i # n + 1
    <3>1. i \in 1 .. n
      BY <2>3
    <3>2. i > 1 => i - 1 \in 1 .. n
      BY <3>1
    <3>3. open[i].at \in 1 .. offset /\ open[i].at < offset
      <4>1. open[i].at \in 1 .. offset - 1
        BY <1>4, <3>1
      <4> QED
        BY <1>2, <4>1
    <3>4. ASSUME NEW j \in i + 1 .. n + 1
          PROVE  /\ open'[i].at < open'[j].at
                 /\ open'[i].tag \notin Flowing => open'[j].tag \in {"image", "head", "row", "cell"}
      <4>1. CASE j = n + 1
        BY <1>2, <1>9, <3>1, <3>3, <4>1
      <4>2. CASE j # n + 1
        <5>1. j \in i + 1 .. n /\ j \in 1 .. n
          BY <3>1, <4>2
        <5> QED
          BY <1>2, <1>4, <3>1, <5>1
      <4> QED
        BY <4>1, <4>2
    <3>5. /\ open'[i].at \in 1 .. offset' - 1 /\ open'[i].at # seen'.fragment
          /\ open'[i].tag \notin Flowing => open'[i].at > seen'.fragment
      BY <1>2, <1>4, <2>1, <3>1, <3>3
    <3>6. /\ open'[i].tag \in {"head", "row"} => i > 1 /\ open'[i - 1].tag = "table"
          /\ open'[i].tag = "cell" => i > 1 /\ open'[i - 1].tag \in {"head", "row"}
      BY <1>2, <1>4, <3>1, <3>2
    <3> QED
      BY <3>4, <3>5, <3>6
  <2> QED
    BY <2>2, <2>3
<1>12. seen'.fragment < offset'
  BY <1>2, <1>3, <1>10
<1> QED
  BY <1>2, <1>11, <1>12 DEF Nested

(* Elements stay nested when one ends. *)
LEMMA NestedAfterEnd ==
    ASSUME MarkdownTypeOK, Nested, NEW tag \in Tags, Ends(tag)
    PROVE  Nested'
<1>1. PICK n \in Nat \ {0} : n = Len(open)
  BY EndsCloses
<1>2. /\ Len(open') = n - 1
      /\ \A i \in 1 .. n - 1 : open'[i] = open[i]
      /\ offset' = offset + 1 /\ offset \in Nat \ {0} /\ seen' = seen
  BY <1>1, EndsCloses
<1>3. seen.fragment \in Nat /\ seen.fragment < offset'
  BY <1>2 DEF MarkdownTypeOK, Histories, Nested
<1>4. ASSUME NEW i \in 1 .. n - 1
      PROVE  /\ open'[i].at \in 1 .. offset' - 1 /\ open'[i].at # seen'.fragment
             /\ open'[i].tag \notin Flowing => open'[i].at > seen'.fragment
             /\ open'[i].tag \in {"head", "row"} => i > 1 /\ open'[i - 1].tag = "table"
             /\ open'[i].tag = "cell" => i > 1 /\ open'[i - 1].tag \in {"head", "row"}
             /\ \A j \in i + 1 .. n - 1 :
                   /\ open'[i].at < open'[j].at
                   /\ open'[i].tag \notin Flowing => open'[j].tag \in {"image", "head", "row", "cell"}
  <2>1. i \in 1 .. n /\ open'[i] = open[i] /\ (i > 1 => i - 1 \in 1 .. n - 1)
    BY <1>2
  <2>2. open[i].at \in 1 .. offset - 1 /\ \A x \in 1 .. offset - 1 : x \in 1 .. offset' - 1
    BY <1>1, <1>2, <2>1 DEF Nested
  <2>3. \A j \in i + 1 .. n - 1 : j \in i + 1 .. n /\ open'[j] = open[j]
    BY <1>2
  <2>4. /\ open[i].at # seen.fragment
        /\ open[i].tag \notin Flowing => open[i].at > seen.fragment
        /\ open[i].tag \in {"head", "row"} => i > 1 /\ open[i - 1].tag = "table"
        /\ open[i].tag = "cell" => i > 1 /\ open[i - 1].tag \in {"head", "row"}
        /\ \A j \in i + 1 .. n :
              /\ open[i].at < open[j].at
              /\ open[i].tag \notin Flowing => open[j].tag \in {"image", "head", "row", "cell"}
    BY <1>1, <2>1 DEF Nested
  <2> QED
    BY <1>2, <2>1, <2>2, <2>3, <2>4
<1> QED
  BY <1>2, <1>3, <1>4 DEF Nested

-----------------------------------------------------------------------------
(* The converter's helpers: what a text, the run and the stack hold after them. *)

(* One more string in a text. *)
LEMMA HeldAppend ==
    ASSUME NEW ss \in Texts, NEW s \in Seq(Nat)
    PROVE  /\ Append(ss, s) \in Texts /\ Append(ss, s) # << >>
           /\ Held(Append(ss, s)) = Held(ss) \cup Said(s)
           /\ OnceAll(ss) /\ Once(s) /\ Held(ss) \cap Said(s) = {} => OnceAll(Append(ss, s))
           /\ Append(ss, s)[1] = IF ss = << >> THEN s ELSE ss[1]
           /\ Len(Append(ss, s)) = Len(ss) + 1 /\ Append(ss, s)[Len(ss) + 1] = s
           /\ \A k \in 1 .. Len(ss) : Append(ss, s)[k] = ss[k]
<1>1. ss \in Seq(Seq(Nat))
  BY DEF Texts
<1>2. PICK n \in Nat : n = Len(ss)
  BY <1>1
<1>3. PICK t : t = Append(ss, s)
  OBVIOUS
<1>4. /\ t \in Seq(Seq(Nat)) /\ t # << >> /\ Len(t) = n + 1
      /\ \A k \in 1 .. n : t[k] = ss[k]
      /\ t[n + 1] = s
  BY <1>1, <1>2, <1>3, AppendIs
<1>5. \A k \in 1 .. n + 1 : k \in 1 .. n \/ k = n + 1
  OBVIOUS
<1>6. Held(t) = Held(ss) \cup Said(s)
  <2>1. Held(t) = UNION {Said(t[k]) : k \in 1 .. n + 1} /\ Held(ss) = UNION {Said(ss[k]) : k \in 1 .. n}
    BY <1>2, <1>4 DEF Held
  <2>2. \A k \in 1 .. n : k \in 1 .. n + 1 /\ Said(t[k]) = Said(ss[k])
    BY <1>4
  <2>3. n + 1 \in 1 .. n + 1 /\ Said(t[n + 1]) = Said(s)
    BY <1>4
  <2> QED
    BY <1>5, <2>1, <2>2, <2>3
<1>7. ASSUME OnceAll(ss), Once(s), Held(ss) \cap Said(s) = {}
      PROVE  OnceAll(t)
  <2>1. \A k \in 1 .. n : Said(ss[k]) \cap Said(s) = {}
    BY <1>2, <1>7 DEF Held
  <2>2. \A k \in 1 .. n + 1 : Once(t[k])
    BY <1>2, <1>4, <1>5, <1>7 DEF OnceAll
  <2>3. ASSUME NEW k \in 1 .. n + 1, NEW l \in 1 .. n + 1, k # l
        PROVE  Said(t[k]) \cap Said(t[l]) = {}
    <3>1. CASE k \in 1 .. n /\ l \in 1 .. n
      BY <1>2, <1>4, <1>7, <2>3, <3>1 DEF OnceAll
    <3>2. CASE k \in 1 .. n /\ l = n + 1
      BY <1>4, <2>1, <3>2
    <3>3. CASE k = n + 1 /\ l \in 1 .. n
      BY <1>4, <2>1, <3>3
    <3> QED
      BY <1>5, <2>3, <3>1, <3>2, <3>3
  <2> QED
    BY <1>4, <2>2, <2>3 DEF OnceAll
<1>8. t[1] = IF ss = << >> THEN s ELSE ss[1]
  <2>1. CASE ss = << >>
    <3>1. n = 0 /\ n + 1 = 1
      BY <1>2, <2>1
    <3> QED
      BY <1>4, <2>1, <3>1
  <2>2. CASE ss # << >>
    <3>1. 1 \in 1 .. n
      BY <1>1, <1>2, <2>2
    <3> QED
      BY <1>4, <2>2, <3>1
  <2> QED
    BY <2>1, <2>2
<1> QED
  BY <1>2, <1>3, <1>4, <1>6, <1>7, <1>8 DEF Texts

(* Concatenation of one element. *)
LEMMA ConcatOne ==
    ASSUME NEW S, NEW s \in Seq(S), NEW x \in S
    PROVE  s \o <<x>> = Append(s, x)
OBVIOUS

(* Trimming drops blanks only. *)
LEMMA TrimmedSays ==
    ASSUME NEW s \in Seq(Nat)
    PROVE  Trimmed(s) \in Seq(Nat) /\ Said(Trimmed(s)) = Said(s) /\ (Once(s) => Once(Trimmed(s)))
<1>1. CASE ToSet(s) \subseteq {0}
  <2>1. Trimmed(s) = << >> /\ Said(s) = {}
    BY <1>1 DEF Trimmed, Said
  <2>2. Said(<< >>) = {} /\ Once(<< >>)
    BY GapsSayNothing
  <2> QED
    BY <2>1, <2>2
<1>2. CASE ~(ToSet(s) \subseteq {0})
  BY <1>2 DEF Trimmed
<1> QED
  BY <1>1, <1>2

(* The empty text. *)
LEMMA NothingHeld ==
    << >> \in Texts /\ Held(<< >>) = {} /\ OnceAll(<< >>)
BY DEF Texts, Held, OnceAll

(* The text of one piece. *)
LEMMA PieceSays ==
    ASSUME NEW x \in Nat \ {0}
    PROVE  <<x>> \in Seq(Nat) /\ <<x>> # << >> /\ <<x>>[1] = x /\ Said(<<x>>) = {x} /\ Once(<<x>>)
<1>1. <<x>> \in Seq(Nat) /\ Len(<<x>>) = 1 /\ <<x>>[1] = x /\ DOMAIN <<x>> = 1 .. 1 /\ <<x>> # << >>
  OBVIOUS
<1>2. PICK s : s = <<x>>
  OBVIOUS
<1>3. Said(s) = {x}
  BY <1>1, <1>2 DEF Said, ToSet
<1>4. Once(s)
  BY <1>1, <1>2 DEF Once
<1> QED
  BY <1>1, <1>2, <1>3, <1>4

(* What ends a run: all of it becomes a block. *)
Flushed ==
    /\ accum' = NoText
    /\ \/ accum.texts = << >> /\ converted' = converted
       \/ /\ accum.texts # << >> /\ Len(converted') = Len(converted) + 1
          /\ \A n \in 1 .. Len(converted) : converted'[n] = converted[n]
          /\ converted'[Len(converted) + 1].kind = "text"
          /\ converted'[Len(converted) + 1].start = accum.start
          /\ Said(converted'[Len(converted) + 1].text) = InAccum
          /\ Once(converted'[Len(converted) + 1].text)
          /\ accum.texts[1] # << >> =>
                /\ converted'[Len(converted) + 1].text # << >>
                /\ converted'[Len(converted) + 1].text[1] = accum.texts[1][1]

(* flush_text! makes the run a block, or there was none. *)
LEMMA FlushFlushes ==
    ASSUME MarkdownTypeOK, Sound, FlushText
    PROVE  Flushed /\ accum' \in Accums /\ converted' \in Seq(Blocks)
<1>1. accum \in Accums /\ accum.texts \in Texts /\ accum.start \in Nat /\ converted \in Seq(Blocks)
  BY DEF MarkdownTypeOK, Accums
<1>2. PICK s : s = Joined(accum.texts, Blank)
  OBVIOUS
<1>3. /\ s \in Seq(Nat) /\ Said(s) = InAccum /\ Once(s)
      /\ accum.texts # << >> /\ accum.texts[1] # << >> => s # << >> /\ s[1] = accum.texts[1][1]
  <2>1. Blank \in {<< >>, Blank}
    OBVIOUS
  <2> QED
    BY <1>1, <1>2, <2>1, JoinedIs DEF InAccum, Sound, AccumSound
<1>4. accum' = NoText /\ NoText \in Accums
  BY NothingHeld DEF FlushText, NoText, Accums
<1>5. CASE accum.texts = << >>
  BY <1>1, <1>4, <1>5 DEF FlushText, Flushed
<1>6. CASE accum.texts # << >>
  <2>1. PICK b : b = [kind |-> "text", level |-> 0, text |-> s, start |-> accum.start]
    OBVIOUS
  <2>2. b \in Blocks /\ b.kind = "text" /\ b.start = accum.start /\ b.text = s
    BY <1>1, <1>3, <2>1 DEF Blocks
  <2>3. converted' = Append(converted, b)
    BY <1>2, <1>6, <2>1 DEF FlushText
  <2>4. /\ converted' \in Seq(Blocks) /\ Len(converted') = Len(converted) + 1
        /\ \A i \in 1 .. Len(converted) : converted'[i] = converted[i]
        /\ converted'[Len(converted) + 1] = b
    BY <1>1, <2>2, <2>3, AppendIs
  <2> QED
    BY <1>3, <1>4, <1>6, <2>2, <2>4 DEF Flushed
<1> QED
  BY <1>5, <1>6

(* What an accumulator becomes of another by taking in the pieces of T, of   *)
(* elements that start at members of F.                                      *)
Gathers(acc, then, T, F) ==
    /\ Held(then.texts) = Held(acc.texts) \cup T
    /\ \A x \in T : then.start <= x
    /\ then = acc \/ (then.texts # << >> /\ then.start \in F \cup ({acc.start} \ {0}))
    /\ acc.start # 0 => then.start <= acc.start
    /\ acc.texts # << >> => then.texts # << >> /\ then.texts[1] = acc.texts[1]
    /\ acc.texts = << >> /\ then.texts # << >> => Said(then.texts[1]) \subseteq T

(* accum_push! lets the run take in a text. *)
LEMMA PushGathers ==
    ASSUME NEW acc \in Accums, AccumSound(acc), NEW s \in Seq(Nat), Once(s), NEW from \in Nat \ {0},
           Held(acc.texts) \cap Said(s) = {}, \A x \in Said(s) : from <= x
    PROVE  /\ AccumPush(acc, s, from) \in Accums /\ AccumSound(AccumPush(acc, s, from))
           /\ Gathers(acc, AccumPush(acc, s, from), Said(s), {from})
<1>1. PICK then : then = AccumPush(acc, s, from)
  OBVIOUS
<1>2. acc.texts \in Texts /\ acc.start \in Nat
  BY DEF Accums
<1>3. CASE s = << >>
  <2>1. then = acc
    BY <1>1, <1>3 DEF AccumPush
  <2>2. Said(s) = {}
    BY <1>3, GapsSayNothing
  <2>3. Gathers(acc, then, Said(s), {from})
    BY <1>2, <2>1, <2>2 DEF Gathers
  <2> QED
    BY <1>1, <2>1, <2>3
<1>4. CASE s # << >>
  <2>1. /\ Append(acc.texts, s) \in Texts /\ Append(acc.texts, s) # << >>
        /\ Held(Append(acc.texts, s)) = Held(acc.texts) \cup Said(s)
        /\ OnceAll(Append(acc.texts, s))
        /\ Append(acc.texts, s)[1] = IF acc.texts = << >> THEN s ELSE acc.texts[1]
        /\ Len(Append(acc.texts, s)) = Len(acc.texts) + 1 /\ Append(acc.texts, s)[Len(acc.texts) + 1] = s
        /\ \A k \in 1 .. Len(acc.texts) : Append(acc.texts, s)[k] = acc.texts[k]
    BY <1>2, HeldAppend DEF AccumSound
  <2>2. PICK t : t = Append(acc.texts, s)
    OBVIOUS
  <2>3. PICK n \in Nat : n = Len(acc.texts)
    BY <1>2 DEF Texts
  <2>4. then = [texts |-> t, start |-> IF acc.start = 0 \/ from < acc.start THEN from ELSE acc.start]
    BY <1>1, <1>4, <2>2 DEF AccumPush
  <2>5. then \in Accums /\ then.texts = t /\ then.start = IF acc.start = 0 \/ from < acc.start THEN from ELSE acc.start
    BY <1>2, <2>1, <2>2, <2>4 DEF Accums
  <2>6. then.start # 0 /\ then.start <= from /\ (acc.start # 0 => then.start <= acc.start)
        /\ then.start \in {from} \cup ({acc.start} \ {0}) /\ then.start \in Nat
    BY <1>2, <2>5
  <2>7. \A k \in 1 .. n + 1 : k \in 1 .. n \/ k = n + 1
    OBVIOUS
  <2>8. \A k \in 1 .. Len(t) : t[k] # << >>
    BY <1>4, <2>1, <2>2, <2>3, <2>7 DEF AccumSound
  <2>9. AccumSound(then)
    BY <2>1, <2>2, <2>5, <2>6, <2>8 DEF AccumSound
  <2>10. \A x \in Said(s) : then.start <= x
    <3>1. \A x \in Said(s) : x \in Nat
      BY Members DEF Said
    <3> QED
      BY <2>6, <3>1
  <2>11. Gathers(acc, then, Said(s), {from})
    BY <2>1, <2>2, <2>5, <2>6, <2>10 DEF Gathers
  <2>12. then \in Accums
    BY <2>5
  <2> QED
    BY <1>1, <2>9, <2>11, <2>12
<1> QED
  BY <1>3, <1>4

(* Two texts after each other. *)
LEMMA GathersOn ==
    ASSUME NEW a \in Accums, NEW b \in Accums, NEW c \in Accums, NEW T \in SUBSET Nat, NEW U \in SUBSET Nat, NEW F, NEW G,
           AccumSound(a), AccumSound(b), Gathers(a, b, T, F), Gathers(b, c, U, G)
    PROVE  Gathers(a, c, T \cup U, F \cup G)
<1>1. /\ a.start \in Nat /\ b.start \in Nat /\ c.start \in Nat
      /\ a.texts = << >> <=> a.start = 0
      /\ b.texts = << >> <=> b.start = 0
  BY DEF Accums, AccumSound
<1>2. \A x \in T : c.start <= x
  <2> TAKE x \in T
  <2>1. b.start <= x
    BY DEF Gathers
  <2>2. b.start # 0
    <3>1. x \in Held(b.texts)
      BY DEF Gathers
    <3>2. b.texts # << >>
      BY <3>1, NothingHeld
    <3> QED
      BY <1>1, <3>2
  <2>3. c.start <= b.start
    BY <2>2 DEF Gathers
  <2> QED
    BY <1>1, <2>1, <2>3
<1>3. \A x \in U : c.start <= x
  BY DEF Gathers
<1>4. a.start # 0 => c.start <= a.start
  <2>1. a.start # 0 => b.start <= a.start /\ b.start # 0
    BY <1>1 DEF Gathers
  <2>2. b.start # 0 => c.start <= b.start
    BY DEF Gathers
  <2> QED
    BY <1>1, <2>1, <2>2
<1>5. c = a \/ (c.texts # << >> /\ c.start \in F \cup G \cup ({a.start} \ {0}))
  <2>1. CASE b = a
    BY <2>1 DEF Gathers
  <2>2. CASE b # a
    <3>1. b.texts # << >> /\ b.start \in F \cup ({a.start} \ {0})
      BY <2>2 DEF Gathers
    <3>2. c = b \/ (c.texts # << >> /\ c.start \in G \cup ({b.start} \ {0}))
      BY DEF Gathers
    <3> QED
      BY <3>1, <3>2
  <2> QED
    BY <2>1, <2>2
<1>6. a.texts # << >> => c.texts # << >> /\ c.texts[1] = a.texts[1]
  BY DEF Gathers
<1>7. a.texts = << >> /\ c.texts # << >> => Said(c.texts[1]) \subseteq T \cup U
  <2>1. CASE b.texts = << >>
    BY <2>1 DEF Gathers
  <2>2. CASE b.texts # << >>
    BY <2>2 DEF Gathers
  <2> QED
    BY <2>1, <2>2
<1>8. Held(c.texts) = Held(a.texts) \cup (T \cup U)
  BY DEF Gathers
<1> QED
  BY <1>2, <1>3, <1>4, <1>5, <1>6, <1>7, <1>8 DEF Gathers

(* The converter's own part of the invariant. *)
ConverterSound ==
    /\ stack \in Seq(Actives) /\ accum \in Accums /\ converted \in Seq(Blocks)
    /\ Sound

(* The moves its steps are made of. *)
Remains(n) == \A i \in 1 .. n : stack'[i] = stack[i]
Frames(n) == \A i \in 1 .. n : stack'[i].kind = stack[i].kind /\ stack'[i].start = stack[i].start

Grown(tag) ==
    /\ Len(stack') = Len(stack) + 1 /\ Remains(Len(stack))
    /\ stack'[Len(stack) + 1].kind = tag /\ stack'[Len(stack) + 1].start = offset
    /\ HeldBy(stack'[Len(stack) + 1]) = {} /\ ~stack'[Len(stack) + 1].inHead
    /\ stack'[Len(stack) + 1].row = << >> /\ stack'[Len(stack) + 1].cell = << >>
Unmoved ==
    /\ Len(stack') = Len(stack) /\ Frames(Len(stack))
    /\ \A i \in 1 .. Len(stack) : HeldBy(stack'[i]) = HeldBy(stack[i])
Popped == stack # << >> /\ Len(stack') = Len(stack) - 1 /\ Remains(Len(stack) - 1)
Lowered ==
    /\ Len(stack) > 1 /\ Len(stack') = Len(stack) - 1 /\ Frames(Len(stack) - 1) /\ Remains(Len(stack) - 2)
    /\ stack[Len(stack) - 1].kind \in {"quote", "list"}
    /\ HeldBy(stack'[Len(stack) - 1]) = HeldBy(stack[Len(stack) - 1]) \cup HeldBy(stack[Len(stack)])
Added ==
    /\ stack # << >> /\ Len(stack') = Len(stack) /\ Frames(Len(stack)) /\ Remains(Len(stack) - 1)
    /\ HeldBy(stack'[Len(stack)]) = HeldBy(stack[Len(stack)]) \cup {offset}
Emitted ==
    \/ converted' = converted /\ HeldBy(stack[Len(stack)]) = {}
    \/ /\ Len(converted') = Len(converted) + 1
       /\ \A n \in 1 .. Len(converted) : converted'[n] = converted[n]
       /\ converted'[Len(converted) + 1].kind = stack[Len(stack)].kind
       /\ converted'[Len(converted) + 1].start = stack[Len(stack)].start
       /\ Said(converted'[Len(converted) + 1].text) = HeldBy(stack[Len(stack)])
Settled == accum' = accum /\ converted' = converted

(* A new element is empty. *)
LEMMA EmptyBlock ==
    ASSUME NEW form \in Handled, NEW level \in 0 .. 6, form = "heading" => level # 0, offset \in Nat \ {0}
    PROVE  /\ ActiveBlock(form, level) \in Actives
           /\ OnceIn(ActiveBlock(form, level)) /\ Fits(ActiveBlock(form, level))
           /\ ActiveBlock(form, level).kind = form /\ ActiveBlock(form, level).start = offset
           /\ HeldBy(ActiveBlock(form, level)) = {} /\ ~ActiveBlock(form, level).inHead
           /\ ActiveBlock(form, level).row = << >> /\ ActiveBlock(form, level).cell = << >>
<1>1. PICK b : b = ActiveBlock(form, level)
  OBVIOUS
<1>2. /\ b.kind = form /\ b.level = level /\ b.start = offset /\ b.text = << >> /\ b.lines = << >>
      /\ b.row = << >> /\ b.cell = << >> /\ b.inHead = FALSE
  BY <1>1 DEF ActiveBlock
<1>3. b \in Actives
  BY <1>1, NothingHeld DEF ActiveBlock, Actives
<1>4. OnceIn(b) /\ HeldBy(b) = {}
  BY <1>2, NothingHeld DEF OnceIn, HeldBy
<1>5. Fits(b)
  <2>1. form = "heading" => level \in 1 .. 6
    OBVIOUS
  <2> QED
    BY <1>2, <2>1 DEF Fits
<1> QED
  BY <1>1, <1>2, <1>3, <1>4, <1>5

(* An element is pushed. *)
LEMMA PushGrows ==
    ASSUME ConverterSound, NEW form \in Handled, NEW level \in 0 .. 6, form = "heading" => level # 0,
           offset \in Nat \ {0}, stack' = Append(stack, ActiveBlock(form, level))
    PROVE  /\ stack' \in Seq(Actives) /\ Grown(form)
           /\ \A i \in 1 .. Len(stack') : OnceIn(stack'[i]) /\ Fits(stack'[i])
<1>1. PICK b : b = ActiveBlock(form, level)
  OBVIOUS
<1>2. /\ b \in Actives /\ OnceIn(b) /\ Fits(b) /\ b.kind = form /\ b.start = offset
      /\ HeldBy(b) = {} /\ ~b.inHead /\ b.row = << >> /\ b.cell = << >>
  BY <1>1, EmptyBlock
<1>3. stack \in Seq(Actives) /\ \A i \in 1 .. Len(stack) : OnceIn(stack[i]) /\ Fits(stack[i])
  BY DEF ConverterSound, Sound
<1>4. PICK n \in Nat : n = Len(stack)
  BY <1>3
<1>5. stack' = Append(stack, b)
  BY <1>1
<1>6. /\ stack' \in Seq(Actives) /\ Len(stack') = n + 1
      /\ \A i \in 1 .. n : stack'[i] = stack[i]
      /\ stack'[n + 1] = b
  BY <1>2, <1>3, <1>4, <1>5, AppendIs
<1>7. \A i \in 1 .. n + 1 : i \in 1 .. n \/ i = n + 1
  OBVIOUS
<1>8. \A i \in 1 .. n + 1 : OnceIn(stack'[i]) /\ Fits(stack'[i])
  BY <1>2, <1>3, <1>4, <1>6, <1>7
<1>9. Grown(form)
  BY <1>2, <1>4, <1>6 DEF Grown, Remains
<1> QED
  BY <1>6, <1>8, <1>9

(* The element on top changes. *)
LEMMA TopReplaced ==
    ASSUME ConverterSound, stack # << >>, NEW b \in Actives, OnceIn(b), Fits(b), TopBecomes(b)
    PROVE  /\ stack' \in Seq(Actives) /\ Len(stack') = Len(stack) /\ Remains(Len(stack) - 1)
           /\ stack'[Len(stack)] = b
           /\ \A i \in 1 .. Len(stack') : OnceIn(stack'[i]) /\ Fits(stack'[i])
           /\ b.kind = Top.kind /\ b.start = Top.start => Frames(Len(stack))
<1>1. stack \in Seq(Actives) /\ \A i \in 1 .. Len(stack) : OnceIn(stack[i]) /\ Fits(stack[i])
  BY DEF ConverterSound, Sound
<1>2. Len(stack) \in Nat \ {0} /\ Top = stack[Len(stack)]
  BY <1>1, FrontIs DEF Top
<1>3. PICK n \in Nat \ {0} : n = Len(stack)
  BY <1>2
<1>4. /\ stack' \in Seq(Actives) /\ Len(stack') = n /\ stack'[n] = b
      /\ \A i \in 1 .. n - 1 : stack'[i] = stack[i]
  <2>1. PICK t : t = Append(Front(stack), b)
    OBVIOUS
  <2>2. /\ Append(Front(stack), b) \in Seq(Actives) /\ Len(Append(Front(stack), b)) = Len(stack)
        /\ Append(Front(stack), b)[Len(stack)] = b
        /\ \A i \in 1 .. Len(stack) - 1 : Append(Front(stack), b)[i] = stack[i]
    BY <1>1, TopChanges
  <2>3. stack' = t
    BY <2>1 DEF TopBecomes
  <2> QED
    BY <1>3, <2>1, <2>2, <2>3
<1>5. \A i \in 1 .. n : i = n \/ (i \in 1 .. n - 1 /\ i \in 1 .. n)
  OBVIOUS
<1>6. \A i \in 1 .. n : OnceIn(stack'[i]) /\ Fits(stack'[i])
  BY <1>1, <1>3, <1>4, <1>5
<1>7. b.kind = Top.kind /\ b.start = Top.start => Frames(n)
  BY <1>2, <1>3, <1>4, <1>5 DEF Frames
<1> QED
  BY <1>3, <1>4, <1>6, <1>7 DEF Remains

(* The element on top is popped. *)
LEMMA TopPops ==
    ASSUME ConverterSound, stack # << >>, stack' = Front(stack)
    PROVE  /\ stack' \in Seq(Actives) /\ Popped
           /\ \A i \in 1 .. Len(stack') : OnceIn(stack'[i]) /\ Fits(stack'[i])
<1>1. stack \in Seq(Actives) /\ \A i \in 1 .. Len(stack) : OnceIn(stack[i]) /\ Fits(stack[i])
  BY DEF ConverterSound, Sound
<1>2. PICK n \in Nat \ {0} : n = Len(stack)
  BY <1>1, FrontIs
<1>3. /\ stack' \in Seq(Actives) /\ Len(stack') = n - 1
      /\ \A i \in 1 .. n - 1 : stack'[i] = stack[i]
  BY <1>1, <1>2, FrontIs
<1>4. \A i \in 1 .. n - 1 : i \in 1 .. n
  OBVIOUS
<1>5. \A i \in 1 .. n - 1 : OnceIn(stack'[i]) /\ Fits(stack'[i])
  BY <1>1, <1>2, <1>3, <1>4
<1> QED
  BY <1>2, <1>3, <1>5 DEF Popped, Remains

(* What an element says is the strings of its text; of a table, the lines. *)
LEMMA TopSays ==
    ASSUME ConverterSound, stack # << >>, NEW gap \in {<< >>, Blank}
    PROVE  /\ Top \in Actives /\ Top = stack[Len(stack)] /\ OnceIn(Top) /\ Fits(Top) /\ Len(stack) \in Nat \ {0}
           /\ Joined(Top.text, gap) \in Seq(Nat) /\ Said(Joined(Top.text, gap)) = Held(Top.text)
           /\ Once(Joined(Top.text, gap))
           /\ Top.kind # "table" => HeldBy(Top) = Held(Top.text)
<1>1. stack \in Seq(Actives) /\ \A i \in 1 .. Len(stack) : OnceIn(stack[i]) /\ Fits(stack[i])
  BY DEF ConverterSound, Sound
<1>2. Len(stack) \in Nat \ {0} /\ Top = stack[Len(stack)] /\ Top \in Actives
  BY <1>1, FrontIs DEF Top
<1>3. Len(stack) \in 1 .. Len(stack)
  BY <1>2
<1>4. OnceIn(Top) /\ Fits(Top)
  BY <1>1, <1>2, <1>3
<1>5. Top.text \in Texts /\ OnceAll(Top.text)
  BY <1>2, <1>4 DEF Actives, OnceIn
<1>6. Top.kind # "table" => HeldBy(Top) = Held(Top.text)
  BY <1>4, NothingHeld DEF HeldBy, Fits
<1> QED
  BY <1>2, <1>4, <1>5, <1>6, JoinedIs

(* An element that ends as a block. *)
LEMMA BlockAppended ==
    ASSUME ConverterSound, stack # << >>, NEW s \in Seq(Nat), Once(s), Said(s) = HeldBy(Top), Top.kind \in Structural,
           \/ PushBlock(Top, s)
           \/ Top.kind # "heading" /\ converted' = Append(converted, MarkdownBlock(Top, s))
    PROVE  /\ converted' \in Seq(Blocks) /\ Emitted
           /\ \A n \in 1 .. Len(converted') :
                 /\ Once(converted'[n].text)
                 /\ converted'[n].kind = "heading" => converted'[n].level \in 1 .. 6 /\ converted'[n].text # << >>
<1>1. /\ Top \in Actives /\ Top = stack[Len(stack)] /\ Fits(Top)
  <2>1. << >> \in {<< >>, Blank}
    OBVIOUS
  <2> QED
    BY <2>1, TopSays
<1>2. /\ converted \in Seq(Blocks)
      /\ \A n \in 1 .. Len(converted) :
            /\ Once(converted[n].text)
            /\ converted[n].kind = "heading" => converted[n].level \in 1 .. 6 /\ converted[n].text # << >>
  BY DEF ConverterSound, Sound
<1>3. PICK b : b = MarkdownBlock(Top, s)
  OBVIOUS
<1>4. /\ b \in Blocks /\ b.kind = Top.kind /\ b.start = Top.start /\ b.text = s /\ b.level = Top.level
  BY <1>1, <1>3 DEF MarkdownBlock, Actives, Blocks
<1>5. b.kind = "heading" => b.level \in 1 .. 6
  BY <1>1, <1>4 DEF Fits
<1>6. CASE converted' = Append(converted, b) /\ (b.kind = "heading" => s # << >>)
  <2>1. PICK m \in Nat : m = Len(converted)
    BY <1>2
  <2>2. /\ converted' \in Seq(Blocks) /\ Len(converted') = m + 1
        /\ \A i \in 1 .. m : converted'[i] = converted[i]
        /\ converted'[m + 1] = b
    BY <1>2, <1>4, <1>6, <2>1, AppendIs
  <2>3. Emitted
    BY <1>1, <1>4, <2>1, <2>2 DEF Emitted
  <2>4. \A i \in 1 .. m + 1 : i \in 1 .. m \/ i = m + 1
    OBVIOUS
  <2>5. \A n \in 1 .. m + 1 :
           /\ Once(converted'[n].text)
           /\ converted'[n].kind = "heading" => converted'[n].level \in 1 .. 6 /\ converted'[n].text # << >>
    BY <1>2, <1>4, <1>5, <1>6, <2>1, <2>2, <2>4
  <2> QED
    BY <2>2, <2>3, <2>5
<1>7. CASE converted' = converted /\ s = << >>
  <2>1. HeldBy(Top) = {}
    BY <1>7, GapsSayNothing
  <2> QED
    BY <1>1, <1>2, <1>7, <2>1 DEF Emitted
<1>8. \/ converted' = converted /\ s = << >>
      \/ converted' = Append(converted, b) /\ (b.kind = "heading" => s # << >>)
  BY <1>3, <1>4 DEF PushBlock
<1> QED
  BY <1>6, <1>7, <1>8

StackSound == stack \in Seq(Actives) /\ \A i \in 1 .. Len(stack) : OnceIn(stack[i]) /\ Fits(stack[i])
BlocksSound ==
    /\ converted \in Seq(Blocks)
    /\ \A n \in 1 .. Len(converted) :
        /\ Once(converted[n].text)
        /\ converted[n].kind = "heading" => converted[n].level \in 1 .. 6 /\ converted[n].text # << >>

(* The converter is sound part by part. *)
LEMMA SoundParts ==
    ConverterSound <=> StackSound /\ (accum \in Accums /\ AccumSound(accum)) /\ BlocksSound
BY DEF ConverterSound, Sound, StackSound, BlocksSound

(* And after a step. *)
LEMMA SoundPartsAfter ==
    ASSUME StackSound', accum' \in Accums, AccumSound(accum'), BlocksSound'
    PROVE  ConverterSound'
BY DEF ConverterSound, Sound, StackSound, BlocksSound

(* Only the stack has changed. *)
LEMMA SoundSettled ==
    ASSUME ConverterSound, StackSound', Settled
    PROVE  ConverterSound'
BY DEF ConverterSound, Sound, StackSound, Settled

(* Nothing has changed. *)
LEMMA SoundStill ==
    ASSUME ConverterSound, stack' = stack, Settled
    PROVE  ConverterSound' /\ Unmoved
<1>1. StackSound'
  BY DEF ConverterSound, Sound, StackSound
<1>2. Unmoved
  BY DEF Unmoved, Frames
<1> QED
  BY <1>1, <1>2, SoundSettled

(* No run. *)
LEMMA EmptyAccum == NoText \in Accums /\ AccumSound(NoText)
<1>1. NoText.texts = << >> /\ NoText.start = 0
  BY DEF NoText
<1>2. NoText \in Accums
  BY NothingHeld DEF NoText, Accums
<1> QED
  BY <1>1, <1>2, NothingHeld DEF AccumSound

(* A flush leaves a sound run and sound blocks. *)
LEMMA FlushSounds ==
    ASSUME MarkdownTypeOK, ConverterSound, FlushText
    PROVE  accum' \in Accums /\ AccumSound(accum') /\ BlocksSound' /\ Flushed
<1>1. Flushed /\ accum' \in Accums /\ converted' \in Seq(Blocks)
  BY FlushFlushes DEF ConverterSound
<1>2. accum' = NoText
  BY <1>1 DEF Flushed
<1>3. AccumSound(accum')
  BY <1>2, EmptyAccum
<1>4. BlocksSound
  BY SoundParts
<1>5. BlocksSound'
  <2>1. CASE converted' = converted
    BY <1>4, <2>1 DEF BlocksSound
  <2>2. CASE converted' # converted
    <3>1. PICK m \in Nat : m = Len(converted)
      BY <1>4 DEF BlocksSound
    <3>2. /\ Len(converted') = m + 1
          /\ \A n \in 1 .. m : converted'[n] = converted[n]
          /\ converted'[m + 1].kind = "text" /\ Once(converted'[m + 1].text)
      BY <1>1, <2>2, <3>1 DEF Flushed
    <3>3. \A i \in 1 .. m + 1 : i \in 1 .. m \/ i = m + 1
      OBVIOUS
    <3> QED
      BY <1>1, <1>4, <3>1, <3>2, <3>3 DEF BlocksSound
  <2> QED
    BY <2>1, <2>2
<1> QED
  BY <1>1, <1>3, <1>5

(* The events that start an element. *)
LEMMA StructureStarts ==
    ASSUME MarkdownTypeOK, ConverterSound, NEW tag \in Structural, NEW level \in 0 .. 6, tag = "heading" => level # 0,
           FlushText, stack' = Append(stack, ActiveBlock(tag, level))
    PROVE  ConverterSound' /\ Grown(tag) /\ Flushed
<1>1. tag \in Handled /\ offset \in Nat \ {0}
  BY DEF Handled, MarkdownTypeOK
<1>2. accum' \in Accums /\ AccumSound(accum') /\ BlocksSound' /\ Flushed
  BY FlushSounds
<1>3. /\ stack' \in Seq(Actives) /\ Grown(tag)
      /\ \A i \in 1 .. Len(stack') : OnceIn(stack'[i]) /\ Fits(stack'[i])
  BY <1>1, PushGrows
<1>4. StackSound'
  BY <1>3 DEF StackSound
<1> QED
  BY <1>2, <1>3, <1>4, SoundPartsAfter

(* A paragraph, a quote or a list starts. *)
LEMMA TextStarts ==
    ASSUME MarkdownTypeOK, ConverterSound, NEW tag \in Handled \ Structural, Pushed(tag), Settled
    PROVE  ConverterSound' /\ Grown(tag)
<1>1. tag \in Handled /\ tag # "heading" /\ offset \in Nat \ {0} /\ 0 \in 0 .. 6
  BY DEF MarkdownTypeOK, Structural
<1>2. stack' = Append(stack, ActiveBlock(tag, 0))
  BY DEF Pushed
<1>3. /\ stack' \in Seq(Actives) /\ Grown(tag)
      /\ \A i \in 1 .. Len(stack') : OnceIn(stack'[i]) /\ Fits(stack'[i])
  BY <1>1, <1>2, PushGrows
<1>4. StackSound'
  BY <1>3 DEF StackSound
<1> QED
  BY <1>3, <1>4, SoundSettled

(* A top that is replaced by one that holds the same. *)
LEMMA TopRewritten ==
    ASSUME ConverterSound, stack # << >>, Settled,
           NEW b \in Actives, OnceIn(b), Fits(b), b.kind = Top.kind, b.start = Top.start,
           HeldBy(b) = HeldBy(Top), TopBecomes(b)
    PROVE  ConverterSound' /\ Unmoved /\ Remains(Len(stack) - 1) /\ stack'[Len(stack)] = b
<1>1. stack \in Seq(Actives)
  BY DEF ConverterSound
<1>2. PICK n \in Nat \ {0} : n = Len(stack) /\ Top = stack[n]
  BY <1>1, FrontIs DEF Top
<1>3. /\ stack' \in Seq(Actives) /\ Len(stack') = n /\ Remains(n - 1)
      /\ stack'[n] = b
      /\ \A i \in 1 .. Len(stack') : OnceIn(stack'[i]) /\ Fits(stack'[i])
      /\ Frames(n)
  BY <1>2, TopReplaced
<1>4. StackSound'
  BY <1>3 DEF StackSound
<1>5. \A i \in 1 .. n : HeldBy(stack'[i]) = HeldBy(stack[i])
  <2>1. \A i \in 1 .. n : i = n \/ i \in 1 .. n - 1
    OBVIOUS
  <2> QED
    BY <1>2, <1>3, <2>1 DEF Remains
<1>6. Unmoved
  BY <1>2, <1>3, <1>5 DEF Unmoved
<1> QED
  BY <1>2, <1>3, <1>4, <1>6, SoundSettled

(* The flag of a table head changes. *)
LEMMA HeadStarts ==
    ASSUME ConverterSound, stack # << >>, Settled, NEW b, NEW x \in BOOLEAN, b = [Top EXCEPT !.inHead = x], TopBecomes(b)
    PROVE  /\ ConverterSound' /\ Unmoved /\ Remains(Len(stack) - 1) /\ stack'[Len(stack)] = b
           /\ b.inHead = x /\ b.row = Top.row /\ b.cell = Top.cell
<1>1. Top \in Actives /\ OnceIn(Top) /\ Fits(Top)
  <2>1. << >> \in {<< >>, Blank}
    OBVIOUS
  <2> QED
    BY <2>1, TopSays
<1>2. /\ b \in Actives /\ b.kind = Top.kind /\ b.start = Top.start /\ b.level = Top.level
      /\ b.text = Top.text /\ b.lines = Top.lines /\ b.row = Top.row /\ b.cell = Top.cell /\ b.inHead = x
  BY <1>1 DEF Actives
<1>3. OnceIn(b) /\ Fits(b) /\ HeldBy(b) = HeldBy(Top)
  BY <1>1, <1>2 DEF OnceIn, Fits, HeldBy
<1> QED
  BY <1>2, <1>3, TopRewritten

(* An item of a list starts. *)
LEMMA ItemStarts ==
    ASSUME MarkdownTypeOK, ConverterSound, StartItem
    PROVE  ConverterSound' /\ Unmoved /\ Settled
<1>1. Settled
  BY DEF StartItem, NoOutput, Settled
<1>2. CASE stack # << >> /\ Top.kind = "list" /\ Top.text # << >>
  <2> DEFINE b == [Top EXCEPT !.text = Append(@, Blank)]
  <2>1. TopBecomes(b)
    BY <1>2 DEF StartItem
  <2>2. Top \in Actives /\ OnceIn(Top) /\ Fits(Top)
    <3>1. << >> \in {<< >>, Blank}
      OBVIOUS
    <3> QED
      BY <1>2, <3>1, TopSays
  <2>3. Top.text \in Texts
    BY <2>2 DEF Actives
  <2>4. Blank \in Seq(Nat) /\ Said(Blank) = {} /\ Once(Blank)
    BY GapsSayNothing
  <2>5. PICK t : t = Append(Top.text, Blank)
    OBVIOUS
  <2>6. t \in Texts /\ Held(t) = Held(Top.text) /\ (OnceAll(Top.text) => OnceAll(t))
    <3>1. /\ t \in Texts /\ Held(t) = Held(Top.text) \cup Said(Blank)
          /\ OnceAll(Top.text) /\ Once(Blank) /\ Held(Top.text) \cap Said(Blank) = {} => OnceAll(t)
      BY <2>3, <2>4, <2>5, HeldAppend
    <3>2. Held(Top.text) \cup Said(Blank) = Held(Top.text) /\ Held(Top.text) \cap Said(Blank) = {}
      BY <2>4
    <3> QED
      BY <2>4, <3>1, <3>2
  <2>7. /\ b \in Actives /\ b.kind = Top.kind /\ b.start = Top.start /\ b.level = Top.level
        /\ b.text = t /\ b.lines = Top.lines /\ b.row = Top.row /\ b.cell = Top.cell
    BY <2>2, <2>5, <2>6 DEF Actives
  <2> HIDE DEF b
  <2>8. OnceIn(b) /\ Fits(b) /\ HeldBy(b) = HeldBy(Top)
    BY <1>2, <2>2, <2>6, <2>7 DEF OnceIn, Fits, HeldBy
  <2> QED
    BY <1>1, <1>2, <2>1, <2>7, <2>8, TopRewritten
<1>3. CASE ~(stack # << >> /\ Top.kind = "list" /\ Top.text # << >>)
  BY <1>1, <1>3, SoundStill DEF StartItem
<1> QED
  BY <1>2, <1>3

(* The events that end an element. *)
LEMMA BlockEnds ==
    ASSUME ConverterSound, stack # << >>, NEW s \in Seq(Nat), Once(s), Said(s) = HeldBy(Top), Top.kind \in Structural,
           stack' = Front(stack), accum' = accum,
           \/ PushBlock(Top, s)
           \/ Top.kind # "heading" /\ converted' = Append(converted, MarkdownBlock(Top, s))
    PROVE  ConverterSound' /\ Popped /\ Emitted
<1>1. /\ stack' \in Seq(Actives) /\ Popped
      /\ \A i \in 1 .. Len(stack') : OnceIn(stack'[i]) /\ Fits(stack'[i])
  BY TopPops
<1>2. StackSound'
  BY <1>1 DEF StackSound
<1>3. /\ converted' \in Seq(Blocks) /\ Emitted
      /\ \A n \in 1 .. Len(converted') :
            /\ Once(converted'[n].text)
            /\ converted'[n].kind = "heading" => converted'[n].level \in 1 .. 6 /\ converted'[n].text # << >>
  BY BlockAppended
<1>4. BlocksSound'
  BY <1>3 DEF BlocksSound
<1>5. accum' \in Accums /\ AccumSound(accum')
  BY SoundParts
<1> QED
  BY <1>1, <1>2, <1>3, <1>4, <1>5, SoundPartsAfter

(* A heading, a code block or an image ends. *)
LEMMA ElementEnds ==
    ASSUME ConverterSound, stack # << >>, Top.kind \in Structural \ {"table"},
           stack' = Front(stack), accum' = accum,
           \/ PushBlock(Top, Joined(Top.text, << >>))
           \/ Top.kind # "heading" /\ converted' = Append(converted, MarkdownBlock(Top, Joined(Top.text, << >>)))
    PROVE  ConverterSound' /\ Popped /\ Emitted
<1>1. /\ Joined(Top.text, << >>) \in Seq(Nat) /\ Said(Joined(Top.text, << >>)) = HeldBy(Top)
      /\ Once(Joined(Top.text, << >>))
  <2>1. << >> \in {<< >>, Blank}
    OBVIOUS
  <2> QED
    BY <2>1, TopSays
<1>2. PICK s \in Seq(Nat) : s = Joined(Top.text, << >>)
  BY <1>1
<1>3. \/ PushBlock(Top, s)
      \/ Top.kind # "heading" /\ converted' = Append(converted, MarkdownBlock(Top, s))
  BY <1>2
<1> QED
  BY <1>1, <1>2, <1>3, BlockEnds

(* A table ends. *)
LEMMA TableEnds ==
    ASSUME ConverterSound, stack # << >>, Top.kind = "table", Top.row = << >>, Top.cell = << >>,
           stack' = Front(stack), accum' = accum, PushBlock(Top, Joined(Top.lines, Blank) \o Blank)
    PROVE  ConverterSound' /\ Popped /\ Emitted
<1>1. Top \in Actives /\ OnceIn(Top) /\ Fits(Top)
  <2>1. << >> \in {<< >>, Blank}
    OBVIOUS
  <2> QED
    BY <2>1, TopSays
<1>2. Top.lines \in Texts /\ OnceAll(Top.lines) /\ Top.text = << >>
  BY <1>1 DEF Actives, OnceIn, Fits
<1>3. PICK t : t = Joined(Top.lines, Blank)
  OBVIOUS
<1>4. t \in Seq(Nat) /\ Said(t) = Held(Top.lines) /\ Once(t)
  <2>1. Blank \in {<< >>, Blank}
    OBVIOUS
  <2> QED
    BY <1>2, <1>3, <2>1, JoinedIs
<1>5. Blank \in Seq(Nat) /\ Said(Blank) = {} /\ Once(Blank)
  BY GapsSayNothing
<1>6. PICK s : s = t \o Blank
  OBVIOUS
<1>7. s \in Seq(Nat) /\ Said(s) = Held(Top.lines) /\ Once(s)
  <2>1. /\ s \in Seq(Nat) /\ Said(s) = Said(t) \cup Said(Blank)
        /\ Once(t) /\ Once(Blank) /\ Said(t) \cap Said(Blank) = {} => Once(s)
    BY <1>4, <1>5, <1>6, SaidBoth
  <2>2. Said(t) \cup Said(Blank) = Said(t) /\ Said(t) \cap Said(Blank) = {}
    BY <1>5
  <2> QED
    BY <1>4, <1>5, <2>1, <2>2
<1>8. Said(s) = HeldBy(Top)
  BY <1>2, <1>7, NothingHeld DEF HeldBy
<1>9. PushBlock(Top, s) /\ Top.kind \in Structural
  BY <1>3, <1>6 DEF Structural
<1> QED
  BY <1>7, <1>8, <1>9, BlockEnds

(* A paragraph, a quote or a list ends and joins the run. *)
LEMMA TextEnds ==
    ASSUME ConverterSound, stack # << >>, Top.kind # "table", NEW gap \in {<< >>, Blank},
           stack' = Front(stack), accum' = AccumPush(accum, Joined(Top.text, gap), Top.start), converted' = converted,
           HeldBy(Top) \cap InAccum = {}, Top.start # 0, \A x \in HeldBy(Top) : Top.start <= x
    PROVE  ConverterSound' /\ Popped /\ Gathers(accum, accum', HeldBy(Top), {Top.start})
<1>1. /\ stack' \in Seq(Actives) /\ Popped
      /\ \A i \in 1 .. Len(stack') : OnceIn(stack'[i]) /\ Fits(stack'[i])
  BY TopPops
<1>2. StackSound'
  BY <1>1 DEF StackSound
<1>3. PICK s : s = Joined(Top.text, gap)
  OBVIOUS
<1>4. s \in Seq(Nat) /\ Said(s) = HeldBy(Top) /\ Once(s) /\ Top \in Actives
  BY <1>3, TopSays
<1>5. PICK from \in Nat \ {0} : from = Top.start
  BY <1>4 DEF Actives
<1>6. accum \in Accums /\ AccumSound(accum) /\ BlocksSound
  BY SoundParts
<1>7. Held(accum.texts) \cap Said(s) = {} /\ \A x \in Said(s) : from <= x
  BY <1>4, <1>5 DEF InAccum
<1>8. accum' = AccumPush(accum, s, from)
  BY <1>3, <1>5
<1>9. accum' \in Accums /\ AccumSound(accum') /\ Gathers(accum, accum', Said(s), {from})
  BY <1>4, <1>6, <1>7, <1>8, PushGathers
<1>10. BlocksSound'
  BY <1>6 DEF BlocksSound
<1>11. ConverterSound'
  BY <1>2, <1>9, <1>10, SoundPartsAfter
<1> QED
  BY <1>1, <1>4, <1>5, <1>9, <1>11

(* A paragraph ends and joins the quote or list below. *)
LEMMA ParagraphEndsBelow ==
    ASSUME ConverterSound, stack # << >>, Top.kind = "paragraph", Front(stack) # << >>, Last(Front(stack)).kind \in {"quote", "list"},
           NEW said, said = Joined(Top.text, << >>),
           stack' = Append(Front(Front(stack)),
                     [Last(Front(stack)) EXCEPT !.text =
                         (IF @ = << >> THEN @ ELSE Append(@, Blank)) \o <<said>>]),
           Settled,
           Len(stack) > 1 => HeldBy(stack[Len(stack)]) \cap HeldBy(stack[Len(stack) - 1]) = {}
    PROVE  ConverterSound' /\ Lowered
<1>1. stack \in Seq(Actives) /\ \A i \in 1 .. Len(stack) : OnceIn(stack[i]) /\ Fits(stack[i])
  BY DEF ConverterSound, Sound
<1>2. PICK n \in Nat \ {0} : n = Len(stack)
  BY <1>1, FrontIs
<1>3. /\ Top = stack[n] /\ Front(stack) \in Seq(Actives) /\ Len(Front(stack)) = n - 1
      /\ \A i \in 1 .. n - 1 : Front(stack)[i] = stack[i]
  <2>1. /\ Last(stack) = stack[Len(stack)] /\ Front(stack) \in Seq(Actives) /\ Len(Front(stack)) = Len(stack) - 1
        /\ \A i \in 1 .. Len(stack) - 1 : Front(stack)[i] = stack[i]
    BY ZenonT(40), <1>1, FrontIs
  <2> QED
    BY <1>2, <2>1 DEF Top
<1>4. PICK below \in Seq(Actives) : below = Front(stack) /\ below # << >>
  BY <1>3
<1>5. n > 1 /\ n - 1 \in 1 .. n /\ n - 1 \in 1 .. n - 1 /\ Last(below) = stack[n - 1]
  <2>1. Len(below) \in Nat \ {0} /\ Last(below) = below[Len(below)]
    BY <1>4, FrontIs
  <2>2. n - 1 \in Nat \ {0}
    BY <1>3, <1>4, <2>1
  <2>3. n - 1 \in 1 .. n - 1
    BY <2>2
  <2>4. Last(below) = below[n - 1]
    BY <1>3, <1>4, <2>1
  <2>5. below[n - 1] = stack[n - 1]
    BY <1>3, <1>4, <2>3
  <2> QED
    BY <2>2, <2>3, <2>4, <2>5
<1>6. PICK under : under = stack[n - 1]
  OBVIOUS
<1>7. under \in Actives /\ OnceIn(under) /\ Fits(under) /\ under.kind \in {"quote", "list"}
  BY <1>1, <1>2, <1>4, <1>5, <1>6
<1>8. /\ said \in Seq(Nat) /\ Said(said) = HeldBy(Top) /\ Once(said)
  <2>1. << >> \in {<< >>, Blank}
    OBVIOUS
  <2> QED
    BY <2>1, TopSays
<1>9. under.text \in Texts /\ OnceAll(under.text) /\ HeldBy(under) = Held(under.text)
  BY <1>7, NothingHeld DEF Actives, OnceIn, Fits, HeldBy
<1>10. PICK base : base = IF under.text = << >> THEN under.text ELSE Append(under.text, Blank)
  OBVIOUS
<1>11. base \in Texts /\ OnceAll(base) /\ Held(base) = Held(under.text)
  <2>1. CASE under.text = << >>
    BY <1>9, <1>10, <2>1
  <2>2. CASE under.text # << >>
    <3>1. Blank \in Seq(Nat) /\ Said(Blank) = {} /\ Once(Blank)
      BY GapsSayNothing
    <3>2. base = Append(under.text, Blank)
      BY <1>10, <2>2
    <3>3. /\ base \in Texts /\ Held(base) = Held(under.text) \cup Said(Blank)
          /\ OnceAll(under.text) /\ Once(Blank) /\ Held(under.text) \cap Said(Blank) = {} => OnceAll(base)
      BY <1>9, <3>1, <3>2, HeldAppend
    <3>4. Held(under.text) \cup Said(Blank) = Held(under.text) /\ Held(under.text) \cap Said(Blank) = {}
      BY <3>1
    <3> QED
      BY <1>9, <3>1, <3>3, <3>4
  <2> QED
    BY <2>1, <2>2
<1>12. PICK t : t = Append(base, said)
  OBVIOUS
<1>13. Held(base) \cap Said(said) = {}
  BY <1>2, <1>3, <1>5, <1>6, <1>8, <1>9, <1>11
<1>14. t \in Texts /\ OnceAll(t) /\ Held(t) = HeldBy(under) \cup HeldBy(Top)
  <2>1. /\ t \in Texts /\ Held(t) = Held(base) \cup Said(said)
        /\ OnceAll(base) /\ Once(said) /\ Held(base) \cap Said(said) = {} => OnceAll(t)
    BY <1>8, <1>11, <1>12, HeldAppend
  <2> QED
    BY <1>8, <1>9, <1>11, <1>13, <2>1
<1>15. base \o <<said>> = t
  <2>1. base \in Seq(Seq(Nat))
    BY <1>11 DEF Texts
  <2> QED
    BY <1>8, <1>12, <2>1, ConcatOne
<1>16. PICK b : b = [under EXCEPT !.text = t]
  OBVIOUS
<1>17. /\ b \in Actives /\ b.kind = under.kind /\ b.start = under.start /\ b.level = under.level
       /\ b.text = t /\ b.lines = under.lines /\ b.row = under.row /\ b.cell = under.cell
  BY <1>7, <1>14, <1>16 DEF Actives
<1>18. OnceIn(b) /\ Fits(b) /\ HeldBy(b) = HeldBy(under) \cup HeldBy(Top)
  <2>1. b.lines = << >> /\ b.row = << >> /\ b.cell = << >> /\ Fits(b)
    BY <1>7, <1>17 DEF Fits
  <2>2. OnceIn(b)
    BY <1>14, <1>17, <2>1, NothingHeld DEF OnceIn
  <2>3. HeldBy(b) = Held(t)
    BY <1>17, <2>1, NothingHeld DEF HeldBy
  <2> QED
    BY <1>14, <2>1, <2>2, <2>3
<1>19. stack' = Append(Front(below), b)
  <2>1. b = [under EXCEPT !.text = (IF @ = << >> THEN @ ELSE Append(@, Blank)) \o <<said>>]
    BY <1>10, <1>15, <1>16
  <2> QED
    BY <1>4, <1>5, <1>6, <2>1
<1>20. /\ stack' \in Seq(Actives) /\ Len(stack') = n - 1 /\ stack'[n - 1] = b
       /\ \A i \in 1 .. n - 1 - 1 : stack'[i] = below[i]
  <2>1. PICK m \in Nat : m = n - 1 /\ m = Len(below)
    BY <1>3, <1>4, <1>5
  <2>2. /\ Append(Front(below), b) \in Seq(Actives) /\ Len(Append(Front(below), b)) = m
        /\ Append(Front(below), b)[m] = b
        /\ \A i \in 1 .. m - 1 : Append(Front(below), b)[i] = below[i]
    BY SMTT(30), <1>4, <1>17, <2>1, TopChanges
  <2> QED
    BY <1>19, <2>1, <2>2
<1>21. PICK m \in Nat \ {0} : m = n - 1
  BY <1>5
<1>22. \A i \in 1 .. m - 1 : i \in 1 .. m /\ i \in 1 .. n /\ stack'[i] = stack[i]
  BY <1>3, <1>4, <1>20, <1>21
<1>23. \A i \in 1 .. m : i = m \/ i \in 1 .. m - 1
  OBVIOUS
<1>24. stack'[m] = b /\ Len(stack') = m
  BY <1>20, <1>21
<1>25. StackSound'
  <2>1. \A i \in 1 .. m : OnceIn(stack'[i]) /\ Fits(stack'[i])
    BY <1>1, <1>2, <1>18, <1>22, <1>23, <1>24
  <2> QED
    BY <1>20, <1>24, <2>1 DEF StackSound
<1>26. Lowered
  <2>1. n - 2 = m - 1
    BY <1>21
  <2>2. Remains(n - 2)
    BY <1>22, <2>1 DEF Remains
  <2>3. Frames(m)
    BY <1>6, <1>17, <1>21, <1>22, <1>23, <1>24 DEF Frames
  <2>4. HeldBy(stack'[m]) = HeldBy(stack[n - 1]) \cup HeldBy(stack[n])
    BY <1>3, <1>6, <1>18, <1>24
  <2> QED
    BY <1>2, <1>5, <1>6, <1>7, <1>21, <1>24, <2>2, <2>3, <2>4 DEF Lowered
<1> QED
  BY <1>25, <1>26, SoundSettled

(* What the element on top is made of. *)
LEMMA TopMade ==
    ASSUME ConverterSound, stack # << >>
    PROVE  /\ Top \in Actives /\ OnceIn(Top) /\ Fits(Top)
           /\ Top.text \in Texts /\ Top.lines \in Texts /\ Top.row \in Texts /\ Top.cell \in Texts
           /\ Top = stack[Len(stack)] /\ Len(stack) \in Nat \ {0}
<1>1. /\ Top \in Actives /\ OnceIn(Top) /\ Fits(Top) /\ Top = stack[Len(stack)] /\ Len(stack) \in Nat \ {0}
  <2>1. << >> \in {<< >>, Blank}
    OBVIOUS
  <2> QED
    BY <2>1, TopSays
<1> QED
  BY <1>1 DEF Actives

(* A cell ends and joins the head or the row. *)
LEMMA CellEnds ==
    ASSUME ConverterSound, stack # << >>, Top.kind = "table", Settled,
           NEW cell, cell = Trimmed(Joined(Top.cell, << >>)),
           TopBecomes(IF Top.inHead THEN [Top EXCEPT !.cell = << >>, !.lines = Append(@, cell)]
                                    ELSE [Top EXCEPT !.cell = << >>, !.row = Append(@, cell)])
    PROVE  /\ ConverterSound' /\ Unmoved /\ Remains(Len(stack) - 1)
           /\ stack'[Len(stack)].cell = << >> /\ stack'[Len(stack)].inHead = Top.inHead
           /\ Top.inHead => stack'[Len(stack)].row = Top.row
<1>1. /\ Top \in Actives /\ OnceIn(Top) /\ Fits(Top)
      /\ Top.text \in Texts /\ Top.lines \in Texts /\ Top.row \in Texts /\ Top.cell \in Texts
  BY TopMade
<1>2. /\ OnceAll(Top.lines) /\ OnceAll(Top.row) /\ OnceAll(Top.cell) /\ OnceAll(Top.text)
      /\ Held(Top.lines) \cap Held(Top.row) = {} /\ Held(Top.lines) \cap Held(Top.cell) = {}
      /\ Held(Top.row) \cap Held(Top.cell) = {} /\ Top.text = << >>
  BY <1>1 DEF OnceIn, Fits
<1>3. cell \in Seq(Nat) /\ Said(cell) = Held(Top.cell) /\ Once(cell)
  <2>1. << >> \in {<< >>, Blank}
    OBVIOUS
  <2>2. PICK s : s = Joined(Top.cell, << >>)
    OBVIOUS
  <2>3. s \in Seq(Nat) /\ Said(s) = Held(Top.cell) /\ Once(s)
    BY <1>1, <1>2, <2>1, <2>2, JoinedIs
  <2> QED
    BY <2>2, <2>3, TrimmedSays
<1>4. CASE Top.inHead
  <2>1. PICK t : t = Append(Top.lines, cell)
    OBVIOUS
  <2>2. Held(Top.lines) \cap Said(cell) = {}
    BY <1>2, <1>3
  <2>3. t \in Texts /\ OnceAll(t) /\ Held(t) = Held(Top.lines) \cup Held(Top.cell)
    BY <1>1, <1>2, <1>3, <2>1, <2>2, HeldAppend
  <2>4. PICK b : b = [Top EXCEPT !.cell = << >>, !.lines = t]
    OBVIOUS
  <2>5. << >> \in Texts
    BY NothingHeld
  <2>6. /\ b \in Actives /\ b.kind = Top.kind /\ b.start = Top.start /\ b.level = Top.level
        /\ b.text = Top.text /\ b.lines = t /\ b.row = Top.row /\ b.cell = << >> /\ b.inHead = Top.inHead
    BY <1>1, <2>3, <2>4, <2>5 DEF Actives
  <2>7. OnceIn(b) /\ Fits(b)
    <3>1. Held(t) \cap Held(Top.row) = {} /\ Held(<< >>) = {} /\ OnceAll(<< >>)
      BY <1>2, <2>3, NothingHeld
    <3>2. OnceIn(b)
      BY <1>2, <2>3, <2>6, <3>1 DEF OnceIn
    <3>3. Fits(b)
      BY <1>1, <2>6 DEF Fits
    <3> QED
      BY <3>2, <3>3
  <2>8. HeldBy(b) = HeldBy(Top)
    BY <1>2, <2>3, <2>6, NothingHeld DEF HeldBy
  <2>9. TopBecomes(b)
    BY <1>4, <2>1, <2>4
  <2>10. ConverterSound' /\ Unmoved /\ Remains(Len(stack) - 1) /\ stack'[Len(stack)] = b
    BY <2>6, <2>7, <2>8, <2>9, TopRewritten
  <2> QED
    BY <2>6, <2>10
<1>5. CASE ~Top.inHead
  <2>1. PICK t : t = Append(Top.row, cell)
    OBVIOUS
  <2>2. Held(Top.row) \cap Said(cell) = {}
    BY <1>2, <1>3
  <2>3. t \in Texts /\ OnceAll(t) /\ Held(t) = Held(Top.row) \cup Held(Top.cell)
    BY <1>1, <1>2, <1>3, <2>1, <2>2, HeldAppend
  <2>4. PICK b : b = [Top EXCEPT !.cell = << >>, !.row = t]
    OBVIOUS
  <2>5. << >> \in Texts
    BY NothingHeld
  <2>6. /\ b \in Actives /\ b.kind = Top.kind /\ b.start = Top.start /\ b.level = Top.level
        /\ b.text = Top.text /\ b.lines = Top.lines /\ b.row = t /\ b.cell = << >> /\ b.inHead = Top.inHead
    BY <1>1, <2>3, <2>4, <2>5 DEF Actives
  <2>7. OnceIn(b) /\ Fits(b)
    <3>1. Held(Top.lines) \cap Held(t) = {} /\ Held(<< >>) = {} /\ OnceAll(<< >>)
      BY <1>2, <2>3, NothingHeld
    <3>2. OnceIn(b)
      BY <1>2, <2>3, <2>6, <3>1 DEF OnceIn
    <3>3. Fits(b)
      BY <1>1, <2>6 DEF Fits
    <3> QED
      BY <3>2, <3>3
  <2>8. HeldBy(b) = HeldBy(Top)
    BY <1>2, <2>3, <2>6, NothingHeld DEF HeldBy
  <2>9. TopBecomes(b)
    BY <1>5, <2>1, <2>4
  <2>10. ConverterSound' /\ Unmoved /\ Remains(Len(stack) - 1) /\ stack'[Len(stack)] = b
    BY <2>6, <2>7, <2>8, <2>9, TopRewritten
  <2> QED
    BY <1>5, <2>6, <2>10
<1> QED
  BY <1>4, <1>5

(* A row ends and joins the lines of its table. *)
LEMMA RowEnds ==
    ASSUME ConverterSound, stack # << >>, Top.kind = "table", Settled,
           TopBecomes(IF Top.inHead THEN Top
                      ELSE [Top EXCEPT !.lines = Append(@, Joined(Top.row, Blank)), !.row = << >>])
    PROVE  /\ ConverterSound' /\ Unmoved /\ Remains(Len(stack) - 1)
           /\ stack'[Len(stack)].cell = Top.cell /\ stack'[Len(stack)].inHead = Top.inHead
           /\ ~Top.inHead => stack'[Len(stack)].row = << >>
<1>1. /\ Top \in Actives /\ OnceIn(Top) /\ Fits(Top)
      /\ Top.text \in Texts /\ Top.lines \in Texts /\ Top.row \in Texts /\ Top.cell \in Texts
  BY TopMade
<1>2. /\ OnceAll(Top.lines) /\ OnceAll(Top.row) /\ OnceAll(Top.cell) /\ OnceAll(Top.text)
      /\ Held(Top.lines) \cap Held(Top.row) = {} /\ Held(Top.lines) \cap Held(Top.cell) = {}
      /\ Held(Top.row) \cap Held(Top.cell) = {} /\ Top.text = << >>
  BY <1>1 DEF OnceIn, Fits
<1>3. CASE Top.inHead
  <2>1. PICK b : b = Top
    OBVIOUS
  <2>2. b \in Actives /\ OnceIn(b) /\ Fits(b) /\ b.kind = Top.kind /\ b.start = Top.start /\ HeldBy(b) = HeldBy(Top) /\ TopBecomes(b)
    BY <1>1, <1>3, <2>1
  <2>3. ConverterSound' /\ Unmoved /\ Remains(Len(stack) - 1) /\ stack'[Len(stack)] = b
    BY <2>2, TopRewritten
  <2> QED
    BY <1>3, <2>1, <2>3
<1>4. CASE ~Top.inHead
  <2>1. PICK s : s = Joined(Top.row, Blank)
    OBVIOUS
  <2>2. s \in Seq(Nat) /\ Said(s) = Held(Top.row) /\ Once(s)
    <3>1. Blank \in {<< >>, Blank}
      OBVIOUS
    <3> QED
      BY <1>1, <1>2, <2>1, <3>1, JoinedIs
  <2>3. PICK t : t = Append(Top.lines, s)
    OBVIOUS
  <2>4. Held(Top.lines) \cap Said(s) = {}
    BY <1>2, <2>2
  <2>5. t \in Texts /\ OnceAll(t) /\ Held(t) = Held(Top.lines) \cup Held(Top.row)
    BY <1>1, <1>2, <2>2, <2>3, <2>4, HeldAppend
  <2>6. PICK b : b = [Top EXCEPT !.lines = t, !.row = << >>]
    OBVIOUS
  <2>7. << >> \in Texts
    BY NothingHeld
  <2>8. /\ b \in Actives /\ b.kind = Top.kind /\ b.start = Top.start /\ b.level = Top.level
        /\ b.text = Top.text /\ b.lines = t /\ b.row = << >> /\ b.cell = Top.cell /\ b.inHead = Top.inHead
    BY <1>1, <2>5, <2>6, <2>7 DEF Actives
  <2>9. OnceIn(b) /\ Fits(b)
    <3>1. Held(t) \cap Held(Top.cell) = {} /\ Held(<< >>) = {} /\ OnceAll(<< >>)
      BY <1>2, <2>5, NothingHeld
    <3>2. OnceIn(b)
      BY <1>2, <2>5, <2>8, <3>1 DEF OnceIn
    <3>3. Fits(b)
      BY <1>1, <2>8 DEF Fits
    <3> QED
      BY <3>2, <3>3
  <2>10. HeldBy(b) = HeldBy(Top)
    BY <1>2, <2>5, <2>8, NothingHeld DEF HeldBy
  <2>11. TopBecomes(b)
    BY <1>4, <2>1, <2>3, <2>6
  <2>12. ConverterSound' /\ Unmoved /\ Remains(Len(stack) - 1) /\ stack'[Len(stack)] = b
    BY <2>8, <2>9, <2>10, <2>11, TopRewritten
  <2> QED
    BY <1>4, <2>8, <2>12
<1> QED
  BY <1>3, <1>4

(* A piece of text is said by the element on top. *)
LEMMA PieceSaid ==
    ASSUME ConverterSound, stack # << >>, Settled, offset \in Nat \ {0}, offset \notin HeldBy(Top),
           TopBecomes(IF Top.kind = "table" THEN [Top EXCEPT !.cell = Append(@, <<offset>>)]
                                            ELSE [Top EXCEPT !.text = Append(@, <<offset>>)])
    PROVE  /\ ConverterSound' /\ Added
           /\ stack'[Len(stack)].inHead = Top.inHead /\ stack'[Len(stack)].row = Top.row
           /\ Top.kind = "table" \/ stack'[Len(stack)].cell = Top.cell
<1>1. /\ Top \in Actives /\ OnceIn(Top) /\ Fits(Top)
      /\ Top.text \in Texts /\ Top.lines \in Texts /\ Top.row \in Texts /\ Top.cell \in Texts
      /\ Top = stack[Len(stack)] /\ Len(stack) \in Nat \ {0}
  BY TopMade
<1>2. PICK s : s = <<offset>>
  OBVIOUS
<1>3. s \in Seq(Nat) /\ Said(s) = {offset} /\ Once(s)
  BY <1>2, PieceSays
<1>4. /\ OnceAll(Top.lines) /\ OnceAll(Top.row) /\ OnceAll(Top.cell) /\ OnceAll(Top.text)
      /\ Held(Top.lines) \cap Held(Top.row) = {} /\ Held(Top.lines) \cap Held(Top.cell) = {}
      /\ Held(Top.row) \cap Held(Top.cell) = {}
  BY <1>1 DEF OnceIn
<1>5. offset \notin Held(Top.text) /\ offset \notin Held(Top.lines) /\ offset \notin Held(Top.row) /\ offset \notin Held(Top.cell)
  BY DEF HeldBy
<1>6. ASSUME NEW b \in Actives, OnceIn(b), Fits(b), b.kind = Top.kind, b.start = Top.start,
             HeldBy(b) = HeldBy(Top) \cup {offset}, TopBecomes(b)
      PROVE  ConverterSound' /\ Added /\ stack'[Len(stack)] = b
  <2>1. /\ stack' \in Seq(Actives) /\ Len(stack') = Len(stack) /\ Remains(Len(stack) - 1)
        /\ stack'[Len(stack)] = b /\ Frames(Len(stack))
        /\ \A i \in 1 .. Len(stack') : OnceIn(stack'[i]) /\ Fits(stack'[i])
    BY <1>6, TopReplaced
  <2>2. StackSound'
    BY <2>1 DEF StackSound
  <2>3. Added
    BY <1>1, <1>6, <2>1 DEF Added
  <2> QED
    BY <2>1, <2>2, <2>3, SoundSettled
<1>7. CASE Top.kind = "table"
  <2>1. PICK t : t = Append(Top.cell, s)
    OBVIOUS
  <2>2. Held(Top.cell) \cap Said(s) = {}
    BY <1>3, <1>5
  <2>3. t \in Texts /\ OnceAll(t) /\ Held(t) = Held(Top.cell) \cup {offset}
    <3>1. t \in Texts /\ OnceAll(t) /\ Held(t) = Held(Top.cell) \cup Said(s)
      BY <1>1, <1>3, <1>4, <2>1, <2>2, HeldAppend
    <3> QED
      BY <1>3, <3>1
  <2>4. PICK b : b = [Top EXCEPT !.cell = t]
    OBVIOUS
  <2>5. /\ b \in Actives /\ b.kind = Top.kind /\ b.start = Top.start /\ b.level = Top.level
        /\ b.text = Top.text /\ b.lines = Top.lines /\ b.row = Top.row /\ b.cell = t /\ b.inHead = Top.inHead
    BY <1>1, <2>3, <2>4 DEF Actives
  <2>6. OnceIn(b)
    <3>1. Held(Top.lines) \cap Held(t) = {} /\ Held(Top.row) \cap Held(t) = {}
      BY <1>4, <1>5, <2>3
    <3> QED
      BY <1>4, <2>3, <2>5, <3>1 DEF OnceIn
  <2>7. Fits(b)
    BY <1>1, <1>7, <2>5 DEF Fits
  <2>8. HeldBy(b) = HeldBy(Top) \cup {offset}
    BY <2>3, <2>5 DEF HeldBy
  <2>9. TopBecomes(b)
    BY <1>2, <1>7, <2>1, <2>4
  <2>10. ConverterSound' /\ Added /\ stack'[Len(stack)] = b
    BY <1>6, <2>5, <2>6, <2>7, <2>8, <2>9
  <2> QED
    BY <1>7, <2>5, <2>10
<1>8. CASE Top.kind # "table"
  <2>1. PICK t : t = Append(Top.text, s)
    OBVIOUS
  <2>2. Held(Top.text) \cap Said(s) = {}
    BY <1>3, <1>5
  <2>3. t \in Texts /\ OnceAll(t) /\ Held(t) = Held(Top.text) \cup {offset}
    <3>1. t \in Texts /\ OnceAll(t) /\ Held(t) = Held(Top.text) \cup Said(s)
      BY <1>1, <1>3, <1>4, <2>1, <2>2, HeldAppend
    <3> QED
      BY <1>3, <3>1
  <2>4. PICK b : b = [Top EXCEPT !.text = t]
    OBVIOUS
  <2>5. /\ b \in Actives /\ b.kind = Top.kind /\ b.start = Top.start /\ b.level = Top.level
        /\ b.text = t /\ b.lines = Top.lines /\ b.row = Top.row /\ b.cell = Top.cell /\ b.inHead = Top.inHead
    BY <1>1, <2>3, <2>4 DEF Actives
  <2>6. OnceIn(b)
    BY <1>4, <2>3, <2>5 DEF OnceIn
  <2>7. Fits(b)
    BY <1>1, <1>8, <2>5 DEF Fits
  <2>8. HeldBy(b) = HeldBy(Top) \cup {offset}
    BY <2>3, <2>5 DEF HeldBy
  <2>9. TopBecomes(b)
    BY <1>2, <1>8, <2>1, <2>4
  <2>10. ConverterSound' /\ Added /\ stack'[Len(stack)] = b
    BY <1>6, <2>5, <2>6, <2>7, <2>8, <2>9
  <2> QED
    BY <1>8, <2>5, <2>10
<1> QED
  BY <1>7, <1>8

(* An HTML fragment sweeps the stack into the run, from the top down. *)
LEMMA PushTypes ==
    ASSUME NEW acc \in Accums, NEW s \in Seq(Nat), NEW from \in Nat
    PROVE  AccumPush(acc, s, from) \in Accums
<1>1. acc.texts \in Texts /\ acc.start \in Nat
  BY DEF Accums
<1>2. Append(acc.texts, s) \in Texts
  BY <1>1, HeldAppend
<1> QED
  BY <1>1, <1>2 DEF AccumPush, Accums

Sweep ==
    LET swept[n \in 0 .. Len(stack)] ==
            IF n = 0 THEN accum
            ELSE LET b == stack[Len(stack) + 1 - n]
                 IN AccumPush(swept[n - 1], Joined(b.text, Blank), b.start)
    IN swept

(* The recursive function of the sweep goes down the stack. *)
LEMMA SweepIs ==
    ASSUME ConverterSound
    PROVE  /\ Sweep[0] = accum
           /\ \A n \in 1 .. Len(stack) :
                 /\ Sweep[n - 1] \in Accums
                 /\ Sweep[n] = AccumPush(Sweep[n - 1], Joined(stack[Len(stack) + 1 - n].text, Blank),
                                         stack[Len(stack) + 1 - n].start)
<1>1. stack \in Seq(Actives) /\ accum \in Accums
  BY DEF ConverterSound
<1>2. PICK len \in Nat : len = Len(stack)
  BY <1>1
<1> DEFINE Said1(n) == Joined(stack[len + 1 - n].text, Blank)
           From(n) == stack[len + 1 - n].start
           swept == CHOOSE g : g = [n \in 0 .. len |-> IF n = 0 THEN accum ELSE AccumPush(g[n - 1], Said1(n), From(n))]
           step == [p \in Nat \X Accums |->
                      IF p[1] + 1 \in 1 .. len THEN AccumPush(p[2], Said1(p[1] + 1), From(p[1] + 1)) ELSE accum]
<1>3. \A n \in 1 .. len : Said1(n) \in Seq(Nat) /\ From(n) \in Nat
  <2> TAKE n \in 1 .. len
  <2>1. len + 1 - n \in 1 .. len
    OBVIOUS
  <2>2. stack[len + 1 - n] \in Actives
    BY <1>1, <1>2, <2>1
  <2>3. stack[len + 1 - n].text \in Texts /\ stack[len + 1 - n].start \in Nat
    BY <2>2 DEF Actives
  <2>4. Blank \in {<< >>, Blank}
    OBVIOUS
  <2> QED
    BY <2>3, <2>4, JoinedIs
<1>4. Sweep = swept
  BY <1>2 DEF Sweep
<1> HIDE DEF Said1, From
<1>5. \A acc \in Accums, n \in 1 .. len : AccumPush(acc, Said1(n), From(n)) \in Accums
  BY <1>3, PushTypes
<1>6. /\ IsStep(step, Accums)
      /\ \A n \in Nat, v \in Accums : n + 1 \in 1 .. len => step[<<n, v>>] = AccumPush(v, Said1(n + 1), From(n + 1))
  <2>1. ASSUME NEW p \in Nat \X Accums
        PROVE  (IF p[1] + 1 \in 1 .. len THEN AccumPush(p[2], Said1(p[1] + 1), From(p[1] + 1)) ELSE accum) \in Accums
    <3>1. CASE p[1] + 1 \in 1 .. len
      <4>1. p[2] \in Accums
        OBVIOUS
      <4> QED
        BY <1>5, <3>1, <4>1
    <3>2. CASE p[1] + 1 \notin 1 .. len
      BY <1>1, <3>2
    <3> QED
      BY <3>1, <3>2
  <2> QED
    BY <2>1 DEF IsStep
<1>7. PICK f : Iterates(f, Accums, accum, step)
  <2> HIDE DEF step
  <2> QED
    BY <1>1, <1>6, Recursion
<1> HIDE DEF step
<1> DEFINE g == [n \in 0 .. len |-> f[n]]
<1>8. g = [n \in 0 .. len |-> IF n = 0 THEN accum ELSE AccumPush(g[n - 1], Said1(n), From(n))]
  <2>1. ASSUME NEW n \in 0 .. len, n # 0
        PROVE  g[n] = AccumPush(g[n - 1], Said1(n), From(n))
    <3>1. n - 1 \in Nat /\ n - 1 \in 0 .. len /\ (n - 1) + 1 = n /\ n \in 1 .. len /\ f[n - 1] \in Accums
      BY <1>7, <2>1 DEF Iterates
    <3>2. f[n] = step[<<n - 1, f[n - 1]>>]
      BY <1>7, <3>1 DEF Iterates
    <3> QED
      BY <1>6, <3>1, <3>2
  <2>2. g[0] = accum
    BY <1>7 DEF Iterates
  <2> QED
    BY <2>1, <2>2
<1> HIDE DEF g
<1>9. swept = [n \in 0 .. len |-> IF n = 0 THEN accum ELSE AccumPush(swept[n - 1], Said1(n), From(n))]
  BY <1>8
<1> HIDE DEF swept
<1>10. swept[0] = accum /\ \A n \in 1 .. len : swept[n] = AccumPush(swept[n - 1], Said1(n), From(n))
  <2>1. 0 \in 0 .. len /\ \A n \in 1 .. len : n \in 0 .. len /\ n # 0
    OBVIOUS
  <2>2. \A n \in 0 .. len : swept[n] = IF n = 0 THEN accum ELSE AccumPush(swept[n - 1], Said1(n), From(n))
    BY <1>9
  <2> QED
    BY <2>1, <2>2
<1> DEFINE Typed == {n \in Nat : n \in 0 .. len => swept[n] \in Accums}
<1>11. 0 \in Typed
  BY <1>1, <1>10
<1>12. ASSUME NEW n \in Nat, n \in Typed
       PROVE  n + 1 \in Typed
  <2> SUFFICES ASSUME n + 1 \in 1 .. len
               PROVE  swept[n + 1] \in Accums
    OBVIOUS
  <2>1. (n + 1) - 1 = n /\ n \in 0 .. len
    OBVIOUS
  <2>2. swept[n + 1] = AccumPush(swept[n], Said1(n + 1), From(n + 1)) /\ swept[n] \in Accums
    BY <1>10, <1>12, <2>1
  <2> QED
    BY <1>5, <2>2
<1> HIDE DEF Typed
<1>13. Nat \subseteq Typed
  BY <1>11, <1>12, Induction
<1>14. \A n \in 1 .. len : swept[n - 1] \in Accums
  <2>1. \A n \in 1 .. len : n - 1 \in Nat /\ n - 1 \in 0 .. len
    OBVIOUS
  <2> QED
    BY <1>13, <2>1 DEF Typed
<1> USE DEF Said1, From
<1> QED
  BY <1>2, <1>4, <1>10, <1>14

-----------------------------------------------------------------------------
(* An HTML fragment sweeps the stack. *)

(* What the run takes in of the elements k to Len(stack). *)
FromTop(k) == UNION {HeldBy(stack[i]) : i \in k .. Len(stack)}
StartsFrom(k) == {stack[i].start : i \in k .. Len(stack)}

(* The sweep lets the run take in the whole stack. *)
LEMMA SweepGathers ==
    ASSUME ConverterSound,
           \A i \in 1 .. Len(stack) : stack[i].kind # "table" /\ stack[i].start # 0,
           \A i \in 1 .. Len(stack) : \A x \in HeldBy(stack[i]) : stack[i].start <= x,
           \A i, j \in 1 .. Len(stack) : i # j => HeldBy(stack[i]) \cap HeldBy(stack[j]) = {},
           \A i \in 1 .. Len(stack) : HeldBy(stack[i]) \cap InAccum = {}
    PROVE  /\ Sweep[Len(stack)] \in Accums /\ AccumSound(Sweep[Len(stack)])
           /\ Gathers(accum, Sweep[Len(stack)], FromTop(1), StartsFrom(1))
<1>1. stack \in Seq(Actives) /\ accum \in Accums /\ AccumSound(accum)
  BY DEF ConverterSound, Sound
<1>2. PICK len \in Nat : len = Len(stack)
  BY <1>1
<1>3. PICK sw : sw = Sweep
  OBVIOUS
<1>4. /\ sw[0] = accum
      /\ \A n \in 1 .. len :
            /\ sw[n - 1] \in Accums
            /\ sw[n] = AccumPush(sw[n - 1], Joined(stack[len + 1 - n].text, Blank), stack[len + 1 - n].start)
  BY <1>2, <1>3, SweepIs
<1>5. ASSUME NEW i \in 1 .. len
      PROVE  /\ stack[i] \in Actives /\ stack[i].start \in Nat \ {0}
             /\ Joined(stack[i].text, Blank) \in Seq(Nat) /\ Once(Joined(stack[i].text, Blank))
             /\ Said(Joined(stack[i].text, Blank)) = HeldBy(stack[i]) /\ HeldBy(stack[i]) \subseteq Nat
  <2>1. stack[i] \in Actives /\ OnceIn(stack[i]) /\ Fits(stack[i]) /\ stack[i].kind # "table"
    BY <1>1, <1>2 DEF ConverterSound, Sound
  <2>2. PICK b \in Actives : b = stack[i]
    BY <2>1
  <2>3. b.text \in Texts /\ OnceAll(b.text) /\ HeldBy(b) = Held(b.text) /\ b.start \in Nat
    BY <2>1, <2>2, NothingHeld DEF Actives, OnceIn, Fits, HeldBy
  <2>4. PICK s : s = Joined(b.text, Blank)
    OBVIOUS
  <2>5. s \in Seq(Nat) /\ Once(s) /\ Said(s) = HeldBy(b)
    <3>1. Blank \in {<< >>, Blank}
      OBVIOUS
    <3> QED
      BY <2>3, <2>4, <3>1, JoinedIs
  <2>6. Said(s) \subseteq Nat
    BY <2>5, Members DEF Said
  <2> QED
    BY <1>2, <2>1, <2>2, <2>3, <2>4, <2>5, <2>6
<1> DEFINE Good == {n \in Nat : n \in 0 .. len =>
                      /\ sw[n] \in Accums /\ AccumSound(sw[n])
                      /\ Gathers(accum, sw[n], FromTop(len + 1 - n), StartsFrom(len + 1 - n))}
<1>6. 0 \in Good
  <2>1. len + 1 - 0 = len + 1 /\ len + 1 .. len = {}
    OBVIOUS
  <2>2. FromTop(len + 1) = {} /\ StartsFrom(len + 1) = {}
    BY <1>2, <2>1 DEF FromTop, StartsFrom
  <2>3. Gathers(accum, accum, {}, {})
    <3>1. accum.start \in Nat
      BY <1>1 DEF Accums
    <3> QED
      BY <3>1 DEF Gathers
  <2> QED
    BY <1>1, <1>4, <2>1, <2>2, <2>3
<1>7. ASSUME NEW n \in Nat, n \in Good
      PROVE  n + 1 \in Good
  <2> SUFFICES ASSUME n + 1 \in 0 .. len
               PROVE  /\ sw[n + 1] \in Accums /\ AccumSound(sw[n + 1])
                      /\ Gathers(accum, sw[n + 1], FromTop(len + 1 - (n + 1)), StartsFrom(len + 1 - (n + 1)))
    OBVIOUS
  <2>1. PICK i \in 1 .. len : i = len - n
    <3>1. len - n \in 1 .. len
      OBVIOUS
    <3> QED
      BY <3>1
  <2>2. /\ n + 1 \in 1 .. len /\ (n + 1) - 1 = n /\ len + 1 - (n + 1) = i /\ len + 1 - n = i + 1 /\ n \in 0 .. len
    BY <2>1
  <2>3. PICK acc : acc = sw[n]
    OBVIOUS
  <2>4. acc \in Accums /\ AccumSound(acc) /\ Gathers(accum, acc, FromTop(i + 1), StartsFrom(i + 1))
    BY <1>7, <2>2, <2>3
  <2>5. sw[n + 1] = AccumPush(acc, Joined(stack[i].text, Blank), stack[i].start)
    BY <1>4, <2>2, <2>3
  <2>6. PICK s \in Seq(Nat) : s = Joined(stack[i].text, Blank)
    BY <1>5
  <2>7. PICK from \in Nat \ {0} : from = stack[i].start
    BY <1>5
  <2>8. Once(s) /\ Said(s) = HeldBy(stack[i]) /\ \A x \in Said(s) : from <= x
    BY <1>2, <1>5, <2>6, <2>7
  <2>9. Held(acc.texts) \cap Said(s) = {}
    <3>1. Held(acc.texts) = InAccum \cup FromTop(i + 1)
      BY <2>4 DEF Gathers, InAccum
    <3>2. \A j \in i + 1 .. len : HeldBy(stack[j]) \cap HeldBy(stack[i]) = {}
      <4>1. \A j \in i + 1 .. len : j \in 1 .. len /\ j # i
        OBVIOUS
      <4> QED
        BY <1>2, <4>1
    <3>3. FromTop(i + 1) \cap HeldBy(stack[i]) = {}
      BY <1>2, <3>2 DEF FromTop
    <3>4. HeldBy(stack[i]) \cap InAccum = {}
      BY <1>2
    <3> QED
      BY <2>8, <3>1, <3>3, <3>4
  <2>10. PICK then : then = sw[n + 1]
    OBVIOUS
  <2>11. then \in Accums /\ AccumSound(then) /\ Gathers(acc, then, Said(s), {from})
    BY <2>4, <2>5, <2>6, <2>7, <2>8, <2>9, <2>10, PushGathers
  <2>12. FromTop(i + 1) \in SUBSET Nat /\ Said(s) \in SUBSET Nat
    <3>1. \A j \in i + 1 .. len : j \in 1 .. len
      OBVIOUS
    <3> QED
      BY <1>2, <1>5, <2>8, <3>1 DEF FromTop
  <2>13. Gathers(accum, then, FromTop(i + 1) \cup Said(s), StartsFrom(i + 1) \cup {from})
    BY <1>1, <2>4, <2>11, <2>12, GathersOn
  <2>14. FromTop(i) = FromTop(i + 1) \cup Said(s) /\ StartsFrom(i) = StartsFrom(i + 1) \cup {from}
    <3>1. i \in i .. len /\ \A j \in i .. len : j = i \/ j \in i + 1 .. len
      OBVIOUS
    <3>2. \A j \in i + 1 .. len : j \in i .. len
      OBVIOUS
    <3>3. FromTop(i) = FromTop(i + 1) \cup Said(s)
      BY <1>2, <2>8, <3>1, <3>2 DEF FromTop
    <3>4. StartsFrom(i) = StartsFrom(i + 1) \cup {from}
      BY <1>2, <2>7, <3>1, <3>2 DEF StartsFrom
    <3> QED
      BY <3>3, <3>4
  <2>15. Gathers(accum, then, FromTop(i), StartsFrom(i))
    BY <2>13, <2>14
  <2> QED
    BY <2>2, <2>10, <2>11, <2>15
<1> HIDE DEF Good
<1>8. Nat \subseteq Good
  BY <1>6, <1>7, Induction
<1>9. len \in Good /\ len \in 0 .. len /\ len + 1 - len = 1
  BY <1>8
<1> USE DEF Good
<1>10. sw[len] \in Accums /\ AccumSound(sw[len]) /\ Gathers(accum, sw[len], FromTop(1), StartsFrom(1))
  BY <1>9
<1> QED
  BY <1>2, <1>3, <1>10

(* And then the fragment. *)
LEMMA FragmentGathers ==
    ASSUME ConverterSound, offset \in Nat \ {0}, converted' = converted, stack' = << >>,
           \A i \in 1 .. Len(stack) : stack[i].kind # "table" /\ stack[i].start # 0,
           \A i \in 1 .. Len(stack) : \A x \in HeldBy(stack[i]) : stack[i].start <= x /\ x < offset,
           \A i, j \in 1 .. Len(stack) : i # j => HeldBy(stack[i]) \cap HeldBy(stack[j]) = {},
           \A i \in 1 .. Len(stack) : HeldBy(stack[i]) \cap InAccum = {},
           \A x \in InAccum : x < offset,
           accum' = AccumPush(Sweep[Len(stack)], <<offset>>, offset)
    PROVE  /\ ConverterSound'
           /\ Gathers(accum, accum', FromTop(1) \cup {offset}, StartsFrom(1) \cup {offset})
<1>1. PICK acc : acc = Sweep[Len(stack)]
  OBVIOUS
<1>2. acc \in Accums /\ AccumSound(acc) /\ Gathers(accum, acc, FromTop(1), StartsFrom(1))
  BY <1>1, SweepGathers
<1>3. PICK s : s = <<offset>>
  OBVIOUS
<1>4. s \in Seq(Nat) /\ Said(s) = {offset} /\ Once(s)
  BY <1>3, PieceSays
<1>5. Held(acc.texts) \cap Said(s) = {}
  <2>1. Held(acc.texts) = InAccum \cup FromTop(1)
    BY <1>2 DEF Gathers, InAccum
  <2>2. \A x \in FromTop(1) : x < offset
    BY DEF FromTop
  <2>3. ~(offset < offset)
    OBVIOUS
  <2> QED
    BY <1>4, <2>1, <2>2, <2>3
<1>6. \A x \in Said(s) : offset <= x
  BY <1>4
<1>7. PICK then : then = AccumPush(acc, s, offset)
  OBVIOUS
<1>8. then \in Accums /\ AccumSound(then) /\ Gathers(acc, then, Said(s), {offset})
  BY <1>2, <1>4, <1>5, <1>6, <1>7, PushGathers
<1>9. accum \in Accums /\ AccumSound(accum) /\ BlocksSound
  BY SoundParts
<1>10. FromTop(1) \in SUBSET Nat /\ Said(s) \in SUBSET Nat
  <2>1. Held(acc.texts) \subseteq Nat
    <3>1. acc.texts \in Seq(Seq(Nat))
      BY <1>2 DEF Accums, Texts
    <3>2. \A k \in 1 .. Len(acc.texts) : acc.texts[k] \in Seq(Nat)
      BY <3>1
    <3> QED
      BY <3>2, Members DEF Held, Said
  <2> QED
    BY <1>2, <1>4, <2>1 DEF Gathers
<1>11. Gathers(accum, then, FromTop(1) \cup Said(s), StartsFrom(1) \cup {offset})
  BY <1>2, <1>8, <1>9, <1>10, GathersOn
<1>12. accum' = then
  BY <1>1, <1>3, <1>7
<1>13. StackSound'
  BY DEF StackSound
<1>14. BlocksSound'
  BY <1>9 DEF BlocksSound
<1>15. ConverterSound'
  BY <1>8, <1>12, <1>13, <1>14, SoundPartsAfter
<1> QED
  BY <1>4, <1>11, <1>12, <1>15

-----------------------------------------------------------------------------
(* What is on the stack, and what tables hold. *)

(* What lies around the innermost element. *)
LEMMA Around1 ==
    ASSUME MarkdownTypeOK, Nested, NEW j \in 1 .. Len(open), j # Len(open), open[j].tag \notin Flowing
    PROVE  /\ Inner \in {"image", "head", "row", "cell"}
           /\ Inner \in {"head", "row"} => open[j].tag = "table"
<1>1. open # << >>
  BY DEF MarkdownTypeOK
<1>2. PICK n \in Nat \ {0} : n = Len(open) /\ Inner = open[n].tag
  BY <1>1, InnermostIs
<1>3. n \in j + 1 .. n /\ n \in 1 .. n /\ j \in 1 .. n
  BY <1>2
<1>4. open[n].tag \in {"image", "head", "row", "cell"}
  BY <1>2, <1>3 DEF Nested
<1>5. ASSUME open[n].tag \in {"head", "row"}
      PROVE  open[j].tag = "table"
  <2>1. open[n - 1].tag = "table"
    BY <1>2, <1>3, <1>5 DEF Nested
  <2>2. CASE j = n - 1
    BY <2>1, <2>2
  <2>3. CASE j # n - 1
    <3>1. n - 1 \in j + 1 .. n
      BY <1>2, <1>3, <2>3
    <3>2. open[n - 1].tag \in {"image", "head", "row", "cell"}
      BY <1>2, <3>1 DEF Nested
    <3> QED
      BY <2>1, <3>2
  <2> QED
    BY <2>2, <2>3
<1> QED
  BY <1>2, <1>4, <1>5

(* What is on the stack lies between the outermost open element and the *)
(* next event.                                                          *)
LEMMA StackIn ==
    ASSUME MarkdownTypeOK, Nested, Mirrors, NEW i \in 1 .. Len(stack)
    PROVE  /\ stack[i] \in Actives /\ stack[i].kind \in Handled
           /\ stack[i].start \in 1 .. offset - 1 /\ stack[i].start \in Nat \ {0} /\ stack[i].start < offset
           /\ open # << >> /\ open[1].at \in Nat /\ open[1].at <= stack[i].start
<1>1. stack[i] \in Actives /\ stack[i].kind \in Handled /\ offset \in Nat
  <2>1. stack \in Seq(Actives) /\ offset \in Nat
    BY DEF MarkdownTypeOK
  <2>2. stack[i] \in Actives
    BY <2>1
  <2> QED
    BY <2>1, <2>2 DEF Actives
<1>2. PICK j \in 1 .. Len(open) : open[j].at = stack[i].start
  BY DEF Mirrors
<1>3. open # << >> /\ 1 \in 1 .. Len(open) /\ Len(open) \in Nat
  BY <1>2 DEF MarkdownTypeOK
<1>4. open[j].at \in 1 .. offset - 1 /\ open[1].at \in 1 .. offset - 1
  BY <1>3 DEF Nested
<1>5. j # 1 => open[1].at < open[j].at
  <2>1. j # 1 => j \in 1 + 1 .. Len(open)
    BY <1>3
  <2> QED
    BY <1>3, <2>1 DEF Nested
<1> QED
  BY <1>1, <1>2, <1>3, <1>4, <1>5

(* Above a table or a block on the stack there are only images. *)
LEMMA OnlyImagesAbove ==
    ASSUME MarkdownTypeOK, Nested, Mirrors, NEW i \in 1 .. Len(stack), NEW k \in 1 .. Len(stack), i < k,
           stack[i].kind \notin Flowing
    PROVE  stack[k].kind = "image"
<1>1. PICK j \in 1 .. Len(open) : open[j].tag = stack[i].kind /\ open[j].at = stack[i].start
  BY DEF Mirrors
<1>2. PICK l \in 1 .. Len(open) : open[l].tag = stack[k].kind /\ open[l].at = stack[k].start
  BY DEF Mirrors
<1>3. stack[i].start < stack[k].start
  <2>1. Len(stack) \in Nat
    BY DEF MarkdownTypeOK
  <2>2. k \in i + 1 .. Len(stack)
    BY <2>1
  <2> QED
    BY <2>2 DEF Mirrors
<1>4. stack[i].start \in Nat /\ stack[k].start \in Nat /\ stack[k].kind \in Handled /\ Len(open) \in Nat
  BY StackIn DEF MarkdownTypeOK
<1>5. l > j
  <2>1. l < j => open[l].at < open[j].at
    <3>1. l < j => j \in l + 1 .. Len(open)
      BY <1>4
    <3> QED
      BY <3>1 DEF Nested
  <2>2. l # j
    BY <1>1, <1>2, <1>3, <1>4
  <2> QED
    BY <1>1, <1>2, <1>3, <1>4, <2>1, <2>2
<1>6. l \in j + 1 .. Len(open)
  BY <1>4, <1>5
<1>7. open[l].tag \in {"image", "head", "row", "cell"}
  BY <1>1, <1>6 DEF Nested
<1> QED
  BY <1>2, <1>4, <1>7 DEF Handled, Structural

(* There is one table on the stack at most, on top. *)
LEMMA TableAlone ==
    ASSUME MarkdownTypeOK, Nested, Mirrors, stack # << >>, Top.kind = "table"
    PROVE  \A i \in 1 .. Len(stack) : stack[i].kind = "table" => i = Len(stack)
<1>1. Len(stack) \in Nat \ {0} /\ Len(stack) \in 1 .. Len(stack) /\ Top = stack[Len(stack)]
  BY TopIs
<1>2. \A i \in 1 .. Len(stack) : i # Len(stack) => i < Len(stack)
  BY <1>1
<1>3. "table" \notin Flowing
  BY DEF Flowing
<1> QED
  BY <1>1, <1>2, <1>3, OnlyImagesAbove

(* Which elements are open after an event. *)
LEMMA OpenAfterStart ==
    ASSUME MarkdownTypeOK, NEW tag \in Tags, Starts(tag), NEW t
    PROVE  IsOpen(t)' <=> IsOpen(t) \/ t = tag
<1>1. PICK n \in Nat : n = Len(open)
  BY DEF MarkdownTypeOK
<1>2. /\ Len(open') = n + 1
      /\ \A i \in 1 .. n : open'[i].tag = open[i].tag
      /\ open'[n + 1].tag = tag
  BY <1>1, StartsOpens
<1>3. \A i \in 1 .. n + 1 : i \in 1 .. n \/ i = n + 1
  OBVIOUS
<1>4. \A i \in 1 .. n : i \in 1 .. n + 1
  OBVIOUS
<1>5. n + 1 \in 1 .. n + 1
  OBVIOUS
<1> QED
  BY <1>1, <1>2, <1>3, <1>4, <1>5 DEF IsOpen

(* What is open after an end. *)
LEMMA OpenAfterEnd ==
    ASSUME MarkdownTypeOK, NEW tag \in Tags, Ends(tag), NEW t
    PROVE  /\ IsOpen(t)' => \E j \in 1 .. Len(open) : j # Len(open) /\ open[j].tag = t
           /\ IsOpen(t)' => IsOpen(t)
           /\ IsOpen(t) /\ t # tag => IsOpen(t)'
<1>1. PICK n \in Nat \ {0} : n = Len(open)
  BY EndsCloses
<1>2. /\ Len(open') = n - 1 /\ open[n].tag = tag
      /\ \A i \in 1 .. n - 1 : open'[i] = open[i]
  BY <1>1, EndsCloses
<1>3. \A i \in 1 .. n : i = n \/ i \in 1 .. n - 1
  OBVIOUS
<1>4. \A i \in 1 .. n - 1 : i \in 1 .. n /\ i # n
  OBVIOUS
<1> QED
  BY <1>1, <1>2, <1>3, <1>4 DEF IsOpen

(* Tables that do not change stay filled as they are. *)
LEMMA TablesKeep ==
    ASSUME TablesFilled,
           IsOpen("head")' <=> IsOpen("head"), IsOpen("row") => IsOpen("row")', IsOpen("cell") => IsOpen("cell")',
           \A i \in 1 .. Len(stack') : stack'[i].kind = "table" =>
              \/ /\ i \in 1 .. Len(stack) /\ stack[i].kind = "table" /\ stack'[i].inHead = stack[i].inHead
                 /\ stack'[i].row = stack[i].row /\ stack'[i].cell = stack[i].cell
              \/ ~stack'[i].inHead /\ stack'[i].row = << >> /\ stack'[i].cell = << >> /\ ~IsOpen("head")
    PROVE  TablesFilled'
<1> SUFFICES ASSUME NEW i \in 1 .. Len(stack'), stack'[i].kind = "table"
             PROVE  /\ stack'[i].inHead <=> IsOpen("head")'
                    /\ stack'[i].row # << >> => IsOpen("row")'
                    /\ stack'[i].cell # << >> => IsOpen("cell")'
  BY DEF TablesFilled
<1>1. CASE /\ i \in 1 .. Len(stack) /\ stack[i].kind = "table" /\ stack'[i].inHead = stack[i].inHead
           /\ stack'[i].row = stack[i].row /\ stack'[i].cell = stack[i].cell
  <2>1. /\ stack[i].inHead <=> IsOpen("head")
        /\ stack[i].row # << >> => IsOpen("row")
        /\ stack[i].cell # << >> => IsOpen("cell")
    BY <1>1 DEF TablesFilled
  <2> QED
    BY <1>1, <2>1
<1>2. CASE ~stack'[i].inHead /\ stack'[i].row = << >> /\ stack'[i].cell = << >> /\ ~IsOpen("head")
  BY <1>2
<1> QED
  BY <1>1, <1>2

-----------------------------------------------------------------------------
(* The steps as moves: what each does to what is held. *)

(* What the proofs of the steps may assume. *)
FramesApart ==
    /\ \A i, j \in 1 .. Len(stack) : i # j => InStack(i) \cap InStack(j) = {}
    /\ \A i \in 1 .. Len(stack) : InStack(i) \cap InAccum = {}
Before ==
    /\ MarkdownTypeOK /\ ConverterSound
    /\ Nested /\ Mirrors /\ TablesFilled /\ FramesApart
    /\ \A i \in 1 .. Len(stack) : \A x \in InStack(i) : stack[i].start <= x /\ x < offset
    /\ \A x \in InAccum : x < offset

After == ConverterSound' /\ TablesFilled'

StartsBlock(tag) == Starts(tag) /\ Grown(tag) /\ Flushed
StartsText(tag) == Starts(tag) /\ Grown(tag) /\ Settled
Passes(tag) == (Starts(tag) \/ Ends(tag)) /\ Unmoved /\ Settled
EndsTop(tag) ==
    /\ Ends(tag) /\ stack # << >>
    /\ stack[Len(stack)].kind = tag /\ stack[Len(stack)].start = open[Len(open)].at
EndsBlock(tag) == EndsTop(tag) /\ Popped /\ accum' = accum /\ Emitted
EndsText(tag) ==
    /\ EndsTop(tag) /\ Popped /\ converted' = converted
    /\ Gathers(accum, accum', InStack(Len(stack)), {stack[Len(stack)].start})
EndsBelow == EndsTop("paragraph") /\ Lowered /\ Settled
EndsClosed(tag) == Ends(tag) /\ stack = << >> /\ stack' = << >> /\ Settled
SaysOn == Says /\ Added /\ Settled
SaysLost == Says /\ stack = << >> /\ stack' = << >> /\ Settled
Fragment ==
    /\ ~seen.ended /\ Inner \in Within["html"] /\ offset' = offset + 1
    /\ seen' = [seen EXCEPT !.fragment = offset, !.pieces = @ \cup {[Piece EXCEPT !.adrift = FALSE]}]
    /\ open' = open /\ stack' = << >> /\ converted' = converted
    /\ \A i \in 1 .. Len(stack) : stack[i].kind \in {"quote", "list"}
    /\ Gathers(accum, accum', FromTop(1) \cup {offset}, StartsFrom(1) \cup {offset})
Stops ==
    /\ ~seen.ended /\ open = << >> /\ Flushed
    /\ seen' = [seen EXCEPT !.ended = TRUE]
    /\ open' = open /\ offset' = offset /\ stack' = stack

Move ==
    \/ \E tag \in Structural : StartsBlock(tag)
    \/ \E tag \in Handled \ Structural : StartsText(tag)
    \/ \E tag \in Tags \ Handled : Passes(tag)
    \/ \E tag \in Structural : EndsBlock(tag)
    \/ \E tag \in Handled \ Structural : EndsText(tag)
    \/ EndsBelow
    \/ \E tag \in {"quote", "list"} : EndsClosed(tag)
    \/ SaysOn \/ SaysLost \/ Fragment \/ Stops

(* An element that remains. *)
LEMMA KeptParts ==
    ASSUME NEW n, Remains(n), NEW i \in 1 .. n
    PROVE  /\ stack'[i].kind = stack[i].kind /\ stack'[i].inHead = stack[i].inHead
           /\ stack'[i].row = stack[i].row /\ stack'[i].cell = stack[i].cell
BY DEF Remains

(* Tables stay as filled when an element is pushed. *)
LEMMA TablesAfterGrowth ==
    ASSUME Before, NEW tag \in Handled, Starts(tag), Grown(tag)
    PROVE  TablesFilled'
<1>1. tag \in Tags /\ tag # "head"
  BY DEF Tags, Handled, Structural
<1>2. \A t : IsOpen(t)' <=> IsOpen(t) \/ t = tag
  BY <1>1, OpenAfterStart DEF Before
<1>3. (IsOpen("head")' <=> IsOpen("head")) /\ (IsOpen("row") => IsOpen("row")') /\ (IsOpen("cell") => IsOpen("cell")')
  <2>1. IsOpen("head")' <=> IsOpen("head") \/ "head" = tag
    BY <1>1, OpenAfterStart DEF Before
  <2>2. IsOpen("row")' <=> IsOpen("row") \/ "row" = tag
    BY <1>1, OpenAfterStart DEF Before
  <2>3. IsOpen("cell")' <=> IsOpen("cell") \/ "cell" = tag
    BY <1>1, OpenAfterStart DEF Before
  <2> QED
    BY <1>1, <2>1, <2>2, <2>3
<1>4. PICK n \in Nat : n = Len(stack)
  BY DEF Before, MarkdownTypeOK
<1>5. /\ Len(stack') = n + 1 /\ Remains(n)
      /\ stack'[n + 1].kind = tag /\ ~stack'[n + 1].inHead
      /\ stack'[n + 1].row = << >> /\ stack'[n + 1].cell = << >>
  BY <1>4 DEF Grown
<1>6. tag = "table" => ~IsOpen("head")
  <2> SUFFICES ASSUME tag = "table", NEW j \in 1 .. Len(open), open[j].tag = "head"
               PROVE  FALSE
    BY DEF IsOpen
  <2>1. Inner \in {"document", "quote", "tight", "loose"}
    BY StartsOpens, Grammar, <1>1 DEF Before
  <2>2. open # << >>
    BY DEF Before, MarkdownTypeOK
  <2>3. j = Len(open) => Inner = "head"
    BY <2>2, InnermostIs DEF Before
  <2>4. j # Len(open) => Inner \in {"image", "head", "row", "cell"}
    BY Around1 DEF Before, Flowing
  <2> QED
    BY <2>1, <2>3, <2>4
<1>7. \A i \in 1 .. n + 1 : i \in 1 .. n \/ i = n + 1
  OBVIOUS
<1>8. \A i \in 1 .. n + 1 : stack'[i].kind = "table" =>
         \/ /\ i \in 1 .. Len(stack) /\ stack[i].kind = "table" /\ stack'[i].inHead = stack[i].inHead
            /\ stack'[i].row = stack[i].row /\ stack'[i].cell = stack[i].cell
         \/ ~stack'[i].inHead /\ stack'[i].row = << >> /\ stack'[i].cell = << >> /\ ~IsOpen("head")
  <2> TAKE i \in 1 .. n + 1
  <2>1. CASE i \in 1 .. n
    BY <1>4, <1>5, <2>1, KeptParts
  <2>2. CASE i = n + 1
    BY <1>5, <1>6, <2>2
  <2> QED
    BY <1>7, <2>1, <2>2
<1> QED
  BY <1>3, <1>5, <1>8, TablesKeep DEF Before

(* When the frames that stay keep what they have. *)
LEMMA TablesAfterEnd ==
    ASSUME Before, NEW tag \in Tags \ {"head", "row", "cell"}, Ends(tag),
           \A i \in 1 .. Len(stack') : stack'[i].kind = "table" =>
              /\ i \in 1 .. Len(stack) /\ stack[i].kind = "table" /\ stack'[i].inHead = stack[i].inHead
              /\ stack'[i].row = stack[i].row /\ stack'[i].cell = stack[i].cell
    PROVE  TablesFilled'
<1>1. (IsOpen("head")' <=> IsOpen("head")) /\ (IsOpen("row") => IsOpen("row")') /\ (IsOpen("cell") => IsOpen("cell")')
  <2>1. (IsOpen("head")' => IsOpen("head")) /\ (IsOpen("head") /\ "head" # tag => IsOpen("head")')
    BY OpenAfterEnd DEF Before
  <2>2. IsOpen("row") /\ "row" # tag => IsOpen("row")'
    BY OpenAfterEnd DEF Before
  <2>3. IsOpen("cell") /\ "cell" # tag => IsOpen("cell")'
    BY OpenAfterEnd DEF Before
  <2> QED
    BY <2>1, <2>2, <2>3
<1> QED
  BY <1>1, TablesKeep DEF Before

(* Tables stay as filled when an element is popped. *)
LEMMA TablesAfterPop ==
    ASSUME Before, NEW tag \in Tags \ {"head", "row", "cell"}, Ends(tag), Popped
    PROVE  TablesFilled'
<1>1. PICK n \in Nat : n = Len(stack)
  BY DEF Before, MarkdownTypeOK
<1>2. Len(stack') = n - 1 /\ Remains(n - 1)
  BY <1>1 DEF Popped
<1>3. \A i \in 1 .. n - 1 : i \in 1 .. n
  OBVIOUS
<1>4. \A i \in 1 .. n - 1 :
         /\ i \in 1 .. Len(stack) /\ stack'[i].kind = stack[i].kind /\ stack'[i].inHead = stack[i].inHead
         /\ stack'[i].row = stack[i].row /\ stack'[i].cell = stack[i].cell
  BY <1>1, <1>2, <1>3, KeptParts
<1>5. \A i \in 1 .. Len(stack') : stack'[i].kind = "table" =>
              /\ i \in 1 .. Len(stack) /\ stack[i].kind = "table" /\ stack'[i].inHead = stack[i].inHead
              /\ stack'[i].row = stack[i].row /\ stack'[i].cell = stack[i].cell
  BY <1>2, <1>4
<1> QED
  BY <1>5, TablesAfterEnd

(* The steps that start an element. *)
LEMMA StructureMoves ==
    ASSUME Before, NEW tag \in Structural, NEW level \in 0 .. 6, tag = "heading" => level # 0,
           Starts(tag), FlushText, stack' = Append(stack, ActiveBlock(tag, level))
    PROVE  After /\ Move
<1>1. ConverterSound' /\ Grown(tag) /\ Flushed
  BY StructureStarts DEF Before
<1>2. StartsBlock(tag)
  BY <1>1 DEF StartsBlock
<1>3. TablesFilled'
  BY <1>1, TablesAfterGrowth DEF Handled
<1> QED
  BY <1>1, <1>2, <1>3 DEF After, Move

(* The steps that start an element of running text. *)
LEMMA TextMoves ==
    ASSUME Before, NEW tag \in Handled \ Structural, StartOfText(tag)
    PROVE  After /\ Move
<1>1. Starts(tag) /\ Pushed(tag) /\ Settled
  BY DEF StartOfText, NoOutput, Settled
<1>2. ConverterSound' /\ Grown(tag)
  BY <1>1, TextStarts DEF Before
<1>3. StartsText(tag)
  BY <1>1, <1>2 DEF StartsText
<1>4. TablesFilled'
  BY <1>1, <1>2, TablesAfterGrowth
<1> QED
  BY <1>2, <1>3, <1>4 DEF After, Move

(* The steps that start an element the code knows. *)
LEMMA StartMoves ==
    ASSUME MarkdownAssumption, Before,
           StartHeading \/ StartCodeBlock \/ StartTable \/ StartImage \/ StartParagraph \/ StartBlockQuote \/ StartList
    PROVE  After /\ Move
<1>1. CASE StartHeading
  <2>1. PICK level \in Levels : stack' = Append(stack, ActiveBlock("heading", level))
    BY <1>1 DEF StartHeading
  <2>2. level \in 0 .. 6 /\ level # 0 /\ "heading" \in Structural
    BY DEF MarkdownAssumption, Structural
  <2> QED
    BY <1>1, <2>1, <2>2, StructureMoves DEF StartHeading
<1>2. ASSUME NEW tag \in {"code", "table", "image"}, StartOfBlock(tag)
      PROVE  After /\ Move
  <2>1. tag \in Structural /\ tag # "heading" /\ 0 \in 0 .. 6
    BY DEF Structural
  <2>2. Starts(tag) /\ FlushText /\ stack' = Append(stack, ActiveBlock(tag, 0))
    BY <1>2 DEF StartOfBlock, Pushed
  <2> QED
    BY <2>1, <2>2, StructureMoves
<1>3. ASSUME NEW tag \in {"paragraph", "quote", "list"}, StartOfText(tag)
      PROVE  After /\ Move
  <2>1. tag \in Handled \ Structural
    BY DEF Handled, Structural
  <2> QED
    BY <1>3, <2>1, TextMoves
<1> QED
  BY <1>1, <1>2, <1>3 DEF StartCodeBlock, StartTable, StartImage, StartParagraph, StartBlockQuote, StartList

(* The step that starts a table head. *)
LEMMA HeadMoves ==
    ASSUME Before, StartTableHead
    PROVE  After /\ Move
<1>1. Starts("head") /\ Settled /\ TopBecomes([Top EXCEPT !.inHead = TRUE])
  BY DEF StartTableHead, NoOutput, Settled
<1>2. "head" \in Tags \ Handled
  BY DEF Tags, Handled, Structural, TableParts
<1>3. Inner = "table"
  BY <1>1, <1>2, StartsOpens, Grammar DEF Before
<1>4. stack # << >> /\ Top.kind = "table"
  <2>1. Inner \in Handled /\ Inner \notin Flowing
    BY <1>3 DEF Handled, Structural, Flowing
  <2> QED
    BY <1>3, <2>1, TopMatches DEF Before
<1>5. PICK b : b = [Top EXCEPT !.inHead = TRUE]
  OBVIOUS
<1>6. /\ ConverterSound' /\ Unmoved /\ Remains(Len(stack) - 1) /\ stack'[Len(stack)] = b
      /\ b.inHead = TRUE /\ b.row = Top.row /\ b.cell = Top.cell
  BY <1>1, <1>4, <1>5, HeadStarts DEF Before
<1>7. PICK n \in Nat \ {0} : n = Len(stack) /\ Top = stack[n]
  BY <1>4, TopIs DEF Before
<1>8. \A i \in 1 .. n : stack'[i].kind = "table" => i = n
  BY <1>4, <1>6, <1>7, TableAlone DEF Before, Unmoved, Frames
<1>9. TablesFilled'
  <2>1. IsOpen("head")' /\ (IsOpen("row") => IsOpen("row")') /\ (IsOpen("cell") => IsOpen("cell")')
    <3>1. IsOpen("head")' <=> IsOpen("head") \/ "head" = "head"
      BY <1>1, <1>2, OpenAfterStart DEF Before
    <3>2. IsOpen("row")' <=> IsOpen("row") \/ "row" = "head"
      BY <1>1, <1>2, OpenAfterStart DEF Before
    <3>3. IsOpen("cell")' <=> IsOpen("cell") \/ "cell" = "head"
      BY <1>1, <1>2, OpenAfterStart DEF Before
    <3> QED
      BY <3>1, <3>2, <3>3
  <2>2. n \in 1 .. n /\ Len(stack') = n
    BY <1>6, <1>7 DEF Unmoved
  <2>3. /\ stack[n].row # << >> => IsOpen("row")
        /\ stack[n].cell # << >> => IsOpen("cell")
    BY <1>4, <1>7, <2>2 DEF Before, TablesFilled
  <2>4. stack'[n].inHead = TRUE /\ stack'[n].row = stack[n].row /\ stack'[n].cell = stack[n].cell
    BY <1>6, <1>7
  <2> QED
    BY <1>8, <2>1, <2>2, <2>3, <2>4 DEF TablesFilled
<1>10. Passes("head")
  BY <1>1, <1>6 DEF Passes
<1> QED
  BY <1>2, <1>6, <1>9, <1>10 DEF After, Move

(* Steps that leave the tables on the stack alone. *)
LEMMA TablesAfterPass ==
    ASSUME Before, NEW tag \in (Tags \ Handled) \ {"head"}, Starts(tag),
           \A i \in 1 .. Len(stack') : stack'[i].kind = "table" =>
              /\ i \in 1 .. Len(stack) /\ stack[i].kind = "table" /\ stack'[i].inHead = stack[i].inHead
              /\ stack'[i].row = stack[i].row /\ stack'[i].cell = stack[i].cell
    PROVE  TablesFilled'
<1>1. (IsOpen("head")' <=> IsOpen("head")) /\ (IsOpen("row") => IsOpen("row")') /\ (IsOpen("cell") => IsOpen("cell")')
  <2>1. IsOpen("head")' <=> IsOpen("head") \/ "head" = tag
    BY OpenAfterStart DEF Before
  <2>2. IsOpen("row")' <=> IsOpen("row") \/ "row" = tag
    BY OpenAfterStart DEF Before
  <2>3. IsOpen("cell")' <=> IsOpen("cell") \/ "cell" = tag
    BY OpenAfterStart DEF Before
  <2> QED
    BY <2>1, <2>2, <2>3
<1> QED
  BY <1>1, TablesKeep DEF Before

(* Tables stay as filled when the stack keeps its elements. *)
LEMMA SameTables ==
    ASSUME stack' = stack
    PROVE  \A i \in 1 .. Len(stack') : stack'[i].kind = "table" =>
              /\ i \in 1 .. Len(stack) /\ stack[i].kind = "table" /\ stack'[i].inHead = stack[i].inHead
              /\ stack'[i].row = stack[i].row /\ stack'[i].cell = stack[i].cell
OBVIOUS

(* The steps that start an item. *)
LEMMA ItemMoves ==
    ASSUME Before, StartItem
    PROVE  After /\ Move
<1>1. PICK tag \in {"tight", "loose"} : Starts(tag)
  BY DEF StartItem
<1>2. tag \in (Tags \ Handled) \ {"head"} /\ tag \in Tags \ Handled
  BY DEF Tags, Handled, Structural, TableParts
<1>3. ConverterSound' /\ Unmoved /\ Settled
  BY ItemStarts DEF Before
<1>4. \A i \in 1 .. Len(stack') : stack'[i].kind = "table" =>
              /\ i \in 1 .. Len(stack) /\ stack[i].kind = "table" /\ stack'[i].inHead = stack[i].inHead
              /\ stack'[i].row = stack[i].row /\ stack'[i].cell = stack[i].cell
  <2>1. CASE stack' = stack
    BY <2>1, SameTables
  <2>2. CASE stack' # stack
    <3>1. stack # << >> /\ Top.kind = "list" /\ TopBecomes([Top EXCEPT !.text = Append(@, Blank)])
      BY <2>2 DEF StartItem
    <3>2. PICK n \in Nat \ {0} : n = Len(stack) /\ Top = stack[n]
      BY <3>1, TopIs DEF Before
    <3>3. PICK b : b = [Top EXCEPT !.text = Append(@, Blank)]
      OBVIOUS
    <3>4. stack' = Append(Front(stack), b)
      BY <3>1, <3>3 DEF TopBecomes
    <3>5. stack \in Seq(Actives) /\ Top \in Actives
      BY <3>1, TopIs DEF Before, MarkdownTypeOK
    <3>6. b \in Actives
      <4>1. Top.text \in Texts /\ Blank \in Seq(Nat)
        BY <3>5, GapsSayNothing DEF Actives
      <4>2. Append(Top.text, Blank) \in Texts
        BY <4>1, HeldAppend
      <4> QED
        BY <3>3, <3>5, <4>2 DEF Actives
    <3>7. Len(stack') = n /\ \A i \in 1 .. n - 1 : stack'[i] = stack[i]
      <4>1. /\ Len(Append(Front(stack), b)) = Len(stack)
            /\ \A i \in 1 .. Len(stack) - 1 : Append(Front(stack), b)[i] = stack[i]
        BY <3>1, <3>5, <3>6, TopChanges
      <4> QED
        BY <3>2, <3>4, <4>1
    <3>8. stack'[n].kind = "list"
      <4>1. n \in 1 .. n
        OBVIOUS
      <4> QED
        BY <1>3, <3>1, <3>2, <4>1 DEF Unmoved, Frames
    <3>9. \A i \in 1 .. n : i = n \/ (i \in 1 .. n - 1 /\ i \in 1 .. n)
      OBVIOUS
    <3> QED
      BY <3>2, <3>7, <3>8, <3>9
  <2> QED
    BY <2>1, <2>2
<1>5. TablesFilled'
  BY <1>1, <1>2, <1>4, TablesAfterPass
<1>6. Passes(tag)
  BY <1>1, <1>3 DEF Passes
<1> QED
  BY <1>2, <1>3, <1>5, <1>6 DEF After, Move

(* The steps of the elements the code ignores. *)
LEMMA OtherMoves ==
    ASSUME Before, StartOther \/ EndOther
    PROVE  After /\ Move
<1>1. stack' = stack /\ Settled
  BY DEF StartOther, EndOther, NoOutput, Settled
<1>2. ConverterSound' /\ Unmoved
  BY <1>1, SoundStill DEF Before
<1>3. CASE StartOther
  <2>1. PICK tag \in {"term", "row", "cell"} : Starts(tag)
    BY <1>3 DEF StartOther
  <2>2. tag \in (Tags \ Handled) \ {"head"} /\ tag \in Tags \ Handled
    BY DEF Tags, Handled, Structural, TableParts
  <2>3. TablesFilled'
    BY <1>1, <2>1, <2>2, SameTables, TablesAfterPass
  <2>4. Passes(tag)
    BY <1>1, <1>2, <2>1 DEF Passes
  <2> QED
    BY <1>2, <2>2, <2>3, <2>4 DEF After, Move
<1>4. CASE EndOther
  <2>1. PICK tag \in {"tight", "loose", "term"} : Ends(tag)
    BY <1>4 DEF EndOther
  <2>2. tag \in Tags \ {"head", "row", "cell"} /\ tag \in Tags \ Handled
    BY DEF Tags, Handled, Structural, TableParts
  <2>3. TablesFilled'
    BY <1>1, <2>1, <2>2, SameTables, TablesAfterEnd
  <2>4. Passes(tag)
    BY <1>1, <1>2, <2>1 DEF Passes
  <2> QED
    BY <1>2, <2>2, <2>3, <2>4 DEF After, Move
<1> QED
  BY <1>3, <1>4

(* The parts of a table end. *)
LEMMA PartEnds ==
    ASSUME Before, NEW tag \in {"head", "row", "cell"}, Ends(tag)
    PROVE  /\ tag \in Tags \ Handled
           /\ stack # << >> /\ Top.kind = "table" /\ Top = stack[Len(stack)] /\ Len(stack) \in Nat \ {0}
           /\ \A i \in 1 .. Len(stack) : stack[i].kind = "table" => i = Len(stack)
           /\ Top.inHead <=> IsOpen("head")
           /\ Top.row # << >> => IsOpen("row")
           /\ Top.cell # << >> => IsOpen("cell")
           /\ tag \in {"head", "row"} => ~IsOpen("head")'
           /\ tag = "row" => ~IsOpen("head")
           /\ tag = "cell" => IsOpen("head") \/ IsOpen("row")
           /\ \A t \in {"head", "row", "cell"} \ {tag} : IsOpen(t) => IsOpen(t)'
           /\ IsOpen("head")' => IsOpen("head")
<1>1. tag \in Tags \ Handled
  BY DEF Tags, Handled, Structural, TableParts
<1>2. Inner = tag /\ open # << >> /\ Len(open) \in Nat \ {0} /\ open[Len(open)].tag = tag
  BY <1>1, EndsCloses DEF Before
<1>3. stack # << >> /\ Top.kind = "table"
  BY <1>2, TableOnTop DEF Before
<1>4. Len(stack) \in Nat \ {0} /\ Top = stack[Len(stack)] /\ Len(stack) \in 1 .. Len(stack)
  BY <1>3, TopIs DEF Before
<1>5. \A i \in 1 .. Len(stack) : stack[i].kind = "table" => i = Len(stack)
  BY <1>3, TableAlone DEF Before
<1>6. (Top.inHead <=> IsOpen("head")) /\ (Top.row # << >> => IsOpen("row")) /\ (Top.cell # << >> => IsOpen("cell"))
  BY <1>3, <1>4 DEF Before, TablesFilled
<1>7. \A j \in 1 .. Len(open) : j # Len(open) /\ open[j].tag = "head" => tag \notin {"head", "row"}
  <2> TAKE j \in 1 .. Len(open)
  <2>1. j # Len(open) /\ open[j].tag = "head" /\ Inner \in {"head", "row"} => open[j].tag = "table"
    BY Around1 DEF Before, Flowing
  <2> QED
    BY <1>2, <2>1
<1>8. tag \in {"head", "row"} => ~IsOpen("head")'
  <2>1. IsOpen("head")' => \E j \in 1 .. Len(open) : j # Len(open) /\ open[j].tag = "head"
    BY <1>1, OpenAfterEnd DEF Before
  <2> QED
    BY <1>7, <2>1
<1>9. tag = "row" => ~IsOpen("head")
  <2>1. tag = "row" => \A j \in 1 .. Len(open) : open[j].tag = "head" => j # Len(open)
    BY <1>2
  <2> QED
    BY <1>7, <2>1 DEF IsOpen
<1>10. tag = "cell" => IsOpen("head") \/ IsOpen("row")
  <2> SUFFICES ASSUME tag = "cell"
               PROVE  IsOpen("head") \/ IsOpen("row")
    OBVIOUS
  <2>1. Len(open) \in 1 .. Len(open)
    BY <1>2
  <2>2. Len(open) > 1 /\ open[Len(open) - 1].tag \in {"head", "row"}
    BY <1>2, <2>1 DEF Before, Nested
  <2>3. Len(open) - 1 \in 1 .. Len(open)
    BY <1>2, <2>2
  <2> QED
    BY <2>2, <2>3 DEF IsOpen
<1>11. \A t \in {"head", "row", "cell"} \ {tag} : IsOpen(t) => IsOpen(t)'
  <2>1. IsOpen("head") /\ "head" # tag => IsOpen("head")'
    BY <1>1, OpenAfterEnd DEF Before
  <2>2. IsOpen("row") /\ "row" # tag => IsOpen("row")'
    BY <1>1, OpenAfterEnd DEF Before
  <2>3. IsOpen("cell") /\ "cell" # tag => IsOpen("cell")'
    BY <1>1, OpenAfterEnd DEF Before
  <2> QED
    BY <2>1, <2>2, <2>3
<1>12. IsOpen("head")' => IsOpen("head")
  BY <1>1, OpenAfterEnd DEF Before
<1> QED
  BY <1>1, <1>3, <1>4, <1>5, <1>6, <1>8, <1>9, <1>10, <1>11, <1>12

(* A table is as filled as it says after a part of it. *)
LEMMA TableAfterPart ==
    ASSUME Before, NEW tag \in {"head", "row", "cell"}, Ends(tag), Unmoved,
           stack'[Len(stack)].inHead <=> IsOpen("head")',
           stack'[Len(stack)].row # << >> => IsOpen("row")',
           stack'[Len(stack)].cell # << >> => IsOpen("cell")'
    PROVE  TablesFilled'
<1>1. \A i \in 1 .. Len(stack) : stack[i].kind = "table" => i = Len(stack)
  BY PartEnds
<1>2. Len(stack') = Len(stack) /\ \A i \in 1 .. Len(stack) : stack'[i].kind = stack[i].kind
  BY DEF Unmoved, Frames
<1> QED
  BY <1>1, <1>2 DEF TablesFilled

(* The steps that end a part of a table. *)
LEMMA PartMoves ==
    ASSUME Before, EndTableCell \/ EndTableHead \/ EndTableRow
    PROVE  After /\ Move
<1>1. CASE EndTableCell
  <2>1. Ends("cell") /\ Settled
    BY <1>1 DEF EndTableCell, NoOutput, Settled
  <2>2. /\ "cell" \in Tags \ Handled /\ stack # << >> /\ Top.kind = "table"
        /\ (Top.inHead <=> IsOpen("head")) /\ (Top.row # << >> => IsOpen("row"))
        /\ IsOpen("head") \/ IsOpen("row")
        /\ (IsOpen("head") => IsOpen("head")') /\ (IsOpen("row") => IsOpen("row")')
        /\ (IsOpen("head")' => IsOpen("head"))
    BY <2>1, PartEnds
  <2>3. PICK cell : cell = Trimmed(Joined(Top.cell, << >>))
    OBVIOUS
  <2>4. TopBecomes(IF Top.inHead THEN [Top EXCEPT !.cell = << >>, !.lines = Append(@, cell)]
                                 ELSE [Top EXCEPT !.cell = << >>, !.row = Append(@, cell)])
    BY <1>1, <2>3 DEF EndTableCell
  <2>5. /\ ConverterSound' /\ Unmoved
        /\ stack'[Len(stack)].cell = << >> /\ stack'[Len(stack)].inHead = Top.inHead
        /\ Top.inHead => stack'[Len(stack)].row = Top.row
    BY <2>1, <2>2, <2>3, <2>4, CellEnds DEF Before
  <2>6. TablesFilled'
    BY <2>1, <2>2, <2>5, TableAfterPart
  <2>7. Passes("cell")
    BY <2>1, <2>5 DEF Passes
  <2> QED
    BY <2>2, <2>5, <2>6, <2>7 DEF After, Move
<1>2. CASE EndTableHead
  <2>1. Ends("head") /\ Settled
    BY <1>2 DEF EndTableHead, NoOutput, Settled
  <2>2. /\ "head" \in Tags \ Handled /\ stack # << >> /\ ~IsOpen("head")'
        /\ (Top.row # << >> => IsOpen("row")) /\ (Top.cell # << >> => IsOpen("cell"))
        /\ (IsOpen("row") => IsOpen("row")') /\ (IsOpen("cell") => IsOpen("cell")')
    BY <2>1, PartEnds
  <2>3. PICK b : b = [Top EXCEPT !.inHead = FALSE]
    OBVIOUS
  <2>4. TopBecomes(b)
    BY <1>2, <2>3 DEF EndTableHead
  <2>5. /\ ConverterSound' /\ Unmoved /\ stack'[Len(stack)] = b
        /\ b.inHead = FALSE /\ b.row = Top.row /\ b.cell = Top.cell
    BY <2>1, <2>2, <2>3, <2>4, HeadStarts DEF Before
  <2>6. TablesFilled'
    BY <2>1, <2>2, <2>5, TableAfterPart
  <2>7. Passes("head")
    BY <2>1, <2>5 DEF Passes
  <2> QED
    BY <2>2, <2>5, <2>6, <2>7 DEF After, Move
<1>3. CASE EndTableRow
  <2>1. Ends("row") /\ Settled
    BY <1>3 DEF EndTableRow, NoOutput, Settled
  <2>2. /\ "row" \in Tags \ Handled /\ stack # << >> /\ Top.kind = "table" /\ ~IsOpen("head")' /\ ~Top.inHead
        /\ (Top.cell # << >> => IsOpen("cell")) /\ (IsOpen("cell") => IsOpen("cell")')
    BY <2>1, PartEnds
  <2>3. TopBecomes(IF Top.inHead THEN Top
                   ELSE [Top EXCEPT !.lines = Append(@, Joined(Top.row, Blank)), !.row = << >>])
    BY <1>3 DEF EndTableRow
  <2>4. /\ ConverterSound' /\ Unmoved
        /\ stack'[Len(stack)].cell = Top.cell /\ stack'[Len(stack)].inHead = Top.inHead
        /\ ~Top.inHead => stack'[Len(stack)].row = << >>
    BY <2>1, <2>2, <2>3, RowEnds DEF Before
  <2>5. TablesFilled'
    BY <2>1, <2>2, <2>4, TableAfterPart
  <2>6. Passes("row")
    BY <2>1, <2>4 DEF Passes
  <2> QED
    BY <2>2, <2>4, <2>5, <2>6 DEF After, Move
<1> QED
  BY <1>1, <1>2, <1>3

(* The steps that end an element. *)
LEMMA TopEnds ==
    ASSUME Before, NEW tag \in Handled, Ends(tag), stack # << >> \/ tag \notin Flowing
    PROVE  /\ EndsTop(tag) /\ tag \in Tags \ {"head", "row", "cell"} /\ Top.kind = tag
           /\ Len(stack) \in 1 .. Len(stack) /\ Top = stack[Len(stack)]
           /\ Top.start \in Nat \ {0} /\ HeldBy(Top) \cap InAccum = {}
           /\ HeldBy(Top) = InStack(Len(stack)) /\ \A x \in HeldBy(Top) : Top.start <= x
<1>1. tag \in Tags \ {"head", "row", "cell"}
  BY DEF Tags, Handled, Structural
<1>2. Inner = tag /\ Last(open) = open[Len(open)]
  BY <1>1, EndsCloses, InnermostIs DEF Before
<1>3. stack # << >> /\ Top.kind = tag /\ Top.start = Last(open).at
  BY <1>2, TopMatches DEF Before
<1>4. Len(stack) \in 1 .. Len(stack) /\ Top = stack[Len(stack)]
  BY <1>3, TopIs DEF Before
<1>5. Top.start \in Nat \ {0}
  BY <1>4, StackIn DEF Before
<1>6. HeldBy(Top) = InStack(Len(stack))
  BY <1>4 DEF InStack
<1>7. InStack(Len(stack)) \cap InAccum = {}
  BY <1>4 DEF Before, FramesApart
<1>8. \A x \in InStack(Len(stack)) : stack[Len(stack)].start <= x
  BY <1>4 DEF Before
<1> QED
  BY <1>1, <1>2, <1>3, <1>4, <1>5, <1>6, <1>7, <1>8 DEF EndsTop

(* The steps that end a heading, a code block or an image. *)
LEMMA ElementMoves ==
    ASSUME Before, EndHeading \/ EndCodeBlock \/ EndImage
    PROVE  After /\ Move
<1>1. PICK tag \in {"heading", "code", "image"} :
         /\ Ends(tag) /\ stack # << >> /\ stack' = Front(stack) /\ accum' = accum
         /\ \/ PushBlock(Top, Joined(Top.text, << >>))
            \/ tag # "heading" /\ converted' = Append(converted, MarkdownBlock(Top, Joined(Top.text, << >>)))
  BY DEF EndHeading, EndCodeBlock, EndImage, EndOfBlock
<1>2. tag \in Structural \ {"table"} /\ tag \in Structural /\ tag \in Handled
  BY DEF Structural, Handled
<1>3. EndsTop(tag) /\ Top.kind = tag /\ tag \in Tags \ {"head", "row", "cell"}
  BY <1>1, <1>2, TopEnds
<1>4. ConverterSound' /\ Popped /\ Emitted
  BY <1>1, <1>2, <1>3, ElementEnds DEF Before
<1>5. TablesFilled'
  BY <1>1, <1>3, <1>4, TablesAfterPop
<1>6. EndsBlock(tag)
  BY <1>1, <1>3, <1>4 DEF EndsBlock
<1> QED
  BY <1>2, <1>4, <1>5, <1>6 DEF After, Move

(* The step that ends a table. *)
LEMMA TableMoves ==
    ASSUME Before, EndTable
    PROVE  After /\ Move
<1>1. /\ Ends("table") /\ stack # << >> /\ stack' = Front(stack) /\ accum' = accum
      /\ PushBlock(Top, Joined(Top.lines, Blank) \o Blank)
  BY DEF EndTable
<1>2. "table" \in Structural /\ "table" \in Handled /\ "table" \notin Flowing
  BY DEF Structural, Handled, Flowing
<1>3. /\ EndsTop("table") /\ Top.kind = "table" /\ "table" \in Tags \ {"head", "row", "cell"}
      /\ Len(stack) \in 1 .. Len(stack) /\ Top = stack[Len(stack)]
  BY <1>1, <1>2, TopEnds
<1>4. open # << >> /\ Inner = "table"
  BY <1>1, <1>3, EndsCloses DEF Before
<1>5. /\ Len(open) \in 1 .. Len(open) /\ open[Len(open)].tag = "table"
  BY <1>4, InnermostIs DEF Before
<1>6. \A j \in 1 .. Len(open) : open[j].tag \notin {"row", "cell"}
  <2> TAKE j \in 1 .. Len(open)
  <2>1. j # Len(open) /\ open[j].tag \notin Flowing => Inner \in {"image", "head", "row", "cell"}
    BY Around1 DEF Before
  <2>2. open[j].tag \in {"row", "cell"} => open[j].tag \notin Flowing
    BY DEF Flowing
  <2> QED
    BY <1>4, <1>5, <2>1, <2>2
<1>7. ~IsOpen("row") /\ ~IsOpen("cell")
  BY <1>6 DEF IsOpen
<1>8. Top.row = << >> /\ Top.cell = << >>
  BY <1>3, <1>7 DEF Before, TablesFilled
<1>9. ConverterSound' /\ Popped /\ Emitted
  BY <1>1, <1>3, <1>8, TableEnds DEF Before
<1>10. TablesFilled'
  BY <1>1, <1>3, <1>9, TablesAfterPop
<1>11. EndsBlock("table")
  BY <1>1, <1>3, <1>9 DEF EndsBlock
<1> QED
  BY <1>2, <1>9, <1>10, <1>11 DEF After, Move

(* The steps that end a quote or a list. *)
LEMMA FlowMoves ==
    ASSUME Before, EndBlockQuote \/ EndList
    PROVE  After /\ Move
<1>1. PICK tag \in {"quote", "list"} : EndOfText(tag)
  BY DEF EndBlockQuote, EndList
<1>2. tag \in Handled \ Structural /\ tag \in Handled /\ tag \in Tags \ {"head", "row", "cell"} /\ tag # "table"
  BY DEF Tags, Structural, Handled
<1>3. CASE stack = << >>
  <2>1. Ends(tag) /\ stack' = stack /\ Settled
    BY <1>1, <1>3 DEF EndOfText, Settled
  <2>2. ConverterSound'
    BY <2>1, SoundStill DEF Before
  <2>3. TablesFilled'
    BY <1>2, <2>1, SameTables, TablesAfterEnd
  <2>4. EndsClosed(tag)
    BY <1>3, <2>1 DEF EndsClosed
  <2> QED
    BY <2>2, <2>3, <2>4 DEF After, Move
<1>4. CASE stack # << >>
  <2>1. /\ Ends(tag) /\ stack' = Front(stack) /\ accum' = AccumPush(accum, Joined(Top.text, Blank), Top.start)
        /\ converted' = converted
    BY <1>1, <1>4 DEF EndOfText
  <2>2. /\ EndsTop(tag) /\ Top.kind = tag /\ Top = stack[Len(stack)]
        /\ Top.start \in Nat \ {0} /\ HeldBy(Top) \cap InAccum = {}
        /\ HeldBy(Top) = InStack(Len(stack)) /\ \A x \in HeldBy(Top) : Top.start <= x
    BY <1>2, <1>4, <2>1, TopEnds
  <2>3. ConverterSound' /\ Popped /\ Gathers(accum, accum', HeldBy(Top), {Top.start})
    <3>1. Blank \in {<< >>, Blank}
      OBVIOUS
    <3> QED
      BY <1>2, <1>4, <2>1, <2>2, <3>1, TextEnds DEF Before
  <2>4. TablesFilled'
    BY <1>2, <2>1, <2>3, TablesAfterPop
  <2>5. EndsText(tag)
    <3>1. Gathers(accum, accum', InStack(Len(stack)), {stack[Len(stack)].start})
      BY <2>2, <2>3
    <3> QED
      BY <2>1, <2>2, <2>3, <3>1 DEF EndsText
  <2> QED
    BY <1>2, <2>3, <2>4, <2>5 DEF After, Move
<1> QED
  BY <1>3, <1>4

(* The step that ends a paragraph. *)
LEMMA ParagraphMoves ==
    ASSUME Before, EndParagraph
    PROVE  After /\ Move
<1>1. Ends("paragraph") /\ stack # << >>
  BY DEF EndParagraph
<1>2. "paragraph" \in Handled \ Structural /\ "paragraph" \in Handled /\ "paragraph" \in Tags \ {"head", "row", "cell"}
  BY DEF Tags, Structural, Handled
<1>3. /\ EndsTop("paragraph") /\ Top.kind = "paragraph" /\ Top = stack[Len(stack)] /\ Len(stack) \in 1 .. Len(stack)
      /\ Top.start \in Nat \ {0} /\ HeldBy(Top) \cap InAccum = {}
      /\ HeldBy(Top) = InStack(Len(stack)) /\ \A x \in HeldBy(Top) : Top.start <= x
  BY <1>1, <1>2, TopEnds
<1>4. PICK said : said = Joined(Top.text, << >>)
  OBVIOUS
<1>5. CASE Front(stack) # << >> /\ Last(Front(stack)).kind \in {"quote", "list"}
  <2>1. /\ stack' = Append(Front(Front(stack)),
                     [Last(Front(stack)) EXCEPT !.text =
                         (IF @ = << >> THEN @ ELSE Append(@, Blank)) \o <<said>>])
        /\ Settled
    BY <1>4, <1>5 DEF EndParagraph, NoOutput, Settled
  <2>2. Len(stack) > 1 => HeldBy(stack[Len(stack)]) \cap HeldBy(stack[Len(stack) - 1]) = {}
    <3>1. Len(stack) > 1 => Len(stack) - 1 \in 1 .. Len(stack) /\ Len(stack) - 1 # Len(stack)
      BY <1>3
    <3>2. Len(stack) > 1 => InStack(Len(stack)) \cap InStack(Len(stack) - 1) = {}
      BY <1>3, <3>1 DEF Before, FramesApart
    <3> QED
      BY <3>2 DEF InStack
  <2>3. ConverterSound' /\ Lowered
    BY <1>1, <1>3, <1>4, <1>5, <2>1, <2>2, ParagraphEndsBelow DEF Before
  <2>4. TablesFilled'
    <3>1. PICK n \in Nat : n = Len(stack) /\ n > 1
      BY <2>3 DEF Before, MarkdownTypeOK, Lowered
    <3>2. /\ Len(stack') = n - 1 /\ stack'[n - 1].kind \in {"quote", "list"}
          /\ \A i \in 1 .. n - 2 : stack'[i] = stack[i]
      <4>1. n - 1 \in 1 .. n - 1
        BY <3>1
      <4> QED
        BY <2>3, <3>1, <4>1 DEF Lowered, Frames, Remains
    <3>3. \A i \in 1 .. n - 1 : i = n - 1 \/ (i \in 1 .. n - 2 /\ i \in 1 .. n)
      BY <3>1
    <3>4. \A i \in 1 .. Len(stack') : stack'[i].kind = "table" =>
              /\ i \in 1 .. Len(stack) /\ stack[i].kind = "table" /\ stack'[i].inHead = stack[i].inHead
              /\ stack'[i].row = stack[i].row /\ stack'[i].cell = stack[i].cell
      BY <3>1, <3>2, <3>3
    <3> QED
      BY <1>1, <1>2, <3>4, TablesAfterEnd
  <2>5. EndsBelow
    BY <1>3, <2>1, <2>3 DEF EndsBelow
  <2> QED
    BY <2>3, <2>4, <2>5 DEF After, Move
<1>6. CASE ~(Front(stack) # << >> /\ Last(Front(stack)).kind \in {"quote", "list"})
  <2>1. /\ stack' = Front(stack) /\ accum' = AccumPush(accum, Joined(Top.text, << >>), Top.start)
        /\ converted' = converted
    BY <1>6 DEF EndParagraph
  <2>2. ConverterSound' /\ Popped /\ Gathers(accum, accum', HeldBy(Top), {Top.start})
    <3>1. << >> \in {<< >>, Blank} /\ Top.kind # "table"
      BY <1>3
    <3> QED
      BY <1>1, <1>3, <2>1, <3>1, TextEnds DEF Before
  <2>3. TablesFilled'
    BY <1>1, <1>2, <2>2, TablesAfterPop
  <2>4. EndsText("paragraph")
    <3>1. Gathers(accum, accum', InStack(Len(stack)), {stack[Len(stack)].start})
      BY <1>3, <2>2
    <3> QED
      BY <1>3, <2>1, <2>2, <3>1 DEF EndsText
  <2> QED
    BY <1>2, <2>2, <2>3, <2>4 DEF After, Move
<1> QED
  BY <1>5, <1>6

(* The parser opens and closes nothing at a text. *)
LEMMA SameOpen ==
    ASSUME open' = open, NEW t
    PROVE  IsOpen(t)' <=> IsOpen(t)
BY DEF IsOpen

(* Text of a table is in a cell. *)
LEMMA InCell ==
    ASSUME Before, Says, stack # << >>, Top.kind = "table"
    PROVE  IsOpen("cell")
<1>1. Inner \in {"heading", "paragraph", "cell", "image", "tight", "term", "code"}
  BY Grammar DEF Says
<1>2. Len(stack) \in 1 .. Len(stack) /\ Top = stack[Len(stack)]
  BY TopIs DEF Before
<1>3. PICK j \in 1 .. Len(open) : open[j].tag = "table"
  BY <1>2 DEF Before, Mirrors
<1>4. open # << >>
  BY <1>1 DEF Inner
<1>5. Len(open) \in 1 .. Len(open) /\ Inner = open[Len(open)].tag
  BY <1>4, InnermostIs DEF Before
<1>6. Inner \in {"image", "cell"}
  <2>1. j # Len(open)
    BY <1>1, <1>3, <1>5
  <2>2. "table" \notin Flowing
    BY DEF Flowing
  <2> QED
    BY <1>1, <1>3, <2>1, <2>2, Around1 DEF Before
<1>7. Inner # "image"
  <2> SUFFICES ASSUME Inner = "image"
               PROVE  FALSE
    OBVIOUS
  <2>1. Inner \in Handled
    BY DEF Handled, Structural
  <2>2. Top.kind = Inner
    BY <2>1, TopMatches DEF Before
  <2> QED
    BY <2>2
<1> QED
  BY <1>5, <1>6, <1>7 DEF IsOpen

(* The step of a text. *)
LEMMA TextMovesOn ==
    ASSUME Before, Text
    PROVE  After /\ Move
<1>1. Says /\ Settled /\ open' = open
  BY DEF Text, NoOutput, Settled, Says
<1>2. CASE stack = << >>
  <2>1. stack' = stack
    BY <1>2 DEF Text
  <2>2. ConverterSound'
    BY <1>1, <2>1, SoundStill DEF Before
  <2>3. Len(stack') = 0
    BY <1>2, <2>1
  <2>4. TablesFilled'
    BY <2>3 DEF TablesFilled
  <2>5. SaysLost
    BY <1>1, <1>2, <2>1 DEF SaysLost
  <2> QED
    BY <2>2, <2>4, <2>5 DEF After, Move
<1>3. CASE stack # << >>
  <2>1. TopBecomes(IF Top.kind = "table" THEN [Top EXCEPT !.cell = Append(@, <<offset>>)]
                                         ELSE [Top EXCEPT !.text = Append(@, <<offset>>)])
    BY <1>3 DEF Text
  <2>2. PICK n \in Nat \ {0} : n = Len(stack) /\ Top = stack[n] /\ n \in 1 .. n
    BY <1>3, TopIs DEF Before
  <2>3. offset \in Nat \ {0} /\ offset \notin HeldBy(Top)
    <3>1. \A x \in InStack(n) : x < offset
      BY <2>2 DEF Before
    <3>2. offset \in Nat \ {0}
      BY DEF Before, MarkdownTypeOK
    <3> QED
      BY <2>2, <3>1, <3>2 DEF InStack
  <2>4. /\ ConverterSound' /\ Added
        /\ stack'[Len(stack)].inHead = Top.inHead /\ stack'[Len(stack)].row = Top.row
        /\ Top.kind = "table" \/ stack'[Len(stack)].cell = Top.cell
    BY <1>1, <1>3, <2>1, <2>3, PieceSaid DEF Before
  <2>5. /\ Len(stack') = n /\ \A i \in 1 .. n : stack'[i].kind = stack[i].kind
        /\ \A i \in 1 .. n - 1 : stack'[i] = stack[i]
    BY <2>2, <2>4 DEF Added, Frames, Remains
  <2>6. \A i \in 1 .. n : i = n \/ i \in 1 .. n - 1
    OBVIOUS
  <2>7. Top.kind = "table" => IsOpen("cell")
    BY <1>1, <1>3, InCell
  <2>8. TablesFilled'
    <3>1. (IsOpen("head")' <=> IsOpen("head")) /\ (IsOpen("row")' <=> IsOpen("row")) /\ (IsOpen("cell")' <=> IsOpen("cell"))
      <4>1. IsOpen("head")' <=> IsOpen("head")
        BY <1>1, SameOpen
      <4>2. IsOpen("row")' <=> IsOpen("row")
        BY <1>1, SameOpen
      <4>3. IsOpen("cell")' <=> IsOpen("cell")
        BY <1>1, SameOpen
      <4> QED
        BY <4>1, <4>2, <4>3
    <3>2. \A i \in 1 .. n : stack[i].kind = "table" =>
             /\ stack[i].inHead <=> IsOpen("head")
             /\ stack[i].row # << >> => IsOpen("row")
             /\ stack[i].cell # << >> => IsOpen("cell")
      BY <2>2 DEF Before, TablesFilled
    <3>3. ASSUME NEW i \in 1 .. n, stack'[i].kind = "table"
          PROVE  /\ stack'[i].inHead <=> IsOpen("head")
                 /\ stack'[i].row # << >> => IsOpen("row")
                 /\ stack'[i].cell # << >> => IsOpen("cell")
      <4>1. CASE i = n
        BY <2>2, <2>4, <2>5, <2>7, <3>2, <3>3, <4>1
      <4>2. CASE i \in 1 .. n - 1
        BY <2>5, <3>2, <3>3, <4>2
      <4> QED
        BY <2>6, <4>1, <4>2
    <3> QED
      BY <2>5, <3>1, <3>3 DEF TablesFilled
  <2>9. SaysOn
    BY <1>1, <2>4 DEF SaysOn
  <2> QED
    BY <2>4, <2>8, <2>9 DEF After, Move
<1> QED
  BY <1>2, <1>3

(* A fragment has only quotes and lists around it. *)
LEMMA OnlyFlowsAround ==
    ASSUME Before, Inner \in Within["html"], NEW i \in 1 .. Len(stack)
    PROVE  stack[i].kind \in {"quote", "list"} /\ stack[i].start \in Nat \ {0}
<1>1. Inner \in {"document", "quote", "tight", "loose"}
  BY Grammar
<1>2. PICK j \in 1 .. Len(open) : open[j].tag = stack[i].kind
  BY DEF Before, Mirrors
<1>3. stack[i].kind \in Handled /\ stack[i].start \in Nat \ {0} /\ open # << >>
  BY StackIn DEF Before
<1>4. Inner = open[Len(open)].tag
  BY <1>3, InnermostIs DEF Before
<1>5. open[j].tag \in Flowing
  <2> SUFFICES ASSUME open[j].tag \notin Flowing
               PROVE  FALSE
    OBVIOUS
  <2>1. CASE j = Len(open)
    BY <1>1, <1>2, <1>3, <1>4, <2>1 DEF Flowing, Handled, Structural
  <2>2. CASE j # Len(open)
    BY <1>1, <2>2, Around1 DEF Before
  <2> QED
    BY <2>1, <2>2
<1> QED
  BY <1>2, <1>3, <1>5 DEF Flowing, Handled, Structural

(* The step of an HTML fragment. *)
LEMMA FragmentMoves ==
    ASSUME Before, Html
    PROVE  After /\ Move
<1>1. /\ ~seen.ended /\ Inner \in Within["html"] /\ offset' = offset + 1
      /\ seen' = [seen EXCEPT !.fragment = offset, !.pieces = @ \cup {[Piece EXCEPT !.adrift = FALSE]}]
      /\ open' = open /\ stack' = << >> /\ converted' = converted
  BY DEF Html
<1>2. accum' = AccumPush(Sweep[Len(stack)], <<offset>>, offset)
  BY DEF Html, Sweep
<1>3. \A i \in 1 .. Len(stack) : stack[i].kind \in {"quote", "list"} /\ stack[i].start \in Nat \ {0}
  BY <1>1, OnlyFlowsAround
<1>4. \A i \in 1 .. Len(stack) : stack[i].kind # "table" /\ stack[i].start # 0
  BY <1>3
<1>5. \A i \in 1 .. Len(stack) : \A x \in HeldBy(stack[i]) : stack[i].start <= x /\ x < offset
  BY DEF Before, InStack
<1>6. \A i, j \in 1 .. Len(stack) : i # j => HeldBy(stack[i]) \cap HeldBy(stack[j]) = {}
  BY DEF Before, FramesApart, InStack
<1>7. \A i \in 1 .. Len(stack) : HeldBy(stack[i]) \cap InAccum = {}
  BY DEF Before, FramesApart, InStack
<1>8. ConverterSound /\ offset \in Nat \ {0} /\ \A x \in InAccum : x < offset
  BY DEF Before, MarkdownTypeOK
<1>9. /\ ConverterSound'
      /\ Gathers(accum, accum', FromTop(1) \cup {offset}, StartsFrom(1) \cup {offset})
  BY <1>1, <1>2, <1>4, <1>5, <1>6, <1>7, <1>8, FragmentGathers
<1>10. Len(stack') = 0
  BY <1>1
<1>11. TablesFilled'
  BY <1>10 DEF TablesFilled
<1>12. Fragment
  BY <1>1, <1>3, <1>9 DEF Fragment
<1> QED
  BY <1>9, <1>11, <1>12 DEF After, Move

(* The end of the document. *)
LEMMA StopMoves ==
    ASSUME Before, EndDocument
    PROVE  After /\ Move
<1>1. /\ ~seen.ended /\ open = << >> /\ FlushText /\ seen' = [seen EXCEPT !.ended = TRUE]
      /\ open' = open /\ offset' = offset /\ stack' = stack
  BY DEF EndDocument
<1>2. accum' \in Accums /\ AccumSound(accum') /\ BlocksSound' /\ Flushed
  BY <1>1, FlushSounds DEF Before
<1>3. StackSound'
  BY <1>1, SoundParts DEF Before, StackSound
<1>4. ConverterSound'
  BY <1>2, <1>3, SoundPartsAfter
<1>5. TablesFilled'
  BY <1>1 DEF Before, TablesFilled, IsOpen
<1>6. Stops
  BY <1>1, <1>2 DEF Stops
<1> QED
  BY <1>4, <1>5, <1>6 DEF After, Move

(* Every step is one of the moves, and leaves the converter sound. *)
LEMMA StepMoves ==
    ASSUME MarkdownAssumption, Before, MarkdownNext
    PROVE  After /\ Move
<1>1. CASE StartEvent
  BY <1>1, StartMoves, HeadMoves, ItemMoves, OtherMoves DEF StartEvent
<1>2. CASE EndEvent
  BY <1>2, ElementMoves, TableMoves, FlowMoves, ParagraphMoves, PartMoves, OtherMoves DEF EndEvent
<1>3. CASE Text \/ Html \/ EndDocument
  BY <1>3, TextMovesOn, FragmentMoves, StopMoves
<1> QED
  BY <1>1, <1>2, <1>3 DEF MarkdownNext

-----------------------------------------------------------------------------
(* Places, and what each move does to the parser's part of the invariant. *)

(* The places. *)
LEMMA PlacesAre ==
    ASSUME MarkdownTypeOK
    PROVE  /\ Len(stack) \in Nat /\ Len(converted) \in Nat /\ 0 \in Places
           /\ \A i \in 1 .. Len(stack) : -i \in Places /\ -i < 0 /\ HeldIn(-i) = InStack(i) /\ StartOf(-i) = stack[i].start
           /\ \A n \in 1 .. Len(converted) : n \in Places /\ HeldIn(n) = InBlock(n) /\ StartOf(n) = converted[n].start
           /\ HeldIn(0) = InAccum /\ StartOf(0) = accum.start
           /\ \A k \in Places : \/ k = 0
                                \/ k > 0 /\ k \in 1 .. Len(converted)
                                \/ k < 0 /\ -k \in 1 .. Len(stack)
<1>1. PICK n, m \in Nat : n = Len(stack) /\ m = Len(converted)
  BY DEF MarkdownTypeOK
<1>2. \A i \in 1 .. n : -i \in (-n) .. m /\ -i < 0 /\ -(-i) = i /\ -i # 0
  BY <1>1
<1>3. \A k \in (-n) .. m : k = 0 \/ (k > 0 /\ k \in 1 .. m) \/ (k < 0 /\ -k \in 1 .. n)
  BY <1>1
<1>4. \A k \in 1 .. m : k \in (-n) .. m /\ k # 0 /\ ~(k < 0)
  BY <1>1
<1>5. 0 \in (-n) .. m
  BY <1>1
<1> QED
  BY <1>1, <1>2, <1>3, <1>4, <1>5 DEF Places, HeldIn, StartOf

(* The places after a step. *)
LEMMA PlacesAfter ==
    ASSUME stack' \in Seq(Actives), converted' \in Seq(Blocks)
    PROVE  /\ Len(stack') \in Nat /\ Len(converted') \in Nat /\ 0 \in Places'
           /\ \A i \in 1 .. Len(stack') : -i \in Places' /\ -i < 0 /\ HeldIn(-i)' = InStack(i)' /\ StartOf(-i)' = stack'[i].start
           /\ \A n \in 1 .. Len(converted') : n \in Places' /\ HeldIn(n)' = InBlock(n)' /\ StartOf(n)' = converted'[n].start
           /\ HeldIn(0)' = InAccum' /\ StartOf(0)' = accum'.start
           /\ \A k \in Places' : \/ k = 0
                                 \/ k > 0 /\ k \in 1 .. Len(converted')
                                 \/ k < 0 /\ -k \in 1 .. Len(stack')
<1>1. PICK n, m \in Nat : n = Len(stack') /\ m = Len(converted')
  OBVIOUS
<1>2. \A i \in 1 .. n : -i \in (-n) .. m /\ -i < 0 /\ -(-i) = i /\ -i # 0
  BY <1>1
<1>3. \A k \in (-n) .. m : k = 0 \/ (k > 0 /\ k \in 1 .. m) \/ (k < 0 /\ -k \in 1 .. n)
  BY <1>1
<1>4. \A k \in 1 .. m : k \in (-n) .. m /\ k # 0 /\ ~(k < 0)
  BY <1>1
<1>5. 0 \in (-n) .. m
  BY <1>1
<1> QED
  BY <1>1, <1>2, <1>3, <1>4, <1>5 DEF Places, HeldIn, StartOf

(* The invariant gives what the proofs of the steps assume. *)
LEMMA FromInvariant ==
    ASSUME MarkdownInvariant
    PROVE  Before
<1>1. MarkdownTypeOK /\ Nested /\ Mirrors /\ TablesFilled /\ Sound /\ Apart /\ Accounted /\ Ordered /\ Placed
  BY DEF MarkdownInvariant
<1>2. ConverterSound
  BY <1>1 DEF ConverterSound, MarkdownTypeOK
<1>3. FramesApart
  <2>1. \A i, j \in 1 .. Len(stack) : i # j => -i # -j /\ -i # 0
    BY <1>1, PlacesAre
  <2>2. \A i, j \in 1 .. Len(stack) : i # j => HeldIn(-i) \cap HeldIn(-j) = {}
    BY <1>1, <2>1, PlacesAre DEF Apart
  <2>3. \A i \in 1 .. Len(stack) : HeldIn(-i) \cap HeldIn(0) = {}
    <3> TAKE i \in 1 .. Len(stack)
    <3>1. -i \in Places /\ 0 \in Places /\ -i # 0
      BY <1>1, PlacesAre
    <3> QED
      BY <1>1, <3>1 DEF Apart
  <2>4. \A i \in 1 .. Len(stack) : HeldIn(-i) = InStack(i)
    BY <1>1, PlacesAre
  <2>5. HeldIn(0) = InAccum
    BY <1>1, PlacesAre
  <2> QED
    BY <2>2, <2>3, <2>4, <2>5 DEF FramesApart
<1>4. ASSUME NEW k \in Places, NEW x \in HeldIn(k)
      PROVE  StartOf(k) <= x /\ x < offset
  <2>1. PICK p \in seen.pieces : p.at = x
    BY <1>1, <1>4 DEF Accounted
  <2>2. p.at \in 1 .. offset - 1 /\ StartOf(k) \in 1 .. p.at
    BY <1>1, <1>4, <2>1 DEF Ordered, Placed
  <2>3. offset \in Nat
    BY <1>1 DEF MarkdownTypeOK
  <2> QED
    BY <2>1, <2>2, <2>3
<1>5. \A i \in 1 .. Len(stack) : \A x \in InStack(i) : stack[i].start <= x /\ x < offset
  <2> TAKE i \in 1 .. Len(stack)
  <2>1. -i \in Places /\ HeldIn(-i) = InStack(i) /\ StartOf(-i) = stack[i].start
    BY <1>1, PlacesAre
  <2> QED
    BY <1>4, <2>1
<1>6. \A x \in InAccum : x < offset
  <2>1. 0 \in Places /\ HeldIn(0) = InAccum
    BY <1>1, PlacesAre
  <2> QED
    BY <1>4, <2>1
<1> QED
  BY <1>1, <1>2, <1>3, <1>5, <1>6 DEF Before

(* What the parser does in a move. *)
Hears(fragment, adrift) ==
    /\ ~seen.ended /\ open' = open /\ offset' = offset + 1
    /\ seen' \in Histories /\ seen'.bounds = seen.bounds /\ ~seen'.ended
    /\ \E p \in Pieces :
        /\ p.at = offset /\ p.unit = Outermost /\ p.home = Highest(Around(Structural))
        /\ p.adrift = adrift /\ seen'.pieces = seen.pieces \cup {p}
    /\ seen'.fragment = fragment
Halts ==
    /\ open = << >> /\ open' = open /\ offset' = offset /\ seen' \in Histories
    /\ seen'.pieces = seen.pieces /\ seen'.bounds = seen.bounds /\ seen'.fragment = seen.fragment /\ seen'.ended

(* A move is an event of the parser. *)
LEMMA MoveParses ==
    ASSUME Before, Move
    PROVE  \/ \E tag \in Tags : Starts(tag)
           \/ \E tag \in Tags : Ends(tag)
           \/ Says \/ Fragment \/ Stops
BY DEF Move, StartsBlock, StartsText, Passes, EndsBlock, EndsText, EndsTop, EndsBelow, EndsClosed, SaysOn, SaysLost,
       Tags, Handled, Structural

(* Elements stay nested at a text. *)
LEMMA NestedAfterText ==
    ASSUME MarkdownTypeOK, Nested, open' = open, offset' = offset + 1, seen'.fragment = seen.fragment
    PROVE  Nested'
<1>1. offset \in Nat /\ seen.fragment \in Nat
  BY DEF MarkdownTypeOK, Histories
<1>2. seen.fragment < offset'
  BY <1>1 DEF Nested
<1>3. \A i \in 1 .. Len(open) : open[i].at \in 1 .. offset' - 1
  <2> TAKE i \in 1 .. Len(open)
  <2>1. open[i].at \in 1 .. offset - 1
    BY DEF Nested
  <2> QED
    BY <1>1, <2>1
<1> QED
  BY <1>2, <1>3 DEF Nested

(* Elements stay nested at a fragment. *)
LEMMA NestedAfterFragment ==
    ASSUME MarkdownTypeOK, Nested, open' = open, offset' = offset + 1, seen'.fragment = offset, Inner \in Within["html"]
    PROVE  Nested'
<1>1. offset \in Nat
  BY DEF MarkdownTypeOK
<1>2. seen'.fragment < offset'
  BY <1>1
<1>3. \A i \in 1 .. Len(open) : open[i].at \in 1 .. offset' - 1 /\ open[i].at # offset
  <2> TAKE i \in 1 .. Len(open)
  <2>1. open[i].at \in 1 .. offset - 1
    BY DEF Nested
  <2> QED
    BY <1>1, <2>1
<1>4. \A i \in 1 .. Len(open) : open[i].tag \in Flowing
  <2> SUFFICES ASSUME NEW i \in 1 .. Len(open), open[i].tag \notin Flowing
               PROVE  FALSE
    OBVIOUS
  <2>1. Inner \in {"document", "quote", "tight", "loose"}
    BY Grammar
  <2>2. open # << >>
    BY DEF MarkdownTypeOK
  <2>3. Inner = open[Len(open)].tag /\ open[Len(open)] \in Elements
    BY <2>2, InnermostIs
  <2>4. Inner \in Flowing
    BY <2>1, <2>3 DEF Flowing, Elements, Tags, Handled, Structural, TableParts
  <2>5. i # Len(open)
    BY <2>3, <2>4
  <2>6. Inner \in {"image", "head", "row", "cell"}
    BY <2>5, Around1
  <2> QED
    BY <2>1, <2>6
<1> QED
  BY <1>2, <1>3, <1>4 DEF Nested

(* Elements stay nested. *)
LEMMA NestedStep ==
    ASSUME Before, Move
    PROVE  Nested'
<1>1. CASE \E tag \in Tags : Starts(tag)
  BY <1>1, NestedAfterStart DEF Before
<1>2. CASE \E tag \in Tags : Ends(tag)
  BY <1>2, NestedAfterEnd DEF Before
<1>3. CASE Says
  <2>1. seen \in Histories
    BY DEF Before, MarkdownTypeOK
  <2>2. open' = open /\ offset' = offset + 1 /\ seen'.fragment = seen.fragment
    BY <1>3, <2>1 DEF Says, Histories
  <2> QED
    BY <2>2, NestedAfterText DEF Before
<1>4. CASE Fragment
  <2>1. seen \in Histories
    BY DEF Before, MarkdownTypeOK
  <2>2. open' = open /\ offset' = offset + 1 /\ seen'.fragment = offset /\ Inner \in Within["html"]
    BY <1>4, <2>1 DEF Fragment, Histories
  <2> QED
    BY <2>2, NestedAfterFragment DEF Before
<1>5. CASE Stops
  <2>1. seen \in Histories
    BY DEF Before, MarkdownTypeOK
  <2>2. open' = open /\ offset' = offset /\ seen'.fragment = seen.fragment
    BY <1>5, <2>1 DEF Stops, Histories
  <2> QED
    BY <2>2 DEF Before, Nested
<1> QED
  BY <1>1, <1>2, <1>3, <1>4, <1>5, MoveParses

(* The piece that is read. *)
LEMMA HighestIs ==
    ASSUME NEW S \in SUBSET Nat, S # {}, NEW n \in Nat, \A y \in S : y <= n
    PROVE  Highest(S) \in S /\ \A y \in S : y <= Highest(S)
<1>1. PICK T \in SUBSET Nat : T = {m \in Nat : \A y \in S : y <= m}
  OBVIOUS
<1>2. n \in T
  BY <1>1
<1>3. PICK m \in T : \A x \in T : m <= x
  BY <1>2, Least
<1>4. m \in Nat /\ \A y \in S : y <= m
  BY <1>1, <1>3
<1>5. m \in S
  <2> SUFFICES ASSUME m \notin S
               PROVE  FALSE
    OBVIOUS
  <2>1. \A y \in S : y <= m - 1 /\ m - 1 \in Nat
    <3> TAKE y \in S
    <3>1. y <= m /\ y # m /\ y \in Nat
      BY <1>4
    <3> QED
      BY <1>4, <3>1
  <2>2. m - 1 \in T
    BY <1>1, <2>1
  <2> QED
    BY <1>3, <1>4, <2>2
<1> QED
  BY <1>4, <1>5 DEF Highest

(* The innermost of the elements with these tags, if there is one. *)
LEMMA HomeIs ==
    ASSUME MarkdownTypeOK, Nested, NEW tags
    PROVE  /\ Around(tags) \in SUBSET (1 .. offset - 1)
           /\ \/ Highest(Around(tags)) = 0 /\ \A i \in 1 .. Len(open) : open[i].tag \notin tags
              \/ /\ Highest(Around(tags)) \in Around(tags) /\ Highest(Around(tags)) \in 1 .. offset - 1
                 /\ \A i \in 1 .. Len(open) : open[i].tag \in tags => open[i].at <= Highest(Around(tags))
<1>1. DOMAIN open = 1 .. Len(open) /\ offset \in Nat
  BY DEF MarkdownTypeOK
<1>2. \A i \in 1 .. Len(open) : open[i].at \in 1 .. offset - 1
  BY DEF Nested
<1>3. PICK S : S = Around(tags)
  OBVIOUS
<1>4. /\ \A i \in 1 .. Len(open) : open[i].tag \in tags => open[i].at \in S
      /\ \A x \in S : \E i \in 1 .. Len(open) : open[i].tag \in tags /\ x = open[i].at
  BY <1>1, <1>3 DEF Around
<1>5. S \in SUBSET (1 .. offset - 1)
  BY <1>2, <1>4
<1>6. CASE S = {}
  BY <1>3, <1>4, <1>5, <1>6 DEF Highest
<1>7. CASE S # {}
  <2>1. S \in SUBSET Nat /\ \A y \in S : y <= offset
    BY <1>1, <1>5
  <2>2. Highest(S) \in S /\ \A y \in S : y <= Highest(S)
    BY <1>1, <1>7, <2>1, HighestIs
  <2> QED
    BY <1>3, <1>4, <1>5, <2>2
<1> QED
  BY <1>6, <1>7

(* The outermost element an event is in. *)
LEMMA OutermostIs ==
    ASSUME MarkdownTypeOK, Nested
    PROVE  /\ Outermost \in 1 .. offset
           /\ open # << >> => Outermost = open[1].at /\ open[1].at < offset
           /\ \A i \in 1 .. Len(open) : Outermost <= open[i].at
<1>1. offset \in Nat \ {0} /\ Len(open) \in Nat
  BY DEF MarkdownTypeOK
<1>2. open # << >> => 1 \in 1 .. Len(open) /\ open[1].at \in 1 .. offset - 1
  <2>1. open # << >> => Len(open) # 0
    BY EmptySeq DEF MarkdownTypeOK
  <2>2. open # << >> => 1 \in 1 .. Len(open)
    BY <1>1, <2>1
  <2> QED
    BY <2>2 DEF Nested
<1>3. Outermost = IF open = << >> THEN offset ELSE open[1].at
  BY DEF Outermost
<1>4. \A i \in 1 .. Len(open) : open # << >> /\ open[1].at <= open[i].at
  <2> TAKE i \in 1 .. Len(open)
  <2>1. open # << >>
    BY <1>1
  <2>2. i # 1 => open[1].at < open[i].at
    <3>1. i # 1 => i \in 1 + 1 .. Len(open)
      BY <1>1
    <3> QED
      BY <1>2, <2>1, <3>1 DEF Nested
  <2>3. open[1].at \in Nat /\ open[i].at \in Nat
    <3>1. open[1] \in Elements /\ open[i] \in Elements
      BY <1>2, <2>1 DEF MarkdownTypeOK
    <3> QED
      BY <3>1 DEF Elements
  <2> QED
    BY <2>1, <2>2, <2>3
<1> QED
  BY <1>1, <1>2, <1>3, <1>4

(* The piece of a text event. *)
LEMMA PieceIs ==
    ASSUME MarkdownTypeOK, Nested
    PROVE  /\ Piece \in Pieces /\ Piece.at = offset /\ Piece.unit = Outermost /\ Piece.home = Highest(Around(Structural))
           /\ [Piece EXCEPT !.adrift = FALSE] \in Pieces
           /\ [Piece EXCEPT !.adrift = FALSE].at = offset /\ [Piece EXCEPT !.adrift = FALSE].unit = Outermost
           /\ [Piece EXCEPT !.adrift = FALSE].home = Highest(Around(Structural))
           /\ [Piece EXCEPT !.adrift = FALSE].adrift = FALSE
           /\ Piece.adrift <=> \A a \in Around(Handled) : a < seen.fragment
<1>1. PICK h : h = Highest(Around(Structural))
  OBVIOUS
<1>2. offset \in Nat
  BY DEF MarkdownTypeOK
<1>3. h \in Nat
  <2>1. h = 0 \/ h \in 1 .. offset - 1
    BY <1>1, HomeIs
  <2> QED
    BY <1>2, <2>1
<1>4. PICK u : u = Outermost
  OBVIOUS
<1>5. u \in Nat
  <2>1. u \in 1 .. offset
    BY <1>4, OutermostIs
  <2> QED
    BY <1>2, <2>1
<1>6. PICK a \in BOOLEAN : a <=> \A x \in Around(Handled) : x < seen.fragment
  OBVIOUS
<1>7. Piece = [at |-> offset, unit |-> u, home |-> h, adrift |-> a]
  BY <1>1, <1>4, <1>6 DEF Piece
<1> QED
  BY <1>1, <1>2, <1>3, <1>4, <1>5, <1>6, <1>7 DEF Pieces

(* What the parser does is one of five things. *)
LEMMA Parses ==
    ASSUME Before, Move
    PROVE  \/ \E tag \in Tags : Starts(tag)
           \/ \E tag \in Tags : Ends(tag)
           \/ \E adrift \in BOOLEAN : Hears(seen.fragment, adrift)
           \/ Hears(offset, FALSE)
           \/ Halts
<1>1. MarkdownTypeOK /\ Nested /\ seen \in Histories /\ offset \in Nat
  BY DEF Before, MarkdownTypeOK
<1>2. CASE Says
  <2>1. PICK p \in Pieces : p = Piece
    BY <1>1, PieceIs
  <2>2. seen' = [seen EXCEPT !.pieces = @ \cup {p}] /\ open' = open /\ offset' = offset + 1 /\ ~seen.ended
    BY <1>2, <2>1 DEF Says
  <2>3. /\ seen' \in Histories /\ seen'.pieces = seen.pieces \cup {p} /\ seen'.bounds = seen.bounds
        /\ seen'.fragment = seen.fragment /\ ~seen'.ended
    BY <1>1, <2>2 DEF Histories
  <2>4. p.at = offset /\ p.unit = Outermost /\ p.home = Highest(Around(Structural)) /\ p.adrift \in BOOLEAN
    BY <1>1, <2>1, PieceIs DEF Pieces
  <2> QED
    BY <2>2, <2>3, <2>4 DEF Hears
<1>3. CASE Fragment
  <2>1. PICK p \in Pieces : p = [Piece EXCEPT !.adrift = FALSE]
    BY <1>1, PieceIs
  <2>2. /\ seen' = [seen EXCEPT !.fragment = offset, !.pieces = @ \cup {p}]
        /\ open' = open /\ offset' = offset + 1 /\ ~seen.ended
    BY <1>3, <2>1 DEF Fragment
  <2>3. /\ seen' \in Histories /\ seen'.pieces = seen.pieces \cup {p} /\ seen'.bounds = seen.bounds
        /\ seen'.fragment = offset /\ ~seen'.ended
    BY <1>1, <2>2 DEF Histories
  <2>4. p.at = offset /\ p.unit = Outermost /\ p.home = Highest(Around(Structural)) /\ p.adrift = FALSE
    BY <1>1, <2>1, PieceIs
  <2> QED
    BY <2>2, <2>3, <2>4 DEF Hears
<1>4. CASE Stops
  <2>1. /\ open = << >> /\ open' = open /\ offset' = offset /\ seen' = [seen EXCEPT !.ended = TRUE]
    BY <1>4 DEF Stops
  <2>2. /\ seen' \in Histories /\ seen'.pieces = seen.pieces /\ seen'.bounds = seen.bounds
        /\ seen'.fragment = seen.fragment /\ seen'.ended
    BY <1>1, <2>1 DEF Histories
  <2> QED
    BY <2>1, <2>2 DEF Halts
<1> QED
  BY <1>2, <1>3, <1>4, MoveParses

(* The parser keeps its types. *)
LEMMA ParserTypes ==
    ASSUME Before, Move
    PROVE  open' \in Seq(Elements) /\ offset' \in Nat \ {0} /\ seen' \in Histories /\ offset' - offset \in {0, 1}
<1>1. open \in Seq(Elements) /\ offset \in Nat \ {0} /\ seen \in Histories
  BY DEF Before, MarkdownTypeOK
<1>2. ASSUME offset' = offset + 1
      PROVE  offset' \in Nat \ {0} /\ offset' - offset \in {0, 1}
  BY <1>1, <1>2
<1>3. CASE \E tag \in Tags : Starts(tag)
  BY <1>2, <1>3, StartsOpens DEF Before
<1>4. CASE \E tag \in Tags : Ends(tag)
  BY <1>1, <1>2, <1>4, EndsCloses DEF Before
<1>5. CASE Halts
  BY <1>1, <1>5 DEF Halts
<1>6. CASE (\E adrift \in BOOLEAN : Hears(seen.fragment, adrift)) \/ Hears(offset, FALSE)
  BY <1>1, <1>2, <1>6 DEF Hears
<1> QED
  BY <1>3, <1>4, <1>5, <1>6, Parses

(* All variables keep their types. *)
LEMMA TypesStep ==
    ASSUME Before, After, Move
    PROVE  MarkdownTypeOK'
BY ParserTypes DEF After, ConverterSound, MarkdownTypeOK

(* The structural element around an event is in the outermost one. *)
LEMMA HomeInUnit ==
    ASSUME MarkdownTypeOK, Nested, NEW tags
    PROVE  Highest(Around(tags)) = 0 \/ Highest(Around(tags)) \in Outermost .. offset
<1>1. PICK h : h = Highest(Around(tags))
  OBVIOUS
<1>2. PICK u : u = Outermost
  OBVIOUS
<1>3. offset \in Nat /\ u \in 1 .. offset
  BY <1>2, OutermostIs DEF MarkdownTypeOK
<1>4. h = 0 \/ (h \in Around(tags) /\ h \in 1 .. offset - 1)
  BY <1>1, HomeIs
<1>5. CASE h \in Around(tags) /\ h \in 1 .. offset - 1
  <2>1. DOMAIN open = 1 .. Len(open)
    BY DEF MarkdownTypeOK
  <2>2. PICK i \in 1 .. Len(open) : h = open[i].at
    BY <1>5, <2>1 DEF Around
  <2>3. u <= h
    BY <1>2, <2>2, OutermostIs
  <2> QED
    BY <1>1, <1>2, <1>3, <1>5, <2>3
<1> QED
  BY <1>1, <1>4, <1>5

(* What is new in a move is at the end, in the outermost element. *)
Adds ==
    /\ \A e \in seen'.pieces \cup seen'.bounds :
          \/ e \in seen.pieces \cup seen.bounds
          \/ e.at = offset /\ e.unit = Outermost /\ offset' = offset + 1
    /\ open' = << >> \/ open'[1].at = Outermost
    /\ \A p \in seen'.pieces : p \in seen.pieces \/ p.home = 0 \/ p.home \in p.unit .. p.at
    /\ \A p \in seen'.pieces : p \in seen.pieces \/ p.at = offset
    /\ \A b \in seen'.bounds : b \in seen.bounds \/ b.at = offset
    /\ seen.pieces \subseteq seen'.pieces /\ seen.bounds \subseteq seen'.bounds
    /\ \A p, q \in seen'.pieces : p \in seen.pieces \/ q \in seen.pieces \/ p = q

(* What a move adds to the history. *)
LEMMA EventsAdded ==
    ASSUME Before, Move
    PROVE  Adds
<1>1. MarkdownTypeOK /\ Nested /\ seen \in Histories /\ offset \in Nat
  BY DEF Before, MarkdownTypeOK
<1>2. CASE \E tag \in Tags : Starts(tag)
  <2>1. PICK tag \in Tags : Starts(tag)
    BY <1>2
  <2>2. /\ offset' = offset + 1 /\ open'[1].at = Outermost /\ seen'.pieces = seen.pieces
        /\ seen'.bounds = (IF tag \in Structural THEN seen.bounds \cup {[at |-> offset, unit |-> Outermost]}
                           ELSE seen.bounds)
    BY <1>1, <2>1, StartsOpens
  <2> QED
    BY <2>2 DEF Adds
<1>3. CASE \E tag \in Tags : Ends(tag)
  <2>1. PICK tag \in Tags : Ends(tag)
    BY <1>3
  <2>2. open # << >> /\ (open' # << >> => open'[1] = open[1]) /\ seen' = seen
    BY <1>1, <2>1, EndsCloses
  <2>3. Outermost = open[1].at
    BY <2>2 DEF Outermost
  <2> QED
    BY <2>2, <2>3 DEF Adds
<1>4. ASSUME NEW f, NEW a, Hears(f, a)
      PROVE  Adds
  <2>1. PICK p : /\ p.at = offset /\ p.unit = Outermost /\ p.home = Highest(Around(Structural))
                 /\ seen'.pieces = seen.pieces \cup {p}
    BY <1>4 DEF Hears
  <2>2. seen'.bounds = seen.bounds /\ open' = open /\ offset' = offset + 1
    BY <1>4 DEF Hears
  <2>3. open # << >> => open[1].at = Outermost
    BY DEF Outermost
  <2>4. p.home = 0 \/ p.home \in p.unit .. p.at
    BY <1>1, <2>1, HomeInUnit
  <2>5. \A e \in seen'.pieces : e \in seen.pieces \/ e = p
    BY <2>1
  <2>6. \A e \in seen'.pieces \cup seen'.bounds : e \in seen.pieces \cup seen.bounds \/ e = p
    BY <2>2, <2>5
  <2>7. p.at = offset /\ p.unit = Outermost
    BY <2>1
  <2>8. seen.pieces \subseteq seen'.pieces /\ seen.bounds \subseteq seen'.bounds
    BY <2>1, <2>2
  <2>9. open' = << >> \/ open'[1].at = Outermost
    BY <2>2, <2>3
  <2>10. \A e, q \in seen'.pieces : e \in seen.pieces \/ q \in seen.pieces \/ e = q
    BY <2>5
  <2>11. \A e \in seen'.pieces \cup seen'.bounds :
            e \in seen.pieces \cup seen.bounds \/ (e.at = offset /\ e.unit = Outermost /\ offset' = offset + 1)
    BY <2>2, <2>6, <2>7
  <2>12. \A e \in seen'.pieces : e \in seen.pieces \/ e.home = 0 \/ e.home \in e.unit .. e.at
    BY <2>4, <2>5
  <2>13. \A e \in seen'.pieces : e \in seen.pieces \/ e.at = offset
    BY <2>5, <2>7
  <2>14. \A e \in seen'.bounds : e \in seen.bounds \/ e.at = offset
    BY <2>2
  <2> QED
    BY <2>8, <2>9, <2>10, <2>11, <2>12, <2>13, <2>14 DEF Adds
<1>5. CASE Halts
  BY <1>5 DEF Halts, Adds
<1> QED
  BY <1>2, <1>3, <1>4, <1>5, Parses

(* Events stay in order. *)
LEMMA OrderedStep ==
    ASSUME Before, Ordered, Move
    PROVE  Ordered'
<1>1. MarkdownTypeOK /\ Nested /\ offset \in Nat \ {0}
  BY DEF Before, MarkdownTypeOK
<1>2. offset' \in Nat /\ offset' >= offset
  BY <1>1, ParserTypes
<1>3. PICK u : u = Outermost
  OBVIOUS
<1>4. u \in 1 .. offset /\ (open # << >> => u = open[1].at) /\ (open = << >> => u = offset)
  BY <1>1, <1>3, OutermostIs DEF Outermost
<1>5. /\ \A e \in seen'.pieces \cup seen'.bounds :
            e \in seen.pieces \cup seen.bounds \/ (e.at = offset /\ e.unit = u /\ offset' = offset + 1)
      /\ open' = << >> \/ open'[1].at = u
      /\ \A p \in seen'.pieces : p \in seen.pieces \/ p.home = 0 \/ p.home \in p.unit .. p.at
  BY <1>3, EventsAdded DEF Adds
<1>6. ASSUME NEW e \in seen.pieces \cup seen.bounds
      PROVE  /\ e.at \in 1 .. offset - 1 /\ e.unit \in 1 .. e.at
             /\ e.unit = u \/ e.at < u
  <2>1. /\ e.at \in 1 .. offset - 1 /\ e.unit \in 1 .. e.at
        /\ open # << >> => e.unit = open[1].at \/ e.at < open[1].at
    BY DEF Ordered
  <2>2. open = << >> => e.at < u
    BY <1>1, <1>4, <2>1
  <2> QED
    BY <1>4, <2>1, <2>2
<1>7. ASSUME NEW e \in seen'.pieces \cup seen'.bounds
      PROVE  /\ e.at \in 1 .. offset' - 1 /\ e.unit \in 1 .. e.at
             /\ e.unit = u \/ e.at < u
  BY <1>1, <1>2, <1>4, <1>5, <1>6
<1>8. ASSUME NEW e \in seen'.pieces \cup seen'.bounds, NEW f \in seen'.pieces \cup seen'.bounds, e.at < f.at
      PROVE  e.unit = f.unit \/ e.at < f.unit
  <2>1. CASE e \in seen.pieces \cup seen.bounds /\ f \in seen.pieces \cup seen.bounds
    BY <1>8, <2>1 DEF Ordered
  <2>2. CASE f.at = offset /\ f.unit = u
    BY <1>7, <2>2
  <2>3. CASE e.at = offset /\ f \in seen.pieces \cup seen.bounds
    BY <1>1, <1>6, <1>8, <2>3
  <2> QED
    BY <1>5, <2>1, <2>2, <2>3
<1>9. \A p \in seen'.pieces : p.home = 0 \/ p.home \in p.unit .. p.at
  BY <1>5 DEF Ordered
<1> QED
  BY <1>5, <1>7, <1>8, <1>9 DEF Ordered

(* At the end nothing is open, and there is no run. *)
LEMMA FinishedStep ==
    ASSUME Before, Finished, Move
    PROVE  Finished'
<1>1. CASE Stops
  <2>1. open' = << >> /\ accum' = NoText
    BY <1>1 DEF Stops, Flushed
  <2> QED
    BY <2>1 DEF Finished, NoText
<1>2. CASE \E tag \in Tags : Starts(tag)
  BY <1>2, StartsOpens DEF Finished, Before
<1>3. CASE \E tag \in Tags : Ends(tag)
  BY <1>3, EndsCloses DEF Finished, Before
<1>4. CASE Says \/ Fragment
  <2>1. seen \in Histories
    BY DEF Before, MarkdownTypeOK
  <2>2. ~seen'.ended
    BY <1>4, <2>1 DEF Says, Fragment, Histories
  <2> QED
    BY <2>2 DEF Finished
<1> QED
  BY <1>1, <1>2, <1>3, <1>4, MoveParses

(* The stack mirrors the open elements. *)
LEMMA MirrorsStill ==
    ASSUME Mirrors, Len(stack') = Len(stack), Frames(Len(stack)), seen'.fragment = seen.fragment,
           \A j \in 1 .. Len(open) : open[j].tag \in Handled =>
              \E k \in 1 .. Len(open') : open'[k].tag = open[j].tag /\ open'[k].at = open[j].at,
           \A k \in 1 .. Len(open') : open'[k].tag \in Handled =>
              \E j \in 1 .. Len(open) : open[j].tag = open'[k].tag /\ open[j].at = open'[k].at,
           \A i \in 1 .. Len(stack) : stack[i].kind \in Handled
    PROVE  Mirrors'
<1>1. ASSUME NEW i \in 1 .. Len(stack')
      PROVE  /\ stack'[i].start > seen'.fragment
             /\ \E j \in 1 .. Len(open') : open'[j].tag = stack'[i].kind /\ open'[j].at = stack'[i].start
             /\ \A j \in i + 1 .. Len(stack') : stack'[i].start < stack'[j].start
  <2>1. i \in 1 .. Len(stack) /\ stack'[i].kind = stack[i].kind /\ stack'[i].start = stack[i].start
    BY DEF Frames
  <2>2. stack[i].start > seen.fragment
    BY <2>1 DEF Mirrors
  <2>3. \E j \in 1 .. Len(open) : open[j].tag = stack[i].kind /\ open[j].at = stack[i].start
    BY <2>1 DEF Mirrors
  <2>4. \E j \in 1 .. Len(open') : open'[j].tag = stack[i].kind /\ open'[j].at = stack[i].start
    BY <2>1, <2>3
  <2>5. \A j \in i + 1 .. Len(stack) : stack[i].start < stack[j].start
    BY <2>1 DEF Mirrors
  <2>6. \A j \in i + 1 .. Len(stack) : stack'[j].start = stack[j].start
    <3> TAKE j \in i + 1 .. Len(stack)
    <3>1. i \in 1 .. Len(stack)
      BY <2>1
    <3>2. j \in 1 .. Len(stack)
      BY <3>1
    <3> QED
      BY <3>2 DEF Frames
  <2> QED
    BY <2>1, <2>2, <2>4, <2>5, <2>6
<1>2. ASSUME NEW k \in 1 .. Len(open'), open'[k].tag \in Handled, open'[k].at > seen'.fragment
      PROVE  \E i \in 1 .. Len(stack') : stack'[i].start = open'[k].at
  <2>1. PICK j \in 1 .. Len(open) : open[j].tag = open'[k].tag /\ open[j].at = open'[k].at
    BY <1>2
  <2>2. PICK i \in 1 .. Len(stack) : stack[i].start = open[j].at
    BY <1>2, <2>1 DEF Mirrors
  <2> QED
    BY <2>1, <2>2 DEF Frames
<1> QED
  BY <1>1, <1>2 DEF Mirrors

(* The stack mirrors the open elements when one starts. *)
LEMMA MirrorsAfterStart ==
    ASSUME Before, NEW tag \in Handled, Starts(tag), Grown(tag)
    PROVE  Mirrors'
<1>1. PICK n, m \in Nat : n = Len(stack) /\ m = Len(open)
  BY DEF Before, MarkdownTypeOK
<1>2. tag \in Tags
  BY DEF Tags
<1>3. /\ Len(open') = m + 1 /\ open'[m + 1].tag = tag /\ open'[m + 1].at = offset
      /\ \A j \in 1 .. m : open'[j].tag = open[j].tag /\ open'[j].at = open[j].at
      /\ seen'.fragment = seen.fragment /\ offset \in Nat
  BY <1>1, <1>2, StartsOpens DEF Before
<1>4. /\ Len(stack') = n + 1 /\ stack'[n + 1].kind = tag /\ stack'[n + 1].start = offset
      /\ \A i \in 1 .. n : stack'[i] = stack[i]
  BY <1>1 DEF Grown, Remains
<1>5. seen.fragment \in Nat /\ seen.fragment < offset
  BY DEF Before, MarkdownTypeOK, Histories, Nested
<1>6. \A i \in 1 .. n : stack[i].start \in Nat /\ stack[i].start < offset
  BY <1>1, StackIn DEF Before
<1>7. \A i \in 1 .. n : /\ stack[i].start > seen.fragment
                        /\ \E j \in 1 .. m : open[j].tag = stack[i].kind /\ open[j].at = stack[i].start
                        /\ \A j \in i + 1 .. n : stack[i].start < stack[j].start
  BY <1>1 DEF Before, Mirrors
<1>8. \A j \in 1 .. m : open[j].tag \in Handled /\ open[j].at > seen.fragment =>
         \E i \in 1 .. n : stack[i].start = open[j].at
  BY <1>1 DEF Before, Mirrors
<1>9. ASSUME NEW i \in 1 .. n + 1
      PROVE  /\ stack'[i].start > seen.fragment
             /\ \E j \in 1 .. m + 1 : open'[j].tag = stack'[i].kind /\ open'[j].at = stack'[i].start
             /\ \A j \in i + 1 .. n + 1 : stack'[i].start < stack'[j].start
  <2>1. CASE i = n + 1
    BY <1>3, <1>4, <1>5, <2>1
  <2>2. CASE i \in 1 .. n
    <3>1. stack'[i].start > seen.fragment /\ stack'[i] = stack[i]
      BY <1>4, <1>7, <2>2
    <3>2. PICK j \in 1 .. m : open[j].tag = stack[i].kind /\ open[j].at = stack[i].start
      BY <1>7, <2>2
    <3>3. j \in 1 .. m + 1 /\ open'[j].tag = stack'[i].kind /\ open'[j].at = stack'[i].start
      BY <1>3, <3>1, <3>2
    <3>4. \A k \in i + 1 .. n + 1 : (k \in i + 1 .. n /\ k \in 1 .. n) \/ k = n + 1
      BY <2>2
    <3>5. \A k \in i + 1 .. n + 1 : stack[i].start < stack'[k].start
      BY <1>4, <1>6, <1>7, <2>2, <3>4
    <3> QED
      BY <3>1, <3>3, <3>5
  <2> QED
    BY <2>1, <2>2
<1>10. ASSUME NEW j \in 1 .. m + 1, open'[j].tag \in Handled, open'[j].at > seen.fragment
       PROVE  \E i \in 1 .. n + 1 : stack'[i].start = open'[j].at
  <2>1. CASE j = m + 1
    BY <1>3, <1>4, <2>1
  <2>2. CASE j \in 1 .. m
    BY <1>3, <1>4, <1>8, <1>10, <2>2
  <2> QED
    BY <2>1, <2>2
<1> QED
  BY <1>3, <1>4, <1>9, <1>10 DEF Mirrors

(* The stack mirrors the open elements when one ends. *)
LEMMA MirrorsAfterEnd ==
    ASSUME Before, NEW tag \in Tags, EndsTop(tag), Len(stack') = Len(stack) - 1, Frames(Len(stack) - 1)
    PROVE  Mirrors'
<1>1. Ends(tag) /\ stack # << >> /\ stack[Len(stack)].start = open[Len(open)].at
  BY DEF EndsTop
<1>2. PICK m \in Nat \ {0} : /\ m = Len(open) /\ Len(open') = m - 1 /\ (\A j \in 1 .. m - 1 : open'[j] = open[j])
                             /\ seen' = seen
  BY <1>1, EndsCloses DEF Before
<1>3. PICK n \in Nat \ {0} : n = Len(stack)
  BY <1>1, TopIs DEF Before
<1>4. /\ Len(stack') = n - 1
      /\ \A i \in 1 .. n - 1 : stack'[i].kind = stack[i].kind /\ stack'[i].start = stack[i].start
  BY <1>3 DEF Frames
<1>5. \A i \in 1 .. n : /\ stack[i].start > seen.fragment
                        /\ \E j \in 1 .. m : open[j].tag = stack[i].kind /\ open[j].at = stack[i].start
                        /\ \A j \in i + 1 .. n : stack[i].start < stack[j].start
  BY <1>2, <1>3 DEF Before, Mirrors
<1>6. \A j \in 1 .. m : open[j].tag \in Handled /\ open[j].at > seen.fragment =>
         \E i \in 1 .. n : stack[i].start = open[j].at
  BY <1>2, <1>3 DEF Before, Mirrors
<1>7. \A j \in 1 .. m : j # m => open[j].at < open[m].at
  <2> TAKE j \in 1 .. m
  <2>1. j # m => m \in j + 1 .. m
    OBVIOUS
  <2> QED
    BY <1>2, <2>1 DEF Before, Nested
<1>8. \A j \in 1 .. m : open[j].at \in Nat
  <2>1. \A j \in 1 .. m : open[j] \in Elements
    BY <1>2 DEF Before, MarkdownTypeOK
  <2> QED
    BY <2>1 DEF Elements
<1>9. \A i \in 1 .. n : i # n => stack[i].start < stack[n].start
  <2> TAKE i \in 1 .. n
  <2>1. i # n => n \in i + 1 .. n
    OBVIOUS
  <2> QED
    BY <1>5, <2>1
<1>10. stack[n].start = open[m].at /\ m \in 1 .. m
  BY <1>1, <1>2, <1>3
<1>11. ASSUME NEW i \in 1 .. n - 1
       PROVE  /\ stack'[i].start > seen.fragment
              /\ \E j \in 1 .. m - 1 : open'[j].tag = stack'[i].kind /\ open'[j].at = stack'[i].start
              /\ \A j \in i + 1 .. n - 1 : stack'[i].start < stack'[j].start
  <2>1. i \in 1 .. n /\ i # n /\ stack'[i].kind = stack[i].kind /\ stack'[i].start = stack[i].start
    BY <1>4
  <2>2. PICK j \in 1 .. m : open[j].tag = stack[i].kind /\ open[j].at = stack[i].start
    BY <1>5, <2>1
  <2>3. j # m
    BY <1>8, <1>9, <1>10, <2>1, <2>2
  <2>4. j \in 1 .. m - 1
    BY <2>3
  <2>5. open'[j].tag = stack'[i].kind /\ open'[j].at = stack'[i].start
    BY <1>2, <2>1, <2>2, <2>4
  <2>6. stack[i].start > seen.fragment
    BY <1>5, <2>1
  <2>7. \A k \in i + 1 .. n - 1 : k \in i + 1 .. n /\ k \in 1 .. n - 1
    BY <2>1
  <2>8. \A k \in i + 1 .. n - 1 : stack[i].start < stack'[k].start
    BY <1>4, <1>5, <2>1, <2>7
  <2> QED
    BY <2>1, <2>4, <2>5, <2>6, <2>8
<1>12. ASSUME NEW j \in 1 .. m - 1, open'[j].tag \in Handled, open'[j].at > seen.fragment
       PROVE  \E i \in 1 .. n - 1 : stack'[i].start = open'[j].at
  <2>1. j \in 1 .. m /\ j # m /\ open'[j] = open[j]
    BY <1>2
  <2>2. PICK i \in 1 .. n : stack[i].start = open[j].at
    BY <1>6, <1>12, <2>1
  <2>3. i # n
    BY <1>7, <1>8, <1>10, <2>1, <2>2
  <2>4. i \in 1 .. n - 1
    BY <2>3
  <2> QED
    BY <1>4, <2>1, <2>2, <2>4
<1> QED
  BY <1>2, <1>4, <1>11, <1>12 DEF Mirrors

(* The stack mirrors the open elements after a fragment. *)
LEMMA MirrorsEmpty ==
    ASSUME stack' = << >>,
           \A j \in 1 .. Len(open') : open'[j].tag \notin Handled \/ ~(open'[j].at > seen'.fragment)
    PROVE  Mirrors'
<1>1. Len(stack') = 0
  OBVIOUS
<1> QED
  BY <1>1 DEF Mirrors

(* The stack mirrors the open elements. *)
LEMMA MirrorsStep ==
    ASSUME Before, Move
    PROVE  Mirrors'
<1>1. MarkdownTypeOK /\ Nested /\ Mirrors /\ seen \in Histories
  BY DEF Before, MarkdownTypeOK
<1>2. \A i \in 1 .. Len(stack) : stack[i].kind \in Handled
  BY <1>1, StackIn
<1>3. CASE \E tag \in Handled : Starts(tag) /\ Grown(tag)
  BY <1>3, MirrorsAfterStart
<1>4. CASE \E tag \in Tags \ Handled : Passes(tag)
  <2>1. PICK tag \in Tags \ Handled : Passes(tag)
    BY <1>4
  <2>2. Len(stack') = Len(stack) /\ Frames(Len(stack))
    BY <2>1 DEF Passes, Unmoved
  <2>3. PICK m \in Nat : m = Len(open)
    BY <1>1 DEF MarkdownTypeOK
  <2>4. CASE Starts(tag)
    <3>1. /\ Len(open') = m + 1 /\ open'[m + 1].tag = tag
          /\ \A i \in 1 .. m : open'[i].tag = open[i].tag /\ open'[i].at = open[i].at
          /\ seen'.fragment = seen.fragment
      BY <1>1, <2>3, <2>4, StartsOpens
    <3>2. \A k \in 1 .. m + 1 : k \in 1 .. m \/ k = m + 1
      OBVIOUS
    <3>3. \A k \in 1 .. m : k \in 1 .. m + 1
      OBVIOUS
    <3> QED
      BY <1>1, <1>2, <2>1, <2>2, <2>3, <3>1, <3>2, <3>3, MirrorsStill
  <2>5. CASE Ends(tag)
    <3>1. /\ Len(open') = m - 1 /\ open[m].tag = tag /\ m # 0
          /\ \A i \in 1 .. m - 1 : open'[i] = open[i]
          /\ seen' = seen
      BY <1>1, <2>3, <2>5, EndsCloses
    <3>2. \A k \in 1 .. m : k \in 1 .. m - 1 \/ k = m
      OBVIOUS
    <3>3. \A k \in 1 .. m - 1 : k \in 1 .. m
      OBVIOUS
    <3> QED
      BY <1>1, <1>2, <2>1, <2>2, <2>3, <3>1, <3>2, <3>3, MirrorsStill
  <2> QED
    BY <2>1, <2>4, <2>5 DEF Passes
<1>5. CASE \E tag \in Tags : EndsTop(tag) /\ (Popped \/ Lowered)
  <2>1. PICK tag \in Tags : EndsTop(tag)
    BY <1>5
  <2>2. Len(stack') = Len(stack) - 1 /\ Frames(Len(stack) - 1)
    BY <1>5 DEF Popped, Lowered, Remains, Frames
  <2> QED
    BY <2>1, <2>2, MirrorsAfterEnd
<1>6. CASE \E tag \in Tags : EndsClosed(tag)
  <2>1. PICK tag \in Tags : Ends(tag) /\ stack = << >> /\ stack' = << >>
    BY <1>6 DEF EndsClosed
  <2>2. Len(stack) = 0
    BY <2>1
  <2>3. \A j \in 1 .. Len(open) : open[j].tag \notin Handled \/ ~(open[j].at > seen.fragment)
    BY <1>1, <2>2 DEF Mirrors
  <2>4. PICK m \in Nat \ {0} : /\ m = Len(open) /\ Len(open') = m - 1 /\ (\A j \in 1 .. m - 1 : open'[j] = open[j])
                               /\ seen' = seen
    BY <1>1, <2>1, EndsCloses
  <2>5. \A j \in 1 .. m - 1 : j \in 1 .. m
    OBVIOUS
  <2> QED
    BY <2>1, <2>3, <2>4, <2>5, MirrorsEmpty
<1>7. CASE SaysOn \/ SaysLost
  <2>1. open' = open /\ seen'.fragment = seen.fragment
    BY <1>1, <1>7 DEF SaysOn, SaysLost, Says, Histories
  <2>2. Len(stack') = Len(stack) /\ Frames(Len(stack))
    BY <1>7 DEF SaysOn, SaysLost, Added, Frames
  <2> QED
    BY <1>1, <1>2, <2>1, <2>2, MirrorsStill
<1>8. CASE Fragment
  <2>1. open' = open /\ seen'.fragment = offset /\ stack' = << >>
    BY <1>1, <1>8 DEF Fragment, Histories
  <2>2. \A j \in 1 .. Len(open) : ~(open[j].at > offset)
    <3> TAKE j \in 1 .. Len(open)
    <3>1. open[j].at \in 1 .. offset - 1 /\ offset \in Nat
      BY <1>1 DEF Nested, MarkdownTypeOK
    <3> QED
      BY <3>1
  <2> QED
    BY <2>1, <2>2, MirrorsEmpty
<1>9. CASE Stops
  <2>1. open' = open /\ seen'.fragment = seen.fragment /\ stack' = stack
    BY <1>1, <1>9 DEF Stops, Histories
  <2> QED
    BY <1>1, <2>1 DEF Mirrors
<1> QED
  <2>1. Structural \subseteq Handled /\ Handled \subseteq Tags /\ {"quote", "list", "paragraph"} \subseteq Tags
    BY DEF Handled, Tags, Structural
  <2> QED
    BY <1>3, <1>4, <1>5, <1>6, <1>7, <1>8, <1>9, <2>1
    DEF Move, StartsBlock, StartsText, EndsBlock, EndsText, EndsBelow

-----------------------------------------------------------------------------
(* Where what is held goes. *)

(* What the proofs of the moves may assume, and what a piece in a place has. *)
Ready ==
    /\ Before /\ After /\ Move
    /\ \A k \in Places : \A x \in HeldIn(k) : x \in Nat /\ StartOf(k) \in 1 .. x /\ x < offset
    /\ Apart

(* What place k holds goes to place l. *)
Goes(k, l) ==
    /\ l \in Places' /\ HeldIn(k) \subseteq HeldIn(l)' /\ HomeOf(l)' = HomeOf(k)
    /\ \A x \in HeldIn(k) : StartOf(l)' \in 1 .. x
    /\ k > 0 => l = k
    /\ k < 0 /\ l > 0 => ~IsRun(k)
    /\ l < 0 => k < 0
    /\ k = 0 /\ l # 0 => l = Len(converted) + 1

(* A move takes what place k holds to place r[k], and a new piece to that in T. *)
Carried(r, T) ==
    /\ \A k \in Places : HeldIn(k) = {} \/ Goes(k, r[k])
    /\ \A l \in Places' : \A x \in HeldIn(l)' :
          (x = offset /\ l \in T) \/ \E k \in Places : r[k] = l /\ x \in HeldIn(k)
    /\ \A l \in T : l \in Places' /\ l <= 0 /\ offset \in HeldIn(l)'
    /\ \A k, l \in T : k = l

(* The types before and after a move. *)
LEMMA AfterTypes ==
    ASSUME Ready
    PROVE  /\ MarkdownTypeOK /\ stack' \in Seq(Actives) /\ converted' \in Seq(Blocks)
           /\ offset \in Nat \ {0} /\ Len(stack) \in Nat /\ Len(converted) \in Nat /\ Len(stack') \in Nat /\ Len(converted') \in Nat
BY DEF Ready, After, ConverterSound, Before, MarkdownTypeOK

(* What pieces are at home in at each place. *)
LEMMA HomesAre ==
    ASSUME Ready
    PROVE  /\ \A i \in 1 .. Len(stack) : HomeOf(-i) = (IF stack[i].kind \in Structural THEN stack[i].start ELSE 0)
                                         /\ (IsRun(-i) <=> stack[i].kind \notin Structural)
           /\ \A n \in 1 .. Len(converted) : HomeOf(n) = IF converted[n].kind = "text" THEN 0 ELSE converted[n].start
           /\ HomeOf(0) = 0
           /\ \A i \in 1 .. Len(stack') : HomeOf(-i)' = IF stack'[i].kind \in Structural THEN stack'[i].start ELSE 0
           /\ \A n \in 1 .. Len(converted') : HomeOf(n)' = IF converted'[n].kind = "text" THEN 0 ELSE converted'[n].start
           /\ HomeOf(0)' = 0
<1>1. \A i \in Nat \ {0} : -i < 0 /\ -i # 0 /\ ~(-i > 0) /\ -(-i) = i /\ i > 0 /\ ~(i < 0)
  OBVIOUS
<1>2. /\ \A i \in 1 .. Len(stack) : i \in Nat \ {0}
      /\ \A i \in 1 .. Len(stack') : i \in Nat \ {0}
      /\ \A i \in 1 .. Len(converted) : i \in Nat \ {0}
      /\ \A i \in 1 .. Len(converted') : i \in Nat \ {0}
  BY AfterTypes
<1> QED
  BY <1>1, <1>2 DEF HomeOf, IsRun, StartOf

(* What an element has goes with it. *)
LEMMA FrameGoes ==
    ASSUME Ready, NEW i \in 1 .. Len(stack), NEW j \in 1 .. Len(stack'),
           stack'[j].kind \in Structural <=> stack[i].kind \in Structural,
           stack'[j].start = stack[i].start \/ stack[i].kind \notin Structural,
           stack'[j].start \in Nat \ {0}, stack'[j].start <= stack[i].start,
           HeldBy(stack[i]) \subseteq HeldBy(stack'[j])
    PROVE  Goes(-i, -j)
<1>1. /\ -i \in Places /\ -i < 0 /\ HeldIn(-i) = InStack(i) /\ StartOf(-i) = stack[i].start
      /\ -j \in Places' /\ -j < 0 /\ HeldIn(-j)' = InStack(j)' /\ StartOf(-j)' = stack'[j].start
  BY AfterTypes, PlacesAre, PlacesAfter
<1>2. HeldIn(-i) \subseteq HeldIn(-j)'
  BY <1>1 DEF InStack
<1>3. HomeOf(-j)' = HomeOf(-i)
  BY HomesAre
<1>4. \A x \in HeldIn(-i) : x \in Nat /\ stack[i].start \in 1 .. x
  BY <1>1 DEF Ready
<1>5. \A x \in HeldIn(-i) : stack'[j].start \in 1 .. x
  BY <1>4
<1>6. ~(-i > 0) /\ ~(-j > 0) /\ -i # 0
  BY AfterTypes
<1> QED
  BY <1>1, <1>2, <1>3, <1>5, <1>6 DEF Goes

(* An element that stays where it is. *)
LEMMA FrameStays ==
    ASSUME Ready, NEW i \in 1 .. Len(stack), i \in 1 .. Len(stack'),
           stack'[i].kind = stack[i].kind, stack'[i].start = stack[i].start, HeldBy(stack[i]) \subseteq HeldBy(stack'[i])
    PROVE  Goes(-i, -i) /\ HeldIn(-i) = HeldBy(stack[i]) /\ HeldIn(-i)' = HeldBy(stack'[i])
<1>1. stack[i].start \in Nat \ {0}
  BY StackIn DEF Ready, Before
<1>2. Goes(-i, -i)
  BY <1>1, FrameGoes
<1>3. HeldIn(-i) = InStack(i) /\ HeldIn(-i)' = InStack(i)'
  BY AfterTypes, PlacesAre, PlacesAfter
<1> QED
  BY <1>2, <1>3 DEF InStack

(* Blocks stay where and as they are. *)
LEMMA BlocksStay ==
    ASSUME Ready, Len(converted') >= Len(converted), \A n \in 1 .. Len(converted) : converted'[n] = converted[n]
    PROVE  \A n \in 1 .. Len(converted) : Goes(n, n) /\ HeldIn(n)' = HeldIn(n) /\ n \in 1 .. Len(converted')
<1> TAKE n \in 1 .. Len(converted)
<1>1. n \in 1 .. Len(converted') /\ n > 0 /\ ~(n < 0) /\ n # 0
  BY AfterTypes
<1>2. /\ n \in Places /\ HeldIn(n) = InBlock(n) /\ StartOf(n) = converted[n].start
      /\ n \in Places' /\ HeldIn(n)' = InBlock(n)' /\ StartOf(n)' = converted'[n].start
  BY <1>1, AfterTypes, PlacesAre, PlacesAfter
<1>3. HeldIn(n)' = HeldIn(n)
  BY <1>2 DEF InBlock
<1>4. HomeOf(n)' = HomeOf(n)
  BY <1>1, HomesAre
<1>5. \A x \in HeldIn(n) : StartOf(n) \in 1 .. x
  BY <1>2 DEF Ready
<1> QED
  BY <1>1, <1>2, <1>3, <1>4, <1>5 DEF Goes

(* A run that does not change. *)
LEMMA RunStays ==
    ASSUME Ready, accum' = accum
    PROVE  Goes(0, 0) /\ HeldIn(0)' = HeldIn(0)
<1>1. /\ 0 \in Places /\ HeldIn(0) = InAccum /\ StartOf(0) = accum.start
      /\ 0 \in Places' /\ HeldIn(0)' = InAccum' /\ StartOf(0)' = accum'.start
  BY AfterTypes, PlacesAre, PlacesAfter
<1>2. HeldIn(0)' = HeldIn(0)
  BY <1>1 DEF InAccum
<1>3. HomeOf(0)' = HomeOf(0)
  BY HomesAre
<1>4. \A x \in HeldIn(0) : StartOf(0) \in 1 .. x
  BY <1>1 DEF Ready
<1> QED
  BY <1>1, <1>2, <1>3, <1>4 DEF Goes

(* The elements stay on the stack as they are, and what is new is empty. *)
FramesStay ==
    /\ Len(stack') >= Len(stack) /\ Frames(Len(stack))
    /\ \A i \in 1 .. Len(stack) : HeldBy(stack'[i]) = HeldBy(stack[i])
    /\ \A i \in Len(stack) + 1 .. Len(stack') : HeldBy(stack'[i]) = {}

(* Elements that stay as they are. *)
LEMMA FramesStayPut ==
    ASSUME Ready, FramesStay
    PROVE  /\ \A i \in 1 .. Len(stack) : -i \in Places /\ Goes(-i, -i) /\ HeldIn(-i)' = HeldIn(-i)
           /\ \A i \in 1 .. Len(stack') : i \in 1 .. Len(stack) \/ HeldIn(-i)' = {}
<1>1. PICK n, m \in Nat : n = Len(stack) /\ m = Len(stack') /\ m >= n
  BY AfterTypes DEF FramesStay
<1>2. ASSUME NEW i \in 1 .. n
      PROVE  -i \in Places /\ Goes(-i, -i) /\ HeldIn(-i)' = HeldIn(-i)
  <2>1. i \in 1 .. Len(stack) /\ i \in 1 .. Len(stack')
    BY <1>1
  <2>2. stack'[i].kind = stack[i].kind /\ stack'[i].start = stack[i].start /\ HeldBy(stack'[i]) = HeldBy(stack[i])
    BY <2>1 DEF FramesStay, Frames
  <2>3. Goes(-i, -i) /\ HeldIn(-i) = HeldBy(stack[i]) /\ HeldIn(-i)' = HeldBy(stack'[i])
    BY <2>1, <2>2, FrameStays
  <2>4. -i \in Places
    BY <2>1, AfterTypes, PlacesAre
  <2> QED
    BY <2>2, <2>3, <2>4
<1>3. ASSUME NEW i \in 1 .. m
      PROVE  i \in 1 .. n \/ HeldIn(-i)' = {}
  <2>1. i \in 1 .. n \/ i \in n + 1 .. m
    BY <1>1
  <2>2. i \in n + 1 .. m => HeldBy(stack'[i]) = {}
    BY <1>1 DEF FramesStay
  <2>3. HeldIn(-i)' = InStack(i)'
    BY <1>1, AfterTypes, PlacesAfter
  <2> QED
    BY <2>1, <2>2, <2>3 DEF InStack
<1> QED
  BY <1>1, <1>2, <1>3

(* Nothing moves. *)
LEMMA CarriesStill ==
    ASSUME Ready, FramesStay, Settled
    PROVE  \E r : Carried(r, {}) /\ r[0] = 0
<1> DEFINE r == [k \in Places |-> k]
<1>1. Goes(0, 0) /\ HeldIn(0)' = HeldIn(0) /\ 0 \in Places
  BY RunStays, AfterTypes, PlacesAre DEF Settled
<1>2. \A n \in 1 .. Len(converted) : Goes(n, n) /\ HeldIn(n)' = HeldIn(n) /\ n \in Places
  BY BlocksStay, AfterTypes, PlacesAre DEF Settled
<1>3. Len(converted') = Len(converted)
  BY DEF Settled
<1>4. \A k \in Places : Goes(k, r[k])
  <2> TAKE k \in Places
  <2>1. \/ k = 0
        \/ k \in 1 .. Len(converted)
        \/ -k \in 1 .. Len(stack) /\ k = -(-k)
    BY AfterTypes, PlacesAre DEF Places
  <2> QED
    BY <1>1, <1>2, <2>1, FramesStayPut
<1>5. ASSUME NEW l \in Places', NEW x \in HeldIn(l)'
      PROVE  \E k \in Places : r[k] = l /\ x \in HeldIn(k)
  <2>1. \/ l = 0
        \/ l \in 1 .. Len(converted)
        \/ -l \in 1 .. Len(stack') /\ l = -(-l)
    BY <1>3, AfterTypes, PlacesAfter DEF Places
  <2> QED
    BY <1>1, <1>2, <1>5, <2>1, FramesStayPut
<1>6. r[0] = 0
  BY <1>1
<1>7. PICK f : f = r
  OBVIOUS
<1>8. (\A k \in Places : Goes(k, f[k])) /\ f[0] = 0
  BY <1>4, <1>6, <1>7
<1>9. \A l \in Places' : \A x \in HeldIn(l)' : \E k \in Places : f[k] = l /\ x \in HeldIn(k)
  BY <1>5, <1>7
<1>10. Carried(f, {})
  BY <1>8, <1>9 DEF Carried
<1> QED
  BY <1>8, <1>10

(* The run becomes a block. *)
LEMMA CarriesFlush ==
    ASSUME Ready, FramesStay, Flushed
    PROVE  /\ \E r : Carried(r, {}) /\ r[0] = Len(converted) + 1
           /\ HeldIn(0)' = {}
<1>1. PICK m \in Nat : m = Len(converted)
  BY AfterTypes
<1> DEFINE r == [k \in Places |-> IF k = 0 THEN m + 1 ELSE k]
<1>2. HeldIn(0) = InAccum /\ 0 \in Places /\ StartOf(0) = accum.start
  BY AfterTypes, PlacesAre
<1>3. HeldIn(0)' = {}
  <2>1. accum'.texts = << >>
    BY DEF Flushed, NoText
  <2>2. HeldIn(0)' = InAccum'
    BY AfterTypes, PlacesAfter
  <2> QED
    BY <2>1, <2>2, NothingHeld DEF InAccum
<1>4. /\ Len(converted') >= m /\ \A n \in 1 .. m : converted'[n] = converted[n]
      /\ Len(converted') = m \/ Len(converted') = m + 1
  BY <1>1 DEF Flushed
<1>5. \A n \in 1 .. m : Goes(n, n) /\ HeldIn(n)' = HeldIn(n) /\ n \in Places
  <2>1. \A n \in 1 .. m : n \in Places
    BY <1>1, AfterTypes, PlacesAre
  <2> QED
    BY <1>1, <1>4, <2>1, BlocksStay
<1>6. HeldIn(0) = {} \/ Goes(0, m + 1)
  <2> SUFFICES ASSUME HeldIn(0) # {}
               PROVE  Goes(0, m + 1)
    OBVIOUS
  <2>1. accum.texts # << >>
    BY <1>2, NothingHeld DEF InAccum
  <2>2. /\ Len(converted') = m + 1 /\ converted'[m + 1].kind = "text" /\ converted'[m + 1].start = accum.start
        /\ Said(converted'[m + 1].text) = InAccum
    BY <1>1, <2>1 DEF Flushed
  <2>3. m + 1 \in 1 .. Len(converted') /\ m + 1 > 0 /\ ~(m + 1 < 0)
    BY <2>2
  <2>4. m + 1 \in Places' /\ HeldIn(m + 1)' = InBlock(m + 1)' /\ StartOf(m + 1)' = accum.start
    BY <2>2, <2>3, AfterTypes, PlacesAfter
  <2>5. HomeOf(m + 1)' = HomeOf(0)
    BY <2>2, <2>3, HomesAre
  <2>6. HeldIn(m + 1)' = HeldIn(0)
    BY <1>2, <2>2, <2>4 DEF InBlock
  <2>7. \A x \in HeldIn(0) : accum.start \in 1 .. x
    BY <1>2 DEF Ready
  <2> QED
    BY <1>1, <2>3, <2>4, <2>5, <2>6, <2>7 DEF Goes
<1>7. \A k \in Places : HeldIn(k) = {} \/ Goes(k, r[k])
  <2> TAKE k \in Places
  <2>1. \/ k = 0
        \/ k \in 1 .. m /\ k # 0
        \/ -k \in 1 .. Len(stack) /\ k = -(-k) /\ k # 0
    BY <1>1, AfterTypes, PlacesAre DEF Places
  <2> QED
    BY <1>5, <1>6, <2>1, FramesStayPut
<1>8. ASSUME NEW l \in Places', NEW x \in HeldIn(l)'
      PROVE  \E k \in Places : r[k] = l /\ x \in HeldIn(k)
  <2>1. \/ l = 0
        \/ l \in 1 .. m /\ l # 0
        \/ l = m + 1 /\ Len(converted') = m + 1
        \/ -l \in 1 .. Len(stack') /\ l = -(-l) /\ l # 0
    BY <1>4, AfterTypes, PlacesAfter DEF Places
  <2>2. CASE l = m + 1 /\ Len(converted') = m + 1
    <3>1. accum.texts # << >>
      BY <1>1, <2>2 DEF Flushed
    <3>2. Said(converted'[m + 1].text) = InAccum
      BY <1>1, <3>1 DEF Flushed
    <3>3. m + 1 \in 1 .. Len(converted')
      BY <2>2
    <3>4. HeldIn(m + 1)' = InBlock(m + 1)'
      BY <3>3, AfterTypes, PlacesAfter
    <3>5. x \in HeldIn(0)
      BY <1>2, <1>8, <2>2, <3>2, <3>4 DEF InBlock
    <3> QED
      BY <1>2, <2>2, <3>5
  <2> QED
    BY <1>3, <1>5, <1>8, <2>1, <2>2, FramesStayPut
<1>9. PICK f : f = r
  OBVIOUS
<1>10. (\A k \in Places : HeldIn(k) = {} \/ Goes(k, f[k])) /\ f[0] = m + 1
  BY <1>2, <1>7, <1>9
<1>11. \A l \in Places' : \A x \in HeldIn(l)' : \E k \in Places : f[k] = l /\ x \in HeldIn(k)
  BY <1>8, <1>9
<1>12. Carried(f, {})
  BY <1>10, <1>11 DEF Carried
<1> QED
  BY <1>1, <1>3, <1>10, <1>12

(* What is below the popped element stays. *)
LEMMA PopLeaves ==
    ASSUME Ready, Len(stack') = Len(stack) - 1, NEW i \in 1 .. Len(stack) - 1, stack'[i] = stack[i]
    PROVE  -i \in Places /\ Goes(-i, -i) /\ HeldIn(-i)' = HeldIn(-i)
<1>1. PICK n \in Nat : n = Len(stack)
  BY AfterTypes
<1>2. i \in 1 .. n /\ i \in 1 .. n - 1
  BY <1>1
<1>3. Goes(-i, -i) /\ HeldIn(-i) = HeldBy(stack[i]) /\ HeldIn(-i)' = HeldBy(stack'[i])
  BY <1>1, <1>2, FrameStays
<1>4. -i \in Places
  BY <1>1, <1>2, AfterTypes, PlacesAre
<1> QED
  BY <1>3, <1>4

(* The run takes in what the elements in S have. *)
LEMMA RunGathers ==
    ASSUME Ready, NEW T, NEW F, Gathers(accum, accum', T, F)
    PROVE  /\ HeldIn(0)' = HeldIn(0) \cup T /\ Goes(0, 0)
           /\ \A x \in T \cap Nat : StartOf(0)' \in 1 .. x
<1>1. /\ 0 \in Places /\ HeldIn(0) = InAccum /\ StartOf(0) = accum.start
      /\ 0 \in Places' /\ HeldIn(0)' = InAccum' /\ StartOf(0)' = accum'.start
  BY AfterTypes, PlacesAre, PlacesAfter
<1>2. HeldIn(0)' = HeldIn(0) \cup T
  BY <1>1 DEF InAccum, Gathers
<1>3. HomeOf(0)' = HomeOf(0)
  BY HomesAre
<1>4. accum' \in Accums /\ AccumSound(accum') /\ accum \in Accums
  BY SoundParts DEF Ready, After, ConverterSound, Sound, Before, MarkdownTypeOK
<1>5. accum'.start \in Nat /\ accum.start \in Nat /\ (accum'.texts = << >> <=> accum'.start = 0)
  BY <1>4 DEF Accums, AccumSound
<1>6. InAccum' # {} => accum'.start # 0
  BY <1>5, NothingHeld DEF InAccum
<1>7. \A x \in T \cap Nat : accum'.start \in 1 .. x
  <2> TAKE x \in T \cap Nat
  <2>1. accum'.start <= x
    BY DEF Gathers
  <2>2. accum'.start # 0
    BY <1>1, <1>2, <1>6
  <2> QED
    BY <1>5, <2>1, <2>2
<1>8. \A x \in HeldIn(0) : accum'.start \in 1 .. x
  <2> TAKE x \in HeldIn(0)
  <2>1. accum.start \in 1 .. x /\ x \in Nat
    BY <1>1 DEF Ready
  <2>2. accum'.start <= accum.start
    BY <2>1 DEF Gathers
  <2>3. accum'.start # 0
    BY <1>1, <1>2, <1>6
  <2> QED
    BY <1>5, <2>1, <2>2, <2>3
<1> QED
  BY <1>1, <1>2, <1>3, <1>7, <1>8 DEF Goes

(* The element on top becomes a block. *)
LEMMA CarriesBlock ==
    ASSUME Ready, NEW tag \in Structural, EndsBlock(tag)
    PROVE  \E r : Carried(r, {}) /\ r[0] = 0
<1>1. /\ EndsTop(tag) /\ Popped /\ accum' = accum /\ Emitted
      /\ stack # << >> /\ stack[Len(stack)].kind = tag
  BY DEF EndsBlock, EndsTop
<1>2. PICK n \in Nat \ {0} : n = Len(stack) /\ n \in 1 .. n
  BY <1>1, TopIs DEF Ready, Before
<1>3. PICK m \in Nat : m = Len(converted)
  BY AfterTypes
<1> DEFINE r == [k \in Places |-> IF k = -n THEN m + 1 ELSE k]
<1>4. Len(stack') = n - 1 /\ \A i \in 1 .. n - 1 : stack'[i] = stack[i]
  BY <1>1, <1>2 DEF Popped, Remains
<1>5. \A i \in 1 .. n - 1 : -i \in Places /\ Goes(-i, -i) /\ HeldIn(-i)' = HeldIn(-i)
  BY <1>2, <1>4, PopLeaves
<1>6. /\ -n \in Places /\ HeldIn(-n) = InStack(n) /\ StartOf(-n) = stack[n].start /\ -n < 0
      /\ HomeOf(-n) = stack[n].start /\ ~IsRun(-n)
  <2>1. -n \in Places /\ HeldIn(-n) = InStack(n) /\ StartOf(-n) = stack[n].start /\ -n < 0
    BY <1>2, AfterTypes, PlacesAre
  <2> QED
    BY <1>1, <1>2, <2>1, HomesAre
<1>7. /\ Len(converted') >= m /\ \A k \in 1 .. m : converted'[k] = converted[k]
      /\ Len(converted') = m \/ Len(converted') = m + 1
  BY <1>1, <1>3 DEF Emitted
<1>8. \A k \in 1 .. m : Goes(k, k) /\ HeldIn(k)' = HeldIn(k) /\ k \in Places
  <2>1. \A k \in 1 .. m : k \in Places
    BY <1>3, AfterTypes, PlacesAre
  <2> QED
    BY <1>3, <1>7, <2>1, BlocksStay
<1>9. Len(converted') = m + 1 => Goes(-n, m + 1) /\ HeldIn(m + 1)' = HeldIn(-n)
  <2> SUFFICES ASSUME Len(converted') = m + 1
               PROVE  Goes(-n, m + 1) /\ HeldIn(m + 1)' = HeldIn(-n)
    OBVIOUS
  <2>1. /\ converted'[m + 1].kind = tag /\ converted'[m + 1].start = stack[n].start
        /\ Said(converted'[m + 1].text) = HeldBy(stack[n])
    <3>1. Len(converted') # Len(converted)
      BY <1>3
    <3> QED
      BY <1>1, <1>2, <1>3, <3>1 DEF Emitted
  <2>2. m + 1 \in 1 .. Len(converted') /\ m + 1 > 0 /\ ~(m + 1 < 0) /\ ~(-n > 0) /\ -n # 0
    BY <1>6
  <2>3. m + 1 \in Places' /\ HeldIn(m + 1)' = InBlock(m + 1)' /\ StartOf(m + 1)' = stack[n].start
    BY <2>1, <2>2, AfterTypes, PlacesAfter
  <2>4. HomeOf(m + 1)' = stack[n].start
    <3>1. tag # "text"
      BY DEF Structural
    <3> QED
      BY <2>1, <2>2, <3>1, HomesAre
  <2>5. HeldIn(m + 1)' = HeldIn(-n)
    BY <1>6, <2>1, <2>3 DEF InBlock, InStack
  <2>6. \A x \in HeldIn(-n) : stack[n].start \in 1 .. x
    BY <1>6 DEF Ready
  <2> QED
    BY <1>6, <2>2, <2>3, <2>4, <2>5, <2>6 DEF Goes
<1>10. Len(converted') = m => HeldIn(-n) = {}
  <2>1. Len(converted') = m => HeldBy(stack[n]) = {}
    BY <1>1, <1>2, <1>3 DEF Emitted
  <2> QED
    BY <1>6, <2>1 DEF InStack
<1>11. Goes(0, 0) /\ HeldIn(0)' = HeldIn(0) /\ 0 \in Places
  BY <1>1, RunStays, AfterTypes, PlacesAre
<1>12. \A k \in Places : HeldIn(k) = {} \/ Goes(k, r[k])
  <2> TAKE k \in Places
  <2>1. \/ k = 0 /\ k # -n
        \/ k \in 1 .. m /\ k # -n
        \/ k = -n
        \/ -k \in 1 .. n - 1 /\ k = -(-k) /\ k # -n
    <3>1. k \in (-n) .. m
      BY <1>2, <1>3 DEF Places
    <3> QED
      BY <1>2, <1>3, <3>1
  <2> QED
    BY <1>5, <1>7, <1>8, <1>9, <1>10, <1>11, <2>1
<1>13. ASSUME NEW l \in Places', NEW x \in HeldIn(l)'
      PROVE  \E k \in Places : r[k] = l /\ x \in HeldIn(k)
  <2>1. \/ l = 0 /\ l # -n
        \/ l \in 1 .. m /\ l # -n
        \/ l = m + 1 /\ Len(converted') = m + 1
        \/ -l \in 1 .. n - 1 /\ l = -(-l) /\ l # -n
    BY <1>2, <1>4, <1>7, AfterTypes, PlacesAfter DEF Places
  <2> QED
    BY <1>5, <1>6, <1>8, <1>9, <1>11, <1>13, <2>1
<1>14. PICK f : f = r
  OBVIOUS
<1>15. (\A k \in Places : HeldIn(k) = {} \/ Goes(k, f[k])) /\ f[0] = 0
  BY <1>2, <1>11, <1>12, <1>14
<1>16. \A l \in Places' : \A x \in HeldIn(l)' : \E k \in Places : f[k] = l /\ x \in HeldIn(k)
  BY <1>13, <1>14
<1>17. Carried(f, {})
  BY <1>15, <1>16 DEF Carried
<1> QED
  BY <1>15, <1>17

(* The element on top joins the run. *)
LEMMA CarriesText ==
    ASSUME Ready, NEW tag \in Handled \ Structural, EndsText(tag)
    PROVE  \E r : Carried(r, {}) /\ r[0] = 0
<1>1. /\ EndsTop(tag) /\ Popped /\ converted' = converted
      /\ stack # << >> /\ stack[Len(stack)].kind = tag
      /\ Gathers(accum, accum', InStack(Len(stack)), {stack[Len(stack)].start})
  BY DEF EndsText, EndsTop
<1>2. PICK n \in Nat \ {0} : n = Len(stack) /\ n \in 1 .. n
  BY <1>1, TopIs DEF Ready, Before
<1>3. PICK m \in Nat : m = Len(converted) /\ m = Len(converted')
  BY <1>1, AfterTypes
<1> DEFINE r == [k \in Places |-> IF k = -n THEN 0 ELSE k]
<1>4. Len(stack') = n - 1 /\ \A i \in 1 .. n - 1 : stack'[i] = stack[i]
  BY <1>1, <1>2 DEF Popped, Remains
<1>5. \A i \in 1 .. n - 1 : -i \in Places /\ Goes(-i, -i) /\ HeldIn(-i)' = HeldIn(-i)
  BY <1>2, <1>4, PopLeaves
<1>6. -n \in Places /\ HeldIn(-n) = InStack(n) /\ -n < 0 /\ HomeOf(-n) = 0 /\ -n # 0
  <2>1. -n \in Places /\ HeldIn(-n) = InStack(n) /\ -n < 0 /\ -n # 0
    BY <1>2, AfterTypes, PlacesAre
  <2> QED
    BY <1>1, <1>2, <2>1, HomesAre
<1>7. \A k \in 1 .. m : Goes(k, k) /\ HeldIn(k)' = HeldIn(k) /\ k \in Places
  <2>1. \A k \in 1 .. m : k \in Places
    BY <1>3, AfterTypes, PlacesAre
  <2> QED
    BY <1>1, <1>3, <2>1, BlocksStay
<1>8. HeldIn(0)' = HeldIn(0) \cup HeldIn(-n) /\ Goes(0, 0) /\ \A x \in HeldIn(-n) \cap Nat : StartOf(0)' \in 1 .. x
  <2>1. Gathers(accum, accum', HeldIn(-n), {stack[n].start})
    BY <1>1, <1>2, <1>6
  <2> QED
    BY <2>1, RunGathers
<1>9. 0 \in Places /\ 0 \in Places'
  BY AfterTypes, PlacesAre, PlacesAfter
<1>10. Goes(-n, 0)
  <2>1. \A x \in HeldIn(-n) : StartOf(0)' \in 1 .. x
    BY <1>6, <1>8 DEF Ready
  <2>2. HomeOf(0)' = 0
    BY HomesAre
  <2>3. ~(-n > 0) /\ -n # 0
    BY <1>6
  <2> QED
    BY <1>6, <1>8, <1>9, <2>1, <2>2, <2>3 DEF Goes
<1>11. \A k \in Places : Goes(k, r[k])
  <2> TAKE k \in Places
  <2>1. \/ k = 0 /\ k # -n
        \/ k \in 1 .. m /\ k # -n
        \/ k = -n
        \/ -k \in 1 .. n - 1 /\ k = -(-k) /\ k # -n
    <3>1. k \in (-n) .. m
      BY <1>2, <1>3 DEF Places
    <3> QED
      BY <1>2, <1>3, <3>1
  <2> QED
    BY <1>5, <1>7, <1>8, <1>10, <2>1
<1>12. ASSUME NEW l \in Places', NEW x \in HeldIn(l)'
      PROVE  \E k \in Places : r[k] = l /\ x \in HeldIn(k)
  <2>1. \/ l = 0
        \/ l \in 1 .. m /\ l # -n
        \/ -l \in 1 .. n - 1 /\ l = -(-l) /\ l # -n
    BY <1>2, <1>3, <1>4, AfterTypes, PlacesAfter DEF Places
  <2>2. CASE l = 0
    <3>1. x \in HeldIn(0) \/ x \in HeldIn(-n)
      BY <1>8, <1>12, <2>2
    <3>2. r[0] = 0 /\ r[-n] = 0
      BY <1>6, <1>9
    <3> QED
      BY <1>6, <1>9, <2>2, <3>1, <3>2
  <2> QED
    BY <1>5, <1>7, <1>12, <2>1, <2>2
<1>13. PICK f : f = r
  OBVIOUS
<1>14. (\A k \in Places : Goes(k, f[k])) /\ f[0] = 0
  BY <1>6, <1>9, <1>11, <1>13
<1>15. \A l \in Places' : \A x \in HeldIn(l)' : \E k \in Places : f[k] = l /\ x \in HeldIn(k)
  BY <1>12, <1>13
<1>16. Carried(f, {})
  BY <1>14, <1>15 DEF Carried
<1> QED
  BY <1>14, <1>16

(* The paragraph on top joins the quote or list below. *)
LEMMA CarriesBelow ==
    ASSUME Ready, EndsBelow
    PROVE  \E r : Carried(r, {}) /\ r[0] = 0
<1>1. /\ EndsTop("paragraph") /\ Lowered /\ Settled
      /\ stack # << >> /\ stack[Len(stack)].kind = "paragraph"
  BY DEF EndsBelow, EndsTop
<1>2. PICK n \in Nat : n = Len(stack) /\ n > 1 /\ n \in 1 .. n /\ n - 1 \in 1 .. n /\ n - 1 \in 1 .. n - 1
  BY <1>1, AfterTypes DEF Lowered
<1>3. PICK m \in Nat : m = Len(converted) /\ m = Len(converted')
  BY <1>1, AfterTypes DEF Settled
<1> DEFINE r == [k \in Places |-> IF k = -n THEN -(n - 1) ELSE k]
<1>4. /\ Len(stack') = n - 1 /\ \A i \in 1 .. n - 2 : stack'[i] = stack[i]
      /\ stack'[n - 1].kind = stack[n - 1].kind /\ stack'[n - 1].start = stack[n - 1].start
      /\ stack[n - 1].kind \in {"quote", "list"}
      /\ HeldBy(stack'[n - 1]) = HeldBy(stack[n - 1]) \cup HeldBy(stack[n])
  BY <1>1, <1>2 DEF Lowered, Frames, Remains
<1>5. ASSUME NEW i \in 1 .. n - 2
      PROVE  -i \in Places /\ Goes(-i, -i) /\ HeldIn(-i)' = HeldIn(-i) /\ i \in 1 .. n - 1
  <2>1. i \in 1 .. n - 1
    BY <1>2
  <2> QED
    BY <1>2, <1>4, <2>1, PopLeaves
<1>6. /\ Goes(-(n - 1), -(n - 1)) /\ HeldIn(-(n - 1)) = HeldBy(stack[n - 1])
      /\ HeldIn(-(n - 1))' = HeldBy(stack'[n - 1])
  BY <1>2, <1>4, FrameStays
<1>7. -n \in Places /\ -(n - 1) \in Places /\ HeldIn(-n) = HeldBy(stack[n])
  BY <1>2, AfterTypes, PlacesAre DEF InStack
<1>8. Goes(-n, -(n - 1))
  <2>1. /\ stack[n - 1].start \in Nat \ {0} /\ stack[n].start \in Nat \ {0}
    BY <1>2, StackIn DEF Ready, Before
  <2>2. stack[n - 1].start < stack[n].start
    <3>1. n \in (n - 1) + 1 .. n
      BY <1>2
    <3> QED
      BY <1>2, <3>1 DEF Ready, Before, Mirrors
  <2>3. stack'[n - 1].kind \notin Structural /\ stack[n].kind \notin Structural
    BY <1>1, <1>2, <1>4 DEF Structural
  <2>4. HeldBy(stack[n]) \subseteq HeldBy(stack'[n - 1])
    BY <1>4
  <2>5. stack'[n - 1].start \in Nat \ {0} /\ stack'[n - 1].start <= stack[n].start
    BY <1>4, <2>1, <2>2
  <2> QED
    BY <1>2, <1>4, <2>3, <2>4, <2>5, FrameGoes
<1>9. \A k \in 1 .. m : Goes(k, k) /\ HeldIn(k)' = HeldIn(k) /\ k \in Places
  <2>1. \A k \in 1 .. m : k \in Places
    BY <1>3, AfterTypes, PlacesAre
  <2> QED
    BY <1>1, <1>3, <2>1, BlocksStay DEF Settled
<1>10. Goes(0, 0) /\ HeldIn(0)' = HeldIn(0) /\ 0 \in Places
  BY <1>1, RunStays, AfterTypes, PlacesAre DEF Settled
<1>11. \A k \in Places : Goes(k, r[k])
  <2> TAKE k \in Places
  <2>1. \/ k = 0 /\ k # -n
        \/ k \in 1 .. m /\ k # -n
        \/ k = -n
        \/ k = -(n - 1) /\ k # -n
        \/ -k \in 1 .. n - 2 /\ k = -(-k) /\ k # -n
    <3>1. k \in (-n) .. m
      BY <1>2, <1>3 DEF Places
    <3> QED
      BY <1>2, <1>3, <3>1
  <2> QED
    BY <1>5, <1>6, <1>8, <1>9, <1>10, <2>1
<1>12. ASSUME NEW l \in Places', NEW x \in HeldIn(l)'
      PROVE  \E k \in Places : r[k] = l /\ x \in HeldIn(k)
  <2>1. \/ l = 0 /\ l # -n
        \/ l \in 1 .. m /\ l # -n
        \/ l = -(n - 1)
        \/ -l \in 1 .. n - 2 /\ l = -(-l) /\ l # -n
    <3>1. l \in (-(n - 1)) .. m
      BY <1>2, <1>3, <1>4 DEF Places
    <3> QED
      BY <1>2, <1>3, <3>1
  <2>2. CASE l = -(n - 1)
    <3>1. x \in HeldIn(-(n - 1)) \/ x \in HeldIn(-n)
      BY <1>4, <1>6, <1>7, <1>12, <2>2
    <3>2. -(n - 1) # -n
      BY <1>2
    <3>3. r[-(n - 1)] = -(n - 1) /\ r[-n] = -(n - 1)
      BY <1>7, <3>2
    <3> QED
      BY <1>7, <2>2, <3>1, <3>3
  <2> QED
    BY <1>5, <1>9, <1>10, <1>12, <2>1, <2>2
<1>13. PICK f : f = r
  OBVIOUS
<1>14. (\A k \in Places : Goes(k, f[k])) /\ f[0] = 0
  <2>1. 0 # -n
    BY <1>2
  <2> QED
    BY <1>10, <1>11, <1>13, <2>1
<1>15. \A l \in Places' : \A x \in HeldIn(l)' : \E k \in Places : f[k] = l /\ x \in HeldIn(k)
  BY <1>12, <1>13
<1>16. Carried(f, {})
  BY <1>14, <1>15 DEF Carried
<1> QED
  BY <1>14, <1>16

(* The element on top takes in the new piece. *)
LEMMA CarriesPiece ==
    ASSUME Ready, SaysOn
    PROVE  /\ Len(stack) \in 1 .. Len(stack) /\ -Len(stack) \in Places' /\ -Len(stack) < 0
           /\ \E r : Carried(r, {-Len(stack)}) /\ r[0] = 0
<1>1. Added /\ Settled /\ stack # << >>
  BY DEF SaysOn, Added
<1>2. PICK n \in Nat \ {0} : n = Len(stack) /\ n \in 1 .. n
  BY <1>1, TopIs DEF Ready, Before
<1>3. PICK m \in Nat : m = Len(converted) /\ m = Len(converted')
  BY <1>1, AfterTypes DEF Settled
<1> DEFINE r == [k \in Places |-> k]
<1>4. /\ Len(stack') = n /\ \A i \in 1 .. n : stack'[i].kind = stack[i].kind /\ stack'[i].start = stack[i].start
      /\ \A i \in 1 .. n - 1 : stack'[i] = stack[i]
      /\ HeldBy(stack'[n]) = HeldBy(stack[n]) \cup {offset}
  BY <1>1, <1>2 DEF Added, Frames, Remains
<1>5. ASSUME NEW i \in 1 .. n
      PROVE  /\ Goes(-i, -i) /\ -i \in Places
             /\ HeldIn(-i)' = HeldIn(-i) \cup (IF i = n THEN {offset} ELSE {})
  <2>1. i \in 1 .. Len(stack) /\ i \in 1 .. Len(stack')
    BY <1>2, <1>4
  <2>2. HeldBy(stack'[i]) = HeldBy(stack[i]) \cup (IF i = n THEN {offset} ELSE {})
    <3>1. i = n \/ i \in 1 .. n - 1
      OBVIOUS
    <3>2. i # n => stack'[i] = stack[i]
      BY <1>4, <3>1
    <3> QED
      BY <1>4, <3>2
  <2>3. stack'[i].kind = stack[i].kind /\ stack'[i].start = stack[i].start
    BY <1>4
  <2>4. HeldBy(stack[i]) \subseteq HeldBy(stack'[i])
    BY <2>2
  <2>5. Goes(-i, -i) /\ HeldIn(-i) = HeldBy(stack[i]) /\ HeldIn(-i)' = HeldBy(stack'[i])
    BY <2>1, <2>3, <2>4, FrameStays
  <2>6. -i \in Places
    BY <2>1, AfterTypes, PlacesAre
  <2> QED
    BY <2>2, <2>5, <2>6
<1>6. \A k \in 1 .. m : Goes(k, k) /\ HeldIn(k)' = HeldIn(k) /\ k \in Places
  <2>1. \A k \in 1 .. m : k \in Places
    BY <1>3, AfterTypes, PlacesAre
  <2> QED
    BY <1>1, <1>3, <2>1, BlocksStay DEF Settled
<1>7. Goes(0, 0) /\ HeldIn(0)' = HeldIn(0) /\ 0 \in Places
  BY <1>1, RunStays, AfterTypes, PlacesAre DEF Settled
<1>8. \A k \in Places : Goes(k, r[k])
  <2> TAKE k \in Places
  <2>1. \/ k = 0
        \/ k \in 1 .. m
        \/ -k \in 1 .. n /\ k = -(-k)
    <3>1. k \in (-n) .. m
      BY <1>2, <1>3 DEF Places
    <3> QED
      BY <1>2, <1>3, <3>1
  <2> QED
    BY <1>5, <1>6, <1>7, <2>1
<1>9. ASSUME NEW l \in Places', NEW x \in HeldIn(l)'
      PROVE  (x = offset /\ l = -n) \/ \E k \in Places : r[k] = l /\ x \in HeldIn(k)
  <2>1. \/ l = 0
        \/ l \in 1 .. m
        \/ -l \in 1 .. n /\ l = -(-l)
    <3>1. l \in (-n) .. m
      BY <1>3, <1>4 DEF Places
    <3> QED
      BY <1>2, <1>3, <3>1
  <2>2. CASE -l \in 1 .. n /\ l = -(-l)
    <3>1. PICK i \in 1 .. n : i = -l /\ l = -i
      BY <2>2
    <3>2. HeldIn(l)' = HeldIn(l) \cup (IF i = n THEN {offset} ELSE {}) /\ l \in Places
      BY <1>5, <3>1
    <3> QED
      BY <1>9, <3>1, <3>2
  <2> QED
    BY <1>6, <1>7, <1>9, <2>1, <2>2
<1>10. -n \in Places' /\ offset \in HeldIn(-n)' /\ -n < 0
  <2>1. -n \in Places' /\ -n < 0
    BY <1>2, <1>4, AfterTypes, PlacesAfter
  <2> QED
    BY <1>2, <1>5, <2>1
<1>11. PICK f : f = r
  OBVIOUS
<1>12. (\A k \in Places : Goes(k, f[k])) /\ f[0] = 0
  BY <1>7, <1>8, <1>11
<1>13. \A l \in Places' : \A x \in HeldIn(l)' : (x = offset /\ l \in {-n}) \/ \E k \in Places : f[k] = l /\ x \in HeldIn(k)
  BY <1>9, <1>11
<1>14. \A l \in {-n} : l \in Places' /\ l <= 0 /\ offset \in HeldIn(l)'
  BY <1>2, <1>10
<1>15. Carried(f, {-n})
  BY <1>12, <1>13, <1>14 DEF Carried
<1> QED
  BY <1>2, <1>10, <1>12, <1>15

(* The stack and the fragment join the run. *)
LEMMA CarriesFragment ==
    ASSUME Ready, Fragment
    PROVE  /\ \E r : Carried(r, {0}) /\ r[0] = 0
           /\ StartOf(0)' \in 1 .. offset
<1>1. /\ stack' = << >> /\ converted' = converted
      /\ \A i \in 1 .. Len(stack) : stack[i].kind \in {"quote", "list"}
      /\ Gathers(accum, accum', FromTop(1) \cup {offset}, StartsFrom(1) \cup {offset})
  BY DEF Fragment
<1>2. PICK n \in Nat : n = Len(stack)
  BY AfterTypes
<1>3. PICK m \in Nat : m = Len(converted) /\ m = Len(converted')
  BY <1>1, AfterTypes
<1> DEFINE r == [k \in Places |-> IF k < 0 THEN 0 ELSE k]
<1>4. \A k \in 1 .. m : Goes(k, k) /\ HeldIn(k)' = HeldIn(k) /\ k \in Places /\ ~(k < 0)
  <2>1. \A k \in 1 .. m : k \in Places /\ ~(k < 0)
    BY <1>3, AfterTypes, PlacesAre
  <2> QED
    BY <1>1, <1>3, <2>1, BlocksStay
<1>5. 0 \in Places /\ 0 \in Places'
  BY AfterTypes, PlacesAre, PlacesAfter
<1>6. /\ HeldIn(0)' = HeldIn(0) \cup (FromTop(1) \cup {offset}) /\ Goes(0, 0)
      /\ \A x \in (FromTop(1) \cup {offset}) \cap Nat : StartOf(0)' \in 1 .. x
  BY <1>1, RunGathers
<1>7. offset \in Nat
  BY AfterTypes
<1>8. ASSUME NEW i \in 1 .. n
      PROVE  /\ -i \in Places /\ -i < 0 /\ -i # 0 /\ HeldIn(-i) = HeldBy(stack[i]) /\ HomeOf(-i) = 0
             /\ HeldIn(-i) \subseteq FromTop(1)
  <2>1. -i \in Places /\ -i < 0 /\ -i # 0 /\ HeldIn(-i) = InStack(i)
    BY <1>2, AfterTypes, PlacesAre
  <2>2. HomeOf(-i) = 0
    <3>1. stack[i].kind \notin Structural
      BY <1>1, <1>2 DEF Structural
    <3> QED
      BY <1>2, <3>1, HomesAre
  <2>3. HeldBy(stack[i]) \subseteq FromTop(1)
    BY <1>2 DEF FromTop
  <2> QED
    BY <2>1, <2>2, <2>3 DEF InStack
<1>9. ASSUME NEW i \in 1 .. n
      PROVE  Goes(-i, 0)
  <2>1. HeldIn(-i) \subseteq HeldIn(0)'
    BY <1>6, <1>8
  <2>2. \A x \in HeldIn(-i) : StartOf(0)' \in 1 .. x
    <3>1. \A x \in HeldIn(-i) : x \in Nat
      BY <1>8 DEF Ready
    <3> QED
      BY <1>6, <1>8, <3>1
  <2>3. HomeOf(0)' = 0 /\ HomeOf(-i) = 0
    BY <1>8, HomesAre
  <2>4. ~(-i > 0) /\ -i # 0
    BY <1>2
  <2> QED
    BY <1>5, <2>1, <2>2, <2>3, <2>4 DEF Goes
<1>10. \A k \in Places : Goes(k, r[k])
  <2> TAKE k \in Places
  <2>1. \/ k = 0
        \/ k \in 1 .. m /\ ~(k < 0)
        \/ -k \in 1 .. n /\ k = -(-k) /\ k < 0
    <3>1. k \in (-n) .. m
      BY <1>2, <1>3 DEF Places
    <3> QED
      BY <1>2, <1>3, <3>1
  <2> QED
    BY <1>4, <1>6, <1>9, <2>1
<1>11. ASSUME NEW l \in Places', NEW x \in HeldIn(l)'
       PROVE  (x = offset /\ l = 0) \/ \E k \in Places : r[k] = l /\ x \in HeldIn(k)
  <2>1. l = 0 \/ (l \in 1 .. m /\ ~(l < 0))
    <3>1. Len(stack') = 0
      BY <1>1
    <3>2. l \in (-0) .. m
      BY <1>3, <3>1 DEF Places
    <3> QED
      BY <1>3, <3>2
  <2>2. CASE l = 0
    <3>1. CASE x \in HeldIn(0)
      BY <1>5, <2>2, <3>1
    <3>2. CASE x \in FromTop(1)
      <4>1. PICK i \in 1 .. n : x \in HeldBy(stack[i])
        BY <1>2, <3>2 DEF FromTop
      <4> QED
        BY <1>8, <2>2, <4>1
    <3> QED
      BY <1>6, <1>11, <2>2, <3>1, <3>2
  <2> QED
    BY <1>4, <1>11, <2>1, <2>2
<1>12. offset \in HeldIn(0)' /\ StartOf(0)' \in 1 .. offset
  BY <1>6, <1>7
<1>13. PICK f : f = r
  OBVIOUS
<1>14. (\A k \in Places : Goes(k, f[k])) /\ f[0] = 0
  BY <1>5, <1>10, <1>13
<1>15. \A l \in Places' : \A x \in HeldIn(l)' : (x = offset /\ l \in {0}) \/ \E k \in Places : f[k] = l /\ x \in HeldIn(k)
  BY <1>11, <1>13
<1>16. \A l \in {0} : l \in Places' /\ l <= 0 /\ offset \in HeldIn(l)'
  BY <1>5, <1>12
<1>17. Carried(f, {0})
  BY <1>14, <1>15, <1>16 DEF Carried
<1> QED
  BY <1>12, <1>14, <1>17

(* What a structural element that is open is to the stack. *)
LEMMA StructureOnStack ==
    ASSUME MarkdownTypeOK, Nested, Mirrors, NEW j \in 1 .. Len(open), open[j].tag \in Structural
    PROVE  \E k \in 1 .. Len(stack) : stack[k].start = open[j].at /\ stack[k].kind = open[j].tag
<1>1. open[j].tag \in Handled /\ open[j].tag \notin Flowing
  BY DEF Handled, Structural, Flowing
<1>2. open[j].at > seen.fragment
  BY <1>1 DEF Nested
<1>3. PICK k \in 1 .. Len(stack) : stack[k].start = open[j].at
  BY <1>1, <1>2 DEF Mirrors
<1>4. PICK i \in 1 .. Len(open) : open[i].tag = stack[k].kind /\ open[i].at = stack[k].start
  BY DEF Mirrors
<1>5. i = j
  <2>1. Len(open) \in Nat /\ \A h \in 1 .. Len(open) : open[h] \in Elements
    BY DEF MarkdownTypeOK
  <2>2. open[i].at \in Nat /\ open[j].at \in Nat
    BY <2>1 DEF Elements
  <2>3. i < j => j \in i + 1 .. Len(open)
    BY <2>1
  <2>4. j < i => i \in j + 1 .. Len(open)
    BY <2>1
  <2>5. (i < j => open[i].at < open[j].at) /\ (j < i => open[j].at < open[i].at)
    BY <2>3, <2>4 DEF Nested
  <2> QED
    BY <1>3, <1>4, <2>2, <2>5
<1> QED
  BY <1>3, <1>4, <1>5

(* A piece is at home in the element on top, if that is structural. *)
LEMMA TopIsHome ==
    ASSUME MarkdownTypeOK, Nested, Mirrors, stack # << >>
    PROVE  Highest(Around(Structural)) = IF stack[Len(stack)].kind \in Structural THEN stack[Len(stack)].start ELSE 0
<1>1. PICK n \in Nat \ {0} : n = Len(stack) /\ n \in 1 .. n
  BY TopIs
<1>2. PICK h : h = Highest(Around(Structural))
  OBVIOUS
<1>3. \/ h = 0 /\ \A i \in 1 .. Len(open) : open[i].tag \notin Structural
      \/ /\ h \in Around(Structural) /\ h \in 1 .. offset - 1
         /\ \A i \in 1 .. Len(open) : open[i].tag \in Structural => open[i].at <= h
  BY <1>2, HomeIs
<1>4. \A k \in 1 .. n : stack[k].start \in Nat \ {0}
  BY <1>1, StackIn
<1>5. PICK j \in 1 .. Len(open) : open[j].tag = stack[n].kind /\ open[j].at = stack[n].start
  BY <1>1 DEF Mirrors
<1>6. CASE stack[n].kind \in Structural
  <2>1. h \in Around(Structural) /\ stack[n].start <= h /\ h \in Nat
    BY <1>3, <1>5, <1>6
  <2>2. DOMAIN open = 1 .. Len(open)
    BY DEF MarkdownTypeOK
  <2>3. PICK i \in 1 .. Len(open) : open[i].tag \in Structural /\ open[i].at = h
    BY <2>1, <2>2 DEF Around
  <2>4. PICK k \in 1 .. n : stack[k].start = h
    BY <1>1, <2>3, StructureOnStack
  <2>5. k # n => stack[k].start < stack[n].start
    <3>1. k # n => n \in k + 1 .. n
      OBVIOUS
    <3> QED
      BY <1>1, <3>1 DEF Mirrors
  <2>6. h = stack[n].start
    BY <1>1, <1>4, <2>1, <2>4, <2>5
  <2> QED
    BY <1>1, <1>2, <1>6, <2>6
<1>7. CASE stack[n].kind \notin Structural
  <2>1. \A i \in 1 .. Len(open) : open[i].tag \notin Structural
    <3> SUFFICES ASSUME NEW i \in 1 .. Len(open), open[i].tag \in Structural
                 PROVE  FALSE
      OBVIOUS
    <3>1. PICK k \in 1 .. n : stack[k].kind = open[i].tag
      BY <1>1, StructureOnStack
    <3>2. k # n
      BY <1>7, <3>1
    <3>3. k < n
      BY <3>2
    <3>4. stack[k].kind \notin Flowing
      BY <3>1 DEF Structural, Flowing
    <3>5. stack[n].kind = "image"
      BY <1>1, <3>3, <3>4, OnlyImagesAbove
    <3> QED
      BY <1>7, <3>5 DEF Structural
  <2>2. h = 0
    <3>1. h \in Around(Structural) => \E i \in 1 .. Len(open) : open[i].tag \in Structural
      <4>1. DOMAIN open = 1 .. Len(open)
        BY DEF MarkdownTypeOK
      <4> QED
        BY <4>1 DEF Around
    <3> QED
      BY <1>3, <2>1, <3>1
  <2> QED
    BY <1>1, <1>2, <1>7, <2>2
<1> QED
  BY <1>6, <1>7

(* Between blocks there is no structural element. *)
LEMMA FlowIsNoHome ==
    ASSUME Before, Inner \in Within["html"]
    PROVE  Highest(Around(Structural)) = 0
<1>1. Inner \in {"document", "quote", "tight", "loose"}
  BY Grammar
<1>2. \A i \in 1 .. Len(open) : open[i].tag \notin Structural
  <2> SUFFICES ASSUME NEW i \in 1 .. Len(open), open[i].tag \in Structural
               PROVE  FALSE
    OBVIOUS
  <2>1. PICK k \in 1 .. Len(stack) : stack[k].kind = open[i].tag
    BY StructureOnStack DEF Before
  <2>2. stack[k].kind \in {"quote", "list"}
    BY OnlyFlowsAround
  <2> QED
    BY <2>1, <2>2 DEF Structural
<1>3. DOMAIN open = 1 .. Len(open)
  BY DEF Before, MarkdownTypeOK
<1>4. Around(Structural) = {}
  BY <1>2, <1>3 DEF Around
<1> QED
  BY <1>4 DEF Highest

(* A piece is adrift when the stack is empty. *)
LEMMA AdriftWithout ==
    ASSUME Before, stack = << >>
    PROVE  Piece.adrift
<1>1. MarkdownTypeOK /\ Nested /\ Mirrors /\ Len(stack) = 0 /\ DOMAIN open = 1 .. Len(open)
  BY DEF Before, MarkdownTypeOK
<1>2. \A j \in 1 .. Len(open) : open[j].tag \in Handled => open[j].at < seen.fragment
  <2> TAKE j \in 1 .. Len(open)
  <2>1. open[j].tag \in Handled => ~(open[j].at > seen.fragment)
    BY <1>1 DEF Mirrors
  <2>2. open[j].at # seen.fragment /\ open[j].at \in 1 .. offset - 1 /\ seen.fragment \in Nat /\ offset \in Nat
    BY <1>1 DEF Nested, MarkdownTypeOK, Histories
  <2> QED
    BY <2>1, <2>2
<1>3. \A a \in Around(Handled) : a < seen.fragment
  BY <1>1, <1>2 DEF Around
<1> QED
  BY <1>1, <1>3, PieceIs

(* The piece that is new is in the place in T, if there is one. *)
NewPieces(T) ==
    /\ T # {} => \E p \in seen'.pieces : p.at = offset
    /\ \A p \in seen'.pieces : p \in seen.pieces \/ p.adrift \/ T # {}
    /\ \A p \in seen'.pieces : p \in seen.pieces \/ \A l \in T : p.home = HomeOf(l)' /\ StartOf(l)' \in 1 .. offset

(* The run goes on, or it ends: with a bound, or with the document. *)
RunOn(r) == r[0] = 0 /\ seen'.bounds = seen.bounds /\ ~seen.ended /\ ~seen'.ended
RunEnds(r) ==
    /\ r[0] = Len(converted) + 1 /\ HeldIn(0)' = {} /\ seen'.pieces = seen.pieces
    /\ \/ seen'.bounds = seen.bounds \cup {[at |-> offset, unit |-> Outermost]} /\ ~seen.ended
       \/ seen'.bounds = seen.bounds /\ open = << >> /\ seen'.ended
Carries(T) == \E r : Carried(r, T) /\ (RunOn(r) \/ (T = {} /\ RunEnds(r)))

(* A move without a new piece. *)
LEMMA NoNewPieces ==
    ASSUME seen'.pieces = seen.pieces
    PROVE  NewPieces({})
BY DEF NewPieces

(* A move that leaves the run where it is. *)
LEMMA RunGoesOn ==
    ASSUME NEW T, \E r : Carried(r, T) /\ r[0] = 0, seen'.bounds = seen.bounds, ~seen.ended, ~seen'.ended
    PROVE  Carries(T)
<1>1. PICK r : Carried(r, T) /\ r[0] = 0
  OBVIOUS
<1>2. RunOn(r)
  BY <1>1 DEF RunOn
<1> QED
  BY <1>1, <1>2 DEF Carries

(* The starts. *)
LEMMA MoveCarriesStart ==
    ASSUME Ready, \/ \E tag \in Structural : StartsBlock(tag)
                  \/ \E tag \in Handled \ Structural : StartsText(tag)
                  \/ \E tag \in Tags \ Handled : Starts(tag) /\ Unmoved /\ Settled
    PROVE  Carries({}) /\ NewPieces({})
<1>1. PICK tag \in Tags : \/ tag \in Structural /\ StartsBlock(tag)
                          \/ tag \in Handled \ Structural /\ StartsText(tag)
                          \/ tag \in Tags \ Handled /\ Starts(tag) /\ Unmoved /\ Settled
  BY DEF Tags, Handled
<1>2. Starts(tag)
  BY <1>1 DEF StartsBlock, StartsText
<1>3. /\ ~seen.ended /\ seen'.ended = seen.ended /\ seen'.pieces = seen.pieces
      /\ seen'.bounds = (IF tag \in Structural THEN seen.bounds \cup {[at |-> offset, unit |-> Outermost]}
                        ELSE seen.bounds)
  BY <1>2, StartsOpens DEF Ready, Before
<1>4. NewPieces({})
  BY <1>3, NoNewPieces
<1>5. FramesStay
  <2>1. PICK n \in Nat : n = Len(stack)
    BY AfterTypes
  <2>2. CASE Grown(tag)
    <3>1. /\ Len(stack') = n + 1 /\ HeldBy(stack'[n + 1]) = {}
          /\ \A i \in 1 .. n : stack'[i] = stack[i]
      BY <2>1, <2>2 DEF Grown, Remains
    <3>2. \A i \in n + 1 .. n + 1 : i = n + 1
      OBVIOUS
    <3>3. n + 1 >= n
      OBVIOUS
    <3>4. \A i \in n + 1 .. n + 1 : HeldBy(stack'[i]) = {}
      BY <3>1, <3>2
    <3>5. /\ \A i \in 1 .. n : stack'[i].kind = stack[i].kind /\ stack'[i].start = stack[i].start
          /\ \A i \in 1 .. n : HeldBy(stack'[i]) = HeldBy(stack[i])
      BY <3>1
    <3> QED
      BY <2>1, <3>1, <3>3, <3>4, <3>5 DEF FramesStay, Frames
  <2>3. CASE Unmoved
    <3>1. Len(stack') = n /\ Frames(n) /\ \A i \in 1 .. n : HeldBy(stack'[i]) = HeldBy(stack[i])
      BY <2>1, <2>3 DEF Unmoved
    <3>2. n >= n /\ \A i \in n + 1 .. n : FALSE
      OBVIOUS
    <3> QED
      BY <2>1, <3>1, <3>2 DEF FramesStay
  <2> QED
    BY <1>1, <2>2, <2>3 DEF StartsBlock, StartsText
<1>6. CASE tag \in Structural
  <2>1. Flushed
    BY <1>1, <1>6 DEF StartsBlock, Handled
  <2>2. PICK r : Carried(r, {}) /\ r[0] = Len(converted) + 1
    BY <1>5, <2>1, CarriesFlush
  <2>3. HeldIn(0)' = {}
    BY <1>5, <2>1, CarriesFlush
  <2>4. RunEnds(r)
    BY <1>3, <1>6, <2>2, <2>3 DEF RunEnds
  <2> QED
    BY <1>4, <2>2, <2>4 DEF Carries
<1>7. CASE tag \notin Structural
  <2>1. Settled
    BY <1>1, <1>7 DEF StartsText
  <2>2. \E r : Carried(r, {}) /\ r[0] = 0
    BY <1>5, <2>1, CarriesStill
  <2> QED
    BY <1>3, <1>4, <1>7, <2>2, RunGoesOn
<1> QED
  BY <1>6, <1>7

(* A stack that keeps its elements. *)
LEMMA StayPut ==
    ASSUME Ready, Len(stack') = Len(stack), Frames(Len(stack)),
           \A i \in 1 .. Len(stack) : HeldBy(stack'[i]) = HeldBy(stack[i])
    PROVE  FramesStay
<1>1. PICK n \in Nat : n = Len(stack)
  BY AfterTypes
<1>2. n >= n /\ \A i \in n + 1 .. n : FALSE
  OBVIOUS
<1> QED
  BY <1>1, <1>2 DEF FramesStay

(* The ends. *)
LEMMA MoveCarriesEnd ==
    ASSUME Ready, Finished,
           \/ \E tag \in Structural : EndsBlock(tag)
           \/ \E tag \in Handled \ Structural : EndsText(tag)
           \/ EndsBelow
           \/ \E tag \in {"quote", "list"} : EndsClosed(tag)
           \/ \E tag \in Tags \ Handled : Ends(tag) /\ Unmoved /\ Settled
    PROVE  Carries({}) /\ NewPieces({})
<1>1. PICK tag \in Tags : Ends(tag)
  <2>1. Structural \subseteq Tags /\ Handled \subseteq Tags /\ {"quote", "list", "paragraph"} \subseteq Tags
    BY DEF Tags, Handled, Structural
  <2> QED
    BY <2>1 DEF EndsBlock, EndsText, EndsBelow, EndsClosed, EndsTop
<1>2. open # << >> /\ seen' = seen
  BY <1>1, EndsCloses DEF Ready, Before
<1>3. ~seen.ended
  BY <1>2 DEF Finished
<1>4. NewPieces({})
  BY <1>2, NoNewPieces
<1>5. \E r : Carried(r, {}) /\ r[0] = 0
  <2>1. CASE \E t \in Structural : EndsBlock(t)
    BY <2>1, CarriesBlock
  <2>2. CASE \E t \in Handled \ Structural : EndsText(t)
    BY <2>2, CarriesText
  <2>3. CASE EndsBelow
    BY <2>3, CarriesBelow
  <2>4. CASE \E t \in {"quote", "list"} : EndsClosed(t)
    <3>1. stack' = stack /\ Settled
      BY <2>4 DEF EndsClosed
    <3>2. FramesStay
      BY <3>1, StayPut DEF Frames
    <3> QED
      BY <3>1, <3>2, CarriesStill
  <2>5. CASE Unmoved /\ Settled
    <3>1. FramesStay
      BY <2>5, StayPut DEF Unmoved
    <3> QED
      BY <2>5, <3>1, CarriesStill
  <2> QED
    BY <2>1, <2>2, <2>3, <2>4, <2>5
<1> QED
  BY <1>2, <1>3, <1>4, <1>5, RunGoesOn

(* A text in an element. *)
LEMMA MoveCarriesPiece ==
    ASSUME Ready, SaysOn
    PROVE  \E T : Carries(T) /\ NewPieces(T)
<1>1. MarkdownTypeOK /\ Nested /\ Mirrors /\ seen \in Histories
  BY DEF Ready, Before, MarkdownTypeOK
<1>2. Says /\ Added /\ stack # << >>
  BY DEF SaysOn, Added
<1>3. PICK n \in Nat \ {0} : n = Len(stack) /\ n \in 1 .. n
  BY <1>1, <1>2, TopIs
<1>4. PICK p : p = Piece
  OBVIOUS
<1>5. seen' = [seen EXCEPT !.pieces = @ \cup {p}] /\ ~seen.ended
  BY <1>2, <1>4 DEF Says
<1>6. seen'.pieces = seen.pieces \cup {p} /\ seen'.bounds = seen.bounds /\ ~seen'.ended
  BY <1>1, <1>5 DEF Histories
<1>7. p.at = offset /\ p.home = IF stack[n].kind \in Structural THEN stack[n].start ELSE 0
  BY <1>1, <1>2, <1>3, <1>4, PieceIs, TopIsHome
<1>8. HomeOf(-n)' = p.home /\ StartOf(-n)' = stack[n].start
  <2>1. n \in 1 .. Len(stack') /\ stack'[n].kind = stack[n].kind /\ stack'[n].start = stack[n].start
    BY <1>2, <1>3 DEF Added, Frames
  <2>2. HomeOf(-n)' = IF stack'[n].kind \in Structural THEN stack'[n].start ELSE 0
    BY <2>1, HomesAre
  <2>3. StartOf(-n)' = stack'[n].start
    BY <2>1, AfterTypes, PlacesAfter
  <2> QED
    BY <1>7, <2>1, <2>2, <2>3
<1>9. stack[n].start \in 1 .. offset
  <2>1. stack[n].start \in 1 .. offset - 1 /\ offset \in Nat
    BY <1>1, <1>3, StackIn, AfterTypes
  <2> QED
    BY <2>1
<1>10. NewPieces({-n})
  <2>1. \A q \in seen'.pieces : q \in seen.pieces \/ q = p
    BY <1>6
  <2>2. p \in seen'.pieces
    BY <1>6
  <2>3. \A l \in {-n} : p.home = HomeOf(l)' /\ StartOf(l)' \in 1 .. offset
    BY <1>8, <1>9
  <2> QED
    BY <1>7, <2>1, <2>2, <2>3 DEF NewPieces
<1>11. Carries({-n})
  <2>1. \E r : Carried(r, {-n}) /\ r[0] = 0
    BY <1>3, CarriesPiece
  <2> QED
    BY <1>5, <1>6, <2>1, RunGoesOn
<1> QED
  BY <1>10, <1>11

(* A text without one. *)
LEMMA MoveCarriesLost ==
    ASSUME Ready, SaysLost
    PROVE  Carries({}) /\ NewPieces({})
<1>1. MarkdownTypeOK /\ Nested /\ Mirrors /\ seen \in Histories
  BY DEF Ready, Before, MarkdownTypeOK
<1>2. Says /\ stack = << >> /\ stack' = stack /\ Settled
  BY DEF SaysLost
<1>3. PICK p : p = Piece
  OBVIOUS
<1>4. seen' = [seen EXCEPT !.pieces = @ \cup {p}] /\ ~seen.ended
  BY <1>2, <1>3 DEF Says
<1>5. seen'.pieces = seen.pieces \cup {p} /\ seen'.bounds = seen.bounds /\ ~seen'.ended
  BY <1>1, <1>4 DEF Histories
<1>6. p.adrift
  BY <1>2, <1>3, AdriftWithout DEF Ready
<1>7. NewPieces({})
  BY <1>5, <1>6 DEF NewPieces
<1>8. FramesStay
  BY <1>2, StayPut DEF Frames
<1>9. \E r : Carried(r, {}) /\ r[0] = 0
  BY <1>2, <1>8, CarriesStill
<1> QED
  BY <1>4, <1>5, <1>7, <1>9, RunGoesOn

(* An HTML fragment. *)
LEMMA MoveCarriesFragment ==
    ASSUME Ready, Fragment
    PROVE  Carries({0}) /\ NewPieces({0})
<1>1. MarkdownTypeOK /\ Nested /\ Mirrors /\ seen \in Histories
  BY DEF Ready, Before, MarkdownTypeOK
<1>2. PICK p : p = [Piece EXCEPT !.adrift = FALSE]
  OBVIOUS
<1>3. seen' = [seen EXCEPT !.fragment = offset, !.pieces = @ \cup {p}] /\ ~seen.ended /\ Inner \in Within["html"]
  BY <1>2 DEF Fragment
<1>4. seen'.pieces = seen.pieces \cup {p} /\ seen'.bounds = seen.bounds /\ ~seen'.ended
  BY <1>1, <1>3 DEF Histories
<1>5. p.at = offset /\ p.home = 0
  BY <1>1, <1>2, <1>3, PieceIs, FlowIsNoHome DEF Ready
<1>6. StartOf(0)' \in 1 .. offset /\ \E r : Carried(r, {0}) /\ r[0] = 0
  BY CarriesFragment
<1>7. HomeOf(0)' = 0
  BY HomesAre
<1>8. NewPieces({0})
  <2>1. \A q \in seen'.pieces : q \in seen.pieces \/ q = p
    BY <1>4
  <2>2. p \in seen'.pieces
    BY <1>4
  <2> QED
    BY <1>5, <1>6, <1>7, <2>1, <2>2 DEF NewPieces
<1>9. Carries({0})
  BY <1>3, <1>4, <1>6, RunGoesOn
<1> QED
  BY <1>8, <1>9

(* The end of the document. *)
LEMMA MoveCarriesStop ==
    ASSUME Ready, Stops
    PROVE  Carries({}) /\ NewPieces({})
<1>1. seen \in Histories
  BY DEF Ready, Before, MarkdownTypeOK
<1>2. /\ ~seen.ended /\ open = << >> /\ Flushed /\ seen' = [seen EXCEPT !.ended = TRUE] /\ stack' = stack
  BY DEF Stops
<1>3. seen'.pieces = seen.pieces /\ seen'.bounds = seen.bounds /\ seen'.ended
  BY <1>1, <1>2 DEF Histories
<1>4. FramesStay
  BY <1>2, StayPut DEF Frames
<1>5. PICK r : Carried(r, {}) /\ r[0] = Len(converted) + 1
  BY <1>2, <1>4, CarriesFlush
<1>6. HeldIn(0)' = {}
  BY <1>2, <1>4, CarriesFlush
<1>7. RunEnds(r)
  BY <1>2, <1>3, <1>5, <1>6 DEF RunEnds
<1> QED
  BY <1>3, <1>5, <1>7, NoNewPieces DEF Carries

(* Every move takes what there is to one place each, and a new piece to *)
(* one.                                                                 *)
LEMMA MoveCarries ==
    ASSUME Ready, Finished
    PROVE  \E T : Carries(T) /\ NewPieces(T)
<1>1. Move
  BY DEF Ready
<1>2. CASE \/ \E tag \in Structural : StartsBlock(tag)
           \/ \E tag \in Handled \ Structural : StartsText(tag)
           \/ \E tag \in Tags \ Handled : Starts(tag) /\ Unmoved /\ Settled
  BY <1>2, MoveCarriesStart
<1>3. CASE \/ \E tag \in Structural : EndsBlock(tag)
           \/ \E tag \in Handled \ Structural : EndsText(tag)
           \/ EndsBelow
           \/ \E tag \in {"quote", "list"} : EndsClosed(tag)
           \/ \E tag \in Tags \ Handled : Ends(tag) /\ Unmoved /\ Settled
  BY <1>3, MoveCarriesEnd
<1>4. CASE SaysOn \/ SaysLost \/ Fragment \/ Stops
  BY <1>4, MoveCarriesPiece, MoveCarriesLost, MoveCarriesFragment, MoveCarriesStop
<1> QED
  BY <1>1, <1>2, <1>3, <1>4 DEF Move, Passes

(* The piece p, in place l after the move, was in place k before. *)
WasIn(p, k, l, r) ==
    /\ p \in seen.pieces /\ p.at < offset
    /\ k \in Places /\ p.at \in HeldIn(k) /\ r[k] = l /\ Goes(k, l)
    /\ p.home = HomeOf(k) /\ (k < 0 => open # << >> /\ p.unit = open[1].at)
    /\ p.home = 0 => IsRun(k)

(* A piece was in a place before, or is new. *)
LEMMA PieceWas ==
    ASSUME Ready, Ordered, Placed, NEW r, NEW T, Carried(r, T),
           NEW p \in seen'.pieces, NEW l \in Places', p.at \in HeldIn(l)'
    PROVE  \/ p.at = offset /\ l \in T /\ p \notin seen.pieces
           \/ \E k \in Places : WasIn(p, k, l, r)
<1>1. p \in seen.pieces \/ p.at = offset
  BY EventsAdded DEF Adds, Ready
<1>2. \A q \in seen.pieces : q.at < offset
  <2> TAKE q \in seen.pieces
  <2>1. q.at \in 1 .. offset - 1 /\ offset \in Nat
    BY AfterTypes DEF Ordered
  <2> QED
    BY <2>1
<1>3. offset \in Nat
  BY AfterTypes
<1>4. CASE p.at = offset /\ l \in T
  BY <1>2, <1>3, <1>4
<1>5. CASE \E k \in Places : r[k] = l /\ p.at \in HeldIn(k)
  <2>1. PICK k \in Places : r[k] = l /\ p.at \in HeldIn(k)
    BY <1>5
  <2>2. p.at < offset
    BY <2>1 DEF Ready
  <2>3. p \in seen.pieces
    BY <1>1, <1>3, <2>2
  <2>4. Goes(k, l)
    BY <2>1 DEF Carried
  <2>5. p.home = HomeOf(k) /\ StartOf(k) \in 1 .. p.at /\ (k < 0 => open # << >> /\ p.unit = open[1].at)
    BY <2>1, <2>3 DEF Placed
  <2>6. p.home = 0 => IsRun(k)
    <3>1. StartOf(k) # 0
      BY <2>5
    <3> QED
      BY <2>5, <3>1 DEF HomeOf
  <2> QED
    BY <2>1, <2>2, <2>3, <2>4, <2>5, <2>6 DEF WasIn
<1> QED
  BY <1>4, <1>5 DEF Carried

(* No piece is in two places. *)
LEMMA ApartStep ==
    ASSUME Ready, NEW r, NEW T, Carried(r, T)
    PROVE  Apart'
<1> SUFFICES ASSUME NEW k \in Places', NEW l \in Places', k # l, NEW x, x \in HeldIn(k)', x \in HeldIn(l)'
             PROVE  FALSE
  BY DEF Apart
<1>1. (x = offset /\ k \in T) \/ \E i \in Places : r[i] = k /\ x \in HeldIn(i)
  BY DEF Carried
<1>2. (x = offset /\ l \in T) \/ \E i \in Places : r[i] = l /\ x \in HeldIn(i)
  BY DEF Carried
<1>3. ~(k \in T /\ l \in T)
  BY DEF Carried
<1>4. \A i \in Places : x \in HeldIn(i) => x < offset /\ x \in Nat
  BY DEF Ready
<1>5. offset \in Nat
  BY AfterTypes
<1>6. \A i \in Places : x \in HeldIn(i) => x # offset
  BY <1>4, <1>5
<1>7. PICK i \in Places, j \in Places : r[i] = k /\ x \in HeldIn(i) /\ r[j] = l /\ x \in HeldIn(j)
  BY <1>1, <1>2, <1>3, <1>6
<1>8. i = j
  BY <1>7 DEF Ready, Apart
<1> QED
  BY <1>7, <1>8

(* Places hold pieces only, and every piece that is not adrift has one. *)
LEMMA AccountedStep ==
    ASSUME Ready, Accounted, Ordered, NEW r, NEW T, Carried(r, T), NewPieces(T)
    PROVE  Accounted'
<1>1. Adds
  BY EventsAdded DEF Ready
<1>2. ASSUME NEW l \in Places', NEW x \in HeldIn(l)'
      PROVE  \E p \in seen'.pieces : p.at = x
  <2>1. CASE x = offset /\ l \in T
    BY <2>1 DEF NewPieces
  <2>2. CASE \E k \in Places : r[k] = l /\ x \in HeldIn(k)
    BY <1>1, <2>2 DEF Accounted, Adds
  <2> QED
    BY <1>2, <2>1, <2>2 DEF Carried
<1>3. ASSUME NEW p \in seen'.pieces, ~p.adrift
      PROVE  \E l \in Places' : p.at \in HeldIn(l)'
  <2>1. CASE p \in seen.pieces
    <3>1. PICK k \in Places : p.at \in HeldIn(k)
      BY <1>3, <2>1 DEF Accounted
    <3>2. Goes(k, r[k])
      BY <3>1 DEF Carried
    <3> QED
      BY <3>1, <3>2 DEF Goes
  <2>2. CASE p \notin seen.pieces
    <3>1. PICK l \in T : TRUE
      BY <1>3, <2>2 DEF NewPieces
    <3>2. p.at = offset
      BY <1>1, <2>2 DEF Adds
    <3> QED
      BY <3>1, <3>2 DEF Carried
  <2> QED
    BY <2>1, <2>2
<1>4. ASSUME NEW p \in seen'.pieces, NEW q \in seen'.pieces, p.at = q.at
      PROVE  p = q
  <2>1. \A e \in seen.pieces : e.at # offset
    <3> TAKE e \in seen.pieces
    <3>1. e.at \in 1 .. offset - 1 /\ offset \in Nat
      BY AfterTypes DEF Ordered
    <3> QED
      BY <3>1
  <2>2. CASE p \in seen.pieces /\ q \in seen.pieces
    BY <1>4, <2>2 DEF Accounted
  <2>3. CASE p \notin seen.pieces /\ q \notin seen.pieces
    BY <1>1, <2>3 DEF Adds
  <2>4. ~(p \in seen.pieces /\ q \notin seen.pieces) /\ ~(q \in seen.pieces /\ p \notin seen.pieces)
    BY <1>1, <1>4, <2>1 DEF Adds
  <2> QED
    BY <2>2, <2>3, <2>4
<1> QED
  BY <1>2, <1>3, <1>4 DEF Accounted

(* Where a piece is tells what it is in. *)
LEMMA PlacedStep ==
    ASSUME Ready, Ordered, Placed, Mirrors', NEW r, NEW T, Carried(r, T), NewPieces(T)
    PROVE  Placed'
<1>1. Adds
  BY EventsAdded DEF Ready
<1>2. offset \in Nat
  BY AfterTypes
<1>3. ASSUME NEW l \in Places', l < 0
      PROVE  open' # << >> /\ open'[1].at = Outermost
  <2>1. -l \in 1 .. Len(stack')
    BY <1>3, AfterTypes, PlacesAfter
  <2>2. PICK j \in 1 .. Len(open') : TRUE
    BY <2>1 DEF Mirrors
  <2>3. open' # << >>
    BY <2>2
  <2> QED
    BY <1>1, <2>3 DEF Adds
<1>4. ASSUME NEW p \in seen'.pieces, NEW l \in Places', p.at \in HeldIn(l)'
      PROVE  /\ p.home = HomeOf(l)' /\ StartOf(l)' \in 1 .. p.at
             /\ l < 0 => open' # << >> /\ p.unit = open'[1].at
  <2>1. CASE p.at = offset /\ l \in T /\ p \notin seen.pieces
    <3>1. p.home = HomeOf(l)' /\ StartOf(l)' \in 1 .. offset
      BY <2>1 DEF NewPieces
    <3>2. p.unit = Outermost
      <4>1. \A e \in seen.pieces \cup seen.bounds : e.at # offset
        <5> TAKE e \in seen.pieces \cup seen.bounds
        <5>1. e.at \in 1 .. offset - 1
          BY DEF Ordered
        <5> QED
          BY <1>2, <5>1
      <4> QED
        BY <1>1, <2>1, <4>1 DEF Adds
    <3> QED
      BY <1>3, <2>1, <3>1, <3>2
  <2>2. CASE \E k \in Places : WasIn(p, k, l, r)
    <3>1. PICK k \in Places : WasIn(p, k, l, r)
      BY <2>2
    <3>2. p.home = HomeOf(l)' /\ StartOf(l)' \in 1 .. p.at
      BY <3>1 DEF WasIn, Goes
    <3>3. l < 0 => open # << >> /\ p.unit = open[1].at
      BY <3>1 DEF WasIn, Goes
    <3>4. open # << >> => Outermost = open[1].at
      BY DEF Outermost
    <3> QED
      BY <1>3, <3>2, <3>3, <3>4
  <2> QED
    BY <1>4, <2>1, <2>2, PieceWas
<1> QED
  BY <1>4 DEF Placed

-----------------------------------------------------------------------------
(* Runs, and where they start. *)

(* Events before the next. *)
LEMMA EventsBefore ==
    ASSUME Ready, Ordered
    PROVE  /\ offset \in Nat
           /\ \A e \in seen.pieces \cup seen.bounds :
                 /\ e.at \in Nat /\ e.unit \in Nat /\ e.unit >= 1 /\ e.unit <= e.at /\ e.at < offset /\ e.at <= offset - 1
<1>1. offset \in Nat
  BY AfterTypes
<1> SUFFICES ASSUME NEW e \in seen.pieces \cup seen.bounds
             PROVE  /\ e.at \in Nat /\ e.unit \in Nat /\ e.unit >= 1 /\ e.unit <= e.at
                    /\ e.at < offset /\ e.at <= offset - 1
  BY <1>1
<1>2. e.at \in 1 .. offset - 1 /\ e.unit \in 1 .. e.at
  BY DEF Ordered
<1> QED
  BY <1>1, <1>2

(* What is split stays split. *)
LEMMA SplitStays ==
    ASSUME NEW p, NEW q, Split(p, q), seen.bounds \subseteq seen'.bounds
    PROVE  Split(p, q)'
BY DEF Split

(* The places of blocks. *)
LEMMA BlockPlaces ==
    ASSUME Ready
    PROVE  /\ \A k \in 1 .. Len(converted') : k \in Places' /\ k > 0 /\ ~(k <= 0) /\ k # 0
           /\ \A k \in Places : k > 0 => k \in 1 .. Len(converted)
           /\ \A k \in Places : k \in Int
           /\ \A k \in Places' : k \in Int
<1>1. \A k \in 1 .. Len(converted') : k \in Places' /\ k > 0 /\ ~(k <= 0) /\ k # 0
  BY AfterTypes, PlacesAfter
<1>2. \A k \in Places : k > 0 => k \in 1 .. Len(converted)
  <2> TAKE k \in Places
  <2>1. k \in (-Len(stack)) .. Len(converted)
    BY DEF Places
  <2> QED
    BY <2>1, AfterTypes
<1>3. \A k \in Places : k \in Int
  BY AfterTypes DEF Places
<1>4. \A k \in Places' : k \in Int
  BY AfterTypes DEF Places
<1> QED
  BY <1>1, <1>2, <1>3, <1>4

(* Where a piece of running text was. *)
LEMMA RunWas ==
    ASSUME Ready, Ordered, Placed, NEW r, NEW T, Carried(r, T), RunOn(r),
           NEW p \in seen'.pieces, p.home = 0, NEW l \in Places', p.at \in HeldIn(l)'
    PROVE  \/ p.at = offset /\ l \in T /\ l <= 0
           \/ /\ p \in seen.pieces /\ p.at < offset
              /\ \E k \in Places : p.at \in HeldIn(k) /\ r[k] = l /\ (k > 0 <=> l > 0) /\ (l > 0 => k = l)
<1>1. CASE p.at = offset /\ l \in T
  BY <1>1 DEF Carried
<1>2. CASE \E k \in Places : WasIn(p, k, l, r)
  <2>1. PICK k \in Places : WasIn(p, k, l, r)
    BY <1>2
  <2>2. p \in seen.pieces /\ p.at < offset /\ p.at \in HeldIn(k) /\ r[k] = l /\ IsRun(k)
    BY <2>1 DEF WasIn
  <2>3. (k > 0 => l = k) /\ (k < 0 => ~(l > 0))
    BY <2>1, <2>2 DEF WasIn, Goes
  <2>4. k = 0 => l = 0
    BY <2>2 DEF RunOn
  <2>5. k \in Int /\ l \in Int
    BY BlockPlaces
  <2>6. (k > 0 <=> l > 0) /\ (l > 0 => k = l)
    BY <2>3, <2>4, <2>5
  <2> QED
    BY <2>2, <2>6
<1> QED
  BY <1>1, <1>2, PieceWas

(* Runs are split at bounds when the run goes on. *)
LEMMA RunsSplitOn ==
    ASSUME Ready, Ordered, Placed, RunsSplit, NEW r, NEW T, Carried(r, T), RunOn(r)
    PROVE  RunsSplit'
<1>1. Adds
  BY EventsAdded DEF Ready
<1>2. seen'.bounds = seen.bounds /\ ~seen.ended /\ ~seen'.ended
  BY DEF RunOn
<1>3. \A e \in seen.pieces \cup seen.bounds :
         /\ e.at \in Nat /\ e.unit \in Nat /\ e.unit >= 1 /\ e.unit <= e.at /\ e.at < offset /\ offset \in Nat
  BY EventsBefore
<1>4. \A p \in Runs' : p \in seen'.pieces /\ p.home = 0
  BY DEF Runs
<1>5. \A p \in seen.pieces : p.home = 0 => p \in Runs
  BY DEF Runs
<1>6. \A p \in seen'.pieces : p \in seen.pieces \/ p.at = offset
  BY <1>1 DEF Adds
<1>7. ASSUME NEW p \in Runs', NEW k \in 1 .. Len(converted'), p.at \in HeldIn(k)'
      PROVE  p \in Runs /\ k \in 1 .. Len(converted) /\ p.at \in HeldIn(k)
  <2>1. k \in Places' /\ k > 0 /\ ~(k <= 0)
    BY BlockPlaces
  <2>2. p \in seen.pieces /\ k \in Places /\ p.at \in HeldIn(k)
    BY <1>4, <1>7, <2>1, RunWas
  <2> QED
    BY <1>4, <1>5, <2>1, <2>2, BlockPlaces
<1>8. Closed'
  <2>1. ASSUME NEW p \in Runs', NEW k \in 1 .. Len(converted'), p.at \in HeldIn(k)'
        PROVE  \E b \in seen.bounds : p.at < b.at
    BY <1>2, <1>7, <2>1 DEF RunsSplit, Closed
  <2> QED
    BY <1>2, <2>1 DEF Closed
<1>9. SplitAtBounds'
  <2> SUFFICES ASSUME NEW p \in Runs', NEW q \in Runs', NEW k \in Places', NEW l \in Places',
                      p.at < q.at, p.at \in HeldIn(k)', q.at \in HeldIn(l)', k # l, k > 0 \/ l > 0
               PROVE  Split(p, q)'
    BY DEF SplitAtBounds
  <2>1. p \in seen.pieces
    <3>1. offset \in Nat
      BY EventsBefore
    <3>2. CASE q.at = offset
      <4>1. p.at # offset
        BY <3>1, <3>2
      <4> QED
        BY <1>4, <1>6, <4>1
    <3>3. CASE q \in seen.pieces
      <4>1. q.at \in Nat /\ q.at < offset
        BY <1>3, <3>3
      <4>2. p.at # offset
        BY <3>1, <4>1
      <4> QED
        BY <1>4, <1>6, <4>2
    <3> QED
      BY <1>4, <1>6, <3>2, <3>3
  <2>2. PICK i \in Places : p.at \in HeldIn(i) /\ r[i] = k /\ (i > 0 <=> k > 0) /\ (k > 0 => i = k)
    <3>1. p.at # offset
      BY <1>3, <2>1
    <3> QED
      BY <1>4, <3>1, RunWas
  <2>3. CASE q.at = offset /\ l \in T /\ l <= 0
    <3>1. k > 0
      BY <2>3, BlockPlaces
    <3>2. k \in 1 .. Len(converted) /\ p.at \in HeldIn(k)
      BY <2>2, <3>1, BlockPlaces
    <3>3. PICK b \in seen.bounds : p.at < b.at
      BY <1>2, <1>4, <1>5, <2>1, <3>2 DEF RunsSplit, Closed
    <3>4. b.at >= p.unit /\ b.at <= q.at
      BY <1>3, <2>1, <2>3, <3>3
    <3> QED
      BY <1>2, <3>4 DEF Split
  <2>4. CASE q \in seen.pieces /\ q.at < offset /\
               \E j \in Places : q.at \in HeldIn(j) /\ r[j] = l /\ (j > 0 <=> l > 0) /\ (l > 0 => j = l)
    <3>1. PICK j \in Places : q.at \in HeldIn(j) /\ r[j] = l /\ (j > 0 <=> l > 0)
      BY <2>4
    <3>2. i # j /\ (i > 0 \/ j > 0)
      BY <2>2, <3>1
    <3>3. p \in Runs /\ q \in Runs
      BY <1>4, <1>5, <2>1, <2>4
    <3>4. Split(p, q)
      BY <2>2, <3>1, <3>2, <3>3 DEF RunsSplit, SplitAtBounds
    <3> QED
      BY <1>2, <3>4, SplitStays
  <2> QED
    BY <1>4, <2>3, <2>4, RunWas
<1>10. BoundsClose'
  <2> SUFFICES ASSUME NEW p \in Runs', NEW b \in seen.bounds, NEW k \in Places',
                      p.at < b.at, b.unit # p.unit, p.at \in HeldIn(k)'
               PROVE  k > 0
    BY <1>2 DEF BoundsClose
  <2>1. p.at # offset
    BY <1>3
  <2>2. p \in seen.pieces
    BY <1>4, <1>6, <2>1
  <2>3. PICK i \in Places : p.at \in HeldIn(i) /\ (i > 0 <=> k > 0)
    BY <1>4, <2>1, RunWas
  <2> QED
    BY <1>4, <1>5, <2>2, <2>3 DEF RunsSplit, BoundsClose
<1>11. BoundsPart'
  <2> SUFFICES ASSUME NEW p \in Runs', NEW q \in Runs', NEW b \in seen.bounds,
                      NEW k \in 1 .. Len(converted'), NEW l \in 1 .. Len(converted'),
                      p.at < b.at, b.at < q.at, b.unit # p.unit, p.at \in HeldIn(k)', q.at \in HeldIn(l)'
               PROVE  k < l
    BY <1>2 DEF BoundsPart
  <2> QED
    BY <1>7 DEF RunsSplit, BoundsPart
<1> QED
  BY <1>8, <1>9, <1>10, <1>11 DEF RunsSplit

(* Runs are split at bounds when the run ends. *)
LEMMA RunsSplitEnd ==
    ASSUME Ready, Ordered, Placed, RunsSplit, NEW r, Carried(r, {}), RunEnds(r)
    PROVE  RunsSplit'
<1>1. PICK m \in Nat : m = Len(converted)
  BY AfterTypes
<1>2. PICK u : u = Outermost
  OBVIOUS
<1>3. /\ r[0] = m + 1 /\ HeldIn(0)' = {} /\ seen'.pieces = seen.pieces
      /\ \/ seen'.bounds = seen.bounds \cup {[at |-> offset, unit |-> u]} /\ ~seen.ended
         \/ seen'.bounds = seen.bounds /\ open = << >> /\ seen'.ended
  BY <1>1, <1>2 DEF RunEnds
<1>4. \A e \in seen.pieces \cup seen.bounds :
         /\ e.at \in Nat /\ e.unit \in Nat /\ e.unit >= 1 /\ e.unit <= e.at /\ e.at < offset /\ offset \in Nat
  BY EventsBefore
<1>5. Runs' = Runs /\ \A p \in Runs : p \in seen.pieces /\ p.home = 0
  BY <1>3 DEF Runs
<1>6. seen.bounds \subseteq seen'.bounds
  BY <1>3
<1>7. ASSUME NEW p \in Runs, NEW l \in Places', p.at \in HeldIn(l)'
      PROVE  \E k \in Places :
                /\ p.at \in HeldIn(k) /\ r[k] = l /\ l # 0 /\ k \in Int /\ l \in Int
                /\ (k > 0 => l = k) /\ (k = 0 => l = m + 1) /\ (k < 0 => l < 0)
                /\ k < 0 => open # << >> /\ p.unit = u
  <2>1. PICK k \in Places : WasIn(p, k, l, r)
    BY <1>3, <1>5, <1>7, PieceWas
  <2>2. /\ p.at \in HeldIn(k) /\ r[k] = l /\ IsRun(k) /\ (k < 0 => open # << >> /\ p.unit = open[1].at)
    BY <1>5, <2>1 DEF WasIn
  <2>3. l # 0
    BY <1>3, <1>7
  <2>4. (k > 0 => l = k) /\ (k < 0 => ~(l > 0))
    BY <2>1, <2>2 DEF WasIn, Goes
  <2>5. k = 0 => l = m + 1
    BY <1>3, <2>2
  <2>6. k \in Int /\ l \in Int
    BY BlockPlaces
  <2>7. open # << >> => u = open[1].at
    BY <1>2 DEF Outermost
  <2>8. k < 0 => l < 0
    BY <2>3, <2>4, <2>6
  <2> QED
    BY <2>2, <2>3, <2>4, <2>5, <2>6, <2>7, <2>8
<1>8. Closed'
  <2> SUFFICES ASSUME ~seen'.ended, NEW p \in Runs
               PROVE  \E b \in seen'.bounds : p.at < b.at
    BY <1>5 DEF Closed
  <2>1. [at |-> offset, unit |-> u] \in seen'.bounds
    BY <1>3
  <2>2. p.at < [at |-> offset, unit |-> u].at
    BY <1>4, <1>5
  <2> QED
    BY <2>1, <2>2
<1>9. SplitAtBounds'
  <2> SUFFICES ASSUME NEW p \in Runs, NEW q \in Runs, NEW k \in Places', NEW l \in Places',
                      p.at < q.at, p.at \in HeldIn(k)', q.at \in HeldIn(l)', k # l, k > 0 \/ l > 0
               PROVE  Split(p, q)'
    BY <1>5 DEF SplitAtBounds
  <2>1. PICK i \in Places : /\ p.at \in HeldIn(i) /\ r[i] = k /\ i \in Int /\ k \in Int
                            /\ (i > 0 => k = i) /\ (i = 0 => k = m + 1) /\ (i < 0 => k < 0)
                            /\ i < 0 => open # << >> /\ p.unit = u
    BY <1>7
  <2>2. PICK j \in Places : /\ q.at \in HeldIn(j) /\ r[j] = l /\ j \in Int /\ l \in Int
                            /\ (j > 0 => l = j) /\ (j = 0 => l = m + 1) /\ (j < 0 => l < 0)
                            /\ j < 0 => open # << >> /\ q.unit = u
    BY <1>7
  <2>3. i # j
    BY <2>1, <2>2
  <2>4. CASE i > 0 \/ j > 0
    <3>1. Split(p, q)
      BY <2>1, <2>2, <2>3, <2>4 DEF RunsSplit, SplitAtBounds
    <3> QED
      BY <1>6, <3>1, SplitStays
  <2>5. CASE ~(i > 0 \/ j > 0)
    <3>1. i < 0 \/ j < 0
      BY <2>1, <2>2, <2>3, <2>5
    <3>2. open # << >> /\ u = open[1].at
      BY <1>2, <2>1, <2>2, <3>1 DEF Outermost
    <3>3. [at |-> offset, unit |-> u] \in seen'.bounds
      BY <1>3, <3>2
    <3>4. p \in seen.pieces /\ q \in seen.pieces
      BY <1>5
    <3>5. q.unit = u
      <4>1. CASE j < 0
        BY <2>2, <4>1
      <4>2. CASE i < 0
        <5>1. q.unit = u \/ q.at < u
          BY <3>2, <3>4 DEF Ordered
        <5>2. p.unit = u /\ p.unit <= p.at
          BY <1>4, <2>1, <3>4, <4>2
        <5> QED
          BY <1>4, <3>4, <5>1, <5>2
      <4> QED
        BY <3>1, <4>1, <4>2
    <3>6. PICK b \in seen'.bounds : b.at = offset /\ b.unit = u
      BY <3>3
    <3>7. b.at >= p.unit
      BY <1>4, <3>4, <3>6
    <3> QED
      BY <3>5, <3>6, <3>7 DEF Split
  <2> QED
    BY <2>4, <2>5
<1>10. BoundsClose'
  <2> SUFFICES ASSUME NEW p \in Runs, NEW b \in seen'.bounds, NEW k \in Places',
                      p.at < b.at, b.unit # p.unit, p.at \in HeldIn(k)'
               PROVE  k > 0
    BY <1>5 DEF BoundsClose
  <2>1. PICK i \in Places : /\ p.at \in HeldIn(i) /\ i \in Int /\ k \in Int
                            /\ (i > 0 => k = i) /\ (i = 0 => k = m + 1)
                            /\ i < 0 => open # << >> /\ p.unit = u
    BY <1>7
  <2>2. ~(i < 0)
    <3>1. CASE b \in seen.bounds
      <4>1. i > 0
        BY <2>1, <3>1 DEF RunsSplit, BoundsClose
      <4> QED
        BY <2>1, <4>1
    <3>2. CASE b = [at |-> offset, unit |-> u]
      BY <2>1, <3>2
    <3> QED
      BY <1>3, <3>1, <3>2
  <2> QED
    BY <2>1, <2>2
<1>11. BoundsPart'
  <2> SUFFICES ASSUME NEW p \in Runs, NEW q \in Runs, NEW b \in seen'.bounds,
                      NEW k \in 1 .. Len(converted'), NEW l \in 1 .. Len(converted'),
                      p.at < b.at, b.at < q.at, b.unit # p.unit, p.at \in HeldIn(k)', q.at \in HeldIn(l)'
               PROVE  k < l
    BY <1>5 DEF BoundsPart
  <2>1. k \in Places' /\ l \in Places' /\ k > 0 /\ l > 0
    BY BlockPlaces
  <2>2. b \in seen.bounds
    <3>1. q.at < offset /\ offset \in Nat /\ q.at \in Nat
      BY <1>4, <1>5
    <3>2. b.at # offset
      BY <3>1
    <3> QED
      BY <1>3, <3>2
  <2>3. PICK i \in Places : /\ p.at \in HeldIn(i) /\ i \in Int /\ k \in Int /\ (i > 0 => k = i)
    BY <1>7, <2>1
  <2>4. i > 0
    BY <2>2, <2>3 DEF RunsSplit, BoundsClose
  <2>5. PICK j \in Places : /\ q.at \in HeldIn(j) /\ j \in Int /\ l \in Int
                            /\ (j > 0 => l = j) /\ (j = 0 => l = m + 1) /\ (j < 0 => l < 0)
    BY <1>7, <2>1
  <2>6. k = i /\ i \in 1 .. m
    BY <1>1, <2>3, <2>4, BlockPlaces
  <2>7. CASE j > 0
    <3>1. j \in 1 .. m /\ l = j
      BY <1>1, <2>5, <2>7, BlockPlaces
    <3> QED
      BY <1>1, <2>2, <2>3, <2>5, <2>6, <3>1 DEF RunsSplit, BoundsPart
  <2>8. CASE j = 0
    BY <2>5, <2>6, <2>8
  <2> QED
    BY <2>1, <2>5, <2>7, <2>8
<1> QED
  BY <1>8, <1>9, <1>10, <1>11 DEF RunsSplit

(* Runs are split at the bounds between them, and nowhere else. *)
LEMMA RunsSplitStep ==
    ASSUME Ready, Ordered, Placed, RunsSplit, NEW T, Carries(T)
    PROVE  RunsSplit'
<1>1. PICK r : Carried(r, T) /\ (RunOn(r) \/ (T = {} /\ RunEnds(r)))
  BY DEF Carries
<1>2. CASE RunOn(r)
  BY <1>1, <1>2, RunsSplitOn
<1>3. CASE T = {} /\ RunEnds(r)
  BY <1>1, <1>3, RunsSplitEnd
<1> QED
  BY <1>1, <1>2, <1>3

(* No piece is in an outermost element that starts later than this one. *)
LEMMA UnitsUpTo ==
    ASSUME Ready, Ordered
    PROVE  /\ Outermost \in Nat \ {0} /\ Outermost <= offset
           /\ \A p \in seen'.pieces : p.unit \in Nat /\ p.unit <= Outermost
<1>1. PICK u : u = Outermost
  OBVIOUS
<1>2. u \in 1 .. offset /\ offset \in Nat /\ (open # << >> => u = open[1].at) /\ (open = << >> => u = offset)
  BY <1>1, AfterTypes, OutermostIs DEF Ready, Before, Outermost
<1>3. ASSUME NEW p \in seen.pieces \cup seen.bounds
      PROVE  p.unit \in Nat /\ p.unit <= u
  <2>1. /\ p.at \in Nat /\ p.unit \in Nat /\ p.unit <= p.at /\ p.at < offset
        /\ open # << >> => p.unit = open[1].at \/ p.at < open[1].at
    BY EventsBefore DEF Ordered
  <2> QED
    BY <1>2, <2>1
<1>4. \A p \in seen'.pieces : p \in seen.pieces \cup seen.bounds \/ p.unit = u
  BY <1>1, EventsAdded DEF Adds, Ready
<1> QED
  BY <1>1, <1>2, <1>3, <1>4

(* What starts a run or a block is not what is said now. *)
LEMMA FirstsBefore ==
    ASSUME Ready
    PROVE  /\ accum.texts # << >> => accum.texts[1] # << >> /\ accum.texts[1][1] # offset
           /\ \A n \in 1 .. Len(converted) : converted[n].text # << >> => converted[n].text[1] # offset
<1>1. offset \in Nat \ {0}
  BY AfterTypes
<1>2. ASSUME NEW s \in Seq(Nat), s # << >>
      PROVE  s[1] = 0 \/ s[1] \in Said(s)
  <2>1. 1 \in DOMAIN s
    BY <1>2
  <2> QED
    BY <2>1 DEF Said, ToSet
<1>3. \A k \in Places : \A x \in HeldIn(k) : x # offset
  BY <1>1 DEF Ready
<1>4. ASSUME NEW n \in 1 .. Len(converted), converted[n].text # << >>
      PROVE  converted[n].text[1] # offset
  <2>1. n \in Places /\ HeldIn(n) = InBlock(n)
    BY AfterTypes, PlacesAre
  <2>2. converted[n] \in Blocks
    BY AfterTypes DEF MarkdownTypeOK
  <2>3. converted[n].text \in Seq(Nat)
    BY <2>2 DEF Blocks
  <2> QED
    BY <1>1, <1>2, <1>3, <1>4, <2>1, <2>3 DEF InBlock
<1>5. ASSUME accum.texts # << >>
      PROVE  accum.texts[1] # << >> /\ accum.texts[1][1] # offset
  <2>1. 0 \in Places /\ HeldIn(0) = InAccum
    BY AfterTypes, PlacesAre
  <2>2. accum \in Accums /\ AccumSound(accum)
    BY SoundParts DEF Ready, Before
  <2>3. accum.texts \in Seq(Seq(Nat))
    BY <2>2 DEF Accums, Texts
  <2>4. 1 \in 1 .. Len(accum.texts) /\ accum.texts[1] \in Seq(Nat)
    BY <1>5, <2>3
  <2>5. accum.texts[1] # << >>
    BY <2>2, <2>4 DEF AccumSound
  <2>6. Said(accum.texts[1]) \subseteq InAccum
    BY <2>4 DEF InAccum, Held
  <2> QED
    BY <1>1, <1>2, <1>3, <2>1, <2>4, <2>5, <2>6
<1> QED
  BY <1>4, <1>5

(* The same of the pieces after the move. *)
StartsThen(s, start) == s # << >> /\ \A p \in seen'.pieces : p.at = s[1] => p.unit <= start

(* A start that was no later is no later. *)
LEMMA StartsStay ==
    ASSUME Ready, NEW s, NEW start, StartsAfter(s, start), s[1] # offset
    PROVE  StartsThen(s, start)
<1>1. Adds
  BY EventsAdded DEF Ready
<1>2. \A p \in seen'.pieces : p.at = s[1] => p \in seen.pieces
  BY <1>1 DEF Adds
<1> QED
  BY <1>2 DEF StartsAfter, StartsThen

(* What a move does to the run, and to the blocks. *)
LEMMA RunMoves ==
    ASSUME Ready
    PROVE  \/ accum' = accum
           \/ accum' = NoText
           \/ \E T, F : Gathers(accum, accum', T, F) /\ \A f \in F : f \in Nat /\ Outermost <= f /\ f <= offset' - 1
<1>1. MarkdownTypeOK /\ Nested /\ Mirrors /\ offset \in Nat \ {0} /\ Move
  BY AfterTypes DEF Ready, Before
<1>2. PICK u : u = Outermost
  OBVIOUS
<1>3. u \in 1 .. offset
  BY <1>1, <1>2, OutermostIs
<1>4. \A i \in 1 .. Len(stack) : stack[i].start \in Nat /\ u <= stack[i].start /\ stack[i].start <= offset
  <2> TAKE i \in 1 .. Len(stack)
  <2>1. /\ stack[i].start \in 1 .. offset - 1 /\ open # << >> /\ open[1].at <= stack[i].start
    BY <1>1, StackIn
  <2>2. u = open[1].at
    BY <1>2, <2>1 DEF Outermost
  <2> QED
    BY <1>1, <2>1, <2>2
<1>5. CASE \E tag \in Handled \ Structural : EndsText(tag)
  <2>1. PICK tag \in Handled \ Structural : EndsText(tag)
    BY <1>5
  <2>2. PICK F : F = {stack[Len(stack)].start}
    OBVIOUS
  <2>3. Gathers(accum, accum', InStack(Len(stack)), F)
    BY <2>1, <2>2 DEF EndsText
  <2>4. tag \in Tags
    BY DEF Tags, Handled
  <2>5. stack # << >> /\ offset' = offset + 1
    BY <1>1, <2>1, <2>4, EndsCloses DEF EndsText, EndsTop
  <2>6. Len(stack) \in 1 .. Len(stack)
    BY <1>1, <2>5, TopIs
  <2>7. \A f \in F : f \in Nat /\ u <= f /\ f <= offset' - 1
    BY <1>1, <1>4, <2>2, <2>5, <2>6
  <2> QED
    BY <1>2, <2>3, <2>7
<1>6. CASE Fragment
  <2>1. PICK F : F = StartsFrom(1) \cup {offset}
    OBVIOUS
  <2>2. Gathers(accum, accum', FromTop(1) \cup {offset}, F) /\ offset' = offset + 1
    BY <1>6, <2>1 DEF Fragment
  <2>3. \A f \in StartsFrom(1) : f \in Nat /\ u <= f /\ f <= offset' - 1
    BY <1>1, <1>4, <2>2 DEF StartsFrom
  <2>4. offset \in Nat /\ u <= offset /\ offset <= offset' - 1
    BY <1>1, <1>3, <2>2
  <2>5. \A f \in F : f \in Nat /\ u <= f /\ f <= offset' - 1
    BY <2>1, <2>3, <2>4
  <2> QED
    BY <1>2, <2>2, <2>5
<1>7. CASE ~(\E tag \in Handled \ Structural : EndsText(tag)) /\ ~Fragment
  BY <1>1, <1>7 DEF Move, StartsBlock, StartsText, Passes, EndsBlock, EndsBelow, EndsClosed, SaysOn, SaysLost, Stops, Flushed, Settled
<1> QED
  BY <1>5, <1>6, <1>7

(* What a move does to the blocks. *)
LEMMA BlocksMove ==
    ASSUME Ready
    PROVE  \/ converted' = converted
           \/ Flushed
           \/ Emitted /\ stack[Len(stack)].kind # "text"
<1>1. Move
  BY DEF Ready
<1>2. \A tag \in Structural : tag # "text"
  BY DEF Structural
<1> QED
  BY <1>1, <1>2 DEF Move, StartsBlock, StartsText, Passes, EndsBlock, EndsTop, EndsText, EndsBelow, EndsClosed,
                    SaysOn, SaysLost, Fragment, Stops, Settled

(* The run starts no earlier than the outermost element of its first piece. *)
LEMMA RunStartsStep ==
    ASSUME Ready, Ordered, Started, accum'.texts # << >>
    PROVE  accum'.start \in 1 .. offset' - 1 /\ StartsThen(accum'.texts[1], accum'.start)
<1>1. PICK o, u : o = offset' /\ u = Outermost
  OBVIOUS
<1>2. offset \in Nat \ {0} /\ o \in Nat \ {0} /\ o >= offset
  <2>1. o \in Nat \ {0} /\ o - offset \in {0, 1} /\ offset \in Nat \ {0}
    BY <1>1, ParserTypes, AfterTypes DEF Ready
  <2> QED
    BY <2>1
<1>3. ASSUME accum.texts # << >>
      PROVE  /\ accum.start \in 1 .. o - 1 /\ accum.texts[1] # << >>
             /\ StartsThen(accum.texts[1], accum.start)
  <2>1. accum.start \in 1 .. offset - 1 /\ StartsAfter(accum.texts[1], accum.start)
    BY <1>3 DEF Started
  <2>2. accum.start \in 1 .. o - 1
    BY <1>2, <2>1
  <2> QED
    BY <1>3, <2>1, <2>2, FirstsBefore, StartsStay
<1>4. CASE accum' = accum
  BY <1>1, <1>3, <1>4
<1>5. CASE accum' # accum
  <2>1. PICK T, F : Gathers(accum, accum', T, F) /\ \A f \in F : f \in Nat /\ u <= f /\ f <= o - 1
    BY <1>1, <1>5, RunMoves DEF NoText
  <2>2. accum'.start \in F \/ (accum'.start = accum.start /\ accum.start # 0)
    BY <1>5, <2>1 DEF Gathers
  <2>3. accum \in Accums /\ AccumSound(accum) /\ accum' \in Accums /\ AccumSound(accum')
    BY SoundParts DEF Ready, Before, After, ConverterSound, Sound
  <2>4. accum.texts = << >> <=> accum.start = 0
    BY <2>3 DEF AccumSound
  <2>5. accum'.texts[1] # << >>
    <3>1. accum'.texts \in Seq(Seq(Nat))
      BY <2>3 DEF Accums, Texts
    <3>2. 1 \in 1 .. Len(accum'.texts)
      BY <3>1
    <3> QED
      BY <2>3, <3>2 DEF AccumSound
  <2>6. CASE accum'.start \in F
    <3>1. u \in Nat \ {0} /\ \A p \in seen'.pieces : p.unit \in Nat /\ p.unit <= u
      BY <1>1, UnitsUpTo
    <3>2. PICK s : s = accum'.start
      OBVIOUS
    <3>3. s \in Nat /\ u <= s /\ s <= o - 1
      BY <2>1, <2>6, <3>2
    <3>4. s \in 1 .. o - 1 /\ \A p \in seen'.pieces : p.unit <= s
      BY <1>2, <3>1, <3>3
    <3> QED
      BY <1>1, <2>5, <3>2, <3>4 DEF StartsThen
  <2>7. CASE accum'.start = accum.start /\ accum.start # 0
    <3>1. accum.texts # << >> /\ accum'.texts[1] = accum.texts[1]
      BY <2>1, <2>4, <2>7 DEF Gathers
    <3> QED
      BY <1>1, <1>3, <2>7, <3>1
  <2> QED
    BY <2>2, <2>6, <2>7
<1> QED
  BY <1>4, <1>5

(* Nor does a block of running text. *)
LEMMA BlockStartsStep ==
    ASSUME Ready, Started, NEW n \in 1 .. Len(converted'), converted'[n].kind = "text"
    PROVE  StartsThen(converted'[n].text, converted'[n].start)
<1>1. PICK m \in Nat : m = Len(converted)
  BY AfterTypes
<1>2. ASSUME n \in 1 .. m, converted'[n] = converted[n]
      PROVE  StartsThen(converted'[n].text, converted'[n].start)
  <2>1. StartsAfter(converted[n].text, converted[n].start)
    BY <1>1, <1>2 DEF Started
  <2>2. converted[n].text[1] # offset
    BY <1>1, <1>2, <2>1, FirstsBefore DEF StartsAfter
  <2>3. StartsThen(converted[n].text, converted[n].start)
    BY <2>1, <2>2, StartsStay DEF StartsAfter
  <2> QED
    BY <1>2, <2>3
<1>3. CASE n \in 1 .. m /\ converted'[n] = converted[n]
  BY <1>2, <1>3
<1>4. CASE n = m + 1 /\ ~(n \in 1 .. m)
  <2>1. accum.texts # << >> /\ Flushed
    <3>1. Flushed \/ (Emitted /\ stack[Len(stack)].kind # "text")
      BY <1>1, <1>4, BlocksMove
    <3> QED
      BY <1>1, <1>4, <3>1 DEF Flushed, Emitted
  <2>2. accum.texts[1] # << >> /\ accum.texts[1][1] # offset
    BY <2>1, FirstsBefore
  <2>3. /\ converted'[n].text # << >> /\ converted'[n].text[1] = accum.texts[1][1]
        /\ converted'[n].start = accum.start
    BY <1>1, <1>4, <2>1, <2>2 DEF Flushed
  <2>4. StartsAfter(accum.texts[1], accum.start)
    BY <2>1 DEF Started
  <2>5. StartsThen(accum.texts[1], accum.start)
    BY <2>2, <2>4, StartsStay
  <2> QED
    BY <2>3, <2>5 DEF StartsThen
<1>5. (n \in 1 .. m /\ converted'[n] = converted[n]) \/ (n = m + 1 /\ ~(n \in 1 .. m))
  <2>1. /\ \A i \in 1 .. m : converted'[i] = converted[i]
        /\ Len(converted') = m \/ Len(converted') = m + 1
    BY <1>1, BlocksMove DEF Flushed, Emitted
  <2>2. n \in 1 .. m \/ (n = m + 1 /\ ~(n \in 1 .. m))
    BY <1>1, <2>1
  <2> QED
    BY <2>1, <2>2
<1> QED
  BY <1>3, <1>4, <1>5

(* So after a move. *)
LEMMA StartedStep ==
    ASSUME Ready, Ordered, Started
    PROVE  Started'
<1>1. accum'.texts # << >> => accum'.start \in 1 .. offset' - 1 /\ StartsThen(accum'.texts[1], accum'.start)
  BY RunStartsStep
<1>2. \A n \in 1 .. Len(converted') : converted'[n].kind = "text" =>
         StartsThen(converted'[n].text, converted'[n].start)
  BY BlockStartsStep
<1> QED
  BY <1>1, <1>2 DEF Started, StartsAfter, StartsThen

-----------------------------------------------------------------------------
(* The invariant. *)

(* The invariant and a step give what the proofs of the moves assume. *)
LEMMA StepReady ==
    ASSUME MarkdownAssumption, MarkdownInvariant, MarkdownNext
    PROVE  Ready
<1>1. Before
  BY FromInvariant
<1>2. After /\ Move
  BY <1>1, StepMoves
<1>3. Apart /\ Accounted /\ Ordered /\ Placed /\ offset \in Nat
  BY DEF MarkdownInvariant, MarkdownTypeOK
<1>4. ASSUME NEW k \in Places, NEW x \in HeldIn(k)
      PROVE  x \in Nat /\ StartOf(k) \in 1 .. x /\ x < offset
  <2>1. PICK p \in seen.pieces : p.at = x
    BY <1>3, <1>4 DEF Accounted
  <2>2. p.at \in 1 .. offset - 1 /\ StartOf(k) \in 1 .. p.at
    BY <1>3, <1>4, <2>1 DEF Ordered, Placed
  <2> QED
    BY <1>3, <2>1, <2>2
<1> QED
  BY <1>1, <1>2, <1>3, <1>4 DEF Ready

(* Every step keeps the invariant. *)
LEMMA InvariantStep ==
    ASSUME MarkdownAssumption, MarkdownInvariant, MarkdownNext
    PROVE  MarkdownInvariant'
<1>1. /\ Accounted /\ Ordered /\ Placed /\ Started /\ RunsSplit /\ Finished
  BY DEF MarkdownInvariant
<1>2. Ready
  BY StepReady
<1>3. Before /\ After /\ Move
  BY <1>2 DEF Ready
<1>4. PICK T : Carries(T) /\ NewPieces(T)
  BY <1>1, <1>2, MoveCarries
<1>5. PICK r : Carried(r, T)
  BY <1>4 DEF Carries
<1>6. MarkdownTypeOK' /\ Nested' /\ Mirrors' /\ Ordered' /\ Finished'
  BY <1>1, <1>3, TypesStep, NestedStep, MirrorsStep, OrderedStep, FinishedStep
<1>7. TablesFilled' /\ Sound'
  BY <1>3 DEF After, ConverterSound
<1>8. Apart'
  BY <1>2, <1>5, ApartStep
<1>9. Accounted'
  BY <1>1, <1>2, <1>4, <1>5, AccountedStep
<1>10. Placed'
  BY <1>1, <1>2, <1>4, <1>5, <1>6, PlacedStep
<1>11. Started'
  BY <1>1, <1>2, StartedStep
<1>12. RunsSplit'
  BY <1>1, <1>2, <1>4, RunsSplitStep
<1> QED
  BY <1>6, <1>7, <1>8, <1>9, <1>10, <1>11, <1>12 DEF MarkdownInvariant

(* So does none. *)
LEMMA InvariantStill ==
    ASSUME MarkdownInvariant, UNCHANGED markdownVars
    PROVE  MarkdownInvariant'
<1>1. /\ open' = open /\ offset' = offset /\ seen' = seen
      /\ stack' = stack /\ accum' = accum /\ converted' = converted
  BY DEF markdownVars, parserVars
<1>2. MarkdownTypeOK' /\ Nested' /\ Mirrors' /\ TablesFilled' /\ Sound' /\ Finished'
  BY <1>1 DEF MarkdownInvariant, MarkdownTypeOK, Nested, Mirrors, TablesFilled, Sound, Finished, IsOpen
<1>3. \A k : HeldIn(k)' = HeldIn(k) /\ StartOf(k)' = StartOf(k) /\ HomeOf(k)' = HomeOf(k)
  BY <1>1 DEF HeldIn, StartOf, HomeOf, IsRun, InAccum, InStack, InBlock
<1>4. Places' = Places /\ Runs' = Runs /\ \A p, q : Split(p, q)' <=> Split(p, q)
  BY <1>1 DEF Places, Runs, Split
<1>5. Apart' /\ Accounted'
  BY <1>1, <1>3, <1>4 DEF MarkdownInvariant, Apart, Accounted
<1>6. Ordered' /\ Placed' /\ Started'
  BY <1>1, <1>3, <1>4 DEF MarkdownInvariant, Ordered, Placed, Started, StartsAfter
<1>7. Closed' /\ BoundsClose' /\ BoundsPart'
  BY <1>1, <1>3, <1>4 DEF MarkdownInvariant, RunsSplit, Closed, BoundsClose, BoundsPart
<1>8. SplitAtBounds'
  BY <1>3, <1>4 DEF MarkdownInvariant, RunsSplit, SplitAtBounds
<1> QED
  BY <1>2, <1>5, <1>6, <1>7, <1>8 DEF MarkdownInvariant, RunsSplit

(* It holds at first. *)
LEMMA InvariantFirst ==
    ASSUME MarkdownInit
    PROVE  MarkdownInvariant
<1>1. /\ open = << >> /\ offset = 1 /\ stack = << >> /\ accum = NoText /\ converted = << >>
      /\ seen = [elements |-> 0, pieces |-> {}, bounds |-> {}, fragment |-> 0, ended |-> FALSE]
  BY DEF MarkdownInit
<1>2. seen.pieces = {} /\ seen.bounds = {} /\ seen.fragment = 0 /\ ~seen.ended /\ seen \in Histories
  BY <1>1 DEF Histories
<1>3. accum.texts = << >> /\ accum \in Accums /\ AccumSound(accum)
  BY <1>1, EmptyAccum DEF NoText
<1>4. Len(open) = 0 /\ Len(stack) = 0 /\ Len(converted) = 0
  BY <1>1
<1>5. \A i \in 1 .. 0 : FALSE
  OBVIOUS
<1>6. MarkdownTypeOK
  BY <1>1, <1>2, <1>3 DEF MarkdownTypeOK
<1>7. Nested /\ Mirrors /\ TablesFilled
  BY <1>1, <1>2, <1>4, <1>5 DEF Nested, Mirrors, TablesFilled
<1>8. Sound
  BY <1>3, <1>4, <1>5 DEF Sound
<1>9. \A k \in Places : k = 0
  <2>1. \A k \in (-0) .. 0 : k = 0
    OBVIOUS
  <2> QED
    BY <1>4, <2>1 DEF Places
<1>10. HeldIn(0) = {}
  BY <1>3, NothingHeld DEF HeldIn, InAccum
<1>11. Apart /\ Accounted
  BY <1>2, <1>9, <1>10 DEF Apart, Accounted
<1>12. Ordered /\ Placed
  BY <1>2 DEF Ordered, Placed
<1>13. Started
  BY <1>3, <1>4, <1>5 DEF Started
<1>14. Runs = {}
  BY <1>2 DEF Runs
<1>15. RunsSplit
  BY <1>14 DEF RunsSplit, Closed, SplitAtBounds, BoundsClose, BoundsPart
<1>16. Finished
  BY <1>2 DEF Finished
<1> QED
  BY <1>6, <1>7, <1>8, <1>11, <1>12, <1>13, <1>15, <1>16 DEF MarkdownInvariant

(* markdown_to_blocks_with_pages keeps its stack in step with the parser's   *)
(* open elements, through HTML fragments that empty it and tables, images    *)
(* and lists in each other, and has each piece of text in one place.         *)
THEOREM MarkdownInvariantHolds == MarkdownSpec => []MarkdownInvariant
<1>1. MarkdownInit => MarkdownInvariant
  BY InvariantFirst
<1>2. MarkdownInvariant /\ [MarkdownNext]_markdownVars => MarkdownInvariant'
  BY InvariantStep, InvariantStill, MarkdownAssumption
<1> QED
  BY <1>1, <1>2, PTL DEF MarkdownSpec

-----------------------------------------------------------------------------
(* What it gives at the end of a document. *)

(* A piece is said in one block at most, once. *)
LEMMA BlocksOfPiece ==
    ASSUME MarkdownInvariant, NEW p \in seen.pieces
    PROVE  /\ \A n \in 1 .. Len(converted) : n \in BlocksOf(p) <=> p.at \in HeldIn(n)
           /\ \A n \in BlocksOf(p) :
                 /\ n \in 1 .. Len(converted) /\ n \in Places /\ p.at \in HeldIn(n)
                 /\ BlockOf(p) = n /\ Times(p) = 1
           /\ BlocksOf(p) = {} => Times(p) = 0
<1>1. MarkdownTypeOK /\ Sound /\ Apart /\ Ordered
  BY DEF MarkdownInvariant
<1>2. converted \in Seq(Blocks) /\ DOMAIN converted = 1 .. Len(converted)
  BY <1>1 DEF MarkdownTypeOK
<1>3. p.at \in Nat \ {0}
  <2>1. p.at \in 1 .. offset - 1 /\ offset \in Nat
    BY <1>1 DEF Ordered, MarkdownTypeOK
  <2> QED
    BY <2>1
<1>4. \A n \in 1 .. Len(converted) : converted[n].text \in Seq(Nat) /\ Once(converted[n].text)
  <2> TAKE n \in 1 .. Len(converted)
  <2>1. converted[n] \in Blocks
    BY <1>2
  <2> QED
    BY <1>1, <2>1 DEF Blocks, Sound
<1>5. \A n \in 1 .. Len(converted) : n \in Places /\ HeldIn(n) = Said(converted[n].text)
  BY <1>1, PlacesAre DEF InBlock
<1>6. ASSUME NEW n \in 1 .. Len(converted)
      PROVE  n \in BlocksOf(p) <=> p.at \in HeldIn(n)
  <2>1. n \in BlocksOf(p) <=> \E i \in 1 .. Len(converted[n].text) : converted[n].text[i] = p.at
    BY <1>2 DEF BlocksOf, Contains
  <2>2. DOMAIN converted[n].text = 1 .. Len(converted[n].text)
    BY <1>4
  <2> QED
    BY <1>3, <1>5, <2>1, <2>2 DEF Said, ToSet
<1> DEFINE Spots(n) == {<<n, i>> : i \in {j \in DOMAIN converted[n].text : converted[n].text[j] = p.at}}
           All == UNION {Spots(n) : n \in DOMAIN converted}
<1>7. Times(p) = Cardinality(All)
  BY DEF Times
<1>8. BlocksOf(p) = {n \in 1 .. Len(converted) : \E i \in DOMAIN converted[n].text : converted[n].text[i] = p.at}
  <2>1. \A n \in 1 .. Len(converted) : DOMAIN converted[n].text = 1 .. Len(converted[n].text)
    BY <1>4
  <2> QED
    BY <1>2, <2>1 DEF BlocksOf, Contains
<1>9. BlocksOf(p) = {} => Times(p) = 0
  <2> SUFFICES ASSUME BlocksOf(p) = {}
               PROVE  All = {}
    BY <1>7, FS_EmptySet
  <2> QED
    BY <1>2, <1>8
<1>10. ASSUME NEW n \in BlocksOf(p)
       PROVE  /\ n \in 1 .. Len(converted) /\ n \in Places /\ p.at \in HeldIn(n)
              /\ BlockOf(p) = n /\ Times(p) = 1
  <2>1. n \in 1 .. Len(converted)
    BY <1>2 DEF BlocksOf
  <2>2. n \in Places /\ p.at \in HeldIn(n)
    BY <1>5, <1>6, <2>1
  <2>3. \A m \in BlocksOf(p) : m = n
    <3> TAKE m \in BlocksOf(p)
    <3>1. m \in 1 .. Len(converted)
      BY <1>2 DEF BlocksOf
    <3>2. m \in Places /\ p.at \in HeldIn(m)
      BY <1>5, <1>6, <3>1
    <3> QED
      BY <1>1, <2>2, <3>2 DEF Apart
  <2>4. BlockOf(p) = n
    BY <2>3 DEF BlockOf
  <2>5. PICK i \in DOMAIN converted[n].text : converted[n].text[i] = p.at
    BY <1>8
  <2>6. \A j \in DOMAIN converted[n].text : converted[n].text[j] = p.at => j = i
    <3>1. PICK s \in Seq(Nat) : s = converted[n].text /\ Once(s)
      BY <1>4, <2>1
    <3>2. DOMAIN s = 1 .. Len(s)
      OBVIOUS
    <3>3. \A j \in DOMAIN s : s[j] = p.at => j = i
      BY <1>3, <2>5, <3>1, <3>2 DEF Once
    <3> QED
      BY <3>1, <3>3
  <2>7. Spots(n) = {<<n, i>>}
    BY <2>5, <2>6
  <2>8. \A m \in DOMAIN converted : m # n => Spots(m) = {}
    BY <1>2, <1>8, <2>3
  <2>9. All = {<<n, i>>}
    <3> HIDE DEF Spots
    <3>1. \A x \in All : x \in {<<n, i>>}
      BY <2>7, <2>8
    <3>2. <<n, i>> \in All
      BY <1>2, <2>1, <2>7
    <3> QED
      BY <3>1, <3>2
  <2>10. Times(p) = 1
    BY <1>7, <2>9, FS_Singleton
  <2> QED
    BY <2>1, <2>2, <2>4, <2>10
<1> QED
  BY <1>6, <1>9, <1>10

(* At the end only blocks hold anything. *)
LEMMA OnlyBlocksHold ==
    ASSUME MarkdownInvariant, seen.ended, NEW k \in Places, NEW x \in HeldIn(k)
    PROVE  k \in 1 .. Len(converted)
<1>1. MarkdownTypeOK /\ Mirrors /\ open = << >> /\ accum.texts = << >>
  BY DEF MarkdownInvariant, Finished
<1>2. Len(open) = 0
  BY <1>1
<1>3. \A i \in 1 .. Len(stack) : FALSE
  <2> TAKE i \in 1 .. Len(stack)
  <2>1. PICK j \in 1 .. Len(open) : TRUE
    BY <1>1 DEF Mirrors
  <2> QED
    BY <1>2, <2>1
<1>4. k # 0
  <2>1. HeldIn(0) = {}
    BY <1>1, NothingHeld DEF HeldIn, InAccum
  <2> QED
    BY <2>1
<1> QED
  BY <1>1, <1>3, <1>4, PlacesAre

(* A block is the element its pieces are in, or running text. *)
LEMMA BlockIsHome ==
    ASSUME MarkdownInvariant, NEW p \in seen.pieces, NEW n \in BlocksOf(p)
    PROVE  /\ n \in 1 .. Len(converted) /\ converted[n].start \in 1 .. p.at
           /\ converted[n].kind = "text" => p.home = 0
           /\ converted[n].kind # "text" =>
                 converted[n].kind \in Structural /\ p.home = converted[n].start /\ p.home # 0
<1>1. MarkdownTypeOK /\ Placed
  BY DEF MarkdownInvariant
<1>2. n \in 1 .. Len(converted) /\ n \in Places /\ p.at \in HeldIn(n)
  BY BlocksOfPiece
<1>3. p.home = HomeOf(n) /\ StartOf(n) \in 1 .. p.at
  BY <1>1, <1>2 DEF Placed
<1>4. StartOf(n) = converted[n].start
  BY <1>1, <1>2, PlacesAre
<1>5. n > 0 /\ n # 0 /\ ~(n < 0)
  BY <1>1, <1>2, PlacesAre
<1>6. IsRun(n) <=> converted[n].kind = "text"
  BY <1>5 DEF IsRun
<1>7. converted[n].kind \in Structural \cup {"text"}
  <2>1. converted[n] \in Blocks
    BY <1>1, <1>2 DEF MarkdownTypeOK
  <2> QED
    BY <2>1 DEF Blocks
<1>8. converted[n].start # 0
  BY <1>3, <1>4
<1> QED
  BY <1>2, <1>3, <1>4, <1>6, <1>7, <1>8 DEF HomeOf

(* At the end each piece is in one block, once, or adrift. *)
LEMMA KeptIsOnce ==
    ASSUME MarkdownInvariant, seen.ended
    PROVE  KeptOnce
<1> SUFFICES ASSUME NEW p \in seen.pieces
             PROVE  /\ Times(p) = 1 \/ (p.adrift /\ Times(p) = 0)
                    /\ BlocksOf(p) # {} =>
                         IF p.home = 0 THEN converted[BlockOf(p)].kind = "text"
                         ELSE converted[BlockOf(p)].kind \in Structural /\ converted[BlockOf(p)].start = p.home
  BY DEF KeptOnce, Kept
<1>1. CASE BlocksOf(p) = {}
  <2>1. p.adrift \/ \E k \in Places : p.at \in HeldIn(k)
    BY DEF MarkdownInvariant, Accounted
  <2>2. \A k \in Places : p.at \notin HeldIn(k)
    BY <1>1, OnlyBlocksHold, BlocksOfPiece
  <2> QED
    BY <1>1, <2>1, <2>2, BlocksOfPiece
<1>2. CASE BlocksOf(p) # {}
  <2>1. PICK n \in BlocksOf(p) : TRUE
    BY <1>2
  <2>2. BlockOf(p) = n /\ Times(p) = 1
    BY BlocksOfPiece
  <2> QED
    BY <2>2, BlockIsHome
<1> QED
  BY <1>1, <1>2

(* At the end a run is one block between two bounds. *)
LEMMA RunsAreWhole ==
    ASSUME MarkdownInvariant, seen.ended
    PROVE  RunsWhole
<1>1. /\ SplitAtBounds /\ BoundsPart /\ Ordered /\ offset \in Nat
  BY DEF MarkdownInvariant, RunsSplit, MarkdownTypeOK
<1>2. \A e \in seen.pieces \cup seen.bounds : e.at \in Nat /\ e.unit \in Nat
  <2> TAKE e \in seen.pieces \cup seen.bounds
  <2>1. e.at \in 1 .. offset - 1 /\ e.unit \in 1 .. e.at
    BY <1>1 DEF Ordered
  <2> QED
    BY <1>1, <2>1
<1> SUFFICES ASSUME NEW p \in Kept, NEW q \in Kept, p.home = 0, q.home = 0, p.at < q.at
             PROVE  /\ (\A b \in seen.bounds : b.at < p.unit \/ (b.at > q.at /\ b.unit # q.unit))
                         => BlockOf(p) = BlockOf(q)
                    /\ (\E b \in seen.bounds : p.at < b.at /\ b.at < q.at /\ b.unit \notin {p.unit, q.unit})
                         => BlockOf(p) < BlockOf(q)
  BY DEF RunsWhole
<1>3. p \in Runs /\ q \in Runs /\ p \in seen.pieces /\ q \in seen.pieces
  BY DEF Kept, Runs
<1>4. PICK k \in BlocksOf(p), l \in BlocksOf(q) : TRUE
  BY DEF Kept
<1>5. /\ BlockOf(p) = k /\ k \in Places /\ k \in 1 .. Len(converted) /\ p.at \in HeldIn(k) /\ k > 0
      /\ BlockOf(q) = l /\ l \in Places /\ l \in 1 .. Len(converted) /\ q.at \in HeldIn(l)
  BY <1>3, <1>4, BlocksOfPiece
<1>6. ASSUME \A b \in seen.bounds : b.at < p.unit \/ (b.at > q.at /\ b.unit # q.unit)
      PROVE  k = l
  <2>1. ~Split(p, q)
    <3> SUFFICES ASSUME NEW b \in seen.bounds, b.at >= p.unit, b.at <= q.at \/ b.unit = q.unit
                 PROVE  FALSE
      BY DEF Split
    <3>1. b.at < p.unit \/ (b.at > q.at /\ b.unit # q.unit)
      BY <1>6
    <3>2. b.at \in Nat /\ p.unit \in Nat /\ q.at \in Nat
      BY <1>2, <1>3
    <3> QED
      BY <3>1, <3>2
  <2> QED
    BY <1>1, <1>3, <1>5, <2>1 DEF SplitAtBounds
<1>7. ASSUME NEW b \in seen.bounds, p.at < b.at, b.at < q.at, b.unit \notin {p.unit, q.unit}
      PROVE  k < l
  BY <1>1, <1>3, <1>5, <1>7 DEF BoundsPart
<1> QED
  BY <1>5, <1>6, <1>7

(* A block starts between the outermost element of its first piece and the *)
(* piece.                                                                  *)
LEMMA StartsAreHeld ==
    ASSUME MarkdownInvariant, seen.ended
    PROVE  StartsHold
<1>1. MarkdownTypeOK /\ Ordered /\ Accounted /\ Started /\ offset \in Nat
  BY DEF MarkdownInvariant, MarkdownTypeOK
<1>2. \A e \in seen.pieces : e.at \in Nat \ {0} /\ e.unit \in Nat \ {0} /\ e.unit <= e.at
  <2> TAKE e \in seen.pieces
  <2>1. e.at \in 1 .. offset - 1 /\ e.unit \in 1 .. e.at
    BY <1>1 DEF Ordered
  <2> QED
    BY <1>1, <2>1
<1> SUFFICES ASSUME NEW p \in Kept,
                    \A x \in ToSet(converted[BlockOf(p)].text) : p.at <= x \/ x = 0,
                    Head(converted[BlockOf(p)].text) # 0
             PROVE  p.unit <= converted[BlockOf(p)].start /\ converted[BlockOf(p)].start <= p.at
  BY DEF StartsHold
<1>3. p \in seen.pieces
  BY DEF Kept
<1>4. PICK n \in BlocksOf(p) : TRUE
  BY DEF Kept
<1>5. BlockOf(p) = n /\ n \in 1 .. Len(converted) /\ n \in Places /\ HeldIn(n) = Said(converted[n].text)
  BY <1>1, <1>3, <1>4, BlocksOfPiece, PlacesAre DEF InBlock
<1>6. PICK s : s = converted[n].start
  OBVIOUS
<1>7. s \in 1 .. p.at
  BY <1>3, <1>4, <1>6, BlockIsHome
<1>8. p.unit <= s
  <2>1. CASE converted[n].kind = "text"
    <3>1. StartsAfter(converted[n].text, s)
      BY <1>1, <1>5, <1>6, <2>1 DEF Started
    <3>2. converted[n] \in Blocks
      BY <1>1, <1>5 DEF MarkdownTypeOK
    <3>3. PICK t \in Seq(Nat) : t = converted[n].text
      BY <3>2 DEF Blocks
    <3>4. t # << >>
      BY <3>1, <3>3 DEF StartsAfter
    <3>5. t[1] # 0 /\ t[1] \in ToSet(t)
      <4>1. t[1] = Head(t) /\ 1 \in DOMAIN t
        BY <3>4
      <4> QED
        BY <1>5, <3>3, <4>1 DEF ToSet
    <3>6. p.at <= t[1]
      BY <1>5, <3>3, <3>5
    <3>7. PICK q \in seen.pieces : q.at = t[1]
      <4>1. t[1] \in HeldIn(n)
        BY <1>5, <3>3, <3>5 DEF Said
      <4> QED
        BY <1>1, <1>5, <4>1 DEF Accounted
    <3>8. q.unit <= s
      BY <3>1, <3>3, <3>7 DEF StartsAfter
    <3>9. CASE p.at = q.at
      <4>1. p = q
        BY <1>1, <1>3, <3>9 DEF Accounted
      <4> QED
        BY <3>8, <4>1
    <3>10. CASE p.at < q.at
      <4>1. p.unit = q.unit \/ p.at < q.unit
        BY <1>1, <1>3, <3>10 DEF Ordered
      <4> QED
        BY <1>2, <1>3, <1>7, <3>8, <4>1
    <3> QED
      BY <1>2, <1>3, <3>6, <3>7, <3>9, <3>10
  <2>2. CASE converted[n].kind # "text"
    <3>1. p.home = s /\ p.home # 0
      BY <1>3, <1>4, <1>6, <2>2, BlockIsHome
    <3>2. p.home \in p.unit .. p.at
      BY <1>1, <1>3, <3>1 DEF Ordered
    <3> QED
      BY <1>2, <1>3, <3>1, <3>2
  <2> QED
    BY <2>1, <2>2
<1>9. s <= p.at
  BY <1>2, <1>3, <1>7
<1> QED
  BY <1>5, <1>6, <1>8, <1>9

(* The texts that hold at the six levels after a block, and after the first *)
(* blocks of a document.                                                    *)
LevelTexts == [1 .. 6 -> Seq(Nat)]
NoTexts == [l \in 1 .. 6 |-> << >>]
LevelsAfter(path, b) ==
    IF b.kind # "heading" THEN path
    ELSE [l \in 1 .. 6 |-> IF l < b.level THEN path[l] ELSE IF l = b.level THEN b.text ELSE << >>]
LevelsOf(n) ==
    LET path[m \in 0 .. n - 1] == IF m = 0 THEN NoTexts ELSE LevelsAfter(path[m - 1], converted[m])
    IN path

(* The path of a block is what its levels hold down to the deepest. *)
LEMMA PathIsOfLevels ==
    ASSUME NEW n
    PROVE  heading_path_from_blocks(n) =
              SubSeq(LevelsOf(n)[n - 1], 1, Highest({l \in 1 .. 6 : LevelsOf(n)[n - 1][l] # << >>}))
BY DEF heading_path_from_blocks, LevelsOf, LevelsAfter, NoTexts

(* Levels hold texts. *)
LEMMA LevelsTyped ==
    ASSUME NEW path \in LevelTexts, NEW b \in Blocks
    PROVE  LevelsAfter(path, b) \in LevelTexts
<1>1. b.text \in Seq(Nat) /\ << >> \in Seq(Nat)
  BY DEF Blocks
<1>2. \A l \in 1 .. 6 : path[l] \in Seq(Nat)
  BY DEF LevelTexts
<1>3. [l \in 1 .. 6 |-> IF l < b.level THEN path[l] ELSE IF l = b.level THEN b.text ELSE << >>] \in LevelTexts
  BY <1>1, <1>2 DEF LevelTexts
<1> QED
  BY <1>3 DEF LevelsAfter

(* The recursive function of the path goes through the blocks. *)
LEMMA LevelsAre ==
    ASSUME converted \in Seq(Blocks), NEW n \in 1 .. Len(converted) + 1
    PROVE  /\ LevelsOf(n)[0] = NoTexts
           /\ \A m \in 1 .. n - 1 : LevelsOf(n)[m] = LevelsAfter(LevelsOf(n)[m - 1], converted[m])
<1>1. PICK len \in Nat : len = n - 1
  OBVIOUS
<1>2. \A m \in 1 .. len : converted[m] \in Blocks
  <2>1. \A m \in 1 .. len : m \in 1 .. Len(converted)
    BY <1>1
  <2> QED
    BY <2>1
<1> DEFINE path == CHOOSE g : g = [m \in 0 .. len |-> IF m = 0 THEN NoTexts ELSE LevelsAfter(g[m - 1], converted[m])]
           step == [p \in Nat \X LevelTexts |->
                      IF p[1] + 1 \in 1 .. len THEN LevelsAfter(p[2], converted[p[1] + 1]) ELSE NoTexts]
<1>3. LevelsOf(n) = path
  BY <1>1 DEF LevelsOf
<1>4. NoTexts \in LevelTexts
  <2>1. << >> \in Seq(Nat)
    OBVIOUS
  <2> QED
    BY <2>1 DEF NoTexts, LevelTexts
<1>5. /\ IsStep(step, LevelTexts)
      /\ \A m \in Nat, v \in LevelTexts : m + 1 \in 1 .. len => step[<<m, v>>] = LevelsAfter(v, converted[m + 1])
  <2>1. ASSUME NEW p \in Nat \X LevelTexts
        PROVE  (IF p[1] + 1 \in 1 .. len THEN LevelsAfter(p[2], converted[p[1] + 1]) ELSE NoTexts) \in LevelTexts
    <3>1. CASE p[1] + 1 \in 1 .. len
      <4>1. p[2] \in LevelTexts
        OBVIOUS
      <4> QED
        BY <1>2, <3>1, <4>1, LevelsTyped
    <3>2. CASE p[1] + 1 \notin 1 .. len
      BY <1>4, <3>2
    <3> QED
      BY <3>1, <3>2
  <2> QED
    BY <2>1 DEF IsStep
<1>6. PICK f : Iterates(f, LevelTexts, NoTexts, step)
  <2> HIDE DEF step
  <2> QED
    BY <1>4, <1>5, Recursion
<1> HIDE DEF step
<1> DEFINE g == [m \in 0 .. len |-> f[m]]
<1>7. g = [m \in 0 .. len |-> IF m = 0 THEN NoTexts ELSE LevelsAfter(g[m - 1], converted[m])]
  <2>1. ASSUME NEW m \in 0 .. len, m # 0
        PROVE  g[m] = LevelsAfter(g[m - 1], converted[m])
    <3>1. m - 1 \in Nat /\ m - 1 \in 0 .. len /\ (m - 1) + 1 = m /\ m \in 1 .. len /\ f[m - 1] \in LevelTexts
      BY <1>6, <2>1 DEF Iterates
    <3>2. f[m] = step[<<m - 1, f[m - 1]>>]
      BY <1>6, <3>1 DEF Iterates
    <3> QED
      BY <1>5, <3>1, <3>2
  <2>2. g[0] = NoTexts
    BY <1>6 DEF Iterates
  <2> QED
    BY <2>1, <2>2
<1> HIDE DEF g
<1>8. path = [m \in 0 .. len |-> IF m = 0 THEN NoTexts ELSE LevelsAfter(path[m - 1], converted[m])]
  BY <1>7
<1> HIDE DEF path
<1>9. \A m \in 0 .. len : path[m] = IF m = 0 THEN NoTexts ELSE LevelsAfter(path[m - 1], converted[m])
  BY <1>8
<1>10. 0 \in 0 .. len /\ \A m \in 1 .. len : m \in 0 .. len /\ m # 0
  OBVIOUS
<1> QED
  BY <1>1, <1>3, <1>9, <1>10

(* The headings at a level or above among the first blocks, and whether the *)
(* last of them is at the level.                                            *)
HeadsAt(m, l) == {i \in 1 .. m : converted[i].kind = "heading" /\ converted[i].level <= l}
StandsAt(m, l) == HeadsAt(m, l) # {} /\ converted[Highest(HeadsAt(m, l))].level = l
LevelHolds(t, m, l) ==
    /\ StandsAt(m, l) => t = converted[Highest(HeadsAt(m, l))].text
    /\ ~StandsAt(m, l) => t = << >>

(* The greatest of a set. *)
LEMMA LastIsHighest ==
    ASSUME NEW S, NEW m \in S, S \subseteq Nat, \A y \in S : y <= m
    PROVE  Highest(S) = m
<1>1. S # {}
  OBVIOUS
<1>2. \A x \in S : (\A y \in S : y <= x) => x = m
  OBVIOUS
<1> QED
  BY <1>1, <1>2 DEF Highest

(* A level holds the last heading at it or above, if that is at it, after *)
(* one more block.                                                        *)
LEMMA LevelsGoOn ==
    ASSUME converted \in Seq(Blocks), NEW m \in Nat, m + 1 \in 1 .. Len(converted),
           converted[m + 1].kind = "heading" => converted[m + 1].level \in 1 .. 6,
           NEW path \in LevelTexts, \A l \in 1 .. 6 : LevelHolds(path[l], m, l)
    PROVE  \A l \in 1 .. 6 : LevelHolds(LevelsAfter(path, converted[m + 1])[l], m + 1, l)
<1> TAKE l \in 1 .. 6
<1>1. PICK b : b = converted[m + 1]
  OBVIOUS
<1>2. \A i \in 1 .. m + 1 : i \in 1 .. m \/ i = m + 1
  OBVIOUS
<1>3. \A i \in 1 .. m : i \in 1 .. m + 1
  OBVIOUS
<1>4. m + 1 \in 1 .. m + 1
  OBVIOUS
<1>5. CASE b.kind # "heading" \/ ~(b.level <= l)
  <2>1. HeadsAt(m + 1, l) = HeadsAt(m, l)
    BY <1>1, <1>2, <1>3, <1>5 DEF HeadsAt
  <2>2. LevelHolds(path[l], m + 1, l)
    BY <2>1 DEF LevelHolds, StandsAt
  <2>3. LevelsAfter(path, b)[l] = path[l]
    <3>1. CASE b.kind # "heading"
      BY <3>1 DEF LevelsAfter
    <3>2. CASE b.kind = "heading"
      <4>1. l < b.level
        BY <1>1, <1>5, <3>2
      <4> QED
        BY <3>2, <4>1 DEF LevelsAfter
    <3> QED
      BY <3>1, <3>2
  <2> QED
    BY <1>1, <2>2, <2>3
<1>6. CASE b.kind = "heading" /\ b.level <= l
  <2>1. m + 1 \in HeadsAt(m + 1, l)
    BY <1>1, <1>4, <1>6 DEF HeadsAt
  <2>2. HeadsAt(m + 1, l) \subseteq Nat /\ \A i \in HeadsAt(m + 1, l) : i <= m + 1
    BY DEF HeadsAt
  <2>3. Highest(HeadsAt(m + 1, l)) = m + 1
    BY <2>1, <2>2, LastIsHighest
  <2>4. StandsAt(m + 1, l) <=> b.level = l
    BY <1>1, <2>1, <2>3 DEF StandsAt
  <2>5. ~(l < b.level)
    BY <1>1, <1>6
  <2>6. LevelsAfter(path, b)[l] = IF l = b.level THEN b.text ELSE << >>
    BY <1>6, <2>5 DEF LevelsAfter
  <2> QED
    BY <1>1, <2>3, <2>4, <2>6 DEF LevelHolds
<1> QED
  BY <1>5, <1>6

(* A level holds the last heading at it or above, if that is at it. *)
LEMMA LevelsHold ==
    ASSUME converted \in Seq(Blocks), NEW n \in 1 .. Len(converted) + 1,
           \A i \in 1 .. Len(converted) : converted[i].kind = "heading" => converted[i].level \in 1 .. 6
    PROVE  /\ LevelsOf(n)[n - 1] \in LevelTexts
           /\ \A l \in 1 .. 6 : LevelHolds(LevelsOf(n)[n - 1][l], n - 1, l)
<1>1. PICK len \in Nat : len = n - 1 /\ len <= Len(converted)
  OBVIOUS
<1>2. PICK levels : levels = LevelsOf(n)
  OBVIOUS
<1>3. levels[0] = NoTexts /\ \A m \in 1 .. len : levels[m] = LevelsAfter(levels[m - 1], converted[m])
  BY <1>1, <1>2, LevelsAre
<1> DEFINE Right == {m \in Nat : m \in 0 .. len =>
                       levels[m] \in LevelTexts /\ \A l \in 1 .. 6 : LevelHolds(levels[m][l], m, l)}
<1>4. 0 \in Right
  <2>1. << >> \in Seq(Nat)
    OBVIOUS
  <2>2. NoTexts \in LevelTexts /\ \A l \in 1 .. 6 : NoTexts[l] = << >>
    BY <2>1 DEF NoTexts, LevelTexts
  <2>3. \A l \in 1 .. 6 : HeadsAt(0, l) = {}
    BY DEF HeadsAt
  <2>4. \A l \in 1 .. 6 : LevelHolds(NoTexts[l], 0, l)
    BY <2>2, <2>3 DEF LevelHolds, StandsAt
  <2> QED
    BY <1>3, <2>2, <2>4
<1>5. ASSUME NEW m \in Nat, m \in Right
      PROVE  m + 1 \in Right
  <2> SUFFICES ASSUME m + 1 \in 0 .. len
               PROVE  /\ levels[m + 1] \in LevelTexts
                      /\ \A l \in 1 .. 6 : LevelHolds(levels[m + 1][l], m + 1, l)
    OBVIOUS
  <2>1. m + 1 \in 1 .. len /\ m \in 0 .. len /\ (m + 1) - 1 = m
    OBVIOUS
  <2>2. m + 1 \in 1 .. Len(converted)
    BY <1>1, <2>1
  <2>3. PICK path \in LevelTexts : path = levels[m] /\ \A l \in 1 .. 6 : LevelHolds(path[l], m, l)
    BY <1>5, <2>1
  <2>4. levels[m + 1] = LevelsAfter(path, converted[m + 1])
    BY <1>3, <2>1, <2>3
  <2>5. converted[m + 1] \in Blocks
    BY <2>2
  <2>6. \A l \in 1 .. 6 : LevelHolds(LevelsAfter(path, converted[m + 1])[l], m + 1, l)
    BY <2>2, <2>3, LevelsGoOn
  <2> QED
    BY <2>4, <2>5, <2>6, LevelsTyped
<1> HIDE DEF Right
<1>6. Nat \subseteq Right
  BY <1>4, <1>5, Induction
<1> QED
  BY <1>1, <1>2, <1>6 DEF Right

(* A function on the first numbers is a sequence. *)
LEMMA FunctionsAreSeqs ==
    ASSUME NEW S, NEW n \in Nat, NEW f \in [1 .. n -> S]
    PROVE  f \in Seq(S) /\ Len(f) = n /\ DOMAIN f = 1 .. n
OBVIOUS

(* The first elements of a sequence. *)
LEMMA FirstPart ==
    ASSUME NEW S, NEW s \in Seq(S), NEW n \in 0 .. Len(s)
    PROVE  /\ DOMAIN SubSeq(s, 1, n) = 1 .. n
           /\ \A i \in 1 .. n : SubSeq(s, 1, n)[i] = s[i]
OBVIOUS

(* So does the path of a block. *)
LEMMA PathsAlwaysHold ==
    ASSUME MarkdownInvariant
    PROVE  PathsHold
<1>1. converted \in Seq(Blocks)
  BY DEF MarkdownInvariant, MarkdownTypeOK
<1>2. \A i \in 1 .. Len(converted) : converted[i].kind = "heading" =>
         converted[i].level \in 1 .. 6 /\ converted[i].text # << >>
  BY DEF MarkdownInvariant, Sound
<1> SUFFICES ASSUME NEW n \in 1 .. Len(converted) + 1
             PROVE  /\ \A l \in 1 .. 6 : StandsAt(n - 1, l) =>
                          /\ l \in DOMAIN heading_path_from_blocks(n)
                          /\ heading_path_from_blocks(n)[l] = converted[Highest(HeadsAt(n - 1, l))].text
                    /\ \A l \in DOMAIN heading_path_from_blocks(n) :
                          heading_path_from_blocks(n)[l] # << >> => StandsAt(n - 1, l)
  BY DEF PathsHold, StandsAt, HeadsAt
<1>3. PICK t \in LevelTexts : t = LevelsOf(n)[n - 1] /\ \A l \in 1 .. 6 : LevelHolds(t[l], n - 1, l)
  BY <1>1, <1>2, LevelsHold
<1>4. PICK h : h = Highest({l \in 1 .. 6 : t[l] # << >>})
  OBVIOUS
<1>5. heading_path_from_blocks(n) = SubSeq(t, 1, h)
  BY <1>3, <1>4, PathIsOfLevels
<1>6. h \in 0 .. 6 /\ \A l \in 1 .. 6 : t[l] # << >> => l <= h
  <2>1. CASE {l \in 1 .. 6 : t[l] # << >>} = {}
    <3>1. h = 0
      BY <1>4, <2>1 DEF Highest
    <3> QED
      BY <2>1, <3>1
  <2>2. CASE {l \in 1 .. 6 : t[l] # << >>} # {}
    <3>1. {l \in 1 .. 6 : t[l] # << >>} \in SUBSET Nat /\ \A y \in {l \in 1 .. 6 : t[l] # << >>} : y <= 6
      OBVIOUS
    <3>2. h \in {l \in 1 .. 6 : t[l] # << >>} /\ \A y \in {l \in 1 .. 6 : t[l] # << >>} : y <= h
      BY <1>4, <2>2, <3>1, HighestIs
    <3> QED
      BY <3>2
  <2> QED
    BY <2>1, <2>2
<1>7. PICK s : s = SubSeq(t, 1, h) /\ DOMAIN s = 1 .. h /\ \A l \in 1 .. h : s[l] = t[l]
  <2>1. t \in Seq(Seq(Nat)) /\ Len(t) = 6
    <3>1. t \in [1 .. 6 -> Seq(Nat)] /\ 6 \in Nat
      BY DEF LevelTexts
    <3> QED
      BY <3>1, FunctionsAreSeqs
  <2>2. h \in 0 .. Len(t)
    BY <1>6, <2>1
  <2>3. DOMAIN SubSeq(t, 1, h) = 1 .. h /\ \A l \in 1 .. h : SubSeq(t, 1, h)[l] = t[l]
    BY <2>1, <2>2, FirstPart
  <2> QED
    BY <2>3
<1>8. ASSUME NEW l \in 1 .. 6, StandsAt(n - 1, l)
      PROVE  l \in DOMAIN s /\ s[l] = converted[Highest(HeadsAt(n - 1, l))].text
  <2>1. t[l] = converted[Highest(HeadsAt(n - 1, l))].text
    BY <1>3, <1>8 DEF LevelHolds
  <2>2. Highest(HeadsAt(n - 1, l)) \in HeadsAt(n - 1, l)
    <3>1. HeadsAt(n - 1, l) \in SUBSET Nat /\ HeadsAt(n - 1, l) # {} /\ n - 1 \in Nat
          /\ \A y \in HeadsAt(n - 1, l) : y <= n - 1
      BY <1>8 DEF HeadsAt, StandsAt
    <3> QED
      BY <3>1, HighestIs
  <2>3. PICK i \in 1 .. n - 1 : i = Highest(HeadsAt(n - 1, l)) /\ converted[i].kind = "heading"
    BY <2>2 DEF HeadsAt
  <2>4. i \in 1 .. Len(converted)
    BY <1>1, <2>3
  <2>5. t[l] # << >>
    BY <1>2, <2>1, <2>3, <2>4
  <2>6. l \in 1 .. h
    BY <1>6, <2>5
  <2> QED
    BY <1>7, <2>1, <2>6
<1>9. ASSUME NEW l \in DOMAIN s, s[l] # << >>
      PROVE  StandsAt(n - 1, l)
  <2>1. l \in 1 .. h /\ l \in 1 .. 6
    BY <1>6, <1>7
  <2> QED
    BY <1>3, <1>7, <1>9, <2>1 DEF LevelHolds
<1> QED
  BY <1>5, <1>7, <1>8, <1>9

(* The invariant gives what is promised of the blocks at the end. *)
LEMMA InvariantIsFaithful ==
    ASSUME MarkdownInvariant
    PROVE  BlocksFaithful
BY KeptIsOnce, RunsAreWhole, StartsAreHeld, PathsAlwaysHold DEF BlocksFaithful

(* Whatever the document, markdown_to_blocks_with_pages loses no text but    *)
(* what is adrift and says none twice, splits running text at structural     *)
(* elements and nowhere else, gives each block a start that is right, and    *)
(* heading_path_from_blocks names the headings that hold.                    *)
THEOREM BlocksAlwaysFaithful == MarkdownSpec => []BlocksFaithful
<1>1. MarkdownInvariant => BlocksFaithful
  BY InvariantIsFaithful
<1> QED
  BY <1>1, MarkdownInvariantHolds, PTL
=============================================================================
