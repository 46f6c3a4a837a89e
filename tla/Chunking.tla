------------------------------ MODULE Chunking ------------------------------
(***************************************************************************)
(* How a document is cut into the chunks that are embedded and stored:     *)
(* pkg/parser/chunk.go. Pure functions, without a state of their own. What *)
(* a loop holds after n turns is a function of n, and what one turn does   *)
(* an operator.                                                            *)
(*                                                                         *)
(* A character is a pair of what it is and where the document has it: a    *)
(* chunk's characters are compared by the first, and the second tells      *)
(* which of them the chunk holds. "." stands for every sentence boundary,  *)
(* "/" for a new line, " " for every other white space. What the chunker   *)
(* writes itself is nowhere in the document: its place is 0.               *)
(***************************************************************************)
EXTENDS Integers, Sequences, FiniteSets, SequencesExt, FiniteSetsExt

CONSTANTS Letters,   \* what a character is that is nothing to the chunker
          Documents, \* texts
          Sizes,     \* of chunks
          Overlaps

Character == (Letters \cup {".", "/", " "}) \X Nat

ASSUME DocumentsAssumption ==
    \A text \in Documents : text \in Seq(Character) /\ \A i \in DOMAIN text : text[i][2] = i

\* Config.Validate refuses other sizes. ChunkText itself copes with every overlap.
ASSUME SizesAssumption == Sizes \subseteq Nat \ {0}
ASSUME OverlapsAssumption == Overlaps \subseteq Int

IsSentenceBoundary(c) == c[1] = "."
IsNewLine(c) == c[1] = "/"
IsSpace(c) == c[1] \in {" ", "/"}
NewLine == <<"/", 0>>

TrimSpace(text) ==
    LET inked == {i \in 1..Len(text) : ~ IsSpace(text[i])}
    IN IF inked = {} THEN <<>> ELSE SubSeq(text, Min(inked), Max(inked))

\* A piece is kept trimmed, and only if something is left of it.
Flush(pieces, text) ==
    IF TrimSpace(text) = <<>> THEN pieces ELSE Append(pieces, TrimSpace(text))

-----------------------------------------------------------------------------
(* Segments: the sentences of the paragraphs.                              *)

\* strings.Fields joined by single spaces.
Squeeze(kept, c) ==
    IF IsSpace(c) /\ (kept = <<>> \/ IsSpace(Last(kept))) THEN kept ELSE Append(kept, c)
Normalized(text) ==
    LET kept[n \in 0..Len(text)] == IF n = 0 THEN <<>> ELSE Squeeze(kept[n - 1], text[n])
    IN TrimSpace(kept[Len(text)])

\* Of the two loops over characters below: what they have made, and what they are at.
Begun == [done |-> <<>>, open |-> <<>>]

EndSentence(s) == [done |-> Flush(s.done, s.open), open |-> <<>>]
ReadSentence(s, c) ==
    LET read == [s EXCEPT !.open = Append(@, c)]
    IN IF IsSentenceBoundary(c) THEN EndSentence(read) ELSE read
SplitParagraph(paragraph) ==
    LET after[n \in 0..Len(paragraph)] ==
          IF n = 0 THEN Begun ELSE ReadSentence(after[n - 1], paragraph[n])
    IN EndSentence(after[Len(paragraph)]).done

EndParagraph(s) == [done |-> s.done \o SplitParagraph(Normalized(s.open)), open |-> <<>>]
ReadParagraph(s, c) ==
    IF IsNewLine(c) THEN EndParagraph(s) ELSE [s EXCEPT !.open = Append(@, c)]
SplitTextSegments(text) ==
    LET after[n \in 0..Len(text)] ==
          IF n = 0 THEN Begun ELSE ReadParagraph(after[n - 1], text[n])
    IN EndParagraph(after[Len(text)]).done

-----------------------------------------------------------------------------
(* Chunks.                                                                 *)

\* A part begins every size characters; one that ends just before a sentence boundary takes it in,
\* and the next part has it again.
CutEnd(segment, start, size) ==
    LET end == start + size IN
      IF end > Len(segment) THEN Len(segment)
      ELSE IF end < Len(segment) /\ IsSentenceBoundary(segment[end + 1]) THEN end + 1
      ELSE end
TakePart(p, segment, size) ==
    [done |-> Flush(p.done, SubSeq(segment, p.start + 1, CutEnd(segment, p.start, size))),
     start |-> p.start + size]
CutWhole(p, segment, size) == \* Variant: the last part is only made when it is whole.
    IF p.start + size > Len(segment) THEN p ELSE TakePart(p, segment, size)
Cut(p, segment, size) == IF p.start >= Len(segment) THEN p ELSE TakePart(p, segment, size)

\* Len(segment) turns are enough, and those after the loop's end change nothing.
SplitLongSegment(segment, size) ==
    LET after[n \in 0..Len(segment)] ==
          IF n = 0 THEN [done |-> <<>>, start |-> 0] ELSE Cut(after[n - 1], segment, size)
    IN after[Len(segment)].done

TailRunes(text, size) ==
    LET runes == TrimSpace(text) IN SubSeq(runes, Max({Len(runes) - size, 0}) + 1, Len(runes))

HasPrefix(text, start) ==
    Len(start) <= Len(text) /\ \A i \in DOMAIN start : start[i][1] = text[i][1]

\* appendChunk: a chunk begins with the end of the one before, unless it does so already.
AppendChunk(chunks, text, overlap) ==
    LET chunk == TrimSpace(text)
        tail == IF chunks = <<>> THEN <<>> ELSE TailRunes(Last(chunks), overlap)
    IN IF chunk = <<>> THEN chunks
       ELSE IF HasPrefix(chunk, tail) THEN Append(chunks, chunk)
       ELSE Append(chunks, TrimSpace(tail \o <<NewLine>> \o chunk))

AppendParts(chunks, parts, overlap) ==
    LET after[n \in 0..Len(parts)] ==
          IF n = 0 THEN chunks ELSE AppendChunk(after[n - 1], parts[n], overlap)
    IN after[Len(parts)]

\* A short segment joins those that wait to be a chunk, or makes one of them and waits itself; a
\* long one makes one of them and is cut.
TakeSegment(s, segment, size, overlap) ==
    LET joined == IF s.open = <<>> THEN segment ELSE s.open \o <<NewLine>> \o segment
        made == AppendChunk(s.done, s.open, overlap)
    IN IF Len(segment) > size
       THEN [done |-> AppendParts(made, SplitLongSegment(segment, size), overlap), open |-> <<>>]
       ELSE IF Len(joined) <= size THEN [s EXCEPT !.open = joined]
       ELSE [done |-> made, open |-> segment]

\* The overlap that is used.
Clamped(size, overlap) == Min({Max({overlap, 0}), size - 1})

ChunkText(text, size, overlap) ==
    LET segments == SplitTextSegments(text)
        tail == Clamped(size, overlap)
        after[n \in 0..Len(segments)] ==
          IF n = 0 THEN Begun ELSE TakeSegment(after[n - 1], segments[n], size, tail)
        end == after[Len(segments)]
    IN IF size <= 0 THEN <<>> ELSE AppendChunk(end.done, end.open, tail)

-----------------------------------------------------------------------------
(* What it is for. The bounded inputs are in the module that checks it.    *)

\* The first chunk that has a character of the document.
Holder(chunks, c) == Min({k \in DOMAIN chunks : c \in ToSet(chunks[k])})

\* No chunk is blank or longer than the size, one boundary and the overlap with its new line; each
\* begins with what the one before ends with; all the document says is in its chunks; and what it
\* says earlier is in no later chunk first.
ChunkedWhole(text, size, overlap) ==
    LET chunks == ChunkText(text, size, overlap)
        tail == Clamped(size, overlap)
        said == {i \in DOMAIN text : ~ IsSpace(text[i])}
    IN /\ \A k \in DOMAIN chunks :
            /\ TrimSpace(chunks[k]) # <<>>
            /\ Len(chunks[k]) <= size + 1 + (IF tail = 0 THEN 0 ELSE tail + 1)
            /\ k > 1 => HasPrefix(chunks[k], TrimSpace(TailRunes(chunks[k - 1], tail)))
       /\ \A i \in said : \E k \in DOMAIN chunks : text[i] \in ToSet(chunks[k])
       /\ \A i, j \in said : i < j => Holder(chunks, text[i]) <= Holder(chunks, text[j])
=============================================================================
