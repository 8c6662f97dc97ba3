----------------------------- MODULE TextLayer ------------------------------
(***************************************************************************)
(* The text of a letter as rules and extractors read it, and the way back  *)
(* from a span of it to the letter (engine/textlayer).  A text is a        *)
(* sequence of characters of six kinds: a letter, the same letter composed *)
(* with its mark, a combining mark, a hyphen, a space and a line break.    *)
(* Positions count from zero and ranges are half-open, as in the code.     *)
(***************************************************************************)
EXTENDS Question, Lists

Character == {"letter", "composed", "mark", "hyphen", "space", "newline"}
Whitespace == {"space", "newline"}
Blank(c) == c \in Whitespace
Alpha(c) == c \in {"letter", "composed"}

Cut(text, from, to) == SubSeq(text, from + 1, to)

(* Where the characters of these kinds, from position i on, come to an end.  *)
EndOfRun(text, i, these) ==
  CHOOSE j \in i .. Len(text) : /\ \A k \in i + 1 .. j : text[k] \in these
                                /\ j < Len(text) => text[j + 1] \notin these
EndOfWhitespace(text, i) == EndOfRun(text, i, Whitespace)
EndOfMarks(text, i) == EndOfRun(text, i, {"mark"})

(* A character with the marks after it, as unicodedata.normalize("NFC", ...)  *)
(* writes it.                                                                *)
BeginsCluster(text, p) ==
  ~ Blank(text[p]) /\ (text[p] = "mark" => p = 1 \/ Blank(text[p - 1]))
Composed(cluster) ==
  IF Len(cluster) > 1 /\ cluster[1] = "letter"
  THEN <<"composed">> \o SubSeq(cluster, 3, Len(cluster)) ELSE cluster
ClusterAt(text, p) == Composed(Cut(text, p - 1, EndOfMarks(text, p)))

(* A hyphen between two letters with a line break in the whitespace after it. *)
AfterALetter(text, p) ==
  \E h \in 1 .. p - 1 : /\ BeginsCluster(text, h) /\ EndOfMarks(text, h) = p - 1
                        /\ Alpha(Last(ClusterAt(text, h)))
Hyphenation(text, p) ==
  LET after == EndOfWhitespace(text, p)
  IN  /\ text[p] = "hyphen" /\ AfterALetter(text, p)
      /\ \E k \in p + 1 .. after : text[k] = "newline"
      /\ after < Len(text) /\ Alpha(text[after + 1])

(* _emit: what is put out where the pass comes to a character, and the range  *)
(* of the letter it came from; nothing for a character it goes over.         *)
BlanksCollapse(text, p) ==
  /\ Blank(text[p]) /\ EndOfWhitespace(text, p) < Len(text)
  /\ p > 1 /\ ~ Blank(text[p - 1]) /\ ~ Hyphenation(text, p - 1)
Chunk(text, p) ==
  CASE BlanksCollapse(text, p) -> <<"space">>
    [] BeginsCluster(text, p) /\ ~ Hyphenation(text, p) -> ClusterAt(text, p)
    [] OTHER -> << >>
Emissions(text) ==
  [p \in DOMAIN text |->
     [chunk |-> Chunk(text, p), from |-> p - 1,
      to |-> IF Blank(text[p]) THEN EndOfWhitespace(text, p) ELSE EndOfMarks(text, p)]]

Joined(emitted) == FlattenSeq([k \in DOMAIN emitted |-> emitted[k].chunk])

Normalized(text) == Joined(Emissions(text))

SameLength(s) == s.normEnd - s.normStart = s.origEnd - s.origStart

(* _segments: runs of one to one emissions merge while both sides touch.     *)
(* Mutant: they merge when the normalized side touches.                      *)
MergesOverGaps(last, new) ==
  SameLength(last) /\ SameLength(new) /\ last.normEnd = new.normStart

Merges(last, new) ==
  /\ SameLength(last) /\ SameLength(new)
  /\ last.normEnd = new.normStart /\ last.origEnd = new.origStart

WithEmission(segments, e) ==
  LET last == Last(segments)
      at == IF segments = << >> THEN 0 ELSE last.normEnd
      new == [normStart |-> at, normEnd |-> at + Len(e.chunk),
              origStart |-> e.from, origEnd |-> e.to]
  IN  IF e.chunk = << >> THEN segments
      ELSE IF segments # << >> /\ Merges(last, new)
      THEN Append(Front(segments),
                  [last EXCEPT !.normEnd = new.normEnd, !.origEnd = new.origEnd])
      ELSE Append(segments, new)
Segments(emitted) == FoldLeft(WithEmission, << >>, emitted)

TranslateStart(segments, start) ==
  LET of == {i \in DOMAIN segments :
               segments[i].normStart <= start /\ start < segments[i].normEnd}
      s == segments[CHOOSE i \in of : TRUE]
  IN  IF of = {} THEN segments[Len(segments)].origEnd
      ELSE IF SameLength(s) THEN s.origStart + (start - s.normStart) ELSE s.origStart

TranslateEnd(segments, end) ==
  LET of == {i \in DOMAIN segments :
               segments[i].normStart < end /\ end <= segments[i].normEnd}
      s == segments[CHOOSE i \in of : TRUE]
  IN  IF end <= 0 THEN segments[1].origStart
      ELSE IF of = {} THEN segments[Len(segments)].origEnd
      ELSE IF SameLength(s) THEN s.origStart + (end - s.normStart) ELSE s.origEnd

(* translate_span, original_span *)
Original(segments, start, end) ==
  IF segments = << >> THEN [from |-> 0, to |-> 0]
  ELSE [from |-> TranslateStart(segments, IF start > 0 THEN start ELSE 0),
        to |-> TranslateEnd(segments, IF end > start THEN end ELSE start)]

-----------------------------------------------------------------------------
Stripped(text) ==
  IF text = << >> THEN text
  ELSE Cut(text, IF text[1] = "space" THEN 1 ELSE 0,
           IF text[Len(text)] = "space" THEN Len(text) - 1 ELSE Len(text))

(* A position inside the characters one emission put out. *)
SplitsCluster(text, p) ==
  LET e == Emissions(text)
      upto(k) == Len(Joined(SubSeq(e, 1, k)))
  IN  \A k \in 0 .. Len(e) : upto(k) # p

(* Every span of the normalized text leads to the passage of the letter that *)
(* says it: normalized by itself, that passage is the span again, over line  *)
(* breaks, joined hyphens and composed letters (normalize.py: "exact by      *)
(* construction").                                                           *)
AQuoteIsInTheLetter ==
  Asked("letter") =>
    LET text == question.text
        norm == Normalized(text)
        segments == Segments(Emissions(text))
    IN  \A end \in 1 .. Len(norm) : \A start \in 0 .. end - 1 :
          LET place == Original(segments, start, end)
          IN  SplitsCluster(text, start) \/ SplitsCluster(text, end)
                \/ Normalized(Cut(text, place.from, place.to))
                     = Stripped(Cut(norm, start, end))
=============================================================================
