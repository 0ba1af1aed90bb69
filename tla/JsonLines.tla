----------------------------- MODULE JsonLines -----------------------------
(***************************************************************************)
(* An append-only JSON-lines file, up to what JSON.parse tells apart.  A   *)
(* line is the sequence of the pieces written on it; a piece is the JSON   *)
(* of a record, whole or cut short.  A line parses when it is one whole    *)
(* piece.  Blank lines are skipped by every reader and are not modelled.   *)
(***************************************************************************)
EXTENDS Naturals, Sequences

Whole(r) == [record |-> r, whole |-> TRUE]
Cut(r)   == [record |-> r, whole |-> FALSE]

Parses(line) == Len(line) = 1 /\ line[1].whole

\* Every reader throws when some line does not parse.
AllParse(lines) == \A k \in 1..Len(lines) : Parses(lines[k])

Records(lines) == [k \in 1..Len(lines) |-> lines[k][1].record]

(* The lines after writing pieces at the end of the file, each piece on a  *)
(* line of its own; the first is glued to a last line without a newline.   *)
WriteAtEnd(lines, terminated, pieces) ==
  LET new == [k \in 1..Len(pieces) |-> <<pieces[k]>>]
  IN  IF terminated \/ pieces = <<>>
      THEN lines \o new
      ELSE [lines EXCEPT ![Len(lines)] = @ \o new[1]] \o Tail(new)

-----------------------------------------------------------------------------
(* What a write that was cut off may have left of its pieces: the first n  *)
(* on whole lines, or besides them the next one, cut short or without its  *)
(* newline.  A pair of the lines and whether the file ends in a newline.   *)
CutOffAtLine(lines, terminated, pieces) ==
  {<<WriteAtEnd(lines, terminated, SubSeq(pieces, 1, n)), terminated \/ n > 0>> :
     n \in 0..Len(pieces)}

CutOffInside(lines, terminated, pieces) ==
  UNION {{<<WriteAtEnd(lines, terminated, Append(SubSeq(pieces, 1, n), last)), FALSE>> :
            last \in {pieces[n + 1], Cut(pieces[n + 1].record)}} : n \in 0..(Len(pieces) - 1)}
=============================================================================
