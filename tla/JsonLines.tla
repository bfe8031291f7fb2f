-------------------------------- MODULE JsonLines --------------------------------
(***************************************************************************)
(* A file of JSON lines that is only ever appended to.  An append that     *)
(* fails may leave nothing, half of its record, the record without its     *)
(* newline, or all of it; what is appended next continues an open line.    *)
(***************************************************************************)
EXTENDS Sequences

Pieces(Entries) == [entry : Entries, whole : BOOLEAN]

(* lines: the lines that end with a newline; open: the one that does not.  *)
Files(Entries) == [lines : Seq(Seq(Pieces(Entries))), open : Seq(Pieces(Entries))]
EmptyFile      == [lines |-> <<>>, open |-> <<>>]

Piece(e, whole) == [entry |-> e, whole |-> whole]

Appended(file, e) == [lines |-> Append(file.lines, Append(file.open, Piece(e, TRUE))),
                      open  |-> <<>>]

Continued(file, piece) == [file EXCEPT !.open = Append(@, piece)]

(* What a failed append may leave.                                         *)
Torn(file, e) == {file, Continued(file, Piece(e, FALSE)), Continued(file, Piece(e, TRUE)),
                  Appended(file, e)}

(* A line is valid JSON when it is one whole record and nothing else.      *)
Parses(line) == Len(line) = 1 /\ line[1].whole

EndedLinesParse(file) == \A i \in DOMAIN file.lines : Parses(file.lines[i])

(* The records of a file whose ended lines parse; the open line counts     *)
(* when it parses, too.                                                    *)
Records(file) ==
    LET ended == [i \in DOMAIN file.lines |-> file.lines[i][1].entry]
    IN  IF Parses(file.open) THEN Append(ended, file.open[1].entry) ELSE ended
=================================================================================
