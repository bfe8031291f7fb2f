------------------------------- MODULE RecordProofs -------------------------------
(***************************************************************************)
(* What is recorded stays recorded: the mutation journal, for any number   *)
(* of processes and records, and the telemetry log with its read model,    *)
(* for any set of events and batches.  At the end, the composition of      *)
(* these with the circuit, the failover, the decisions, the workflows and  *)
(* the commits.                                                            *)
(***************************************************************************)
EXTENDS Orchestration, ModelRuntimeProofs, WorkProofs, SequenceTheorems, FiniteSetTheorems,
        TLAPS

(* Files of JSON lines                                                     *)

LEMMA SequenceFacts ==
    ASSUME NEW S, NEW s \in Seq(S)
    PROVE  /\ Len(s) \in Nat /\ DOMAIN s = 1..Len(s)
           /\ \A i \in 1..Len(s) : s[i] \in S
           /\ Len(s) = 0 => s = <<>>
  OBVIOUS

LEMMA AppendFacts ==
    ASSUME NEW S, NEW s \in Seq(S), NEW e \in S
    PROVE  /\ Append(s, e) \in Seq(S)
           /\ Len(Append(s, e)) = Len(s) + 1
           /\ DOMAIN Append(s, e) = 1..(Len(s) + 1)
           /\ \A i \in 1..Len(s) : Append(s, e)[i] = s[i]
           /\ Append(s, e)[Len(s) + 1] = e
  OBVIOUS

LEMMA FunctionIsSequence ==
    ASSUME NEW S, NEW n \in Nat, NEW f \in [1..n -> S]
    PROVE  f \in Seq(S) /\ Len(f) = n
<1>1. f \in Seq(S)
  BY SeqDef
<1>2. DOMAIN f = 1..n /\ DOMAIN f = 1..Len(f) /\ Len(f) \in Nat
  BY <1>1
<1>3. n > 0 => n \in 1..Len(f)
  BY <1>2
<1>4. Len(f) > 0 => Len(f) \in 1..n
  BY <1>2
<1>5. QED
  BY <1>1, <1>2, <1>3, <1>4

LEMMA PrefixFacts ==
    ASSUME NEW S, NEW s, NEW m \in Nat, \A j \in 1..m : s[j] \in S
    PROVE  /\ SubSeq(s, 1, m) \in Seq(S)
           /\ Len(SubSeq(s, 1, m)) = m
           /\ \A j \in 1..m : SubSeq(s, 1, m)[j] = s[j]
<1>1. SubSeq(s, 1, m) \in Seq(S)
  BY SubSeqProperties
<1>2. Len(SubSeq(s, 1, m)) = m
  OBVIOUS
<1>3. \A j \in 1..m : SubSeq(s, 1, m)[j] = s[j]
  OBVIOUS
<1>4. QED
  BY <1>1, <1>2, <1>3

LEMMA FileFacts ==
    ASSUME NEW E, NEW file \in Files(E)
    PROVE  /\ file.lines \in Seq(Seq(Pieces(E)))
           /\ file.open \in Seq(Pieces(E))
           /\ file = [lines |-> file.lines, open |-> file.open]
  BY DEF Files

(* The line that a record ends parses only where nothing was left open.    *)
LEMMA OnlyWholeLinesParse ==
    ASSUME NEW E, NEW open \in Seq(Pieces(E)), NEW piece \in Pieces(E),
           Parses(Append(open, piece))
    PROVE  open = <<>> /\ piece.whole
<1>1. Len(open) = 0
  BY AppendFacts DEF Parses
<1>2. open = <<>>
  BY <1>1
<1>3. Append(open, piece)[1] = piece
  BY <1>1, AppendFacts
<1>4. QED
  BY <1>2, <1>3 DEF Parses

LEMMA PieceType ==
    ASSUME NEW E, NEW e \in E, NEW whole \in BOOLEAN
    PROVE  Piece(e, whole) \in Pieces(E) /\ Piece(e, whole).entry = e
           /\ Piece(e, whole).whole = whole
  BY DEF Piece, Pieces

LEMMA AppendedType ==
    ASSUME NEW E, NEW file \in Files(E), NEW e \in E
    PROVE  /\ Appended(file, e) \in Files(E)
           /\ \A whole \in BOOLEAN : Continued(file, Piece(e, whole)) \in Files(E)
<1>1. Append(file.lines, Append(file.open, Piece(e, TRUE))) \in Seq(Seq(Pieces(E)))
  BY FileFacts, AppendFacts, PieceType
<1>2. ASSUME NEW whole \in BOOLEAN PROVE Append(file.open, Piece(e, whole)) \in Seq(Pieces(E))
  BY FileFacts, AppendFacts, PieceType
<1>3. Appended(file, e) \in Files(E)
  <2>1. <<>> \in Seq(Pieces(E))
    BY EmptySeq
  <2>2. QED
    BY <1>1, <2>1 DEF Appended, Files
<1>4. ASSUME NEW whole \in BOOLEAN PROVE Continued(file, Piece(e, whole)) \in Files(E)
  BY <1>2 DEF Continued, Files
<1>5. QED
  BY <1>3, <1>4

LEMMA TornType ==
    ASSUME NEW E, NEW file \in Files(E), NEW e \in E, NEW torn \in Torn(file, e)
    PROVE  torn \in Files(E)
  BY AppendedType DEF Torn

EndedRecords(file) == [i \in DOMAIN file.lines |-> file.lines[i][1].entry]

LEMMA EndedRecordsType ==
    ASSUME NEW E, NEW file \in Files(E), EndedLinesParse(file)
    PROVE  /\ EndedRecords(file) \in Seq(E)
           /\ Len(EndedRecords(file)) = Len(file.lines)
<1>1. Len(file.lines) \in Nat /\ DOMAIN file.lines = 1..Len(file.lines)
  BY FileFacts, SequenceFacts
<1>2. ASSUME NEW i \in DOMAIN file.lines PROVE file.lines[i][1].entry \in E
  <2>1. file.lines[i] \in Seq(Pieces(E)) /\ Len(file.lines[i]) = 1
    BY FileFacts, SequenceFacts, <1>1 DEF EndedLinesParse, Parses
  <2>2. file.lines[i][1] \in Pieces(E)
    BY <2>1, SequenceFacts
  <2>3. QED
    BY <2>2 DEF Pieces
<1>3. EndedRecords(file) \in [1..Len(file.lines) -> E]
  BY <1>1, <1>2 DEF EndedRecords
<1>4. QED
  BY <1>1, <1>3, FunctionIsSequence

LEMMA RecordsType ==
    ASSUME NEW E, NEW file \in Files(E), EndedLinesParse(file)
    PROVE  Records(file) \in Seq(E)
<1>1. EndedRecords(file) \in Seq(E)
  BY EndedRecordsType
<1>2. ASSUME Parses(file.open) PROVE file.open[1].entry \in E
  <2>1. file.open[1] \in Pieces(E)
    BY <1>2, FileFacts, SequenceFacts DEF Parses
  <2>2. QED
    BY <2>1 DEF Pieces
<1>3. QED
  BY <1>1, <1>2, AppendFacts DEF Records, EndedRecords

(* A file that an append has changed and that parses still, has gained the *)
(* record as its last one; nothing was left open before.                   *)
LEMMA AppendThatParses ==
    ASSUME NEW E, NEW file \in Files(E), NEW e \in E,
           EndedLinesParse(Appended(file, e))
    PROVE  /\ EndedLinesParse(file)
           /\ file.open = <<>>
           /\ Records(Appended(file, e)) = Append(Records(file), e)
<1> DEFINE new  == Appended(file, e)
           line == Append(file.open, Piece(e, TRUE))
           n    == Len(file.lines)
<1>1. new.lines = Append(file.lines, line) /\ new.open = <<>>
  BY DEF Appended
<1>2. /\ Piece(e, TRUE) \in Pieces(E)
      /\ file.lines \in Seq(Seq(Pieces(E))) /\ file.open \in Seq(Pieces(E))
  BY FileFacts, PieceType
<1>3. line \in Seq(Pieces(E))
  BY <1>2, AppendFacts
<1>4. n \in Nat /\ DOMAIN file.lines = 1..n
  BY <1>2, SequenceFacts
<1> HIDE DEF new, line, n
<1>5. /\ DOMAIN new.lines = 1..(n + 1) /\ new.lines[n + 1] = line
      /\ \A i \in 1..n : new.lines[i] = file.lines[i]
  BY <1>1, <1>2, <1>3, AppendFacts DEF n
<1>6. Parses(line) /\ \A i \in 1..n : Parses(file.lines[i])
  <2>1. \A i \in 1..(n + 1) : Parses(new.lines[i])
    BY <1>5 DEF EndedLinesParse, new
  <2>2. n + 1 \in 1..(n + 1) /\ \A i \in 1..n : i \in 1..(n + 1)
    BY <1>4
  <2>3. QED
    BY <1>5, <2>1, <2>2
<1>7. EndedLinesParse(file)
  BY <1>4, <1>6 DEF EndedLinesParse
<1>8. file.open = <<>>
  BY <1>2, <1>6, OnlyWholeLinesParse DEF line
<1>9. line[1].entry = e
  <2>1. line[1] = Piece(e, TRUE)
    BY <1>8 DEF line
  <2>2. QED
    BY <2>1, PieceType
<1>10. ~Parses(file.open) /\ ~Parses(new.open)
  BY <1>1, <1>8 DEF Parses
<1>11. EndedRecords(new) = Append(EndedRecords(file), e)
  <2>1. /\ EndedRecords(file) \in Seq(E) /\ Len(EndedRecords(file)) = n
        /\ DOMAIN EndedRecords(file) = 1..n
    BY <1>4, <1>7, EndedRecordsType DEF EndedRecords, n
  <2>2. /\ Append(EndedRecords(file), e) \in Seq(E)
        /\ Len(Append(EndedRecords(file), e)) = n + 1
        /\ Append(EndedRecords(file), e)[n + 1] = e
        /\ \A i \in 1..n : Append(EndedRecords(file), e)[i] = EndedRecords(file)[i]
    BY <2>1, AppendFacts
  <2>3. EndedRecords(new) \in Seq(E) /\ Len(EndedRecords(new)) = n + 1
    <3>1. new \in Files(E)
      BY AppendedType DEF new
    <3>2. new.lines \in Seq(Seq(Pieces(E))) /\ Len(new.lines) = n + 1
      BY <1>1, <1>2, <1>3, AppendFacts DEF n
    <3>3. QED
      BY <3>1, <3>2, EndedRecordsType DEF new
  <2>4. /\ EndedRecords(new)[n + 1] = e
        /\ \A i \in 1..n : EndedRecords(new)[i] = EndedRecords(file)[i]
    <3>1. n + 1 \in 1..(n + 1) /\ \A i \in 1..n : i \in 1..(n + 1)
      BY <1>4
    <3>2. QED
      BY <1>4, <1>5, <1>9, <3>1 DEF EndedRecords
  <2>5. \A i \in 1..(n + 1) : i \in 1..n \/ i = n + 1
    BY <1>4
  <2>6. \A i \in 1..(n + 1) : EndedRecords(new)[i] = Append(EndedRecords(file), e)[i]
    BY <2>2, <2>4, <2>5
  <2>7. QED
    BY <2>2, <2>3, <2>6, SeqEqual
<1>12. QED
  BY <1>7, <1>8, <1>10, <1>11 DEF Records, EndedRecords, new

(* The same where the append left a whole record without its newline.      *)
LEMMA ContinuationThatParses ==
    ASSUME NEW E, NEW file \in Files(E), NEW e \in E, NEW whole \in BOOLEAN,
           EndedLinesParse(Continued(file, Piece(e, whole))),
           Parses(Continued(file, Piece(e, whole)).open)
    PROVE  /\ EndedLinesParse(file)
           /\ file.open = <<>>
           /\ Records(Continued(file, Piece(e, whole))) = Append(Records(file), e)
<1> DEFINE new == Continued(file, Piece(e, whole))
<1>1. /\ new.lines = file.lines /\ new.open = Append(file.open, Piece(e, whole))
      /\ Piece(e, whole) \in Pieces(E) /\ file.open \in Seq(Pieces(E))
  BY FileFacts, PieceType DEF Continued, Files
<1> HIDE DEF new
<1>2. file.open = <<>>
  BY <1>1, OnlyWholeLinesParse DEF new
<1>3. EndedLinesParse(file)
  BY <1>1 DEF EndedLinesParse, new
<1>4. new.open[1].entry = e
  <2>1. new.open[1] = Piece(e, whole)
    BY <1>1, <1>2
  <2>2. QED
    BY <2>1, PieceType
<1>5. Parses(new.open) /\ ~Parses(file.open)
  BY <1>2 DEF Parses, new
<1>6. Records(new) = Append(Records(file), e)
  BY <1>1, <1>4, <1>5 DEF Records
<1>7. QED
  BY <1>2, <1>3, <1>6 DEF new
-----------------------------------------------------------------------------
(* The mutation journal                                                    *)

LEMMA JournalInitially == JournalInit => JournalTypeOK /\ OneHistory
<1> SUFFICES ASSUME JournalInit PROVE JournalTypeOK /\ OneHistory
  OBVIOUS
<1>1. EmptyFile \in Files(JournalRecords)
  BY EmptySeq DEF EmptyFile, Files
<1>2. JournalTypeOK
  BY <1>1, MutationJournalAssumption DEF JournalInit, JournalTypeOK
<1>3. OneHistory
  BY DEF JournalInit, OneHistory
<1>4. QED
  BY <1>2, <1>3

LEMMA HeadOfType ==
    ASSUME NEW records \in Seq(JournalRecords) PROVE HeadOf(records) \in Nat
<1>1. CASE records = <<>>
  BY <1>1 DEF HeadOf
<1>2. CASE records # <<>>
  <2>1. Len(records) \in 1..Len(records)
    BY <1>2, SequenceFacts
  <2>2. records[Len(records)] \in JournalRecords
    BY <2>1, SequenceFacts
  <2>3. QED
    BY <1>2, <2>2 DEF HeadOf, JournalRecords
<1>3. QED
  BY <1>1, <1>2

LEMMA JournalTypeStep ==
    ASSUME JournalTypeOK, [JournalNext]_journalVars PROVE JournalTypeOK'
<1>1. ASSUME ReadJournal PROVE JournalTypeOK'
  <2>1. Records(journal) \in Seq(JournalRecords)
    BY <1>1, RecordsType DEF ReadJournal, Verifies, JournalTypeOK
  <2>2. \A i \in DOMAIN Records(journal) : Records(journal)[i] \in JournalRecords
    BY <2>1, SequenceFacts
  <2>3. QED
    BY <1>1, <2>2 DEF ReadJournal, JournalTypeOK
<1>2. ASSUME NEW w \in Writers, DraftRecord(w) PROVE JournalTypeOK'
  <2>1. Records(journal) \in Seq(JournalRecords)
    BY <1>2, RecordsType DEF DraftRecord, Verifies, JournalTypeOK
  <2>2. /\ drafted + 1 \in Nat \ {0} /\ drafted + 1 \in 0..MaxRecords
        /\ Len(Records(journal)) + 1 \in Nat \ {0}
    BY <1>2, <2>1, MutationJournalAssumption, SequenceFacts DEF DraftRecord, JournalTypeOK
  <2>3. [content |-> drafted + 1, sequence |-> Len(Records(journal)) + 1,
         previous |-> HeadOf(Records(journal))] \in JournalRecords
    BY <2>1, <2>2, HeadOfType DEF JournalRecords
  <2>4. QED
    BY <1>2, <2>2, <2>3 DEF DraftRecord, JournalTypeOK
<1>3. ASSUME NEW w \in Writers, WriteRecord(w) PROVE JournalTypeOK'
  <2>1. draft[w] \in JournalRecords
    BY <1>3 DEF WriteRecord, JournalTypeOK
  <2>2. Appended(journal, draft[w]) \in Files(JournalRecords)
    BY <2>1, AppendedType DEF JournalTypeOK
  <2>3. QED
    BY <1>3, <2>1, <2>2 DEF WriteRecord, JournalTypeOK
<1>4. ASSUME NEW w \in Writers, WriteFails(w) PROVE JournalTypeOK'
  <2>1. draft[w] \in JournalRecords
    BY <1>4 DEF WriteFails, JournalTypeOK
  <2>2. journal' \in Files(JournalRecords)
    BY <1>4, <2>1, TornType DEF WriteFails, JournalTypeOK
  <2>3. QED
    BY <1>4, <2>2 DEF WriteFails, JournalTypeOK
<1>5. ASSUME UNCHANGED journalVars PROVE JournalTypeOK'
  BY <1>5 DEF journalVars, JournalTypeOK
<1>6. QED
  BY <1>1, <1>2, <1>3, <1>4, <1>5 DEF JournalNext

(* A journal with one more record verifies only if it did before: every    *)
(* record is checked against those in front of it only.                    *)
LEMMA VerifiedPrefix ==
    ASSUME NEW file \in Files(JournalRecords), NEW new, NEW r \in JournalRecords,
           Verifies(new), EndedLinesParse(file), file.open = <<>>,
           Records(new) = Append(Records(file), r)
    PROVE  /\ Verifies(file)
           /\ r.sequence = Len(Records(file)) + 1
<1> DEFINE old == Records(file)
           n   == Len(old)
<1>1. old \in Seq(JournalRecords) /\ n \in Nat
  BY RecordsType, SequenceFacts
<1> HIDE DEF old, n
<1>2. /\ Records(new) = Append(old, r)
      /\ DOMAIN Append(old, r) = 1..(n + 1) /\ DOMAIN old = 1..n
      /\ Append(old, r)[n + 1] = r
      /\ \A i \in 1..n : Append(old, r)[i] = old[i]
  BY <1>1, AppendFacts, SequenceFacts DEF old, n
<1>3. r.sequence = n + 1
  <2>1. n + 1 \in DOMAIN Records(new) /\ Records(new)[n + 1] = r
    BY <1>1, <1>2
  <2>2. QED
    BY <2>1 DEF Verifies
<1>4. ASSUME NEW i \in 1..n
      PROVE  old[i].sequence = i /\ old[i].previous = HeadOf(SubSeq(old, 1, i - 1))
  <2>1. /\ i \in DOMAIN Records(new) /\ Records(new)[i] = old[i]
        /\ i - 1 \in Int /\ 1 \in Int /\ i - 1 <= n
    BY <1>1, <1>2
  <2>2. SubSeq(Append(old, r), 1, i - 1) = SubSeq(old, 1, i - 1)
    <3> DEFINE m == i - 1
    <3>0. m \in Nat /\ \A j \in 1..m : j \in 1..n
      BY <1>1
    <3> HIDE DEF m
    <3>1. \A j \in 1..m : Append(old, r)[j] = old[j] /\ old[j] \in JournalRecords
      <4>1. \A j \in 1..n : old[j] \in JournalRecords
        BY <1>1, SequenceFacts DEF n
      <4>2. QED
        BY <1>2, <3>0, <4>1
    <3> DEFINE longer == Append(old, r)
    <3>2. /\ \A j \in 1..m : longer[j] \in JournalRecords
          /\ \A j \in 1..m : old[j] \in JournalRecords
          /\ \A j \in 1..m : longer[j] = old[j]
      BY <3>1
    <3> HIDE DEF longer
    <3>3. /\ SubSeq(longer, 1, m) \in Seq(JournalRecords)
          /\ Len(SubSeq(longer, 1, m)) = m
          /\ \A j \in 1..m : SubSeq(longer, 1, m)[j] = longer[j]
      BY <3>0, <3>2, PrefixFacts
    <3>4. /\ SubSeq(old, 1, m) \in Seq(JournalRecords)
          /\ Len(SubSeq(old, 1, m)) = m
          /\ \A j \in 1..m : SubSeq(old, 1, m)[j] = old[j]
      BY <3>0, <3>2, PrefixFacts
    <3>5. \A j \in 1..m : SubSeq(longer, 1, m)[j] = SubSeq(old, 1, m)[j]
      BY <3>2, <3>3, <3>4
    <3>6. SubSeq(longer, 1, m) = SubSeq(old, 1, m)
      BY <3>0, <3>3, <3>4, <3>5, SeqEqual
    <3>7. QED
      BY <3>6 DEF m, longer
  <2>3. QED
    BY <1>2, <2>1, <2>2 DEF Verifies
<1>5. Verifies(file)
  BY <1>2, <1>4 DEF Verifies, old
<1>6. QED
  BY <1>3, <1>5 DEF old, n

LEMMA HistoryStep ==
    ASSUME JournalTypeOK, OneHistory, [JournalNext]_journalVars PROVE OneHistory'
<1> USE DEF OneHistory
<1>1. ASSUME ReadJournal PROVE OneHistory'
  <2>1. \A i \in DOMAIN Records(journal) : Records(journal)[i].sequence = i
    BY <1>1 DEF ReadJournal, Verifies
  <2>2. QED
    BY <1>1, <2>1 DEF ReadJournal
<1>2. ASSUME NEW r \in JournalRecords, Verifies(journal'), EndedLinesParse(journal),
             journal.open = <<>>, Records(journal') = Append(Records(journal), r),
             witnessed' \subseteq witnessed \cup {r}
      PROVE  \A s \in witnessed' : /\ s.sequence \in DOMAIN Records(journal')
                                   /\ Records(journal')[s.sequence] = s
  <2>1. Verifies(journal) /\ r.sequence = Len(Records(journal)) + 1
    BY <1>2, VerifiedPrefix DEF JournalTypeOK
  <2>2. Records(journal) \in Seq(JournalRecords)
    BY <1>2, RecordsType DEF JournalTypeOK
  <2>3. /\ Len(Records(journal)) \in Nat
        /\ DOMAIN Records(journal) = 1..Len(Records(journal))
        /\ DOMAIN Records(journal') = 1..(Len(Records(journal)) + 1)
        /\ Records(journal')[Len(Records(journal)) + 1] = r
        /\ \A i \in 1..Len(Records(journal)) : Records(journal')[i] = Records(journal)[i]
    BY <1>2, <2>2, SequenceFacts, AppendFacts
  <2>4. ASSUME NEW s \in witnessed
        PROVE  s.sequence \in DOMAIN Records(journal') /\ Records(journal')[s.sequence] = s
    BY <2>1, <2>3
  <2>5. QED
    BY <1>2, <2>1, <2>3, <2>4
<1>3. ASSUME NEW w \in Writers, WriteRecord(w), Verifies(journal') PROVE OneHistory'
  <2>1. draft[w] \in JournalRecords /\ journal \in Files(JournalRecords)
    BY <1>3 DEF WriteRecord, JournalTypeOK
  <2>2. journal' = Appended(journal, draft[w]) /\ EndedLinesParse(journal')
    BY <1>3 DEF WriteRecord, Verifies
  <2>3. /\ EndedLinesParse(journal) /\ journal.open = <<>>
        /\ Records(journal') = Append(Records(journal), draft[w])
    BY <2>1, <2>2, AppendThatParses
  <2>4. QED
    BY <1>2, <1>3, <2>1, <2>3 DEF WriteRecord
<1>4. ASSUME NEW w \in Writers, WriteFails(w), Verifies(journal') PROVE OneHistory'
  <2>1. /\ draft[w] \in JournalRecords /\ journal \in Files(JournalRecords)
        /\ witnessed' = witnessed
    BY <1>4 DEF WriteFails, JournalTypeOK
  <2>2. EndedLinesParse(journal') /\ (journal'.open = <<>> \/ Parses(journal'.open))
    BY <1>4 DEF Verifies
  <2>3. CASE journal' = journal
    BY <2>1, <2>3
  <2>4. CASE journal' = Appended(journal, draft[w])
    <3>1. /\ EndedLinesParse(journal) /\ journal.open = <<>>
          /\ Records(journal') = Append(Records(journal), draft[w])
      BY <2>1, <2>2, <2>4, AppendThatParses
    <3>2. QED
      BY <1>2, <1>4, <2>1, <3>1
  <2>5. ASSUME NEW whole \in BOOLEAN, journal' = Continued(journal, Piece(draft[w], whole))
        PROVE  OneHistory'
    <3>1. journal'.open # <<>>
      <4>1. /\ journal.open \in Seq(Pieces(JournalRecords))
            /\ Piece(draft[w], whole) \in Pieces(JournalRecords)
            /\ journal'.open = Append(journal.open, Piece(draft[w], whole))
        BY <2>1, <2>5, FileFacts, PieceType DEF Continued, Files
      <4>2. QED
        BY <4>1
    <3>2. Parses(journal'.open)
      BY <2>2, <3>1
    <3>3. /\ EndedLinesParse(journal) /\ journal.open = <<>>
          /\ Records(journal') = Append(Records(journal), draft[w])
      BY <2>1, <2>2, <2>5, <3>2, ContinuationThatParses
    <3>4. QED
      BY <1>2, <1>4, <2>1, <3>3
  <2>6. QED
    BY <1>4, <2>3, <2>4, <2>5 DEF WriteFails, Torn
<1>5. ASSUME UNCHANGED <<journal, witnessed>> PROVE OneHistory'
  BY <1>5
<1>6. (\E w \in Writers : DraftRecord(w)) \/ UNCHANGED journalVars
      => UNCHANGED <<journal, witnessed>>
  BY DEF DraftRecord, journalVars
<1>7. QED
  BY <1>1, <1>3, <1>4, <1>5, <1>6 DEF JournalNext

(* The journal keeps its type.                                             *)
THEOREM JournalTypeCorrect == JournalSpec => []JournalTypeOK
<1>1. JournalTypeOK /\ [JournalNext]_journalVars => JournalTypeOK'
  BY JournalTypeStep
<1>2. QED
  BY JournalInitially, <1>1, PTL DEF JournalSpec

(* No interleaving of appends and no torn append makes the journal tell    *)
(* another history than the one that callers have seen: it verifies with   *)
(* all they have seen in its place, or it does not verify.                 *)
THEOREM OneHistoryHolds == JournalSpec => []OneHistory
<1>1. JournalTypeOK /\ OneHistory /\ [JournalNext]_journalVars => OneHistory'
  BY HistoryStep
<1>2. QED
  BY JournalInitially, JournalTypeCorrect, <1>1, PTL DEF JournalSpec
-----------------------------------------------------------------------------
(* The telemetry read model                                                *)

RunIndexed(tables, r) ==
    /\ RunRowAgrees(tables, r)
    /\ tables.runs[r] = NoRow => \A e \in tables.events : e.run # r

ArtifactIndexed(tables, a) ==
    /\ ArtifactRowAgrees(tables, a)
    /\ tables.artifacts[a] = NoRow => \A e \in tables.events : a \notin e.artifacts

(* The tables agree with the events in them, and know of no others.        *)
TablesAgree(tables) ==
    /\ tables \in Tables
    /\ IsFiniteSet(tables.events)
    /\ \A r \in Runs : RunIndexed(tables, r)
    /\ \A a \in Artifacts : ArtifactIndexed(tables, a)

(* Whatever the sink reported as appended stands on an ended line, unless  *)
(* some line is spoilt.                                                    *)
LoggedStands ==
    EndedLinesParse(log)
    => \A e \in logged : \E i \in DOMAIN log.lines : log.lines[i][1].entry = e

(* What an import owes is in its tables or still to be taken.              *)
ImportOwes ==
    batch # NoBatch
    => /\ TablesAgree(batch.tables)
       /\ readModel.events \subseteq batch.tables.events
       /\ \A e \in batch.owed : \/ e \in batch.tables.events
                                \/ \E i \in 1..Len(batch.todo) : batch.todo[i] = e

TelemetryInv == /\ TelemetryTypeOK
                /\ TablesAgree(readModel)
                /\ LoggedStands
                /\ ImportOwes
                /\ imported \subseteq readModel.events

LEMMA EventFacts ==
    ASSUME NEW e \in TelemetryEvents
    PROVE  /\ e.timestamp \in Nat /\ e.type \in EventTypes
           /\ e.run \in Runs /\ e.artifacts \subseteq Artifacts
           /\ e.run \notin Artifacts
           /\ RunStatus(e) \in {"NONE", "HUMAN_REQUIRED", "RUNNING", "COMPLETED"}
           /\ ArtifactState(e) \in {"OBSERVED", "CREATED", "INVALIDATED", "REUSED"}
<1>1. e.timestamp \in Nat /\ e.type \in EventTypes
  BY TelemetryAssumption
<1>2. e.run \in Runs /\ e.artifacts \subseteq Artifacts /\ e.run \notin Artifacts
  BY TelemetryAssumption DEF Runs, Artifacts
<1>3. RunStatus(e) \in {"NONE", "HUMAN_REQUIRED", "RUNNING", "COMPLETED"}
  BY DEF RunStatus, NoState
<1>4. ArtifactState(e) \in {"OBSERVED", "CREATED", "INVALIDATED", "REUSED"}
  BY DEF ArtifactState
<1>5. QED
  BY <1>1, <1>2, <1>3, <1>4

LEMMA EarlierLater ==
    ASSUME NEW s \in Nat, NEW t \in Nat
    PROVE  /\ Earlier(s, t) \in {s, t} /\ Earlier(s, t) <= s /\ Earlier(s, t) <= t
           /\ Later(s, t) \in {s, t} /\ s <= Later(s, t) /\ t <= Later(s, t)
  BY DEF Earlier, Later

LEMMA TablesFields ==
    ASSUME NEW tables \in Tables
    PROVE  /\ tables.events \subseteq TelemetryEvents
           /\ tables.runs \in [Runs -> RunRows \cup {NoRow}]
           /\ tables.artifacts \in [Artifacts -> ArtifactRows \cup {NoRow}]
  BY DEF Tables

(* What taking a new event changes, and what it leaves alone.              *)
LEMMA IngestFields ==
    ASSUME NEW tables \in Tables, NEW e \in TelemetryEvents, e \notin tables.events
    PROVE  /\ Ingest(tables, e).events = tables.events \cup {e}
           /\ Ingest(tables, e).runs[e.run] = ProjectRun(tables.runs[e.run], e)
           /\ \A r \in Runs : r # e.run => Ingest(tables, e).runs[r] = tables.runs[r]
           /\ \A a \in e.artifacts :
                 Ingest(tables, e).artifacts[a] = ProjectArtifact(tables.artifacts[a], e)
           /\ \A a \in Artifacts \ e.artifacts :
                 Ingest(tables, e).artifacts[a] = tables.artifacts[a]
  BY TablesFields, EventFacts DEF Ingest

(* The row of the run that a new event belongs to.                         *)
LEMMA RunRowStep ==
    ASSUME NEW tables \in Tables, IsFiniteSet(tables.events),
           NEW e \in TelemetryEvents, e \notin tables.events,
           RunIndexed(tables, e.run)
    PROVE  /\ RunIndexed(Ingest(tables, e), e.run)
           /\ ProjectRun(tables.runs[e.run], e) \in RunRows
<1> DEFINE r      == e.run
           events == {f \in tables.events : f.run = r}
           row    == tables.runs[r]
           new    == Ingest(tables, e)
           nrow   == ProjectRun(row, e)
           nevents == {f \in new.events : f.run = r}
<1>1. /\ new.events = tables.events \cup {e} /\ new.runs[r] = nrow
      /\ r \in Runs /\ e.timestamp \in Nat /\ e.type \in EventTypes
      /\ row \in RunRows \cup {NoRow}
      /\ events \subseteq TelemetryEvents
  BY IngestFields, EventFacts, TablesFields
<1>2. nevents = events \cup {e} /\ e \notin events
  BY <1>1
<1>4. /\ events = {} <=> row = NoRow
      /\ row # NoRow
         => /\ Bounds(row, events)
            /\ ShowsState(events, row.last, RunStatus, NoState, row.status)
            /\ row.human <=> \E f \in events : f.type = "human.required"
            /\ row.events = Cardinality(events)
            /\ row.calls = Cardinality({f \in events : f.type = "model.call.completed"})
            /\ \E f \in events : f.timestamp = row.last /\ f.type = row.lastType
  <2>1. RunRowAgrees(tables, r) /\ (row = NoRow => events = {})
    BY DEF RunIndexed
  <2>2. QED
    BY <2>1 DEF RunRowAgrees
<1>5. \A f \in events : f.timestamp \in Nat
  BY <1>1, EventFacts
<1>6. row # NoRow => /\ row.first \in Nat /\ row.last \in Nat /\ row.events \in Nat
                     /\ row.calls \in Nat /\ row.human \in BOOLEAN
                     /\ row.status \in {"NONE", "HUMAN_REQUIRED", "RUNNING", "COMPLETED"}
                     /\ row.lastType \in EventTypes
  BY <1>1 DEF RunRows
<1>7. RunStatus(e) \in {"NONE", "HUMAN_REQUIRED", "RUNNING", "COMPLETED"}
  BY EventFacts
<1> HIDE DEF new, nrow, row, events, nevents
<1>8. CASE row = NoRow
  <2>1. nrow = [first |-> e.timestamp, last |-> e.timestamp, status |-> RunStatus(e),
                human |-> e.type = "human.required", events |-> 1,
                calls |-> One(e.type = "model.call.completed"), lastType |-> e.type]
    BY <1>8 DEF nrow, ProjectRun
  <2>2. nrow \in RunRows
    BY <2>1, <1>1, <1>7 DEF RunRows, One
  <2>3. nevents = {e}
    BY <1>2, <1>4, <1>8
  <2>4. Bounds(nrow, nevents)
    BY <2>1, <2>3, <1>1 DEF Bounds
  <2>5. ShowsState(nevents, nrow.last, RunStatus, NoState, nrow.status)
    <3>1. nrow.status = RunStatus(e) /\ nrow.last = e.timestamp
      BY <2>1
    <3>2. QED
      BY <2>3, <3>1 DEF ShowsState
  <2>6. nrow.human <=> \E f \in nevents : f.type = "human.required"
    <3>1. nrow.human = (e.type = "human.required")
      BY <2>1
    <3>2. QED
      BY <3>1, <2>3, Zenon
  <2>7. nrow.events = Cardinality(nevents)
    BY <2>1, <2>3, FS_Singleton
  <2>8. nrow.calls = Cardinality({f \in nevents : f.type = "model.call.completed"})
    <3>1. CASE e.type = "model.call.completed"
      <4>1. {f \in nevents : f.type = "model.call.completed"} = {e}
        BY <2>3, <3>1
      <4>2. QED
        BY <2>1, <3>1, <4>1, FS_Singleton DEF One
    <3>2. CASE e.type # "model.call.completed"
      <4>1. {f \in nevents : f.type = "model.call.completed"} = {}
        BY <2>3, <3>2
      <4>2. QED
        BY <2>1, <3>2, <4>1, FS_EmptySet DEF One
    <3>3. QED
      BY <3>1, <3>2
  <2>9. \E f \in nevents : f.timestamp = nrow.last /\ f.type = nrow.lastType
    BY <2>1, <2>3
  <2>10. nrow # NoRow
    BY <2>2, NoRowAssumption
  <2>11. QED
    BY <1>1, <2>2, <2>3, <2>4, <2>5, <2>6, <2>7, <2>8, <2>9, <2>10
       DEF RunIndexed, RunRowAgrees, nevents, new, nrow, row
<1>9. CASE row # NoRow
  <2>1. nrow = [first    |-> Earlier(row.first, e.timestamp),
                last     |-> Later(row.last, e.timestamp),
                status   |-> IF e.timestamp >= row.last /\ RunStatus(e) # NoState
                             THEN RunStatus(e) ELSE row.status,
                human    |-> row.human \/ e.type = "human.required",
                events   |-> row.events + 1,
                calls    |-> row.calls + One(e.type = "model.call.completed"),
                lastType |-> IF e.timestamp >= row.last THEN e.type ELSE row.lastType]
    BY <1>9 DEF nrow, ProjectRun
  <2>2. nrow \in RunRows
    BY <2>1, <1>1, <1>6, <1>7, <1>9, EarlierLater DEF RunRows, One
  <2>3. Bounds(row, events)
    BY <1>4, <1>9
  <2>4. Bounds(nrow, nevents)
    BY <2>1, <2>3, <1>1, <1>2, <1>5, <1>6, <1>9, EarlierLater DEF Bounds
  <2>5. ShowsState(nevents, nrow.last, RunStatus, NoState, nrow.status)
    <3>1. ShowsState(events, row.last, RunStatus, NoState, row.status)
      BY <1>4, <1>9
    <3>2. \A g \in events : g.timestamp \in Nat /\ g.timestamp <= row.last
      BY <1>5, <2>3 DEF Bounds
    <3>3. /\ e.timestamp >= row.last => nrow.last = e.timestamp
          /\ ~(e.timestamp >= row.last) => nrow.last = row.last
      BY <1>1, <1>6, <1>9, <2>1 DEF Later
    <3>4. CASE RunStatus(e) # NoState /\ e.timestamp >= row.last
      <4>1. nrow.status = RunStatus(e) /\ nrow.last = e.timestamp
        BY <2>1, <3>3, <3>4
      <4>2. QED
        BY <1>2, <3>4, <4>1 DEF ShowsState
    <3>5. CASE ~(RunStatus(e) # NoState /\ e.timestamp >= row.last)
      <4>1. nrow.status = row.status
        BY <2>1, <3>5
      <4>2. nrow.status = NoState \/ \E f \in nevents : nrow.status = RunStatus(f)
        BY <1>2, <3>1, <4>1 DEF ShowsState
      <4>3. \A f \in nevents : f.timestamp = nrow.last /\ RunStatus(f) # NoState
                               => f \in events /\ nrow.last = row.last
        BY <1>1, <1>2, <1>6, <1>9, <3>2, <3>3, <3>5
      <4>4. CASE nrow.last = row.last
        BY <1>2, <3>1, <4>1, <4>2, <4>3, <4>4 DEF ShowsState
      <4>5. CASE nrow.last # row.last
        BY <4>2, <4>3, <4>5 DEF ShowsState
      <4>6. QED
        BY <4>4, <4>5
    <3>6. QED
      BY <3>4, <3>5
  <2>6. nrow.human <=> \E f \in nevents : f.type = "human.required"
    <3>1. nrow.human = (row.human \/ e.type = "human.required")
      BY <2>1
    <3>2. row.human <=> \E f \in events : f.type = "human.required"
      BY <1>4, <1>9
    <3>3. QED
      BY <3>1, <3>2, <1>2, Zenon
  <2>7. IsFiniteSet(events)
    BY FS_Subset DEF events
  <2>8. nrow.events = Cardinality(nevents)
    <3>1. Cardinality(events \cup {e}) = Cardinality(events) + 1
      BY <1>2, <2>7, FS_AddElement
    <3>2. nrow.events = row.events + 1 /\ row.events = Cardinality(events)
      BY <1>4, <1>9, <2>1
    <3>3. QED
      BY <1>2, <3>1, <3>2
  <2>9. nrow.calls = Cardinality({f \in nevents : f.type = "model.call.completed"})
    <3> DEFINE calls == {f \in events : f.type = "model.call.completed"}
    <3>1. IsFiniteSet(calls) /\ e \notin calls
      BY <1>2, <2>7, FS_Subset
    <3>2. row.calls = Cardinality(calls)
      BY <1>4, <1>9
    <3>3. CASE e.type = "model.call.completed"
      <4>1. {f \in nevents : f.type = "model.call.completed"} = calls \cup {e}
        BY <1>2, <3>3
      <4>2. nrow.calls = row.calls + 1
        BY <2>1, <3>3 DEF One
      <4> HIDE DEF calls
      <4>3. QED
        BY <3>1, <3>2, <4>1, <4>2, FS_AddElement
    <3>4. CASE e.type # "model.call.completed"
      <4>1. {f \in nevents : f.type = "model.call.completed"} = calls
        BY <1>2, <3>4
      <4>2. nrow.calls = row.calls
        BY <2>1, <3>4, <1>6, <1>9 DEF One
      <4>3. QED
        BY <3>2, <4>1, <4>2
    <3>5. QED
      BY <3>3, <3>4
  <2>10. \E f \in nevents : f.timestamp = nrow.last /\ f.type = nrow.lastType
    <3>1. CASE e.timestamp >= row.last
      <4>1. nrow.last = e.timestamp /\ nrow.lastType = e.type
        BY <1>1, <1>6, <1>9, <2>1, <3>1 DEF Later
      <4>2. QED
        BY <1>2, <4>1
    <3>2. CASE ~(e.timestamp >= row.last)
      <4>1. nrow.last = row.last /\ nrow.lastType = row.lastType
        BY <1>1, <1>6, <1>9, <2>1, <3>2 DEF Later
      <4>2. QED
        BY <1>2, <1>4, <1>9, <4>1
    <3>3. QED
      BY <3>1, <3>2
  <2>11. nrow # NoRow /\ nevents # {}
    BY <1>2, <2>2, NoRowAssumption
  <2>12. QED
    BY <1>1, <2>2, <2>4, <2>5, <2>6, <2>8, <2>9, <2>10, <2>11
       DEF RunIndexed, RunRowAgrees, nevents, new, nrow, row
<1>10. QED
  BY <1>8, <1>9

(* The row of an artifact that a new event names.                          *)
LEMMA ArtifactRowStep ==
    ASSUME NEW tables \in Tables,
           NEW e \in TelemetryEvents, e \notin tables.events,
           NEW a \in e.artifacts, ArtifactIndexed(tables, a)
    PROVE  /\ ArtifactIndexed(Ingest(tables, e), a)
           /\ ProjectArtifact(tables.artifacts[a], e) \in ArtifactRows
<1> DEFINE events == {f \in tables.events : a \in f.artifacts}
           row    == tables.artifacts[a]
           new    == Ingest(tables, e)
           nrow   == ProjectArtifact(row, e)
           nevents == {f \in new.events : a \in f.artifacts}
<1>1. /\ new.events = tables.events \cup {e} /\ new.artifacts[a] = nrow
      /\ a \in Artifacts /\ e.run \in Runs /\ e.timestamp \in Nat
      /\ row \in ArtifactRows \cup {NoRow}
      /\ events \subseteq TelemetryEvents
  BY IngestFields, EventFacts, TablesFields
<1>2. nevents = events \cup {e} /\ e \notin events
  BY <1>1
<1>4. /\ events = {} <=> row = NoRow
      /\ row # NoRow
         => /\ Bounds(row, events)
            /\ ShowsState(events, row.last, ArtifactState, "OBSERVED", row.state)
            /\ row.lastEvent \in events /\ row.lastEvent.timestamp = row.last
            /\ \E f \in events : f.run = row.run
  <2>1. ArtifactRowAgrees(tables, a) /\ (row = NoRow => events = {})
    BY DEF ArtifactIndexed
  <2>2. QED
    BY <2>1 DEF ArtifactRowAgrees
<1>5. \A f \in events : f.timestamp \in Nat
  BY <1>1, EventFacts
<1>6. row # NoRow => /\ row.first \in Nat /\ row.last \in Nat
                     /\ row.lastEvent \in TelemetryEvents
                     /\ row.state \in {"OBSERVED", "CREATED", "INVALIDATED", "REUSED"}
  BY <1>1 DEF ArtifactRows
<1>7. ArtifactState(e) \in {"OBSERVED", "CREATED", "INVALIDATED", "REUSED"}
  BY EventFacts
<1> HIDE DEF new, nrow, row, events, nevents
<1>8. CASE row = NoRow
  <2>1. nrow = [run |-> e.run, first |-> e.timestamp, last |-> e.timestamp,
                state |-> ArtifactState(e), lastEvent |-> e]
    BY <1>8 DEF nrow, ProjectArtifact
  <2>2. nrow \in ArtifactRows
    BY <2>1, <1>1, <1>7 DEF ArtifactRows
  <2>3. nevents = {e}
    BY <1>2, <1>4, <1>8
  <2>4. Bounds(nrow, nevents)
    BY <2>1, <2>3, <1>1 DEF Bounds
  <2>5. ShowsState(nevents, nrow.last, ArtifactState, "OBSERVED", nrow.state)
    <3>1. nrow.state = ArtifactState(e) /\ nrow.last = e.timestamp
      BY <2>1
    <3>2. QED
      BY <2>3, <3>1 DEF ShowsState
  <2>6. /\ nrow.lastEvent \in nevents /\ nrow.lastEvent.timestamp = nrow.last
        /\ \E f \in nevents : f.run = nrow.run
    BY <2>1, <2>3
  <2>7. nrow # NoRow
    BY <2>2, NoRowAssumption
  <2>8. QED
    BY <1>1, <2>2, <2>3, <2>4, <2>5, <2>6, <2>7
       DEF ArtifactIndexed, ArtifactRowAgrees, nevents, new, nrow, row
<1>9. CASE row # NoRow
  <2>1. nrow = [run       |-> e.run,
                first     |-> Earlier(row.first, e.timestamp),
                last      |-> Later(row.last, e.timestamp),
                state     |-> IF e.timestamp >= row.last /\ ArtifactState(e) # "OBSERVED"
                              THEN ArtifactState(e) ELSE row.state,
                lastEvent |-> IF e.timestamp >= row.last THEN e ELSE row.lastEvent]
    BY <1>9 DEF nrow, ProjectArtifact
  <2>2. nrow \in ArtifactRows
    BY <2>1, <1>1, <1>6, <1>7, <1>9, EarlierLater DEF ArtifactRows
  <2>3. Bounds(row, events)
    BY <1>4, <1>9
  <2>4. Bounds(nrow, nevents)
    BY <2>1, <2>3, <1>1, <1>2, <1>5, <1>6, <1>9, EarlierLater DEF Bounds
  <2>5. ShowsState(nevents, nrow.last, ArtifactState, "OBSERVED", nrow.state)
    <3>1. ShowsState(events, row.last, ArtifactState, "OBSERVED", row.state)
      BY <1>4, <1>9
    <3>2. \A g \in events : g.timestamp \in Nat /\ g.timestamp <= row.last
      BY <1>5, <2>3 DEF Bounds
    <3>3. /\ e.timestamp >= row.last => nrow.last = e.timestamp
          /\ ~(e.timestamp >= row.last) => nrow.last = row.last
      BY <1>1, <1>6, <1>9, <2>1 DEF Later
    <3>4. CASE ArtifactState(e) # "OBSERVED" /\ e.timestamp >= row.last
      <4>1. nrow.state = ArtifactState(e) /\ nrow.last = e.timestamp
        BY <2>1, <3>3, <3>4
      <4>2. QED
        BY <1>2, <3>4, <4>1 DEF ShowsState
    <3>5. CASE ~(ArtifactState(e) # "OBSERVED" /\ e.timestamp >= row.last)
      <4>1. nrow.state = row.state
        BY <2>1, <3>5
      <4>2. nrow.state = "OBSERVED" \/ \E f \in nevents : nrow.state = ArtifactState(f)
        BY <1>2, <3>1, <4>1 DEF ShowsState
      <4>3. \A f \in nevents : f.timestamp = nrow.last /\ ArtifactState(f) # "OBSERVED"
                               => f \in events /\ nrow.last = row.last
        BY <1>1, <1>2, <1>6, <1>9, <3>2, <3>3, <3>5
      <4>4. CASE nrow.last = row.last
        BY <1>2, <3>1, <4>1, <4>2, <4>3, <4>4 DEF ShowsState
      <4>5. CASE nrow.last # row.last
        BY <4>2, <4>3, <4>5 DEF ShowsState
      <4>6. QED
        BY <4>4, <4>5
    <3>6. QED
      BY <3>4, <3>5
  <2>6. nrow.lastEvent \in nevents /\ nrow.lastEvent.timestamp = nrow.last
    <3>1. CASE e.timestamp >= row.last
      <4>1. nrow.last = e.timestamp /\ nrow.lastEvent = e
        BY <1>1, <1>6, <1>9, <2>1, <3>1 DEF Later
      <4>2. QED
        BY <1>2, <4>1
    <3>2. CASE ~(e.timestamp >= row.last)
      <4>1. nrow.last = row.last /\ nrow.lastEvent = row.lastEvent
        BY <1>1, <1>6, <1>9, <2>1, <3>2 DEF Later
      <4>2. QED
        BY <1>2, <1>4, <1>9, <4>1
    <3>3. QED
      BY <3>1, <3>2
  <2>7. \E f \in nevents : f.run = nrow.run
    BY <1>2, <2>1
  <2>8. nrow # NoRow /\ nevents # {}
    BY <1>2, <2>2, NoRowAssumption
  <2>9. QED
    BY <1>1, <2>2, <2>4, <2>5, <2>6, <2>7, <2>8
       DEF ArtifactIndexed, ArtifactRowAgrees, nevents, new, nrow, row
<1>10. QED
  BY <1>8, <1>9

(* An event leaves the rows of other runs and artifacts as they are.       *)
LEMMA OtherRowsStay ==
    ASSUME NEW tables \in Tables,
           NEW e \in TelemetryEvents, e \notin tables.events
    PROVE  /\ \A r \in Runs \ {e.run} :
                 RunIndexed(tables, r) => RunIndexed(Ingest(tables, e), r)
           /\ \A a \in Artifacts \ e.artifacts :
                 ArtifactIndexed(tables, a) => ArtifactIndexed(Ingest(tables, e), a)
<1> DEFINE new == Ingest(tables, e)
<1>1. /\ new.events = tables.events \cup {e}
      /\ \A r \in Runs : r # e.run => new.runs[r] = tables.runs[r]
      /\ \A a \in Artifacts \ e.artifacts : new.artifacts[a] = tables.artifacts[a]
  BY IngestFields
<1> HIDE DEF new
<1>3. ASSUME NEW r \in Runs \ {e.run}, RunIndexed(tables, r) PROVE RunIndexed(new, r)
  <2>1. /\ {f \in new.events : f.run = r} = {f \in tables.events : f.run = r}
        /\ new.runs[r] = tables.runs[r]
    BY <1>1
  <2>3. RunRowAgrees(tables, r) => RunRowAgrees(new, r)
    BY <2>1 DEF RunRowAgrees
  <2>4. QED
    BY <1>1, <1>3, <2>1, <2>3 DEF RunIndexed
<1>4. ASSUME NEW a \in Artifacts \ e.artifacts, ArtifactIndexed(tables, a)
      PROVE  ArtifactIndexed(new, a)
  <2>1. /\ {f \in new.events : a \in f.artifacts} = {f \in tables.events : a \in f.artifacts}
        /\ new.artifacts[a] = tables.artifacts[a]
    BY <1>1
  <2>3. ArtifactRowAgrees(tables, a) => ArtifactRowAgrees(new, a)
    BY <2>1 DEF ArtifactRowAgrees
  <2>4. QED
    BY <1>1, <1>4, <2>1, <2>3 DEF ArtifactIndexed
<1>5. QED
  BY <1>3, <1>4 DEF new

LEMMA IngestKeepsAgreement ==
    ASSUME NEW tables, TablesAgree(tables), NEW e \in TelemetryEvents
    PROVE  /\ TablesAgree(Ingest(tables, e))
           /\ Ingest(tables, e).events = tables.events \cup {e}
<1>1. CASE e \in tables.events
  <2>1. Ingest(tables, e) = tables
    BY <1>1 DEF Ingest
  <2>2. QED
    BY <1>1, <2>1
<1>2. CASE e \notin tables.events
  <2> DEFINE new == Ingest(tables, e)
  <2>1. /\ tables \in Tables /\ IsFiniteSet(tables.events)
        /\ \A r \in Runs : RunIndexed(tables, r)
        /\ \A a \in Artifacts : ArtifactIndexed(tables, a)
    BY DEF TablesAgree
  <2>2. /\ e.run \in Runs /\ e.artifacts \subseteq Artifacts
    BY EventFacts
  <2>3. RunIndexed(new, e.run) /\ ProjectRun(tables.runs[e.run], e) \in RunRows
    BY <1>2, <2>1, <2>2, RunRowStep
  <2>4. \A a \in e.artifacts :
           ArtifactIndexed(new, a) /\ ProjectArtifact(tables.artifacts[a], e) \in ArtifactRows
    BY <1>2, <2>1, <2>2, ArtifactRowStep
  <2>5. /\ \A r \in Runs : RunIndexed(new, r)
        /\ \A a \in Artifacts : ArtifactIndexed(new, a)
    BY <1>2, <2>1, <2>2, <2>3, <2>4, OtherRowsStay
  <2>6. new.events = tables.events \cup {e}
    BY <1>2, <2>1, IngestFields
  <2>8. new \in Tables
    <3>1. [tables.runs EXCEPT ![e.run] = ProjectRun(@, e)] \in [Runs -> RunRows \cup {NoRow}]
      BY <2>1, <2>3, TablesFields
    <3>2. [a \in Artifacts |-> IF a \in e.artifacts
                               THEN ProjectArtifact(tables.artifacts[a], e)
                               ELSE tables.artifacts[a]]
          \in [Artifacts -> ArtifactRows \cup {NoRow}]
      BY <2>1, <2>4, TablesFields
    <3>3. new.events \subseteq TelemetryEvents
      BY <2>1, <2>6, TablesFields
    <3>4. QED
      BY <1>2, <2>6, <3>1, <3>2, <3>3 DEF Tables, Ingest
  <2>9. IsFiniteSet(new.events)
    BY <2>1, <2>6, FS_AddElement
  <2>10. QED
    BY <2>5, <2>6, <2>8, <2>9 DEF TablesAgree
<1>3. QED
  BY <1>1, <1>2

LEMMA EmptyIndexAgrees == TablesAgree(EmptyIndex)
<1>1. EmptyIndex \in Tables
  BY DEF EmptyIndex, Tables
<1>2. /\ EmptyIndex.events = {}
      /\ \A r \in Runs : EmptyIndex.runs[r] = NoRow
      /\ \A a \in Artifacts : EmptyIndex.artifacts[a] = NoRow
  BY DEF EmptyIndex
<1>3. \A r \in Runs : RunIndexed(EmptyIndex, r)
  BY <1>2 DEF RunIndexed, RunRowAgrees
<1>4. \A a \in Artifacts : ArtifactIndexed(EmptyIndex, a)
  BY <1>2 DEF ArtifactIndexed, ArtifactRowAgrees
<1>5. QED
  BY <1>1, <1>2, <1>3, <1>4, FS_EmptySet DEF TablesAgree

LEMMA TelemetryInitially == TelemetryInit => TelemetryInv
<1> SUFFICES ASSUME TelemetryInit PROVE TelemetryInv
  OBVIOUS
<1>1. EmptyFile \in Files(TelemetryEvents)
  BY EmptySeq DEF EmptyFile, Files
<1>2. TablesAgree(readModel) /\ readModel \in Tables
  BY EmptyIndexAgrees DEF TelemetryInit, TablesAgree
<1>3. QED
  BY <1>1, <1>2, TelemetryAssumption
     DEF TelemetryInit, TelemetryInv, TelemetryTypeOK, LoggedStands, ImportOwes

(* An append, whole or torn, moves no ended line; the record of a whole    *)
(* one stands on the line it ends.                                         *)
LEMMA AppendKeepsLines ==
    ASSUME NEW e \in TelemetryEvents, log \in Files(TelemetryEvents), LoggedStands,
           AppendEvent(e)
    PROVE  LoggedStands'
<1> SUFFICES ASSUME EndedLinesParse(log'), NEW f \in logged'
             PROVE  \E i \in DOMAIN log'.lines : log'.lines[i][1].entry = f
  BY DEF LoggedStands
<1>1. ASSUME log' = Appended(log, e), logged' \subseteq logged \cup {e}
      PROVE  \E i \in DOMAIN log'.lines : log'.lines[i][1].entry = f
  <2> DEFINE n    == Len(log.lines)
             line == Append(log.open, Piece(e, TRUE))
  <2>1. EndedLinesParse(log) /\ log.open = <<>>
    BY <1>1, AppendThatParses
  <2>2. /\ log.lines \in Seq(Seq(Pieces(TelemetryEvents)))
        /\ line \in Seq(Pieces(TelemetryEvents))
    BY FileFacts, AppendFacts, PieceType
  <2>3. log'.lines = Append(log.lines, line)
    BY <1>1 DEF Appended
  <2>4. line[1].entry = e
    <3>1. line[1] = Piece(e, TRUE)
      BY <2>1
    <3>2. QED
      BY <3>1, PieceType
  <2> HIDE DEF line
  <2>5. /\ n \in Nat /\ DOMAIN log.lines = 1..n
        /\ DOMAIN log'.lines = 1..(n + 1) /\ log'.lines[n + 1] = line
        /\ \A i \in 1..n : log'.lines[i] = log.lines[i]
    BY <2>2, <2>3, SequenceFacts, AppendFacts
  <2>6. CASE f = e
    BY <2>4, <2>5, <2>6
  <2>7. CASE f \in logged
    <3>1. PICK i \in 1..n : log.lines[i][1].entry = f
      BY <2>1, <2>5, <2>7 DEF LoggedStands
    <3>2. i \in 1..(n + 1)
      BY <2>5
    <3>3. QED
      BY <2>5, <3>1, <3>2
  <2>8. QED
    BY <1>1, <2>6, <2>7
<1>2. ASSUME log'.lines = log.lines, logged' = logged
      PROVE  \E i \in DOMAIN log'.lines : log'.lines[i][1].entry = f
  BY <1>2 DEF LoggedStands, EndedLinesParse
<1>3. \A whole \in BOOLEAN : Continued(log, Piece(e, whole)).lines = log.lines
  BY DEF Continued, Files
<1>4. QED
  BY <1>1, <1>2, <1>3 DEF AppendEvent, Torn

LEMMA TelemetryStep ==
    ASSUME TelemetryInv, [TelemetryNext]_telemetryVars
    PROVE  TelemetryInv'
<1>0. /\ TelemetryTypeOK /\ TablesAgree(readModel) /\ LoggedStands /\ ImportOwes
      /\ imported \subseteq readModel.events
  BY DEF TelemetryInv
<1>1. ASSUME NEW e \in TelemetryEvents, AppendEvent(e) PROVE TelemetryInv'
  <2>1. log' \in Files(TelemetryEvents)
    BY <1>0, <1>1, AppendedType, TornType DEF AppendEvent, TelemetryTypeOK
  <2>2. appends' \in 0..MaxLines /\ logged \subseteq logged' /\ logged' \subseteq TelemetryEvents
    BY <1>0, <1>1, TelemetryAssumption DEF AppendEvent, TelemetryTypeOK
  <2>3. UNCHANGED <<readModel, batch, imported>>
    BY <1>1 DEF AppendEvent
  <2>4. LoggedStands'
    BY <1>0, <1>1, AppendKeepsLines DEF TelemetryTypeOK
  <2>5. TelemetryTypeOK'
    BY <1>0, <2>1, <2>2, <2>3 DEF TelemetryTypeOK
  <2>6. TablesAgree(readModel)' /\ ImportOwes'
    BY <1>0, <2>3 DEF ImportOwes
  <2>7. QED
    BY <1>0, <2>3, <2>4, <2>5, <2>6 DEF TelemetryInv
<1>2. ASSUME NEW events \in Seq(TelemetryEvents), NEW owed \in SUBSET logged,
             BeginBatch(events, owed),
             \A e \in owed : \E i \in 1..Len(events) : events[i] = e
      PROVE  TelemetryInv'
  <2>1. /\ batch' = [todo |-> events, tables |-> readModel, owed |-> owed]
        /\ UNCHANGED <<log, appends, logged, readModel, imported>>
    BY <1>2 DEF BeginBatch
  <2>2. TelemetryTypeOK'
    BY <1>0, <2>1 DEF TelemetryTypeOK
  <2>3. ImportOwes' /\ LoggedStands' /\ TablesAgree(readModel)'
    BY <1>0, <1>2, <2>1 DEF ImportOwes, LoggedStands
  <2>4. QED
    BY <1>0, <2>1, <2>2, <2>3 DEF TelemetryInv
<1>3. ASSUME ImportJsonlRecovering PROVE TelemetryInv'
  <2>1. EndedLinesParse(log) /\ BeginBatch(Records(log), logged)
        /\ log \in Files(TelemetryEvents)
    BY <1>0, <1>3 DEF ImportJsonlRecovering, TelemetryTypeOK
  <2>2. Records(log) \in Seq(TelemetryEvents)
    BY <2>1, RecordsType
  <2>3. ASSUME NEW e \in logged PROVE \E i \in 1..Len(Records(log)) : Records(log)[i] = e
    <3>1. PICK i \in DOMAIN log.lines : log.lines[i][1].entry = e
      BY <1>0, <2>1 DEF LoggedStands
    <3>2. /\ EndedRecords(log) \in Seq(TelemetryEvents)
          /\ Len(EndedRecords(log)) = Len(log.lines)
      BY <2>1, EndedRecordsType
    <3>3. i \in 1..Len(EndedRecords(log)) /\ EndedRecords(log)[i] = e
      BY <2>1, <3>1, <3>2, FileFacts, SequenceFacts DEF EndedRecords
    <3>4. ASSUME Parses(log.open)
          PROVE  /\ Records(log) = Append(EndedRecords(log), log.open[1].entry)
                 /\ log.open[1].entry \in TelemetryEvents
      <4>1. log.open[1] \in Pieces(TelemetryEvents)
        BY <2>1, <3>4, FileFacts, SequenceFacts DEF Parses
      <4>2. QED
        BY <3>4, <4>1 DEF Records, EndedRecords, Pieces
    <3>5. CASE Parses(log.open)
      <4>1. /\ Len(Records(log)) = Len(EndedRecords(log)) + 1
            /\ Records(log)[i] = EndedRecords(log)[i]
        BY <3>2, <3>3, <3>4, <3>5, AppendFacts
      <4>2. Len(EndedRecords(log)) \in Nat
        BY <3>2, SequenceFacts
      <4>3. i \in 1..Len(Records(log))
        BY <3>3, <4>1, <4>2
      <4>4. QED
        BY <3>3, <4>1, <4>3
    <3>6. CASE ~Parses(log.open)
      BY <3>3, <3>6 DEF Records, EndedRecords
    <3>7. QED
      BY <3>5, <3>6
  <2>4. QED
    BY <1>2, <2>1, <2>2, <2>3
<1>4. ASSUME IngestMany PROVE TelemetryInv'
  <2>1. PICK events \in Batches : BeginBatch(events, {})
    BY <1>4 DEF IngestMany
  <2>2. events \in Seq(TelemetryEvents)
    BY TelemetryAssumption
  <2>3. QED
    BY <1>2, <2>1, <2>2
<1>5. ASSUME IngestNext PROVE TelemetryInv'
  <2> DEFINE todo  == batch.todo
             next  == Head(todo)
             after == Ingest(batch.tables, next)
  <2>1. /\ batch # NoBatch /\ todo \in Seq(TelemetryEvents) /\ todo # <<>>
        /\ batch \in [todo : Seq(TelemetryEvents), tables : Tables, owed : SUBSET logged]
    BY <1>0, <1>5 DEF IngestNext, TelemetryTypeOK
  <2>2. next \in TelemetryEvents /\ Tail(todo) \in Seq(TelemetryEvents)
    BY <2>1
  <2>3. TablesAgree(after) /\ after.events = batch.tables.events \cup {next}
    BY <1>0, <2>1, <2>2, IngestKeepsAgreement DEF ImportOwes
  <2>4. /\ batch' = [todo |-> Tail(todo), tables |-> after, owed |-> batch.owed]
        /\ UNCHANGED <<log, appends, logged, readModel, imported>>
    BY <1>5, <2>1 DEF IngestNext
  <2>5. after \in Tables
    BY <2>3 DEF TablesAgree
  <2> HIDE DEF after, next, todo
  <2>6. TelemetryTypeOK'
    BY <1>0, <2>1, <2>2, <2>4, <2>5 DEF TelemetryTypeOK
  <2>7. ASSUME NEW e \in batch.owed
        PROVE  \/ e \in after.events
               \/ \E i \in 1..Len(Tail(todo)) : Tail(todo)[i] = e
    <3>1. CASE e \in batch.tables.events
      BY <2>3, <3>1
    <3>2. ASSUME NEW i \in 1..Len(todo), todo[i] = e
          PROVE  \/ e \in after.events
                 \/ \E j \in 1..Len(Tail(todo)) : Tail(todo)[j] = e
      <4>1. CASE i = 1
        BY <2>1, <2>3, <3>2, <4>1 DEF next
      <4>2. CASE i # 1
        <5>1. /\ i - 1 \in 1..Len(Tail(todo)) /\ Tail(todo)[i - 1] = todo[i]
          BY <2>1, <4>2
        <5>2. QED
          BY <3>2, <5>1
      <4>3. QED
        BY <4>1, <4>2
    <3>3. QED
      BY <1>0, <2>1, <3>1, <3>2 DEF ImportOwes, todo
  <2>8. ImportOwes'
    BY <1>0, <2>1, <2>3, <2>4, <2>7 DEF ImportOwes
  <2>9. LoggedStands' /\ TablesAgree(readModel)'
    BY <1>0, <2>4 DEF LoggedStands
  <2>10. QED
    BY <1>0, <2>4, <2>6, <2>8, <2>9 DEF TelemetryInv
<1>6. ASSUME RollbackBatch PROVE TelemetryInv'
  <2>1. batch' = NoBatch /\ UNCHANGED <<log, appends, logged, readModel, imported>>
    BY <1>6 DEF RollbackBatch
  <2>2. QED
    BY <1>0, <2>1 DEF TelemetryInv, TelemetryTypeOK, LoggedStands, ImportOwes
<1>7. ASSUME CommitBatch PROVE TelemetryInv'
  <2>1. /\ batch # NoBatch /\ batch.todo = <<>> /\ readModel' = batch.tables
        /\ imported' = imported \cup batch.owed /\ batch' = NoBatch
        /\ UNCHANGED <<log, appends, logged>>
    BY <1>7 DEF CommitBatch
  <2>2. /\ TablesAgree(batch.tables) /\ readModel.events \subseteq batch.tables.events
        /\ batch.owed \subseteq batch.tables.events
    <3>1. Len(batch.todo) = 0
      BY <2>1
    <3>2. QED
      BY <1>0, <2>1, <3>1 DEF ImportOwes
  <2>3. batch.owed \subseteq logged /\ batch.tables \in Tables
    BY <1>0, <2>1 DEF TelemetryTypeOK
  <2>4. TelemetryTypeOK' /\ TablesAgree(readModel)' /\ imported' \subseteq readModel'.events
    BY <1>0, <2>1, <2>2, <2>3 DEF TelemetryTypeOK
  <2>5. LoggedStands' /\ ImportOwes'
    BY <1>0, <2>1 DEF LoggedStands, ImportOwes
  <2>6. QED
    BY <2>4, <2>5 DEF TelemetryInv
<1>8. ASSUME UNCHANGED telemetryVars PROVE TelemetryInv'
  BY <1>0, <1>8 DEF telemetryVars, TelemetryInv, TelemetryTypeOK, LoggedStands, ImportOwes
<1>9. QED
  BY <1>1, <1>3, <1>4, <1>5, <1>6, <1>7, <1>8 DEF TelemetryNext

LEMMA TelemetryInvariant == TelemetrySpec => []TelemetryInv
<1>1. TelemetryInv /\ [TelemetryNext]_telemetryVars => TelemetryInv'
  BY TelemetryStep
<1>2. QED
  BY TelemetryInitially, <1>1, PTL DEF TelemetrySpec

(* The log, the tables and the open transaction keep their types.          *)
THEOREM TelemetryTypeCorrect == TelemetrySpec => []TelemetryTypeOK
<1>1. TelemetryInv => TelemetryTypeOK
  BY DEF TelemetryInv
<1>2. QED
  BY TelemetryInvariant, <1>1, PTL

(* For any events, in any order, repeated, rolled back and torn: each row  *)
(* of the read model is what its events make it, and no event that was     *)
(* reported as logged before a successful import is missing.               *)
THEOREM IndexAgreesWithLogHolds == TelemetrySpec => []IndexAgreesWithLog
<1>1. TelemetryInv => IndexAgreesWithLog
  BY DEF TelemetryInv, TablesAgree, RunIndexed, ArtifactIndexed, IndexAgreesWithLog
<1>2. QED
  BY TelemetryInvariant, <1>1, PTL
-----------------------------------------------------------------------------
(* The composition                                                         *)

PartSpecs == /\ CircuitSpec /\ FailoverSpec /\ QueueSpec /\ WorkflowSpec /\ GitSpec
             /\ JournalSpec /\ TelemetrySpec

(* Each component behaves in the composition as it does alone: what holds  *)
(* of its own specification holds of that of all.                          *)
THEOREM OrchestrationKeepsParts == Spec => PartSpecs
<1> DEFINE PartSteps == /\ [CircuitNext]_circuitVars /\ [FailoverNext]_failoverVars
                        /\ [QueueNext]_queueVars /\ [WorkflowNext]_workflowVars
                        /\ [GitNext]_gitVars /\ [JournalNext]_journalVars
                        /\ [TelemetryNext]_telemetryVars
<1>1. Init => /\ CircuitInit /\ FailoverInit /\ QueueInit /\ WorkflowInit /\ GitInit
              /\ JournalInit /\ TelemetryInit
  BY DEF Init
<1>2. [Next]_allVars => PartSteps
  BY DEF Next, allVars
<1>3. QED
  BY <1>1, <1>2, PTL DEF Spec, PartSpecs, CircuitSpec, FailoverSpec, QueueSpec, WorkflowSpec,
                         GitSpec, JournalSpec, TelemetrySpec

(* All components keep their types together.                               *)
THEOREM OrchestrationTypeCorrect == Spec => []OrchestrationTypeOK
<1>1. /\ CircuitTypeOK /\ FailoverTypeOK /\ QueueTypeOK /\ WorkflowTypeOK /\ GitTypeOK
      /\ JournalTypeOK /\ TelemetryTypeOK
      => OrchestrationTypeOK
  BY DEF OrchestrationTypeOK
<1>2. QED
  BY OrchestrationKeepsParts, CircuitTypeCorrect, FailoverTypeCorrect, QueueTypeCorrect,
     WorkflowTypeCorrect, GitTypeCorrect, JournalTypeCorrect, TelemetryTypeCorrect, <1>1, PTL
  DEF PartSpecs

(* What was proved of each component alone holds of all together: probes   *)
(* keep to the hints of the provider, a role does not move to a binding    *)
(* that cools down or return unapproved, no acknowledged decision is lost, *)
(* no workflow node is left behind, and the journal and the read model are *)
(* what happened.                                                          *)
THEOREM OrchestrationIsSafe ==
    Spec => /\ [](/\ ProbeRespectsRetryAfter /\ AcknowledgedIsKept
                  /\ NothingLeftToPropagate /\ OneHistory /\ IndexAgreesWithLog)
            /\ NeverSelectCooling /\ ApprovedAfterRecovery
  BY OrchestrationKeepsParts, ProbeRespectsRetryAfterHolds, AcknowledgedIsKeptHolds,
     NothingLeftToPropagateHolds, OneHistoryHolds, IndexAgreesWithLogHolds,
     NeverSelectCoolingHolds, ApprovedAfterRecoveryHolds, PTL
  DEF PartSpecs
=================================================================================
