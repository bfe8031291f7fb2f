------------------------------ MODULE MutationJournal ------------------------------
(***************************************************************************)
(* The journal of mutations: numbered records, each with the hash of the   *)
(* one before it.  An append reads and verifies the whole journal, then    *)
(* writes; one process does this one append after another, but nothing     *)
(* keeps two processes apart, and an append may fail half-way or with its  *)
(* process.  A hash is modelled by what it identifies: a record's content. *)
(***************************************************************************)
EXTENDS Naturals, JsonLines

CONSTANTS Writers,      \* processes that append to the journal
          NoDraft,      \* a process that is not appending
          MaxRecords    \* records that are ever drafted (bound)

ASSUME MutationJournalAssumption == MaxRecords \in Nat

VARIABLES journal,     \* the file
          draft,       \* draft[w]: the record w has made and is about to write
          drafted,     \* records drafted so far: the content of the last one
          witnessed    \* records a caller was ever given, by an append or a
                       \* read (history)

journalVars == <<journal, draft, drafted, witnessed>>

(* The first record has no previous one: 0.                                *)
JournalRecords == [content : Nat \ {0}, sequence : Nat \ {0}, previous : Nat]

JournalInit == /\ journal = EmptyFile
               /\ draft = [w \in Writers |-> NoDraft]
               /\ drafted = 0
               /\ witnessed = {}

HeadOf(records) == IF records = <<>> THEN 0 ELSE records[Len(records)].content

(* A bug: that every line is JSON is enough.                               *)
VerifiesJson(file) == /\ EndedLinesParse(file)
                      /\ file.open = <<>> \/ Parses(file.open)

(* read() returns: every line is a record with its own number and the hash *)
(* of the one before.  Otherwise it throws.                                *)
Verifies(file) ==
    /\ EndedLinesParse(file)
    /\ file.open = <<>> \/ Parses(file.open)
    /\ \A i \in DOMAIN Records(file) :
          /\ Records(file)[i].sequence = i
          /\ Records(file)[i].previous = HeadOf(SubSeq(Records(file), 1, i - 1))

(* A caller reads the journal.                                             *)
ReadJournal ==
    /\ Verifies(journal)
    /\ witnessed' = witnessed \cup {Records(journal)[i] : i \in DOMAIN Records(journal)}
    /\ UNCHANGED <<journal, draft, drafted>>

(* The first half of an append: the record is made from what was read.     *)
DraftRecord(w) ==
    /\ draft[w] = NoDraft
    /\ drafted < MaxRecords
    /\ Verifies(journal)
    /\ drafted' = drafted + 1
    /\ draft' = [draft EXCEPT ![w] = [content  |-> drafted + 1,
                                      sequence |-> Len(Records(journal)) + 1,
                                      previous |-> HeadOf(Records(journal))]]
    /\ UNCHANGED <<journal, witnessed>>

WriteRecord(w) ==
    /\ draft[w] # NoDraft
    /\ journal' = Appended(journal, draft[w])
    /\ witnessed' = witnessed \cup {draft[w]}
    /\ draft' = [draft EXCEPT ![w] = NoDraft]
    /\ UNCHANGED drafted

(* The write or its fsync fails, or the process dies.                      *)
WriteFails(w) ==
    /\ draft[w] # NoDraft
    /\ journal' \in Torn(journal, draft[w])
    /\ draft' = [draft EXCEPT ![w] = NoDraft]
    /\ UNCHANGED <<drafted, witnessed>>

JournalNext == \/ ReadJournal
               \/ \E w \in Writers : DraftRecord(w) \/ WriteRecord(w) \/ WriteFails(w)

JournalSpec == JournalInit /\ [][JournalNext]_journalVars
-----------------------------------------------------------------------------
JournalTypeOK == /\ journal \in Files(JournalRecords)
                 /\ draft \in [Writers -> JournalRecords \cup {NoDraft}]
                 /\ drafted \in 0..MaxRecords
                 /\ witnessed \subseteq JournalRecords

(* A journal that can be read holds every record anybody was ever given,   *)
(* at its number: two processes that appended to the same head, or an      *)
(* append that failed half-way, make it unreadable and never make it tell  *)
(* another history.                                                        *)
OneHistory ==
    Verifies(journal) =>
       \A r \in witnessed : /\ r.sequence \in DOMAIN Records(journal)
                            /\ Records(journal)[r.sequence] = r
=================================================================================
