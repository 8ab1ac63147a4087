------------------------------- MODULE SeqFile ------------------------------
(***************************************************************************)
(* Files made of records (core/seq_file.c), the way connection tracking    *)
(* and others show their tables in /proc.  A read works in whole records:  *)
(* it asks the owner of the table for one after the other, collects their  *)
(* text in a buffer that grows until the first one fits, hands out what    *)
(* was asked for and keeps the rest for the next read.  Between two reads  *)
(* the table may change.                                                   *)
(*                                                                         *)
(* A record is known by its number and has a length; its text is the bytes *)
(* <<number, 1>>, <<number, 2>>...  A record may be empty (the record of a *)
(* reply direction is) and may fail to be shown.                           *)
(***************************************************************************)
EXTENDS Integers, Sequences, SequencesExt, FiniteSets, FiniteSetsExt

CONSTANTS
    Length,     \* [record numbers -> length], 0 and more
    Bad,        \* the records that show() returns an error for
    PageSize,   \* PAGE_SIZE
    MaxRecords, \* records in the table
    MaxSize,    \* largest read
    MaxSeek,    \* largest offset
    MaxCalls    \* reads and seeks in one opening of the file

Record == DOMAIN Length

\* The bound on the growth of a buffer: eight times to the double.
Doublings == {1, 2, 4, 8, 16, 32, 64, 128, 256}

ASSUME SeqAssumption ==
    /\ Length \in [Record -> Nat] /\ Bad \subseteq Record
    /\ PageSize \in Nat \ {0} /\ \A r \in Record : Length[r] < PageSize * 256
    /\ MaxRecords \in Nat /\ MaxSize \in Nat /\ MaxSeek \in Nat /\ MaxCalls \in Nat

VARIABLES
    table,      \* the records, in order
    seq_file,   \* struct seq_file
    f_pos,      \* the position of the file
    calls,      \* reads and seeks so far
    got,        \* history: the bytes handed out since the file was opened or a seek
    base,       \* history: the position then
    still,      \* history: the table has not changed since then
    returned    \* what the last call returned: "none", "data", "eof" or "error"

seqVars == <<table, seq_file, f_pos, calls, got, base, still, returned>>

NotOpen == [size |-> -1]

\* size: 0 as long as there is no buffer, then PAGE_SIZE, doubled at need; text: what is in
\* the buffer from `from' on, count bytes of it; index: the record to go on with.
SeqTypeOK ==
    /\ \/ seq_file = NotOpen
       \/ /\ seq_file.size \in {0} \cup { PageSize * d : d \in Doublings }
          /\ seq_file.index \in Nat /\ seq_file.from \in Nat
          /\ seq_file.text \in Seq(Record \X Nat)
          /\ seq_file.from + Len(seq_file.text) <= seq_file.size
    /\ table \in Seq(Record) /\ f_pos \in Nat /\ base \in Nat
    /\ got \in Seq(Record \X Nat)
    /\ returned \in {"none", "data", "eof", "error"}

count == Len(seq_file.text)

\* show: the text of one record.
Bytes(r) == [b \in 1 .. Length[r] |-> <<r, b>>]

\* The text of the first n records of a table.
Upto(t) ==
    LET upto[n \in 0 .. Len(t)] == IF n = 0 THEN << >> ELSE upto[n - 1] \o Bytes(t[n])
    IN  upto

\* The text of the records i to j of the table.
Text(i, j) == SubSeq(Upto(table)[j], Len(Upto(table)[i - 1]) + 1, Len(Upto(table)[j]))

\* The records that can be shown, up to the first one that fails.
Shown == { i \in 0 .. Len(table) : \A k \in 1 .. i : table[k] \notin Bad }

SeqInit ==
    /\ \E n \in 0 .. MaxRecords : table \in { t \in [1 .. n -> Record] : IsInjective(t) }
    /\ seq_file = NotOpen /\ f_pos = 0 /\ calls = 0
    /\ got = << >> /\ base = 0 /\ still = TRUE /\ returned = "none"

\* nfsim_proc_open with seq_open (single_open for a table of one record).
seq_open ==
    /\ seq_file = NotOpen
    /\ seq_file' = [size |-> 0, index |-> 0, from |-> 0, text |-> << >>]
    /\ f_pos' = 0 /\ calls' = 0
    /\ got' = << >> /\ base' = 0 /\ still' = TRUE /\ returned' = "none"
    /\ UNCHANGED table

\* The size of the buffer after it was doubled until a text of this length, and the
\* zero that seq_printf puts behind it, fit.
Grown(size, length) == Min({ s \in { size * d : d \in Doublings } : s > length })

BufferSize(size) == IF size = 0 THEN PageSize ELSE size

\* Fill: after record i, which is in the buffer, more records as long as less than
\* size bytes are there, up to one that fails or does not fit.
LastShown(i, size, space) ==
    Max({ j \in i .. Len(table) :
            \A k \in i + 1 .. j : /\ table[k] \notin Bad
                                  /\ Len(Text(i, k - 1)) < size
                                  /\ Len(Text(i, k)) < space })

\* What a read that has `copied' so far returns, and what it does to the history.
Returns(copied, err) ==
    /\ f_pos' = f_pos + Len(copied)
    /\ got' = got \o copied
    /\ returned' = IF copied # << >> THEN "data" ELSE IF err THEN "error" ELSE "eof"

Take(s, n) == SubSeq(s, 1, Min({n, Len(s)}))
Drop(s, n) == SubSeq(s, Min({n, Len(s)}) + 1, Len(s))

Collect_NoGrowth(copied, size, index, space) ==
    LET i == index + 1
        text == Text(i, LastShown(i, size, space))
    IN  IF i > Len(table) \/ table[i] \in Bad \/ Length[table[i]] >= space
        THEN /\ seq_file' = [seq_file EXCEPT !.size = space, !.index = index, !.from = @ + count,
                                         !.text = << >>]
             /\ Returns(copied, i <= Len(table) /\ table[i] \in Bad)
        ELSE /\ seq_file' = [seq_file EXCEPT
                                !.size = space, !.text = Drop(text, size), !.from = size,
                                !.index = LastShown(i, size, space)
                                          - (IF Len(text) > size THEN 1 ELSE 0)]
             /\ Returns(copied \o Take(text, size), FALSE)

\* The part of seq_read behind the flush.  A record that does not fit makes the buffer
\* grow; at the end of the table, or when the record fails, nothing is collected.
Collect(copied, size, index, space) ==
    LET i == index + 1
        wide == Grown(space, Length[table[i]])
        j == LastShown(i, size, wide)
        text == Text(i, j)
        failed == j < Len(table) /\ Len(text) < size /\ table[j + 1] \in Bad
    IN  IF i > Len(table) \/ table[i] \in Bad
        THEN /\ seq_file' = [seq_file EXCEPT !.size = space, !.index = index, !.from = @ + count,
                                         !.text = << >>]
             /\ Returns(copied, i <= Len(table))
        ELSE /\ seq_file' = [seq_file EXCEPT
                                !.size = wide, !.text = Drop(text, size),
                                !.from = IF Len(text) > size THEN size ELSE @ + count,
                                !.index = IF Len(text) > size THEN j - 1 ELSE j]
             /\ Returns(copied \o Take(text, size), failed)

\* What is left in the buffer is flushed first; the record it belongs to is done when
\* all of it went.
seq_read(size) ==
    /\ seq_file # NotOpen /\ calls < MaxCalls
    /\ calls' = calls + 1
    /\ IF count > 0 /\ size <= count
       THEN /\ seq_file' = [seq_file EXCEPT
                               !.size = BufferSize(@), !.text = Drop(@, size), !.from = @ + size,
                               !.index = IF size = count THEN @ + 1 ELSE @]
            /\ Returns(Take(seq_file.text, size), FALSE)
       ELSE Collect(seq_file.text, size - count,
                    IF count > 0 THEN seq_file.index + 1 ELSE seq_file.index,
                    BufferSize(seq_file.size))
    /\ UNCHANGED <<table, base, still>>

\* traverse: the records are shown one at a time, each in the empty buffer, until the
\* offset is reached.  `last' is the record it ends with.
Reaches(offset) ==
    { i \in 1 .. Len(table) : Len(Text(1, i)) >= offset }

traverse_EndOfRecord(offset, last, space) ==
    LET text == Text(last, last)
        from == Length[table[last]] - (Len(Text(1, last)) - offset)
    IN  [seq_file EXCEPT !.size = space, !.index = last - 1, !.from = from,
                              !.text = Drop(text, from)]

\* Where seq_file is left: inside of the record, or behind it if it ends there.
traverse(offset, last, space) ==
    LET text == Text(last, last)
        from == Length[table[last]] - (Len(Text(1, last)) - offset)
    IN  IF from = Len(text)
        THEN [seq_file EXCEPT !.size = space, !.index = last, !.from = 0, !.text = << >>]
        ELSE [seq_file EXCEPT !.size = space, !.index = last - 1, !.from = from,
                              !.text = Drop(text, from)]

\* The largest record that is shown on the way makes the buffer grow.
Space(n) == LET seen == { Length[table[i]] : i \in 1 .. n } \cup {0}
            IN  Grown(BufferSize(seq_file.size), Max(seen))

\* seq_lseek to another position (to the same one it does nothing): the offset is
\* inside of the text, or behind it, or a record fails before it is reached.
seq_lseek(offset) ==
    /\ seq_file # NotOpen /\ calls < MaxCalls
    /\ calls' = calls + 1
    /\ offset # f_pos
    /\ LET last == IF Reaches(offset) = {} THEN Len(table) ELSE Min(Reaches(offset))
       IN  IF offset > 0 /\ last \notin Shown
           THEN /\ seq_file' = [seq_file EXCEPT !.size = Space(Max(Shown)), !.index = 0,
                                                !.from = 0, !.text = << >>]
                /\ f_pos' = 0 /\ base' = 0 /\ returned' = "error"
           ELSE /\ seq_file' =
                      IF offset = 0
                      THEN [seq_file EXCEPT !.index = 0, !.from = 0, !.text = << >>]
                      ELSE IF Reaches(offset) = {}
                      THEN [seq_file EXCEPT !.size = Space(last), !.index = last,
                                            !.from = 0, !.text = << >>]
                      ELSE traverse(offset, last, Space(last))
                /\ f_pos' = offset /\ base' = offset /\ returned' = "none"
    /\ got' = << >> /\ still' = TRUE
    /\ UNCHANGED table

\* nfsim_proc_close with seq_release: buffer and seq_file are freed.
seq_release ==
    /\ seq_file # NotOpen
    /\ seq_file' = NotOpen
    /\ f_pos' = 0 /\ got' = << >> /\ base' = 0 /\ still' = TRUE /\ returned' = "none" /\ calls' = 0
    /\ UNCHANGED table

\* Between two calls the owner of the table changes it.
TableChanges ==
    /\ seq_file # NotOpen /\ still /\ calls < MaxCalls /\ calls > 0
    /\ \/ \E i \in DOMAIN table : table' = RemoveAt(table, i)
       \/ \E r \in Record \ Range(table), i \in 1 .. Len(table) + 1 :
            /\ Len(table) < MaxRecords
            /\ table' = InsertAt(table, i, r)
    /\ still' = FALSE
    /\ UNCHANGED <<seq_file, f_pos, calls, got, base, returned>>

SeqNext ==
    \/ seq_open
    \/ \E size \in 1 .. MaxSize : seq_read(size)
    \/ \E offset \in 0 .. MaxSeek : seq_lseek(offset)
    \/ seq_release
    \/ TableChanges

SeqSpec == SeqInit /\ [][SeqNext]_seqVars
-----------------------------------------------------------------------------
Whole == Text(1, Max(Shown))

\* No record is torn, even when the table changes between two reads: a byte follows the
\* byte before it in the same record, or the end of another record.
RecordsWhole ==
    \A i \in 2 .. Len(got) :
        LET here == got[i] before == got[i - 1]
        IN  IF here[2] > 1 THEN before = <<here[1], here[2] - 1>>
            ELSE before[2] = Length[before[1]]

\* The bytes handed out since the file was opened, or since a seek, are the text of the
\* table from that position on, and the position of the file is behind them, however
\* the reads cut the records and however often the buffer had to grow (seq_read,
\* traverse) - as long as the table stays as it is.  When it changes between two
\* reads, records may be missed or seen twice, but none is torn.
ReadsTheText ==
    /\ SeqTypeOK
    /\ RecordsWhole
    /\ seq_file # NotOpen /\ still =>
        /\ f_pos = base + Len(got)
        /\ got = SubSeq(Whole, base + 1, Min({base + Len(got), Len(Whole)}))

\* A read says that the file has ended only when all the text was handed out, except
\* after an empty record when the one behind it does not fit the buffer: only the first
\* record of a read, the empty one, makes the buffer grow (seq_read's Fill).
EofIsTheEnd ==
    seq_file # NotOpen /\ still /\ returned = "eof"
    => \/ f_pos >= Len(Whole)
       \/ /\ seq_file.index \in 1 .. Len(table) - 1
          /\ Length[table[seq_file.index]] = 0
          /\ Length[table[seq_file.index + 1]] >= seq_file.size
=============================================================================
