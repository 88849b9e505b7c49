------------------------------- MODULE Trails -------------------------------
(***************************************************************************)
(* The append-only .jsonl files of .supskill/, as store.append_jsonl       *)
(* writes them and every reader in the program reads them.                 *)
(***************************************************************************)
EXTENDS SequencesExt

CONSTANT None   \* a line that parses to no row

\* A line is the row it parses to, None when it parses to nothing, and whether a
\* newline ends it. Only the last line of a file can lack one.
LineOf(rows) == [row : rows \cup {None}, ended : BOOLEAN]

\* What a write leaves at the end of a file: it starts where the file ends, so after
\* an unended line it only extends that line, which then parses to nothing.
Written(log, line) ==
    IF log # <<>> /\ ~Last(log).ended
    THEN Append(Front(log), [line EXCEPT !.row = None])
    ELSE Append(log, line)

\* The rows of the lines that parse, in file order.
Readable(log) == {i \in DOMAIN log : log[i].row # None}
RowsIn(log) == {log[i].row : i \in Readable(log)}

\* The last of `rows` in the file: the last row wins.
LastRow(log, rows) ==
    log[CHOOSE i \in Readable(log) : /\ log[i].row \in rows
                                     /\ \A j \in Readable(log) : log[j].row \in rows => j <= i].row
=============================================================================
