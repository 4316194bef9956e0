--------------------------- MODULE MCBbipExport -----------------------------
EXTENDS BbipExport

CONSTANTS NRows,   \* the numbers of rows
          LastEnd  \* the largest end of a row

MCPayloads == 1..4

Span(w) == w[2] - w[1]

\* Every table of NRows many rows in every order the query may return it in;
\* row i has the strings i.
MCTables ==
    LET spans == {w \in (0..LastEnd) \X (0..LastEnd) : w[1] <= w[2]}
        ofLen(n) == {ws \in [1..n -> spans] :
                       \A i \in 1..(n - 1) : Span(ws[i]) <= Span(ws[i + 1])}
        distinct(ws) == \A i, j \in DOMAIN ws : i # j => ws[i] # ws[j]
        tableOf(ws) == [i \in DOMAIN ws |-> [start |-> ws[i][1], end |-> ws[i][2], data |-> i]]
    IN  {tableOf(ws) : ws \in {ws \in UNION {ofLen(n) : n \in NRows} : distinct(ws)}}
=============================================================================
