--------------------------- MODULE MCBbipHandle -----------------------------
(***************************************************************************)
(* Data files for TLC.  The blobs of two records always differ.            *)
(***************************************************************************)
EXTENDS BbipHandle

CONSTANT FileLens  \* the numbers of records

Blobs == <<"cn", "us", "jp", "hk", "tw", "uk">>

MCPayloads == {Blobs[k] : k \in 1..6}

File(n, start, end) ==
    [n |-> n, start |-> start, end |-> end, ptr |-> [k \in 1..n |-> 3 * n + k],
     data |-> [k \in 1..n |-> Blobs[k]]]

\* The bounds s1 <= e1 < s2 <= e2 < ... of n ranges.
Bounds(n) ==
    {b \in [1..(2 * n) -> Addr] :
        \A i \in 1..(2 * n - 1) : IF i % 2 = 1 THEN b[i] <= b[i + 1]
                                  ELSE b[i] < b[i + 1]}

\* Every file of FileLens many records over Addr.
AllFiles ==
    UNION {{File(n, [k \in 1..n |-> b[2 * k - 1]], [k \in 1..n |-> b[2 * k]]) :
            b \in Bounds(n)} : n \in FileLens}

\* Ranges that follow one another from address first on, every step addresses
\* one range of width addresses.
Regular(n, first, step, width) ==
    File(n, [k \in 1..n |-> first + step * (k - 1)],
            [k \in 1..n |-> first + step * (k - 1) + width - 1])

RegularFiles ==
    {Regular(n, first, sw[1], sw[2]) : n \in FileLens, first \in {0, 3},
                                       sw \in {<<1, 1>>, <<2, 1>>, <<2, 2>>}}
=============================================================================
