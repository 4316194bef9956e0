------------------------------ MODULE BbipFile ------------------------------
(***************************************************************************)
(* The data file (BBIP.dat) that bbip_export writes and that the C library,*)
(* the Lua and PHP modules and the thrift server read.                     *)
(*                                                                         *)
(* The file is one version byte, the 32-bit record count at byte 1, then   *)
(* from byte BASE_PTR = 5 three arrays of big-endian words (range starts,  *)
(* range ends, pointers to the blobs) and at last one blob per record.     *)
(* A CELL stands for a position in it: cell c < 3n+1 is the word at byte   *)
(* 1+4c, and cell 3n+k is the blob of record k.  Offsets that the code     *)
(* computes as BASE_PTR + 4*(j-1) are thus cell j, and the byte order      *)
(* (htonl on both sides) disappears.                                       *)
(***************************************************************************)
EXTENDS Integers

CONSTANTS MaxIP,    \* the largest address: 2^32 - 1 in the code
          Payloads  \* what the nine strings of a record may be

ASSUME MaxIPAssumption == MaxIP \in Nat

Addr == 0..MaxIP

\* The files that bbip_export produces: ranges in order and disjoint.
IsDataFile(f) ==
    /\ f.n \in Nat
    /\ f.start \in [1..f.n -> Addr]
    /\ f.end \in [1..f.n -> Addr]
    /\ f.ptr = [k \in 1..f.n |-> 3 * f.n + k]
    /\ f.data \in [1..f.n -> Payloads]
    /\ \A k \in 1..f.n : f.start[k] <= f.end[k]
    /\ \A j, k \in 1..f.n : j < k => f.end[j] < f.start[k]

\* Record k of file f is the one for address a.
Covers(f, k, a) == f.start[k] <= a /\ a <= f.end[k]

StartCell(f, k) == k
EndCell(f, k)   == f.n + k
PtrCell(f, k)   == 2 * f.n + k
BlobCell(f, k)  == 3 * f.n + k

\* The word stored at a cell of the header or of the index.
Word(f, c) ==
    IF c = 0 THEN f.n
    ELSE IF c <= f.n THEN f.start[c]
    ELSE IF c <= 2 * f.n THEN f.end[c - f.n]
    ELSE f.ptr[c - 2 * f.n]

\* What a reader of strings finds where no blob starts.
Garbage == "garbage"

\* The strings at a cell: those of the blob that starts there.
Strings(f, c) == IF c - 3 * f.n \in 1..f.n THEN f.data[c - 3 * f.n] ELSE Garbage
=============================================================================
