-------------------------------- MODULE Cidr --------------------------------
(***************************************************************************)
(* rangeToCidrSize (bbip.c): the prefix length reported with an answer.    *)
(* Subtraction is that of unsigned W-bit integers.                         *)
(***************************************************************************)
EXTENDS Integers

CONSTANT W  \* the width of an address: 32 in the code

ASSUME WAssumption == W \in Nat \ {0}

\* Powers of two, of which the provers know no more than that they are integers.
ASSUME PowersAssumption == 2^0 = 1 /\ \A m \in 0..(W - 1) : 2^(m + 1) = 2 * 2^m

\* Mutant: each test has the boundary of the next one.
WideOfNext(d, m) == m = W \/ d >= 2^(W - m - 1)

\* The test of the chain that returns m: to-from >= 2^(W-m).
Wide(d, m) == m = W \/ d >= 2^(W - m)

\* The chain of tests: the first m whose test holds.
RangeToCidrSize(from, to) ==
    LET d == (to - from) % (2^W)
    IN  IF d = 2^W - 1 THEN 0
        ELSE CHOOSE m \in 1..W : Wide(d, m) /\ \A x \in 1..(m - 1) : ~Wide(d, x)
=============================================================================
