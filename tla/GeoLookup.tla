----------------------------- MODULE GeoLookup ------------------------------
(***************************************************************************)
(* What the library promises to one caller: a question about an address is *)
(* answered with an entry of the database that covers it or with nothing;  *)
(* nothing is not the answer for the entries the service commits itself to *)
(* (must), and that commitment never shrinks.                              *)
(***************************************************************************)
EXTENDS Integers

CONSTANTS MaxIP, Payloads

VARIABLES db,     \* the entries [start, end, data] of the database
          must,   \* the entries that are always found
          phase,  \* "new", "failed", "ready" or "asked"
          asked,  \* the address of the last question
          reply   \* the last answer, [start, data]

vars == <<db, must, phase, asked, reply>>

Nothing == [start |-> 0, data |-> "NULL"]

\* The entries of a set that are for address a.
For(entries, a) == {e \in entries : e.start <= a /\ a <= e.end}

Init ==
    /\ must \subseteq db
    /\ phase = "new"
    /\ asked = 0
    /\ reply = Nothing

Open ==
    /\ phase = "new"
    /\ phase' \in {"ready", "failed"}
    /\ UNCHANGED <<db, must, asked, reply>>

Commit ==
    /\ phase = "ready"
    /\ must' \in SUBSET db
    /\ must \subseteq must'
    /\ UNCHANGED <<db, phase, asked, reply>>

Ask ==
    /\ phase = "ready"
    /\ phase' = "asked"
    /\ asked' \in 0..MaxIP
    /\ UNCHANGED <<db, must, reply>>

Answer ==
    /\ phase = "asked"
    /\ phase' = "ready"
    /\ \/ \E e \in For(db, asked) : reply' = [start |-> e.start, data |-> e.data]
       \/ For(must, asked) = {} /\ reply' = Nothing
    /\ UNCHANGED <<db, must, asked>>

Next == Open \/ Commit \/ Ask \/ Answer

Spec == Init /\ [][Next]_vars /\ WF_vars(Answer)
=============================================================================
