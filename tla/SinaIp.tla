------------------------------- MODULE SinaIp -------------------------------
(***************************************************************************)
(* The life of the PHP extension's resources (php/sinaip.c) in a request.  *)
(* sinaip_init registers the resource before it tries the file, so that a  *)
(* failure leaves one that no variable has; the destructor runs over it    *)
(* when the request ends, and closes a stream that is null or was closed.  *)
(*                                                                         *)
(* A holder is a variable of the script or several that share a value.     *)
(* The list of resources is PHP's: an entry counts its references, is      *)
(* destroyed with the last one, and its number is not given out again.     *)
(* What the functions compute is modelled in BbipHandle and BbipPublish.   *)
(***************************************************************************)
EXTENDS Integers, Sequences, FiniteSets

CONSTANTS Holders,   \* the script's variables
          Streams,   \* the addresses that fopen may return
          MaxInits   \* bound: how often a script calls sinaip_init

ASSUME HoldersAssumption == IsFiniteSet(Holders)
ASSUME StreamsAssumption == "null" \notin Streams
ASSUME MaxInitsAssumption == MaxInits \in Nat

VARIABLES
    resources,  \* every struct php_sinaip made so far, by resource number
    stream,     \* which streams are open
    holder,     \* the resource number a variable has, 0 for FALSE
    closed,     \* the resources that sinaip_close was called for
    freed,      \* how often the destructor ran, by resource number
    result,     \* what the last call gave
    phase       \* "running", "ending", "listing", "ended" or "crashed"

vars == <<resources, stream, holder, closed, freed, result, phase>>

Ids == DOMAIN resources

\* fp, whether the arrays and the mapping are there, and PHP's references.
\* _php_create_sinaip leaves fp and mmap as emalloc finds them.
php_sinaip(fp, built) == [fp |-> fp, built |-> built, refs |-> 1]

Init ==
    /\ resources = <<>>
    /\ stream = [a \in Streams |-> "free"]
    /\ holder = [z \in Holders |-> 0]
    /\ closed = {} /\ freed = <<>>
    /\ result = "none"
    /\ phase = "running"
-----------------------------------------------------------------------------
\* The destructor and PHP's list.

\* What the calls of this module change together.
world == [resources |-> resources, stream |-> stream, freed |-> freed]

Become(w) ==
    /\ resources' = w.resources
    /\ stream' = w.stream
    /\ freed' = w.freed

\* php_sinaip_dtor: fclose, and the arrays, the mapping and the struct.
Destroyed(w, id) ==
    LET fp == w.resources[id].fp
    IN  [resources |-> [w.resources EXCEPT ![id].refs = 0],
         stream |-> [a \in Streams |-> IF a = fp THEN "free" ELSE w.stream[a]],
         freed |-> [w.freed EXCEPT ![id] = @ + 1]]

\* Mutant: an entry that is gone is not noticed.
DeletedUnseen(w, id) ==
    IF id = 0 THEN w ELSE [w EXCEPT !.resources[id].refs = @ - 1]

\* zend_list_delete: nothing for an entry that is gone.
Deleted(w, id) ==
    IF id = 0 THEN w
    ELSE IF w.resources[id].refs = 0 THEN w
    ELSE IF w.resources[id].refs = 1 THEN Destroyed(w, id)
    ELSE [w EXCEPT !.resources[id].refs = @ - 1]

\* How the process goes on behind a destructor: it dies in fclose(NULL), and may
\* die of a stream that is closed twice.
Behind(w, id) ==
    IF w.resources[id].fp = "null" THEN {"crashed"}
    ELSE IF w.stream[w.resources[id].fp] = "free" THEN {"crashed", phase}
    ELSE {phase}

\* A variable drops the number id.
Drop(w, id) ==
    /\ Become(Deleted(w, id))
    /\ phase' \in IF id = 0 THEN {phase}
                 ELSE IF w.resources[id].refs = 1 THEN Behind(w, id) ELSE {phase}
-----------------------------------------------------------------------------
\* The functions.

\* Mutant: the resource is returned as soon as it is registered.
ReturnsAtOnce(id, opens) == id

\* RETVAL_RESOURCE is behind the checks.
Returns(id, opens) == IF opens = "data" THEN id ELSE 0

\* $z = sinaip_init(file).  The file cannot be opened, is too short or has no
\* records (then its stream is closed), or is a data file.  What $z had before
\* is dropped when the call is over.
SinaipInit(z, opens) ==
    /\ phase = "running"
    /\ Len(resources) < MaxInits
    /\ LET id == Len(resources) + 1
           With(fp, streams) ==
               [resources |-> Append(resources, php_sinaip(fp, opens = "data")),
                stream |-> streams, freed |-> Append(freed, 0)]
       IN  /\ \/ opens = "null" /\ Drop(With("null", stream), holder[z])
              \/ \E a \in Streams :
                    /\ stream[a] = "free"
                    /\ Drop(With(a, IF opens = "data" THEN [stream EXCEPT ![a] = "open"]
                                    ELSE stream),
                            holder[z])
                    /\ opens \in {"short", "empty", "data"}
           /\ holder' = [holder EXCEPT ![z] = Returns(id, opens)]
           /\ result' = IF opens = "data" THEN "value" ELSE "false"
    /\ UNCHANGED closed

\* ZEND_FETCH_RESOURCE: the entry that a variable's number stands for.
Fetched(z) == holder[z] # 0 /\ resources[holder[z]].refs > 0

\* sinaip_preload, sinaip_count and sinaip_search only read the resource: they
\* give a value (sinaip_search also FALSE) for one that is fetched, else FALSE,
\* or NULL when "r" of sinaip_search refuses what is no resource.
Use(z, function) ==
    /\ phase = "running"
    /\ result' \in IF Fetched(z)
                   THEN IF function = "search" THEN {"value", "false"} ELSE {"value"}
                   ELSE IF function = "search" /\ holder[z] = 0 THEN {"null"} ELSE {"false"}
    /\ UNCHANGED <<resources, stream, holder, closed, freed, phase>>

\* Mutant: the destructor is called, the entry stays.
ClosedByHand(w, id) ==
    LET d == Destroyed(w, id) IN [d EXCEPT !.resources[id].refs = w.resources[id].refs]

Closed(w, id) == Deleted(w, id)

SinaipClose(z) ==
    /\ phase = "running"
    /\ IF Fetched(z)
       THEN Become(Closed(world, holder[z])) /\ closed' = closed \cup {holder[z]}
            /\ result' = "value"
       ELSE UNCHANGED <<resources, stream, freed, closed>> /\ result' = "false"
    /\ UNCHANGED <<holder, phase>>
-----------------------------------------------------------------------------
\* What PHP does with the variables.

\* Mutant: the copy is not counted.
CopiedUncounted(w, id) == w

Copied(w, id) == IF id # 0 /\ w.resources[id].refs > 0
                 THEN [w EXCEPT !.resources[id].refs = @ + 1] ELSE w

\* $z becomes a copy of $y.
Copy(z, y) ==
    /\ phase = "running"
    /\ z # y
    /\ Drop(Copied(world, holder[y]), holder[z])
    /\ holder' = [holder EXCEPT ![z] = holder[y]]
    /\ UNCHANGED <<closed, result>>

\* unset($z), and the end of the request for each variable.
Unset(z) ==
    /\ phase \in {"running", "ending"}
    /\ holder[z] # 0
    /\ Drop(world, holder[z])
    /\ holder' = [holder EXCEPT ![z] = 0]
    /\ UNCHANGED <<closed, result>>

\* Mutant: in the order of registration.
NextDestroyedFirst(ids) == {i \in ids : \A j \in ids : i <= j}

\* The list is emptied from its end.
NextDestroyed(ids) == {i \in ids : \A j \in ids : j <= i}

Listed == {i \in Ids : resources[i].refs > 0}

\* The end of the request: variables are dropped (values in cycles are not), then
\* the list is emptied, whatever the references.
End ==
    /\ phase = "running"
    /\ phase' = "ending"
    /\ UNCHANGED <<resources, stream, holder, closed, freed, result>>

EndList ==
    /\ phase = "ending"
    /\ phase' = "listing"
    /\ UNCHANGED <<resources, stream, holder, closed, freed, result>>

DestroyNext ==
    /\ phase = "listing"
    /\ \E id \in NextDestroyed(Listed) :
          Become(Destroyed(world, id)) /\ phase' \in Behind(world, id)
    /\ UNCHANGED <<holder, closed, result>>

Ended ==
    /\ phase = "listing"
    /\ Listed = {}
    /\ phase' = "ended"
    /\ UNCHANGED <<resources, stream, holder, closed, freed, result>>

Next ==
    \/ \E z \in Holders, opens \in {"null", "short", "empty", "data"} : SinaipInit(z, opens)
    \/ \E z \in Holders, function \in {"preload", "count", "search"} : Use(z, function)
    \/ \E z \in Holders : SinaipClose(z)
    \/ \E z, y \in Holders : Copy(z, y)
    \/ \E z \in Holders : Unset(z)
    \/ End \/ EndList \/ DestroyNext \/ Ended

Spec == Init /\ [][Next]_vars
-----------------------------------------------------------------------------
\* The types, and the numbers of references and of destructions.
TypeOK ==
    /\ resources \in Seq([fp : Streams \cup {"null"}, built : BOOLEAN, refs : Nat])
    /\ Len(resources) <= MaxInits
    /\ freed \in [Ids -> Nat]
    /\ stream \in [Streams -> {"free", "open"}]
    /\ holder \in [Holders -> Ids \cup {0}]
    /\ closed \subseteq Ids
    /\ result \in {"none", "value", "false", "null"}
    /\ phase \in {"running", "ending", "listing", "ended", "crashed"}

\* While the script runs, every resource that a variable still has can be used:
\* it is not the half-built one of a failed sinaip_init, and it is there unless
\* sinaip_close was called for it, through this variable or another.
HeldIsUsable ==
    phase \in {"running", "ending"} =>
        \A z \in Holders : holder[z] # 0 =>
            /\ resources[holder[z]].built
            /\ Fetched(z) \/ holder[z] \in closed

\* A whole resource in the list has its stream to itself and open: although a
\* failed sinaip_init keeps the address of a stream that it closed, and fopen
\* may give that address to a later one, the destructor (sinaip.c:119) never
\* closes the stream of a resource that is still in use.
StreamIsOwn ==
    phase # "crashed" =>
        \A i \in Listed : resources[i].built =>
            /\ stream[resources[i].fp] = "open"
            /\ \A j \in Listed : resources[j].built /\ resources[j].fp = resources[i].fp => i = j

\* The destructor runs once for every resource and leaves no stream open; what
\* it does is undefined only if a sinaip_init failed.
EndsClean ==
    /\ \A i \in Ids : freed[i] <= 1
    /\ phase = "ended" => /\ \A i \in Ids : freed[i] = 1
                          /\ \A a \in Streams : stream[a] = "free"
    /\ phase = "crashed" => \E i \in Ids : ~resources[i].built /\ freed[i] = 1
=============================================================================
