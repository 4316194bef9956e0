---------------------------- MODULE BbipRpcProofs ----------------------------
(***************************************************************************)
(* Proofs about calls over one connection, for any number of threads and   *)
(* calls, any handler, and a server that answers in any order.             *)
(***************************************************************************)
EXTENDS BbipRpc, SequenceTheorems, FiniteSetTheorems, TLAPS

Calls == UNION {p[t] : p \in Programs, t \in Threads}

ArgsOf(name) == IF name \in DOMAIN processMap_ THEN processMap_[name].args ELSE <<>>

\* The message of a call, and what may be under way.
Req(c, id) == Message(c.method, "call", id, Arguments(Stub(ArgsOf(c.method), <<>>, {}), c.arg))
Requests == {Req(c, i) : c \in Calls, i \in Nat}
Answers == {Dispatched(m) : m \in Requests}
In(s) == {s[i] : i \in 1..Len(s)}

Names == {c.method : c \in Calls}
Header == [name : Names \cup {None}, mtype : {None, "reply", "exception"}, seqid : Nat]
Sync == [nextseqid : Nat, monitors : SUBSET Nat, stop : BOOLEAN, wakeupSomeone : BOOLEAN,
         pending : Header]

InCall(t) == pc[t] # "ended"
Reads(t) == pc[t] \in {"pick", "read", "compare"}

Typed ==
    /\ client \in {"plain", "concurrent"} /\ program \in Programs
    /\ up \in BOOLEAN /\ late \in BOOLEAN
    /\ toServer \in Seq(Requests) /\ toClient \in Seq(Answers)
    /\ sync \in Sync
    /\ reader \in Threads \cup {None}
    /\ made \in 0..MaxCalls
    /\ pc \in [Threads -> Labels]
    /\ call \in [Threads -> Calls \cup {NoCall}]
    /\ seqid \in [Threads -> Nat]
    /\ DOMAIN outcome = Threads /\ \A t \in Threads : outcome[t].kind \in Outcomes
    /\ DOMAIN out = Threads /\ DOMAIN earlier = Threads

\* The read mutex is the reader's.
Reading == \A t \in Threads : Reads(t) <=> reader = t

\* The two clients: who uses what, and how many at a time.
Modes ==
    /\ client = "plain" =>
          /\ sync = NewSync
          /\ \A t \in Threads : pc[t] \in {"ended", "send", "recv", "misread"}
          /\ \A t, u \in Threads : t # u /\ InCall(t) => ~InCall(u)
    /\ client = "concurrent" => ~late /\ \A t \in Threads : pc[t] # "misread"

Settled ==
    \A t \in Threads :
        /\ outcome[t] = Pending <=> InCall(t) \/ call[t] = NoCall
        /\ InCall(t) => call[t] # NoCall

\* The numbers of the concurrent client's calls.
Numbers ==
    client = "concurrent" =>
        /\ \A i \in sync.monitors : i < sync.nextseqid
        /\ \A t \in Threads : InCall(t) => seqid[t] < sync.nextseqid
        /\ \A t, u \in Threads : t # u /\ InCall(t) /\ InCall(u) => seqid[t] # seqid[u]
        /\ ~sync.stop => \A i \in sync.monitors : \E t \in Threads : InCall(t) /\ seqid[t] = i
        /\ \A m \in In(toServer) \cup In(toClient) : m.seqid < sync.nextseqid

\* What is under way with the number of a call is that call's, and was sent.
Underway ==
    client = "concurrent" =>
        \A t \in Threads : InCall(t) =>
            /\ \A m \in In(toServer) : m.seqid = seqid[t] =>
                  pc[t] # "send" /\ m = Req(call[t], seqid[t])
            /\ \A m \in In(toClient) : m.seqid = seqid[t] =>
                  pc[t] # "send" /\ m = Dispatched(Req(call[t], seqid[t]))

\* Who has read a header has the message before it.
HeaderRead == \A t \in Threads : pc[t] = "compare" => toClient # <<>>

PendingNext ==
    sync.pending # NoHeader /\ ~sync.stop =>
        /\ \A t \in Threads : pc[t] \notin {"read", "compare"}
        /\ toClient # <<>> /\ toClient[1].seqid = sync.pending.seqid
        /\ \E t \in Threads : seqid[t] = sync.pending.seqid /\ pc[t] \in {"recv", "woken", "pick"}

IInv == /\ Typed /\ Reading /\ Modes /\ Settled /\ Numbers /\ Underway /\ HeaderRead
        /\ PendingNext
-----------------------------------------------------------------------------
\* Sequences of messages.
LEMMA Appended ==
    ASSUME NEW S, NEW s \in Seq(S), NEW m \in S
    PROVE  /\ Append(s, m) \in Seq(S) /\ In(Append(s, m)) = In(s) \cup {m}
           /\ Append(s, m) # <<>> /\ Len(Append(s, m)) = Len(s) + 1
           /\ s # <<>> => Append(s, m)[1] = s[1]
  <1> DEFINE a == Append(s, m)
  <1>1. /\ a \in Seq(S) /\ Len(a) = Len(s) + 1 /\ Len(s) \in Nat
        /\ \A i \in 1..Len(s) : a[i] = s[i]
        /\ a[Len(s) + 1] = m
    BY AppendProperties
  <1> HIDE DEF a
  <1>2. In(a) \subseteq In(s) \cup {m} /\ In(s) \subseteq In(a) /\ m \in In(a)
    BY <1>1 DEF In
  <1>3. s # <<>> => 1 \in 1..Len(s)
    BY <1>1, EmptySeq
  <1>4. a # <<>>
    BY <1>1
  <1> QED BY <1>1, <1>2, <1>3, <1>4 DEF a

LEMMA Rest ==
    ASSUME NEW S, NEW s \in Seq(S), s # <<>>
    PROVE  /\ Head(s) = s[1] /\ Head(s) \in In(s) /\ Head(s) \in S
           /\ Tail(s) \in Seq(S) /\ In(Tail(s)) \subseteq In(s)
           /\ Len(s) >= 1 /\ Len(Tail(s)) = Len(s) - 1
  <1>1. /\ Len(s) \in Nat /\ Len(s) # 0 /\ Head(s) = s[1]
        /\ Tail(s) \in Seq(S) /\ Len(Tail(s)) = Len(s) - 1
        /\ \A i \in 1..Len(Tail(s)) : Tail(s)[i] = s[i + 1]
    BY HeadTailProperties, EmptySeq
  <1>2. 1 \in 1..Len(s)
    BY <1>1
  <1>3. In(Tail(s)) \subseteq In(s)
    BY <1>1 DEF In
  <1>4. s[1] \in S
    BY <1>2, ElementOfSeq
  <1> QED BY <1>1, <1>2, <1>3, <1>4 DEF In

LEMMA Cut ==
    ASSUME NEW S, NEW s \in Seq(S), NEW n \in 0..Len(s)
    PROVE  /\ SubSeq(s, 1, n) \in Seq(S) /\ In(SubSeq(s, 1, n)) \subseteq In(s)
           /\ Len(SubSeq(s, 1, n)) = n
           /\ n >= 1 => SubSeq(s, 1, n) # <<>> /\ SubSeq(s, 1, n)[1] = s[1]
  <1> DEFINE c == SubSeq(s, 1, n)
  <1>1. n \in Nat /\ Len(s) \in Nat /\ n <= Len(s)
    BY LenProperties
  <1>2. \A i \in 1..n : s[i] \in S
    BY <1>1, ElementOfSeq
  <1>3. c \in Seq(S) /\ Len(c) = n /\ \A i \in 1..n : c[i] = s[i]
    BY <1>1, <1>2, SubSeqProperties
  <1> HIDE DEF c
  <1>4. In(c) \subseteq In(s)
    BY <1>1, <1>3 DEF In
  <1>5. n >= 1 => c # <<>> /\ c[1] = s[1]
    BY <1>1, <1>3
  <1> QED BY <1>3, <1>4, <1>5 DEF c

LEMMA RemovedAt ==
    ASSUME NEW S, NEW s \in Seq(S), NEW i \in 1..Len(s)
    PROVE  /\ Without(s, i) \in Seq(S) /\ Len(Without(s, i)) = Len(s) - 1
           /\ \A j \in 1..Len(Without(s, i)) : Without(s, i)[j] = s[IF j < i THEN j ELSE j + 1]
  <1> DEFINE a == SubSeq(s, 1, i - 1)
             b == SubSeq(s, i + 1, Len(s))
             w == a \o b
             n == Len(s)
  <1>1. n \in Nat /\ i \in 1..n /\ i - 1 \in Nat /\ \A j \in 1..n : s[j] \in S
    BY LenProperties, ElementOfSeq
  <1>2. a \in Seq(S) /\ Len(a) = i - 1 /\ \A j \in 1..(i - 1) : a[j] = s[j]
    BY <1>1, SubSeqProperties
  <1>3. b \in Seq(S) /\ Len(b) = n - i /\ \A j \in 1..(n - i) : b[j] = s[j + i]
    BY <1>1, SubSeqProperties
  <1> HIDE DEF a, b, n
  <1>4. /\ w \in Seq(S) /\ Len(w) = Len(a) + Len(b)
        /\ \A j \in 1..(Len(a) + Len(b)) : w[j] = IF j <= Len(a) THEN a[j] ELSE b[j - Len(a)]
    BY <1>2, <1>3, ConcatProperties
  <1> HIDE DEF w
  <1>5. Len(w) = n - 1
    BY <1>1, <1>2, <1>3, <1>4
  <1>6. \A j \in 1..(n - 1) : w[j] = IF j <= i - 1 THEN a[j] ELSE b[j - (i - 1)]
    BY <1>2, <1>4, <1>5
  <1>7. ASSUME NEW j \in 1..(n - 1) PROVE w[j] = s[IF j < i THEN j ELSE j + 1]
    <2>1. CASE j < i
      <3>1. j \in 1..(i - 1) /\ j <= i - 1
        BY <1>1, <2>1
      <3>2. w[j] = a[j]
        BY <1>6, <3>1
      <3> QED BY <1>2, <2>1, <3>1, <3>2
    <2>2. CASE ~(j < i)
      <3>1. j - (i - 1) \in 1..(n - i) /\ j - (i - 1) + i = j + 1 /\ ~(j <= i - 1)
        BY <1>1, <2>2
      <3>2. w[j] = b[j - (i - 1)]
        BY <1>6, <3>1
      <3> QED BY <1>3, <2>2, <3>1, <3>2
    <2> QED BY <2>1, <2>2
  <1>8. w = Without(s, i)
    BY DEF Without, w, a, b
  <1> QED BY <1>4, <1>5, <1>7, <1>8 DEF n

LEMMA Removed ==
    ASSUME NEW S, NEW s \in Seq(S), NEW i \in 1..Len(s)
    PROVE  /\ Without(s, i) \in Seq(S) /\ In(Without(s, i)) \subseteq In(s)
           /\ Len(Without(s, i)) = Len(s) - 1
           /\ s[i] \in S /\ s[i] \in In(s)
  <1> DEFINE w == Without(s, i)
  <1>1. /\ w \in Seq(S) /\ Len(w) = Len(s) - 1 /\ Len(s) \in Nat
        /\ \A j \in 1..Len(w) : w[j] = s[IF j < i THEN j ELSE j + 1]
    BY RemovedAt, LenProperties
  <1> HIDE DEF w
  <1>2. \A j \in 1..Len(w) : (IF j < i THEN j ELSE j + 1) \in 1..Len(s)
    BY <1>1
  <1>3. In(w) \subseteq In(s)
    BY <1>1, <1>2 DEF In
  <1>4. s[i] \in S /\ s[i] \in In(s)
    BY ElementOfSeq DEF In
  <1> QED BY <1>1, <1>3, <1>4 DEF w

\* The messages of the calls.
LEMMA CallFacts ==
    ASSUME NEW c \in Calls
    PROVE  c # NoCall /\ c.method \in Names
  BY ProgramsAssumption, CallsAssumption DEF Calls, Names

LEMMA ReqFacts ==
    ASSUME NEW c, NEW i
    PROVE  LET m == Req(c, i)
           IN  m.name = c.method /\ m.mtype = "call" /\ m.seqid = i
  BY DEF Req, Message

LEMMA DispatchedFacts ==
    ASSUME NEW m
    PROVE  LET a == Dispatched(m)
           IN  a.name = m.name /\ a.mtype \in {"reply", "exception"} /\ a.seqid = m.seqid
  <1>1. LET a == Process(m)
        IN  a.name = m.name /\ a.mtype \in {"reply", "exception"} /\ a.seqid = m.seqid
    BY DEF Process, Message
  <1> QED BY <1>1 DEF Dispatched, Message

LEMMA MessageFacts ==
    /\ \A m \in Requests : m.mtype = "call" /\ m.seqid \in Nat /\ m.name \in Names
    /\ \A m \in Answers : /\ m.mtype \in {"reply", "exception"} /\ m.seqid \in Nat
                          /\ m.name \in Names
    /\ \A m \in Requests : Dispatched(m) \in Answers
  <1>1. ASSUME NEW m \in Requests
        PROVE  m.mtype = "call" /\ m.seqid \in Nat /\ m.name \in Names
    <2>1. PICK c \in Calls, i \in Nat : m = Req(c, i)
      BY DEF Requests
    <2> QED BY <2>1, ReqFacts, CallFacts
  <1>2. ASSUME NEW m \in Answers
        PROVE  /\ m.mtype \in {"reply", "exception"} /\ m.seqid \in Nat
               /\ m.name \in Names
    <2>1. PICK r \in Requests : m = Dispatched(r)
      BY DEF Answers
    <2> QED BY <1>1, <2>1, DispatchedFacts
  <1> QED BY <1>1, <1>2 DEF Answers

LEMMA StubArgs == \A name : StubOf(name).args = ArgsOf(name)
  <1> SUFFICES ASSUME NEW name PROVE StubOf(name).args = ArgsOf(name)
    OBVIOUS
  <1>1. CASE name \notin DOMAIN bbipClient
    BY <1>1 DEF StubOf, OtherService, Stub, ArgsOf, bbipClient, processMap_
  <1>2. CASE name = "ping"
    BY <1>2 DEF StubOf, Stub, ArgsOf, bbipClient, bbipConcurrentClient, processMap_,
                bbipClient_ping, Concurrent_ping, process_ping
  <1>3. CASE name = "count"
    BY <1>3 DEF StubOf, Stub, ArgsOf, bbipClient, bbipConcurrentClient, processMap_,
                bbipClient_count, Concurrent_count, process_count
  <1>4. CASE name = "query"
    BY <1>4 DEF StubOf, Stub, ArgsOf, bbipClient, bbipConcurrentClient, processMap_,
                bbipClient_query, Concurrent_query, process_query
  <1>5. CASE name = "query_string"
    BY <1>5 DEF StubOf, Stub, ArgsOf, bbipClient, bbipConcurrentClient, processMap_,
                bbipClient_query_string, Concurrent_query_string, process_query_string
  <1>6. CASE name = "GetAreaFlag"
    BY <1>6 DEF StubOf, Stub, ArgsOf, bbipClient, bbipConcurrentClient, processMap_,
                bbipClient_GetAreaFlag, Concurrent_GetAreaFlag, process_GetAreaFlag
  <1>7. CASE name = "GetZoneID"
    BY <1>7 DEF StubOf, Stub, ArgsOf, bbipClient, bbipConcurrentClient, processMap_,
                bbipClient_GetZoneID, Concurrent_GetZoneID, process_GetZoneID
  <1>8. CASE name = "query_long"
    BY <1>8 DEF StubOf, Stub, ArgsOf, bbipClient, bbipConcurrentClient, processMap_,
                bbipClient_query_long, Concurrent_query_long, process_query_long
  <1> QED BY <1>1, <1>2, <1>3, <1>4, <1>5, <1>6, <1>7, <1>8 DEF bbipClient

LEMMA RequestIs == \A t \in Threads : Request(t) = Req(call[t], seqid[t])
  BY StubArgs DEF Request, Req, Arguments, Stub

-----------------------------------------------------------------------------
\* Steps of a thread.  What another thread's step may do to a thread: wake it.
Others(t) ==
    /\ pc' \in [Threads -> Labels]
    /\ \A u \in Threads : u # t => pc'[u] = pc[u] \/ (pc[u] = "wait" /\ pc'[u] = "woken")

LEMMA NotifyFacts ==
    ASSUME NEW t \in Threads, NEW ids, NEW label \in Labels, Typed,
           pc' = [Notify(ids, pc) EXCEPT ![t] = label]
    PROVE  /\ Others(t) /\ pc'[t] = label
           /\ \A u \in Threads : u # t /\ pc[u] = "wait" /\ seqid[u] \in ids => pc'[u] = "woken"
  BY DEF Typed, Notify, Others, Labels

\* The end of a concurrent call, by what its sentry leaves.
LEMMA LeaveFacts ==
    ASSUME NEW t \in Threads, NEW s \in Sync, NEW b \in BOOLEAN, Typed, Leave(t, s, b)
    PROVE  /\ sync' \in Sync /\ sync'.nextseqid = s.nextseqid /\ sync'.pending = s.pending
           /\ sync'.monitors = s.monitors \ {seqid[t]}
           /\ sync'.stop = IF b THEN s.stop ELSE TRUE
           /\ Others(t) /\ pc'[t] = "ended" /\ reader' = None
           /\ UNCHANGED <<client, program, call, seqid, made, late>>
  <1> DEFINE rest == s.monitors \ {seqid[t]}
             left == [s EXCEPT !.monitors = rest]
  <1>1. /\ sync' = IF b THEN [left EXCEPT !.wakeupSomeone = TRUE] ELSE Bad(left)
        /\ pc' = [Notify(IF b THEN WakesLast(t, rest) ELSE rest, pc) EXCEPT ![t] = "ended"]
        /\ reader' = None
        /\ UNCHANGED <<client, program, call, seqid, made, late>>
    BY DEF Leave, user
  <1>2. left \in Sync /\ left.monitors = rest /\ left.stop = s.stop
        /\ left.nextseqid = s.nextseqid /\ left.pending = s.pending
    BY DEF Sync
  <1>3. Others(t) /\ pc'[t] = "ended"
    BY <1>1, NotifyFacts DEF Labels
  <1> HIDE DEF left, rest
  <1>4. /\ sync' \in Sync /\ sync'.nextseqid = left.nextseqid /\ sync'.pending = left.pending
        /\ sync'.monitors = left.monitors
        /\ sync'.stop = IF b THEN left.stop ELSE TRUE
    BY <1>1, <1>2 DEF Sync, Bad
  <1> QED BY <1>1, <1>2, <1>3, <1>4 DEF rest

\* The outcomes with which a call ends.
LEMMA TestedFacts ==
    ASSUME NEW stub, NEW result
    PROVE  /\ Tested(stub, result).kind \in Outcomes
           /\ Tested(stub, result) # Pending
  BY DEF Tested, Outcome, Pending, Outcomes

LEMMA ReportFacts ==
    ASSUME NEW t \in Threads, NEW o, o.kind \in Outcomes, o # Pending, Typed, Report(t, o)
    PROVE  /\ outcome' = [outcome EXCEPT ![t] = o] /\ out' = out /\ earlier' = earlier
           /\ DOMAIN outcome' = Threads /\ \A u \in Threads : outcome'[u].kind \in Outcomes
           /\ outcome'[t] # Pending
           /\ \A u \in Threads : u # t => outcome'[u] = outcome[u]
  BY DEF Report, Typed

LEMMA ReportResultFacts ==
    ASSUME NEW t \in Threads, NEW stub, NEW body, Typed, ReportResult(t, stub, body)
    PROVE  /\ DOMAIN outcome' = Threads /\ \A u \in Threads : outcome'[u].kind \in Outcomes
           /\ DOMAIN out' = Threads /\ DOMAIN earlier' = Threads
           /\ outcome'[t] # Pending
           /\ \A u \in Threads : u # t => outcome'[u] = outcome[u]
  <1> DEFINE o == Tested(stub, Result(t, stub, body))
  <1>1. o.kind \in Outcomes /\ o # Pending
    BY TestedFacts
  <1>2. /\ outcome' = [outcome EXCEPT ![t] = o]
        /\ DOMAIN out' = DOMAIN out /\ DOMAIN earlier' = DOMAIN earlier
    BY DEF ReportResult
  <1> HIDE DEF o
  <1> QED BY <1>1, <1>2 DEF Typed

\* A step of thread t in its call: it goes on, or ends its call with an outcome.
Goes(t) ==
    /\ InCall(t) /\ Others(t)
    /\ UNCHANGED <<client, program, call, seqid, made, up, toServer>>
    /\ late' \in BOOLEAN /\ (client = "concurrent" => late' = late)
    /\ \/ toClient' = toClient
       \/ /\ toClient # <<>> /\ toClient' = Tail(toClient)
          /\ client = "plain" \/ pc[t] = "compare"
    /\ reader' \in Threads \cup {None}
    /\ DOMAIN outcome' = Threads /\ \A u \in Threads : outcome'[u].kind \in Outcomes
    /\ DOMAIN out' = Threads /\ DOMAIN earlier' = Threads
    /\ \A u \in Threads : u # t => outcome'[u] = outcome[u]
    /\ outcome'[t] = Pending <=> pc'[t] # "ended"
    /\ pc'[t] # "send" /\ (pc'[t] = "misread" => client = "plain")
    /\ client = "plain" => sync' = sync /\ pc'[t] \in {"ended", "recv", "misread"}
    /\ \/ Reads(t)' /\ reader' = t /\ reader \in {t, None}
       \/ ~Reads(t)' /\ reader' = None /\ reader \in {t, None}
       \/ ~Reads(t) /\ ~Reads(t)' /\ reader' = reader
    /\ sync' \in Sync /\ sync'.nextseqid = sync.nextseqid
    /\ sync'.monitors \subseteq sync.monitors
    /\ sync.stop => sync'.stop
    /\ client = "concurrent" /\ pc'[t] = "ended" /\ ~sync'.stop => seqid[t] \notin sync'.monitors
    /\ pc'[t] = "compare" => toClient' # <<>>

LEMMA GoesTyped ==
    ASSUME IInv, NEW t \in Threads, Goes(t)
    PROVE  Typed'
  <1>1. toClient' \in Seq(Answers)
    BY Rest DEF IInv, Typed, Goes
  <1> QED BY <1>1 DEF IInv, Typed, Goes, Others

LEMMA GoesReading ==
    ASSUME IInv, NEW t \in Threads, Goes(t)
    PROVE  Reading'
  <1> SUFFICES ASSUME NEW u \in Threads PROVE Reads(u)' <=> reader' = u
    BY DEF Reading
  <1>1. Reads(u) <=> reader = u
    BY DEF IInv, Reading
  <1>2. u # t => (Reads(u)' <=> Reads(u))
    BY DEF Goes, Others, Reads
  <1>3. None \notin Threads
    BY ThreadsAssumption
  <1>4. Reads(t) <=> reader = t
    BY DEF IInv, Reading
  <1> QED BY <1>1, <1>2, <1>3, <1>4 DEF Goes

LEMMA GoesModes ==
    ASSUME IInv, NEW t \in Threads, Goes(t)
    PROVE  Modes'
  <1>1. client' = client
    BY DEF Goes
  <1>2. CASE client = "plain"
    <2>1. sync' = NewSync
      BY <1>2 DEF IInv, Modes, Goes
    <2>2. ASSUME NEW u \in Threads, u # t PROVE pc'[u] = pc[u] /\ ~InCall(u)
      BY <1>2, <2>2 DEF IInv, Modes, Goes, Others
    <2> QED BY <1>1, <1>2, <2>1, <2>2 DEF IInv, Modes, Goes, InCall
  <1>3. CASE client = "concurrent"
    BY <1>1, <1>3 DEF IInv, Modes, Goes, Others
  <1> QED BY <1>2, <1>3 DEF IInv, Typed

LEMMA GoesSettled ==
    ASSUME IInv, NEW t \in Threads, Goes(t)
    PROVE  Settled'
  <1> SUFFICES ASSUME NEW u \in Threads
               PROVE  /\ outcome'[u] = Pending <=> InCall(u)' \/ call'[u] = NoCall
                      /\ InCall(u)' => call'[u] # NoCall
    BY DEF Settled
  <1>1. call' = call /\ InCall(t)
    BY DEF Goes
  <1>2. /\ outcome[u] = Pending <=> InCall(u) \/ call[u] = NoCall
        /\ InCall(u) => call[u] # NoCall
    BY DEF IInv, Settled
  <1>3. CASE u # t
    <2>1. outcome'[u] = outcome[u] /\ (InCall(u)' <=> InCall(u))
      BY <1>3 DEF Goes, Others, InCall
    <2> QED BY <1>1, <1>2, <2>1
  <1>4. CASE u = t
    <2>1. call[t] # NoCall
      BY <1>1 DEF IInv, Settled
    <2> QED BY <1>1, <1>4, <2>1 DEF Goes, InCall
  <1> QED BY <1>3, <1>4

LEMMA GoesNumbers ==
    ASSUME IInv, NEW t \in Threads, Goes(t)
    PROVE  Numbers'
  <1> SUFFICES ASSUME client = "concurrent" PROVE Numbers'
    BY DEF Goes, Numbers
  <1>1. /\ seqid' = seqid /\ toServer' = toServer /\ sync' \in Sync /\ sync \in Sync
        /\ sync'.nextseqid = sync.nextseqid /\ sync'.monitors \subseteq sync.monitors
        /\ sync.stop => sync'.stop
    BY DEF Goes, IInv, Typed
  <1>2. \A u \in Threads : u # t => (InCall(u)' <=> InCall(u))
    BY DEF Goes, Others, InCall
  <1>3. InCall(t)
    BY DEF Goes
  <1>4. In(toClient)' \subseteq In(toClient)
    BY Rest DEF IInv, Typed, Goes
  <1>5. (\A i \in sync.monitors : i < sync.nextseqid)'
    BY <1>1 DEF IInv, Numbers
  <1>6. (\A u \in Threads : InCall(u) => seqid[u] < sync.nextseqid)'
    BY <1>1, <1>2, <1>3 DEF IInv, Numbers
  <1>7. (\A u, v \in Threads : u # v /\ InCall(u) /\ InCall(v) => seqid[u] # seqid[v])'
    BY <1>1, <1>2, <1>3 DEF IInv, Numbers
  <1>8. ASSUME ~sync'.stop, NEW i \in sync'.monitors
        PROVE  \E u \in Threads : InCall(u)' /\ seqid'[u] = i
    <2>1. PICK u \in Threads : InCall(u) /\ seqid[u] = i
      BY <1>1, <1>8 DEF IInv, Numbers, Sync
    <2>2. CASE u # t
      BY <1>1, <1>2, <2>1, <2>2
    <2>3. CASE u = t
      <3>1. pc'[t] # "ended"
        BY <1>8, <2>1, <2>3 DEF Goes
      <3> QED BY <1>1, <2>1, <2>3, <3>1 DEF InCall
    <2> QED BY <2>2, <2>3
  <1>9. (\A m \in In(toServer) \cup In(toClient) : m.seqid < sync.nextseqid)'
    BY <1>1, <1>4 DEF IInv, Numbers
  <1> QED BY <1>5, <1>6, <1>7, <1>8, <1>9 DEF Numbers

LEMMA GoesUnderway ==
    ASSUME IInv, NEW t \in Threads, Goes(t)
    PROVE  Underway'
  <1> SUFFICES ASSUME client = "concurrent", NEW u \in Threads, InCall(u)'
               PROVE  /\ \A m \in In(toServer)' : m.seqid = seqid'[u] =>
                            pc'[u] # "send" /\ m = Req(call'[u], seqid'[u])
                      /\ \A m \in In(toClient)' : m.seqid = seqid'[u] =>
                            pc'[u] # "send" /\ m = Dispatched(Req(call'[u], seqid'[u]))
    BY DEF Goes, Underway
  <1>1. seqid' = seqid /\ toServer' = toServer /\ call' = call
    BY DEF Goes
  <1>2. InCall(u)
    BY DEF Goes, Others, InCall
  <1>3. pc'[u] = "send" => pc[u] = "send"
    BY DEF Goes, Others
  <1>4. In(toClient)' \subseteq In(toClient) /\ In(toServer)' = In(toServer)
    BY <1>1, Rest DEF IInv, Typed, Goes
  <1> QED BY <1>1, <1>2, <1>3, <1>4 DEF IInv, Underway

LEMMA GoesHeaderRead ==
    ASSUME IInv, NEW t \in Threads, Goes(t)
    PROVE  HeaderRead'
  <1> SUFFICES ASSUME NEW u \in Threads, pc'[u] = "compare" PROVE toClient' # <<>>
    BY DEF HeaderRead
  <1>1. CASE u = t
    BY <1>1 DEF Goes
  <1>2. CASE u # t
    <2>1. pc[u] = "compare"
      BY <1>2 DEF Goes, Others
    <2>2. pc[t] # "compare"
      BY <1>2, <2>1 DEF IInv, Reading, Reads
    <2>3. client = "concurrent"
      BY <2>1 DEF IInv, Modes, Typed
    <2>4. toClient' = toClient
      BY <2>2, <2>3 DEF Goes
    <2> QED BY <2>1, <2>4 DEF IInv, HeaderRead
  <1> QED BY <1>1, <1>2

LEMMA GoesInv ==
    ASSUME IInv, NEW t \in Threads, Goes(t), PendingNext'
    PROVE  IInv'
  BY GoesTyped, GoesReading, GoesModes, GoesSettled, GoesNumbers, GoesUnderway, GoesHeaderRead
     DEF IInv

\* A step that neither reads a header nor leaves one.
LEMMA GoesPending ==
    ASSUME IInv, NEW t \in Threads, Goes(t), toClient' = toClient,
           sync'.pending = sync.pending,
           sync'.stop \/ (pc'[t] \notin {"read", "compare"} /\
                          (pc[t] \in {"recv", "woken", "pick"} /\ seqid[t] = sync.pending.seqid
                             => pc'[t] \in {"recv", "woken", "pick"}))
    PROVE  PendingNext'
  <1> SUFFICES ASSUME sync.pending # NoHeader, ~sync'.stop
               PROVE  /\ \A u \in Threads : pc'[u] \notin {"read", "compare"}
                      /\ toClient' # <<>> /\ toClient'[1].seqid = sync'.pending.seqid
                      /\ \E u \in Threads : /\ seqid'[u] = sync'.pending.seqid
                                            /\ pc'[u] \in {"recv", "woken", "pick"}
    BY DEF PendingNext
  <1>1. sync.stop \in BOOLEAN /\ sync'.stop \in BOOLEAN
    BY DEF IInv, Typed, Goes, Sync
  <1>2. ~sync.stop
    BY DEF Goes
  <1>3. /\ \A u \in Threads : pc[u] \notin {"read", "compare"}
        /\ toClient # <<>> /\ toClient[1].seqid = sync.pending.seqid
    BY <1>2 DEF IInv, PendingNext
  <1>4. PICK u \in Threads : seqid[u] = sync.pending.seqid /\ pc[u] \in {"recv", "woken", "pick"}
    BY <1>2 DEF IInv, PendingNext
  <1>5. \A v \in Threads : v # t => pc'[v] \notin {"read", "compare"}
    BY <1>3 DEF Goes, Others
  <1>6. pc'[u] \in {"recv", "woken", "pick"}
    BY <1>4 DEF Goes, Others
  <1>7. seqid' = seqid
    BY DEF Goes
  <1> QED BY <1>3, <1>4, <1>5, <1>6, <1>7

LEMMA NobodyPending == sync'.pending = NoHeader \/ sync'.stop => PendingNext'
  BY DEF PendingNext

-----------------------------------------------------------------------------
\* The steps of the plain client.
LEMMA PlainNoPending ==
    ASSUME IInv, client = "plain", sync' = sync
    PROVE  PendingNext'
  BY NobodyPending DEF IInv, Modes, NewSync

LEMMA GotoFacts ==
    ASSUME NEW t \in Threads, NEW label \in Labels, Typed, Goto(t, label)
    PROVE  /\ Others(t) /\ pc'[t] = label /\ (\A u \in Threads : u # t => pc'[u] = pc[u])
  BY DEF Goto, Typed, Others

LEMMA OutcomeKinds ==
    \A kind \in Outcomes : \A v :
        /\ Outcome(kind, v).kind \in Outcomes
        /\ kind # "pending" => Outcome(kind, v) # Pending
  BY DEF Outcome, Pending

LEMMA PlainFailsInv ==
    ASSUME IInv, NEW t \in Threads, PlainFails(t)
    PROVE  IInv' /\ Goes(t)
  <1>1. /\ client = "plain" /\ pc[t] \in {"send", "recv", "misread"}
        /\ Report(t, Outcome("transport", "")) /\ Goto(t, "ended")
        /\ late' = (late \/ up)
        /\ UNCHANGED <<client, program, toServer, toClient, up, sync, reader, call, seqid, made>>
    BY DEF PlainFails, user, wires
  <1>2. Others(t) /\ pc'[t] = "ended"
    BY <1>1, GotoFacts DEF IInv, Labels
  <1>3. Outcome("transport", "").kind \in Outcomes /\ Outcome("transport", "") # Pending
    BY OutcomeKinds DEF Outcomes
  <1>4. /\ DOMAIN outcome' = Threads /\ \A u \in Threads : outcome'[u].kind \in Outcomes
        /\ DOMAIN out' = Threads /\ DOMAIN earlier' = Threads
        /\ outcome'[t] # Pending
        /\ \A u \in Threads : u # t => outcome'[u] = outcome[u]
    BY <1>1, <1>3, ReportFacts DEF IInv, Typed
  <1>5. late' \in BOOLEAN
    BY <1>1
  <1>6. sync \in Sync /\ reader \in Threads \cup {None}
    BY DEF IInv, Typed
  <1>7. Goes(t)
    BY <1>1, <1>2, <1>4, <1>5, <1>6 DEF Goes, InCall, Reads
  <1> QED BY <1>1, <1>7, PlainNoPending, GoesInv

LEMMA PlainRecvInv ==
    ASSUME IInv, NEW t \in Threads, PlainRecv(t)
    PROVE  IInv' /\ Goes(t)
  <1> DEFINE msg == Head(toClient)
  <1>1. /\ client = "plain" /\ pc[t] = "recv" /\ toClient # <<>>
        /\ \/ Report(t, Outcome("exception", msg.body)) /\ Goto(t, "ended")
           \/ ReportResult(t, StubOf(msg.name), msg.body) /\ Goto(t, "ended")
           \/ Goto(t, "misread") /\ UNCHANGED <<out, outcome, earlier>>
        /\ toClient' = Tail(toClient)
        /\ UNCHANGED <<client, program, toServer, up, sync, reader, call, seqid, made, late>>
    BY DEF PlainRecv, user
  <1> HIDE DEF msg
  <1>2. /\ Others(t) /\ pc'[t] \in {"ended", "misread"}
        /\ DOMAIN outcome' = Threads /\ \A u \in Threads : outcome'[u].kind \in Outcomes
        /\ DOMAIN out' = Threads /\ DOMAIN earlier' = Threads
        /\ outcome'[t] = Pending <=> pc'[t] # "ended"
        /\ \A u \in Threads : u # t => outcome'[u] = outcome[u]
    <2>1. CASE Report(t, Outcome("exception", msg.body)) /\ Goto(t, "ended")
      <3>1. /\ Outcome("exception", msg.body).kind \in Outcomes
            /\ Outcome("exception", msg.body) # Pending
        BY OutcomeKinds DEF Outcomes
      <3> QED BY <2>1, <3>1, ReportFacts, GotoFacts DEF IInv, Typed, Labels
    <2>2. CASE ReportResult(t, StubOf(msg.name), msg.body) /\ Goto(t, "ended")
      BY <2>2, ReportResultFacts, GotoFacts DEF IInv, Typed, Labels
    <2>3. CASE Goto(t, "misread") /\ UNCHANGED <<out, outcome, earlier>>
      <3>1. outcome[t] = Pending
        BY <1>1 DEF IInv, Settled, InCall
      <3> QED BY <2>3, <3>1, GotoFacts DEF IInv, Typed, Labels
    <2> QED BY <1>1, <2>1, <2>2, <2>3
  <1>3. sync \in Sync /\ reader \in Threads \cup {None} /\ late \in BOOLEAN
    BY DEF IInv, Typed
  <1>4. Goes(t)
    BY <1>1, <1>2, <1>3 DEF Goes, InCall, Reads
  <1> QED BY <1>1, <1>4, PlainNoPending, GoesInv

LEMMA MisreadInv ==
    ASSUME IInv, NEW t \in Threads, Misread(t)
    PROVE  IInv' /\ Goes(t)
  <1>1. /\ pc[t] = "misread" /\ toClient # <<>>
        /\ Report(t, Outcome("missing", "")) /\ Goto(t, "ended")
        /\ toClient' = Tail(toClient)
        /\ UNCHANGED <<client, program, toServer, up, sync, reader, call, seqid, made, late>>
    BY DEF Misread, user
  <1>2. client = "plain"
    BY <1>1 DEF IInv, Modes, Typed
  <1>3. Others(t) /\ pc'[t] = "ended"
    BY <1>1, GotoFacts DEF IInv, Labels
  <1>4. Outcome("missing", "").kind \in Outcomes /\ Outcome("missing", "") # Pending
    BY OutcomeKinds DEF Outcomes
  <1>5. /\ DOMAIN outcome' = Threads /\ \A u \in Threads : outcome'[u].kind \in Outcomes
        /\ DOMAIN out' = Threads /\ DOMAIN earlier' = Threads
        /\ outcome'[t] # Pending
        /\ \A u \in Threads : u # t => outcome'[u] = outcome[u]
    BY <1>1, <1>4, ReportFacts DEF IInv, Typed
  <1>6. sync \in Sync /\ reader \in Threads \cup {None} /\ late \in BOOLEAN
    BY DEF IInv, Typed
  <1>7. Goes(t)
    BY <1>1, <1>2, <1>3, <1>5, <1>6 DEF Goes, InCall, Reads
  <1> QED BY <1>1, <1>2, <1>7, PlainNoPending, GoesInv

-----------------------------------------------------------------------------
\* The steps of the concurrent client.
LEMMA SendFailsInv ==
    ASSUME IInv, NEW t \in Threads, SendFails(t)
    PROVE  IInv' /\ Goes(t)
  <1>1. /\ client = "concurrent" /\ pc[t] = "send" /\ sync' = Bad(sync)
        /\ pc' = [Notify(sync.monitors, pc) EXCEPT ![t] = "ended"]
        /\ outcome' = [outcome EXCEPT ![t] = Outcome("transport", "")]
        /\ UNCHANGED <<client, program, toServer, toClient, up, reader, call, seqid, made,
                       out, earlier, late>>
    BY DEF SendFails, user, wires
  <1>2. Others(t) /\ pc'[t] = "ended"
    BY <1>1, NotifyFacts DEF IInv, Labels
  <1>3. Outcome("transport", "").kind \in Outcomes /\ Outcome("transport", "") # Pending
    BY OutcomeKinds DEF Outcomes
  <1>4. /\ sync' \in Sync /\ sync'.nextseqid = sync.nextseqid /\ sync'.stop
        /\ sync'.monitors = sync.monitors
    BY <1>1 DEF IInv, Typed, Sync, Bad
  <1>5. reader \in Threads \cup {None} /\ late \in BOOLEAN
    BY DEF IInv, Typed
  <1>6. /\ DOMAIN outcome' = Threads /\ \A u \in Threads : outcome'[u].kind \in Outcomes
        /\ DOMAIN out' = Threads /\ DOMAIN earlier' = Threads
        /\ outcome'[t] # Pending
        /\ \A u \in Threads : u # t => outcome'[u] = outcome[u]
    BY <1>1, <1>3 DEF IInv, Typed
  <1>7. Goes(t)
    BY <1>1, <1>2, <1>4, <1>5, <1>6 DEF Goes, InCall, Reads
  <1> QED BY <1>4, <1>7, NobodyPending, GoesInv

LEMMA LockInv ==
    ASSUME IInv, NEW t \in Threads, Lock(t)
    PROVE  IInv' /\ Goes(t)
  <1>1. /\ client = "concurrent" /\ pc[t] = "recv" /\ reader = None /\ reader' = t
        /\ Goto(t, "pick")
        /\ UNCHANGED <<client, program, toServer, toClient, up, sync, call, seqid, made, out,
                       outcome, earlier, late>>
    BY DEF Lock, user, wires, Goto
  <1>2. Others(t) /\ pc'[t] = "pick"
    BY <1>1, GotoFacts DEF IInv, Labels
  <1>3. outcome[t] = Pending
    BY <1>1 DEF IInv, Settled, InCall
  <1>4. sync \in Sync /\ late \in BOOLEAN
    BY DEF IInv, Typed
  <1>5. /\ DOMAIN outcome = Threads /\ \A u \in Threads : outcome[u].kind \in Outcomes
        /\ DOMAIN out = Threads /\ DOMAIN earlier = Threads
    BY DEF IInv, Typed
  <1>6. Goes(t)
    BY <1>1, <1>2, <1>3, <1>4, <1>5 DEF Goes, InCall, Reads
  <1> QED BY <1>1, <1>2, <1>6, GoesPending, GoesInv

\* Thread t ends its concurrent call and leaves the sync data s behind.
LEMMA LeaveGoes ==
    ASSUME IInv, NEW t \in Threads, InCall(t), client = "concurrent",
           NEW s \in Sync, NEW b \in BOOLEAN, Leave(t, s, b),
           s.nextseqid = sync.nextseqid, s.monitors = sync.monitors, s.stop = sync.stop,
           reader \in {t, None},
           UNCHANGED <<up, toServer>>,
           toClient' = toClient \/ (pc[t] = "compare" /\ toClient # <<>> /\ toClient' = Tail(toClient)),
           /\ DOMAIN outcome' = Threads /\ \A u \in Threads : outcome'[u].kind \in Outcomes
           /\ DOMAIN out' = Threads /\ DOMAIN earlier' = Threads
           /\ outcome'[t] # Pending
           /\ \A u \in Threads : u # t => outcome'[u] = outcome[u]
    PROVE  /\ Goes(t) /\ sync'.pending = s.pending /\ pc'[t] = "ended"
           /\ sync'.stop = IF b THEN s.stop ELSE TRUE
  <1>1. /\ sync' \in Sync /\ sync'.nextseqid = s.nextseqid /\ sync'.pending = s.pending
        /\ sync'.monitors = s.monitors \ {seqid[t]}
        /\ sync'.stop = IF b THEN s.stop ELSE TRUE
        /\ Others(t) /\ pc'[t] = "ended" /\ reader' = None
        /\ UNCHANGED <<client, program, call, seqid, made, late>>
    BY LeaveFacts DEF IInv
  <1>2. late \in BOOLEAN
    BY DEF IInv, Typed
  <1>3. Goes(t)
    BY <1>1, <1>2 DEF Goes, Reads
  <1> QED BY <1>1, <1>3

LEMMA DeadFacts ==
    ASSUME IInv, NEW t \in Threads, NEW kind \in Outcomes \ {"pending"}, Report(t, Outcome(kind, ""))
    PROVE  /\ DOMAIN outcome' = Threads /\ \A u \in Threads : outcome'[u].kind \in Outcomes
           /\ DOMAIN out' = Threads /\ DOMAIN earlier' = Threads
           /\ outcome'[t] # Pending
           /\ \A u \in Threads : u # t => outcome'[u] = outcome[u]
  <1>1. Outcome(kind, "").kind \in Outcomes /\ Outcome(kind, "") # Pending
    BY OutcomeKinds
  <1> QED BY <1>1, ReportFacts DEF IInv, Typed

LEMMA GetPendingInv ==
    ASSUME IInv, NEW t \in Threads, GetPending(t)
    PROVE  IInv' /\ Goes(t)
  <1>1. pc[t] = "pick" /\ UNCHANGED <<toServer, toClient, up>>
    BY DEF GetPending, wires
  <1>2. client = "concurrent" /\ reader = t /\ InCall(t) /\ sync \in Sync
    BY <1>1 DEF IInv, Modes, Reading, Reads, Typed, InCall
  <1>3. CASE sync.stop
    <2>1. Report(t, Outcome("dead", "")) /\ Leave(t, sync, FALSE)
      BY <1>3 DEF GetPending
    <2>2. "dead" \in Outcomes \ {"pending"}
      BY DEF Outcomes
    <2>3. Goes(t) /\ sync'.stop
      BY <1>1, <1>2, <2>1, <2>2, DeadFacts, LeaveGoes
    <2> QED BY <2>3, NobodyPending, GoesInv
  <1>4. CASE ~sync.stop
    <2> DEFINE label == IF sync.pending # NoHeader THEN "compare" ELSE "read"
    <2>1. /\ sync' = [sync EXCEPT !.wakeupSomeone = FALSE, !.pending = NoHeader]
          /\ Goto(t, label)
          /\ UNCHANGED <<client, program, reader, call, seqid, made, out, outcome, earlier, late>>
      BY <1>4 DEF GetPending, user
    <2>2. label \in {"compare", "read"} /\ label \in Labels
      BY DEF Labels
    <2>3. label = "compare" => toClient # <<>>
      BY <1>4 DEF IInv, PendingNext
    <2> HIDE DEF label
    <2>4. Others(t) /\ pc'[t] = label
      BY <2>1, <2>2, GotoFacts DEF IInv
    <2>5. NoHeader \in Header
      BY DEF NoHeader, Header, None
    <2>6. /\ sync' \in Sync /\ sync'.nextseqid = sync.nextseqid
          /\ sync'.monitors = sync.monitors /\ sync'.stop = sync.stop
          /\ sync'.pending = NoHeader
      BY <1>2, <2>1, <2>5 DEF Sync
    <2>7. outcome[t] = Pending
      BY <1>1 DEF IInv, Settled, InCall
    <2>8. /\ DOMAIN outcome = Threads /\ \A u \in Threads : outcome[u].kind \in Outcomes
          /\ DOMAIN out = Threads /\ DOMAIN earlier = Threads /\ late \in BOOLEAN
      BY DEF IInv, Typed
    <2>9. Goes(t)
      BY <1>1, <1>2, <2>1, <2>2, <2>3, <2>4, <2>6, <2>7, <2>8 DEF Goes, Reads
    <2> QED BY <2>6, <2>9, NobodyPending, GoesInv
  <1> QED BY <1>3, <1>4

LEMMA ReadHeaderInv ==
    ASSUME IInv, NEW t \in Threads, ReadHeader(t)
    PROVE  IInv' /\ Goes(t)
  <1>1. /\ pc[t] = "read" /\ toClient # <<>> /\ Goto(t, "compare")
        /\ UNCHANGED <<client, program, toServer, toClient, up, sync, reader, call, seqid, made,
                       out, outcome, earlier, late>>
    BY DEF ReadHeader, user, wires
  <1>2. Others(t) /\ pc'[t] = "compare"
    BY <1>1, GotoFacts DEF IInv, Labels
  <1>3. outcome[t] = Pending /\ client = "concurrent" /\ reader = t /\ sync \in Sync
    BY <1>1 DEF IInv, Settled, InCall, Modes, Reading, Reads, Typed
  <1>4. /\ DOMAIN outcome = Threads /\ \A u \in Threads : outcome[u].kind \in Outcomes
        /\ DOMAIN out = Threads /\ DOMAIN earlier = Threads /\ late \in BOOLEAN
    BY DEF IInv, Typed
  <1>5. Goes(t)
    BY <1>1, <1>2, <1>3, <1>4 DEF Goes, InCall, Reads
  <1>6. sync'.pending = NoHeader \/ sync'.stop
    BY <1>1 DEF IInv, PendingNext
  <1> QED BY <1>5, <1>6, NobodyPending, GoesInv

LEMMA ReadFailsInv ==
    ASSUME IInv, NEW t \in Threads, ReadFails(t)
    PROVE  IInv' /\ Goes(t)
  <1>1. /\ pc[t] = "read" /\ UNCHANGED <<toServer, toClient, up>>
        /\ Report(t, Outcome("transport", "")) /\ Leave(t, sync, FALSE)
    BY DEF ReadFails, wires
  <1>2. client = "concurrent" /\ reader = t /\ InCall(t) /\ sync \in Sync
    BY <1>1 DEF IInv, Modes, Reading, Reads, Typed, InCall
  <1>3. "transport" \in Outcomes \ {"pending"}
    BY DEF Outcomes
  <1>4. Goes(t) /\ sync'.stop
    BY <1>1, <1>2, <1>3, DeadFacts, LeaveGoes
  <1> QED BY <1>4, NobodyPending, GoesInv

LEMMA RecvOwnInv ==
    ASSUME IInv, NEW t \in Threads, RecvOwn(t)
    PROVE  IInv' /\ Goes(t)
  <1> DEFINE msg == Head(toClient)
  <1>1. /\ pc[t] = "compare"
        /\ \/ Report(t, Outcome("exception", msg.body))
           \/ Report(t, Outcome("invalid", ""))
           \/ ReportResult(t, StubOf(msg.name), msg.body)
        /\ toClient' = Tail(toClient) /\ UNCHANGED <<toServer, up>>
    BY DEF RecvOwn
  <1>2. Leave(t, sync, TRUE) \/ Leave(t, sync, FALSE)
    BY DEF RecvOwn, Leave
  <1>3. /\ client = "concurrent" /\ reader = t /\ InCall(t) /\ sync \in Sync
        /\ toClient # <<>>
    BY <1>1 DEF IInv, Modes, Reading, Reads, Typed, InCall, HeaderRead
  <1> HIDE DEF msg
  <1>4. /\ DOMAIN outcome' = Threads /\ \A u \in Threads : outcome'[u].kind \in Outcomes
        /\ DOMAIN out' = Threads /\ DOMAIN earlier' = Threads
        /\ outcome'[t] # Pending
        /\ \A u \in Threads : u # t => outcome'[u] = outcome[u]
    <2>1. CASE Report(t, Outcome("exception", msg.body))
      <3>1. /\ Outcome("exception", msg.body).kind \in Outcomes
            /\ Outcome("exception", msg.body) # Pending
        BY OutcomeKinds DEF Outcomes
      <3> QED BY <2>1, <3>1, ReportFacts DEF IInv, Typed
    <2>2. CASE Report(t, Outcome("invalid", ""))
      <3>1. "invalid" \in Outcomes \ {"pending"}
        BY DEF Outcomes
      <3> QED BY <2>2, <3>1, DeadFacts
    <2>3. CASE ReportResult(t, StubOf(msg.name), msg.body)
      BY <2>3, ReportResultFacts DEF IInv
    <2> QED BY <1>1, <2>1, <2>2, <2>3
  <1>5. Goes(t) /\ sync'.pending = sync.pending
    BY <1>1, <1>2, <1>3, <1>4, LeaveGoes
  <1>6. sync.pending = NoHeader \/ sync.stop
    BY <1>1 DEF IInv, PendingNext
  <1>7. sync.stop => sync'.stop
    BY <1>5 DEF Goes
  <1> QED BY <1>5, <1>6, <1>7, NobodyPending, GoesInv

LEMMA HandOverInv ==
    ASSUME IInv, NEW t \in Threads, HandOver(t)
    PROVE  IInv' /\ Goes(t)
  <1> DEFINE msg == Head(toClient)
             header == [name |-> msg.name, mtype |-> msg.mtype, seqid |-> msg.seqid]
             left == [sync EXCEPT !.pending = header]
  <1>1. /\ pc[t] = "compare" /\ UNCHANGED <<toServer, toClient, up>>
        /\ ~Mine(t, msg)
        /\ IF msg.seqid \in sync.monitors
           THEN WaitForWork(t, left, Notify({msg.seqid}, pc))
           ELSE Report(t, Outcome("invalid", "")) /\ Leave(t, left, FALSE)
    BY DEF HandOver, wires
  <1>2. /\ client = "concurrent" /\ reader = t /\ InCall(t) /\ sync \in Sync
        /\ toClient # <<>>
    BY <1>1 DEF IInv, Modes, Reading, Reads, Typed, InCall, HeaderRead
  <1>3. msg = toClient[1] /\ msg \in In(toClient) /\ msg \in Answers
    BY <1>2, Rest DEF IInv, Typed
  <1>4. header \in Header /\ header # NoHeader /\ header.seqid = msg.seqid
    BY <1>3, MessageFacts DEF Header, NoHeader, None
  <1> HIDE DEF header
  <1>5. /\ left \in Sync /\ left.nextseqid = sync.nextseqid /\ left.monitors = sync.monitors
        /\ left.stop = sync.stop /\ left.pending = header
    BY <1>2, <1>4 DEF Sync
  <1> HIDE DEF left, msg
  <1>6. ASSUME NEW kind \in Outcomes \ {"pending"}, Report(t, Outcome(kind, "")),
               Leave(t, left, FALSE)
        PROVE  IInv' /\ Goes(t)
    <2>1. Goes(t) /\ sync'.stop
      BY <1>1, <1>2, <1>5, <1>6, DeadFacts, LeaveGoes
    <2> QED BY <2>1, NobodyPending, GoesInv
  <1>7. CASE msg.seqid \notin sync.monitors
    <2>1. "invalid" \in Outcomes \ {"pending"}
      BY DEF Outcomes
    <2> QED BY <1>1, <1>6, <1>7, <2>1
  <1>8. CASE msg.seqid \in sync.monitors /\ sync.stop
    <2>1. Report(t, Outcome("dead", "")) /\ Leave(t, left, FALSE)
      BY <1>1, <1>5, <1>8 DEF WaitForWork
    <2>2. "dead" \in Outcomes \ {"pending"}
      BY DEF Outcomes
    <2> QED BY <1>6, <2>1, <2>2
  <1>9. CASE msg.seqid \in sync.monitors /\ ~sync.stop
    <2> DEFINE label == IF HasWork(t, left) THEN "pick" ELSE "wait"
    <2>1. /\ sync' = left
          /\ pc' = [Notify({msg.seqid}, pc) EXCEPT ![t] = label]
          /\ reader' = IF HasWork(t, left) THEN t ELSE None
          /\ UNCHANGED <<client, program, call, seqid, made, out, outcome, earlier, late>>
      BY <1>1, <1>5, <1>9 DEF WaitForWork, user
    <2>2. /\ label \in {"pick", "wait"} /\ label \in Labels
          /\ reader' = IF label = "pick" THEN t ELSE None
      BY <2>1 DEF Labels
    <2> HIDE DEF label
    <2>3. /\ Others(t) /\ pc'[t] = label
          /\ \A u \in Threads : u # t /\ pc[u] = "wait" /\ seqid[u] \in {msg.seqid} =>
                pc'[u] = "woken"
      BY <2>1, <2>2, NotifyFacts DEF IInv
    <2>4. outcome[t] = Pending
      BY <1>1 DEF IInv, Settled, InCall
    <2>5. /\ DOMAIN outcome = Threads /\ \A u \in Threads : outcome[u].kind \in Outcomes
          /\ DOMAIN out = Threads /\ DOMAIN earlier = Threads /\ late \in BOOLEAN
      BY DEF IInv, Typed
    <2>6. Goes(t)
      BY <1>1, <1>2, <1>5, <2>1, <2>2, <2>3, <2>4, <2>5 DEF Goes, Reads
    <2>7. PICK u \in Threads : InCall(u) /\ seqid[u] = msg.seqid
      BY <1>2, <1>9 DEF IInv, Numbers
    <2>8. u # t
      BY <1>1, <2>7 DEF Mine
    <2>9. pc[u] # "send"
      BY <1>2, <1>3, <2>7 DEF IInv, Underway
    <2>10. ~Reads(u) /\ pc[u] # "misread" /\ pc[u] \in Labels
      BY <1>2, <2>8 DEF IInv, Reading, Modes, Typed
    <2>11. pc[u] \in {"recv", "wait", "woken"}
      BY <2>7, <2>9, <2>10 DEF Reads, InCall, Labels
    <2>12. pc'[u] \in {"recv", "woken", "pick"}
      BY <2>3, <2>7, <2>8, <2>11 DEF Others
    <2>13. \A v \in Threads : pc'[v] \notin {"read", "compare"}
      <3>1. \A v \in Threads : v # t => pc[v] \notin {"read", "compare"}
        BY <1>2 DEF IInv, Reading, Reads
      <3> QED BY <2>2, <2>3, <3>1 DEF Others
    <2>14. PendingNext'
      BY <1>1, <1>2, <1>3, <1>4, <1>5, <2>1, <2>7, <2>12, <2>13 DEF PendingNext
    <2> QED BY <2>6, <2>14, GoesInv
  <1> QED BY <1>7, <1>8, <1>9

LEMMA WokenInv ==
    ASSUME IInv, NEW t \in Threads, Woken(t)
    PROVE  IInv' /\ Goes(t)
  <1>1. /\ pc[t] = "woken" /\ reader = None /\ WaitForWork(t, sync, pc)
        /\ UNCHANGED <<toServer, toClient, up>>
    BY DEF Woken, wires
  <1>2. client = "concurrent" /\ InCall(t) /\ sync \in Sync
    BY <1>1 DEF IInv, Modes, Typed, InCall
  <1>3. CASE sync.stop
    <2>1. Report(t, Outcome("dead", "")) /\ Leave(t, sync, FALSE)
      BY <1>1, <1>3 DEF WaitForWork
    <2>2. "dead" \in Outcomes \ {"pending"}
      BY DEF Outcomes
    <2>3. Goes(t) /\ sync'.stop
      BY <1>1, <1>2, <2>1, <2>2, DeadFacts, LeaveGoes
    <2> QED BY <2>3, NobodyPending, GoesInv
  <1>4. CASE ~sync.stop
    <2> DEFINE label == IF HasWork(t, sync) THEN "pick" ELSE "wait"
    <2>1. /\ sync' = sync
          /\ Goto(t, label)
          /\ reader' = IF HasWork(t, sync) THEN t ELSE None
          /\ UNCHANGED <<client, program, call, seqid, made, out, outcome, earlier, late>>
      BY <1>1, <1>4 DEF WaitForWork, user, Goto
    <2>2. /\ label \in {"pick", "wait"} /\ label \in Labels
          /\ reader' = IF label = "pick" THEN t ELSE None
      BY <2>1 DEF Labels
    <2>3. sync.pending # NoHeader /\ seqid[t] = sync.pending.seqid => label = "pick"
      BY DEF HasWork
    <2> HIDE DEF label
    <2>4. Others(t) /\ pc'[t] = label
      BY <2>1, <2>2, GotoFacts DEF IInv
    <2>5. outcome[t] = Pending
      BY <1>1 DEF IInv, Settled, InCall
    <2>6. /\ DOMAIN outcome = Threads /\ \A u \in Threads : outcome[u].kind \in Outcomes
          /\ DOMAIN out = Threads /\ DOMAIN earlier = Threads /\ late \in BOOLEAN
      BY DEF IInv, Typed
    <2>7. Goes(t)
      BY <1>1, <1>2, <2>1, <2>2, <2>4, <2>5, <2>6 DEF Goes, Reads
    <2>8. CASE sync.pending = NoHeader
      BY <2>1, <2>7, <2>8, NobodyPending, GoesInv
    <2>9. CASE sync.pending # NoHeader
      BY <1>1, <2>1, <2>2, <2>3, <2>4, <2>7, <2>9, GoesPending, GoesInv
    <2> QED BY <2>8, <2>9
  <1> QED BY <1>3, <1>4

-----------------------------------------------------------------------------
\* A message is sent.
LEMMA SendInv ==
    ASSUME IInv, NEW t \in Threads, Send(t)
    PROVE  IInv'
  <1> DEFINE m == Req(call[t], seqid[t])
  <1>1. /\ pc[t] = "send" /\ Goto(t, "recv")
        /\ toServer' = toServer \/ toServer' = Append(toServer, m)
        /\ UNCHANGED <<client, program, toClient, up, sync, reader, call, seqid, made, out,
                       outcome, earlier, late>>
    BY RequestIs DEF Send, user, Goto
  <1>2. Others(t) /\ pc'[t] = "recv" /\ \A u \in Threads : u # t => pc'[u] = pc[u]
    BY <1>1, GotoFacts DEF IInv, Labels
  <1>3. InCall(t) /\ (\A u \in Threads : InCall(u)' <=> InCall(u))
        /\ (\A u \in Threads : Reads(u)' <=> Reads(u))
    BY <1>1, <1>2 DEF InCall, Reads
  <1>4. m \in Requests /\ m.seqid = seqid[t]
    <2>1. call[t] \in Calls /\ seqid[t] \in Nat
      BY <1>3 DEF IInv, Settled, Typed
    <2> QED BY <2>1, ReqFacts DEF Requests
  <1> HIDE DEF m
  <1>5. toServer' \in Seq(Requests) /\ In(toServer)' \subseteq In(toServer) \cup {m}
    <2>1. toServer \in Seq(Requests)
      BY DEF IInv, Typed
    <2>2. /\ Append(toServer, m) \in Seq(Requests)
          /\ In(Append(toServer, m)) = In(toServer) \cup {m}
      BY <1>4, <2>1, Appended
    <2> QED BY <1>1, <2>1, <2>2
  <1>6. Typed'
    BY <1>1, <1>2, <1>5 DEF IInv, Typed, Others
  <1>7. Reading'
    BY <1>1, <1>3 DEF IInv, Reading
  <1>8. Modes'
    BY <1>1, <1>2, <1>3 DEF IInv, Modes
  <1>9. Settled'
    BY <1>1, <1>3 DEF IInv, Settled
  <1>10. Numbers'
    BY <1>1, <1>3, <1>4, <1>5 DEF IInv, Numbers
  <1>11. Underway'
    <2> SUFFICES ASSUME client = "concurrent", NEW u \in Threads, InCall(u)
                 PROVE  /\ \A x \in In(toServer)' : x.seqid = seqid[u] =>
                              pc'[u] # "send" /\ x = Req(call[u], seqid[u])
                        /\ \A x \in In(toClient) : x.seqid = seqid[u] =>
                              pc'[u] # "send" /\ x = Dispatched(Req(call[u], seqid[u]))
      BY <1>1, <1>3 DEF Underway
    <2>1. /\ \A x \in In(toServer) : x.seqid = seqid[u] =>
                pc[u] # "send" /\ x = Req(call[u], seqid[u])
          /\ \A x \in In(toClient) : x.seqid = seqid[u] =>
                pc[u] # "send" /\ x = Dispatched(Req(call[u], seqid[u]))
      BY DEF IInv, Underway
    <2>2. pc'[u] = "send" => pc[u] = "send"
      BY <1>2
    <2>3. m.seqid = seqid[u] => u = t
      BY <1>3, <1>4 DEF IInv, Numbers
    <2>4. u = t => pc'[u] # "send" /\ m = Req(call[u], seqid[u])
      BY <1>2 DEF m
    <2> QED BY <1>5, <2>1, <2>2, <2>3, <2>4
  <1>12. HeaderRead'
    BY <1>1, <1>2 DEF IInv, HeaderRead
  <1>13. PendingNext'
    <2> SUFFICES ASSUME sync.pending # NoHeader, ~sync.stop
                 PROVE  /\ \A u \in Threads : pc'[u] \notin {"read", "compare"}
                        /\ toClient # <<>> /\ toClient[1].seqid = sync.pending.seqid
                        /\ \E u \in Threads : /\ seqid[u] = sync.pending.seqid
                                              /\ pc'[u] \in {"recv", "woken", "pick"}
      BY <1>1 DEF PendingNext
    <2> QED BY <1>1, <1>2 DEF IInv, PendingNext
  <1> QED BY <1>6, <1>7, <1>8, <1>9, <1>10, <1>11, <1>12, <1>13 DEF IInv

-----------------------------------------------------------------------------
\* A call begins, or ends at once because the client is dead.
LEMMA CalledInv ==
    ASSUME IInv, NEW t \in Threads, NEW c \in program[t], NEW id \in Nat,
           NEW label \in {"send", "ended"}, NEW o, o.kind \in Outcomes,
           o = Pending <=> label = "send",
           Called(t, c, id, label, o),
           sync' \in Sync, sync'.stop = sync.stop, sync'.pending = sync.pending,
           client = "plain" => sync' = sync,
           client = "concurrent" =>
               \/ /\ label = "send" /\ id = sync.nextseqid
                  /\ sync'.nextseqid = sync.nextseqid + 1
                  /\ sync'.monitors = sync.monitors \cup {sync.nextseqid}
               \/ /\ label = "ended" /\ sync' = sync /\ sync.stop
    PROVE  IInv'
  <1>1. /\ pc[t] = "ended" /\ made < MaxCalls
        /\ client = "plain" => \A u \in Threads : pc[u] = "ended"
        /\ call' = [call EXCEPT ![t] = c] /\ seqid' = [seqid EXCEPT ![t] = id]
        /\ made' = made + 1
        /\ pc' = [pc EXCEPT ![t] = label] /\ outcome' = [outcome EXCEPT ![t] = o]
        /\ UNCHANGED <<client, program, toServer, toClient, up, reader, out, earlier, late>>
    BY DEF Called, user, wires
  <1>2. c \in Calls /\ c # NoCall
    <2>1. program \in Programs
      BY DEF IInv, Typed
    <2> QED BY <2>1, CallsAssumption DEF Calls
  <1>3. label \in Labels
    BY DEF Labels
  <1>4. /\ pc' \in [Threads -> Labels] /\ call' \in [Threads -> Calls \cup {NoCall}]
        /\ seqid' \in [Threads -> Nat]
        /\ pc'[t] = label /\ call'[t] = c /\ seqid'[t] = id /\ outcome'[t] = o
        /\ \A u \in Threads : u # t => /\ pc'[u] = pc[u] /\ call'[u] = call[u]
                                       /\ seqid'[u] = seqid[u] /\ outcome'[u] = outcome[u]
        /\ DOMAIN outcome' = Threads
    BY <1>1, <1>2, <1>3 DEF IInv, Typed
  <1>5. /\ ~InCall(t) /\ (InCall(t)' <=> label = "send")
        /\ \A u \in Threads : u # t => (InCall(u)' <=> InCall(u))
    BY <1>1, <1>4 DEF InCall
  <1>6. Typed'
    <2>1. made' \in 0..MaxCalls
      BY <1>1, MaxCallsAssumption DEF IInv, Typed
    <2>2. \A u \in Threads : outcome'[u].kind \in Outcomes
      BY <1>4 DEF IInv, Typed
    <2> QED BY <1>1, <1>4, <2>1, <2>2 DEF IInv, Typed
  <1>7. Reading'
    <2>1. \A u \in Threads : Reads(u)' <=> Reads(u)
      BY <1>1, <1>4 DEF Reads
    <2> QED BY <1>1, <2>1 DEF IInv, Reading
  <1>8. Modes'
    <2>1. CASE client = "plain"
      BY <1>1, <1>4, <1>5, <2>1 DEF IInv, Modes, InCall
    <2>2. CASE client = "concurrent"
      BY <1>1, <1>4, <2>2 DEF IInv, Modes
    <2> QED BY <2>1, <2>2 DEF IInv, Typed
  <1>9. Settled'
    <2> SUFFICES ASSUME NEW u \in Threads
                 PROVE  /\ outcome'[u] = Pending <=> InCall(u)' \/ call'[u] = NoCall
                        /\ InCall(u)' => call'[u] # NoCall
      BY DEF Settled
    <2>1. CASE u = t
      BY <1>2, <1>4, <1>5, <2>1
    <2>2. CASE u # t
      BY <1>4, <1>5, <2>2 DEF IInv, Settled
    <2> QED BY <2>1, <2>2
  <1>10. Numbers'
    <2> SUFFICES ASSUME client = "concurrent" PROVE Numbers'
      BY <1>1 DEF Numbers
    <2>1. sync \in Sync /\ sync.nextseqid \in Nat
      BY DEF IInv, Typed, Sync
    <2>2. \A m \in In(toServer) \cup In(toClient) : m.seqid \in Nat
      BY MessageFacts, ElementOfSeq DEF IInv, Typed, In
    <2>3. CASE label = "ended"
      BY <1>1, <1>4, <1>5, <2>3 DEF IInv, Numbers
    <2>4. CASE label = "send"
      <3>1. /\ id = sync.nextseqid /\ sync'.nextseqid = sync.nextseqid + 1
            /\ sync'.monitors = sync.monitors \cup {sync.nextseqid}
        BY <2>4
      <3>2. /\ \A i \in sync.monitors : i < sync.nextseqid /\ i \in Nat
            /\ \A u \in Threads : seqid[u] \in Nat /\ (InCall(u) => seqid[u] < sync.nextseqid)
            /\ \A u, v \in Threads : u # v /\ InCall(u) /\ InCall(v) => seqid[u] # seqid[v]
            /\ ~sync.stop => \A i \in sync.monitors : \E u \in Threads : InCall(u) /\ seqid[u] = i
            /\ \A m \in In(toServer) \cup In(toClient) : m.seqid < sync.nextseqid
        BY <2>1 DEF IInv, Numbers, Typed, Sync
      <3>3. (\A i \in sync.monitors : i < sync.nextseqid)'
        BY <2>1, <3>1, <3>2
      <3>4. \A u \in Threads : InCall(u)' => seqid'[u] < sync'.nextseqid
        BY <1>4, <1>5, <2>1, <3>1, <3>2
      <3>5. \A u, v \in Threads : u # v /\ InCall(u)' /\ InCall(v)' => seqid'[u] # seqid'[v]
        BY <1>4, <1>5, <2>1, <3>1, <3>2
      <3>6. ~sync'.stop => \A i \in sync'.monitors : \E u \in Threads : InCall(u)' /\ seqid'[u] = i
        <4> SUFFICES ASSUME ~sync.stop, NEW i \in sync'.monitors
                     PROVE  \E u \in Threads : InCall(u)' /\ seqid'[u] = i
          OBVIOUS
        <4>1. CASE i = id
          BY <1>4, <1>5, <2>4, <4>1
        <4>2. CASE i # id
          <5>1. PICK u \in Threads : InCall(u) /\ seqid[u] = i
            BY <3>1, <3>2, <4>2
          <5> QED BY <1>4, <1>5, <5>1
        <4> QED BY <4>1, <4>2
      <3>7. (\A m \in In(toServer) \cup In(toClient) : m.seqid < sync.nextseqid)'
        BY <1>1, <2>1, <2>2, <3>1, <3>2
      <3> QED BY <3>3, <3>4, <3>5, <3>6, <3>7 DEF Numbers
    <2> QED BY <2>3, <2>4
  <1>11. Underway'
    <2> SUFFICES ASSUME client = "concurrent", NEW u \in Threads, InCall(u)'
                 PROVE  /\ \A m \in In(toServer) : m.seqid = seqid'[u] =>
                              pc'[u] # "send" /\ m = Req(call'[u], seqid'[u])
                        /\ \A m \in In(toClient) : m.seqid = seqid'[u] =>
                              pc'[u] # "send" /\ m = Dispatched(Req(call'[u], seqid'[u]))
      BY <1>1 DEF Underway
    <2>1. CASE u # t
      BY <1>4, <1>5, <2>1 DEF IInv, Underway
    <2>2. CASE u = t
      <3>1. seqid'[u] = sync.nextseqid /\ sync.nextseqid \in Nat
        BY <1>4, <1>5, <2>2 DEF IInv, Typed, Sync
      <3>2. \A m \in In(toServer) \cup In(toClient) : m.seqid < sync.nextseqid /\ m.seqid \in Nat
        BY MessageFacts, ElementOfSeq DEF IInv, Typed, In, Numbers
      <3>3. \A m \in In(toServer) \cup In(toClient) : m.seqid # seqid'[u]
        BY <3>1, <3>2
      <3> QED BY <3>3
    <2> QED BY <2>1, <2>2
  <1>12. HeaderRead'
    BY <1>1, <1>4 DEF IInv, HeaderRead
  <1>13. PendingNext'
    <2> SUFFICES ASSUME sync.pending # NoHeader, ~sync.stop
                 PROVE  /\ \A u \in Threads : pc'[u] \notin {"read", "compare"}
                        /\ toClient # <<>> /\ toClient[1].seqid = sync.pending.seqid
                        /\ \E u \in Threads : /\ seqid'[u] = sync.pending.seqid
                                              /\ pc'[u] \in {"recv", "woken", "pick"}
      BY <1>1 DEF PendingNext
    <2>1. PICK u \in Threads : seqid[u] = sync.pending.seqid /\ pc[u] \in {"recv", "woken", "pick"}
      BY DEF IInv, PendingNext
    <2>2. u # t
      BY <1>1, <2>1
    <2>3. \A v \in Threads : pc'[v] \notin {"read", "compare"}
      BY <1>4 DEF IInv, PendingNext
    <2> QED BY <1>4, <2>1, <2>2, <2>3 DEF IInv, PendingNext
  <1> QED BY <1>6, <1>7, <1>8, <1>9, <1>10, <1>11, <1>12, <1>13 DEF IInv

LEMMA PlainCallInv ==
    ASSUME IInv, NEW t \in Threads, NEW c \in program[t], PlainCall(t, c)
    PROVE  IInv'
  <1>1. client = "plain" /\ Called(t, c, 0, "send", Pending) /\ sync' = sync
    BY DEF PlainCall
  <1>2. Pending.kind \in Outcomes /\ sync \in Sync
    BY DEF Pending, Outcomes, IInv, Typed
  <1> QED BY <1>1, <1>2, CalledInv

LEMMA ConcurrentCallInv ==
    ASSUME IInv, NEW t \in Threads, NEW c \in program[t], ConcurrentCall(t, c)
    PROVE  IInv'
  <1>1. client = "concurrent" /\ sync \in Sync
    BY DEF ConcurrentCall, IInv, Typed
  <1>2. CASE sync.stop
    <2>1. Called(t, c, 0, "ended", Outcome("dead", "")) /\ sync' = sync
      BY <1>2 DEF ConcurrentCall
    <2>2. Outcome("dead", "").kind \in Outcomes /\ Outcome("dead", "") # Pending
      BY OutcomeKinds DEF Outcomes
    <2> QED BY <1>1, <1>2, <2>1, <2>2, CalledInv
  <1>3. CASE ~sync.stop
    <2>1. /\ Called(t, c, sync.nextseqid, "send", Pending)
          /\ sync' = [sync EXCEPT !.nextseqid = @ + 1, !.monitors = @ \cup {sync.nextseqid}]
      BY <1>3 DEF ConcurrentCall
    <2>2. /\ sync' \in Sync /\ sync'.stop = sync.stop /\ sync'.pending = sync.pending
          /\ sync'.nextseqid = sync.nextseqid + 1
          /\ sync'.monitors = sync.monitors \cup {sync.nextseqid}
          /\ sync.nextseqid \in Nat
      <3>1. sync.nextseqid \in Nat /\ sync.nextseqid + 1 \in Nat /\ sync.monitors \in SUBSET Nat
        BY <1>1 DEF Sync
      <3>2. sync.monitors \cup {sync.nextseqid} \in SUBSET Nat
        BY <3>1
      <3> DEFINE n == sync.nextseqid + 1
                 ids == sync.monitors \cup {sync.nextseqid}
      <3>3. sync' = [sync EXCEPT !.nextseqid = n, !.monitors = ids]
        BY <2>1
      <3>4. n \in Nat /\ ids \in SUBSET Nat
        BY <3>1, <3>2
      <3> HIDE DEF n, ids
      <3>5. /\ sync' \in Sync /\ sync'.stop = sync.stop /\ sync'.pending = sync.pending
            /\ sync'.nextseqid = n /\ sync'.monitors = ids
        BY <1>1, <3>3, <3>4 DEF Sync
      <3> QED BY <3>1, <3>5 DEF n, ids
    <2>3. Pending.kind \in Outcomes
      BY DEF Pending, Outcomes
    <2> QED BY <1>1, <2>1, <2>2, <2>3, CalledInv
  <1> QED BY <1>2, <1>3

\* The server answers a message.
LEMMA DispatchInv ==
    ASSUME IInv, dispatchCall
    PROVE  IInv'
  <1>1. PICK i \in DOMAIN toServer :
           /\ toServer' = Without(toServer, i)
           /\ toClient' = Append(toClient, Dispatched(toServer[i]))
    BY DEF dispatchCall
  <1>2. UNCHANGED <<client, program, up, sync, reader, pc, call, seqid, made, out, outcome,
                    earlier, late>>
    BY DEF dispatchCall, user, locals
  <1> DEFINE r == toServer[i]
  <1>3. /\ toServer \in Seq(Requests) /\ toClient \in Seq(Answers)
        /\ i \in 1..Len(toServer)
    BY DEF IInv, Typed
  <1>4. /\ toServer' \in Seq(Requests) /\ In(toServer)' \subseteq In(toServer)
        /\ r \in Requests /\ r \in In(toServer)
    BY <1>1, <1>3, Removed
  <1>5. Dispatched(r) \in Answers /\ Dispatched(r).seqid = r.seqid
    BY <1>4, MessageFacts, DispatchedFacts
  <1> HIDE DEF r
  <1>6. /\ toClient' \in Seq(Answers) /\ In(toClient)' = In(toClient) \cup {Dispatched(r)}
        /\ toClient' # <<>> /\ (toClient # <<>> => toClient'[1] = toClient[1])
    BY <1>1, <1>3, <1>5, Appended DEF r
  <1>7. Typed'
    BY <1>2, <1>4, <1>6 DEF IInv, Typed
  <1>8. (Reading /\ Modes /\ Settled)'
    BY <1>2 DEF IInv, Reading, Modes, Settled, Reads, InCall
  <1>9. Numbers'
    BY <1>2, <1>4, <1>5, <1>6 DEF IInv, Numbers, InCall
  <1>10. Underway'
    <2> SUFFICES ASSUME client = "concurrent", NEW u \in Threads, InCall(u)
                 PROVE  /\ \A m \in In(toServer)' : m.seqid = seqid[u] =>
                              pc[u] # "send" /\ m = Req(call[u], seqid[u])
                        /\ \A m \in In(toClient)' : m.seqid = seqid[u] =>
                              pc[u] # "send" /\ m = Dispatched(Req(call[u], seqid[u]))
      BY <1>2 DEF Underway, InCall
    <2>1. /\ \A m \in In(toServer) : m.seqid = seqid[u] =>
                pc[u] # "send" /\ m = Req(call[u], seqid[u])
          /\ \A m \in In(toClient) : m.seqid = seqid[u] =>
                pc[u] # "send" /\ m = Dispatched(Req(call[u], seqid[u]))
      BY DEF IInv, Underway
    <2> QED BY <1>4, <1>5, <1>6, <2>1
  <1>11. HeaderRead'
    BY <1>2, <1>6 DEF HeaderRead
  <1>12. PendingNext'
    BY <1>2, <1>6 DEF IInv, PendingNext
  <1> QED BY <1>7, <1>8, <1>9, <1>10, <1>11, <1>12 DEF IInv

\* The connection breaks.
LEMMA BreakInv ==
    ASSUME IInv, Break
    PROVE  IInv'
  <1>1. PICK n \in (IF Held THEN 1 ELSE 0)..Len(toClient) : toClient' = SubSeq(toClient, 1, n)
    BY DEF Break
  <1>2. /\ toServer' = <<>> /\ up' = FALSE
        /\ UNCHANGED <<client, program, sync, reader, pc, call, seqid, made, out, outcome,
                       earlier, late>>
    BY DEF Break, user, locals
  <1>3. toClient \in Seq(Answers) /\ Len(toClient) \in Nat
    BY DEF IInv, Typed
  <1>4. n \in 0..Len(toClient) /\ (Held => n >= 1)
    BY <1>3
  <1>5. /\ toClient' \in Seq(Answers) /\ In(toClient)' \subseteq In(toClient)
        /\ Held => toClient' # <<>> /\ toClient'[1] = toClient[1]
    BY <1>1, <1>3, <1>4, Cut
  <1>6. toServer' \in Seq(Requests) /\ In(toServer)' = {}
    BY <1>2, EmptySeq DEF In
  <1>7. Typed'
    BY <1>2, <1>5, <1>6 DEF IInv, Typed
  <1>8. (Reading /\ Modes /\ Settled)'
    BY <1>2 DEF IInv, Reading, Modes, Settled, Reads, InCall
  <1>9. Numbers'
    BY <1>2, <1>5, <1>6 DEF IInv, Numbers, InCall
  <1>10. Underway'
    BY <1>2, <1>5, <1>6 DEF IInv, Underway, InCall
  <1>11. HeaderRead'
    BY <1>2, <1>5 DEF HeaderRead, Held
  <1>12. PendingNext'
    BY <1>2, <1>5 DEF IInv, PendingNext, Held
  <1> QED BY <1>7, <1>8, <1>9, <1>10, <1>11, <1>12 DEF IInv

-----------------------------------------------------------------------------
LEMMA InitInv == Init => IInv
  <1> SUFFICES ASSUME Init PROVE IInv
    OBVIOUS
  <1>1. NewSync \in Sync
    BY DEF NewSync, Sync, Header, NoHeader
  <1>2. Typed
    <2>1. <<>> \in Seq(Requests) /\ <<>> \in Seq(Answers)
      BY EmptySeq
    <2>2. /\ pc \in [Threads -> Labels] /\ call \in [Threads -> Calls \cup {NoCall}]
          /\ seqid \in [Threads -> Nat]
      BY DEF Init, Labels
    <2>3. /\ DOMAIN outcome = Threads /\ \A t \in Threads : outcome[t].kind \in Outcomes
          /\ DOMAIN out = Threads /\ DOMAIN earlier = Threads
      BY DEF Init, Outcomes, Pending
    <2>4. made \in 0..MaxCalls /\ up \in BOOLEAN /\ late \in BOOLEAN
      <3>1. made = 0 /\ up \in BOOLEAN /\ late \in BOOLEAN
        BY DEF Init
      <3>2. 0 \in 0..MaxCalls
        BY MaxCallsAssumption
      <3> QED BY <3>1, <3>2
    <2> QED BY <1>1, <2>1, <2>2, <2>3, <2>4 DEF Init, Typed
  <1>3. In(toServer) = {} /\ In(toClient) = {}
    BY EmptySeq DEF Init, In
  <1>4. \A t \in Threads : ~InCall(t) /\ ~Reads(t) /\ reader # t
    BY ThreadsAssumption DEF Init, InCall, Reads
  <1>5. Reading /\ Modes /\ Settled /\ HeaderRead
    BY <1>4 DEF Init, Reading, Modes, Settled, HeaderRead, InCall
  <1>6. Numbers /\ Underway /\ PendingNext
    BY <1>3, <1>4 DEF Init, Numbers, Underway, PendingNext, NewSync
  <1> QED BY <1>2, <1>5, <1>6 DEF IInv

LEMMA StutterInv == IInv /\ UNCHANGED vars => IInv'
  BY DEF vars, user, wires, locals, IInv, Typed, Reading, Modes, Settled, Numbers, Underway,
         HeaderRead, PendingNext, InCall, Reads, In

LEMMA NextInv == IInv /\ [Next]_vars => IInv'
  <1> SUFFICES ASSUME IInv, Next PROVE IInv'
    BY StutterInv
  <1>1. ASSUME NEW t \in Threads, NEW c \in program[t], PlainCall(t, c) \/ ConcurrentCall(t, c)
        PROVE  IInv'
    BY <1>1, PlainCallInv, ConcurrentCallInv
  <1>2. ASSUME NEW t \in Threads, Step(t) PROVE IInv'
    BY <1>2, SendInv, PlainRecvInv, MisreadInv, LockInv, GetPendingInv, ReadHeaderInv,
       RecvOwnInv, HandOverInv, WokenInv DEF Step, PlainStep, ConcurrentStep
  <1>3. ASSUME NEW t \in Threads, Fails(t) PROVE IInv'
    BY <1>3, PlainFailsInv, SendFailsInv, ReadFailsInv DEF Fails
  <1> QED BY <1>1, <1>2, <1>3, DispatchInv, BreakInv DEF Next

\* The inductive invariant of the calls over one connection.
THEOREM Invariance == Spec => []IInv
  BY InitInv, NextInv, PTL DEF Spec

\* The states of the threads, the mutex and the messages fit together: only the
\* reader reads, and exactly the calls that have ended have an outcome.
THEOREM TypeCorrect == Spec => []TypeOK
  <1>1. IInv => TypeOK
    <2> SUFFICES ASSUME IInv PROVE TypeOK
      OBVIOUS
    <2>1. \A i \in DOMAIN toServer : toServer[i].mtype = "call"
      BY MessageFacts, ElementOfSeq DEF IInv, Typed
    <2>2. \A i \in DOMAIN toClient : toClient[i].mtype \in {"reply", "exception"}
      BY MessageFacts, ElementOfSeq DEF IInv, Typed
    <2>3. sync.nextseqid \in Nat /\ sync.monitors \subseteq 0..sync.nextseqid
      <3>1. sync.nextseqid \in Nat /\ sync.monitors \in SUBSET Nat
        BY DEF IInv, Typed, Sync
      <3>2. CASE client = "plain"
        BY <3>1, <3>2 DEF IInv, Modes, NewSync
      <3>3. CASE client = "concurrent"
        BY <3>1, <3>3 DEF IInv, Numbers
      <3> QED BY <3>1, <3>2, <3>3 DEF IInv, Typed
    <2>4. \A t \in Threads : /\ outcome[t] = Pending <=> pc[t] # "ended" \/ call[t] = NoCall
                             /\ pc[t] \in {"pick", "read", "compare"} <=> reader = t
      BY DEF IInv, Settled, Reading, Reads, InCall
    <2> QED BY <2>1, <2>2, <2>3, <2>4 DEF IInv, Typed, TypeOK
  <1> QED BY <1>1, Invariance, PTL

\* A header that was left for another thread stays next in the stream, nobody
\* reads past it, and its thread is on the way to it, not asleep and not gone.
THEOREM PendingStays == Spec => []PendingIsNext
  <1>1. IInv => PendingIsNext
    <2> SUFFICES ASSUME IInv PROVE PendingIsNext
      OBVIOUS
    <2> DEFINE R == {t \in Threads : pc[t] \in {"read", "compare"}}
    <2>1. R \subseteq {reader}
      BY DEF IInv, Reading, Reads
    <2>2. Cardinality(R) <= 1
      <3>1. R = {} \/ R = {reader}
        BY <2>1
      <3>2. Cardinality({}) = 0 /\ Cardinality({reader}) = 1
        BY FS_EmptySet, FS_Singleton
      <3> QED BY <3>1, <3>2
    <2>3. toClient # <<>> => Head(toClient) = toClient[1]
      BY Rest DEF IInv, Typed
    <2> QED BY <2>2, <2>3 DEF IInv, PendingNext, PendingIsNext
  <1> QED BY <1>1, Invariance, PTL

-----------------------------------------------------------------------------
\* What a call's answer says: an object that is written and read into another.
Trip(fields, v, obj) ==
    LET wire == WriteFlat(fields, v)
        read == ReadFlat(fields, wire, obj)
    IN  /\ DOMAIN wire = Sent(fields, v) /\ Taken(fields, wire) = Sent(fields, v)
        /\ read.isset = obj.isset \cup Sent(fields, v)
        /\ \A f \in Sent(fields, v) : read.val[f] = v.val[f]

LEMMA FlatTrip ==
    ASSUME NEW fields, NEW v, NEW obj
    PROVE  Trip(fields, v, obj)
  <1> DEFINE wire == WriteFlat(fields, v)
             sent == Sent(fields, v)
  <1>1. sent \subseteq DOMAIN fields
    BY DEF Sent
  <1>2. /\ DOMAIN wire = sent
        /\ \A f \in sent : wire[f].type = fields[f].type /\ wire[f].value = v.val[f]
    BY DEF WriteFlat
  <1> HIDE DEF wire, sent
  <1>3. Taken(fields, wire) = sent
    BY <1>1, <1>2 DEF Taken
  <1>4. ReadFlat(fields, wire, obj).isset = obj.isset \cup sent
    BY <1>3 DEF ReadFlat
  <1>5. \A f \in sent : ReadFlat(fields, wire, obj).val[f] = v.val[f]
    BY <1>1, <1>2, <1>3 DEF ReadFlat
  <1> QED BY <1>2, <1>3, <1>4, <1>5 DEF wire, sent, Trip

\* A struct without optional fields arrives as it was.
LEMMA AllSent ==
    ASSUME NEW fields, \A f \in DOMAIN fields : ~fields[f].optional, NEW v, NEW obj,
           v.val = [f \in DOMAIN fields |-> v.val[f]]
    PROVE  ReadFlat(fields, WriteFlat(fields, v), obj).val = v.val
  <1> DEFINE wire == WriteFlat(fields, v)
  <1>1. Sent(fields, v) = DOMAIN fields
    BY DEF Sent
  <1>2. DOMAIN wire = DOMAIN fields /\ Taken(fields, wire) = DOMAIN fields
        /\ \A f \in DOMAIN fields : wire[f].value = v.val[f]
    <2>1. /\ DOMAIN wire = Sent(fields, v) /\ Taken(fields, wire) = Sent(fields, v)
      BY FlatTrip DEF Trip
    <2>2. \A f \in Sent(fields, v) : wire[f].value = v.val[f]
      BY DEF WriteFlat
    <2> QED BY <1>1, <2>1, <2>2
  <1> HIDE DEF wire
  <1>3. ReadFlat(fields, wire, obj).val = [f \in DOMAIN fields |-> v.val[f]]
    BY <1>2 DEF ReadFlat
  <1> QED BY <1>3 DEF wire

\* A result with one field arrives with that field.
LEMMA ResultTrip ==
    ASSUME NEW result, NEW field \in DOMAIN result, field \in {success, ouch}, NEW value, NEW obj,
           obj.isset = {}
    PROVE  LET wire == WriteResult(result, With(New(result), field, value))
               read == ReadResult(result, wire, obj)
           IN  /\ read.isset = {field}
               /\ result[field].type # "struct" => read.val[field] = value
               /\ result[field].type = "struct" =>
                     /\ wire[field].value = WriteFlat(result[field].of, value)
                     /\ read.val[field] = ReadFlat(result[field].of,
                                                   WriteFlat(result[field].of, value),
                                                   obj.val[field])
  <1> DEFINE o == With(New(result), field, value)
             wire == WriteResult(result, o)
             read == ReadResult(result, wire, obj)
  <1>1. /\ DOMAIN New(result).val = DOMAIN result /\ New(result).isset = {}
    BY DEF New
  <1>2. o.isset = {field} /\ o.val[field] = value
    BY <1>1 DEF With
  <1> HIDE DEF o
  <1>3. (IF success \in o.isset THEN {success} ELSE o.isset) = {field}
    BY <1>2
  <1>4. /\ DOMAIN wire = {field} /\ wire[field].type = result[field].type
        /\ wire[field].value = IF result[field].type = "struct"
                               THEN WriteFlat(result[field].of, value) ELSE value
    BY <1>2, <1>3 DEF WriteResult
  <1> HIDE DEF wire
  <1>5. Taken(result, wire) = {field}
    BY <1>4 DEF Taken
  <1>6. /\ read.isset = {field}
        /\ read.val[field] = IF result[field].type = "struct"
                             THEN ReadFlat(result[field].of, wire[field].value, obj.val[field])
                             ELSE wire[field].value
    BY <1>5 DEF ReadResult
  <1> HIDE DEF read
  <1>7. /\ result[field].type # "struct" => read.val[field] = value
        /\ result[field].type = "struct" =>
              /\ wire[field].value = WriteFlat(result[field].of, value)
              /\ read.val[field] = ReadFlat(result[field].of, WriteFlat(result[field].of, value),
                                            obj.val[field])
    BY <1>4, <1>6
  <1> QED BY <1>6, <1>7 DEF o, wire, read

\* The methods, as the processor and both clients have them.
Simple(field) == field.type # "struct"

LEMMA MethodFacts ==
    ASSUME NEW name \in DOMAIN processMap_
    PROVE  LET p == processMap_[name]
               stub == StubOf(name)
           IN  /\ stub.result = p.result
               /\ \A f \in DOMAIN p.args : ~p.args[f].optional
               /\ \/ p.result = NoResult /\ stub.tested = {} /\ ~p.catches
                  \/ /\ p.result = OnlySuccess(Optional("i32")) /\ stub.tested = {success}
                     /\ ~p.catches
                  \/ /\ \E type \in {"string", "i16", "i64"} :
                           p.result = SuccessOrOuch(Optional(type))
                     /\ stub.tested = {success, ouch} /\ p.catches
                  \/ /\ p.result = SuccessOrOuch(Struct(bbip_result))
                     /\ stub.tested = {success, ouch} /\ p.catches
  <1>1. CASE name = "ping"
    BY <1>1 DEF StubOf, Stub, bbipClient, bbipConcurrentClient, processMap_,
                bbipClient_ping, Concurrent_ping, process_ping, ping_args, ping_result
  <1>2. CASE name = "count"
    BY <1>2 DEF StubOf, Stub, bbipClient, bbipConcurrentClient, processMap_,
                bbipClient_count, Concurrent_count, process_count, count_args, count_result
  <1>3. CASE name = "query"
    BY <1>3 DEF StubOf, Stub, bbipClient, bbipConcurrentClient, processMap_,
                bbipClient_query, Concurrent_query, process_query, query_args, query_result,
                Always
  <1>4. CASE name = "query_string"
    BY <1>4 DEF StubOf, Stub, bbipClient, bbipConcurrentClient, processMap_,
                bbipClient_query_string, Concurrent_query_string, process_query_string,
                query_string_args, query_string_result, Always
  <1>5. CASE name = "GetAreaFlag"
    BY <1>5 DEF StubOf, Stub, bbipClient, bbipConcurrentClient, processMap_,
                bbipClient_GetAreaFlag, Concurrent_GetAreaFlag, process_GetAreaFlag,
                GetAreaFlag_args, GetAreaFlag_result, Always
  <1>6. CASE name = "GetZoneID"
    BY <1>6 DEF StubOf, Stub, bbipClient, bbipConcurrentClient, processMap_,
                bbipClient_GetZoneID, Concurrent_GetZoneID, process_GetZoneID,
                GetZoneID_args, GetZoneID_result, Always
  <1>7. CASE name = "query_long"
    BY <1>7 DEF StubOf, Stub, bbipClient, bbipConcurrentClient, processMap_,
                bbipClient_query_long, Concurrent_query_long, process_query_long,
                query_long_args, query_long_result, Always
  <1> QED BY <1>1, <1>2, <1>3, <1>4, <1>5, <1>6, <1>7 DEF processMap_

\* The handler gets what the caller asked for.
Given(args, arg) == [f \in DOMAIN args |-> arg]

LEMMA ArgumentsArrive ==
    ASSUME NEW name \in DOMAIN processMap_, NEW arg, NEW stub, stub.args = processMap_[name].args
    PROVE  LET args == processMap_[name].args
           IN  ReadFlat(args, Arguments(stub, arg), Flat(args)).val = Given(args, arg)
  <1> DEFINE args == processMap_[name].args
             v == [val |-> [f \in DOMAIN args |-> arg], isset |-> {}]
  <1>1. \A f \in DOMAIN args : ~args[f].optional
    BY MethodFacts
  <1>2. v.val = [f \in DOMAIN args |-> v.val[f]] /\ v.val = Given(args, arg)
    BY DEF Given
  <1>3. Arguments(stub, arg) = WriteFlat(args, v)
    BY DEF Arguments
  <1> HIDE DEF args, v
  <1>4. ReadFlat(args, WriteFlat(args, v), Flat(args)).val = v.val
    BY <1>1, <1>2, AllSent
  <1> QED BY <1>2, <1>3, <1>4 DEF args

LEMMA CoordinatesOptional ==
    /\ LatLng \subseteq DOMAIN bbip_result
    /\ \A f \in DOMAIN bbip_result : bbip_result[f].optional <=> f \in LatLng
  <1>1. DOMAIN bbip_result = 1..12
    BY DEF bbip_result
  <1>2. /\ ~bbip_result[1].optional /\ ~bbip_result[2].optional /\ ~bbip_result[3].optional
        /\ ~bbip_result[4].optional /\ ~bbip_result[5].optional /\ ~bbip_result[6].optional
        /\ ~bbip_result[7].optional /\ ~bbip_result[8].optional /\ ~bbip_result[9].optional
        /\ bbip_result[10].optional /\ bbip_result[11].optional /\ ~bbip_result[12].optional
    BY DEF bbip_result, Always, Optional
  <1>3. ASSUME NEW f \in 1..12 PROVE bbip_result[f].optional <=> f \in {10, 11}
    <2>1. f \in {1, 2, 3, 4, 5, 6, 7, 8, 9, 10, 11, 12}
      BY <1>3, SMT
    <2> QED BY <1>2, <2>1
  <1> QED BY <1>1, <1>3 DEF LatLng

\* What a record's object holds after an answer.
LEMMA RecordTrip ==
    ASSUME NEW v, IsObject(bbip_result, v), v.isset \subseteq LatLng, NEW obj
    PROVE  LET wire == WriteFlat(bbip_result, v)
               read == ReadFlat(bbip_result, wire, obj)
           IN  /\ LatLng \cap DOMAIN wire = v.isset
               /\ read.isset \cap LatLng = (obj.isset \cap LatLng) \cup v.isset
               /\ \A f \in DOMAIN bbip_result : f \notin LatLng \/ f \in v.isset =>
                     read.val[f] = v.val[f]
  <1> DEFINE wire == WriteFlat(bbip_result, v)
             read == ReadFlat(bbip_result, wire, obj)
             sent == Sent(bbip_result, v)
  <1>1. /\ \A f \in DOMAIN bbip_result : f \in sent <=> f \notin LatLng \/ f \in v.isset
        /\ sent \subseteq DOMAIN bbip_result
    BY CoordinatesOptional DEF Sent
  <1>2. /\ DOMAIN wire = sent /\ read.isset = obj.isset \cup sent
        /\ \A f \in sent : read.val[f] = v.val[f]
    <2>1. Trip(bbip_result, v, obj)
      BY FlatTrip
    <2> QED BY <2>1 DEF Trip
  <1> HIDE DEF wire, read, sent
  <1>3. sent \cap LatLng = v.isset
    BY <1>1, CoordinatesOptional
  <1>4. \A f \in DOMAIN bbip_result : f \notin LatLng \/ f \in v.isset => read.val[f] = v.val[f]
    BY <1>1, <1>2
  <1>5. read.isset \cap LatLng = (obj.isset \cap LatLng) \cup v.isset
    BY <1>2, <1>3
  <1> QED BY <1>2, <1>3, <1>4, <1>5 DEF wire, read

Handled(c) == Handler(c.method, Given(processMap_[c.method].args, c.arg))

LEMMA HandlerFacts ==
    ASSUME NEW c \in Calls, c.method \in DOMAIN processMap_
    PROVE  LET p == processMap_[c.method]
               done == Handled(c)
           IN  /\ done.kind = "return" => Declared(p.result, done.value)
               /\ done.kind = "throw" => p.catches /\ IsObject(InvalidOperation, done.value)
  BY HandlerAssumption DEF Calls, Handled, Given

LEMMA ProcessIs ==
    ASSUME NEW c \in Calls, NEW id, c.method \in DOMAIN processMap_
    PROVE  LET p == processMap_[c.method]
               done == Handled(c)
               msg == Dispatched(Req(c, id))
           IN  /\ done.kind = "return" =>
                     /\ msg.mtype = "reply"
                     /\ msg.body = WriteResult(p.result, With(New(p.result), success, done.value))
               /\ done.kind = "throw" =>
                     /\ msg.mtype = "reply"
                     /\ msg.body = WriteResult(p.result, With(New(p.result), ouch, done.value))
               /\ done.kind \notin {"return", "throw"} =>
                     msg.mtype = "exception" /\ msg.body = "what"
  <1> DEFINE p == processMap_[c.method]
             done == Handled(c)
             m == Req(c, id)
  <1>1. m.name = c.method /\ m.seqid = id
    BY ReqFacts
  <1>2. m.body = Arguments(Stub(p.args, <<>>, {}), c.arg)
    BY DEF Req, Message, ArgsOf
  <1>3. ReadFlat(p.args, m.body, Flat(p.args)).val = Given(p.args, c.arg)
    <2>1. Stub(p.args, <<>>, {}).args = p.args
      BY DEF Stub
    <2> QED BY <1>2, <2>1, ArgumentsArrive
  <1>4. Handler(m.name, ReadFlat(p.args, m.body, Flat(p.args)).val) = done
    BY <1>1, <1>3 DEF Handled
  <1>5. done.kind = "throw" => p.catches
    BY HandlerFacts
  <1>6. Dispatched(m) = Process(m)
    BY <1>1 DEF Dispatched
  <1>7. processMap_[m.name] = p
    BY <1>1
  <1> DEFINE msg == Dispatched(m)
             Reply(field) == WriteResult(p.result, With(New(p.result), field, done.value))
  <1> HIDE DEF m, done, p
  <1>8. done.kind = "return" => msg.mtype = "reply" /\ msg.body = Reply(success)
    BY <1>4, <1>6, <1>7 DEF Process, Message
  <1>9. done.kind = "throw" => msg.mtype = "reply" /\ msg.body = Reply(ouch)
    BY <1>4, <1>5, <1>6, <1>7 DEF Process, Message
  <1>10. done.kind \notin {"return", "throw"} => msg.mtype = "exception" /\ msg.body = "what"
    BY <1>4, <1>6, <1>7 DEF Process, Message
  <1> QED BY <1>8, <1>9, <1>10 DEF m, done, p

\* The answer of the call c, as thread t takes it.
Structured(c) == c.method \in DOMAIN processMap_ /\ HasStruct(processMap_[c.method].result)

LEMMA StructuredIs == \A c : ReturnsStruct(c) <=> Structured(c)
  BY MethodFacts DEF ReturnsStruct, Structured

Agrees(c, o) ==
    /\ o.kind = Own(c).kind
    /\ (Structured(c) /\ o.kind = "return") \/ o.value = Own(c).value

Fills(c, stub, result) ==
    HasStruct(stub.result) /\ success \in result.isset <=> Structured(c) /\ Own(c).kind = "return"

Filled(t, c, body, obj) ==
    LET own == Own(c).value
    IN  /\ own.isset \subseteq LatLng
        /\ LatLng \cap DOMAIN body[success].value = own.isset
        /\ obj.isset \cap LatLng = (out[t].isset \cap LatLng) \cup own.isset
        /\ \A f \in DOMAIN bbip_result : f \notin LatLng \/ f \in own.isset =>
              obj.val[f] = own.val[f]

LEMMA ResultObject ==
    ASSUME NEW t \in Threads, NEW stub, NEW body
    PROVE  \E obj : /\ Result(t, stub, body) = ReadResult(stub.result, body, obj)
                    /\ obj.isset = {} /\ (HasStruct(stub.result) => obj.val[success] = out[t])
  <1> DEFINE fresh == New(stub.result)
             obj == IF HasStruct(stub.result) THEN [fresh EXCEPT !.val[success] = out[t]]
                    ELSE fresh
  <1>1. Result(t, stub, body) = ReadResult(stub.result, body, obj)
    BY DEF Result
  <1>2. /\ fresh.isset = {} /\ DOMAIN fresh.val = DOMAIN stub.result
        /\ DOMAIN fresh = {"val", "isset"}
    BY DEF New
  <1>3. obj.isset = {} /\ (HasStruct(stub.result) => obj.val[success] = out[t])
    <2> HIDE DEF fresh
    <2> QED BY <1>2 DEF HasStruct
  <1> QED BY <1>1, <1>3

LEMMA ReturnArrives ==
    ASSUME NEW c \in Calls, NEW id, NEW t \in Threads, c.method \in DOMAIN processMap_,
           Handled(c).kind = "return"
    PROVE  LET body == Dispatched(Req(c, id)).body
               stub == StubOf(c.method)
               result == Result(t, stub, body)
           IN  /\ Agrees(c, Tested(stub, result)) /\ Fills(c, stub, result)
               /\ Structured(c) => Filled(t, c, body, result.val[success])
  <1> DEFINE p == processMap_[c.method]
             v == Handled(c).value
             body == Dispatched(Req(c, id)).body
             stub == StubOf(c.method)
             result == Result(t, stub, body)
  <1>1. body = WriteResult(p.result, With(New(p.result), success, v))
    BY ProcessIs
  <1>2. stub.result = p.result
    BY MethodFacts
  <1>4. Own(c) = Outcome("return", v)
    BY DEF Own, Handled, Given
  <1>5. Own(c).kind = "return" /\ Own(c).value = v
    BY <1>4 DEF Outcome
  <1>6. Structured(c) <=> HasStruct(p.result)
    BY DEF Structured
  <1>7. Declared(p.result, v)
    BY HandlerFacts
  <1> DEFINE goal == /\ Agrees(c, Tested(stub, result)) /\ Fills(c, stub, result)
                     /\ Structured(c) => Filled(t, c, body, result.val[success])
  <1>12. result = Result(t, stub, body)
    OBVIOUS
  <1>10. \/ p.result = NoResult /\ stub.tested = {}
         \/ success \in DOMAIN p.result /\ success \in stub.tested
    <2>1. success \in {success, ouch} /\ success \in {success}
      OBVIOUS
    <2>2. /\ \A field : success \in DOMAIN OnlySuccess(field)
          /\ \A field : success \in DOMAIN SuccessOrOuch(field)
      BY <2>1 DEF OnlySuccess, SuccessOrOuch
    <2> QED BY <2>1, <2>2, MethodFacts
  <1>11. HasStruct(p.result) => p.result = SuccessOrOuch(Struct(bbip_result))
    <2>1. ~HasStruct(NoResult)
      BY DEF HasStruct, NoResult
    <2>2. ~HasStruct(OnlySuccess(Optional("i32")))
      BY DEF HasStruct, OnlySuccess, Optional
    <2>3. \A type \in {"string", "i16", "i64"} : ~HasStruct(SuccessOrOuch(Optional(type)))
      BY DEF HasStruct, SuccessOrOuch, Optional
    <2> QED BY <2>1, <2>2, <2>3, MethodFacts
  <1> HIDE DEF v, body, stub, result, p
  <1>3. PICK obj : /\ result = ReadResult(p.result, body, obj) /\ obj.isset = {}
                   /\ HasStruct(p.result) => obj.val[success] = out[t]
    BY <1>2, <1>12, ResultObject
  <1>8. CASE p.result = NoResult /\ stub.tested = {}
    <2>1. ~HasStruct(p.result) /\ success \notin DOMAIN p.result
      BY <1>8 DEF NoResult, HasStruct
    <2>2. v = ""
      BY <1>7, <2>1 DEF Declared
    <2>3. Tested(stub, result) = Outcome("return", "")
      BY <1>8 DEF Tested
    <2>4. Outcome("return", "").kind = "return" /\ Outcome("return", "").value = ""
      BY DEF Outcome
    <2>5. Agrees(c, Tested(stub, result))
      BY <1>5, <2>2, <2>3, <2>4 DEF Agrees
    <2>6. Fills(c, stub, result)
      BY <1>2, <1>6, <2>1 DEF Fills
    <2>7. goal
      BY <1>6, <2>1, <2>5, <2>6
    <2> QED BY <2>7 DEF body, stub, result
  <1>9. ASSUME success \in DOMAIN p.result, success \in stub.tested
        PROVE  goal
    <2>1. /\ result.isset = {success}
          /\ p.result[success].type # "struct" => result.val[success] = v
          /\ p.result[success].type = "struct" =>
                /\ body[success].value = WriteFlat(p.result[success].of, v)
                /\ result.val[success] = ReadFlat(p.result[success].of,
                                                  WriteFlat(p.result[success].of, v),
                                                  obj.val[success])
      BY <1>1, <1>3, <1>9, ResultTrip
    <2>2. /\ Tested(stub, result).kind = "return"
          /\ ~HasStruct(p.result) => Tested(stub, result).value = result.val[success]
      <3>1. stub.tested # {} /\ success \in stub.tested \cap result.isset
        BY <1>9, <2>1
      <3>2. stub.tested \cap result.isset # {ouch}
        BY <3>1 DEF success, ouch
      <3>3. Tested(stub, result) =
               Outcome("return", IF HasStruct(stub.result) THEN "" ELSE result.val[success])
        BY <3>1, <3>2 DEF Tested
      <3>4. \A x : Outcome("return", x).kind = "return" /\ Outcome("return", x).value = x
        BY DEF Outcome
      <3>5. Tested(stub, result).kind = "return"
        BY <3>3, <3>4
      <3>6. ~HasStruct(stub.result) => Tested(stub, result).value = result.val[success]
        BY <3>3, <3>4
      <3> QED BY <1>2, <3>5, <3>6
    <2>3. Fills(c, stub, result)
      BY <1>2, <1>5, <1>6, <2>1 DEF Fills
    <2>4. CASE HasStruct(p.result)
      <3>1. p.result = SuccessOrOuch(Struct(bbip_result))
        BY <1>11, <2>4
      <3>2. p.result[success].of = bbip_result /\ p.result[success].type = "struct"
        BY <3>1 DEF SuccessOrOuch, Struct
      <3>3. IsObject(bbip_result, v) /\ v.isset \subseteq LatLng
        BY <1>7, <2>4 DEF Declared
      <3>4. result.val[success] = ReadFlat(bbip_result, WriteFlat(bbip_result, v), out[t])
            /\ body[success].value = WriteFlat(bbip_result, v)
        BY <1>3, <2>1, <2>4, <3>2
      <3>5. Filled(t, c, body, result.val[success])
        BY <1>5, <3>3, <3>4, RecordTrip DEF Filled
      <3>6. Agrees(c, Tested(stub, result))
        BY <1>5, <1>6, <2>2, <2>4 DEF Agrees
      <3> QED BY <2>3, <3>5, <3>6
    <2>5. CASE ~HasStruct(p.result)
      <3>1. p.result[success].type # "struct"
        BY <1>9, <2>5 DEF HasStruct
      <3>2. Agrees(c, Tested(stub, result))
        BY <1>5, <2>1, <2>2, <2>5, <3>1 DEF Agrees
      <3> QED BY <1>6, <2>3, <2>5, <3>2
    <2> QED BY <2>4, <2>5
  <1> QED BY <1>8, <1>9, <1>10 DEF body, stub, result

LEMMA ThrowArrives ==
    ASSUME NEW c \in Calls, NEW id, NEW t \in Threads, c.method \in DOMAIN processMap_,
           Handled(c).kind = "throw"
    PROVE  LET body == Dispatched(Req(c, id)).body
               stub == StubOf(c.method)
               result == Result(t, stub, body)
           IN  /\ Agrees(c, Tested(stub, result)) /\ Fills(c, stub, result)
               /\ Own(c).kind = "ouch"
  <1> DEFINE p == processMap_[c.method]
             v == Handled(c).value
             body == Dispatched(Req(c, id)).body
             stub == StubOf(c.method)
             result == Result(t, stub, body)
             goal == /\ Agrees(c, Tested(stub, result)) /\ Fills(c, stub, result)
                     /\ Own(c).kind = "ouch"
  <1>1. body = WriteResult(p.result, With(New(p.result), ouch, v))
    BY ProcessIs
  <1>2. stub.result = p.result
    BY MethodFacts
  <1>3. p.catches /\ IsObject(InvalidOperation, v)
    BY HandlerFacts
  <1>4. Own(c) = Outcome("ouch", v.val)
    BY DEF Own, Handled, Given
  <1>5. Own(c).kind = "ouch" /\ Own(c).value = v.val
    BY <1>4 DEF Outcome
  <1>6. stub.tested = {success, ouch} /\ \E field : p.result = SuccessOrOuch(field)
    BY <1>3, MethodFacts
  <1>7. /\ ouch \in DOMAIN p.result /\ p.result[ouch].type = "struct"
        /\ p.result[ouch].of = InvalidOperation
    <2>1. PICK field : p.result = SuccessOrOuch(field)
      BY <1>6
    <2>2. ouch # success
      BY DEF ouch, success
    <2>3. DOMAIN p.result = {success, ouch} /\ p.result[ouch] = Struct(InvalidOperation)
      BY <2>1, <2>2 DEF SuccessOrOuch
    <2> QED BY <2>3 DEF Struct
  <1>8. result = Result(t, stub, body)
    OBVIOUS
  <1> HIDE DEF v, body, stub, result, p
  <1>9. PICK obj : result = ReadResult(p.result, body, obj) /\ obj.isset = {}
    BY <1>2, <1>8, ResultObject
  <1>10. /\ result.isset = {ouch}
         /\ result.val[ouch] = ReadFlat(InvalidOperation, WriteFlat(InvalidOperation, v),
                                        obj.val[ouch])
    BY <1>1, <1>7, <1>9, ResultTrip
  <1>11. result.val[ouch].val = v.val
    <2>1. \A f \in DOMAIN InvalidOperation : ~InvalidOperation[f].optional
      BY DEF InvalidOperation, Always
    <2>2. v.val = [f \in DOMAIN InvalidOperation |-> v.val[f]]
      BY <1>3 DEF IsObject
    <2>3. ReadFlat(InvalidOperation, WriteFlat(InvalidOperation, v), obj.val[ouch]).val = v.val
      BY <2>1, <2>2, AllSent
    <2> QED BY <1>10, <2>3
  <1>12. Tested(stub, result) = Outcome("ouch", v.val)
    <2>1. success \notin stub.tested \cap result.isset /\ stub.tested \cap result.isset = {ouch}
          /\ stub.tested # {}
      BY <1>6, <1>10 DEF success, ouch
    <2>2. Tested(stub, result) = Outcome("ouch", result.val[ouch].val)
      BY <2>1 DEF Tested
    <2> QED BY <1>11, <2>2
  <1>13. Agrees(c, Tested(stub, result))
    BY <1>4, <1>12 DEF Agrees
  <1>14. Fills(c, stub, result)
    <2>1. success \notin result.isset
      BY <1>10 DEF success, ouch
    <2> QED BY <1>5, <2>1 DEF Fills
  <1>15. goal
    BY <1>5, <1>13, <1>14
  <1> QED BY <1>15 DEF body, stub, result

\* Whatever the handler did, the caller learns it from the answer.
LEMMA AnswerFacts ==
    ASSUME NEW c \in Calls, NEW id, NEW t \in Threads
    PROVE  LET msg == Dispatched(Req(c, id))
               stub == StubOf(c.method)
               result == Result(t, stub, msg.body)
           IN  /\ msg.name = c.method /\ msg.seqid = id /\ msg.mtype \in {"reply", "exception"}
               /\ msg.mtype = "exception" =>
                     /\ Agrees(c, Outcome("exception", msg.body))
                     /\ Own(c).kind = "exception"
               /\ msg.mtype = "reply" =>
                     /\ Agrees(c, Tested(stub, result)) /\ Fills(c, stub, result)
                     /\ Structured(c) /\ Own(c).kind = "return" =>
                           Filled(t, c, msg.body, result.val[success])
  <1> DEFINE msg == Dispatched(Req(c, id))
             stub == StubOf(c.method)
             result == Result(t, stub, msg.body)
             right == /\ Agrees(c, Tested(stub, result)) /\ Fills(c, stub, result)
                      /\ Structured(c) /\ Own(c).kind = "return" =>
                            Filled(t, c, msg.body, result.val[success])
             wrong == /\ Agrees(c, Outcome("exception", msg.body)) /\ Own(c).kind = "exception"
  <1>1. msg.name = c.method /\ msg.seqid = id /\ msg.mtype \in {"reply", "exception"}
    BY ReqFacts, DispatchedFacts
  <1>2. CASE c.method \notin DOMAIN processMap_
    <2>1. Req(c, id).name \notin DOMAIN processMap_
      BY <1>2, ReqFacts
    <2>2. msg.mtype = "exception" /\ msg.body = "UNKNOWN_METHOD"
      BY <2>1 DEF Dispatched, Message
    <2>3. Own(c) = Outcome("exception", "UNKNOWN_METHOD")
      BY <1>2 DEF Own
    <2>4. wrong
      <3> HIDE DEF msg
      <3> QED BY <2>2, <2>3 DEF Agrees, Outcome
    <2> QED BY <1>1, <2>2, <2>4
  <1>3. CASE c.method \in DOMAIN processMap_
    <2>1. CASE Handled(c).kind = "return"
      <3>1. msg.mtype = "reply"
        BY <1>3, <2>1, ProcessIs
      <3>2. right
        BY <1>3, <2>1, ReturnArrives
      <3> QED BY <1>1, <3>1, <3>2
    <2>2. CASE Handled(c).kind = "throw"
      <3>1. msg.mtype = "reply"
        BY <1>3, <2>2, ProcessIs
      <3>2. right
        BY <1>3, <2>2, ThrowArrives
      <3> QED BY <1>1, <3>1, <3>2
    <2>3. CASE Handled(c).kind \notin {"return", "throw"}
      <3>1. msg.mtype = "exception" /\ msg.body = "what"
        BY <1>3, <2>3, ProcessIs
      <3>2. Own(c) = Outcome("exception", "what")
        BY <1>3, <2>3 DEF Own, Handled, Given
      <3>3. wrong
        <4> HIDE DEF msg
        <4> QED BY <3>1, <3>2 DEF Agrees, Outcome
      <3> QED BY <1>1, <3>1, <3>3
    <2> QED BY <2>1, <2>2, <2>3
  <1> QED BY <1>2, <1>3

-----------------------------------------------------------------------------
\* That calls end with their own answers takes more of the messages: no two under
\* way have the same number, and while somebody listens every number is waited for.
Unique(s) == \A i, j \in 1..Len(s) : s[i].seqid = s[j].seqid => i = j

Apart ==
    client = "concurrent" =>
        /\ Unique(toServer) /\ Unique(toClient)
        /\ \A m \in In(toServer) : \A n \in In(toClient) : m.seqid # n.seqid

Listening == ~sync.stop \/ \E t \in Threads : pc[t] \in {"read", "compare"}

Expected ==
    client = "concurrent" =>
        /\ \A t \in Threads : InCall(t) => seqid[t] \in sync.monitors
        /\ Listening => \A m \in In(toServer) \cup In(toClient) : m.seqid \in sync.monitors

\* Before a plain client has given up on an answer, the connection carries at
\* most the message of the call that waits for it.
PlainWire ==
    client = "plain" /\ ~late =>
        /\ Len(toServer) + Len(toClient) <= 1
        /\ \A t \in Threads : pc[t] # "misread"
        /\ \A m \in In(toServer) :
              \E t \in Threads : pc[t] = "recv" /\ m = Req(call[t], seqid[t])
        /\ \A m \in In(toClient) :
              \E t \in Threads : pc[t] = "recv" /\ m = Dispatched(Req(call[t], seqid[t]))

Down == ~up => toServer = <<>>

\* What a call that ended with an answer has left, and what its object holds.
Rightly(t) ==
    /\ Agrees(call[t], outcome[t])
    /\ Structured(call[t]) /\ outcome[t].kind = "return" =>
          LET own == Own(call[t]).value
          IN  /\ \A f \in DOMAIN bbip_result :
                    f \notin LatLng \/ f \in own.isset => out[t].val[f] = own.val[f]
              /\ own.isset \subseteq earlier[t]

Sound(t) ==
    ~late => /\ out[t].isset \cap LatLng = earlier[t]
             /\ Answered(t) => Rightly(t)

SoundAnswers == \A t \in Threads : Sound(t)

AInv == IInv /\ Apart /\ Expected /\ PlainWire /\ Down /\ SoundAnswers

LEMMA UniqueRemoved ==
    ASSUME NEW S, NEW s \in Seq(S), NEW i \in 1..Len(s), Unique(s)
    PROVE  Unique(Without(s, i)) /\ \A m \in In(Without(s, i)) : m.seqid # s[i].seqid
  <1> DEFINE w == Without(s, i)
             at(j) == IF j < i THEN j ELSE j + 1
  <1>1. \A j \in 1..Len(w) : w[j] = s[at(j)]
    BY RemovedAt
  <1>2. Len(w) = Len(s) - 1 /\ Len(s) \in Nat
    BY Removed, LenProperties
  <1> HIDE DEF w
  <1>3. \A j \in 1..Len(w) : at(j) \in 1..Len(s) /\ at(j) # i
    BY <1>2
  <1>4. \A j, k \in 1..Len(w) : at(j) = at(k) => j = k
    BY <1>2
  <1> HIDE DEF at
  <1>5. Unique(w)
    BY <1>1, <1>3, <1>4 DEF Unique
  <1>6. \A m \in In(w) : m.seqid # s[i].seqid
    BY <1>1, <1>3 DEF Unique, In
  <1> QED BY <1>5, <1>6 DEF w

LEMMA UniqueAppended ==
    ASSUME NEW S, NEW s \in Seq(S), NEW m \in S, Unique(s), \A n \in In(s) : n.seqid # m.seqid
    PROVE  Unique(Append(s, m))
  <1> DEFINE a == Append(s, m)
  <1>1. /\ Len(a) = Len(s) + 1 /\ Len(s) \in Nat
        /\ \A i \in 1..Len(s) : a[i] = s[i]
        /\ a[Len(s) + 1] = m
    BY AppendProperties
  <1> HIDE DEF a
  <1>2. \A i \in 1..Len(s) : s[i].seqid # m.seqid
    BY DEF In
  <1>3. \A i \in 1..Len(a) : i \in 1..Len(s) \/ i = Len(s) + 1
    BY <1>1
  <1>4. Unique(a)
    BY <1>1, <1>2, <1>3 DEF Unique
  <1> QED BY <1>4 DEF a

LEMMA UniqueRest ==
    ASSUME NEW S, NEW s \in Seq(S), s # <<>>, Unique(s)
    PROVE  Unique(Tail(s)) /\ \A m \in In(Tail(s)) : m.seqid # Head(s).seqid
  <1> DEFINE r == Tail(s)
  <1>1. /\ Len(s) \in Nat /\ Len(s) # 0 /\ Head(s) = s[1] /\ Len(r) = Len(s) - 1
        /\ \A i \in 1..Len(r) : r[i] = s[i + 1]
    BY HeadTailProperties, EmptySeq
  <1> HIDE DEF r
  <1>2. \A i \in 1..Len(r) : i + 1 \in 1..Len(s) /\ i + 1 # 1
    BY <1>1
  <1>3. 1 \in 1..Len(s)
    BY <1>1
  <1>4. \A i, j \in 1..Len(r) : i + 1 = j + 1 => i = j
    BY <1>1
  <1>5. \A i, j \in 1..Len(r) : r[i].seqid = r[j].seqid => i + 1 = j + 1
    BY <1>1, <1>2 DEF Unique
  <1>6. Unique(r)
    BY <1>4, <1>5 DEF Unique
  <1>7. \A i \in 1..Len(r) : r[i].seqid # s[1].seqid
    BY <1>1, <1>2, <1>3 DEF Unique
  <1> QED BY <1>1, <1>6, <1>7 DEF r, In

LEMMA UniqueCut ==
    ASSUME NEW S, NEW s \in Seq(S), NEW n \in 0..Len(s), Unique(s)
    PROVE  Unique(SubSeq(s, 1, n))
  <1>1. n \in Nat /\ Len(s) \in Nat /\ n <= Len(s)
    BY LenProperties
  <1>2. \A i \in 1..n : s[i] \in S
    BY <1>1, ElementOfSeq
  <1> DEFINE c == SubSeq(s, 1, n)
  <1>3. Len(c) = n /\ \A i \in 1..n : c[i] = s[i]
    BY <1>1, <1>2, SubSeqProperties
  <1> HIDE DEF c
  <1>4. \A i \in 1..n : i \in 1..Len(s)
    BY <1>1
  <1>5. Unique(c)
    BY <1>3, <1>4 DEF Unique
  <1> QED BY <1>5 DEF c

LEMMA Nothing ==
    ASSUME NEW S, NEW s \in Seq(S)
    PROVE  /\ s = <<>> => In(s) = {} /\ Len(s) = 0 /\ Unique(s)
           /\ In(s) = {} => s = <<>>
  <1>1. s = <<>> => In(s) = {} /\ Len(s) = 0 /\ Unique(s)
    BY EmptySeq DEF In, Unique
  <1>2. s # <<>> => Head(s) \in In(s)
    BY Rest
  <1> QED BY <1>1, <1>2

-----------------------------------------------------------------------------
\* The other threads' ended calls and objects stay as they are.
LEMMA Undisturbed ==
    ASSUME NEW u \in Threads, Sound(u), late => late',
           call'[u] = call[u], outcome'[u] = outcome[u], out'[u] = out[u],
           earlier'[u] = earlier[u], pc'[u] = "ended" => pc[u] = "ended"
    PROVE  Sound(u)'
  BY DEF Sound, Answered, Rightly

LEMMA GoesSound ==
    ASSUME AInv, NEW t \in Threads, Goes(t), late => late', Sound(t)',
           \A u \in Threads : u # t => out'[u] = out[u] /\ earlier'[u] = earlier[u]
    PROVE  SoundAnswers'
  <1> SUFFICES ASSUME NEW u \in Threads, u # t PROVE Sound(u)'
    BY DEF SoundAnswers
  <1>1. Sound(u)
    BY DEF AInv, SoundAnswers
  <1>2. /\ call'[u] = call[u] /\ outcome'[u] = outcome[u]
        /\ pc'[u] = "ended" => pc[u] = "ended"
    BY DEF Goes, Others
  <1> QED BY <1>1, <1>2, Undisturbed

\* A step without an answer.
Unanswered(t) ==
    /\ out' = out /\ earlier' = earlier /\ (late => late')
    /\ pc'[t] # "ended" \/ late' \/ outcome'[t].kind \in {"transport", "dead"}

LEMMA UnansweredSound ==
    ASSUME AInv, NEW t \in Threads, Goes(t), Unanswered(t)
    PROVE  SoundAnswers'
  <1>1. Sound(t)
    BY DEF AInv, SoundAnswers
  <1>2. Sound(t)'
    BY <1>1 DEF Unanswered, Sound, Answered
  <1> QED BY <1>2, GoesSound DEF Unanswered

LEMMA LateSound == late' => SoundAnswers'
  BY DEF SoundAnswers, Sound

\* Thread t takes the answer of its call.
LEMMA AnsweredSound ==
    ASSUME AInv, NEW t \in Threads, Goes(t), ~late, late' = late,
           NEW msg, msg = Dispatched(Req(call[t], seqid[t])),
           \/ msg.mtype = "exception" /\ Report(t, Outcome("exception", msg.body))
           \/ msg.mtype = "reply" /\ ReportResult(t, StubOf(msg.name), msg.body)
    PROVE  SoundAnswers' /\ outcome'[t].kind \in {"return", "ouch", "exception"}
  <1> DEFINE c == call[t]
             stub == StubOf(c.method)
             result == Result(t, stub, msg.body)
  <1>1. c \in Calls /\ DOMAIN outcome = Threads /\ DOMAIN out = Threads /\ DOMAIN earlier = Threads
    BY DEF AInv, IInv, Typed, Settled, Goes
  <1>2. out[t].isset \cap LatLng = earlier[t]
    BY DEF AInv, SoundAnswers, Sound
  <1>3. call' = call /\ \A u \in Threads : u # t => outcome'[u] = outcome[u]
    BY DEF Goes
  <1>4. /\ msg.name = c.method
        /\ msg.mtype = "exception" =>
              Agrees(c, Outcome("exception", msg.body)) /\ Own(c).kind = "exception"
        /\ msg.mtype = "reply" =>
              /\ Agrees(c, Tested(stub, result)) /\ Fills(c, stub, result)
              /\ Structured(c) /\ Own(c).kind = "return" =>
                    Filled(t, c, msg.body, result.val[success])
    BY <1>1, AnswerFacts
  <1>12. Own(c).kind \in {"return", "ouch", "exception"}
    BY DEF Own, Outcome
  <1>5. CASE msg.mtype = "exception" /\ Report(t, Outcome("exception", msg.body))
    <2>1. /\ outcome'[t] = Outcome("exception", msg.body) /\ out' = out /\ earlier' = earlier
      BY <1>1, <1>5 DEF Report
    <2>2. outcome'[t].kind = "exception"
      BY <2>1 DEF Outcome
    <2>3. Rightly(t)'
      BY <1>3, <1>4, <1>5, <2>1, <2>2 DEF Rightly
    <2>4. Sound(t)'
      BY <1>2, <2>1, <2>3 DEF Sound
    <2> QED BY <2>1, <2>2, <2>4, GoesSound
  <1>6. CASE msg.mtype = "reply" /\ ReportResult(t, StubOf(msg.name), msg.body)
    <2> DEFINE filled == HasStruct(stub.result) /\ success \in result.isset
               sent == LatLng \cap DOMAIN msg.body[success].value
    <2>1. /\ outcome' = [outcome EXCEPT ![t] = Tested(stub, result)]
          /\ out' = IF filled THEN [out EXCEPT ![t] = result.val[success]] ELSE out
          /\ earlier' = IF filled THEN [earlier EXCEPT ![t] = @ \cup sent] ELSE earlier
      BY <1>4, <1>6 DEF ReportResult
    <2>2. /\ Agrees(c, Tested(stub, result)) /\ Fills(c, stub, result)
          /\ Structured(c) /\ Own(c).kind = "return" => Filled(t, c, msg.body, result.val[success])
      BY <1>4, <1>6
    <2>3. filled <=> Structured(c) /\ Own(c).kind = "return"
      BY <2>2 DEF Fills
    <2> DEFINE obj == result.val[success]
    <2> HIDE DEF filled, sent, obj, result
    <2>4. /\ outcome'[t] = Tested(stub, result)
          /\ \A u \in Threads : u # t => out'[u] = out[u] /\ earlier'[u] = earlier[u]
          /\ filled => out'[t] = obj /\ earlier'[t] = earlier[t] \cup sent
          /\ ~filled => out'[t] = out[t] /\ earlier'[t] = earlier[t]
      BY <1>1, <2>1 DEF obj
    <2>5. Agrees(c, outcome'[t])
      BY <2>2, <2>4
    <2>6. outcome'[t].kind = Own(c).kind
      BY <2>5 DEF Agrees
    <2>7. CASE filled
      <3> DEFINE own == Own(c).value
      <3>1. /\ own.isset \subseteq LatLng /\ sent = own.isset
            /\ obj.isset \cap LatLng = (out[t].isset \cap LatLng) \cup own.isset
            /\ \A f \in DOMAIN bbip_result : f \notin LatLng \/ f \in own.isset =>
                  obj.val[f] = own.val[f]
        BY <2>2, <2>3, <2>7 DEF Filled, sent, obj
      <3>2. out'[t].isset \cap LatLng = earlier'[t]
        BY <1>2, <2>4, <2>7, <3>1
      <3>3. Rightly(t)'
        BY <1>3, <2>4, <2>5, <2>7, <3>1 DEF Rightly
      <3>4. Sound(t)'
        BY <3>2, <3>3 DEF Sound
      <3> QED BY <1>12, <2>4, <2>6, <3>4, GoesSound
    <2>8. CASE ~filled
      <3>1. ~(Structured(c) /\ outcome'[t].kind = "return")
        BY <2>3, <2>6, <2>8
      <3>2. Rightly(t)'
        BY <1>3, <2>5, <3>1 DEF Rightly
      <3>3. Sound(t)'
        BY <1>2, <2>4, <2>8, <3>2 DEF Sound
      <3> QED BY <1>12, <2>4, <2>6, <3>3, GoesSound
    <2> QED BY <2>7, <2>8
  <1> QED BY <1>5, <1>6

-----------------------------------------------------------------------------
\* The numbers under way after a thread's step.
LEMMA GoesApart ==
    ASSUME AInv, NEW t \in Threads, Goes(t)
    PROVE  Apart'
  <1> SUFFICES ASSUME client = "concurrent" PROVE Apart'
    BY DEF Goes, Apart
  <1>1. toServer' = toServer /\ client' = client /\ toClient \in Seq(Answers)
    BY DEF Goes, AInv, IInv, Typed
  <1>2. /\ Unique(toServer) /\ Unique(toClient)
        /\ \A m \in In(toServer) : \A n \in In(toClient) : m.seqid # n.seqid
    BY DEF AInv, Apart
  <1>3. toClient' = toClient \/ (toClient # <<>> /\ toClient' = Tail(toClient))
    BY DEF Goes
  <1>4. Unique(toClient)' /\ In(toClient)' \subseteq In(toClient)
    <2>1. toClient # <<>> => /\ Unique(Tail(toClient))
                             /\ In(Tail(toClient)) \subseteq In(toClient)
      BY <1>1, <1>2, Rest, UniqueRest
    <2> QED BY <1>2, <1>3, <2>1
  <1>5. Unique(toServer)' /\ In(toServer)' = In(toServer)
    BY <1>1, <1>2
  <1> QED BY <1>2, <1>4, <1>5 DEF Apart

LEMMA GoesDown ==
    ASSUME AInv, NEW t \in Threads, Goes(t)
    PROVE  Down'
  BY DEF AInv, Down, Goes

LEMMA ConcurrentWire == client' = "concurrent" => PlainWire'
  BY DEF PlainWire

LEMMA PlainExpected == client' = "plain" => Expected' /\ Apart'
  BY DEF Expected, Apart

\* The thread itself goes on, or nobody listens when it has gone.
LEMMA StillListening ==
    ASSUME AInv, NEW t \in Threads, Goes(t), Listening',
           pc'[t] \in {"read", "compare"} => Listening
    PROVE  Listening
  <1>1. sync.stop => sync'.stop
    BY DEF Goes
  <1>2. \A u \in Threads : u # t /\ pc'[u] \in {"read", "compare"} => pc[u] \in {"read", "compare"}
    BY DEF Goes, Others
  <1> QED BY <1>1, <1>2 DEF Listening

LEMMA OnwardSure ==
    ASSUME AInv, NEW t \in Threads, Goes(t), IInv', client = "concurrent",
           sync'.monitors = sync.monitors, Unanswered(t),
           pc'[t] \in {"read", "compare"} => Listening
    PROVE  AInv'
  <1>1. /\ client' = client /\ seqid' = seqid /\ toServer' = toServer
        /\ toClient \in Seq(Answers)
        /\ toClient' = toClient \/ (toClient # <<>> /\ toClient' = Tail(toClient))
    BY DEF Goes, AInv, IInv, Typed
  <1>2. In(toClient)' \subseteq In(toClient) /\ In(toServer)' = In(toServer)
    BY <1>1, Rest
  <1>3. \A u \in Threads : InCall(u)' => InCall(u)
    BY DEF Goes, Others, InCall
  <1>4. Listening' => Listening
    BY StillListening
  <1>5. Expected'
    <2> SUFFICES ASSUME TRUE
                 PROVE  /\ \A u \in Threads : InCall(u)' => seqid'[u] \in sync'.monitors
                        /\ Listening' => \A m \in In(toServer)' \cup In(toClient)' :
                                            m.seqid \in sync'.monitors
      BY DEF Expected
    <2> QED BY <1>1, <1>2, <1>3, <1>4 DEF AInv, Expected
  <1>6. SoundAnswers'
    BY UnansweredSound
  <1> QED BY <1>1, <1>5, <1>6, GoesApart, GoesDown, ConcurrentWire DEF AInv

\* Thread t leaves, its number with it.
LEMMA LeavingSure ==
    ASSUME AInv, NEW t \in Threads, Goes(t), IInv', client = "concurrent", SoundAnswers',
           NEW s \in Sync, NEW b \in BOOLEAN, s.monitors = sync.monitors, Leave(t, s, b),
           b => \A m \in In(toServer) \cup In(toClient)' : m.seqid # seqid[t]
    PROVE  AInv'
  <1>1. /\ client' = client /\ seqid' = seqid /\ toServer' = toServer
        /\ toClient \in Seq(Answers)
        /\ toClient' = toClient \/ (toClient # <<>> /\ toClient' = Tail(toClient))
        /\ InCall(t)
    BY DEF Goes, AInv, IInv, Typed
  <1>2. In(toClient)' \subseteq In(toClient) /\ In(toServer)' = In(toServer)
    BY <1>1, Rest
  <1>3. /\ sync'.monitors = sync.monitors \ {seqid[t]}
        /\ sync'.stop = IF b THEN s.stop ELSE TRUE
        /\ pc'[t] = "ended" /\ reader' = None /\ Others(t)
    <2>1. Typed
      BY DEF AInv, IInv
    <2>2. /\ sync' \in Sync /\ sync'.nextseqid = s.nextseqid /\ sync'.pending = s.pending
          /\ sync'.monitors = s.monitors \ {seqid[t]}
          /\ sync'.stop = IF b THEN s.stop ELSE TRUE
          /\ Others(t) /\ pc'[t] = "ended" /\ reader' = None
          /\ UNCHANGED <<client, program, call, seqid, made, late>>
      BY <2>1, LeaveFacts
    <2> QED BY <2>2
  <1>4. \A u \in Threads : InCall(u)' => InCall(u) /\ u # t
    BY <1>3 DEF Others, InCall
  <1>5. \A u \in Threads : ~Reads(u)'
    BY <1>3, ThreadsAssumption DEF IInv, Reading
  <1>6. Listening' => b /\ Listening
    <2>1. Listening' => b
      BY <1>3, <1>5 DEF Listening, Reads
    <2> QED BY <1>3, <2>1, StillListening
  <1>7. Expected'
    <2> SUFFICES ASSUME TRUE
                 PROVE  /\ \A u \in Threads : InCall(u)' => seqid'[u] \in sync'.monitors
                        /\ Listening' => \A m \in In(toServer)' \cup In(toClient)' :
                                            m.seqid \in sync'.monitors
      BY DEF Expected
    <2>1. \A u \in Threads : InCall(u)' => seqid'[u] \in sync'.monitors
      <3>1. \A u \in Threads : u # t /\ InCall(u) => seqid[u] # seqid[t]
        BY <1>1 DEF AInv, IInv, Numbers
      <3> QED BY <1>1, <1>3, <1>4, <3>1 DEF AInv, Expected
    <2>2. Listening => \A m \in In(toServer) \cup In(toClient) : m.seqid \in sync.monitors
      BY DEF AInv, Expected
    <2>3. Listening' => \A m \in In(toServer)' \cup In(toClient)' : m.seqid \in sync'.monitors
      BY <1>2, <1>3, <1>6, <2>2
    <2> QED BY <2>1, <2>3
  <1> QED BY <1>1, <1>7, GoesApart, GoesDown, ConcurrentWire DEF AInv

\* The ways a concurrent call ends without an answer.
LEMMA ReportUnanswered ==
    ASSUME NEW t \in Threads, DOMAIN outcome = Threads, NEW kind \in {"transport", "dead"},
           Report(t, Outcome(kind, "")), late' = late
    PROVE  Unanswered(t)
  <1>1. Outcome(kind, "").kind = kind
    BY DEF Outcome
  <1>2. outcome'[t] = Outcome(kind, "") /\ out' = out /\ earlier' = earlier
    BY DEF Report
  <1> QED BY <1>1, <1>2 DEF Unanswered

LEMMA GivingUpSure ==
    ASSUME AInv, NEW t \in Threads, Goes(t), IInv', client = "concurrent",
           NEW s \in Sync, s.monitors = sync.monitors, Leave(t, s, FALSE),
           NEW kind \in {"transport", "dead"}, Report(t, Outcome(kind, ""))
    PROVE  AInv'
  <1>1. late' = late
    BY DEF Leave
  <1>2. Unanswered(t)
    BY <1>1, ReportUnanswered DEF AInv, IInv, Typed
  <1>3. SoundAnswers'
    BY <1>2, UnansweredSound
  <1> QED BY <1>3, LeavingSure

-----------------------------------------------------------------------------
LEMMA SendFailsSure ==
    ASSUME AInv, NEW t \in Threads, SendFails(t)
    PROVE  AInv'
  <1>1. /\ client = "concurrent" /\ sync' = Bad(sync)
        /\ pc' = [Notify(sync.monitors, pc) EXCEPT ![t] = "ended"]
        /\ outcome' = [outcome EXCEPT ![t] = Outcome("transport", "")]
        /\ out' = out /\ earlier' = earlier /\ late' = late
    BY DEF SendFails
  <1>2. IInv' /\ Goes(t)
    BY SendFailsInv DEF AInv
  <1>3. sync'.monitors = sync.monitors
    BY <1>1 DEF AInv, IInv, Typed, Sync, Bad
  <1>4. pc'[t] = "ended"
    BY <1>1, NotifyFacts DEF AInv, IInv, Labels
  <1>5. Unanswered(t)
    BY <1>1 DEF Unanswered, Outcome, AInv, IInv, Typed
  <1> QED BY <1>1, <1>2, <1>3, <1>4, <1>5, OnwardSure

LEMMA LockSure ==
    ASSUME AInv, NEW t \in Threads, Lock(t)
    PROVE  AInv'
  <1>1. /\ client = "concurrent" /\ Goto(t, "pick")
        /\ sync' = sync /\ out' = out /\ earlier' = earlier /\ late' = late
    BY DEF Lock, Goto
  <1>2. IInv' /\ Goes(t)
    BY LockInv DEF AInv
  <1>3. pc'[t] = "pick"
    BY <1>1, GotoFacts DEF AInv, IInv, Labels
  <1>4. Unanswered(t)
    BY <1>1, <1>3 DEF Unanswered
  <1> QED BY <1>1, <1>2, <1>3, <1>4, OnwardSure

LEMMA ConcurrentOnly ==
    ASSUME AInv, NEW t \in Threads, pc[t] \in {"pick", "read", "compare", "woken"}
    PROVE  client = "concurrent" /\ sync \in Sync /\ DOMAIN outcome = Threads
  BY DEF AInv, IInv, Typed, Modes

LEMMA GetPendingSure ==
    ASSUME AInv, NEW t \in Threads, GetPending(t)
    PROVE  AInv'
  <1>1. pc[t] = "pick"
    BY DEF GetPending
  <1>2. IInv' /\ Goes(t)
    BY GetPendingInv DEF AInv
  <1>3. CASE sync.stop
    <2>1. Report(t, Outcome("dead", "")) /\ Leave(t, sync, FALSE)
      BY <1>3 DEF GetPending
    <2> QED BY <1>1, <1>2, <2>1, ConcurrentOnly, GivingUpSure
  <1>4. CASE ~sync.stop
    <2> DEFINE label == IF sync.pending # NoHeader THEN "compare" ELSE "read"
    <2>1. /\ sync' = [sync EXCEPT !.wakeupSomeone = FALSE, !.pending = NoHeader]
          /\ Goto(t, label) /\ out' = out /\ earlier' = earlier /\ late' = late
      BY <1>4 DEF GetPending
    <2>2. label \in {"compare", "read"} /\ label \in Labels
      BY DEF Labels
    <2> HIDE DEF label
    <2>3. pc'[t] # "ended"
      BY <2>1, <2>2, GotoFacts DEF AInv, IInv
    <2>4. sync'.monitors = sync.monitors
      BY <1>1, <2>1, ConcurrentOnly DEF Sync
    <2>5. Unanswered(t)
      BY <2>1, <2>3 DEF Unanswered
    <2>6. Listening
      BY <1>4 DEF Listening
    <2> QED BY <1>1, <1>2, <2>4, <2>5, <2>6, ConcurrentOnly, OnwardSure
  <1> QED BY <1>3, <1>4

LEMMA ReadHeaderSure ==
    ASSUME AInv, NEW t \in Threads, ReadHeader(t)
    PROVE  AInv'
  <1>1. /\ pc[t] = "read" /\ Goto(t, "compare") /\ sync' = sync
        /\ out' = out /\ earlier' = earlier /\ late' = late
    BY DEF ReadHeader
  <1>2. IInv' /\ Goes(t)
    BY ReadHeaderInv DEF AInv
  <1>3. pc'[t] = "compare"
    BY <1>1, GotoFacts DEF AInv, IInv, Labels
  <1>4. Unanswered(t)
    BY <1>1, <1>3 DEF Unanswered
  <1>5. Listening
    BY <1>1 DEF Listening
  <1> QED BY <1>1, <1>2, <1>4, <1>5, ConcurrentOnly, OnwardSure

LEMMA ReadFailsSure ==
    ASSUME AInv, NEW t \in Threads, ReadFails(t)
    PROVE  AInv'
  <1>1. pc[t] = "read" /\ Report(t, Outcome("transport", "")) /\ Leave(t, sync, FALSE)
    BY DEF ReadFails
  <1>2. IInv' /\ Goes(t)
    BY ReadFailsInv DEF AInv
  <1> QED BY <1>1, <1>2, ConcurrentOnly, GivingUpSure

\* The message after a thread's own header is the answer of its call.
LEMMA RecvOwnSure ==
    ASSUME AInv, NEW t \in Threads, RecvOwn(t)
    PROVE  AInv'
  <1> DEFINE msg == Head(toClient)
  <1>1. /\ pc[t] = "compare" /\ msg.seqid = seqid[t]
        /\ IF msg.mtype = "exception" THEN Report(t, Outcome("exception", msg.body))
           ELSE IF msg.name # call[t].method THEN Report(t, Outcome("invalid", ""))
           ELSE ReportResult(t, StubOf(msg.name), msg.body)
        /\ toClient' = Tail(toClient)
    BY DEF RecvOwn, Mine
  <1>2. Leave(t, sync, Commits(outcome'[t]))
    BY DEF RecvOwn
  <1>3. IInv' /\ Goes(t)
    BY RecvOwnInv DEF AInv
  <1>4. client = "concurrent" /\ sync \in Sync /\ ~late
    BY <1>1, ConcurrentOnly DEF AInv, IInv, Modes
  <1>5. toClient # <<>> /\ toClient \in Seq(Answers)
    BY <1>1 DEF AInv, IInv, HeaderRead, Typed
  <1>6. msg \in In(toClient)
    BY <1>5, Rest
  <1>7. InCall(t) /\ call[t] \in Calls /\ late' = late
    BY <1>1, <1>3, <1>4 DEF AInv, IInv, Typed, Settled, InCall, Goes
  <1>8. msg = Dispatched(Req(call[t], seqid[t]))
    BY <1>1, <1>4, <1>6, <1>7 DEF AInv, IInv, Underway
  <1>9. msg.name = call[t].method /\ msg.mtype \in {"reply", "exception"}
    BY <1>7, <1>8, AnswerFacts
  <1>10. \A m \in In(toServer) \cup In(toClient)' : m.seqid # seqid[t]
    <2>1. /\ Unique(toClient)
          /\ \A m \in In(toServer) : \A n \in In(toClient) : m.seqid # n.seqid
      BY <1>4 DEF AInv, Apart
    <2>2. \A m \in In(Tail(toClient)) : m.seqid # msg.seqid
      BY <1>5, <2>1, UniqueRest
    <2> HIDE DEF msg
    <2> QED BY <1>1, <1>6, <2>1, <2>2
  <1> HIDE DEF msg
  <1>11. SoundAnswers'
    <2>1. \/ msg.mtype = "exception" /\ Report(t, Outcome("exception", msg.body))
          \/ msg.mtype = "reply" /\ ReportResult(t, StubOf(msg.name), msg.body)
      BY <1>1, <1>9
    <2> QED BY <1>3, <1>4, <1>7, <1>8, <2>1, AnsweredSound
  <1>12. Commits(outcome'[t]) \in BOOLEAN
    BY DEF Commits
  <1> QED BY <1>2, <1>3, <1>4, <1>10, <1>11, <1>12, LeavingSure

LEMMA WaitForWorkSure ==
    ASSUME AInv, NEW t \in Threads, Goes(t), IInv', client = "concurrent",
           NEW s \in Sync, s.monitors = sync.monitors, NEW pcs,
           DOMAIN pcs = Threads, WaitForWork(t, s, pcs)
    PROVE  AInv'
  <1>1. CASE s.stop
    <2>1. Report(t, Outcome("dead", "")) /\ Leave(t, s, FALSE)
      BY <1>1 DEF WaitForWork
    <2> QED BY <2>1, GivingUpSure
  <1>2. CASE ~s.stop
    <2>1. /\ sync' = s /\ out' = out /\ earlier' = earlier /\ late' = late
          /\ pc' = [pcs EXCEPT ![t] = IF HasWork(t, s) THEN "pick" ELSE "wait"]
      BY <1>2 DEF WaitForWork
    <2>2. pc'[t] \in {"pick", "wait"}
      BY <2>1
    <2>3. Unanswered(t)
      BY <2>1, <2>2 DEF Unanswered
    <2> QED BY <2>1, <2>2, <2>3, OnwardSure
  <1> QED BY <1>1, <1>2

LEMMA WokenSure ==
    ASSUME AInv, NEW t \in Threads, Woken(t)
    PROVE  AInv'
  <1>1. pc[t] = "woken" /\ WaitForWork(t, sync, pc)
    BY DEF Woken
  <1>2. IInv' /\ Goes(t) /\ DOMAIN pc = Threads
    BY WokenInv DEF AInv, IInv, Typed
  <1> QED BY <1>1, <1>2, ConcurrentOnly, WaitForWorkSure

\* A header that is not the thread's own is always waited for by another.
LEMMA HandOverSure ==
    ASSUME AInv, NEW t \in Threads, HandOver(t)
    PROVE  AInv'
  <1> DEFINE msg == Head(toClient)
             header == [name |-> msg.name, mtype |-> msg.mtype, seqid |-> msg.seqid]
             left == [sync EXCEPT !.pending = header]
  <1>1. /\ pc[t] = "compare"
        /\ IF msg.seqid \in sync.monitors
           THEN WaitForWork(t, left, Notify({msg.seqid}, pc))
           ELSE Report(t, Outcome("invalid", "")) /\ Leave(t, left, FALSE)
    BY DEF HandOver
  <1>2. IInv' /\ Goes(t)
    BY HandOverInv DEF AInv
  <1>3. client = "concurrent" /\ sync \in Sync
    BY <1>1, ConcurrentOnly
  <1>4. toClient # <<>> /\ toClient \in Seq(Answers)
    BY <1>1 DEF AInv, IInv, HeaderRead, Typed
  <1>5. msg \in In(toClient) /\ msg \in Answers
    BY <1>4, Rest
  <1>6. header \in Header
    BY <1>5, MessageFacts DEF Header
  <1>7. Listening
    BY <1>1 DEF Listening
  <1>8. msg.seqid \in sync.monitors
    BY <1>3, <1>5, <1>7 DEF AInv, Expected
  <1>9. DOMAIN Notify({msg.seqid}, pc) = Threads
    BY DEF Notify
  <1> HIDE DEF header, msg
  <1>10. left \in Sync /\ left.monitors = sync.monitors
    BY <1>3, <1>6 DEF Sync
  <1> HIDE DEF left
  <1> QED BY <1>1, <1>2, <1>3, <1>8, <1>9, <1>10, WaitForWorkSure

-----------------------------------------------------------------------------
\* The plain client: what it waits for is all there is.
LEMMA EmptyWire ==
    ASSUME toServer' = <<>>, toClient' = <<>>, \A u \in Threads : pc'[u] # "misread"
    PROVE  PlainWire'
  <1>1. <<>> \in Seq(Requests)
    BY EmptySeq
  <1>2. In(<<>>) = {} /\ Len(<<>>) = 0
    BY <1>1, Nothing
  <1> QED BY <1>2 DEF PlainWire

LEMMA LateSure ==
    ASSUME AInv, NEW t \in Threads, Goes(t), IInv', client = "plain", late'
    PROVE  AInv'
  <1>1. PlainWire' /\ client' = client
    BY DEF PlainWire, Goes
  <1> QED BY <1>1, LateSound, PlainExpected, GoesDown DEF AInv

LEMMA PlainFailsSure ==
    ASSUME AInv, NEW t \in Threads, PlainFails(t)
    PROVE  AInv'
  <1>1. /\ client = "plain" /\ client' = client
        /\ \/ pc[t] = "send" /\ ~up
           \/ pc[t] \in {"recv", "misread"} /\ toClient = <<>>
        /\ Report(t, Outcome("transport", "")) /\ Goto(t, "ended")
        /\ late' = (late \/ up) /\ toServer' = toServer /\ toClient' = toClient
    BY DEF PlainFails, user, wires
  <1>2. IInv' /\ Goes(t)
    BY PlainFailsInv DEF AInv
  <1>3. CASE late'
    BY <1>1, <1>2, <1>3, LateSure
  <1>4. CASE ~late'
    <2>1. ~late /\ ~up
      BY <1>1, <1>4
    <2>2. toServer = <<>>
      BY <2>1 DEF AInv, Down
    <2>3. toClient = <<>>
      <3>1. ASSUME pc[t] = "send" PROVE In(toClient) = {}
        <4>1. \A u \in Threads : pc[u] # "recv"
          BY <1>1, <3>1 DEF AInv, IInv, Modes, InCall
        <4> QED BY <1>1, <2>1, <4>1 DEF AInv, PlainWire
      <3>2. toClient \in Seq(Answers)
        BY DEF AInv, IInv, Typed
      <3> QED BY <1>1, <3>1, <3>2, Nothing
    <2>4. \A u \in Threads : pc'[u] # "misread"
      <3>1. \A u \in Threads : pc[u] # "misread"
        BY <1>1, <2>1 DEF AInv, PlainWire
      <3> QED BY <1>1, <3>1 DEF Goto, AInv, IInv, Typed
    <2>5. PlainWire'
      BY <1>1, <2>2, <2>3, <2>4, EmptyWire
    <2>6. Unanswered(t)
      <3>1. Outcome("transport", "").kind = "transport"
        BY DEF Outcome
      <3>2. outcome'[t] = Outcome("transport", "") /\ out' = out /\ earlier' = earlier
        BY <1>1 DEF Report, AInv, IInv, Typed
      <3> QED BY <2>1, <3>1, <3>2 DEF Unanswered
    <2>7. SoundAnswers'
      BY <1>2, <2>6, UnansweredSound
    <2> QED BY <1>1, <1>2, <2>5, <2>7, PlainExpected, GoesDown DEF AInv
  <1> QED BY <1>3, <1>4

LEMMA PlainRecvSure ==
    ASSUME AInv, NEW t \in Threads, PlainRecv(t)
    PROVE  AInv'
  <1> DEFINE msg == Head(toClient)
  <1>1. /\ client = "plain" /\ client' = client /\ pc[t] = "recv" /\ toClient # <<>>
        /\ IF msg.mtype = "exception"
           THEN Report(t, Outcome("exception", msg.body)) /\ Goto(t, "ended")
           ELSE IF Fits(t, msg)
           THEN ReportResult(t, StubOf(msg.name), msg.body) /\ Goto(t, "ended")
           ELSE Goto(t, "misread") /\ UNCHANGED <<out, outcome, earlier>>
        /\ toClient' = Tail(toClient) /\ toServer' = toServer /\ late' = late
    BY DEF PlainRecv, user
  <1>2. IInv' /\ Goes(t)
    BY PlainRecvInv DEF AInv
  <1>3. CASE late
    BY <1>1, <1>2, <1>3, LateSure
  <1>4. CASE ~late
    <2>1. /\ Len(toServer) + Len(toClient) <= 1
          /\ \A u \in Threads : pc[u] # "misread"
          /\ \A m \in In(toClient) :
                \E u \in Threads : pc[u] = "recv" /\ m = Dispatched(Req(call[u], seqid[u]))
      BY <1>1, <1>4 DEF AInv, PlainWire
    <2>2. toClient \in Seq(Answers) /\ toServer \in Seq(Requests)
      BY DEF AInv, IInv, Typed
    <2>3. msg \in In(toClient) /\ Len(toClient) >= 1 /\ Len(Tail(toClient)) = Len(toClient) - 1
          /\ Tail(toClient) \in Seq(Answers)
      BY <1>1, <2>2, Rest
    <2>4. msg = Dispatched(Req(call[t], seqid[t]))
      <3>1. PICK u \in Threads : pc[u] = "recv" /\ msg = Dispatched(Req(call[u], seqid[u]))
        BY <2>1, <2>3
      <3>2. u = t
        BY <1>1, <3>1 DEF AInv, IInv, Modes, InCall
      <3> QED BY <3>1, <3>2
    <2>5. call[t] \in Calls
      BY <1>1 DEF AInv, IInv, Typed, Settled, InCall
    <2>6. msg.name = call[t].method /\ msg.mtype \in {"reply", "exception"}
      BY <2>4, <2>5, AnswerFacts
    <2> HIDE DEF msg
    <2>7. /\ Goto(t, "ended")
          /\ \/ msg.mtype = "exception" /\ Report(t, Outcome("exception", msg.body))
             \/ msg.mtype = "reply" /\ ReportResult(t, StubOf(msg.name), msg.body)
      BY <1>1, <2>6 DEF Fits
    <2>8. SoundAnswers'
      BY <1>1, <1>2, <1>4, <2>4, <2>7, AnsweredSound
    <2>9. toServer = <<>> /\ Tail(toClient) = <<>>
      <3>1. Len(toServer) \in Nat /\ Len(toClient) \in Nat
        BY <2>2, LenProperties
      <3>2. Len(toServer) = 0 /\ Len(Tail(toClient)) = 0
        BY <2>1, <2>3, <3>1
      <3> QED BY <2>2, <2>3, <3>2, EmptySeq
    <2>10. \A u \in Threads : pc'[u] # "misread"
      BY <2>1, <2>7 DEF Goto, AInv, IInv, Typed
    <2>11. PlainWire'
      BY <1>1, <2>9, <2>10, EmptyWire
    <2> QED BY <1>1, <1>2, <2>8, <2>11, PlainExpected, GoesDown DEF AInv
  <1> QED BY <1>3, <1>4

LEMMA MisreadSure ==
    ASSUME AInv, NEW t \in Threads, Misread(t)
    PROVE  AInv'
  <1>1. pc[t] = "misread" /\ late' = late
    BY DEF Misread
  <1>2. IInv' /\ Goes(t)
    BY MisreadInv DEF AInv
  <1>3. client = "plain"
    BY <1>1 DEF AInv, IInv, Modes, Typed
  <1>4. late
    BY <1>1, <1>3 DEF AInv, PlainWire
  <1> QED BY <1>1, <1>2, <1>3, <1>4, LateSure

-----------------------------------------------------------------------------
\* The steps that do not end a call.
LEMMA OthersSound ==
    ASSUME AInv, late' = late, out' = out, earlier' = earlier,
           \A u \in Threads : \/ /\ call'[u] = call[u] /\ outcome'[u] = outcome[u]
                                 /\ pc'[u] = "ended" => pc[u] = "ended"
                              \/ pc'[u] # "ended" \/ outcome'[u].kind = "dead"
    PROVE  SoundAnswers'
  <1> SUFFICES ASSUME NEW u \in Threads PROVE Sound(u)'
    BY DEF SoundAnswers
  <1>1. Sound(u)
    BY DEF AInv, SoundAnswers
  <1>2. CASE pc'[u] # "ended" \/ outcome'[u].kind = "dead"
    BY <1>1, <1>2 DEF Sound, Answered
  <1>3. CASE /\ call'[u] = call[u] /\ outcome'[u] = outcome[u]
             /\ pc'[u] = "ended" => pc[u] = "ended"
    BY <1>1, <1>3, Undisturbed
  <1> QED BY <1>2, <1>3

LEMMA SendSure ==
    ASSUME AInv, NEW t \in Threads, Send(t)
    PROVE  AInv'
  <1> DEFINE m == Req(call[t], seqid[t])
  <1>1. /\ pc[t] = "send" /\ Goto(t, "recv")
        /\ toServer' = IF up THEN Append(toServer, m) ELSE toServer
        /\ UNCHANGED <<client, toClient, up, sync, call, seqid, out, outcome, earlier, late>>
    BY RequestIs DEF Send, user, Goto
  <1>2. IInv' /\ IInv
    BY SendInv DEF AInv
  <1>3. /\ pc'[t] = "recv" /\ \A u \in Threads : u # t => pc'[u] = pc[u]
    BY <1>1, <1>2, GotoFacts DEF IInv, Labels
  <1>4. InCall(t) /\ (\A u \in Threads : InCall(u)' <=> InCall(u))
        /\ (Listening' <=> Listening)
    BY <1>1, <1>3 DEF InCall, Listening
  <1>5. call[t] \in Calls /\ seqid[t] \in Nat
    BY <1>2, <1>4 DEF IInv, Settled, Typed
  <1>6. m \in Requests /\ m.seqid = seqid[t]
    BY <1>5, ReqFacts DEF Requests
  <1>7. toServer \in Seq(Requests) /\ toClient \in Seq(Answers)
    BY <1>2 DEF IInv, Typed
  <1> HIDE DEF m
  <1>8. In(toServer)' \subseteq In(toServer) \cup {m}
    BY <1>1, <1>6, <1>7, Appended
  <1>9. Apart'
    <2> SUFFICES ASSUME client = "concurrent" PROVE Apart'
      BY <1>1 DEF Apart
    <2>1. \A n \in In(toServer) \cup In(toClient) : n.seqid # m.seqid
      BY <1>1, <1>2, <1>4, <1>6 DEF IInv, Underway
    <2>2. Unique(toServer) /\ Unique(toClient)
          /\ \A n \in In(toServer) : \A o \in In(toClient) : n.seqid # o.seqid
      BY DEF AInv, Apart
    <2>3. Unique(Append(toServer, m))
      BY <1>6, <1>7, <2>1, <2>2, UniqueAppended
    <2>4. Unique(toServer')
      BY <1>1, <2>2, <2>3
    <2> QED BY <1>1, <1>8, <2>1, <2>2, <2>4 DEF Apart
  <1>10. Expected'
    BY <1>1, <1>4, <1>6, <1>8 DEF AInv, Expected
  <1>11. Down'
    BY <1>1 DEF AInv, Down
  <1>12. PlainWire'
    <2> SUFFICES ASSUME client = "plain", ~late PROVE PlainWire'
      BY <1>1 DEF PlainWire
    <2>1. \A u \in Threads : pc[u] # "recv"
      BY <1>1 DEF AInv, IInv, Modes, InCall
    <2>2. In(toServer) = {} /\ In(toClient) = {} /\ \A u \in Threads : pc[u] # "misread"
      BY <2>1 DEF AInv, PlainWire
    <2>3. toServer = <<>> /\ toClient = <<>> /\ Len(toServer) = 0 /\ Len(toClient) = 0
      BY <1>7, <2>2, Nothing
    <2>4. Len(toServer') + Len(toClient') <= 1
      BY <1>1, <1>6, <1>7, <2>3, Appended
    <2>5. \A u \in Threads : pc'[u] # "misread"
      BY <1>3, <2>2
    <2>6. \A n \in In(toServer)' : n = Req(call[t], seqid[t])
      BY <1>8, <2>2 DEF m
    <2> QED BY <1>1, <1>3, <2>2, <2>4, <2>5, <2>6 DEF PlainWire
  <1>13. SoundAnswers'
    BY <1>1, <1>3, OthersSound
  <1> QED BY <1>2, <1>9, <1>10, <1>11, <1>12, <1>13 DEF AInv

LEMMA CalledSure ==
    ASSUME AInv, NEW t \in Threads, NEW c, NEW id, NEW label \in {"send", "ended"}, NEW o,
           label = "ended" => o.kind = "dead",
           Called(t, c, id, label, o), IInv',
           sync'.stop = sync.stop, sync.monitors \subseteq sync'.monitors,
           client = "concurrent" /\ label = "send" => id \in sync'.monitors
    PROVE  AInv'
  <1>1. /\ client = "plain" => \A u \in Threads : pc[u] = "ended"
        /\ call' = [call EXCEPT ![t] = c] /\ seqid' = [seqid EXCEPT ![t] = id]
        /\ pc' = [pc EXCEPT ![t] = label] /\ outcome' = [outcome EXCEPT ![t] = o]
        /\ UNCHANGED <<client, toServer, toClient, up, out, earlier, late>>
    BY DEF Called, user, wires
  <1>2. /\ DOMAIN pc = Threads /\ DOMAIN call = Threads /\ DOMAIN seqid = Threads
        /\ DOMAIN outcome = Threads
        /\ toServer \in Seq(Requests) /\ toClient \in Seq(Answers)
    BY DEF AInv, IInv, Typed
  <1>3. /\ pc'[t] = label /\ seqid'[t] = id /\ outcome'[t] = o
        /\ \A u \in Threads : u # t => /\ pc'[u] = pc[u] /\ call'[u] = call[u]
                                       /\ seqid'[u] = seqid[u] /\ outcome'[u] = outcome[u]
    BY <1>1, <1>2
  <1>4. Apart' /\ Down'
    BY <1>1 DEF AInv, Apart, Down
  <1>5. Listening' => Listening
    BY <1>3 DEF Listening
  <1>6. Expected'
    <2> SUFFICES ASSUME client = "concurrent"
                 PROVE  /\ \A u \in Threads : InCall(u)' => seqid'[u] \in sync'.monitors
                        /\ Listening' => \A m \in In(toServer) \cup In(toClient) :
                                            m.seqid \in sync'.monitors
      BY <1>1 DEF Expected
    <2> QED BY <1>3, <1>5 DEF AInv, Expected, InCall
  <1>7. PlainWire'
    <2> SUFFICES ASSUME client = "plain", ~late PROVE PlainWire'
      BY <1>1 DEF PlainWire
    <2>1. \A u \in Threads : pc[u] = "ended"
      BY <1>1
    <2>2. In(toServer) = {} /\ In(toClient) = {}
      BY <2>1 DEF AInv, PlainWire
    <2>3. toServer = <<>> /\ toClient = <<>>
      BY <1>2, <2>2, Nothing
    <2>4. \A u \in Threads : pc'[u] # "misread"
      BY <1>3, <2>1
    <2> QED BY <1>1, <2>3, <2>4, EmptyWire
  <1>8. SoundAnswers'
    BY <1>1, <1>3, OthersSound
  <1> QED BY <1>4, <1>6, <1>7, <1>8 DEF AInv

LEMMA PlainCallSure ==
    ASSUME AInv, NEW t \in Threads, NEW c \in program[t], PlainCall(t, c)
    PROVE  AInv'
  <1>1. client = "plain" /\ Called(t, c, 0, "send", Pending) /\ sync' = sync
    BY DEF PlainCall
  <1>2. IInv'
    BY PlainCallInv DEF AInv
  <1> QED BY <1>1, <1>2, CalledSure

LEMMA ConcurrentCallSure ==
    ASSUME AInv, NEW t \in Threads, NEW c \in program[t], ConcurrentCall(t, c)
    PROVE  AInv'
  <1>1. IInv' /\ sync \in Sync
    BY ConcurrentCallInv DEF AInv, IInv, Typed
  <1>2. CASE sync.stop
    <2>1. Called(t, c, 0, "ended", Outcome("dead", "")) /\ sync' = sync
      BY <1>2 DEF ConcurrentCall
    <2>2. Outcome("dead", "").kind = "dead"
      BY DEF Outcome
    <2> QED BY <1>1, <2>1, <2>2, CalledSure
  <1>3. CASE ~sync.stop
    <2> DEFINE ids == sync.monitors \cup {sync.nextseqid}
    <2>1. /\ Called(t, c, sync.nextseqid, "send", Pending)
          /\ sync' = [sync EXCEPT !.nextseqid = @ + 1, !.monitors = ids]
      BY <1>3 DEF ConcurrentCall
    <2>2. sync.monitors \subseteq ids /\ sync.nextseqid \in ids
      OBVIOUS
    <2> HIDE DEF ids
    <2>3. sync'.monitors = ids /\ sync'.stop = sync.stop
      BY <1>1, <2>1 DEF Sync
    <2> QED BY <1>1, <2>1, <2>2, <2>3, CalledSure
  <1> QED BY <1>2, <1>3

LEMMA DispatchSure ==
    ASSUME AInv, dispatchCall
    PROVE  AInv'
  <1>1. PICK i \in DOMAIN toServer :
           /\ toServer' = Without(toServer, i)
           /\ toClient' = Append(toClient, Dispatched(toServer[i]))
    BY DEF dispatchCall
  <1>2. /\ up
        /\ UNCHANGED <<client, program, up, sync, reader, pc, call, seqid, made, out, outcome,
                       earlier, late>>
    BY DEF dispatchCall, user, locals
  <1> DEFINE r == toServer[i]
             a == Dispatched(r)
  <1>3. /\ toServer \in Seq(Requests) /\ toClient \in Seq(Answers)
        /\ i \in 1..Len(toServer)
    BY DEF AInv, IInv, Typed
  <1>4. /\ In(toServer)' \subseteq In(toServer) /\ r \in Requests /\ r \in In(toServer)
        /\ Len(toServer') = Len(toServer) - 1
    BY <1>1, <1>3, Removed
  <1>5. a \in Answers /\ a.seqid = r.seqid
    BY <1>4, MessageFacts, DispatchedFacts
  <1> HIDE DEF a
  <1>6. In(toClient)' = In(toClient) \cup {a} /\ Len(toClient') = Len(toClient) + 1
    BY <1>1, <1>3, <1>5, Appended DEF a
  <1>7. IInv'
    BY DispatchInv DEF AInv
  <1>8. Apart'
    <2> SUFFICES ASSUME client = "concurrent" PROVE Apart'
      BY <1>2 DEF Apart
    <2>1. Unique(toServer) /\ Unique(toClient)
          /\ \A n \in In(toServer) : \A o \in In(toClient) : n.seqid # o.seqid
      BY DEF AInv, Apart
    <2>2. Unique(toServer)' /\ \A n \in In(toServer)' : n.seqid # r.seqid
      BY <1>1, <1>3, <2>1, UniqueRemoved
    <2>3. \A o \in In(toClient) : o.seqid # a.seqid
      BY <1>4, <1>5, <2>1
    <2>4. Unique(Append(toClient, a))
      BY <1>3, <1>5, <2>1, <2>3, UniqueAppended
    <2>5. Unique(toClient)'
      BY <1>1, <2>4 DEF a
    <2> HIDE DEF r
    <2> QED BY <1>4, <1>5, <1>6, <2>1, <2>2, <2>5 DEF Apart
  <1>9. Expected'
    <2> HIDE DEF r
    <2> QED BY <1>2, <1>4, <1>5, <1>6 DEF AInv, Expected, Listening, InCall
  <1>10. Down'
    BY <1>2 DEF Down
  <1>11. PlainWire'
    <2> SUFFICES ASSUME client = "plain", ~late PROVE PlainWire'
      BY <1>2 DEF PlainWire
    <2>1. /\ Len(toServer) + Len(toClient) <= 1
          /\ \A t \in Threads : pc[t] # "misread"
          /\ \A m \in In(toServer) :
                \E t \in Threads : pc[t] = "recv" /\ m = Req(call[t], seqid[t])
          /\ \A m \in In(toClient) :
                \E t \in Threads : pc[t] = "recv" /\ m = Dispatched(Req(call[t], seqid[t]))
      BY DEF AInv, PlainWire
    <2>2. Len(toServer) \in Nat /\ Len(toClient) \in Nat
      BY <1>3, LenProperties
    <2>3. Len(toServer') + Len(toClient') <= 1
      BY <1>4, <1>6, <2>1, <2>2
    <2>4. \E t \in Threads : pc[t] = "recv" /\ a = Dispatched(Req(call[t], seqid[t]))
      BY <1>4, <2>1 DEF a
    <2> HIDE DEF r
    <2> QED BY <1>2, <1>4, <1>6, <2>1, <2>3, <2>4 DEF PlainWire
  <1>12. SoundAnswers'
    BY <1>2, OthersSound
  <1> QED BY <1>7, <1>8, <1>9, <1>10, <1>11, <1>12 DEF AInv

LEMMA BreakSure ==
    ASSUME AInv, Break
    PROVE  AInv'
  <1>1. PICK n \in (IF Held THEN 1 ELSE 0)..Len(toClient) : toClient' = SubSeq(toClient, 1, n)
    BY DEF Break
  <1>2. /\ toServer' = <<>> /\ up' = FALSE
        /\ UNCHANGED <<client, program, sync, reader, pc, call, seqid, made, out, outcome,
                       earlier, late>>
    BY DEF Break, user, locals
  <1>3. /\ toServer \in Seq(Requests) /\ toClient \in Seq(Answers)
        /\ Len(toClient) \in Nat /\ Len(toServer) \in Nat
    BY DEF AInv, IInv, Typed
  <1>4. n \in 0..Len(toClient)
    BY <1>3
  <1>5. In(toClient)' \subseteq In(toClient) /\ Len(toClient') <= Len(toClient)
        /\ Len(toClient') \in Nat
    BY <1>1, <1>3, <1>4, Cut
  <1>6. In(toServer)' = {} /\ Len(toServer') = 0 /\ Unique(toServer)'
    <2>1. <<>> \in Seq(Requests)
      BY EmptySeq
    <2>2. In(<<>>) = {} /\ Len(<<>>) = 0 /\ Unique(<<>>)
      BY <2>1, Nothing
    <2> QED BY <1>2, <2>2
  <1>7. IInv'
    BY BreakInv DEF AInv
  <1>8. Apart'
    <2> SUFFICES ASSUME client = "concurrent" PROVE Apart'
      BY <1>2 DEF Apart
    <2>1. Unique(SubSeq(toClient, 1, n))
      BY <1>3, <1>4, UniqueCut DEF AInv, Apart
    <2>2. Unique(toClient)'
      BY <1>1, <2>1
    <2> QED BY <1>6, <2>2 DEF Apart
  <1>9. Expected'
    BY <1>2, <1>5, <1>6 DEF AInv, Expected, Listening, InCall
  <1>10. Down'
    BY <1>2 DEF Down
  <1>11. PlainWire'
    <2> SUFFICES ASSUME client = "plain", ~late PROVE PlainWire'
      BY <1>2 DEF PlainWire
    <2>1. /\ Len(toServer) + Len(toClient) <= 1
          /\ \A t \in Threads : pc[t] # "misread"
          /\ \A m \in In(toClient) :
                \E t \in Threads : pc[t] = "recv" /\ m = Dispatched(Req(call[t], seqid[t]))
      BY DEF AInv, PlainWire
    <2>2. Len(toServer') + Len(toClient') <= 1
      BY <1>3, <1>5, <1>6, <2>1
    <2> QED BY <1>2, <1>5, <1>6, <2>1, <2>2 DEF PlainWire
  <1>12. SoundAnswers'
    BY <1>2, OthersSound
  <1> QED BY <1>7, <1>8, <1>9, <1>10, <1>11, <1>12 DEF AInv

LEMMA InitSure == Init => AInv
  <1> SUFFICES ASSUME Init PROVE AInv
    OBVIOUS
  <1>1. toServer = <<>> /\ toClient = <<>> /\ up
        /\ \A t \in Threads : pc[t] = "ended" /\ call[t] = NoCall
    BY DEF Init
  <1>2. <<>> \in Seq(Requests)
    BY EmptySeq
  <1>3. In(<<>>) = {} /\ Len(<<>>) = 0 /\ Unique(<<>>)
    BY <1>2, Nothing
  <1>4. Apart /\ Expected /\ PlainWire /\ Down
    BY <1>1, <1>3 DEF Apart, Expected, PlainWire, Down, InCall
  <1>5. SoundAnswers
    <2> SUFFICES ASSUME NEW t \in Threads PROVE Sound(t)
      BY DEF SoundAnswers
    <2>1. New(bbip_result).isset = {}
      BY DEF New
    <2>2. out[t].isset = {} /\ earlier[t] = {}
      BY <2>1 DEF Init
    <2> QED BY <1>1, <2>2 DEF Sound, Answered
  <1> QED BY <1>4, <1>5, InitInv DEF AInv

LEMMA StutterSure == AInv /\ UNCHANGED vars => AInv'
  <1> SUFFICES ASSUME AInv, UNCHANGED vars PROVE AInv'
    OBVIOUS
  <1>1. UNCHANGED <<client, toServer, toClient, up, sync, pc, call, seqid, out, outcome, late,
                    earlier>>
    BY DEF vars, user, wires, locals
  <1>2. IInv'
    BY StutterInv DEF AInv
  <1>3. (Apart /\ Expected /\ PlainWire /\ Down)'
    BY <1>1 DEF AInv, Apart, Expected, PlainWire, Down, Listening, InCall
  <1>4. SoundAnswers'
    BY <1>1, OthersSound
  <1> QED BY <1>2, <1>3, <1>4 DEF AInv

LEMMA NextSure == AInv /\ [Next]_vars => AInv'
  <1> SUFFICES ASSUME AInv, Next PROVE AInv'
    BY StutterSure
  <1>1. ASSUME NEW t \in Threads, NEW c \in program[t], PlainCall(t, c) \/ ConcurrentCall(t, c)
        PROVE  AInv'
    BY <1>1, PlainCallSure, ConcurrentCallSure
  <1>2. ASSUME NEW t \in Threads, Step(t) PROVE AInv'
    BY <1>2, SendSure, PlainRecvSure, MisreadSure, LockSure, GetPendingSure, ReadHeaderSure,
       RecvOwnSure, HandOverSure, WokenSure DEF Step, PlainStep, ConcurrentStep
  <1>3. ASSUME NEW t \in Threads, Fails(t) PROVE AInv'
    BY <1>3, PlainFailsSure, SendFailsSure, ReadFailsSure DEF Fails
  <1> QED BY <1>1, <1>2, <1>3, DispatchSure, BreakSure DEF Next

LEMMA Sureness == Spec => []AInv
  BY InitSure, NextSure, PTL DEF Spec

\* A call that ends with an answer has its own: whatever the other threads do,
\* in whatever order the server answers, and when the connection breaks, unless a
\* plain client has gone on after giving up on an answer.
THEOREM AnswersAreOwn == Spec => []OwnAnswer
  <1>1. AInv => OwnAnswer
    <2> SUFFICES ASSUME AInv, NEW t \in Threads, Answered(t)
                 PROVE  /\ outcome[t].kind = Own(call[t]).kind
                        /\ \/ ReturnsStruct(call[t]) /\ outcome[t].kind = "return"
                           \/ outcome[t].value = Own(call[t]).value
      BY DEF OwnAnswer
    <2>1. Agrees(call[t], outcome[t])
      BY DEF AInv, SoundAnswers, Sound, Rightly, Answered
    <2> QED BY <2>1, StructuredIs DEF Agrees
  <1> QED BY <1>1, Sureness, PTL

\* After an answer the object a caller passed holds the answer's record, and of
\* earlier answers nothing but the coordinates this record does not have.
THEOREM OnlyOptionalKept == Spec => []KeepsOnlyOptional
  <1>1. AInv => KeepsOnlyOptional
    <2> SUFFICES ASSUME AInv, NEW t \in Threads,
                        Answered(t), ReturnsStruct(call[t]), outcome[t].kind = "return"
                 PROVE  LET own == Own(call[t]).value
                        IN  /\ \A f \in DOMAIN bbip_result :
                                  f \notin LatLng \/ f \in own.isset => out[t].val[f] = own.val[f]
                            /\ out[t].isset \cap LatLng = own.isset \cup earlier[t]
      BY DEF KeepsOnlyOptional
    <2> DEFINE own == Own(call[t]).value
    <2>1. Structured(call[t])
      BY StructuredIs
    <2>2. out[t].isset \cap LatLng = earlier[t] /\ Rightly(t)
      BY DEF AInv, SoundAnswers, Sound, Answered
    <2>3. /\ \A f \in DOMAIN bbip_result :
                f \notin LatLng \/ f \in own.isset => out[t].val[f] = own.val[f]
          /\ own.isset \subseteq earlier[t]
      BY <2>1, <2>2 DEF Rightly
    <2> HIDE DEF own
    <2>4. out[t].isset \cap LatLng = own.isset \cup earlier[t]
      BY <2>2, <2>3
    <2> QED BY <2>3, <2>4 DEF own
  <1> QED BY <1>1, Sureness, PTL
=============================================================================
