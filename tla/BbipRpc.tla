------------------------------- MODULE BbipRpc -------------------------------
(***************************************************************************)
(* Calls over one connection (the second half of bbip.cpp): client threads *)
(* that use either one bbipClient, one call after the other, or one        *)
(* bbipConcurrentClient at the same time; and the connection's server      *)
(* thread with a bbipProcessor.                                            *)
(*                                                                         *)
(* The generated code repeats two patterns for every method; they are      *)
(* written once, and what a method puts into them is a record of its own:  *)
(* the structs it sends and expects, and the fields of the result it tests *)
(* before it gives up with MISSING_RESULT.                                 *)
(*                                                                         *)
(* The concurrent client's threads take turns in reading.  A reader that   *)
(* finds a header that is not its own leaves it as "pending", wakes the    *)
(* thread it belongs to and waits; that thread reads the rest of the       *)
(* message.  The helpers for this, TConcurrentClientSyncInfo and its       *)
(* sentries, are part of the thrift library and modelled from their use.   *)
(***************************************************************************)
EXTENDS BbipTypes, Sequences, FiniteSets

CONSTANTS Threads,      \* the client's threads
          Programs,     \* what the threads may be: for each the calls it makes
          MaxCalls,     \* bound: how many calls are made
          Ahead,        \* how far ahead in its queue a server may look
          Handler(_, _) \* what the handler does with a method's arguments

ASSUME ProgramsAssumption ==
    Programs \subseteq [Threads -> SUBSET [method : STRING, arg : STRING]]
ASSUME MaxCallsAssumption == MaxCalls \in Nat
ASSUME AheadAssumption == Ahead \in Nat \ {0}

VARIABLES
    client,    \* "plain" or "concurrent"
    program,   \* the calls the threads make
    toServer, toClient,  \* the messages under way
    up,        \* the connection has not broken
    sync,      \* the concurrent client's sync_: see NewSync
    reader,    \* the thread that holds the read mutex
    pc, call, seqid,  \* per thread: where it is, its last call and that one's number
    made,      \* how many calls were made
    out,       \* per thread: the bbip_result object it passes to its calls
    outcome,   \* per thread: how its call ended
    late,      \* history: a call has given up waiting for its answer
    earlier    \* history: the optional fields answers have put into out

wires == <<toServer, toClient, up>>
user == <<client, program>>
locals == <<pc, call, seqid, made, out, outcome, earlier>>
vars == <<user, wires, sync, reader, locals, late>>

None == "none"
NoHeader == [name |-> None, mtype |-> None, seqid |-> 0]
NoCall == [method |-> None, arg |-> None]
Pending == [kind |-> "pending", value |-> ""]

\* No thread and no call has the name that stands for none.
ASSUME ThreadsAssumption == None \notin Threads
ASSUME CallsAssumption == \A p \in Programs, t \in Threads : NoCall \notin p[t]

NewSync == [nextseqid |-> 0, monitors |-> {}, stop |-> FALSE, wakeupSomeone |-> FALSE,
            pending |-> NoHeader]

Init ==
    /\ client \in {"plain", "concurrent"}
    /\ program \in Programs
    /\ toServer = <<>> /\ toClient = <<>>
    /\ up = TRUE
    /\ sync = NewSync
    /\ reader = None
    /\ pc = [t \in Threads |-> "ended"]
    /\ call = [t \in Threads |-> NoCall]
    /\ seqid = [t \in Threads |-> 0]
    /\ made = 0
    /\ out = [t \in Threads |-> New(bbip_result)]
    /\ outcome = [t \in Threads |-> Pending]
    /\ late = FALSE
    /\ earlier = [t \in Threads |-> {}]

-----------------------------------------------------------------------------
\* The processor.  catches: process_* has a catch for InvalidOperation.
process_ping ==
    [args |-> ping_args, result |-> ping_result, catches |-> FALSE]
process_count ==
    [args |-> count_args, result |-> count_result, catches |-> FALSE]
process_query ==
    [args |-> query_args, result |-> query_result, catches |-> TRUE]
process_query_string ==
    [args |-> query_string_args, result |-> query_string_result, catches |-> TRUE]
process_GetAreaFlag ==
    [args |-> GetAreaFlag_args, result |-> GetAreaFlag_result, catches |-> TRUE]
process_GetZoneID ==
    [args |-> GetZoneID_args, result |-> GetZoneID_result, catches |-> TRUE]
process_query_long ==
    [args |-> query_long_args, result |-> query_long_result, catches |-> TRUE]

processMap_ ==
    [ping |-> process_ping, count |-> process_count, query |-> process_query,
     query_string |-> process_query_string, GetAreaFlag |-> process_GetAreaFlag,
     GetZoneID |-> process_GetZoneID, query_long |-> process_query_long]

Message(name, mtype, id, body) ==
    [name |-> name, mtype |-> mtype, seqid |-> id, body |-> body]

\* process_*: read the arguments, call the handler, answer under the same seqid.
Process(msg) ==
    LET p == processMap_[msg.name]
        done == Handler(msg.name, ReadFlat(p.args, msg.body, Flat(p.args)).val)
        Reply(field) ==
            Message(msg.name, "reply", msg.seqid,
                    WriteResult(p.result, With(New(p.result), field, done.value)))
    IN  CASE done.kind = "return" -> Reply(success)
          [] done.kind = "throw" /\ p.catches -> Reply(ouch)
          [] OTHER -> Message(msg.name, "exception", msg.seqid, "what")

\* Mutant: the answer to an unknown name repeats the message type of the call.
DispatchedSameType(msg) ==
    IF msg.name \in DOMAIN processMap_ THEN Process(msg)
    ELSE Message(msg.name, msg.mtype, msg.seqid, "UNKNOWN_METHOD")

\* A name that is not in the map is answered with an exception.
Dispatched(msg) ==
    IF msg.name \in DOMAIN processMap_ THEN Process(msg)
    ELSE Message(msg.name, "exception", msg.seqid, "UNKNOWN_METHOD")

Without(s, i) == SubSeq(s, 1, i - 1) \o SubSeq(s, i + 1, Len(s))

\* A bbipProcessor takes the messages in order; only a server that looks ahead
\* answers out of order.
dispatchCall ==
    /\ up
    /\ \E i \in DOMAIN toServer :
          /\ i <= Ahead
          /\ toServer' = Without(toServer, i)
          /\ toClient' = Append(toClient, Dispatched(toServer[i]))
    /\ UNCHANGED <<user, up, sync, reader, locals, late>>

\* The connection breaks: what has not arrived is gone.  A message whose header
\* was read is in the frame buffer.
Held == \/ sync.pending # NoHeader
        \/ \E t \in Threads : pc[t] = "compare"

Break ==
    /\ up
    /\ up' = FALSE
    /\ toServer' = <<>>
    /\ \E n \in (IF Held THEN 1 ELSE 0)..Len(toClient) : toClient' = SubSeq(toClient, 1, n)
    /\ UNCHANGED <<user, sync, reader, locals, late>>

-----------------------------------------------------------------------------
\* The clients.  tested: the fields of the result that recv_* looks at.
Stub(args, result, tested) == [args |-> args, result |-> result, tested |-> tested]

bbipClient_ping == Stub(ping_args, ping_result, {})
bbipClient_count == Stub(count_args, count_result, {success})
bbipClient_query == Stub(query_args, query_result, {success, ouch})
bbipClient_query_string == Stub(query_string_args, query_string_result, {success, ouch})
bbipClient_GetAreaFlag == Stub(GetAreaFlag_args, GetAreaFlag_result, {success, ouch})
bbipClient_GetZoneID == Stub(GetZoneID_args, GetZoneID_result, {success, ouch})
bbipClient_query_long == Stub(query_long_args, query_long_result, {success, ouch})

bbipClient ==
    [ping |-> bbipClient_ping, count |-> bbipClient_count, query |-> bbipClient_query,
     query_string |-> bbipClient_query_string, GetAreaFlag |-> bbipClient_GetAreaFlag,
     GetZoneID |-> bbipClient_GetZoneID, query_long |-> bbipClient_query_long]

Concurrent_ping == Stub(ping_args, ping_result, {})
Concurrent_count == Stub(count_args, count_result, {success})
Concurrent_query == Stub(query_args, query_result, {success, ouch})
Concurrent_query_string == Stub(query_string_args, query_string_result, {success, ouch})
Concurrent_GetAreaFlag == Stub(GetAreaFlag_args, GetAreaFlag_result, {success, ouch})
Concurrent_GetZoneID == Stub(GetZoneID_args, GetZoneID_result, {success, ouch})
Concurrent_query_long == Stub(query_long_args, query_long_result, {success, ouch})

bbipConcurrentClient ==
    [ping |-> Concurrent_ping, count |-> Concurrent_count, query |-> Concurrent_query,
     query_string |-> Concurrent_query_string, GetAreaFlag |-> Concurrent_GetAreaFlag,
     GetZoneID |-> Concurrent_GetZoneID, query_long |-> Concurrent_query_long]

\* A client of another service on the same connection, as in client.php.
OtherService == Stub(<<>>, OnlySuccess(Optional("string")), {success})

StubOf(name) ==
    IF name \notin DOMAIN bbipClient THEN OtherService
    ELSE IF client = "plain" THEN bbipClient[name] ELSE bbipConcurrentClient[name]

HasStruct(fields) == success \in DOMAIN fields /\ fields[success].type = "struct"

\* What recv_* makes of a reply: the result object reads into the caller's own
\* object when success is a struct.
Result(t, stub, body) ==
    LET fresh == New(stub.result)
    IN  ReadResult(stub.result, body,
                   IF HasStruct(stub.result) THEN [fresh EXCEPT !.val[success] = out[t]]
                   ELSE fresh)

Outcome(kind, value) == [kind |-> kind, value |-> value]

\* How recv_* ends with a result.
Tested(stub, result) ==
    CASE stub.tested = {} -> Outcome("return", "")
      [] success \in stub.tested \cap result.isset ->
            Outcome("return", IF HasStruct(stub.result) THEN "" ELSE result.val[success])
      [] stub.tested \cap result.isset = {ouch} -> Outcome("ouch", result.val[ouch].val)
      [] OTHER -> Outcome("missing", "")

\* The call of thread t ends without a result.
Report(t, o) ==
    /\ outcome' = [outcome EXCEPT ![t] = o]
    /\ UNCHANGED <<out, earlier>>

\* The call of thread t ends with a result.
ReportResult(t, stub, body) ==
    LET result == Result(t, stub, body)
        filled == HasStruct(stub.result) /\ success \in result.isset
    IN  /\ outcome' = [outcome EXCEPT ![t] = Tested(stub, result)]
        /\ out' = IF filled THEN [out EXCEPT ![t] = result.val[success]] ELSE out
        /\ earlier' = IF filled
                      THEN [earlier EXCEPT ![t] = @ \cup (LatLng \cap DOMAIN body[success].value)]
                      ELSE earlier

Goto(t, label) == pc' = [pc EXCEPT ![t] = label]

Arguments(stub, arg) ==
    WriteFlat(stub.args, [val |-> [f \in DOMAIN stub.args |-> arg], isset |-> {}])

Request(t) == Message(call[t].method, "call", seqid[t],
                      Arguments(StubOf(call[t].method), call[t].arg))

\* A new call of thread t.  The users of a plain client take turns.
Called(t, c, id, label, o) ==
    /\ pc[t] = "ended" /\ made < MaxCalls /\ c \in program[t]
    /\ client = "plain" => \A u \in Threads : pc[u] = "ended"
    /\ call' = [call EXCEPT ![t] = c]
    /\ seqid' = [seqid EXCEPT ![t] = id]
    /\ made' = made + 1
    /\ pc' = [pc EXCEPT ![t] = label]
    /\ outcome' = [outcome EXCEPT ![t] = o]
    /\ UNCHANGED <<user, wires, reader, out, earlier, late>>

PlainCall(t, c) ==
    /\ client = "plain"
    /\ Called(t, c, 0, "send", Pending)
    /\ UNCHANGED sync

\* A message written to a broken connection may be lost without an error.
Send(t) ==
    /\ pc[t] = "send"
    /\ toServer' = IF up THEN Append(toServer, Request(t)) ELSE toServer
    /\ pc' = [pc EXCEPT ![t] = "recv"]
    /\ UNCHANGED <<user, toClient, up, sync, reader, call, seqid, made, out, outcome,
                   earlier, late>>

\* The transport's exception while a plain client sends or waits: broken or timed out.
PlainFails(t) ==
    /\ client = "plain"
    /\ \/ pc[t] = "send" /\ ~up
       \/ pc[t] \in {"recv", "misread"} /\ toClient = <<>>
    /\ Report(t, Outcome("transport", ""))
    /\ Goto(t, "ended")
    /\ late' = (late \/ up)
    /\ UNCHANGED <<user, wires, sync, reader, call, seqid, made>>

\* A reply to the method that was called; rseqid is not looked at.
Fits(t, msg) == msg.mtype = "reply" /\ msg.name = call[t].method

\* recv_* of the plain client.  A message that is not for this method is
\* skipped, and the result is then read from what comes next.
PlainRecv(t) ==
    /\ client = "plain" /\ pc[t] = "recv" /\ toClient # <<>>
    /\ LET msg == Head(toClient)
       IN  IF msg.mtype = "exception"
           THEN Report(t, Outcome("exception", msg.body)) /\ Goto(t, "ended")
           ELSE IF Fits(t, msg)
           THEN ReportResult(t, StubOf(msg.name), msg.body) /\ Goto(t, "ended")
           ELSE Goto(t, "misread") /\ UNCHANGED <<out, outcome, earlier>>
    /\ toClient' = Tail(toClient)
    /\ UNCHANGED <<user, toServer, up, sync, reader, call, seqid, made, late>>

\* The bytes of a whole message taken for a result: no result comes of it.
Misread(t) ==
    /\ pc[t] = "misread" /\ toClient # <<>>
    /\ toClient' = Tail(toClient)
    /\ Report(t, Outcome("missing", ""))
    /\ Goto(t, "ended")
    /\ UNCHANGED <<user, toServer, up, sync, reader, call, seqid, made, late>>

-----------------------------------------------------------------------------
\* The threads that wait on the monitors of the given seqids are woken.
Notify(ids, pcs) ==
    [t \in Threads |-> IF pcs[t] = "wait" /\ seqid[t] \in ids THEN "woken" ELSE pcs[t]]

\* generateSeqId throws on a client that is dead.
ConcurrentCall(t, c) ==
    /\ client = "concurrent"
    /\ IF sync.stop
       THEN /\ Called(t, c, 0, "ended", Outcome("dead", ""))
            /\ UNCHANGED sync
       ELSE /\ Called(t, c, sync.nextseqid, "send", Pending)
            /\ sync' = [sync EXCEPT !.nextseqid = @ + 1,
                                    !.monitors = @ \cup {sync.nextseqid}]

\* markBad_: nobody uses this connection any more.
Bad(s) == [s EXCEPT !.stop = TRUE, !.wakeupSomeone = TRUE]

\* The send sentry was not committed.
SendFails(t) ==
    /\ client = "concurrent" /\ pc[t] = "send" /\ ~up
    /\ sync' = Bad(sync)
    /\ pc' = [Notify(sync.monitors, pc) EXCEPT ![t] = "ended"]
    /\ outcome' = [outcome EXCEPT ![t] = Outcome("transport", "")]
    /\ UNCHANGED <<user, wires, reader, call, seqid, made, out, earlier, late>>

\* The receive sentry takes the read mutex.
Lock(t) ==
    /\ client = "concurrent" /\ pc[t] = "recv" /\ reader = None
    /\ reader' = t
    /\ pc' = [pc EXCEPT ![t] = "pick"]
    /\ UNCHANGED <<user, wires, sync, call, seqid, made, out, outcome, earlier, late>>

\* Mutant: the thread with the most recent call is not woken.
WakesNobody(t, rest) == {}

\* wakeupAnyone_: the thread with the most recent call is woken.
WakesLast(t, rest) == {i \in rest : \A j \in rest : j <= i}

\* The destructor of the receive sentry, as thread t's call ends.
Leave(t, s, committed) ==
    LET rest == s.monitors \ {seqid[t]}
        left == [s EXCEPT !.monitors = rest]
    IN  /\ sync' = IF committed THEN [left EXCEPT !.wakeupSomeone = TRUE] ELSE Bad(left)
        /\ pc' = [Notify(IF committed THEN WakesLast(t, rest) ELSE rest, pc)
                     EXCEPT ![t] = "ended"]
        /\ reader' = None
        /\ UNCHANGED <<user, call, seqid, made, late>>

\* getPending: a header that was left for somebody is taken by whoever comes.
GetPending(t) ==
    /\ pc[t] = "pick"
    /\ IF sync.stop
       THEN Report(t, Outcome("dead", "")) /\ Leave(t, sync, FALSE)
       ELSE /\ sync' = [sync EXCEPT !.wakeupSomeone = FALSE, !.pending = NoHeader]
            /\ Goto(t, IF sync.pending # NoHeader THEN "compare" ELSE "read")
            /\ UNCHANGED <<user, reader, call, seqid, made, out, outcome, earlier, late>>
    /\ UNCHANGED wires

\* readMessageBegin.
ReadHeader(t) ==
    /\ pc[t] = "read" /\ toClient # <<>>
    /\ Goto(t, "compare")
    /\ UNCHANGED <<user, wires, sync, reader, call, seqid, made, out, outcome, earlier,
                   late>>

ReadFails(t) ==
    /\ pc[t] = "read" /\ toClient = <<>>
    /\ Report(t, Outcome("transport", ""))
    /\ Leave(t, sync, FALSE)
    /\ UNCHANGED wires

\* The outcomes before which recv_* commits its sentry.
Commits(o) == o.kind \in {"return", "ouch", "exception"}

\* Mutant: the message is recognised by the method's name.
MineByName(t, msg) == msg.name = call[t].method

Mine(t, msg) == msg.seqid = seqid[t]

\* The header is this call's: the rest of the message is read.  (A message that is
\* neither a reply nor an exception, which no server here sends, is left out.)
RecvOwn(t) ==
    /\ pc[t] = "compare"
    /\ LET msg == Head(toClient)
       IN  /\ Mine(t, msg)
           /\ IF msg.mtype = "exception" THEN Report(t, Outcome("exception", msg.body))
              ELSE IF msg.name # call[t].method THEN Report(t, Outcome("invalid", ""))
              ELSE ReportResult(t, StubOf(msg.name), msg.body)
    /\ Leave(t, sync, Commits(outcome'[t]))
    /\ toClient' = Tail(toClient)
    /\ UNCHANGED <<toServer, up>>

\* Mutant: the thread does not look for a header that was left for it.
NoLookAtPending(t, s) == s.wakeupSomeone

\* What ends the wait of thread t.
HasWork(t, s) == s.wakeupSomeone \/ (s.pending # NoHeader /\ s.pending.seqid = seqid[t])

\* waitForWork: on with the loop of recv_*, or to sleep without the mutex.
WaitForWork(t, s, pcs) ==
    IF s.stop
    THEN Report(t, Outcome("dead", "")) /\ Leave(t, s, FALSE)
    ELSE /\ sync' = s
         /\ pc' = [pcs EXCEPT ![t] = IF HasWork(t, s) THEN "pick" ELSE "wait"]
         /\ reader' = IF HasWork(t, s) THEN t ELSE None
         /\ UNCHANGED <<user, call, seqid, made, out, outcome, earlier, late>>

\* The header is another call's: it is left as pending, its thread is woken
\* (updatePending), and this one waits for work.
HandOver(t) ==
    /\ pc[t] = "compare"
    /\ LET msg == Head(toClient)
           left == [sync EXCEPT !.pending = [name |-> msg.name, mtype |-> msg.mtype,
                                             seqid |-> msg.seqid]]
       IN  /\ ~Mine(t, msg)
           /\ IF msg.seqid \in sync.monitors
              THEN WaitForWork(t, left, Notify({msg.seqid}, pc))
              ELSE Report(t, Outcome("invalid", "")) /\ Leave(t, left, FALSE)
    /\ UNCHANGED wires

\* A thread that was woken gets the mutex back and looks again.
Woken(t) ==
    /\ pc[t] = "woken" /\ reader = None
    /\ WaitForWork(t, sync, pc)
    /\ UNCHANGED wires

-----------------------------------------------------------------------------
PlainStep(t) == PlainRecv(t) \/ Misread(t)
ConcurrentStep(t) ==
    \/ Lock(t) \/ GetPending(t) \/ ReadHeader(t)
    \/ RecvOwn(t) \/ HandOver(t) \/ Woken(t)

Step(t) == Send(t) \/ PlainStep(t) \/ ConcurrentStep(t)

\* What happens to a thread whose connection is broken or slow.
Fails(t) == PlainFails(t) \/ SendFails(t) \/ ReadFails(t)

Next ==
    \/ \E t \in Threads :
          \/ \E c \in program[t] : PlainCall(t, c) \/ ConcurrentCall(t, c)
          \/ Step(t)
          \/ Fails(t)
    \/ dispatchCall
    \/ Break

\* Threads run, a broken connection is noticed, and the server serves.
Fairness ==
    /\ \A t \in Threads : WF_vars(Step(t) \/ (~up /\ Fails(t)))
    /\ WF_vars(dispatchCall)

Spec == Init /\ [][Next]_vars /\ Fairness
-----------------------------------------------------------------------------
Labels == {"ended", "send", "recv", "misread", "pick", "read", "compare", "wait", "woken"}
Outcomes == {"pending", "return", "ouch", "exception", "missing", "invalid", "transport", "dead"}

TypeOK ==
    /\ client \in {"plain", "concurrent"}
    /\ up \in BOOLEAN /\ late \in BOOLEAN
    /\ \A i \in DOMAIN toServer : toServer[i].mtype = "call"
    /\ \A i \in DOMAIN toClient : toClient[i].mtype \in {"reply", "exception"}
    /\ sync.nextseqid \in Nat /\ sync.monitors \subseteq 0..sync.nextseqid
    /\ reader \in Threads \cup {None}
    /\ made \in 0..MaxCalls
    /\ \A t \in Threads :
          /\ pc[t] \in Labels
          /\ outcome[t].kind \in Outcomes
          /\ outcome[t] = Pending <=> pc[t] # "ended" \/ call[t] = NoCall
          /\ pc[t] \in {"pick", "read", "compare"} <=> reader = t

\* At most one header has been read without the rest of its message.  While it
\* is left as pending, nobody reads on, its bytes are next in the stream, and the
\* thread it belongs to is on its way to them: not asleep, not gone
\* (updatePending and getPending, as the concurrent recv_* use them).
PendingIsNext ==
    /\ Cardinality({t \in Threads : pc[t] \in {"read", "compare"}}) <= 1
    /\ sync.pending # NoHeader /\ ~sync.stop =>
          /\ \A t \in Threads : pc[t] \notin {"read", "compare"}
          /\ toClient # <<>> /\ Head(toClient).seqid = sync.pending.seqid
          /\ \E t \in Threads : /\ seqid[t] = sync.pending.seqid
                                /\ pc[t] \in {"recv", "woken", "pick"}

\* What is taken of a handler: it returns or throws what bbip.thrift declares for
\* the method, and a record's __isset has no bits but those of lat and lng, as
\* bbip_server.cpp:405-445 fills it.
IsObject(fields, obj) == obj.val = [f \in DOMAIN fields |-> obj.val[f]]
Declared(result, v) ==
    /\ success \notin DOMAIN result => v = ""
    /\ HasStruct(result) => IsObject(bbip_result, v) /\ v.isset \subseteq LatLng
ASSUME HandlerAssumption ==
    \A p \in Programs, t \in Threads : \A c \in p[t] : c.method \in DOMAIN processMap_ =>
        LET m == processMap_[c.method]
            done == Handler(c.method, [f \in DOMAIN m.args |-> c.arg])
        IN  /\ done.kind = "return" => Declared(m.result, done.value)
            /\ done.kind = "throw" => m.catches /\ IsObject(InvalidOperation, done.value)

\* What the handler has for a call.
Own(c) ==
    IF c.method \notin DOMAIN processMap_ THEN Outcome("exception", "UNKNOWN_METHOD")
    ELSE LET args == processMap_[c.method].args
             done == Handler(c.method, [f \in DOMAIN args |-> c.arg])
         IN  CASE done.kind = "return" -> Outcome("return", done.value)
               [] done.kind = "throw" -> Outcome("ouch", done.value.val)
               [] OTHER -> Outcome("exception", "what")

\* The call of thread t has ended otherwise than by the connection's failure, and
\* no plain client has given up on an answer before: the next call of the same
\* method would take that answer for its own, since rseqid is not looked at.
Answered(t) ==
    /\ call[t] # NoCall /\ pc[t] = "ended"
    /\ outcome[t].kind \notin {"transport", "dead"}
    /\ ~late

ReturnsStruct(c) == c.method \in DOMAIN processMap_ /\ HasStruct(StubOf(c.method).result)

\* A call that ends with an answer has the one its own handler gave: the value,
\* the declared exception or the failure, however the answers of other threads'
\* calls arrive between.
OwnAnswer ==
    \A t \in Threads : Answered(t) =>
        /\ outcome[t].kind = Own(call[t]).kind
        /\ \/ ReturnsStruct(call[t]) /\ outcome[t].kind = "return"
           \/ outcome[t].value = Own(call[t]).value

\* recv_query fills the object its caller passes.  After an answer every member
\* is the answer's, but for lat and lng: these are only sent when the record has
\* them, and an object that is used again keeps those of an earlier answer.
KeepsOnlyOptional ==
    \A t \in Threads :
        Answered(t) /\ ReturnsStruct(call[t]) /\ outcome[t].kind = "return" =>
            LET own == Own(call[t]).value
            IN  /\ \A f \in DOMAIN bbip_result :
                      f \notin LatLng \/ f \in own.isset => out[t].val[f] = own.val[f]
                /\ out[t].isset \cap LatLng = own.isset \cup earlier[t]

\* The calls come to an end, with an answer or with the connection's failure: no
\* thread of a concurrent client sleeps on while there is a message for it.
CallsEnd == []<>(\A t \in Threads : pc[t] = "ended")
=============================================================================
