------------------------------- MODULE Serving -------------------------------
(***************************************************************************)
(* The server's connections (server.rs, ipc.rs): the accept loop and its    *)
(* admissions, the hello exchange, the reader and writer tasks around the   *)
(* serve loop, the handlers, the teardown and the stop.                    *)
(*                                                                         *)
(* A frame crosses the stream in two parts.  What the broker behind the     *)
(* handlers decides is a choice: modules Authority and Engine have it.      *)
(***************************************************************************)
EXTENDS Messages

CONSTANTS
    Conn,           \* connections
    Slots,          \* MAX_CONNECTIONS
    SessionCap,     \* MAX_SESSIONS_PER_CONNECTION
    WireCap,        \* WIRE_QUEUE_CAPACITY
    EventCap,       \* EVENT_QUEUE_CAPACITY
    Hellos,         \* what peers ask for: min, max, kind and caps
    Requests,       \* what they send then: type, sid, action, sound
    MaxSent,        \* bound: requests of all peers
    MaxEvents,      \* bound: events of the broker
    MaxEpoch        \* bound: authority epochs

\* The markers of the model are no connection and no type of the wire.
ASSUME ServingAssumption ==
    /\ Slots \in Nat /\ SessionCap \in Nat /\ WireCap \in Nat /\ EventCap \in Nat
    /\ "nobody" \notin Conn
    /\ \A m \in Hellos \cup Requests : m.type \notin {"none", "ended", "bad", "eof"}

VARIABLES
    server, down,   \* the accept loop, then its stop; the broker shut down
    pc, terms,      \* each connection's task, and its hello
    peer,           \* "absent", "open", "stuck" (reads no more) or "left"
    stream, owing,  \* parts sent and not read; the frame whose body is not sent
    reader, inbox,  \* the frame whose head the reader task has; its channel
    request,        \* the request whose handler awaits the broker
    owned,          \* owned_sessions
    events, lost,   \* event_rx, and that connection_lifetime is cancelled
    wire, writer, got,      \* the writer's queue and task; what the peer has
    sessions,       \* the broker's sessions: each one's connection
    acked, news, epoch,     \* latest acknowledged epochs; authority_rx
    sent, emitted   \* counts of requests, and of each sink's events

listening == <<server, down>>
task == <<pc, terms>>
inbound == <<stream, owing, reader, inbox>>
outbound == <<wire, writer, got>>
broker == <<sessions, acked, news, epoch>>
held == <<request, owned, events, lost>>
counts == <<sent, emitted>>
vars == <<listening, task, peer, inbound, outbound, broker, held, counts>>

Sids == {r.sid : r \in Requests} \ {NoSid}
Nobody == "nobody"
None == [type |-> "none"]
Bad == [type |-> "bad", id |-> 0]
Eof == [type |-> "eof", id |-> 0]

\* The places of a connection's task while it holds its permit.
Places == {"hello", "ack", "greet", "up", "leaving", "drain"}
Live == {c \in Conn : pc[c] \in Places}

Ended == [type |-> "ended"]
NoTerms == [kind |-> "none", caps |-> <<>>]
Asks(c, cap) == Has(terms[c].caps, cap)
StaysOpen(c) == Asks(c, "policy") \/ Asks(c, "desktop_signals")
Goes(c, place) == pc' = [pc EXCEPT ![c] = place]
Idle(c) == pc[c] = "up" /\ request[c] = None

Init ==
    /\ server = "accepting" /\ down = FALSE
    /\ pc = [c \in Conn |-> "none"] /\ terms = [c \in Conn |-> NoTerms]
    /\ peer = [c \in Conn |-> "absent"] /\ stream = [c \in Conn |-> <<>>]
    /\ owing = [c \in Conn |-> None]
    /\ reader = [c \in Conn |-> None] /\ inbox = [c \in Conn |-> <<>>]
    /\ request = [c \in Conn |-> None] /\ owned = [c \in Conn |-> {}]
    /\ events = [c \in Conn |-> <<>>] /\ lost = [c \in Conn |-> FALSE]
    /\ wire = [c \in Conn |-> <<>>] /\ writer = [c \in Conn |-> "up"]
    /\ got = [c \in Conn |-> {}] /\ sessions = [s \in Sids |-> Nobody]
    /\ acked = [c \in Conn |-> 0] /\ news = [c \in Conn |-> <<>>] /\ epoch = 1
    /\ sent = 0 /\ emitted = [c \in Conn |-> 0]

-----------------------------------------------------------------------------
(* The peers                                                               *)

Part(kind, m) == [part |-> kind, frame |-> m]

Connect(c) ==
    /\ peer[c] = "absent" /\ server = "accepting"
    /\ peer' = [peer EXCEPT ![c] = "open"] /\ Goes(c, "queued")
    /\ UNCHANGED <<listening, terms, inbound, outbound, broker, held, counts>>

\* A frame's head, and its body some time later.  Bound: none starts once the
\* server stops.
SendHead(c, m) ==
    /\ server = "accepting" /\ peer[c] = "open" /\ owing[c] = None /\ stream[c] = <<>>
    /\ stream' = [stream EXCEPT ![c] = <<Part("head", m)>>]
    /\ owing' = [owing EXCEPT ![c] = m]
    /\ UNCHANGED <<listening, task, peer, reader, inbox, outbound, broker, held, emitted>>

SendBody(c) ==
    /\ peer[c] = "open" /\ owing[c] # None
    /\ stream' = [stream EXCEPT ![c] = Append(@, Part("body", owing[c]))]
    /\ owing' = [owing EXCEPT ![c] = None]
    /\ UNCHANGED <<listening, task, peer, reader, inbox, outbound, broker, held, counts>>

SendHello(c, h) ==
    pc[c] \in {"queued", "hello"} /\ SendHead(c, h) /\ UNCHANGED sent

\* A request's id is its number.
SendRequest(c, r) ==
    /\ pc[c] \in {"up", "leaving"} /\ sent < MaxSent /\ sent' = sent + 1
    /\ SendHead(c, [v |-> r.v, id |-> sent + 1, type |-> r.type, sid |-> r.sid,
                    action |-> r.action, sound |-> r.sound])

\* A policy client acknowledges the epoch it was told; module Authority has the
\* frames and the late ones.
AckEpoch(c) ==
    /\ Idle(c) /\ acked[c] < epoch /\ <<"authority", epoch>> \in got[c]
    /\ acked' = [acked EXCEPT ![c] = epoch]
    /\ UNCHANGED <<listening, task, peer, inbound, outbound, sessions, news, epoch, held,
                   counts>>

\* The peer stops reading, or closes its end.
Turn(c, into) ==
    /\ peer[c] = "open" /\ pc[c] \in Places \ {"drain"}
    /\ peer' = [peer EXCEPT ![c] = into]
    /\ UNCHANGED <<listening, task, inbound, outbound, broker, held, counts>>

-----------------------------------------------------------------------------
(* The accept loop and its stop                                            *)

\* A connection beyond the permits is dropped without a reply.
Admit(c) ==
    /\ server = "accepting" /\ pc[c] = "queued"
    /\ Goes(c, IF Cardinality(Live) < Slots THEN "hello" ELSE "gone")
    /\ UNCHANGED <<listening, terms, peer, inbound, outbound, broker, held, counts>>

\* A signal, the provider's exit, or a failed listener ends the loop.
Stop ==
    /\ server = "accepting" /\ server' = "stopping"
    /\ UNCHANGED <<down, task, peer, inbound, outbound, broker, held, counts>>

\* Broker::shutdown: nothing opens after it.
Shutdown ==
    /\ down' = TRUE
    /\ sessions' = [s \in Sids |-> Nobody]
    /\ UNCHANGED <<task, peer, inbound, outbound, acked, news, epoch, held, counts>>

ShutDown == server = "stopping" /\ server' = "joining" /\ Shutdown
Joined == server = "joining" /\ Live = {} /\ server' = "done" /\ Shutdown

Stopping == server # "accepting"

-----------------------------------------------------------------------------
(* The hello                                                               *)

\* Everything of a connection goes with its task.
Gone(c) ==
    /\ Goes(c, "gone")
    /\ terms' = [terms EXCEPT ![c] = NoTerms] /\ peer' = [peer EXCEPT ![c] = "left"]
    /\ stream' = [stream EXCEPT ![c] = <<>>] /\ owing' = [owing EXCEPT ![c] = None]
    /\ reader' = [reader EXCEPT ![c] = None] /\ inbox' = [inbox EXCEPT ![c] = <<>>]
    /\ wire' = [wire EXCEPT ![c] = <<>>] /\ writer' = [writer EXCEPT ![c] = "up"]
    /\ got' = [got EXCEPT ![c] = {}] /\ emitted' = [emitted EXCEPT ![c] = 0]
    /\ events' = [events EXCEPT ![c] = <<>>] /\ lost' = [lost EXCEPT ![c] = FALSE]
    /\ news' = [news EXCEPT ![c] = <<>>]
    /\ UNCHANGED <<listening, sessions, acked, epoch, request, owned, sent>>

\* The hello's deadline, a peer that left, or the stop.
NoHello(c) == pc[c] = "hello" /\ Gone(c)

\* refuse_hello tells a peer that reads, and ends.
RefuseHello(c) ==
    /\ pc[c] = "hello" /\ Len(stream[c]) = 2
    /\ LET h == stream[c][1].frame IN h.type # "hello" \/ ~HelloValid(h)
    /\ Gone(c)

TakeHello(c) ==
    /\ pc[c] = "hello" /\ Len(stream[c]) = 2
    /\ LET h == stream[c][1].frame IN
       /\ h.type = "hello" /\ HelloValid(h)
       /\ terms' = [terms EXCEPT ![c] = [kind |-> h.kind, caps |-> h.caps]]
    /\ stream' = [stream EXCEPT ![c] = <<>>] /\ Goes(c, "ack")
    /\ UNCHANGED <<listening, peer, owing, reader, inbox, outbound, broker, held, counts>>

\* A handshake frame is written, or the stop or its deadline ends the wait.
Told(c, frame, place) ==
    \/ /\ peer[c] = "open" /\ Goes(c, place)
       /\ got' = [got EXCEPT ![c] = @ \cup {frame}]
       /\ UNCHANGED <<listening, terms, peer, inbound, wire, writer, broker, held, counts>>
    \/ (peer[c] # "open" \/ Stopping) /\ Gone(c)

\* hello.ack, then a policy client's first announcement.
Acknowledge(c) ==
    /\ pc[c] = "ack"
    /\ Told(c, <<"hello.ack", 0>>, IF Asks(c, "policy") THEN "greet" ELSE "up")
Greet(c) == pc[c] = "greet" /\ Told(c, <<"authority", epoch>>, "up")

-----------------------------------------------------------------------------
(* The reader and writer tasks                                             *)

\* The reader's result goes to a channel of one; it ends with the first that
\* is not a frame.
Deliver(c, result) ==
    /\ inbox[c] = <<>>
    /\ inbox' = [inbox EXCEPT ![c] = <<result>>]
    /\ reader' = [reader EXCEPT ![c] = IF result \in {Bad, Eof} THEN Ended ELSE None]

Reads(c) ==
    /\ pc[c] = "up" /\ reader[c] # Ended
    /\ UNCHANGED <<listening, task, peer, owing, outbound, broker, held, counts>>

ReadHead(c) ==
    /\ reader[c] = None /\ stream[c] # <<>> /\ Reads(c)
    /\ stream' = [stream EXCEPT ![c] = Tail(@)]
    /\ IF Head(stream[c]).part = "head"
       THEN reader' = [reader EXCEPT ![c] = Head(stream[c]).frame] /\ UNCHANGED inbox
       ELSE Deliver(c, Bad)

ReadBody(c) ==
    /\ reader[c] # None /\ stream[c] # <<>> /\ Reads(c)
    /\ stream' = [stream EXCEPT ![c] = Tail(@)]
    /\ Deliver(c, IF WellShaped(reader[c]) THEN reader[c] ELSE Bad)

\* The end of the stream, between frames or inside one.
ReadEnd(c) ==
    /\ peer[c] = "left" /\ stream[c] = <<>> /\ Reads(c)
    /\ Deliver(c, IF reader[c] = None THEN Eof ELSE Bad)
    /\ UNCHANGED stream

Write(c) ==
    /\ writer[c] = "up" /\ wire[c] # <<>> /\ peer[c] = "open"
    /\ got' = [got EXCEPT ![c] = @ \cup {Head(wire[c])}]
    /\ wire' = [wire EXCEPT ![c] = Tail(@)]
    /\ UNCHANGED <<listening, task, peer, inbound, writer, broker, held, counts>>

\* A write to a peer that left fails, and ends the writer.
WriteFails(c) ==
    /\ writer[c] = "up" /\ wire[c] # <<>> /\ peer[c] = "left"
    /\ writer' = [writer EXCEPT ![c] = "ended"] /\ wire' = [wire EXCEPT ![c] = <<>>]
    /\ UNCHANGED <<listening, task, peer, inbound, got, broker, held, counts>>

-----------------------------------------------------------------------------
(* The serve loop                                                          *)

\* try_send to the writer: a queue without room ends the loop.
Post(c, frame) ==
    IF writer[c] = "up" /\ Len(wire[c]) < WireCap
    THEN wire' = [wire EXCEPT ![c] = Append(@, frame)] /\ UNCHANGED pc
    ELSE Goes(c, "leaving") /\ UNCHANGED wire

\* The last words of a loop that ends, if there is room.
PostLast(c, frame) ==
    /\ Goes(c, "leaving")
    /\ wire' = [wire EXCEPT ![c] = IF writer[c] = "up" /\ Len(@) < WireCap
                                   THEN Append(@, frame) ELSE @]

Take(c) ==
    /\ Idle(c) /\ inbox[c] # <<>> /\ inbox' = [inbox EXCEPT ![c] = <<>>]
    /\ UNCHANGED <<listening, terms, peer, stream, owing, reader, writer, got, broker,
                   owned, events, lost, counts>>

\* The peer left, or what it sent is not a frame.
\* Mutant: a client that stays open stays after its end of stream.
TakeEndStays(c) ==
    /\ Take(c) /\ inbox[c][1] \in {Bad, Eof} /\ UNCHANGED request
    /\ IF inbox[c][1] = Bad THEN PostLast(c, <<"error", 0>>)
       ELSE (IF StaysOpen(c) THEN UNCHANGED pc ELSE Goes(c, "leaving")) /\ UNCHANGED wire

TakeEnd(c) ==
    /\ Take(c) /\ inbox[c][1] \in {Bad, Eof} /\ UNCHANGED request
    /\ IF inbox[c][1] = Bad THEN PostLast(c, <<"error", 0>>)
       ELSE Goes(c, "leaving") /\ UNCHANGED wire

\* require_current_authority_ack.
Current(c) == Asks(c, "policy") => acked[c] = epoch

TakeRequest(c) ==
    /\ Take(c) /\ inbox[c][1] \notin {Bad, Eof}
    /\ LET m == inbox[c][1]
           verdict == Verdict(terms[c], Current(c), owned[c], SessionCap, m) IN
       \/ verdict = "fatal" /\ PostLast(c, <<"error", m.id>>) /\ UNCHANGED request
       \/ verdict = "refused" /\ Post(c, <<"error", m.id>>) /\ UNCHANGED request
       \/ /\ verdict = "run" /\ request' = [request EXCEPT ![c] = m]
          /\ UNCHANGED <<pc, wire>>

\* What the broker may answer at all.
Grants(c, m) ==
    CASE m.type = "session.open" -> IF down \/ sessions[m.sid] # Nobody THEN {FALSE}
                                    ELSE BOOLEAN
      [] m.type = "session.close" -> IF sessions[m.sid] = c THEN BOOLEAN ELSE {FALSE}
      [] m.type \in {"health.request", "policy.query", "editor.focus"} ->
            {TRUE}
      [] OTHER -> BOOLEAN

Own(c, m, ok) ==
    owned' = [owned EXCEPT ![c] = IF ok /\ m.type = "session.open" THEN @ \cup {m.sid}
                                  ELSE IF ok /\ m.type = "session.close" THEN @ \ {m.sid}
                                  ELSE @]

\* The broker's part, under its lock, then the reply.
Run(c, ok) ==
    LET m == request[c] IN
    /\ pc[c] = "up" /\ m # None /\ ok \in Grants(c, m)
    /\ request' = [request EXCEPT ![c] = None]
    /\ Own(c, m, ok)
    /\ sessions' = [s \in Sids |->
            IF ok /\ s = m.sid /\ m.type = "session.open" THEN c
            ELSE IF ok /\ s = m.sid /\ m.type = "session.close" THEN Nobody
            ELSE sessions[s]]
    /\ IF ok /\ m.type \notin Replying THEN UNCHANGED <<pc, wire>>
       ELSE Post(c, <<IF ok THEN "reply" ELSE "error", m.id>>)
    /\ UNCHANGED <<listening, terms, peer, inbound, writer, got, acked, news, epoch,
                   events, lost, counts>>

\* Mutant: the loop reads frames itself, and an event cancels the read.
ForwardCancelling(c) ==
    /\ Idle(c) /\ events[c] # <<>>
    /\ events' = [events EXCEPT ![c] = Tail(@)]
    /\ Post(c, <<"event", Head(events[c])>>)
    /\ reader' = [reader EXCEPT ![c] = IF @ = Ended THEN @ ELSE None]
    /\ UNCHANGED <<listening, terms, peer, stream, owing, inbox, writer, got, broker,
                   request, owned, lost, counts>>

\* An event of the broker goes to the writer.
Forward(c) ==
    /\ Idle(c) /\ events[c] # <<>>
    /\ events' = [events EXCEPT ![c] = Tail(@)]
    /\ Post(c, <<"event", Head(events[c])>>)
    /\ UNCHANGED <<listening, terms, peer, inbound, writer, got, broker, request, owned,
                   lost, counts>>

Closed(S) == [s \in Sids |-> IF s \in S THEN Nobody ELSE sessions[s]]

\* A new epoch closes the connection's sessions, then is announced.
Announce(c) ==
    /\ Idle(c) /\ news[c] # <<>> /\ news' = [news EXCEPT ![c] = Tail(@)]
    /\ sessions' = Closed(owned[c]) /\ owned' = [owned EXCEPT ![c] = {}]
    /\ Post(c, <<"authority", Head(news[c])>>)
    /\ UNCHANGED <<listening, terms, peer, inbound, writer, got, acked, epoch, request,
                   events, lost, counts>>

Quits(c) ==
    /\ Idle(c) /\ Goes(c, "leaving")
    /\ UNCHANGED <<listening, terms, peer, inbound, outbound, broker, held, counts>>

\* The stop, a sink that overflowed, or a writer that ended.
EndLoop(c) == (Stopping \/ lost[c] \/ writer[c] # "up") /\ Quits(c)

\* A client that asks and is answered ends after a time without requests.
IdleOut(c) == ~StaysOpen(c) /\ Quits(c)

\* Mutant: the sessions of a connection outlive it.
LeaveOpen(c) ==
    /\ pc[c] = "leaving" /\ Goes(c, "drain") /\ UNCHANGED sessions
    /\ owned' = [owned EXCEPT ![c] = {}] /\ acked' = [acked EXCEPT ![c] = 0]
    /\ news' = [news EXCEPT ![c] = <<>>] /\ inbox' = [inbox EXCEPT ![c] = <<>>]
    /\ reader' = [reader EXCEPT ![c] = Ended] /\ stream' = [stream EXCEPT ![c] = <<>>]
    /\ owing' = [owing EXCEPT ![c] = None] /\ events' = [events EXCEPT ![c] = <<>>]
    /\ UNCHANGED <<listening, terms, peer, outbound, epoch, request, lost, counts>>

\* The teardown: sessions closed, the client unregistered, the reader aborted.
Leave(c) ==
    /\ pc[c] = "leaving" /\ Goes(c, "drain") /\ sessions' = Closed(owned[c])
    /\ owned' = [owned EXCEPT ![c] = {}] /\ acked' = [acked EXCEPT ![c] = 0]
    /\ news' = [news EXCEPT ![c] = <<>>] /\ inbox' = [inbox EXCEPT ![c] = <<>>]
    /\ reader' = [reader EXCEPT ![c] = Ended] /\ stream' = [stream EXCEPT ![c] = <<>>]
    /\ owing' = [owing EXCEPT ![c] = None] /\ events' = [events EXCEPT ![c] = <<>>]
    /\ UNCHANGED <<listening, terms, peer, outbound, epoch, request, lost, counts>>

\* The writer has written what it had, or ran out of its time.
Drain(c) == pc[c] = "drain" /\ Gone(c)

-----------------------------------------------------------------------------
(* The broker behind the connections                                       *)

\* BrokerEventSink::send: a sink without room cancels the connection.
Emit(c) ==
    /\ \E s \in Sids : sessions[s] = c
    /\ emitted[c] < MaxEvents /\ emitted' = [emitted EXCEPT ![c] = @ + 1]
    /\ IF Len(events[c]) < EventCap
       THEN events' = [events EXCEPT ![c] = Append(@, emitted[c] + 1)] /\ UNCHANGED lost
       ELSE lost' = [lost EXCEPT ![c] = TRUE] /\ UNCHANGED events
    /\ UNCHANGED <<listening, task, peer, inbound, outbound, broker, request, owned, sent>>

NewEpoch ==
    /\ server = "accepting" /\ epoch < MaxEpoch /\ epoch' = epoch + 1
    /\ news' = [c \in Conn |-> IF pc[c] \in {"ack", "greet", "up"} /\ Asks(c, "policy")
                               THEN Append(news[c], epoch + 1) ELSE news[c]]
    /\ UNCHANGED <<listening, task, peer, inbound, outbound, sessions, acked, held, counts>>

-----------------------------------------------------------------------------

Peer(c) ==
    \/ Connect(c) \/ SendBody(c) \/ AckEpoch(c)
    \/ \E h \in Hellos : SendHello(c, h)
    \/ \E r \in Requests : SendRequest(c, r)
    \/ \E into \in {"stuck", "left"} : Turn(c, into)

Greets(c) == NoHello(c) \/ RefuseHello(c) \/ TakeHello(c)
Tasks(c) == ReadHead(c) \/ ReadBody(c) \/ ReadEnd(c) \/ Write(c) \/ WriteFails(c)
Serves(c) == TakeEnd(c) \/ TakeRequest(c) \/ Forward(c) \/ Announce(c) \/ EndLoop(c)

Next ==
    \/ Stop \/ ShutDown \/ Joined \/ NewEpoch
    \/ \E c \in Conn :
        \/ Peer(c) \/ Admit(c) \/ Greets(c) \/ Acknowledge(c) \/ Greet(c)
        \/ Tasks(c) \/ Serves(c) \/ IdleOut(c) \/ Leave(c) \/ Drain(c) \/ Emit(c)
        \/ \E ok \in BOOLEAN : Run(c, ok)

Stops == ShutDown \/ Joined
Passes(c) == Greets(c) \/ Acknowledge(c) \/ Greet(c) \/ Leave(c) \/ Drain(c)

\* Every wait of a connection but that of the serve loop has its deadline;
\* the loop's select is fair to each of its arms, and handlers return.
Fairness ==
    /\ WF_vars(Stops)
    /\ \A c \in Conn :
        /\ WF_vars(Passes(c)) /\ WF_vars(Tasks(c))
        /\ WF_vars(\E ok \in BOOLEAN : Run(c, ok))
        /\ SF_vars(TakeEnd(c) \/ TakeRequest(c)) /\ SF_vars(EndLoop(c))

Spec == Init /\ [][Next]_vars
FairSpec == Spec /\ Fairness

-----------------------------------------------------------------------------
(* Properties                                                              *)

TypeOK ==
    /\ server \in {"accepting", "stopping", "joining", "done"} /\ down \in BOOLEAN
    /\ pc \in [Conn -> Places \cup {"none", "queued", "gone"}]
    /\ peer \in [Conn -> {"absent", "open", "stuck", "left"}]
    /\ sessions \in [Sids -> Conn \cup {Nobody}]
    /\ Cardinality(Live) <= Slots
    /\ \A c \in Conn :
        /\ Len(stream[c]) <= 2 /\ Len(inbox[c]) <= 1
        /\ Len(events[c]) <= EventCap /\ Len(wire[c]) <= WireCap
        /\ Cardinality(owned[c]) <= SessionCap
        /\ acked[c] <= epoch

\* "Cancelling read_envelope after it consumed only part of a frame would
\* discard those bytes and desynchronize the stream": a body is always next
\* when, and only when, the reader holds the head of the same frame.
InStep ==
    \A c \in Conn : pc[c] = "up" /\ reader[c] # Ended =>
        /\ stream[c] # <<>> => (Head(stream[c]).part = "body") = (reader[c] # None)
        /\ reader[c] # None /\ peer[c] = "open" =>
               reader[c] = IF stream[c] = <<>> THEN owing[c] ELSE Head(stream[c]).frame

\* Frames of these kinds go to the peer once and in the order of their numbers.
Ascends(c, kinds) ==
    \A i \in DOMAIN wire[c] : LET m == wire[c][i] IN m[1] \in kinds /\ m[2] # 0 =>
        /\ \A f \in got[c] : f[1] \in kinds => f[2] < m[2]
        /\ \A j \in 1 .. i - 1 : wire[c][j][1] \in kinds => wire[c][j][2] < m[2]

Sent(c) == got[c] \cup {wire[c][i] : i \in DOMAIN wire[c]}

\* No event is lost on the way to a connection that goes on: the last ones are
\* in the sink's queue, all before them with the writer or the peer.
EventsWhole ==
    \A c \in Conn : pc[c] = "up" /\ ~lost[c] /\ writer[c] = "up" =>
        LET passed == emitted[c] - Len(events[c]) IN
        /\ \A i \in DOMAIN events[c] : events[c][i] = passed + i
        /\ {f \in Sent(c) : f[1] = "event"} = {<<"event", n>> : n \in 1 .. passed}
        /\ Ascends(c, {"event"})

\* A session the broker holds is one its connection will close: the
\* connection owns it and has not been torn down, or the broker shut down.
NoOrphan ==
    \A s \in Sids : sessions[s] # Nobody =>
        /\ s \in owned[sessions[s]] /\ pc[sessions[s]] \in {"up", "leaving"}

\* A request has one answer, and answers come in the order of the requests.
Answers == {"reply", "error"}
AnsweredOnce == \A c \in Conn : Ascends(c, Answers)

\* A connection's reader stays in step with its frames, no event is lost or out
\* of order, no session outlives its connection, and answers come once and in
\* order (server.rs, serve_connection_with_timeouts).
ServingSafe == TypeOK /\ InStep /\ EventsWhole /\ NoOrphan /\ AnsweredOnce

\* A request that calls for a reply gets one, or an error, or its connection
\* ends: a full queue never swallows it.
Asked(c, i) ==
    pc[c] = "up" /\ inbox[c] # <<>> /\ inbox[c][1].id = i /\ inbox[c][1].type \in Replying
Satisfied(c, i) ==
    \/ got[c] \cap {<<"reply", i>>, <<"error", i>>} # {}
    \/ peer[c] # "open" \/ pc[c] # "up"
Answered == \A c \in Conn, i \in 1 .. MaxSent : Asked(c, i) ~> Satisfied(c, i)

\* The stop ends whatever the peers do, and leaves no session.
AllStopped == server = "done" /\ \A s \in Sids : sessions[s] = Nobody
StopEnds == Stopping ~> AllStopped

\* A peer that left, or that never says hello, gives its permit back.
HoldsIdly(c) == c \in Live /\ (pc[c] = "hello" \/ peer[c] = "left")
GivesBack(c) == pc[c] = "gone" \/ (pc[c] # "hello" /\ peer[c] # "left")
PermitReturns == \A c \in Conn : HoldsIdly(c) ~> GivesBack(c)
=============================================================================
