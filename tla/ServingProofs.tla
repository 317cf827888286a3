----------------------------- MODULE ServingProofs -----------------------------
(***************************************************************************)
(* Proofs about Serving for any number of connections, permits, requests,   *)
(* events and epochs: what a connection's task, reader, writer and sink     *)
(* hold of its frames, and that ServingSafe follows.                       *)
(***************************************************************************)
EXTENDS Serving, FiniteSetTheorems, TLAPS

-----------------------------------------------------------------------------
(* The inductive invariant                                                 *)

\* A frame as its peer sent it: a hello, or a request with its number.
Requested == {[v |-> r.v, id |-> n, type |-> r.type, sid |-> r.sid,
               action |-> r.action, sound |-> r.sound] : r \in Requests, n \in Nat \ {0}}
Frame == Hellos \cup Requested
Parts == [part : {"head", "body"}, frame : Frame]
Word == {"hello.ack", "authority", "event", "reply", "error"} \X Nat

Typed ==
    /\ server \in {"accepting", "stopping", "joining", "done"} /\ down \in BOOLEAN
    /\ pc \in [Conn -> Places \cup {"none", "queued", "gone"}]
    /\ peer \in [Conn -> {"absent", "open", "stuck", "left"}]
    /\ stream \in [Conn -> Seq(Parts)]
    /\ owing \in [Conn -> Frame \cup {None}]
    /\ reader \in [Conn -> Frame \cup {None, Ended}]
    /\ inbox \in [Conn -> Seq(Frame \cup {Bad, Eof})]
    /\ request \in [Conn -> Frame \cup {None}]
    /\ owned \in [Conn -> SUBSET Sids]
    /\ events \in [Conn -> Seq(Nat)] /\ lost \in [Conn -> BOOLEAN]
    /\ wire \in [Conn -> Seq(Word)] /\ writer \in [Conn -> {"up", "ended"}]
    /\ got \in [Conn -> SUBSET Word]
    /\ sessions \in [Sids -> Conn \cup {Nobody}]
    /\ acked \in [Conn -> Nat] /\ news \in [Conn -> Seq(Nat)] /\ epoch \in Nat
    /\ sent \in Nat /\ emitted \in [Conn -> Nat]

\* The frames on their way to the connection's channel.
Flying(c) ==
    ({owing[c], reader[c]} \ {None, Ended}) \cup {stream[c][i].frame : i \in DOMAIN stream[c]}

\* A message as the reader lets it through.
Opens(m) == m.type = "session.open" => m.sid # NoSid

\* What a connection holds before its loop, and none after it.
Staged(c) ==
    /\ peer[c] = "absent" => pc[c] = "none"
    /\ pc[c] \notin {"up", "leaving"} => owned[c] = {}
    /\ request[c] # None => pc[c] = "up" /\ request[c] \in Requested /\ Opens(request[c])
    /\ pc[c] \in {"none", "ack", "greet", "drain"} => stream[c] = <<>> /\ owing[c] = None
    /\ pc[c] \in {"none", "queued", "hello", "ack", "greet"} =>
           /\ reader[c] = None /\ inbox[c] = <<>> /\ wire[c] = <<>> /\ events[c] = <<>>
           /\ emitted[c] = 0
           /\ \A f \in got[c] : f[1] \in {"hello.ack", "authority"}
    /\ pc[c] \in {"up", "leaving"} =>
           /\ Flying(c) \subseteq Requested
           /\ \A i \in DOMAIN inbox[c] :
               inbox[c][i] \in {Bad, Eof} \/ (inbox[c][i] \in Requested /\ Opens(inbox[c][i]))

\* The part p of the frame m.
Is(p, kind, m) == p.part = kind /\ p.frame = m

\* A frame's body follows its head, and the reader has the head of the next body.
Paired(c) ==
    /\ Len(stream[c]) <= 2 /\ (owing[c] # None => Len(stream[c]) <= 1)
    /\ pc[c] \notin {"leaving", "drain", "gone"} /\ reader[c] # Ended =>
        /\ reader[c] = None =>
            \/ owing[c] = None /\ Len(stream[c]) = 0
            \/ owing[c] # None /\ Len(stream[c]) = 1 /\ Is(stream[c][1], "head", owing[c])
            \/ /\ owing[c] = None /\ Len(stream[c]) = 2
               /\ Is(stream[c][1], "head", stream[c][2].frame) /\ stream[c][2].part = "body"
        /\ reader[c] # None =>
            \/ owing[c] = reader[c] /\ Len(stream[c]) = 0
            \/ owing[c] = None /\ Len(stream[c]) = 1 /\ Is(stream[c][1], "body", reader[c])

\* The number n is above those of the answers given; of those and the request
\* that runs; of those and the one that waits.
Above(c, n) == \A f \in Sent(c) : f[1] \in Answers => f[2] < n
Past(c, n) == Above(c, n) /\ (request[c] # None => request[c].id < n)
Beyond(c, n) == Past(c, n) /\ \A i \in DOMAIN inbox[c] : inbox[c][i].id < n

\* Requests are answered in the order they are read and sent in.
Lined(c) ==
    /\ Ascends(c, Answers)
    /\ request[c] # None => Above(c, request[c].id)
    /\ pc[c] \in {"up", "leaving"} =>
        /\ \A i \in DOMAIN inbox[c] : inbox[c][i] \notin {Bad, Eof} => Past(c, inbox[c][i].id)
        /\ \A m \in Flying(c) : m.id <= sent /\ Beyond(c, m.id)
        /\ Beyond(c, sent + 1)

Whole(c) == pc[c] = "up" /\ ~lost[c] /\ writer[c] = "up" =>
    LET passed == emitted[c] - Len(events[c]) IN
    /\ passed \in Nat
    /\ \A i \in DOMAIN events[c] : events[c][i] = passed + i
    /\ {f \in Sent(c) : f[1] = "event"} = {<<"event", n>> : n \in 1 .. passed}
    /\ Ascends(c, {"event"})

Limited(c) ==
    /\ Len(inbox[c]) <= 1 /\ Len(events[c]) <= EventCap /\ Len(wire[c]) <= WireCap
    /\ IsFiniteSet(owned[c]) /\ Cardinality(owned[c]) <= SessionCap
    /\ request[c] # None /\ request[c].type = "session.open" => Cardinality(owned[c]) < SessionCap
    /\ acked[c] <= epoch

Kept(c) == Staged(c) /\ Paired(c) /\ Lined(c) /\ Whole(c) /\ Limited(c)

Permits == IsFiniteSet(Live) /\ Cardinality(Live) <= Slots

SInv ==
    /\ Typed /\ Permits /\ NoOrphan
    /\ \A c \in Conn : Kept(c)

-----------------------------------------------------------------------------
(* Frames, words and sequences                                             *)

\* No frame is one of the markers, and requests have numbers.
LEMMA Frames ==
    /\ \A m \in Frame : m \notin {None, Ended, Bad, Eof}
    /\ \A m \in Requested : m \in Frame /\ m.id \in Nat /\ m.id # 0
    /\ None # Ended /\ Bad # Eof /\ Bad.id = 0 /\ Eof.id = 0
    /\ None \notin {Bad, Eof} /\ Ended \notin {Bad, Eof}
<1>1. None.type = "none" /\ Ended.type = "ended" /\ Bad.type = "bad" /\ Eof.type = "eof"
      /\ Bad.id = 0 /\ Eof.id = 0
  BY DEF None, Ended, Bad, Eof
<1>2. ASSUME NEW m \in Requested
      PROVE  m.id \in Nat /\ m.id # 0 /\ m.type \notin {"none", "ended", "bad", "eof"}
  <2>1. PICK r \in Requests, n \in Nat \ {0} :
          m = [v |-> r.v, id |-> n, type |-> r.type, sid |-> r.sid,
               action |-> r.action, sound |-> r.sound]
    BY DEF Requested
  <2>2. m.id = n /\ m.type = r.type
    BY <2>1
  <2> QED
    BY <2>1, <2>2, ServingAssumption
<1>3. \A m \in Hellos : m.type \notin {"none", "ended", "bad", "eof"}
  BY ServingAssumption
<1> QED
  BY <1>1, <1>2, <1>3 DEF Frame

\* The first of a sequence taken, and one added at its end.
LEMMA Tailed ==
    ASSUME NEW T, NEW q \in Seq(T), q # <<>>
    PROVE  /\ Tail(q) \in Seq(T) /\ Head(q) \in T /\ Head(q) = q[1] /\ Len(q) \in Nat /\ Len(q) > 0
           /\ Len(Tail(q)) = Len(q) - 1 /\ 1 \in DOMAIN q
           /\ \A i \in DOMAIN Tail(q) : i \in Nat /\ Tail(q)[i] = q[i + 1] /\ i + 1 \in DOMAIN q
           /\ \A i \in DOMAIN q : i \in Nat /\ (i = 1 \/ (i - 1 \in DOMAIN Tail(q) /\ i > 1))
  OBVIOUS

LEMMA Second ==
    ASSUME NEW T, NEW q \in Seq(T), Len(q) = 2
    PROVE  Len(Tail(q)) = 1 /\ Tail(q)[1] = q[2]
<1>1. q # <<>>
  OBVIOUS
<1>2. PICK w \in Seq(T) : w = Tail(q)
  BY <1>1, Tailed
<1>3. Len(w) = 1
  <2>1. Len(w) = Len(q) - 1
    BY <1>1, <1>2, Tailed
  <2> QED
    BY <2>1
<1>4. 1 \in DOMAIN w
  BY <1>3
<1>5. w[1] = q[1 + 1]
  BY <1>1, <1>2, <1>4, Tailed
<1>6. \A k : k = 1 + 1 => k = 2
  OBVIOUS
<1>7. w[1] = q[2]
  BY <1>5, <1>6
<1>8. Len(Tail(q)) = 1
  BY <1>2, <1>3
<1>9. Tail(q)[1] = q[2]
  BY <1>2, <1>7
<1> QED
  BY <1>8, <1>9

LEMMA Appended ==
    ASSUME NEW T, NEW q \in Seq(T), NEW e \in T
    PROVE  /\ Append(q, e) \in Seq(T) /\ Len(Append(q, e)) = Len(q) + 1 /\ Len(q) \in Nat
           /\ \A i \in DOMAIN q : i \in Nat /\ i \in DOMAIN Append(q, e) /\ Append(q, e)[i] = q[i] /\ i <= Len(q)
           /\ Len(q) + 1 \in DOMAIN Append(q, e) /\ Append(q, e)[Len(q) + 1] = e
           /\ \A i \in DOMAIN Append(q, e) : i \in Nat /\ (i \in DOMAIN q \/ i = Len(q) + 1)
  OBVIOUS

LEMMA OneOf ==
    ASSUME NEW T, NEW e \in T
    PROVE  <<e>> \in Seq(T) /\ <<>> \in Seq(T)
  OBVIOUS

\* A frame posted, or the loop's end.
LEMMA Posts ==
    ASSUME Typed, NEW c \in Conn, NEW f \in Word, Post(c, f) \/ PostLast(c, f)
    PROVE  /\ pc' \in [Conn -> Places \cup {"none", "queued", "gone"}]
           /\ wire' \in [Conn -> Seq(Word)]
           /\ pc'[c] = pc[c] \/ pc'[c] = "leaving"
           /\ \/ wire'[c] = wire[c]
              \/ writer[c] = "up" /\ wire'[c] = Append(wire[c], f) /\ Len(wire[c]) < WireCap
           /\ pc'[c] # "leaving" => wire'[c] = Append(wire[c], f)
           /\ \A d \in Conn \ {c} : pc'[d] = pc[d] /\ wire'[d] = wire[d]
<1>1. Append(wire[c], f) \in Seq(Word) /\ wire[c] \in Seq(Word)
  BY DEF Typed
<1>2. PICK w : w = Append(wire[c], f)
  OBVIOUS
<1>3. CASE Post(c, f)
  BY <1>1, <1>2, <1>3 DEF Typed, Post, Goes, Places
<1>4. CASE PostLast(c, f)
  BY <1>1, <1>2, <1>4 DEF Typed, PostLast, Goes, Places
<1> QED
  BY <1>3, <1>4

-----------------------------------------------------------------------------
(* Types, and what a step of one connection leaves to the others           *)

\* Nothing of connection d changes.
Stays(d) ==
    /\ pc'[d] = pc[d] /\ peer'[d] = peer[d] /\ stream'[d] = stream[d] /\ owing'[d] = owing[d]
    /\ reader'[d] = reader[d] /\ inbox'[d] = inbox[d] /\ request'[d] = request[d]
    /\ owned'[d] = owned[d] /\ events'[d] = events[d] /\ lost'[d] = lost[d]
    /\ wire'[d] = wire[d] /\ writer'[d] = writer[d] /\ got'[d] = got[d]
    /\ acked'[d] = acked[d] /\ emitted'[d] = emitted[d]

Rest(c) == Typed' /\ \A d \in Conn \ {c} : Stays(d)

\* Peers send, acknowledge and turn away.
LEMMA RestPeers ==
    ASSUME Typed, NEW c \in Conn,
           \/ Connect(c) \/ SendBody(c) \/ AckEpoch(c)
           \/ \E h \in Hellos : SendHello(c, h)
           \/ \E r \in Requests : SendRequest(c, r)
           \/ \E into \in {"stuck", "left"} : Turn(c, into)
    PROVE  Rest(c)
<1>1. CASE Connect(c)
  BY <1>1 DEF Connect, Goes, Rest, Stays, Typed, listening, task, inbound, outbound, broker, held, counts
<1>2. CASE AckEpoch(c)
  BY <1>2 DEF AckEpoch, Rest, Stays, Typed, listening, task, inbound, outbound, broker, held, counts
<1>3. ASSUME NEW into \in {"stuck", "left"}, Turn(c, into)
      PROVE  Rest(c)
  BY <1>3 DEF Turn, Rest, Stays, Typed, listening, task, inbound, outbound, broker, held, counts
<1>4. \A m \in Frame, kind \in {"head", "body"} : Part(kind, m) \in Parts
  BY DEF Part, Parts
<1>5. CASE SendBody(c)
  <2>1. owing[c] \in Frame /\ stream[c] \in Seq(Parts)
    BY <1>5 DEF SendBody, Typed
  <2>2. PICK q : q = Append(stream[c], Part("body", owing[c]))
    OBVIOUS
  <2>3. q \in Seq(Parts)
    BY <1>4, <2>1, <2>2
  <2> QED
    BY <1>5, <2>2, <2>3 DEF SendBody, Rest, Stays, Typed, listening, task, inbound, outbound, broker, held, counts
<1>6. ASSUME NEW m \in Frame, SendHead(c, m), sent' \in Nat
      PROVE  Rest(c)
  <2>1. PICK q : q = <<Part("head", m)>>
    OBVIOUS
  <2>2. q \in Seq(Parts)
    BY <1>4, <2>1
  <2> QED
    BY <1>6, <2>1, <2>2 DEF SendHead, Rest, Stays, Typed, listening, task, inbound, outbound, broker, held, counts
<1>7. ASSUME NEW h \in Hellos, SendHello(c, h)
      PROVE  Rest(c)
  <2>1. h \in Frame /\ sent' \in Nat
    BY <1>7 DEF SendHello, Frame, Typed
  <2> QED
    BY <1>6, <1>7, <2>1 DEF SendHello
<1>8. ASSUME NEW r \in Requests, SendRequest(c, r)
      PROVE  Rest(c)
  <2> DEFINE m == [v |-> r.v, id |-> sent + 1, type |-> r.type, sid |-> r.sid,
                   action |-> r.action, sound |-> r.sound]
  <2>1. sent + 1 \in Nat \ {0} /\ sent' \in Nat
    BY <1>8 DEF SendRequest, Typed
  <2>2. m \in Frame
    BY <2>1 DEF Frame, Requested
  <2>3. SendHead(c, m)
    BY <1>8 DEF SendRequest
  <2> HIDE DEF m
  <2> QED
    BY <1>6, <2>1, <2>2, <2>3
<1> QED
  BY <1>1, <1>2, <1>3, <1>5, <1>7, <1>8


\* A connection's task has ended.
LEMMA RestGone ==
    ASSUME Typed, NEW c \in Conn,
           Gone(c)
    PROVE  Rest(c)
<1>1. PICK e : e = <<>>
  OBVIOUS
<1>2. e \in Seq(Parts) /\ e \in Seq(Frame \cup {Bad, Eof}) /\ e \in Seq(Word) /\ e \in Seq(Nat)
  BY <1>1
<1> QED
  BY <1>1, <1>2 DEF Gone, Goes, Rest, Stays, Typed, listening

\* The hello and its answers.
LEMMA RestHello ==
    ASSUME Typed, NEW c \in Conn,
           Admit(c) \/ Greets(c) \/ Acknowledge(c) \/ Greet(c)
    PROVE  Rest(c)
<1>1. CASE Admit(c)
  BY <1>1 DEF Admit, Goes, Rest, Stays, Typed, Places, listening, task, inbound, outbound, broker, held, counts
<1>2. CASE NoHello(c) \/ RefuseHello(c)
  BY <1>2, RestGone DEF NoHello, RefuseHello
<1>3. CASE TakeHello(c)
  <2>1. PICK e : e = <<>>
    OBVIOUS
  <2>2. e \in Seq(Parts)
    BY <2>1
  <2> QED
    BY <1>3, <2>1, <2>2 DEF TakeHello, Goes, Rest, Stays, Typed, Places, listening, task, inbound, outbound, broker, held, counts
<1>4. ASSUME NEW frame \in Word, NEW place \in {"greet", "up"}, Told(c, frame, place)
      PROVE  Rest(c)
  <2>1. CASE Gone(c)
    BY <2>1, RestGone
  <2>2. CASE ~Gone(c)
    <3>1. PICK g : g = got[c] \cup {frame}
      OBVIOUS
    <3>2. g \in SUBSET Word
      BY <3>1 DEF Typed
    <3>3. /\ pc' = [pc EXCEPT ![c] = place] /\ got' = [got EXCEPT ![c] = g]
          /\ UNCHANGED <<listening, terms, peer, inbound, wire, writer, broker, held, counts>>
      BY <1>4, <2>2, <3>1 DEF Told, Goes
    <3>4. place \in Places
      BY DEF Places
    <3> QED
      BY <3>2, <3>3, <3>4 DEF Rest, Stays, Typed, listening, task, inbound, outbound, broker, held, counts
  <2> QED
    BY <2>1, <2>2
<1>5. <<"hello.ack", 0>> \in Word /\ <<"authority", epoch>> \in Word
  BY DEF Word, Typed
<1>6. CASE Acknowledge(c)
  BY <1>4, <1>5, <1>6 DEF Acknowledge
<1>7. CASE Greet(c)
  BY <1>4, <1>5, <1>7 DEF Greet
<1> QED
  BY <1>1, <1>2, <1>3, <1>6, <1>7 DEF Greets

\* The reader takes what the stream has, the writer gives what it holds.
LEMMA RestTasks ==
    ASSUME Typed, NEW c \in Conn, Tasks(c)
    PROVE  Rest(c)
<1>1. stream[c] # <<>> => /\ Tail(stream[c]) \in Seq(Parts) /\ Head(stream[c]).frame \in Frame
  <2>1. stream[c] # <<>> => Tail(stream[c]) \in Seq(Parts) /\ Head(stream[c]) \in Parts
    BY DEF Typed
  <2>2. \A p \in Parts : p.frame \in Frame
    BY DEF Parts
  <2> QED
    BY <2>1, <2>2
<1>2. wire[c] # <<>> => /\ Tail(wire[c]) \in Seq(Word) /\ Head(wire[c]) \in Word
  BY DEF Typed
<1>3. ASSUME NEW result \in Frame \cup {Bad, Eof}, Deliver(c, result)
      PROVE  /\ inbox' \in [Conn -> Seq(Frame \cup {Bad, Eof})]
             /\ reader' \in [Conn -> Frame \cup {None, Ended}]
             /\ \A d \in Conn \ {c} : inbox'[d] = inbox[d] /\ reader'[d] = reader[d]
  <2>1. PICK q : q = <<result>>
    OBVIOUS
  <2>2. q \in Seq(Frame \cup {Bad, Eof})
    BY <2>1
  <2> QED
    BY <1>3, <2>1, <2>2 DEF Deliver, Typed
<1>4. CASE ReadHead(c) \/ ReadBody(c) \/ ReadEnd(c)
  <2>1. /\ inbox' \in [Conn -> Seq(Frame \cup {Bad, Eof})]
        /\ reader' \in [Conn -> Frame \cup {None, Ended}]
        /\ \A d \in Conn \ {c} : inbox'[d] = inbox[d] /\ reader'[d] = reader[d]
    <3>1. CASE inbox' = inbox /\ stream[c] # <<>> /\ reader' = [reader EXCEPT ![c] = Head(stream[c]).frame]
      <4>1. PICK m : m = Head(stream[c]).frame
        OBVIOUS
      <4> QED
        BY <1>1, <3>1, <4>1 DEF Typed
    <3>2. CASE \E result \in Frame \cup {Bad, Eof} : Deliver(c, result)
      BY <1>3, <3>2
    <3>3. reader[c] # None /\ reader[c] # Ended => reader[c] \in Frame
      BY DEF Typed
    <3> QED
      BY <1>4, <3>1, <3>2, <3>3 DEF ReadHead, ReadBody, ReadEnd, Reads
  <2>2. /\ stream' \in [Conn -> Seq(Parts)]
        /\ \A d \in Conn \ {c} : stream'[d] = stream[d]
    <3>1. PICK q : q = Tail(stream[c])
      OBVIOUS
    <3> QED
      BY <1>1, <1>4, <3>1 DEF ReadHead, ReadBody, ReadEnd, Typed
  <2> QED
    BY <1>4, <2>1, <2>2 DEF ReadHead, ReadBody, ReadEnd, Reads, Rest, Stays, Typed, listening, task, inbound, outbound, broker, held, counts
<1>5. CASE Write(c)
  <2>1. PICK q, g : q = Tail(wire[c]) /\ g = got[c] \cup {Head(wire[c])}
    OBVIOUS
  <2>2. q \in Seq(Word) /\ g \in SUBSET Word
    BY <1>2, <1>5, <2>1 DEF Write, Typed
  <2>3. wire' = [wire EXCEPT ![c] = q] /\ got' = [got EXCEPT ![c] = g]
    BY <1>5, <2>1 DEF Write
  <2> QED
    <3>1. Typed'
      <4>1. wire' \in [Conn -> Seq(Word)] /\ got' \in [Conn -> SUBSET Word]
        BY <2>2, <2>3 DEF Typed
      <4>2. UNCHANGED <<listening, task, peer, inbound, writer, broker, held, counts>>
        BY <1>5 DEF Write
      <4> QED
        BY <4>1, <4>2 DEF Typed, listening, task, inbound, broker, held, counts
    <3>2. \A d \in Conn \ {c} : Stays(d)
      BY <1>5, <2>2, <2>3 DEF Write, Stays, Typed, listening, task, inbound, outbound, broker, held, counts
    <3> QED
      BY <3>1, <3>2 DEF Rest
<1>6. CASE WriteFails(c)
  <2>1. PICK e : e = <<>>
    OBVIOUS
  <2>2. e \in Seq(Word)
    BY <2>1
  <2> QED
    BY <1>6, <2>1, <2>2 DEF WriteFails, Rest, Stays, Typed, listening, task, inbound, outbound, broker, held, counts
<1> QED
  BY <1>4, <1>5, <1>6 DEF Tasks

\* What a loop that takes from its channel posts.
LEMMA Answer ==
    ASSUME Typed, NEW c \in Conn, inbox[c] # <<>>, inbox[c][1] \notin {Bad, Eof}, Staged(c), pc[c] = "up"
    PROVE  /\ inbox[c][1] \in Requested /\ Opens(inbox[c][1])
           /\ <<"error", inbox[c][1].id>> \in Word /\ <<"reply", inbox[c][1].id>> \in Word
<1>1. 1 \in DOMAIN inbox[c]
  BY DEF Typed
<1>2. inbox[c][1] \in Requested /\ Opens(inbox[c][1])
  BY <1>1 DEF Staged
<1> QED
  BY <1>2, Frames DEF Word

\* The serve loop.
LEMMA RestServes ==
    ASSUME Typed, NEW c \in Conn, Staged(c), Serves(c) \/ IdleOut(c)
    PROVE  Rest(c)
<1>1. PICK e : e = <<>>
  OBVIOUS
<1>2. e \in Seq(Frame \cup {Bad, Eof})
  BY <1>1
<1>3. <<"error", 0>> \in Word
  BY DEF Word
<1>4. ASSUME Take(c), NEW f \in Word, Post(c, f) \/ PostLast(c, f), UNCHANGED request
      PROVE  Rest(c)
  BY <1>1, <1>2, <1>4, Posts DEF Take, Rest, Stays, Typed, listening, task, inbound, outbound, broker, held, counts
<1>5. ASSUME Take(c), UNCHANGED <<pc, wire>>, request' = [request EXCEPT ![c] = inbox[c][1]],
             inbox[c][1] \notin {Bad, Eof}
      PROVE  Rest(c)
  <2>1. PICK m : m = inbox[c][1]
    OBVIOUS
  <2>2. m \in Frame
    BY <1>5, <2>1, Answer, Frames DEF Take, Idle
  <2> QED
    BY <1>1, <1>2, <1>5, <2>1, <2>2 DEF Take, Rest, Stays, Typed, listening, task, inbound, outbound, broker, held, counts
<1>6. CASE TakeEnd(c)
  <2>1. CASE inbox[c][1] = Bad
    BY <1>3, <1>4, <1>6, <2>1 DEF TakeEnd
  <2>2. CASE inbox[c][1] # Bad
    <3>1. Take(c) /\ pc' = [pc EXCEPT ![c] = "leaving"] /\ UNCHANGED <<wire, request>>
      BY <1>6, <2>2 DEF TakeEnd, Goes
    <3>2. "leaving" \in Places
      BY DEF Places
    <3> QED
      BY <1>1, <1>2, <3>1, <3>2 DEF Take, Rest, Stays, Typed, listening, task, inbound, outbound, broker, held, counts
  <2> QED
    BY <2>1, <2>2
<1>7. CASE TakeRequest(c)
  <2>1. Take(c) /\ inbox[c][1] \notin {Bad, Eof}
    BY <1>7 DEF TakeRequest
  <2>2. <<"error", inbox[c][1].id>> \in Word
    BY <2>1, Answer DEF Take, Idle
  <2>3. \/ /\ UNCHANGED request
           /\ Post(c, <<"error", inbox[c][1].id>>) \/ PostLast(c, <<"error", inbox[c][1].id>>)
        \/ UNCHANGED <<pc, wire>> /\ request' = [request EXCEPT ![c] = inbox[c][1]]
    BY <1>7 DEF TakeRequest
  <2> QED
    BY <1>4, <1>5, <2>1, <2>2, <2>3
<1>8. CASE Forward(c)
  <2>1. PICK q : q = Tail(events[c])
    OBVIOUS
  <2>2. PICK f : f = <<"event", Head(events[c])>>
    OBVIOUS
  <2>3. q \in Seq(Nat) /\ f \in Word
    BY <1>8, <2>1, <2>2 DEF Forward, Typed, Word
  <2>4. Post(c, f) /\ events' = [events EXCEPT ![c] = q]
    BY <1>8, <2>1, <2>2 DEF Forward
  <2> QED
    <3>3. /\ pc' \in [Conn -> Places \cup {"none", "queued", "gone"}] /\ wire' \in [Conn -> Seq(Word)]
          /\ \A d \in Conn \ {c} : pc'[d] = pc[d] /\ wire'[d] = wire[d]
      BY <2>3, <2>4, Posts
    <3>4. UNCHANGED <<listening, peer, inbound, writer, got, broker, request, owned, lost, counts>>
      BY <1>8 DEF Forward
    <3>5. events' \in [Conn -> Seq(Nat)] /\ \A d \in Conn \ {c} : events'[d] = events[d]
      BY <2>3, <2>4 DEF Typed
    <3>1. Typed'
      BY <3>3, <3>4, <3>5 DEF Typed, listening, inbound, outbound, broker, counts
    <3>2. \A d \in Conn \ {c} : Stays(d)
      BY <3>3, <3>4, <3>5 DEF Stays, listening, inbound, outbound, broker, counts
    <3> QED
      BY <3>1, <3>2 DEF Rest
<1>9. CASE Announce(c)
  <2>1. PICK q : q = Tail(news[c])
    OBVIOUS
  <2>2. PICK f : f = <<"authority", Head(news[c])>>
    OBVIOUS
  <2>3. q \in Seq(Nat) /\ f \in Word
    BY <1>9, <2>1, <2>2 DEF Announce, Typed, Word
  <2>4. Post(c, f) /\ news' = [news EXCEPT ![c] = q]
    BY <1>9, <2>1, <2>2 DEF Announce
  <2>5. sessions' \in [Sids -> Conn \cup {Nobody}]
    BY <1>9 DEF Announce, Closed, Typed
  <2> QED
    <3>3. pc' \in [Conn -> Places \cup {"none", "queued", "gone"}] /\ wire' \in [Conn -> Seq(Word)]
      BY <2>3, <2>4, Posts
    <3>4. UNCHANGED <<listening, peer, inbound, writer, got, acked, epoch, request, events, lost, counts>>
      BY <1>9 DEF Announce
    <3>5. news' \in [Conn -> Seq(Nat)]
      BY <2>3, <2>4 DEF Typed
    <3>6. owned' \in [Conn -> SUBSET Sids]
      BY <1>9 DEF Announce, Typed
    <3>1. Typed'
      BY <2>5, <3>3, <3>4, <3>5, <3>6 DEF Typed, listening, inbound, outbound, broker, counts
    <3>2. \A d \in Conn \ {c} : Stays(d)
      BY <1>9, <2>3, <2>4, <2>5, Posts DEF Announce, Stays, Typed, listening, task, inbound, outbound, broker, held, counts
    <3> QED
      BY <3>1, <3>2 DEF Rest
<1>10. CASE EndLoop(c) \/ IdleOut(c)
  <2>1. "leaving" \in Places
    BY DEF Places
  <2> QED
    <3>3. /\ pc' = [pc EXCEPT ![c] = "leaving"]
          /\ UNCHANGED <<listening, peer, inbound, outbound, broker, held, counts>>
      BY <1>10 DEF EndLoop, IdleOut, Quits, Goes
    <3>4. pc' \in [Conn -> Places \cup {"none", "queued", "gone"}]
      BY <2>1, <3>3 DEF Typed
    <3>1. Typed'
      BY <3>3, <3>4 DEF Typed, listening, inbound, outbound, broker, held, counts
    <3>2. \A d \in Conn \ {c} : Stays(d)
      BY <1>10, <2>1 DEF EndLoop, IdleOut, Quits, Goes, Stays, Typed, listening, task, inbound, outbound, broker, held, counts
    <3> QED
      BY <3>1, <3>2 DEF Rest
<1> QED
  BY <1>6, <1>7, <1>8, <1>9, <1>10 DEF Serves

LEMMA RestRun ==
    ASSUME Typed, NEW c \in Conn, Staged(c), NEW ok \in BOOLEAN, Run(c, ok)
    PROVE  Rest(c)
<1> DEFINE m == request[c]
<1>1. m \in Requested /\ Opens(m)
  BY DEF Run, Staged
<1>2. PICK f : f = <<IF ok THEN "reply" ELSE "error", m.id>>
  OBVIOUS
<1>3. f \in Word
  BY <1>1, <1>2, Frames DEF Word
<1>4. UNCHANGED <<pc, wire>> \/ Post(c, f)
  BY <1>2 DEF Run
<1>5. /\ owned' \in [Conn -> SUBSET Sids]
      /\ \A d \in Conn \ {c} : owned'[d] = owned[d]
  <2>1. ok /\ m.type = "session.open" => m.sid \in Sids
    <3>1. m.sid \in {r.sid : r \in Requests}
      <4>1. PICK r \in Requests, n \in Nat \ {0} :
              m = [v |-> r.v, id |-> n, type |-> r.type, sid |-> r.sid,
                   action |-> r.action, sound |-> r.sound]
        BY <1>1 DEF Requested
      <4>2. m.sid = r.sid
        BY <4>1
      <4> QED
        BY <4>2
    <3> QED
      BY <1>1, <3>1 DEF Sids, Opens
  <2>2. PICK o : o = IF ok /\ m.type = "session.open" THEN owned[c] \cup {m.sid}
                     ELSE IF ok /\ m.type = "session.close" THEN owned[c] \ {m.sid}
                     ELSE owned[c]
    OBVIOUS
  <2>3. o \in SUBSET Sids
    BY <2>1, <2>2 DEF Typed
  <2>4. owned' = [owned EXCEPT ![c] = o]
    BY <2>2 DEF Run, Own
  <2> QED
    BY <2>3, <2>4 DEF Typed
<1>6. sessions' \in [Sids -> Conn \cup {Nobody}]
  BY DEF Run, Typed
<1> HIDE DEF m
<1>7. CASE UNCHANGED <<pc, wire>>
  BY <1>5, <1>6, <1>7 DEF Run, Rest, Stays, Typed, listening, task, inbound, outbound, broker, held, counts
<1>8. CASE Post(c, f)
  BY <1>3, <1>5, <1>6, <1>8, Posts DEF Run, Rest, Stays, Typed, listening, task, inbound, outbound, broker, held, counts
<1> QED
  BY <1>4, <1>7, <1>8

LEMMA RestEnds ==
    ASSUME Typed, NEW c \in Conn, Leave(c) \/ Drain(c) \/ Emit(c)
    PROVE  Rest(c)
<1>1. PICK e : e = <<>>
  OBVIOUS
<1>2. e \in Seq(Parts) /\ e \in Seq(Frame \cup {Bad, Eof}) /\ e \in Seq(Nat)
  BY <1>1
<1>3. CASE Leave(c)
  <2>1. sessions' \in [Sids -> Conn \cup {Nobody}]
    BY <1>3 DEF Leave, Closed, Typed
  <2>2. "drain" \in Places
    BY DEF Places
  <2> QED
    BY <1>1, <1>2, <1>3, <2>1, <2>2 DEF Leave, Goes, Rest, Stays, Typed, listening, task, inbound, outbound, broker, held, counts
<1>4. CASE Emit(c)
  <2>1. PICK q : q = Append(events[c], emitted[c] + 1)
    OBVIOUS
  <2>2. q \in Seq(Nat)
    BY <2>1 DEF Typed
  <2>3. events' = events \/ events' = [events EXCEPT ![c] = q]
    BY <1>4, <2>1 DEF Emit
  <2> QED
    <3>3. events' \in [Conn -> Seq(Nat)]
      BY <2>2, <2>3 DEF Typed
    <3>7. PICK n : n = emitted[c] + 1
      OBVIOUS
    <3>8. n \in Nat
      BY <3>7 DEF Typed
    <3>9. /\ emitted' = [emitted EXCEPT ![c] = n]
          /\ lost' = lost \/ lost' = [lost EXCEPT ![c] = TRUE]
      BY <1>4, <3>7 DEF Emit
    <3>4. emitted' \in [Conn -> Nat] /\ lost' \in [Conn -> BOOLEAN]
      <4>1. emitted \in [Conn -> Nat] /\ lost \in [Conn -> BOOLEAN]
        BY DEF Typed
      <4>2. emitted' \in [Conn -> Nat]
        BY <4>1, <3>8, <3>9
      <4>3. lost' \in [Conn -> BOOLEAN]
        BY <4>1, <3>9
      <4> QED
        BY <4>2, <4>3
    <3>5. UNCHANGED <<listening, task, peer, inbound, outbound, broker, request, owned, sent>>
      BY <1>4 DEF Emit
    <3>1. Typed'
      BY <3>3, <3>4, <3>5 DEF Typed, listening, task, inbound, outbound, broker
    <3>2. \A d \in Conn \ {c} : events'[d] = events[d] /\ lost'[d] = lost[d] /\ emitted'[d] = emitted[d]
      BY <1>4, <2>3 DEF Emit, Typed
    <3>6. \A d \in Conn \ {c} : Stays(d)
      BY <3>2, <3>5 DEF Stays, task, inbound, outbound, broker
    <3> QED
      BY <3>1, <3>6 DEF Rest
<1> QED
  BY <1>3, <1>4, RestGone DEF Drain

\* The server's own steps leave every connection's state.
LEMMA RestServer ==
    ASSUME Typed, Stop \/ ShutDown \/ Joined \/ NewEpoch
    PROVE  Typed' /\ \A d \in Conn : Stays(d)
<1>1. CASE Stop
  BY <1>1 DEF Stop, Stays, Typed, listening, task, inbound, outbound, broker, held, counts
<1>2. CASE ShutDown \/ Joined
  <2>1. sessions' \in [Sids -> Conn \cup {Nobody}]
    BY <1>2 DEF ShutDown, Joined, Shutdown, Typed
  <2> QED
    BY <1>2, <2>1 DEF ShutDown, Joined, Shutdown, Stays, Typed, listening, task, inbound, outbound, broker, held, counts
<1>3. CASE NewEpoch
  <2>1. \A c \in Conn : Append(news[c], epoch + 1) \in Seq(Nat)
    BY DEF Typed
  <2>2. news' \in [Conn -> Seq(Nat)]
    BY <1>3, <2>1 DEF NewEpoch, Typed
  <2> QED
    BY <1>3, <2>2 DEF NewEpoch, Stays, Typed, listening, task, inbound, outbound, broker, held, counts
<1> QED
  BY <1>1, <1>2, <1>3
-----------------------------------------------------------------------------
(* What a connection holds is kept                                         *)

\* What is beyond a number's reach is beyond that of a greater one.
LEMMA Higher ==
    ASSUME Typed, NEW c \in Conn, Staged(c), pc[c] \in {"up", "leaving"},
           NEW k \in Nat, NEW n \in Nat, k <= n
    PROVE  /\ Past(c, k) => Past(c, n)
           /\ Beyond(c, k) => Beyond(c, n)
<1>1. \A f \in Sent(c) : f[2] \in Nat
  BY DEF Typed, Sent, Word
<1>2. \A i \in DOMAIN inbox[c] : inbox[c][i].id \in Nat
  BY Frames DEF Staged
<1>3. request[c] # None => request[c].id \in Nat
  BY Frames DEF Staged
<1>4. Past(c, k) => Past(c, n)
  BY <1>1, <1>3 DEF Past, Above
<1> QED
  BY <1>2, <1>4 DEF Beyond

\* The words of another connection, and what it has, are as they were.
LEMMA Stay ==
    ASSUME NEW d \in Conn, Typed, Typed', Stays(d), Kept(d), sent <= sent', epoch <= epoch'
    PROVE  Kept(d)'
<1>1. Sent(d)' = Sent(d) /\ Flying(d)' = Flying(d)
  BY DEF Stays, Sent, Flying
<1>2. \A K : Ascends(d, K)' <=> Ascends(d, K)
  BY DEF Stays, Ascends
<1>3. \A n : /\ Above(d, n)' <=> Above(d, n)
             /\ Past(d, n)' <=> Past(d, n)
             /\ Beyond(d, n)' <=> Beyond(d, n)
  BY <1>1 DEF Stays, Above, Past, Beyond
<1>4. Staged(d)'
  BY <1>1 DEF Kept, Staged, Stays
<1>5. Paired(d)'
  BY DEF Kept, Paired, Stays
<1>6. Whole(d)'
  BY <1>1, <1>2 DEF Kept, Whole, Stays
<1>7. Limited(d)'
  BY DEF Kept, Limited, Stays, Typed
<1>8. Lined(d)'
  <2>6. sent \in Nat
    BY DEF Typed
  <2>7. sent' \in Nat
    BY DEF Typed
  <2>0. sent + 1 \in Nat /\ sent' + 1 \in Nat /\ sent + 1 <= sent' + 1 /\ sent \in Nat /\ sent' \in Nat
    <3>1. \A a, b \in Nat : a <= b => a + 1 \in Nat /\ b + 1 \in Nat /\ a + 1 <= b + 1
      OBVIOUS
    <3> QED
      BY <2>6, <2>7, <3>1
  <2>1. pc[d] \in {"up", "leaving"} => Beyond(d, sent' + 1) /\ \A m \in Flying(d) : m.id <= sent'
    <3>1. pc[d] \in {"up", "leaving"} => \A m \in Flying(d) : m.id \in Nat /\ m.id <= sent
      BY Frames DEF Kept, Staged, Lined
    <3>2. pc[d] \in {"up", "leaving"} => Beyond(d, sent + 1) /\ Staged(d)
      BY DEF Kept, Lined
    <3> QED
      BY <2>0, <3>1, <3>2, Higher
  <2>2. Ascends(d, Answers)'
    BY <1>2 DEF Kept, Lined
  <2>3. request'[d] # None => \A f \in Sent(d)' : f[1] \in Answers => f[2] < request'[d].id
    BY <1>1 DEF Kept, Lined, Stays, Above
  <2>4. request[d] = request'[d] /\ inbox[d] = inbox'[d] /\ pc[d] = pc'[d]
    BY DEF Stays
  <2>5. (request[d] # None => Above(d, request[d].id))'
    BY <2>3 DEF Above
  <2> QED
    BY <1>1, <1>3, <2>1, <2>2, <2>4, <2>5 DEF Kept, Lined
<1> QED
  BY <1>4, <1>5, <1>6, <1>7, <1>8 DEF Kept

\* A frame is given to the writer, or the loop ends instead.
Puts(c, f) ==
    /\ got'[c] = got[c]
    /\ \/ wire'[c] = wire[c]
       \/ writer[c] = "up" /\ wire'[c] = Append(wire[c], f) /\ Len(wire[c]) < WireCap

\* The number of f is above those of its kinds.
Tops(c, f, K) == f[1] \in K /\ f[2] # 0 => \A g \in Sent(c) : g[1] \in K => g[2] < f[2]

LEMMA Words ==
    ASSUME Typed, NEW c \in Conn, NEW f \in Word, Puts(c, f)
    PROVE  /\ Sent(c) \subseteq Sent(c)' /\ Sent(c)' \subseteq Sent(c) \cup {f}
           /\ wire'[c] = Append(wire[c], f) => f \in Sent(c)'
           /\ \A K : Ascends(c, K) /\ Tops(c, f, K) => Ascends(c, K)'
<1>1. PICK q \in Seq(Word) : q = wire[c]
  BY DEF Typed
<1>2. PICK w : w = wire'[c]
  OBVIOUS
<1>3. w = q \/ w = Append(q, f)
  BY <1>1, <1>2 DEF Puts
<1>4. \A i \in DOMAIN q : i \in Nat /\ i \in DOMAIN w /\ w[i] = q[i] /\ i <= Len(q)
  BY <1>3, Appended
<1>5. w # q => Len(q) + 1 \in DOMAIN w /\ w[Len(q) + 1] = f
  BY <1>3, Appended
<1>6. \A i \in DOMAIN w : i \in Nat /\ (i \in DOMAIN q \/ (i = Len(q) + 1 /\ w[i] = f))
  BY <1>3, <1>4, <1>5, Appended
<1>7. Sent(c) = got[c] \cup {q[i] : i \in DOMAIN q} /\ Sent(c)' = got[c] \cup {w[i] : i \in DOMAIN w}
  BY <1>1, <1>2 DEF Sent, Puts
<1>8. Sent(c) \subseteq Sent(c)' /\ Sent(c)' \subseteq Sent(c) \cup {f}
  BY <1>4, <1>6, <1>7
<1>9. w = Append(q, f) => f \in Sent(c)'
  BY <1>7, Appended
<1>10. ASSUME NEW K, Ascends(c, K), Tops(c, f, K)
       PROVE  Ascends(c, K)'
  <2>1. SUFFICES ASSUME NEW i \in DOMAIN w, w[i][1] \in K, w[i][2] # 0
                 PROVE  /\ \A g \in got[c] : g[1] \in K => g[2] < w[i][2]
                        /\ \A j \in 1 .. i - 1 : w[j][1] \in K => w[j][2] < w[i][2]
    BY <1>2 DEF Ascends, Puts
  <2>2. CASE i \in DOMAIN q
    <3>1. \A j \in 1 .. i - 1 : j \in DOMAIN q /\ w[j] = q[j]
      BY <1>4, <2>2
    <3> QED
      BY <1>1, <1>4, <1>10, <2>1, <2>2, <3>1 DEF Ascends
  <2>3. CASE i = Len(q) + 1 /\ w[i] = f
    <3>1. \A j \in 1 .. i - 1 : j \in DOMAIN q /\ w[j] = q[j]
      BY <1>4, <2>3
    <3>2. \A j \in 1 .. i - 1 : w[j] \in Sent(c)
      BY <1>7, <3>1
    <3> QED
      BY <1>7, <1>10, <2>1, <2>3, <3>2 DEF Tops
  <2> QED
    BY <1>6, <2>2, <2>3
<1> QED
  BY <1>1, <1>2, <1>8, <1>9, <1>10

\* The writer's first frame reaches the peer.
LEMMA Written ==
    ASSUME Typed, NEW c \in Conn, wire[c] # <<>>, wire'[c] = Tail(wire[c]),
           got'[c] = got[c] \cup {Head(wire[c])}
    PROVE  /\ Sent(c)' = Sent(c)
           /\ \A K : Ascends(c, K) => Ascends(c, K)'
<1>1. PICK q \in Seq(Word) : q = wire[c]
  BY DEF Typed
<1>2. PICK w : w = Tail(q)
  OBVIOUS
<1>3. /\ \A i \in DOMAIN w : i \in Nat /\ w[i] = q[i + 1] /\ i + 1 \in DOMAIN q
      /\ \A i \in DOMAIN q : i \in Nat /\ (i = 1 \/ (i - 1 \in DOMAIN w /\ i > 1))
      /\ 1 \in DOMAIN q /\ Head(q) = q[1] /\ Len(q) \in Nat /\ Len(q) > 0
  BY <1>1, <1>2, Tailed
<1>4. /\ Sent(c) = got[c] \cup {q[i] : i \in DOMAIN q}
      /\ Sent(c)' = got[c] \cup {q[1]} \cup {w[i] : i \in DOMAIN w}
  BY <1>1, <1>2, <1>3 DEF Sent
<1>5. Sent(c)' = Sent(c)
  <2>1. \A i \in DOMAIN q : i # 1 => i - 1 \in DOMAIN w /\ w[i - 1] = q[i]
    BY <1>3
  <2> QED
    BY <1>3, <1>4, <2>1
<1>6. ASSUME NEW K, Ascends(c, K)
      PROVE  Ascends(c, K)'
  <2>1. SUFFICES ASSUME NEW i \in DOMAIN w, w[i][1] \in K, w[i][2] # 0
                 PROVE  /\ \A g \in got[c] \cup {q[1]} : g[1] \in K => g[2] < w[i][2]
                        /\ \A j \in 1 .. i - 1 : w[j][1] \in K => w[j][2] < w[i][2]
    BY <1>1, <1>2, <1>3 DEF Ascends
  <2>2. /\ \A g \in got[c] : g[1] \in K => g[2] < q[i + 1][2]
        /\ \A j \in 1 .. i : q[j][1] \in K => q[j][2] < q[i + 1][2]
    BY <1>1, <1>3, <1>6, <2>1 DEF Ascends
  <2>3. \A j \in 1 .. i - 1 : j \in DOMAIN w /\ w[j] = q[j + 1] /\ j + 1 \in 1 .. i
    BY <1>1, <1>2, <1>3
  <2>4. 1 \in 1 .. i
    BY <1>1, <1>2, <1>3
  <2> QED
    BY <1>3, <2>2, <2>3, <2>4
<1> QED
  BY <1>5, <1>6
\* With its task, all that a connection holds is gone.
LEMMA KeptGone ==
    ASSUME Typed, Typed', NEW c \in Conn, Kept(c), Gone(c), pc[c] \notin {"up", "leaving"}
    PROVE  Kept(c)'
<1>1. /\ pc'[c] = "gone" /\ peer'[c] = "left" /\ stream'[c] = <<>> /\ owing'[c] = None
      /\ reader'[c] = None /\ inbox'[c] = <<>> /\ wire'[c] = <<>> /\ got'[c] = {}
      /\ events'[c] = <<>> /\ emitted'[c] = 0
      /\ owned'[c] = owned[c] /\ acked'[c] = acked[c] /\ epoch' = epoch /\ request'[c] = request[c]
  BY DEF Gone, Goes, Typed
<1>2. owned[c] = {} /\ request[c] = None
  BY DEF Kept, Staged
<1>3. Staged(c)'
  BY <1>1, <1>2 DEF Staged
<1>4. Paired(c)'
  BY <1>1 DEF Paired
<1>5. Lined(c)'
  BY <1>1, <1>2 DEF Lined, Ascends
<1>6. Whole(c)'
  BY <1>1 DEF Whole
<1>7. Limited(c)'
  BY <1>1, <1>2, ServingAssumption DEF Kept, Limited
<1> QED
  BY <1>3, <1>4, <1>5, <1>6, <1>7 DEF Kept

\* The connection's streams and tasks are as they were.
Held(c) ==
    /\ stream'[c] = stream[c] /\ owing'[c] = owing[c] /\ reader'[c] = reader[c]
    /\ inbox'[c] = inbox[c] /\ request'[c] = request[c] /\ owned'[c] = owned[c]
    /\ events'[c] = events[c] /\ lost'[c] = lost[c] /\ emitted'[c] = emitted[c]
    /\ wire'[c] = wire[c] /\ writer'[c] = writer[c] /\ epoch' = epoch
    /\ (acked'[c] = acked[c] \/ acked'[c] = epoch) /\ sent' = sent

\* The task goes on, before its loop or past it, or the peer turns.
Moved(c) ==
    \/ pc'[c] = pc[c] /\ (peer'[c] = "absent" => peer[c] = "absent")
    \/ pc[c] = "none" /\ pc'[c] = "queued" /\ peer'[c] # "absent"
    \/ pc[c] = "queued" /\ pc'[c] \in {"hello", "gone"} /\ peer'[c] = peer[c]
    \/ pc[c] = "up" /\ pc'[c] = "leaving" /\ peer'[c] = peer[c] /\ request[c] = None

LEMMA KeptMoved ==
    ASSUME Typed, Typed', NEW c \in Conn, Kept(c), Held(c), got'[c] = got[c], Moved(c)
    PROVE  Kept(c)'
<1>1. Sent(c)' = Sent(c) /\ Flying(c)' = Flying(c)
  BY DEF Held, Sent, Flying
<1>2. \A K : Ascends(c, K)' <=> Ascends(c, K)
  BY DEF Held, Ascends
<1>3. \A n : /\ Above(c, n)' <=> Above(c, n)
             /\ Past(c, n)' <=> Past(c, n)
             /\ Beyond(c, n)' <=> Beyond(c, n)
  BY <1>1 DEF Held, Above, Past, Beyond
<1>4. Staged(c)'
  BY <1>1 DEF Kept, Staged, Held, Moved
<1>5. Paired(c)'
  BY DEF Kept, Paired, Held, Moved
<1>6. Whole(c)'
  BY <1>1, <1>2 DEF Kept, Whole, Held, Moved
<1>7. Limited(c)'
  BY DEF Kept, Limited, Held, Typed
<1>8. Lined(c)'
  <2>1. pc'[c] \in {"up", "leaving"} => pc[c] \in {"up", "leaving"}
    BY DEF Moved
  <2>2. request[c] = request'[c] /\ inbox[c] = inbox'[c] /\ sent' = sent
    BY DEF Held
  <2>3. (request[c] # None => Above(c, request[c].id))'
    <3>1. request[c] # None => \A f \in Sent(c) : f[1] \in Answers => f[2] < request[c].id
      BY DEF Kept, Lined, Above
    <3> QED
      BY <1>1, <2>2, <3>1 DEF Above
  <2> QED
    BY <1>1, <1>2, <1>3, <2>1, <2>2, <2>3 DEF Kept, Lined
<1> QED
  BY <1>4, <1>5, <1>6, <1>7, <1>8 DEF Kept
\* The frames on their way keep their order as their peer sends one more.
LEMMA KeptHead ==
    ASSUME Typed, Typed', NEW c \in Conn, Kept(c), NEW m \in Frame, SendHead(c, m),
           \/ pc[c] \in {"queued", "hello"} /\ sent' = sent
           \/ /\ pc[c] \in {"up", "leaving"} /\ sent' = sent + 1
              /\ m \in Requested /\ m.id = sent + 1
    PROVE  Kept(c)'
<1>1. /\ peer[c] = "open" /\ owing[c] = None /\ stream[c] = <<>>
      /\ stream'[c] = <<Part("head", m)>> /\ owing'[c] = m
  BY DEF SendHead, Typed
<1>2. /\ pc' = pc /\ peer' = peer /\ reader' = reader /\ inbox' = inbox /\ request' = request
      /\ owned' = owned /\ events' = events /\ lost' = lost /\ emitted' = emitted
      /\ wire' = wire /\ writer' = writer /\ got' = got /\ acked' = acked /\ epoch' = epoch
  BY DEF SendHead, task, outbound, broker, held
<1>3. Sent(c)' = Sent(c)
  BY <1>2 DEF Sent
<1>4. \A K : Ascends(c, K)' <=> Ascends(c, K)
  BY <1>2 DEF Ascends
<1>5. \A n : /\ Above(c, n)' <=> Above(c, n)
             /\ Past(c, n)' <=> Past(c, n)
             /\ Beyond(c, n)' <=> Beyond(c, n)
  BY <1>2, <1>3 DEF Above, Past, Beyond
<1>6. m \notin {None, Ended}
  BY Frames
<1>7. Flying(c)' = Flying(c) \cup {m}
  <2>1. Flying(c) = {reader[c]} \ {None, Ended}
    BY <1>1 DEF Flying
  <2>2. DOMAIN <<Part("head", m)>> = {1} /\ <<Part("head", m)>>[1].frame = m
    BY DEF Part
  <2>3. {stream'[c][i].frame : i \in DOMAIN stream'[c]} = {m}
    BY <1>1, <2>2
  <2> QED
    BY <1>1, <1>2, <1>6, <2>1, <2>3 DEF Flying
<1>8. Staged(c)'
  BY <1>1, <1>2, <1>7 DEF Kept, Staged
<1>9. Paired(c)'
  <2>1. reader[c] = None \/ reader[c] = Ended \/ pc[c] = "leaving"
    BY <1>1 DEF Kept, Paired
  <2>2. Len(stream'[c]) = 1 /\ Is(stream'[c][1], "head", m)
    BY <1>1 DEF Is, Part
  <2> QED
    BY <1>1, <1>2, <1>6, <2>1, <2>2 DEF Paired
<1>10. Whole(c)'
  BY <1>2, <1>3, <1>4 DEF Kept, Whole
<1>11. Limited(c)'
  BY <1>2 DEF Kept, Limited
<1>12. Lined(c)'
  <2>1. sent \in Nat
    BY DEF Typed
  <2>2. request'[c] # None => Above(c, request'[c].id)
    BY <1>2 DEF Kept, Lined
  <2>3. \A i \in DOMAIN inbox[c] : pc[c] \in {"up", "leaving"} /\ inbox[c][i] \notin {Bad, Eof} => Past(c, inbox[c][i].id)
    BY DEF Kept, Lined
  <2>4. ASSUME pc[c] \in {"up", "leaving"}
        PROVE  /\ \A k \in Flying(c)' : k.id <= sent' /\ Beyond(c, k.id)
               /\ Beyond(c, sent' + 1)
    <3>1. sent' = sent + 1 /\ m.id = sent + 1
      BY <2>4
    <3>2. \A k \in Flying(c) : k.id \in Nat /\ k.id <= sent /\ Beyond(c, k.id)
      BY <2>4, Frames DEF Kept, Staged, Lined
    <3>3. Beyond(c, sent + 1) /\ Staged(c)
      BY <2>4 DEF Kept, Lined
    <3>4. sent + 1 \in Nat /\ sent + 2 \in Nat /\ sent + 1 <= sent + 2 /\ sent' + 1 = sent + 2
      BY <2>1, <3>1
    <3>5. Beyond(c, sent' + 1)
      BY <2>4, <3>3, <3>4, Higher
    <3>6. \A k \in Flying(c) : k.id <= sent'
      BY <2>1, <3>1, <3>2
    <3> QED
      BY <1>7, <2>1, <3>1, <3>2, <3>3, <3>5, <3>6
  <2>5. Ascends(c, Answers)' /\ (request[c] # None => Above(c, request[c].id))'
    <3>1. request[c] # None => \A f \in Sent(c) : f[1] \in Answers => f[2] < request[c].id
      BY <1>2, <2>2 DEF Above
    <3>2. request'[c] # None => \A f \in Sent(c)' : f[1] \in Answers => f[2] < request'[c].id
      BY <1>2, <1>3, <3>1
    <3> QED
      BY <1>4, <3>2 DEF Kept, Lined, Above
  <2> QED
    BY <1>2, <1>5, <2>3, <2>4, <2>5 DEF Lined
<1> QED
  BY <1>8, <1>9, <1>10, <1>11, <1>12 DEF Kept

\* Then that frame's body follows.
LEMMA KeptBody ==
    ASSUME Typed, Typed', NEW c \in Conn, Kept(c), SendBody(c)
    PROVE  Kept(c)'
<1>1. PICK m \in Frame : m = owing[c] /\ owing[c] # None
  BY DEF SendBody, Typed
<1>2. /\ stream'[c] = Append(stream[c], Part("body", m)) /\ owing'[c] = None
      /\ pc' = pc /\ peer' = peer /\ reader' = reader /\ inbox' = inbox /\ request' = request
      /\ owned' = owned /\ events' = events /\ lost' = lost /\ emitted' = emitted
      /\ wire' = wire /\ writer' = writer /\ got' = got /\ acked' = acked /\ epoch' = epoch
      /\ sent' = sent
  BY <1>1 DEF SendBody, task, outbound, broker, held, counts, Typed
<1>3. stream[c] \in Seq(Parts) /\ Part("body", m) \in Parts /\ Part("body", m).frame = m
  BY DEF Typed, Part, Parts
<1>4. PICK q \in Seq(Parts) : q = stream[c]
  BY <1>3
<1>5. m \notin {None, Ended}
  BY Frames
<1>6. Flying(c)' = Flying(c)
  <2>1. /\ \A i \in DOMAIN q : i \in DOMAIN stream'[c] /\ stream'[c][i] = q[i]
        /\ \A i \in DOMAIN stream'[c] : i \in DOMAIN q \/ stream'[c][i] = Part("body", m)
        /\ \E i \in DOMAIN stream'[c] : stream'[c][i] = Part("body", m)
    BY <1>2, <1>3, <1>4, Appended
  <2>2. {stream'[c][i].frame : i \in DOMAIN stream'[c]} = {q[i].frame : i \in DOMAIN q} \cup {m}
    BY <1>3, <2>1
  <2> QED
    BY <1>1, <1>2, <1>4, <1>5, <2>2 DEF Flying
<1>7. Sent(c)' = Sent(c)
  BY <1>2 DEF Sent
<1>8. \A K : Ascends(c, K)' <=> Ascends(c, K)
  BY <1>2 DEF Ascends
<1>9. \A n : /\ Above(c, n)' <=> Above(c, n)
             /\ Past(c, n)' <=> Past(c, n)
             /\ Beyond(c, n)' <=> Beyond(c, n)
  BY <1>2, <1>7 DEF Above, Past, Beyond
<1>10. Staged(c)'
  BY <1>1, <1>2, <1>5, <1>6 DEF Kept, Staged
<1>11. Paired(c)'
  <2>1. Len(q) <= 1 /\ Len(q) \in Nat /\ Len(stream'[c]) = Len(q) + 1
    BY <1>1, <1>2, <1>3, <1>4, Appended DEF Kept, Paired
  <2>5. /\ Is(stream'[c][Len(q) + 1], "body", m)
        /\ Len(q) = 1 => stream'[c][1] = q[1]
    BY <1>2, <1>3, <1>4, Appended DEF Is, Part
  <2>6. pc'[c] = pc[c] /\ reader'[c] = reader[c] /\ owing'[c] = None
    BY <1>2
  <2>2. CASE pc[c] \notin {"leaving", "drain", "gone"} /\ reader[c] = None
    <3>1. Len(q) = 1 /\ Is(q[1], "head", m)
      BY <1>1, <1>4, <2>2, Frames DEF Kept, Paired
    <3>2. Len(stream'[c]) = 2 /\ Is(stream'[c][2], "body", m) /\ Is(stream'[c][1], "head", m)
      BY <2>1, <2>5, <3>1
    <3> QED
      BY <2>2, <2>6, <3>2 DEF Paired, Is
  <2>3. CASE pc[c] \notin {"leaving", "drain", "gone"} /\ reader[c] \notin {None, Ended}
    <3>1. Len(q) = 0 /\ m = reader[c]
      BY <1>1, <1>4, <2>3 DEF Kept, Paired
    <3>2. Len(stream'[c]) = 1 /\ Is(stream'[c][1], "body", reader[c])
      BY <2>1, <2>5, <3>1
    <3> QED
      BY <2>3, <2>6, <3>2 DEF Paired
  <2>4. CASE pc[c] \in {"leaving", "drain", "gone"} \/ reader[c] = Ended
    BY <1>2, <2>1, <2>4 DEF Paired
  <2> QED
    BY <2>2, <2>3, <2>4
<1>12. Whole(c)'
  BY <1>2, <1>7, <1>8 DEF Kept, Whole
<1>13. Limited(c)'
  BY <1>2 DEF Kept, Limited
<1>14. Lined(c)'
  <2>1. (request[c] # None => Above(c, request[c].id))'
    <3>1. request[c] # None => \A f \in Sent(c) : f[1] \in Answers => f[2] < request[c].id
      BY DEF Kept, Lined, Above
    <3> QED
      BY <1>2, <1>7, <3>1 DEF Above
  <2> QED
    BY <1>2, <1>6, <1>8, <1>9, <2>1 DEF Kept, Lined
<1> QED
  BY <1>10, <1>11, <1>12, <1>13, <1>14 DEF Kept
LEMMA KeptPeers ==
    ASSUME Typed, Typed', NEW c \in Conn, Kept(c), Peer(c)
    PROVE  Kept(c)'
<1>1. CASE Connect(c)
  <2>1. /\ peer[c] = "absent" /\ peer'[c] = "open" /\ pc'[c] = "queued"
        /\ Held(c) /\ got'[c] = got[c]
    BY <1>1 DEF Connect, Goes, Typed, Held, listening, inbound, outbound, broker, held, counts
  <2>2. pc[c] = "none"
    BY <2>1 DEF Kept, Staged
  <2> QED
    BY <2>1, <2>2, KeptMoved DEF Moved
<1>2. CASE AckEpoch(c)
  <2>1. Held(c) /\ got'[c] = got[c] /\ Moved(c)
    BY <1>2 DEF AckEpoch, Typed, Held, Moved, listening, task, inbound, outbound, broker, held, counts
  <2> QED
    BY <2>1, KeptMoved
<1>3. ASSUME NEW into \in {"stuck", "left"}, Turn(c, into)
      PROVE  Kept(c)'
  <2>1. Held(c) /\ got'[c] = got[c] /\ Moved(c)
    BY <1>3 DEF Turn, Typed, Held, Moved, listening, task, inbound, outbound, broker, held, counts
  <2> QED
    BY <2>1, KeptMoved
<1>4. ASSUME NEW h \in Hellos, SendHello(c, h)
      PROVE  Kept(c)'
  <2>1. h \in Frame /\ pc[c] \in {"queued", "hello"} /\ sent' = sent /\ SendHead(c, h)
    BY <1>4 DEF SendHello, Frame
  <2> QED
    BY <2>1, KeptHead
<1>5. ASSUME NEW r \in Requests, SendRequest(c, r)
      PROVE  Kept(c)'
  <2> DEFINE m == [v |-> r.v, id |-> sent + 1, type |-> r.type, sid |-> r.sid,
                   action |-> r.action, sound |-> r.sound]
  <2>1. sent + 1 \in Nat \ {0}
    BY DEF Typed
  <2>2. m \in Requested /\ m \in Frame /\ m.id = sent + 1
    BY <2>1 DEF Frame, Requested
  <2>3. SendHead(c, m) /\ pc[c] \in {"up", "leaving"} /\ sent' = sent + 1
    BY <1>5 DEF SendRequest
  <2> HIDE DEF m
  <2> QED
    BY <2>2, <2>3, KeptHead
<1> QED
  BY <1>1, <1>2, <1>3, <1>4, <1>5, KeptBody DEF Peer

\* A connection that is told of the hello, or of the epoch, has nothing else yet.
LEMMA KeptTold ==
    ASSUME Typed, Typed', NEW c \in Conn, Kept(c), pc[c] \in {"ack", "greet"},
           NEW frame \in {"hello.ack", "authority"} \X Nat, NEW place \in {"greet", "up"},
           Told(c, frame, place)
    PROVE  Kept(c)'
<1>1. CASE Gone(c)
  BY <1>1, KeptGone
<1>2. CASE ~Gone(c)
  <2>1. /\ peer[c] = "open" /\ pc'[c] = place /\ got'[c] = got[c] \cup {frame}
        /\ Held(c) /\ peer'[c] = peer[c]
    BY <1>2 DEF Told, Goes, Typed, Held, listening, inbound, broker, held, counts
  <2>2. /\ stream[c] = <<>> /\ owing[c] = None /\ reader[c] = None /\ inbox[c] = <<>>
        /\ wire[c] = <<>> /\ events[c] = <<>> /\ emitted[c] = 0 /\ owned[c] = {} /\ request[c] = None
        /\ \A f \in got[c] : f[1] \in {"hello.ack", "authority"}
    BY DEF Kept, Staged
  <2>3. /\ stream'[c] = <<>> /\ owing'[c] = None /\ reader'[c] = None /\ inbox'[c] = <<>>
        /\ wire'[c] = <<>> /\ events'[c] = <<>> /\ emitted'[c] = 0 /\ owned'[c] = {} /\ request'[c] = None
        /\ sent' = sent
    BY <2>1, <2>2 DEF Held
  <2>4. \A f \in got'[c] : f[1] \in {"hello.ack", "authority"}
    BY <2>1, <2>2
  <2>5. Flying(c)' = {} /\ Sent(c)' = got'[c]
    BY <2>3 DEF Flying, Sent
  <2>6. Staged(c)'
    BY <2>1, <2>3, <2>4, <2>5 DEF Staged
  <2>7. Paired(c)'
    BY <2>3 DEF Paired
  <2>8. \A K : Ascends(c, K)'
    BY <2>3 DEF Ascends
  <2>9. Lined(c)'
    BY <2>3, <2>4, <2>5, <2>8 DEF Lined, Beyond, Past, Above, Answers
  <2>10. Whole(c)'
    <3>1. {f \in Sent(c)' : f[1] = "event"} = {}
      BY <2>4, <2>5
    <3>5. Len(events'[c]) = 0
      <4>1. PICK q : q = events'[c]
        OBVIOUS
      <4>2. q = <<>>
        BY <2>3, <4>1
      <4>3. Len(q) = 0
        BY <4>2
      <4> QED
        BY <4>1, <4>3
    <3>2. Len(events'[c]) = 0 /\ emitted'[c] - Len(events'[c]) = 0
      <4>1. \A a, b : a = 0 /\ b = 0 => a - b = 0
        OBVIOUS
      <4>2. emitted'[c] = 0
        BY <2>3
      <4> QED
        BY <3>5, <4>1, <4>2
    <3>3. {<<"event", n>> : n \in 1 .. 0} = {}
      OBVIOUS
    <3>4. \A i \in DOMAIN events'[c] : events'[c][i] = 0 + i
      BY <2>3
    <3> QED
      BY <2>8, <3>1, <3>2, <3>3, <3>4 DEF Whole
  <2>11. Limited(c)'
    BY <2>1 DEF Kept, Limited, Held, Typed
  <2> QED
    BY <2>6, <2>7, <2>9, <2>10, <2>11 DEF Kept
<1> QED
  BY <1>1, <1>2

\* The hello and its answers.
LEMMA KeptHello ==
    ASSUME Typed, Typed', NEW c \in Conn, Kept(c),
           Admit(c) \/ Greets(c) \/ Acknowledge(c) \/ Greet(c)
    PROVE  Kept(c)'
<1>1. CASE Admit(c)
  <2>1. Held(c) /\ got'[c] = got[c] /\ Moved(c)
    BY <1>1 DEF Admit, Goes, Typed, Held, Moved, listening, inbound, outbound, broker, held, counts
  <2> QED
    BY <2>1, KeptMoved
<1>2. CASE NoHello(c) \/ RefuseHello(c)
  BY <1>2, KeptGone DEF NoHello, RefuseHello
<1>3. CASE TakeHello(c)
  <2>1. /\ pc[c] = "hello" /\ Len(stream[c]) = 2 /\ pc'[c] = "ack" /\ stream'[c] = <<>>
        /\ peer' = peer /\ owing' = owing /\ reader' = reader /\ inbox' = inbox /\ request' = request
        /\ owned' = owned /\ events' = events /\ lost' = lost /\ emitted' = emitted
        /\ wire' = wire /\ writer' = writer /\ got' = got /\ acked' = acked /\ epoch' = epoch
        /\ sent' = sent
    BY <1>3 DEF TakeHello, Goes, Typed, outbound, broker, held, counts
  <2>2. owing[c] = None /\ reader[c] = None /\ wire[c] = <<>>
    BY <2>1 DEF Kept, Staged, Paired
  <2>3. Staged(c)'
    BY <2>1, <2>2 DEF Kept, Staged
  <2>4. Paired(c)'
    BY <2>1, <2>2 DEF Paired
  <2>5. request[c] = None
    BY <2>1 DEF Kept, Staged
  <2>6. Lined(c)'
    BY <2>1, <2>2, <2>5 DEF Lined, Ascends
  <2>7. Whole(c)'
    BY <2>1 DEF Whole
  <2>8. Limited(c)'
    BY <2>1 DEF Kept, Limited
  <2> QED
    BY <2>3, <2>4, <2>6, <2>7, <2>8 DEF Kept
<1>4. <<"hello.ack", 0>> \in {"hello.ack", "authority"} \X Nat
      /\ <<"authority", epoch>> \in {"hello.ack", "authority"} \X Nat
  BY DEF Typed
<1>5. CASE Acknowledge(c)
  BY <1>4, <1>5, KeptTold DEF Acknowledge
<1>6. CASE Greet(c)
  BY <1>4, <1>6, KeptTold DEF Greet
<1> QED
  BY <1>1, <1>2, <1>3, <1>5, <1>6 DEF Greets
\* The reader takes the next part, in step with its frame.
LEMMA KeptReads ==
    ASSUME Typed, Typed', NEW c \in Conn, Kept(c), ReadHead(c) \/ ReadBody(c) \/ ReadEnd(c)
    PROVE  Kept(c)'
<1>1. /\ pc[c] = "up" /\ reader[c] # Ended
      /\ pc' = pc /\ peer' = peer /\ owing' = owing /\ request' = request
      /\ owned' = owned /\ events' = events /\ lost' = lost /\ emitted' = emitted
      /\ wire' = wire /\ writer' = writer /\ got' = got /\ acked' = acked /\ epoch' = epoch
      /\ sent' = sent
  BY DEF ReadHead, ReadBody, ReadEnd, Reads, task, outbound, broker, held, counts
<1>2. Sent(c)' = Sent(c)
  BY <1>1 DEF Sent
<1>3. \A K : Ascends(c, K)' <=> Ascends(c, K)
  BY <1>1 DEF Ascends
<1>4. \A n : Past(c, n)' <=> Past(c, n)
  BY <1>1, <1>2 DEF Above, Past
<1>5. Whole(c)'
  BY <1>1, <1>2, <1>3 DEF Kept, Whole
<1>6. PICK q \in Seq(Parts) : q = stream[c]
  BY DEF Typed
<1>7. Flying(c) \subseteq Requested /\ owing[c] # Ended
  BY <1>1, Frames DEF Kept, Staged, Typed
<1>8. ASSUME NEW result \in Requested \cup {Bad, Eof}, inbox[c] = <<>>, inbox'[c] = <<result>>,
             Flying(c)' \subseteq Flying(c), Paired(c)',
             result \in Requested => Opens(result) /\ result \in Flying(c) /\ Flying(c)' = {}
      PROVE  Kept(c)'
  <2>1. Len(inbox'[c]) = 1 /\ \A i \in DOMAIN inbox'[c] : inbox'[c][i] = result
    BY <1>8
  <2>2. Staged(c)'
    BY <1>1, <1>7, <1>8, <2>1 DEF Kept, Staged
  <2>3. Limited(c)'
    BY <1>1, <2>1 DEF Kept, Limited
  <2>4. /\ \A m \in Flying(c) : m.id \in Nat /\ m.id # 0 /\ m.id <= sent /\ Past(c, m.id)
        /\ Past(c, sent + 1) /\ sent \in Nat /\ result.id \in Nat
    BY <1>1, <1>7, Frames DEF Kept, Lined, Beyond, Typed
  <2>5. \A i \in DOMAIN inbox'[c] : inbox'[c][i] \notin {Bad, Eof} => Past(c, inbox'[c][i].id)
    BY <1>8, <2>1, <2>4
  <2>6. result \in {Bad, Eof} => result.id = 0
    BY Frames
  <2>7. /\ \A m \in Flying(c)' : m.id <= sent' /\ Past(c, m.id) /\ result.id < m.id
        /\ Past(c, sent + 1) /\ result.id < sent + 1
    <3>1. CASE result \in Requested
      BY <1>8, <2>4, <3>1
    <3>2. CASE result \in {Bad, Eof}
      BY <1>1, <1>8, <2>4, <2>6, <3>2
    <3> QED
      BY <3>1, <3>2
  <2>8. (\A m \in Flying(c) : m.id <= sent /\ Beyond(c, m.id))' /\ Beyond(c, sent + 1)'
    BY <1>1, <1>4, <2>1, <2>7 DEF Beyond
  <2>9. (request[c] # None => Above(c, request[c].id))'
    <3>1. request[c] # None => \A f \in Sent(c) : f[1] \in Answers => f[2] < request[c].id
      BY DEF Kept, Lined, Above
    <3> QED
      BY <1>1, <1>2, <3>1 DEF Above
  <2>10. Lined(c)'
    BY <1>3, <1>4, <2>5, <2>8, <2>9 DEF Kept, Lined
  <2> QED
    BY <1>5, <2>2, <2>3, <2>10, <1>8 DEF Kept
<1>9. Deliver(c, Bad) \/ Deliver(c, Eof) => reader'[c] = Ended
  BY DEF Deliver, Typed
<1>10. ASSUME NEW result \in {Bad, Eof}, Deliver(c, result), Len(stream'[c]) <= 2, Len(stream'[c]) \in Nat,
              owing[c] # None => Len(stream'[c]) <= 1,
              \A i \in DOMAIN stream'[c] : \E j \in DOMAIN q : stream'[c][i] = q[j]
       PROVE  Kept(c)'
  <2>1. reader'[c] = Ended /\ inbox[c] = <<>> /\ inbox'[c] = <<result>>
    BY <1>9, <1>10 DEF Deliver, Typed
  <2>2. Flying(c)' \subseteq Flying(c)
    BY <1>1, <1>6, <1>10, <2>1 DEF Flying
  <2>3. Paired(c)'
    BY <1>1, <1>10, <2>1 DEF Paired
  <2> QED
    BY <1>8, <2>1, <2>2, <2>3, Frames
<1>11. q # <<>> => /\ Tail(q) \in Seq(Parts) /\ Head(q) = q[1] /\ Len(q) \in Nat /\ Len(q) > 0
                   /\ Len(Tail(q)) = Len(q) - 1 /\ 1 \in DOMAIN q
                   /\ \A i \in DOMAIN Tail(q) : i \in Nat /\ Tail(q)[i] = q[i + 1] /\ i + 1 \in DOMAIN q
  BY Tailed
<1>12. Len(q) <= 2 /\ (owing[c] # None => Len(q) <= 1)
  BY <1>6 DEF Kept, Paired
<1>13. CASE ReadHead(c)
  <2>1. reader[c] = None /\ q # <<>> /\ stream'[c] = Tail(q)
    BY <1>6, <1>13 DEF ReadHead, Typed
  <2>2. CASE Head(q).part # "head"
    <3>1. Deliver(c, Bad)
      BY <1>6, <1>13, <2>2 DEF ReadHead
    <3> QED
      BY <1>10, <1>11, <1>12, <2>1, <3>1
  <2>3. CASE Head(q).part = "head"
    <3>1. PICK m : m = q[1].frame
      OBVIOUS
    <3>2. reader'[c] = m /\ inbox' = inbox
      BY <1>6, <1>11, <1>13, <2>1, <2>3, <3>1 DEF ReadHead, Typed
    <3>3. m \in Flying(c) /\ m \in Requested
      BY <1>6, <1>7, <1>11, <2>1, <3>1 DEF Flying
    <3>4. Flying(c)' \subseteq Flying(c)
      BY <1>1, <1>6, <1>11, <2>1, <3>2, <3>3 DEF Flying
    <3>5. m \notin {None, Ended}
      BY <3>3, Frames
    <3>6. Paired(c)'
      <4>1. \/ owing[c] # None /\ Len(q) = 1 /\ q[1].frame = owing[c]
            \/ owing[c] = None /\ Len(q) = 2 /\ q[1].frame = q[2].frame /\ q[2].part = "body"
        BY <1>1, <1>6, <1>11, <2>1 DEF Kept, Paired, Is
      <4>2. CASE owing[c] # None /\ Len(q) = 1 /\ q[1].frame = owing[c]
        <5>1. Len(stream'[c]) = 0 /\ owing'[c] = m /\ reader'[c] = m
          BY <1>1, <1>11, <2>1, <3>1, <3>2, <4>2
        <5> QED
          BY <3>5, <5>1 DEF Paired
      <4>3. CASE owing[c] = None /\ Len(q) = 2 /\ q[1].frame = q[2].frame /\ q[2].part = "body"
        <5>1. Len(stream'[c]) = 1 /\ stream'[c][1] = q[2] /\ owing'[c] = None /\ reader'[c] = m
          <6>1. Len(Tail(q)) = 1 /\ Tail(q)[1] = q[2]
            BY <4>3, Second
          <6> QED
            BY <1>1, <2>1, <3>2, <4>3, <6>1
        <5>2. Is(stream'[c][1], "body", m)
          BY <3>1, <4>3, <5>1 DEF Is
        <5> QED
          BY <3>5, <5>1, <5>2 DEF Paired
      <4> QED
        BY <4>1, <4>2, <4>3
    <3>7. Staged(c)'
      BY <1>1, <1>7, <3>2, <3>4 DEF Kept, Staged
    <3>8. Limited(c)'
      BY <1>1, <3>2 DEF Kept, Limited
    <3>9. \A n : Beyond(c, n)' <=> Beyond(c, n)
      BY <1>4, <3>2 DEF Beyond
    <3>10. (request[c] # None => Above(c, request[c].id))'
      <4>1. request[c] # None => \A f \in Sent(c) : f[1] \in Answers => f[2] < request[c].id
        BY DEF Kept, Lined, Above
      <4> QED
        BY <1>1, <1>2, <4>1 DEF Above
    <3>11. Lined(c)'
      BY <1>1, <1>3, <1>4, <3>2, <3>4, <3>9, <3>10 DEF Kept, Lined
    <3> QED
      BY <1>5, <3>6, <3>7, <3>8, <3>11 DEF Kept
  <2> QED
    BY <2>2, <2>3
<1>14. CASE ReadBody(c)
  <2>1. reader[c] # None /\ q # <<>> /\ stream'[c] = Tail(q)
        /\ Deliver(c, IF WellShaped(reader[c]) THEN reader[c] ELSE Bad)
    BY <1>6, <1>14 DEF ReadBody, Typed
  <2>2. CASE ~WellShaped(reader[c])
    BY <1>10, <1>11, <1>12, <2>1, <2>2
  <2>3. CASE WellShaped(reader[c])
    <3>1. PICK m : m = reader[c]
      OBVIOUS
    <3>2. m \in Flying(c) /\ m \in Requested /\ m \notin {Bad, Eof}
      <4>1. m \in Flying(c)
        BY <1>1, <2>1, <3>1 DEF Flying
      <4> QED
        BY <1>7, <4>1, Frames
    <3>3. inbox[c] = <<>> /\ inbox'[c] = <<m>> /\ reader'[c] = None
      BY <2>1, <2>3, <3>1, <3>2 DEF Deliver, Typed
    <3>4. Opens(m)
      BY <2>3, <3>1 DEF WellShaped, Opens, Sessional
    <3>5. owing[c] = None /\ Len(q) = 1
      BY <1>1, <1>6, <1>11, <2>1 DEF Kept, Paired
    <3>6. Len(stream'[c]) = 0 /\ stream'[c] = <<>>
      BY <1>11, <2>1, <3>5
    <3>7. Flying(c)' = {} /\ Paired(c)'
      BY <1>1, <3>3, <3>5, <3>6 DEF Flying, Paired
    <3> QED
      BY <1>8, <3>2, <3>3, <3>4, <3>7
  <2> QED
    BY <2>2, <2>3
<1>15. CASE ReadEnd(c)
  <2>1. stream' = stream /\ q = <<>>
    BY <1>6, <1>15 DEF ReadEnd
  <2>2. PICK result \in {Bad, Eof} : Deliver(c, result)
    BY <1>15 DEF ReadEnd
  <2> QED
    BY <1>6, <1>10, <2>1, <2>2
<1> QED
  BY <1>13, <1>14, <1>15
\* The writer gives the peer what it holds, or ends.
LEMMA KeptWrites ==
    ASSUME Typed, Typed', NEW c \in Conn, Kept(c), Write(c) \/ WriteFails(c)
    PROVE  Kept(c)'
<1>1. /\ pc' = pc /\ peer' = peer /\ owing' = owing /\ request' = request
      /\ owned' = owned /\ events' = events /\ lost' = lost /\ emitted' = emitted
      /\ stream' = stream /\ reader' = reader /\ inbox' = inbox /\ acked' = acked /\ epoch' = epoch
      /\ sent' = sent
  BY DEF Write, WriteFails, task, inbound, broker, held, counts
<1>2. wire[c] # <<>> /\ writer[c] = "up"
  BY DEF Write, WriteFails
<1>3. PICK q \in Seq(Word) : q = wire[c]
  BY DEF Typed
<1>5. pc[c] \notin {"none", "queued", "hello", "ack", "greet"}
  BY <1>2 DEF Kept, Staged
<1>6. Flying(c)' = Flying(c)
  BY <1>1 DEF Flying
<1>7. Staged(c)'
  BY <1>1, <1>5, <1>6 DEF Kept, Staged
<1>8. Paired(c)'
  BY <1>1 DEF Kept, Paired
<1>9. ASSUME Sent(c)' \subseteq Sent(c), Ascends(c, Answers)'
      PROVE  Lined(c)'
  <2>1. \A n : /\ Above(c, n) => Above(c, n)'
               /\ Past(c, n) => Past(c, n)'
               /\ Beyond(c, n) => Beyond(c, n)'
    BY <1>1, <1>9 DEF Above, Past, Beyond
  <2>2. (request[c] # None => Above(c, request[c].id))'
    <3>1. request[c] # None => \A f \in Sent(c) : f[1] \in Answers => f[2] < request[c].id
      BY DEF Kept, Lined, Above
    <3> QED
      BY <1>1, <1>9, <3>1 DEF Above
  <2> QED
    BY <1>1, <1>6, <1>9, <2>1, <2>2 DEF Kept, Lined
<1>10. CASE Write(c)
  <2>1. wire'[c] = Tail(wire[c]) /\ got'[c] = got[c] \cup {Head(wire[c])} /\ writer' = writer
    BY <1>10 DEF Write, Typed
  <2>2. Sent(c)' = Sent(c) /\ \A K : Ascends(c, K) => Ascends(c, K)'
    BY <1>2, <2>1, Written
  <2>3. Lined(c)'
    BY <1>9, <2>2 DEF Kept, Lined
  <2>4. Whole(c)'
    BY <1>1, <2>1, <2>2 DEF Kept, Whole
  <2>5. Len(wire'[c]) <= WireCap
    <3>1. Len(wire'[c]) = Len(q) - 1 /\ Len(q) \in Nat /\ Len(q) <= WireCap
      BY <1>2, <1>3, <2>1, Tailed DEF Kept, Limited
    <3> QED
      BY <3>1, ServingAssumption
  <2>6. Limited(c)'
    BY <1>1, <2>5 DEF Kept, Limited
  <2> QED
    BY <1>7, <1>8, <2>3, <2>4, <2>6 DEF Kept
<1>11. CASE WriteFails(c)
  <2>1. wire'[c] = <<>> /\ got'[c] = got[c] /\ writer'[c] = "ended"
    BY <1>11 DEF WriteFails, Typed
  <2>2. Sent(c)' \subseteq Sent(c) /\ Ascends(c, Answers)'
    BY <2>1 DEF Sent, Ascends
  <2>3. Lined(c)'
    BY <1>9, <2>2
  <2>4. Whole(c)'
    BY <2>1 DEF Whole
  <2>5. Len(wire'[c]) <= WireCap
    BY <2>1, ServingAssumption
  <2>6. Limited(c)'
    BY <1>1, <2>5 DEF Kept, Limited
  <2> QED
    BY <1>7, <1>8, <2>3, <2>4, <2>6 DEF Kept
<1> QED
  BY <1>10, <1>11
-----------------------------------------------------------------------------
(* The serve loop keeps it                                                 *)

\* A step of the loop, which may end it.
Loops(c) ==
    /\ pc[c] = "up" /\ pc'[c] \in {"up", "leaving"}
    /\ peer'[c] = peer[c] /\ stream'[c] = stream[c] /\ owing'[c] = owing[c]
    /\ reader'[c] = reader[c] /\ lost'[c] = lost[c] /\ emitted'[c] = emitted[c]
    /\ writer'[c] = writer[c] /\ acked'[c] = acked[c] /\ epoch' = epoch /\ sent' = sent
    /\ inbox'[c] \in {inbox[c], <<>>}

\* The number k is of a request that comes after the answers given, and before
\* what the connection has yet to take.
Due(c, k) ==
    /\ Above(c, k) /\ \A n \in Nat : Beyond(c, n) => k < n
    /\ \A i \in DOMAIN inbox'[c] : inbox'[c][i] \notin {Bad, Eof} => k < inbox'[c][i].id

LEMMA KeptLines ==
    ASSUME Typed, Typed', NEW c \in Conn, Kept(c), Loops(c), NEW f \in Word, Puts(c, f),
           f[1] \in Answers /\ f[2] # 0 => Due(c, f[2]),
           request'[c] # None =>
               /\ request'[c] \in Requested /\ inbox'[c] = <<>> /\ wire'[c] = wire[c]
               /\ Due(c, request'[c].id)
    PROVE  Lined(c)'
<1>1. /\ Sent(c)' \subseteq Sent(c) \cup {f}
      /\ \A K : Ascends(c, K) /\ Tops(c, f, K) => Ascends(c, K)'
      /\ wire'[c] = wire[c] => Sent(c)' = Sent(c)
  BY Words DEF Sent, Puts
<1>2. Ascends(c, Answers)'
  <2>1. Tops(c, f, Answers)
    BY DEF Tops, Due, Above
  <2> QED
    BY <1>1, <2>1 DEF Kept, Lined
<1>3. ASSUME NEW n \in Nat, n # 0, Above(c, n), f[1] \in Answers /\ f[2] # 0 => f[2] < n
      PROVE  Above(c, n)'
  <2>1. f[2] \in Nat
    BY DEF Word
  <2>2. f[1] \in Answers => f[2] < n
    BY <1>3, <2>1
  <2> QED
    BY <1>1, <1>3, <2>2 DEF Above
<1>4. (request[c] # None => Above(c, request[c].id))'
  <2>1. request'[c] # None => \A g \in Sent(c)' : g[1] \in Answers => g[2] < request'[c].id
    BY <1>1 DEF Due, Above
  <2> QED
    BY <2>1 DEF Above
<1>5. Flying(c)' = Flying(c) /\ pc[c] = "up" /\ sent' = sent /\ sent \in Nat
  BY DEF Loops, Flying, Typed
<1>6. \A i \in DOMAIN inbox'[c] : /\ i \in DOMAIN inbox[c] /\ inbox'[c][i] = inbox[c][i]
                                 /\ request'[c] = None
  BY DEF Loops
<1>7. \A i \in DOMAIN inbox[c] : inbox[c][i] \notin {Bad, Eof} =>
          /\ Above(c, inbox[c][i].id) /\ inbox[c][i].id \in Nat /\ inbox[c][i].id # 0
  BY <1>5, Frames DEF Kept, Lined, Past, Staged
<1>8. (\A i \in DOMAIN inbox[c] : inbox[c][i] \notin {Bad, Eof} => Past(c, inbox[c][i].id))'
  <2>1. ASSUME NEW i \in DOMAIN inbox'[c], inbox'[c][i] \notin {Bad, Eof}
        PROVE  /\ \A g \in Sent(c)' : g[1] \in Answers => g[2] < inbox'[c][i].id
               /\ request'[c] = None
    <3>1. PICK n : n = inbox'[c][i].id
      OBVIOUS
    <3>2. n \in Nat /\ n # 0 /\ Above(c, n) /\ request'[c] = None
      BY <1>6, <1>7, <2>1, <3>1
    <3>3. f[1] \in Answers /\ f[2] # 0 => f[2] < n
      BY <2>1, <3>1 DEF Due
    <3>4. Above(c, n)'
      BY <1>3, <3>2, <3>3
    <3>5. \A g \in Sent(c)' : g[1] \in Answers => g[2] < inbox'[c][i].id
      BY <3>1, <3>4 DEF Above
    <3> QED
      BY <3>2, <3>5
  <2> QED
    BY <2>1 DEF Past, Above
<1>9. ASSUME NEW n \in Nat, n # 0, Beyond(c, n)
      PROVE  Beyond(c, n)'
  <2>1. Above(c, n) /\ (f[1] \in Answers /\ f[2] # 0 => f[2] < n)
    BY <1>9 DEF Beyond, Past, Due
  <2>2. Above(c, n)'
    BY <1>3, <1>9, <2>1
  <2>3. request'[c] # None => request'[c].id < n
    BY <1>9 DEF Due
  <2>4. \A i \in DOMAIN inbox'[c] : inbox'[c][i].id < n
    BY <1>6, <1>9 DEF Beyond
  <2> QED
    BY <2>2, <2>3, <2>4 DEF Beyond, Past
<1>10. \A m \in Flying(c) : m.id \in Nat /\ m.id # 0 /\ m.id <= sent /\ Beyond(c, m.id)
  BY <1>5, Frames DEF Kept, Staged, Lined
<1>11. (\A m \in Flying(c) : m.id <= sent /\ Beyond(c, m.id))'
  BY <1>5, <1>9, <1>10
<1>12. Beyond(c, sent + 1)'
  <2>1. PICK n : n = sent + 1
    OBVIOUS
  <2>2. n \in Nat /\ n # 0 /\ Beyond(c, n)
    BY <1>5, <2>1 DEF Kept, Lined
  <2>3. Beyond(c, n)' /\ n = sent' + 1
    BY <1>5, <1>9, <2>1, <2>2
  <2> QED
    BY <2>3 DEF Beyond, Past, Above
<1> QED
  BY <1>2, <1>4, <1>8, <1>11, <1>12 DEF Lined

\* With its answers in order and its events whole, the rest is kept.
LEMMA KeptLoop ==
    ASSUME Typed, Typed', NEW c \in Conn, Kept(c), Loops(c), NEW f \in Word, Puts(c, f),
           Lined(c)', Whole(c)', Len(events'[c]) <= EventCap,
           IsFiniteSet(owned'[c]) /\ Cardinality(owned'[c]) <= SessionCap,
           request'[c] # None =>
               /\ pc'[c] = "up" /\ request'[c] \in Requested /\ Opens(request'[c])
               /\ request'[c].type = "session.open" => Cardinality(owned'[c]) < SessionCap
    PROVE  Kept(c)'
<1>1. Flying(c)' = Flying(c)
  BY DEF Loops, Flying
<1>2. Staged(c)'
  BY <1>1 DEF Kept, Staged, Loops
<1>3. Paired(c)'
  BY DEF Kept, Paired, Loops
<1>4. Len(wire'[c]) <= WireCap
  <2>1. PICK q \in Seq(Word) : q = wire[c]
    BY DEF Typed
  <2>2. Len(q) <= WireCap
    BY <2>1 DEF Kept, Limited
  <2>3. Len(q) < WireCap => Len(Append(q, f)) <= WireCap
    <3>1. Len(Append(q, f)) = Len(q) + 1 /\ Len(q) \in Nat
      BY Appended
    <3> QED
      BY <3>1, ServingAssumption
  <2> QED
    BY <2>1, <2>2, <2>3 DEF Puts
<1>5. Limited(c)'
  <2>1. Len(inbox'[c]) <= 1
    BY DEF Loops, Kept, Limited
  <2>2. acked'[c] <= epoch'
    BY DEF Loops, Kept, Limited
  <2> QED
    BY <1>4, <2>1, <2>2 DEF Limited
<1> QED
  BY <1>2, <1>3, <1>5 DEF Kept

\* A frame that is no event leaves the events as they were.
LEMMA KeptEvents ==
    ASSUME Typed, Typed', NEW c \in Conn, Kept(c), Loops(c), NEW f \in Word, Puts(c, f),
           f[1] # "event", events'[c] = events[c]
    PROVE  Whole(c)' /\ Len(events'[c]) <= EventCap
<1>1. /\ Sent(c) \subseteq Sent(c)' /\ Sent(c)' \subseteq Sent(c) \cup {f}
      /\ \A K : Ascends(c, K) /\ Tops(c, f, K) => Ascends(c, K)'
  BY Words
<1>2. Tops(c, f, {"event"})
  BY DEF Tops
<1>3. {g \in Sent(c)' : g[1] = "event"} = {g \in Sent(c) : g[1] = "event"}
  BY <1>1
<1>4. Whole(c)'
  BY <1>1, <1>2, <1>3 DEF Kept, Whole, Loops
<1> QED
  BY <1>4 DEF Kept, Limited
\* The loop takes the end of the frames, or a request.
LEMMA KeptTakes ==
    ASSUME Typed, Typed', NEW c \in Conn, Kept(c), TakeEnd(c) \/ TakeRequest(c)
    PROVE  Kept(c)'
<1>1. /\ pc[c] = "up" /\ request[c] = None /\ inbox[c] # <<>> /\ inbox'[c] = <<>>
      /\ terms' = terms /\ peer' = peer /\ stream' = stream /\ owing' = owing /\ reader' = reader
      /\ writer' = writer /\ got' = got /\ sessions' = sessions /\ acked' = acked /\ epoch' = epoch
      /\ owned' = owned /\ events' = events /\ lost' = lost /\ sent' = sent /\ emitted' = emitted
  BY DEF TakeEnd, TakeRequest, Take, Idle, listening, broker, counts, Typed
<1>2. Len(inbox[c]) >= 1 /\ 1 \in DOMAIN inbox[c]
  BY <1>1 DEF Typed
<1>3. IsFiniteSet(owned'[c]) /\ Cardinality(owned'[c]) <= SessionCap /\ owned'[c] = owned[c]
  BY <1>1 DEF Kept, Limited
<1>4. PICK e : e = <<"error", 0>>
  OBVIOUS
<1>5. e \in Word /\ e[1] = "error" /\ e[2] = 0
  BY <1>4 DEF Word
<1>6. ASSUME NEW f \in Word, f[1] # "event", Puts(c, f), pc'[c] \in {"up", "leaving"},
             request'[c] = None, f[1] \in Answers /\ f[2] # 0 => Due(c, f[2])
      PROVE  Kept(c)'
  <2>1. Loops(c) /\ events'[c] = events[c]
    BY <1>1, <1>6 DEF Loops
  <2>2. Lined(c)'
    BY <1>6, <2>1, KeptLines
  <2>3. Whole(c)' /\ Len(events'[c]) <= EventCap
    BY <1>6, <2>1, KeptEvents
  <2> QED
    BY <1>3, <1>6, <2>1, <2>2, <2>3, KeptLoop
<1>7. CASE TakeEnd(c)
  <2>1. request'[c] = None
    BY <1>1, <1>7 DEF TakeEnd
  <2>2. Puts(c, e) /\ pc'[c] \in {"up", "leaving"}
    <3>1. CASE PostLast(c, e)
      BY <1>1, <1>5, <3>1, Posts DEF Puts
    <3>2. CASE Goes(c, "leaving") /\ wire' = wire
      BY <1>1, <3>2 DEF Goes, Puts, Typed
    <3> QED
      BY <1>4, <1>7, <3>1, <3>2 DEF TakeEnd
  <2> QED
    BY <1>5, <1>6, <2>1, <2>2
<1>8. CASE TakeRequest(c)
  <2>1. PICK m : m = inbox[c][1]
    OBVIOUS
  <2>2. m \notin {Bad, Eof}
    BY <1>8, <2>1 DEF TakeRequest
  <2>3. m \in Requested /\ Opens(m) /\ m.id \in Nat /\ m.id # 0
    BY <1>1, <1>2, <2>1, <2>2, Frames DEF Kept, Staged
  <2>4. Above(c, m.id)
    BY <1>1, <1>2, <2>1, <2>2 DEF Kept, Lined, Past
  <2>5. Due(c, m.id)
    BY <1>1, <1>2, <2>1, <2>4 DEF Due, Beyond
  <2>6. PICK g : g = <<"error", m.id>>
    OBVIOUS
  <2>7. g \in Word /\ g[1] = "error" /\ g[2] = m.id
    BY <2>3, <2>6 DEF Word
  <2>8. CASE request' = request /\ (PostLast(c, g) \/ Post(c, g))
    <3>1. Puts(c, g) /\ pc'[c] \in {"up", "leaving"}
      BY <1>1, <2>7, <2>8, Posts DEF Puts
    <3>2. request'[c] = None
      BY <1>1, <2>8
    <3> QED
      BY <1>6, <2>5, <2>7, <3>1, <3>2
  <2>9. CASE /\ Verdict(terms[c], Current(c), owned[c], SessionCap, m) = "run"
             /\ request' = [request EXCEPT ![c] = m] /\ pc' = pc /\ wire' = wire
    <3>1. request'[c] = m /\ pc'[c] = "up" /\ wire'[c] = wire[c]
      BY <1>1, <2>9 DEF Typed
    <3>2. Loops(c) /\ events'[c] = events[c] /\ Puts(c, e)
      BY <1>1, <3>1 DEF Loops, Puts
    <3>3. Lined(c)'
      BY <1>1, <1>5, <2>3, <2>5, <3>1, <3>2, KeptLines
    <3>4. Whole(c)' /\ Len(events'[c]) <= EventCap
      BY <1>5, <3>2, KeptEvents
    <3>5. m.type = "session.open" => Cardinality(owned[c]) < SessionCap
      BY <2>9 DEF Verdict
    <3> QED
      BY <1>3, <1>5, <2>3, <3>1, <3>2, <3>3, <3>4, <3>5, KeptLoop
  <2> QED
    BY <1>8, <2>1, <2>6, <2>8, <2>9 DEF TakeRequest
<1> QED
  BY <1>7, <1>8

\* An event goes from the sink's queue to the writer's.
LEMMA KeptForward ==
    ASSUME Typed, Typed', NEW c \in Conn, Kept(c), Forward(c)
    PROVE  Kept(c)'
<1>1. /\ pc[c] = "up" /\ request[c] = None /\ events[c] # <<>> /\ events'[c] = Tail(events[c])
      /\ peer' = peer /\ stream' = stream /\ owing' = owing /\ reader' = reader /\ inbox' = inbox
      /\ writer' = writer /\ got' = got /\ acked' = acked /\ epoch' = epoch /\ request' = request
      /\ owned' = owned /\ lost' = lost /\ sent' = sent /\ emitted' = emitted
      /\ Post(c, <<"event", Head(events[c])>>)
  BY DEF Forward, Idle, inbound, listening, broker, counts, Typed
<1>2. PICK q \in Seq(Nat) : q = events[c]
  BY DEF Typed
<1>3. PICK w : w = Tail(q)
  OBVIOUS
<1>4. /\ w \in Seq(Nat) /\ Head(q) = q[1] /\ Head(q) \in Nat /\ Len(q) \in Nat /\ Len(q) > 0
      /\ Len(w) = Len(q) - 1 /\ 1 \in DOMAIN q
      /\ \A i \in DOMAIN w : i \in Nat /\ w[i] = q[i + 1] /\ i + 1 \in DOMAIN q
  BY <1>1, <1>2, <1>3, Tailed
<1>5. PICK f : f = <<"event", q[1]>>
  OBVIOUS
<1>6. f \in Word /\ f[1] = "event" /\ f[2] = q[1]
  BY <1>4, <1>5 DEF Word
<1>7. Post(c, f)
  BY <1>1, <1>2, <1>4, <1>5
<1>8. Puts(c, f) /\ pc'[c] \in {"up", "leaving"} /\ (pc'[c] # "leaving" => wire'[c] = Append(wire[c], f))
  BY <1>1, <1>6, <1>7, Posts DEF Puts
<1>9. Loops(c) /\ request'[c] = None
  BY <1>1, <1>8 DEF Loops
<1>10. Lined(c)'
  BY <1>6, <1>8, <1>9, KeptLines DEF Answers
<1>11. Len(events'[c]) <= EventCap
  <2>1. Len(q) <= EventCap
    BY <1>2 DEF Kept, Limited
  <2> QED
    BY <1>1, <1>2, <1>3, <1>4, <2>1, ServingAssumption
<1>12. Whole(c)'
  <2>1. SUFFICES ASSUME pc'[c] = "up", ~lost'[c], writer'[c] = "up"
                 PROVE  Whole(c)'
    BY DEF Whole
  <2>2. PICK p : p = emitted[c] - Len(q)
    OBVIOUS
  <2>3. /\ p \in Nat /\ \A i \in DOMAIN q : q[i] = p + i
        /\ {g \in Sent(c) : g[1] = "event"} = {<<"event", n>> : n \in 1 .. p}
        /\ Ascends(c, {"event"})
    BY <1>1, <1>2, <2>1, <2>2 DEF Kept, Whole
  <2>4. q[1] = p + 1
    BY <1>4, <2>3
  <2>5. Sent(c)' = Sent(c) \cup {f}
    BY <1>6, <1>8, <2>1, Words
  <2>6. emitted'[c] - Len(events'[c]) = p + 1
    <3>1. emitted'[c] = emitted[c] /\ emitted[c] \in Nat
      BY <1>1 DEF Typed
    <3> QED
      BY <1>1, <1>2, <1>3, <1>4, <2>2, <3>1
  <2>7. \A i \in DOMAIN w : w[i] = (p + 1) + i
    <3>1. \A i \in DOMAIN w : i \in Nat /\ w[i] = p + (i + 1)
      BY <1>4, <2>3
    <3> QED
      BY <2>3, <3>1
  <2>8. {g \in Sent(c)' : g[1] = "event"} = {<<"event", n>> : n \in 1 .. p + 1}
    <3>1. {g \in Sent(c)' : g[1] = "event"} = {g \in Sent(c) : g[1] = "event"} \cup {f}
      BY <1>6, <2>5
    <3>2. 1 .. p + 1 = (1 .. p) \cup {p + 1}
      BY <2>3
    <3>3. {<<"event", n>> : n \in 1 .. p + 1} = {<<"event", n>> : n \in 1 .. p} \cup {<<"event", p + 1>>}
      BY <3>2
    <3> QED
      BY <1>5, <2>3, <2>4, <3>1, <3>3
  <2>9. Tops(c, f, {"event"})
    <3>1. ASSUME NEW g \in Sent(c), g[1] = "event"
          PROVE  g[2] < p + 1
      <4>1. PICK n \in 1 .. p : g = <<"event", n>>
        BY <2>3, <3>1
      <4>2. g[2] = n
        BY <4>1
      <4> QED
        BY <2>3, <4>2
    <3> QED
      BY <1>6, <2>4, <3>1 DEF Tops
  <2>10. Ascends(c, {"event"})'
    BY <1>6, <1>8, <2>3, <2>9, Words
  <2>11. p + 1 \in Nat
    BY <2>3
  <2>12. events'[c] = w
    BY <1>1, <1>2, <1>3
  <2> QED
    BY <2>6, <2>7, <2>8, <2>10, <2>11, <2>12 DEF Whole
<1>13. IsFiniteSet(owned'[c]) /\ Cardinality(owned'[c]) <= SessionCap
  BY <1>1 DEF Kept, Limited
<1> QED
  BY <1>6, <1>8, <1>9, <1>10, <1>11, <1>12, <1>13, KeptLoop
\* A new epoch is announced, and the connection owns nothing any more.
LEMMA KeptAnnounce ==
    ASSUME Typed, Typed', NEW c \in Conn, Kept(c), Announce(c)
    PROVE  Kept(c)'
<1>1. /\ pc[c] = "up" /\ request[c] = None /\ news[c] # <<>> /\ owned'[c] = {}
      /\ peer' = peer /\ stream' = stream /\ owing' = owing /\ reader' = reader /\ inbox' = inbox
      /\ writer' = writer /\ got' = got /\ acked' = acked /\ epoch' = epoch /\ request' = request
      /\ events' = events /\ lost' = lost /\ sent' = sent /\ emitted' = emitted
      /\ Post(c, <<"authority", Head(news[c])>>)
  BY DEF Announce, Idle, inbound, listening, counts, Typed
<1>2. PICK f : f = <<"authority", Head(news[c])>>
  OBVIOUS
<1>3. Head(news[c]) \in Nat
  BY <1>1 DEF Typed
<1>4. f \in Word /\ f[1] = "authority"
  BY <1>2, <1>3 DEF Word
<1>5. Puts(c, f) /\ pc'[c] \in {"up", "leaving"}
  BY <1>1, <1>2, <1>4, Posts DEF Puts
<1>6. Loops(c) /\ request'[c] = None /\ events'[c] = events[c]
  BY <1>1, <1>5 DEF Loops
<1>7. Lined(c)'
  BY <1>4, <1>5, <1>6, KeptLines DEF Answers
<1>8. Whole(c)' /\ Len(events'[c]) <= EventCap
  BY <1>4, <1>5, <1>6, KeptEvents
<1>9. IsFiniteSet(owned'[c]) /\ Cardinality(owned'[c]) <= SessionCap
  BY <1>1, FS_EmptySet, ServingAssumption
<1> QED
  BY <1>4, <1>5, <1>6, <1>7, <1>8, <1>9, KeptLoop

\* What a handler did to the sessions its connection owns stays within the cap.
LEMMA Owns ==
    ASSUME NEW S, IsFiniteSet(S), Cardinality(S) <= SessionCap, NEW s, NEW T,
           T = S \/ T = S \ {s} \/ (T = S \cup {s} /\ Cardinality(S) < SessionCap)
    PROVE  IsFiniteSet(T) /\ Cardinality(T) <= SessionCap
<1>1. Cardinality(S) \in Nat
  BY FS_CardinalityType
<1>2. CASE T = S
  BY <1>2
<1>3. CASE T = S \ {s}
  <2>1. IsFiniteSet(T) /\ Cardinality(T) \in Nat /\ Cardinality(T) <= Cardinality(S)
    BY <1>3, FS_Subset, FS_CardinalityType
  <2> QED
    BY <1>1, <2>1, ServingAssumption
<1>4. CASE T = S \cup {s} /\ Cardinality(S) < SessionCap
  <2>1. IsFiniteSet(T) /\ (Cardinality(T) = Cardinality(S) \/ Cardinality(T) = Cardinality(S) + 1)
    BY <1>4, FS_AddElement
  <2> QED
    BY <1>1, <1>4, <2>1, ServingAssumption
<1> QED
  BY <1>2, <1>3, <1>4

\* A handler answers the request that ran.
LEMMA KeptRun ==
    ASSUME Typed, Typed', NEW c \in Conn, Kept(c), NEW ok \in BOOLEAN, Run(c, ok)
    PROVE  Kept(c)'
<1>1. PICK m : m = request[c]
  OBVIOUS
<1>2. /\ pc[c] = "up" /\ m # None /\ request'[c] = None
      /\ peer' = peer /\ stream' = stream /\ owing' = owing /\ reader' = reader /\ inbox' = inbox
      /\ writer' = writer /\ got' = got /\ acked' = acked /\ epoch' = epoch
      /\ events' = events /\ lost' = lost /\ sent' = sent /\ emitted' = emitted
  BY <1>1 DEF Run, inbound, listening, counts, Typed
<1>3. m \in Requested /\ m.id \in Nat /\ m.id # 0 /\ Above(c, m.id)
  BY <1>1, <1>2, Frames DEF Kept, Staged, Lined
<1>4. Due(c, m.id)
  <2>1. \A n \in Nat : Beyond(c, n) => m.id < n
    BY <1>1, <1>2 DEF Beyond, Past
  <2>2. \A i \in DOMAIN inbox[c] : inbox[c][i] \notin {Bad, Eof} => m.id < inbox[c][i].id
    BY <1>1, <1>2 DEF Kept, Lined, Past
  <2> QED
    BY <1>2, <1>3, <2>1, <2>2 DEF Due
<1>5. PICK f : f = <<IF ok THEN "reply" ELSE "error", m.id>>
  OBVIOUS
<1>6. f \in Word /\ f[1] # "event" /\ f[2] = m.id
  BY <1>3, <1>5 DEF Word
<1>7. Puts(c, f) /\ pc'[c] \in {"up", "leaving"}
  <2>1. CASE Post(c, f)
    BY <1>2, <1>6, <2>1, Posts DEF Puts
  <2>2. CASE pc' = pc /\ wire' = wire
    BY <1>2, <2>2 DEF Puts
  <2> QED
    BY <1>1, <1>5, <2>1, <2>2 DEF Run
<1>8. Loops(c) /\ events'[c] = events[c]
  BY <1>2, <1>7 DEF Loops
<1>9. Lined(c)'
  BY <1>2, <1>4, <1>6, <1>7, <1>8, KeptLines
<1>10. Whole(c)' /\ Len(events'[c]) <= EventCap
  BY <1>6, <1>7, <1>8, KeptEvents
<1>11. IsFiniteSet(owned'[c]) /\ Cardinality(owned'[c]) <= SessionCap
  <2>1. /\ IsFiniteSet(owned[c]) /\ Cardinality(owned[c]) <= SessionCap
        /\ m.type = "session.open" => Cardinality(owned[c]) < SessionCap
    BY <1>1, <1>2 DEF Kept, Limited
  <2>2. \/ owned'[c] = owned[c]
        \/ owned'[c] = owned[c] \ {m.sid}
        \/ owned'[c] = owned[c] \cup {m.sid} /\ Cardinality(owned[c]) < SessionCap
    BY <1>1, <2>1 DEF Run, Own, Typed
  <2> QED
    BY <2>1, <2>2, Owns
<1> QED
  BY <1>2, <1>6, <1>7, <1>8, <1>9, <1>10, <1>11, KeptLoop

\* The loop ends, and its connection is torn down.
LEMMA KeptEnds ==
    ASSUME Typed, Typed', NEW c \in Conn, Kept(c),
           EndLoop(c) \/ IdleOut(c) \/ Leave(c) \/ Drain(c)
    PROVE  Kept(c)'
<1>1. CASE EndLoop(c) \/ IdleOut(c)
  <2>1. Held(c) /\ got'[c] = got[c] /\ Moved(c)
    BY <1>1 DEF EndLoop, IdleOut, Quits, Idle, Goes, Typed, Held, Moved, listening, inbound, outbound, broker, held, counts
  <2> QED
    BY <2>1, KeptMoved
<1>2. CASE Drain(c)
  BY <1>2, KeptGone DEF Drain
<1>3. CASE Leave(c)
  <2>1. /\ pc[c] = "leaving" /\ pc'[c] = "drain" /\ owned'[c] = {} /\ acked'[c] = 0
        /\ inbox'[c] = <<>> /\ reader'[c] = Ended /\ stream'[c] = <<>> /\ owing'[c] = None
        /\ events'[c] = <<>> /\ peer' = peer /\ wire' = wire /\ writer' = writer /\ got' = got
        /\ epoch' = epoch /\ request' = request /\ lost' = lost /\ sent' = sent /\ emitted' = emitted
    BY <1>3 DEF Leave, Goes, Typed, listening, outbound, counts
  <2>2. request[c] = None
    BY <2>1 DEF Kept, Staged
  <2>3. Staged(c)'
    BY <2>1, <2>2 DEF Kept, Staged
  <2>4. Paired(c)'
    BY <2>1 DEF Paired
  <2>5. Lined(c)'
    <3>1. Ascends(c, Answers)'
      BY <2>1 DEF Kept, Lined, Ascends
    <3> QED
      BY <2>1, <2>2, <3>1 DEF Lined
  <2>6. Whole(c)'
    BY <2>1 DEF Whole
  <2>7. Limited(c)'
    <3>1. Len(wire'[c]) <= WireCap
      BY <2>1 DEF Kept, Limited
    <3>2. IsFiniteSet(owned'[c]) /\ Cardinality(owned'[c]) <= SessionCap
      BY <2>1, FS_EmptySet, ServingAssumption
    <3>3. acked'[c] <= epoch'
      BY <2>1 DEF Typed
    <3> QED
      BY <2>1, <2>2, <3>1, <3>2, <3>3, ServingAssumption DEF Limited
  <2> QED
    BY <2>3, <2>4, <2>5, <2>6, <2>7 DEF Kept
<1> QED
  BY <1>1, <1>2, <1>3
\* The broker gives an event to the sink of a connection with a session.
LEMMA KeptEmit ==
    ASSUME Typed, Typed', NoOrphan, NEW c \in Conn, Kept(c), Emit(c)
    PROVE  Kept(c)'
<1>1. /\ pc' = pc /\ peer' = peer /\ stream' = stream /\ owing' = owing /\ reader' = reader
      /\ inbox' = inbox /\ wire' = wire /\ writer' = writer /\ got' = got /\ acked' = acked
      /\ epoch' = epoch /\ request' = request /\ owned' = owned /\ sent' = sent
  BY DEF Emit, task, inbound, outbound, broker
<1>2. pc[c] \in {"up", "leaving"}
  <2>1. PICK s \in Sids : sessions[s] = c
    BY DEF Emit
  <2>2. sessions[s] # Nobody
    BY <2>1, ServingAssumption DEF Nobody
  <2> QED
    BY <2>1, <2>2 DEF NoOrphan
<1>3. Sent(c)' = Sent(c) /\ Flying(c)' = Flying(c)
  BY <1>1 DEF Sent, Flying
<1>4. \A K : Ascends(c, K)' <=> Ascends(c, K)
  BY <1>1 DEF Ascends
<1>5. Staged(c)'
  BY <1>1, <1>2, <1>3 DEF Kept, Staged
<1>6. Paired(c)'
  BY <1>1 DEF Kept, Paired
<1>7. Lined(c)'
  <2>1. \A n : /\ Above(c, n)' <=> Above(c, n)
               /\ Past(c, n)' <=> Past(c, n)
               /\ Beyond(c, n)' <=> Beyond(c, n)
    BY <1>1, <1>3 DEF Above, Past, Beyond
  <2>2. (request[c] # None => Above(c, request[c].id))'
    <3>1. request[c] # None => \A f \in Sent(c) : f[1] \in Answers => f[2] < request[c].id
      BY DEF Kept, Lined, Above
    <3> QED
      BY <1>1, <1>3, <3>1 DEF Above
  <2> QED
    BY <1>1, <1>3, <1>4, <2>1, <2>2 DEF Kept, Lined
<1>8. PICK q \in Seq(Nat) : q = events[c]
  BY DEF Typed
<1>9. PICK k \in Nat : k = emitted[c]
  BY DEF Typed
<1>10. emitted'[c] = k + 1
  BY <1>9 DEF Emit, Typed
<1>11. Len(q) <= EventCap /\ Len(q) \in Nat
  BY <1>8 DEF Kept, Limited
<1>12. CASE Len(q) < EventCap
  <2>1. PICK w : w = Append(q, k + 1)
    OBVIOUS
  <2>2. events'[c] = w /\ lost' = lost
    BY <1>8, <1>9, <1>12, <2>1 DEF Emit, Typed
  <2>3. /\ Len(w) = Len(q) + 1
        /\ \A i \in DOMAIN q : i \in Nat /\ w[i] = q[i] /\ i <= Len(q)
        /\ w[Len(q) + 1] = k + 1
        /\ \A i \in DOMAIN w : i \in Nat /\ (i \in DOMAIN q \/ i = Len(q) + 1)
    BY <2>1, Appended
  <2>4. Limited(c)'
    <3>1. Len(events'[c]) <= EventCap
      BY <1>11, <1>12, <2>2, <2>3, ServingAssumption
    <3> QED
      BY <1>1, <3>1 DEF Kept, Limited
  <2>5. Whole(c)'
    <3>1. SUFFICES ASSUME pc[c] = "up", ~lost[c], writer[c] = "up"
                   PROVE  Whole(c)'
      BY <1>1, <2>2 DEF Whole
    <3>2. PICK p : p = k - Len(q)
      OBVIOUS
    <3>3. /\ p \in Nat /\ \A i \in DOMAIN q : q[i] = p + i
          /\ {g \in Sent(c) : g[1] = "event"} = {<<"event", n>> : n \in 1 .. p}
          /\ Ascends(c, {"event"})
      BY <1>8, <1>9, <3>1, <3>2 DEF Kept, Whole
    <3>4. emitted'[c] - Len(events'[c]) = p
      BY <1>10, <1>11, <2>2, <2>3, <3>2
    <3>5. k + 1 = p + (Len(q) + 1)
      BY <1>11, <3>2, <3>3
    <3>6. \A i \in DOMAIN w : w[i] = p + i
      BY <2>3, <3>3, <3>5
    <3> QED
      BY <1>3, <1>4, <2>2, <3>3, <3>4, <3>6 DEF Whole
  <2> QED
    BY <1>5, <1>6, <1>7, <2>4, <2>5 DEF Kept
<1>13. CASE ~(Len(q) < EventCap)
  <2>1. lost'[c] = TRUE /\ events' = events
    BY <1>8, <1>13 DEF Emit, Typed
  <2>2. Whole(c)'
    BY <2>1 DEF Whole
  <2>3. Limited(c)'
    BY <1>1, <2>1 DEF Kept, Limited
  <2> QED
    BY <1>5, <1>6, <1>7, <2>2, <2>3 DEF Kept
<1> QED
  BY <1>12, <1>13

\* No step leaves a connection without what it holds.
LEMMA KeptNext ==
    ASSUME SInv, Next
    PROVE  Typed' /\ \A c \in Conn : Kept(c)'
<1>1. ASSUME NEW c \in Conn, Rest(c), Kept(c)', sent <= sent', epoch <= epoch'
      PROVE  Typed' /\ \A d \in Conn : Kept(d)'
  <2>1. Typed' /\ \A d \in Conn \ {c} : Stays(d)
    BY <1>1 DEF Rest
  <2>2. \A d \in Conn \ {c} : Kept(d)'
    BY <1>1, <2>1, Stay DEF SInv
  <2> QED
    BY <1>1, <2>1, <2>2
<1>2. CASE Stop \/ ShutDown \/ Joined \/ NewEpoch
  <2>1. sent <= sent' /\ epoch <= epoch'
    <3>1. sent \in Nat /\ epoch \in Nat
      BY DEF SInv, Typed
    <3>2. sent' = sent /\ (epoch' = epoch \/ epoch' = epoch + 1)
      BY <1>2 DEF Stop, ShutDown, Joined, NewEpoch, Shutdown, broker, counts
    <3> QED
      BY <3>1, <3>2
  <2>2. Typed' /\ \A d \in Conn : Stays(d)
    BY <1>2, RestServer DEF SInv
  <2> QED
    BY <2>1, <2>2, Stay DEF SInv
<1>3. ASSUME NEW c \in Conn,
             \/ Peer(c) \/ Admit(c) \/ Greets(c) \/ Acknowledge(c) \/ Greet(c)
             \/ Tasks(c) \/ Serves(c) \/ IdleOut(c) \/ Leave(c) \/ Drain(c) \/ Emit(c)
             \/ \E ok \in BOOLEAN : Run(c, ok)
      PROVE  Typed' /\ \A d \in Conn : Kept(d)'
  <2>1. Typed /\ NoOrphan /\ Kept(c) /\ Staged(c) /\ sent \in Nat /\ epoch \in Nat
    BY DEF SInv, Typed, Kept
  <2>2. CASE Peer(c)
    <3>1. Rest(c)
      BY <2>1, <2>2, RestPeers DEF Peer
    <3>2. Kept(c)'
      BY <2>1, <2>2, <3>1, KeptPeers DEF Rest
    <3>3. (sent' = sent \/ sent' = sent + 1) /\ epoch' = epoch
      BY <2>2 DEF Peer, Connect, SendBody, AckEpoch, SendHello, SendRequest, SendHead, Turn, broker, counts
    <3>4. sent <= sent' /\ epoch <= epoch'
      BY <2>1, <3>3
    <3> QED
      BY <1>1, <3>1, <3>2, <3>4
  <2>3. CASE Admit(c) \/ Greets(c) \/ Acknowledge(c) \/ Greet(c)
    <3>1. Rest(c)
      BY <2>1, <2>3, RestHello
    <3>2. Kept(c)'
      BY <2>1, <2>3, <3>1, KeptHello DEF Rest
    <3>3. sent' = sent /\ epoch' = epoch
      BY <2>3 DEF Admit, Greets, NoHello, RefuseHello, TakeHello, Gone, Acknowledge, Greet, Told, broker, counts
    <3>4. sent <= sent' /\ epoch <= epoch'
      BY <2>1, <3>3
    <3> QED
      BY <1>1, <3>1, <3>2, <3>4
  <2>4. CASE Tasks(c)
    <3>1. Rest(c)
      BY <2>1, <2>4, RestTasks
    <3>2. Kept(c)'
      BY <2>1, <2>4, <3>1, KeptReads, KeptWrites DEF Rest, Tasks
    <3>3. sent' = sent /\ epoch' = epoch
      BY <2>4 DEF Tasks, ReadHead, ReadBody, ReadEnd, Reads, Write, WriteFails, broker, counts
    <3>4. sent <= sent' /\ epoch <= epoch'
      BY <2>1, <3>3
    <3> QED
      BY <1>1, <3>1, <3>2, <3>4
  <2>5. CASE Serves(c) \/ IdleOut(c)
    <3>1. Rest(c)
      BY <2>1, <2>5, RestServes
    <3>2. Kept(c)'
      BY <2>1, <2>5, <3>1, KeptTakes, KeptForward, KeptAnnounce, KeptEnds DEF Rest, Serves
    <3>3. sent' = sent /\ epoch' = epoch
      BY <2>5 DEF Serves, TakeEnd, TakeRequest, Take, Forward, Announce, EndLoop, IdleOut, Quits, broker, counts
    <3>4. sent <= sent' /\ epoch <= epoch'
      BY <2>1, <3>3
    <3> QED
      BY <1>1, <3>1, <3>2, <3>4
  <2>6. CASE Leave(c) \/ Drain(c) \/ Emit(c)
    <3>1. Rest(c)
      BY <2>1, <2>6, RestEnds
    <3>2. Kept(c)'
      BY <2>1, <2>6, <3>1, KeptEnds, KeptEmit DEF Rest
    <3>3. sent' = sent /\ epoch' = epoch
      BY <2>6 DEF Leave, Drain, Gone, Emit, broker, counts
    <3>4. sent <= sent' /\ epoch <= epoch'
      BY <2>1, <3>3
    <3> QED
      BY <1>1, <3>1, <3>2, <3>4
  <2>7. ASSUME NEW ok \in BOOLEAN, Run(c, ok)
        PROVE  Typed' /\ \A d \in Conn : Kept(d)'
    <3>1. Rest(c)
      BY <2>1, <2>7, RestRun
    <3>2. Kept(c)'
      BY <2>1, <2>7, <3>1, KeptRun DEF Rest
    <3>3. sent' = sent /\ epoch' = epoch
      BY <2>7 DEF Run, counts
    <3>4. sent <= sent' /\ epoch <= epoch'
      BY <2>1, <3>3
    <3> QED
      BY <1>1, <3>1, <3>2, <3>4
  <2> QED
    BY <1>3, <2>2, <2>3, <2>4, <2>5, <2>6, <2>7
<1> QED
  BY <1>2, <1>3 DEF Next
-----------------------------------------------------------------------------
(* The permits, and the sessions                                           *)

\* No task takes a place but by an admission.
LEMMA PlacesKept ==
    ASSUME Typed, NEW c \in Conn, Rest(c), pc'[c] \in Places => pc[c] \in Places
    PROVE  Live' \subseteq Live
BY DEF Live, Rest, Stays

\* A connection's session is closed with it.
LEMMA SessionsKept ==
    ASSUME Typed, NoOrphan, NEW c \in Conn, Rest(c), sessions' = sessions,
           owned'[c] = owned[c], pc[c] \in {"up", "leaving"} => pc'[c] \in {"up", "leaving"}
    PROVE  NoOrphan'
<1>1. SUFFICES ASSUME NEW s \in Sids, sessions'[s] # Nobody
               PROVE  s \in owned'[sessions'[s]] /\ pc'[sessions'[s]] \in {"up", "leaving"}
  BY DEF NoOrphan
<1>2. PICK d \in Conn : d = sessions[s] /\ d = sessions'[s]
  BY <1>1 DEF Typed
<1>3. s \in owned[d] /\ pc[d] \in {"up", "leaving"}
  BY <1>1, <1>2 DEF NoOrphan
<1>4. d # c => owned'[d] = owned[d] /\ pc'[d] = pc[d]
  BY DEF Rest, Stays
<1> QED
  BY <1>2, <1>3, <1>4

LEMMA SessionsClosed ==
    ASSUME Typed, NoOrphan, NEW c \in Conn, Rest(c), sessions' = Closed(owned[c])
    PROVE  NoOrphan'
<1>1. SUFFICES ASSUME NEW s \in Sids, sessions'[s] # Nobody
               PROVE  s \in owned'[sessions'[s]] /\ pc'[sessions'[s]] \in {"up", "leaving"}
  BY DEF NoOrphan
<1>2. s \notin owned[c] /\ sessions'[s] = sessions[s]
  BY <1>1 DEF Closed
<1>3. PICK d \in Conn : d = sessions[s] /\ d = sessions'[s]
  BY <1>1, <1>2 DEF Typed
<1>4. s \in owned[d] /\ pc[d] \in {"up", "leaving"}
  BY <1>1, <1>3 DEF NoOrphan
<1>5. d # c
  BY <1>2, <1>4
<1>6. owned'[d] = owned[d] /\ pc'[d] = pc[d]
  BY <1>5 DEF Rest, Stays
<1> QED
  BY <1>3, <1>4, <1>6

LEMMA SessionsRun ==
    ASSUME Typed, NoOrphan, NEW c \in Conn, Rest(c), NEW ok \in BOOLEAN, Run(c, ok),
           pc'[c] \in {"up", "leaving"}
    PROVE  NoOrphan'
<1>1. PICK m : m = request[c]
  OBVIOUS
<1>2. SUFFICES ASSUME NEW s \in Sids, sessions'[s] # Nobody
               PROVE  s \in owned'[sessions'[s]] /\ pc'[sessions'[s]] \in {"up", "leaving"}
  BY DEF NoOrphan
<1>3. sessions'[s] = IF ok /\ s = m.sid /\ m.type = "session.open" THEN c
                     ELSE IF ok /\ s = m.sid /\ m.type = "session.close" THEN Nobody
                     ELSE sessions[s]
  BY <1>1 DEF Run
<1>4. owned'[c] = IF ok /\ m.type = "session.open" THEN owned[c] \cup {m.sid}
                  ELSE IF ok /\ m.type = "session.close" THEN owned[c] \ {m.sid}
                  ELSE owned[c]
  BY <1>1 DEF Run, Own, Typed
<1>5. CASE ok /\ s = m.sid /\ m.type = "session.open"
  BY <1>3, <1>4, <1>5
<1>6. CASE ~(ok /\ s = m.sid /\ m.type = "session.open")
  <2>1. sessions'[s] = sessions[s] /\ ~(ok /\ s = m.sid /\ m.type = "session.close")
    BY <1>2, <1>3, <1>6
  <2>2. PICK d \in Conn : d = sessions[s] /\ d = sessions'[s]
    BY <1>2, <2>1 DEF Typed
  <2>3. s \in owned[d] /\ pc[d] \in {"up", "leaving"}
    BY <1>2, <2>2 DEF NoOrphan
  <2>4. CASE d = c
    BY <1>4, <2>1, <2>2, <2>3, <2>4
  <2>5. CASE d # c
    <3>1. owned'[d] = owned[d] /\ pc'[d] = pc[d]
      BY <2>5 DEF Rest, Stays
    <3> QED
      BY <2>2, <2>3, <3>1
  <2> QED
    BY <2>4, <2>5
<1> QED
  BY <1>5, <1>6

\* Permits are given while there are any, and come back.
LEMMA PermitsKept ==
    ASSUME Typed, Permits, Live' \subseteq Live
           \/ (Cardinality(Live) < Slots /\ \E c \in Conn : Live' \subseteq Live \cup {c})
    PROVE  Permits'
<1>1. Cardinality(Live) \in Nat /\ IsFiniteSet(Live) /\ Cardinality(Live) <= Slots
  BY FS_CardinalityType DEF Permits
<1>2. CASE Live' \subseteq Live
  <2>1. IsFiniteSet(Live') /\ Cardinality(Live') \in Nat /\ Cardinality(Live') <= Cardinality(Live)
    BY <1>1, <1>2, FS_Subset, FS_CardinalityType
  <2> QED
    BY <1>1, <2>1, ServingAssumption DEF Permits
<1>3. ASSUME NEW c \in Conn, Cardinality(Live) < Slots, Live' \subseteq Live \cup {c}
      PROVE  Permits'
  <2>1. PICK L : L = Live \cup {c}
    OBVIOUS
  <2>2. IsFiniteSet(L) /\ (Cardinality(L) = Cardinality(Live) \/ Cardinality(L) = Cardinality(Live) + 1)
    BY <1>1, <2>1, FS_AddElement
  <2>3. IsFiniteSet(Live') /\ Cardinality(Live') \in Nat /\ Cardinality(Live') <= Cardinality(L)
    BY <1>3, <2>1, <2>2, FS_Subset, FS_CardinalityType
  <2> QED
    BY <1>1, <1>3, <2>2, <2>3, ServingAssumption DEF Permits
<1> QED
  BY <1>2, <1>3
\* A step of connection c's keeps the permits and its sessions.
Lawful(c) == Live' \subseteq Live /\ NoOrphan'

LEMMA LawfulSteps ==
    ASSUME SInv, NEW c \in Conn, Rest(c),
           \/ Peer(c) \/ Greets(c) \/ Acknowledge(c) \/ Greet(c) \/ Tasks(c) \/ Serves(c)
           \/ IdleOut(c) \/ Leave(c) \/ Drain(c) \/ Emit(c)
           \/ \E ok \in BOOLEAN : Run(c, ok)
    PROVE  Lawful(c)
<1>1. Typed /\ NoOrphan /\ Kept(c) /\ Staged(c)
  BY DEF SInv, Kept
<1>2. ASSUME sessions' = sessions, owned'[c] = owned[c],
             \/ pc'[c] = pc[c]
             \/ pc'[c] \notin Places /\ pc[c] \notin {"up", "leaving"}
             \/ pc[c] \in Places /\ pc[c] \notin {"up", "leaving"}
             \/ pc[c] = "up" /\ pc'[c] \in {"up", "leaving"}
      PROVE  Lawful(c)
  <2>1. pc'[c] \in Places => pc[c] \in Places
    BY <1>2 DEF Places
  <2>2. pc[c] \in {"up", "leaving"} => pc'[c] \in {"up", "leaving"}
    BY <1>2
  <2> QED
    BY <1>1, <1>2, <2>1, <2>2, PlacesKept, SessionsKept DEF Lawful
<1>3. CASE Peer(c)
  <2>1. CASE Connect(c)
    <3>1. pc[c] = "none"
      BY <1>1, <2>1 DEF Connect, Staged
    <3>2. pc'[c] = "queued" /\ sessions' = sessions /\ owned' = owned
      BY <1>1, <2>1 DEF Connect, Goes, Typed, broker, held
    <3> QED
      BY <1>2, <3>1, <3>2 DEF Places
  <2>2. CASE ~Connect(c)
    <3>1. pc' = pc /\ sessions' = sessions /\ owned' = owned
      BY <1>3, <2>2 DEF Peer, SendBody, AckEpoch, SendHello, SendRequest, SendHead, Turn, task, broker, held
    <3> QED
      BY <1>2, <3>1
  <2> QED
    BY <2>1, <2>2
<1>4. ASSUME Gone(c), pc[c] \in {"hello", "ack", "greet", "drain"}
      PROVE  Lawful(c)
  <2>1. pc'[c] = "gone" /\ sessions' = sessions /\ owned' = owned
    BY <1>1, <1>4 DEF Gone, Goes, Typed
  <2> QED
    BY <1>2, <1>4, <2>1 DEF Places
<1>5. CASE TakeHello(c)
  <2>1. pc[c] = "hello" /\ pc'[c] = "ack" /\ sessions' = sessions /\ owned' = owned
    BY <1>1, <1>5 DEF TakeHello, Goes, Typed, broker, held
  <2> QED
    BY <1>2, <2>1 DEF Places
<1>6. CASE Greets(c)
  BY <1>4, <1>5, <1>6 DEF Greets, NoHello, RefuseHello
<1>7. CASE Acknowledge(c) \/ Greet(c)
  <2>1. pc[c] \in {"ack", "greet"}
    BY <1>7 DEF Acknowledge, Greet
  <2>2. CASE Gone(c)
    BY <1>4, <2>1, <2>2
  <2>3. CASE ~Gone(c)
    <3>1. sessions' = sessions /\ owned' = owned
      BY <1>7, <2>3 DEF Acknowledge, Greet, Told, broker, held
    <3> QED
      BY <1>2, <2>1, <3>1 DEF Places
  <2> QED
    BY <2>2, <2>3
<1>8. CASE Tasks(c)
  <2>1. pc' = pc /\ sessions' = sessions /\ owned' = owned
    BY <1>8 DEF Tasks, ReadHead, ReadBody, ReadEnd, Reads, Write, WriteFails, task, broker, held
  <2> QED
    BY <1>2, <2>1
<1>9. \A f : Post(c, f) \/ PostLast(c, f) => pc' = pc \/ pc' = [pc EXCEPT ![c] = "leaving"]
  BY DEF Post, PostLast, Goes
<1>10. \A f : Post(c, f) \/ PostLast(c, f) => pc'[c] \in {pc[c], "leaving"}
  BY <1>1, <1>9 DEF Typed
<1>11. CASE Serves(c) \/ IdleOut(c)
  <2>1. pc[c] = "up"
    BY <1>11 DEF Serves, TakeEnd, TakeRequest, Take, Forward, Announce, EndLoop, IdleOut, Quits, Idle
  <2>2. pc'[c] \in {"up", "leaving"}
    <3>1. CASE pc' = pc \/ Goes(c, "leaving")
      BY <1>1, <2>1, <3>1 DEF Goes, Typed
    <3>2. CASE \E f : Post(c, f) \/ PostLast(c, f)
      BY <1>10, <2>1, <3>2
    <3> QED
      BY <1>11, <3>1, <3>2 DEF Serves, TakeEnd, TakeRequest, Forward, Announce, EndLoop, IdleOut, Quits
  <2>3. CASE Announce(c)
    <3>1. sessions' = Closed(owned[c])
      BY <2>3 DEF Announce
    <3> QED
      BY <1>1, <2>1, <3>1, PlacesKept, SessionsClosed DEF Lawful, Places
  <2>4. CASE ~Announce(c)
    <3>1. sessions' = sessions /\ owned' = owned
      BY <1>11, <2>4 DEF Serves, TakeEnd, TakeRequest, Take, Forward, EndLoop, IdleOut, Quits, broker, held
    <3> QED
      BY <1>2, <2>1, <2>2, <3>1
  <2> QED
    BY <2>3, <2>4
<1>12. CASE Leave(c)
  <2>1. pc[c] = "leaving" /\ sessions' = Closed(owned[c])
    BY <1>12 DEF Leave
  <2> QED
    BY <1>1, <2>1, PlacesKept, SessionsClosed DEF Lawful, Places
<1>13. CASE Drain(c)
  BY <1>4, <1>13 DEF Drain
<1>14. CASE Emit(c)
  <2>1. pc' = pc /\ sessions' = sessions /\ owned' = owned
    BY <1>14 DEF Emit, task, broker
  <2> QED
    BY <1>2, <2>1
<1>15. ASSUME NEW ok \in BOOLEAN, Run(c, ok)
       PROVE  Lawful(c)
  <2>1. pc[c] = "up"
    BY <1>15 DEF Run
  <2>2. pc'[c] \in {"up", "leaving"}
    <3>1. CASE pc' = pc
      BY <2>1, <3>1
    <3>2. CASE \E f : Post(c, f)
      BY <1>10, <2>1, <3>2
    <3> QED
      BY <1>15, <3>1, <3>2 DEF Run
  <2> QED
    BY <1>1, <1>15, <2>1, <2>2, PlacesKept, SessionsRun DEF Lawful, Places
<1> QED
  BY <1>3, <1>6, <1>7, <1>8, <1>11, <1>12, <1>13, <1>14, <1>15

LEMMA LawfulNext ==
    ASSUME SInv, Next
    PROVE  Permits' /\ NoOrphan'
<1>1. Typed /\ Permits /\ NoOrphan
  BY DEF SInv
<1>2. CASE Stop \/ NewEpoch
  <2>1. pc' = pc /\ sessions' = sessions /\ owned' = owned
    BY <1>2 DEF Stop, NewEpoch, task, broker, held
  <2>2. Live' = Live
    BY <2>1 DEF Live
  <2> QED
    BY <1>1, <2>1, <2>2 DEF Permits, NoOrphan
<1>3. CASE ShutDown \/ Joined
  <2>1. pc' = pc /\ \A s \in Sids : sessions'[s] = Nobody
    BY <1>3 DEF ShutDown, Joined, Shutdown, task
  <2>2. Live' = Live
    BY <2>1 DEF Live
  <2> QED
    BY <1>1, <2>1, <2>2 DEF Permits, NoOrphan
<1>4. ASSUME NEW c \in Conn, Admit(c)
      PROVE  Permits' /\ NoOrphan'
  <2>1. Rest(c)
    BY <1>1, <1>4, RestHello
  <2>2. /\ pc[c] = "queued" /\ sessions' = sessions /\ owned' = owned
        /\ pc'[c] = IF Cardinality(Live) < Slots THEN "hello" ELSE "gone"
    BY <1>1, <1>4 DEF Admit, Goes, Typed, broker, held
  <2>3. Live' \subseteq Live \cup {c}
    BY <2>1 DEF Live, Rest, Stays
  <2>4. ~(Cardinality(Live) < Slots) => Live' \subseteq Live
    BY <2>2, <2>3 DEF Live, Places
  <2> QED
    BY <1>1, <2>1, <2>2, <2>3, <2>4, PermitsKept, SessionsKept
<1>5. ASSUME NEW c \in Conn,
             \/ Peer(c) \/ Greets(c) \/ Acknowledge(c) \/ Greet(c) \/ Tasks(c) \/ Serves(c)
             \/ IdleOut(c) \/ Leave(c) \/ Drain(c) \/ Emit(c)
             \/ \E ok \in BOOLEAN : Run(c, ok)
      PROVE  Permits' /\ NoOrphan'
  <2>1. Staged(c)
    BY DEF SInv, Kept
  <2>3. Rest(c)
    <3>1. CASE Peer(c)
      BY <1>1, <3>1, RestPeers DEF Peer
    <3>2. CASE Greets(c) \/ Acknowledge(c) \/ Greet(c)
      BY <1>1, <3>2, RestHello
    <3>3. CASE Tasks(c)
      BY <1>1, <3>3, RestTasks
    <3>4. CASE Serves(c) \/ IdleOut(c)
      BY <1>1, <2>1, <3>4, RestServes
    <3>5. CASE Leave(c) \/ Drain(c) \/ Emit(c)
      BY <1>1, <3>5, RestEnds
    <3>6. ASSUME NEW ok \in BOOLEAN, Run(c, ok)
          PROVE  Rest(c)
      BY <1>1, <2>1, <3>6, RestRun
    <3> QED
      BY <1>5, <3>1, <3>2, <3>3, <3>4, <3>5, <3>6
  <2>4. Lawful(c)
    BY <1>5, <2>3, LawfulSteps
  <2> QED
    BY <1>1, <2>4, PermitsKept DEF Lawful
<1> QED
  BY <1>2, <1>3, <1>4, <1>5 DEF Next

-----------------------------------------------------------------------------
(* The invariant, and what follows                                         *)

LEMMA Initially == Init => SInv
<1> SUFFICES ASSUME Init PROVE SInv
  OBVIOUS
<1>1. <<>> \in Seq(Parts) /\ <<>> \in Seq(Frame \cup {Bad, Eof}) /\ <<>> \in Seq(Word) /\ <<>> \in Seq(Nat)
  OBVIOUS
<1>2. Typed
  BY <1>1 DEF Init, Typed
<1>3. Live = {}
  BY DEF Init, Live, Places
<1>4. Permits
  BY <1>3, FS_EmptySet, ServingAssumption DEF Permits
<1>5. NoOrphan
  BY DEF Init, NoOrphan
<1>6. ASSUME NEW c \in Conn
      PROVE  Kept(c)
  <2>1. /\ pc[c] = "none" /\ peer[c] = "absent" /\ stream[c] = <<>> /\ owing[c] = None
        /\ reader[c] = None /\ inbox[c] = <<>> /\ request[c] = None /\ owned[c] = {}
        /\ events[c] = <<>> /\ wire[c] = <<>> /\ got[c] = {} /\ acked[c] = 0 /\ epoch = 1
        /\ emitted[c] = 0
    BY DEF Init
  <2>2. Staged(c)
    BY <2>1 DEF Staged
  <2>3. Paired(c)
    BY <2>1 DEF Paired
  <2>4. Lined(c)
    BY <2>1 DEF Lined, Ascends
  <2>5. Whole(c)
    BY <2>1 DEF Whole
  <2>6. Limited(c)
    BY <2>1, FS_EmptySet, ServingAssumption DEF Limited
  <2> QED
    BY <2>2, <2>3, <2>4, <2>5, <2>6 DEF Kept
<1> QED
  BY <1>2, <1>4, <1>5, <1>6 DEF SInv

\* The reader of a connection in its loop has the head of the next body.
LEMMA Steps == SInv => InStep
<1> SUFFICES ASSUME SInv, NEW c \in Conn, pc[c] = "up", reader[c] # Ended
             PROVE  /\ stream[c] # <<>> => (Head(stream[c]).part = "body") = (reader[c] # None)
                    /\ reader[c] # None /\ peer[c] = "open" =>
                           reader[c] = IF stream[c] = <<>> THEN owing[c] ELSE Head(stream[c]).frame
  BY DEF InStep
<1>1. PICK q \in Seq(Parts) : q = stream[c]
  BY DEF SInv, Typed
<1>2. q # <<>> => Head(q) = q[1] /\ Len(q) > 0
  BY Tailed
<1>3. q = <<>> => Len(q) = 0
  OBVIOUS
<1>4. Paired(c)
  BY DEF SInv, Kept
<1> QED
  BY <1>1, <1>2, <1>3, <1>4 DEF Paired, Is

\* For any peers, permits, queues and epochs, what crosses a connection is
\* framed, whole and in order, and no session outlives its connection
\* (server.rs, serve_connection_with_timeouts).
THEOREM ServingIsSafe == Spec => []ServingSafe
<1>1. SInv /\ [Next]_vars => SInv'
  <2> SUFFICES ASSUME SInv, [Next]_vars PROVE SInv'
    OBVIOUS
  <2>1. CASE Next
    BY <2>1, KeptNext, LawfulNext DEF SInv
  <2>2. CASE UNCHANGED vars
    <3>1. UNCHANGED <<server, down, pc, terms, peer, stream, owing, reader, inbox, request, owned,
                      events, lost, wire, writer, got, sessions, acked, news, epoch, sent, emitted>>
      BY <2>2 DEF vars, listening, task, inbound, outbound, broker, held, counts
    <3>2. Typed'
      BY <3>1 DEF SInv, Typed
    <3>3. NoOrphan' /\ Permits'
      BY <3>1 DEF SInv, NoOrphan, Permits, Live
    <3>4. \A c \in Conn : Stays(c)
      BY <3>1 DEF Stays
    <3>5. sent <= sent' /\ epoch <= epoch'
      <4>1. sent \in Nat /\ epoch \in Nat
        BY DEF SInv, Typed
      <4> QED
        BY <3>1, <4>1
    <3>6. \A c \in Conn : Kept(c)'
      BY <3>2, <3>4, <3>5, Stay DEF SInv
    <3> QED
      BY <3>2, <3>3, <3>6 DEF SInv
  <2> QED
    BY <2>1, <2>2
<1>2. SInv => TypeOK
  <2> SUFFICES ASSUME SInv PROVE TypeOK
    OBVIOUS
  <2>1. \A c \in Conn : /\ Len(stream[c]) <= 2 /\ Len(inbox[c]) <= 1 /\ Len(events[c]) <= EventCap
                        /\ Len(wire[c]) <= WireCap /\ Cardinality(owned[c]) <= SessionCap
                        /\ acked[c] <= epoch
    BY DEF SInv, Kept, Paired, Limited
  <2> QED
    BY <2>1 DEF SInv, Typed, Permits, TypeOK
<1>3. SInv => EventsWhole
  BY DEF SInv, Kept, Whole, EventsWhole
<1>4. SInv => AnsweredOnce
  BY DEF SInv, Kept, Lined, AnsweredOnce
<1>5. SInv => NoOrphan
  BY DEF SInv
<1> QED
  BY <1>1, <1>2, <1>3, <1>4, <1>5, Initially, Steps, PTL DEF Spec, ServingSafe
=============================================================================
