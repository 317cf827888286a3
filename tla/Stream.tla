------------------------------- MODULE Stream -------------------------------
(***************************************************************************)
(* One call of the model: the reply's way from the socket to a suggestion  *)
(* (broker/src/semantic/wire.rs and client.rs complete_inner, read_stream  *)
(* and what it calls).  The runtime sends a reply of its own making, in    *)
(* pieces of any size; it may be cut off anywhere; the session may cancel  *)
(* the call, and the writing budget may run out, at any step.              *)
(*                                                                         *)
(* Abstractions.  The wire is a sequence of symbols: the two halves of a   *)
(* head, the two halves of an event, a line break, a chunk-size line, the  *)
(* line break after a chunk.  A size counts symbols.  An event is what     *)
(* serde reads from its data.  Texts are those of Words.  A token's        *)
(* log-probability is above the floor, below it, or not known.             *)
(***************************************************************************)
EXTENDS Words

CONSTANTS
    Reply,      \* replies a runtime may send
    Shape,      \* StreamShape of a call
    MaxRaw,     \* MAX_RAW_OUTPUT_BYTES
    MaxTokens,  \* MAX_PROBABILITY_TOKENS
    MaxResponse \* MAX_RESPONSE_BYTES

VARIABLES
    reply, shape,     \* this call's
    read, taken,      \* Connection: what is read from it, and consumed
    closed,           \* and whether it has ended
    framing,          \* Response.framing
    left,             \* bytes of the body or chunk still to come
    body,             \* response_body_bytes
    pending,          \* body symbols that end no event yet
    acc,              \* StreamAccumulator
    cancelled, late,  \* the token is cancelled; the writing budget is spent
    result

conn == <<read, taken, framing, left>>
vars == <<reply, shape, closed, conn, body, pending, acc, cancelled, late, result>>

TypeOK ==
    /\ reply \in Reply /\ shape \in Shape
    /\ taken <= read
    /\ framing \in {"head", "length", "close", "size", "data", "end", "trailers", "complete"}
    /\ left \in Nat /\ Len(pending) <= MaxResponse /\ Len(acc.out) <= MaxRaw
    /\ closed \in BOOLEAN /\ cancelled \in BOOLEAN /\ late \in BOOLEAN
    /\ result.kind \in {"none", "suggested", "abstained", "invalid", "failed", "cancelled"}

-----------------------------------------------------------------------------
(* Replies                                                                 *)

Nl == <<"nl">>
EventSymbols(i) == <<<<"event", i, 1>>, <<"event", i, 2>>, Nl, Nl>>
Body(r) == FlattenSeq([i \in DOMAIN r.events |-> EventSymbols(i)]) \o r.tail

\* A chunk of every `cut' symbols, then the last-chunk and no trailer.
Chunked(symbols, cut) ==
    LET count == (Len(symbols) + cut - 1) \div cut
        piece(i) == Part(symbols, (i - 1) * cut + 1, IF i = count THEN Len(symbols) ELSE i * cut)
    IN FlattenSeq([i \in 1 .. count |-> <<<<"size", Len(piece(i))>>>> \o piece(i) \o <<<<"crlf">>>>])
       \o <<<<"size", 0>>, <<"crlf">>>>

Wire == [r \in Reply |-> <<<<"head", 1>>, <<"head", 2>>>> \o
    IF r.head.codings = <<>> THEN Body(r) ELSE Chunked(Body(r), r.cut)]

\* parse_head: repeated lengths must agree, the one coding is chunked and
\* overrides a length, and some statuses have no body.
HeadValid(head) ==
    /\ \A i, j \in DOMAIN head.lengths : head.lengths[i] = head.lengths[j]
    /\ head.codings \in {<<>>, <<"chunked">>}

HeadFraming(head) ==
    IF head.status \in {204, 304} THEN "complete"
    ELSE IF head.codings # <<>> THEN "size"
    ELSE IF head.lengths # <<>> THEN "length" ELSE "close"

-----------------------------------------------------------------------------
(* The accumulator                                                         *)

Fresh == [out |-> <<>>, tokens |-> <<>>, known |-> TRUE, length |-> 0,
          invalid |-> FALSE, finish |-> "no"]

Stops == {"eos", "limit", "dot", "newline", "other", "two"}
Malformed(a, e) == e.index # 0 \/ a.finish # "no"

\* accept_event of a well-formed one.  A stop at a dot gives it back.
Accept(a, e) ==
    LET tooLong == Len(a.out) + Len(e.content) > MaxRaw
        out == IF tooLong THEN a.out ELSE a.out \o e.content
        counted == e.content # <<>> /\ e.prob # "unknown" /\ Len(a.tokens) < MaxTokens
        dotted == e.stop = "dot" /\ Len(out) < MaxRaw
    IN [out |-> IF dotted THEN Append(out, ".") ELSE out,
        tokens |-> IF ~counted THEN a.tokens
                   ELSE Append(a.tokens, [size |-> Len(e.content), prob |-> e.prob]),
        known |-> a.known /\ (e.content # <<>> => counted),
        length |-> a.length + Len(e.content),
        invalid |-> a.invalid \/ tooLong \/ e.stop \in {"other", "two"}
                    \/ (e.stop = "dot" /\ ~dotted),
        finish |-> IF e.stop = "no" THEN "no" ELSE IF e.stop = "limit" THEN "length" ELSE "stop"]

Covered(a) == FoldLeft(LAMBDA n, t : n + t.size, 0, a.tokens)
ProbabilitiesKnown(a) == a.known /\ Covered(a) = a.length

\* The token's bytes in the stream: after those before it, up to its end.
TokenEnd(a, i) == FoldLeft(LAMBDA n, t : n + t.size, 0, Part(a.tokens, 1, i))
TokenStart(a, i) == TokenEnd(a, i - 1)
FirstToken(a) == IF a.tokens = <<>> THEN 0 ELSE a.tokens[1].size

\* first_token_breaks: it is known, and does not begin with the whole echo.
Breaks(a, echo) ==
    /\ ~a.known \/ a.tokens # <<>>
    /\ ~(a.tokens # <<>> /\ echo # <<>> /\ FirstToken(a) <= Len(a.out)
         /\ IsPrefix(echo, Part(a.out, 1, FirstToken(a))))

\* strip_healed_prefix, whose absence and empty rest show the same: nothing.
Visible(a, echo) == IF IsPrefix(echo, a.out) THEN From(a.out, Len(echo) + 1) ELSE <<>>

-----------------------------------------------------------------------------
(* What a call comes to                                                    *)

Ended(kind, text) == [kind |-> kind, text |-> text]
NoResult == Ended("none", <<>>)
Failed == Ended("failed", <<>>)

\* Mutant: only the tokens that begin within the shown text are judged.
JudgedWithin(a, from, end) ==
    {i \in DOMAIN a.tokens : TokenStart(a, i) >= from /\ TokenStart(a, i) < end}

Judged(a, from, end) ==
    {i \in DOMAIN a.tokens : TokenEnd(a, i) > from /\ TokenStart(a, i) < end}

\* gate_confidence: the token that writes a typed lexicon word is not judged.
Gate(a, sh, found) ==
    LET echo == Len(sh.echo)
        from == IF sh.extend /\ FirstToken(a) > echo THEN FirstToken(a) ELSE echo
        end == echo + Len(found.text)
        judged == IF end > from THEN Judged(a, from, end) ELSE {}
        wordOnly == from > echo /\ from >= end
    IN IF ~sh.floor \/ found.kind # "suggested" THEN found
       ELSE IF ProbabilitiesKnown(a) /\ (wordOnly \/ judged # {})
               /\ \A i \in judged : a.tokens[i].prob = "high" THEN found
       ELSE Ended("abstained", <<>>)

\* At a token limit the last token may hold part of a word.
Kept(a, text) ==
    IF a.finish # "length" THEN text
    ELSE Part(text, 1, Greatest({1} \cup {i \in DOMAIN text : text[i] \in Space}) - 1)

SuggestedOr(shown) == IF shown = None THEN Ended("abstained", None) ELSE Ended("suggested", shown)

\* The answers below are sets of at most one.
Finished(a, sh) ==
    IF a.invalid THEN {Ended("invalid", <<>>)}
    ELSE {Gate(a, sh, SuggestedOr(shown)) : shown \in
            {CompleteWordPrefix(text, sh.words, TRUE) : text \in
                {Kept(a, visible) : visible \in {Visible(a, sh.echo)}}}}

AtDeadline(a, sh) ==
    IF a.invalid THEN {Ended("abstained", None)}
    ELSE {Gate(a, sh, SuggestedOr(shown)) : shown \in
            {AvailableCompleteWords(text, sh.words) : text \in {Visible(a, sh.echo)}}}

\* The answer that an event settles, none to read on.
Settled(a, sh) ==
    IF sh.extend /\ Breaks(a, sh.echo) THEN {Ended("abstained", None)}
    ELSE IF a.invalid THEN {}
    ELSE {Gate(a, sh, SuggestedOr(shown)) : shown \in
            {CompleteWordPrefix(text, sh.words, FALSE) : text \in {Visible(a, sh.echo)}} \ {None}}

-----------------------------------------------------------------------------
(* Events in the body                                                      *)

\* next_event_boundary: the first blank line.
Boundary(symbols) == {i \in 1 .. Len(symbols) - 1 : symbols[i] = Nl /\ symbols[i + 1] = Nl}

\* event_data and serde: both halves of one event, a comment, or no JSON.
DataOf(symbols) ==
    IF \E i \in DOMAIN reply.events : symbols = <<<<"event", i, 1>>, <<"event", i, 2>>>>
    THEN reply.events[symbols[1][2]]
    ELSE [kind |-> IF symbols = <<>> THEN "comment" ELSE "bad"]

\* Mutant: what follows an event in the same piece is dropped.
RestLost(symbols, end) == <<>>

Rest(symbols, end) == From(symbols, end + 2)

\* After the terminal event, or the end of the body.
Concluded(symbols, a) ==
    IF a.finish = "no" \/ (\E i \in DOMAIN symbols : symbols[i] # Nl) THEN {Failed}
    ELSE Finished(a, shape)

-----------------------------------------------------------------------------
(* The runtime, the session and the clock                                  *)

Init ==
    /\ reply \in Reply /\ shape \in Shape
    /\ closed = FALSE /\ read = 0 /\ taken = 0
    /\ framing = "head" /\ left = 0 /\ body = 0
    /\ pending = <<>> /\ acc = Fresh /\ result = NoResult
    /\ cancelled = FALSE /\ late = FALSE

Running == result = NoResult
Stay == UNCHANGED <<reply, shape>>

Cancel ==
    /\ Running /\ ~cancelled /\ cancelled' = TRUE
    /\ Stay /\ UNCHANGED <<closed, conn, body, pending, acc, late, result>>

BudgetEnds ==
    /\ Running /\ ~late /\ late' = TRUE
    /\ Stay /\ UNCHANGED <<closed, conn, body, pending, acc, cancelled, result>>

-----------------------------------------------------------------------------
(* The call                                                                *)

Buffered == Part(Wire[reply], taken + 1, read)
Came == UNCHANGED <<closed, cancelled, late>> /\ Stay
Keep == UNCHANGED <<body, pending, acc>> /\ Came
Answer(found) == result' \in found /\ UNCHANGED conn /\ Keep
End(found) == Answer({found})

\* The events that a piece completes are all taken before the next wait.
Digesting == acc.finish # "no" \/ Boundary(pending) # {}
Waiting == Running /\ ~Digesting

\* The selects are biased: a cancelled call, then a spent budget, then data.
Stopped == Waiting /\ cancelled

Aborted == Stopped /\ End(Ended("cancelled", <<>>))

\* Mutant: only the wait for the body ends with the budget.
TimedOutBody == Waiting /\ ~cancelled /\ late /\ framing # "head"

\* Waiting for the head consumes the same budget as the stream.
TimedOut == Waiting /\ ~cancelled /\ late

OutOfTime ==
    /\ TimedOut
    /\ Answer(IF framing = "head" THEN {Ended("abstained", None)} ELSE AtDeadline(acc, shape))

Live == Waiting /\ ~cancelled /\ ~late

\* Nothing that is buffered will do.
Wants == CASE framing = "head" -> Len(Buffered) < 2
           [] framing \in {"close", "data", "size", "end", "trailers"} -> Buffered = <<>>
           [] framing = "length" -> Buffered = <<>> /\ left > 0
           [] OTHER -> FALSE

ReadMore ==
    /\ Live /\ Wants /\ ~closed
    /\ read' \in read + 1 .. Len(Wire[reply])
    /\ UNCHANGED <<taken, framing, left, result>> /\ Keep

\* The connection ends, anywhere: the end of a body that nothing else delimits.
ReadEnd ==
    /\ Live /\ Wants /\ closed' = TRUE
    /\ framing' = IF framing = "close" THEN "complete" ELSE framing
    /\ result' = IF framing = "close" THEN NoResult ELSE Failed
    /\ UNCHANGED <<read, taken, left, body, pending, acc, cancelled, late>> /\ Stay

\* The status and the media type are looked at before the body.
ReadHead == LET head == reply.head IN
    /\ Live /\ framing = "head" /\ Len(Buffered) >= 2
    /\ \/ (~HeadValid(head) \/ head.status # 200 \/ head.type # "event-stream") /\ End(Failed)
       \/ /\ HeadValid(head) /\ head.status = 200 /\ head.type = "event-stream"
          /\ framing' = HeadFraming(head) /\ taken' = taken + 2
          /\ left' = IF HeadFraming(head) = "length" THEN head.lengths[1] ELSE 0
          /\ UNCHANGED <<read, result>> /\ Keep

\* Lines of the chunked coding.
Line(symbol, next, size) ==
    /\ Live /\ Buffered # <<>>
    /\ \/ Buffered[1] = symbol /\ framing' = next /\ left' = size
          /\ taken' = taken + 1 /\ UNCHANGED <<read, result>> /\ Keep
       \/ Buffered[1] # symbol /\ End(Failed)

SizeLine == framing = "size" /\
    LET size == IF Buffered = <<>> \/ Buffered[1][1] # "size" THEN 0 ELSE Buffered[1][2]
    IN Line(<<"size", size>>, IF size = 0 THEN "trailers" ELSE "data", size)
ChunkEnd == framing = "end" /\ Line(<<"crlf">>, "size", 0)
Trailers == framing = "trailers" /\ Line(<<"crlf">>, "complete", 0)

\* The next piece: what is buffered, as far as it belongs to the body.
Available ==
    IF framing = "close" \/ Len(Buffered) < left THEN Len(Buffered) ELSE left

Onward(count) ==
    /\ taken' = taken + count
    /\ left' = IF framing = "close" THEN 0 ELSE left - count
    /\ framing' = IF framing = "data" /\ left = count THEN "end" ELSE framing
    /\ UNCHANGED read

TakePiece ==
    /\ Live /\ framing \in {"length", "close", "data"} /\ Available > 0
    /\ body' = body + Available /\ Onward(Available)
    /\ \/ body' > MaxResponse /\ result' = Failed /\ UNCHANGED pending
       \/ /\ body' <= MaxResponse /\ UNCHANGED result
          /\ pending' = pending \o Part(Buffered, 1, Available)
    /\ UNCHANGED acc /\ Came

TakeEvent ==
    /\ Running /\ acc.finish = "no" /\ Boundary(pending) # {}
    /\ \E end \in {Least(Boundary(pending))} : \E e \in {DataOf(Part(pending, 1, end - 1))} :
        /\ pending' = Rest(pending, end)
        /\ \/ e.kind = "comment" /\ UNCHANGED <<acc, result>>
           \/ /\ e.kind = "bad" \/ (e.kind = "data" /\ Malformed(acc, e))
              /\ result' = Failed /\ UNCHANGED acc
           \/ /\ e.kind = "data" /\ ~Malformed(acc, e)
              /\ \E next \in {Accept(acc, e)} : acc' = next /\
                  result' \in IF Settled(next, shape) = {} THEN {NoResult} ELSE Settled(next, shape)
    /\ UNCHANGED <<conn, body>> /\ Came

\* The terminal event ends the reading; what trails it must be blank.
Conclude == Running /\ acc.finish # "no" /\ Answer(Concluded(pending, acc))

\* The body has ended: no bytes are left of it.
BodyEnds ==
    /\ Live /\ (framing = "complete" \/ (framing = "length" /\ left = 0))
    /\ Answer(Concluded(pending, acc))

Client == Aborted \/ OutOfTime \/ ReadHead \/ SizeLine \/ ChunkEnd
    \/ Trailers \/ TakePiece \/ TakeEvent \/ Conclude \/ BodyEnds

Next == ReadMore \/ ReadEnd \/ Cancel \/ BudgetEnds \/ Client

Spec == Init /\ [][Next]_vars

\* What Aborted, OutOfTime, TakeEvent and Conclude come to, for fairness: their
\* guards, and of their effects what tells them from other steps.
Moves ==
    /\ Stopped \/ TimedOut \/ (Running /\ Digesting)
    /\ UNCHANGED <<reply, shape, closed, conn, body, cancelled, late>>
    /\ \/ result' = Failed /\ UNCHANGED <<pending, acc>>
       \/ result' # NoResult \/ pending' # pending

\* The task is polled and the timer fires; the runtime may be silent for ever.
FairSpec == Spec /\ WF_vars(Moves) /\ WF_vars(BudgetEnds)

-----------------------------------------------------------------------------
(* Properties                                                              *)

\* What the model writes: the contents, the dot a stop takes back, and more of
\* the same word where a limit or the end of the reply cut it short.
Written == LET stop == IF reply.events = <<>> THEN "no" ELSE Last(reply.events).stop IN
    FlattenSeq([i \in DOMAIN reply.events |-> reply.events[i].content])
    \o (IF stop = "dot" THEN <<".">> ELSE IF stop \in {"limit", "no"} THEN <<"b">> ELSE <<>>)

\* What is shown is what the model wrote after the echo, and ends where one of
\* its words ends: no call that is cut short, by a limit of tokens, the budget
\* or the words wanted, shows part of a word as a word.
WholeWords == result.kind = "suggested" =>
    LET whole == From(Written, Len(shape.echo) + 1)
        shown == result.text
    IN /\ IsPrefix(shape.echo, Written) /\ IsPrefix(shown, whole)
       /\ Cardinality(WordRuns(shown)) <= shape.words
       /\ Len(shown) < Len(whole) => ~(Ends(shown, Alnum) /\ whole[Len(shown) + 1] \in Alnum)

EventEnd(i) == Len(FlattenSeq([j \in 1 .. i |-> reply.events[j].content]))

\* Where a floor is set, every token that any shown symbol comes from was
\* likely enough, but for the first one of a typed lexicon word.
Confident == result.kind = "suggested" /\ shape.floor =>
    \A i \in DOMAIN reply.events :
        /\ reply.events[i].content # <<>> /\ ~(shape.extend /\ EventEnd(i - 1) = 0)
        /\ EventEnd(i) > Len(shape.echo) /\ EventEnd(i - 1) < Len(shape.echo) + Len(result.text)
        => reply.events[i].prob = "high"

\* A reply as it should be.
Proper == /\ HeadValid(reply.head) /\ reply.head.status = 200 /\ reply.head.type = "event-stream"
          /\ reply.tail = <<>> /\ Len(Body(reply)) <= MaxResponse
          /\ HeadFraming(reply.head) = "length" => reply.head.lengths[1] = Len(Body(reply))
          /\ \A i \in DOMAIN reply.events : reply.events[i].kind = "data" => reply.events[i].index = 0

After(n) == FoldLeft(Accept, Fresh, SelectSeq(Part(reply.events, 1, n), LAMBDA e : e.kind = "data"))

\* The events read all at once, the first that settles the answer deciding.
Whole == LET deciding == {n \in DOMAIN reply.events : Settled(After(n), shape) # {}}
         IN IF deciding # {} THEN Settled(After(Least(deciding)), shape)
            ELSE Concluded(<<>>, After(Len(reply.events)))

\* The answer of a proper reply does not depend on how the wire is cut: into
\* reads, chunks or halves of events, whatever delimits the body.
SameAnswer == Proper /\ result.kind \notin {"none", "cancelled"} /\ ~late =>
    result \in Whole \/ (result = Failed /\ closed /\ read < Len(Wire[reply]))

\* Every call ends, though the runtime may never answer.
CallEnds == <>(result # NoResult)

=============================================================================
