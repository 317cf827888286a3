------------------------------ MODULE MCRuntime ------------------------------
(* The model runtime in four parts that share no state: Provenance, whether   *)
(* the files are still those that were hashed; Models, which model a start    *)
(* loads; Service, the processes; and Stream, a streamed reply.  `part' says  *)
(* which one a behaviour is about; the variables of the others stay.          *)
EXTENDS Service, Sequences

CONSTANTS
    Unknown, Hosts, Memory, Supplies, Picks, Disks, \* Models'
    Entry, Weights, MaxTouch                        \* Provenance's

VARIABLES
    part,
    host, available, supplies, installed, chosen, advice, phase, model,
    files, inode, dir, clock, step, at, open, noted, first, found,
    reply, shape, read, taken, closed, framing, left, body, pending, acc,
    cancelled, late, result

startup == <<host, available, supplies, installed, chosen, advice, phase, model>>
bundle == <<files, inode, dir, clock, step, at, open, noted, first, found>>
streamed == <<reply, shape, read, taken, closed, framing, left, body, pending, acc,
              cancelled, late, result>>
all == <<part, vars, startup, bundle, streamed>>

-----------------------------------------------------------------------------

Host(total, cpus, arch, avx2, vendors) ==
    [total |-> total, cpus |-> cpus, arch |-> arch, avx2 |-> avx2, vendors |-> vendors]
Supply(type, state) == [type |-> type, state |-> state]

MCHosts ==
    {Host(total, 12, "x86_64", TRUE, {"intel"}) : total \in {Unknown, 0, 3579, 3779, 8192, 24576}}
    \cup {Host(8192, 3, "x86_64", TRUE, {"amd"}), Host(8192, 4, "x86_64", TRUE, {}),
          Host(8192, 6, "x86_64", TRUE, {"intel", "nvidia"}), Host(8192, 6, "x86_64", FALSE, {}),
          Host(8192, 6, "aarch64", FALSE, {}), Host(8192, 6, "riscv64", FALSE, {})}
MCSupplies == {{}, {Supply("mains", "online")},
               {Supply("battery", "discharging"), Supply("mains", "online")},
               {Supply("battery", "unreadable"), Supply("battery", "full")}}
MCDisks == {{}, {"qwen3-0.6b", "qwen3-1.7b"}, {"qwen3-1.7b", "gemma-3-1b", "llama-3.2-1b"}}

M == INSTANCE Models

P == INSTANCE Provenance WITH
    Model <- Weights, MaxChange <- MaxTouch, disk <- files, pc <- step, kept <- first

\* A host's numbers are numbers where there are any, what is installed is of
\* the catalog, and a bundle lists something beside the weights.
ASSUME RuntimeAssumption ==
    /\ Unknown \notin Nat /\ Memory \subseteq Nat
    /\ \A h \in Hosts : h.total \in Nat \cup {Unknown} /\ h.cpus \in Nat
    /\ \A ids \in Disks : ids \subseteq DOMAIN M!WRITING_MODELS
    /\ IsFiniteSet(Entry) /\ Entry # {} /\ Entry \subseteq Nat \ {0}
    /\ Weights \in Nat \ ({0} \cup Entry) /\ MaxTouch \in Nat

-----------------------------------------------------------------------------
(* Replies                                                                 *)

Event(content, prob, stop) ==
    [kind |-> "data", index |-> 0, content |-> content, prob |-> prob, stop |-> stop]
Comment == [Event(<<>>, "unknown", "no") EXCEPT !.kind = "comment"]

OK(lengths, codings) == [status |-> 200, type |-> "event-stream", lengths |-> lengths, codings |-> codings]
WholeOf(list, head, cut, tail) == [events |-> list, head |-> head, cut |-> cut, tail |-> tail]

\* Answers of the model: pieces of words, likely or not, and how they stop.
Answers == {
    <<Event(<<" ", "a">>, "high", "no"), Event(<<"b", " ">>, "high", "no"), Event(<<"a">>, "high", "limit")>>,
    <<Event(<<" ", "a", "b">>, "high", "no"), Event(<<" ", "b">>, "low", "no"), Event(<<>>, "unknown", "dot")>>,
    <<Event(<<" ", "a", "b">>, "low", "no"), Event(<<" ", "a">>, "high", "no"), Event(<<>>, "unknown", "eos")>>,
    <<Event(<<" ", "a", " ">>, "high", "no"), Event(<<"b">>, "unknown", "eos")>>}

Short == <<Event(<<"a">>, "high", "eos")>>
Long == <<Comment, Event(<<" ", "a">>, "high", "no"), Comment, Event(<<"b">>, "high", "eos")>>
Wrong == <<Event(<<" ", "a">>, "high", "no"), [Event(<<"b">>, "high", "eos") EXCEPT !.index = 1]>>

MCReply ==
    {WholeOf(a, h, 5, <<>>) : a \in Answers, h \in {OK(<<12>>, <<>>), OK(<<>>, <<>>)}}
    \cup {WholeOf(a, OK(<<>>, <<"chunked">>), 5, <<>>) : a \in {b \in Answers : Len(b) = 2}}
    \cup {WholeOf(a, OK(<<>>, <<>>), 5, <<>>) : a \in {Long, Wrong}}
    \cup {WholeOf(Short, h, 9, t) :
            h \in {OK(<<4, 5>>, <<>>), OK(<<2>>, <<>>), OK(<<>>, <<"gzip">>), OK(<<>>, <<>>),
                   [OK(<<>>, <<>>) EXCEPT !.status = 500], [OK(<<>>, <<>>) EXCEPT !.type = "json"]},
            t \in {<<>>, <<<<"junk">>>>}}

MCShape == {[echo |-> e[1], extend |-> e[2], floor |-> TRUE, words |-> w] :
              e \in {<<<<>>, FALSE>>, <<<<" ", "a">>, FALSE>>, <<<<" ", "a">>, TRUE>>}, w \in {1, 2}}
           \cup {[echo |-> <<>>, extend |-> FALSE, floor |-> FALSE, words |-> 2]}


R == INSTANCE Stream WITH
    Lexicon <- {}, MaxChars <- 6, MaxWords <- 3, MinHealed <- 2, MinFixed <- 2,
    MaxWordLen <- 4, ShortWord <- 1, Window <- 4, CutStep <- 2, MinContext <- 2, MinStem <- 2,
    Reply <- MCReply, Shape <- MCShape, MaxRaw <- 6, MaxTokens <- 3, MaxResponse <- 12

-----------------------------------------------------------------------------

Off == "off"
NoStartup ==
    /\ host = Off /\ available = Off /\ supplies = Off /\ installed = Off
    /\ chosen = Off /\ advice = Off /\ phase = Off /\ model = Off
NoBundle ==
    /\ files = Off /\ inode = Off /\ dir = Off /\ clock = Off /\ step = Off /\ at = Off
    /\ open = Off /\ noted = Off /\ first = Off /\ found = Off

NoStream ==
    /\ reply = Off /\ shape = Off /\ read = Off /\ taken = Off /\ closed = Off
    /\ framing = Off /\ left = Off /\ body = Off /\ pending = Off /\ acc = Off
    /\ cancelled = Off /\ late = Off /\ result = Off

AtRest == Init /\ home = [b \in Broker |-> 1] /\ disk.right /\ main = [h \in Home |-> None]

AllInit ==
    \/ part = "processes" /\ Init /\ NoStartup /\ NoBundle /\ NoStream
    \/ part = "startup" /\ M!Init /\ AtRest /\ NoBundle /\ NoStream
    \/ part = "bundle" /\ P!Init /\ AtRest /\ NoStartup /\ NoStream
    \/ part = "reply" /\ R!Init /\ AtRest /\ NoStartup /\ NoBundle

AllNext ==
    /\ UNCHANGED part
    /\ \/ part = "processes" /\ Next /\ UNCHANGED <<startup, bundle, streamed>>
       \/ part = "startup" /\ M!Next /\ UNCHANGED <<vars, bundle, streamed>>
       \/ part = "bundle" /\ P!Next /\ UNCHANGED <<vars, startup, streamed>>
       \/ part = "reply" /\ R!Next /\ UNCHANGED <<vars, startup, bundle>>

\* The fairness is that of the processes and of a call: of the other parts only
\* what is never false is checked.
Reads == part = "reply" /\ UNCHANGED <<part, vars, startup, bundle>>
AllSpec ==
    /\ AllInit /\ [][AllNext]_all /\ Fairness
    /\ WF_all(Reads /\ R!Moves) /\ WF_all(Reads /\ R!BudgetEnds)

-----------------------------------------------------------------------------

\* The model a start loads: the advice can be followed, the user's choice wins
\* and the host keeps its reserve (model_selection.rs).
StartRight == part = "startup" => M!TypeOK /\ M!AdviceHolds /\ M!ChoiceWins /\ M!ReserveKept

\* What is confirmed without a second hash still has the bytes that were
\* hashed, and what nobody touched is confirmed (provenance.rs).
BytesRight == part = "bundle" => P!TypeOK /\ P!ConfirmedBytes /\ P!UntouchedPasses

\* What a start loads is right: StartRight and BytesRight.
LoadedRight == StartRight /\ BytesRight

\* What a streamed call answers is whole, confident and independent of how the
\* reply is cut on the wire (semantic/client.rs, semantic/wire.rs).
StreamRight == part = "reply" =>
    R!TypeOK /\ R!WholeWords /\ R!Confident /\ R!SameAnswer

\* ModelsEnd of the processes, and every call ends though the runtime may never
\* answer.
RuntimeEnds == ModelsEnd /\ <>(part = "reply" => result # R!NoResult)
=============================================================================
