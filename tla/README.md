# A TLA+ development of the Badi broker

Badi is a local writing assistant. A broker process (`broker/`, Rust) holds the
policy, the sessions, the suggestions and the right to commit them; adapters
(Fcitx, Neovim, Obsidian, LibreOffice, Bash, the accessibility observer) own
the text fields and speak to it over a Unix socket. These modules state what
makes the broker correct, check it with TLC on small instances, and prove the
central parts with TLAPS for every value of the constants.

## Inventory

Every source path below is under `broker/src` unless it says otherwise. The
status of each part, with its modules, is also in `PROJECT.json`.

| Part | State | Operations | Talks to | Correct when |
| --- | --- | --- | --- | --- |
| Sessions (`engine/session.rs`) | the session table; per session coordinates, retained context, lease, generation, provider token | open, close, context update, lease arm, renew and expire, retire, cancel | connections (events), tasks (tokens) | context is never retained without a lease that ends it; retired work is cancelled; what the adapter shows is what the broker holds |
| Generations (`engine/generation.rs`) | provider permits, spawned tasks | request, cancel, admit (abstain, carry, busy, generate), finish, fail, time out, expire a display | provider, sessions, metrics | an answer shows only if the session still awaits exactly that call; a call that is awaited is running |
| Grants (`engine/acceptance.rs`) | visible and pending suggestion, grant timer | accept a word or all, dismiss, commit result, grant expiry | adapter, outcome recorder | one grant per suggestion, never past its deadline; one outcome per Shown |
| Alternatives (`engine/alternatives.rs`) | the list a session may pick from | ask, list, pick, fall back | generations | a plan made under one lock is admitted only if it still holds |
| Type-through (`engine/type_through.rs`) | the carry: text of the last shown suggestion | consult, show the remainder | generations | derived text never outlives its authority or its deadline |
| Authority (`engine/authority.rs`, `desktop.rs`, `editor.rs`, `snooze.rs`, `settings.rs`) | pause, epoch, acknowledgements, helper reports, share grace, editor focus, snoozes, control-plane condition | pause, toggle, report, forget, snooze, end, expire, acknowledge, begin and finish a settings mutation | server (broadcast), sessions | no data moves while withheld; every change reaches every subscriber; a hold outlives the helper that crashed |
| Server (`server.rs`) | connections, queues, owned sessions | accept, negotiate, dispatch, forward events, close on lag, tear down | everything above | a connection that missed something owns nothing; frames stay in step; answers come once, in order; no session outlives its connection |
| Control plane (`control_plane.rs`, `settings/`, `personalization.rs`, `style.rs`) | the settings in force and the retained stores, each in memory and in its file | open, replace by revision, record, reconcile, clear, forget | files | retained data never exceeds what the committed settings allow, whatever step fails; an unknown commit keeps the data plane shut |
| Outcome recorder (`engine/outcomes.rs`) | queue of 256, one worker, sweep timer | record, clear, forget, snapshot, flush, sweep | control plane | outcomes before a clear are gone after it, those after it stay |
| Usage statistics, quietness (`stats.rs`, `engine/quietness.rs`) | counts by day and subject, a level per subject | record, flush, forget, summary, judge | recorder, generations | counts are exact and survive a flush; quiet has a cause |
| Learned words (`vocabulary/learned.rs`, `control_plane.rs`) | visits in memory, one sealed record per subject, what is published for prompts | report, count, offer, forget, reconcile, key | recorder, generations | a word is offered after two visits, only where allowed; what was forgotten does not return |
| Rejections (`engine/rejections.rs`) | keyed hashes | observe, ask | generations | rates and eviction |
| Revision (`engine/revision.rs`, `revision/`) | one revision per session, synonyms shown, a model process of its own with an idle stop | request, show, apply, expire, start, stop | sessions, its process | an answer shows only where it is still asked, commits once; one call at a time; no process is forgotten |
| Broker process (`main.rs`, `server.rs` run) | storage locks, public socket, the owned model process | start, bind, serve, drain, stop | service manager, kernel | one broker per home; nothing left behind unless killed |
| Semantic runtime (`semantic/runtime.rs`, `process.rs`, `provenance.rs`) | the `llama` process, a helper that ties it to the broker, kept identities of verified files | verify, launch, confirm, wait, signal, reap | kernel, files | no orphan process, no signal to a process number that was reused; what runs is what was verified |
| Semantic client (`semantic/client.rs`, `wire.rs`) | one call, its budget and cancellation | request, read a stream, retry with a first token, list words | HTTP to the process | an answer does not depend on how the reply is cut; nothing is sent late; every request is answered |
| Writing, spelling, vocabulary (`writing.rs`, `segment.rs`, `spelling.rs`, `vocabulary.rs`) | lexica | what may be shown, corrected, completed, echoed | client | what is shown reads well, with nothing half |
| Model selection (`model_selection.rs`) | the catalog, the selection | advise, choose, start | hardware reports | what is started fits the host and was chosen |
| Metrics, debug trace | counters | | everything | |
| Wire (`protocol.rs`, `ipc.rs`) | none | encode, decode, validate | server | a message is admitted only where its connection may send it |
| Adapters (`adapters/`) | one state machine each | field events, keys, broker events | broker | the field edited is the field suggested for |
| `badictl`, scripts, UI, packaging, evaluation | none at run time | commands, installers, benchmarks | broker | not part of the running system |

What is hard here: one mutex serialises the broker's state, but provider calls,
three kinds of timer, the event queue of each connection and the broadcast of
authority epochs all act later on what they captured under an earlier lock;
alternatives and abstentions hold the lock twice; settings replacement holds it
before and after a file commit that may fail in the middle; helpers crash; the
broker and the model process may each die between any two system calls of the
other; a reply and a frame may be cut anywhere.

## Modules

| Module | What it is |
| --- | --- |
| `Offers` | abstract: what the broker promises about suggestions |
| `Engine` | the session engine, one action per critical section |
| `MCEngine` | small instances of `Engine` |
| `EngineProofs` | of `Engine`, proved: the safety invariants, why things come and go, what broker and adapter believe of each other, funds, and that it implements `Offers` |
| `Authority` | what is withheld and who has heard of it: switches, helpers, settings mutations, connection loops |
| `MCAuthority` | small instances of `Authority` |
| `AuthorityProofs` | its type correctness, invariants and action properties, proved |
| `ControlPlane` | the settings file, two retained stores, the outcome queue and its worker, crashes and power losses |
| `MCControlPlane` | the documents and sites of its instances |
| `ControlPlaneProofs` | what the stores hold and what they let go, proved |
| `Revision` | revisions of a selection and the model process behind them |
| `MCRevision`, `RevisionProofs` | its instances; its safety, proved |
| `Service` | brokers from start to end, each with the model process it owns |
| `Provenance` | verification of files against what may change them meanwhile |
| `Models` | advice, choice and start of a model |
| `Stream` | one streamed reply, from the socket to a suggestion |
| `MCRuntime` | instances of `Service`, `Provenance`, `Models` and `Stream` |
| `RuntimeProofs` | the safety of the first three, proved |
| `Words`, `Prompts`, `Drafts` | the text rules; what a prompt is; a draft as it is written |
| `Answers`, `Proposal` | what an answer of the model comes to; one request and its calls |
| `MCTexts`, `TextsProofs` | instances of `Drafts` and `Proposal`, and a hello of `Authority`; the safety and the steps of both, proved |
| `Messages` | the messages and what each requires of its connection |
| `Serving` | connections: admission, hello, reader and writer tasks, serve loop, teardown, stop |
| `MCServing`, `ServingProofs` | its instances; its safety, proved |
| `Learned` | learned words |
| `Usage` | usage statistics and quietness |
| `MCHabits`, `HabitsProofs` | instances of `Learned` and `Usage`; their safety, proved |

The modules meet at narrow interfaces, and each takes what the others decide as
a choice among all they may decide:

- `Engine`'s `Withhold`, `Release` and `CloseAll` stand for every switch that
  `Authority` models one by one. Both advance the epoch in the same step.
- `Authority`'s `Commit(outcome)` takes any outcome a replacement of the
  settings may report. `ControlPlane` models the steps that produce it.
- `ControlPlane`'s `Observe` takes any outcome or sample, of any site, that
  the engine may record under the settings in force.
- `Serving` has the tasks and queues of a connection; what a handler's broker
  call decides, and which epoch it sees, is a choice. `Messages` is its table of
  messages. `Authority` has the same hello and loop over the epochs alone.
- `Stream` reads one reply with the rules of `Words`; `Proposal` takes what a
  call leaves as a choice among the answers `Answers` weighs.
- `Service` takes `Provenance`'s confirmation as a comparison of change stamps.

### Engine

`sess[s]` is a `SessionState`: `coord`, `ctx` and `lease` are its coordinates,
its retained context and the lease over it; `gen` its generation; `token` the
provider call it awaits; `visible`, `pending` and `list` the suggestion shown,
the commit granted and the list offered. `tasks` are the spawned generation
tasks, `plans` the alternative requests between their two critical sections,
`offers` what the display and grant timers captured, and `carry` the broker's
type-through text, reduced to whose it is: app, deadline, Shown aggregate and
epoch. `full`, `link` and `screen` are the connection: whether its event queue
has room, whether it is ending, and what its adapter was last told to show.

An action is one critical section on the broker's mutex. A request that
abstains, an alternative, a generation and every timer take the lock again
later, so they are separate actions over what was captured. Time is two steps:
a deadline passes (`LeaseDue`, `DeadlinePasses`, `GrantLapses`) and its timer
acts (`LeaseExpire`, `ExpireSuggestion`, `ExpireGrant`), with anything between
them. `StrayLease` is the timer of a lease that was replaced while it waited
for the lock.

Texts are left out: whether policy admits a context, a provider answers,
a carried remainder matches or a list is well formed is a choice, as is whether
an outcome was recorded. So is quietness. Word and list counts, metrics and
event payloads are not modelled.

### Authority

`paused`, `condition`, `settings`, `away`, `sharing`, `grace`, `focus` and
`snoozes` are the fields of `BrokerState` that deny an app, and `DataAllowed` is
the disjunction the code evaluates. `memory` and `disk` are the settings of the
control plane and of its file. `job` is the holder of the mutation lock:
`writing` while the commit is on the blocking thread, `done` until the lock on
the broker's state is taken again. `pc[c]` is where a connection's task stands:
four steps of the hello, the loop, and the four locks of its teardown.
`queue[c]` and `lagged` are its broadcast receiver, `told[c]` what it was last
sent. A message is two steps, the acknowledgement gate (`Gate`) and the handler
(`Handle`), because `server.rs:658` drops the lock between them.

Battery mode only lengthens delays and is left out. A connection that ended is
not used again, its identifiers being fresh.

### ControlPlane

One mutex orders every operation, so an operation is a `job` whose steps
nothing interleaves with but the arrival of commands, a new day, a crash or a
power loss. `todo` is what is left of it (purge, open, commit, inspect) and
`step` where its current write stands: `write` creates the temporary file or
unlinks, `rename` replaces, `sync` makes it durable, `done`, `failed` and
`unknown` are what the caller sees. `file` and `data` are the two directories:
`now` is what is visible, `may` every content a power loss could leave. A change
adds to `may` and only a sync of the directory reduces it, so the order in which
the file system persists entries is left open.

Records are sets of observed events. Two events of one site and day are one
`DailyAggregate` and are evicted together; the counts are left out. A signal may
also be refused (an outcome without its show), a sample too (no key, a
duplicate). One provider is modelled. The per-site limit of samples is folded
into `SampleLimit`. The learned words and the usage statistics share the worker
and have modules of their own; exports and keys of samples are not modelled. A
start is one step up to the opening of the stores, and temporary copies of the
settings file are left out, since a start removes them. Two interrupted writes
of one content leave one temporary file in the model. `since` and
`keep` are history: the day a document was committed, and whether an event was
observed under settings that persist it.

### Revision

A revision is its number in the order of admission, a process its number in the
order of launch. `sess`, `history` and `screen` are what a session and its
adapter hold of revisions; `revs` the admitted ones with the place of their
task. `lock`, `running`, `launches`, `uses` and `timers` are the slot of
`revision/runtime.rs`: held across a start, with idle stops armed by each use.
`proc` and `socket` are the processes and the file they bind, which is one path
for all. `Engine`'s context and suggestions are absent: a request revokes both.

### Service, Provenance, Models and Stream

A broker of `Service` is its process number, which is not used again, and has a
home. `pc` is where `main` and `run` stand, `os` the child from the helper's
fork to its reaping, `ran` whether it executed the right bytes, `sock`, `main`
and `lock` the files. Any broker may be killed, the files may change, and the
child may exit, between any two steps. `struck` records a signal sent to a number
that was given back. In `Provenance` every system call on the files is a step
and an inode is a change stamp and whether its bytes are the expected ones.
`Models` is a host with sizes in whole MiB, its catalog and selection. `Stream`
is a sequence of wire symbols cut at any place, the state of the reader, and
the text it accepts. The line that begins a chunk is one symbol, so a cut inside
that line is not reached.

### Words, Prompts, Drafts, Answers and Proposal

A text is a sequence of symbols, each standing for a class of characters of one
script with lower case. `Words` has what may be shown of an answer, where a
prompt is cut and healed, completion and correction; `Prompts` the questions
asked; `Answers` what an answer comes to for each kind of request. `Proposal`
is the order of calls of one request within one budget, `away` while a call is
at the model. `Drafts` writes a draft symbol by symbol.

### Messages and Serving

`Messages` has the shape of a message, the validity of a hello and, for each
type, what it requires: an acknowledged epoch, a session the connection owns, a
negotiated capability. In `Serving` a frame crosses the stream in two parts,
head and body. `pc` is the connection's task, `reader` the head its reader task
has, `inbox` its channel, `request` what the handler awaits the broker for,
`events` and `lost` the session's sink, `wire`, `writer` and `got` the way to the
peer, which may stop reading or leave at any step.

### Learned and Usage

In `Learned` a report of a field's words is counted once per visit, queued, and
written in one record per subject. `content`, `file` and `offered` are the
document in memory, on the disk and published. A write happens, fails or ends
unknown. In `Usage` a count is the set of the events it counts, so that
"exact" can be stated; the local day goes back by one where a time zone is
crossed. Its `level` is the quietness judged for a subject.

## Runs

Every run is listed in `PROJECT.json` with its properties and a mutant for each
of them: a plausible defect of the code, kept next to the definition it changes,
that the run then detects.

| Run | Instance | Properties |
| --- | --- | --- |
| `session` | one session, two coordinates, two suggestions, four generations, two epochs | `TypeOK`, `FundOnce`, `WithheldSilent`, `CarryAuthority`, `LeasedContext`, `OwnedWork`, `StepsHaveCause`: what is retained, awaited and carried, through every timer, hold and control |
| `queue` | one session, an event queue that may fill, fairness | `BeliefsHold`: the adapter shows what the broker holds, an awaited call runs; `HoldsEnd`: everything a silent client left ends |
| `alternatives` | one session, the three kinds of alternative | `BoundOffers`, `OneAuthority`, and `OffersSpec`: `Engine` implements `Offers` |
| `switches` | two sessions, one in a native app; a helper, an editor, a snooze; four epochs over a queue of two | `TypeOK`, `NoDataWithheld`, `GoneHoldsNothing`, `NothingMissed`, `AckedSessions`, `EpochTells`: what denies an app leaves nothing there, and every change is heard |
| `share` | two helpers, two documents, every commit outcome, fairness | `Coherent`, `ShareKept`, `RestartSticks`, `AuthorityEnds`: share grace, and settings in force against those of the file |
| `retention` | two sites, two events, one replacement, two faults | `StoresKept`, `HistoryRuns`: what memory and disk hold against what the settings allow |
| `revision` | one session asking twice for synonyms, one process, fairness | `ScreenSafe`, `CallsSafe`, `SynonymFresh`, `AllEnd` |
| `runtime` | two brokers and one change of the files; twelve hosts; two files and a model with two changes; replies of two or three pieces, fairness | `ProcessesSafe`, `LoadedRight`, `StreamRight`, `RuntimeEnds` |
| `texts` | drafts of up to seven symbols, and longer ones before a line led by a mark; thirty requests; a hello with five epochs over a queue of two, fairness | `RequestRight`, `DraftRight`, `StepsRight`, `AnswerComes` |
| `serving` | one connection with two requests, two events, two epochs and queues of one; two connections over one permit, fairness | `ServingSafe`, `ServingEnds` |
| `habits` | two subjects with a field each, two words, one forget; two subjects of which a day names one, two events; one fault of words, two of counts | `LearnedSafe`, `CountsKept` |
| `socket` | two processes of a revision runtime | `NextRequestReaches`, violated: a disagreement, below |

Several properties have named parts, each stated with its own comment where it
is defined. `runtime`, `texts`, `serving` and `habits` check modules side by side:
the initial state chooses a part, the variables of the other parts never
change, and each part's property speaks of its own variables. Nothing is
composed by this, and the state spaces add up instead of multiplying.

Why these bounds are enough to be interesting. Two coordinates and two
suggestions let a late answer or timer meet a newer one. Two epochs let a carry
or an acknowledgement be older than the current one. One permit makes a
superseded call occupy the room of the next. Four epochs over a queue of two
overflow it before, during and after the hello. Two events, one of a site kept for a
day and one of a site learned in memory, with room for one record, make every
eviction happen; two faults let the recovery from a fault fail too. Two days let
retention of one day run out. Two revisions let the second find the first at any
place, and its process being stopped. A second broker meets the first's lock and
socket at every step of its life. Queues of one are full after one message, so that
every wait for room happens. Two reports of a word in two visits are the
threshold at which it is offered. Larger bounds multiply these situations and add
no new kind of one. The proofs below do not depend on them.

`CHECK_DEADLOCK FALSE` is in every configuration: a broker whose clients are
silent does nothing, and a behaviour ends where its bounds are used up.

## Fairness

`Engine`: the runtime runs every task it spawned, every timer fires, and the
loop of a connection whose lifetime token was cancelled tears it down, each
weakly fair. Clients owe nothing, so `ContextEnds`, `OfferEnds` and
`EndingCloses` hold although the adapter never speaks again.

`Authority`: handlers return, the blocking thread of a commit ends, alarms ring
and a teardown goes on, each weakly fair. Forwarding and ending a loop
are strongly fair: they are arms of one `tokio::select!`, which picks among the
ready ones at random, and a busy client disables them again and again without
keeping them from being picked.

`Revision`: a session's lease ends and expires, the launching thread works and
a stopped process is reaped, each weakly fair. A call's own task and the idle stop
are strongly fair: both take a lock that others take again and again. `AllEnd` is
`<>[]` because the bounds end the admissions; after the last one everything of a
revision ends for good.

`Service`: a starting broker, one that ends, the helper, and a serving broker's
notice that its model process ended, each weakly fair. No process is bound to
die, and no broker to be started.

`Stream` and `Proposal`: the budget's timer fires, and the reader or the request
goes on where it waits for nobody, weakly fair. The model owes no answer. The
hello in `MCTexts` has the fairness of `Authority`.

`Serving`: the stop, what passes without the peer, a connection's tasks and a
handler's call into the broker, each weakly fair. Taking the end of the stream or a
request, and ending the loop, are strongly fair, being arms of one
`tokio::select!`. The peer owes nothing.

`ControlPlane`, `Learned`, `Usage`, `Provenance` and `Models` state none.
`SweepEnforces` is the safety half of expiry: what a completed sweep leaves. That a
sweep comes once a minute is the loop of `OutcomeWorker::run`, which is not
stated as a property.

## Disagreements between the code and what it says

Shown by a run:

- A revision runtime that ends removes `llama-<pid>-revision.sock` when it is done
  (`semantic/runtime.rs:654`), by then the path of the runtime a later request has
  started, whose calls fail until it stops idle (run `socket`).

Met while modelling, and stated in the modules where a property can say it; each
is reproduced by the change of a configuration that is given:

- A generated alternative that times out has its own token cancelled
  before the fallback asks whether the session still awaits it
  (`generation.rs:719`). The adapter hears nothing and the session keeps waiting
  for a call that ended, until its next request. `AwaitedCallRuns` with the
  constants of `alternatives`.
- Two sessions of one app that both show text carried from one
  suggestion each charge an outcome to its one Shown aggregate
  (`acceptance.rs:139`). `FundOnce` with two sessions.
- A connection subscribes before its first announcement is read, so an
  epoch that advances in between is announced twice, or after a newer one
  (`server.rs:316`). The shared client ends such a connection.
  `AnnouncedInOrder` with the constants of `switches`.
- A hello whose first announcement cannot be written leaves its
  policy client registered (`server.rs:326`). `GoneUnregistered` with the constants
  of `switches`.
- The style store never removes the temporary copy a crash left
  (`style.rs:153`), so a sealed sample can outlive the permission to keep it
  until `forget`. The settings and the aggregates do remove theirs.
  `SealedOnlyWhileAllowed` with the constants of `retention`.
- A level judged before `badi stats forget` outlives it while too little has been
  shown since (`engine/quietness.rs:5`). `Usage` has what the code does.
- Forgetting the learned words of a store that was given up opens it again
  without its key (`vocabulary/learned.rs:97`): words are learned no more until
  the key is delivered again.
- A learned record whose write ended unknown may be in the file and not in memory
  (`vocabulary/learned.rs:246`); turning context off for its subject then writes
  nothing. What `LearnedSafe` says of the file excepts such a write.
- The visits that remember what was counted are evicted, cleared and lost at a
  restart (`generation.rs:1168`), so one field may count twice. `OfferTwice`
  counts visits, not fields.
- A word that is finished into the line's own first word is repeated when what
  finishes it has a character that is no letter (`writing.rs:233`): `don` before
  ` don't know`, continued by `'t don't`, shows `'t`. The comment above it says that
  insertion never fits. `FinishNeverRepeats` with the constants of `texts` and
  `Asks <- JoinedAsks`, `Observed <- JoinedObserved`. `ProposalReads` was false of
  every repeated word for that reason: the attempt to prove it found a draft longer
  than the ones the run writes, and it now excepts a mark at the caret.
- The head of the line after the caret is lengthened by a second word where its
  length in bytes is that of a short first word (`writing.rs:256`), so also where a
  mark of one byte leads a word of one letter: before `, I think` the answer must
  reproduce both. The comment at `writing.rs:215` says the mark alone.
  `LineHead` does what the code does, and the longer drafts of `texts` reach it.
- A store that was given up is said to stay unavailable until its forget command
  (`control_plane.rs:832`). The next start opens it again (`control_plane.rs:87`, `98`)
  and reconciles it with the settings in force then, which is `Crash` and `Start` of
  `Learned`. Where context was turned on again in between, words whose purge failed
  are offered once more: `wiped` of `LearnedSafe` marks only a purge that succeeded.

Noticed while modelling and allowed by the properties, which say so:

- The acknowledgement is checked under one lock and the session opened under
  another (`server.rs:658`). An epoch between the two leaves a session opened under
  the older one, until the announcement in the queue is forwarded and closes it.
- A snooze that has run out allows its app before its timer advances the epoch,
  and `end_snoozes` in that moment ends it without one (`snooze.rs:53`).
- A settings commit that ends unknown leaves the older document in force in
  the control plane. Outcomes already queued under it are still written, which
  is why the properties of `ControlPlane` speak of states where the document in
  force is the one of the file.
- A clear with nothing in memory, after a clear that failed to sync the removal
  of a temporary file, is acknowledged without a sync. The next start removes
  what may return.
- A sample whose rename succeeded and whose sync failed is in the file and not
  in the store's memory, so the sweep does not see it until the next write or start.
- An alternative that ends in its fallback counts a result class twice or not
  at all, where `generation.rs:521` says once. Metrics are not modelled.
- `session.close`, `suggest.cancel` and `commit.result` are not gated by the
  acknowledgement (`server.rs:680-738`, `1077-1083`): they end things only.
- Advice is given to hosts whose processor the start then refuses; an unknown
  power state gives Balanced even below 8 GiB (`model_selection.rs`).
- A failed forget of the statistics clears the memory and leaves the file
  (`stats.rs:260-266`); the next start counts from it again unless written before:
  each event on the day it has there, which is what `CountsKept` says of a start.

## Proofs

`EngineProofs`: `TypeCorrect`, `OffersBound`, `AuthorityUnique`, `ContextLeased`,
`WithheldIsSilent`, `WorkOwned`, `CarryIsCurrent`, for every number of sessions,
connections, apps, permits and suggestions. None of the invariants is inductive
alone. The inductive invariant adds what relates them: a task that is not
cancelled carries the generation its session awaits; a session that holds a
suggestion, a grant or a call retains context, and its app is not withheld; a
suggestion's recorded generation is the session's; permits bound the calls that
run. The step of each action is one lemma-sized proof, over the few operators
(`Revoke`, `RetireGeneration`, `ArmLease`, `Cancelled`) that change a session.

Its second half, `CausesHold`, with `CInv == IInv /\ Marked /\ Screened`.
`Marked` says that a retained context is of the place its session stands at and
that a visible suggestion was not granted yet; `Screened`, that every adapter on
a connection that works was last told what its session offers. Every step of
the engine is shown to be one of the moves of `Caused`, and two theorems follow
from that alone: `StepsAreCaused` (`StepsHaveCause`: no suggestion comes
back, no context goes on its own) and `ScreensAgree` (`ScreenAgrees`).
`BeliefsAreTrue` is `BeliefsHold` where `Alternatives = {}`: its second half,
that an awaited call runs, is what the timeout of a generated alternative
violates, so the hypothesis is what the code allows. `FundedOnce` is `FundOnce` in
every behaviour in which no two live sessions share an app, again the condition
outside which the code violates it. `Refinement`: every behaviour of `Engine` is
one of `Offers`, where a slot is what a session offers or was granted. Each action
maps to a `Show`, a `Grant`, an `End` or a stutter; it rests on `IInv`:
that a suggestion is new when it enters a slot, and that a session never has a
suggestion and a grant at once.

`AuthorityProofs`: `TypeCorrect`, `WithheldRetainsNothing`, `NothingIsMissed`,
`SessionsAcked`, `GoneLeavesNothing`, `SettingsCoherent`, `RestartIsSticky`,
`EpochAlwaysTells`, `ShareIsKept`. The inductive invariant is
`TypeOK /\ Placed /\ Heard /\ Copies /\ NoDataWithheld`: `Placed` says what a
connection still holds at each step of its hello and teardown; `Heard` that the
last announcement queued, or told when none is, is the current epoch for whoever did
not lag; `Copies` how the three copies of the settings may differ in each phase
of a mutation. `NoDataWithheld` is proved per switch: what a handler newly denies
is within what it revokes.

`ControlPlaneProofs`: `Invariance`, `RecordsAreKept` (`StoresKept`) and
`HistoryIsOrderly` (`HistoryRuns`), for any documents, limits, events, faults and
days. `StoresKept` speaks of every content a power loss may leave, so the inductive
invariant must say what each is. `SettingsRight`: the settings file may survive
as the document in force or one newer, and a revision tells whether its document
kept an event. `FilesRight`: every surviving data file holds only what was
allowed when it was observed and was not forgotten since. `MemoryRight` says the
same of memory; `WriteRight` and `DiskRight` of the write under way, and what of
it has reached the disk; `QueueRight`, that commands behind a clear are younger
than what it clears; and `JobRight`, by operation, how far it is and what it has
established at each stage of its `todo`. The lemmas are laid out by stage.

`RevisionProofs`: `ScreenIsSafe`, `CallsAreSafe`, `SynonymsAreFresh`, for any
number of sessions, requests and processes. The invariant is in two halves that
meet in what is wanted: what sessions hold of revisions, and what their tasks
hold of the permit, the slot and the processes. A session's step leaves the
second half alone but for what it cancels, a task's step the first but for the
answer it delivers. An adapter whose broker does not confirm commits hears nothing
of a refused revision, which may stay on its screen; that it was never cancelled
is what `ScreenSafe` says there.

`RuntimeProofs`: `ProcessesAreSafe` (`ProcessesSafe`), for any number of brokers
and changes, and `LoadedIsRight` (`LoadedRight`), for any host, choice, bundle and
number of changes. Of the processes, `Locks` says who holds a home's storage,
`Paths` that only the holder touches the home's public path, and `Own` follows one
broker, its child and the bytes the child executes: as long as the kept stamp is
the disk's, what was verified is there. Of a start, `StartInv` keeps what the
advice established (`Advised`) until the selection follows it: the host is one the
runtime supports, and an installed model fits its memory beside the reserve, so
that some model starts whatever power and free memory are by then. Of the files, `BundleInv` has three parts. `Fresh`: an identity whose stamp is still the
inode's stands for the bytes it was noted with, because every write is newer.
`Verifier`: what has been seen at each step of the scan, the hash and the
confirmation. These two give `ConfirmedBytes`: the identity kept with a hash is the
one noted before the bytes were read, so that a write after it shows.
`Undisturbed`: while nothing changes, what was noted is what is there, so that
nothing is refused, which is `UntouchedPasses`. That the scan passes every entry
rests on the least element of a set of numbers, taken from the well-foundedness
of `<`.

`HabitsProofs`: `LearnedSafety` (`LearnedSafe`), for any subjects, fields, words and
limits, and `CountsAreKept` (`CountsKept`), for any subjects, events, faults and
days. Of the words, `Kept` says which reports a document may count, `Told` that two
reports of one visit name different words, `Ordered` that what is queued behind a
forget is younger than what it wipes, `Stores` how file, memory and the published
words agree. `Window` is about the moment between a commit and the publication
of what it left: the engine still reads the document of before, and offers what
that one allows. Eviction by rank needs lemmas on finite strict orders. Of the counts,
`CountsRight` says that every event in memory or on the disk happened, was of that
subject and is there once (`Sound`), in memory on the day it was counted
(`Placed`), and that what was counted within the term is there (`Covered`); `FlushRight` what a flush leaves to
be written, `WaitRight` that what the queue holds is not counted yet and waits
once, `LevelsRight` that a level rests on what was shown. A sum over days is the
number of a union of sets of events, so that counting again what a failing write
left needs no arithmetic.

`ServingProofs`: `ServingIsSafe` (`ServingSafe`), for any connections, permits,
limits, requests, events and epochs. The invariant follows each connection:
`Staged`, what it holds at each place of its task; `Paired`, that on the stream a
body follows its head and the reader has the head of the body to come; `Lined`,
that the numbers of the requests ascend from those answered, over the one running
and the ones waiting, to those on the stream; `Whole`, that the events queued,
written and received are those emitted, in order; `Limited`, the capacities. A
step of one connection leaves the others alone, which is proved once; permits and
the owners of sessions are what connections share.

`TextsProofs`: `RequestIsRight` (`RequestRight`), `DraftIsRight` (`DraftRight`),
`StepsAreRight` (`StepsRight`) and `KnownExactly`, for any lexicon, requests, answers,
drafts and bounds. Lemmas on parts of
texts, the least and greatest of a finite set of positions and the spans of
words come first. The lexicon lies in one text, and a lookup halves a range of its
bytes: every position it stops at is the start of a line (`Halved`), the range
shrinks, and a word is found exactly if it is in the lexicon. Recursion on that
range is a function on pairs of positions, which the well-foundedness of `<` makes
total, so no induction is needed. Then what passes each text rule: what is shown
has the shape of a suggestion at its caret, a corrected word is the one before
the caret and known. The invariant of a request, `Requested`, has four parts.
`AskRead`: what was weighed of the answers is what the rules make of them for this
request. `AtCall`, by the call it waits for, what the request has passed to come
there. `Gathered`: a first token begins with the echo and goes beyond it, the
dictionary's choices may replace the word, and the words listed so far are
distinct and new to the person. `Returned`: an answer is one the rules let pass. Prompts: a window that has not moved by
`CutStep` starts at the same symbol, and so does the first word in it. Drafts: the
table of edit distances is a function on pairs of positions which, like the range of a lookup,
is total because the pairs are well-founded. A cell is zero only where the texts so
far are the same and one exactly where they are one edit apart, by the least pair
at which it would not be so; `OneEdit` and the table agree on the last cell.

The assumptions are those of the constants, named where they are declared
(`SetsAssumption`, `LimitsAssumption`, `DocsAssumption`, two
`BoundsAssumption`s, `TargetAssumption`, `ChoicesAssumption`, `RevisionAssumption`,
`ServiceAssumption`, `RuntimeAssumption`, `ServingAssumption`,
`LearnedAssumption`, `UsageAssumption`, `WordsAssumption`, `ProposalAssumption`,
`DraftsAssumption`), and every run of the
module evaluates them. They say that bounds are natural numbers, that sets are
disjoint where the code's types are, and that documents are valid.

Only model-checked:

- the liveness properties `HoldsEnd`, `AuthorityEnds`, `AllEnd`, `RuntimeEnds`,
  `AnswerComes`, `ServingEnds`: fairness and `ENABLED` are out of the prover's reach;
- `FundOnce` with sessions that share an app and `AwaitedCallRuns` with
  alternatives, which fail;
- `StreamRight`: what a reply comes to however it was cut, for texts that are
  joined of any number of parts, which needs induction over data.

## Not modelled

Field policy, status and error reports, the encodings, metrics and traces, the
rejection cache, settings policy and identities, `badictl`, scripts, packaging
and the user interface: pure functions, data or one-shot commands. Case,
combining marks and other scripts of texts are left out. The model is a reply of
its own making. The adapters are clients that do anything the protocol allows;
what they do inside an editor is not modelled, nor is their shared reconnecting
client. The eviction of quietness levels past 256 subjects is left out.

## Plan

1. Done: the models of the broker's parts above, and the proofs.
2. Of `StreamRight` what needs no induction over texts.
3. `SharedClient`, the reconnecting client of the adapters, composed with the
   announcements of `Authority`; then the Fcitx state machine.
