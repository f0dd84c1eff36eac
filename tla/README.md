# Yeoun Persona Engine: TLA+ verification

The Yeoun Persona Engine (`src/app`) is one FastAPI process with one uvicorn
worker, one event loop and one GPU. It builds *personas* from a photo and a voice
(Flow A) and holds spoken conversations with them (Flow B). This directory models
the parts of it in which the order of events matters, checks them with TLC on small
instances, and proves the main invariants with TLAPS for every instance.

## The system

| Component | State it keeps | Operations | Hard behaviour | Correct when |
|---|---|---|---|---|
| Session router `routers/sessions.py` | `_active_messages`, handlers and SSE generators in flight | `POST start`, `message`, `end` | a client may go away at any await; end races with messages | slots exact, nothing leaked, files kept while needed and removed after |
| Session store `sessions/store.py`, `sessions/schemas.py` | dict of `SessionState` (history, lock, last activity) | `create`, `get`, `end`, TTL sweeper | the sweeper does not take the session lock | an announced video stays reachable |
| Message pipeline `pipeline/conversation.py` | locals of one async generator; `speak/{session}/` files | transcribe, guard, stream, filter, record, synthesize, render | a dozen awaits, five `except` clauses, three resources | event order, history and media agree |
| Semaphores `models/registry.py` | `gpu_semaphore`, `ditto_semaphore` | acquire and release, FIFO | cancellation of waiters and holders | exclusive, never leaked |
| Model bridges `models/*.py` | threads, subprocesses | `transcribe`, `stream_response`, `synthesize`, `render_*` | work goes on after its caller is cancelled | late results harm nobody |
| Persona router `routers/personas.py` | handlers in flight | uploads, `process`, `delete`, two reads | check of the row, act awaits later | one worker at a time, deletion final |
| Persona processing `pipeline/persona_creation.py` | `PersonaProcessingStore`; `voice_ref/`, `idle/` | `process_persona`: five steps, each skipped if its file exists | failures, restarts and repeated runs over old files | READY means complete |
| Repository `db/*.py` | rows of `personas`, `persona_idle_clips`, `safety_logs` | get, update, insert, delete | an update can fail after its step succeeded | row agrees with files |
| Media router `routers/media.py`, `storage/filesystem.py` | none; files of others | `GET` clip, `GET` media, ranges | the file grows or vanishes while it is served; index arithmetic | the bytes asked for, or 416 |
| Safety guards `safety/*.py` | none | keyword matching | runs before or after what it guards | crisis ends the message, forbidden text is replaced |
| Prompt, auth, configuration, schemas, health, lifespan | none, or set once at start | string building, comparison, reads | none that interleaves | not modelled, or as restart only |

Interaction: a message is admitted by the router, which counts it, and is processed
inside `async with session.lock`; the pipeline takes `gpu_semaphore` around TTS and
then `ditto_semaphore` around rendering, while still holding the lock. `end` takes
the same lock, pops the session and removes its directory. The sweeper pops sessions
with no lock at all. Persona processing is a background task that takes the same two
semaphores; uploads, `process`, `delete` and `start` meet it through the row's
`status` and through the files. Media requests read the session store and the files
and take no lock.

## Modules

| Module | Models |
|---|---|
| `AsyncLocks` | asyncio's FIFO `Lock` and `Semaphore(1)`: owner, waiters, cancellation |
| `Conversation` | Flow B: router, store, sweeper, pipeline, semaphores, disconnects, abandoned model calls, restarts |
| `Service` | both flows around one persona: `start` and the row, messages and runs at the same semaphores, messages and the files of a run, DELETE under live sessions, one restart for both |
| `GemmaStream` | `stream_response`: the thread of `generate`, the streamer's queue, the shared executor, clients that leave |
| `SseStream` | abstract: what a client is promised about the events of one message |
| `Persona` | Flow A: uploads, process, the processing run with half-made files, delete, kills and shutdowns, a failing database |
| `MediaResponse` | one media GET with `parse_range` and the two body iterators, against a changing file |
| `HistoryTrim` | `_trim_history` on a growing history |
| `MCConversation`, `MCService`, `MCAlgorithms` | instances for TLC |
| `Conversation_proofs` | theorems about types, slots, locks and directories of `Conversation` |
| `Queues_proofs` (extends it) | its FIFO queues, freedom from deadlock |
| `Delivery_proofs` (extends that) | its event streams, history and media; the refinement of `SseStream` |
| `Persona_proofs`, `MediaResponse_proofs`, `GemmaStream_proofs`, `HistoryTrim_proofs` | theorems about the modules of those names |
| `Service_proofs` | theorems about the composition: extends `Persona_proofs`, cites `Delivery_proofs` through an instance |

**Conversation.** An action is the code between two points where a coroutine can
suspend; anything may happen in between. `stage[m]` is the await (or yield) a message
is at: `saving` (reading the upload), `transcribing`, `crisis` (writing the safety
log), `streaming`, `masking`, `text_done` (at the yield of that event),
`synthesizing`, `rendering`, `closing` (at the yield of the last event). It waits for
the session lock at `transcribing`, for the GPU at `synthesizing` and for Ditto at
`rendering`; `wants` and `ahead` hold the queues. A free lock is taken without
suspending and a queued one is granted by a step of its own, as in asyncio.
`Disconnect` is the cancellation of the generator at any of these points: it runs the
`finally` clause (`Finish`) and leaves the model call behind in `stray`, whose file
may appear later (`StrayEnds`). `speakDir`, `wav` and `mp4` are what is on disk.
`history` lives on even after the store dropped the session, because a message keeps
its reference to the `SessionState`. Runs of `process_persona` take part as users of the
semaphores (`RunAsks`, `RunLeaves`), in any order here and in the order of their stages in
`Service`.

**Persona.** One persona, because personas share nothing but the semaphores.
`StepAt` names the stages of a run and the `ProcessingStep` each of them shows.
Generated files are modelled by what they were made from: `refAudio` and `refText` are
the voice upload behind them, so that a text which belongs to another audio can be
told apart. `wholeAudio` and `wholeClips` say which of these files are complete: ffmpeg opens its
output (`AudioOpened`, `ClipOpened`) some time before it is done with it (`Extracted`,
`Rendered`), and may fail, be cancelled or be killed in between. `Crash` is the death of the worker,
`Shutdown` its orderly end, which cancels the runs. `saw[r]` is the status that a process request has read and decides on later.
`left[d]` is what a running `rmtree` has still to come to: it unlinks file by file
(`RemoveEntry`), in any order, and may fail at any of them, so every other action may come in
between and a DELETE may leave `ref_text.txt` without `ref_audio.wav` or the other way round.

**Service** extends `Persona` and instantiates `Conversation` with the same run identifiers. Each
of its actions is an action of one flow with what it means for the other: a message finds the
voice reference and the photo or not (`FilesAllow`); a step of a run leaves one semaphore and
enters the next (`RunLocks`, `Guarding`); `rmtree` comes to `speak/` like to any other directory
(`RemoveSpeak`); `start` reads the row in one step (`StartReads`) and creates the session in a later
one (`StartCreates`). The variable `stage` is Persona's, Conversation's is called `talk`.

**GemmaStream.** `thread[s]` is the thread of `generate` with its `finally` clause, `queue[s]` the
streamer, `jobs` and `busy` the executor: a call of `next` keeps one of its threads until there is
something in the queue, also when its caller has left.

**MediaResponse** and **HistoryTrim** are algorithms with little state. `Requested` and
`Fits` are reference definitions (what HTTP says a range selects; what fits the two
limits), which the code's arithmetic is compared with.

Simplifications are listed at the head of each module.

## Runs

| Run | Instance | Shows |
|---|---|---|
| `conversation_locking` | 1 session, 3 messages, 1 end, 1 run, 2 slots; disconnects | `SlotsExact`, `Serialised`, `NoPermitLeaked`, `QueuesOrdered`, `NoDeadlock`, `HistoryCurrent` |
| `conversation_media` | 2 sessions, 2 messages, 1 end; sweeper, disconnects, restarts | `MediaDirKept`, `HistoryDelivered`, `MediaReadyPlayable`, and refinement of `SseStream` (`SseContract`) |
| `conversation_liveness` | 1 session, 2 messages, 1 end, 1 run; disconnects, restarts; fairness | `MessagesEnd`, `EndsAnswered`, `RunsServed` |
| `service` | the voice stored; 1 process call, 1 delete, 1 session, 1 message, 1 end with disconnects and the sweeper, or 2 process calls, a second voice and 1 delete | `RunsHoldTheirs`, `WorkersExclusive`, `Paired` |
| `service_restarts` | the voice stored; 2 process calls, 1 delete, 1 session; failing database, restarts; fairness | `SessionsUsable`, `ReadyComplete`, `OnlyKillsLeaveHalf`, `RunsHoldTheirs`, `PollEnds` |
| `algorithms` | files up to 4 bytes, chunks of 2, header numbers -1 to 5; histories of 4 pairs, limits 4 and 4; 2 streams of up to 3 pieces, 1 executor thread; fairness | `RefusedRightly`, `BodyExact`, `GetEnds`, `PromptIsLongestThatFits`, `Forgets`, `ReplyWhole`, `StreamsEnd`, `ThreadsReturn` |

`conversation_locking`, `service`, `service_restarts` and `algorithms` also check the type invariants of
their modules. Deadlock is checked in all of them but `algorithms`, where a request that is
over rests. `Quiet` (`ServiceQuiet`) lets the models rest when no request is in
flight, so a state in which requests are in flight and none can move is reported where no restart
is enabled. `NoDeadlock` says more: whoever waits, waits behind somebody who can go on, also while
other requests keep the system moving.
`service` has no failing database and no restarts, because with them `WorkersExclusive` and `Paired`
are false, against what the code's comments promise (below). `service_restarts` has both.

The bounds. Three messages are the least with which the queue of a session lock has a
middle, so that a cancelled waiter leaves somebody behind it, and with which a third
meets the limit of two slots. One session's messages reach GPU and Ditto one at a time, so a run or
a second session is what it takes to contend for them. One end suffices for the races with messages (a second finds the session
gone). Identifiers are used once, which bounds every history. A run of tokens is one
event: the contract does not count them. Two process calls are a failed run and its repetition,
or a run and a stale request beside it. Two voices let a newer one arrive. The runs of `Service` begin
when the photo and one voice are stored (`Stored` in `MCService`), since nothing happens before. In
`service` the requests come in two groups, because all of them together are beyond five minutes of
TLC: one process call with a conversation, where the two flows share semaphores and files; and two
process calls with a newer voice, where two runs could work or mix the voices, and for which
sessions make no difference. No property of `service_restarts` depends on what a message does, so it has none; it has the session that
`SessionsUsable` is about. One executor thread is the tightest: an abandoned call then keeps it
from the other stream; a reply of one token, the rest that `end()` flushes and the second `end()`
has every order of pieces and stop signals. A file
of up to four bytes has no, one or two chunks, whole or not, and the header numbers exceed it on
both sides. The chunk
and the history limits are small so that they are met.

`conversation_locking` uses symmetry over the messages, `conversation_media` over messages and
sessions, `service` over voices and process calls; no run with liveness uses any.

**Fairness.** Weak fairness of each message's step, each end's step, each grant of a lock
and the sweeper: the event loop runs every coroutine that is ready, a released lock
wakes its first waiter, a model call returns or raises, a client takes its events or is
disconnected. A model call has no timeout in the code; that it returns is an
assumption about ffmpeg, Gemma, OmniVoice and Ditto. Runs of `process_persona`, and the semaphores' grants to them, are fair in
the same way, and so are the threads of `GemmaStream` and its executor. Arrivals, disconnects, restarts, uploads and deletes are not fair. Media
responses are fair in `Serve`, and the length of the file is bounded: a file that grows faster
than it is sent for ever is not considered.

### Where code and documents disagree

Six runs check what a comment or document says, and TLC finds it violated.

- `end_race`: *media is disposed of as soon as the session ends* (`sessions.py:201`).
  A message that was admitted before the end, and is still reading its upload or queues for the session
  lock, runs afterwards and makes the directory again.
- `gpu_shared`: *gpu_semaphore serialises GPU entry* (`registry.py:8`). Conversations call
  Gemma without it.
- `persona_stuck`: *safe when called again after a restart* (`persona_creation.py:302`). The
  row still says PROCESSING, and that is answered with 409.
- `delete_race`: *row and files are deleted together* (`personas.py:434`, `457`). An upload or a
  run that was admitted before the row is deleted writes behind the `rmtree`.
- `stream_failure`: *error: processing failed, in the transcribe, stream or media stage* (`main.py:140`),
  *a failing stream is turned into an SSE error* (`conversation.py:120`). An exception of
  `generate` stays in its thread, and the reply ends like a complete one.
- `half_made`: *safe when called again after a restart, finished steps are skipped*
  (`persona_creation.py:301`, `12`, `README.md:185` of the source). A shutdown cancels a run during ffmpeg and nobody
  unlinks `ref_audio.wav`; the next run takes the partial file for made, and the persona becomes READY.

Three promises about process calls are broken too, at the edge of what the runs of `Service` check:

- *two jobs for one persona at the same time are blocked* (`personas.py:318`). A failing READY update
  sets the step to FAILED under a second run that a request with an old row has started, and a third
  request with an old row is let in beside it. With `"db"` in `Environment` and three process calls TLC
  finds `WorkersExclusive` violated.
- *ref_audio made again alone does not break the pair* (`persona_creation.py:326`). The old text is
  unlinked only after ffmpeg is done: a shutdown before that leaves a new audio and an old text, and the
  next run uses both. With `"restart"` in `Environment`, two voices, a half-finished delete and three
  process calls TLC finds `Paired` violated.
- *the status going back from ready to processing is blocked* (`personas.py:319`). A request that read its
  row before the READY update sees the step of a run that is over, is accepted, and takes the persona
  back. `SessionsUsable` shows that sessions do not suffer from it.

Two more are plain in the code and need no run: tokens are sent before the output filter sees the
text (`keywords.py:40`), and an existing `ref_audio.wav` is kept whatever voice it was made from
(`persona_creation.py:106`).

## Theorems

All theorems hold for every value of the constants that satisfies the named ASSUMEs, that is
for any number of sessions, messages, slots, voices, calls, executor threads, any chunk size, file
length, history and pair of history limits. Every safety property that a passing run checks is
stated by one of them.

*Conversation.* `ConversationAssumption` says that requests, resources and the two "nobody"
values are distinct, that there are finitely many messages and that the slot limit is a natural number.
The proofs are layers: each uses the invariants of the one before as facts about every state.

1. `TypeCorrect`, `SlotsAlwaysExact` (`Counted`): typing and slots are proved together, because
   `active' = active - 1` is a natural number only if `active` is the number of messages in flight.
   Each step either leaves the set `Slots` alone or adds or removes one element of it.
2. `AlwaysSerialised`, `NeverLeaked` (`LockInv`): these two are not inductive apart: that a release
   does not free somebody else's lock needs that the owner is where `NoPermitLeaked` says, and
   that the grant of a lock keeps `Serialised` needs that a waiter wants what its stage says.
   Together with typing they are inductive.
3. `DirAlwaysKept`, `HistoryAlwaysCurrent` (`PipelineInv`): both add one conjunct and use
   `Serialised` for the interesting cases: the only steps that remove a directory, or
   append to a history, are taken by the owner of the session's lock, so by
   nobody else's session.
4. `QueuesAlwaysOrdered`, `NeverDeadlocked` (`QueueInv`). Every action does one of four things to the
   queues (`QueueMove`): nothing, a new waiter at the end, a waiter that leaves, or the
   restart. Each of them keeps the order: `ahead` is a strict order among the waiters of one resource,
   of whom there are finitely many, and nobody waits for what it owns. A finite queue then has a
   first waiter. `NeverDeadlocked` follows: the owner of a
   semaphore waits for nothing (a message takes GPU and Ditto one after the other), so the owner of a
   session lock waits at most for a semaphore, whose owner or first waiter can go on.
5. `KeepsSseContract` (`StreamInv`): `Course(m)` says what has been sent at each await of a message's
   handler. With it every step of `Conversation` is a step of `SseStream` for one message and a
   stutter for the others, with `Phase(m)` as the refinement mapping.
6. `HistoryAlwaysDelivered` (`RecordInv`): a recorded message is past its text, has sent it, and is
   recorded at one place. The one action that records (`Records`) leaves that stage for good.
7. `MediaAlwaysPlayable` (`MediaInv`): an announced mp4 of a living session is there and has no wav,
   abandoned work belongs to messages that are over and announced nothing, and a session that is being
   cleaned has ended, so that a late file or an `rmtree` never meets an announced one.

*Persona.*

- `TypeCorrect`.
- `RunsExclusive`, under `"db" \notin Environment`: at most one run works. The strengthening (`ExclInv`) says
  that while a run works, the in-memory step is one that blocks others. Without the assumption it is false:
  if the update to READY fails after another run was started by a request with an old
  row, the failing run sets the step to FAILED under the other.
- `ReadyAlwaysComplete`: with a failing database and restarts, and without that assumption. The
  strengthening (`MakingInv`) says what has been made at each stage of a run, that a registered clip stays
  registered, and that once everything is made nothing is unmade.
- `HalvesOnlyFromKills`, with no assumption on the environment: no step but a kill or a shutdown leaves a
  half-made file. It needs no more than typing, one case for each action: the steps that begin a file begin it
  for a run that is at work on it (`trimming`, `muxing`), and those with which such a run goes on or gives
  up leave the file whole or gone (`RunsLeaveNoHalf`). What the next run makes of a file that a kill has
  left is the finding `half_made`.
- `AlwaysPaired`, under both assumptions, with deletes at any moment. The strengthening (`PairInv`) says
  that text and audio differ only while ffmpeg makes a new audio (`trimming`), after which the old text is
  removed, and that the audio a run transcribes is the one on disk or was deleted. It needs `ExclInv`: a
  second worker could make an audio while the first is transcribing another.
  Both assumptions are needed, see *Where code and documents disagree*.

*Service.* `ServiceAssumption` is `ConversationAssumption` of the composition.

- `ServiceImplementsPersona`: every step of the service is a step of `Persona` or none, so what is
  proved about Persona holds in the service.
- `SessionsAlwaysUsable`, with no assumption on the environment: `GrantInv` says that where a session is
  or is about to be, everything has been made. Only a READY row grants a session, a READY row means
  that all is made (`MakingInv`), and what is made stays made (`MadeStays`) until a DELETE begins: every later
  run only skips.
- `ServiceLocksSound`, `ServiceTypeCorrect`: a step of the service is, for the conversations, a step of
  `Conversation` or one in which a DELETE takes a speak directory away (`StepOfConversation`), which
  `Conversation` alone does not have. The service is therefore not a refinement of `Conversation`, and
  the invariants are proved again, case by case: the steps of `Conversation` by its own lemmas, which are
  cited from the instance `CP` of `Delivery_proofs` (`SameMachine` and its like say that this instance and the
  one `Service` is made of agree), and the DELETE because it leaves locks, stages and counter alone.
- `RunsAlwaysHoldTheirs` (`HoldInv`): a run that waits holds nothing and wants the block it is about to
  enter; one that does not wait holds the permit of its block and no other. That nobody else takes it
  is `RequestsLeaveRuns`, that a grant gives what was wanted `RunsHandOver`, both lemmas of
  `Queues_proofs`.
- `ServiceHistoryDelivered`, `ServiceKeepsSse` (`ToldInv`): what clients are told survives the composition.
  `MediaDirKept` and `MediaReadyPlayable` do not: a DELETE removes `speak/` under the
  messages of live sessions.

*GemmaStream.* `ReplyAlwaysWhole`: what a client has got and what lies in the queue before the
first stop signal is together what was made (`ReplyInv`), and a stream that asks has one call, in the
executor's queue or in one of its threads (`CallInv`). The second is what gives a piece to its client
once: two calls of one stream would take two pieces and be answered as one. The call of a stream whose
client has left may take a piece for nobody, and the theorem claims nothing for that client.

*HistoryTrim.* `PromptAlwaysLongestThatFits`, `PromptAlwaysForgets`. `Chars` and `Trim` are recursive
functions, so their values at every place need induction. The library's induction theorems
take an operator as a parameter, which TLAPS passes on to none of its first-order backends, so
`Induction` states it for sets, and proves it from a least member outside of the set (`LeastNat`,
by the well-foundedness of `<`). That the functions exist
is proved by continuing one (`TotalExists`) and by giving it (`KeptExists`: the first stop from
each place). Then `Trim` keeps the messages up to the loop's first stop (`TrimIs`); since more
messages have no fewer characters (`CharsGrow`) nothing longer fits. For the second
theorem, `TrimGrows` says that the two messages of a new pair let the prompt grow by at most
two.

*MediaResponse.* `MediaTypeCorrect`, `BodyAlwaysExact`, `RefusedAlwaysRightly`: the strengthening
(`Delivering`) ties `start`, `pos` and `remaining` to the header and to the size that was measured.

Model-checked only: everything that needs fairness, which is out of the prover's reach
(`MessagesEnd`, `EndsAnswered`, `RunsServed`, `PollEnds`, `GetEnds`, `StreamsEnd`, `ThreadsReturn`). `NoDeadlock` is
the part of the first three that is a property of states.

## Not modelled

- Texts, prompts, keyword matching, audio and tensors. Whether a text matches is a choice.
- Loading and unloading of the models: done once, before the first and after the last request, by one
  coroutine that nothing interleaves with.
- The health report, the status and the idle-clip list: they read.
- Authentication and configuration.
- The contents of partial files: a file is whole or not.
- Temporary files of message uploads; asset rows that nothing reads.
- The in-memory mock of the repository. It has the behaviour of the database, without its
  failures.

## Plan

1. Done: Flow B with locks, media and events; Flow A with processing and deletion; media
   responses; history trimming; type correctness and the main safety invariants proved.
2. Done: the two flows composed (`Service`), half-made files, kills and shutdowns, runs at the
   semaphores, the token stream with its threads (`GemmaStream`).
3. Done: every safety property that a run checks is proved: queues and deadlock, events, history and
   media of the conversations, pairing of audio and text, the composition, the token stream, the trimming.
4. Left: the refinement of a first-come-first-served lock by `AsyncLocks` as an abstract
   specification of its own; liveness of the composition. `conversation_liveness` has a run among the
   users of the semaphores; the whole of `Service` under fairness is beyond five minutes of TLC.
