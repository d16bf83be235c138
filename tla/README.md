# Illuminate, in TLA+

Illuminate serves an HTML artifact to a browser, lets a reader click elements
and ask about them, and routes each question (a *dispatch*) to whoever can
answer it: a harness that long-polls the daemon, or a `claude -p` child the
daemon starts itself. The answers come back as cards on the artifact. One
daemon per artifact directory does this, elected through a lock file.

This directory models the parts of it where order, timing and failure decide
the outcome. TLC checks the models on small instances; TLAPS proves the central
invariants for every value of the constants.

## 1. The system's parts

Line counts are of the files under `src/`.

| component | files | state it keeps | operations | hard behaviour |
|---|---|---|---|---|
| Dispatch ledger | `daemon/dispatch-ledger.ts` (332), `router/ingest.ts` (271) | per session: `queue`, `dispatches` (status, answer), presence, end | enqueue and re-open, drain, restore, ingest an answer, heartbeat, end | the reducers agree on queue and status whatever order they are called in |
| Dispatch requests, polls, answers | `daemon/server.ts` (1573), `poll.ts` (291), `active-polls.ts` (126), `self-dispatch.ts` (454) | poll waiters and their listeners, open-poll counts, in-flight children, probe cache | create, poll, answer, heartbeat, end | every `await` between a reducer and what is done with its result |
| Session store | `store/session-store.ts` (199), `async-mutex.ts` (25) | the state file | `read`, `mutate` | unlocked reads beside serialised writes; crash between temporary file and rename |
| Daemon election | `daemon/lock.ts`, `orchestrate.ts`, `ownership.ts`, `daemon-entry.ts`, `bind.ts`, `idle.ts`, `spawn.ts`, `state-dir.ts` (about 850) | lock file, ports, processes | ensure running, acquire, recover, restart, idle exit | several command lines and daemons at once, dead pids, time-outs |
| State collection | `daemon/state-gc.ts` (202) | none of its own | one sweep | deletes beside daemons that start |
| Load hand-shake | `daemon/load-token.ts`, `artifact-load.ts` (132) | load tokens, revision | mint, begin, guarded read | several tabs; read between two checks |
| Staleness scanning | `daemon/staleness-registry.ts`, `staleness-watch.ts`, `staleness.ts` (602) | watchers, timers, scan in flight | start, stop, trigger, scan | coalesced triggers, a scan that outlives its session |
| Findings store | `store/findings-store.ts` (362) | findings per artifact | detect, absent, dismiss | stale observations, two instances on one file |
| Annotation store | `store/annotation-store.ts` (265), registry (31) | cards and threads | append, orphan | second durable write after the ledger's |
| Git object pool | `provenance/git-batch-pool.ts` (550) | pending requests, buffer, process, idle timer | request, parse, die, reap | position-matched answers, late events of a dead process |
| Anchor resolution | `provenance/*.ts` (others, about 1900) | none | resolve, relocate, classify drift | pure algorithms over text and git |
| Chrome shell | `chrome/*.ts` (about 2100) | note queue, transport health, rail | send, sync, begin load | overlapping requests, partial sends |
| Artifact SDK | `sdk/*.ts` (about 2600) | composer, cards, selection | message protocol | mostly drawing |
| Command line | `cli.ts`, `cli/*.ts` (about 1190) | back-off of `--follow` | poll, answer, audit | follow loop |
| Export, HTML | `export/*` (4572), `html/*` | none | one-shot transformations | parsing; a budget and a roll-back shared by nested style sheets |
| Static serving | `serve/*` (341) | none; the browser keeps the copy | conditional and byte-range requests | a file saved between `stat` and stream, resumed copies |

They interact as follows. A browser request reaches `server.ts`; every change of
a session is a reducer run through the one `SessionStore` of the daemon; polls
are woken through an event emitter; a child answers over the same HTTP route a
harness uses; an accepted answer is then appended to the artifact's annotation
store, another file with a lock of its own; scanning writes findings into a
third. The shell pulls cards and findings on its heartbeat.

What makes each correct: the ledger's queue is exactly its open dispatches;
a click is answered at most once and billed at most once; a drained batch is
delivered or given back; an ended session gives nothing out; polls that wait
come back; the store loses no update and survives a crash whole; there is at
most one daemon per root and it is reachable; a superseded tab loads nothing;
a change of the sources is eventually scanned and a dismissal survives; each
git answer reaches the request that asked for it.

## 2. Plan

Done in this order, each with its runs before its proofs:

1. **Ledger, polls, answers**: `DispatchLedger`, `DispatchFlow`,
   `DispatchProperties`, `DispatchQueue`, `MCDispatch`, with proofs.
2. **Daemon election**: `DaemonLock`, `MCDaemon`, with proofs.
3. **Store and load hand-shake**: `StoreFile`, shown to implement
   `AtomicStore`; `ArtifactLoad`.
4. **Scanning and findings**: `FindingsScan`.
5. **Git object pool**: `GitPool`.
6. **Shell and artifact**: `ReviewRail`, `ArtifactCards`.
7. **State collection**: `StateGc`.
8. **Algorithms**: `AnchorResolution`, `HtmlWalk`, `ExportTransform`.
9. **Serving**: `AssetServing`.

Every step has its proofs as well: each invariant and action property of the runs
is a theorem. What is left to TLC is liveness (section 6, "Not proved").

## 3. Modules

| module | what it is |
|---|---|
| `DispatchLedger` | the session record and its reducers, one operator each |
| `DispatchFlow` | the daemon around it: one action per handler step |
| `DispatchQueue` | the delivery promise on its own: offered once, in one place |
| `DispatchProperties` | what `DispatchFlow` is checked for, and the refinement |
| `MCDispatch` | the instances TLC runs |
| `DispatchProofs` | what each reducer of the ledger keeps; the inductive invariant, the theorems on entries and deliveries, the refinement |
| `DispatchAnswerProofs` | answers, cards and children |
| `DaemonLock` | command lines, daemons and the lock file between them |
| `MCDaemon` | its instances |
| `DaemonLockProofs` | its inductive invariant and theorems |
| `AtomicStore` | what `mutate` promises: a change is applied once and whole, or not at all |
| `StoreFile` | the mutex chain, the read, the temporary file and the rename that implement it |
| `ArtifactLoad` | tabs that open, begin, read and lose an artifact |
| `FindingsScan` | watcher, scan loop, passes, findings and dismissals of one artifact |
| `GitPool` | lookups over one `git cat-file` process after the other |
| `ReviewRail` | the shell's queue of notes, its requests, rows, cards and lamp |
| `ArtifactCards` | the overlay inside the artifact, matched against the document |
| `StateGc` | the sweep of the state directory beside another project's daemon |
| `AnchorResolution` | what `resolve` says of one anchor |
| `HtmlWalk` | the exporter's three walks over a document's tokens |
| `ExportTransform` | what becomes of every reference the exporter meets |
| `AssetServing` | a file saved while it is served, and the browser's copy of it |
| `StoreFileProofs` | the store: the invariant of its mutex, the refinement |
| `ProvenanceProofs` | scanning and findings; the git pool |
| `ShellProofs` | the load hand-shake; the rail; the types of what `MCProgress` runs |
| `PartsProofs` | cards; the sweep; serving; verdicts on anchors; the types of what `MCParts` runs |
| `ExportProofs` | the export: its walks, and what its transform accounts for |
| `MCExport` | the files and documents it is tried on |
| `MCProgress`, `MCParts` | these parts side by side, for TLC |

Definitions marked *Slip* are plausible mistakes in the code next to them. No
specification uses them; each is there to show that some property notices.

### State and code

| variable | code |
|---|---|
| `status`, `queue`, `answers`, `ended`, `seen` | `SessionRecord`: `dispatches[id].status`, `queue`, `dispatches[id].answer`, `sessionEndedAt`, `browserLastSeenAt` |
| `holder`, `batch` | the `store.mutate` call that has been evaluated and whose caller has not resumed, with what it drained |
| `click`, `target` | a `handleCreateDispatch` call: where it stands, and the ledger id it got |
| `poll`, `sock`, `wakes`, `restoring` | a `resolvePoll` call: where it stands or how it settled, its connection, its `handleWake` calls before their drain, its batches on their way back |
| `work` | who has an envelope and what became of the answer |
| `inFlight`, `probe` | `inFlightSelfDispatches`, the cache of `isClaudeOnPath` |
| `cards` | entries in the annotation store |
| `restored` | history: what each poll has put back |

A request is served once, so `Poll` and `Dispatch` bound how many there are; a
create request mints the dispatch id that names it, used only if it is no
duplicate. `KeyOf` stands for `computeDedupeKey`. `isUngroundable` together with
the intent is the constant `Ungroundable`, the implementer's tier floor is
`Floored`.

### Steps

`store.mutate` evaluates the reducer under the mutex, writes the file, releases
the mutex and resumes the caller. The next reducer has to read the file before
it is evaluated, so nothing is reduced between a reducer and its caller's
resumption; timers, socket events, child processes and unlocked reads can come
between. So a caller that does something visible on resuming takes two actions
with `holder` between them (`CreateNew` then `LeaveToPoll`, `FirstAttempt` then
`FirstResult`, `WakeAttempt` then `WakeResult`, `End` then `EndResumes`); one
that only goes on by itself takes one. An `await` that is not a mutation splits
actions as well: `StartProbe` and `ProbeAnswers`.

Any waiting reducer may be next, while `AsyncMutex` is first come first served:
the model has every order the code has and some more. Safety that holds here
holds there. Each counterexample below was followed by hand and keeps the
mutex's order.

Further choices:

- `checkDisconnect` reads without the mutex and decides in the same turn: one
  action. When it finds no reason to settle it only re-arms itself.
- A heartbeat while presence is fresh, and ending twice, change nothing.
- A connection may die at any moment of its poll. Only a death after the wait
  was entered fires `onClose`, since the callback is registered there; an
  earlier one leaves a poll that waits with a dead socket.
- `WorkFails` covers every way a worker gives nothing back: bad exit, output
  that does not parse, a failed POST, a harness that stops.
- A crash ends every request and child and keeps the state file and whatever
  harnesses hold; they may still answer. A crash between a reducer and the
  rename of its file is a crash before the reducer.
- The probe cache belongs to the daemon and may be filled by another session,
  so `Init` allows it filled.

### Daemons and command lines

| variable | code |
|---|---|
| `lock`, `record` | the lock file: which daemon created it, and whether its record is in it yet (`acquireLock` opens exclusively and writes afterwards) |
| `cli`, `saw` | an `ensureDaemonRunning` or `stop` call: where it stands, and the `LockRecord` it read last |
| `version` | `__ILLUMINATE_VERSION__` of a command line and of the daemon it spawns |
| `daemon` | `starting`, `bound` (port), `opening` (lock created), `serving` (handler attached), `stopping` (`shutdown` called), `released` (lock removed, still answering), `closing` (`server.close` waits), `dead`, `stranded` (`acquireLock` threw: `main` has ended, and the bound port keeps the process) |
| `signalled` | SIGTERMs sent and not handled |
| `strayed` | history: whether a command line, or an exiting daemon, has removed the lock of a daemon that relied on it |
| `unheard` | history: daemons whose answer some health probe went without while they had the lock |

A command line spawns at most one daemon, so both share a name, which stands for
pid, port and health token. Every access to the file system, the process table or a
port is a step of its own, so processes interleave at each. A poll loop is one read
and one probe that may repeat; each window (`waitUntilDead`, the start-up deadline,
a request's time-out) may end at any moment. A daemon that is not listening cannot
answer; one that is may be too slow `MaxSlow` times. On Windows a SIGTERM is a kill,
which is `Crash` here. A pid reused by another process changes nothing in
`checkOwnership`; that one is reused within the 4 s of a restart is left out.

### Store file

| variable | code |
|---|---|
| `file` | the JSON file, as the set of the changes in it |
| `line` | the promise chain of `AsyncMutex` |
| `call`, `current`, `tries` | a `mutate` call: where it stands, what it read, the renames it was denied |

A change is the name of the call that makes it, so a lost, torn or repeated
change is visible in `file`. `value <- file` and the outcome of each call map it
to `AtomicStore`; the step that applies a change is `Rename`, everything else
is an outcome or a stutter.

### Load hand-shake

| variable | code |
|---|---|
| `chromeLoadToken`, `artifactLoad` | of the `SessionRecord`; tokens are random and compared only for equality, so they are numbered |
| `holds`, `stage`, `load` | a tab: the token in its document, how far its shell has come, the load in its frame's address |

### Scanning

| variable | code |
|---|---|
| `head`, `dirty`, `pins` | the repository: the commit, edited regions, the commit each region of the artifact is pinned to |
| `tracked`, `born` | `createStalenessRegistry`'s map; each start makes an incarnation, with a `FindingsStoreFile` of its own |
| `loop`, `requested` | `runRescanLoop` and `rescanRequested` |
| `watcher`, `armed`, `dirs` | the watcher: open, closed or unhealthy; its debounce; what it watches |
| `inputs`, `class`, `revision` | what a pass has read and found |
| `holder`, `copy`, `findings` | each instance's mutex and what a scan read under it, the file |
| `dismissal` | the dismiss requests: where each stands, its store instance, what it read |

A pass reads the artifact, classifies each anchor at whatever HEAD is by then,
reads HEAD, and changes the file in two steps, so commits, edits, stops and
dismissals fall between. The budget names how often each kind of event happens.

### Git pool

`stdin` and `stdout` are the bytes on their way, in pieces of a header or a
body; `OnData` delivers any prefix and cuts where it likes. `lookups` and
`buffer` are `#pending` and `#buf`. A process that was given up stays in
`process` and its events still arrive, since nobody removes its listeners.

### Rail

| variable | code |
|---|---|
| `queue`, `batch`, `sending` | the rail's `queue`, what `sendQueuedNotes` has still to send, what `flush` copied |
| `post`, `created`, `answered` | each note's request, and the daemon's side of it |
| `pending`, `cards`, `syncs` | the rail's rows, its `cardStore`, fetches on their way |
| `missedBeats`, `lamp` | of `noteTransport` |

### Cards

`answers` and `home` are the sidecar: the answered dispatches in order and the
card each belongs to. Any prefix of it may arrive at the artifact at any time,
which covers fetches and messages that overtake each other. An element is a node with a
path, an anchor, a text and a context, what `matchElement` compares; two nodes may share
any of them. Only those with a text or a source are candidates
(`CollectCandidateElements`).

### State collection

The model follows one project: its daemon, lock file and state file, by what a
reader makes of them, and the sweep of another daemon, one file operation a step.

### Algorithms

`AnchorResolution`, `HtmlWalk` and most of `ExportTransform` are operators; each
initial state of the run is one call. A file is a sequence of lines, a hash is
the normalised text, a diff is a sequence of hunks from which the new file is
built. A document is a sequence of tokens for the walks, and a sequence of
references in their places for the export: where the walk stands when it meets
one is the slot's `within`, `parent` and `namespace`.

A loop of the code is a function of the turns it has taken, and a turn is an operator
(`TransformTurn`, `UrlTurn`, `PrepareTurn`). `inlineCssImports`, which calls itself for the
sheets it imports, is a function of the levels left (`InlineLevels`): at level n a call
uses what level n - 1 makes of the imported sheet, and at the last no import is read.

A style sheet is a sequence of rules: where an `@import` stands among them decides
whether it may be inlined. An import that does not go in is a piece marked `import` until
the pass over the sheet's urls meets it and erases its reference
(`ScrubCopiedCssImportRule`), as that pass does in the code; an inert sheet loses its
references at once (`ScrubTurn`). `ExitCode` is what `exportCommand` (`cli.ts`) ends with.

### Serving

`AssetServing` has one file, one browser and one connection. `ServeAsset` is `serveAsset`
from its `stat` to the choice of the body; `OpenStream` and `PipeByte` are the stream,
which opens the path a second time and may meet a later version, also in the middle of
the body when the editor writes in place. What the browser does with an answer (keep,
extend or replace its copy) is external. Every byte of a version is the version's number,
so a copy that mixes versions shows. Versions have different modification times, but
several fit into one second of an HTTP date.

## 4. Runs

| run | cfg | shows |
|---|---|---|
| `double_click` | `MCDispatch.cfg` | one live entry per key, one poll delivery, a card for each accepted answer; a second child needs an uncached probe, each answer beyond the first a poll that put this very dispatch back over a dead connection, and only a restore undoes an answer |
| `batches` | `MCBatch.cfg` | queue and statuses agree, one place at a time, `DispatchQueue` is implemented, an ended session gives nothing out |
| `wake_liveness` | `MCDispatchLive.cfg` | no waiting poll stays beside a non-empty queue; an end releases every waiting poll |
| `lost_dispatch` | `DispatchLost.cfg` | violated: a drained batch can vanish |
| `billed_twice` | `DispatchBilledTwice.cfg` | violated: two children for one double click |
| `answered_again` | `DispatchAnsweredAgain.cfg` | violated: an answered dispatch is delivered again |
| `unwoken_poll` | `DispatchUnwoken.cfg` | violated: a restore leaves a sibling waiting |
| `daemon_election` | `MCDaemon.cfg` | one daemon serves unless a lock was stolen; `stop` says "stopped" only of a daemon that is going; clean exits leave no lock; every command ends |
| `two_daemons` | `DaemonTwice.cfg` | violated: two daemons, though no command line removed a living daemon's lock |
| `progress` | `MCProgress.cfg` | no trigger, finding or dismissal is lost; a closed watcher is silent; the store file is atomic and its calls end; git's answers reach their lookups, only faults reject them and all end; of tabs that race only the newest load is served, and the tab opened last shows the artifact; what the rail says it sent was posted, and what is answered comes to be shown |
| `parts` | `MCParts.cfg` | every card is shown once and follow-ups stay on theirs; the sweep spares sessions and locks outside two named windows; verdicts on anchors are true; the exporter's walks agree and its references are accounted for, in the document and in the exit code; a browser's copy of a file is of the version its tag names |
| `rail_text_lost` | `RailTextLost.cfg` | violated: a note written during a send is neither queued nor sent |

Deadlock is not checked: once every request has been served, or every command has
ended, the system rests; so do a store whose calls have ended and an algorithm that
has returned.

`progress` and `parts` each hold parts that share no state. The variable `part`
chooses one of them and the others stay in one state, so the states of a run are
the sum of its parts', not their product, and each property is of one part. Nothing
is composed there that interacts in the code; where parts interact (the shell and the
routes of the load, the scan and the dismiss route, the sidecar and the overlay), both
sides are in one module.

**Bounds.** Two create requests and two polls are the smallest that race each
other, and enough for every pair of handlers to overlap: a duplicate needs two
requests, a stolen or double delivery two polls, a batch in which one entry is
answered and the other is not two dispatches. `MaxCloses` = 1 lets one of the
connections die at any point, also both before and after its wait begins;
`MaxCrashes` = 1 puts one restart anywhere in the double click. Polls are
interchangeable when both may time out, which the symmetry uses; no run with
liveness uses it. `double_click` explores 1.7 million states, `batches` 2.7.

`daemon_election` has two command lines, so that they race for the lock, replace,
attach to and stop each other's daemon; versions are chosen in `Init`. One crash and
two late answers hit every step. Its safety properties are proved for any number of
command lines. `two_daemons` has three: one daemon exits, two remain.

`progress` has, for scanning, one region with three versions and up to two
incarnations, and budgets that mix two changes, a fault, a dismissal and a restart, or two dismissals of
two findings an earlier session left, which is what one of them needs to undo the other;
three callers of the store, so that one waits behind one that waits, with two renames
each and a crash; three lookups, one for contents with a body, one for contents of a
missing object, one for information, over two processes; two tabs and four openings, so
that each can supersede the other and come back; two notes, a lost request and two fetches under way.
`parts` has three dispatches on two documents, one with twins whose anchors overlap and a
picture without text or source, one with a chart that takes the picture's path and two
elements of one id that look alike; two artifacts; files of up to three lines with every diff of one hunk or
of two; documents of up to three tokens, enough for an element inside another and what
follows it; and every element in every form under every base, then pairs of style sheets whose caps let the second
fail. The served file has three versions of up to two bytes over four milliseconds,
two to a second, so that a version can share size and second with the next, or only one of
them. `SearchLimit` = 3 and `BudgetLines` = 2 put both sides of each limit within the files.

**Fairness.** Weak fairness on what the event loop and the mutex themselves owe:
a caller whose write has finished resumes, and a drain, wake or restore that
waits for the mutex gets it (`AsyncMutex.runExclusive` chains callers in
order). Nothing is assumed of users, harnesses, sockets, timers or `claude`.
For command lines: one that can go on goes on, and a deadline its loop compares
again and again passes (strong fairness, since the poll between two comparisons
disables giving up). Nothing is assumed of a daemon.
In `progress`: a store call whose file operation was started goes on; a pass goes on and
the reconcile interval fires; git answers, output and exits are delivered and a killed
process dies, but nothing kills the pool's own; requests of a tab are answered and its
scripts run on; heartbeats and fetches go out and end. Nothing is assumed of users,
file events, the debounce, commits, sessions that stop or agents.

## 5. What the code does against its word

Each is a run TLC refutes; `PROJECT.json` quotes the lines.

1. **A drained batch is dropped** (`poll.ts:230`). A wake's drain is awaited, a
   time-out or close settles the poll, and `handleWake` returns without
   restoring. The dispatch stays `delivered`: no poll sees it again and repeated
   clicks count as its duplicates.
2. **Two children for one double click** (`server.ts:906`). The in-flight mark
   follows the awaited probe. The first click after the daemon's start is
   exposed, as long as `claude --version` runs.
3. **An answer is undone** (`dispatch-ledger.ts:258`). Restoring a batch re-opens
   and queues an entry that the shortcut has answered in the meantime.
4. **A restore wakes nobody** (`poll.ts:148`). A sibling poll waits beside the
   restored queue.
5. **An exiting daemon removes its successor's lock** (`lock.ts:162`). Its own is
   gone since `shutdown`, the exit waits for open requests, and by then the path may
   be another daemon's lock. A command that found no lock starts a second
   daemon, and the one whose lock is gone can be neither found nor stopped.
6. **A note written during a send is lost** (`rail.ts:292`). The send's end empties
   the whole queue, also of what was added since the batch was copied.

What `OneServerUnlessStrayed` leaves open is, besides this, `orchestrate.ts:251`: a
command line that judged a daemon foreign, because it was slow or had not attached
its handler yet, removes whatever lock is there.

The models hold further behaviour that the properties except by name, or that no
comment in the source contradicts. No run is about it:

- **Findings.** An absence that was observed at an older commit resolves a newer
  finding (`findings-store.ts:267` compares for equality only); a later pass opens
  it again. Two store instances work on one file, and a dismissal can be lost, when a
  session is stopped in the middle of a pass, when it is started under a dismiss
  request, and when two dismissals of an untracked session meet: each request makes
  an instance with a mutex of its own (`server.ts:1258`). These are the three excuses of
  `DismissalKept` (`excuse`).
- **Daemon.** When the record cannot be written, the empty lock stays, and so does the
  process that created it, its port bound and no handler attached: `main().catch` only
  sets the exit code (`daemon-entry.ts:183`). Every later command fails on that lock.
- **Git pool.** The exit of a process that was given up is taken for its successor's
  (`git-batch-pool.ts:239`), and its late output for the successor's answers
  (`:236`): `stray`.
- **State collection.** A lock that is reclaimed, or a state file written, after its
  `stat` and before its `unlink` is removed with the rest, although
  `daemon-entry.ts:169` counts on the sweep not deleting a live daemon's files.
- **Rail.** A note that is removed during a send is still posted; notes posted before
  one that failed are posted again.
- **Cards.** A card whose snapshot has an anchor that moved can attach to another
  element that cites the moved range (`identity.ts:105`). A card of a picture without text
  or source goes to the drawer, or to a candidate with the picture's path, although the
  picture is unchanged: it is no candidate (`reattach-cards.ts:35`). Elements that share
  an id, a tag and their ancestors share a path (`addressing.ts:35`), and the card of one of
  two that look alike goes to the drawer.
  `applyReattachment` has no caller, so orphans are found anew on each sync.
- **Serving.** `If-Range` with a date is honoured when the file changed again within that
  second (`range.ts:73`), although its comment promises the range only "if the resource
  hasn't changed"; the copy then mixes two versions under the newer tag. The same second
  makes `If-Modified-Since` alone answer 304 for a changed file. Browsers that send the tag
  are not affected; the copies are excepted by name (`dated`).
- **Export.** `scrubCssRefWithoutInlining` replaces a reference by the empty text
  (`inline-html.ts:1462` and `1474`), and `inlineCssUrls` runs it over every `@import` that
  is still there. So an import that does not go in (externalized, late, remote) is rebased
  and then erased, and so is every reference of a sheet in a template, a `noscript`, a
  `srcdoc` or a style of another type. The warnings say the contrary, "left as a reference
  to preserve import ordering" (`2570`) and "left unchanged" (`125`, `126`, `2291`, `2553`,
  `2582`). References that are not local, a remote `@import` of a live sheet among them, go
  without a warning, although `no-remote-refs.test.ts:72` has it that "illuminate never
  silently deletes author content"; the test's fixture has its remote reference in an
  element. The model erases them where the code does, `ExportAccounts` requires the word
  for local references only, and names the rest. The preludes of conditional rules
  (`@supports` with a `url()`) are scrubbed in the same way and are not modelled.
- **Exit code of an export.** Remote `url()`s inside style sheets do not make the command
  fail, protocol-relative references are passed over, and local scripts that are deferred
  stay (with a warning). In nested imports an unresolved `url()` is rebased twice
  (`inline-html.ts:942`: the inlined text is searched for URLs again).

## 6. Proofs

### Dispatches

`DispatchProofs` shows first, reducer by reducer, that the ledger's types, the
agreement of queue and statuses, and the uniqueness of keys are kept.
Restoring needs a premise there: the restored ids are distinct, none is queued,
each has an entry and none collides. The rest of the argument is that
`DispatchFlow` only ever restores such batches.

That is not inductive by itself, so the invariant of the requests adds where
dispatches are:

    IInv == LedgerInv /\ FlowTypeOK /\ PlaceInv

`PlaceInv` says that a dispatch is in one place (`OnePlaceAtATime`), that a
batch holds nothing twice, that whatever is drained or handed over has an entry,
and that no two polls hand the same dispatch over. A drain moves the queue into
`batch`, a hand-over `batch` into `work`, a restore a batch back; each step
keeps the places apart, and from it the premise of `RestoreToQueue` follows. TLC
checks every conjunct of it but the auxiliary ones in the passing runs.

| theorem | property |
|---|---|
| `TypeCorrect` | `TypeOK` |
| `QueueAgreesWithStatus` | `QueueIsOpenDispatches` |
| `NoDuplicateEntry` | `OneEntryPerKey` |
| `NeverInTwoPlaces` | `OnePlaceAtATime` |
| `NeverDeliveredTwice` | `AtMostOnePollDelivery` |
| `NothingDrainedAfterTheEnd` | `EndedSessionDrainsNothing` |
| `AnsweredStaysAnswered` | `AnsweredUndoneOnlyByRestore` |
| `DeliveryIsImplemented` | `ImplementsDispatchQueue` |
| `SecondAnswerIsARestore` | `SecondAnswerNeedsDeadPoll` |
| `AnswersAccountedFor` | `AcceptedAnswerHasCard` |
| `OneChildAtATime` | `OneChildOnceProbed` |

*The refinement.* `DispatchQueue` knows the offered, the queued, the held and the handed.
`CreateNew` maps to an offer, a drain to a take, a hand-over or a batch dropped by a
settled wake to `HandOver` or `Forget`, a restore to `GiveBack`, an answer to a queued
dispatch to `Withdraw`, everything else to a stutter (`Unseen`). That a restored batch
was held, and that what is handed over was, is `PlaceInv`. A crash is the hard step: it
forgets, at once, all batches a process held.

*Answers.* Each answer to a dispatch is paid for: by its being `answered`, or by a poll that
has put this dispatch back over its dead connection (`AnswersArePaid`). Only a restore
re-opens an answered entry, and the step that does adds its own poll to those payers. That
this poll was not among them already is `ReturnInv`: polls put back what they hold, and
what a poll holds, or has still to put back, it has not put back before.

*Cards.* Each accepted answer is a card, or is with one worker whose write is under way or
failed: `answers[d] = cards[d] + Cardinality(Carding(d))`. The count is over workers, who
are finitely many at any time though `Dispatch` and `Poll` may be infinite. It needs
`ClickInv`, what a create request has done by the time it is committed, probing or done.

*Children.* As long as no request for `d` had to run the probe itself, at most one child
is active for `d`, it is in `inFlight`, and no request that holds the mutex for `d` is
about to start one beside it (`OneChild`). The exception is the probe's `await`, finding
2 of section 5.

They hold for any sets of dispatches, keys and polls, any key function and any
bounds, under `KeyOfAssumption` and `FlowAssumption`: the constants have their
types, and poll and dispatch names are apart.

### Daemons

`OneServerUnlessStrayed` follows from an invariant that speaks of daemons from the
moment they create the lock: as long as nothing strayed, each of them has it, so
there is one at most. `StoppedIsGoing` needs that a daemon whose record a `stop` has read
was elected by then (`StopsTheElected`), as a lock is only ever of one that was
(`LockIsOfTheElected`): it cannot come up after it was reported. A daemon is only born
by its own command line, which has not spawned while it still may (`OneChildEach`), and a
record read is of one that was born (`RecordsAreOfTheBorn`). `CleanExitLeavesNoLock` needs that a lock is never of a
daemon that lost the election (`LockIsOfTheElected`). The conjunction of these with
`TypeOK` is inductive.

| theorem | property |
|---|---|
| `TypeCorrect` | `TypeOK` |
| `OneServer` | `OneServerUnlessStrayed` |
| `StopStops` | `StoppedIsGoing` |
| `NoLockIsLeft` | `CleanExitLeavesNoLock` |

They hold for any number of command lines and versions and any bounds, under
`LockAssumption`.

### Store file

`MutexIsExclusive` and `StoreIsAtomic` share an invariant. The promise chain `line` is
exactly the calls that wait or work, each once (`LineIsWaiting`); so a call past the
mutex is the first of the line and there is one (`OneInside`); so what it read is still
the file until its own rename (`ReadIsCurrent`). With `FileIsRenamed`, which ties how a
call stands to whether its change is in the file, each step maps to a step of
`AtomicStore` or to a stutter: `Rename` of a change that is not there yet to its
application, a death to the end of every call under way. `StoreAssumption` only bounds
renames and crashes.

### Load hand-shake

A document is served after the check of its load against the session record, which says
nothing of other tabs. `OnlyTheNewestIsServed` adds that each load was begun by one tab
and none is ahead of the record (`LoadsApart`), and that a frame that reads has one
(`FramesHaveALoad`): a passed check then means that every other tab's load is older.
`LoadTypeCorrect` bounds the loads by the openings: an opening mints one token and begins
with it once (`OneLoadEach`), so the revision never exceeds the tokens minted.

### Scanning

A closed watcher is silent because only the tracked incarnation watches
(`TrackedWatches`): a pass that outlives its session finds it closed before it points the
watches anew. No trigger is lost because what came after a pass began has left word, or
is met by the next one (`TriggersWait`). A dismissal is kept because one instance of the
store works on the file (`OneInstance`), inside whose mutex the copy is the file
(`MutexKeeps`). Those two are claimed short of the three excuses `DismissalKept` names:
the session was stopped in a pass, it was started under a request to dismiss, or a request
of an untracked session met another one. Any number of requests may be under way.
`ScanAssumption` says that every commit has every region, that the budgets suffice
for no more incarnations than there are, and what type the findings of earlier sessions
have.

### Git pool

Requests are matched to answers by position alone, so the invariant is about positions.
`InStep(k, at)` says that git has read the first `k` waiting lookups and that the answer
of the `i`-th ends at piece `at[i]` of what it has written, counted from the end of
`buffer`, which may already hold the first lookup's header; the other lookups are in
`stdin`, in their order. Reading, writing, cutting and delivering each shift `k` or `at`
and keep the rest. `AnswersInOrder` claims it for the pool's own process, unless output of one
that was given up has been taken for its (`"output" \in stray`). `OneRuns` adds that no other
process runs, `OthersSilent` that nothing of another one is on its way while somebody
waits, unless `stray` says so. Together with the two properties they are inductive (`Matched`).

### Rail

`SentMeansPosted` says that the flush loses nothing it took. `NotesInv` describes a flush in progress: a
queued note is in the queue once (`QueueInv`), the batch names each note once and only its
head has a request (`BatchInv`), and whatever a flush has put behind it has been made a
dispatch of (`PostedInv`). That a note costs at most one dispatch more than there were
lost answers (`RailTypeCorrect`) is `CostInv`: all but the last of a note's dispatches came from
requests whose answer was lost.

### Side by side

`ProgressTypeCorrect` is the type invariant of `MCProgress`: each of its steps is a step
of one part or a stutter of it (`StepsOfParts`), so the parts' theorems add up.
`PartsTypeCorrect` is the same for `MCParts`.

### Cards

A card is named by the dispatch that began it. `CardsBegin` says that it is answered and
follows up nothing; `FollowUpsNameTheirCard`, that a follow-up knows an answer on the card
it was asked from, since the overlay names only answers it has seen and the
sidecar only grows. From it `FollowUpStaysOnItsCard` is inductive. `MatchedInv` ties a
shown card to the newest answer of its thread and, while a candidate is what the card's
element was, to such a candidate; `DrawerInv` gives the reason why a card is in the drawer
then: another candidate has the same path. Both come from one lemma, `KeepsItsElement`: an
unchanged candidate is in every tier of `matchElement` that could be taken, so a tier
with one element is it, and if no tier has one then not the tier of paths either. It
needs documents to be finite and cited anchors to be ordered (`parseAnchor` refuses
others), which `CardsAssumption` says; paths need not be unique. `HasLast`, that a
non-empty set of positions has a last one, is proved from well-foundedness and gives the
newest answer.

### State collection

`SessionsAreSpared` needs what the sweep knows: a session whose artifact is there is
still to be looked at, or its artifact appeared after the look (`SurvivorsUnseen`); a
living lock met after the proof that the daemon was dead is newer than the sweep's ages
(`LiveLockIsNew`, `AgesAsked`). Nothing is assumed of the set of artifacts.

### Serving

No copy has a tag that is still to come, since every save has a later time
(`NothingAhead`); so a save makes every copy's tag an old one, whatever is under way. As
long as the tag is the file's, an open stream reads the file (`StreamIsOfTheTag`), also
when it was opened after another save: then the tag is old, and what the copy mixes
no longer matters. `RangeIsThere` is the lemma that a range parsed against a size lies
within it. `AssetAssumption` gives the constants their types.

### Verdicts on anchors

`VerdictsAreTrue` is about every call the initial states enumerate, whatever the files, the
insertions and the limits are. What it says for "moved" follows
from the hash for stage A, and for stage B from the fact that the window shown is one of
those found: windows of one size have a first one (`FirstOfOneSize`) and lie in the file
(`WindowsFit`). That "touched" and "lost" are said only when the text is nowhere is
that the windows searched have the region's own size (`SearchIsTrue`). The diffs of the
cases leave a file (`EditOfADiff`); `ResolveIsTrue` itself is for any diff that does.
`ResolutionAssumption`: a file has at least one line, one file is the longest, limits are
numbers.

### Export

The code's loops over tokens, rules, urls and imports are functions of the turns taken:
`done[n]` is the state after `n` of them. Two lemmas
carry what holds through such a loop. `LoopHolds`: what holds before the first turn and is
kept by each holds after all. `LoopRuns`: where each turn stays within a set, the function
the model defines is there, which the prover does not take for granted of a recursive
definition. Both rest on `HasLeast`, that a set of numbers has a least one.

*Walks.* A turn moves a walk on by a token at least and leaves its stack a stack, so as
many turns as there are tokens come to the end (`TransformTurnsGoOn` and its two
siblings; `TemplateCloses` for the scan inside). After any number of turns the transform's
walk and the walk for remote references are at one token with one stack, and the second
has seen what the first has (`Scanned`): both close what they open, though only one passes
over a plaintext element and looks into inert ones. The base walk keeps to the
transform's until it has found one, and then the transform has passed no other before
it (`Based`). `WalkAssumption` says that the documents have a greatest length.

*What is accounted for.* `ExportInv` says of the file being made that it is good: its
bytes are those of what is inlined, within the cap, no file URL is left in it, and each
reference in it that is neither inlined nor kept as it was, those that are erased
included, is told of or not local. The
part that is not inductive by itself is in the sheets. What a sheet becomes goes through
`inlineCssUrls` once more when it is imported, so its urls are accounted for only by its
importer (`ButUrlsFine`), and the bytes it has cost are those of its own pieces only if
every failure gives back what was counted since its beginning. `Inlines` states that
contract for one call. It is kept for sheets whose imports are not followed
(`SheetFunctions` at the last level), and one level out if it is kept one level in
(`SheetsAreInlined`): an import's turn joins the inner pieces and bytes to its own
(`JoinedIs`), a failed one keeps only the warnings (`FailedIs`), which are never taken back
(`Grows`). `ExportFilesAssumption` types the files and the limits; any sheets, cyclic
ones included, and any depth are allowed. `ExportsAssumption` says what a
document is made of.

A `CASE` whose arms overlap is a choice among them, not the first that applies; the
proof of `ReferencesDescribed` needed the order of the code's early returns to be
written out in `ResolveRef`, and so did one of the scan's classes in `ClassAt`.

| theorem | property |
|---|---|
| `MutexIsExclusive` | none: `OneInside`, `ReadIsCurrent` |
| `StoreIsAtomic` | `MutateIsAtomic` |
| `OnlyTheNewestIsServed` | `ServedWhileCurrent` |
| `LoadTypeCorrect` | `LoadTypeOK`, part of `ProgressTypeOK` |
| `ScanTypeCorrect` | `ScanTypeOK`, part of `ProgressTypeOK` |
| `TriggersAreKept` | `NoTriggerDropped` |
| `StoppedIsSilent` | `ClosedIsSilent` |
| `DismissalsAreKept` | `DismissalKept` |
| `LookupsGetTheirOwn` | `OwnAnswer` |
| `RejectionHasACause` | `OnlyFaultsReject` |
| `NothingSentIsLost` | `SentMeansPosted` |
| `RailTypeCorrect` | `RailTypeOK`, part of `ProgressTypeOK` |
| `ProgressTypeCorrect` | `ProgressTypeOK` |
| `CardsTypeCorrect` | `CardsTypeOK`, part of `PartsTypeOK` |
| `EveryCardIsShown` | `CardsShownOnce` |
| `FollowUpsStay` | `FollowUpStaysOnItsCard` |
| `GcTypeCorrect` | `GcTypeOK`, part of `PartsTypeOK` |
| `SessionsAreSpared` | `GcSparesSessions` |
| `TagsAreTrue` | `CopyIsOfItsTag` |
| `VerdictsAreTrue` | `VerdictsHold` |
| `PartsTypeCorrect` | `PartsTypeOK` |
| `WalksDoAgree` | `WalksAgree` |
| `ExportAccountsForAll` | `ExportAccounts` |

### Not proved

Only model-checked:

- liveness (`EveryQueuedDispatchWakesPolls`, `EndReleasesPolls`, `EveryCommandEnds`,
  `EveryCallEnds`, `LookupsEnd`, `NothingMissed`, `LastOpenedIsShown`,
  `RailShowsAnswers`): it rests on fairness, beyond the prover;
- that the steps the fairness conditions speak of are ENABLED, which they need.

## 7. Not modelled

`PROJECT.json` lists every component with its status. Left out:

- drawing: style sheets, markup, the composer's form, decoration of findings;
- text: splicing of the SDK into documents (`html/*`), the scanning of HTML, CSS and
  scripts into tokens, printing and parsing of arguments (`cli`). The text of a
  reference, a header or a hash is a value; what is decided from it is modelled;
- git's plumbing (blame, log, rename detection) and path confinement, whose outcomes
  are inputs of the cases of `AnchorResolution`;
- envelopes, which are read and formatted without changing anything, and the
  stateless routes: path containment, MIME types, attachments;
- the follow loop of the command line, a ladder of waits between polls of one process;
- ports probed by `bind.ts`, open requests counted by `idle.ts`, pools per root.
