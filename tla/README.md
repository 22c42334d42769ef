# PingRank client: TLA+ models, checks and proofs

PingRank watches for a supported game, finds the server it talks to, measures
the latency to that server for as long as the game runs, keeps the result as a
session log, and (for the installed service) uploads it. This directory models
the client. Paths below are relative to `src/`.

## Inventory

| Component | Code | State | Operations | What makes it correct |
|---|---|---|---|---|
| endpoint tracker | `internal/session/tracker.go` | bound candidate, pending challenger and its count | `Observe` | moves to another server only after `confirmPolls` polls in a row, and then always; never fragments a multi-socket game |
| session recorder | `internal/session/recorder.go` | game and its PIDs, flow source, window of polls, open segment, grace deadline, health snapshot | `Run`'s select loop: alive, discovery, sampler, deadline, cancel | record stream readable at every cut; the segment is the tracked endpoint; ends when, and only when, the game is gone |
| session records | `internal/session/types.go` | - | `Summarize`, `ComputeStats` | a reader reconstructs what was measured, also from a truncated log |
| flow ranking | `internal/flows` | per-endpoint tracks, rebuilt each poll | `AddPoll`, `Candidates`, `rank` | confidence is earned; what is gone is not a candidate |
| UDP flow observer | `internal/etw` | flow accumulator, PID allowlist, health counters, enabled/collecting | callback, `Enable`, `Disable`, `SetTargetPIDs`, `TakeFlows`, `Health` | a batch holds the watched processes' packets since the observer was opened, and is known to be complete |
| prober | `internal/probe` | - | `Resolve`, `Ping`, `Protocol` | a measurement is labelled with what was measured |
| game log | `internal/gamelog` | offset, carried partial line | `OpenLive`, `TakeCandidates` | every line the game writes is parsed once and unchanged |
| verified upload | `internal/submit` | bounded event queue, first error, challenge | `Push`, keepalive, `Close` | never blocks a recording; a stream with a hole is not presented as whole |
| session store | `internal/store` | one JSONL file per session | create, `Append`, `Prune`, `Load` | a crash loses at most the record being written; pruning keeps the store bounded; sessions keep to files of their own |
| agent runner, status | `internal/agent` | recorder state, the trace, status file | session loop, status writer | the file says what the recorder does; no trace is no reason to crash |
| identity | `internal/identity` | agent id and protected key in one file | load or create | an agent id, once on disk, is kept |
| updater | `internal/update` | staging folder, attempt, release on offer | check, download, verify, wait for a gap, install | an update never interrupts a game that was there; nothing is left in staging |
| service | `cmd/pingrank-service` | recorder state behind a mutex, status while updating, relaunch mark | start, stop, publish, install, relaunch of trays | what closes for an update comes back, in every way out of it |
| tray | `cmd/pingrank-tray` | the process per Windows session, Run key, marker | start, poll, exit menu, auto-update | one per session; what its user closed stays closed |
| access path, CGNAT | `internal/accesspath`, `internal/cgnat` | 24-hour cache | `Detect`, classification tables | classification follows from evidence |
| process detection, socket table | `internal/detect`, `internal/sockets` | - | matching over OS lists | pure |
| command line | `cmd/pingrank`, `cmd/a2scheck` | - | flags, opening the trace, printing | - |

How they interact. The recorder owns everything during a recording and is one
goroutine. On each discovery poll it takes log endpoints from the game log, TCP
connections from the socket table and a UDP batch from the observer, slides the
window, lets the ranking choose a top candidate, and hands it to the tracker
with the present confidence floor. If the tracker rotates, the open segment is
closed and another one opened; the sampler tick measures the open segment
through the prober. Each of these steps emits records to the store and to the
upload. The observer's callback runs on a thread of ETW's and shares the flow
accumulator under a lock, but not its first look at an event; its health counters
are read separately. The game's processes and its log file change at any time. The
runner wraps the recorder in a loop that keeps one trace for all recordings, and
publishes its state through the service, whose mutex orders it with the updater.
The updater reads that state and the process list one after the other; the
installer stops the service under it; the trays see only the status file, the
registry and the service's state. The service keeps identity, store and status
under `%ProgramData%`, a recorder run by hand under the user's `%LOCALAPPDATA%`:
they share neither, but two `pingrank record` of one user share both.

Where it is hard: events lost, or delivered late, between two calls on the
observer; a game that exits, crashes or comes back under another PID while a grace
deadline is pending; flows of several sockets, matches and processes competing for
the top of the ranking while the confidence floor falls; paths that change what
answers between two samples; a log that is written and truncated while it is read;
a crash between any two records or system calls, or two processes in them at once; posts that are acted on but fail;
games that start between the last look for them and the installer. `PROJECT.json`
lists each with its line.

## Modules

| Module | Models | Code |
|---|---|---|
| `EndpointBinding` | abstract: what a recording is bound to, in terms of the last poll and a streak | `tracker.go`, what its comments promise |
| `ConfidenceScale` | the ranking's confidence, in the tracker's order | `flows.go:35-42`, `tracker.go:99-110` |
| `Tracker` | `Observe`, one action per early return, and the floor `minConfidence` | `tracker.go`, `recorder.go:676-686` |
| `SessionLog` | records, the grammar of a log, `Summarize` as one pass over it | `types.go` |
| `Recorder` | the whole of `Run`: one action per select case, each with every record it emits | `recorder.go` |
| `FlowSession` | the observer: controller calls, the callback in its two halves, losses, a trace taken over or never started | `etw.go` |
| `Discovery` | recording after recording over one `FlowSession`: opening, first snapshot, targets, batch and health of each poll, closing; the runner's and the command line's way to the trace | `recorder.go`, `runner.go:60-112`, `record.go:191-202` |
| `Sampler` | `sample`, with `Resolve`, `Ping` and `Protocol` | `recorder.go:592-656`, `probe.go`, `a2s.go` |
| `Ranking` | sliding window, Collector, score, confidence, fallback to port 443 | `flows.go`, `valorant.go`, `recorder.go:311-323` |
| `Matches` | `Ranking` in front of `Tracker`, the discovery case's data path | `recorder.go:305-337` |
| `GameLogTail` | `LiveSource` with Go slices, a file written and truncated between its system calls | `live.go` |
| `SharedRecording` | abstract: what a recorder that shares is promised | `verified.go`, `record.go:229-243` |
| `LiveRecording` | recorder, upload worker and server: `Push`, `Close`, `run` with `start`, `send`, keepalive and `finish` | `verified.go` |
| `Tray` | the tray program per Windows session: start, mutex, marker, polling, exit menu, auto-update | `pingrank-tray/main.go`, `update_windows.go` |
| `Updates` | `Tray` with the service, the runner's states, the updater, Windows Installer, games and players | `pingrank-service/main.go`, `update.go`, `update_windows.go`, `runner.go`, `status.go` |
| `ReplacedFile` | write beside, rename over, remove and rename again: one action per system call | `status.go:47-85`, the same in `identity.go` and `cache.go` |
| `DataDir` | identity (with `ReplacedFile`) and session store of several processes, killed at any call, and a reader | `identity.go`, `store.go`, `record.go` |
| `MatchesProofs`, `RecorderProofs`, `DiscoveryProofs`, `SamplerProofs`, `GameLogTailProofs`, `LiveRecordingProofs`, `UpdatesProofs`, `DataDirProofs` | theorems about the module each is named after; `MatchesProofs` also those about `Tracker` | |
| `MC*` | constants for TLC | |

How they compose: `Discovery` extends `FlowSession`, `Updates` extends `Tray`,
`DataDir` extends `ReplacedFile`, `Matches` extends `Ranking` and `Tracker` (which
share `ConfidenceScale`), `MC*` extend theirs, `Recorder` extends `SessionLog`;
`Recorder` instantiates `Tracker`, and `Tracker` instantiates `EndpointBinding`, which it implements, as `LiveRecording`
does `SharedRecording`.

State corresponds to code as each module's VARIABLES comments say; variables
under "history" do not exist in the code and are read by properties only.
(`Tracker`'s `last` and `streak` are also `EndpointBinding`'s variables: the
abstract specification describes the same polls, so no refinement mapping
could compute them from the code's state alone.)

Abstractions, by module:

- `Tracker`, `Recorder`: a candidate is its endpoint and confidence. The reasons,
  relay labels and counters it carries do not influence what is decided.
- `Recorder`: time is what it enables (the grace period has run out, the floor
  falls, the deadline). A segment's heuristic verdict is one of two values
  fixed when the segment opens, because it depends on nothing that changes
  later; the game log's is tracked exactly. A segment's role and the kind of line
  that named it are left out, but not the record a change of them emits: it
  repeats the verdict. A probe error emits nothing and is a stutter. A sample
  record has no content here; that is `Sampler`.
- `FlowSession`: calls of the controller exclude each other (`controlMu`) and are
  one step each; the callback's two looks are two steps. The clock is the number
  of recordings opened. A flow stands for its packets: their process and time.
  The three health counters, each compared with its own past, are one.
- `Sampler`: a burst is whether anything came back. The network may change
  between samples, and once inside one that walks the path, before or after the
  walk (that the settled network is measured needs no more).
- `Ranking`: addresses and ports are numbers in the order of their text;
  address 0 stands for everything `IsPublic` rejects. Endpoints' tracks are
  independent, so the replay is per endpoint.
- `LiveRecording`: a record is its position; signatures are left out. The server
  is external: it opens one recording, expects the next number and challenge, and
  may refuse anything. Sequence numbers are taken modulo `Wrap`, so keepalives can
  go on for ever; one request at a time makes three values enough to tell the
  expected one from its neighbours.
- `GameLogTail`: three kinds of bytes; allocation sizes are multiples of `Unit`.
  Parsing a line is left out: the property is which lines it is given.
- `Tray`, `Updates`: each use of the service's mutex is one step; the two halves
  of `idle()` are two. The server may answer with any release, and checksum and
  signature are right or wrong. Windows Installer is external: it refuses, or stops
  the service, replaces it and starts it, or ends without a word. The status may
  grow old at any time. `Timely` says that the pauses the code relies on are long
  enough: the 5 s before the last look for a game, for the trays to come to rest;
  the 5 minutes before the first check, for the relaunch and an installer that
  started the service; the 30 minutes for Windows Installer. Nobody starts the
  service by hand while an installer works. It leaves out a service stopped
  between writing "updating" (`pingrank-service/main.go:168`) and marking the
  relaunch (169), and a runner that has not published when the trays are launched
  (161): both are in the hazards.
- `ReplacedFile`, `DataDir`: on Windows, a file somebody has open can neither be
  renamed nor removed (Go opens without FILE_SHARE_DELETE), and two processes may
  write one file. An identity is its agent id, `Known` or `New`, and whether its
  key can be used. A record whose writer is killed or whose write fails may be
  torn; what is written after it is joined to the same line. The numbered names of
  one clock tick sort as text (`Place`), and the tries for a free one are one step.
  `lost` is history: one of the steps was taken that cost an agent its id.

## Runs

| Run | Shows | Bounds |
|---|---|---|
| `tracker` | `PendingIsStreak`: the count is the run of polls the challenger has topped; `ActiveMeetsFloor`; `ImplementsBinding`; `SettledEndpointIsBound` (liveness) | three servers, one with two ports, one address with both protocols: every branch of `Observe`, and a third party that interrupts a challenger |
| `recorder` | `LogWellFormed`, `ReaderSeesTheSession` (also of a log that lost its closing records), `SegmentIsTracked`, `GameExitIsReal`, `ConfirmedStays`; liveness `GameGoneEndsSession`, `CancelEndsSession` | two servers, one multi-socket, one endpoint the game's log can name; six records before the closing ones, enough for two segments with samples and a reclassification between them |
| `discovery` | `SourceConsistent`; `AtMostOneStaleEvent`: opening the observer leaves all earlier packets behind but one; `EveryLossCostsABatch`; `RankingRecovers` (liveness) | two PIDs, two recordings over one trace, two losses (a burst, or one on either side of a read), one event in ETW's buffers and one in the callback |
| `sampler` | `LabelIsTheMeasurement`, `AnsweringPathIsKept`, `SettledPathIsMeasured` (liveness) | the code's three losses; two segments, all twelve networks |
| `log_tail` | `ReadsTheLog`, `WholeLinesAreTheLogs`, `CatchesUp` (liveness) | four bytes of three kinds, one truncation, arrays of four: a line carried, shared, regrown, cut off mid-call |
| `matches` | `GameFlowIsOnTop`, `SwitchIsPrompt`, `MovesToWhatIsThere`, `LiveGameIsKept` | four games with three or four flows each; a window of three polls with two for stability (six and three in the code): long enough for a run, a gap and a slide |
| `live_recording` | `InStep`: no request must be refused for its number or challenge; `ImplementsSharing`; `VerdictIsRight`: success for whole recordings only, errors for trouble only; liveness `CloseReturns`, `NeverSilent` | a channel of two and five records: it overflows while a post hangs and drains after; keepalives unbounded |
| `updates` | `FileFollowsTheState`, `UpdateCutsNoEarlierGame`, `StagingIsCleaned`, `OnPurposeStaysClosed`; liveness `TrayComesBack` | one Windows session (trays of two sessions share no state but the service's), two staging folders (one left behind and one in use), an installed version with a newer release whose last component is smaller and an older one whose last is larger |
| `data_dir` | `KnownIdIsKept`, `StoreIsBounded`, `OneSessionPerFile`, `CrashLosesOneRecord` | two processes (symmetric) and a reader, two clock ticks, a store of one session with three recorded, two records each, one process killed: two writers collide on a name, prune at once, and save the identity at once. (With three processes `KnownIdIsKept` holds, too.) |
| `tracker_server_change` | violated: see finding 1 | |
| `log_tail_shared` | violated: see finding 2 | |
| `discovery_no_trace` | violated: see finding 3 | |

`recorder`, `live_recording`, `discovery` and `discovery_no_trace` allow deadlock
because recordings and processes end there. Everything else goes on for ever. `MaxRecords` bounds what a recorder may still
emit, but never keeps it from ending: `End` is not guarded by it.

### Fairness

`Tracker`: discovery polls recur (the timer is rearmed at the end of each) and
time passes. `Recorder`: `select` picks among ready cases at random, so a ready
case is taken eventually; fairness is assumed for a process list that can be
read, not for one that cannot. `Discovery`: the loop's own steps; strong fairness
for a health query that succeeds, since failing for ever is outside what the code
can answer; none for traffic or losses. `Sampler`: the ticker. `LiveRecording`: a
post ends, if only by its 15 seconds, the ticker fires, a ready case gets its
turn; none for the server. `GameLogTail`: calls recur and return; the game is under
no obligation to write. `Updates`: trays take their own steps (they poll), the runner
begins, the service's timer fires, an install that has begun goes on and times
out, the service gets to where it was told to go, Windows Installer ends; none
for players, games, the server and elevation prompts. `DataDir` has safety only.

## Findings

1. **A multi-socket server is never switched to** (`tracker_server_change`).
   The bound server is protected by address (`sameServer`), the challenger is
   counted by socket (`pendingKey`). When the new server's game and voice
   sockets take turns on top (the very case `tracker.go:65-69` describes), the
   count restarts with each poll.
2. **The first line of a log read is overwritten before it is parsed**
   (`log_tail_shared`). `live.go:56` appends to the carried slice in place when
   its capacity suffices, `live.go:58` saves the new partial line over the
   beginning of that array, and lines 60-63 then parse the complete lines out
   of it. It takes a read that fits the array and ends within a line.
   `WholeLinesAreTheLogs` (passing) is the complement: reads that end at a
   line's end are unharmed.
3. **A trace that cannot be started crashes the service's recorder**
   (`discovery_no_trace`). `runner.go:61` returns the failed `*etw.Session` as an
   interface, which is then not nil; the tests at `runner.go:92` and `110` let it
   pass, and its first method locks a mutex of a nil session. The repository's
   test of this case passes an untyped nil.

Behaviour that departs from a comment, and is part of the passing models (their
properties are worded so that they hold): the losses before the first health
snapshot are part of it, and the batch they belong to is ranked
(`recorder.go:250` against 447); the target that answers the hop walk after
ignoring the direct burst is labelled "last-hop" (`probe.go:295` against
`types.go:105-106`); packet counts outweigh structure in the score
(`flows.go:309` against 307-308); a tray in a disconnected Windows session is not
launched again after an update (`update_windows.go:266` against 255).

Three more, which no comment excludes and a user would notice:

- **The agent id can be lost without a crash.** Saving the identity has a moment in
  which there is none (`identity.go:108`; a process that starts then makes another
  id), and two processes that renew the key at once can make it last: the second
  opens the common `.tmp` before the first's rename, so one of the two is refused,
  removes the file (108) that the other may just have put in place, finds no `.tmp`
  to rename (109), and gives up. Or a process that failed clears (112) the other's
  `.tmp` when that is all there is. `Destroys` in `DataDir` is these two steps, and
  `Abandons` the kills that do the same; `KnownIdIsKept` ends there. Dropping any
  one of these conditions makes TLC find the loss.
- **A write that fails can cost a session.** `store.go:103` leaves a torn line,
  which the callers' next record continues (`record.go:157`, `runner.go:173`). With
  another record after that, `readRecords` rejects the file.
- **A failed `Disable` carries packets over.** The next recording finds the observer
  on and only replaces the targets (`etw.go:457-460`): flows and start time stay
  those of the earlier recording, also of processes no longer watched.

## Proofs

Every theorem holds for all values of the constants that satisfy the named
assumptions of its component's module: any sets of endpoints, processes and
Windows sessions, any counts and limits, runs of any length. The bounds of the
runs (`Max*`) are constants too, so the theorems hold however large they are
chosen. The assumptions are: thresholds the code fixes are positive
(`ConfirmPolls`, `ReResolveAfterLoss`, `Wrap`, ...), `StablePolls` and
`ConfirmPolls` are no more than `WindowPolls` (3, 2 and 6 in the code), processes
and a game's flows are finitely many (`DataDir`, `Ranking`), no two numbered
names sort alike (`PlaceAssumption`), and `None`, `Torn` and `File` are not among
the values they are told apart from. `InvariantHolds` of a
module states its inductive invariant `IInv`; in `MatchesProofs` the parts named
below take its place. Each was model-checked on the instance of the run before it
was proved.

`MatchesProofs`, of the tracker alone:

- `TypeCorrect`: a challenger's count never rests at `ConfirmPolls`, because
  `Challenge` either takes over or leaves it below.
- `PendingCountsTheStreak`: `PendingIsStreak`, inductive together with `TypeOK`.
  It says what the pair (`pendingKey`, `pendingCount`) means: nothing while the
  bound server is on top, else the run of the endpoint now on top. It is needed
  because `pendingKey` is never cleared: only the invariant says that a stale key
  always goes with a count of zero.
- `FloorIsMet`: nothing below the floor binds, refreshes or survives.
- `TrackerRefinesBinding`: every step of `Tracker` is a step of
  `EndpointBinding` or a stutter (`BindingMoves` is the step for the bound
  endpoint, and uses `PendingIsStreak`).

`MatchesProofs`, of the ranking. A track is a recursive function over the polls of
a window; `TrackSteps` unfolds it (that the function exists for any length is
`AllReplayable`, by the least length for which it would not), and `Shows` says what
it tells of the polls so far, without a collector: seen in the latest poll or not,
at least as long a run as the window holds, two-way if any poll was. `TrackShows`
carries that over a whole window. `ScoreParts` takes the score apart, and
`TcpIsOutranked` and `LesserIsOutranked` compare the parts: the volume is worth at
most ten points, less than any of the others. `TopScoresBest` ties what is handed
to the tracker to the scores, through the filter, the fallback and the sort.

- `GameFlowStaysOnTop`.

`MatchesProofs`, of the two together. `WindowOK` says what window and top are;
`MatchesDrivesTracker` follows from it, and brings in all that is proved of the
tracker: `MatchesSpec => Spec`.

- `NothingUnseenIsBound`: with `PendingIsSeen`, that the pending challenger was
  there in each of the polls its count stands for. The window slides, so "the last
  n polls" of it are one further back after each step (`SeenOnceMore`).
- `TcpNeverTakesALiveGame`: with `BoundIsPublic`, for a bound endpoint that is
  still seen must be a candidate. It excepts a flow to port 443: such a flow is a
  candidate only for want of any other, so a single TCP connection elsewhere may
  take its place, whatever it scores.
- `SessionFollowsTheGame`: with `Following`, by the number of polls a flow has been
  alone. After `StablePolls` of them it is on top with the highest confidence
  (`AloneIsOnTop`), so no floor can keep it out, and each further poll either finds
  the session on its server or adds one to its count (`OneStepCloser`).

`RecorderProofs`: the grammar of the log is a property of adjacent records
(`Chain`); it is inductive only with what the last record, the open segment, the
next number and the tracker say of each other (`InStep`), because a record is
emitted from the latter three and must fit the former. A discovery poll appends up
to two records; `ChainGrows` is the lemma for one.

- `LogStaysWellFormed`, `SegmentsFollowTheTracker`.
- `ExitsAreReal`: with `Away`, which says what each value of the grace timer
  means for the process lists read so far.
- `ConfirmedIsKept`: with `Named`, since a reclassification asks the game's log
  again and the log endpoints only grow.
- `SessionIsReadBack`: at every moment of a recording, `Summarize` of its log is what
  was measured, and records that close something can be lost. `ReadAs` is the invariant: having read the log so far,
  `Summarize` holds the closed segments, the open one with its verdict, and as many
  samples as were taken of it (`Taken`); `NoLoss`, that a log cut off before a
  record that closes something reads the same as with it. It needs one lemma per
  kind of record, and `ReadsAppended`: reading a longer log reads the shorter one
  first.

`DiscoveryProofs`: `Staleness` adds the event inside the callback to those
accumulated and taken, for a stale event (one from before the observer was
opened) passes from one to the other; that it is one rests on the callback
handling one event at a time. It says nothing of the packets since the opening,
which recordings on an observer kept on by a failed `Disable` share. `Belonging`,
which is about recordings that open the observer, needs
`Staleness` (an event counted late belongs to the targets by the second look),
and `Accounting` says that a loss not paid for shows in the next comparison.

- `SourceStaysConsistent`, `StaleEventsAreOne`, `LossesAreAllPaid`.

`SamplerProofs`: `Established` says what the segment's fields promise of samples
to come, `Answered` ties the last sample to the run of losses.

- `LabelsAreRight`, `PathsAreKept`.

`GameLogTailProofs`: `Within` keeps the reader inside the log between the look at
its size and the read, until the game truncates it; the rest is that adjacent
slices of a sequence concatenate. `Carried` says that the carry, in whichever array
it is, holds the unfinished line of what has been read. What follows from it about
lines is a matter of counting: newlines are numbered by rank (`Nth`), the bytes
after the last newline of `c` followed by `g` have the same newlines as the whole,
shifted (`NewlinesOfRest`), so their lines are the whole's last ones
(`LinesOfRest`) and their unfinished line is the whole's (`TailOfRest`).

- `EveryByteIsRead`.
- `LinesAreGivenWhole`, for calls that end at a line's end; the others are the
  finding of `log_tail_shared`.

`LiveRecordingProofs`: `Aligned` says, for each kind of request and each stage of
it, where the server's number and challenge are; `Streaming`, that the records
received, in the request under way and in the channel are in order and, without an
error, all of them; `Ending`, what a stopped worker has done.

- `ClientKeepsInStep`, `VerdictHolds`.
- `LiveRecordingRefinesSharing`: `LiveRecording` implements `SharedRecording`.
  The server applying a request is the abstract `Add` or `Seal`, the return of
  `Close` is `Tell`; `Streaming` shows that a record added is newer than the copy.

`UpdatesProofs`: four independent invariants.

- `FileIsRight`, `StagingStaysClean`.
- `ClosedStaysClosed`: `GivesWay` says that whatever may still be starting in a
  session whose tray was closed from the menu will meet the marker.
- `NoEarlierGameIsCut` has the hypothesis `Timely` (the pauses listed above):
  without it the statement is false of the code. `OneInstall` and `GamesAreNew`
  are the invariants under it.

`DataDirProofs`:

- `IdIsKept`: until one of the steps of `lost`, no process records under another
  id, and while there is no file somebody is about to put it in place.
  `KnownEverywhere` says that every copy of an identity, on disk, half saved or in
  memory, has the known id. `Recoverable` says why the id comes back: while there
  is no file the `.tmp` is there, nobody reads the file (so a rename succeeds), and
  one process at least is behind its opening of the `.tmp`; and nobody is going to
  rename a torn `.tmp` unless a writer still holds it.
- `FilesAreNotShared`: with `Counted` (no more files than sessions begun), from
  which `UniqueNameIsFree` follows by the pigeonhole principle: `createUnique`
  always finds a number, and the least one.
- `StoreStaysBounded`: the sum in `StoreIsBounded` is not inductive, as two
  prunings may have listed the same file. `BoundInv` states it for every set `Q`
  of prunings whose lists are disjoint and still on disk: their files are as good
  as gone. `NamesCanBeSorted` shows that the sorted list exists for any store.
- `RecordsAreReadBack`: only the last line of a file is ever torn (`LinesInv`),
  for whatever is written next is joined to it.

Model-checked only, and why:

- liveness (`SettledEndpointIsBound`, `GameGoneEndsSession`, `CancelEndsSession`,
  `RankingRecovers`, `SettledPathIsMeasured`, `CatchesUp`, `CloseReturns`,
  `NeverSilent`, `TrayComesBack`): needs fairness, which the prover does not
  support.

Every safety property of the passing runs is a theorem. The two recursive
definitions they rest on (`Reads`, `TrackOf`) are functions over a prefix length,
about which the provers can reason by a least counterexample; the induction
theorems of the library, which take an operator, they cannot instantiate.
`ReplacedFile` has no theorem of its own: what a file that is being replaced may
look like is proved where it is used, in `IdIsKept`.

A proof showed the model to be wrong once: the confidence of a ranking was a CASE
with overlapping arms, like the `switch` of `flows.go:329-337`; but the arms of a
`switch` are tried in order and those of a CASE are not: TLC does, the language
leaves it open. It is an IF now.

## Not modelled

Not modelled for good: process and socket lists, text parsers, windows and menus,
flag parsing, cryptographic primitives, router and reflector protocols (pure or
operating-system I/O, taken as inputs); the access-path and CGNAT tables
(stateless; their cache is an age test around `ReplacedFile`'s protocol); segment
statistics (percentiles and jitter of floating-point times, tested in the
repository). The recorder is not composed with store, upload and status in one
model: each sees the recorder only through the calls it receives, which its
module lets happen in any order the recorder's module allows.
