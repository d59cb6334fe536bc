# PicoBox: formal models

PicoBox is a small container platform: a **master** (`cmd/picobox-master`) with a REST API, a
SQLite store and a gRPC service, and one **agent** per machine (`cmd/picoboxd`) that runs
containers with Linux namespaces, cgroups v2 and overlay mounts. A **web dashboard** (`web`)
shows what the master knows and sends it requests. This directory holds TLA+ models of all
three, the TLC runs that check them on small instances, and TLAPS proofs of their invariants for
instances of any size.

Every definition is a translation of code; `PROJECT.json` ("map") names the lines. Line
numbers below refer to `cmd/picobox-master/main.go` (`master:`), `cmd/picobox-master/store.go`
(`store:`), `cmd/picoboxd/main.go` (`agent:`) and `internal/isolation/sandbox_linux.go`
(`sandbox:`); files of the dashboard are named by their path under `web/src`.

## 1. Inventory

| Component | State | Operations | Model |
| --- | --- | --- | --- |
| Control channel | `streams` (hostname to `StreamWrapper`), `nodes`; one handler goroutine per stream with its `hostname`; the agent's current stream | connect, authenticate, heartbeat, register, acknowledge, `Send`, disconnect, deferred removal, restart of either side | `ControlChannel` |
| Container records | `globalContainerState` (map of pointers), the `containers` table | `/deploy`, `/start`, `/stop`, `/update`, DeployResponse, StopResponse, `SaveContainer`, `LoadContainers` | `ContainerRecords` |
| Exec and terminal | `execChannels` (container id to channel), a channel of capacity 1 per command | `/exec`, `/ws/terminal`, ExecResponse, the 10 s timer, `handleExec` | `ExecBroker` |
| Agent sandboxes | `sandboxRegistry` (container id to `Sandbox`); processes, overlay mounts and cgroups in the kernel | `handleDeploy`, `handleStop`, the waiting goroutine, `Sandbox.Start/Wait/Stop`, `cleanupOrphans` | `AgentSandboxes` |
| Scheduler | reads `globalNodeState` | choice of the node with most free memory (master:348-367) | no: any choice it makes is one `DeployLookup` makes |
| Node state and metrics | `globalNodeState`, the `nodes` table | a write per heartbeat; `GetNodeMetrics` | membership only, in `ControlChannel` |
| Container logs | none | `streamLogs`, printed by the master | no |
| Image extraction, `PivotRoot`, `internal/network` | none | called by nothing in the two programs | no |
| REST authentication, health endpoints, healthcheck | none | no state change | no |
| Dashboard: polling pages | copies of `/api/nodes` and `/api/containers`, a loading flag; the fetches and button requests under way | mount, poll, Refresh, Start, Stop, leave (`app/page.tsx`, `app/nodes`, `app/metrics`, `NodeCard.tsx`) | `FleetPages` |
| Dashboard: deploy dialog | form, status, timers, the record it edits, open or not; its requests under way | open, type, validate, submit, time out, close (`DeployModal.tsx`) | `DeployModal` |
| Dashboard: terminal page | the container shown, a socket per container visited, one "connected" flag | connect, type, show, turn to another container, leave (`app/terminal/page.tsx`) and the session's loop in the master | `TerminalPage` |
| Dashboard: the tab | which page is mounted | sidebar, Shell buttons, links, history | `WebDashboard` |
| Dashboard: storage, settings, layout | none | constant markup | no |

**How they interact.** A REST request reads or writes the records under `stateMutex`, looks a
stream up under `master.mu`, and only then, with no lock held, sends on it. The agent's receive
loop starts a goroutine for a deployment and handles stop and exec inline; answers come back on
the stream the request came by and are applied by that stream's handler to whatever record, or
exec channel, the container id names at that time. Nothing but the container id connects an
answer to its request. The dashboard asks for nodes and containers in two requests, every three
seconds, without waiting for the last answer; the master reads each under a lock of its own, so
the two halves of a page are of different moments.

**What is hard.** Goroutines that read under a lock and act after it; three owners (a rollback, a
stop request, the waiting goroutine) releasing kernel resources that are named by container id while
the id is deployed again; connections that break on one side first; handlers that outlive their
connection; memory and store that are written by different subsets of the code; timers that race
late answers; pages that stay mounted, or do not, while fetches, timers and sockets of an earlier
state of theirs are pending. The list, with lines, is "hazards" in `PROJECT.json`; each entry names
the properties that would catch it or says why there is none.

**What makes each component correct.**

* Control channel: the registry names only streams that are served and authenticated; sends on a
  stream never overlap; a lost stream is forgotten and a connected agent is reachable.
* Records: the store is never behind memory in host and spec and only in known ways in status;
  "Running" is never invented; every request ends in a decided status; a restart changes nothing.
* Exec: a caller gets the output of its own command, or an error; it always gets one of them;
  nothing is left behind; the goroutine that serves a stream is not held up.
* Dashboard: what is shown was so while the page was open, and is so in the end; what a button does
  is what its label said; a dialog does what it was opened for; nobody waits for ever.
* Sandboxes: every path releases what it acquired; what is registered is alive and confined; what
  runs is registered; a stop ends the process it found.

## 2. Modules

| Module | What it is |
| --- | --- |
| `ControlChannel`, `MCControlChannel`, `ControlChannel_proofs` | stream registry and agent connections; instance; proofs |
| `ContainerRecords`, `MCContainerRecords`, `ContainerRecords_proofs` | records, store and REST handlers; instance; proofs |
| `ExecService` | abstract: what running commands promises |
| `ExecBroker`, `MCExecBroker`, `ExecBroker_proofs` | exec calls and terminals, which implement it; instance; proofs |
| `AgentSandboxes`, `MCAgentSandboxes`, `AgentSandboxes_proofs` | sandboxes of one agent and the kernel state they own; instance; proofs |
| `Mirror` | abstract: what a polling page promises of one thing it shows |
| `FleetPages`, `MCFleetPages`, `FleetPages_proofs` | the polling pages, which implement it twice; instance; proofs |
| `MasterRecords` | the master's records, which the next two work on |
| `DialogData`, `DeployModal`, `DeployModal_proofs` | the deploy dialog: its constants; the dialog; proofs |
| `TerminalData`, `TerminalPage`, `TerminalPage_proofs` | the terminal page: its constants; the page and its sessions; proofs |
| `WebDashboard`, `MCWebDashboard`, `WebDashboard_proofs` | one tab: the two above composed over the same records; instance; proofs |

The grain of atomicity is the same everywhere: one action is one critical section, one channel
operation, one system call or one `Send`, because that is where another goroutine can come in
between. The definitions called `Bug...` are faults that somebody could plausibly introduce; no
specification uses them. They document, next to the operation, which mistake each property is
able to notice, and PROJECT.json ("mutants") pairs them with the properties.

### ControlChannel

`streams`, `bound` (the handler's `hostname`), `hpc` (where the handler is between master:67 and
183), `ackTo` and `built` (the `StreamWrapper`s it allocates, whose mutex is the exclusion of
`Send`) are the master's; `conn` is the stream `runAgent` uses; `link` is the connection, which
is `lost` from the moment it breaks until both ends have noticed, each in its own time. A handler
goes through auth, receive, register (first heartbeat), record, look up the stream to
acknowledge on, lock, send; it leaves through the deferred function `Exit`, which deletes its
hostname *whoever holds it*. `AuthReject` returns before the deferred function exists. On an
ExecResponse the handler may have to wait for room in a channel (`PushResponse`, master:173), and
nothing here says that room is made: whether it is, is `ExecBroker`'s matter. A REST handler is a
`caller` that looks a wrapper up and later sends on it. `MasterRestart` loses all but
`nodeState`, of which it loads what `LoadNodes` returns: all, some or none (master:595-604).

### ContainerRecords

The map holds pointers, and `/start` keeps one over an unlock (master:449-472), so records live in
`heap` and `mem` maps an id to an address. A record of a request is at the request's address, one
that `LoadContainers` or a DeployResponse makes is at its id's. `Row`/`RoundTrip` are what
`SaveContainer` and `LoadContainers` do to a record: a nil spec is marshalled as `null` and comes
back as the zero spec. Where `StoreFails`, a `Save` may fail, with its error discarded, and
`MasterRestart` may load only some of the rows: none when `NewStore` or `LoadContainers` returns an
error (master:595-609: the master logs it, or not even that, and goes on), the first few when
`rows.Next` ends early, since `rows.Err` is not looked at (store:104-125). `adrift` is history: the
ids whose last save failed or whose row the last start did not load. The error of `json.Unmarshal`
that `LoadContainers` ignores cannot arise on what `SaveContainer` wrote. A master that runs without
a store after a failed `NewStore` saves nothing, as one whose every save fails. Requests travel in
order down a stream; deployments finish in any order; answers are lost when the stream of the
request is gone. `Unregister` stands for any handler of the host returning, which `ControlChannel`
has in detail. `started` is history: what agents really started.

### ExecBroker

`execChannels` maps a container to the command whose channel is stored; `buf` is the channel's one
place. `StoreChannel`, `SendCommand`, `TakeResponse` or `Timeout`, and `DeleteChannel` (by key) are
the steps of both `/exec` and the terminal; a terminal goes round again and keeps the stream it
captured. It implements `ExecService`, the abstract promise: with `called` the calls whose channel
has been made, each call gets one result, once, and that is no answer or the output of a command
called in the same container by then -- whose command, is not promised (`KeepsPromise`).
`RecvExecResponse` loads a channel and `PushResponse` sends on it, blocking when it is full. The
agent's receive loop runs one command per stream at a time (`running`), and nothing makes a command
end. `spoiled` is history: containers in which commands overlapped or timed out.

### AgentSandboxes

Each DeployRequest is a sandbox; three kinds of goroutine act on it, `Deploy(x)`, `Waiter(x)` and
`Stopper(k)`, with a position each in `pc`. `Start` is the sequence MountOverlay, Spawn,
CreateCgroup, AddProcess, SetLimits, and each step may fail into `Sandbox.Stop` (`Kill`,
`Unmount`, `RemoveCgroup`), which the waiter and the stop request run too. `mounts[i]` counts the
overlays stacked on the id's merged directory; an unmount takes the top one, whoever made it, or
fails at any time (there may be nothing mounted, or a process that was just sent SIGKILL may still
use it) with the error discarded (storage_linux.go:99-103, sandbox:111). `left[i]` is history: the
mounts that a failed unmount of a rollback or a waiter left, which nobody tries again, and those a
crash left. A
cgroup is removed unless a live process is in it (zombies do not count, as in cgroups v2). A
process is `alive`, `dying` (killed), `zombie` or `gone` (waited for, or reaped by init when its
agent is dead). `AgentCrash` loses the registry and every goroutine and may or may not take
containers with it; the next agent runs `CleanupOrphans` before it connects. The cleanup removes
the cgroups it can and no mount: it looks for `.../containers/` while overlays are mounted under
`.../overlay/` (agent:71, storage_linux.go:30).

### FleetPages and Mirror

The master's state is a sequence of versions, and `FleetAt` (a constant) says what each contains: so
what a page shows is a number, and "it shows an image of the master" is a comparison of numbers. A
fetch is `Sent`; `AnswerNodes` and `AnswerContainers` are the two moments at which the master reads
its maps, in either order, and `SetNodes`, `SetContainers`, `SetNodeList`, `SetMetrics` the `await`s
that come back. `Poll` is `setInterval`, which does not ask whether the last fetch came back. `page`
is "crashed" when rendering threw (`CardThrows`, `RowThrows`: a CPU load of zero is left out of the
JSON and `toFixed` is called on nothing); React then drops the whole tree, and only loading a page
anew mends it. `since` is the version at which the page was opened. A button posts and refreshes
afterwards; what the post does to the master is left to `VersionChanges`, which stands for every
agent and user.

`Mirror` is the promise of one polled thing: an image of the source from between the opening of
the page and now, or none. It does *not* say that images get newer: overlapping fetches are
answered in any order, and the pages do not order them. `FleetPages` implements it twice, for the
nodes and for the containers. `ViewConverges` is the liveness half.

### DeployModal

The dialog is never unmounted while the dashboard is: it keeps form, status and pending requests
when it is closed. `Fill` is its effect on `[nodes, editData]`, which is part of every action after
which React runs it; `Submit` is `handleSubmit` with its validation, `Answered` what follows its
`await`, and `Timer` the timer of two seconds that closes whatever is open by then. A spec is a
function of its `Fields`. `Filled` is the form's `record.field || default`: a field that is empty or
zero in the record shows, and an update then sends, its `Default`. A fresh form starts with another
rootfs (`Initial`), and a limit whose number is deleted is `NaN`, which passes the validation
(`Acceptable`). `records` is the master's side, as far as `/deploy` and `/update` and other users
change it. `opener`, `touched` and `deployed` are history.

### TerminalPage

`socks[s]` is one WebSocket, from both ends: `ready` is the browser's `readyState`, `up`/`down` are
what is on its way, `busy` and `over` are the session of the master, which runs one command at a
time and asks nothing of the page. What is on its way down and on the screen are *answers*, each
numbered by the command whose turn in the session it ended (`Finish`). Its text is whatever the
container's channel held by then, which may be the output of another session's command or of an
earlier one that timed out, an error, or "Timeout": that is `ExecBroker`, and finding 3. The page
opens a socket when its effect runs, closes it in the effect's cleanup, and the handlers of *every*
socket it ever opened set the same `isConnected`.

### WebDashboard

The composition: it extends both pages, which share one variable, the master's `records`, and
interleaves their steps, with the navigations of the tab as joint steps: a page that is left is
unmounted in the step that mounts the next one, so requests and timers of the dialog and sockets of
the terminal meet a page that is gone, or is a new one. A terminal opens on any container, from
anywhere: a Shell button names one, and so may the address and the browser's history. The page the
tab is on (`path`) is not a variable: it is which of the two is mounted, or neither.

## 3. Runs

| Run | Shows | Instance |
| --- | --- | --- |
| `channel_safety` | `OnlyTrustedStreams`, `NoDeadStream`, `SendExclusion` | two streams of a1, so that the old handler and the new one overlap, and one of the untrusted a2, which has the same hostname; one REST handler |
| `channel_liveness` | `LostStreamForgotten`, `ReachableWhenAlone` | two streams of a1, one REST handler |
| `channel_session` (violation) | `SessionRecovers` fails | as above |
| `records_safety` | `SpecDurable`, `StatusLag`, `RunningWasStarted`, `EveryRecordHasItsSpec` | three requests on one id (the empty one), two specs, two streams, faults, saves and loads that fail |
| `records_settle` | `EveryRecordSettles` | three requests on one id, two hosts, no faults |
| `records_restart` (violation) | `StatusSurvivesRestart` fails | two requests, faults |
| `exec_safety` | `NoStaleChannel`, `OutputOfOwnContainer`, `OwnOutputWhenSequential`, `HandlerGoesOn`, `KeepsPromise` (refinement of `ExecService`), `EveryCallReturns` | a call and a terminal on k1, a call on k2, a break and a reconnection |
| `exec_mixup` (violation) | `OwnOutput` fails | a call and a terminal on k1, no faults |
| `sandbox_safety` | `NoMountLeak`, `NoDeadSandboxTracked`, `RegisteredIsConfined`, `OnlyStraysKeepCgroup`, `StopReleases` | two deployments of one id, a stop, a crash, unmounts that fail |
| `sandbox_tracked` (violation) | `RunningIsTracked` fails | two deployments of one id, a stop, no crash |
| `fleet` | `NothingSaidTooSoon`, `ActsOnWhatWas`, `MirrorsMaster` (refinement of `Mirror`, twice), `LoadingEnds`, `ViewConverges` | two fetches and two button requests under way at once, two hosts, a container that moves and stops, a node without a measured load |
| `tab` | `DoesWhatItWasOpenedFor`, `UntouchedUpdateIsFaithful`, `SuccessIsRecorded`, `LoadingIsPending`, `FlagIsHonest`, `AnswersInOrder`, `EveryWaitEnds` | three specs of two fields, one with an empty field, two requests and two timers of the dialog pending at once, two sockets with three commands each, free navigation |

The first run of each module also checks its `TypeOK`.

**Why the bounds are enough to show the interesting cases.** The races here are between an old and a
new owner of one name: two streams of one hostname, two records or sandboxes of one id, two commands
in one container, plus one actor (a REST handler, a stop request) that captured the old one. Each
instance has exactly that many. More ids or hosts add independent copies, except where a property is
about confusing two of them, and those runs have two (`records_settle`, `exec_safety`, `fleet`). The
proofs of section 5 remove the bound altogether for all safety properties of passing runs. The empty
container id of `records_safety` is the hardest one: it is also the id of the zero spec that a nil
spec is loaded as. On the dashboard the races are between an old and a new owner again, here two
fetches, two openings of a dialog, two sockets of a page; the `tab` run has one more command than
sockets so that two are on their way while one runs. The bounds are: each stream is opened once
(`Streams`), each request made once (`Reqs`, `Sandboxes`, `Stops`), heartbeats in flight (`MaxBeats`
= 1; more only repeat), streams per host (`MaxConn`), commands per terminal (`MaxCommands`), crashes
(`MaxCrashes`), versions of the master's state (`LastVersion`), fetches and requests of a page under
way at once (`Fetches`, `Posts`, `Submissions`; each is used again when it has ended), pending
timers (`MaxTimers`), containers visited without leaving the terminal page (`MaxSockets`). Runs with
`CHECK_DEADLOCK FALSE` are those in which everything asked for may have been done (exec, sandboxes,
records without faults) or a user need do nothing (fleet, tab).

**Disagreements found** (runs marked violation; "findings" in `PROJECT.json`):

1. *A reconnected agent can become unreachable* (master:87). A late deferred removal takes the new
   stream's registration, and the new handler, having its hostname, never registers again.
   `ReachableWhenAlone` is what does hold.
2. *Statuses set by StopResponses are not saved* (master:140). After a restart a stopped container
   shows its earlier status again. `StatusLag` bounds the damage: only "Pending", "Stopped" and
   "Stop Failed" can be lost.
3. *Outputs of overlapping commands are mixed up* (master:172). `OwnOutputWhenSequential` and
   `OutputOfOwnContainer` are what does hold.
4. *A restarted container can run untracked* (agent:283). The previous sandbox's goroutine deletes
   the entry of the new one. `NoDeadSandboxTracked` is the half that holds.

Other places where code and text part, without a run of their own: `/start` marks a record "Pending"
and then refuses the request (master:452); "Stop Failed" and the empty status are outside the
vocabulary at master:35; the answer of an earlier deployment marks the record of a later one
(master:151); a handler blocked for ever on a full exec channel (master:173; spec.md:19 asks that no
goroutine leak, and `HandlerGoesOn` is what does hold); the master goes on without its records when
the store cannot be opened or read (master:595-609); an unmount that fails is not noticed and leaves
its mount (storage_linux.go:99-103, sandbox:111); orphan mounts are not unmounted (agent:65-71,
against the comment at agent:65): `NoMountLeak` allows for these two; a container that ends by
itself stays "Running" (agent:282); a process runs before it is in its cgroup (sandbox:72-80,
against the order in the comment at sandbox:42).

Behaviour of the dashboard that the models have and no document contradicts, so that no run claims
otherwise: every poll makes a new `nodes` array, and a Settings dialog that is open is filled again
from the record, over what was typed (only `UntouchedUpdateIsFaithful`, about an untouched form, is
claimed); an update sends the form's defaults for fields that the record leaves empty, so that a
record without a memory limit gets one of 512 MiB from an update that nobody typed in
(`UntouchedUpdateIsFaithful` allows exactly that); the timer of a success closes a dialog that was
reopened meanwhile; `/update` takes no notice of the host, and "Container is now active" is said of
an update that nothing was sent for (`SuccessIsRecorded` is what does hold, of a master that keeps
its records: one that restarts while a success is shown may lose the record, see
`ContainerRecords`); the old socket's `onclose` comes after the new one's `onopen`, so
"Disconnected" may stand over a session that works (the second half of `FlagIsHonest` is about the
first container only); a command without output gets no prompt back (`EveryWaitEnds` counts it as
ended); a node whose CPU load is zero takes the whole tab down (`LoadingEnds` and `ViewConverges`
except a crashed page).

## 4. Fairness

Safety runs use `Spec`, with no fairness. `FairSpec` adds only what the Go scheduler, the kernel
and timers give:

* `ControlChannel`: weak fairness on handler steps, on the ticker, on noticing a broken connection
  (TCP and gRPC report it at some time) and on reconnecting (`main`'s loop never stops); strong
  fairness on taking a mutex, since a waiter of a `sync.Mutex` is not starved. A handler that waits
  for room in an exec channel may wait for ever (`ExecStep` is not fair), and `LostStreamForgotten`
  excepts it. No REST request is assumed.
* `ContainerRecords`: weak fairness on started handlers and on a deployment coming to an end. Not on
  the receive loops: the agent's runs exec commands inline without a time limit (agent:174-176), the
  master's may wait for ever at master:173. That neither is held up is the premise of
  `EveryRecordSettles` (`NobodyHeldUp`), not an assumption of the model. `records_settle` excludes
  faults: a lost answer does leave a record undecided.
* `ExecBroker`: weak fairness on the master's goroutines and timer only. A command may run for ever,
  and the agent may stay away.
* `AgentSandboxes`: weak fairness on deployments, waiters and Stops, and on the death of a process
  that was sent SIGKILL. A process that was not need never end. Crashes are bounded, so
  `StopReleases` says "or the agent crashed meanwhile".
* `FleetPages`: weak fairness on the interval and on each step of a fetch, since a request ends one
  way or the other. Nobody has to press a button, and the network need not heal: `ViewConverges`
  says "if it stays up from some time on". That versions stop is the bound `LastVersion`; with an
  endless stream of them the property would say nothing.
* `WebDashboard`: a request of the dialog ends one way or the other, a session of the master reads
  and answers, and the browser delivers (`PostServed`, `SockServed`). The timer of the dialog need
  not fire. That every command ends is `EveryCallReturns` of `ExecBroker`, checked there. No
  navigation or typing is assumed.

## 5. Proofs

All by TLAPS, from the named assumptions on constants: that the constant functions have their
types and that the null values differ from the real ones; for `AgentSandboxes` also that there are
finitely many sandboxes, and for `FleetPages` that there is a host and a container. In each module
`IInv` (on the dashboard's two pages `ModalInv` and `TerminalInv`) is the inductive invariant, and
there is one lemma or step per action or group of actions that write the same variables.

**ControlChannel_proofs**: `TypeCorrect`, `NoDeadStreamHolds`, `OnlyTrusted`, `SendersExclude`, for
any number of agents, hosts, streams per host and REST handlers. None of the properties is
inductive: that two goroutines holding different mutexes cannot be inside `Send` on one stream needs
that a stream has one wrapper in its life. `IInv` therefore says: a handler binds to one hostname,
its agent's, only after authentication, and makes its only wrapper when it does (`Binding`); the
registry holds such wrappers under their own hostname, of handlers that have not returned
(`Registry`); whoever read the registry holds such a wrapper, however old (`Captured`); nobody
shares a mutex (`Senders`). `Registry` survives `Exit` *because* the removal is unconditional: the
code's defect (finding 1) is the price of this invariant.

**AgentSandboxes_proofs**: `TypeCorrect`, `MountsReleased`, `TrackedIsAlive`, `Confinement`,
`CgroupsReleased`, for any number of deployments, of them with one id, of stop requests running at
the same time, and of crashes. `IInv` says: the positions of a sandbox's deployment and waiter
determine what has happened to its process and its cgroup membership (`Progress`); the registry
names a sandbox only between its Store and its waiter's Delete (`Tracked`); there are at most as
many mounts on an id as were left there and as there are sandboxes that have yet to unmount
(`MountBound`, a count, since an unmount takes anybody's mount); and an existing cgroup has a
sandbox of its id that is at work on it or whose process nobody waits for (`Kept`). `MountBound` is
what makes `NoMountLeak` inductive: extra unmounts by stop requests only help, and each sandbox pays
for its own mount, or its failure to is counted (`UnmountEffect`).

**ContainerRecords_proofs**: `TypeCorrect`, `SpecDurableHolds`, `StatusLagHolds`, `RunningHolds`,
`SpecsHold`, for any ids, specs, hosts, requests and streams, any faults, and a store that may lose
any save and keep back any row at a restart; the first two are about ids that are not `adrift`. The
properties follow from one fact about pointers and one about streams. `Store`: a record belongs to
one id (`Owner`), says so in its spec, and that id is known; so a handler that writes through a
pointer it has kept changes what is known of its own id only, and `WriteRecord` is the one lemma
about writes. `Transit` and `Streams`: what can still be deployed or answered is of an id the master
knows. That is not so of every deployment an agent works on -- the store may have lost the record
and the master restarted -- but those belong to streams that are gone, and a new stream has a number
no deployment has (`d.conn <= opened`). Hence no DeployResponse makes a record without a spec, and
the zero spec a nil one would be loaded as never arises. `Requests` carries the argument over the
handlers' unlocks: whoever is about to send has a record, or a stop.

**ExecBroker_proofs**: `TypeCorrect`, `NoStaleChannelHolds`, `OutputStaysInContainer`,
`PromiseKept`, the refinement of `ExecService`, `OwnOutputHolds` and `HandlersGoOn`, for any calls,
terminals, containers, hosts and streams. `IInv`: a stored channel is of a call that is under way
and in that container (`Channels`) although calls delete by container; a result is written once,
when its command is the client's current one (`Results`); what is on its way, at the agent or in a
channel has been called (`Handed`); an answer routed to a channel is for the channel's container
(`Routed`). The last is what "the container id is the only key" is worth, and all it is worth.

`OwnOutputHolds` says what more there is while nobody overlaps and nothing times out in a container,
and needs a second invariant on top of `IInv`, about where a command is. `InTurn`: a command is at
most in one place of one stream -- on its way to the agent, running, or its output on its way back --
or with the handler that received its output, or in a channel (`EachInOnePlace`); it has been sent
(`OnlySent`); in a container that is not spoiled it is the current command of a client that still
awaits it (`OnlyTheAwaited`), and there is one such client at most (`OneAtATime`). So the output
that a handler puts into the container's channel, and the one that is in it, are of the command
the channel was made for (`OwnPush`, `OwnBuf`). `HandlersGoOn` follows from the same invariant: an
output in the channel would be of the one command that is awaited, which is the one whose output the
handler holds, and a command is in one place. The lemmas on queues
(`Queues`, `Handing`, `Moved`, `NothingGained`) say of each step which one command changes place.
A command that was lost with its stream is in no place at all, and its caller times out, which
spoils the container: hence the property's premise.

**FleetPages_proofs**: `TypeCorrect`, `NothingTooSoon`, `ActsHold` and `ImagesOfTheMaster`, both
refinements of `Mirror`. `IInv` says that an answer under way was given since the page was opened
(`Fresh`), that a page which is gone has nothing under way (`Quiet`), and that a fetch that still
has containers to show is the dashboard's, and has shown its nodes or failed (`Ordered`).

**DeployModal_proofs**: `ModalTypeCorrect`, `OpenedForHolds`, `UntouchedHolds`, `SuccessHolds`,
`LoadingHolds`. `IInv` adds that the form names a node where one is known (`HostChosen`), that a
form nobody has typed in is that of its record (`FormFollows`) and that what the master accepted has
a record (`AcceptedIsRecorded`); `FormSays` is what the form does to each field of a spec.
**TerminalPage_proofs**: `TerminalTypeCorrect`, `FlagHolds`, `OrderHolds`: per socket, the commands
on their way, the one that runs, the answers on their way and the ones on the screen are one
ascending sequence with gaps (`InLine`), whose gaps, while the socket is open, are the commands
answered with nothing (`Whole`), and sockets beyond the current one do not exist (`Beyond`). Both
are about a page by itself, under its own specification; their inductive invariants are `ModalInv`
and `TerminalInv`.

**WebDashboard_proofs** carries them over to the tab, for any number of everything and any
navigation. The lemma that does it, `PagesRunInTab`, says that a tab is a behaviour of `ModalSpec`
and of `TerminalSpec`, which its `Next` is made to be; it is no result in itself. The first is step
by step (`DialogStep`); the second (`TerminalPageStep`) uses the dialog's invariant, since to the
terminal page a step of the dialog is a change of the records, and has to be one that keeps their
type. From it and the theorems of the pages follow `OpenedForInTab`, `UntouchedInTab`,
`SuccessInTab`, `LoadingInTab`, `FlagInTab` and `OrderInTab`. What is about the tab itself, that
never both pages are mounted (`OnePage`), is inductive, and with the types of the pages makes
`TypeCorrect`. The `tab` run checks the same of the instance directly.

**Model-checked only**: the liveness properties (`LostStreamForgotten`, `ReachableWhenAlone`,
`EveryRecordSettles`, `EveryCallReturns`, `StopReleases`, `LoadingEnds`, `ViewConverges`,
`EveryWaitEnds`), which TLAPS does not reach. Every invariant and both kinds of refinement that a
passing run checks are proved.

## 6. Plan

Done, in this order: control channel, records, exec, sandboxes, the dashboard's pages and their
composition; the refinements of `ExecService` and `Mirror`; proofs for every module with a
specification.

What would come next:

1. `PicoBox`, the composition of the records with the sandboxes of several agents: what the status
   says against what runs (ended containers, stops that overtake deployments, one id on two
   hosts), and an abstract life cycle of a container that it refines up to those gaps. The two
   modules meet in the DeployRequest and its answer; the product of even their smallest instances
   is beyond a run of minutes, so it needs a coarser model of one of them first.
2. `AgentRegistry`, the abstract promise of the control channel, and `ControlChannel` shown to
   implement it; finding 1 has to be part of the promise.

## 7. Not modelled

* **Scheduler** (master:348-367). Deployments in `ContainerRecords` go to any host, so whatever the
  scheduler chooses is covered by what is checked and proved of them. Not covered is the choice
  itself: it compares unsigned differences of metrics, over every node ever seen, online or not.
* **Metric values**, their parsing (functions of files) and the columns of the nodes table.
* **Log streaming**: the master prints the lines; no state. Lines lost when `Wait` closes the pipes
  (agent:282) are a hazard without a property.
* **`safeSend` and flow control**: the agent's one mutex for all its streams, and a `Send` that
  blocks because the peer does not read.
* **What a blocked stream handler holds up**: `ExecBroker` has the handler (a second response into a
  full channel) and `HandlerGoesOn` says when it cannot block; that the heartbeats, statuses
  and other outputs of its stream wait with it is not put together in one module.
* **Records against sandboxes**: see the plan.
* Image extraction, `PivotRoot` and `internal/network`, which the programs do not use; REST
  authentication, health endpoints and the healthcheck command, which change no state; generated code;
  build and deployment files; the dashboard's storage and settings pages and layout, which are constant
  markup with buttons that do nothing.

Within modelled components: error texts, JSON and HTML formatting, the values of limits,
namespace flags, the contents of directories (they are created and, by the code, never removed),
the possible reuse of a pid, processes forked by a container before it is confined or entered
into it by `Exec`; on the dashboard the values of metrics other than a CPU load of zero, the
keyboard's way through the form, and the text of terminals (whose answer a text is, is in `ExecBroker`).

## 8. Running

    tlc -workers 2 -config Channel_safety.cfg MCControlChannel.tla
    tlapm AgentSandboxes_proofs.tla

The runs of records, exec, the fleet and the tab take up to about two and a half minutes on two
workers, the others half a minute or less; each proof module takes a few minutes.
