# Formal specification of Froxy

This directory holds TLA+ specifications of Froxy, an HTTP proxy that relays
configured sites through an SSH server, together with the TLC configurations
that check them and theorems that TLAPS proves.  File names and line numbers
refer to the Go sources in the root of the repository.

## 1. Inventory

The column *Module* says where a part is modelled; `PROJECT.json` says of each
part how completely.

| Part | Source | State | Operations | Module |
|---|---|---|---|---|
| SSH transport | `ssh.go` | pool of sessions with reference counts, counts of active and planned connections and sessions, current context, wait group, lock | `Dial`, `Reconnect`, `sshConn.Close`, the waiter goroutine of a session | `SSHTransport` |
| Event bus | `ebus.go` | word of pending events, table of subscribers with mask and pending events | `Sub`, `Unsub`, `Raise`, the delivery goroutine | `EventBus`, `Ebus` |
| Connection manager | `connman.go` | connections by context and by local address, counter of address changes | `DialContext`, `Conn.Abort`, `Conn.Close`, the goroutine | `ConnMan` |
| Connection state, system events | `froxy.go`, `main.go` | `connState` | `SetConnState`, `SetServerParams`, `sysEventCallback`, `Run`, `eventGoroutine` | `SSHTransport`, `ConnMan`, `StateFile`, `Adm` |
| Request handling, listener | `froxy.go`, `listener.go`, `io.go`, `responsewriter.go`, `counters.go` | counters, connections, tunnels, hooks of the response writer | `httpHandler` and the handlers it calls, `ioTransferData`, `Accept`, `Close` | `Requests` |
| Polling | `handler.go`, `webapi.go`, `responsewriter.go` | tag of the client, subscription, poll socket | `HandlerWithPoll.ServeHTTP`, `handlePoll` | `Poll`, `PollSocket` |
| Configuration pages | `internal/pages/static/js` | counts of requests, queue of clicks, watches of input fields, polls | `http_request`, `Ui`, `BgPoll`, `BgWatch`, `UpdateTable` | `PollSocket`, `Page` |
| Sites and router | `env.go`, `router.go` | list of sites | `SetSite`, `DelSite`, `GetSites`, `Route` | `Sites` |
| FTP proxy | `ftp.go` | idle connections by site, expiration times | `Handle`, `getConn`, `putConn`, `expireIdleConnections` | `FTPProxy` |
| Global locks | `env.go`, `flock_unix.go` | lock files, one condition variable | `LockAcquire`, `LockRelease` | `GlobalLock`, `EnvLock` |
| Persistent state | `state.go`, `env.go` | state file and its copy in memory | `Load`, `Save`, `SetPort`, `SetServerParams` | `StateFile` |
| Administration | `adm.go`, `main.go` | run lock, running instance, installed files | `Install`, `Uninstall`, `Run`, `Kill`, `Open` | `Adm` |
| Key set | `keyset.go` | keys in memory and on disk | `KeyGen`, `KeyMod`, `KeyDel`, `load` | `KeySet` |
| Logger | `logger.go` | log file and numbered backups | `LogToFile`, `flush`, `rotate` | `Logger` |
| Direct transport | `direct.go`, `transport.go` | none | `DialContext` | not modelled: its calls are those of `ConnMan` |
| Names, options, keys, system calls, web content | `domain.go`, `idn.go`, `net.go`, `options.go`, `http.go`, `internal/keys`, `internal/sysdep`, `internal/pages` | none, or the system's | conversions, system calls | not modelled: what the system reports is the environment of the models |

How the parts interact:

* A request handler asks the router for a transport and calls its `Dial`
  (directly for CONNECT and FTP, through `http.Transport` else).
* `SSHTransport.newSession` dials its TCP connection with
  `ConnMan.DialContext`, under the SSH context; cancelling that context makes
  the manager close the connection, which ends the session, which wakes its
  waiter goroutine, which lets `Reconnect` go on.
* Every change of the connection state, of a counter and of the configuration
  raises an event on the bus; address changes and shutdown requests come from
  the system.  The connection manager, the poll handlers and the event
  goroutine are its subscribers.
* A `PUT /api/server` saves the parameters and calls `Reconnect`.
* Several processes share the lock files, the state file and the key files.

What is hard in this code: the pool of sessions is guarded by one mutex, one
condition variable that is only ever signalled (never broadcast), a wait group
and a read-write lock, used in different orders by `Dial` and `Reconnect`; the
event bus is woken up through an unbuffered channel by exactly one of the
concurrent raisers; the connection manager receives commands, events and
cancellations in any order while connections are closed from three sides;
processes start and stop each other through locks that they must release in
between; files are truncated and then written; requests walk through lists that
others change; and the script of the pages queues clicks behind requests.
The list of hazards, each at its line, is in `PROJECT.json`.

What makes each part correct:

* transport: counters and references never drift; no session exceeds its limit;
  a dial that could go on is woken up and every dial returns, if it meets no
  `Reconnect`; nothing of an old context is used after `Reconnect` returns; the
  state shown to the user follows the configuration;
* bus: no event raised after `Sub` is lost, no event is invented;
* manager: a connection is closed with its context and with its address, and
  is counted exactly once in and once out; the tables do not leak;
* polling: a client whose tag is old gets an answer, and a page comes to show
  what Froxy has;
* pages: a row is marked for the text it shows, requests are counted as long as
  they are active, and a click that waits waits for one of them;
* sites: the router answers for one list, and the most specific entry decides;
* FTP: a connection is used by one request at a time, and closed when it was
  idle for too long;
* locks: one holder per lock, over all processes, and no waiter is forgotten;
* state, keys: memory and disk agree unless a step has failed, and a crash costs
  at most what was being written;
* logger: only the oldest lines are lost;
* administration: a command is right about what runs;
* requests: counters agree with what happens, a request gets one answer, a
  tunnel ends on both sides.

The code has most of this, but not all: section 4 says where it falls short.

## 2. Plan

In order of importance.  Items 1 to 10 are done.

1. `SSHTransport`: the whole of `ssh.go`, with 2 or 3 dials, up to 2
   reconnects.  Theorems: the inductive invariants, context isolation, exact
   counters, no lost wake-up.
2. `EventBus` (abstract) and `Ebus` (code).  Theorem: `Ebus` implements
   `EventBus`, but for the event of startup.
3. `ConnMan`: the whole of `connman.go`, over the promise of `EventBus`.
   Theorems: exact counter and tables.
4. `Poll`: `HandlerWithPoll` composed with `EventBus` by INSTANCE.  Theorem: a
   request never sleeps on an outdated tag.
5. `FTPProxy`: the pool of idle connections and its expiration goroutine.
   Theorem: exclusive use.
6. `StateFile`, `Sites`, `KeySet`: what `Env` and the key set keep in memory
   and in files.  Theorem: the state file follows the memory.
7. `GlobalLock` (abstract), `EnvLock` (goroutines and processes) and `Adm`
   (install, kill, run), the latter over a lock with one holder.  Theorem:
   `EnvLock` implements `GlobalLock`.
8. `Requests`: counters, answers, tunnels; `PollSocket`: the goroutines of one
   poll socket, which share a variable, over the promise of `Poll`.
9. `Logger` and `Page`.
10. Theorems: every safety and action property that a run checks and finds to
    hold, and the inductive invariant of every module.
11. Left: the composition of `SSHTransport` with the abstract promise of
    `ConnMan`, so that "a cancelled context closes its connection" is derived
    and not assumed; rows that are added to and removed from the table of
    sites.

## 3. Modules

### SSHTransport (`ssh.go`)

An element of `Dials` is one call of `Dial`, together with the connection it
returns and with the session it may create, so `sessions`, `refcnt` and
`sstate` are indexed by calls.  An element of `Reconnects` is a call of
`Reconnect` and names the context it makes; `Boot` is the context of
`NewSSHTransport`.

| Variables | Code |
|---|---|
| `pc`, `dctx`, `dsess` | program counter and local variables `ctx`, `session` of a `Dial` |
| `sessions`, `refcnt`, `connCount`, `sessionsCount` | `t.sessions`, `session.refcnt`, `t.sessionsConnCount`, `t.sessionsCount` |
| `sstate` | the session: alive, terminated, and the steps of its waiter goroutine |
| `lock`, `wg` | holder of `disconnectLock`, counter of `disconnectWait` |
| `ctx`, `param`, `ctxOk`, `cancelled` | `t.ctx` and the contexts |
| `rpc` | program counter of a `Reconnect`, including "parked in `Wait`" and "released, not yet running" |
| `connState`, `sshConns` | `Froxy.connState`, `Counters.SSHConnections` |

A section of code under `sessionsLock` is one action.  A call that waits is at
`wait`; `Signal` moves one waiter to `woken`, from where it goes to `AGAIN`
when it gets the mutex, perhaps after others.  The map iteration in
`spareSession` makes the choice among least used sessions nondeterministic.
`sync.WaitGroup` is modelled with its panic: a `Wait` that was released and
finds the counter non-zero when it runs panics, which `net/http` recovers in
the request handler; the deferred `Unlock` runs and `t.ctx` stays nil.
`ServerParams` are values of `Params`; `OkOutcomes` says for each whether the
context it gives is usable (both, for parameters that name a key).

### EventBus and Ebus (`ebus.go`)

`EventBus` is the promise: a set of undelivered events per subscriber, filled
by every raise, emptied by deliveries.  `Ebus` is the code: `pending` is the
atomic word, `raiser` says who is blocked in the wake-up, the goroutine is in
`select` or in the two sections that follow it, `spending` and `offered` are
`s.pending` and the select case for `s`.  The refinement maps `todo` to the
events that are in `pending` and wanted or in `s.pending` and not just sent.
The duplicates that the code allows (an event raised just before `Sub`, an
event sent although it was raised again meanwhile) are part of the promise.

The constant `Everything` of `EventBus` is what a subscriber that lists no
events receives.  `ebus.go:93` promises all events: the instance `Bus` has
`Everything <- Events`, and the code does not implement it, as its mask lacks
bit 0 (`ebus.go:96`).  The instance `Kept` leaves out `EventStartup`; all else
that `Bus` promises is in it, and the code implements that.  `ConstantsOK` is
what is assumed of the constants.

### ConnMan (`connman.go`)

An element of `Conns` is a call of `DialContext` and its connection.  The
goroutine's tables are the sets `byCtx` and `byAddr`; a goroutine that it
starts to close connections is the set `victims`; a command to delete that is
being sent is an element of `dels` (its sender is blocked), a command to add is
the program counter `adding`.  The bus is its promise: `owed`.  In the code
one started goroutine closes its victims one after the other, each time waiting
for the manager to take the command; in the model they are closed in any order.
A manager that closed them itself would wait for itself to take the command:
that is the fault `ContextDoneInline`.  `blind` (history) records that addresses
were changed before the manager had subscribed, or could not be listed.

### Poll (`handler.go`, with its users in `webapi.go`)

An element of `Pollers` is one GET request in `ServeHTTP`; an element of
`Writers` is a goroutine that serves requests which change the resource and
then raise its event.  The content stands for its own hash.  The bus is an
instance of `EventBus`: `Sub`, `Listen` (the select statement is entered),
`Deliver` and `Unsub` are conjuncts of the handler's actions, `Call` and
`Raise` of the writer's.  `Failing` holds the writers whose change may fail
half-way, as that of a key does: it is made in memory, an error is answered,
and nobody is notified.

### FTPProxy (`ftp.go`)

An element of `Requests` is one call of `Handle` and the connection it dials.

| Variables | Code |
|---|---|
| `pc`, `site`, `conn` | program counter and local variables of `Handle` |
| `lock` | holder of `idleLock`, from `Lookup` to `Send`; `getConn` is one action |
| `table`, `bucket`, `lost` | `idleConnections`: the sites it has, the buckets of these, and the connections in buckets that were removed |
| `closed`, `reused`, `expires` | fields of `ftpConn`, and the times in the buckets |
| `epc`, `left`, `ebucket`, `stale`, `eleft`, `econn`, `now`, `next` | `expireIdleConnections`: program counter, what is left of its two loops, whether its bucket is still in the table, its local variables |
| `clock`, `timer`, `timerC`, `puts` | time, in numbers of connections that became idle |

The goroutine does not take `idleLock`, so each of its reads and writes of the
maps is an action.  What is added to a map during an iteration may or may not
be visited, as Go defines it.  The runtime may detect the concurrent use and
end the process; that only cuts a behaviour short.  The counter of FTP
connections is left out: `Close` tests and sets `closed` without a lock, so it
may be decremented twice.  Connections of earlier attempts, whose `putConn` is
deferred too, are closed when it runs.

### StateFile (`state.go`, `env.go`, `main.go`, `SetServerParams` of `froxy.go`)

An element of `Procs` is an instance, which starts once; an element of
`Requests` is a `PUT /api/server`.  Both are `Savers`.

| Variables | Code |
|---|---|
| `file`, `writer`, `readers` | the file and the `flock` on it; `Torn` is a file that was truncated and not written |
| `ppc`, `mem`, `runLock` | where `main` is, `Env.state`, the run lock |
| `stateLock`, `spc`, `buf`, `active` | `Env.stateLock`, where a save is, the state with the change, the parameters of the transport |
| `failed`, `overlap`, `missed` | history: the last save has failed; requests have overlapped; an instance has loaded something other than what the file holds now |

`Exit` is possible everywhere and leaves the file as it is.  `SetServerParams`
is `Set` up to the call of `Save`, the steps of `Save`, and `Reconnect`.

### Sites (`env.go`, `router.go`)

`heap` is the list of all arrays that ever held the sites, so that a walker can
go on with the array it has got while the list is replaced; `DelSite` in the
code makes a copy, and its fault does not.  `walk[w]` holds the loop variable
`site` and whether `found` points to it: go 1.13 has one variable for the whole
loop, so `*found` is always the site visited last.  The search for an entry is
by name, that of the router by labels.

### KeySet (`keyset.go`)

`keys` and `disk` are the two copies, `op` is the operation that holds
`set.lock`, `unsaved` (history) the keys whose last operation has failed on
disk.  Only the comment of a key is kept; a key is a file.

### Logger (`logger.go`)

Lines are numbers, files are sets of lines.  `pc` counts down the steps of
`rotate`; the file operations are separate, so that a crash may come between
them.  Compression may fail, and a crash between compressing and truncating
leaves lines in two files; `crashed` (history) records it.  Until then a backup
has only lines that are older than those of newer files; after it still no file
ends with a later line than a newer file does (both in `InOrder`).

### GlobalLock and EnvLock (`env.go`, `flock_unix.go`)

`GlobalLock` is a lock with a holder, which the end of a process frees.
`EnvLock` is the code: `locksFiles` is the table of each process, `flock` the
lock on the file, `pc` of a goroutine is `lock` when it is about to look at the
table, `wait` in `Cond.Wait`, `flock` in the system call.  The steps under the
mutex are one action; `FileLock` is called without it.  `Signal` moves one
waiter of the process, for whatever lock.  In Froxy only the lock `keys` is ever
waited for and `run` is only tried, which `LockAssumption` says: with two locks
that are waited for, a signal could go to the wrong waiter.

### Adm (`adm.go`, `main.go`, shutdown in `froxy.go` and `webapi.go`)

An element of `Adms` is a process that executes one command and may start one
instance.  `apc` and `cmd` say where it is, `isRunning` is `FroxyIsRunning`,
`asked` the instance whose connection `Kill` waits on, `tries` the attempts to
get the run lock back.  `ipc` is the instance: it loads its state, takes the
run lock, listens, closes its standard error (`Detach`), subscribes to the
shutdown event.  `output` holds the instances that have written something to
standard error before, which `Run` reports as an error and kills.

When `Run` fails in `Install`, `Uninstall` is called to undo the installation
(`adm.go:116-118`).  The command is then at `undoRun`, and not at `undo`, where
it is after a step before `Run` has failed: `Run` has released the run lock
(`adm.go:145`), `FroxyIsRunning` is still false, so that `Kill` does nothing,
and the files are removed without the lock.  `NotRunningMeansLocked` is about
the commands up to the moment when `Run` releases the lock; `RemovesAlone` is
about all that remove files, and does not hold.

### Requests (`froxy.go`, `listener.go`, `io.go`, `responsewriter.go`)

An element of `Conns` is a connection of a user with one request at a time.
`parts` counts the bodies written in answer, `skipBody` is that of
`ResponseWriterWithHooks`, `Counters` those that the handlers change, `dest` and
`copying` are the tunnel of a CONNECT and its two goroutines.

A goroutine of a tunnel is at work until `Read` of its source returns because
the source has ended or is closed (`EndUp`, `EndDown`), or `Write` to its
destination fails (`BreakUp`, `BreakDown`); it then closes its destination,
which ends the other goroutine's source (`StopUp`, `StopDown`).  As long as its
own source is open it stays in `Read`, whatever has happened to the other side.
A user who goes away ends the source of one goroutine only, and nothing forces
the other to write.

### PollSocket (`handlePoll` of `webapi.go`, `BgPoll` of `api.js`)

Per path one message goes round: sent by the page, read (`NewRequest`), given
its tag (`SetTag`), served, answered.  `r` is the request that all goroutines of
a socket share (`webapi.go:366`), so a poll may be served with the tag of
another path.  `Answer` is the promise of `Poll`.  Froxy may end and the socket
may break at any time; the page is then loaded again.

### Page (`api.js`, `sites.js`)

The browser runs one callback at a time, so each callback is one action on the
record `page`, and the functions that callbacks call are operators from page to
page (`Finished`, `UiQueueRun`, `Cancel`, `Fire`, `BgWatch`).  That `abort()`
calls `onreadystatechange` at once, so that a request that was sent is finished
twice, is part of `Cancel`; so is that a request which has failed is finished
again when it is cancelled later.  The field `twice` (history, added up in
`Cleared`) is the number of such requests.  `UpdateRow` is the body of the loop
of `UpdateTable`.

### Proof modules

* `SSHTransportProofs`, `SSHPoolProofs` (which extends it) and
  `FTPProxyProofs`: the theorems of one component, over its module;
* `EnvProofs`, over `MCEnv`: `StateFile`, `KeySet`, `Logger` and `Sites`;
* `ConnManProofs`, over `MCEnv` too: `ConnMan`;
* `InstanceProofs`, over `MCInstance`: `EnvLock`, `Adm` and `Requests`;
* `PagesProofs`, over `MCPages`: `Poll`, `PollSocket` and `Page`;
* `EbusProofs`, over `MCPages` too: `Ebus`.

Those over `MCEnv`, `MCInstance` and `MCPages` prove about the instances `S`,
`K`, `L`, `C`, `A`, `R`, `B`, `T` and `P` that these modules make of the
components, whose constants stay arbitrary.  `EnvProofs`, `InstanceProofs` and
`PagesProofs` end with a theorem about the behaviours in which any of the parts
runs.

### Instances

`MCSSHTransport`, `MCEbus` and `MCSites` give instances and tables of constants
to one module.  `MCSSHTransport` also has the bound `MCBound`: a behaviour has
three dials and no reconnect, or two dials and up to two reconnects; dials,
which differ only by their numbers, begin in the order of these.  `MCEbus` is
the small instance by which the promise of `ebus.go:93` is refuted.

`MCEnv` (`StateFile`, `Sites`, `KeySet`, `Logger`, `ConnMan`), `MCInstance`
(`EnvLock`, `Adm`, `Requests`) and `MCPages` (`Ebus`, `Poll`, `PollSocket`,
`Page`) bring together modules that share no variable: the variable `part`
chooses one of them in the initial state, and only its steps are taken.  A
behaviour of such a module is a behaviour of one part, so what is found of a
part is what a run of that part alone would find.

### Faults

An operator whose comment starts with "Fault:" stands before the definition it
is a faulty variant of (a forgotten signal, an unchecked result, a missing
reset).  It is not part of any specification: `PROJECT.json` pairs each with
the property that must fail when it replaces the definition, which shows that
the run can see the fault.

## 4. Runs

| Run | Instance | Shows |
|---|---|---|
| `ssh` | 3 dials, or 2 dials and 2 reconnects, parameters with a password or a key; limit 2; fairness | `Inv` (the inductive invariant), `Accounting`, `RefcntBounded`, `NoLostWakeup`, `ContextIsolation`, `DisconnectComplete`, `ConnStateFollowsConfig`, `DialReturns` |
| `ftp` | 3 requests, 1 site; fairness | `ExclusiveUse`, `RequestsAnswered`, `IdleExpires` |
| `env` | 2 instances with 2 requests; 2 hosts, 1 walker, 3 changes; 2 keys; 3 backups, 9 lines; 2 connections, 1 context, 1 address, 2 changes; fairness of the connections | `EnvInv` (the inductive invariants of the first four), `DiskFollowsMemory`, `TransportFollows`, `RouteMatches`, `MemoryOnDisk`, `CrashKeepsOthers`, `OnlyOldestLost`; `CounterExact`, `TablesExact`, `ContextCloses`, `AddressCloses` |
| `instance` | 4 goroutines in 2 processes, 2 locks; 2 commands, 3 attempts; 2 connections, 2 requests; fairness | `InstanceInv` (the inductive invariants of the three: lock holders, exact counters, one answer), `NoForgottenWaiter`, `ImplementsGlobalLock`, `NotRunningMeansLocked`, `RunReports`, `KillReturns`, `TunnelEnds` |
| `pages` | 2 raisers, 1 subscriber, 3 events; 1 poll, 2 writers, 3 contents; 2 paths; 2 rows, 3 hosts, 2 messages, 2 clicks or edits; fairness | `PagesInv` (the inductive invariants of the last three: polls wait for changes of what is shown), `WakeupExact`, `ImplementsAllButStartup`, `LowestDelivered`, `NoMissedChange`, `ChangeAnswered`, `AbandonedEnds`, `PageFollows`, `CheckedIsShown`, `RequestsCounted` |
| `ssh_deadlock` | 2 dials, 1 reconnect; fairness | violates `ReconnectReturns` |
| `ebus_startup` | 1 raiser, 1 subscriber, 2 events; fairness | violates `ImplementsEventBus` |
| `poll_keys` | 1 poll, 1 writer that may fail; fairness | violates `ChangeAnswered` |
| `router` | 3 hosts, one below the other | violates `MoreSpecificWins` |
| `clicks` | 2 rows, 3 hosts, 1 new message, 2 clicks or edits | violates `UpdateSendsWhatIsShown` |
| `clicks_stuck` | the same | violates `ClicksWaitForRequests` |
| `undo` | 2 commands, 2 attempts | violates `RemovesAlone` |

**Bounds.**  Three dials on sessions of two connections are the smallest
instance in which a session is full while another is planned, or one dial waits
for a session that two will share, so that the single `Signal` has to be passed
on; what more dials could add to the safety properties is left to the theorems,
which cover any number.  Two reconnects are needed for one to follow another,
or to meet a nil context left by a panic.  Two raisers are needed to race for
the wake-up; subscribers share only the table and the walk of the goroutine
through it, and the refinement is proved for any number.  Three events are that
of startup, which stands apart, and two others, one of which can delay the
other.  Two connections can be in one table while one of them is closed from
two sides.  `MaxAddrChanges` bounds the address changes: with two, one can be
noticed before a dial and one during it.  With two writers one may change the
resource while the other is about to notify of its change; requests that poll
do not influence each other.  Three FTP requests let two connections be idle in
one bucket and a third request choose; buckets of different sites share only
the table.  Two instances let one load the state file while the other saves it;
two requests overlap.  Two hosts, one below the other, can be listed, changed
and removed in three changes; two keys tell the key that was being written from
the others.  Nine lines in files of two fill the log and its three backups and
push out the oldest.  Three goroutines of one process hold a lock, wait and
pass by at the same time, and one of another process competes.  Two commands
are enough for one to take the run lock while the other has let go of it;
`MaxTries` bounds the attempts as in the code (20 there).  Two paths share the
request of a poll socket.  Two rows are needed for an update of one to run
while the other is not updated yet.  In all runs a process may stop for ever
where the code lets it (no more calls), so deadlock checking is off; being
stuck is covered by the liveness properties instead.

**Fairness.**  The Go scheduler runs every goroutine that can run, hence weak
fairness of the steps of a call that has started, of waiter goroutines and of
the service goroutines.  A network call is assumed to end, with success or
failure (`ssh.NewClientConn` has no timeout, so for a silent server this is an
assumption).  `select` chooses at random among ready cases, and mutexes and
channels serve those who wait in order in the end, hence strong fairness of
`Send` in `Ebus`, of `Drop` in `Poll`, and of the requests and the timer in
`FTPProxy`, which are disabled again and again.  In `Adm` commands and
instances run, and an instance that exits comes to its end; in `Requests` a
`Read` returns when its source has ended or is closed, and what was read is
written or given up, but no `Write` is obliged to fail; in `PollSocket` the
goroutines and the browser run.  Nothing obliges anybody to dial, close,
reconnect, raise an event, request, change a resource, cancel a context or go
away.

**Violations.**  Seven runs show where the code does not do what the repository
says of it; each is a finding in `PROJECT.json`.

* `ssh_deadlock`: `Dial` increments `disconnectWait` (`ssh.go:242`) before it
  takes `disconnectLock`, which `Reconnect` holds while it waits for
  `disconnectWait` to become zero (`ssh.go:224`).  A dial that arrives during
  the wait blocks both, and with them every later dial.  `DialReturns`
  therefore excepts the dials that meet a `Reconnect`.
* `ebus_startup`: a subscriber that lists no events gets the mask `^uint32(1)`
  (`ebus.go:96`), which has all bits but that of `EventStartup`; the comment
  (`ebus.go:93`) says it will receive all events.  `eventGoroutine`, which
  subscribes so, is never told of the startup that `Run` raises.
* `poll_keys`: `KeyMod` and `KeyDel` change the keys in memory first; if the
  disk fails, `handleKeys` answers the error and raises no event
  (`webapi.go:268-271`), and who polls the keys is not told.
* `router`: `found` points to the loop variable (`router.go:67-79`), so the
  answer is that of the site visited last and not of the most specific one.
* `clicks`: `abort` finishes a request that is then finished again
  (`api.js:95`), so that the count of requests reaches zero while others are
  active; waiting clicks then run in the middle of `UpdateTable`.
* `clicks_stuck`: for the same reason the count stays below zero when no request
  is active, and `UiQueueRun` wants it to be zero (`api.js:387`): a click that
  comes then waits for no request.  It is run only if the count happens to be
  zero when a later request finishes, while another is active.
  `RequestsCounted` says by how much the count is wrong: by the number of
  requests that were finished twice, and by nothing else.
* `undo`: `Install` has released the run lock in `Run`; when the instance it has
  started fails, and another command starts one, `Uninstall` removes the files
  while Froxy runs, although it begins with "Kill Froxy if it is running"
  (`adm.go:125`).

**Seen while modelling, not run.**  These follow from the code by reading.  The
properties above are stated so that they hold all the same: they do not show
that the code is right here.

* The state stays "established" when the last session ends while another is
  planned that then fails (`ssh.go:393-394`, `316-317`);
  `ConnStateFollowsConfig` is about the state "not configured" only.
* Addresses that cannot be listed are not listed again, and a change before the
  manager has subscribed is not noticed (`connman.go:96-106`, `143`);
  `AddressCloses` excepts what `blind` records.
* `putConn` may put a connection into a bucket that the expiration goroutine
  has seen empty and then removes (`ftp.go:519-520`): it is lost.
  `IdleExpires` is about the connections that are still in the table.
* A request to upgrade is answered with an error and then sent to the server
  all the same (`froxy.go:169-178`); `OneBody` excepts it.
* A key whose operation has failed on disk differs between memory and disk
  until the next operation on it (`keyset.go:129-161`); `MemoryOnDisk` excepts
  what `unsaved` records.
* `SetSite` can give an entry the name of another one (`env.go:301`).
* A request to shut down that comes between the start of the listener and the
  subscription of `eventGoroutine` has no effect (`froxy.go:456`);
  `KillReturns` is stated for an instance that has subscribed.
* Two `PUT /api/server` that overlap may leave the parameters of one in the
  file and those of the other in the transport (`froxy.go:120`);
  `TransportFollows` excepts them.
* The state is loaded before the run lock is taken (`main.go:47`), so an
  instance may work with a state that the last one has saved over meanwhile;
  `DiskFollowsMemory` excepts it until it has saved.

## 5. Proofs

TLAPS proves, for every value of the constants that satisfies the assumptions
in the modules (finite sets of dials, reconnects and connections; a positive
limit; events (`ConstantsOK`), sizes and bounds that are natural numbers, and
at least one backup of the log; nil values, tags and torn files that are
distinct from what they stand next to; one lock that is waited for):

* `SSHTransport`: `Inv`, and from it `ContextIsolation` and
  `ConnStateFollowsConfig`; then `Accounting`, `RefcntBounded`,
  `DisconnectComplete` and `NoLostWakeup`.

  `Inv` is `TypeOK`, `LockInv` (who holds the lock is past the comparison, and
  `t.ctx` is nil while it waits), `SessionInv` (a session follows the call that
  creates it; a reference is to a session of one's own context),
  `WaitGroupExact` (the wait group counts exactly the calls of `Dial` and the
  waiter goroutines) and `ContextInv` (all that is active works for one
  context, and nothing is once `Wait` has returned).  Context isolation is not
  inductive alone: that nothing is active when `Wait` returns follows from
  `WaitGroupExact` with counter zero, and that a dial which enters during the
  wait stays inactive follows from `LockInv`.

  The pool needs `Accounting` as an inductive invariant of its own over `Inv`;
  `NoLostWakeup` is strengthened to `WakeInv`: while a call waits, planned
  sessions, plus one for each call that was woken and each session that was
  reaped, carry all connections.
* `Ebus`: `Inv` (table and goroutines agree, exactly one wake-up, offers are
  pending), which contains `WakeupExact`, and `ImplementsAllButStartup`: the
  initial state maps to an initial state of the instance `Kept` of `EventBus`,
  and every step of `Ebus` to a step of it or to a stutter.
* `ConnMan`: `CounterExact` and `TablesExact`, from `Inv`, which adds `LifeInv`
  (only connections that were added are closed or about to be closed).
* `Poll`: `NoMissedChange`, if no change fails half-way (`Failing = {}`).  It
  rests on `Inv`: a request that has a tag is subscribed as long as it is
  served, so that a raise reaches every request that waits, and a request only
  begins to wait with the tag it has just read.
* `FTPProxy`: `ExclusiveUse`.  It is strengthened to `Inv`: every connection is
  in one place (used by one request, in one bucket, or lost), a request that
  may still dial has not dialed yet, so that the connection it makes is new,
  and one that failed with its own connection does not try again.
* `StateFile`: `DiskFollowsMemory`, `TransportFollows` and `ReadersSeeWhole`.
  Their invariant `Inv` has four parts.  `LockInv`: only the instance with the
  run lock saves, one saver at a time, and nobody writes while somebody reads.
  `BufInv`: what is being saved is what is in memory.  `FileInv`: a torn file
  is being written or was left so by a save that failed, and an instance that
  has loaded the file and missed nothing has what it holds; without the second
  half, `DiskFollowsMemory` would not survive the moment when that instance
  takes the run lock.  `ParamsInv`: the one request at work, if requests do not
  overlap, carries the parameters in memory.
* `EnvLock`: `NoForgottenWaiter` and `ImplementsGlobalLock`, for any processes
  and goroutines, if only one lock is ever waited for.  `HolderInv` ties the
  table of the process and the file lock to the goroutine that uses them; then
  the holder of the abstract lock is the goroutine whose file is locked.  That a
  waiter is not forgotten rests on two lemmas about `Signal`, and on there being
  one lock that is waited for: the waiter that is woken will look at the lock
  that all of them wait for.
* `KeySet`: `MemoryOnDisk` and the action property `CrashKeepsOthers`.
  Agreement is not inductive while an operation is at work: `FilesInv` has it at
  all times for the keys the operation is not about, and `OpInv` says how far
  memory and disk have come for the key that it is about.
* `Logger`: the action property `OnlyOldestLost`, and `InOrder`, the order of
  the files.  A rename overwrites its target, so nothing is lost only because
  `FilesInv` knows the target to be empty at that step of the rotation; the
  order is an invariant of the steps between the renames too, and what is left
  of it after a crash is one of the steps that follow.
* `Sites`: `RouteMatches`.  `HeapInv` says that an array that was current is
  never changed, so a walk sees one list; `Searched` what a walk knows after
  each entry: it has passed none of the name it looks for, and `found` tells
  whether it has passed one above it, or it has ended at the first of that
  name.  That `Position` is the first one rests on the least element of a set
  of numbers.
* `Adm`: `NotRunningMeansLocked` and `RunReports`.  They need `RunLockInv` (an
  instance that has come past loading holds the run lock until its end, and
  nobody else does) and `CommandInv` (which commands can be at which step: only
  one that has come to start an instance has one).  `NotRunningMeansLocked` ends
  where `Run` releases the lock; that a command is alone when it removes files
  (`RemovesAlone`) is false after that.
* `Requests`: `CountersAgree` and `OneBody`, which `InstanceInv` contains.  A
  counter is the cardinality of a set of connections, to which each action adds
  or from which it removes the connection it is about; `AnswerInv` knows how
  many bodies have been written at each step of each kind of request.
* `PollSocket`: `PollsWhatIsShown`.  A request that two goroutines share may
  carry the tag of another path, so the invariant is about tags of one's own
  path only (`TagInv`); `SocketInv` says that no poll outlives its socket and
  that every message carries the tag of what is shown.
* `Page`: `CheckedIsShown` and `RequestsCounted`.  `CheckInv`: a check that is
  active has the text of its row, unless that has changed since.  For the count
  the proof follows its difference to the number of active requests, to which
  each function of the script adds exactly the requests it finishes twice; when
  the count is not below zero, a click waits only if a request is active, since
  whatever brings the count to zero runs the clicks.
  `UpdateTable` is a recursive function over the rows: that it exists is shown
  by least counterexample, and so is that every row has its check afterwards.
* The behaviours of `MCEnv`, `MCInstance` and `MCPages` keep the conjunction of
  the invariants of their parts (`EnvHolds`, `InstanceHolds`, `PagesHold`).

Every invariant and action property of a passing run is so proved.  The
inductive invariants of `EnvInv`, `InstanceInv`, `PagesInv` and `ssh` are
checked by these runs as well.  Only model-checked are the liveness properties
(`DialReturns`, `LowestDelivered`, `ContextCloses`, `AddressCloses`,
`RequestsAnswered`, `IdleExpires`, `KillReturns`, `TunnelEnds`,
`ChangeAnswered`, `AbandonedEnds`, `PageFollows`), since fairness and ENABLED
are beyond the provers, and the violations, which are counterexamples.  No
theorem covers `ReconnectReturns`, `ImplementsEventBus`, `MoreSpecificWins`,
`UpdateSendsWhatIsShown`, `ClicksWaitForRequests` or `RemovesAlone`: they are
false.

## 6. Not modelled

* Contents of messages and of log lines, HTTP itself, authentication, the idle
  pool of `http.Transport` (its connections are closed by `Close` like any
  other), timeouts inside the Go runtime, and the runtime's detection of
  concurrent map use, which ends the process (`handlePoll`, `ftp.go`).
* `Conn.Read` and `Conn.Write` only replace an error by the reason for which
  the connection was closed.
* The failure of `Hijack` (`froxy.go:234-238`), which net/http does not let
  happen for a connection it has not given away.
* The data of a tunnel: a goroutine that has read can write in the end, or its
  `Write` fails.  A destination that neither takes data nor ends would block a
  goroutine in `Write` for as long as it does so.
* What happens to a context when the key that it names is generated or deleted
  (`ssh.go:216`): only the parameters are compared.
* Rows that are added to or removed from the table of sites, the form for a new
  site, and the other pages (`conf.js`, `keys.js`, `counters.js`), which use the
  same functions of `api.js`.
* `SetSite` and `DelSite` save the state as `SetServerParams` does; `Sites` has
  only what they do to the list.
* The contents of icons and shortcuts; a failure of renaming or removing a log
  file, which the code ignores.
* Keys (`internal/keys`), domain names and options: pure conversions without
  state, whose correctness is that of the libraries they call.
* Overflow of counters is out of the question at the sizes involved (32 bits
  for connections, 64 bits for address changes).
