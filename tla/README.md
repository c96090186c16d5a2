# TLA+ models of serviced's host registry, token cache, CLI commands and host record

This directory holds TLA+ specifications of the parts of this repository that
have concurrent behaviour, together with the TLC configurations that check
them. The repository (`src/`) is a slice of serviced. Two of its files contain
state machines that interact with other actors:

* `src/zzk/service/host.go`. This file keeps the host registry in the
  coordination store (ZooKeeper): one node `/hosts/<id>` per host, with
  `/hosts/<id>/instances/<stateID>` for every service instance scheduled on
  that host.
  * `SyncHosts` reconciles `/hosts` with a complete list of hosts. It uses the
    generic `zzk.Sync`, which is not in this slice. That routine creates
    children through `HostNode.Create` (`AddHost`) and updates them through
    `HostNode.Update` (`UpdateHost`). `HostNode` has no removal hook, so
    `zzk.Sync` can delete an undesired child only with the connection.
  * `RemoveHost` first asks every instance on the host to stop. Then it waits,
    with a chain of one-shot children watches, until the instance list is
    empty. Only then does it delete the host subtree. The caller can cancel
    the wait.
  * The other actors are the host agents, which act on stop requests by
    deleting their instance nodes, and the scheduler, which creates instance
    nodes.
* `src/auth/token.go`. This file is the process-wide authentication-token
  cache.
  * `currentToken` and `expiration` are guarded by `cond.L`.
  * `AuthToken` blocks on the condition variable while the token is expired.
  * `CurrentIdentity` reads `currentIdentity`, the identity parsed from the
    token, under the same lock.
  * `AuthTokenNonBlocking` reads the cache without the lock.
  * A single feeding goroutine fills the cache through `updateToken`. It is
    either `TokenLoop` (fetch a token, sleep until one minute before it
    expires, retry every 10 s on error) or `WatchTokenFile` (load the token
    file once, then register the fsnotify watch with `NotifyOnChange`, then
    load the file on every event).
  * In the second form, another process writes the file with
    `ioutil.WriteFile`, which truncates first and then writes.

* `src/cli/api/service.go`. The service methods of the CLI api. Each one is
  a sequence of RPCs to the master (`connectDAO`, then one DAO method per
  step). Several CLI processes run against one master, so other calls and
  exiting instances change the master's store between two RPCs of one call.
* `src/cli/cmd/key.go`. The `serviced key list` and `serviced key reset`
  commands. `key reset` has the master replace a host's delegate key, then
  registers the new key on the host over ssh, writes it to a key file, or
  both.
* `src/main.go` and `src/domain/host/host.go`. When serviced starts, `main`
  copies the build variables into `servicedversion` and `getConfigs` picks
  the configuration file from `os.Args`. A serviced agent then builds its
  `Host` record with `host.Build`, which reads the version `main` set, and
  later refreshes the record with `UpdateHostInfo` as the machine changes.
  `Host.Equals` decides whether a refreshed record differs from the stored
  one. The code is sequential; the other actor is the machine itself.

The rest of `src/` is argument parsing, single RPC wrappers, a stats mock, a
cgroup file parser, mocks and tests. It is listed under "Not modelled" below.

## Modules

| Module | Models | Source |
|---|---|---|
| `HostRemove` | `RemoveHost` run by several concurrent callers, with the store, host agents, the scheduler and cancellation as the environment | host.go 82-123 |
| `HostRemoveSpec` | what `RemoveHost` promises, with each call as one atomic step | spec 4.3, 7 |
| `HostSync` | `SyncHosts` calls against the store while the scheduler places instances | host.go 61-80 (zzk.Sync from spec 4.2) |
| `AuthToken` | the token cache, its callers, `CurrentIdentity` readers, the feeding goroutine in either mode, and the file writer | token.go 25-188 |
| `ServiceAPI` | the service calls of the CLI api made by concurrent clients against the master's store | service.go 43-279 |
| `KeyReset` | `key list` and `key reset` run by concurrent CLI processes, with the master's keys, the hosts and the key files | key.go 63-137 |
| `DaemonConfig` | `main` and `getConfigs` | main.go 26-77 |
| `HostRecord` | an agent after `main`: `Build`, `UpdateHostInfo` and `Equals` on its record while the machine's hardware changes; it extends `DaemonConfig` | host.go 29-182 |
| `MCHostRemove`, `MCHostSync`, `MCAuthToken`, `MCServiceAPI`, `MCKeyReset`, `MCHostRecord` | model values and constant definitions for TLC | |

### HostRemove

The state is the store as seen by `RemoveHost`:

* `hosts`: the `/hosts` children.
* `instDir[h]`: whether `/hosts/<h>/instances` exists.
* `inst[h]`: the instance nodes on host `h`.
* `used`: instances that were ever placed.
* `stopReq`: instances whose stop was requested.

Each call `r` has the following state:

* `target[r]`: the hostID the call removes.
* `pc[r]`: the statement the call is at.
* `toStop[r]`: the rest of the list `ch` that the stop loop still walks.
* `gen[r]`: which `stop` channel is current.
* `cancelled[r]`: whether the call's cancel channel is closed.
* `result[r]`: what the call returned.

The watches are pairs `<<r, gen>>`:

* `liveW`: watches that are still registered.
* `firedW`: watches whose event is waiting in `ev`.

There is one action per store call or loop step, in the order of the code:

* `Exists`: line 83.
* `ListInstances`: `Children` tolerating `ErrNoNode`, lines 90-94.
* `StopInstance`: one iteration of the stop loop, lines 95-99.
* `ChildrenW`: the watch, plus the `len(ch)==0` break, lines 104-112.
* `WaitEvent` and `WaitCancel`: the `select`, lines 113-120.
* `Delete`: line 122. The delete is recursive and fires watches.

Every error exit goes through `Finish`, the return. When an error leaves the
drain loop, it also goes through `DeferredClose`. That action models the
deferred closure, which closes whatever `stop` holds at the time it runs
(lines 101-102).

The environment has three actions:

* `Cancel`: closes the cancel channel.
* `StartInstance`: the scheduler places an instance on an existing host. It
  cannot place one on a host that an undisturbed removal is draining, unless
  `SchedulePendingRemoval` is set.
* `InstanceExit`: the agent deletes an instance node. The node is stopped on
  request, or exits by itself.

`FireWatches` models a change to the instances node: it moves every live watch
on that node to the fired set.

Constants select which faults are possible:

* `StoreFaults`: any store call can fail.
* `StopFaults`: `StopServiceInstance` can fail.

### HostSync

The state is the `/hosts` children (`hosts`), the instances running under
each (`inst`), and for each call `s` its control point `spc[s]`, the
children it listed, the desired hosts it has not yet written (`todo`), the
listed undesired hosts it has not yet deleted (`extra`), and its result.

`SyncHosts` (lines 61-68) hands `zzk.Sync` only the connection, the nodes
and `"/hosts"`. The steps of `zzk.Sync` are modelled from spec 4.2, because
its code is not in this slice:

* `SyncList`: list the children of `/hosts`.
* `SyncApply`: for one desired host, call `AddHost` (lines 70-74,
  `conn.Create`, which fails if the node exists) or `UpdateHost` (lines
  76-80, `conn.Set`, which fails if the node is gone).
* `SyncRemove`: for each listed host that is not desired, delete
  `/hosts/<id>` with its subtree. Spec 4.2 says this goes through the Host
  Remover. But the `zzk.Node` interface that `HostNode` implements (lines
  30-59) offers `GetID`, `Create`, `Update`, `Version` and `SetVersion`, and
  nothing else reaches `zzk.Sync`. So the only delete available to it is the
  connection's.
* `SyncDone`: return.

Every store step can fail under `StoreFaults`, which ends the pass with the
error. The environment is the scheduler (`StartInstance`), which places an
instance on a registered host.

### AuthToken

Time is counted in 10-second units: `expirationDelta` is 1 unit and the
TokenLoop margin is 6 units.

The state is:

* the cache: `currentToken`, `expiration`, `updating` (cond.L held by
  updateToken), and `waiting` (callers in `cond.Wait`);
* each AuthToken caller's control point `cpc` and the token it returned,
  `got`;
* each AuthTokenNonBlocking caller's control point `ppc` and its result
  `pres`;
* the feeder's control point `dpc`, the token and expiry it is storing, and
  its timer `wake`;
* the token file, the pending fsnotify event, and the writer's state;
* `watching`, set once `NotifyOnChange` has registered the watch, and the
  history variable `notified`: the last write to the file came before the
  initial read, or while the watch was registered;
* `currentIdentity`, and for each `CurrentIdentity` caller its control
  point `ipc` and the identity it returned.

`updateToken` is split at its lock boundaries:

* `UpdateToken1`: lock, then `currentToken` and `currentIdentity`.
  `getIdentityFromToken` is the constant function `IdentityOf`.
  `ParseJWTIdentity` is outside the repository. A token that does not
  parse, `""` included, has no identity.
* `UpdateToken2`: `expiration`, then unlock.
* `UpdateToken3`: `Broadcast`, then the TokenLoop sleep computation, or
  in file mode the step after `loadToken`: registering the watch after the
  initial load, waiting for the next event after later ones.

`WatchStart` is `NotifyOnChange` (lines 139-143); when it fails,
`WatchTokenFile` returns and the file is never loaded again. A write
of the file raises an event only once the watch is registered
(`WriterTruncate`, `WriterWrite`), and `FileEvent` is one iteration of the
`range` over the event channel.

The unlocked reader is modelled statement by statement, as `Peek1`, `Peek2`
and `Peek3`. The reason is that the data race in it is the point of interest.

### ServiceAPI

The master's store is `svcs`, `name`, `eps` (the endpoints of each service),
`states` (the running instance states of each service), `snaps` (snapshot
history) and `addr` (the assigned IP). `used` and `stUsed` record the ids
ever handed out, because the master never reuses them. Each client `c` has a
control point `cpc[c]`, the call it makes, and the error and value it
returned. One history variable supports the properties: `present0[c]`
(the sought state was running when the services were listed). Only
services that exist at the start have snapshot history, because no call
in this file creates snapshots.

Each action is one RPC, in the order of the code, and `Fail` is the error
return of any `connectDAO` or RPC:

* `GetServicesByName`: lines 73-87.
* `ListForState` and `ReadStates`: `GetServiceState` lists the services once
  (90-95), then reads the states of one service per step (96-125).
* `AddService`: builds the endpoints (`Endpoints`, 153-164) and adds the
  service (176). The local and remote ports come from Go maps, so their order
  is any permutation (`SetToSeqs`). `GetService` is the follow-up read (180).
* `DeleteSnapshots`, then `RemoveService`: lines 184-199. The first
  error ends the call, so a failed `RemoveService` RPC leaves a service
  without history.
* `UpdateService` (202-221), `StartService` with `GetHost` (224-236),
  `StopService` (239-250).
* `AssignIPs`, then `ReadAssignments`: lines 253-279. The master's
  assignment policy is not in this repository, and the model keeps one
  address per service, the first one `GetServiceAddressAssignments` lists.
  After an assignment that is the new address or the one the service
  already had; either may be chosen.
* `UpdateService` replaces the stored service by the decoded one; the model
  replaces its name and its endpoints.

The environment has one action, `InstanceExit`: an instance of a service
stops.

### KeyReset

The state is the master's key of each host (`mkey`), the key registered on
each host (`hkey`), and the key held by each key file (`file`). Keys are
numbered: the n-th reset of a host generates key n. Each CLI process has a
control point, its command (`op`, `host`, `--key-file`, `--register`), the
key it got from `ResetHostKey`, the key file name it chose, and the set of
messages it printed (`out`; only which messages, not their text).

The actions follow the code: `Args` (the usage check), `GetHostPublicKey`,
`GetHost`, `ResetHostKey`, `Register` with `Decide` (the `writeKeyFile`
decision and the default name `IP-<ip>.delegate.key`), `Abs`,
`WriteDelegateKey` and `WriteHostID`. With `Faults` every driver call,
`filepath.Abs` and the write may fail.

### DaemonConfig

The state is `os.Args` (`args`), the `servicedversion` variables
(`version`) and the chosen file (`config`). `Main` is the one action: it
sets the version and applies `GetConfigs`. Strings are sequences over a
small alphabet: a quote, white space, `=`, `-`, any other character, and
one symbol for the text `--config-file`. `GetConfigs` translates the loop
of `getConfigs`: the first argument with that prefix wins. The value comes
after its `=`, or else from the next argument if that does not start with
`-`. Quotes are trimmed first and white space second. An empty result
selects `/etc/default/serviced`. `HasPrefix`, `IndexByte`, `Trim` and
`TrimSpace` are written as operators on sequences (`TrimChar` is
RECURSIVE). No run checks a property of `getConfigs`: the only statement of
which file a `--config-file` user should get is `getConfigs` itself.

### HostRecord

This module extends `DaemonConfig`. Its state is the machine's hardware
(`machine`), the agent's control point (`pc`: main, build, up, failed) and
the record (`rec`). History variables keep the record `Build` returned and
its `ipAddrs`, the record before the last refresh, and the hardware that
refresh read.

* `Start` is `main`.
* `Build` is taken over every `ip`, port, pool and `ipAddrs` argument. It
  either returns one of its errors (empty pool, bad port, an address that
  is not the machine's, or a failure of `currentHost` under `Faults`), or
  builds the record. The record has one IP resource per address, the
  host's own address when none was given, and `ServiceD` from
  `servicedversion`.
* `Refresh` is `UpdateHostInfo` on the record.
* `MachineChange` changes the machine's hardware to another member of
  `Hardware`.

`currentHost` and `getIPResources` are outside the repository. They are
modelled from the comments of `Build`. Times are ticks, and `Equals`
compares them through `Unix`, at second resolution.

## Runs

| Run | cfg | Expect | Shows |
|---|---|---|---|
| `remove_concurrent` | `MCHostRemove.cfg` | pass | Two concurrent RemoveHost calls on one host, with store faults, stop faults and cancellation, never delete a host while an instance runs (`NoRunningInstanceDeleted`, an action property), never leave a watch registered after returning (`NoWatchLeak`), and always return (`Termination`). Every behaviour is also a behaviour of `HostRemoveSpec` under the mapping `returned <- {r : pc[r] = "done"}` (`ImplementsSpec`). |
| `remove_no_instances_node` | `MCHostRemoveNoNode.cfg` | violation | A host that never had an instances node cannot be removed: `ChildrenW` returns `ErrNoNode`, although `Children` tolerated it two statements earlier. |
| `sync_raw_delete` | `MCHostSync.cfg` | violation | A SyncHosts pass whose list no longer names a host deletes that host while an instance runs under it (`SyncNoRunningInstanceDeleted`, the promise of spec 4.2 that removal goes through the Host Remover). |
| `token_loop` | `MCAuthTokenLoop.cfg` | pass | With TokenLoop and a TokenFunc that may fail, an expired token is in the cache only while the loop is fetching or retrying, never while it sleeps towards the next refresh (`TokenNeverStale`). |
| `token_file` | `MCAuthTokenFile.cfg` | pass | With WatchTokenFile and a writer that truncates and then writes: AuthToken never returns `""` (`AuthTokenNonEmpty`), and every caller returns if the file ends up holding a token written before the initial read or while the watch was registered (`CallersReturnOnceWritten`). `NotifyOnChange` may fail. |
| `token_watch_gap` | `MCAuthTokenWatchGap.cfg` | violation | A token written after the initial `loadToken` and before `NotifyOnChange` registers the watch is never loaded, although the file keeps it (`FileChangesLoaded`, the comment "Load the token when those changes occur"). |
| `token_peek_race` | `MCAuthTokenPeek.cfg` | violation | `AuthTokenNonBlocking` returns `""` with a nil error when loadToken stores a truncated file between its checks and its return. |
| `token_short_lifetime` | `MCAuthTokenShort.cfg` | violation | With 50-second tokens, `TokenLoop` stores a token and fetches again without sleeping (`RefreshSleeps`, an action property). |
| `api_concurrent` | `MCServiceAPI.cfg` | pass | Two clients make any of the calls while instances exit and RPCs fail. `GetServiceState` reports "not found" only for a state that was not running throughout the call (`LookupComplete`). A created service has exactly the configured endpoints, local before remote (`EndpointsAsConfigured`, against the reference `IsConfigured`). Whichever RPC of `RemoveService` fails, no service is gone while its history remains (`NoOrphanHistory`). |
| `key_reset` | `MCKeyReset.cfg` | pass | Two processes run `key list` or `key reset` with every flag combination and every failure. Once the master has replaced a key, the new key is on the host or in the key file, unless the process printed a write error (`KeyDelivered`). |
| `host_record` | `MCHostRecord.cfg` | pass | A record `Build` returns carries the version and exactly the requested IP resources, or the host's own address (`BuiltHostComplete`). Refreshes never change identity, pool, address, port or IPs (`UpdateKeepsIdentity`). `Equals` tells a refreshed record from the old one exactly when the machine changed, whichever hardware field changed (`UpdateDetectsChange`). |

Every property of a passing run has a mutant in `PROJECT.json`. A mutant is a
plausible bug in the code that the property was shown to catch:

* `defer close(stop)` instead of the closure;
* an off-by-one in the stop loop;
* a drain loop that does not look at the children;
* a cancel that returns nil;
* no one-minute refresh margin;
* `if` instead of `for` around `cond.Wait`;
* `Signal` instead of `Broadcast`;
* `GetServiceState` reading every service's states at listing time;
* the endpoint index reset between the local and remote loops;
* `AssignIP` returning `addresses[0]` without the empty check;
* `--register` failure not falling back to the key file;
* `UpdateHostInfo` not copying the kernel release;
* `UpdateHostInfo` returning the fresh `currentHost` instead of the copy;
* `Build` without the default IP resource;
* `RemoveService` ignoring the error of `DeleteSnapshots`;
* `updateToken` returning without unlocking `cond.L`.

Two modules keep a `TypeOK`. In `AuthToken` it also states that `cond.L` is
held exactly between the two halves of `updateToken`, which an
`updateToken` that never unlocks breaks. In `ServiceAPI` it also states that
a successful `AssignIP` returns a string, which indexing an empty list of
assignments breaks.

## Findings

1. **host.go:106.** `RemoveHost` reads a missing `/hosts/<id>/instances` as
   an empty list at line 92. It then calls `ChildrenW` on the same path, which
   fails with `ErrNoNode`. A registered host whose instances node was never
   created therefore cannot be removed.
2. **host.go:62-67.** Spec 4.2 says `SyncHosts` removes an undesired host
   through the Host Remover, "not a raw delete". `SyncHosts` gives `zzk.Sync`
   nothing that could call `RemoveHost`, so the removal is a subtree delete,
   and an instance running on that host loses its node.
3. **token.go:137-140.** `WatchTokenFile` loads the file and only then
   registers `NotifyOnChange`. A token written in between raises no event
   and is never loaded; `AuthToken` callers block while the file holds it.
4. **token.go:73-81.** `AuthTokenNonBlocking` reads the cache without
   `cond.L` (a data race). It can return `""` with a nil error, which is
   neither a token nor the promised `ErrNotAuthenticated`.
5. **token.go:109.** `TokenLoop` computes `refresh` as the lifetime minus one
   minute. Nothing bounds the lifetime `TokenFunc` returns. For a token of a
   minute or less, `time.After` fires at once and the loop refetches back to
   back; the comment at line 93 promises a refresh "one minute before it is
   due to expire", which such a token cannot have.

An observation that no run asserts: `outputDelegateKey` (key.go:131-134)
prints the write error and then "Wrote delegate key file to" anyway. The
model keeps this, because it is what the code does. `KeyDelivered` covers
the part that matters: the key itself.

## Bounds and why they suffice

* **HostRemove.** Two hosts, three instances and two callers aimed at the same
  host. Two callers are the least number that can race on the delete and on
  each other's watches. Three instances let an instance exist that is placed,
  stopped and re-placed while the other two drain. A second host lets
  placements and watches go elsewhere. All faults are enabled. Cancellation is
  always possible. About 190k distinct states.
* **HostSync.** Two hosts, one instance and one call with desired list
  `{h1}`. The initial store is any subset of hosts, so creation, update and
  removal all happen, and the scheduler may place the instance on `h2`
  before the call deletes it. One call is enough for the violation.
* **AuthToken, loop mode.** Lifetimes of 70 s and 90 s against the
  one-minute margin, and a clock up to 120 s. This covers two refreshes, each
  racing waiting callers and a non-blocking reader.
* **AuthToken, file mode.** Two rewrites of the file, which cover the
  truncation window twice, a write before the watch is registered and an
  event that arrives while the feeder is busy. The initial file content may
  be empty or a token. The watch-gap run needs one write only.

* **ServiceAPI.** Two clients, one initial service, two ids for new
  services, three ports (two local, one remote, so both loops run and local
  ports come in two orders) and three state ids. Every call is possible for
  each client, so every pair of calls interleaves. About 125k distinct states.
* **KeyReset.** Two processes, each on its own host and key file, with every
  command and flag combination. A reset by each process is enough to check
  that the two do not disturb each other. Concurrent resets of one host are
  left out, because the command promises nothing about them.
* **HostRecord.** The arguments are the program name followed by at most
  two of eight tokens, 73 lists in all. The tokens cover:
  * `--config-file=F`, with and without quotes;
  * an empty value, and a bare flag at the end;
  * a flag followed by a value, and by another option;
  * quotes inside white space.

  The machine has two addresses, plus one address that is not its own, so
  every error of `Build` occurs. There are two pools, one of them blank,
  and two ports, one of them not numeric. The hardware is one machine and
  four variants of it, each differing in one field (cores, memory, kernel
  version, kernel release), so a field that `UpdateHostInfo` forgets to
  copy is noticed whichever it is. About 290k distinct states.

## Fairness

* **HostRemove.** Each RemoveHost call gets weak fairness: a Go goroutine that
  is enabled keeps running. Each agent's `InstanceExit` also gets weak
  fairness: an agent acts on a stop request. The scheduler and `Cancel` get
  none. Termination therefore depends only on the agents, which is what the
  code relies on, since the drain loop has no timeout.
* **HostSync.** None: its one run checks a safety property.
* **AuthToken.**
  * The feeder, the clock and the writer get weak fairness.
  * Each `AuthToken` caller gets strong fairness, because it contends for
    `cond.L` with `updateToken` and the Go mutex does not starve a waiter
    forever.
  * The non-blocking readers and the `CurrentIdentity` readers get weak
    fairness.

* **ServiceAPI and KeyReset.** Each client gets weak fairness, but no run
  checks liveness: every client makes one call and exits, and the runs
  disable deadlock checking for that reason.
* **HostRecord.** None. The agent is sequential, and the run has no
  liveness property. It disables deadlock checking because serviced exits
  after a failed `Build`.

## Not modelled

* **`zzk.Sync`, the coordinator client, `StopServiceInstance` and the
  scheduler.** These are not in this slice. Only the behaviour that
  host.go relies on is modelled, and it is marked `spec_modelled` in the map.
* **Version tokens of `HostNode` (`Version`/`SetVersion`).** Nodes are built
  fresh with a nil version. The optimistic-concurrency check belongs to the
  external store.
* **`ParseJWTIdentity`, `WaitForDelegateKeys` and `NotifyOnChange`.**
  These are outside the repository. The first is a constant function from
  tokens to identities. The second is taken to return at once. The third
  registers the watch, or fails, and afterwards delivers an event for each
  write.
* **A failed `ReadFile` in `loadToken`** (token.go 126-132). The code logs
  that it keeps watching and stores the empty data. No run asserts what it
  should do instead, because neither a comment nor the spec says the last
  good token must be kept.
* **`mastersinfo.go`.** It registers four stat details and a fetcher that
  returns an empty list. The mock fetcher builds its results from constant
  values through `GetStatDetail` and `ApplyThreshold`, which are outside
  the repository. There is no state.
* **Atomicity of an api call.** `AddService`, `RemoveService`,
  `UpdateService` and `StartService` report an error from their second RPC
  after the first one changed the master (service.go 180, 194, 220, 235).
  The model reaches these states, but nothing in the code or the spec says a
  call is atomic, so no run asserts it. What a run does check is that the
  order of `RemoveService`'s two RPCs makes its partial failure harmless
  (`NoOrphanHistory`).
* **`getServiceStateIDFromDocker` and the JSON decoding in
  `UpdateService`.** The first is Docker I/O; the decoded service is an input
  of the model.
* **`host.New` and printing `os.Args`.** The first returns the zero
  record; the second is output only.
* **The times and versions in `Equals`.** `Build` leaves `CreatedAt` and
  `UpdatedAt` zero, and the store (outside this repository) sets them.
  No record this repository builds differs in them, so equality at second
  resolution and the ignored `VersionedEntity` are not exercised.
* **The RPC client, `statsapi`, `cgroup`,
  `domain/user`, the mocks, the volume test helpers and the tests.** These are
  sequential request and response code or I/O, with no shared state.

## Plan

1. **Done:** `HostRemove` with its abstract spec and refinement,
   `HostSync` with its removal as the code can do it, `AuthToken` in both
   feeder modes with the watch registration, `ServiceAPI`, `KeyReset`,
   the short-lifetime run of `TokenLoop`, `DaemonConfig` and
   `HostRecord` (`getConfigs`, `Build`, `UpdateHostInfo`, `Equals`),
   `CurrentIdentity`, and the order of the two RPCs of `RemoveService`.
2. **Next:**
   * A liveness property for `TokenLoop` with fetch failures: a waiting
     caller returns once a fetch succeeds. Stating it faithfully needs a
     bound on how long a woken goroutine waits for `cond.L`.
   * The `SchedulePendingRemoval` race as an explicit run.
3. **Later:** `outputDelegateKey`'s file-or-stdout decision as an operator
   checked against a reference definition.
