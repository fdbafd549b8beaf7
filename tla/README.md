# A verification project for the Cloudflare development runtime

This directory holds TLA+ models of the stateful parts of `packages/cloudflare-runtime` and of
the dev server of `packages/cloudflare-vite-plugin`, TLC configurations that check them on small
instances, and proofs that TLAPS checks for every value of the parameters. Paths below are
relative to `packages/cloudflare-runtime/src/`, unless they begin with a package's name.
`PROJECT.json` maps every definition to the lines it models.

## 1. The system

The repository lets a developer run Cloudflare Workers locally. `cloudflare-runtime` starts the
`workerd` binary and provides, in Node and in *internal workers* that run beside the user's
worker, what the Cloudflare platform provides in production. Vite and rolldown plugins and
framework adapters sit on top of it.

| Component | State | Operations | Talks to | What is hard |
|---|---|---|---|---|
| Queue broker, `bindings/queue/QueueBroker.worker.ts` | backlog, pending flush, bytes, messages in timers and in `flush()` calls | `/message`, `/batch`, timers, consumer's answer, dead-letter POST | user worker, the DLQ's broker | several `flush()` calls of a queue overlap; timers outlive the variable that refers to them |
| Queue plugin, `bindings/queue/Queue.ts` | consumers, producers, the batch being pulled | validation, pull loop of a real queue | broker, Cloudflare API | at-least-once delivery, acknowledgements in bulk, every call may fail |
| Worker proxy, `proxy/WorkerProxy.worker.ts` | target, two request queues | user request, PUT and DELETE of the controller | user worker | requests in flight while the worker restarts |
| Ports, `internal/Port.ts`, `proxy/WorkerProxy.ts` | search lock, reservations, a cache per instance | `find`, `check`, `reserve`, bind with retries | OS, other processes | two runtimes look for a port at once; time passes between look and bind |
| Dev registry, `registry/Registry.ts` | a file per script, a snapshot per process | `write`, finalizer, heartbeat, refresh | other processes, only through files | no lock between processes; crashes; torn reads |
| Registry proxy, `registry/RegistryProxy*.ts` | a map of targets, baked and then pushed | configure, subscribe, push, resolve | registry, workers of other processes | the registry changes while a worker is configured and started |
| Key/value storage and blob store, `internal/shared.worker.ts` | SQLite table, blobs on disk | `put`, `get`, `delete`, `deleteAll`, `list` | disk service | table and blobs are changed in different steps; crash in between |
| R2 bucket, `bindings/r2-bucket/R2Bucket.worker.ts` | objects, uploads, parts, blobs, blobs in use | conditional `put`, `get`, `delete`, multipart calls, `list`, ranges | blob store | blobs are collected while they are streamed; conditions checked long after the value came |
| Stream, `bindings/stream/Stream.worker.ts` | videos, captions, downloads, watermarks, blobs | upload, generate, delete | blob store | replacing a caption takes several steps |
| Browser rendering, `bindings/browser/` | Chrome processes, sessions, sockets | acquire, connect, list, close | Chrome | events of processes and sockets reach two sides in any order |
| Remote bindings, `remote-bindings/` | a preview session, a prefetched one | request, deploy | Cloudflare | many requests find one session expired; deploys fail under a lock |
| Runtime, workerd, plugin context, containers: `Runtime.ts`, `workerd/Workerd.ts`, `PluginContext.ts`, `Docker.ts` | child processes, scopes, image tags, aliases, containers | start, retry, stop, exit hooks | workerd, Docker | a start fails or is interrupted anywhere; overlapping starts share an image |
| Platform proxy, `platform-proxy/` | stubs, requests in flight | `await`, `fetch` on a stub, dispose | a worker that evaluates | calls are lazy, nested and concurrent |
| Vite dev server, `cloudflare-vite-plugin/src/dev-*.ts`, `module-runner/` | runtime, hot channel, exports | detection, reports, restarts, close | module runner, Vite | edits and reports come while the runtime is replaced |
| D1, KV, Cache, Secrets, rate limits and other bindings, `bindings/*` | SQLite tables, counters | request handlers | storage | thin |

What makes each of the modelled components correct:

* **broker, pull loop**: every accepted message is in one place until it is acknowledged, dropped
  or lost, a backlog is never left without something that will flush it; a message pulled from
  a real queue is not acknowledged before the broker has it.
* **worker proxy**: every request is answered exactly once; a request that is not idempotent is
  never sent twice.
* **ports**: no port is given to two servers that search for one; every start of a server ends.
* **registry and its proxy**: snapshots follow the disk, an instance's own registration is visible
  to its process at once, a crashed one disappears; requests end up where the registry points.
* **stores** (key/value, R2, Stream): no row without its blob, no blob left behind except by a
  failure; listings are complete, ranges exact, conditional puts atomic.
* **browser**: no Chrome runs out of the reach of what kills it, until the shutdown; no session
  survives its Chrome.
* **remote bindings**: one refresh for all who wait; an expired session is retried.
* **runtime**: after a start's scope nothing it made is left, unless docker declines to take it
  away, and nothing else is taken away.
* **dev server**: one runtime, generated for the exports that the entry has.
* **platform proxy**: what a caller awaits is the whole expression, with its arguments.

## 2. The models

Every module is about one component; an action is the code between two points where something
else may run (an await, a timer, a file or socket operation). What an action leaves out of the
code is data: bodies, headers, formatting, wording.

| Module | Models | State ↔ code | Actions ↔ code |
|---|---|---|---|
| `QueueBroker` | the brokers of several queues | `messages`, `pendingFlush`, `backlogBytes` are the fields; `armed` says whether the timer in `pendingFlush` has still to fire, `orphans` counts running flush timers nothing refers to, `flights` are the `flush()` calls in progress, `delayed` the messages inside `setTimeout` | `PostMessage`, `PostBatch`, `DelayElapses` (`push`, `requeue`), `FlushTimerFires` / `OrphanTimerFires` (`flush` to its await), `ConsumerResponds` / `DispatchRejected` (the rest of `flush`), `DeadLetterArrives` / `DeadLetterFails` |
| `QueueDelivery` | what a queue promises, without timers, backlogs and flushes | place, home and attempts of a message | accept, deliver, answer, forward, lose |
| `QueuePull` | `pullLoop` of `Queue.ts` | `messages` and `acks` of the iteration; `visible`, `leased` are the real queue (external) | `Pull`, `PostAccepted`, `PostRefused`, `Ack`, `IterationFails`, `LeaseLapses` |
| `WorkerProxy` | the Durable Object in front of the user's worker | `target`, `requestQueue`, `retryRequestQueue` are the fields; `puts` are PUTs whose body is read, `inFlight` the fetches | `UserRequest`, `PutArrives`, `PutApplies`, `PutInvalid`, `Delete`, `FetchSucceeds`, `FetchFailsForGood`, `FetchFailsRetryable` |
| `PortAllocator` | `serve()` calls of several runtimes | `reserved` is `globalReservations`, `taken[i]` the cache of instance i (ports known to be unavailable), `lookup` the probes under way, `tasks` the calls; the lock is the stage of its holder | `Find`, `SearchBegins`, `SearchLooks`, `SearchGoesOn`, `FindEphemeral`, `CheckBegins`, `CheckEnds`, `LookupEnds`, `Binds`, `BindFails`, `Closes`, expiries, other programs |
| `Registry` | one script's file and the processes that use it | `file`, `stale` (its mtime), `registry[p]` is `ref`, `view[p]` a refresh in progress, `phase[i]` a `write` with its finalizer, `removals` the forked `fs.remove` calls | `OpenFile`, `WriteFile`, `UpdateSnapshot`, `Heartbeat`, `ReadBack`, `Unregister`, `Crash`, `GoesStale`; `RefreshBegin`, `Stat`, `Read`, `ReadTorn`, `RefreshEnd`, `DetachedRemove` |
| `RegistryTargets` | one target in the map of a registry proxy | `registered` is the registry's `SubscriptionRef`, `value` the map of the proxy's worker, `subscription` and `emitted` the stream, `pusher` its fiber, `resolved` a resolver's cache | `ConfigureWorker` (bakes the map), `StartSubscribed`, `Emit`, `PostArrives` / `PostFails`, `Resolve`, `RegistryChanges` |
| `KeyValueStorage` | table, blobs, operations in progress | `table` is `_mf_entries`, `blobs` the disk, `garbage` the queued background deletions, `puts` and `gets` the calls | `PutBegins` … `InsertFails`, `GetBegins` … `RangeFetched`, `Delete`, `DeleteAll`, `BlobDeleted`, `BlobDeleteFails`, `ListPage`, `Tick`, `Crash` |
| `R2Bucket` | the bucket's Durable Object | `objects`, `uploads`, `parts` are the tables, `disk` the blobs, `deletions` what `#backgroundDelete` was given, `writes` and `reads` the calls | `PutRequested` … `PutRefused`, `PartRequested` … `PartRefused`, `CreateMultipartUpload`, `CompleteMultipartUpload`, `AbortMultipartUpload`, `DeleteObjects`, `GetRequested` … `StreamEnds`, `BackgroundDeleted`, `BucketCrash` |
| `R2Listing` | `#list`, followed over its pages | `present` the keys, `pager` cursor and what was listed | `NextPage`, `KeyPut`, `KeyDeleted` |
| `R2Ranges` | how a range is read, cut and cut again at parts | `request`, `response` | `RangeRead`, `SliceSent`, `BodyEnds`; `HeaderRange`, `OptionRange`, `Slices` are the arithmetic |
| `StreamStore` | tables and blobs of `StreamObject` | `works` (videos and watermarks), `captionRows`, `downloads`, `streamBlobs`, `captions` the calls, `doomed` and `abandoned` the blobs whose rows are gone | `WorkBegins` … `DeleteWork`, `CaptionBegins` … `DeleteCaption`, deletions of blobs that succeed or fail (`DoomedDeleted`, `DoomedDeleteFails`, `OldBlobDeleted`, `OldBlobDeleteFails`), downloads, `StreamCrash` |
| `Browser` | a Chrome, its session and its connections, on both sides | `process`, `browserProcesses` (the Map of `Browser.ts`), `browser[s]` the fields of `BrowserSession`, `closing`, `connections`; `overtaken` records the launches under way at the shutdown | acquisition, `ExitEvent`, `LoopbackClose`, `Shutdown`, `SetSessionInfo`, the socket's events, `StatusCheck`, `GetSessionInfo`, connections, `CloseBrowser` |
| `RemoteSession` | `RemoteBindingProxy` and the prefetch | `session`, `prefetch`, `deployer` (inside `blockConcurrencyWhile`), `requests`; `refused` is the control plane | `RequestArrives`, `EnterLock`, `DeploySucceeds`, `DeployFails`, `ResponseArrives`, `PrefetchEnds`, `TokenRefused`, `RemoteTick` |
| `RuntimeStart` | `Runtime.start` with workerd, start hooks and a container | `stages`, `plugins`, `images` the phases of a start; `tags`, `containers` are Docker, `aliases` is `registeredImages`, `processes` the workerd of each attempt, `imageHooks` the exit hooks; `declined` records the starts for whose cleanup docker has not done all it was told | preparation, `Spawn`, `ConfigureEnds`, `ControlEnds`, `ProcessDies`, `ErrorEnds`, `HooksEnd`, `ScopeCloses`, `RemoveContainers`, `RemoveImageTag`, `ParentExits` |
| `DevServer` | one `configureServer` of the Vite plugin | `handle`, `address`, `exportTypes` are its variables, `queued` and `restart` the promise `applying`, `channel` the hot channel's socket, `runtimes` and `reports` the module runners | `FirstImport`, `HotUpdate`, `Deliver`, `Lost`, `DetectionTimesOut`, `DetectionApplied`, `RestartBegins`, `NewRuntime`, `RuntimeUp` / `RuntimeFails`, `Connected` / `ConnectFails`, `CloseServer`, `ServerClosed`, `Edit` |
| `PlatformProxy` | stubs of a binding, and the worker that evaluates them | `answer` is a stub's memo or one `fetch`, `evaluated` and `threw` the progress of `evaluateChain` | `Await`, `Fetch` (both `Send`), `Evaluate`, `Throws`, `Respond`, `Dispose`; `EncodeArg`, `DecodeArg` are the protocol |

`MC<module>` extends a module with the model values and functions its `.cfg` files use. The
modules with theorems extend the modules that they are about (section 4). Definitions whose
comment starts with "Mutant" are not part of a specification: they are plausible bugs that the properties are tried against.

Two MC modules are *sums*. `MCStorage` holds the five stores and `MCRequestPaths` ten parts that
requests, sessions and messages pass through. The parts of a sum share no state. A variable
(`store`, `path`) is chosen in the initial state and says which part a behaviour is about; the
others keep one initial state in which none of their fair actions is enabled. So a state of a
sum is a state of one part, its invariants say what they would say of each part alone, and a
temporal property of a resting part holds trivially. A sum checks many parts in one run, nothing
more: theorems `StoresDoNotMix` and `PathsDoNotMix` say so.

How the components interact, and what each model keeps of it: brokers forward to each other
(modelled: `DLQ` may form any graph without loops of length one); the pull loop posts to a
broker, of which `QueuePull` keeps the answer; the worker proxy is driven by the runtime's
restarts (modelled as any sequence of controller calls); the registry's processes share files
only, and `RegistryTargets` takes its `SubscriptionRef` as changing at any time; a server's port
comes from `PortAllocator`, and its workerd binds it later than the allocator looked; a dev
server's runtimes start or fail, which is `RuntimeStart` from the inside.

### Decisions worth knowing

* *Queue.* Calling `ensurePendingFlush` after each push of a batch is modelled as one call after
  the last (`AfterPushes`); theorem `OnePushAtATime` shows that this is the same. A message's
  bytes are one unit. Requests that fail validation change nothing and are left out.
* *Queue.* At the end of `flush()` the code forgets `pendingFlush`, whose timer may be running:
  a push during the await may have replaced the timer that fired. The model lets that orphan
  fire, which flushes early and concurrently, as the code does.
* *Proxy.* The retries are sent before the new requests, but all fetches run concurrently, so
  the order is not kept in the model.
* *Registry.* `writeFileString` opens (truncates) and then writes; a reader may see the torn
  file between the two. `JSON.parse` then throws inside `Effect.map`, which is a defect:
  `orElseSucceed` only recovers from failures, so the stream that refreshes the snapshot ends
  (`ReadTorn`). `ensureNonStale` and the read run concurrently and the first failure ends both.
* *Storage.* Between the `SELECT` of `get()` and the first await there is no gap; the blob is
  fetched in a later step. A blob is named by the put that wrote it, since ids are random.
* *R2.* A write's blob, ETag and version are named by the write. SQL is synchronous, so a
  transaction is one action, with what follows it up to the next await. A listing's page is one
  query; `GroupOf` is what it groups by. A byte of an object is its position.
* *Ports.* A probe takes time and may fail because another instance probes the same port. A
  reservation does not expire while its workerd is starting: this is the assumption the comment
  of `Port.ts` makes ("long enough for the winning workerd to establish its listener"). Probes
  that fail for environmental reasons end the program's search with a defect and are left out.
  A port of `find(0)` is any of the OS's that no program listens on. It is not reserved, only the
  cache of its instance has it; a server may ask for it or search it like any other.
* *Docker.* `run()` succeeds with whatever exit code docker ends with, and the cleanup does not
  look at it: each list, removal and untagging may be declined, and the finalizer goes on.
* *Remote bindings.* A deployment on demand is short compared with the ages of sessions; a
  prefetched one may wait in the plugin for any time.
* *Runtime.* Effects without asynchronous parts do not interleave: spawning up to the
  registration of its finalizer is one action, and so is the release of several such finalizers.
* *Dev server.* One environment, one `configureServer`: a restart of Vite's own server, which
  keeps `handle`, is left out.
* *Platform proxy.* A call is named by its place in the expression, since an expression that
  occurs twice is evaluated twice.

## 3. The runs

| Run | Asks | Result |
|---|---|---|
| `QueueBroker` | a queue and its dead-letter queue, three messages, two overlapping flushes per queue: conservation, acknowledgements, no stranded backlog, urgency of full batches; every message settles; refinement of `QueueDelivery` | holds |
| `RegistryLiveness` | two polling processes that may pause: visible in the end, crashed entries disappear | holds |
| `Storage` | entries: rows have blobs, nothing leaks, gets succeed, listings are complete; bucket: objects match parts, blobs in use are kept, no lost update, no leaks; R2 listings are complete, R2 ranges exact; Stream's tables match its blobs but for failures and crashes | holds |
| `RequestPaths` | proxy: one answer, no double POST; ports: no port given to two searches; registry: snapshots in sync, eager update survives; remote: one refresh, only refused tokens surface; browser: every Chrome can be killed, but for launches that a shutdown overtakes; runtime: cleanup is exact; dev server: one runtime serves; platform proxy: answers are complete; types of all of them and of the pull loop | holds |
| `PathsLiveness` | proxy: all but retries are answered; ports: every `serve()` ends; remote: requests end; browser: a session ends with its Chrome; pull: messages are kept until they are accepted, and every one arrives; targets: requests follow the registry; dev server: the runtime follows quiet edits | holds |
| `WorkerProxyRetry` | "Only GET and HEAD requests are retried automatically" | violated |
| `RegistryPolling` | "we fall back to polling every 100ms" | violated |
| `RegistryHandoff` | the finalizer removes only its own entry | violated |
| `PortStrict` | "makes allocation atomic across instances", with a strict check | violated |
| `BrowserAcquire` | "sessionInfo must be set before connecting" | violated |
| `DevServerEdits` | "this is how entrypoints added later get picked up" | violated |
| `PlatformArguments` | "Arguments may reference stubs of the same binding (e.g. `env.DB.batch([env.DB.prepare("...")])`)" | violated |

### Bounds, and why they are enough

Every bound is a CONSTANT with "bound" in its comment, or the size of a set.

* `QueueBroker`: three messages fill a batch of the work queue (size two) and begin the next, so
  that one batch is in flight while another waits; two slots per queue let two flushes overlap,
  which needs one orphan timer; more orphans only repeat this. The queues differ in batch size,
  timeout, retries and delays, so that both branches of every condition occur. `MaxOrphans` is
  never the reason a step is refused with these messages.
* Entries (`Storage`): a key must be replaced while it is read and while its replacement is being
  written: three puts. Two keys and pages of one make the listing take two pages, with a change
  in between. The clock has two instants, one before and one at the expiration.
* Bucket: two uploads let one complete or abort while the other still takes parts for the same
  key; three writes are two parts and a put, or three competing puts; one read with two parts has
  a part to send while everything else happens. One part is smaller, as only the last may be.
* R2 listing: four keys, of which two share a prefix, pages of one: the prefix is first in its
  page, last, and split by the limit. R2 ranges: up to three parts of two bytes and all numbers
  up to seven, beyond the largest object.
* Stream: three caption calls, so that two can overlap after a first one has stored a blob. Any
  deletion may fail, and a crash may come at any time.
* Proxy: four calls (three for liveness) suffice for PUT, DELETE, PUT with one PUT still being
  read; two targets make "the target has changed" possible, and reverting it.
* Ports: the retry limit and the search limit are two, so that both are reached; one foreign
  program can invalidate a probe, a cache entry or a granted port. One server leaves its port to
  the OS, which may give it a port that the others search, and later searches for one itself.
* Registry: two instances in one process and one in another cover replacement within a process
  and across processes; a forked removal may run late, after a replacement has written.
  Scripts do not interact except through the lock, which only removes interleavings. The two of
  one process are symmetric. `RegistryLiveness` has one instance per process and no symmetry.
* Remote: three requests, of which one deploys while one waits and one is refused; a session is
  too old after two instants, its token after three.
* Browser: connections of both kinds to one session; sessions share no state. Pull: three
  messages, batches of two, two faults, which lose an acknowledgement and its retry. Targets: four
  changes. Runtime: two overlapping starts, one with an environment, one retry each.
* Dev server: three edits (two for liveness), so that an edit comes while the restart for an
  earlier one is queued behind another.
* Platform proxy: expressions with a call on a call, an argument that is a chain, two arguments,
  a list, a foreign stub and a result that cannot be sent; two requests. Requests share nothing
  but the instance.

Symmetry is used in runs without temporal properties only (`StorageSymmetry`, `PathsSymmetry`).
`StorageInit` also orders the puts and captions that differ in nothing but their names.

### Fairness

* Queue: timers fire, and a consumer or a dead-letter POST ends one way or the other (workerd
  bounds a handler's run time). Nobody has to send.
* Pull: the loop goes on after errors (`Effect.forever`), calls end, leases lapse. The real queue
  hands out every message again and again until it is acknowledged: strong fairness on the pulls
  that contain it. Faults are bounded, so that not every post of a message fails.
* Proxy: bodies are read and fetches settle. Nobody has to call the controller.
* Registry: file operations end, a running heartbeat goes on, watch events and polls are acted
  on, an entry without heartbeats gets old. Weak fairness is enough, since every action stays
  enabled until it is taken or becomes pointless. Nobody has to register, close or crash.
* Ports: probes and fibers end; the permit of the semaphore goes to whoever waits for it, which
  is strong fairness because others may take it in between (the semaphore queues its waiters).
* Remote: deployments end, with or without success (their calls time out); who waits for
  `blockConcurrencyWhile` gets its turn, again strongly, since others may be first.
* Browser: `exit` and `close` events are delivered, fetches end, and the status check's timer
  fires. Chromes need not exit, and clients need not disconnect while their Chrome lives.
* Targets: the stream goes on, a POST ends, and users keep sending requests (`Resolve`).
* Dev server: restarts, reports and hot updates go on; a runtime comes up or fails; users keep
  requesting the runtime that serves, which makes its runner import the entry (`FirstImport`).
  Nobody has to edit or close.

### Deviations that the runs show

1. `WorkerProxyRetry` — a GET or HEAD whose fetch failed because the worker was replaced goes to
   `retryRequestQueue` (line 70 of `WorkerProxy.worker.ts`). If the fetch fails after the PUT of
   the new target, nothing processes that queue until another request or PUT comes.
2. `RegistryPolling` — a torn read kills the refresh fiber (see above); a single one suffices.
3. `RegistryHandoff` — the finalizer reads and then removes; a replacement in another process
   may write in between and is unregistered.
4. `PortStrict` — `check()` looks at the reservations, awaits a probe and then reserves, without
   the lock that the searches take.
5. `BrowserAcquire` — listing the sessions wipes the info of one that is still connecting to its
   Chrome (`Browser.worker.ts:254`); it is never listed again, and connecting to it throws.
6. `DevServerEdits` — an edit made while the runtime is being replaced reaches no module runner;
   the new runtime imports the new entry without a hot update, so it never reports its exports.
7. `PlatformArguments` — `encodeArg` recognises a stub that is an argument, but not one inside a
   list, which is encoded as an object without keys.

### Seen while modelling, without a run

*Queue and stores.* With `maxBatchSize` 0, which `QueueOptions.shared.ts:26` documents as valid,
`flush()` takes empty batches for ever and delivers nothing; queues that dead-letter to each
other with zero retries keep a message going round. A key is listed at the instant of its
expiration (`expiration >= now` in `list()`) although `get()` calls it expired (`<= now`). If the
metadata of a `put` rejects, its blob is not deleted, contrary to the comment of
`#backgroundDelete`; `NothingLeaks` names the exception. The stream of a multi-range `get` breaks
when the blob is deleted before all its ranges are fetched; `UndisturbedGetSucceeds` says that
this needs a change of the row. `BlobStore.put` does not look at the status of the disk's answer.

*Ports.* The port that `find(0)` returns (`Port.ts:193`, "unique by construction") is not reserved:
only the cache of its instance has it. Before its server binds it, `find(0)` may return it to
another, and a search may be given it: one of another instance, or of this one when the cache has
forgotten it, also the search of a server that could not bind its own port of the OS and goes on
with `find(port + 1)` (`WorkerProxy.ts:133`). So `DistinctPorts` is about the ports that were
searched for; `FromOs` names the others.

*Stream.* `deleteVideo`, `deleteCaption` and `deleteWatermark` delete the blobs when the rows are
gone. If the disk service refuses (`BlobStore.delete` throws then) or the process ends in between,
nobody deletes them later; replacing a caption deletes the old blob first, so that a failure
there leaves a row whose blob may be gone. `TablesMatchBlobs` names these (`abandoned`, and calls
that failed). A crash that had taken effect in part is a failed call followed by a crash.

*Registry.* A torn file that a crash left makes the first `readAll` die, and the registry with it.

*Browser.* "Kill any Chrome still running when the runtime shuts down" (`Browser.ts:64`) is not
true of a launch in flight at the shutdown: the finalizer has emptied `browserProcesses` when
`/browser/launch` adds the Chrome to it (line 101), and nobody reads the map again.
`EveryChromeCanBeKilled` accepts such a Chrome only if its launch was under way at the shutdown
(`overtaken`), and no other one.

*Runtime and Docker.* Of `ps`, `rm --force` and `rmi` the cleanup ignores the exit code, too
(`Docker.ts:228-248`, 373-399), and `Runtime.ts:143-150` then unregisters the exit hook: if docker
declines, the container or the tag is left for good, although a hook that could have tried again
was there. `CleanupIsExact` names these starts (`declined`).

`build` and `tag` ignore exit codes and `validate` compares untrimmed output
with `"0"` (`Docker.ts:297-366`); `--build-arg name=value` is passed as one element with a space
(307-309). An image that was built and then fails to validate, or whose start is interrupted
there, keeps its tag (`Runtime.ts:132-152`); containers of a prebuilt tag have neither finalizer
nor exit hook (124-128); a container that Docker is creating when workerd is killed may stay; exit
hooks remove containers but no tags. A failed attempt's workerd lives until the scope closes
(`Workerd.ts:112-142`). `PluginContext.make` mutates the plugin map that it inherits (116-120).

*Dev server.* `startServer` does not close the scope of a start that failed (`dev-server.ts:42-48`),
and a failed restart leaves `handle` and `address` at the runtime that was closed; closing the dev
server during a restart leaves the new runtime running (`dev-plugin.ts:33-38`, 167-179). An
upgrade whose handshake with workerd is in flight when the listener is removed is tracked only
afterwards (`websockets.ts:82-83`), by a set that nobody clears any more.

*Platform proxy.* Stubs are lazy, so `ctx.waitUntil(env.KV.put(...))` never sends the put. A stub
that was not awaited is evaluated again wherever it is used, so `newUniqueId()` gives other ids.
After an error the other arguments may go on being evaluated. Errors of `fetch` come back as
responses, and typed arrays other than `Uint8Array` as `Uint8Array`.

*Framework adapters.* `plantCloudflareContext` (`nextjs/src/DevServer.ts:128-142`) restores on
release what was planted before: of two dev servers in one process that close in the order they
started, the first leaves the second without a context, and the second plants that of the first
again, whose proxy is gone.
`framework-core/src/Collector.ts:176-181` takes a sibling `/app-lib` for a file inside `/app`.

## 4. The proofs

Every invariant that a passing run checks is also a theorem, for all values of the constants, and
so are the refinement of the queue and the action property of the pull loop; `DistinctPorts` and
`EagerUpdateSurvives` under the hypotheses that their rows name.

| Module | Theorem | Says |
|---|---|---|
| `QueueBrokerProofs` | `TypeCorrect`, `BacklogIsNeverStranded`, `FullBatchesAreUrgent` | the types and two invariants of run `QueueBroker`, for any queues, messages, sizes and delays |
| | `NothingLostOrDoubled`, `AcksAreFinal` | `Conservation`, `AckedNeverRedelivered` |
| | `BrokersImplementDelivery` | `ImplementsDelivery`: every step of the brokers is one of `QueueDelivery`, or a stutter |
| | `MetricIsExact`, `OnePushAtATime` | `backlogBytes` is the size of the backlog; the abstraction of a batch of pushes is exact |
| `ServingProofs` | `RequestsAreNeverForgotten`, `OnlyIdempotentIsRepeated` | the worker proxy's `OneHolderOrAnswer`, `NonIdempotentSentOnce` |
| | `ProxyTypeCorrect`, `WaitsOnlyForTarget` | its types; unsent requests wait only while there is no target |
| | `SearchesAreAtomic` | `DistinctPorts` while all servers `find()` their ports: none is given to two searches, at first or in a retry, whatever the OS hands out |
| | `GrantsAreReserved` | a port that a search was granted stays reserved until its server listens or fails |
| | `PortsTypeCorrect` | types, and only existing ports are probed, reserved and bound, with strict ports too |
| `RegistryProofs` | `SnapshotsAreInSync` | `SnapshotInSync` for any processes and registrations |
| | `RefreshesKeepTheUpdate` | `EagerUpdateSurvives`, while no process pauses (`~Suspends`) |
| | `RegistryTypeCorrect` | types |
| `KeyValueStorageProofs` | `EveryRowHasItsBlob`, `OnlyFailuresLeak`, `UndisturbedGets`, `AbortsAreInvisible` | the invariants of the entries; no row and no `get` refers to the blob of an aborted put |
| | `ListingsAreComplete` | `ListingIsComplete`, over any number of pages |
| | `StorageTypeCorrect` | types |
| `SimulatorProofs` | `PartsMakeTheObject`, `BlobsInUseAreKept`, `ConditionalPutsExclude`, `LeaksAreKnown` | the bucket's `ObjectsMatchParts`, `BlobsAreKept`, `NoLostUpdate`, `OnlyInvalidPutsLeak` |
| | `PageAfterPageIsComplete` | `PagesAreComplete`, for any keys, grouping and page size |
| | `RangedReadsAreExact` | `RangesAreExact`, for objects of any number of parts and any range |
| | `TablesAndBlobsAgree` | Stream's `TablesMatchBlobs` |
| | `BucketTypeCorrect`, `ListingTypeCorrect`, `StreamTypeCorrect` | types |
| | `StoresDoNotMix`, `StoresTypeCorrect`, `StoresHold` | a behaviour of `MCStorage` is one of every store; all that run `Storage` checks |
| `BindingProofs` | `RefreshesAreShared`, `OnlyEarlyRefusalsSurface` | the remote session's `SharedRefresh`, `SurfacesOnlyRefused` |
| | `NoChromeIsLeft` | `EveryChromeCanBeKilled` |
| | `AnswersMeanWhatTheySay` | `AnswersAreComplete`, for expressions of any shape and depth |
| | `PulledMessagesAreKept` | `KeptUntilAccepted`, an action property |
| | `PushedMapsAreCurrent` | `MapIsCurrent`: while nothing is being pushed, a running worker's proxy has the registry's target |
| | `RemoteTypeCorrect`, `BrowserTypeCorrect`, `PullTypeCorrect`, `TargetsTypeCorrect` | types |
| `LifecycleProofs` | `StartsCleanUp` | `CleanupIsExact`, for any number of overlapping starts and retries |
| | `RestartsLeaveOneRuntime` | `OneRuntimeServes`, for any edits and reports |
| | `StartTypeCorrect`, `DevTypeCorrect` | types |
| `RequestPathsProofs` | `PathsDoNotMix`, `PathsTypeCorrect`, `RequestPathsHold` | a behaviour of `MCRequestPaths` is one of its parts; all that run `RequestPaths` checks, if servers search for their ports and no process pauses |

The proofs rest on the named assumptions about the constants, which TLC evaluates in every run,
and on no other. Some are there for the proofs, and the code or the platform gives them: a page
has at least one key (`LimitAssumption`), a session's token lives for some time
(`AgesAssumption`), a chain is written by a finite program, so that stubs are well-founded
(`ArgsAssumption`), an R2 group contains its members' common prefix and sorts before them
(`ListedKeysAssumption`).

The inductive invariants, and why the properties need them:

* **Broker.** `IInv` ties `pendingFlush` to its timer: an unset one has no timer, and a
  set one without a timer means that a flush is dispatching, whose end looks at the backlog
  again. This is what makes `NoStrandedBacklog` inductive: when the timer fires, a flush starts;
  when the flush ends, it schedules the next. A full batch is urgent because every push runs
  `ensurePendingFlush` with the length it leaves, and only a flush makes the backlog shorter.
* **Conservation.** `PlacesInv` gives every accepted message one place: one position of one
  backlog, a delay, one position of one batch, a dead-letter POST, or an end. Steps are then
  moves between places; that the positions add up to one is counted once, from the invariant.
* **Refinement.** The abstract place of a message is a function of its concrete one. A POST is a
  step that accepts; a flush one that delivers a prefix; the end of a flush answers all of its
  messages at once; timers stutter. Each action is shown to be one of these, using `PlacesInv`
  before and after the step.
* **Worker proxy.** `ProxyInv` says that the two queues, the fetches and the answers
  partition the requests that came in, in terms of which a request has at most one fetch; and
  that `retryRequestQueue` holds idempotent requests only.
* **Ports.** The search that holds the lock is the only one with a lookup under way; therefore
  nobody comes to own the port it found unreserved and free before it reserves it. With
  `check()`, which takes no lock, this fails, and `PortStrict` shows that the property does. A
  server that left its port to the OS searches only in a retry, and then is one of them
  (`AttemptsInOrder`).
* **Registry.** `SnapshotInSync` speaks of the moment after a refresh; the invariant says of a
  refresh in progress what it has read, and that what it read is still on disk or an event is to
  come (`Views`, `Events`). For the eager update, a refresh that runs during a registration has
  read what the registration wrote, or began before and does not hold the lock (`Kept`).
* **Entries.** A blob has one owner: the put that is writing it, one row,
  the garbage, or nobody any more. A blob is collected only when its row goes, so no row's blob
  is garbage, and a `get` whose row still stands still has its blob. For the listing: what was
  reported lies behind the cursor, in order, and what is due lies behind it and was reported, or
  before it.
* **Bucket.** As above, a blob belongs to one write until a row names it, then to one row, then
  to a deletion, except while a read streams it. Parts are linked to an object as long as it is the one that
  their upload has become. For conditional puts: the row that a put has seen is older than the
  row that another put of the same target has written.
* **Pages and ranges.** A page ends at the last key of its last group, so a group is never
  split over a cursor. Of a read, the slices sent so far end where the next begins; that the
  bytes of the slices are consecutive is shown per part.
* **Stream.** Each row and each blob has its call: in progress, done, failed, overlapped or ended
  by a crash; and a blob that is being deleted, or whose deletion failed, never has a row again.
* **Remote session.** The session that a request found expired stays expired, the sessions are in
  order of their minting, and only the deployer replaces the one that is current: it looks again
  after it got the lock.
* **Browser, targets, platform proxy.** The property is inductive together with the types (for
  the targets, with what is still in the stream: its last element is the registry's; for the
  browser, with that no launch begins after the shutdown).
* **Starts.** Per start, the phase says which processes may live, which hooks are armed, and
  whether its tag and container exist; starts share images by tag only.
* **Dev server.** Of the runtimes at most one lives that is not being closed, and which one it is
  depends on the phase of the restart; exports follow the last report unless another restart is
  queued.

Only model-checked: liveness, which is out of the prover's reach together with ENABLED
(`EveryMessageSettles`, the properties of `RegistryLiveness`, and all of `PathsLiveness` but
`KeptUntilAccepted`). `DistinctPorts` and `EagerUpdateSurvives` are false without the hypotheses
of their theorems: `PortStrict` shows it for strict ports, and a process that pauses longer than
an entry takes to get old loses its entry.

## 5. What is not modelled

* Parts of modelled components: the authorization of the worker proxy's controller; what a debug
  port answers (`RegistryProxy.worker.ts` from line 86 on forwards one call at a time, without
  state); checksums, metadata and wire formats of R2 and Stream, and Stream's players and tokens;
  DevTools traffic; Docker's discovery and commands; the configuration that plugins contribute and
  `workerd` is given; the cache calls and result encodings of the platform proxy; a restart of
  Vite's own server, and several environments.
* KV and Cache simulators add request parsing and HTTP semantics to `KeyValueStorage`; D1 and
  Secrets serve each request in one SQL transaction; a rate limit is one counter per key, changed
  in one step; images, assets, hyperdrive, send-email, analytics, globals and dispatch
  namespaces translate requests. Models of these would restate assignments.
* Workflows bind to a vendored engine; `vendor/` is third-party code; the capnp configuration (a
  tenth of the code) is generated.
* The rolldown plugin, the other Vite plugins, the framework adapters and the tools transform and
  generate files at build time: sequential code over strings and file names, with nothing to
  interleave and no state that lasts. What little state they have is in the list above.

## 6. Plan

Done, in the order of importance: `QueueBroker` with `QueueDelivery`, `WorkerProxy`, `Registry`,
`KeyValueStorage`, `PortAllocator`; then `R2Bucket` with `R2Listing` and `R2Ranges`,
`RemoteSession`, `QueuePull`, `RegistryTargets`, `Browser`, `StreamStore`, `RuntimeStart`,
`DevServer`, `PlatformProxy`.

Proved since: every invariant of the passing runs, the refinement of `QueueDelivery`, the action
property of the pull loop, and that the sums are no more than their parts.

Left: what strict ports keep (`check()` against `check()` within one instance, and that a search
alone is never given a port that a check has reserved); that a `RuntimeStart` whose scope stays
open keeps what it has made; an abstract specification of the key/value store (a map with
expiry), which the entries implement. Liveness stays with TLC.
