# A verification of v9

v9 runs Node.js programs in a browser tab: a JavaScript implementation of the
Node API (`napi-bridge/`), a bridge between native code compiled to Wasm and
JavaScript values (`napi-bridge/index.js`), a shell and a terminal page
(`web/terminal.js`), and two ways out to the network, a Wisp tunnel over a
WebSocket (`napi-bridge/wisp-client.js`, `cmd/wisp-server-node/`,
`cmd/wisp-worker/`) and a TCP/IP stack in the tab (`napi-bridge/gvisor-net.js`)
behind a Go program (`pkg/v9net`). These TLA+ modules model the parts that keep
state across events: where a callback, a message, a microtask, a timer or
another tab may come between two steps, and where a unit test sees one order of
them; and the sequential algorithms (parser, filters, resolution, lexer) whose
inputs are too many to list.

Line numbers below are those of the files under `src/`.

## 1. Inventory

| Component | State | Operations | Talks to | Hard to get right |
|---|---|---|---|---|
| Wisp client (`wisp-client.js`) | streams by id, credit, one-chunk send queue | connectTcp, write, end, destroy, `_onMessage` | WebSocket; `Duplex` | a chunk may wait for credit while the stream closes; a listener that throws cuts a loop short |
| Wisp server session (`server.js`) | streams by id, pending connects, throttled chunks, janitor | handlePacket, `_handleConnect` (async), socket events, janitor | WebSocket, DNS, TCP | every event may come between the awaits of a connect |
| Wisp guard and admission (`guard.js`, `server.js`) | sessions of each address | tryAddSession, removeSession, checks, redirects of a fetch | Wisp server, HTTP proxy | one set shared by sockets and fetches, released on many paths |
| Wisp worker (`cmd/wisp-worker`) | streams by id, their sockets | as the server | Cloudflare sockets | closed streams stay counted; a connect that completes after the end |
| N-API bridge (`index.js`) | handle table, scopes, references, wraps, buffers, callback infos, deferreds, compiled functions | napi_* | native code | a slot that is free, listed and referenced at once; JavaScript that calls back |
| Module loading (`index.js`, `package-resolve.js`) | caches of require and import, resolution mode, stack of import directories | require, import, overwritten files | MEMFS, esbuild | variables set before an await and put back after it |
| Script runs (`index.js`) | process-wide console, process, Buffer; the native main() | executeViaBridgeAsync, eval, runFile, execute | terminal, loader | runs that overlap; a main() that suspends and is run again |
| child_process | process table, IPC channels | spawn, exec, fork, kill, send, disconnect, waitForChild | shell, microtasks | kill between the end of a command and its exit; messages before the module runs |
| Streams | Readable and Writable state, pipes, pipelines | push, pipe, unpipe, write, end, cork, destroy, callbacks | every I/O module | pause and drain crossing; end in the middle of a write |
| Events | arrays of listeners | on, once, removeListener, removeAllListeners, emit | all | changes from inside a listener |
| gVisor TCP (`gvisor-net.js`) | connections, listeners, retransmission, TIME_WAIT | connect, listen, segments, timers | WebSocket to v9net | FIN before data; a port used again |
| v9net (`pkg/v9net`) | one global server, forwards | Start, Stop, forward | gVisor, browser | goroutines of an old server that read the new one |
| net, tls | sessions of the Wasm TLS | connect, write, end, destroy | TCP stream, Wasm | few sessions, chunks cut anywhere |
| http client, http server | request and response state, registry of ports, relay | request, write, end, fallback of transports, listen, close | fetch, TCP, Wisp | a body in a queue, a buffer and a stream at once |
| Session persistence, runtime cache | IndexedDB stores, save in flight | save, restore, clear, put, evict | IndexedDB, terminal | one save is three transactions, and another tab may save in between; a put succeeds before it is committed |
| npm client | tree, cache | install, uninstall | registry, cache, MEMFS | failure in the middle of a tree; a limit of depth |
| MEMFS and fs | inodes, descriptors, journal | mutations, reads, replay | all | capacity ahead of size; a journal that must be enough |
| Shell | line, history, cwd, running works | keys, parser, commands | MEMFS, terminal | two current directories; quoting |
| Terminal page | boot stage, owner of keys, runs | boot, run, waiters | all | autorun, boot and callers racing |

async_hooks, worker_threads, readline, the remaining conversions of the Node API
surface, the Wasm boundary (JSPI), the documentation site, the extension, the
Android wrapper, and build, deployment and tests are not modelled (section 6).

What makes each correct, in one line: the tunnel never exceeds its credit,
never sends after a close, and leaves nobody waiting for a stream that is gone; a
handle names one value for as long as native code may use it; a child exits
once and says nothing once killed; a pipe keeps order, bounds its buffer and
finishes; a TCP stream delivers every byte once, in order; a request's body is
sent whole and once; a session that a shell starts from has its files; what a
name resolves to depends on who asks and on nothing else; a prompt means the
line has run. Where the code keeps less than that, the property names the exception
(sections 2 and 4).

## 2. Modules

Each module is parameterised by its bounds and knows nothing of the others,
except where *composes* is said.

| Module | Models | State and actions |
|---|---|---|
| `WispWire` | the WebSocket between the two ends of a tunnel | a sequence of packets each way; a send on a socket that is not open is nothing; what a dead end was sent is lost |
| `WispClient` | `WispConnection`, `WispStream` and the `Writable` under it | one action per listener, per branch of `_onMessage` and per call of the application |
| `WispServer` | `Session`, `Stream`, `_handleConnect` in its three parts | `phase[id]` is where the asynchronous connect is: anything may happen between two phases, the end of the session included |
| `WispTunnel` | *composes* both ends over the wire | a step of one end leaves the other alone; the properties |
| `WispPipe` | what a stream promises to a writer (abstract) | chunks arrive in order, once, without a hole; a prefix and a suffix may be lost |
| `WispAdmission` | sessions of an address, taken by WebSockets and by proxied fetches | one action per await of a fetch; every path that releases |
| `WispWorker` | the session on Cloudflare | connects that wait for the guard and for the socket; three tables (`streams`, sockets, what the client was told) |
| `NapiHandles` | handle table, scopes, callbacks, references, wraps with and without a reference, pending exception | native code is the environment, and uses what N-API says is alive |
| `NapiBuffers` | which bytes of Wasm memory belong to which ArrayBuffer | metadata kept by handle, two copies of a buffer |
| `NapiObjects` | properties: get, set, delete, define, freeze, call; statuses and exceptions | a stack of calls, since getters, setters and functions call native code |
| `NapiScripts` | the detector of ES modules, compiled functions and their import() | one token per step; the detector beside a lexer of JavaScript's strings, templates, comments and regular expressions |
| `NapiValues` | strings in two calls, in three encodings | a character is its number of bytes in each |
| `NapiEnv` | callback infos, environments, hooks, deferreds | a stack of calls between JavaScript and native code |
| `ModuleLoader` | require() and import() with their caches | a stack of synchronous loads; an import that waits for esbuild |
| `Resolution` | node_modules, exports, conditions; the two variables that say who asks | loads of three kinds (runs at once, waits, is bundled); import() by a body that runs and by code of a module that goes on or is called later |
| `ScriptRunner` | executeViaBridgeAsync, its globals and its imports | one action per await |
| `ScriptHost` | the synchronous entries and native main() | main() answers, throws, fails to start or suspends; output in its three stages |
| `Terminal` | boot, owner of the keys, runs and waiters | one action per await of the boot and of a run |
| `ChildProcess` | spawn, exec, fork and their microtasks | one microtask queue; callers act between any two microtasks, and kill while a command runs |
| `StreamPipe` | Readable in flowing mode, Writable, pipe | one action per call and per callback; deferred flow, `error`, `close` are microtasks |
| `StreamChain` | pipeline() and finished() over a Transform | the same streams with no limit near, errors and destroys at any point |
| `Emitter` | listeners of one event as calls run inside calls | a stack of emits and removals; arrays that are changed in place |
| `EventIterator` | `events.once` and `events.on`: a promise and an async iterator over an emitter, an AbortSignal | one action per emit, abort and call of next() or return() |
| `GvisorTcp` | the TCP of the tab, its sockets and servers, the WebSocket | segments in the order they are sent, on a wire that a closed WebSocket empties; a call of the stack is a function of one record (`State`), composed in the order of the code. The peer is external: a TCP that keeps to the protocol, late, silent, refusing, resetting or repeating itself |
| `V9Net` | Start, Stop, their goroutines, pages and forwards | a goroutine is a set of members that act later and read globals then |
| `TlsSocket` | TLS sockets over the slots of the Wasm module | records in two pieces, sessions taken and given back |
| `HttpClient` | a request over gVisor, Wisp or fetch, with fallbacks | the body in `_chunks`, in the `Writable` and in an upload stream |
| `HttpServer` | servers, registry of ports, relay, integrations | requests of three origins, answers later |
| `PageSession` | the tabs' boots, their saves in three transactions, the database they share with the cache | generations of files and of shell state; a put that succeeded and is not committed; versions of a database |
| `NpmInstall` | npm install and uninstall with its limit of depth, the cache of tarballs of two sizes | a stack of packages, one action per await |
| `MemFs` | inodes, descriptors, the journal and a replica that replays it | one action per system call, beside the bytes that POSIX gives each file |
| `FileCommands` | cp, mv, rm, mkdir, touch, tee, ln, find -delete ... | a command is one step on a tree of paths |
| `Shell` | a line of commands with their redirections, its works and directories | synchronous commands, works that end later |
| `ShellInput` | keys, history and nano | one action per key |
| `ShellParser` | tokenize, pipelines, commands, expansion | one action per turn of the tokenizer's loop |
| `TextFilters` | head, tail, sort, uniq, wc in a pipe; rg over files with context and limits | one action per command, on a text; for rg one per file, with a state of its own |
| `MC*` | instances | see section 3 |
| `*_proofs` | theorems | see section 5 |

### How states and actions correspond

**Wisp.** `cmap`/`smap` are the two `Map`s of streams, `cstream[id]` the fields of
a `WispStream`. The client's `_sendQueue` and the `Writable` buffer behind it
are one sequence `queue`: calling the callback of the chunk in `_sendQueue`
makes `Writable` hand over the next at once. `RecvContinue` is `_onCredit` with
the drain it ends in, and with `_final` if the drained stream had been ended.
`WsClosed` is the whole `close` listener, in the order of the Map, up to the first
stream whose `error` nobody hears. On the server `HandleConnect`, `Resolved`,
`Connected` and `ConnectFails` are the parts of `_handleConnect` between its
awaits; `SocketData` may put a chunk into `_throttle` (`waiting`), and
`ThrottleDone` sends whichever waiter wakes. `sent`, `got`, `accepted`,
`dropped` are histories, read by the properties only.

**N-API.** `free` and `scope` are bags, since the order in which freed slots are
used again does not matter, but that a slot may be in a list twice does. A
callback's temporary handle (`frames`) is made in whatever scope is open and
freed when the callback returns. `held` is a history: what native code
may use by N-API's rules. `Careful` limits native code to: one reference per
handle, references deleted rather than counted down to zero, a reference that
`napi_wrap` gave not deleted before the wrap, exceptions fetched before their
scope closes. Native code may ask `napi_wrap` for a reference or not. If not,
the handle of the wrap is freed with its scope and names another object later, and the
lookup by handle of `napi_unwrap` (2116) may meet it: `UnwrapIsOwn` says of whom it answers
truly then. The other N-API modules take a handle for its value.

**Sessions.** Each tab has its own page, memory and save in flight (`save[t]`), as
`_saveInFlight` is a variable of the module and not of the database. `tx` is the
transaction that IndexedDB runs: `Put` is a request that succeeded, which is all that
`_putSession` waits for; `Commit` and `Abort` are what becomes of it, later and whether or not the tab is
still there.

**Files.** `ideal` is what POSIX says a file's bytes are, worked out from the calls and
not from the implementation's array: an append extends the ideal bytes, a write with
`r+` keeps what is behind it. `apart` says where the code is known to differ.

**child_process, Streams.** A call's steps (emit, kill, `_emitExit`) are
functions of one state record, composed in the order of the code, so that a
microtask is one action however many of them it makes. `EmitData` is the whole
loop of `_emitData`, with the writes its `data` listeners make and the pauses they
ask for; `SinkDone` is the callback of `_write` with what follows it: the next
chunk or `_final`, and `drain`.

**Awaits.** Wherever the code awaits (a connect, a save, an import, an install, a
boot), the model has one action up to the await and one after it, and a variable
that says who waits where. What the code read before the await and uses after it
is kept in that variable, never read again.

**Algorithms.** The lexer, the parser, the filters, rg, the resolution and the
string calls are checked on every input within their bounds, against a definition
of the result that does not follow the code: `ShellParser` against what each
character of a line is by its quotes, `NapiScripts` against the grammar of strings, templates, comments and regular expressions,
`TextFilters` against positions in the text, `Resolution` against
the nearest directory and the conditions of whoever asked. The difference
between the code and such a definition, where there is one, is named in the property
(`reentered`, `disturbed`, `cut`, `astray`, `apart`): a history variable that is true once
the code has left the domain in which it promises the result, with a comment on
what the code does there.

## 3. Runs

Every `pass` run is exhaustive. Deadlock is not checked: in each model the
environment may stop (every stream closed, every child gone, no slot left).

| Run | Root module | States | Shows |
|---|---|---|---|
| `tunnel` | `WispTunnel` | 207,336 | `TypeOK`, `CreditCap`, `CloseIsPending`, `CloseIsLast`, `EveryHolderIsTold`; under fairness `ConnectIsAnswered`, `CloseIsLearnt`, `OrphansAreReaped`; `ImplementsPipe`: the tunnel implements `WispPipe` |
| `network` | `MCNetwork` | 1,564,018 | `OpenIsReachable`, `NothingIsLost` (of TCP, the worker and v9net), `SynOfOneIsAnswered` (liveness), `BodyIsExact`, `RoutesAreTrue`, `GuardIsKept`, `SocketsAreKept` |
| `page` | `MCPage` | 1,513,142 | `HandlesKeepTheirValue`, `StrongReferencesResolve`, `UnwrapIsOwn`, `PendingExceptionIsKept`, `NapiIsTrue`, `ShellNeedsItsFiles`, `NpmIsTrue`, `FilesAreTrue`, `ModulesAreTrue`, `RunsAreClean`, `EventsAreTrue` |
| `local` | `MCLocal` | 500,923 | `ChildrenEndOnce`, `WaitersAgree`, `MessagesFollowTheModule`, `MessagesInOrder`, `EveryChildCloses` (liveness), `PipeInOrder`, `DrainIsComing`, `PipeFinishes` (liveness), `ShellIsTrue`, `CommandsAreTrue` |
| `early_data`, `credit_stall` | `WispTunnel` | violation | section 4 |
| `gvisor_timeout` | `MCNetwork` | violation | section 4 |
| `napi_callback`, `db_version` | `MCPage` | violation | section 4 |
| `shell_cd`, `child_kill`, `stream_bytes` | `MCLocal` | violation | section 4 |

### Several components in one run

`MCPage`, `MCLocal` and `MCNetwork` put together components that share no state.
`part` is chosen in the first state from `Instances` and never changes; the other parts keep their
initial state, so the states of the run are the sum of those of the parts, not
their product, and each part is checked as if alone. `MCNetwork` extends `GvisorTcp`, `HttpClient`,
`HttpServer`, `WispAdmission` and `TlsSocket`, `MCLocal` extends `ChildProcess` and
`StreamPipe`, and `MCPage` extends `NapiHandles` and `PageSession`: the constants of these are in the
cfg, and their theorems are about the definitions the run checks. The others are
`INSTANCE`s, those of the shell and its keys with the bounds of the cfg, the rest with bounds
written in the module. `tunnel` checks `MixedSpec` of `WispTunnel`, which needs no module of its own. A property of such a run that
has several conjuncts is a conjunction of the properties of the modules it
names, each under its `part`: `FilesAreTrue` is `ReplayAgrees` and `ContentIsExact` of
`MemFs` and `ExitIsTrue` and `NothingElseChanges` of `FileCommands`. In `PROJECT.json` each
conjunct has a mutant of its own. `page` has a `VIEW` (the part and its variables) and the symmetry of
two values of handles that no action tells apart; it checks no liveness.

### Why these bounds

*Tunnel* (`MaxId` 2, `MaxUp` 3, `MaxDown` 2, credit 1, limit 1, throttled).
Streams share the WebSocket, the id counter and the limit and nothing else, so
`OneMatter` keeps the run to two shapes: one stream with data, and two streams
that carry none, where the limit and the `close` listener's way through the Map
matter. Three chunks on one slot of credit make a chunk leave at once, one released by the
CONTINUE, and one that waits behind it when the stream is ended. Two chunks
down are the least that can be reordered; with a bandwidth cap they are, and no
order is claimed for them.

*N-API.* Three slots let one be shared, one be re-used and one stay; two values
are what it takes to confuse them. Three calls, two of them in each other, let a
call return into one that was already answered. Sources of eight tokens hold a string,
a comment or a pair of braces in an expression of a template, a regular expression with a slash or a quote
in it, and a keyword behind each of these. The reference reads on until
the detector meets something that it takes wrongly (`Misread`), a template in a template's expression
for one, and no verdict is claimed from there on.

*Child and pipe.* Children share only the microtask queue. Two messages each way
are the least that can be reordered. Three chunks with a high-water mark of 2
give a chunk in flight, one queued behind it and a writer told to wait; two
pipes give an unpipe and a re-pipe in the middle. `ChunkBytes` is the size of a chunk in
bytes where its length in UTF-16 units is 1: 1 for ASCII, 2 in `stream_bytes` only.

*Network.* TCP twice: two connections that take the one ephemeral port after each other, once a
reset, a close or the timer of TIME_WAIT gives it up, each with a segment of data and a
retransmission; and one connection
with a write, a server and a segment that the peer repeats, with room for two
on the wire. What two connections can do to each other they do over the port's key, and
the two of them are enough for it; what repetition does to data, one shows. (Two connections with a segment each way and two on the wire, 19.5 million states, were checked
once, and are too many for a run.) Four
chunks of a body where the `Writable` holds one and the upload stream two: sent, streamed, buffered and refused.
Two servers, two ports and two relay sockets, so that one may displace the
other. Two sockets and a fetch with two redirects where an address has room for
one. Three CONNECTs where two streams may be. Two TLS sockets for one slot. Two
starts at two addresses with two pages that ask for the same port.

*Page.* Two tabs, two pages and two saves: in one tab after each other, in two at once, and with a page
that is closed and opened in between. One edit makes the files or the shell's state
of the second save other than the first's; the property compares saves, so that more
edits add nothing to it. A cycle and a diamond of three
packages with a limit of depth of 1 (10 in the code), so that both have packages first met at the limit; a
cache of one tarball, of which one does not fit. A tree of four inodes; two descriptors on one file. A
CommonJS and an ES module, three loads. Two runs with two imports. Packages in three
directories of five kinds. Two listeners added twice under three nested emits. Three streams in a pipeline, two chunks.

*Local.* Lines of four characters, lists of three tokens, texts of three lines
through three filters, two files of three lines with and without context, lines of two keys and a history of two.

### Fairness

`WispTunnel!Fairness`: WebSocket messages are dispatched on both ends; a name
resolution or a TCP connection ends, in success or failure (both have
time-outs); the janitor's interval closes a stream that has outlived its
lifetime (`server.js` 328-340). Callers, destinations and the network owe
nothing. `MCLocal`: the event loop runs microtasks until none is left;
a destination calls back from `_write` and `_final`, with an error or not; who
corks uncorks. Nothing is assumed of callers or of the source.
`MCNetwork!Spec` (for `SynOfOneIsAnswered`): the retransmission timer of a segment
that is not answered fires (a `setTimeout` that only an answer clears). `FairSpec`, for
`gvisor_timeout` only, adds that the 10 s timer of a WebSocket that does not open
fires and that a name is resolved or fails: with all of this `connect()` still may not end.

## 4. Where the code differs from what it says

Shown by a run:

- `early_data`: the client may send within the announced credit
  (`wisp-client.js` 51-55); the server drops DATA for a stream whose upstream is
  not connected yet (`server.js` 232).
- `credit_stall`: at zero the client "must wait for a CONTINUE"; the server sends
  one per stream (`server.js` 310) and no other.
- `napi_callback`: handles of a callback are freed when it returns
  (`index.js` 748) and again when the scope that listed them closes.
- `child_kill`: "kill() prevents all further ... exit emission"
  (`child-process.js` 8), yet an exit already decided is emitted with
  the command's code (250).
- `stream_bytes`: `write()` counts bytes (`streams.js` 472), the callback takes
  UTF-16 units off (579).
- `gvisor_timeout`: the timer that is to "fire error instead of hanging forever"
  (`gvisor-net.js` 230) logs a line; the socket waits (`ConnectOfOneIsAnswered`).
- `db_version`: the package cache and the session open one database with
  versions 1 and 2 (`runtime-cache.js` 87, `session-persistence.js` 34): once a
  session has been kept, the cache is refused.
- `shell_cd`: `cd` holds for its line only (`shell-commands.js` 716, `shell.js`
  102; `tests/e2e/test-shell-npm.mjs` 268 expects more).

Seen while modelling, with no run of their own. Each is in the model as the code
has it; a property that would break names it in its comment.

- *Wisp.* The limit of streams is tested before the awaits and counted after them
  (`server.js` 263); a connect that completes after its session has closed (302)
  leaves a socket no janitor reaps; the upstream's `end` closes the stream while
  throttled chunks wait; waiters of `_throttle` (203) wake in any order. A
  redirect keeps neither method nor body, 307 and 308 included (613). On the
  worker closed streams stay counted (`worker.js` 143, 244) and a connect that
  completes after the WebSocket has closed leaves its socket open (274).
- *N-API.* In a template's expression the detector of modules takes the start of a template for the end
  of this one, and `import.meta` for an import; it knows no regular expressions, so that a
  quote, a slash pair or a keyword in one counts; a property called `import` or `export`
  and `import ()` with a space make a module; and a comment that ends behind a backslash does not end
  (`index.js` 2818-2957, which says it is a "production-grade lexer": `Misread`). An object with no wrap whose handle had
  been another's, wrapped without a reference, unwraps to the other's pointer (2116: `UnwrapIsOwn`). When a
  callback throws with scopes open, one is closed and the others stay (377-386: `leaked`). A handle whose scope closed while it was referenced is never free
  again (2491); the root scope's list grows with every handle (228); adding a
  finalizer resets a reference's count (2200); a type tag may be overwritten
  (2534); finalizers and cleanup hooks never run (2184, 2503). The object that
  `classifySetFailure` (1528) and `detectESMSource` (~3023) are looked up on does
  not have them. `napi_create_buffer_copy` takes the memory before it allocates
  (1173). Latin-1 is written as UTF-8 (1057). A rejected import leaves an exception
  pending (378). `napi_get_cb_info` leaves `argv` beyond the arguments as it was
  (946). Methods of `napi_define_properties` are called with other arguments than
  functions (2003). Native exceptions do not reach the JavaScript caller (741).
- *Script runs.* `executeScript` answers before the script has run (4849); a
  suspended main() and the fallback both run the script (4560), while `invokeMain` has freed its `argv` (4100);
  overlapping runs leave each other's globals behind, and `executeCliAsync` reads
  `argv` after an await (4525); a character split over two chunks of stdout (3294).
- *Module loading.* An `import()` in a function that is called when its module's body does not run, or that goes on
  after an await, starts from the directory of the body that runs, or of the script (3428, 3515:
  `ResolvedFromHome`). The import directory's stack and the resolution mode are put
  back after awaits in whatever order those end (3465, 3515, 3473, 4348), and a
  run resets the stack (4417); `require.resolve` takes the mode it finds (3744);
  the root's `node_modules` is not searched from below (3625); a bare import
  prefers `module` where the import of a directory prefers `index.js` (3602,
  3662). Writing through a descriptor, and renaming a directory, evict nothing
  from the caches.
- *child_process.* A command or module that throws, with no `error` listener,
  never exits (401); a throwing callback of `exec` is called twice;
  `disconnect()` drops the channel without closing it, so a `message` may follow
  `disconnect`; kill() after an exit overwrites `exitCode` and `signalCode`; a
  forked module's `process.exit` is the parent's; asynchronous results (`_async`)
  are not waited for (~388).
- *Streams and events.* With two destinations any `drain` resumes the source
  (173) and the slower buffer is not bounded; a write from inside a write's
  callback overtakes the buffer (587); a failed write leaves the queue for good
  (583); a destroyed destination may leave its source paused; a pipe() after `end`
  never ends its destination; pipeline's callback may follow its own success; the
  async iterator drops chunks (331-363); `promises.pipeline` drops its last argument (929). A `once`
  listener runs twice under an emit from inside itself (`eventemitter.js` 74);
  removal takes out of the table an array it no longer holds (119). The iterator
  of `events.on` is to "Reject any remaining pending consumers" (329) when it returns and
  answers them with a value `{done: true}` that is not the end; an error is
  told to the first `next()` that waits and again to the next one that comes (307).
- *gVisor, v9net.* SYN_RCVD ignores payload and FIN (416-426), data is never sent
  again (545), `end()` before the connection is lost (623, 687), a second listener
  on a port replaces the first (827). A late goroutine closes the next server
  (`v9net.go` 176), ports stay open after Stop (183), two pages share a forward (140).
- *TLS, net.* `_emitError` keeps its session (283), destroy during the Wasm's load
  opens one (97), a parked write's callback is never called (219), a chunk over
  16384 bytes is written again and again (227), a full ring drops what arrives (135). A
  `net.Socket` over Wisp forgets `end()` before it is connected (`net-stubs.js` 391).
- *http.* `end()` overtakes writes that wait (900-912), `flushHeaders` after a
  write loses the buffer (627), a connection that ends before the head answers
  nothing (764-773), a fallback sends the request again (`transport-policy.mjs` ~410); a
  body of a TCP request beyond its first segments is dropped (~1280); closing a server
  that was displaced unregisters the newer one (1397).
- *Session, npm.* A tab waits for its own save only (`session-persistence.js` 178), and a put counts when
  its request succeeds, before its transaction commits (91-95): after saves of two
  tabs that overlap, or an abort for want of space, the shell kept may be newer than the
  files (`ShellNeedsItsFiles` names both). Dependencies of a package first met at depth 10 are
  dropped, and not followed either when the package is met nearer (`npm.js` 389: `TreeIsComplete`); a tarball larger than
  the cache empties it and is stored all the same (`runtime-cache.js` 194-204). A boot of the Wasm module replaces the file system that was
  restored (`index.js` 3282); a forced save returns the stale one in flight
  (`session-persistence.js` 179); an interrupted install is never repaired
  (`npm.js` ~315); overlapping puts exceed the cache's cap.
- *MEMFS, shell, terminal.* A descriptor that made its array grow leaves zeros behind the bytes, after `close()` too
  (`memfs.js` 546: "On close: trim content"), an append puts its bytes behind those zeros, and `r+`
  through `writeFileSync` cuts the file to what was written (`fs.js` 214: `ContentIsExact`). With `> file` the prompt does not
  wait for a command's work, nor does the editor open (`shell-parser.js` 389, 360: `PromptMeansDone`). Capacity may be behind the size after a shared write
  (`memfs.js` ~516); a directory may be renamed into its own subtree (~431);
  `getJournalSince(0)` after a truncation misses what was cut off (219). `mv` onto a
  directory replaces it (`shell-commands.js` 514); `tail -n 0` prints all (390);
  `rg -m` counts over all files (961); the first pattern of .gitignore wins
  (~911); `grep -v` prints one line too many (~239); `xxd -c 0` does not end. In the parser `2>&` at the end of a line does
  not end (102, 131), `'a'b` is two words (66-84), and a redirection takes an
  operator for its file (200); redirections follow `process.cwd()` (28); only the last
  command's asynchronous work is waited for; Tab calls a function that is not
  there (`shell.js` 477). In the terminal, a failing Wasm with autorun leaves nobody the keys
  (530), a bundle that calls `process.exit` is evaluated twice (237), and a waiter may poll the
  state of the next run (239, 266).

## 5. Proofs

Everything below holds for every value of the constants that satisfies the
named assumptions of the modules, which TLC evaluates in the runs
(`WireAssumption`, `ServerAssumption` of `WispServer` and of `HttpServer`,
`ListenAssumption`, `GuardAssumption`, `SocketAssumption`, `ClientAssumption`, `TcpAssumption`,
`ChildAssumption`, `PipeAssumption`, `HandlesAssumption`, `SessionAssumption`:
bounds are numbers, names are distinct), or of a theorem that states its own.
`Local_proofs`, `Network_proofs` and `Page_proofs` are about the modules that `MCLocal`,
`MCNetwork` and `MCPage` extend, `Runtime_proofs` and `Napi_proofs` about those that `MCPage` takes
instances of, `Shell_proofs` about two instances of `MCLocal`.

Each safety property below is a conjunct or a consequence of an inductive
invariant; the module of the proofs has one lemma for each action, or for each
step that actions are composed of, and the theorems at its end.

**WispTunnel_proofs.** The two ends of the tunnel and its wire.

- `TypeCorrect`: `TypeOK` is inductive by itself.
- `CreditBounded` (`CreditCap`): a stream never carries more than its initial
  credit and one grant. The cap alone is not inductive: a CONTINUE *sets* the
  client's count rather than adding to it, so one must know that there is at most
  one per stream. `CreditInv` is the chain behind it: a CONNECT is on the wire at
  most once and is handled once, hence a stream connects once, hence one CONTINUE
  is sent, and what was sent plus what may be sent stays within the initial
  credit until that CONTINUE has been handled, and within one grant more afterwards.
- `CloseComesLast` (`CloseIsLast`) and `CloseComes` (`CloseIsPending`) from
  `CloseInv`: a CLOSE on its way to the server belongs to a stream the client has
  closed and taken out of its Map, so that nothing is sent for it any more; one
  on its way to the client belongs to a stream whose phase is over; an id that is
  yet to be given out has nothing on the wire. The two need each other: a CLOSE is
  pending because a phase ends only in a step that sends it, and nothing follows
  it because the phase is over.
- `HoldersAreTold` (`EveryHolderIsTold`, as long as every caller listens for
  errors) from `HolderInv`, which holds without that hypothesis: a stream that
  was not told when the WebSocket closed comes, in the Map, after one whose
  caller does not listen.
- `TunnelImplementsPipe` (`ImplementsPipe`): each step of the tunnel is a step
  of the abstract `WispPipe` or a stutter of it. `PipeInv` numbers the chunks of a
  stream through the queue, the wire and the server without a gap as long as both
  ends are open, and says that what is lost at the client's end is followed by
  nothing; without it the next chunk that is handed to the destination could not be shown
  to be the next one written.

**Local_proofs, children.** `ChildTyped`: `TypeOK`, from one typing lemma for each
composed step.

- `MessagesFollow` (`MessagesFollowTheModule`): a message never overtakes the
  module it is for. `MessageInv` adds that only forks have channels and that the
  module's microtask is queued until the module has run or was cancelled. Its
  core is `Forward`: whatever a step does that keeps kinds, never takes `ready`
  or `cancelled` back, and queues no message to a module keeps the invariant; every
  composed step is shown to be of that sort (`Onward`), and `Start` and `Send` are
  the two that are not.
- `ChildrenEnd` (`ChildrenEndOnce`: `LifeCycle`, by `ExitsOnce`, and
  `KillStopsOutput`, by `QuietAfterKill`) and `WaitersLearnTheExit`
  (`WaitersAgree`). `LifeInv` follows the end of a child through its four places:
  decided (`exited` and the process table, `Settled`), queued, seen, closed.
  `Queued` says that each microtask of a child is in the queue once, that 'close'
  is queued only after 'exit' was seen, and that what is queued reports what is in
  the table; `Past` says the same of the events, with their order. None is inductive without
  the others: an exit is seen once because it was queued once, because it was
  decided once; output stops at the exit because the microtask that writes is run
  once, and is not queued any more when the exit is decided by anything but a
  kill. A call composes many steps (kill, output, error, exit, callback), so the
  proof goes over them with one predicate, `Good`, that each keeps; `BecomesLife`
  turns a good composed step into a step of the specification.
- `MessagesComeInOrder` (`MessagesInOrder`) from `OrderInv`: both ways, the
  numbers on their way rise up to the number sent, and lie above what has arrived.

**Page_proofs.** `HandlesTyped` holds whatever native code does.
`HandlesSound`, `ReferencesSound`, `ExceptionSound` and `UnwrapSound` assume
`Discipline`: careful native code, called back only from the root scope
(`CallbackDepths \subseteq {1}`); `napi_callback` shows the second to be needed. The discipline
lets native code wrap objects without a reference, whose slots are freed and used again.
They follow from one invariant, `IInv`: a slot is free at most once
(`FreeInv`); every use of a slot - held by native code, listed by an inner
scope, by a running callback, referenced, wrapped, pending - is not free
and is disjoint from the other uses where the code relies on that (`HeldInv`, `ScopeInv`,
`FrameInv`, `RefInv`, `WrapInv`, `AnchorInv`, `PendingInv`). `AnchorInv` is what a wrap with a
reference has and one without has not: its handle stands for the object that was wrapped. None of the parts is inductive
without the others: closing a scope frees what it lists, so it must list nothing
that anybody else uses.

`SessionIsKept` (`ShellNeedsItsFiles`), of `PageSession`, for any number of tabs, from
`SessionIInv`: a save in flight is the last that was started, or another tab's save or clear ran beside
it (`Flights`); one that has only the shell's state left to put has its files in the store or in the
transaction that is to commit, unless they were lost (`FilesFirst`); and a shell's state, stored or on
its way, is not newer than the files, nor than a save in flight, but for those two exceptions (`Order`). So the
three transactions of a save need not be one as long as no other tab saves beside it and the
transaction of the files commits.

**Network_proofs.** One section for each component.

- `GuardHolds` (`GuardIsKept`), from `BudgetHolds` and `HopsAreChecked`, assumes
  `Limits`: the limits are numbers, and a WebSocket is not a fetch. `PlacesInv`: the
  places of an address are exactly its holders, a finite set no larger than the
  limit; both paths into it test the limit and take the place in one step, and each
  path out gives back a place it holds. `HopInv` counts the hops a fetch was cleared
  for against those it made; `EveryHopIsChecked`, which speaks of one point of the
  loop only, is not inductive by itself.
- `RoutesStayTrue` (`RoutesAreTrue`: `RegistryIsTrue` and `AnswersGoHome`), of
  `HttpServer`, from `ServerIInv`: the WebSockets to the relay are numbered as they
  are opened (`RelaysInOrder`); a server that listens has a port, and as long as it has
  listened once one WebSocket, its own (`ServerOf`); a request that is answered is
  over, and came by a WebSocket of its server (`RequestOf`).
- `SocketsStayKept` (`SocketsAreKept`), of `TlsSocket`, from `TlsIInv`: sessions
  of two sockets are apart, which needs that a new session is one that nobody has;
  the stage a socket is in says what it may hold (`StageOf`); what has arrived is
  what is in the ring and twice what was read (`ReadOf`); nothing is written before the
  handshake is over, and a parked write goes first (`WrittenOf`).
- `BodiesAreExact` (`BodyIsExact`), of `HttpClient`, from `ClientIInv`. A chunk is
  its number, and a *run* is a sequence of consecutive ones. A body that streams
  is, end to end, three runs: what the peer has, what the upload stream holds and
  what waits in the `Writable` (`Streamed`); a body that does not is one, kept
  whole until its transport has taken it (`Collected`). Each step moves chunks
  from the head of one to the end of the next: `RefilledInOrder` is the lemma for the
  one that moves as many as there is room for, which is why nothing can wait
  that no callback is due for. `PhaseInv` keeps the two cases apart: a
  fallback sends a body again only where nothing streams.
- `OpensAreReached` (`OpenIsReachable`) and `StacksAreTyped`, of `GvisorTcp`, from
  `TcpIInv`: what the table names has that port (`TableOK`); a connection that is
  open, or whose SYN waits for the WebSocket, is under its key, or an earlier one of
  that key has a timer of TIME_WAIT that has fired (`ConnOK`). The timer starts in
  TIME_WAIT only and nothing stops it, not even `destroy()`: so it may outlive
  the connection, and is then the one thing that can take a key from another. A segment
  goes through many operators (take the data, acknowledge it, tell the socket, which
  may close): each is shown to leave its connection open on its port and the others
  alone (`Lives`, `Keeps`), or to close it after that (`Goes`), and `GoesIsOK` brings
  this back to the invariant. `_flush` is followed like `_emitData` below.

**Local_proofs, pipes.** `PipesAreTyped`, `PipesDeliver` (`PipeInOrder`), and
`DrainsCome` (`DrainIsComing`) under `Alone`: one destination, chunks as long in
bytes as in UTF-16 units, a high-water mark above zero. A call of the code goes through several
operators, and `_emitData` is a loop that writes, pauses and may end within itself,
so that the invariant is one of the state these operators pass on (`PipeOK`), not
of the variables only. `Sound` says that the source holds the last chunks it
was given (`SourceOK`), that a destination finishes last and that what it holds
weighs no more than its `length` (`SinkOK`), and that what it was given, what it
missed while unpiped and what the source still holds are all of them, in order
(`OrderOK`, `EndOK`). `Draining` is the accounting of back-pressure: whoever is
told to wait holds as much as the mark (`Held`, `Asks`), the source is paused only
for one who was (`Pauses`), and while it flows there is room for a chunk
from each pipe (`Fits`, `Room`). The recursion of `_emitData` and of the lengths of a
buffer is a function on numbers, and is followed by taking the least number at which
a claim would fail (`WellFoundedInduction` has no theorem without an operator
parameter but that one).

What `Alone` excludes is real. `stream_bytes` shows the lengths to matter. With two destinations a `drain` of one resumes
the source while the other is full, and with `unpipe` the one that paused may
leave with the source paused; at a `highWaterMark` of 0, which `streams.js` 416
allows, `write()` asks everybody to wait for a `drain` that an empty buffer never sends.

**Network_proofs, the worker and v9net.** `WorkerLosesNoSocket` (`NoSocketIsLost` of
`WispWorker`): a stream that is in the Map is there once and is open, connecting or
ended in a way its client knows of; the sockets within the limit are in the Map, which
is no larger. `RunningIsServedAlways` and `ForwardIsOpenAlways` (`V9Net`): a goroutine
that is still to act acts on the server of its own start or on one made later from
the same address; while every start asks for one address a later one fails
until it has acted.

**Runtime_proofs.** Nine parts of the runtime in the page, each an instance over
constants and variables of its own, so that what is proved holds for any values of
them, and not only for those of `MCPage`.

- `GlobalsComeBackAlways`, `ImportsAreAwaitedAlways` (`ScriptRunner`): each run that has
  begun and is not over is in the stack of runs once, and the globals are those of its end
  as long as ends come in the order of a stack; a run that is over has no import
  under way that it counted, unless it failed. `ScriptsRunOnce` and `OutputStaysWhole` (`ScriptHost`):
  only one call ever falls back. `ShellHasKeysAlways` and `ToldOfItsRunAlways` (`Terminal`):
  the boot's own run is tied to its waiter, and whoever waits polls the state of
  its run or of a later one.
- `ListenersAreKeptAlways`, `OnceRunsOnceAlways` (`Emitter`): frames of the stack hold arrays
  that are older than the current one or are the current one; without an emit in an
  emit no frame but the last changes them. `PipelineIsTrueAlways`, `ChainInOrderAlways`,
  `FinishedIsTrueAlways` (`StreamChain`): what is between two streams is numbered
  without a gap. `OnceIsTheFirstAlways`, `EventsInOrderAlways`, `NoneWaitsInVainAlways`
  (`EventIterator`): answered, held and waiting events are one interval, and who waits
  and what is held are never both there.
- `CacheIsTrueAlways`, `ImportedOnceAlways` (`ModuleLoader`), under `LoaderAssumed`: the
  stack of loads is a stack of modules that run, the load in the cache is the
  last of its module, and one that was overwritten while it ran is marked. `DirsComeBackAlways`,
  `ResolvedFromHomeAlways`, `ResolvedAsAskedAlways`, `NearestIsFoundAlways` (`Resolution`), under
  `ResolverAssumed` (the second: an `import()` by a body that runs starts from its own directory and
  one by other code from that of the body that runs, unless loads cross): trees of any depth and with any packages in them, of which the ones without a
  `package.json` have nothing that is written in one. The last needs the function
  that searches upwards to be known for every depth, which a least depth at
  which it would be wrong gives. The attempt to prove `NearestIsFound` for any tree showed it to be
  false as it was first stated: a package whose `exports` do not name what is asked for, whose
  `main` names a file that is not there and whose `module` is, is passed over
  (`index.js` 3602 to 3607 takes `module` only without a `main`). No tree of the run
  had such a package; the definition of `Has` now says it.
- `TreeIsCompleteAlways`, `CacheKeepsItsCapAlways` (`NpmInstall`), under `NpmConstants` (the limits are
  numbers and a graph is one over the packages), for graphs of any depth: what a package in
  `node_modules` lacks is on the way in a call that is on the stack, or the package was
  extracted at the limit of depth (`limited`). The cache keeps its limit also where tarballs are
  larger than it: such a one is alone in it (`Fits`).

**Napi_proofs.** The parts of the N-API bridge beside the handles, each an instance
over constants and variables of its own.

- `BytesStayApartAlways` (`NapiBuffers`): what was filed for a handle since it
  names what it does is a region of its own (`MetaInv`).
- `AnswersAreTrueAlways` (`NapiObjects`): each way a call ends answers what the property says,
  for any nesting; it is inductive by itself.
- `InfosAreOfTheRunningAlways`, `ArgvIsTheCallersAlways`, `SettledOnceAlways` (`NapiEnv`): the calls
  that run are different ones, and one that was not made yet has nothing in native memory
  (`FramesInv`, `UnusedInv`); only a promise that is pending has a deferred (`DeferredInv`).
- `VerdictIsRightAlways`, `ScopesComeBackAlways` (`NapiScripts`), for sources of any length: the
  three variables of the detector say where a lexer by the grammar is (`Place`), in expressions of templates
  and regular expressions too, until it meets what `Misread` names; the scopes that are open are those of the imports in
  progress, those that native code has opened in them and those it left open when it threw (`ScopesInv`).
- `TwoCallsAreEnoughAlways` (`NapiValues`), for strings of any length. Encoding and
  decoding are recursive functions over the string; that each value is what the definition says
  is handed on from place to place (`HandedOn`, from the least place where it would not be).

**Shell_proofs.** The shell's lines and its keys.

- `PromptMeansDoneAlways` (`Shell`): the state that a line hands from command to command
  is one that `Follows` the state before the line: works only begin, the result's work is
  one of those, and there is always a free work for the commands still to come that begin one
  (`Steady`), which `Room` promises at the start and each command keeps; what has begun is the work that is
  waited for, or one the shell has let go of: a redirection, or a later command of the line.
- `InputIsSoundAlways` (`ShellInput`): one lemma for each key, for lines, histories and
  texts of any length; that a word's start is found is the least number theorem again
  (`LastPlace`).
- `ShellStaysTrue` brings both to `ShellIsTrue` of `MCLocal`: a step of another part changes
  nothing of theirs.

`RunsStayClean`, `EventsStayTrue`, `ModulesStayTrue`, `NpmStaysTrue` and `NapiStaysTrue`, at the end of
**Page_proofs**, bring what is proved of the instances of `MCPage` back to the run: each instance of `MCPage` is shown to
be one of `Runtime_proofs` or `Napi_proofs` (`RunnerIs`, `ResolverIs`, ...: initial states, steps and
properties, operator by operator), a step of `MCPage` is a step of one part or leaves it
alone (`PageRunner`, ...), and the values in `MCPage` satisfy the assumptions
(`PageLoads`, `PageTrees`, `PageGraphs`).

Out of the prover's reach, and checked by TLC only: liveness under fairness
(`ConnectIsAnswered`, `CloseIsLearnt`, `OrphansAreReaped`, `EveryChildCloses`,
`PipeFinishes`, `SynOfOneIsAnswered`), and what the algorithms compute for inputs of
every length where the definition of the result is another algorithm (`ShellParser`, `TextFilters`).
Not proved yet, checked by TLC: `StreamIsExact` of `GvisorTcp`, the rest of what
`NothingIsLost` says being proved; `FilesAreTrue`, and `CommandsAreTrue`.

## 6. What is not modelled, and why

- Wisp: the choice of the relay's URL and the shared connection
  (`wisp-client.js` 396-495); host names, ports, origins and address lists are
  "the check passes or fails"; the token bucket's arithmetic; write callbacks of
  a chunk left in `_sendQueue`.
- N-API: BigInt, dates, symbols and the other conversions of one value, boot,
  WASI. Garbage collection: wraps are finalised only by `napi_remove_wrap`.
- Module loading: patterns and nested conditions of `exports`, builtins,
  `module-shim.js`, the sandbox.
- child_process: `execSync` and `spawnSync` (no state survives the call); what a
  command does is a nondeterministic outcome; listeners that throw, other than
  exec's callback and a missing `error` listener; stdin.
- Streams: `read()` and `readable`, the async iterator of a Readable (that of
  `events.on` is in `EventIterator`), several destinations,
  callbacks that write; object mode is the case of chunks of length 1.
- gVisor: ARP, IP, checksums, DNS packets. http: headers, agents, cookies,
  request bodies at the server. net: delegation of `net.Socket`, dns.
- MEMFS: transactions, watchers, streams of files, fs-promises. Shell: history
  search, completion, `sed` and `find` expressions, commands that only format,
  git. npm: ranges of versions, unpacking, npm run. Terminal: the screen.
- Not at all: async_hooks (context propagation by patched globals), worker_threads
  and readline (thin wrappers of browser workers and of the terminal), the
  Node API surface (conversions of one value, constants), the Wasm boundary
  (feature detection around external Wasm), the documentation site, the extension
  and the Android wrapper (user interface and packaging), build, deployment, tests.

## 7. Plan

1. *Done*: the tunnel and its admission, both servers; the N-API bridge; module
   loading and script runs; children, streams, pipelines, events; TCP, v9net,
   TLS, http on both sides; sessions, cache and npm; MEMFS, the shell and the
   terminal; the proofs of section 5.
2. Proofs next: `StreamIsExact` of `GvisorTcp`, which needs what is on the wire and
   what the peer may repeat; the properties of `MemFs`.
3. Compositions next: `HttpClient` over `GvisorTcp` and over `WispClient`;
   `TlsSocket` over either; `Shell` over `FileCommands` and `MemFs`, so that a
   command line is checked with what its commands do.
4. Streams: callbacks that write and several destinations, against a bound on
   what is buffered in all.
