# Verification of the Service Extensions samples

TLA+ models, TLC runs and TLAPS proofs kept beside the code of
`service-extensions-samples`. Every definition that models code is listed with
its source lines under `map` in `PROJECT.json`.

## 1. The system

The repository has two halves.

**Plugins** (`src/plugins`) are Proxy-Wasm modules that run inside the proxy. The
host calls a plugin back with the headers, body chunks and trailers of a
request and of its response; each callback returns a status that says whether
the host forwards what it holds, holds it, or drops it. A Wasm VM has one
thread, so callbacks never overlap, but the callbacks of the two directions of
a stream, and of different streams, alternate freely. About forty small plugins
keep little state; `samples/lua` is a complete script filter and the largest
program of the repository.

**Callouts** (`src/callouts`) are gRPC servers that the proxy calls over Envoy's
external processing (or authorization) protocol: one bidirectional stream per
HTTP stream, on which the proxy sends a message per event and waits for the
answer. The same server exists in Python, Go and Java.

### Inventory

| Component | State | Operations | Talks to | What is hard |
|---|---|---|---|---|
| Lua stream coroutine (`lua/coroutine.*`) | state, yield reason, what has been received, consumed flag, stream ended, headers passed on | `Start`, `Resume`, `Yield`, `HandleHeaders`, `HandleBody`, `HandleTrailers`, `RunToCompletion`, `MarkHeadersPassedOn` | Lua thread (resume, yield), host buffers | events before the script asks and scripts that ask before the event; end of stream with a waiting script; two records of the same execution state |
| Lua thread (`lua/lua_state.*`) | Lua status, `is_finished_`, `is_running_`, registry reference | `ExecuteFunction`, `Resume`, `Yield` | coroutine, Lua VM | errors in the middle of a resume |
| Lua HTTP filter (`lua/lua_plugin.cc`) | two coroutines | `onCreate`, six callbacks | host, coroutines | three callbacks may let the headers go; error paths; two directions interleaved |
| Lua root context and `LuaState` | current Lua state, its globals, registry references | `onConfigure`, `Create`, `NewThread`, thread deleter | contexts of live streams | references given back and out again in any order; a configuration that fails half way; what is a global while the API is bound |
| Envoy Lua API and status unwrapper (`lua/envoy_lua_api*`) | `Header` objects with or without a pass-on check; the classes bound and the classes unwrapped | headers, buffer, metadata, connection, metric and log calls | host | objects that outlive the callback they were made in; two lists of classes kept by hand |
| Test framework (`plugins/test`) | phase, buffers, whether a local reply was sent | send headers, body | plugin under test | which calls are accepted in which phase |
| Sample plugins (C++, Go, Rust) | little per stream: a session id, a trace id, a body kept until its end | configure, callbacks | host, client, origin | state carried from request to response while other streams run; unsigned arithmetic on times; bodies cut into chunks anywhere |
| Python callout server | `_setup`, `_closed`, HTTP health server, gRPC server, thread pool | `run`, `shutdown`, `process`, `Process` | proxy, other threads of the process | `shutdown` against `run`; pool exhaustion; failed start |
| Go callout server | handlers | `StartGRPC`, `StartInsecureGRPC`, `StartHealthCheck`, `Process` | proxy | unset handlers; end of stream as an error |
| Java `ServiceCallout` | two servers, executor, health server | `start`, `stop`, `blockUntilShutdown`, `processRequest` | proxy, JVM shutdown hook | partly failed start; time-outs in `stop` |
| L4, ext_authz servers, tools, examples | as the Python server; the gateway examples cache tokens | handlers | proxy, remote services | expiry of what is cached |

What makes each part correct: a coroutine is never left waiting for what cannot
come, shows every byte of the body to a script that iterates over it, once, and
agrees with its Lua thread; the filter lets every ended stream go, keeps the
body a script waits for, and freezes the headers exactly when the host has sent
them; the runtime keeps every thread anchored and shows scripts no status
objects; a sample plugin says the same about a request whatever runs
next to it and however its body is cut; a callout server answers the messages
of a stream once and in order, and can be shut down at any moment. The hazards under `hazards` in `PROJECT.json`
are the places where this may fail and where a test would hardly notice.

## 2. Modules

```
model                              theorems                    constants for TLC
LuaCoroutine                       LuaCoroutineProofs          MCLuaCoroutine
LuaPlugin   (EXTENDS LuaCoroutine) LuaPluginProofs             MCLuaPlugin
EnvoyLuaApi
LuaRuntime  (EXTENDS EnvoyLuaApi)  LuaRuntimeProofs            MCLuaRuntime
SampleHost
CookiePlugins, AccessPlugins, BodyPlugins, RewritePlugins
            (EXTEND SampleHost)    BodyPluginsProofs
SamplePlugins (EXTENDS the four)   SamplePluginsProofs         MCSamplePlugins
PyCalloutServer                    PyCalloutServerProofs       MCPyCalloutServer
JavaServiceCallout                 JavaServiceCalloutProofs    MCJavaServiceCallout
ExtProc     (abstract)
CalloutStreams (implements ExtProc) CalloutStreamsProofs       MCCalloutStreams
```

The Lua filter is composed of two coroutines; the Lua runtime is what hands a
stream the threads these run on. The four families of sample plugins share the
header map of the host and nothing else. The callout servers are programs of
their own: `PyCalloutServer` and `JavaServiceCallout` are their life cycles,
`CalloutStreams` the calls they serve meanwhile, in the three languages.

### LuaCoroutine

`co[s]` is the record of the fields of a `LuaStreamCoroutine`, `thread[s]` its
Lua thread. A public method is not one step, since it resumes the script, which
makes calls of its own: the variable `on` is the coroutine whose method is in
progress, `pc` the place native code has reached, `ret` the place it continues
at when the script gives control back.

| Action | Code |
|---|---|
| `Start`, `Resume`, `HandleHeaders`, `HandleBody`, `HandleTrailers` | the methods of the same name, from their first line to the first resume or to their tail |
| `TrailersChunks`, `TrailersTrailers` | the second and third test of `HandleTrailers` |
| `Tail` | the last lines of `Start`, `HandleHeaders`, `HandleBody` |
| `RunToCompletion` | one turn of its loop |
| `ResumeWith` | push of one value and `Resume(1)`, refusals included |
| `ScriptHeaders`, `ScriptBody`, `ScriptTrailers`, `ScriptNextChunk` | the accessors of `InjectNativeYieldAccessors` |
| `ScriptMutate` | `Header::Add`, `Remove`, `Replace` with their guard |
| `ScriptRawYield`, `ScriptReturn`, `ScriptError` | the three results of `lua_resume` |
| `Return` | the method returns; the filter may call `MarkHeadersPassedOn` |

The script is any Lua program over these accessors: each `Script` action is
always possible while the script runs. `unread`, `bodyCalled` and `lateMutation`
are history variables that only properties read. The body is abstracted to
whether it has data no `Buffer` has shown to the script.

### LuaPlugin

`LuaPlugin` extends `LuaCoroutine` with the filter and the host of one HTTP
stream. `cb` is the callback in progress, `host[s]` one direction at the host:
its headers (not yet there, held, passed), the chunks it holds and has
forwarded, whether its last event was delivered (`ended`) and forwarded
(`closed`). `OnHeaders`, `OnBody`, `OnTrailers` deliver an event and call the
coroutine; `StartFailed`, `StartSucceeded`, `HandleHeadersEvent` and
`HandlerReturns` (with `Finish`) are the rest of the handlers; `Status` is the status they
return, and `Apply` is what Envoy does with it (external). `reply` records a local
reply and whether the host took it, with the acceptance rule of
`TestHttpContext::sendLocalResponse`.

Two history variables count what became of each chunk: `shown[s]` are the chunks
that were in the host's buffer when the script got a `Buffer` of it, and `missed[s]`
those that the host forwarded, without their having been shown, while the script
waited in `trailers()`.

### EnvoyLuaApi and LuaRuntime

`EnvoyLuaApi` is a table: for each class bound by `RegisterEnvoyApi` its methods,
and for each method the outcomes it can have (a value, another object, nil, a
status). `Results` is what a script gets of them: the unwrapper turns the status
of an unwrapped class into an error or nil, and lets the status of any other
class through.

`LuaRuntime` is the root context, its current Lua state (`vm`: globals, functions
the configuration defined, registry and free list) and the HTTP contexts with
their two threads. `onConfigure` makes a state, runs the configuration in it and
takes it into use only if all of that succeeded; `onCreate` makes and anchors the
request and then the response thread, each of which may fail; `onDelete` gives the
references back in the order of destruction; `ExecuteFunction`, `ScriptCalls` and
`ScriptEnds` run scripts. `Create` is its steps in their order, each on the state the
one before left: `luaL_newstate`, `OpenLibraries`, `StubLoaders`, and of `RegisterEnvoyApi`
`BindClasses`, `ScopedGlobalFunction`, `attach_status_unwrapper` and `EndScope`. The unwrapper
passes over a class that is not bound yet and, without the raw getter, over every
class, without a word: in another order scripts would get raw status objects,
which is the mutant of `NoStatusSeen`. Assumption on the proxy: it configures a root context only while no stream
lives on it, as the comment on `lua_state_` says (`lua_plugin.h:82`); without it the
deleter of an old thread would work on a closed state.

Found while modelling, and not contradicted by a sentence of the repository:
`handle:streamInfo()` and `handle:connection()` return `UnimplementedError`, so the
methods of `SslConnection`, which is not among the classes that are unwrapped, cannot
be reached, although `integration_tests/ssl_stream_info_test.lua` is written for
them; were they reachable, scripts would get status objects. A `Header` keeps a plain pointer to the coroutine of its stream.
The replacement of `string.rep` has no separator.

### Sample plugins

`SampleHost` is the header map as the SDK shows it. The families:

| Module | Plugins | State |
|---|---|---|
| `CookiePlugins` | `set_cookie`, `set_reset_cookie`, `remove_cookie` | overlapping exchanges of a client with a cookie jar; `session_id_` per stream |
| `AccessPlugins` | `hmac_authcookie`, `hmac_token_validation`, `hmac_authtoken`, `jwt_auth`, `config_denylist` | the clock, the denylist, the last decision; times are integers of `Width` bits |
| `BodyPlugins` | `ad_insertion`, `cdn_token_generator`, `check_pii`, `body_chunking` | one response whose body comes in chunks cut anywhere, ended by its last chunk or by trailers |
| `RewritePlugins` | `redirect`, `redirect_bulk`, `add_device_type`, `geo_directional_origin`, `add_geo_query`, `set_query`, `regex_rewrite`, `overwrite_*`, `normalize_header`, `add_*_header`, `docs_first_plugin`, `error_page_with_traceid`, `add_custom_response` | overlapping visits of clients that follow redirects; `trace_id_` per stream |

A body is a sequence of symbols: what the origin sent is a symbol of length one,
what a plugin wrote is a longer one, so `WithoutInsertions` is what a client
reads of the origin. A signature is the message it was made from. The order of
insertions at one place is left open by `std::sort`, so each is a possible result.
`verifyJwt` (external) checks `nbf` and `exp` with a clock skew and takes an absent `exp`
as no limit. `jwt_auth` uses the parsed path without asking whether there
is one (line 57): `JwtDecision` has the outcome "undefined", and
`ForwardedIsCovered` exempts it. `check_pii` masks the values of the response headers
as well as the chunks; one other header and `Content-Length` stand for them.

Where the documents of a plugin and its code differ, the model has the code and
the properties claim only what both say:

* `hmac_token_validation`: its README (lines 17, 29 and 65) and `plugin.cc:46` sign
  `METHOD:PATH:timestamp`; line 109 concatenates the three without `:`, so a token
  made by the README is refused, and the message does not say where the path ends.
  `TokenCovers` takes either message for a token made out for the request.
* `hmac_authcookie`: README line 28 and `plugin.cc:51-53,113` want a time earlier than
  the expiration; line 119 has `<=`. `CookieCovers` allows the equality.
* `check_pii`: README lines 8-14 and 23 say that a response is left alone unless
  `google-run-pii-check` is true; the code never looks at that header, and `tests.textpb`
  expects masks without it. `PiiMasked` speaks only of responses that ask.
* `Content-Length`: `check_pii` masks it like any other value when it has ten digits or
  more, and `cdn_token_generator` and `body_chunking` leave it as it was although they
  lengthen the body. `ContentLengthTrue` names these cases (`Stale`); no document speaks
  of them.

### ExtProc and CalloutStreams

`ExtProc` says what a proxy expects of an external processor: each message of a
call is answered once, in order, by an answer of its own kind, an immediate
response or an empty one, and a call finishes when the proxy has closed its
side and no message waits; a call may fail at any time. A message whose kind is
`optional` may be passed over without an answer (`PassOver`). Its fairness: what is
pending is answered, and a closed call finishes, or the call fails.

`CalloutStreams` is `Process` of the three servers. `deployment` says which server
runs, which events it is sent and, for Go, which have a handler; `GoResponse`, `process` and `processRequest` are
the dispatchers, from a message and the result of the callback (an answer, an
immediate response, nothing, a value of the wrong type, an exception) to what is
sent. A Python call waits in `queue` until the pool has a thread (`TakeThread`) and
keeps it until it ends; Go and Java serve at once. The proxy sends ahead, closes
its side, and gives calls up while they wait or are served: the late answer of
the callback goes nowhere. The refinement mapping takes `pending` to the message in
the server's hands followed by those it has not read.

The Go server sends nothing for a message without a handler, or whose handler
returns neither a response nor an error (`callout_server.go:190`): the proxy waits
until its timeout. No sentence of the repository says that each message is
answered, so the mapping makes every kind `optional` for Go, and none for Python and
Java. Go also returns the `io.EOF` it reads at the end of a
call as an error; the proxy has its answers by then, and no sentence of the
repository says with which status a call ends.

### PyCalloutServer

The life cycle of `CalloutServer`. The actors are the thread in `run()` (`runner`
is the place it has reached), the threads that call `shutdown()` (`stopper[t]`),
an interrupt of `run()`, and the proxies that open and end `Process` streams
(`calls`). They share the health check server (`http`), the gRPC server (`grpc`) and
the two flags `_setup` and `_closed`.

| Action | Code |
|---|---|
| `BindHealth`, `WrapHealth`, `StartGrpc`, `StartRaises` | `_start_servers`, one step per call that another thread can observe, and the exceptions that leave it |
| `SetUp`, `Loop`, `LoopEnds` | `_setup = True`, and `_loop_server` up to its end |
| `Interrupt` | a `KeyboardInterrupt` in `run()`: before its `try` it leaves `run()`, inside it leads to the `finally` |
| `StopHealth`, `HealthStopped`, `RunnerStopsGrpc`, `RunnerEnds` | `_stop_servers`, its two waits, and `_closed = True` |
| `Shutdown`, `ShutdownWaited`, `StopperStopsGrpc`, `ShutdownReturns` | `shutdown()` with the same two waits |
| `OpenCall`, `EndCall` | a stream of `_GRPCCalloutService.Process` |

External, as this code uses them: `HTTPServer.shutdown()` sets a request and waits
for an event that only `serve_forever()` sets, when it ends; a request made
before `serve_forever()` is still there when it begins; `grpc.Server.stop()` takes no
more calls, cancels the open ones after the grace period, and does nothing
before `start()`. There is at most one interrupt, and none once `run()` has begun
to stop.

### JavaServiceCallout

The life cycle of `ServiceCallout`. The actors are the main thread (`main`), which
may call `start()` again after it failed, and then `blockUntilShutdown()`; the JVM,
which begins to shut down at any moment; and the hook (`hook`), which runs `stop()`.
Each `start()` makes an executor of its own: `executor` is the number of the
`start()` that made it, `server[s].exec` the executor a gRPC server was built with,
`dead` the executors that have been shut down. So a server that a failed
`start()` leaves behind, without an executor, is a state of the model.

| Action | Code |
|---|---|
| `CallStart` | `start()` up to the executor, or `IllegalStateException` |
| `StartServer`, `StartHealth` | the servers, in order, if the configuration asks for them |
| `StartThrows` | the `catch`: `shutdownNow()` and `grpcExecutor = null` |
| `Register` | `addShutdownHook`, which throws once the JVM shuts down |
| `CallBlock`, `Block` | `blockUntilShutdown()`, one wait after the other |
| `StopSecure`, `StopPlain`, `Await` | `shutdown()` and `awaitTermination(30, SECONDS)` of a server |
| `StopExecutor`, `ExecutorStopped`, `StopHealth` | the rest of `stop()` |

`JvmStops`, `JvmHalts`, `ShutDown`, `OpenCall`, `EndCall` and `Terminates` are the JVM and
grpc-java (external). A timeout is a choice: `Await` may go on at any time, and
`timedOut` remembers that the server had not ended. `failed` and `cut` are history
variables as well. A port that a leftover server still holds makes the next
`start()` fail.

## 3. Runs

| Run | States | Shows |
|---|---|---|
| `coroutine` | 237 thousand | One coroutine, scripts of up to six calls, methods called in any order, direct `Resume` and yields that raise included: `ThreadAgrees`, `ChunkDeliveredOnce`. |
| `filter` | 4.2 million | Request and response interleaved, both entry points defined, coroutine creation that may fail: `PassedOnTracksHost`, `NilMeansRead`, `NoStuckStream`, `EndedNeverWaits`, `BodyHeldWhileAwaited`. |
| `filter_errors` | 233 thousand | Scripts that may fail before their first yield: `KeptOnlyOnError`: an ended direction is kept only when `Start` failed in its only event, or when an error in its last event asked for a reply where the host takes none; and `EndedIsReleased` under fairness. |
| `filter_late_mutation` | violation | A `Header` obtained by waiting in `headers()` mutates the headers after they were passed on (`NoLateMutation`). |
| `filter_one_function` | violation | A script without `envoy_on_response` keeps a headers-only response for ever (`NoStuckStream`). |
| `lua_runtime` | 228 thousand | Two Lua states in turn, two streams, configurations that cannot be read, are bytecode or fail, threads that cannot be made: `ThreadsAnchored`, `AcceptedConfigurationRuns`, `NoStatusSeen`. |
| `sample_plugins` | 185 thousand | Every sample plugin of the table above, one at a time. Cookies: `SessionKept`, `DeletedStaysOut`, `ConfiguredCookieWins`. Access: `ForwardedIsCovered`, `DenylistExact`. Bodies: `BodyIntact`, `InsertionsInPlace`, `PiiMasked`, `ContentLengthTrue`. Rewriting: `ErrorPageIsOwn`, `RedirectsEnd`, `PluginValueOnly`. |
| `py_lifecycle` | 1.8 thousand | `run()`, two `shutdown()` callers that wait for `_setup`, an interrupt, failing starts, with and without a health check server: `HealthyMeansServing`, `ShutdownStops`, `ClosedMeansStopped`, and under fairness `ShutdownEnds` and `LoopInterruptEnds`. |
| `py_early_shutdown` | violation | A `shutdown()` that does not wait for `_setup` may be lost (`ShutdownStops`). |
| `py_interrupt` | violation | An interrupt between the `try` of `run()` and the loop of `serve_forever()` leaves `run()` waiting for ever (`InterruptEnds`). |
| `java_lifecycle` | 10 thousand | Three calls of `start()`, failing and repeated, two calls open per server, a JVM that stops at any moment: `StartedMeansServing`, `GracefulStop`, `ReturnedMeansTerminated`, and under fairness `ShutdownHalts`. |
| `ext_proc` | 133 thousand | The three servers, each for headers, bodies and trailers, Go with handlers for all, some or none of them, two calls against a Python pool of one thread, every result of a callback: under fairness `ImplementsExtProc` and `CallsEnd`. Deadlock is checked. |

The four violations are findings; each is described in `PROJECT.json` with the
sentence of the repository it disagrees with. Between them they delimit the
passing runs: `NoStuckStream` holds when both entry points exist and `Start` does
not fail, `ShutdownStops` needs callers that wait for `_setup`, as the tests do, and
`LoopInterruptEnds` is `InterruptEnds` without the one window where it fails.
`EndedNeverWaits` is checked in the filter and not in `coroutine`, where a direct
`Resume` does not run an ended stream to completion. `NilMeansRead` holds in the
filter because the filter calls `Start` first: a direct user of the class who
delivers body data before `Start` loses it for `bodyChunks()` when trailers end
the stream, since `HandleTrailers` does not look at `body_chunk_consumed_`. Even in the
filter nil does not mean that every byte was shown: a script that calls `trailers()`
and then `bodyChunks()` gets an empty `Buffer` and nil, and never sees the chunks that
`HandleBodyEvent` forwarded meanwhile. `NilMeansRead` says that these (`missed`) are the
only ones. An error in a response body or in trailers asks for a local reply,
which the host refuses there, and the filter's status then holds the stream;
`NoStuckStream` and `KeptOnlyOnError` except it by name (`ReplyRefused`). It also happens
to headers: after a failed `Start`, trailers that come next are refused because
the headers were never received (`coroutine.cc:227`), and the held headers stay.

**Bounds.** `MaxSteps` bounds the calls a script makes (six for one coroutine,
fewer where two interleave). A wait for each kind of event, twice, and a call
after each end fit into it; the control state of the coroutine has nothing that
counts, so longer scripts revisit the same records. `MaxChunks` bounds the
chunks with data per direction: two are enough for a chunk before and a chunk
after the script starts to wait, one for the run with the liveness property. Streams are two,
since coroutines share nothing but the VM's single thread. After `MaxSteps`
a script can only end, which it may also do at any time before. Two `Stoppers`
stop the same servers at once and race `run()` as well; a third finds nothing
new. `MaxCalls` is two: one call that ends and one that stays. `MaxStarts` is three:
a start that fails half way, one that meets the server left behind, and one
more, refused or successful. `MaxStates` is two Lua states: one replaced and one
in use; two streams with two threads each give back and take four references
in every order. `Width` is four bits, so that every timestamp and every
difference that wraps is tried; `MaxClock` 3 and `TokenValiditySeconds` 1 put
times before, within and after the window. `kMaxBodySize` is six symbols, reached
by some bodies and not by others, and each body is cut at every place. Card
numbers and codes are scaled to a few digits per group. `MaxHops` is four, more
than the longest chain of mappings that does not lead back. `ServerThreads` is one and there are two
calls, so one always waits; `MaxInbox` is one message ahead of the one in the
server's hands, which is where order could be lost.

**Deadlock.** `CHECK_DEADLOCK FALSE` is set because a finished HTTP stream, with
every event delivered, is a state where the system rightly stops; so are a
callout server that has been shut down and a JVM that has halted. That nobody
waits for ever is stated by the liveness properties instead.

**Fairness.** `FairPluginSpec` asks weak fairness of `RunsOn` only: the VM is not
preempted inside a callback, and a script between two waits takes finitely many
steps (a script in an endless loop is stopped by the host, outside this code).
The host owes nothing: it may never deliver the next event, and
`EndedIsReleased` only speaks of directions whose last event it did deliver.
The Python `FairSpec` asks it of the threads that are already inside `run()` or
`shutdown()`, of the polling loop of `serve_forever()` and of the grace timer; the
Java one of the hook, whose waits are all limited, and of the halt that
follows it. In neither does anybody have to call, to interrupt or to hang up.
`CalloutSpec` asks it of the pool's threads, of each call that is served (callbacks
return: they are the user's code, and an endless one is not the server's fault)
and of the proxy closing its side, which it does when the HTTP stream of the
call is over. Without the last a call may keep its thread for ever, and with a
full pool the others wait as long: that is how the Python server is built.

**Mutants.** For each property of a passing run `PROJECT.json` names a definition
and a variant of it, with the kind of slip that code could have (a flag not
reset, a missing `RunToCompletion`, an unmarked pass-on); TLC then finds the
property violated.

## 4. Proofs

`LuaCoroutineProofs` proves, for any set of coroutines, any script and any
`MaxSteps`:

* `CoTypeCorrect`: `CoSpec => []CoTypeOK`. Inductive as it stands; one step per
  action.
* `EndedNeverWaitsTheorem`, for callers that do not use `Resume` directly
  (`~DirectResume`). `EndedNeverWaits` alone is not inductive: it says nothing
  about the middle of a call, where an ended coroutine may well wait. The
  strengthening `EndedInv` adds `ScriptReturnsToNative`: while the script runs,
  native code continues at one of the places that still reach
  `RunToCompletion` before the call returns. `RunToCompletion` leaves its loop
  only for a reason that is not a wait for body, chunks or trailers, so the call
  returns in a state that satisfies the property.
* `ThreadAgreesTheorem`: with type correctness it is inductive, direct `Resume`
  included, since each place that ends or suspends the thread sets `state_`.

* `BodyAccountedTheorem` and, from it, `ChunkDeliveredOnceTheorem`.
  `ChunkDeliveredOnce` speaks of one step of `RunToCompletion`; that the step may
  rely on the flags is `BodyAccounted`: data that the script has not been shown
  is in `has_body_data_` and not in `body_chunk_consumed_`. Every handler and every
  accessor keeps it, direct `Resume` included.

`LuaPluginProofs` proves, for any script, any number of chunks and any order of
events:

* `FilterEndedNeverWaits`: the promise of `EndedNeverWaitsTheorem` in the filter,
  where it needs no hypothesis: the filter only makes the calls of `FilterCall`, and
  those keep `EndedInv`.
* `PassedOnTracksHostTheorem` and `BodyHeldTheorem`, from `FilterInvariant`. `FilterInv`
  says how the three parties agree: the callback in progress and the call in the
  coroutine (`CallbackOK`), and for each direction the flag of the headers and the
  host (`Marked`), a coroutine without events (`Untouched`), where a callback is
  while its coroutine works (`InStep`), and what of the events the coroutine has
  been told (`Received`, `EndSeen`, `Answers`).
* `NilMeansReadTheorem`, with `ReadInv`: to a script that waits for a chunk, and to
  one that runs without being resumed by the loop of `RunToCompletion`, every chunk
  that came has been shown, or it is among the `missed`; to any other script that can
  still be resumed, every chunk but those that the host holds. It holds because `Start` comes first, so it is a theorem
  of the filter and not of the coroutine.
* `KeptOnlyOnErrorTheorem`, with `ReasonInv` (a script that runs or has ended leaves
  no reason to wait behind, and no callback follows a local reply) and `EndInv`; and
  `NoStuckStreamTheorem`, with `StartOK` in place of the exception for `Start`. Both leave
  out, by name, the stream whose error reply the host refused. Hypothesis of both:
  `~RaisedYields`, as in the runs; a script that catches the error of a raised
  yield leaves a stale reason, see section 5. `NoStuckStream` also asks for both
  entry points and for scripts that do not fail before their first yield, which
  `filter_one_function` shows to be necessary.

`LuaRuntimeProofs` proves, for any number of streams, Lua states and
configurations, `RuntimeInvariant` and from it `ThreadsAnchoredTheorem`,
`AcceptedConfigurationTheorem` and `NoStatusSeenTheorem`. The heart of
`RuntimeInv` is `Anchors`: the registry's slots are divided between the live threads,
one each, and the free list, which holds every other slot exactly once.
`RefAnchors` and `UnrefAnchors` show that `luaL_ref` and `luaL_unref` keep it, whichever
slot is given back; the order of destruction in `onDelete` is then two uses of
`UnrefAnchors`. `NoStatusSeen` needs that the objects at hand are closed under the
calls a script can make (`ThreadOK`), which is a fact about the tables of
`EnvoyLuaApi` and about what the steps of `Create` leave (`CreateResult`): the classes of
these objects have the unwrapper.

`SamplePluginsProofs` proves, of the specifications of the families:

* `RedirectsEndTheorem`, for any mappings and any `MaxHops`. `RewriteInv` keeps for each
  visit the set of sources it has `Passed`: each leads to another of them or to the
  present place. If the present place were among them they would contain a
  circle, so with `Acyclic` mappings the set grows with each hop, and it cannot
  outgrow the mappings. `ErrorPageIsOwnTheorem` rests on the same invariant.
* `ForwardedIsCoveredTheorem`, for integers of any `Width`: `now - timestamp`, computed
  without sign, exceeds the limit for every time that is not in the window, and
  erasing a parameter leaves the URL that its token signed. What a credential
  covers is said apart from the decisions, of the request that arrived and the one
  that went upstream.
* `DenylistExactTheorem`, for configurations of any length: from every place the
  loop of `onConfigure` collects the words that begin there or later.
* `SessionKeptTheorem`, with `CookieInv`: what `onRequestHeaders` found is a function of
  what that exchange sent, and what `onResponseHeaders` answers is one of that.
* `DeletedStaysOutTheorem`, for `Cookie` headers of any length, and
  `ConfiguredCookieWinsTheorem`, for configurations and lists of directives of any
  length; both with `CookieInv`, which says what `set_reset_cookie` has sent to the
  origin and to the client. The first is an argument about `Filter` (`FilterTwice`,
  `KeptCookies`). The second follows the loop over the operations
  (`OperationsLoop`): after the first k of them the client's cookie is what the last
  of those k that names it says (`LastNamed`), an operation touches its own cookie
  only (`OperationEffect`), and clearing the header and adding the others again
  keeps their order.
* `PluginValueOnlyTheorem`, for any headers: what `replaceHeader`, `removeHeader` and
  `addHeader` leave under a name and under all others (`ReadsWritten`). The attempt
  to prove an earlier form of `PluginValueOnly` failed: that form described a
  request which the plugin leaves alone through a header of a made-up name, which
  a client may send. The property now says that such a request arrives unchanged.

`BodyPluginsProofs` proves, for any bodies cut anywhere and any configurations:

* `ContentLengthTrueTheorem`, with `BodyInv`: of a body that is passed on chunk by
  chunk, what the client has and what the origin has left make up its length.
  For `check_pii` this needs `MaskKeepsShape`: masking keeps the length of the body, and
  that a number too short for a code is left legible. Outside `Stale` only.
* `PiiMaskedTheorem`, for chunks of any length. `LoopComesBy`: the scan of
  `GlobalReplace` comes to a place before which no symbol of the pattern stands, as
  no earlier match reaches over it; `ChangedIsCovered`: only what a match covers
  is changed. So a number that stands alone is found, and neither pass spoils
  the work of the other: a code has no dash in it and a card no three digits.
* `BodyIntactTheorem` and `InsertionsInPlaceTheorem`, from `IntactInvariant`. While a body
  streams, `IntactInv` says that the part that is done, what the host keeps and what
  the origin has left make it up (`PartSent`), and what the plugin `Became` of the done
  part: masked, marked after each chunk, the same, or nothing yet for a plugin that
  holds the body. At the end of the response the body is there as it belongs
  (`AllDelivered`).
  The properties themselves say nothing of a body that still streams, so they are
  not inductive. What a complete body becomes is proved apart from the state
  machine, by induction over the insertions in the order of the code, from the
  last place to the first (`InsertedOK`): the first k insertions stand in their
  places and the body is whole and as it was before all of them, so that the next
  place, computed on the body before any insertion, still is the right one
  (`PlacedInserted`, `InsertionsGoOn`). `AdsInPlace` is an instance for every order that
  `std::sort` may give to equal places. For `TokensInPlace` the matches of the URL
  pattern lie apart and in order (`UrlsInOrder`), so from the last to the first they
  are such an order, and replacing a URL by its signed form is an insertion after
  it (`ReplacedIsInserted`).

The loops of the plugins are recursive functions in the model; `SampleHost` has
`ForEach` and `Filter` for those that go through a sequence once, since the provers
neither expand `SelectSeq` nor instantiate the theorems about folds.
The library's induction theorems take operators, which the provers cannot
instantiate, so the first section of `BodyPluginsProofs` derives what is needed
for sets instead: `MinIn` from the well-foundedness of the natural numbers,
`DownwardInduction` and `UpwardInduction` for the set of the places where a claim
holds, `SequenceInduction` for a set of sequences, and `RecursionExists` and
`ChainExists`: a loop that always moves on defines a function. `FilterConcat`,
`FilterTwice`, `FilterRange` and their neighbours are the laws of `Filter` that the
results about headers, cookies and bodies use.

`PyCalloutServerProofs` proves, for any set of callers of `shutdown()`, any of the
failures and with or without interrupts:

* `PyTypeCorrect` and `ClosedMeansStoppedTheorem`, the latter by `RunnerInv` and
  `HealthInv`: the place of `run()` says how far each server has come, so that at its
  end both are stopped, whoever did it.
* `ShutdownStopsTheorem` and `HealthyMeansServingTheorem`, for `WaitForSetup`. They
  need `StopperInv` (a caller that goes on found `_setup`, and stops the gRPC server
  only after the serving loop has ended) and `ServingInv` (until then nobody has
  stopped it). Without the wait they are false, as `py_early_shutdown` shows.

`JavaServiceCalloutProofs` proves, for any number of starts and of calls:

* `JavaTypeCorrect`, with `ExecutorInv`: `start()` and `stop()` always have an executor
  to shut down.
* `StartedMeansServingTheorem` with `StartInv`: which servers the place of `start()`
  has brought up, all of them on the current executor.
* `GracefulStopTheorem` with `StopInv` and `CallsInv`: each wait of `stop()` that is over
  has seen its server end or has timed out, and an open call is on a server that
  has not ended; what remains are calls on the leftovers of a failed start.
* `ReturnedMeansTerminatedTheorem` with `BlockInv`.

`CalloutStreamsProofs` proves, for any calls, threads, deployments and bounds:

* `CalloutRefines`: `CalloutSafe => E!ExtProcSafe`, the safety half of
  `ImplementsExtProc`. It rests on `CalloutTypes`, on `CalloutInv`: a message is in
  hand only while its call is served (`HandsServe`), so that the end of the input
  is found with nothing pending; and on `ResponseFits`: whatever a callback comes to,
  the response is an answer of the message's kind or an error, and silence is
  Go's alone. Each action maps to one of `ExtProc` (a silent `Respond` to `PassOver`), or to a
  stutter: `Receive` moves a message from the inbox to the server's hands, which
  leaves `pending` as it is.

Assumptions on the constants are named `...Assumption` (and `PyConfiguration`) in the
module that declares them; TLC evaluates them in every run of the module. Most
say of what kind a constant is. Those that say more: `OriginRepliesAssumption`, the origin does not set the session cookie of the
plugin; `SessionIdsAssumption`, a random number is a valid session id;
`CookieConfigsAssumption` and `AdConfigsAssumption`, a configuration is a finite list
and an ad marker a finite text; `PowerAssumption`, which is true of every `Width`
(2^Width is twice 2^(Width - 1)) and stated because the provers have no rules for
powers.

Only model-checked:

* the liveness properties `EndedIsReleased`, `ShutdownEnds`, `LoopInterruptEnds`,
  `ShutdownHalts`, `CallsEnd` and the fairness half of `ImplementsExtProc`: fairness is
  outside the prover's reach.

Every invariant and every action property of a passing run is stated by a theorem.
The hypotheses of some theorems are those of the runs: `~DirectResume`, `~RaisedYields`
and `WaitForSetup`, as said above. `IntactInv` quantifies over all sequences of symbols
and cannot be evaluated by TLC; the properties it implies are checked in
`sample_plugins`.

## 5. Not modelled

* Failing pushes to the Lua stack (memory exhausted), the contents of headers
  and bodies, the mapping of status codes to HTTP codes, logging.
* A script that uses the handle of the other direction, or calls an accessor
  from a Lua coroutine of its own: `lua_yield` on a thread that does not run is
  undefined.
* Yields that raise, in the filter runs: a script that catches the error and
  exits keeps a stale `yield_reason_`, and the handlers hold its direction.
* The argument checks of the Python constructor, a second interrupt, and an
  interrupt while `run()` stops its servers.
* Failures of the Java constructor and of `HttpServer.start()`, which cannot fail on
  the paths that reach it; the health check answers while `stop()` waits, which
  nothing in the repository excludes.
* The request side of `body_chunking`, which does to the request body what its response
  side, which is modelled, does to the response body, with another text, and that of
  `check_pii`, which sets `accept-encoding`. Of the headers of a response `check_pii` is
  shown two, one of them `Content-Length`; `setResponseHeaderPairs` is the change of their
  values.
* Of the sample plugins: `ab_testing`, which keeps views of header values that are
  gone when it uses them; `block_request`, `local_reply`, `testing`, `log_calls`,
  `log_query` and `docs_plugin_config`, which log, answer a constant or exercise the
  SDK; `content_injection`, `html_domain_rewrite` and `enable_recaptcha`, which are Rust
  only and hand the body to an HTML rewriter outside the repository; and the Go
  and Rust versions of the others.
* A session cookie behind one that is not valid, or in a header above its length
  limit (`set_cookie`), and a number that two chunks share (`check_pii`): the
  models have them, the properties exempt them, since no sentence of the
  repository says what should happen.
* A `Header` that a script keeps in a global and uses in another stream: freed
  memory.
* The builder and the constructor checks of the callout servers; the listeners of
  the Go server, which end the process when they fail.
* The Python L4 and ext_authz servers repeat the life cycle of `PyCalloutServer`
  line by line. The tools build protobuf answers.
* The components with status `not_modelled` in `PROJECT.json`.

## 6. Plan

Done: `LuaCoroutine` and `LuaPlugin`; the life cycles `PyCalloutServer` and
`JavaServiceCallout`; `ExtProc` with `CalloutStreams` and its refinement; `EnvoyLuaApi`
and `LuaRuntime`; the C++ sample plugins by family; theorems about all of them.

Left, in order of importance:

1. The Go and Rust versions of the plugins, compared with the C++ operators on
   the inputs of `MCSamplePlugins`.
2. The caching examples (`litellm_gateway`, `token_exchange`).
