------------------------------ MODULE LuaPlugin ------------------------------
(***************************************************************************)
(* The Lua filter on one HTTP stream: LuaHttpContext and the event handlers *)
(* of plugins/samples/lua/lua_plugin.cc drive the two coroutines of         *)
(* LuaCoroutine, the host (Envoy, or TestHttpContext of plugins/test)       *)
(* drives the filter.                                                       *)
(*                                                                          *)
(* `cb' is the callback in progress.  The host delivers, per direction,     *)
(* headers, then body chunks, then perhaps trailers; the status a callback  *)
(* returns decides whether it forwards what it holds.  The response starts  *)
(* once the request headers have been forwarded and interleaves with the    *)
(* rest of the request.                                                     *)
(***************************************************************************)
EXTENDS LuaCoroutine

CONSTANTS
    Request, Response,  \* the two directions, and the names of the coroutines
    MaxChunks           \* bound: body chunks with data per direction

ASSUME DirectionsAssumption ==
    /\ Request # Response
    /\ Streams = {Request, Response}
ASSUME MaxChunksAssumption == MaxChunks \in Nat

VARIABLES
    exists, \* the coroutines onCreate has made; unset until it has run
    cb,     \* the callback in progress
    host,   \* per direction: what the host has received, holds and forwarded
    reply,  \* per direction: the local reply asked for in its last callback
    shown,  \* history: the chunks of a direction that its script has got
    missed  \* history: those forwarded unseen while it waited in trailers()

pluginVars == <<exists, cb, host, reply>>
historyVars == <<shown, missed>>
vars == <<coVars, pluginVars, historyVars>>

-----------------------------------------------------------------------------
NotCreated == {NoStream}

Callback == [on : Streams \cup {NoStream},
             event : {"none", "headers", "body", "trailers"},
             end_of_stream : BOOLEAN, started : BOOLEAN]

NoCallback == [on |-> NoStream, event |-> "none", end_of_stream |-> FALSE,
               started |-> FALSE]

InCallback(s, event, end) ==
    [on |-> s, event |-> event, end_of_stream |-> end, started |-> FALSE]

\* host[s] is one direction of the stream at the host.  headers: "none" until
\* they come, then "held" or "passed"; chunks: how many chunks with data came;
\* buf: those the host holds, shown to the filter as the body buffer; out: those
\* it forwarded; ended: the last event was delivered; closed: it was forwarded
\* too.
PluginInit ==
    /\ CoInit
    /\ exists = NotCreated
    /\ cb = NoCallback
    /\ host = [s \in Streams |->
                 [headers |-> "none", chunks |-> 0, buf |-> {}, out |-> {},
                  ended |-> FALSE, closed |-> FALSE]]
    /\ reply = [s \in Streams |-> "none"]
    /\ shown = [s \in Streams |-> {}]
    /\ missed = [s \in Streams |-> {}]

Idle == cb = NoCallback /\ pc = "idle"

-----------------------------------------------------------------------------
(* The host.                                                                *)

\* A local reply is taken in the headers callbacks and in the request body
\* callback, and refused in all others; it ends the stream.
Accepts(s, event) == event = "headers" \/ (event = "body" /\ s = Request)

Replied == \E s \in Streams : reply[s] = "sent"

\* Everything held is forwarded.
Forward(h) == [h EXCEPT !.headers = "passed", !.out = @ \cup h.buf,
                        !.buf = {}, !.closed = h.ended]

\* What the host does with the status the filter returned.
Apply(h, status) ==
    CASE status = "Continue" -> Forward(h)
      [] status = "StopIteration" ->
            [h EXCEPT !.headers = IF @ = "none" THEN "held" ELSE @]
      [] status = "StopIterationNoBuffer" -> [h EXCEPT !.buf = {}]
      [] OTHER -> h     \* StopIterationAndBuffer, StopIterationAndWatermark

\* sendLocalResponse, called from a callback for `event' on direction s.
SendLocalResponse(s, event) ==
    reply' = [reply EXCEPT ![s] = IF Accepts(s, event) THEN "sent"
                                  ELSE "refused"]

-----------------------------------------------------------------------------
(* LuaHttpContext::onCreate: each NewThread may fail, a null root Lua state  *)
(* makes both coroutines null.                                               *)
OnCreate ==
    /\ exists = NotCreated
    /\ exists' \in SUBSET Streams
    /\ UNCHANGED <<coVars, cb, host, reply, historyVars>>

\* If the script gets a Buffer, it is on what the host holds.
Shows(s, given) ==
    shown' = IF given THEN [shown EXCEPT ![s] = @ \cup host'[s].buf] ELSE shown

\* The script is resumed with a Buffer.
ResumedWithBuffer == pc' = "script" /\ pushed' = "buffer"

-----------------------------------------------------------------------------
(* What a handler returns.                                                  *)

HeadersHeldFor == {"kWaitForHttp", "kWaitForBody", "kResponded"}

HeadersStatus(s) ==
    IF outcome = "error" \/ co[s].yield_reason \in HeadersHeldFor
    THEN "StopIteration" ELSE "Continue"

\* Variant: the body is not buffered for a script that waits for it.
BodyStatus_NotBuffered(s) ==
    CASE outcome = "error" -> "StopIterationNoBuffer"
      [] outcome # "error" /\ Waits(co[s], "kWaitForHttp") ->
            "StopIterationAndWatermark"
      [] outcome # "error" /\ Waits(co[s], "kResponded") ->
            "StopIterationNoBuffer"
      [] OTHER -> "Continue"

BodyStatus(s) ==
    CASE outcome = "error" -> "StopIterationNoBuffer"
      [] outcome # "error" /\ Waits(co[s], "kWaitForHttp") ->
            "StopIterationAndWatermark"
      [] outcome # "error" /\ Waits(co[s], "kWaitForBody") ->
            "StopIterationAndBuffer"
      [] outcome # "error" /\ Waits(co[s], "kResponded") ->
            "StopIterationNoBuffer"
      [] OTHER -> "Continue"

TrailersStatus(s) ==
    IF outcome = "error" \/ co[s].yield_reason \in {"kWaitForHttp", "kResponded"}
    THEN "StopIteration" ELSE "Continue"

Status(s) ==
    CASE cb.event = "headers" -> HeadersStatus(s)
      [] cb.event = "body" -> BodyStatus(s)
      [] OTHER -> TrailersStatus(s)

\* A callback on a null coroutine: a local reply and a stop.
NoCoroutine(s, event, h, status) ==
    /\ host' = [host EXCEPT ![s] = Apply(h, status)]
    /\ SendLocalResponse(s, event)
    /\ UNCHANGED <<coVars, cb, shown>>

-----------------------------------------------------------------------------
(* Callbacks.                                                               *)

\* onRequestHeaders, onResponseHeaders: Start comes first.
OnHeaders(s, end) ==
    /\ Idle /\ exists # NotCreated /\ ~Replied
    /\ host[s].headers = "none"
    /\ s = Response => host[Request].headers = "passed"
    /\ LET h == [host[s] EXCEPT !.ended = end] IN
       IF s \notin exists
       THEN NoCoroutine(s, "headers", h, "StopIteration")
       ELSE /\ host' = [host EXCEPT ![s] = h]
            /\ cb' = InCallback(s, "headers", end)
            /\ Start(s)
            /\ UNCHANGED <<reply, shown>>
    /\ UNCHANGED <<exists, missed>>

\* Start failed: the error is logged and the headers are stopped.
StartFailed(s) ==
    /\ cb.on = s /\ cb.event = "headers" /\ ~cb.started
    /\ outcome = "error"
    /\ Return(s, FALSE)
    /\ host' = [host EXCEPT ![s] = Apply(@, "StopIteration")]
    /\ cb' = NoCallback
    /\ UNCHANGED <<exists, reply, historyVars>>

StartSucceeded(s) ==
    /\ cb.on = s /\ cb.event = "headers" /\ ~cb.started
    /\ outcome = "ok"
    /\ Return(s, FALSE)
    /\ cb' = [cb EXCEPT !.started = TRUE]
    /\ UNCHANGED <<exists, host, reply, historyVars>>

\* HandleHeadersEvent.
HandleHeadersEvent(s) ==
    /\ cb.on = s /\ cb.event = "headers" /\ cb.started
    /\ HandleHeaders(s, cb.end_of_stream)
    /\ UNCHANGED <<pluginVars, historyVars>>

\* onRequestBody, onResponseBody: HandleBodyEvent.  The callback sees all the
\* host holds: the new chunk, if there is one, and what it had to buffer.
OnBody(s, data, end) ==
    /\ Idle /\ ~Replied
    /\ host[s].headers # "none" /\ ~host[s].ended
    /\ data => host[s].chunks < MaxChunks
    /\ data \/ end
    /\ LET n == IF data THEN host[s].chunks + 1 ELSE host[s].chunks
           h == [host[s] EXCEPT !.ended = end, !.chunks = n,
                                !.buf = IF data THEN @ \cup {n} ELSE @]
       IN IF s \notin exists
          THEN NoCoroutine(s, "body", h, "StopIterationNoBuffer")
          ELSE /\ host' = [host EXCEPT ![s] = h]
               /\ cb' = InCallback(s, "body", end)
               /\ HandleBody(s, h.buf # {}, end)
               /\ Shows(s, ResumedWithBuffer)
               /\ UNCHANGED reply
    /\ UNCHANGED <<exists, missed>>

\* onRequestTrailers, onResponseTrailers: HandleTrailersEvent.
OnTrailers(s) ==
    /\ Idle /\ ~Replied
    /\ host[s].headers # "none" /\ ~host[s].ended
    /\ LET h == [host[s] EXCEPT !.ended = TRUE] IN
       IF s \notin exists
       THEN NoCoroutine(s, "trailers", h, "StopIteration")
       ELSE /\ host' = [host EXCEPT ![s] = h]
            /\ cb' = InCallback(s, "trailers", TRUE)
            /\ HandleTrailers(s)
            /\ Shows(s, ResumedWithBuffer)
            /\ UNCHANGED reply
    /\ UNCHANGED <<exists, missed>>

\* Chunks that are forwarded while the script waits in trailers().
PassedUnseen(s) ==
    IF co[s].state = "kYielded" /\ Waits(co[s], "kWaitForTrailers")
         /\ Status(s) = "Continue"
    THEN host[s].buf \ shown[s] ELSE {}

\* What every handler does with the status that was returned.
Finish(s) ==
    /\ host' = [host EXCEPT ![s] = Apply(@, Status(s))]
    /\ IF outcome = "error" THEN SendLocalResponse(s, cb.event)
       ELSE reply' = [reply EXCEPT ![s] = "none"]
    /\ missed' = [missed EXCEPT ![s] = @ \cup PassedUnseen(s)]
    /\ cb' = NoCallback
    /\ UNCHANGED <<exists, shown>>

\* Variant: only the headers callback marks the headers as passed on.
HandlerReturns_BodyUnmarked(s) ==
    /\ cb.on = s /\ (cb.event = "headers" => cb.started)
    /\ Return(s, Status(s) = "Continue" /\ cb.event = "headers")
    /\ Finish(s)

\* The handler maps what the coroutine returned to a filter status, marks the
\* headers as passed on when it lets them go, replies locally on an error.
HandlerReturns(s) ==
    /\ cb.on = s /\ (cb.event = "headers" => cb.started)
    /\ Return(s, Status(s) = "Continue")
    /\ Finish(s)

\* The coroutine and its script, inside a handler.
CoroutineRuns(s) ==
    /\ UNCHANGED <<pluginVars, missed>>
    /\ \/ Native(s) /\ Shows(s, ResumedWithBuffer)
       \/ ScriptBody(s) /\ Shows(s, co[s].received_body)
       \/ ScriptElse(s) /\ UNCHANGED shown

\* A callback, once entered, runs to its end: the VM has one thread.
RunsOn(s) ==
    \/ StartFailed(s) \/ StartSucceeded(s) \/ HandleHeadersEvent(s)
    \/ HandlerReturns(s) \/ CoroutineRuns(s)

HostNext ==
    \E s \in Streams :
        \/ \E end \in BOOLEAN : OnHeaders(s, end)
        \/ \E data, end \in BOOLEAN : OnBody(s, data, end)
        \/ OnTrailers(s)

PluginNext == OnCreate \/ HostNext \/ \E s \in Streams : RunsOn(s)

PluginSpec == PluginInit /\ [][PluginNext]_vars

\* The VM is not preempted inside a callback, and a script ends or yields after
\* finitely many steps.  The host owes nothing.
FairPluginSpec == PluginSpec /\ WF_vars(\E s \in Streams : RunsOn(s))

-----------------------------------------------------------------------------
(* Properties.                                                              *)

\* Between callbacks, the flag that freezes the headers says what the host did
\* with them: it is set in the handler that lets them go, be it the headers,
\* the body or the trailers callback (MarkHeadersPassedOn in lua_plugin.cc).
PassedOnTracksHost ==
    Idle => \A s \in Streams :
                co[s].headers_passed_on <=> host[s].headers = "passed"

BodyAwaited(s) == co[s].state = "kYielded" /\ Waits(co[s], "kWaitForBody")

\* While a script waits in body(), the host forwards nothing of the body and
\* loses nothing: the Buffer it gets in the end has every chunk from then on.
BodyHeldWhileAwaited ==
    [][\A s \in Streams :
          BodyAwaited(s) /\ BodyAwaited(s)' =>
             /\ host'[s].out = host[s].out
             /\ host[s].buf \subseteq host'[s].buf]_vars

\* bodyChunks() gets nil, the end of the iteration, only when the script has got
\* every chunk in a Buffer, whichever accessors it used and whether the last chunk
\* or trailers ended the body (HandleTrailers, RunToCompletion), but for those
\* that went by while it waited in trailers(): these are never shown.
NilMeansRead ==
    \A s \in Streams : Running(s) /\ pushed = "nil" =>
        1..host[s].chunks \subseteq shown[s] \cup missed[s]

\* The direction has been forwarded to its end, or a local reply ended the stream.
LetGo(s) == host[s].closed \/ Replied

\* Start failed in the only event of the direction, and its handler stopped the
\* headers without asking for a reply.
StuckAtHeaders(s) ==
    /\ co[s].state = "kExited" /\ ~co[s].received_headers
    /\ host[s].headers = "held" /\ host[s].chunks = 0 /\ reply[s] = "none"

\* The handler of the last event met an error and asked for a reply, in the
\* response body or in trailers, where the host takes none.
ReplyRefused(s) == co[s].state = "kExited" /\ reply[s] = "refused"

\* Once the last event of a direction has been handled, the host has forwarded
\* it or a local reply has ended the stream: no script keeps a stream that has
\* ended, unless it fails in the last event where a reply is refused.
NoStuckStream ==
    Idle => \A s \in Streams : host[s].ended => LetGo(s) \/ ReplyRefused(s)

\* Also when Start fails: the handler stops the headers and asks for no reply, but
\* a body event that follows finds an exited coroutine and lets everything go.
\* What stays is a direction that ends with its headers, or one whose trailers
\* come next: HandleTrailers refuses them, and the reply is refused too.
KeptOnlyOnError ==
    Idle => \A s \in Streams :
        host[s].ended => LetGo(s) \/ StuckAtHeaders(s) \/ ReplyRefused(s)

\* Every direction whose last event reaches the filter is let go in the end, or
\* stays after an error as above.
EndedIsReleased ==
    \A s \in Streams :
        host[s].ended ~>
          (LetGo(s) \/ (Idle /\ (StuckAtHeaders(s) \/ ReplyRefused(s))))
=============================================================================
