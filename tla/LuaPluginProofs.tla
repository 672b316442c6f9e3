--------------------------- MODULE LuaPluginProofs ---------------------------
(* Theorems about LuaPlugin: the filter is a well-behaved caller of its      *)
(* coroutines, so what LuaCoroutineProofs shows of them holds in the filter. *)
EXTENDS LuaPlugin, LuaCoroutineProofs

\* What a callback does once it has been entered.
LEMMA RunsOnCases ==
    ASSUME NEW s \in Streams, RunsOn(s)
    PROVE  \/ StartFailed(s) \/ StartSucceeded(s) \/ HandleHeadersEvent(s)
           \/ HandlerReturns(s)
           \/ (Native(s) \/ Script(s)) /\ UNCHANGED pluginVars
BY DEF RunsOn, CoroutineRuns, Script

\* A step of the filter or of the host is a step of one coroutine, or leaves
\* both alone.
FilterSteps == \E s \in Streams : FilterStep(s)

LEMMA PluginStepIsCoStep ==
    ASSUME PluginNext, cb \in Callback
    PROVE  FilterSteps \/ UNCHANGED coVars
<1>1. CASE OnCreate
  BY <1>1 DEF OnCreate
<1>2. ASSUME NEW s \in Streams, NEW end \in BOOLEAN, OnHeaders(s, end)
      PROVE  FilterSteps \/ UNCHANGED coVars
  <2>1. Start(s) \/ UNCHANGED coVars
    BY <1>2 DEF OnHeaders, NoCoroutine
  <2> QED BY <2>1 DEF FilterSteps, FilterStep, FilterCall
<1>3. ASSUME NEW s \in Streams, NEW data \in BOOLEAN, NEW end \in BOOLEAN,
             OnBody(s, data, end)
      PROVE  FilterSteps \/ UNCHANGED coVars
  <2>1. (\E d \in BOOLEAN : HandleBody(s, d, end)) \/ UNCHANGED coVars
    BY <1>3 DEF OnBody, NoCoroutine
  <2> QED BY <2>1 DEF FilterSteps, FilterStep, FilterCall
<1>4. ASSUME NEW s \in Streams, OnTrailers(s)
      PROVE  FilterSteps \/ UNCHANGED coVars
  <2>1. HandleTrailers(s) \/ UNCHANGED coVars
    BY <1>4 DEF OnTrailers, NoCoroutine
  <2> QED BY <2>1 DEF FilterSteps, FilterStep, FilterCall
<1>5. ASSUME NEW s \in Streams, RunsOn(s)
      PROVE  FilterSteps \/ UNCHANGED coVars
  <2>1. CASE HandleHeadersEvent(s)
    <3>1. cb.end_of_stream \in BOOLEAN
      BY DEF Callback
    <3>2. HandleHeaders(s, cb.end_of_stream)
      BY <2>1 DEF HandleHeadersEvent
    <3> QED BY <3>1, <3>2 DEF FilterSteps, FilterStep, FilterCall
  <2>2. CASE \E mark \in BOOLEAN : Return(s, mark)
    BY <2>2 DEF FilterSteps, FilterStep
  <2>3. CASE Native(s) \/ Script(s)
    BY <2>3 DEF FilterSteps, FilterStep
  <2>4. \/ HandleHeadersEvent(s)
        \/ \E mark \in BOOLEAN : Return(s, mark)
        \/ Native(s) \/ Script(s)
    <3>1. (Status(s) = "Continue") \in BOOLEAN
      OBVIOUS
    <3>2. CASE HandlerReturns(s)
      BY <3>1, <3>2 DEF HandlerReturns, Finish
    <3>3. CASE StartFailed(s) \/ StartSucceeded(s)
      BY <3>3 DEF StartFailed, StartSucceeded
    <3> QED BY <1>5, <3>2, <3>3, RunsOnCases
  <2> QED BY <2>1, <2>2, <2>3, <2>4
<1> QED BY <1>1, <1>2, <1>3, <1>4, <1>5 DEF PluginNext, HostNext

\* The callback in progress keeps its type.
LEMMA CallbackStep ==
    ASSUME cb \in Callback, [PluginNext]_vars
    PROVE  cb' \in Callback
<1>1. NoCallback \in Callback
  BY DEF NoCallback, Callback
<1>2. \A s \in Streams, e \in {"headers", "body", "trailers"}, end \in BOOLEAN :
         InCallback(s, e, end) \in Callback
  BY DEF InCallback, Callback
<1>3. [cb EXCEPT !.started = TRUE] \in Callback
  BY DEF Callback
<1>4. CASE UNCHANGED vars
  BY <1>4 DEF vars, pluginVars, historyVars
<1>5. CASE OnCreate
  BY <1>5 DEF OnCreate
<1>6. CASE HostNext
  <2>1. ASSUME NEW s \in Streams, NEW end \in BOOLEAN, OnHeaders(s, end)
        PROVE  cb' \in Callback
    BY <1>2, <2>1 DEF OnHeaders, NoCoroutine
  <2>2. ASSUME NEW s \in Streams, NEW data \in BOOLEAN, NEW end \in BOOLEAN,
               OnBody(s, data, end)
        PROVE  cb' \in Callback
    BY <1>2, <2>2 DEF OnBody, NoCoroutine
  <2>3. ASSUME NEW s \in Streams, OnTrailers(s)
        PROVE  cb' \in Callback
    BY <1>2, <2>3 DEF OnTrailers, NoCoroutine
  <2> QED BY <1>6, <2>1, <2>2, <2>3 DEF HostNext
<1>7. ASSUME NEW s \in Streams, RunsOn(s)
      PROVE  cb' \in Callback
  BY <1>1, <1>3, <1>7, RunsOnCases DEF  StartFailed, StartSucceeded, HandlerReturns, Finish,
     HandleHeadersEvent, pluginVars
<1> QED BY <1>4, <1>5, <1>6, <1>7 DEF PluginNext

LEMMA EndedFilterStep ==
    ASSUME EndedInv, cb \in Callback, [PluginNext]_vars
    PROVE  EndedInv'
<1>1. ASSUME NEW s \in Streams, FilterStep(s) PROVE EndedInv'
  <2>1. CoTypeOK'
    BY <1>1, CallTypes, NativeTypes, ScriptTypes, ReturnType
    DEF FilterStep, EndedInv, Call
  <2> QED BY <1>1, <2>1, EndedStep
<1>2. CASE UNCHANGED coVars
  BY <1>2 DEF coVars, EndedInv, CoTypeOK, EndedNeverWaits, WaitsForMore,
              ScriptReturnsToNative
<1> QED BY <1>1, <1>2, PluginStepIsCoStep DEF FilterSteps, vars

\* In the filter, no script of a stream that has ended is left waiting for body,
\* chunks or trailers.
THEOREM FilterEndedNeverWaits == PluginSpec => []EndedNeverWaits
<1>1. PluginInit => EndedInv /\ cb \in Callback
  <2> SUFFICES ASSUME PluginInit PROVE EndedInv /\ cb \in Callback
    OBVIOUS
  <2>1. CoTypeOK
    BY NewCoroutineType, StreamsAssumption, ScriptAssumption
    DEF PluginInit, CoInit, CoTypeOK, ThreadStates, Stages, Pushed
  <2>2. EndedNeverWaits /\ ScriptReturnsToNative
    BY DEF PluginInit, CoInit, NewCoroutine, EndedNeverWaits, WaitsForMore,
           ScriptReturnsToNative
  <2>3. cb \in Callback
    BY DEF PluginInit, NoCallback, Callback
  <2> QED BY <2>1, <2>2, <2>3 DEF EndedInv
<1>2. EndedInv /\ cb \in Callback /\ [PluginNext]_vars
        => EndedInv' /\ (cb \in Callback)'
  BY EndedFilterStep, CallbackStep
<1>3. EndedInv => EndedNeverWaits
  BY DEF EndedInv
<1> QED BY <1>1, <1>2, <1>3, PTL DEF PluginSpec

-----------------------------------------------------------------------------
(* What the filter knows of a direction between and within callbacks.       *)

HostSide == [headers : {"none", "held", "passed"}, chunks : 0..MaxChunks,
             buf : SUBSET (1..MaxChunks), out : SUBSET (1..MaxChunks),
             ended : BOOLEAN, closed : BOOLEAN]

FilterTypes ==
    /\ cb \in Callback
    /\ host \in [Streams -> HostSide]
    /\ reply \in [Streams -> {"none", "sent", "refused"}]
    /\ shown \in [Streams -> SUBSET (1..MaxChunks)]
    /\ missed \in [Streams -> SUBSET (1..MaxChunks)]

\* The coroutine a call is on is the one the callback is on, and a callback has
\* a call in progress, but between Start and HandleHeadersEvent.
CallbackOK ==
    /\ on # NoStream => on = cb.on
    /\ cb.on = NoStream => cb = NoCallback
    /\ cb.on # NoStream => cb.on \in exists /\ cb.event # "none"
    /\ (cb.on # NoStream /\ pc = "idle") => (cb.event = "headers" /\ cb.started)

\* The flag that freezes the headers says what the host did with them.
Marked(s) == co[s].headers_passed_on <=> host[s].headers = "passed"

Fresh(s) == co[s] = NewCoroutine /\ thread[s] = "ready" /\ ~unread[s]

\* No call reaches a coroutine before its headers, or one that does not exist.
Untouched(s) ==
    /\ ((host[s].headers = "none" /\ cb.on # s) \/ s \notin exists) => Fresh(s)
    /\ exists = NotCreated => host[s].headers = "none"

\* The callback in progress is about what the host has delivered last.
InStep(s) ==
    cb.on = s => /\ host[s].ended = cb.end_of_stream
                 /\ cb.event = "headers" <=> host[s].headers = "none"
                 /\ cb.event = "trailers" => cb.end_of_stream
                 /\ (cb.event = "headers" /\ ~cb.started)
                       => ~co[s].received_headers

\* The handler of the callback in progress on s has been called.
Handled(s) == cb.on = s /\ (cb.event = "headers" => cb.started /\ pc # "idle")

\* A coroutine has had its headers once they have been handled, or is over.
Received(s) ==
    ((s \in exists /\ host[s].headers # "none") \/ Handled(s)) =>
        co[s].received_headers \/ co[s].state = "kExited"

\* stream_ended_ is what the host said, as soon as the handler has been called,
\* unless HandleTrailers refuses the call.
EndSeen(s) ==
    /\ co[s].stream_ended => host[s].ended
    /\ co[s].received_trailers => co[s].stream_ended /\ host[s].headers # "none"
    /\ (Handled(s) /\ cb.end_of_stream) =>
          (co[s].stream_ended \/ (pc = "returned" /\ outcome = "error"))

\* No accessor waits for an HTTP call or after a response; a coroutine that runs
\* has not exited, and only one that has exited answers with an error.
Answers(s) ==
    /\ Running(s) => co[s].state = "kYielded"
    /\ co[s].yield_reason \notin {"kWaitForHttp", "kResponded"}
    /\ (on = s /\ pc = "returned" /\ outcome = "error")
          => co[s].state = "kExited"

SideOK(s) ==
    /\ Marked(s) /\ Untouched(s) /\ InStep(s)
    /\ Received(s) /\ EndSeen(s) /\ Answers(s)

FilterInv ==
    /\ EndedInv /\ ThreadAgrees /\ BodyAccounted
    /\ FilterTypes /\ CallbackOK /\ \A s \in Streams : SideOK(s)

\* What the host does with a status keeps its type and forgets no end.
LEMMA ApplyResult ==
    ASSUME NEW h \in HostSide, NEW status
    PROVE  /\ Apply(h, status) \in HostSide
           /\ Apply(h, status).ended = h.ended
           /\ Apply(h, status).chunks = h.chunks
           /\ Apply(h, status).buf \subseteq h.buf
           /\ status = "Continue" => /\ Apply(h, status).headers = "passed"
                                     /\ Apply(h, status).closed = h.ended
           /\ status # "Continue" =>
                 /\ Apply(h, status).headers = "passed" <=> h.headers = "passed"
                 /\ Apply(h, status).out = h.out
                 /\ status # "StopIterationNoBuffer" =>
                       Apply(h, status).buf = h.buf
           /\ status = "StopIteration" => Apply(h, status).headers # "none"
           /\ h.headers # "none" => Apply(h, status).headers # "none"
<1>1. CASE status = "Continue"
  <2>1. Apply(h, status) = Forward(h)
    BY <1>1 DEF Apply
  <2> QED BY <1>1, <2>1 DEF Forward, HostSide
<1>2. CASE status = "StopIteration"
  <2>1. Apply(h, status) = [h EXCEPT !.headers = IF @ = "none" THEN "held" ELSE @]
    BY <1>2 DEF Apply
  <2> QED BY <1>2, <2>1 DEF HostSide
<1>3. CASE status = "StopIterationNoBuffer"
  <2>1. Apply(h, status) = [h EXCEPT !.buf = {}]
    BY <1>3 DEF Apply
  <2> QED BY <1>3, <2>1 DEF HostSide
<1>4. CASE status \notin {"Continue", "StopIteration", "StopIterationNoBuffer"}
  <2>1. Apply(h, status) = h
    BY <1>4 DEF Apply
  <2> QED BY <1>4, <2>1
<1> QED BY <1>1, <1>2, <1>3, <1>4

\* A direction that neither the call nor the callback is on.
LEMMA OtherSide ==
    ASSUME NEW t \in Streams, SideOK(t), exists' = exists,
           co'[t] = co[t], thread'[t] = thread[t], unread'[t] = unread[t],
           host'[t] = host[t], cb.on # t, cb'.on # t, on' # t
    PROVE  SideOK(t)'
BY DEF SideOK, Marked, Untouched, Fresh, InStep, Handled, Received, EndSeen,
       Answers, Running

\* What the host has of a direction when it delivers an event.
HeadersCome(s, end) == [host[s] EXCEPT !.ended = end]

BodyComes(s, data, end) ==
    LET n == IF data THEN host[s].chunks + 1 ELSE host[s].chunks
    IN  [host[s] EXCEPT !.ended = end, !.chunks = n,
                        !.buf = IF data THEN @ \cup {n} ELSE @]

LEMMA HeadersComeResult ==
    ASSUME FilterTypes, NEW s \in Streams, NEW end \in BOOLEAN
    PROVE  /\ HeadersCome(s, end) \in HostSide
           /\ HeadersCome(s, end).headers = host[s].headers
           /\ HeadersCome(s, end).ended = end
           /\ HeadersCome(s, end).buf = host[s].buf
           /\ HeadersCome(s, end).out = host[s].out
           /\ HeadersCome(s, end).chunks = host[s].chunks
<1>1. host[s] \in HostSide
  BY DEF FilterTypes
<1> QED BY <1>1 DEF HeadersCome, HostSide

LEMMA BodyComesResult ==
    ASSUME FilterTypes, NEW s \in Streams, NEW data \in BOOLEAN,
           NEW end \in BOOLEAN, data => host[s].chunks < MaxChunks
    PROVE  /\ BodyComes(s, data, end) \in HostSide
           /\ BodyComes(s, data, end).headers = host[s].headers
           /\ BodyComes(s, data, end).ended = end
           /\ host[s].buf \subseteq BodyComes(s, data, end).buf
           /\ BodyComes(s, data, end).out = host[s].out
<1>1. host[s] \in HostSide
  BY DEF FilterTypes
<1> DEFINE n == IF data THEN host[s].chunks + 1 ELSE host[s].chunks
<1>2. n \in 0..MaxChunks /\ (data => n \in 1..MaxChunks)
  BY <1>1, MaxChunksAssumption DEF HostSide
<1> DEFINE b == IF data THEN host[s].buf \cup {n} ELSE host[s].buf
<1>3. b \in SUBSET (1..MaxChunks) /\ host[s].buf \subseteq b
  BY <1>1, <1>2 DEF HostSide
<1>4. BodyComes(s, data, end) =
        [host[s] EXCEPT !.ended = end, !.chunks = n, !.buf = b]
  BY DEF BodyComes
<1> HIDE DEF n, b
<1> QED BY <1>1, <1>2, <1>3, <1>4 DEF HostSide

\* The callbacks, with what the host holds named.
LEMMA OnHeadersCases ==
    ASSUME NEW s \in Streams, NEW end \in BOOLEAN, OnHeaders(s, end)
    PROVE  /\ Idle /\ exists # NotCreated /\ exists' = exists
           /\ ~Replied /\ host[s].headers = "none"
           /\ \/ /\ s \notin exists
                 /\ NoCoroutine(s, "headers", HeadersCome(s, end),
                                "StopIteration")
              \/ /\ s \in exists
                 /\ host' = [host EXCEPT ![s] = HeadersCome(s, end)]
                 /\ cb' = InCallback(s, "headers", end)
                 /\ Start(s) /\ reply' = reply
BY DEF OnHeaders, HeadersCome

LEMMA OnBodyCases ==
    ASSUME NEW s \in Streams, NEW data \in BOOLEAN, NEW end \in BOOLEAN,
           OnBody(s, data, end)
    PROVE  /\ Idle /\ exists' = exists /\ ~Replied
           /\ host[s].headers # "none" /\ ~host[s].ended
           /\ data => host[s].chunks < MaxChunks
           /\ \/ /\ s \notin exists
                 /\ NoCoroutine(s, "body", BodyComes(s, data, end),
                                "StopIterationNoBuffer")
              \/ /\ s \in exists
                 /\ host' = [host EXCEPT ![s] = BodyComes(s, data, end)]
                 /\ cb' = InCallback(s, "body", end)
                 /\ \E some \in BOOLEAN : HandleBody(s, some, end)
                 /\ reply' = reply
BY DEF OnBody, BodyComes

LEMMA OnTrailersCases ==
    ASSUME NEW s \in Streams, OnTrailers(s)
    PROVE  /\ Idle /\ exists' = exists /\ ~Replied
           /\ host[s].headers # "none" /\ ~host[s].ended
           /\ \/ /\ s \notin exists
                 /\ NoCoroutine(s, "trailers", HeadersCome(s, TRUE),
                                "StopIteration")
              \/ /\ s \in exists
                 /\ host' = [host EXCEPT ![s] = HeadersCome(s, TRUE)]
                 /\ cb' = InCallback(s, "trailers", TRUE)
                 /\ HandleTrailers(s) /\ reply' = reply
BY DEF OnTrailers, HeadersCome

\* What a step does to the history of the chunks.
LEMMA HistoryStep ==
    ASSUME PluginNext
    PROVE  /\ \/ shown' = shown
              \/ \E s \in Streams :
                    shown' = [shown EXCEPT ![s] = @ \cup host'[s].buf]
           /\ \/ missed' = missed
              \/ \E s \in Streams :
                    missed' = [missed EXCEPT ![s] = @ \cup PassedUnseen(s)]
<1>1. CASE OnCreate
  BY <1>1 DEF OnCreate, historyVars
<1>2. ASSUME NEW s \in Streams,
             \/ \E end \in BOOLEAN : OnHeaders(s, end)
             \/ \E data, end \in BOOLEAN : OnBody(s, data, end)
             \/ OnTrailers(s)
      PROVE  /\ \/ shown' = shown
                \/ shown' = [shown EXCEPT ![s] = @ \cup host'[s].buf]
             /\ missed' = missed
  <2>1. ASSUME NEW end \in BOOLEAN, OnHeaders(s, end)
        PROVE  shown' = shown /\ missed' = missed
    BY <2>1 DEF OnHeaders, NoCoroutine
  <2>2. ASSUME NEW data \in BOOLEAN, NEW end \in BOOLEAN, OnBody(s, data, end)
        PROVE  /\ \/ shown' = shown
                  \/ shown' = [shown EXCEPT ![s] = @ \cup host'[s].buf]
               /\ missed' = missed
    BY <2>2 DEF OnBody, NoCoroutine, Shows
  <2>3. CASE OnTrailers(s)
    BY <2>3 DEF OnTrailers, NoCoroutine, Shows
  <2> QED BY <1>2, <2>1, <2>2, <2>3
<1>3. ASSUME NEW s \in Streams, RunsOn(s)
      PROVE  /\ \/ shown' = shown
                \/ shown' = [shown EXCEPT ![s] = @ \cup host'[s].buf]
             /\ \/ missed' = missed
                \/ missed' = [missed EXCEPT ![s] = @ \cup PassedUnseen(s)]
  BY <1>3 DEF RunsOn, StartFailed, StartSucceeded, HandleHeadersEvent,
     HandlerReturns, Finish, CoroutineRuns, Shows, historyVars
<1> QED BY <1>1, <1>2, <1>3 DEF PluginNext, HostNext

LEMMA HistoryTypes ==
    ASSUME FilterTypes, [PluginNext]_vars, host' \in [Streams -> HostSide]
    PROVE  /\ shown' \in [Streams -> SUBSET (1..MaxChunks)]
           /\ missed' \in [Streams -> SUBSET (1..MaxChunks)]
<1>1. ASSUME NEW s \in Streams
      PROVE  /\ host'[s].buf \in SUBSET (1..MaxChunks)
             /\ PassedUnseen(s) \in SUBSET (1..MaxChunks)
  BY DEF FilterTypes, HostSide, PassedUnseen
<1>2. CASE UNCHANGED vars
  BY <1>2 DEF vars, historyVars, FilterTypes
<1>3. CASE PluginNext
  <2>1. shown' \in [Streams -> SUBSET (1..MaxChunks)]
    BY <1>1, <1>3, HistoryStep DEF FilterTypes
  <2>2. missed' \in [Streams -> SUBSET (1..MaxChunks)]
    BY <1>1, <1>3, HistoryStep DEF FilterTypes
  <2> QED BY <2>1, <2>2
<1> QED BY <1>2, <1>3

\* Sending a local reply and taking a status keep the types.
LEMMA FilterTypesStep ==
    ASSUME FilterTypes, [PluginNext]_vars
    PROVE  FilterTypes'
<1>0. cb' \in Callback
  BY CallbackStep DEF FilterTypes
<1>1. SUFFICES /\ host' \in [Streams -> HostSide]
               /\ reply' \in [Streams -> {"none", "sent", "refused"}]
  BY <1>0, HistoryTypes DEF FilterTypes
<1>2. ASSUME NEW s \in Streams, NEW h \in HostSide, NEW event, NEW status,
             NoCoroutine(s, event, h, status)
      PROVE  /\ host' \in [Streams -> HostSide]
             /\ reply' \in [Streams -> {"none", "sent", "refused"}]
  <2>1. Apply(h, status) \in HostSide
    BY ApplyResult
  <2> QED BY <1>2, <2>1 DEF NoCoroutine, SendLocalResponse, FilterTypes
<1>3. ASSUME NEW s \in Streams, NEW end \in BOOLEAN, OnHeaders(s, end)
      PROVE  /\ host' \in [Streams -> HostSide]
             /\ reply' \in [Streams -> {"none", "sent", "refused"}]
  <2>1. HeadersCome(s, end) \in HostSide
    BY HeadersComeResult
  <2> QED BY <1>2, <1>3, <2>1, OnHeadersCases DEF FilterTypes
<1>4. ASSUME NEW s \in Streams, NEW data \in BOOLEAN, NEW end \in BOOLEAN,
             OnBody(s, data, end)
      PROVE  /\ host' \in [Streams -> HostSide]
             /\ reply' \in [Streams -> {"none", "sent", "refused"}]
  <2>1. BodyComes(s, data, end) \in HostSide
    BY <1>4, BodyComesResult, OnBodyCases
  <2> QED BY <1>2, <1>4, <2>1, OnBodyCases DEF FilterTypes
<1>5. ASSUME NEW s \in Streams, OnTrailers(s)
      PROVE  /\ host' \in [Streams -> HostSide]
             /\ reply' \in [Streams -> {"none", "sent", "refused"}]
  <2>1. HeadersCome(s, TRUE) \in HostSide
    BY HeadersComeResult
  <2> QED BY <1>2, <1>5, <2>1, OnTrailersCases DEF FilterTypes
<1>6. ASSUME NEW s \in Streams, StartFailed(s) \/ HandlerReturns(s)
      PROVE  /\ host' \in [Streams -> HostSide]
             /\ reply' \in [Streams -> {"none", "sent", "refused"}]
  <2>1. /\ Apply(host[s], Status(s)) \in HostSide
        /\ Apply(host[s], "StopIteration") \in HostSide
    BY ApplyResult DEF FilterTypes
  <2>2. \/ host' = [host EXCEPT ![s] = Apply(host[s], Status(s))]
        \/ host' = [host EXCEPT ![s] = Apply(host[s], "StopIteration")]
    BY <1>6 DEF StartFailed, HandlerReturns, Finish
  <2>3. \/ reply' = reply \/ SendLocalResponse(s, cb.event)
        \/ reply' = [reply EXCEPT ![s] = "none"]
    BY <1>6 DEF StartFailed, HandlerReturns, Finish
  <2>4. reply' \in [Streams -> {"none", "sent", "refused"}]
    BY <2>3 DEF SendLocalResponse, FilterTypes
  <2> QED BY <2>1, <2>2, <2>4 DEF FilterTypes
<1>7. CASE UNCHANGED <<host, reply>>
  BY <1>7 DEF FilterTypes
<1> QED BY <1>3, <1>4, <1>5, <1>6, <1>7, RunsOnCases DEF PluginNext, HostNext, OnCreate, StartSucceeded,
            HandleHeadersEvent, vars, pluginVars, historyVars

\* The parts of FilterInv that the calls' effects rest on.
LEMMA FilterFacts ==
    ASSUME FilterInv
    PROVE  /\ CoTypeOK /\ ThreadAgrees /\ FilterTypes /\ CallbackOK
           /\ \A s \in Streams : SideOK(s) /\ co[s] \in Coroutine
           /\ NoStream \notin Streams
BY StreamsAssumption DEF FilterInv, EndedInv, CoTypeOK

\* A callback on a null coroutine.
LEMMA NoCoroutineKeeps ==
    ASSUME FilterInv, NEW s \in Streams, s \notin exists, Idle,
           NEW h \in HostSide, h.headers = host[s].headers,
           exists # NotCreated \/ h.headers # "none",
           NEW event, NEW status, status # "Continue",
           NoCoroutine(s, event, h, status), exists' = exists
    PROVE  CallbackOK' /\ \A t \in Streams : SideOK(t)'
<1>1. UNCHANGED <<co, thread, on, pc, ret, outcome, unread, cb>>
  BY DEF NoCoroutine, coVars
<1>2. /\ host'[s] = Apply(h, status)
      /\ \A t \in Streams \ {s} : host'[t] = host[t]
  BY FilterFacts DEF NoCoroutine, FilterTypes
<1>3. CallbackOK'
  BY <1>1, FilterFacts DEF CallbackOK
<1>4. ASSUME NEW t \in Streams, t # s PROVE SideOK(t)'
  BY <1>1, <1>2, <1>4, OtherSide, FilterFacts DEF Idle, NoCallback, CallbackOK
<1>5. host'[s].headers = "passed" <=> host[s].headers = "passed"
  BY <1>2, ApplyResult
<1>6. Fresh(s) /\ exists # NotCreated /\ cb.on = NoStream /\ SideOK(s)
  BY FilterFacts DEF SideOK, Untouched, Idle, NoCallback
<1>7. ~co[s].stream_ended /\ ~co[s].received_trailers
  BY <1>6 DEF Fresh, NewCoroutine
<1>8. SideOK(s)'
  BY <1>1, <1>5, <1>6, <1>7, FilterFacts
  DEF SideOK, Marked, Untouched, Fresh, InStep, Handled, Received, EndSeen,
      Answers, Running, NotCreated
<1> QED BY <1>3, <1>4, <1>8

\* The coroutine s, of the callback that begins or goes on, after a call.
LEMMA OwnSide ==
    ASSUME FilterInv, NEW s \in Streams, exists' = exists, s \in exists,
           on' \in {s, NoStream}, cb'.on \in {s, NoStream},
           cb.on \in {s, NoStream},
           \A t \in Streams \ {s} : /\ co'[t] = co[t] /\ thread'[t] = thread[t]
                                    /\ unread'[t] = unread[t]
                                    /\ host'[t] = host[t],
           SideOK(s)'
    PROVE  \A t \in Streams : SideOK(t)'
<1>1. ASSUME NEW t \in Streams, t # s PROVE SideOK(t)'
  BY <1>1, OtherSide, FilterFacts
<1> QED BY <1>1

LEMMA OnHeadersKeeps ==
    ASSUME FilterInv, NEW s \in Streams, NEW end \in BOOLEAN,
           OnHeaders(s, end)
    PROVE  CallbackOK' /\ \A t \in Streams : SideOK(t)'
<1>0. /\ HeadersCome(s, end) \in HostSide
      /\ HeadersCome(s, end).headers = host[s].headers
      /\ HeadersCome(s, end).ended = end
  BY HeadersComeResult, FilterFacts
<1>1. CASE s \notin exists
  BY <1>0, <1>1, OnHeadersCases, NoCoroutineKeeps
<1>2. CASE s \in exists
  <2>1. /\ Idle /\ exists' = exists /\ host[s].headers = "none"
        /\ exists # NotCreated
        /\ host' = [host EXCEPT ![s] = HeadersCome(s, end)]
        /\ cb' = InCallback(s, "headers", end) /\ Start(s)
    BY <1>2, OnHeadersCases
  <2>2. /\ host'[s] = HeadersCome(s, end)
        /\ \A t \in Streams \ {s} : host'[t] = host[t]
    BY <2>1, FilterFacts DEF FilterTypes
  <2>3. /\ cb.on = NoStream /\ cb'.on = s /\ cb'.event = "headers"
        /\ cb'.end_of_stream = end /\ ~cb'.started
    BY <2>1 DEF Idle, NoCallback, InCallback
  <2>4. Fresh(s) /\ SideOK(s)
    BY <2>1, <2>3, FilterFacts DEF SideOK, Untouched
  <2>5. /\ UNCHANGED <<unread, thread>>
        /\ SameEvents(co[s], co'[s])
        /\ co'[s].yield_reason = "kWaitToStart"
        /\ \/ pc' = "script" /\ outcome' = "ok" /\ co'[s].state = "kYielded"
           \/ pc' = "returned" /\ outcome' = "error" /\ co'[s].state = "kExited"
    BY <2>1, <2>4, StartResult, FilterFacts DEF Fresh
  <2>6. on' = s /\ \A t \in Streams \ {s} : co'[t] = co[t]
    BY <2>1, FilterCallEffect, FilterFacts DEF FilterCall
  <2>7. CallbackOK'
    BY <1>2, <2>1, <2>3, <2>5, <2>6, FilterFacts DEF CallbackOK
  <2>8. /\ ~co'[s].stream_ended /\ ~co'[s].received_trailers
        /\ ~co'[s].headers_passed_on /\ ~co'[s].received_headers
    BY <2>4, <2>5 DEF Fresh, NewCoroutine, SameEvents
  <2>9. SideOK(s)'
    BY <1>0, <1>2, <2>1, <2>2, <2>3, <2>5, <2>8
    DEF SideOK, Marked, Untouched, Fresh, InStep, Handled, Received, EndSeen,
        Answers, Running
  <2> QED BY <1>2, <2>1, <2>2, <2>3, <2>5, <2>6, <2>7, <2>9, OwnSide
<1> QED BY <1>1, <1>2

LEMMA OnBodyKeeps ==
    ASSUME FilterInv, NEW s \in Streams, NEW data \in BOOLEAN,
           NEW end \in BOOLEAN, OnBody(s, data, end)
    PROVE  CallbackOK' /\ \A t \in Streams : SideOK(t)'
<1>0. /\ BodyComes(s, data, end) \in HostSide
      /\ BodyComes(s, data, end).headers = host[s].headers
      /\ BodyComes(s, data, end).ended = end
  BY BodyComesResult, OnBodyCases, FilterFacts
<1>1. CASE s \notin exists
  BY <1>0, <1>1, OnBodyCases, NoCoroutineKeeps
<1>2. CASE s \in exists
  <2>1. /\ Idle /\ exists' = exists /\ host[s].headers # "none"
        /\ ~host[s].ended
        /\ host' = [host EXCEPT ![s] = BodyComes(s, data, end)]
        /\ cb' = InCallback(s, "body", end)
    BY <1>2, OnBodyCases
  <2>2. PICK some \in BOOLEAN : HandleBody(s, some, end)
    BY <1>2, OnBodyCases
  <2>3. /\ host'[s] = BodyComes(s, data, end)
        /\ \A t \in Streams \ {s} : host'[t] = host[t]
    BY <2>1, FilterFacts DEF FilterTypes
  <2>4. /\ cb.on = NoStream /\ cb'.on = s /\ cb'.event = "body"
        /\ cb'.end_of_stream = end
    BY <2>1 DEF Idle, NoCallback, InCallback
  <2>5. SideOK(s) /\ ~co[s].stream_ended /\ ~co[s].received_trailers
    BY <2>1, FilterFacts DEF SideOK, EndSeen
  <2>6. /\ co'[s].headers_passed_on = co[s].headers_passed_on
        /\ co'[s].received_headers = co[s].received_headers
        /\ co'[s].received_trailers = co[s].received_trailers
        /\ co'[s].stream_ended = end
        /\ \A t \in Streams \ {s} : unread'[t] = unread[t]
        /\ \/ Runs(s)
           \/ pc' \in {"tail", "returned"} /\ outcome' = "ok" /\ SameState(s)
    BY <2>2, <2>5, HandleBodyResult, FilterFacts
  <2>7. /\ on' = s /\ thread' = thread
        /\ \A t \in Streams \ {s} : co'[t] = co[t]
    BY <2>2, FilterCallEffect, FilterFacts DEF FilterCall
  <2>8. CallbackOK'
    BY <1>2, <2>1, <2>4, <2>6, <2>7, FilterFacts DEF CallbackOK, Runs
  <2>9. co[s].received_headers \/ co[s].state = "kExited"
    BY <1>2, <2>1, <2>5 DEF SideOK, Received
  <2>10. /\ co'[s].received_headers \/ co'[s].state = "kExited"
         /\ co'[s].yield_reason \notin {"kWaitForHttp", "kResponded"}
         /\ outcome' = "ok"
         /\ pc' = "script" => co'[s].state = "kYielded"
    <3>1. CASE Runs(s)
      BY <2>6, <2>9, <3>1 DEF Runs
    <3>2. CASE /\ SameState(s) /\ outcome' = "ok"
               /\ pc' \in {"tail", "returned"}
      BY <2>5, <2>6, <2>9, <3>2 DEF SameState, SideOK, Answers
    <3> QED BY <2>6, <3>1, <3>2
  <2>11. SideOK(s)'
    BY <1>0, <1>2, <2>1, <2>3, <2>4, <2>5, <2>6, <2>7, <2>10
    DEF SideOK, Marked, Untouched, Fresh, InStep, Handled, Received, EndSeen,
        Answers, Running
  <2> QED BY <1>2, <2>1, <2>3, <2>4, <2>6, <2>7, <2>8, <2>11, OwnSide
<1> QED BY <1>1, <1>2

LEMMA OnTrailersKeeps ==
    ASSUME FilterInv, NEW s \in Streams, OnTrailers(s)
    PROVE  CallbackOK' /\ \A t \in Streams : SideOK(t)'
<1>0. /\ HeadersCome(s, TRUE) \in HostSide
      /\ HeadersCome(s, TRUE).headers = host[s].headers
      /\ HeadersCome(s, TRUE).ended = TRUE
  BY HeadersComeResult, FilterFacts
<1>1. CASE s \notin exists
  BY <1>0, <1>1, OnTrailersCases, NoCoroutineKeeps
<1>2. CASE s \in exists
  <2>1. /\ Idle /\ exists' = exists /\ host[s].headers # "none"
        /\ ~host[s].ended
        /\ host' = [host EXCEPT ![s] = HeadersCome(s, TRUE)]
        /\ cb' = InCallback(s, "trailers", TRUE) /\ HandleTrailers(s)
    BY <1>2, OnTrailersCases
  <2>2. /\ host'[s] = HeadersCome(s, TRUE)
        /\ \A t \in Streams \ {s} : host'[t] = host[t]
    BY <2>1, FilterFacts DEF FilterTypes
  <2>3. /\ cb.on = NoStream /\ cb'.on = s /\ cb'.event = "trailers"
        /\ cb'.end_of_stream = TRUE
    BY <2>1 DEF Idle, NoCallback, InCallback
  <2>4. SideOK(s) /\ ~co[s].stream_ended /\ ~co[s].received_trailers
    BY <2>1, FilterFacts DEF SideOK, EndSeen
  <2>5. co[s].received_headers \/ co[s].state = "kExited"
    BY <1>2, <2>1, <2>4 DEF SideOK, Received
  <2>6. /\ co'[s].headers_passed_on = co[s].headers_passed_on
        /\ co'[s].received_headers = co[s].received_headers
        /\ \A t \in Streams \ {s} : unread'[t] = unread[t]
        /\ \/ /\ ~co[s].received_headers /\ co' = co
              /\ pc' = "returned" /\ outcome' = "error"
           \/ /\ co'[s].received_trailers /\ co'[s].stream_ended
              /\ \/ Runs(s)
                 \/ /\ pc' \in {"chunks?", "returned"} /\ outcome' = "ok"
                    /\ SameState(s)
    BY <2>1, <2>4, HandleTrailersResult, FilterFacts
  <2>7. /\ on' = s /\ thread' = thread
        /\ \A t \in Streams \ {s} : co'[t] = co[t]
    BY <2>1, FilterCallEffect, FilterFacts DEF FilterCall
  <2>8. CallbackOK'
    BY <1>2, <2>1, <2>3, <2>6, <2>7, FilterFacts DEF CallbackOK, Runs
  <2>9. CASE /\ ~co[s].received_headers /\ co' = co
             /\ pc' = "returned" /\ outcome' = "error"
    <3>1. co'[s] = co[s] /\ co'[s].state = "kExited"
      BY <2>5, <2>9
    <3>2. (Marked(s) /\ Untouched(s) /\ InStep(s))'
      BY <1>0, <1>2, <2>1, <2>2, <2>3, <2>4, <3>1
      DEF SideOK, Marked, Untouched, InStep
    <3>3. (Received(s) /\ EndSeen(s) /\ Answers(s))'
      BY <1>0, <2>2, <2>3, <2>4, <2>9, <3>1
      DEF SideOK, Handled, Received, EndSeen, Answers, Running
    <3>4. SideOK(s)'
      BY <3>2, <3>3 DEF SideOK
    <3> QED BY <1>2, <2>1, <2>2, <2>3, <2>6, <2>7, <2>8, <3>4, OwnSide
  <2>10. CASE /\ co'[s].received_trailers /\ co'[s].stream_ended
              /\ \/ Runs(s)
                 \/ /\ pc' \in {"chunks?", "returned"} /\ outcome' = "ok"
                    /\ SameState(s)
    <3>1. /\ co'[s].received_headers \/ co'[s].state = "kExited"
          /\ co'[s].yield_reason \notin {"kWaitForHttp", "kResponded"}
          /\ outcome' = "ok" /\ (pc' = "script" => co'[s].state = "kYielded")
      BY <2>4, <2>5, <2>6, <2>10 DEF Runs, SameState, SideOK, Answers
    <3>2. (Marked(s) /\ Untouched(s) /\ InStep(s))'
      BY <1>0, <1>2, <2>1, <2>2, <2>3, <2>4, <2>6
      DEF SideOK, Marked, Untouched, InStep
    <3>3. (Received(s) /\ Answers(s))'
      BY <3>1 DEF Received, Answers, Running
    <3>4. EndSeen(s)'
      BY <1>0, <2>1, <2>2, <2>10 DEF EndSeen
    <3>5. SideOK(s)'
      BY <3>2, <3>3, <3>4 DEF SideOK
    <3> QED BY <1>2, <2>1, <2>2, <2>3, <2>6, <2>7, <2>8, <3>5, OwnSide
  <2> QED BY <2>6, <2>9, <2>10
<1> QED BY <1>1, <1>2

\* The caller takes the result; the callback ends or, after Start, goes on.
LEMMA StartReturnsKeeps ==
    ASSUME FilterInv, NEW s \in Streams, StartFailed(s) \/ StartSucceeded(s)
    PROVE  CallbackOK' /\ \A t \in Streams : SideOK(t)'
<1>1. /\ Return(s, FALSE) /\ cb.on = s /\ cb.event = "headers" /\ ~cb.started
      /\ exists' = exists
  BY DEF StartFailed, StartSucceeded
<1>2. /\ pc = "returned" /\ on = s /\ pc' = "idle" /\ on' = NoStream
      /\ thread' = thread /\ unread' = unread
      /\ \A t \in Streams \ {s} : co'[t] = co[t]
      /\ co'[s].state = co[s].state
      /\ co'[s].yield_reason = co[s].yield_reason
      /\ co'[s].received_headers = co[s].received_headers
      /\ co'[s].received_trailers = co[s].received_trailers
      /\ co'[s].stream_ended = co[s].stream_ended
      /\ co'[s].headers_passed_on = (co[s].headers_passed_on \/ FALSE)
  BY <1>1, ReturnEffect, ReturnKeeps, FilterFacts
<1>3. /\ SideOK(s) /\ s \in exists /\ exists # NotCreated
      /\ cb \in Callback /\ host[s] \in HostSide
  BY <1>1, FilterFacts DEF CallbackOK, FilterTypes, NotCreated
<1>4. CASE StartFailed(s)
  <2>1. /\ host'[s] = Apply(host[s], "StopIteration") /\ cb' = NoCallback
        /\ \A t \in Streams \ {s} : host'[t] = host[t]
        /\ outcome = "error"
    BY <1>4, FilterFacts DEF StartFailed, FilterTypes
  <2>2. /\ host'[s].headers = "passed" <=> host[s].headers = "passed"
        /\ host'[s].headers # "none" /\ host'[s].ended = host[s].ended
    BY <1>3, <2>1, ApplyResult
  <2>3. cb'.on = NoStream /\ CallbackOK'
    BY <1>2, <2>1 DEF NoCallback, CallbackOK
  <2>4. co[s].state = "kExited"
    BY <1>2, <1>3, <2>1 DEF SideOK, Answers
  <2>5. SideOK(s)'
    BY <1>1, <1>2, <1>3, <2>2, <2>3, <2>4, FilterFacts
    DEF SideOK, Marked, Untouched, InStep, Handled, Received, EndSeen,
        Answers, Running
  <2> QED BY <1>1, <1>2, <1>3, <2>1, <2>3, <2>5, OwnSide
<1>5. CASE StartSucceeded(s)
  <2>1. host' = host /\ cb' = [cb EXCEPT !.started = TRUE]
    BY <1>5 DEF StartSucceeded
  <2>2. /\ cb'.on = s /\ cb'.event = "headers" /\ cb'.started
        /\ cb'.end_of_stream = cb.end_of_stream
    BY <1>1, <1>3, <2>1 DEF Callback
  <2>3. CallbackOK'
    BY <1>1, <1>2, <1>3, <2>2, FilterFacts DEF CallbackOK
  <2>4. SideOK(s)'
    BY <1>1, <1>2, <1>3, <2>1, <2>2, FilterFacts
    DEF SideOK, Marked, Untouched, InStep, Handled, Received, EndSeen,
        Answers, Running
  <2> QED BY <1>1, <1>2, <1>3, <2>1, <2>2, <2>3, <2>4, OwnSide
<1> QED BY <1>4, <1>5

LEMMA HandlerReturnsKeeps ==
    ASSUME FilterInv, NEW s \in Streams, HandlerReturns(s)
    PROVE  CallbackOK' /\ \A t \in Streams : SideOK(t)'
<1> DEFINE mark == Status(s) = "Continue"
<1>0. mark \in BOOLEAN
  OBVIOUS
<1>1. /\ Return(s, mark) /\ cb.on = s /\ (cb.event = "headers" => cb.started)
      /\ exists' = exists /\ cb' = NoCallback
      /\ host' = [host EXCEPT ![s] = Apply(host[s], Status(s))]
  BY DEF HandlerReturns, Finish
<1> HIDE DEF mark
<1>2. /\ pc = "returned" /\ on = s /\ pc' = "idle" /\ on' = NoStream
      /\ thread' = thread /\ unread' = unread
      /\ \A t \in Streams \ {s} : co'[t] = co[t]
      /\ co'[s].state = co[s].state
      /\ co'[s].yield_reason = co[s].yield_reason
      /\ co'[s].received_headers = co[s].received_headers
      /\ co'[s].received_trailers = co[s].received_trailers
      /\ co'[s].stream_ended = co[s].stream_ended
      /\ co'[s].headers_passed_on = (co[s].headers_passed_on \/ mark)
  BY <1>0, <1>1, ReturnEffect, ReturnKeeps, FilterFacts
<1>3. /\ SideOK(s) /\ s \in exists /\ exists # NotCreated
      /\ host[s] \in HostSide /\ cb.event # "none"
  BY <1>1, FilterFacts DEF CallbackOK, FilterTypes, NotCreated
<1>4. /\ host'[s] = Apply(host[s], Status(s))
      /\ \A t \in Streams \ {s} : host'[t] = host[t]
  BY <1>1, FilterFacts DEF FilterTypes
<1>5. /\ mark => host'[s].headers = "passed"
      /\ ~mark => (host'[s].headers = "passed" <=> host[s].headers = "passed")
      /\ host'[s].ended = host[s].ended
      /\ host[s].headers # "none" => host'[s].headers # "none"
  BY <1>3, <1>4, ApplyResult DEF mark
<1>6. cb'.on = NoStream /\ CallbackOK'
  BY <1>1, <1>2 DEF NoCallback, CallbackOK
<1>7. host[s].headers = "none" => host'[s].headers # "none"
  <2> SUFFICES ASSUME host[s].headers = "none" PROVE host'[s].headers # "none"
    OBVIOUS
  <2>1. cb.event = "headers"
    BY <1>1, <1>3 DEF SideOK, InStep
  <2>2. Status(s) \in {"StopIteration", "Continue"}
    BY <2>1 DEF Status, HeadersStatus
  <2> QED BY <1>3, <1>4, <2>2, ApplyResult
<1>8. SideOK(s)'
  BY <1>1, <1>2, <1>3, <1>5, <1>6, <1>7, FilterFacts
  DEF SideOK, Marked, Untouched, InStep, Handled, Received, EndSeen,
        Answers, Running
<1> QED BY <1>1, <1>2, <1>3, <1>4, <1>6, <1>8, OwnSide

LEMMA HandleHeadersEventKeeps ==
    ASSUME FilterInv, NEW s \in Streams, HandleHeadersEvent(s)
    PROVE  CallbackOK' /\ \A t \in Streams : SideOK(t)'
<1>1. /\ cb.on = s /\ cb.event = "headers" /\ cb.started
      /\ HandleHeaders(s, cb.end_of_stream)
      /\ exists' = exists /\ cb' = cb /\ host' = host
  BY DEF HandleHeadersEvent, pluginVars
<1>2. /\ SideOK(s) /\ s \in exists /\ cb.end_of_stream \in BOOLEAN
      /\ host[s].headers = "none"
  BY <1>1, FilterFacts DEF CallbackOK, FilterTypes, Callback, SideOK, InStep
<1>3. /\ co'[s].headers_passed_on = co[s].headers_passed_on
      /\ co'[s].received_headers /\ co'[s].stream_ended = cb.end_of_stream
      /\ co'[s].received_trailers = co[s].received_trailers
      /\ \A t \in Streams \ {s} : unread'[t] = unread[t]
      /\ \/ Runs(s)
         \/ pc' = "tail" /\ outcome' = "ok" /\ SameState(s)
         \/ /\ pc' = "returned" /\ outcome' = "error" /\ SameState(s)
            /\ co[s].state = "kExited"
  BY <1>1, <1>2, HandleHeadersResult, FilterFacts
<1>4. /\ pc = "idle" /\ on' = s /\ thread' = thread
      /\ \A t \in Streams \ {s} : co'[t] = co[t]
  BY <1>1, <1>2, FilterCallEffect, FilterFacts DEF FilterCall
<1>5. CallbackOK'
  BY <1>1, <1>2, <1>4, FilterFacts DEF CallbackOK
<1>6. (Marked(s) /\ Untouched(s) /\ InStep(s))'
  BY <1>1, <1>2, <1>3 DEF SideOK, Marked, Untouched, InStep
<1>7. (Received(s) /\ Answers(s))'
  BY <1>1, <1>2, <1>3
  DEF SideOK, Handled, Received, Answers, Running, Runs, SameState
<1>8. ~co[s].received_trailers
  BY <1>2 DEF SideOK, EndSeen
<1>9. EndSeen(s)'
  BY <1>1, <1>2, <1>3, <1>8 DEF SideOK, InStep, Handled, EndSeen
<1>10. SideOK(s)'
  BY <1>6, <1>7, <1>9 DEF SideOK
<1> QED BY <1>1, <1>2, <1>3, <1>4, <1>5, <1>10, OwnSide

LEMMA NativeKeeps ==
    ASSUME FilterInv, NEW s \in Streams, Native(s), UNCHANGED pluginVars
    PROVE  CallbackOK' /\ \A t \in Streams : SideOK(t)'
<1>0. /\ exists' = exists /\ cb' = cb /\ host' = host
  BY DEF pluginVars
<1>1. /\ on = s /\ on' = s /\ thread' = thread
      /\ \A t \in Streams \ {s} : co'[t] = co[t]
  BY NativeEffect, FilterFacts
<1>2. /\ cb.on = s /\ s \in exists /\ SideOK(s)
      /\ pc \notin {"idle", "returned"}
  BY <1>1, FilterFacts
  DEF CallbackOK, Native, Tail, TrailersChunks, TrailersTrailers,
      RunToCompletion
<1>3. /\ SameEvents(co[s], co'[s])
      /\ \A t \in Streams \ {s} : unread'[t] = unread[t]
      /\ \/ /\ co' = co /\ pc' \in {"trailers?", "loop", "returned"}
            /\ outcome' = "error" => co[s].state = "kExited"
         \/ Runs(s)
  BY NativeResult, FilterFacts
<1>4. pc' # "idle" /\ CallbackOK'
  BY <1>0, <1>1, <1>2, <1>3, FilterFacts DEF CallbackOK, Runs
<1>5. (Marked(s) /\ Untouched(s) /\ InStep(s))'
  BY <1>0, <1>2, <1>3 DEF SideOK, Marked, Untouched, InStep, SameEvents
<1>6. (Received(s) /\ EndSeen(s))'
  BY <1>0, <1>2, <1>3, <1>4
  DEF SideOK, Handled, Received, EndSeen, SameEvents, Runs
<1>7. Answers(s)'
  BY <1>2, <1>3 DEF SideOK, Answers, Running, Runs
<1>8. SideOK(s)'
  BY <1>5, <1>6, <1>7 DEF SideOK
<1> QED BY <1>0, <1>1, <1>2, <1>3, <1>4, <1>8, OwnSide

LEMMA ScriptKeepsFilter ==
    ASSUME FilterInv, NEW s \in Streams, Script(s), UNCHANGED pluginVars
    PROVE  CallbackOK' /\ \A t \in Streams : SideOK(t)'
<1>0. /\ exists' = exists /\ cb' = cb /\ host' = host
  BY DEF pluginVars
<1>1. /\ on = s /\ on' = s /\ pc = "script"
      /\ \A t \in Streams \ {s} : co'[t] = co[t] /\ thread'[t] = thread[t]
  BY ScriptEffect, FilterFacts DEF Running
<1>2. /\ cb.on = s /\ s \in exists /\ SideOK(s)
  BY <1>1, FilterFacts DEF CallbackOK
<1>3. /\ SameEvents(co[s], co'[s])
      /\ co'[s].yield_reason \in {co[s].yield_reason} \cup AccessorWaits
      /\ \A t \in Streams \ {s} : unread'[t] = unread[t]
      /\ \/ outcome' = outcome /\ pc' \in {"script", ret}
         \/ /\ outcome' = "error" /\ pc' = "returned"
            /\ co'[s].state = "kExited"
      /\ pc' = "script" => co'[s].state \in {co[s].state, "kYielded"}
  BY ScriptKeeps, ScriptResult, FilterFacts
<1>4. ret # "idle" /\ ret # "returned" /\ pc' # "idle"
  BY <1>1, <1>3, FilterFacts DEF CoTypeOK, FilterInv, EndedInv,
                                ScriptReturnsToNative
<1>5. CallbackOK'
  BY <1>0, <1>1, <1>2, <1>4, FilterFacts DEF CallbackOK
<1>6. (Marked(s) /\ Untouched(s) /\ InStep(s))'
  BY <1>0, <1>2, <1>3 DEF SideOK, Marked, Untouched, InStep, SameEvents
<1>7. Answers(s)'
  BY <1>1, <1>2, <1>3, <1>4 DEF SideOK, Answers, Running, AccessorWaits
<1>8. host[s].headers # "none" \/ Handled(s) => co[s].received_headers
  BY <1>1, <1>2 DEF SideOK, Received, Answers, Running
<1>9. (Received(s) /\ EndSeen(s))'
  BY <1>0, <1>1, <1>2, <1>3, <1>4, <1>8
  DEF SideOK, Handled, Received, EndSeen, SameEvents
<1>10. SideOK(s)'
  BY <1>6, <1>7, <1>9 DEF SideOK
<1> QED BY <1>0, <1>1, <1>2, <1>3, <1>5, <1>10, OwnSide

LEMMA OnCreateKeeps ==
    ASSUME FilterInv, OnCreate
    PROVE  CallbackOK' /\ \A t \in Streams : SideOK(t)'
<1>1. /\ exists = NotCreated /\ exists' \in SUBSET Streams
      /\ UNCHANGED <<co, thread, on, pc, ret, outcome, unread, cb, host>>
  BY DEF OnCreate, coVars
<1>2. cb.on = NoStream
  BY <1>1, FilterFacts DEF CallbackOK, NotCreated, FilterTypes, Callback
<1>3. CallbackOK'
  BY <1>1, <1>2, FilterFacts DEF CallbackOK
<1>4. ASSUME NEW t \in Streams PROVE SideOK(t)'
  <2>1. SideOK(t) /\ host[t].headers = "none" /\ t \notin exists
    BY <1>1, FilterFacts DEF SideOK, Untouched, NotCreated
  <2> QED BY <1>1, <1>2, <2>1, FilterFacts
      DEF SideOK, Marked, Untouched, Fresh, InStep, Handled, Received, EndSeen,
          Answers, Running
<1> QED BY <1>3, <1>4

LEMMA FilterInvStep ==
    ASSUME FilterInv, [PluginNext]_vars
    PROVE  FilterInv'
<1>1. EndedInv' /\ CoTypeOK'
  BY EndedFilterStep DEF FilterInv, FilterTypes, EndedInv
<1>2. ThreadAgrees' /\ BodyAccounted'
  <2>1. CoNext \/ UNCHANGED coVars
    BY PluginStepIsCoStep
    DEF FilterInv, FilterTypes, vars, FilterSteps, FilterStep, CoNext, CoStep,
        Call
  <2>2. CASE CoNext
    BY <1>1, <2>2, ThreadStep, AccountedStep, FilterFacts DEF CoNext, FilterInv
  <2>3. CASE UNCHANGED coVars
    BY <2>3 DEF coVars, ThreadAgrees, Waits, Running, BodyAccounted, Accounted,
                FilterInv
  <2> QED BY <2>1, <2>2, <2>3
<1>3. FilterTypes'
  BY FilterTypesStep DEF FilterInv
<1>4. CallbackOK' /\ \A t \in Streams : SideOK(t)'
  <2>1. CASE UNCHANGED vars
    BY <2>1 DEF vars, coVars, pluginVars, historyVars, FilterInv, CallbackOK, SideOK, Marked,
                Untouched, Fresh, InStep, Handled, Received, EndSeen, Answers,
                Running
  <2>2. CASE PluginNext
    BY <2>2, OnCreateKeeps, OnHeadersKeeps, OnBodyKeeps, OnTrailersKeeps,
       StartReturnsKeeps, HandleHeadersEventKeeps, HandlerReturnsKeeps,
       NativeKeeps, ScriptKeepsFilter, RunsOnCases DEF PluginNext, HostNext
  <2> QED BY <2>1, <2>2
<1> QED BY <1>1, <1>2, <1>3, <1>4 DEF FilterInv

LEMMA FilterInvInit ==
    ASSUME PluginInit
    PROVE  FilterInv
<1>1. CoTypeOK
  BY NewCoroutineType, StreamsAssumption, ScriptAssumption
  DEF PluginInit, CoInit, CoTypeOK, ThreadStates, Stages, Pushed
<1>2. /\ on = NoStream /\ pc = "idle" /\ cb = NoCallback
      /\ exists = NotCreated
      /\ \A s \in Streams : /\ co[s] = NewCoroutine /\ thread[s] = "ready"
                            /\ unread[s] = FALSE
                            /\ host[s].headers = "none" /\ ~host[s].ended
  BY DEF PluginInit, CoInit
<1>3. /\ NewCoroutine.state = "kYielded"
      /\ NewCoroutine.yield_reason = "kWaitToStart"
      /\ NewCoroutine.stream_ended = FALSE
      /\ NewCoroutine.received_trailers = FALSE
      /\ NewCoroutine.headers_passed_on = FALSE
      /\ NewCoroutine.has_body_data = FALSE
  BY DEF NewCoroutine
<1>4. cb.on = NoStream /\ cb \in Callback
  BY <1>2 DEF NoCallback, Callback
<1>5. EndedInv /\ ThreadAgrees
  BY <1>1, <1>2, <1>3 DEF EndedInv, EndedNeverWaits, WaitsForMore,
     ScriptReturnsToNative, ThreadAgrees, Waits
<1>6. BodyAccounted
  <2> SUFFICES ASSUME NEW s \in Streams
               PROVE  Accounted(co[s], unread[s], bodyCalled[s])
    BY DEF BodyAccounted
  <2> QED BY <1>2, <1>3 DEF Accounted
<1>7. FilterTypes
  BY <1>4, MaxChunksAssumption DEF PluginInit, FilterTypes, HostSide
<1>8. CallbackOK
  BY <1>2, <1>4 DEF CallbackOK
<1>9. ASSUME NEW s \in Streams PROVE SideOK(s)
  BY <1>2, <1>3, <1>4, StreamsAssumption
  DEF SideOK, Marked, Untouched, Fresh, InStep, Handled, Received, EndSeen,
      Answers, Running, NotCreated
<1> QED BY <1>5, <1>6, <1>7, <1>8, <1>9 DEF FilterInv

\* What the filter's handlers and the host know of a stream stays in step with
\* its coroutines, for every script and every order of events.
THEOREM FilterInvariant == PluginSpec => []FilterInv
BY FilterInvInit, FilterInvStep, PTL DEF PluginSpec

\* Between callbacks the flag that freezes the headers says what the host did
\* with them, whichever handler let them go (MarkHeadersPassedOn).
THEOREM PassedOnTracksHostTheorem == PluginSpec => []PassedOnTracksHost
<1>1. FilterInv => PassedOnTracksHost
  BY DEF FilterInv, SideOK, Marked, PassedOnTracksHost
<1> QED BY <1>1, FilterInvariant, PTL

\* What becomes of the body of s.
BodyKept(s) == host'[s].out = host[s].out /\ host[s].buf \subseteq host'[s].buf

\* A handler that returns while its script waits in body() has the host buffer.
LEMMA HandlerKeepsBody ==
    ASSUME FilterInv, NEW s \in Streams, HandlerReturns(s), BodyAwaited(s)
    PROVE  BodyKept(s)
<1>1. /\ cb.on = s /\ (cb.event = "headers" => cb.started)
      /\ pc = "returned" /\ on = s
      /\ host' = [host EXCEPT ![s] = Apply(host[s], Status(s))]
  BY DEF HandlerReturns, Finish, Return
<1>2. SideOK(s) /\ host[s] \in HostSide
  BY FilterFacts DEF FilterTypes
<1>3. outcome # "error"
  BY <1>1, <1>2 DEF SideOK, Answers, BodyAwaited
<1>4. cb.event # "trailers"
  <2> SUFFICES ASSUME cb.event = "trailers" PROVE FALSE
    OBVIOUS
  <2>1. co[s].stream_ended
    BY <1>1, <1>2, <1>3 DEF SideOK, InStep, EndSeen, Handled
  <2> QED BY <1>1, <2>1 DEF FilterInv, EndedInv, EndedNeverWaits, WaitsForMore,
                           BodyAwaited, Waits
<1>5. Status(s) \in {"StopIteration", "StopIterationAndBuffer"}
  <2>1. CASE cb.event = "headers"
    BY <1>3, <2>1 DEF Status, HeadersStatus, HeadersHeldFor, BodyAwaited, Waits
  <2>2. CASE cb.event = "body"
    <3>1. Status(s) = BodyStatus(s)
      BY <2>2 DEF Status
    <3>2. /\ ~Waits(co[s], "kWaitForHttp") /\ Waits(co[s], "kWaitForBody")
          /\ ~Waits(co[s], "kResponded")
      BY DEF BodyAwaited, Waits
    <3>3. BodyStatus(s) = "StopIterationAndBuffer"
      BY <1>3, <3>2 DEF BodyStatus
    <3> QED BY <3>1, <3>3
  <2> QED BY <1>1, <1>4, <2>1, <2>2, FilterFacts
      DEF FilterTypes, Callback, CallbackOK
<1>6. host'[s] = Apply(host[s], Status(s))
  BY <1>1, FilterFacts DEF FilterTypes
<1> QED BY <1>2, <1>5, <1>6, ApplyResult DEF BodyKept

LEMMA BodyKeptStep ==
    ASSUME FilterInv, PluginNext, NEW s \in Streams, BodyAwaited(s)
    PROVE  BodyKept(s)
<1>0. /\ SideOK(s) /\ s \in exists /\ host \in [Streams -> HostSide]
  <2>1. co[s] # NewCoroutine
    BY DEF BodyAwaited, Waits, NewCoroutine
  <2> QED BY <2>1, FilterFacts DEF SideOK, Untouched, Fresh, FilterTypes
<1>1. CASE host'[s] = host[s]
  BY <1>1 DEF BodyKept
<1>2. ASSUME NEW t \in Streams, NEW h, host' = [host EXCEPT ![t] = h], t # s
      PROVE  BodyKept(s)
  BY <1>0, <1>2 DEF BodyKept
<1>3. ASSUME NEW end \in BOOLEAN, OnHeaders(s, end) PROVE BodyKept(s)
  <2>1. host'[s] = HeadersCome(s, end)
    BY <1>0, <1>3, OnHeadersCases
  <2> QED BY <2>1, HeadersComeResult, FilterFacts DEF BodyKept
<1>4. ASSUME NEW data \in BOOLEAN, NEW end \in BOOLEAN, OnBody(s, data, end)
      PROVE  BodyKept(s)
  <2>1. /\ host'[s] = BodyComes(s, data, end)
        /\ data => host[s].chunks < MaxChunks
    BY <1>0, <1>4, OnBodyCases
  <2> QED BY <2>1, BodyComesResult, FilterFacts DEF BodyKept
<1>5. CASE OnTrailers(s)
  <2>1. host'[s] = HeadersCome(s, TRUE)
    BY <1>0, <1>5, OnTrailersCases
  <2> QED BY <2>1, HeadersComeResult, FilterFacts DEF BodyKept
<1>6. CASE StartFailed(s)
  <2>1. host'[s] = Apply(host[s], "StopIteration")
    BY <1>0, <1>6 DEF StartFailed
  <2> QED BY <1>0, <2>1, ApplyResult DEF BodyKept
<1>7. CASE HandlerReturns(s)
  BY <1>7, HandlerKeepsBody
<1>8. ASSUME NEW t \in Streams, t # s,
             \/ \E end \in BOOLEAN : OnHeaders(t, end)
             \/ \E data, end \in BOOLEAN : OnBody(t, data, end)
             \/ OnTrailers(t) \/ StartFailed(t) \/ HandlerReturns(t)
      PROVE  BodyKept(s)
  <2>1. \E h : host' = [host EXCEPT ![t] = h]
    <3>1. CASE \E end \in BOOLEAN : OnHeaders(t, end)
      BY <3>1, OnHeadersCases DEF NoCoroutine
    <3>2. CASE \E data, end \in BOOLEAN : OnBody(t, data, end)
      BY <3>2, OnBodyCases DEF NoCoroutine
    <3>3. CASE OnTrailers(t)
      BY <3>3, OnTrailersCases DEF NoCoroutine
    <3>4. CASE StartFailed(t) \/ HandlerReturns(t)
      BY <3>4 DEF StartFailed, HandlerReturns, Finish
    <3> QED BY <1>8, <3>1, <3>2, <3>3, <3>4
  <2> QED BY <1>2, <1>8, <2>1
<1>9. CASE host' = host
  BY <1>1, <1>9
<1>10. \/ host' = host
       \/ \E t \in Streams :
            \/ \E end \in BOOLEAN : OnHeaders(t, end)
            \/ \E data, end \in BOOLEAN : OnBody(t, data, end)
            \/ OnTrailers(t) \/ StartFailed(t) \/ HandlerReturns(t)
  BY RunsOnCases DEF PluginNext, OnCreate, HostNext, StartSucceeded,
         HandleHeadersEvent, pluginVars
<1> QED BY <1>3, <1>4, <1>5, <1>6, <1>7, <1>8, <1>9, <1>10

\* While a script waits in body(), no callback of either direction makes the host
\* forward or drop any of that body.
THEOREM BodyHeldTheorem == PluginSpec => BodyHeldWhileAwaited
<1>1. FilterInv /\ [PluginNext]_vars =>
        \/ UNCHANGED vars
        \/ \A s \in Streams :
              BodyAwaited(s) /\ BodyAwaited(s)' =>
                 /\ host'[s].out = host[s].out
                 /\ host[s].buf \subseteq host'[s].buf
  BY BodyKeptStep DEF BodyKept
<1> QED BY <1>1, FilterInvariant, PTL DEF PluginSpec, BodyHeldWhileAwaited

-----------------------------------------------------------------------------
(* The end of bodyChunks().                                                  *)

\* The script of s has got every chunk that arrived, or it went by unseen while
\* the script waited in trailers(); the same but for what the host still holds.
Seen(s) == 1..host[s].chunks \subseteq shown[s] \cup missed[s]

SeenOrHeld(s) ==
    1..host[s].chunks \subseteq (shown[s] \cup missed[s]) \cup host[s].buf

\* All has been seen while a script waits for the next chunk, except in
\* RunToCompletion, which looks first, and while a script runs that the loop of
\* RunToCompletion has not resumed.  A script that may still be resumed finds the
\* rest at the host; body_chunk_consumed_ says that it has got what the host
\* holds, has_body_data_ that there was any.
ReadOK(s) ==
    /\ (/\ co[s].state = "kYielded" /\ Waits(co[s], "kWaitForBodyChunks")
        /\ on = s => pc \in {"tail", "chunks?", "returned"}) => Seen(s)
    /\ (Running(s) /\ (ret # "loop" \/ pushed = "nil")) => Seen(s)
    /\ (Running(s) \/ WaitsForMore(co[s])) => SeenOrHeld(s)
    /\ host[s].headers = "none" => host[s].chunks = 0
    /\ co[s].body_chunk_consumed => host[s].buf \subseteq shown[s]
    /\ (s \in exists /\ host[s].chunks # 0) => co[s].has_body_data

ReadInv == \A s \in Streams : ReadOK(s)

LEMMA NoChunksSeen ==
    ASSUME NEW s \in Streams, host[s].chunks = 0
    PROVE  Seen(s) /\ SeenOrHeld(s)
BY DEF Seen, SeenOrHeld

LEMMA OtherRead ==
    ASSUME ReadInv, NEW s \in Streams, on' \in {s, NoStream},
           on \in {s, NoStream}, exists' = exists,
           \A t \in Streams \ {s} : /\ co'[t] = co[t] /\ host'[t] = host[t]
                                    /\ shown'[t] = shown[t]
                                    /\ missed'[t] = missed[t],
           ReadOK(s)'
    PROVE  ReadInv'
<1>1. ASSUME NEW t \in Streams, t # s PROVE ReadOK(t)'
  BY <1>1, StreamsAssumption
  DEF ReadInv, ReadOK, Running, Waits, WaitsForMore, Seen, SeenOrHeld
<1> QED BY <1>1 DEF ReadInv

\* What the script of s gets when it gets a Buffer.
LEMMA ShowsResult ==
    ASSUME FilterInv, NEW s \in Streams, NEW given, Shows(s, given)
    PROVE  /\ \A t \in Streams \ {s} : shown'[t] = shown[t]
           /\ shown[s] \subseteq shown'[s]
           /\ given => host'[s].buf \subseteq shown'[s]
           /\ ~given => shown' = shown
BY FilterFacts DEF Shows, FilterTypes

\* A callback on a null coroutine, whose script does not run.
LEMMA NoCoroutineRead ==
    ASSUME FilterInv, ReadInv, NEW s \in Streams, s \notin exists, Idle,
           NEW h \in HostSide, NEW event, NEW status,
           h.headers # "none" \/ status = "StopIteration",
           NoCoroutine(s, event, h, status), exists' = exists, missed' = missed
    PROVE  ReadInv'
<1>1. /\ UNCHANGED <<co, on, pc, shown>> /\ pc = "idle" /\ on = NoStream
      /\ NoStream \notin Streams
  BY FilterFacts DEF NoCoroutine, coVars, Idle, CoTypeOK
<1>2. /\ host'[s] = Apply(h, status)
      /\ \A t \in Streams \ {s} : host'[t] = host[t]
  BY FilterFacts DEF NoCoroutine, FilterTypes
<1>3. host'[s].headers # "none"
  BY <1>2, ApplyResult
<1>4. co[s] = NewCoroutine
  BY FilterFacts DEF SideOK, Untouched, Fresh
<1>5. /\ co'[s].yield_reason = "kWaitToStart" /\ ~co'[s].body_chunk_consumed
  BY <1>1, <1>4 DEF NewCoroutine
<1>6. ReadOK(s)'
  BY <1>1, <1>3, <1>5 DEF ReadOK, Running, Waits, WaitsForMore
<1> QED BY <1>1, <1>2, <1>6, OtherRead

\* What a body event adds is held by the host.
LEMMA BodyComesHeld ==
    ASSUME FilterTypes, NEW s \in Streams, NEW data \in BOOLEAN,
           NEW end \in BOOLEAN
    PROVE  /\ 1..BodyComes(s, data, end).chunks
                 \subseteq (1..host[s].chunks) \cup BodyComes(s, data, end).buf
           /\ host[s].buf \subseteq BodyComes(s, data, end).buf
           /\ (host[s].chunks = 0 /\ BodyComes(s, data, end).buf = {})
                 => BodyComes(s, data, end).chunks = 0
<1>1. host[s] \in HostSide
  BY DEF FilterTypes
<1> DEFINE n == IF data THEN host[s].chunks + 1 ELSE host[s].chunks
           b == IF data THEN host[s].buf \cup {n} ELSE host[s].buf
<1>2. /\ 1..n \subseteq (1..host[s].chunks) \cup b /\ host[s].buf \subseteq b
      /\ (host[s].chunks = 0 /\ b = {}) => n = 0
  BY <1>1, MaxChunksAssumption DEF HostSide
<1>3. BodyComes(s, data, end) =
        [host[s] EXCEPT !.ended = end, !.chunks = n, !.buf = b]
  BY DEF BodyComes
<1> HIDE DEF n, b
<1>4. BodyComes(s, data, end).chunks = n /\ BodyComes(s, data, end).buf = b
  BY <1>1, <1>3 DEF HostSide
<1> QED BY <1>2, <1>4

LEMMA OnHeadersRead ==
    ASSUME FilterInv, ReadInv, NEW s \in Streams, NEW end \in BOOLEAN,
           OnHeaders(s, end)
    PROVE  ReadInv'
<1>0. /\ HeadersCome(s, end) \in HostSide
      /\ HeadersCome(s, end).chunks = host[s].chunks
      /\ HeadersCome(s, end).buf = host[s].buf
      /\ missed' = missed /\ ReadOK(s) /\ exists' = exists /\ Idle
      /\ host[s].headers = "none" /\ cb.on = NoStream /\ on = NoStream
  BY HeadersComeResult, OnHeadersCases, FilterFacts
  DEF OnHeaders, ReadInv, Idle, NoCallback, CoTypeOK
<1>1. CASE s \notin exists
  BY <1>0, <1>1, OnHeadersCases, NoCoroutineRead
<1>2. CASE s \in exists
  <2>1. /\ Start(s) /\ shown' = shown
        /\ host' = [host EXCEPT ![s] = HeadersCome(s, end)]
    BY <1>2 DEF OnHeaders, HeadersCome
  <2>2. /\ host'[s] = HeadersCome(s, end)
        /\ \A t \in Streams \ {s} : host'[t] = host[t]
    BY <2>1, FilterFacts DEF FilterTypes
  <2>3. Fresh(s)
    BY <1>0, FilterFacts DEF SideOK, Untouched
  <2>4. on' = s /\ \A t \in Streams \ {s} : co'[t] = co[t]
    BY <2>1, FilterCallEffect, FilterFacts DEF FilterCall
  <2>5. co'[s].body_chunk_consumed = co[s].body_chunk_consumed
    BY <2>1, <2>3, StartResult, FilterFacts DEF Fresh
  <2>6. host'[s].chunks = 0 /\ Seen(s)' /\ SeenOrHeld(s)'
    BY <1>0, <2>2 DEF ReadOK, Seen, SeenOrHeld
  <2>7. ReadOK(s)'
    BY <1>0, <2>1, <2>2, <2>5, <2>6 DEF ReadOK
  <2> QED BY <1>0, <2>1, <2>2, <2>4, <2>7, OtherRead
<1> QED BY <1>1, <1>2

LEMMA OnBodyRead ==
    ASSUME FilterInv, ReadInv, NEW s \in Streams, NEW data \in BOOLEAN,
           NEW end \in BOOLEAN, OnBody(s, data, end)
    PROVE  ReadInv'
<1> DEFINE h == BodyComes(s, data, end)
           some == h.buf # {}
<1>0. /\ h \in HostSide /\ h.headers = host[s].headers
      /\ host[s].headers # "none" /\ ~host[s].ended
      /\ missed' = missed /\ ReadOK(s) /\ exists' = exists /\ Idle
      /\ on = NoStream /\ some \in BOOLEAN
  BY BodyComesResult, OnBodyCases, FilterFacts
  DEF OnBody, ReadInv, Idle, NoCallback, CoTypeOK
<1>1. CASE s \notin exists
  BY <1>0, <1>1, OnBodyCases, NoCoroutineRead
<1>2. CASE s \in exists
  <2>1. /\ HandleBody(s, some, end) /\ Shows(s, ResumedWithBuffer)
        /\ host' = [host EXCEPT ![s] = h]
    BY <1>2 DEF OnBody, BodyComes
  <2>2. /\ 1..h.chunks \subseteq (1..host[s].chunks) \cup h.buf
        /\ host[s].buf \subseteq h.buf
        /\ (host[s].chunks = 0 /\ ~some) => h.chunks = 0
    BY BodyComesHeld, FilterFacts
  <2> HIDE DEF h, some
  <2>3. /\ host'[s] = h /\ \A t \in Streams \ {s} : host'[t] = host[t]
    BY <2>1, FilterFacts DEF FilterTypes
  <2>4. /\ on' = s /\ \A t \in Streams \ {s} : co'[t] = co[t]
    BY <1>0, <2>1, FilterCallEffect, FilterFacts DEF FilterCall
  <2>5. ~co[s].stream_ended
    BY <1>0, FilterFacts DEF SideOK, EndSeen
  <2>6. /\ co'[s].has_body_data = (co[s].has_body_data \/ some)
        /\ \/ /\ Runs(s) /\ ret' = "tail" /\ pushed' = "buffer"
              /\ WaitsMore(co[s])
           \/ /\ SameState(s)
              /\ co'[s].body_chunk_consumed =
                    (co[s].body_chunk_consumed /\ ~some)
              /\ \/ pc' = "tail" /\ ~Waits(co[s], "kWaitForBodyChunks")
                 \/ pc' = "returned" /\ co[s].state = "kExited"
    BY <1>0, <2>1, <2>5, HandleBodyResult, FilterFacts
  <2>7. /\ \A t \in Streams \ {s} : shown'[t] = shown[t]
        /\ shown[s] \subseteq shown'[s]
        /\ ResumedWithBuffer => h.buf \subseteq shown'[s]
    BY <2>1, <2>3, ShowsResult
  <2>8. (host'[s].chunks # 0) => co'[s].has_body_data
    BY <1>0, <1>2, <2>2, <2>3, <2>6 DEF ReadOK
  <2>9. SeenOrHeld(s) => SeenOrHeld(s)'
    BY <1>0, <2>2, <2>3, <2>7 DEF SeenOrHeld
  <2>10. CASE Runs(s) /\ pushed' = "buffer" /\ WaitsMore(co[s])
    <3>1. h.buf \subseteq shown'[s]
      BY <2>7, <2>10 DEF Runs, ResumedWithBuffer
    <3>2. SeenOrHeld(s)
      BY <1>0, <2>10 DEF ReadOK, Runs, WaitsMore, WaitsForMore
    <3>3. Seen(s)' /\ SeenOrHeld(s)'
      BY <2>3, <2>9, <3>1, <3>2 DEF Seen, SeenOrHeld
    <3> QED BY <1>0, <2>3, <2>4, <2>7, <2>8, <3>1, <3>3, OtherRead DEF ReadOK
  <2>11. CASE /\ SameState(s)
              /\ co'[s].body_chunk_consumed =
                    (co[s].body_chunk_consumed /\ ~some)
              /\ \/ pc' = "tail" /\ ~Waits(co[s], "kWaitForBodyChunks")
                 \/ pc' = "returned" /\ co[s].state = "kExited"
    <3>1. WaitsForMore(co'[s]) => SeenOrHeld(s)'
      BY <1>0, <2>9, <2>11 DEF ReadOK, WaitsForMore, SameState
    <3>2. co'[s].body_chunk_consumed => h.buf \subseteq shown'[s]
      BY <2>11 DEF some
    <3>3. ReadOK(s)'
      BY <1>0, <2>3, <2>8, <2>11, <3>1, <3>2
      DEF ReadOK, Running, SameState, Waits
    <3> QED BY <1>0, <2>3, <2>4, <2>7, <3>3, OtherRead
  <2> QED BY <2>6, <2>10, <2>11
<1> QED BY <1>1, <1>2

LEMMA OnTrailersRead ==
    ASSUME FilterInv, ReadInv, NEW s \in Streams, OnTrailers(s)
    PROVE  ReadInv'
<1>0. /\ HeadersCome(s, TRUE) \in HostSide
      /\ HeadersCome(s, TRUE).chunks = host[s].chunks
      /\ HeadersCome(s, TRUE).buf = host[s].buf
      /\ HeadersCome(s, TRUE).headers = host[s].headers
      /\ missed' = missed /\ ReadOK(s) /\ exists' = exists /\ Idle
      /\ host[s].headers # "none" /\ ~host[s].ended
      /\ on = NoStream /\ NoStream \notin Streams
  BY HeadersComeResult, OnTrailersCases, FilterFacts
  DEF OnTrailers, ReadInv, Idle, NoCallback, CoTypeOK
<1>1. CASE s \notin exists
  BY <1>0, <1>1, OnTrailersCases, NoCoroutineRead
<1>2. CASE s \in exists
  <2>1. /\ HandleTrailers(s) /\ Shows(s, ResumedWithBuffer)
        /\ host' = [host EXCEPT ![s] = HeadersCome(s, TRUE)]
    BY <1>2 DEF OnTrailers, HeadersCome
  <2>2. /\ host'[s] = HeadersCome(s, TRUE)
        /\ \A t \in Streams \ {s} : host'[t] = host[t]
    BY <2>1, FilterFacts DEF FilterTypes
  <2>3. ~co[s].stream_ended /\ ~co[s].received_trailers
    BY <1>0, FilterFacts DEF SideOK, EndSeen
  <2>4. /\ on' = s /\ \A t \in Streams \ {s} : co'[t] = co[t]
    BY <2>1, FilterCallEffect, FilterFacts DEF FilterCall
  <2>5. /\ co'[s].has_body_data = co[s].has_body_data
        /\ co'[s].body_chunk_consumed = co[s].body_chunk_consumed
        /\ \/ Runs(s) /\ pushed' = "buffer" /\ WaitsMore(co[s])
           \/ pc' # "script" /\ SameState(s)
    BY <2>1, <2>3, HandleTrailersResult, FilterFacts DEF SameState
  <2>6. /\ \A t \in Streams \ {s} : shown'[t] = shown[t]
        /\ shown[s] \subseteq shown'[s]
        /\ ResumedWithBuffer => host'[s].buf \subseteq shown'[s]
    BY <2>1, ShowsResult
  <2>7. /\ host'[s].chunks = host[s].chunks /\ host'[s].buf = host[s].buf
        /\ host'[s].headers # "none"
    BY <1>0, <2>2
  <2>8. /\ SeenOrHeld(s) => SeenOrHeld(s)'
        /\ Seen(s) => Seen(s)'
    BY <1>0, <2>6, <2>7 DEF Seen, SeenOrHeld
  <2>9. /\ (s \in exists' /\ host'[s].chunks # 0) => co'[s].has_body_data
        /\ co'[s].body_chunk_consumed => host'[s].buf \subseteq shown'[s]
    BY <1>0, <2>5, <2>6, <2>7 DEF ReadOK
  <2>10. CASE Runs(s) /\ pushed' = "buffer" /\ WaitsMore(co[s])
    <3>1. host'[s].buf \subseteq shown'[s]
      BY <2>6, <2>10 DEF Runs, ResumedWithBuffer
    <3>2. SeenOrHeld(s)'
      BY <1>0, <2>8, <2>10 DEF ReadOK, Runs, WaitsMore, WaitsForMore
    <3>3. Seen(s)'
      BY <3>1, <3>2 DEF Seen, SeenOrHeld
    <3> QED BY <1>0, <2>2, <2>4, <2>6, <2>7, <2>9, <3>2, <3>3, OtherRead
        DEF ReadOK
  <2>11. CASE pc' # "script" /\ SameState(s)
    <3>1. WaitsForMore(co'[s]) => SeenOrHeld(s)'
      BY <1>0, <2>8, <2>11 DEF ReadOK, WaitsForMore, SameState
    <3>2. (co'[s].state = "kYielded" /\ Waits(co'[s], "kWaitForBodyChunks"))
             => Seen(s)'
      BY <1>0, <2>8, <2>11 DEF ReadOK, Waits, SameState
    <3>3. ReadOK(s)'
      BY <2>7, <2>9, <2>11, <3>1, <3>2 DEF ReadOK, Running, Waits
    <3> QED BY <1>0, <2>2, <2>4, <2>6, <3>3, OtherRead
  <2> QED BY <2>5, <2>10, <2>11
<1> QED BY <1>1, <1>2

LEMMA HandleHeadersRead ==
    ASSUME FilterInv, ReadInv, NEW s \in Streams, HandleHeadersEvent(s)
    PROVE  ReadInv'
<1>1. /\ cb.on = s /\ cb.event = "headers"
      /\ HandleHeaders(s, cb.end_of_stream)
      /\ cb.end_of_stream \in BOOLEAN
      /\ UNCHANGED <<exists, host, shown, missed>>
  BY FilterFacts
  DEF HandleHeadersEvent, pluginVars, historyVars, FilterTypes, Callback
<1>2. /\ on' = s /\ \A t \in Streams \ {s} : co'[t] = co[t]
  BY <1>1, FilterCallEffect, FilterFacts DEF FilterCall
<1>3. /\ on = NoStream /\ host[s].headers = "none" /\ ReadOK(s)
  BY <1>1, FilterFacts DEF HandleHeaders, CoTypeOK, SideOK, InStep, ReadInv
<1>4. /\ co'[s].has_body_data = co[s].has_body_data
      /\ co'[s].body_chunk_consumed = co[s].body_chunk_consumed
  BY <1>1, HandleHeadersResult, FilterFacts
<1>5. host'[s].chunks = 0 /\ Seen(s)' /\ SeenOrHeld(s)'
  BY <1>1, <1>3 DEF ReadOK, Seen, SeenOrHeld
<1>6. ReadOK(s)'
  BY <1>1, <1>3, <1>4, <1>5 DEF ReadOK
<1> QED BY <1>1, <1>2, <1>3, <1>6, OtherRead

\* The caller takes a result, and the host does what it is told.
LEMMA ReturnRead ==
    ASSUME FilterInv, ReadInv, NEW s \in Streams, NEW mark \in BOOLEAN,
           Return(s, mark), exists' = exists, shown' = shown,
           \A t \in Streams \ {s} : /\ host'[t] = host[t]
                                    /\ missed'[t] = missed[t],
           missed[s] \subseteq missed'[s],
           host'[s].chunks = host[s].chunks,
           host'[s].buf \subseteq host[s].buf,
           host'[s].headers = "none" => host[s].headers = "none",
           WaitsForMore(co[s]) => SeenOrHeld(s)'
    PROVE  ReadInv'
<1>1. /\ pc = "returned" /\ on = s /\ pc' = "idle" /\ on' = NoStream
      /\ SameState(s) /\ \A t \in Streams \ {s} : co'[t] = co[t]
      /\ co'[s].has_body_data = co[s].has_body_data
      /\ co'[s].body_chunk_consumed = co[s].body_chunk_consumed
  BY ReturnEffect, ReturnKeeps, FilterFacts DEF SameState
<1>2. ReadOK(s)
  BY DEF ReadInv
<1>3. Seen(s) => Seen(s)'
  BY DEF Seen
<1>4. (co'[s].state = "kYielded" /\ Waits(co'[s], "kWaitForBodyChunks"))
         => Seen(s)'
  BY <1>1, <1>2, <1>3 DEF ReadOK, Waits, SameState
<1>5. WaitsForMore(co'[s]) => SeenOrHeld(s)'
  BY <1>1 DEF WaitsForMore, SameState
<1>6. co'[s].body_chunk_consumed => host'[s].buf \subseteq shown'[s]
  BY <1>1, <1>2 DEF ReadOK
<1>7. ReadOK(s)'
  BY <1>1, <1>2, <1>4, <1>5, <1>6 DEF ReadOK, Running
<1> QED BY <1>1, <1>7, OtherRead

LEMMA StartReturnsRead ==
    ASSUME FilterInv, ReadInv, NEW s \in Streams,
           StartFailed(s) \/ StartSucceeded(s)
    PROVE  ReadInv'
<1>1. /\ Return(s, FALSE) /\ UNCHANGED <<exists, shown, missed>>
      /\ \/ host' = host
         \/ host' = [host EXCEPT ![s] = Apply(host[s], "StopIteration")]
  BY DEF StartFailed, StartSucceeded, historyVars
<1>2. host \in [Streams -> HostSide] /\ host[s] \in HostSide
  BY FilterFacts DEF FilterTypes
<1>3. /\ \A t \in Streams \ {s} : host'[t] = host[t]
      /\ host'[s] = host[s] \/ host'[s] = Apply(host[s], "StopIteration")
  BY <1>1, <1>2
<1>4. /\ host'[s].chunks = host[s].chunks /\ host'[s].buf = host[s].buf
      /\ host'[s].headers = "none" => host[s].headers = "none"
  BY <1>2, <1>3, ApplyResult
<1>5. WaitsForMore(co[s]) => SeenOrHeld(s)'
  BY <1>1, <1>4 DEF ReadInv, ReadOK, SeenOrHeld
<1> QED BY <1>1, <1>3, <1>4, <1>5, ReturnRead

\* A handler that returns while its script waits for more lets nothing go that
\* the script has not seen, but while it waits in trailers().
LEMMA HandlerReturnsRead ==
    ASSUME FilterInv, ReadInv, NEW s \in Streams, HandlerReturns(s)
    PROVE  ReadInv'
<1> DEFINE mark == Status(s) = "Continue"
<1>0. mark \in BOOLEAN
  OBVIOUS
<1>1. /\ cb.on = s /\ pc = "returned" /\ on = s
      /\ Return(s, mark) /\ exists' = exists /\ shown' = shown
      /\ host' = [host EXCEPT ![s] = Apply(host[s], Status(s))]
      /\ missed' = [missed EXCEPT ![s] = @ \cup PassedUnseen(s)]
  BY DEF HandlerReturns, Finish, Return
<1>2. /\ host \in [Streams -> HostSide] /\ host[s] \in HostSide
      /\ missed \in [Streams -> SUBSET (1..MaxChunks)]
      /\ SideOK(s) /\ ReadOK(s) /\ cb \in Callback
  BY FilterFacts DEF FilterTypes, ReadInv
<1>3. /\ host'[s] = Apply(host[s], Status(s))
      /\ \A t \in Streams \ {s} : host'[t] = host[t]
      /\ missed'[s] = missed[s] \cup PassedUnseen(s)
      /\ \A t \in Streams \ {s} : missed'[t] = missed[t]
  BY <1>1, <1>2
<1>4. /\ host'[s].chunks = host[s].chunks
      /\ host'[s].buf \subseteq host[s].buf
      /\ host'[s].headers = "none" => host[s].headers = "none"
  BY <1>2, <1>3, ApplyResult
<1>5. ASSUME WaitsForMore(co[s]) PROVE SeenOrHeld(s)'
  <2>0. outcome # "error" /\ co[s].state = "kYielded"
    BY <1>1, <1>2, <1>5 DEF SideOK, Answers, WaitsForMore
  <2>1. SeenOrHeld(s)
    BY <1>2, <1>5 DEF ReadOK
  <2>2. CASE Waits(co[s], "kWaitForBody")
    <3>1. BodyAwaited(s)
      BY <2>0, <2>2 DEF BodyAwaited
    <3>2. host[s].buf \subseteq host'[s].buf
      BY <3>1, HandlerKeepsBody DEF BodyKept
    <3> QED BY <1>1, <1>3, <1>4, <2>1, <3>2 DEF SeenOrHeld
  <2>3. CASE Waits(co[s], "kWaitForBodyChunks")
    <3>1. Seen(s)
      BY <1>1, <1>2, <2>0, <2>3 DEF ReadOK
    <3> QED BY <1>1, <1>3, <1>4, <3>1 DEF Seen, SeenOrHeld
  <2>4. CASE Waits(co[s], "kWaitForTrailers")
    <3>1. Status(s) = "Continue"
      <4>1. /\ ~Waits(co[s], "kWaitForHttp") /\ ~Waits(co[s], "kWaitForBody")
            /\ ~Waits(co[s], "kResponded")
            /\ co[s].yield_reason = "kWaitForTrailers"
        BY <2>4 DEF Waits
      <4>2. HeadersStatus(s) = "Continue" /\ TrailersStatus(s) = "Continue"
        BY <2>0, <4>1 DEF HeadersStatus, HeadersHeldFor, TrailersStatus
      <4>3. BodyStatus(s) = "Continue"
        BY <2>0, <4>1 DEF BodyStatus
      <4> QED BY <4>2, <4>3 DEF Status
    <3>2. PassedUnseen(s) = host[s].buf \ shown[s]
      BY <2>0, <2>4, <3>1 DEF PassedUnseen
    <3> QED BY <1>1, <1>3, <1>4, <2>1, <3>2 DEF SeenOrHeld
  <2> QED BY <1>5, <2>2, <2>3, <2>4 DEF WaitsForMore, Waits
<1>6. missed[s] \subseteq missed'[s]
  BY <1>3
<1> HIDE DEF mark
<1> QED BY <1>0, <1>1, <1>3, <1>4, <1>5, <1>6, ReturnRead

\* Native code looks before it says nil.
LEMMA NativeRead ==
    ASSUME FilterInv, ReadInv, NEW s \in Streams, Native(s),
           Shows(s, ResumedWithBuffer), UNCHANGED <<exists, host, missed>>,
           s \in exists
    PROVE  ReadInv'
<1>0. ReadOK(s)
  BY DEF ReadInv
<1>1. /\ on = s /\ on' = s /\ pc # "script"
      /\ \A t \in Streams \ {s} : co'[t] = co[t]
  BY NativeEffect, FilterFacts
<1>2. /\ \A t \in Streams \ {s} : shown'[t] = shown[t]
      /\ shown[s] \subseteq shown'[s]
      /\ ResumedWithBuffer => host[s].buf \subseteq shown'[s]
  BY ShowsResult
<1>3. co'[s].has_body_data = co[s].has_body_data
  BY NativeResult, FilterFacts DEF SameEvents
<1>4. /\ Seen(s) => Seen(s)'
      /\ SeenOrHeld(s) => SeenOrHeld(s)'
  BY <1>2 DEF Seen, SeenOrHeld
<1>5. ASSUME co' = co, pc' \in {"trailers?", "loop", "returned"},
             pc' = "returned" => \/ pc = "tail"
                                 \/ co[s].state = "kExited"
                                 \/ ~WaitsMore(co[s])
      PROVE  ReadOK(s)'
  <2>1. (/\ co'[s].state = "kYielded" /\ Waits(co'[s], "kWaitForBodyChunks")
         /\ pc' \in {"tail", "chunks?", "returned"}) => Seen(s)'
    BY <1>0, <1>1, <1>4, <1>5 DEF ReadOK, Waits, WaitsMore
  <2>2. WaitsForMore(co'[s]) => SeenOrHeld(s)'
    BY <1>0, <1>4, <1>5 DEF ReadOK
  <2>3. co'[s].body_chunk_consumed => host'[s].buf \subseteq shown'[s]
    BY <1>0, <1>2, <1>5 DEF ReadOK
  <2> QED BY <1>0, <1>1, <1>3, <1>5, <2>1, <2>2, <2>3 DEF ReadOK, Running
<1>6. ASSUME Runs(s), WaitsMore(co[s]),
             ret' = IF pc = "chunks?" THEN "trailers?" ELSE "loop",
             pc = "chunks?" => Waits(co[s], "kWaitForBodyChunks"),
             (pc # "chunks?" /\ pushed' = "nil") =>
                 (co[s].has_body_data => co[s].body_chunk_consumed),
             co'[s].body_chunk_consumed =>
                 co[s].body_chunk_consumed \/ pushed' = "buffer"
      PROVE  ReadOK(s)'
  <2>1. SeenOrHeld(s) /\ SeenOrHeld(s)'
    BY <1>0, <1>4, <1>6 DEF ReadOK, Runs, WaitsMore, WaitsForMore
  <2>2. (ret' # "loop" \/ pushed' = "nil") => Seen(s)'
    <3>1. CASE pc = "chunks?"
      BY <1>0, <1>1, <1>4, <1>6, <3>1 DEF ReadOK, Runs
    <3>2. CASE pc # "chunks?" /\ pushed' = "nil"
      <4>1. CASE host[s].chunks = 0
        BY <1>4, <4>1, NoChunksSeen
      <4>2. CASE host[s].chunks # 0
        <5>1. host[s].buf \subseteq shown[s]
          BY <1>0, <1>6, <3>2, <4>2 DEF ReadOK
        <5>2. Seen(s)
          BY <2>1, <5>1 DEF Seen, SeenOrHeld
        <5> QED BY <1>4, <5>2
      <4> QED BY <4>1, <4>2
    <3>3. CASE pc # "chunks?" /\ pushed' # "nil"
      BY <1>6, <3>3
    <3> QED BY <3>1, <3>2, <3>3
  <2>3. co'[s].body_chunk_consumed => host'[s].buf \subseteq shown'[s]
    BY <1>0, <1>2, <1>6 DEF ReadOK, Runs, ResumedWithBuffer
  <2>4. ~(co'[s].state = "kYielded" /\ Waits(co'[s], "kWaitForBodyChunks"))
    BY <1>6 DEF Runs, Waits
  <2> QED BY <1>0, <1>3, <2>1, <2>2, <2>3, <2>4 DEF ReadOK
<1>7. ReadOK(s)'
  BY <1>5, <1>6, NativeResult, FilterFacts
<1> QED BY <1>1, <1>2, <1>7, OtherRead

\* A script that asks for the next chunk has seen all before, or the loop looks.
LEMMA ScriptRead ==
    ASSUME FilterInv, ReadInv, NEW s \in Streams, Script(s), NEW given,
           Shows(s, given), UNCHANGED <<exists, host, missed>>
    PROVE  ReadInv'
<1>0. ReadOK(s)
  BY DEF ReadInv
<1>1. /\ Running(s) /\ on = s /\ on' = s /\ pc = "script"
      /\ \A t \in Streams \ {s} : co'[t] = co[t]
  BY ScriptEffect, FilterFacts DEF Running
<1>2. /\ \A t \in Streams \ {s} : shown'[t] = shown[t]
      /\ shown[s] \subseteq shown'[s]
  BY ShowsResult
<1>3. /\ co'[s].has_body_data = co[s].has_body_data
      /\ co'[s].body_chunk_consumed = co[s].body_chunk_consumed
      /\ ret' = ret /\ pushed' = pushed
      /\ \/ pc' \in {"script", ret}
         \/ pc' = "returned" /\ co'[s].state = "kExited"
  BY ScriptKeeps, ScriptResult, FilterFacts DEF SameEvents
<1>4. /\ Seen(s) => Seen(s)'
      /\ SeenOrHeld(s) => SeenOrHeld(s)'
  BY <1>2 DEF Seen, SeenOrHeld
<1>5. SeenOrHeld(s)' /\ ((ret # "loop" \/ pushed = "nil") => Seen(s)')
  BY <1>0, <1>1, <1>4 DEF ReadOK
<1>6. co'[s].body_chunk_consumed => host'[s].buf \subseteq shown'[s]
  BY <1>0, <1>2, <1>3 DEF ReadOK
<1>7. ReadOK(s)'
  BY <1>0, <1>1, <1>3, <1>5, <1>6 DEF ReadOK
<1> QED BY <1>1, <1>2, <1>7, OtherRead

LEMMA RunsOnRead ==
    ASSUME FilterInv, ReadInv, NEW s \in Streams, RunsOn(s)
    PROVE  ReadInv'
<1>1. CASE CoroutineRuns(s)
  <2>1. UNCHANGED <<exists, host, missed>>
    BY <1>1 DEF CoroutineRuns, pluginVars
  <2>2. CASE Native(s) /\ Shows(s, ResumedWithBuffer)
    <3>1. on = s
      BY <2>2, NativeEffect, FilterFacts
    <3>2. s \in exists
      BY <3>1, FilterFacts DEF CallbackOK
    <3> QED BY <2>1, <2>2, <3>2, NativeRead
  <2>3. CASE ScriptBody(s) /\ Shows(s, co[s].received_body)
    <3>1. Script(s)
      BY <2>3 DEF Script
    <3> QED BY <2>1, <2>3, <3>1, ScriptRead
  <2>4. CASE ScriptElse(s) /\ shown' = shown
    <3>1. Script(s) /\ Shows(s, FALSE)
      BY <2>4 DEF Script, Shows
    <3> QED BY <2>1, <3>1, ScriptRead
  <2> QED BY <1>1, <2>2, <2>3, <2>4 DEF CoroutineRuns
<1>2. CASE StartFailed(s) \/ StartSucceeded(s)
  BY <1>2, StartReturnsRead
<1>3. CASE HandlerReturns(s)
  BY <1>3, HandlerReturnsRead
<1>4. CASE HandleHeadersEvent(s)
  BY <1>4, HandleHeadersRead
<1> QED BY <1>1, <1>2, <1>3, <1>4 DEF RunsOn

\* In the filter, nil ends the iteration of bodyChunks() only when the script has
\* got every chunk in a Buffer, but for those that were forwarded while it waited
\* in trailers(), for every script and every order of events.
THEOREM NilMeansReadTheorem == PluginSpec => []NilMeansRead
<1>1. PluginInit => ReadInv
  <2> SUFFICES ASSUME PluginInit, NEW s \in Streams PROVE ReadOK(s)
    BY DEF ReadInv
  <2>1. /\ co[s] = NewCoroutine /\ host[s].chunks = 0 /\ host[s].buf = {}
        /\ pc = "idle"
    BY DEF PluginInit, CoInit
  <2>2. Seen(s) /\ SeenOrHeld(s)
    BY <2>1, NoChunksSeen
  <2> QED BY <2>1, <2>2 DEF ReadOK
<1>2. FilterInv /\ ReadInv /\ [PluginNext]_vars => ReadInv'
  <2> SUFFICES ASSUME FilterInv, ReadInv, [PluginNext]_vars PROVE ReadInv'
    OBVIOUS
  <2>1. CASE UNCHANGED vars
    BY <2>1 DEF vars, coVars, pluginVars, historyVars, ReadInv, ReadOK, Running,
                Waits, WaitsForMore, Seen, SeenOrHeld
  <2>2. CASE OnCreate
    <3>1. \A s \in Streams : host[s].headers = "none"
      BY <2>2, FilterFacts DEF OnCreate, SideOK, Untouched
    <3> QED BY <2>2, <3>1 DEF OnCreate, coVars, historyVars, ReadInv, ReadOK,
            Running, Waits, WaitsForMore, Seen, SeenOrHeld
  <2> QED BY <2>1, <2>2, OnHeadersRead, OnBodyRead, OnTrailersRead, RunsOnRead
      DEF PluginNext, HostNext
<1>3. ReadInv => NilMeansRead
  BY DEF ReadInv, ReadOK, NilMeansRead, Seen
<1> QED BY <1>1, <1>2, <1>3, FilterInvariant, PTL DEF PluginSpec

-----------------------------------------------------------------------------
(* Directions that have ended are let go.                                    *)

\* A script that runs or has ended left no reason to wait behind.
ReasonOK(s) ==
    (co[s].state = "kExited" \/ Running(s)) =>
        co[s].yield_reason \in {"kNone", "kWaitToStart"}

\* A local reply ends the stream, so no callback is in progress after one; no
\* chunk and no reply comes before the headers have been handled; a direction
\* without a coroutine gets no further than a reply to its headers.
ReplyOK ==
    /\ Replied => cb.on = NoStream
    /\ \A s \in Streams :
          /\ host[s].headers = "none" => host[s].chunks = 0 /\ reply[s] = "none"
          /\ (s \notin exists /\ host[s].headers # "none") => Replied

ReasonInv == ReplyOK /\ \A s \in Streams : ReasonOK(s)

LEMMA ReasonStep ==
    ASSUME ~RaisedYields, FilterInv, PluginNext, \A s \in Streams : ReasonOK(s)
    PROVE  \A s \in Streams : ReasonOK(s)'
<1>1. CASE UNCHANGED <<co, pc, on>>
  BY <1>1 DEF ReasonOK, Running
<1>2. ASSUME NEW s \in Streams, on' \in {s, NoStream},
             \A t \in Streams \ {s} : co'[t] = co[t], ReasonOK(s)'
      PROVE  \A t \in Streams : ReasonOK(t)'
  <2>1. ASSUME NEW t \in Streams, t # s PROVE ReasonOK(t)'
    BY <1>2, <2>1, StreamsAssumption DEF ReasonOK, Running
  <2> QED BY <1>2, <2>1
<1>3. ASSUME NEW s \in Streams, NEW end \in BOOLEAN, OnHeaders(s, end)
      PROVE  \A t \in Streams : ReasonOK(t)'
  <2>1. CASE s \notin exists
    BY <1>1, <1>3, <2>1, OnHeadersCases DEF NoCoroutine, coVars
  <2>2. CASE s \in exists
    <3>1. Start(s) /\ host[s].headers = "none" /\ Idle
      BY <1>3, <2>2, OnHeadersCases
    <3>2. Fresh(s)
      BY <3>1, FilterFacts DEF SideOK, Untouched, Idle, NoCallback
    <3>3. co'[s].yield_reason = "kWaitToStart"
      BY <3>1, <3>2, StartResult, FilterFacts DEF Fresh
    <3>4. on' = s /\ \A t \in Streams \ {s} : co'[t] = co[t]
      BY <3>1, FilterCallEffect, FilterFacts DEF FilterCall
    <3> QED BY <1>2, <3>3, <3>4 DEF ReasonOK
  <2> QED BY <2>1, <2>2
<1>4. ASSUME NEW s \in Streams, FilterCall(s), Runs(s) \/ SameState(s),
             pc' = "script" => Runs(s)
      PROVE  \A t \in Streams : ReasonOK(t)'
  <2>1. on' = s /\ \A t \in Streams \ {s} : co'[t] = co[t]
    BY <1>4, FilterCallEffect, FilterFacts
  <2>2. ReasonOK(s)'
    BY <1>4 DEF ReasonOK, Runs, SameState, Running
  <2> QED BY <1>2, <2>1, <2>2
<1>5. ASSUME NEW s \in Streams, NEW data \in BOOLEAN, NEW end \in BOOLEAN,
             OnBody(s, data, end)
      PROVE  \A t \in Streams : ReasonOK(t)'
  <2>1. CASE s \notin exists
    BY <1>1, <1>5, <2>1, OnBodyCases DEF NoCoroutine, coVars
  <2>2. CASE s \in exists
    <3>1. PICK some \in BOOLEAN : HandleBody(s, some, end)
      BY <1>5, <2>2, OnBodyCases
    <3>2. ~co[s].stream_ended
      BY <1>5, OnBodyCases, FilterFacts DEF SideOK, EndSeen
    <3>3. (Runs(s) \/ SameState(s)) /\ (pc' = "script" => Runs(s))
      BY <3>1, <3>2, HandleBodyResult, FilterFacts
    <3> QED BY <1>4, <3>1, <3>3 DEF FilterCall
  <2> QED BY <2>1, <2>2
<1>6. ASSUME NEW s \in Streams, OnTrailers(s)
      PROVE  \A t \in Streams : ReasonOK(t)'
  <2>1. CASE s \notin exists
    BY <1>1, <1>6, <2>1, OnTrailersCases DEF NoCoroutine, coVars
  <2>2. CASE s \in exists
    <3>1. HandleTrailers(s)
      BY <1>6, <2>2, OnTrailersCases
    <3>2. ~co[s].stream_ended /\ ~co[s].received_trailers
      BY <1>6, OnTrailersCases, FilterFacts DEF SideOK, EndSeen
    <3>3. (Runs(s) \/ SameState(s)) /\ (pc' = "script" => Runs(s))
      BY <3>1, <3>2, HandleTrailersResult, FilterFacts DEF SameState
    <3> QED BY <1>4, <3>1, <3>3 DEF FilterCall
  <2> QED BY <2>1, <2>2
<1>7. ASSUME NEW s \in Streams, HandleHeadersEvent(s)
      PROVE  \A t \in Streams : ReasonOK(t)'
  <2>1. HandleHeaders(s, cb.end_of_stream) /\ cb.end_of_stream \in BOOLEAN
    BY <1>7, FilterFacts DEF HandleHeadersEvent, FilterTypes, Callback
  <2>2. (Runs(s) \/ SameState(s)) /\ (pc' = "script" => Runs(s))
    BY <2>1, HandleHeadersResult, FilterFacts
  <2> QED BY <1>4, <2>1, <2>2 DEF FilterCall
<1>8. ASSUME NEW s \in Streams, NEW mark \in BOOLEAN, Return(s, mark)
      PROVE  \A t \in Streams : ReasonOK(t)'
  BY <1>8, ReturnEffect, ReturnKeeps, FilterFacts DEF ReasonOK, Running
<1>9. ASSUME NEW s \in Streams, Native(s)
      PROVE  \A t \in Streams : ReasonOK(t)'
  <2>1. /\ on' = s /\ \A t \in Streams \ {s} : co'[t] = co[t]
    BY <1>9, NativeEffect, FilterFacts
  <2>2. Runs(s) \/ (co' = co /\ pc' # "script")
    BY <1>9, NativeResult, FilterFacts
  <2>3. ReasonOK(s)'
    BY <2>2 DEF ReasonOK, Running, Runs
  <2> QED BY <1>2, <2>1, <2>3
<1>10. ASSUME NEW s \in Streams, Script(s)
       PROVE  \A t \in Streams : ReasonOK(t)'
  <2>1. /\ Running(s) /\ on' = s /\ \A t \in Streams \ {s} : co'[t] = co[t]
    BY <1>10, ScriptEffect, FilterFacts
  <2>2. (pc' = "script" \/ co'[s].state = "kExited") =>
            co'[s].yield_reason = co[s].yield_reason
    BY <1>10, ScriptResult, FilterFacts
  <2>3. ReasonOK(s)'
    BY <2>1, <2>2 DEF ReasonOK, Running
  <2> QED BY <1>2, <2>1, <2>3
<1>11. ASSUME NEW s \in Streams, StartFailed(s) \/ StartSucceeded(s)
                                 \/ HandlerReturns(s)
       PROVE  \A t \in Streams : ReasonOK(t)'
  <2>1. \E mark \in BOOLEAN : Return(s, mark)
    BY <1>11 DEF StartFailed, StartSucceeded, HandlerReturns, Finish
  <2> QED BY <1>8, <2>1
<1>12. CASE OnCreate
  BY <1>1, <1>12 DEF OnCreate, coVars
<1> QED BY <1>3, <1>5, <1>6, <1>7, <1>9, <1>10, <1>11, <1>12, RunsOnCases DEF PluginNext, HostNext

\* What the step of an event of s does, whether its coroutine exists or not.
Delivers(s, h, event) ==
    /\ cb.on = NoStream /\ ~Replied /\ h \in HostSide /\ exists' = exists
    /\ h.headers = "none" =>
          host[s].headers = "none" /\ h.chunks = host[s].chunks
    /\ \A t \in Streams \ {s} : host'[t] = host[t] /\ co'[t] = co[t]
    /\ \/ /\ SendLocalResponse(s, event) /\ cb' = cb
          /\ host'[s].headers # "none"
          /\ event = "headers" \/ (s \notin exists /\ host[s].headers # "none")
       \/ reply' = reply /\ cb'.on = s /\ host'[s] = h /\ s \in exists

LEMMA EventDelivers ==
    ASSUME FilterInv, HostNext
    PROVE  \E s \in Streams : \E h, event : Delivers(s, h, event)
<1>0. /\ FilterTypes /\ CoTypeOK /\ host \in [Streams -> HostSide]
  BY FilterFacts DEF FilterTypes
<1>1. ASSUME NEW s \in Streams, NEW h \in HostSide, NEW event, NEW status,
             h.headers = "none" =>
                host[s].headers = "none" /\ h.chunks = host[s].chunks,
             NoCoroutine(s, event, h, status), ~Replied, Idle,
             status = "StopIteration" \/ h.headers # "none", exists' = exists,
             event = "headers" \/ (s \notin exists /\ host[s].headers # "none")
      PROVE  Delivers(s, h, event)
  <2>1. host'[s].headers # "none"
    BY <1>0, <1>1, ApplyResult DEF NoCoroutine
  <2> QED BY <1>0, <1>1, <2>1
      DEF Delivers, NoCoroutine, Idle, NoCallback, coVars
<1>2. ASSUME NEW s \in Streams, NEW h \in HostSide, NEW event, NEW end, Idle,
             h.headers = "none" =>
                host[s].headers = "none" /\ h.chunks = host[s].chunks,
             ~Replied, FilterCall(s), reply' = reply, s \in exists,
             exists' = exists,
             cb' = InCallback(s, event, end), host' = [host EXCEPT ![s] = h]
      PROVE  Delivers(s, h, event)
  BY <1>0, <1>2, FilterCallEffect DEF Delivers, InCallback, Idle, NoCallback
<1>3. ASSUME NEW s \in Streams, NEW end \in BOOLEAN, OnHeaders(s, end)
      PROVE  Delivers(s, HeadersCome(s, end), "headers")
  <2>1. /\ HeadersCome(s, end) \in HostSide
        /\ HeadersCome(s, end).chunks = host[s].chunks
        /\ host[s].headers = "none"
    BY <1>0, <1>3, HeadersComeResult, OnHeadersCases
  <2> QED BY <1>1, <1>2, <1>3, <2>1, OnHeadersCases DEF FilterCall
<1>4. ASSUME NEW s \in Streams, NEW data \in BOOLEAN, NEW end \in BOOLEAN,
             OnBody(s, data, end)
      PROVE  Delivers(s, BodyComes(s, data, end), "body")
  <2>1. /\ BodyComes(s, data, end) \in HostSide
        /\ BodyComes(s, data, end).headers # "none"
    BY <1>0, <1>4, BodyComesResult, OnBodyCases
  <2> QED BY <1>1, <1>2, <1>4, <2>1, OnBodyCases DEF FilterCall
<1>5. ASSUME NEW s \in Streams, OnTrailers(s)
      PROVE  Delivers(s, HeadersCome(s, TRUE), "trailers")
  <2>1. /\ HeadersCome(s, TRUE) \in HostSide
        /\ HeadersCome(s, TRUE).headers # "none"
    BY <1>0, <1>5, HeadersComeResult, OnTrailersCases
  <2> QED BY <1>1, <1>2, <1>5, <2>1, OnTrailersCases DEF FilterCall
<1> QED BY <1>3, <1>4, <1>5 DEF HostNext

\* The steps after which a callback is over.
LEMMA CallbackEnds ==
    ASSUME FilterInv, NEW s \in Streams, StartFailed(s) \/ HandlerReturns(s)
    PROVE  /\ cb.on = s /\ cb'.on = NoStream /\ pc = "returned" /\ on = s
           /\ co'[s].state = co[s].state
           /\ co'[s].received_headers = co[s].received_headers
           /\ \A t \in Streams \ {s} : /\ host'[t] = host[t] /\ co'[t] = co[t]
                                       /\ reply'[t] = reply[t]
           /\ host'[s].headers # "none" /\ host'[s].chunks = host[s].chunks
           /\ host'[s].ended = host[s].ended
           /\ exists' = exists /\ s \in exists
<1>0. /\ host \in [Streams -> HostSide] /\ host[s] \in HostSide /\ CoTypeOK
      /\ reply \in [Streams -> {"none", "sent", "refused"}] /\ CallbackOK
      /\ s # NoStream
  BY FilterFacts DEF FilterTypes
<1>1. /\ cb.on = s /\ cb' = NoCallback /\ \E mark \in BOOLEAN : Return(s, mark)
      /\ \/ reply' = reply \/ SendLocalResponse(s, cb.event)
         \/ reply' = [reply EXCEPT ![s] = "none"]
      /\ exists' = exists
  BY DEF StartFailed, HandlerReturns, Finish
<1>6. /\ \A t \in Streams \ {s} : reply'[t] = reply[t]
      /\ s \in exists
  BY <1>0, <1>1 DEF SendLocalResponse, CallbackOK
<1>2. \/ host' = [host EXCEPT ![s] = Apply(host[s], "StopIteration")]
      \/ host' = [host EXCEPT ![s] = Apply(host[s], Status(s))]
  BY DEF StartFailed, HandlerReturns, Finish
<1>3. /\ \A t \in Streams \ {s} : host'[t] = host[t]
      /\ \/ host'[s] = Apply(host[s], "StopIteration")
         \/ host'[s] = Apply(host[s], Status(s))
  BY <1>0, <1>2
<1>4. host'[s].headers # "none"
  <2>1. CASE host[s].headers # "none"
    BY <1>0, <1>3, <2>1, ApplyResult
  <2>2. CASE host[s].headers = "none"
    <3>1. cb.event = "headers"
      BY <1>1, <2>2, FilterFacts DEF SideOK, InStep
    <3>2. Status(s) \in {"StopIteration", "Continue"}
      BY <3>1 DEF Status, HeadersStatus
    <3> QED BY <1>0, <1>3, <3>2, ApplyResult
  <2> QED BY <2>1, <2>2
<1>5. host'[s].chunks = host[s].chunks /\ host'[s].ended = host[s].ended
  BY <1>0, <1>3, ApplyResult
<1> QED BY <1>0, <1>1, <1>3, <1>4, <1>5, <1>6, ReturnEffect, ReturnKeeps
        DEF NoCallback

\* A callback that goes on leaves the host and the replies alone.
LEMMA CallbackGoesOn ==
    ASSUME FilterInv, NEW s \in Streams, RunsOn(s),
           ~StartFailed(s), ~HandlerReturns(s)
    PROVE  /\ cb.on = s /\ cb'.on = s /\ host' = host /\ reply' = reply
           /\ exists' = exists
           /\ \A t \in Streams \ {s} : co'[t] = co[t]
<1>0. CoTypeOK /\ cb \in Callback /\ CallbackOK /\ s # NoStream
  BY FilterFacts DEF FilterTypes
<1>1. CASE StartSucceeded(s)
  <2>1. Return(s, FALSE) /\ cb.on = s /\ cb' = [cb EXCEPT !.started = TRUE]
        /\ host' = host /\ reply' = reply /\ exists' = exists
    BY <1>1 DEF StartSucceeded
  <2>2. \A t \in Streams \ {s} : co'[t] = co[t]
    BY <1>0, <2>1, ReturnKeeps
  <2> QED BY <1>0, <2>1, <2>2 DEF Callback
<1>2. CASE HandleHeadersEvent(s)
  <2>1. FilterCall(s)
    BY <1>0, <1>2 DEF HandleHeadersEvent, FilterCall, Callback
  <2> QED BY <1>0, <1>2, <2>1, FilterCallEffect DEF HandleHeadersEvent, pluginVars
<1>3. CASE (Native(s) \/ Script(s)) /\ UNCHANGED pluginVars
  BY <1>0, <1>3, NativeEffect, ScriptEffect DEF pluginVars, Running, CallbackOK
<1> QED BY <1>1, <1>2, <1>3, RunsOnCases

LEMMA ReplyStep ==
    ASSUME FilterInv, PluginNext, ReplyOK
    PROVE  ReplyOK'
<1>0. /\ NoStream \notin Streams
      /\ reply \in [Streams -> {"none", "sent", "refused"}]
  BY FilterFacts DEF FilterTypes
<1>1. CASE OnCreate
  <2>1. \A s \in Streams : host[s].headers = "none"
    BY <1>1, FilterFacts DEF OnCreate, SideOK, Untouched
  <2> QED BY <1>1, <2>1 DEF OnCreate, ReplyOK, Replied
<1>2. CASE HostNext
  <2>0. PICK s \in Streams : \E h, event : Delivers(s, h, event)
    BY <1>2, EventDelivers
  <2>1. PICK h, event : Delivers(s, h, event)
    BY <2>0
  <2>2. CASE SendLocalResponse(s, event) /\ cb' = cb
    <3>1. /\ event = "headers" /\ cb'.on = NoStream /\ host'[s].headers # "none"
          /\ \A t \in Streams \ {s} : host'[t] = host[t]
      BY <1>0, <2>1, <2>2 DEF Delivers, ReplyOK
    <3>2. reply' = [reply EXCEPT ![s] = "sent"]
      BY <2>2, <3>1 DEF SendLocalResponse, Accepts
    <3>3. Replied'
      BY <1>0, <3>2 DEF Replied
    <3> QED BY <1>0, <3>1, <3>2, <3>3 DEF ReplyOK
  <2>3. CASE reply' = reply /\ cb'.on = s /\ host'[s] = h /\ s \in exists
    <3>1. ~Replied' /\ ~Replied /\ exists' = exists
      BY <2>1, <2>3 DEF Delivers, Replied
    <3>2. /\ \A t \in Streams \ {s} : host'[t] = host[t]
          /\ h.headers = "none" =>
                host[s].headers = "none" /\ h.chunks = host[s].chunks
      BY <2>1 DEF Delivers
    <3> QED BY <2>3, <3>1, <3>2 DEF ReplyOK
  <2> QED BY <2>1, <2>2, <2>3 DEF Delivers
<1>3. ASSUME NEW s \in Streams, StartFailed(s) \/ HandlerReturns(s)
      PROVE  ReplyOK'
  <2>1. /\ cb.on = s /\ cb'.on = NoStream /\ exists' = exists /\ s \in exists
        /\ \A t \in Streams \ {s} : host'[t] = host[t] /\ reply'[t] = reply[t]
        /\ host'[s].headers # "none"
    BY <1>3, CallbackEnds
  <2>2. ~Replied
    BY <1>0, <2>1 DEF ReplyOK
  <2> QED BY <2>1, <2>2 DEF ReplyOK
<1>4. ASSUME NEW s \in Streams, RunsOn(s), ~StartFailed(s), ~HandlerReturns(s)
      PROVE  ReplyOK'
  <2>1. /\ cb.on = s /\ cb'.on = s /\ host' = host /\ reply' = reply
        /\ exists' = exists
    BY <1>4, CallbackGoesOn
  <2> QED BY <2>1 DEF ReplyOK, Replied
<1> QED BY <1>1, <1>2, <1>3, <1>4 DEF PluginNext

\* A handler that returns on an ended direction lets it go: the status it maps to
\* is Continue, or it asks for a reply, which the host takes or refuses.
LEMMA HandlerLetsGo ==
    ASSUME FilterInv, ReasonInv, NEW s \in Streams, HandlerReturns(s),
           host'[s].ended
    PROVE  LetGo(s)' \/ ReplyRefused(s)'
<1>0. /\ host \in [Streams -> HostSide] /\ host[s] \in HostSide /\ SideOK(s)
      /\ reply \in [Streams -> {"none", "sent", "refused"}]
      /\ co[s] \in Coroutine /\ cb \in Callback
  BY FilterFacts DEF FilterTypes
<1>1. /\ cb.on = s /\ (cb.event = "headers" => cb.started)
      /\ pc = "returned" /\ on = s
      /\ host' = [host EXCEPT ![s] = Apply(host[s], Status(s))]
      /\ outcome = "error" => SendLocalResponse(s, cb.event)
  BY DEF HandlerReturns, Finish, Return
<1>5. co'[s].state = co[s].state
  BY CallbackEnds
<1>2. /\ host'[s] = Apply(host[s], Status(s)) /\ host[s].ended
  BY <1>0, <1>1, ApplyResult
<1>3. CASE outcome = "error"
  <2>1. reply'[s] \in {"sent", "refused"}
    BY <1>0, <1>1, <1>3 DEF SendLocalResponse
  <2>2. co'[s].state = "kExited"
    BY <1>0, <1>1, <1>3, <1>5 DEF SideOK, Answers
  <2> QED BY <2>1, <2>2 DEF LetGo, Replied, ReplyRefused
<1>4. CASE outcome # "error"
  <2>1. co[s].stream_ended
    BY <1>0, <1>1, <1>2, <1>4 DEF SideOK, InStep, EndSeen, Handled
  <2>2. co[s].yield_reason \notin {"kWaitForHttp", "kWaitForBody", "kResponded"}
    <3>1. CASE co[s].state = "kExited"
      BY <3>1 DEF ReasonInv, ReasonOK
    <3>2. CASE co[s].state = "kYielded"
      BY <1>0, <1>1, <2>1, <3>2
      DEF FilterInv, EndedInv, EndedNeverWaits, WaitsForMore, SideOK, Answers
    <3> QED BY <1>0, <3>1, <3>2 DEF Coroutine, ExecutionStates
  <2>3. Status(s) = "Continue"
    <3>1. CASE cb.event = "headers"
      BY <1>4, <2>2, <3>1 DEF Status, HeadersStatus, HeadersHeldFor
    <3>2. CASE cb.event = "body"
      <4>1. Status(s) = BodyStatus(s)
        BY <3>2 DEF Status
      <4>2. BodyStatus(s) = "Continue"
        BY <1>4, <2>2 DEF BodyStatus, Waits
      <4> QED BY <4>1, <4>2
    <3>3. CASE cb.event \notin {"headers", "body"}
      BY <1>4, <2>2, <3>3 DEF Status, TrailersStatus
    <3> QED BY <3>1, <3>2, <3>3
  <2>4. host'[s].closed
    BY <1>0, <1>2, <2>3, ApplyResult
  <2> QED BY <2>4 DEF LetGo
<1> QED BY <1>3, <1>4

\* Nothing about the end of t has changed for the worse.
EndKept(t) ==
    /\ cb.on # t /\ host[t].ended
    /\ LetGo(t) => LetGo(t)'
    /\ StuckAtHeaders(t) => StuckAtHeaders(t)'
    /\ ReplyRefused(t) => ReplyRefused(t)'

LEMMA EndStep ==
    ASSUME FilterInv, ReasonInv, PluginNext, NEW t \in Streams, cb'.on # t,
           host'[t].ended
    PROVE  \/ LetGo(t)' \/ ReplyRefused(t)' \/ EndKept(t)
           \/ StartFailed(t) /\ StuckAtHeaders(t)'
<1>0. /\ NoStream \notin Streams /\ host[t] \in HostSide /\ SideOK(t)
      /\ host'[t] \in HostSide /\ ReplyOK
      /\ reply \in [Streams -> {"none", "sent", "refused"}]
  <2>1. FilterTypes'
    BY FilterTypesStep, FilterFacts
  <2> QED BY <2>1, FilterFacts DEF FilterTypes, ReasonInv
<1>1. ASSUME co'[t] = co[t], host'[t] = host[t], cb.on # t,
             Replied => Replied', reply'[t] = reply[t]
      PROVE  EndKept(t)
  BY <1>1 DEF EndKept, LetGo, StuckAtHeaders, ReplyRefused
<1>2. CASE OnCreate
  <2>1. cb.on # t
    BY <1>0, <1>2 DEF OnCreate
  <2> QED BY <1>1, <1>2, <2>1 DEF OnCreate, coVars, Replied
<1>3. CASE HostNext
  <2>0. PICK s \in Streams : \E h, event : Delivers(s, h, event)
    BY <1>3, EventDelivers
  <2>1. PICK h, event : Delivers(s, h, event)
    BY <2>0
  <2>2. reply' = reply \/ SendLocalResponse(s, event)
    BY <2>1 DEF Delivers
  <2>4. CASE s = t
    <3>1. SendLocalResponse(t, event) /\ event = "headers"
      BY <1>0, <2>1, <2>4 DEF Delivers, ReplyOK
    <3>2. reply' = [reply EXCEPT ![t] = "sent"]
      BY <3>1 DEF SendLocalResponse, Accepts
    <3> QED BY <1>0, <3>2 DEF LetGo, Replied
  <2>5. CASE s # t
    <3>1. reply'[t] = reply[t] /\ ~Replied /\ cb.on = NoStream
      BY <1>0, <2>1, <2>2, <2>5 DEF SendLocalResponse, Delivers
    <3>2. co'[t] = co[t] /\ host'[t] = host[t]
      BY <2>1, <2>5 DEF Delivers
    <3> QED BY <1>0, <1>1, <3>1, <3>2
  <2> QED BY <2>4, <2>5
<1>4. ASSUME NEW s \in Streams, StartFailed(s) \/ HandlerReturns(s), s # t
      PROVE  EndKept(t)
  <2>1. /\ cb.on = s /\ host'[t] = host[t] /\ co'[t] = co[t]
        /\ reply'[t] = reply[t]
    BY <1>4, CallbackEnds
  <2>2. ~Replied
    BY <1>0, <2>1 DEF ReplyOK
  <2> QED BY <1>1, <1>4, <2>1, <2>2
<1>5. CASE HandlerReturns(t)
  BY <1>5, HandlerLetsGo
<1>6. CASE StartFailed(t)
  <2>1. /\ cb.on = t /\ pc = "returned" /\ on = t
        /\ co'[t].state = co[t].state
        /\ co'[t].received_headers = co[t].received_headers
        /\ host'[t].headers # "none" /\ host'[t].chunks = host[t].chunks
    BY <1>6, CallbackEnds
  <2>2. /\ outcome = "error" /\ cb.event = "headers" /\ ~cb.started
        /\ reply' = reply
        /\ host'[t] = Apply(host[t], "StopIteration")
    BY <1>6, FilterFacts DEF StartFailed, FilterTypes
  <2>3. /\ co[t].state = "kExited" /\ host[t].headers = "none"
        /\ ~co[t].received_headers
    BY <1>0, <2>1, <2>2 DEF SideOK, Answers, InStep
  <2>4. host'[t].headers = "held"
    <3>1. host'[t].headers # "passed"
      BY <1>0, <2>2, <2>3, ApplyResult
    <3> QED BY <1>0, <2>1, <3>1 DEF HostSide
  <2>5. StuckAtHeaders(t)'
    BY <1>0, <2>1, <2>2, <2>3, <2>4 DEF StuckAtHeaders, ReplyOK
  <2> QED BY <1>6, <2>5
<1>7. ASSUME NEW s \in Streams, RunsOn(s), ~StartFailed(s), ~HandlerReturns(s)
      PROVE  EndKept(t)
  <2>1. /\ cb.on = s /\ cb'.on = s /\ host' = host /\ reply' = reply
        /\ \A u \in Streams \ {s} : co'[u] = co[u]
    BY <1>7, CallbackGoesOn
  <2>2. s # t /\ (Replied => Replied')
    BY <2>1 DEF Replied
  <2> QED BY <1>1, <2>1, <2>2
<1> QED BY <1>2, <1>3, <1>4, <1>5, <1>6, <1>7 DEF PluginNext

LEMMA ReasonInvStep ==
    ASSUME ~RaisedYields, FilterInv, ReasonInv, [PluginNext]_vars
    PROVE  ReasonInv'
<1>1. CASE UNCHANGED vars
  BY <1>1 DEF vars, coVars, pluginVars, historyVars, ReasonInv, ReasonOK, Running, ReplyOK,
              Replied
<1> QED BY <1>1, ReasonStep, ReplyStep DEF ReasonInv

LEMMA ReasonInvInit ==
    ASSUME PluginInit
    PROVE  ReasonInv
BY DEF PluginInit, CoInit, NewCoroutine, NoCallback, ReasonInv, ReasonOK,
       Running, ReplyOK, Replied

\* Every direction that has ended, and that no callback is on.
EndInv ==
    \A s \in Streams :
        (cb.on # s /\ host[s].ended) =>
            LetGo(s) \/ StuckAtHeaders(s) \/ ReplyRefused(s)

\* Between callbacks, a direction that has ended is forwarded or a local reply that
\* the host took has ended the stream; what is kept is a direction that ended with
\* headers whose Start failed, or one whose last handler met an error where the
\* host refuses replies: for every script that does not yield across a C call,
\* with or without entry points and start errors.
THEOREM KeptOnlyOnErrorTheorem ==
    ASSUME ~RaisedYields
    PROVE  PluginSpec => []KeptOnlyOnError
<1>1. PluginInit => FilterInv /\ ReasonInv /\ EndInv
  <2> SUFFICES ASSUME PluginInit, NEW s \in Streams PROVE ~host[s].ended
    BY FilterInvInit, ReasonInvInit DEF EndInv
  <2> QED BY DEF PluginInit
<1>2. FilterInv /\ ReasonInv /\ EndInv /\ [PluginNext]_vars
        => FilterInv' /\ ReasonInv' /\ EndInv'
  <2> SUFFICES ASSUME FilterInv, ReasonInv, EndInv, [PluginNext]_vars
               PROVE  EndInv'
    BY FilterInvStep, ReasonInvStep
  <2>1. CASE UNCHANGED vars
    BY <2>1 DEF vars, coVars, pluginVars, historyVars, EndInv, LetGo, StuckAtHeaders,
                ReplyRefused, Replied
  <2>2. CASE PluginNext
    <3> SUFFICES ASSUME NEW t \in Streams, cb'.on # t, host'[t].ended
                 PROVE  LetGo(t)' \/ StuckAtHeaders(t)' \/ ReplyRefused(t)'
      BY DEF EndInv
    <3> QED BY <2>2, EndStep DEF EndInv, EndKept
  <2> QED BY <2>1, <2>2
<1>3. EndInv => KeptOnlyOnError
  BY StreamsAssumption DEF EndInv, KeptOnlyOnError, Idle, NoCallback
<1> QED BY <1>1, <1>2, <1>3, PTL DEF PluginSpec

\* Start of a script that has its entry point and does not fail before its first
\* yield: it comes back to the end of Start, which returns a status that is ok.
StartOK ==
    (cb.on # NoStream /\ cb.event = "headers" /\ ~cb.started) =>
        /\ outcome = "ok" /\ pc \in {"script", "tail", "returned"}
        /\ pc = "script" => ret = "tail" /\ thread[cb.on] = "ready"
        /\ ~co[cb.on].stream_ended

LEMMA StartOKStep ==
    ASSUME ~StartErrors, Defined = Streams, FilterInv, PluginNext, StartOK
    PROVE  StartOK'
<1>0. CoTypeOK /\ ThreadAgrees /\ CallbackOK /\ cb \in Callback
  BY FilterFacts DEF FilterTypes
<1>1. CASE OnCreate
  BY <1>1 DEF OnCreate, coVars, StartOK
<1>2. ASSUME NEW s \in Streams, NEW end \in BOOLEAN, OnHeaders(s, end)
      PROVE  StartOK'
  <2>1. CASE s \notin exists
    BY <1>2, <2>1, OnHeadersCases
    DEF NoCoroutine, Idle, NoCallback, StartOK
  <2>2. CASE s \in exists
    <3>1. /\ Start(s) /\ cb' = InCallback(s, "headers", end) /\ Idle
          /\ host[s].headers = "none"
      BY <1>2, <2>2, OnHeadersCases
    <3>2. Fresh(s)
      BY <3>1, FilterFacts DEF SideOK, Untouched, Idle, NoCallback
    <3>3. /\ pc' = "script" /\ ret' = "tail" /\ outcome' = "ok" /\ co' = co
          /\ thread' = thread
      BY <1>0, <3>1, <3>2, StartResult DEF Fresh
    <3>4. cb'.on = s /\ thread[s] = "ready" /\ ~co[s].stream_ended
      BY <3>1, <3>2 DEF InCallback, Fresh, NewCoroutine
    <3> QED BY <3>3, <3>4 DEF StartOK
  <2> QED BY <2>1, <2>2
<1>3. ASSUME NEW s \in Streams, NEW event, NEW end, event # "headers",
             cb' = InCallback(s, event, end) \/ (cb' = cb /\ Idle)
      PROVE  StartOK'
  BY <1>3 DEF InCallback, Idle, NoCallback, StartOK
<1>4. ASSUME NEW s \in Streams, NEW data \in BOOLEAN, NEW end \in BOOLEAN,
             OnBody(s, data, end)
      PROVE  StartOK'
  BY <1>3, <1>4, OnBodyCases DEF NoCoroutine
<1>5. ASSUME NEW s \in Streams, OnTrailers(s)
      PROVE  StartOK'
  BY <1>3, <1>5, OnTrailersCases DEF NoCoroutine
<1>6. ASSUME NEW s \in Streams, StartFailed(s) \/ HandlerReturns(s)
      PROVE  StartOK'
  BY <1>6, CallbackEnds DEF StartOK
<1>7. ASSUME NEW s \in Streams, StartSucceeded(s) PROVE StartOK'
  BY <1>0, <1>7 DEF StartSucceeded, StartOK, Callback
<1>8. ASSUME NEW s \in Streams, HandleHeadersEvent(s) PROVE StartOK'
  BY <1>8 DEF HandleHeadersEvent, pluginVars, StartOK
<1>9. ASSUME NEW s \in Streams, Native(s), UNCHANGED pluginVars
      PROVE  StartOK'
  <2> SUFFICES ASSUME cb.on # NoStream, cb.event = "headers", ~cb.started
               PROVE  StartOK'
    BY <1>9 DEF StartOK, pluginVars
  <2>1. on = s /\ on' = s /\ pc # "script" /\ cb.on = s /\ cb' = cb
    BY <1>0, <1>9, NativeEffect, StreamsAssumption DEF CallbackOK, pluginVars
  <2>2. pc = "tail"
    BY <1>9, <2>1 DEF StartOK, Native, TrailersChunks, TrailersTrailers, Tail,
                      RunToCompletion
  <2>3. Goto(s, IF co[s].stream_ended THEN "loop" ELSE "returned", co[s], "ok")
    BY <1>9, <2>2 DEF Native, TrailersChunks, TrailersTrailers, Tail,
                      RunToCompletion
  <2>4. ~co[s].stream_ended
    BY <2>1 DEF StartOK
  <2> QED BY <1>0, <2>1, <2>3, <2>4 DEF StartOK, Goto, CoTypeOK
<1>10. ASSUME NEW s \in Streams, Script(s), UNCHANGED pluginVars
       PROVE  StartOK'
  <2> SUFFICES ASSUME cb.on # NoStream, cb.event = "headers", ~cb.started
               PROVE  StartOK'
    BY <1>10 DEF StartOK, pluginVars
  <2>1. Running(s) /\ on = s /\ on' = s /\ cb.on = s /\ cb' = cb /\ ret' = ret
    BY <1>0, <1>10, ScriptEffect, StreamsAssumption
    DEF CallbackOK, pluginVars, Running
  <2>2. /\ outcome = "ok" /\ ret = "tail" /\ thread[s] = "ready"
        /\ ~co[s].stream_ended
    BY <2>1 DEF StartOK, Running
  <2>3. /\ outcome' = "ok" /\ pc' \in {"script", "tail"}
        /\ pc' = "script" => thread' = thread
    BY <1>0, <1>10, <2>2, ScriptResult
  <2>4. ~co'[s].stream_ended
    BY <1>0, <1>10, <2>2, ScriptKeeps DEF SameEvents
  <2> QED BY <2>1, <2>2, <2>3, <2>4 DEF StartOK
<1> QED BY <1>1, <1>2, <1>4, <1>5, <1>6, <1>7, <1>8, <1>9, <1>10, RunsOnCases DEF PluginNext, HostNext

\* When both entry points exist and no script fails before its first yield, no
\* script keeps a stream that has ended, but where its reply is refused.
THEOREM NoStuckStreamTheorem ==
    ASSUME ~RaisedYields, ~StartErrors, Defined = Streams
    PROVE  PluginSpec => []NoStuckStream
<1> DEFINE Gone == \A s \in Streams : (cb.on # s /\ host[s].ended) =>
                                            LetGo(s) \/ ReplyRefused(s)
<1>1. PluginInit => FilterInv /\ ReasonInv /\ StartOK /\ Gone
  <2> SUFFICES ASSUME PluginInit PROVE StartOK /\ Gone
    BY FilterInvInit, ReasonInvInit
  <2> QED BY DEF PluginInit, NoCallback, StartOK
<1>2. FilterInv /\ ReasonInv /\ StartOK /\ Gone /\ [PluginNext]_vars
        => FilterInv' /\ ReasonInv' /\ StartOK' /\ Gone'
  <2> SUFFICES ASSUME FilterInv, ReasonInv, StartOK, Gone, [PluginNext]_vars
               PROVE  StartOK' /\ Gone'
    BY FilterInvStep, ReasonInvStep
  <2>1. CASE UNCHANGED vars
    BY <2>1 DEF vars, coVars, pluginVars, historyVars, StartOK, LetGo, Replied,
                ReplyRefused
  <2>2. CASE PluginNext
    <3>1. StartOK'
      BY <2>2, StartOKStep
    <3>2. ASSUME NEW t \in Streams, cb'.on # t, host'[t].ended
          PROVE  LetGo(t)' \/ ReplyRefused(t)'
      <4>1. ~StartFailed(t)
        BY StreamsAssumption DEF StartFailed, StartOK
      <4> QED BY <2>2, <3>2, <4>1, EndStep DEF EndKept
    <3> QED BY <3>1, <3>2
  <2> QED BY <2>1, <2>2
<1>3. Gone => NoStuckStream
  BY StreamsAssumption DEF NoStuckStream, Idle, NoCallback
<1> QED BY <1>1, <1>2, <1>3, PTL DEF PluginSpec
=============================================================================
