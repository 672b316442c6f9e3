---------------------------- MODULE RewritePlugins ----------------------------
(***************************************************************************)
(* The plugins that rewrite headers, redirect, and replace replies, between *)
(* clients that follow redirects and an origin that may fail.  Streams      *)
(* interleave; the context of each keeps what its request told it.          *)
(*                                                                          *)
(* A request has an authority (a domain, written in any case, perhaps with  *)
(* a port), a path of segments, query parameters and headers.               *)
(***************************************************************************)
EXTENDS SampleHost

CONSTANTS
    Requests,   \* plugin -> the requests clients send through it
    Replies,    \* plugin -> the replies of the origin: status and headers
    Regions,    \* what the client_region property may say, Empty included
    Mappings,   \* configurations of redirect_bulk: sequences of lines
    MaxHops     \* bound: the redirects that a client follows

Authority == [domain : STRING, port : BOOLEAN]
Fields == Seq([name : STRING, value : STRING])
Request == [authority : Authority, path : Seq(STRING), params : Fields,
            headers : Fields, agent : SUBSET STRING, parses : BOOLEAN,
            long : BOOLEAN]

ASSUME RewriteAssumption ==
    /\ MaxHops \in Nat
    /\ \A p \in DOMAIN Requests : Requests[p] \subseteq Request
    /\ \A p \in DOMAIN Requests : \A reply \in Replies[p] : reply.status \in Nat
    /\ Mappings \subseteq Seq(Seq(Authority))

VARIABLES
    rewritePlugin,  \* the plugin the proxy has loaded
    mappings,       \* domain_mappings_ of redirect_bulk
    visit           \* per stream: request, forwarded request, reply

rewriteVars == <<rewritePlugin, mappings, visit>>

-----------------------------------------------------------------------------
(* redirect and redirect_bulk                                               *)

Redirected(location) == [forward |-> FALSE, request |-> location]
Forwarded(request) == [forward |-> TRUE, request |-> request]

\* redirect: a path that starts with /foo/ has moved to /bar/.
\* Variant: /foo/ is looked for anywhere in the path.
Redirect_Anywhere(r) ==
    LET old == {i \in 1..(Len(r.path) - 1) : r.path[i] = "foo"}
    IN  IF old # {}
        THEN Redirected([r EXCEPT !.path[Min(old)] = "bar"])
        ELSE Forwarded(r)

Redirect(r) ==
    IF Len(r.path) > 1 /\ r.path[1] = "foo"
    THEN Redirected([r EXCEPT !.path[1] = "bar"])
    ELSE Forwarded(r)

\* onConfigure of redirect_bulk: a line has two parts or is passed over; the
\* source is put in lower case, and a later line for it wins.
onConfigureMappings(lines) ==
    LET whole == {i \in DOMAIN lines : Len(lines[i]) = 2}
        LastLine(source) == Max({i \in whole : lines[i][1] = source})
    IN  [source \in {lines[i][1] : i \in whole} |-> lines[LastLine(source)][2]]

\* For the lookup the port is cut off and the domain put in lower case, so that
\* a source with a port is never found; path and scheme go along.
WithoutPort(authority) == [authority EXCEPT !.port = FALSE]

RedirectBulk(r) ==
    LET domain == WithoutPort(r.authority)
    IN  IF domain \in DOMAIN mappings
        THEN Redirected([r EXCEPT !.authority = mappings[domain]])
        ELSE Forwarded(r)

-----------------------------------------------------------------------------
(* Header and query rewriting.                                              *)

\* `agent' is the set of key words that the lower case User-Agent contains.
\* Key words that contain others, as "googlebot" does "bot", are left out.
BotKeywords == {"bot", "crawler", "spider", "slurp"}
TabletKeywords == {"tab", "kindle", "playbook", "nexus 7", "sm-t", "pad", "gt-p"}
AndroidIndicators == {"tab", "pad"}
MobileKeywords == {"mobile", "android", "iphone", "ipod", "blackberry",
                   "windows phone", "webos", "opera mini"}
DesktopKeywords == {"mozilla", "chrome", "safari", "firefox", "msie", "opera",
                    "edge", "chromium", "vivaldi"}

ContainsAny(agent, keywords) == agent \cap keywords # {}

IsTablet(agent) ==
    \/ ContainsAny(agent, TabletKeywords)
    \/ "android" \in agent /\ ContainsAny(agent, AndroidIndicators)

DetectDeviceType(agent) ==
    IF ContainsAny(agent, BotKeywords) THEN "bot"
    ELSE IF IsTablet(agent) THEN "tablet"
    ELSE IF ContainsAny(agent, MobileKeywords) THEN "phone"
    ELSE IF ContainsAny(agent, DesktopKeywords) THEN "desktop"
    ELSE "other"

SetHeader(r, name, value) ==
    [r EXCEPT !.headers = replaceHeader(@, name, value)]

\* Variant: the header is added to what the client sent.
GeoOrigin_Add(r, region) ==
    IF region = Empty THEN [r EXCEPT !.headers = removeHeader(@, "x-country-code")]
    ELSE [r EXCEPT !.headers = addHeader(@, "x-country-code", region)]

GeoOrigin(r, region) ==
    IF region = Empty THEN [r EXCEPT !.headers = removeHeader(@, "x-country-code")]
    ELSE SetHeader(r, "x-country-code", region)

\* params().set of boost: the first one is set and the others go.
GeoQuery(r, region) ==
    IF ~r.parses THEN r
    ELSE [r EXCEPT !.params =
            replaceHeader(@, "country", IF region = Empty THEN "unknown" ELSE region)]

\* Erased first, so that the new parameter comes last.
SetQuery(r) ==
    IF ~r.parses \/ r.long THEN r
    ELSE [r EXCEPT !.params = addHeader(removeHeader(@, "key"), "key", "new+val")]

OverwriteHeader(r) ==
    IF getHeader(r.headers, "RequestHeader") = Empty THEN r
    ELSE SetHeader(r, "RequestHeader", "changed")

NormalizeHeader(r) ==
    [r EXCEPT !.headers = addHeader(@, "client-device-type",
       IF \/ getHeader(@, "Sec-CH-UA-Mobile") = "?1"
          \/ "mobile" \in r.agent
       THEN "mobile" ELSE "unknown")]

AddRequestHeader(r) ==
    [r EXCEPT !.headers =
       replaceHeader(addHeader(@, "Message", "hello"), "Welcome", "warm")]

FirstPlugin(r) ==
    [r EXCEPT !.authority = [domain |-> "service-extensions.com", port |-> FALSE],
              !.path = <<>>]

\* The first segment foo-x that a slash follows becomes x.
RegexRewrite(r) ==
    LET old == {i \in 1..(Len(r.path) - 1) : r.path[i] = "foo-x"}
    IN  IF old = {} THEN r ELSE [r EXCEPT !.path[Min(old)] = "x"]

-----------------------------------------------------------------------------
(* Replies.                                                                 *)

\* The part before the slash, the W3C trace id, or none.
extractTraceId(headers) ==
    LET cloud == Named(headers, "x-cloud-trace-context")
        w3c == Named(headers, "traceparent")
    IN  IF cloud # <<>> /\ cloud[1].value # Empty THEN cloud[1].value
        ELSE IF w3c # <<>> /\ w3c[1].value \notin {Empty, "bad"}
        THEN w3c[1].value ELSE "not-available"

Reply(status, headers) == [status |-> status, headers |-> headers]

\* The error page keeps the status of the origin; one that is not a number, here
\* 0, counts as 500.
ErrorPage(reply, trace_id) ==
    LET code == IF reply.status = 0 THEN 500 ELSE reply.status
    IN  IF code < 400 THEN reply
        ELSE Reply(code, <<Field("page", trace_id)>>)

ServerError(status) == status \div 100 = 5

CustomResponse(reply) ==
    IF ServerError(reply.status)
    THEN Reply(302, <<Field("Origin-Status", reply.status),
                      Field("Location", "server-error.html")>>)
    ELSE reply

OverwriteErrcode(reply) ==
    IF ServerError(reply.status) THEN [reply EXCEPT !.status = 404] ELSE reply

OverwriteResponse(reply) ==
    [reply EXCEPT !.headers = replaceHeader(@, "ResponseHeader", "changed")]

FirstPluginResponse(reply) ==
    [reply EXCEPT !.headers = addHeader(@, "hello", "service-extensions")]

AddResponseHeader(reply) ==
    [reply EXCEPT !.headers =
       removeHeader(IF getHeader(@, "Message") = "foo"
                    THEN addHeader(@, "Message", "bar") ELSE @, "Welcome")]

-----------------------------------------------------------------------------
(* The callbacks.                                                           *)

onRequestHeaders(r, region) ==
    CASE rewritePlugin = "redirect" -> Redirect(r)
      [] rewritePlugin = "redirect_bulk" -> RedirectBulk(r)
      [] rewritePlugin = "add_device_type" ->
           Forwarded(SetHeader(r, "x-device-type", DetectDeviceType(r.agent)))
      [] rewritePlugin = "geo_directional_origin" -> Forwarded(GeoOrigin(r, region))
      [] rewritePlugin = "add_geo_query" -> Forwarded(GeoQuery(r, region))
      [] rewritePlugin = "set_query" -> Forwarded(SetQuery(r))
      [] rewritePlugin = "overwrite_header" -> Forwarded(OverwriteHeader(r))
      [] rewritePlugin = "normalize_header" -> Forwarded(NormalizeHeader(r))
      [] rewritePlugin = "add_request_header" -> Forwarded(AddRequestHeader(r))
      [] rewritePlugin = "docs_first_plugin" -> Forwarded(FirstPlugin(r))
      [] rewritePlugin = "regex_rewrite" -> Forwarded(RegexRewrite(r))
      [] OTHER -> Forwarded(r)

onResponseHeaders(reply, trace_id) ==
    CASE rewritePlugin = "error_page_with_traceid" -> ErrorPage(reply, trace_id)
      [] rewritePlugin = "add_custom_response" -> CustomResponse(reply)
      [] rewritePlugin = "overwrite_errcode" -> OverwriteErrcode(reply)
      [] rewritePlugin = "overwrite_header" -> OverwriteResponse(reply)
      [] rewritePlugin = "docs_first_plugin" -> FirstPluginResponse(reply)
      [] rewritePlugin = "add_response_header" -> AddResponseHeader(reply)
      [] OTHER -> reply

NoVisit == [pc |-> "idle"]

RewriteInit ==
    /\ rewritePlugin = "none"
    /\ mappings = <<>>
    /\ visit = [s \in Streams |-> NoVisit]

LoadRewritePlugin(plugin, lines) ==
    /\ rewritePlugin = "none"
    /\ rewritePlugin' = plugin
    /\ mappings' = IF plugin = "redirect_bulk" THEN onConfigureMappings(lines)
                   ELSE <<>>
    /\ UNCHANGED visit

\* The request r of a client whose first request was `asked'.
Sent(asked, r, region, hops) ==
    LET result == onRequestHeaders(r, region)
    IN  [pc |-> IF result.forward THEN "upstream" ELSE "redirected",
         asked |-> asked, region |-> region, hops |-> hops,
         up |-> result.request, trace_id |-> extractTraceId(r.headers),
         origin |-> 0, reply |-> Reply(0, <<>>)]

ClientSends(s, r, region) ==
    /\ visit[s].pc = "idle"
    /\ visit' = [visit EXCEPT ![s] = Sent(r, r, region, 0)]
    /\ UNCHANGED <<rewritePlugin, mappings>>

\* The client follows the Location header.
ClientFollows(s) ==
    /\ visit[s].pc = "redirected" /\ visit[s].hops < MaxHops
    /\ visit' = [visit EXCEPT ![s] =
         Sent(@.asked, @.up, @.region, @.hops + 1)]
    /\ UNCHANGED <<rewritePlugin, mappings>>

\* Variant: the trace id is kept in the root context, which all streams share.
OriginAnswers_Shared(s, reply) ==
    /\ visit[s].pc = "upstream"
    /\ \E t \in Streams :
         /\ visit[t].pc # "idle"
         /\ visit' = [visit EXCEPT
              ![s].pc = "answered", ![s].origin = reply.status,
              ![s].reply = onResponseHeaders(reply, visit[t].trace_id)]
    /\ UNCHANGED <<rewritePlugin, mappings>>

OriginAnswers(s, reply) ==
    /\ visit[s].pc = "upstream"
    /\ visit' = [visit EXCEPT
         ![s].pc = "answered", ![s].origin = reply.status,
         ![s].reply = onResponseHeaders(reply, visit[s].trace_id)]
    /\ UNCHANGED <<rewritePlugin, mappings>>

ClientDone(s) ==
    /\ visit[s].pc = "answered"
    /\ visit' = [visit EXCEPT ![s] = NoVisit]
    /\ UNCHANGED <<rewritePlugin, mappings>>

RewriteNext ==
    \/ \E p \in DOMAIN Requests, lines \in Mappings : LoadRewritePlugin(p, lines)
    \/ /\ rewritePlugin # "none"
       /\ \E s \in Streams :
            \/ \E r \in Requests[rewritePlugin], region \in Regions :
                 ClientSends(s, r, region)
            \/ ClientFollows(s)
            \/ \E reply \in Replies[rewritePlugin] : OriginAnswers(s, reply)
            \/ ClientDone(s)

RewriteSpec == RewriteInit /\ [][RewriteNext]_rewriteVars

-----------------------------------------------------------------------------
(* Correctness.                                                             *)

\* The error page that a client sees shows the trace id of its own request and
\* the status of the origin, whatever the streams do that overlap it; every
\* reply that is an error is such a page.
ErrorPageIsOwn ==
    \A s \in Streams :
      rewritePlugin = "error_page_with_traceid" /\ visit[s].pc = "answered" =>
        LET v == visit[s] IN
        IF v.origin \in 1..399 THEN v.reply.status = v.origin
        ELSE /\ v.reply.status = IF v.origin = 0 THEN 500 ELSE v.origin
             /\ v.reply.headers
                  = <<Field("page", extractTraceId(v.asked.headers))>>

\* No chain of mappings returns to its start.
Acyclic(map) ==
    \A D \in SUBSET DOMAIN map \ {{}} :
      \E d \in D : WithoutPort(map[d]) \notin D

\* A client that follows redirects comes to an end: after one that moves /foo/,
\* and, when no chain of mappings returns to its start, after at most one for
\* each mapping; and what it gets in the end is what it asked for.
RedirectsEnd ==
    \A s \in Streams :
      visit[s].pc # "idle" =>
        LET v == visit[s]
            redirects == v.hops + IF v.pc = "redirected" THEN 1 ELSE 0
        IN  /\ rewritePlugin = "redirect" =>
                 /\ redirects <= 1
                 /\ \A i \in 2..Len(v.asked.path) : v.up.path[i] = v.asked.path[i]
            /\ rewritePlugin = "redirect_bulk" =>
                 /\ [v.up EXCEPT !.authority = v.asked.authority] = v.asked
                 /\ Acyclic(mappings) => redirects <= Cardinality(DOMAIN mappings)

\* What the plugin says about a request, in which list and under which name.
Said(v) ==
    CASE rewritePlugin = "add_device_type" ->
           [in |-> "headers", name |-> "x-device-type",
            values |-> <<DetectDeviceType(v.asked.agent)>>]
      [] rewritePlugin = "geo_directional_origin" ->
           [in |-> "headers", name |-> "x-country-code",
            values |-> IF v.region = Empty THEN <<>> ELSE <<v.region>>]
      [] rewritePlugin = "add_geo_query" ->
           [in |-> "params", name |-> "country",
            values |-> IF v.region = Empty THEN <<"unknown">> ELSE <<v.region>>]
      [] rewritePlugin = "set_query" ->
           [in |-> "params", name |-> "key", values |-> <<"new+val">>]

\* A path that does not parse as a URL, and for set_query one that is too long,
\* is forwarded as it is.
Writes(v) ==
    /\ rewritePlugin \in {"add_geo_query", "set_query"} => v.asked.parses
    /\ rewritePlugin = "set_query" => ~v.asked.long

\* Whatever a client sends under the name that a plugin writes, once, twice or
\* not at all, the origin reads the value of the plugin there and no other, and
\* all other fields as they were sent; a request that a plugin leaves alone
\* reaches the origin unchanged.
PluginValueOnly ==
    \A s \in Streams :
      /\ visit[s].pc = "upstream"
      /\ rewritePlugin \in {"add_device_type", "geo_directional_origin",
                            "add_geo_query", "set_query"}
      => LET v == visit[s]
             said == Said(v)
         IN  IF Writes(v)
             THEN /\ Named(v.up[said.in], said.name)
                       = [i \in DOMAIN said.values |->
                            Field(said.name, said.values[i])]
                  /\ removeHeader(v.up[said.in], said.name)
                       = removeHeader(v.asked[said.in], said.name)
             ELSE v.up = v.asked
=============================================================================
