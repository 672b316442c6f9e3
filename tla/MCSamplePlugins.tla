--------------------------- MODULE MCSamplePlugins ---------------------------
EXTENDS SamplePlugins

(* Cookies: a header may hold a malformed pair, a session cookie that is not *)
(* valid, a pair glued to the one before it, and the same name twice.        *)

MCCookieNames == {"my_cookie", "user", "tracker"}

Glued(name, value) == [Pair(name, value) EXCEPT !.glued = TRUE]

MCExtras ==
    {<<>>,
     <<[Pair("junk", "") EXCEPT !.eq = FALSE]>>,
     <<Pair("my_cookie", NotAlnum)>>,
     <<Pair("tracker", "1"), Glued("user", "2"), Pair("tracker", "2")>>}

MCOriginReplies ==
    {<<>>,
     <<Directive("user", "o", "none"), Directive("tracker", "t", "positive")>>,
     <<Directive("tracker", "t", "none"), Directive("user", "p", "none"),
       Directive("user", "o", "zero")>>}

Entry(operation, name, value, max_age) ==
    [operation |-> operation, name |-> name, value |-> value,
     max_age |-> max_age]

MCCookieConfigs ==
    {<<>>,
     <<Entry("SET", "", "v", 0)>>,
     <<Entry("DELETE", "tracker", "", 0), Entry("DELETE", "user", "", 0)>>,
     <<Entry("SET", "user", "v", 1), Entry("DELETE", "", "", 0),
       Entry("OVERWRITE", "user", "", 0)>>,
     <<Entry("DELETE", "tracker", "", 0), Entry("OVERWRITE", "user", "v", 0)>>}

-----------------------------------------------------------------------------
(* Access: every timestamp of the width, signatures for this request and for *)
(* another, addresses behind a proxy, tokens in front of and after others.   *)

Address(text, blank) == [text |-> text, ip |-> TRUE, blank |-> blank]
Proxy == [text |-> "proxy", ip |-> FALSE, blank |-> FALSE]

Payloads == [ip : {"ip1", "ip2"}, expires : {Number(2), Malformed}]
AuthCookies == {Malformed} \cup
    [kind : {"cookie"}, payload : Payloads,
     hash : {computeHmacSignature(p) : p \in Payloads}]

MCCookieRequests ==
    [forwarded_for : {<<>>, <<Proxy, Address("ip1", FALSE)>>,
                      <<Address("ip1", TRUE), Address("ip2", FALSE)>>},
     cookies : {<<>>} \cup
       {<<Field("lang", Malformed), Field("Authorization", c)>> : c \in AuthCookies}]

Tokens ==
    {Malformed, [kind |-> "token", text |-> <<>>, timestamp |-> Malformed,
                 hmac |-> Malformed]} \cup
    {[kind |-> "token", text |-> <<n>>, timestamp |-> Number(n),
      hmac |-> computeHmacMd5(<<"GET", path, n>>)]
        : n \in Times, path \in {"/a", "/b"}} \cup
    {[kind |-> "token", text |-> text, timestamp |-> Number(1),
      hmac |-> computeHmacMd5(signed)]
        : text \in {<<1>>, <<0, 1>>},
          signed \in {<<"GET", "/a", 0, 1>>, <<"GET", ":", "/a", ":", 1>>}}

MCTokenRequests ==
    [method : {<<"GET">>}, path : {<<"/a">>, <<"/a", 0>>},
     authorization : {Nullopt} \cup
       [kind : {"authorization"}, scheme : {"HMAC"}, token : Tokens] \cup
       [kind : {"authorization"}, scheme : {"Basic"}, token : {Malformed}]]

Query == Field("q", Malformed)
BadToken == Field("token", Malformed)
Token(path, params) ==
    Field("token", computeHmacSignature([path |-> path, params |-> params]))
Claims(nbf, exp) == [nbf |-> nbf, exp |-> exp]
Jwt(claims, signed) ==
    Field("jwt", [kind |-> "jwt", claims |-> claims,
                  hash |-> computeHmacSignature(signed)])
GoodJwt(nbf, exp) == Jwt(Claims(nbf, exp), Claims(nbf, exp))

QueryLists ==
    {<<>>, <<Query>>, <<BadToken, Query>>,
     <<Query, Token("/a", <<Query>>)>>, <<Query, Token("/b", <<Query>>)>>,
     <<Token("/a", <<Query, BadToken>>), Query, BadToken>>,
     <<GoodJwt(0, 1)>>, <<Query, Jwt(Claims(0, 2), Claims(0, 1))>>,
     <<GoodJwt(0, 2), GoodJwt(0, 1)>>, <<GoodJwt(3, 0)>>,
     <<Field("jwt", Malformed)>>}

MCUrlRequests ==
    [path : {"/a", "/b"}, parses : BOOLEAN, params : QueryLists]
      \cup [path : {""}, parses : {TRUE}, params : {<<>>}]

MaxConfigLength == 4
MCDenylistConfigs == UNION {[1..n -> {"a", "b", " "}] : n \in 0..MaxConfigLength}
MCUserTokens == {<<>>, <<"a">>, <<"a", "b">>}

-----------------------------------------------------------------------------
(* Bodies: markers and URLs take several symbols, so that a chunk can end    *)
(* inside one; a body with two ads at one place, one that is too large, one  *)
(* with a card number next to a code.                                        *)

HeadTag == <<"<he", "ad>">>
BodyTag == <<"<bo", "dy>">>
Article == <<"<art", "icle>", "</art", "icle>">>

MCBodies ==
    [ad_insertion |->
       {<<>>, HeadTag \o BodyTag \o <<"t">> \o Article,
        BodyTag \o <<"t", "<bo">> \o BodyTag,
        <<"t", "google", "tag">> \o BodyTag},
     cdn_token_generator |->
       {<<>>, <<"http://", "a", " ", "http://", "b", "c">>,
        <<"http://", " ", "t", "http://", "http://", "t">>,
        <<"t", "http://", "a", " ", "http://", "b", " ">>},
     check_pii |->
       {Code \o <<"t">> \o Code \o <<"d", "d">>,
        Card \o <<"t">> \o Code,
        <<"d", "d">> \o Card},
     body_chunking |-> {<<>>, <<"t", "t", "t">>}]

MCHeaderValues ==
    [p \in DOMAIN MCBodies |->
       IF p = "check_pii" THEN {<<"t">>, Card \o <<"t">> \o Code} ELSE {<<"t">>}]

Ad(position, marker, before) ==
    [key |-> "ad", position |-> position, marker |-> marker,
     insert_before |-> before]
Setting(key, value) == [key |-> key, value |-> value]

MCAdConfigs ==
    {<<>>, <<Setting("invalid", "")>>,
     <<Ad("one", HeadTag, FALSE), Ad("two", HeadTag, FALSE),
       Setting("gpt_url", "u"), Ad("two", BodyTag, TRUE), Ad("top", <<>>, TRUE)>>,
     <<Setting("inject_gpt", FALSE), Ad("one", BodyTag, TRUE),
       Ad("two", BodyTag, TRUE)>>}

TokenConfig(key_length, expiry_seconds) ==
    [parses |-> TRUE, key_length |-> key_length, key_is_hex |-> TRUE,
     key_name |-> "key", expiry_seconds |-> expiry_seconds]

MCTokenConfigs == {TokenConfig(32, 0), TokenConfig(32, 59), TokenConfig(257, 60)}

-----------------------------------------------------------------------------
(* Rewrites: clients that already send what a plugin writes, once and twice; *)
(* mappings with and without a cycle; the codes at the ends of each class.   *)

Host(domain, port) == [domain |-> domain, port |-> port]

Plain == [authority |-> Host("a", FALSE), path |-> <<"x">>, params |-> <<>>,
          headers |-> <<>>, agent |-> {}, parses |-> TRUE, long |-> FALSE]

Twice(name) ==
    {<<>>, <<Field(name, "mine")>>,
     <<Field(name, "mine"), Field("other", "o"), Field(name, "mine")>>}

WithHeaders(lists) == {[Plain EXCEPT !.headers = h] : h \in lists}

WithParams(name) ==
    {[Plain EXCEPT !.params = p] : p \in Twice(name)} \cup
    {[Plain EXCEPT !.parses = FALSE],
     [Plain EXCEPT !.long = TRUE, !.params = <<Field(name, "mine")>>]}

WithPaths(paths) == {[Plain EXCEPT !.path = p] : p \in paths}

Agents == {{}, {"bot", "android"}, {"android", "tab"}, {"mozilla", "mobile"},
           {"mozilla", "opera"}}

MCRequests ==
    [redirect |-> WithPaths({<<>>, <<"foo">>, <<"foo", "foo", "x">>,
                             <<"x", "foo", "x">>}),
     redirect_bulk |->
       {[Plain EXCEPT !.authority = Host(d, p)] : d \in {"a", "b", "c"}, p \in BOOLEAN},
     add_device_type |->
       {[r EXCEPT !.agent = a] : a \in Agents,
                                 r \in WithHeaders(Twice("x-device-type"))},
     geo_directional_origin |-> WithHeaders(Twice("x-country-code")),
     add_geo_query |-> WithParams("country"),
     set_query |-> WithParams("key"),
     overwrite_header |-> WithHeaders(Twice("RequestHeader")),
     normalize_header |-> {Plain, [Plain EXCEPT !.agent = {"mobile"}]},
     add_request_header |-> WithHeaders(Twice("Welcome")),
     docs_first_plugin |-> {Plain},
     regex_rewrite |-> WithPaths({<<"foo-x">>, <<"x", "foo-x", "foo-x", "x">>}),
     error_page_with_traceid |->
       WithHeaders({<<>>, <<Field("traceparent", "t2")>>,
                    <<Field("traceparent", "bad")>>,
                    <<Field("x-cloud-trace-context", "t1"),
                      Field("traceparent", "t2")>>}),
     add_custom_response |-> {Plain},
     overwrite_errcode |-> {Plain},
     add_response_header |-> {Plain}]

Codes == {0, 200, 399, 400, 499, 500, 599, 600}

MCReplies ==
    [p \in DOMAIN MCRequests |->
       CASE p \in {"error_page_with_traceid", "add_custom_response",
                   "overwrite_errcode"} -> {Reply(c, <<>>) : c \in Codes}
         [] p = "add_response_header" ->
              {Reply(200, <<Field("Message", m), Field("Welcome", "w")>>)
                 : m \in {"foo", "x"}}
         [] OTHER -> {Reply(200, <<>>)}]

Line(from, to) == <<Host(from, FALSE), to>>

MCMappings ==
    {<<>>,
     <<Line("a", Host("b", FALSE)), Line("b", Host("c", TRUE)),
       <<Host("d", FALSE)>> >>,
     <<Line("a", Host("b", FALSE)), <<Host("b", TRUE), Host("a", FALSE)>>,
       Line("a", Host("c", FALSE))>>,
     <<Line("a", Host("b", FALSE)), Line("b", Host("a", FALSE))>>}
=============================================================================
