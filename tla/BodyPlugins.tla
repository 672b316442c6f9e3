----------------------------- MODULE BodyPlugins -----------------------------
(***************************************************************************)
(* The plugins that rewrite a response body while it streams: ad_insertion  *)
(* and cdn_token_generator hold it until it is complete, check_pii and      *)
(* body_chunking work on each chunk.  The body is a sequence of symbols, a  *)
(* marker or a URL takes several, and the origin cuts it into chunks        *)
(* anywhere; the last chunk ends the stream, or trailers do.                *)
(*                                                                          *)
(* A symbol of the origin is a tuple <<c>>, one that a plugin puts in is a  *)
(* longer tuple.  Digit groups are scaled down: a card is d-d-d-d, of which *)
(* the last group is kept, a code CodeLength digits of which CodeKept stay, *)
(* and a number of LeastCode or more has the digits of a code.              *)
(***************************************************************************)
EXTENDS SampleHost

CONSTANTS
    Bodies,         \* plugin -> the response bodies of the origin
    HeaderValues,   \* plugin -> the values of a response header of the origin
    AdConfigs,      \* the configurations of ad_insertion: sequences of lines
    TokenConfigs,   \* the configurations of cdn_token_generator
    kMaxBodySize    \* cdn_token_generator leaves larger bodies alone

ASSUME BodySizeAssumption == kMaxBodySize \in Nat
ASSUME BodiesAssumption ==
    \A p \in DOMAIN Bodies :
      Bodies[p] \subseteq Seq(STRING) /\ HeaderValues[p] \subseteq Seq(STRING)
ASSUME AdConfigsAssumption ==
    \A lines \in AdConfigs :
      /\ lines \in Seq(Range(lines))
      /\ \A i \in DOMAIN lines :
           lines[i].key = "ad" => lines[i].marker \in Seq(STRING)

VARIABLES
    bodyPlugin, \* the plugin the proxy has loaded, and its root context
    response    \* the response that streams through it

bodyVars == <<bodyPlugin, response>>

-----------------------------------------------------------------------------
CodeLength == 3
CodeKept == 1
LeastCode == 10

Symbols(text) == [i \in DOMAIN text |-> <<text[i]>>]
IsOrigin(symbol) == Len(symbol) = 1

\* What is left of a body when the insertions of the plugins are taken out.
WithoutInsertions(body) == Filter(body, {x \in Range(body) : IsOrigin(x)})

\* std::string::find, as the number of symbols before the match, if any.
Found(body, text) ==
    {p \in 0..(Len(body) - Len(text)) :
       SubSeq(body, p + 1, p + Len(text)) = Symbols(text)}

-----------------------------------------------------------------------------
(* ad_insertion                                                             *)

DefaultAds ==
    [header |-> [marker |-> <<"<bo", "dy>">>, insert_before |-> FALSE],
     content |-> [marker |-> <<"<art", "icle>">>, insert_before |-> FALSE],
     sidebar |-> [marker |-> <<"</art", "icle>">>, insert_before |-> TRUE]]

\* One line of a configuration; lines that fit no form are passed over.
ConfigLine(root, line) ==
    CASE line.key = "inject_gpt" -> [root EXCEPT !.inject_gpt = line.value]
      [] line.key = "ad" ->
           [root EXCEPT !.ads =
              [p \in DOMAIN @ \cup {line.position} |->
                 IF p = line.position
                 THEN [marker |-> line.marker,
                       insert_before |-> line.insert_before]
                 ELSE root.ads[p]]]
      [] OTHER -> root

\* Without a configuration the default ads stay, with one they go.
onConfigureAds(lines) ==
    ForEach(ConfigLine,
            [inject_gpt |-> TRUE,
             ads |-> IF lines = <<>> THEN DefaultAds ELSE <<>>], lines)

isGptAlreadyLoaded(body) == Found(body, <<"google", "tag">>) # {}

GptInsertions(body) ==
    LET heads == Found(body, <<"<he", "ad>">>)
        tops == Found(body, <<"<bo", "dy>">>)
    IN  IF heads # {} THEN {[pos |-> Min(heads) + 2, content |-> <<"gpt", "lib">>]}
        ELSE IF tops # {} THEN {[pos |-> Min(tops), content |-> <<"gpt", "lib">>]}
        ELSE {}

AdInsertions(body, ads) ==
    {[pos |-> Min(Found(body, ads[p].marker))
                + (IF ads[p].insert_before THEN 0 ELSE Len(ads[p].marker)),
      content |-> <<"ad", p>>]
       : p \in {q \in DOMAIN ads : Found(body, ads[q].marker) # {}}}

\* All positions are those of the body before any insertion.
Insertions(body, root) ==
    AdInsertions(body, root.ads)
      \cup IF root.inject_gpt /\ ~isGptAlreadyLoaded(body)
           THEN GptInsertions(body) ELSE {}

\* std::sort puts the last position first; equal ones come in any order.
\* Variant: the first position comes first.
SortedInsertions_Ascending(insertions) ==
    {o \in [1..Cardinality(insertions) -> insertions] :
       /\ \A i, j \in DOMAIN o : i < j => o[i].pos <= o[j].pos
       /\ Range(o) = insertions}

SortedInsertions(insertions) ==
    {o \in [1..Cardinality(insertions) -> insertions] :
       /\ \A i, j \in DOMAIN o : i < j => o[i].pos >= o[j].pos
       /\ Range(o) = insertions}

InsertOne(body, x) == InsertAt(body, x.pos + 1, x.content)

\* processBodyWithGAM: the bodies that can come out.
processBodyWithGAM(body, root) ==
    {ForEach(InsertOne, body, order)
       : order \in SortedInsertions(Insertions(body, root))}

-----------------------------------------------------------------------------
(* cdn_token_generator                                                      *)

kMinKeyHexLength == 32
kMaxKeyHexLength == 256
kMinExpirySeconds == 60
kMaxExpirySeconds == 86400
kDefaultExpirySeconds == 3600

EffectiveExpiry(c) ==
    IF c.expiry_seconds = 0 THEN kDefaultExpirySeconds ELSE c.expiry_seconds

parseConfig(c) ==
    /\ c.parses
    /\ c.key_length \in kMinKeyHexLength..kMaxKeyHexLength /\ c.key_is_hex
    /\ c.key_name # Empty
    /\ EffectiveExpiry(c) \in kMinExpirySeconds..kMaxExpirySeconds

\* A URL starts with "http://" and goes on to white space, a quote or a bracket,
\* all of them here " ".
UrlStop == <<" ">>

UrlEnd(body, i) ==
    LET stops == {j \in (i + 1)..Len(body) : body[j] = UrlStop}
    IN  IF stops = {} THEN Len(body) ELSE Min(stops) - 1

UrlAt(body, i) == body[i] = <<"http://">> /\ UrlEnd(body, i) > i

\* FindAndConsume until there is no match: first and last index of each.
Urls(body) ==
    LET from[i \in 1..(Len(body) + 1)] ==
          IF i > Len(body) THEN <<>>
          ELSE IF UrlAt(body, i)
               THEN << <<i, UrlEnd(body, i)>> >> \o from[UrlEnd(body, i) + 1]
               ELSE from[i + 1]
    IN  from[1]

\* The token names the URL it is for and when it expires, counted from now.
generateSignedUrl(url, expiry) == Append(url, <<"token", url, expiry>>)

\* URLs are replaced from the last to the first, which keeps the positions of
\* those that come before.
\* Variant: from the first to the last.
SignUrls_Forward(body, expiry) ==
    ForEach(LAMBDA b, m :
              SubSeq(b, 1, m[1] - 1)
                \o generateSignedUrl(SubSeq(body, m[1], m[2]), expiry)
                \o SubSeq(b, m[2] + 1, Len(b)),
            body, Urls(body))

SignUrls(body, expiry) ==
    ForEach(LAMBDA b, m :
              SubSeq(b, 1, m[1] - 1)
                \o generateSignedUrl(SubSeq(body, m[1], m[2]), expiry)
                \o SubSeq(b, m[2] + 1, Len(b)),
            body, Reverse(Urls(body)))

-----------------------------------------------------------------------------
(* check_pii                                                                *)

Card == <<"d", "-", "d", "-", "d", "-", "d">>
Code == [i \in 1..CodeLength |-> "d"]

\* GlobalReplace: every match that does not overlap an earlier one has its
\* digits masked, but for the last `kept'.
GlobalReplace(text, pattern, kept) ==
    LET n == Len(pattern)
        Mask(part) == [i \in 1..n |->
                         IF i <= n - kept /\ part[i] = <<"d">> THEN <<"X">>
                         ELSE part[i]]
        from[i \in 1..(Len(text) + 1)] ==
          LET part == SubSeq(text, i, i + n - 1)
          IN  IF i + n - 1 > Len(text) THEN SubSeq(text, i, Len(text))
              ELSE IF part = Symbols(pattern) THEN Mask(part) \o from[i + n]
              ELSE <<text[i]>> \o from[i + 1]
    IN  from[1]

\* Variant: codes are not looked for once a card was masked.
maskPII_CardOnly(text) ==
    IF GlobalReplace(text, Card, 1) # text THEN GlobalReplace(text, Card, 1)
    ELSE GlobalReplace(text, Code, CodeKept)

maskPII(text) == GlobalReplace(GlobalReplace(text, Card, 1), Code, CodeKept)

-----------------------------------------------------------------------------
(* The response passes the plugin.                                          *)

NoPlugin == [name |-> "none"]

BodyInit ==
    /\ bodyPlugin = NoPlugin
    /\ response = [pc |-> "none"]

LoadBodyPlugin ==
    /\ bodyPlugin = NoPlugin
    /\ \/ \E lines \in AdConfigs :
            bodyPlugin' = [name |-> "ad_insertion", root |-> onConfigureAds(lines)]
       \/ \E c \in TokenConfigs :
            bodyPlugin' = IF parseConfig(c)
                          THEN [name |-> "cdn_token_generator",
                                expiry |-> EffectiveExpiry(c)]
                          ELSE [name |-> "refused"]
       \/ bodyPlugin' \in [name : {"check_pii", "body_chunking"}]
    /\ UNCHANGED response

\* onResponseHeaders of check_pii masks the value of every header.
HeaderText(text) ==
    IF bodyPlugin.name = "check_pii" THEN maskPII(text) ELSE text

\* The origin sends a Content-Length: the number, and how it is written.
Numeral(n) == Symbols(IF n < LeastCode THEN <<"d">> ELSE Code)

\* Variant: the Content-Length of a page that gets ads is kept.
ContentLength_Kept(body, html) ==
    {[number |-> Len(body), text |-> HeaderText(Numeral(Len(body)))]}

ContentLength(body, html) ==
    IF bodyPlugin.name = "ad_insertion" /\ html THEN {}
    ELSE {[number |-> Len(body), text |-> HeaderText(Numeral(Len(body)))]}

\* onRequestHeaders and onResponseHeaders.  `active': the response is HTML and
\* not an answer to a request for an ad.  `checked': it carries the header
\* google-run-pii-check: true, which the code does not look at.
ResponseHeaders(body, value, html, ad_request, checked) ==
    /\ bodyPlugin.name \notin {"none", "refused"}
    /\ response.pc = "none"
    /\ html \/ bodyPlugin.name = "ad_insertion"
    /\ ad_request => bodyPlugin.name = "ad_insertion"
    /\ checked => bodyPlugin.name = "check_pii"
    /\ response' =
         [pc |-> "body", body |-> Symbols(body), left |-> Symbols(body),
          active |-> html /\ ~ad_request, checked |-> checked,
          buf |-> <<>>, out |-> <<>>,
          chunk |-> [in |-> <<>>, out |-> <<>>], by_trailers |-> FALSE,
          header |-> [in |-> Symbols(value), out |-> HeaderText(Symbols(value))],
          content_length |-> ContentLength(body, html)]
    /\ UNCHANGED bodyPlugin

\* onResponseBody, with what the host has buffered and the new chunk as the body:
\* the bodies to which it may be set, or none if the host is to keep it.
Processed(data, end) ==
    CASE bodyPlugin.name = "ad_insertion" ->
           IF ~response.active THEN {data}
           ELSE IF end THEN processBodyWithGAM(data, bodyPlugin.root) ELSE {}
      [] bodyPlugin.name = "cdn_token_generator" ->
           IF ~end THEN {}
           ELSE IF Len(data) > kMaxBodySize THEN {data}
           ELSE {SignUrls(data, bodyPlugin.expiry)}
      [] bodyPlugin.name = "check_pii" -> {maskPII(data)}
      [] bodyPlugin.name = "body_chunking" ->
           {IF data = <<>> THEN data ELSE Append(data, <<"bar", "">>)}

ResponseBody(n, end) ==
    /\ response.pc = "body" /\ n <= Len(response.left)
    /\ end => n = Len(response.left)
    /\ n = 0 => end
    /\ LET data == response.buf \o SubSeq(response.left, 1, n)
           rest == SubSeq(response.left, n + 1, Len(response.left))
       IN  IF Processed(data, end) = {}
           THEN response' = [response EXCEPT !.buf = data, !.left = rest]
           ELSE \E new \in Processed(data, end) :
                  response' = [response EXCEPT
                    !.buf = <<>>, !.left = rest, !.out = @ \o new,
                    !.chunk = [in |-> data, out |-> new],
                    !.pc = IF end THEN "ended" ELSE "body"]
    /\ UNCHANGED bodyPlugin

\* None of the plugins has onResponseTrailers: the host lets go what it holds.
ResponseTrailers ==
    /\ response.pc = "body" /\ response.left = <<>>
    /\ response' = [response EXCEPT !.out = @ \o response.buf, !.buf = <<>>,
                                    !.by_trailers = TRUE, !.pc = "ended"]
    /\ UNCHANGED bodyPlugin

BodyNext ==
    \/ LoadBodyPlugin
    \/ \E html, ad_request, checked \in BOOLEAN :
         /\ bodyPlugin.name \in DOMAIN Bodies
         /\ \E body \in Bodies[bodyPlugin.name],
               value \in HeaderValues[bodyPlugin.name] :
              ResponseHeaders(body, value, html, ad_request, checked)
    \/ \E end \in BOOLEAN :
         response.pc = "body" /\ \E n \in 0..Len(response.left) :
           ResponseBody(n, end)
    \/ ResponseTrailers

BodySpec == BodyInit /\ [][BodyNext]_bodyVars

-----------------------------------------------------------------------------
(* Correctness.                                                             *)

Ended == response.pc = "ended"

\* Nothing of the origin's body is lost, doubled or moved, however it was cut
\* into chunks and whether the last chunk or trailers ended it; check_pii
\* changes a digit to X and nothing else.
BodyIntact ==
    Ended =>
      IF bodyPlugin.name = "check_pii"
      THEN /\ Len(response.out) = Len(response.body)
           /\ \A i \in DOMAIN response.out :
                \/ response.out[i] = response.body[i]
                \/ response.body[i] = <<"d">> /\ response.out[i] = <<"X">>
      ELSE WithoutInsertions(response.out) = response.body

\* Where the insertions stand, counted in symbols of the origin before them.
Placed(out) ==
    {[pos |-> Len(WithoutInsertions(SubSeq(out, 1, i - 1))), content |-> out[i]]
       : i \in {k \in DOMAIN out : ~IsOrigin(out[k])}}

Expected(body) ==
    CASE bodyPlugin.name = "ad_insertion" /\ response.active ->
           Insertions(body, bodyPlugin.root)
      [] /\ bodyPlugin.name = "cdn_token_generator"
         /\ Len(body) <= kMaxBodySize ->
           {[pos |-> m[2], content |-> <<"token", SubSeq(body, m[1], m[2]),
                                         bodyPlugin.expiry>>]
              : m \in Range(Urls(body))}
      [] OTHER -> {}

\* Each ad stands at its marker once, and each URL is followed by its own token,
\* where they belong in the complete body: chunks that end inside a marker or a
\* URL make no difference, and one insertion does not displace another.  It is
\* about bodies that end with a chunk; one that trailers end is let go as it is.
InsertionsInPlace ==
    /\ Ended /\ ~response.by_trailers
    /\ bodyPlugin.name \in {"ad_insertion", "cdn_token_generator"}
    => /\ Placed(response.out) = Expected(response.body)
       /\ Len(response.out) = Len(response.body)
                                + Cardinality(Expected(response.body))

\* Index i of text is the end of it, or ordinary text.
Apart(text, i) == i \notin DOMAIN text \/ text[i] = <<"t">>

\* Every card number or code that stands alone in `in' is masked in `out', with
\* its last digits kept, next to whatever else there is.
AllMasked(in, out) ==
    \A i \in DOMAIN in, pattern \in {Card, Code} :
      LET last == i + Len(pattern) - 1 IN
      /\ last \in DOMAIN in /\ SubSeq(in, i, last) = Symbols(pattern)
      /\ Apart(in, i - 1) /\ Apart(in, last + 1)
      => \A k \in i..last : in[k] = <<"d">> =>
           out[k] = IF k = last THEN <<"d">> ELSE <<"X">>

\* A response that asks for the check with google-run-pii-check leaves check_pii
\* with the card numbers and codes of its headers and of each chunk masked.  (Of
\* a response that does not ask, the code and the plugin's README differ.)
PiiMasked ==
    bodyPlugin.name = "check_pii" /\ response.pc # "none" /\ response.checked =>
      /\ AllMasked(response.header.in, response.header.out)
      /\ AllMasked(response.chunk.in, response.chunk.out)

\* The two ways in which the code forwards a Content-Length that is wrong: what
\* check_pii takes for a code, and the length before something was inserted.
Stale(length) ==
    \/ bodyPlugin.name = "check_pii" /\ length.number >= LeastCode
    \/ /\ bodyPlugin.name \in {"cdn_token_generator", "body_chunking"}
       /\ \E i \in DOMAIN response.out : ~IsOrigin(response.out[i])

\* A Content-Length that is forwarded is that of the body, and legible, except in
\* the cases of Stale: ad_insertion takes it off before it knows whether it will
\* insert anything, and check_pii keeps the length whatever it masks.
ContentLengthTrue ==
    Ended =>
      \A length \in response.content_length :
        \/ /\ length.number = Len(response.out)
           /\ length.text = Numeral(length.number)
        \/ Stale(length)
=============================================================================
