---------------------------- MODULE CookiePlugins ----------------------------
(***************************************************************************)
(* The plugins that read and write cookies, between a client that keeps a   *)
(* cookie jar and an origin that sets cookies: set_cookie gives a client    *)
(* without a session one, set_reset_cookie deletes, sets and overwrites the *)
(* cookies its configuration names, remove_cookie drops all Set-Cookie      *)
(* headers.  A client has several exchanges in flight, and responses reach  *)
(* it in any order.                                                         *)
(*                                                                          *)
(* A Cookie header is a sequence of pairs.  `eq' says that the pair has an  *)
(* equals sign, `glued' that it follows the one before it after a semicolon *)
(* without a space.  A Set-Cookie header is a directive for one cookie;     *)
(* Max-Age=0 makes the client forget it.                                    *)
(***************************************************************************)
EXTENDS SampleHost

CONSTANTS
    CookieNames,    \* the names of cookies, kCookieName among them
    SessionIds,     \* the session ids, as generateRandom makes them
    Extras,         \* what clients send before the cookies of the jar
    OriginReplies,  \* the Set-Cookie lists of the origin
    CookieConfigs   \* the configurations of set_reset_cookie

kCookieName == "my_cookie"

ASSUME CookieNamesAssumption ==
    IsFiniteSet(CookieNames) /\ kCookieName \in CookieNames
ASSUME ExtrasAssumption ==
    Extras \subseteq Seq([name : STRING, value : STRING, eq : BOOLEAN,
                          glued : BOOLEAN])
\* The session cookie is the plugin's own.
ASSUME OriginRepliesAssumption ==
    /\ OriginReplies \subseteq Seq([name : STRING, value : STRING, age : STRING])
    /\ \A l \in OriginReplies : \A i \in DOMAIN l : l[i].name # kCookieName

ASSUME CookieConfigsAssumption ==
    CookieConfigs \subseteq Seq([operation : STRING, name : STRING,
                                value : STRING, max_age : Int])

VARIABLES
    cookiePlugin,   \* the plugin the proxy has loaded
    cookieConfigs,  \* cookie_configs_ of CookieManagerRootContext
    jar,            \* the client's cookies: name -> value
    exchange        \* per stream: what was sent, forwarded and answered

cookieVars == <<cookiePlugin, cookieConfigs, jar, exchange>>

-----------------------------------------------------------------------------
Absent == "absent"      \* a cookie that the jar does not hold
NoSession == "nullopt"  \* session_id_ without a value
TooLong == "long"       \* a value longer than kMaxSessionIdLength
NotAlnum == "a-b"       \* a value with a character that is not alphanumeric

Pair(name, value) == [name |-> name, value |-> value, eq |-> TRUE,
                      glued |-> FALSE]

Directive(name, value, age) == [name |-> name, value |-> value, age |-> age]

IdleExchange == [pc |-> "idle", sent |-> <<>>, large |-> FALSE, up |-> <<>>,
                 session_id |-> NoSession, origin |-> <<>>, down |-> <<>>]

CookieInit ==
    /\ cookiePlugin = "none"
    /\ cookieConfigs = <<>>
    /\ jar = [n \in CookieNames |-> Absent]
    /\ exchange = [s \in Streams |-> IdleExchange]

-----------------------------------------------------------------------------
(* set_cookie                                                               *)

isValidSessionId(v) == v \notin {Empty, TooLong, NotAlnum}

\* What generateRandom makes is a number of at most twenty digits.
ASSUME SessionIdsAssumption ==
    \A id \in SessionIds : isValidSessionId(id) /\ id # NoSession

\* The pairs are split at "; ", so a glued pair is part of the value before it.
\* Only the first cookie of the name counts, valid or not.
\* Variant: the search ends at a pair that is not the session cookie.
getSessionIdFromCookie_FirstPair(header, large) ==
    IF /\ ~large /\ header # <<>> /\ header[1].name = kCookieName
       /\ isValidSessionId(header[1].value)
    THEN header[1].value ELSE NoSession

getSessionIdFromCookie(header, large) ==
    LET mine == {i \in DOMAIN header :
                   /\ ~header[i].glued /\ header[i].eq
                   /\ header[i].name = kCookieName}
        whole(i) == i < Len(header) => ~header[i + 1].glued
    IN  IF /\ ~large /\ mine # {}
           /\ whole(Min(mine)) /\ isValidSessionId(header[Min(mine)].value)
        THEN header[Min(mine)].value
        ELSE NoSession

-----------------------------------------------------------------------------
(* set_reset_cookie                                                         *)

\* onConfigure: entries without a name are skipped; a configuration with
\* entries of which none is left is refused.
ValidConfigs(configs) == Filter(configs, {c \in Range(configs) : c.name # Empty})

\* The header is split at every semicolon; a pair without "=" is not kept.
parseRequestCookies(header) == Filter(header, {p \in Range(header) : p.eq})

DeletedNames(configs) ==
    {configs[i].name : i \in {j \in DOMAIN configs :
                                configs[j].operation = "DELETE"}}

\* processCookieDeletions and rebuildCookieHeader: the header is written anew,
\* without the pairs that are malformed, only if a cookie was deleted.
\* Variant: erasing ends after the first configured name that is found.
processCookieDeletions_Once(header, configs) ==
    LET cookies == parseRequestCookies(header)
        found == {i \in DOMAIN configs :
                    /\ configs[i].operation = "DELETE"
                    /\ \E j \in DOMAIN cookies :
                         cookies[j].name = configs[i].name}
    IN  IF found = {} THEN header
        ELSE removeHeader(cookies, configs[Min(found)].name)

processCookieDeletions(header, configs) ==
    LET cookies == parseRequestCookies(header)
        left == Filter(cookies, {p \in Range(cookies) :
                                   p.name \notin DeletedNames(configs)})
    IN  IF left = cookies THEN header
        ELSE [i \in DOMAIN left |-> Pair(left[i].name, left[i].value)]

\* setCookie: only a positive max_age makes a persistent cookie.
setCookie(list, config) ==
    Append(list, Directive(config.name, config.value,
                           IF config.max_age > 0 THEN "positive" ELSE "none"))

\* Variant: the Set-Cookie headers to keep are not added back.
removeExistingSetCookie_NotKept(list, name) ==
    IF \E i \in DOMAIN list : list[i].name = name THEN <<>> ELSE list

removeExistingSetCookie(list, name) ==
    Filter(list, {d \in Range(list) : d.name # name})

overwriteCookie(list, config) ==
    LET others == removeExistingSetCookie(list, config.name)
    IN  IF config.value # Empty THEN setCookie(others, config)
        ELSE Append(others, Directive(config.name, Empty, "zero"))

CookieOperation(list, config) ==
    CASE config.operation = "SET" -> setCookie(list, config)
      [] config.operation = "OVERWRITE" -> overwriteCookie(list, config)
      [] OTHER -> list

processCookieOperations(list, configs) == ForEach(CookieOperation, list, configs)

-----------------------------------------------------------------------------
(* The proxy calls the plugin, the client and the origin answer.            *)

\* The root context is configured; a plugin that returns false is not loaded.
LoadCookiePlugin(plugin, configs) ==
    /\ cookiePlugin = "none"
    /\ cookiePlugin' =
         IF /\ plugin = "set_reset_cookie"
            /\ configs # <<>> /\ ValidConfigs(configs) = <<>>
         THEN "refused" ELSE plugin
    /\ cookieConfigs' =
         IF plugin = "set_reset_cookie" THEN ValidConfigs(configs) ELSE <<>>
    /\ UNCHANGED <<jar, exchange>>

Loaded == cookiePlugin \notin {"none", "refused"}

\* The cookies of the jar, in the order the client chooses to send them.
JarPairs == LET held == SetToSeq({n \in CookieNames : jar[n] # Absent})
            IN  [i \in DOMAIN held |-> Pair(held[i], jar[held[i]])]

\* onRequestHeaders; a header longer than kMaxCookieLength is `large'.
CookieRequest(s, extra, large) ==
    /\ Loaded /\ exchange[s].pc = "idle"
    /\ large => cookiePlugin = "set_cookie"   \* only it looks at the length
    /\ LET header == extra \o JarPairs
       IN  exchange' = [exchange EXCEPT
             ![s] = [pc |-> "upstream", sent |-> header, large |-> large,
                     origin |-> <<>>, down |-> <<>>,
                     up |-> IF cookiePlugin = "set_reset_cookie"
                            THEN processCookieDeletions(header, cookieConfigs)
                            ELSE header,
                     session_id |->
                       IF cookiePlugin = "set_cookie"
                       THEN getSessionIdFromCookie(header, large)
                       ELSE NoSession]]
    /\ UNCHANGED <<cookiePlugin, cookieConfigs, jar>>

\* onResponseHeaders of the three plugins.
SetCookieResponse(s, list, id) ==
    IF exchange[s].session_id # NoSession THEN list
    ELSE Append(list, Directive(kCookieName, id, "none"))

CookieResponse(s, list, id) ==
    /\ exchange[s].pc = "upstream"
    /\ exchange' = [exchange EXCEPT
         ![s].pc = "downstream",
         ![s].origin = list,
         ![s].down =
           CASE cookiePlugin = "set_cookie" -> SetCookieResponse(s, list, id)
             [] cookiePlugin = "set_reset_cookie" ->
                    processCookieOperations(list, cookieConfigs)
             [] cookiePlugin = "remove_cookie" -> <<>>]
    /\ UNCHANGED <<cookiePlugin, cookieConfigs, jar>>

\* The client takes the response: the last directive for a cookie decides.
Obey(cookies, list) ==
    [n \in CookieNames |->
       LET mine == {i \in DOMAIN list : list[i].name = n}
           last == list[Max(mine)]
       IN  IF mine = {} THEN cookies[n]
           ELSE IF last.age = "zero" THEN Absent ELSE last.value]

ClientReceives(s) ==
    /\ exchange[s].pc = "downstream"
    /\ jar' = Obey(jar, exchange[s].down)
    /\ exchange' = [exchange EXCEPT ![s] = IdleExchange]
    /\ UNCHANGED <<cookiePlugin, cookieConfigs>>

CookieNext ==
    \/ \E p \in {"set_cookie", "set_reset_cookie", "remove_cookie"},
          c \in CookieConfigs : LoadCookiePlugin(p, c)
    \/ \E s \in Streams, x \in Extras, large \in BOOLEAN :
          CookieRequest(s, x, large)
    \/ \E s \in Streams, l \in OriginReplies, id \in SessionIds :
          CookieResponse(s, l, id)
    \/ \E s \in Streams : ClientReceives(s)

CookieSpec == CookieInit /\ [][CookieNext]_cookieVars

-----------------------------------------------------------------------------
(* Correctness.                                                             *)

Delivered(s) == exchange[s].pc = "downstream" /\ exchange'[s].pc = "idle"

SessionPairs(header) == {i \in DOMAIN header : header[i].name = kCookieName}

\* The client sent one session cookie, well formed, in a header that is read.
SentOneSession(x) ==
    /\ ~x.large
    /\ \E i \in DOMAIN x.sent :
         /\ SessionPairs(x.sent) = {i}
         /\ x.sent[i].eq /\ x.sent[i].value \in SessionIds
         /\ \A j \in {i, i + 1} \cap DOMAIN x.sent : ~x.sent[j].glued

\* An exchange that a client begins with a session leaves it its session, and
\* one that it begins without gives it one, whatever the exchanges that overlap
\* it do: session_id_ of set_cookie carries what onRequestHeaders found over to
\* onResponseHeaders of the same stream.
SessionKept ==
    [][\A s \in Streams :
         Delivered(s) /\ cookiePlugin = "set_cookie" =>
           /\ SentOneSession(exchange[s]) => jar'[kCookieName] = jar[kCookieName]
           /\ SessionPairs(exchange[s].sent) = {} =>
                jar'[kCookieName] \in SessionIds]_cookieVars

Others(header) ==
    LET cookies == parseRequestCookies(header)
        kept == Filter(cookies, {p \in Range(cookies) :
                                   p.name \notin DeletedNames(cookieConfigs)})
    IN  [i \in DOMAIN kept |-> Pair(kept[i].name, kept[i].value)]

\* No cookie that the configuration deletes reaches the origin, however often
\* the client sent it, and the other well formed cookies reach it in the order
\* in which they were sent, duplicates included.
DeletedStaysOut ==
    \A s \in Streams :
      cookiePlugin = "set_reset_cookie" /\ exchange[s].pc = "upstream" =>
        LET up == exchange[s].up IN
        /\ \A i \in DOMAIN up : up[i].eq =>
             up[i].name \notin DeletedNames(cookieConfigs)
        /\ Others(up) = Others(exchange[s].sent)

\* The last operation that the configuration has for a cookie, if any.
Operations(name) ==
    {i \in DOMAIN cookieConfigs :
       /\ cookieConfigs[i].name = name
       /\ cookieConfigs[i].operation \in {"SET", "OVERWRITE"}}
LastOperation(name) == cookieConfigs[Max(Operations(name))]

\* The directives of a list for the cookies that it has no operation for.
Free(list) == Filter(list, {d \in Range(list) : Operations(d.name) = {}})

\* The client ends with what the last operation for a cookie says, whatever
\* the origin set, and after an OVERWRITE no other directive for it is sent
\* along; the directives of the origin for all other cookies survive, in order,
\* though overwriteCookie clears the whole header and adds them again.
ConfiguredCookieWins ==
    \A s \in Streams :
      cookiePlugin = "set_reset_cookie" /\ exchange[s].pc = "downstream" =>
        LET down == exchange[s].down
        IN  /\ Free(down) = Free(exchange[s].origin)
            /\ \A name \in {n \in CookieNames : Operations(n) # {}} :
                 LET op == LastOperation(name) IN
                 /\ Obey(jar, down)[name]
                      = IF op.operation = "OVERWRITE" /\ op.value = Empty
                        THEN Absent ELSE op.value
                 /\ op.operation = "OVERWRITE" => Len(Named(down, name)) = 1
=============================================================================
