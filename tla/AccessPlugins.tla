---------------------------- MODULE AccessPlugins ----------------------------
(***************************************************************************)
(* The plugins that let a request through or refuse it: hmac_authcookie,    *)
(* hmac_token_validation, hmac_authtoken, jwt_auth and config_denylist.     *)
(* Requests come while the clock runs; onRequestHeaders decides on each at  *)
(* once and keeps nothing, so the state is the clock, the configuration and *)
(* the last decision.                                                       *)
(*                                                                          *)
(* A signature is the message it was made from: only the holder of the key  *)
(* can have made it.                                                        *)
(***************************************************************************)
EXTENDS SampleHost, Integers

CONSTANTS
    MaxClock,               \* bound: the clock stops there
    Width,                  \* of the integers that hold a time; 64 in the code
    TokenValiditySeconds,   \* token_validity_seconds_
    ClockSkew,              \* kClockSkewInSecond of jwt_verify_lib
    CookieRequests,         \* requests to hmac_authcookie
    TokenRequests,          \* requests to hmac_token_validation
    UrlRequests,            \* requests to hmac_authtoken and jwt_auth
    DenylistConfigs,        \* configurations of config_denylist
    UserTokens              \* values of the User-Token header

ASSUME TimeAssumption ==
    /\ Width \in Nat \ {0} /\ TokenValiditySeconds \in Nat /\ MaxClock \in Nat
    /\ ClockSkew \in Nat
    /\ MaxClock + TokenValiditySeconds < 2 ^ (Width - 1)

\* True of every Width; said here because the provers have no rules for powers.
ASSUME PowerAssumption ==
    2 ^ (Width - 1) \in Nat /\ 2 ^ Width = 2 * 2 ^ (Width - 1)

VARIABLES
    clock,      \* absl::Now()
    denylist,   \* config_ and tokens_ of config_denylist
    decision    \* the last request, when it came and what became of it

accessVars == <<clock, denylist, decision>>

-----------------------------------------------------------------------------
Forward == "forward"            \* any other outcome is a local reply
Nullopt == [kind |-> "nullopt"]         \* no such cookie, token or number
Malformed == [kind |-> "malformed"]     \* one that does not parse
Number(n) == [kind |-> "number", n |-> n]
NotConfigured == [set_up |-> FALSE, config |-> <<>>, tokens |-> {}]
computeHmacSignature(message) == [signed |-> message]

\* What a signed 64-bit integer, here of Width bits, can hold.
Times == (-(2 ^ (Width - 1)))..(2 ^ (Width - 1) - 1)

\* The place of the first one of the name in a list of cookies or parameters.
FirstParam(list, name) == {i \in DOMAIN list :
    /\ list[i].name = name
    /\ \A j \in 1..(i - 1) : list[j].name # name}

FirstValue(list, name) ==
    IF FirstParam(list, name) = {} THEN Nullopt
    ELSE list[Min(FirstParam(list, name))].value

-----------------------------------------------------------------------------
(* hmac_authcookie.  X-Forwarded-For is a list of entries; the regular      *)
(* expression of onConfigure takes an address without blanks around it.     *)

getClientIp(entries) ==
    LET ips == {i \in DOMAIN entries : entries[i].ip /\ ~entries[i].blank}
    IN  IF ips = {} THEN Empty ELSE entries[Min(ips)].text

getAuthorizationCookie(cookies) == FirstValue(cookies, "Authorization")

isHashTimestampValid(expiration, now) ==
    expiration.kind = "number" /\ now <= expiration.n

AuthCookieDecision(r, now) ==
    LET ip == getClientIp(r.forwarded_for)
        cookie == getAuthorizationCookie(r.cookies)
    IN  IF ip = Empty THEN "403 missing client IP"
        ELSE IF cookie = Nullopt THEN "403 missing HMAC cookie"
        ELSE IF cookie = Malformed THEN "403 invalid HMAC cookie"
        ELSE IF cookie.hash # computeHmacSignature(cookie.payload)
        THEN "403 invalid HMAC hash"
        ELSE IF cookie.payload.ip # ip THEN "403 invalid client IP"
        ELSE IF ~isHashTimestampValid(cookie.payload.expires, now)
        THEN "403 hash expired"
        ELSE Forward

-----------------------------------------------------------------------------
(* hmac_token_validation.  Method, path and the text of the timestamp are    *)
(* sequences of characters; the message is their concatenation.              *)

\* The subtraction is unsigned, and so is the comparison: a timestamp in the
\* future is more than any validity away.
\* Variant: signed arithmetic.
TokenExpired_Signed(timestamp, now) == now - timestamp > TokenValiditySeconds

TokenExpired(timestamp, now) ==
    (now - timestamp) % 2 ^ Width > TokenValiditySeconds

computeHmacMd5(message) == [signed |-> message]

TokenDecision(r, now) ==
    LET token == r.authorization.token
    IN  IF r.authorization = Nullopt THEN "401 missing Authorization header"
        ELSE IF r.authorization.scheme # "HMAC" THEN "400 invalid scheme"
        ELSE IF token = Malformed THEN "400 invalid token format"
        ELSE IF token.timestamp.kind # "number" THEN "400 invalid timestamp"
        ELSE IF TokenExpired(token.timestamp.n, now) THEN "403 token expired"
        ELSE IF computeHmacMd5(r.method \o r.path \o token.text) # token.hmac
        THEN "403 invalid HMAC"
        ELSE Forward

-----------------------------------------------------------------------------
(* hmac_authtoken and jwt_auth take the token from a query parameter and     *)
(* strip it.  A request has a path that parses or not, and parameters.       *)

\* The path without the first parameter of the name.
Stripped(r, name) ==
    [r EXCEPT !.params =
       IF FirstParam(r.params, name) = {} THEN @
       ELSE RemoveAt(@, Min(FirstParam(r.params, name)))]

\* url->buffer(): the path with its parameters, which is what is signed.
Url(r) == [path |-> r.path, params |-> r.params]

AuthTokenDecision(r) ==
    IF ~r.parses THEN "400 error parsing the path"
    ELSE IF FirstParam(r.params, "token") = {} THEN "403 missing token"
    ELSE IF computeHmacSignature(Url(Stripped(r, "token")))
              # FirstValue(r.params, "token")
    THEN "403 invalid token"
    ELSE Forward

\* verifyJwt of jwt_verify_lib: the signature of one of the keys, and the claims
\* nbf and exp, of which 0 stands for an absent one, with an allowance for clocks.
verifyJwt(jwt, now) ==
    /\ jwt.hash = computeHmacSignature(jwt.claims)
    /\ now + ClockSkew >= jwt.claims.nbf
    /\ jwt.claims.exp = 0 \/ now <= jwt.claims.exp + ClockSkew

\* A path that does not parse leaves `url' without a value, and the code uses it
\* all the same; a request without a path is let through.
JwtDecision(r, now) ==
    LET jwt == FirstValue(r.params, "jwt")
    IN  IF r.path = Empty THEN Forward
        ELSE IF ~r.parses THEN "undefined"
        ELSE IF jwt = Nullopt THEN "403 missing token"
        ELSE IF jwt = Malformed THEN "403 invalid token"
        ELSE IF ~verifyJwt(jwt, now) THEN "403 access forbidden"
        ELSE Forward

-----------------------------------------------------------------------------
(* config_denylist.  The configuration is a sequence of characters, of which *)
(* Space stands for any white space; find_first_of gives npos, here 0, when  *)
(* there is none from idx on.                                                *)

Space == " "

find_first_of(config, idx) ==
    LET blanks == {i \in idx..Len(config) : config[i] = Space}
    IN  IF blanks = {} THEN 0 ELSE Min(blanks)

\* The loop of onConfigure, from idx on.
\* Variant: the last token is only taken when white space follows it.
Tokenize_Ended(config) ==
    LET from[idx \in 1..(Len(config) + 1)] ==
          LET nxt == find_first_of(config, idx)
          IN  IF idx > Len(config) \/ nxt = 0 THEN {}
              ELSE (IF idx # nxt THEN {SubSeq(config, idx, nxt - 1)} ELSE {})
                     \cup from[nxt + 1]
    IN  from[1]

Tokenize(config) ==
    LET from[idx \in 1..(Len(config) + 1)] ==
          LET nxt == find_first_of(config, idx)
          IN  IF idx > Len(config) THEN {}
              ELSE IF nxt = 0 THEN {SubSeq(config, idx, Len(config))}
              ELSE (IF idx # nxt THEN {SubSeq(config, idx, nxt - 1)} ELSE {})
                     \cup from[nxt + 1]
    IN  from[1]

DenylistDecision(token) ==
    IF token = <<>> THEN "403 token missing"
    ELSE IF token \in denylist.tokens THEN "403 access forbidden"
    ELSE Forward

-----------------------------------------------------------------------------
NoDecision == [plugin |-> "none", request |-> Empty, at |-> 0,
               outcome |-> "none", up |-> Empty]

AccessInit ==
    /\ clock = 0
    /\ denylist = NotConfigured
    /\ decision = NoDecision

\* The proxy runs one plugin.
Decide(plugin, request, outcome, up) ==
    /\ decision.plugin \in {"none", plugin}
    /\ denylist.set_up <=> plugin = "config_denylist"
    /\ decision' = [plugin |-> plugin, request |-> request, at |-> clock,
                    outcome |-> outcome,
                    up |-> IF outcome = Forward THEN up ELSE Empty]
    /\ UNCHANGED <<clock, denylist>>

AuthCookie(r) == Decide("hmac_authcookie", r, AuthCookieDecision(r, clock), r)

TokenValidation(r) ==
    Decide("hmac_token_validation", r, TokenDecision(r, clock), r)

AuthToken(r) ==
    Decide("hmac_authtoken", r, AuthTokenDecision(r), Stripped(r, "token"))

JwtAuth(r) == Decide("jwt_auth", r, JwtDecision(r, clock), Stripped(r, "jwt"))

ConfigureDenylist(config) ==
    /\ ~denylist.set_up /\ decision.plugin = "none"
    /\ denylist' = [set_up |-> TRUE, config |-> config,
                    tokens |-> Tokenize(config)]
    /\ UNCHANGED <<clock, decision>>

Denylist(token) ==
    Decide("config_denylist", token, DenylistDecision(token), token)

Tick ==
    /\ clock < MaxClock
    /\ clock' = clock + 1
    /\ UNCHANGED <<denylist, decision>>

AccessNext ==
    \/ \E r \in CookieRequests : AuthCookie(r)
    \/ \E r \in TokenRequests : TokenValidation(r)
    \/ \E r \in UrlRequests : AuthToken(r) \/ JwtAuth(r)
    \/ \E c \in DenylistConfigs : ConfigureDenylist(c)
    \/ \E t \in UserTokens : Denylist(t)
    \/ Tick

AccessSpec == AccessInit /\ [][AccessNext]_accessVars

-----------------------------------------------------------------------------
(* The shape of requests: what each parser can give.                        *)

ASSUME CookieAssumption ==
    \A r \in CookieRequests :
      /\ r.cookies \in Seq(Range(r.cookies))
      /\ r.forwarded_for \in Seq(Range(r.forwarded_for))
      /\ LET cookie == getAuthorizationCookie(r.cookies) IN
         \/ cookie \in {Nullopt, Malformed}
         \/ /\ cookie.kind = "cookie"
            /\ \/ cookie.payload.expires = Malformed
               \/ \E n \in Times : cookie.payload.expires = Number(n)

ASSUME TokenAssumption ==
    \A r \in TokenRequests :
      \/ r.authorization = Nullopt
      \/ LET token == r.authorization.token IN
         /\ r.authorization.kind = "authorization"
         /\ \/ token = Malformed
            \/ /\ token.kind = "token"
               /\ \/ token.timestamp = Malformed
                  \/ \E n \in Times : token.timestamp = Number(n)

ASSUME UrlAssumption ==
    \A r \in UrlRequests :
      /\ DOMAIN r = {"path", "parses", "params"} /\ r.parses \in BOOLEAN
      /\ r.params \in Seq(Range(r.params))
      /\ LET jwt == FirstValue(r.params, "jwt") IN
         jwt \in {Nullopt, Malformed} \/ jwt.kind = "jwt"

ASSUME DenylistAssumption == DenylistConfigs \subseteq Seq(STRING)

-----------------------------------------------------------------------------
(* Correctness.                                                             *)

\* The request carries a cookie that the holder of the key signed, for an address
\* of X-Forwarded-For, and that is not past its expiration.
CookieCovers(d) ==
    \E i \in DOMAIN d.request.cookies, j \in DOMAIN d.request.forwarded_for :
      LET cookie == d.request.cookies[i].value IN
      /\ d.request.cookies[i].name = "Authorization"
      /\ cookie.kind = "cookie"
      /\ cookie.hash = computeHmacSignature(cookie.payload)
      /\ d.request.forwarded_for[j].ip
      /\ cookie.payload.ip = d.request.forwarded_for[j].text
      /\ \E n \in Times : cookie.payload.expires = Number(n) /\ d.at <= n

\* The timestamp of the token is at most TokenValiditySeconds old, and not in the
\* future: said in unbounded integers.
Fresh(d) ==
    \E age \in 0..TokenValiditySeconds :
      d.request.authorization.token.timestamp = Number(d.at - age)

\* The token is made out for the request, by either message the repository gives:
\* METHOD:PATH:timestamp of the plugin's comment and README, or that without ":".
TokenCovers(d) ==
    LET r == d.request
        token == r.authorization.token
        Colon == <<":">>
    IN  /\ Fresh(d)
        /\ token.hmac \in
             {computeHmacMd5(r.method \o Colon \o r.path \o Colon \o token.text),
              computeHmacMd5(r.method \o r.path \o token.text)}

\* A parameter of the name was taken out of what goes upstream.
Taken(d, i, name) ==
    /\ i \in DOMAIN d.request.params /\ d.request.params[i].name = name
    /\ d.up.path = d.request.path
    /\ d.up.params = RemoveAt(d.request.params, i)

UrlCovers(d) ==
    \E i \in DOMAIN d.request.params :
      /\ Taken(d, i, "token")
      /\ d.request.params[i].value = computeHmacSignature(Url(d.up))

JwtCovers(d) ==
    \E i \in DOMAIN d.request.params :
      LET jwt == d.request.params[i].value IN
      /\ Taken(d, i, "jwt")
      /\ jwt.kind = "jwt" /\ jwt.hash = computeHmacSignature(jwt.claims)
      /\ jwt.claims.exp # 0 => d.at <= jwt.claims.exp + ClockSkew

\* A request goes upstream only with a credential of the holder of the key that
\* is made out for it and has not expired; hmac_authtoken's and jwt_auth's is
\* taken off, and the former's is for exactly what goes upstream.  The unsigned
\* difference of two times in hmac_token_validation accepts no timestamp of the
\* future by wrapping, and calls none expired that is not.
ForwardedIsCovered ==
    LET d == decision IN
    /\ d.outcome = Forward =>
         /\ d.plugin = "hmac_authcookie" => CookieCovers(d)
         /\ d.plugin = "hmac_token_validation" => TokenCovers(d)
         /\ d.plugin = "hmac_authtoken" => UrlCovers(d)
         /\ d.plugin = "jwt_auth" => d.request.path = Empty \/ JwtCovers(d)
    /\ d.outcome = "403 token expired" => ~Fresh(d)

Blank(c, i) == i \in {0, Len(c) + 1} \/ c[i] = Space

\* First and last place of each word.
Words(c) ==
    {w \in (1..Len(c)) \X (1..Len(c)) :
       /\ w[1] <= w[2] /\ Blank(c, w[1] - 1) /\ Blank(c, w[2] + 1)
       /\ \A k \in w[1]..w[2] : ~Blank(c, k)}

\* The tokens of the configuration that are refused are its words: what stands
\* between white space or the ends, whether or not white space ends it or comes
\* twice.
DenylistExact ==
    denylist.set_up =>
      denylist.tokens = {SubSeq(denylist.config, w[1], w[2])
                           : w \in Words(denylist.config)}
=============================================================================
