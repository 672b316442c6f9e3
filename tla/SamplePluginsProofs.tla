------------------------- MODULE SamplePluginsProofs -------------------------
(***************************************************************************)
(* Proofs about the sample plugins: what the rewriting plugins, the plugins *)
(* that refuse requests and the cookie plugins promise holds for every set  *)
(* of streams, requests, replies and configurations.                        *)
(***************************************************************************)
EXTENDS SamplePlugins, BodyPluginsProofs

-----------------------------------------------------------------------------
(* Header maps.                                                             *)

WithName(T, name) == {f \in T : f.name = name}
OtherNames(T, name) == {f \in T : f.name # name}

LEMMA HeaderFilters ==
    ASSUME NEW T, NEW h \in Seq(T), NEW name
    PROVE  /\ Named(h, name) = Filter(h, WithName(T, name))
           /\ removeHeader(h, name) = Filter(h, OtherNames(T, name))
<1>1. h \in Seq(Range(h)) /\ Range(h) \subseteq T
  BY RangeType
<1>2. \A x \in Range(h) :
        x \in {f \in Range(h) : f.name = name} <=> x \in WithName(T, name)
  BY <1>1 DEF WithName
<1>3. \A x \in Range(h) :
        x \in {f \in Range(h) : f.name # name} <=> x \in OtherNames(T, name)
  BY <1>1 DEF OtherNames
<1>4. Filter(h, {f \in Range(h) : f.name = name}) = Filter(h, WithName(T, name))
  BY <1>1, <1>2, FilterSame
<1>5. Filter(h, {f \in Range(h) : f.name # name}) = Filter(h, OtherNames(T, name))
  BY <1>1, <1>3, FilterSame
<1> QED BY <1>4, <1>5 DEF Named, removeHeader

\* One field of the name more, after those that are there.
LEMMA HeaderAdded ==
    ASSUME NEW T, NEW h \in Seq(T), NEW name, NEW x \in T, x.name = name
    PROVE  /\ Append(h, x) \in Seq(T)
           /\ Named(Append(h, x), name) = Append(Named(h, name), x)
           /\ removeHeader(Append(h, x), name) = removeHeader(h, name)
<1>1. Append(h, x) \in Seq(T) /\ x \in WithName(T, name) /\ x \notin OtherNames(T, name)
  BY DEF WithName, OtherNames
<1>2. /\ Filter(Append(h, x), WithName(T, name))
           = Append(Filter(h, WithName(T, name)), x)
      /\ Filter(Append(h, x), OtherNames(T, name)) = Filter(h, OtherNames(T, name))
  BY <1>1, FilterAppend
<1> QED BY <1>1, <1>2, HeaderFilters

\* removeHeader leaves no field of the name, and all others.
LEMMA HeaderRemoved ==
    ASSUME NEW T, NEW h \in Seq(T), NEW name
    PROVE  LET r == removeHeader(h, name) IN
           /\ r \in Seq(T) /\ Named(r, name) = <<>> /\ removeHeader(r, name) = r
<1> DEFINE A == WithName(T, name)
           B == OtherNames(T, name)
           r == removeHeader(h, name)
<1>1. r = Filter(h, B)
  BY HeaderFilters
<1>2. r \in Seq(T) /\ r \in Seq(B)
  BY <1>1, FilterType
<1>3. B \cap A = {} /\ B \subseteq B
  BY DEF WithName, OtherNames
<1> HIDE DEF A, B, r
<1>4. Filter(r, A) = <<>> /\ Filter(r, B) = r
  BY <1>2, <1>3, FilterNone, FilterAll
<1> QED BY <1>2, <1>4, HeaderFilters DEF A, B, r

\* replaceHeader leaves one field of the name, and all others.
LEMMA HeaderReplaced ==
    ASSUME NEW T, NEW h \in Seq(T), NEW name, NEW value, Field(name, value) \in T
    PROVE  LET r == replaceHeader(h, name, value) IN
           /\ Named(r, name) = <<Field(name, value)>>
           /\ removeHeader(r, name) = removeHeader(h, name)
<1> DEFINE x == Field(name, value)
           r == replaceHeader(h, name, value)
           A == WithName(T, name)
           B == OtherNames(T, name)
<1>0. x \in T /\ x.name = name
  BY DEF Field
<1> HIDE DEF x
<1>1. CASE Named(h, name) = <<>>
  <2>1. r = Append(h, x)
    BY <1>1 DEF replaceHeader, addHeader, x
  <2>2. Append(<<>>, x) = <<x>>
    OBVIOUS
  <2> HIDE DEF r
  <2>3. /\ Named(r, name) = Append(<<>>, x)
        /\ removeHeader(r, name) = removeHeader(h, name)
    <3>1. /\ Named(Append(h, x), name) = Append(Named(h, name), x)
          /\ removeHeader(Append(h, x), name) = removeHeader(h, name)
      BY <1>0, HeaderAdded
    <3> QED BY <1>1, <2>1, <3>1, Zenon
  <2>4. Named(r, name) = <<x>>
    BY <2>2, <2>3, Zenon
  <2> QED BY <2>3, <2>4 DEF r, x
<1>2. CASE Named(h, name) # <<>>
  <2> DEFINE places == {i \in DOMAIN h : h[i].name = name}
             k == Min(places)
             pre == SubSeq(h, 1, k - 1)
             post == SubSeq(h, k + 1, Len(h))
  <2>1. DOMAIN h = 1..Len(h) /\ Len(h) \in Nat
    OBVIOUS
  <2>2. places # {}
    <3> SUFFICES ASSUME places = {} PROVE FALSE
      OBVIOUS
    <3>1. h \in Seq(Range(h)) /\ Range(h) \cap A = {}
      BY RangeType DEF WithName, Range
    <3>2. Filter(h, A) = <<>>
      BY <3>1, FilterNone
    <3> QED BY <1>2, <3>2, HeaderFilters
  <2>3. k \in places /\ \A i \in places : k <= i
    <3>1. places \in SUBSET Nat
      BY <2>1
    <3> HIDE DEF places
    <3> QED BY <2>2, <3>1, MinIn
  <2>4. k \in 1..Len(h) /\ h[k] \in T /\ h[k].name = name
    BY <2>1, <2>3
  <2>5. ASSUME NEW i \in 1..(k - 1) PROVE h[i].name # name
    <3>1. i \in DOMAIN h /\ ~(k <= i)
      BY <2>1, <2>4
    <3> QED BY <2>3, <3>1
  <2>6. r = (pre \o <<x>>) \o removeHeader(post, name)
    BY <1>2 DEF replaceHeader, x
  <2> HIDE DEF k, places, r
  <2>7. /\ pre \in Seq(T) /\ post \in Seq(T) /\ Len(pre) = k - 1
        /\ h = (pre \o <<h[k]>>) \o post
    BY <2>4, SplitAround
  <2>8. pre \in Seq(B)
    <3>1. \A i \in 1..(k - 1) : h[i] \in B
      BY <2>1, <2>4, <2>5 DEF OtherNames
    <3> HIDE DEF B
    <3> QED BY <2>1, <2>4, <3>1
  <2> DEFINE gone == removeHeader(post, name)
  <2>9. gone \in Seq(T) /\ Named(gone, name) = <<>> /\ removeHeader(gone, name) = gone
    BY <2>7, HeaderRemoved
  <2> HIDE DEF pre, post, gone
  <2>10. /\ Filter(pre, A) = <<>> /\ Filter(pre, B) = pre
    <3>1. B \cap A = {} /\ B \subseteq B
      BY DEF WithName, OtherNames
    <3> HIDE DEF A, B
    <3> QED BY <2>8, <3>1, FilterNone, FilterAll
  <2>11. \A y \in T : y.name = name => y \in A /\ y \notin B
    BY DEF WithName, OtherNames
  <2> HIDE DEF A, B
  <2> DEFINE old == <<h[k]>>
             new == <<x>>
  <2>12. /\ old \in Seq(T) /\ new \in Seq(T) /\ Filter(new, A) = new
         /\ Filter(old, B) = <<>> /\ Filter(new, B) = <<>>
    BY <1>0, <2>4, <2>11, FilterOne
  <2> HIDE DEF old, new
  <2>13. /\ h = (pre \o old) \o post /\ r = (pre \o new) \o gone
    BY <2>6, <2>7 DEF old, new, gone
  <2>14. /\ Filter(gone, A) = <<>> /\ Filter(gone, B) = gone /\ Filter(post, B) = gone
    <3>1. /\ Named(gone, name) = Filter(gone, A)
          /\ removeHeader(gone, name) = Filter(gone, B)
          /\ removeHeader(post, name) = Filter(post, B)
      BY <2>7, <2>9, HeaderFilters, Zenon DEF A, B
    <3> QED BY <2>9, <3>1 DEF gone
  <2>15. /\ r \in Seq(T) /\ Filter(r, A) = (<<>> \o new) \o <<>>
         /\ Filter(r, B) = (pre \o <<>>) \o gone
         /\ Filter(h, B) = (pre \o <<>>) \o gone
    <3>0. AllIn(T, pre, new, gone) /\ AllIn(T, pre, old, post)
      BY <2>7, <2>9, <2>12 DEF AllIn
    <3>1. ASSUME NEW S
          PROVE  /\ (pre \o new) \o gone \in Seq(T)
                 /\ Filter((pre \o new) \o gone, S)
                      = (Filter(pre, S) \o Filter(new, S)) \o Filter(gone, S)
      BY <3>0, FilterThree
    <3>2. ASSUME NEW S
          PROVE  Filter((pre \o old) \o post, S)
                   = (Filter(pre, S) \o Filter(old, S)) \o Filter(post, S)
      BY <3>0, FilterThree
    <3> QED BY <2>10, <2>12, <2>13, <2>14, <3>1, <3>2, Zenon
  <2>16. (<<>> \o new) \o <<>> = new
    BY <2>12, ConcatEmptySeq
  <2>17. /\ Named(r, name) = Filter(r, A) /\ removeHeader(r, name) = Filter(r, B)
         /\ removeHeader(h, name) = Filter(h, B)
    BY <2>15, HeaderFilters, Zenon DEF A, B
  <2>18. Named(r, name) = new /\ removeHeader(r, name) = removeHeader(h, name)
    BY <2>15, <2>16, <2>17, Zenon
  <2> QED BY <2>18 DEF r, x, new
<1> QED BY <1>1, <1>2
-----------------------------------------------------------------------------
(* Rewriting: what a stream remembers of its request.                       *)

\* A visit that has begun.
VisitFields == {"pc", "asked", "region", "hops", "up", "trace_id", "origin",
                "reply"}
IsVisit(v) == DOMAIN v = VisitFields /\ v = [f \in VisitFields |-> v[f]]

Redirects(v) == v.hops + IF v.pc = "redirected" THEN 1 ELSE 0

\* error_page_with_traceid forwards what it was sent; the trace id and, once the
\* origin has answered, the page are those of that request.
TraceOK(v) ==
    /\ v.pc # "redirected" /\ v.up = v.asked
    /\ v.trace_id = extractTraceId(v.asked.headers)
    /\ v.origin \in Nat
    /\ v.pc = "answered" =>
         v.reply.status = (IF v.origin = 0 THEN 500 ELSE v.origin)
    /\ v.pc = "answered" /\ v.origin \notin 1..399 =>
         v.reply.headers = <<Field("page", extractTraceId(v.asked.headers))>>

\* redirect has changed the first segment at most, once, and what it forwards it
\* would not redirect again.
MovedOK(v) ==
    /\ v.hops \in Nat /\ Redirects(v) <= 1
    /\ v.asked \in Request
    /\ \/ Redirects(v) = 0 /\ v.up = v.asked
       \/ /\ Redirects(v) = 1 /\ 1 \in DOMAIN v.asked.path
          /\ v.up = [v.asked EXCEPT !.path[1] = "bar"]

\* The n sources that have led a client to where redirect_bulk has it now: each
\* one leads to another of them or to this place.
Passed(map, D, n, authority) ==
    /\ IsFiniteSet(D) /\ Cardinality(D) = n
    /\ \A d \in D : WithoutPort(map[d]) \in D \cup {WithoutPort(authority)}

BulkOK(map, v) ==
    /\ v.hops \in Nat /\ v.up \in Request /\ v.asked \in Request
    /\ [v.up EXCEPT !.authority = v.asked.authority] = v.asked
    /\ Acyclic(map) =>
         \E D \in SUBSET DOMAIN map : Passed(map, D, Redirects(v), v.up.authority)

\* The plugins that write one field, and the request as they write it.
Writers == {"add_device_type", "geo_directional_origin", "add_geo_query",
            "set_query"}

Written(plugin, v) ==
    CASE plugin = "add_device_type" ->
           SetHeader(v.asked, "x-device-type", DetectDeviceType(v.asked.agent))
      [] plugin = "geo_directional_origin" -> GeoOrigin(v.asked, v.region)
      [] plugin = "add_geo_query" -> GeoQuery(v.asked, v.region)
      [] plugin = "set_query" -> SetQuery(v.asked)

WrittenOK(plugin, v) ==
    v.pc # "redirected" /\ v.asked \in Request /\ v.up = Written(plugin, v)

VisitOK(plugin, map, v) ==
    /\ IsVisit(v) /\ v.pc \in {"upstream", "redirected", "answered"}
    /\ plugin = "error_page_with_traceid" => TraceOK(v)
    /\ plugin = "redirect" => MovedOK(v)
    /\ plugin = "redirect_bulk" => BulkOK(map, v)
    /\ plugin \in Writers => WrittenOK(plugin, v)

MappingsOK(map) ==
    /\ IsFiniteSet(DOMAIN map)
    /\ \A d \in DOMAIN map : map[d] \in Authority

\* The inductive invariant of the rewriting plugins.
RewriteInv ==
    /\ rewritePlugin \in DOMAIN Requests \cup {"none"}
    /\ MappingsOK(mappings)
    /\ DOMAIN visit = Streams
    /\ visit = [s \in DOMAIN visit |-> visit[s]]
    /\ \A s \in Streams :
         \/ visit[s] = NoVisit
         \/ rewritePlugin # "none" /\ VisitOK(rewritePlugin, mappings, visit[s])

\* The mappings of a configuration are finitely many, one per source.
LEMMA MappingsType ==
    ASSUME NEW lines \in Mappings
    PROVE  MappingsOK(onConfigureMappings(lines))
<1> DEFINE whole == {i \in DOMAIN lines : Len(lines[i]) = 2}
           At(d) == {i \in whole : lines[i][1] = d}
           sources == {lines[i][1] : i \in whole}
           m == onConfigureMappings(lines)
<1>1. lines \in Seq(Seq(Authority)) /\ DOMAIN lines = 1..Len(lines) /\ Len(lines) \in Nat
  BY RewriteAssumption
<1>2. m = [d \in sources |-> lines[Max(At(d))][2]]
  BY DEF onConfigureMappings
<1>3. IsFiniteSet(whole)
  <2>1. IsFiniteSet(1..Len(lines))
    BY <1>1, FS_Interval
  <2> QED BY <1>1, <2>1, FS_Subset
<1>4. IsFiniteSet(sources)
  <2>1. [i \in whole |-> lines[i][1]] \in Surjection(whole, sources)
    BY DEF Surjection
  <2> QED BY <1>3, <2>1, FS_Surjection
<1>5. ASSUME NEW d \in sources PROVE lines[Max(At(d))][2] \in Authority
  <2>1. At(d) # {} /\ At(d) \in SUBSET (1..Len(lines))
    BY <1>1
  <2>2. Max(At(d)) \in At(d)
    BY <1>1, <2>1, MaxIn
  <2>3. lines[Max(At(d))] \in Seq(Authority) /\ Len(lines[Max(At(d))]) = 2
    BY <1>1, <2>2
  <2> QED BY <2>3
<1> QED BY <1>2, <1>4, <1>5 DEF MappingsOK

\* What the plugins forward or redirect to.
LEMMA SentIsVisit ==
    ASSUME NEW asked, NEW r, NEW region, NEW hops
    PROVE  LET v == Sent(asked, r, region, hops)
           IN  IsVisit(v) /\ v.pc \in {"upstream", "redirected"}
BY DEF Sent, IsVisit, VisitFields

LEMMA TraceSent ==
    ASSUME rewritePlugin = "error_page_with_traceid", NEW r, NEW region
    PROVE  TraceOK(Sent(r, r, region, 0))
<1>1. onRequestHeaders(r, region) = Forwarded(r)
  BY DEF onRequestHeaders
<1> QED BY <1>1 DEF Sent, Forwarded, TraceOK

LEMMA WrittenSent ==
    ASSUME rewritePlugin \in Writers, NEW r \in Request, NEW region
    PROVE  WrittenOK(rewritePlugin, Sent(r, r, region, 0))
<1> DEFINE v == Sent(r, r, region, 0)
<1>1. v.asked = r /\ v.region = region
  BY DEF Sent
<1>2. onRequestHeaders(r, region) = Forwarded(Written(rewritePlugin, v))
  <2> HIDE DEF v
  <2> QED BY <1>1 DEF Writers, onRequestHeaders, Written
<1>3. v.pc = "upstream" /\ v.up = Written(rewritePlugin, v)
  <2> DEFINE w == Written(rewritePlugin, v)
  <2>1. onRequestHeaders(r, region) = Forwarded(w)
    BY <1>2
  <2> HIDE DEF w
  <2> QED BY <2>1 DEF Sent, Forwarded, w
<1> HIDE DEF v
<1> QED BY <1>1, <1>3 DEF WrittenOK, v

\* redirect moves a path once: /bar/ is not /foo/.
LEMMA MovedSent ==
    ASSUME rewritePlugin = "redirect", NEW asked \in Request, NEW region,
           NEW r, NEW hops \in Nat,
           \/ hops = 0 /\ r = asked
           \/ /\ hops = 1 /\ 1 \in DOMAIN asked.path
              /\ r = [asked EXCEPT !.path[1] = "bar"]
    PROVE  MovedOK(Sent(asked, r, region, hops))
<1> DEFINE v == Sent(asked, r, region, hops)
           moves == Len(r.path) > 1 /\ r.path[1] = "foo"
<1>1. onRequestHeaders(r, region)
        = IF moves THEN Redirected([r EXCEPT !.path[1] = "bar"]) ELSE Forwarded(r)
  BY DEF onRequestHeaders, Redirect
<1>2. /\ v.asked = asked /\ v.hops = hops
      /\ v.pc = IF moves THEN "redirected" ELSE "upstream"
      /\ v.up = IF moves THEN [r EXCEPT !.path[1] = "bar"] ELSE r
  BY <1>1 DEF Sent, Redirected, Forwarded
<1>3. asked.path \in Seq(STRING)
  BY DEF Request
<1>4. CASE moves
  <2>1. hops = 0 /\ r = asked
    <3>1. CASE 1 \in DOMAIN asked.path /\ r = [asked EXCEPT !.path[1] = "bar"]
      <4>1. r.path[1] = "bar"
        BY <3>1 DEF Request
      <4> QED BY <4>1, <1>4
    <3> QED BY <3>1
  <2>2. 1 \in DOMAIN r.path
    BY <1>3, <1>4, <2>1
  <2> QED BY <1>2, <1>4, <2>1, <2>2 DEF MovedOK, Redirects
<1>5. CASE ~moves
  BY <1>2, <1>5 DEF MovedOK, Redirects
<1> QED BY <1>4, <1>5

\* redirect_bulk: without a cycle no source is passed twice.
LEMMA BulkSent ==
    ASSUME rewritePlugin = "redirect_bulk", MappingsOK(mappings),
           NEW asked \in Request, NEW r \in Request, NEW region, NEW hops \in Nat,
           [r EXCEPT !.authority = asked.authority] = asked,
           Acyclic(mappings) => \E D \in SUBSET DOMAIN mappings :
                                  Passed(mappings, D, hops, r.authority)
    PROVE  BulkOK(mappings, Sent(asked, r, region, hops))
<1> DEFINE v == Sent(asked, r, region, hops)
           domain == WithoutPort(r.authority)
           moves == domain \in DOMAIN mappings
           moved == [r EXCEPT !.authority = mappings[domain]]
<1>1. onRequestHeaders(r, region)
        = IF moves THEN Redirected(moved) ELSE Forwarded(r)
  BY DEF onRequestHeaders, RedirectBulk
<1>2. /\ v.asked = asked /\ v.hops = hops
      /\ v.pc = IF moves THEN "redirected" ELSE "upstream"
      /\ v.up = IF moves THEN moved ELSE r
  BY <1>1 DEF Sent, Redirected, Forwarded
<1>3. CASE moves
  <2>1. mappings[domain] \in Authority
    BY <1>3 DEF MappingsOK
  <2>2. moved \in Request /\ moved.authority = mappings[domain]
    BY <2>1 DEF Request
  <2>3. [moved EXCEPT !.authority = asked.authority] = asked
    BY <2>2 DEF Request
  <2>4. Redirects(v) = hops + 1
    BY <1>2, <1>3 DEF Redirects
  <2>5. ASSUME Acyclic(mappings)
        PROVE  \E E \in SUBSET DOMAIN mappings :
                 Passed(mappings, E, hops + 1, mappings[domain])
    <3>1. PICK D \in SUBSET DOMAIN mappings : Passed(mappings, D, hops, r.authority)
      BY <2>5
    <3>2. domain \notin D
      <4> SUFFICES ASSUME domain \in D PROVE FALSE
        OBVIOUS
      <4>1. \A d \in D : WithoutPort(mappings[d]) \in D
        BY <3>1 DEF Passed
      <4> QED BY <4>1, <2>5 DEF Acyclic
    <3>3. /\ IsFiniteSet(D \cup {domain})
          /\ Cardinality(D \cup {domain}) = hops + 1
      BY <3>1, <3>2, FS_AddElement DEF Passed
    <3>4. \A d \in D \cup {domain} :
            WithoutPort(mappings[d])
              \in (D \cup {domain}) \cup {WithoutPort(mappings[domain])}
      BY <3>1 DEF Passed
    <3>5. D \cup {domain} \in SUBSET DOMAIN mappings
      BY <1>3
    <3> QED BY <3>3, <3>4, <3>5 DEF Passed
  <2> QED BY <1>2, <1>3, <2>2, <2>3, <2>4, <2>5 DEF BulkOK
<1>4. CASE ~moves
  <2>1. v.up = r /\ Redirects(v) = hops
    BY <1>2, <1>4 DEF Redirects
  <2> QED BY <1>2, <2>1 DEF BulkOK
<1> QED BY <1>3, <1>4

LEMMA RewriteInvInit == RewriteInit => RewriteInv
BY FS_EmptySet DEF RewriteInit, RewriteInv, MappingsOK

\* The visit of one stream changes.
LEMMA OneVisitChanges ==
    ASSUME RewriteInv, UNCHANGED <<rewritePlugin, mappings>>, NEW s \in Streams,
           NEW v, visit' = [visit EXCEPT ![s] = v],
           \/ v = NoVisit
           \/ rewritePlugin # "none" /\ VisitOK(rewritePlugin, mappings, v)
    PROVE  RewriteInv'
<1>1. DOMAIN visit' = Streams /\ visit' = [t \in DOMAIN visit' |-> visit'[t]]
  BY DEF RewriteInv
<1>2. \A t \in Streams : visit'[t] = IF t = s THEN v ELSE visit[t]
  BY DEF RewriteInv
<1> QED BY <1>1, <1>2 DEF RewriteInv

LEMMA RewriteInvStep == RewriteInv /\ [RewriteNext]_rewriteVars => RewriteInv'
<1> SUFFICES ASSUME RewriteInv, [RewriteNext]_rewriteVars PROVE RewriteInv'
  OBVIOUS
<1>1. ASSUME NEW p \in DOMAIN Requests, NEW lines \in Mappings,
             LoadRewritePlugin(p, lines)
      PROVE  RewriteInv'
  <2>1. MappingsOK(mappings')
    BY <1>1, MappingsType, FS_EmptySet DEF LoadRewritePlugin, MappingsOK
  <2>2. \A s \in Streams : visit[s] = NoVisit
    BY <1>1 DEF LoadRewritePlugin, RewriteInv
  <2> QED BY <1>1, <2>1, <2>2 DEF LoadRewritePlugin, RewriteInv
<1>2. ASSUME rewritePlugin # "none", NEW s \in Streams,
             NEW r \in Requests[rewritePlugin], NEW region \in Regions,
             ClientSends(s, r, region)
      PROVE  RewriteInv'
  <2> DEFINE v == Sent(r, r, region, 0)
  <2>1. r \in Request
    BY <1>2, RewriteAssumption DEF RewriteInv
  <2>2. [r EXCEPT !.authority = r.authority] = r
    BY <2>1 DEF Request
  <2>3. Passed(mappings, {}, 0, r.authority) /\ {} \in SUBSET DOMAIN mappings
    BY FS_EmptySet DEF Passed
  <2>4. rewritePlugin = "error_page_with_traceid" => TraceOK(v)
    BY TraceSent
  <2>5. rewritePlugin = "redirect" => MovedOK(v)
    BY <2>1, MovedSent
  <2>6. rewritePlugin = "redirect_bulk" => BulkOK(mappings, v)
    BY <2>1, <2>2, <2>3, BulkSent DEF RewriteInv
  <2>7. rewritePlugin \in Writers => WrittenOK(rewritePlugin, v)
    BY <2>1, WrittenSent
  <2>8. VisitOK(rewritePlugin, mappings, v)
    BY <2>4, <2>5, <2>6, <2>7, SentIsVisit DEF VisitOK
  <2> HIDE DEF v
  <2> QED BY <1>2, <2>8, OneVisitChanges DEF ClientSends, v
<1>3. ASSUME rewritePlugin # "none", NEW s \in Streams, ClientFollows(s)
      PROVE  RewriteInv'
  <2> DEFINE w == visit[s]
             v == Sent(w.asked, w.up, w.region, w.hops + 1)
  <2>1. w.pc = "redirected" /\ visit' = [visit EXCEPT ![s] = v]
    BY <1>3 DEF ClientFollows, RewriteInv
  <2>2. VisitOK(rewritePlugin, mappings, w)
    BY <2>1 DEF RewriteInv, NoVisit
  <2>3. rewritePlugin # "error_page_with_traceid" /\ rewritePlugin \notin Writers
    BY <2>1, <2>2 DEF VisitOK, TraceOK, WrittenOK
  <2>4. ASSUME rewritePlugin = "redirect" PROVE MovedOK(v)
    <3>1. MovedOK(w)
      BY <2>2, <2>4 DEF VisitOK
    <3>2. w.hops + 1 \in Nat /\ w.hops + 1 = Redirects(w)
      BY <2>1, <3>1 DEF MovedOK, Redirects
    <3>3. /\ w.hops + 1 = 1 /\ 1 \in DOMAIN w.asked.path
          /\ w.asked \in Request
          /\ w.up = [w.asked EXCEPT !.path[1] = "bar"]
      BY <3>1, <3>2 DEF MovedOK
    <3> HIDE DEF w
    <3> QED BY <2>4, <3>2, <3>3, MovedSent
  <2>5. ASSUME rewritePlugin = "redirect_bulk" PROVE BulkOK(mappings, v)
    <3>1. BulkOK(mappings, w) /\ MappingsOK(mappings)
      BY <2>2, <2>5 DEF VisitOK, RewriteInv
    <3>2. w.hops + 1 \in Nat /\ w.hops + 1 = Redirects(w)
      BY <2>1, <3>1 DEF BulkOK, Redirects
    <3>3. /\ w.up \in Request /\ w.asked \in Request
          /\ [w.up EXCEPT !.authority = w.asked.authority] = w.asked
          /\ Acyclic(mappings) => \E D \in SUBSET DOMAIN mappings :
               Passed(mappings, D, w.hops + 1, w.up.authority)
      BY <3>1, <3>2 DEF BulkOK
    <3> HIDE DEF w
    <3> QED BY <2>5, <3>1, <3>2, <3>3, BulkSent
  <2>6. VisitOK(rewritePlugin, mappings, v)
    BY <2>3, <2>4, <2>5, SentIsVisit DEF VisitOK
  <2> HIDE DEF v
  <2> QED BY <1>3, <2>1, <2>6, OneVisitChanges DEF ClientFollows
<1>4. ASSUME rewritePlugin # "none", NEW s \in Streams,
             NEW reply \in Replies[rewritePlugin], OriginAnswers(s, reply)
      PROVE  RewriteInv'
  <2> DEFINE w == visit[s]
             v == [w EXCEPT !.pc = "answered", !.origin = reply.status,
                     !.reply = onResponseHeaders(reply, w.trace_id)]
  <2>1. w.pc = "upstream" /\ visit' = [visit EXCEPT ![s] = v]
    BY <1>4 DEF OriginAnswers, RewriteInv
  <2>2. VisitOK(rewritePlugin, mappings, w)
    BY <2>1 DEF RewriteInv, NoVisit
  <2>3. /\ IsVisit(v) /\ v.pc = "answered" /\ v.asked = w.asked
        /\ v.up = w.up /\ v.hops = w.hops /\ v.trace_id = w.trace_id
        /\ v.origin = reply.status
        /\ v.reply = onResponseHeaders(reply, w.trace_id)
    BY <2>2 DEF VisitOK, IsVisit, VisitFields
  <2>4. Redirects(v) = Redirects(w)
    BY <2>1, <2>3 DEF Redirects
  <2>5. ASSUME rewritePlugin = "error_page_with_traceid" PROVE TraceOK(v)
    <3>1. TraceOK(w)
      BY <2>2, <2>5 DEF VisitOK
    <3>2. v.reply = ErrorPage(reply, w.trace_id) /\ reply.status \in Nat
      BY <2>3, <2>5, <1>4, RewriteAssumption DEF onResponseHeaders, RewriteInv
    <3> QED BY <2>3, <3>1, <3>2 DEF TraceOK, ErrorPage, Reply
  <2>6. ASSUME rewritePlugin \in Writers PROVE WrittenOK(rewritePlugin, v)
    <3>1. WrittenOK(rewritePlugin, w) /\ v.region = w.region
      BY <2>2, <2>6 DEF VisitOK, IsVisit, VisitFields
    <3>2. Written(rewritePlugin, v) = Written(rewritePlugin, w)
      BY <2>3, <3>1 DEF Written
    <3> QED BY <2>3, <3>1, <3>2 DEF WrittenOK
  <2>7. VisitOK(rewritePlugin, mappings, v)
    BY <2>2, <2>3, <2>4, <2>5, <2>6 DEF VisitOK, MovedOK, BulkOK
  <2> HIDE DEF v
  <2> QED BY <1>4, <2>1, <2>7, OneVisitChanges DEF OriginAnswers
<1>5. ASSUME NEW s \in Streams, ClientDone(s) PROVE RewriteInv'
  BY <1>5, OneVisitChanges DEF ClientDone
<1>6. CASE UNCHANGED rewriteVars
  BY <1>6 DEF rewriteVars, RewriteInv
<1> QED BY <1>1, <1>2, <1>3, <1>4, <1>5, <1>6 DEF RewriteNext

\* The invariant holds whatever clients and origins do, on any number of streams.
THEOREM RewriteInvariant == RewriteSpec => []RewriteInv
BY RewriteInvInit, RewriteInvStep, PTL DEF RewriteSpec

\* An error page shows the trace id of the request it answers and the status of
\* the origin, however many streams overlap (MyHttpContext keeps the trace id).
THEOREM ErrorPageIsOwnTheorem == RewriteSpec => []ErrorPageIsOwn
<1>1. RewriteInv => ErrorPageIsOwn
  <2> SUFFICES ASSUME RewriteInv, NEW s \in Streams,
                      rewritePlugin = "error_page_with_traceid",
                      visit[s].pc = "answered"
               PROVE  LET v == visit[s] IN
                      IF v.origin \in 1..399 THEN v.reply.status = v.origin
                      ELSE /\ v.reply.status = IF v.origin = 0 THEN 500 ELSE v.origin
                           /\ v.reply.headers
                                = <<Field("page", extractTraceId(v.asked.headers))>>
    BY DEF ErrorPageIsOwn
  <2>1. TraceOK(visit[s])
    BY DEF RewriteInv, VisitOK, NoVisit
  <2> QED BY <2>1 DEF TraceOK
<1> QED BY <1>1, RewriteInvariant, PTL

\* Redirects come to an end: after one for redirect, and for redirect_bulk after
\* at most one for each mapping unless the mappings lead in a circle; all but the
\* first segment, or all but the authority, is what the client asked for.
THEOREM RedirectsEndTheorem == RewriteSpec => []RedirectsEnd
<1>1. RewriteInv => RedirectsEnd
  <2> SUFFICES ASSUME RewriteInv, NEW s \in Streams, visit[s].pc # "idle"
               PROVE  LET v == visit[s] IN
                      /\ rewritePlugin = "redirect" =>
                           /\ Redirects(v) <= 1
                           /\ \A i \in 2..Len(v.asked.path) :
                                v.up.path[i] = v.asked.path[i]
                      /\ rewritePlugin = "redirect_bulk" =>
                           /\ [v.up EXCEPT !.authority = v.asked.authority] = v.asked
                           /\ Acyclic(mappings) =>
                                Redirects(v) <= Cardinality(DOMAIN mappings)
    BY DEF RedirectsEnd, Redirects
  <2> DEFINE v == visit[s]
  <2>1. VisitOK(rewritePlugin, mappings, v)
    BY DEF RewriteInv, NoVisit
  <2>2. ASSUME rewritePlugin = "redirect", NEW i \in 2..Len(v.asked.path)
        PROVE  v.up.path[i] = v.asked.path[i]
    <3>1. /\ v.asked \in Request
          /\ v.up = v.asked \/ v.up = [v.asked EXCEPT !.path[1] = "bar"]
      BY <2>1, <2>2 DEF VisitOK, MovedOK
    <3>2. v.asked.path \in Seq(STRING)
      BY <3>1 DEF Request
    <3>3. [v.asked EXCEPT !.path[1] = "bar"].path = [v.asked.path EXCEPT ![1] = "bar"]
      BY <3>1 DEF Request
    <3>4. v.up.path = v.asked.path \/ v.up.path = [v.asked.path EXCEPT ![1] = "bar"]
      BY <3>1, <3>3
    <3> HIDE DEF v
    <3> QED BY <3>2, <3>4
  <2>3. ASSUME rewritePlugin = "redirect_bulk", Acyclic(mappings)
        PROVE  Redirects(v) <= Cardinality(DOMAIN mappings)
    <3>1. PICK D \in SUBSET DOMAIN mappings : Cardinality(D) = Redirects(v)
      BY <2>1, <2>3 DEF VisitOK, BulkOK, Passed
    <3> QED BY <3>1, FS_Subset DEF RewriteInv, MappingsOK
  <2> HIDE DEF v
  <2> QED BY <2>1, <2>2, <2>3 DEF VisitOK, MovedOK, BulkOK, v
<1> QED BY <1>1, RewriteInvariant, PTL

\* Under a name the origin reads these values, and all else as it was sent.
Reads(up, asked, name, values) ==
    /\ Named(up, name) = [i \in DOMAIN values |-> Field(name, values[i])]
    /\ removeHeader(up, name) = removeHeader(asked, name)

\* What the three ways of writing a field leave to be read.
LEMMA ReadsWritten ==
    ASSUME NEW h \in Fields, NEW name, NEW value
    PROVE  /\ Reads(replaceHeader(h, name, value), h, name, <<value>>)
           /\ Reads(removeHeader(h, name), h, name, <<>>)
           /\ Reads(addHeader(removeHeader(h, name), name, value), h, name, <<value>>)
<1> DEFINE x == Field(name, value)
           R == [name : STRING, value : STRING]
           T == R \cup {x}
           gone == removeHeader(h, name)
<1>1. h \in Seq(R)
  BY DEF Fields
<1>2. x \in T /\ x.name = name
  BY DEF Field
<1> HIDE DEF x, R
<1>3. h \in Seq(T)
  BY <1>1
<1> HIDE DEF T
<1>4. gone \in Seq(T) /\ Named(gone, name) = <<>> /\ removeHeader(gone, name) = gone
  BY <1>3, HeaderRemoved
<1>5. /\ [i \in DOMAIN <<value>> |-> Field(name, <<value>>[i])] = <<x>>
      /\ [i \in DOMAIN <<>> |-> Field(name, <<>>[i])] = <<>>
  BY DEF x
<1>6. Reads(gone, h, name, <<>>)
  BY <1>4, <1>5, Zenon DEF Reads
<1>7. Reads(replaceHeader(h, name, value), h, name, <<value>>)
  <2>1. /\ Named(replaceHeader(h, name, value), name) = <<x>>
        /\ removeHeader(replaceHeader(h, name, value), name) = removeHeader(h, name)
    BY <1>2, <1>3, HeaderReplaced DEF x
  <2> QED BY <1>5, <2>1, Zenon DEF Reads
<1>8. Reads(addHeader(gone, name, value), h, name, <<value>>)
  <2> HIDE DEF gone
  <2>0. gone \in Seq(T)
    BY <1>4
  <2>1. /\ Named(Append(gone, x), name) = Append(Named(gone, name), x)
        /\ removeHeader(Append(gone, x), name) = removeHeader(gone, name)
    BY <1>2, <2>0, HeaderAdded
  <2>2. addHeader(gone, name, value) = Append(gone, x)
    BY DEF addHeader, x
  <2>3. Append(<<>>, x) = <<x>>
    OBVIOUS
  <2>4. /\ Named(addHeader(gone, name, value), name) = <<x>>
        /\ removeHeader(addHeader(gone, name, value), name) = gone
    BY <1>4, <2>1, <2>2, <2>3, Zenon
  <2> QED BY <1>5, <2>4, Zenon DEF Reads, gone
<1> QED BY <1>6, <1>7, <1>8

\* Whatever a client sends under the name that a plugin writes, once, twice or not
\* at all, the origin reads the plugin's value there and no other, and everything
\* else as it was sent (replaceRequestHeader, and erase and set of the query).
THEOREM PluginValueOnlyTheorem == RewriteSpec => []PluginValueOnly
<1>1. RewriteInv => PluginValueOnly
  <2> SUFFICES ASSUME RewriteInv, NEW s \in Streams, visit[s].pc = "upstream",
                      rewritePlugin \in Writers
               PROVE  LET v == visit[s]
                          said == Said(v)
                      IN  IF Writes(v)
                          THEN Reads(v.up[said.in], v.asked[said.in], said.name,
                                     said.values)
                          ELSE v.up = v.asked
    BY DEF PluginValueOnly, Reads, Writers
  <2> DEFINE v == visit[s]
             r == v.asked
             said == Said(v)
             Goal == IF Writes(v)
                     THEN Reads(v.up[said.in], r[said.in], said.name, said.values)
                     ELSE v.up = r
  <2>1. r \in Request /\ v.up = Written(rewritePlugin, v)
    BY DEF RewriteInv, VisitOK, NoVisit, WrittenOK
  <2>2. r.headers \in Fields /\ r.params \in Fields
    BY <2>1 DEF Request
  <2> HIDE DEF v
  <2>3. ASSUME NEW h
        PROVE  /\ [r EXCEPT !.headers = h].headers = h
               /\ [r EXCEPT !.params = h].params = h
    BY <2>1 DEF Request
  <2>4. ASSUME rewritePlugin = "add_device_type" PROVE Goal
    <3> DEFINE d == DetectDeviceType(r.agent)
    <3>1. v.up = [r EXCEPT !.headers = replaceHeader(r.headers, "x-device-type", d)]
      BY <2>1, <2>4 DEF Written, SetHeader
    <3>2. said.in = "headers" /\ said.name = "x-device-type" /\ said.values = <<d>>
      BY <2>4 DEF Said
    <3>3. Writes(v)
      BY <2>4 DEF Writes
    <3> HIDE DEF d, said, r
    <3>4. v.up.headers = replaceHeader(r.headers, "x-device-type", d)
      BY <2>3, <3>1
    <3>5. Reads(v.up.headers, r.headers, "x-device-type", <<d>>)
      BY <2>2, <3>4, ReadsWritten
    <3> QED BY <3>2, <3>3, <3>5
  <2>5. ASSUME rewritePlugin = "geo_directional_origin" PROVE Goal
    <3>1. v.up = [r EXCEPT !.headers =
                    IF v.region = Empty THEN removeHeader(r.headers, "x-country-code")
                    ELSE replaceHeader(r.headers, "x-country-code", v.region)]
      BY <2>1, <2>5 DEF Written, GeoOrigin, SetHeader
    <3>2. /\ said.in = "headers" /\ said.name = "x-country-code"
          /\ said.values = IF v.region = Empty THEN <<>> ELSE <<v.region>>
      BY <2>5 DEF Said
    <3>3. Writes(v)
      BY <2>5 DEF Writes
    <3> HIDE DEF said, r
    <3>4. v.up.headers = IF v.region = Empty
                         THEN removeHeader(r.headers, "x-country-code")
                         ELSE replaceHeader(r.headers, "x-country-code", v.region)
      BY <2>3, <3>1
    <3>5. Reads(v.up.headers, r.headers, "x-country-code", said.values)
      BY <2>2, <3>2, <3>4, ReadsWritten
    <3> QED BY <3>2, <3>3, <3>5
  <2>6. ASSUME rewritePlugin = "add_geo_query" PROVE Goal
    <3> DEFINE x == IF v.region = Empty THEN "unknown" ELSE v.region
    <3>1. v.up = IF ~r.parses THEN r
                 ELSE [r EXCEPT !.params = replaceHeader(r.params, "country", x)]
      BY <2>1, <2>6 DEF Written, GeoQuery
    <3>2. said.in = "params" /\ said.name = "country" /\ said.values = <<x>>
      BY <2>6 DEF Said
    <3>3. Writes(v) <=> r.parses
      BY <2>6 DEF Writes
    <3> HIDE DEF x, said, r
    <3>4. r.parses => v.up.params = replaceHeader(r.params, "country", x)
      BY <2>3, <3>1
    <3>5. r.parses => Reads(v.up.params, r.params, "country", <<x>>)
      BY <2>2, <3>4, ReadsWritten
    <3> QED BY <3>1, <3>2, <3>3, <3>5
  <2>7. ASSUME rewritePlugin = "set_query" PROVE Goal
    <3> DEFINE sets == r.parses /\ ~r.long
    <3>1. v.up = IF ~sets THEN r
                 ELSE [r EXCEPT !.params =
                         addHeader(removeHeader(r.params, "key"), "key", "new+val")]
      BY <2>1, <2>7 DEF Written, SetQuery
    <3>2. said.in = "params" /\ said.name = "key" /\ said.values = <<"new+val">>
      BY <2>7 DEF Said
    <3>3. Writes(v) <=> sets
      BY <2>7 DEF Writes
    <3> HIDE DEF sets, said, r
    <3>4. sets => v.up.params
                    = addHeader(removeHeader(r.params, "key"), "key", "new+val")
      BY <2>3, <3>1
    <3>5. sets => Reads(v.up.params, r.params, "key", <<"new+val">>)
      BY <2>2, <3>4, ReadsWritten
    <3> QED BY <3>1, <3>2, <3>3, <3>5
  <2> HIDE DEF Goal
  <2>8. Goal
    BY <2>4, <2>5, <2>6, <2>7 DEF Writers
  <2> QED BY <2>8 DEF Goal, v
<1> QED BY <1>1, RewriteInvariant, PTL

-----------------------------------------------------------------------------
(* Access.                                                                  *)

LEMMA ModSmall ==
    ASSUME NEW m \in Nat \ {0}, NEW d \in 0..(m - 1)
    PROVE  d % m = d
OBVIOUS

LEMMA ModNegative ==
    ASSUME NEW m \in Nat \ {0}, NEW d \in Int, -m <= d, d < 0
    PROVE  d % m = d + m
OBVIOUS

\* The unsigned difference is within the validity just when the timestamp is
\* not in the future and not too old: nothing wraps into the range.
LEMMA TokenAge ==
    ASSUME NEW n \in Times, NEW now \in 0..MaxClock
    PROVE  ~TokenExpired(n, now)
             <=> \E age \in 0..TokenValiditySeconds : n = now - age
<1> DEFINE half == 2 ^ (Width - 1)
           m == 2 ^ Width
           d == now - n
<1>1. half \in Nat /\ m = 2 * half /\ MaxClock + TokenValiditySeconds < half
  BY TimeAssumption, PowerAssumption
<1>2. n \in Int /\ -half <= n /\ n < half
  BY <1>1 DEF Times
<1>3. TokenExpired(n, now) <=> d % m > TokenValiditySeconds
  BY DEF TokenExpired
<1> HIDE DEF half, m
<1>4. CASE d >= 0
  <2>1. d \in 0..(m - 1) /\ m \in Nat \ {0}
    BY <1>1, <1>2, <1>4, TimeAssumption
  <2>2. d % m = d
    BY <2>1, ModSmall
  <2> QED BY <1>2, <1>3, <2>1, <2>2, TimeAssumption
<1>5. CASE d < 0
  <2>1. d \in Int /\ -m <= d /\ m \in Nat \ {0} /\ d + m > TokenValiditySeconds
    BY <1>1, <1>2, <1>5, TimeAssumption
  <2>2. d % m = d + m
    BY <1>5, <2>1, ModNegative
  <2> QED BY <1>2, <1>3, <1>5, <2>1, <2>2, TimeAssumption
<1> QED BY <1>2, <1>4, <1>5, TimeAssumption

\* What FirstParam finds is a place of the list.
LEMMA FirstIsThere ==
    ASSUME NEW T, NEW list \in Seq(T), NEW name, FirstParam(list, name) # {}
    PROVE  LET i == Min(FirstParam(list, name)) IN
           /\ i \in DOMAIN list /\ list[i].name = name
           /\ FirstValue(list, name) = list[i].value
<1>1. FirstParam(list, name) \in SUBSET Nat
  BY DEF FirstParam
<1>2. Min(FirstParam(list, name)) \in FirstParam(list, name)
  BY <1>1, MinIn
<1> QED BY <1>2 DEF FirstParam, FirstValue

LEMMA CookieForwarded ==
    ASSUME NEW d, d.request \in CookieRequests, d.at \in 0..MaxClock,
           AuthCookieDecision(d.request, d.at) = Forward
    PROVE  CookieCovers(d)
<1> DEFINE r == d.request
           cookie == getAuthorizationCookie(r.cookies)
           ip == getClientIp(r.forwarded_for)
           ips == {j \in DOMAIN r.forwarded_for :
                     r.forwarded_for[j].ip /\ ~r.forwarded_for[j].blank}
           i == Min(FirstParam(r.cookies, "Authorization"))
           k == Min(ips)
<1>1. /\ ip # Empty /\ cookie # Nullopt /\ cookie # Malformed
      /\ cookie.hash = computeHmacSignature(cookie.payload)
      /\ cookie.payload.ip = ip
      /\ isHashTimestampValid(cookie.payload.expires, d.at)
  BY DEF AuthCookieDecision, Forward
<1>2. /\ r.cookies \in Seq(Range(r.cookies))
      /\ r.forwarded_for \in Seq(Range(r.forwarded_for))
      /\ cookie.kind = "cookie"
      /\ \/ cookie.payload.expires = Malformed
         \/ \E n \in Times : cookie.payload.expires = Number(n)
  BY <1>1, CookieAssumption
<1>3. FirstParam(r.cookies, "Authorization") # {}
  BY <1>1 DEF getAuthorizationCookie, FirstValue
<1>4. /\ i \in DOMAIN r.cookies /\ r.cookies[i].name = "Authorization"
      /\ r.cookies[i].value = cookie
  BY <1>2, <1>3, FirstIsThere DEF getAuthorizationCookie
<1>5. ips # {} /\ ips \in SUBSET Nat
  BY <1>1, <1>2 DEF getClientIp
<1>6. k \in ips
  BY <1>5, MinIn
<1>7. ip = r.forwarded_for[k].text
  BY <1>5 DEF getClientIp
<1>8. \E n \in Times : cookie.payload.expires = Number(n) /\ d.at <= n
  <2>1. PICK n \in Times : cookie.payload.expires = Number(n)
    BY <1>1, <1>2 DEF isHashTimestampValid, Malformed
  <2>2. cookie.payload.expires.n = n
    BY <2>1 DEF Number
  <2> QED BY <1>1, <2>1, <2>2 DEF isHashTimestampValid
<1>9. /\ k \in DOMAIN r.forwarded_for /\ r.forwarded_for[k].ip
      /\ cookie.payload.ip = r.forwarded_for[k].text
  BY <1>1, <1>6, <1>7
<1> HIDE DEF cookie, ip, ips, i, k
<1> QED BY <1>1, <1>2, <1>4, <1>8, <1>9 DEF CookieCovers

\* The token's age is judged right, both ways.
LEMMA TokenJudged ==
    ASSUME NEW d, d.request \in TokenRequests, d.at \in 0..MaxClock
    PROVE  /\ TokenDecision(d.request, d.at) = Forward => TokenCovers(d)
           /\ TokenDecision(d.request, d.at) = "403 token expired" => ~Fresh(d)
<1> DEFINE r == d.request
           auth == r.authorization
           token == auth.token
           signed == computeHmacMd5(r.method \o r.path \o token.text)
           outcome == TokenDecision(r, d.at)
<1>1. outcome = Forward =>
        /\ auth # Nullopt /\ token # Malformed
        /\ token.timestamp.kind = "number"
        /\ ~TokenExpired(token.timestamp.n, d.at)
        /\ signed = token.hmac
  BY DEF TokenDecision, Forward
<1>2. outcome = "403 token expired" =>
        /\ auth # Nullopt /\ token # Malformed
        /\ token.timestamp.kind = "number"
        /\ TokenExpired(token.timestamp.n, d.at)
  BY DEF TokenDecision, Forward
<1>3. token.hmac = signed /\ Fresh(d) => TokenCovers(d)
  BY DEF TokenCovers
<1> HIDE DEF signed, outcome
<1>4. ASSUME auth # Nullopt, token # Malformed, token.timestamp.kind = "number"
      PROVE  ~TokenExpired(token.timestamp.n, d.at) <=> Fresh(d)
  <2>1. PICK n \in Times : token.timestamp = Number(n)
    BY <1>4, TokenAssumption DEF Malformed
  <2>2. token.timestamp.n = n
    BY <2>1 DEF Number
  <2>3. ASSUME NEW age PROVE token.timestamp = Number(d.at - age) <=> n = d.at - age
    BY <2>1, <2>2 DEF Number
  <2>4. ~TokenExpired(n, d.at) <=> \E age \in 0..TokenValiditySeconds : n = d.at - age
    BY TokenAge
  <2> QED BY <2>2, <2>3, <2>4 DEF Fresh
<1>5. outcome = Forward => TokenCovers(d)
  BY <1>1, <1>3, <1>4
<1>6. outcome = "403 token expired" => ~Fresh(d)
  BY <1>2, <1>4
<1> QED BY <1>5, <1>6 DEF outcome

\* A decision that was forwarded with the first parameter of the name taken off.
StrippedOf(d, name) ==
    /\ d.request \in UrlRequests
    /\ FirstParam(d.request.params, name) # {}
    /\ d.up = Stripped(d.request, name)

LEMMA FirstIsTaken ==
    ASSUME NEW d, NEW name, StrippedOf(d, name)
    PROVE  LET i == Min(FirstParam(d.request.params, name)) IN
           /\ Taken(d, i, name)
           /\ d.request.params[i].value = FirstValue(d.request.params, name)
<1> DEFINE r == d.request
           i == Min(FirstParam(r.params, name))
<1>1. r.params \in Seq(Range(r.params)) /\ DOMAIN r = {"path", "parses", "params"}
  BY UrlAssumption DEF StrippedOf
<1>2. /\ i \in DOMAIN r.params /\ r.params[i].name = name
      /\ FirstValue(r.params, name) = r.params[i].value
  BY <1>1, FirstIsThere DEF StrippedOf
<1>3. d.up.path = r.path /\ d.up.params = RemoveAt(r.params, i)
  BY <1>1 DEF StrippedOf, Stripped
<1> QED BY <1>2, <1>3 DEF Taken

LEMMA UrlForwarded ==
    ASSUME NEW d, d.request \in UrlRequests,
           AuthTokenDecision(d.request) = Forward,
           d.up = Stripped(d.request, "token")
    PROVE  UrlCovers(d)
<1>1. /\ FirstParam(d.request.params, "token") # {}
      /\ FirstValue(d.request.params, "token") = computeHmacSignature(Url(d.up))
  BY DEF AuthTokenDecision, Forward
<1>2. StrippedOf(d, "token")
  BY <1>1 DEF StrippedOf
<1> QED BY <1>1, <1>2, FirstIsTaken DEF UrlCovers, Taken

LEMMA JwtForwarded ==
    ASSUME NEW d, d.request \in UrlRequests, d.at \in 0..MaxClock,
           JwtDecision(d.request, d.at) = Forward,
           d.up = Stripped(d.request, "jwt")
    PROVE  d.request.path = Empty \/ JwtCovers(d)
<1> SUFFICES ASSUME d.request.path # Empty PROVE JwtCovers(d)
  OBVIOUS
<1> DEFINE jwt == FirstValue(d.request.params, "jwt")
<1>1. /\ jwt # Nullopt /\ jwt # Malformed /\ verifyJwt(jwt, d.at)
  BY DEF JwtDecision, Forward
<1>2. StrippedOf(d, "jwt")
  BY <1>1 DEF StrippedOf, FirstValue
<1>3. jwt.kind = "jwt"
  BY <1>1, UrlAssumption
<1> HIDE DEF jwt
<1> QED BY <1>1, <1>2, <1>3, FirstIsTaken DEF JwtCovers, Taken, verifyJwt, jwt

\* The inductive invariant of the plugins that refuse requests.
AccessInv == clock \in 0..MaxClock /\ ForwardedIsCovered

LEMMA AccessInvStep == AccessInv /\ [AccessNext]_accessVars => AccessInv'
<1> SUFFICES ASSUME AccessInv, [AccessNext]_accessVars PROVE AccessInv'
  OBVIOUS
<1> DEFINE Claimed(d) ==
             /\ d.outcome = Forward =>
                  /\ d.plugin = "hmac_authcookie" => CookieCovers(d)
                  /\ d.plugin = "hmac_token_validation" => TokenCovers(d)
                  /\ d.plugin = "hmac_authtoken" => UrlCovers(d)
                  /\ d.plugin = "jwt_auth" => d.request.path = Empty \/ JwtCovers(d)
             /\ d.outcome = "403 token expired" => ~Fresh(d)
<1>0. Claimed(decision') /\ clock' \in 0..MaxClock => AccessInv'
  BY DEF AccessInv, ForwardedIsCovered, CookieCovers, TokenCovers, UrlCovers,
         JwtCovers, Fresh, Taken
<1>1. ASSUME NEW plugin, NEW r, NEW outcome, NEW up, Decide(plugin, r, outcome, up)
      PROVE  /\ decision'.plugin = plugin /\ decision'.request = r
             /\ decision'.at = clock /\ decision'.outcome = outcome
             /\ outcome = Forward => decision'.up = up
             /\ clock' \in 0..MaxClock /\ clock \in 0..MaxClock
  BY <1>1 DEF Decide, AccessInv
<1>2. ASSUME NEW r \in CookieRequests, AuthCookie(r) PROVE AccessInv'
  <2> DEFINE outcome == AuthCookieDecision(r, clock)
  <2>1. Decide("hmac_authcookie", r, outcome, r)
    BY <1>2 DEF AuthCookie
  <2>2. outcome = Forward => CookieCovers(decision')
    BY <1>1, <2>1, CookieForwarded
  <2>3. outcome # "403 token expired"
    BY DEF AuthCookieDecision, Forward
  <2> HIDE DEF outcome
  <2>4. /\ decision'.plugin = "hmac_authcookie" /\ decision'.request = r
        /\ decision'.outcome = outcome /\ clock' \in 0..MaxClock
    BY <1>1, <2>1
  <2>5. Claimed(decision')
    BY <2>2, <2>3, <2>4 DEF Forward
  <2> QED BY <1>0, <2>4, <2>5
<1>3. ASSUME NEW r \in TokenRequests, TokenValidation(r) PROVE AccessInv'
  <2> DEFINE outcome == TokenDecision(r, clock)
  <2>1. Decide("hmac_token_validation", r, outcome, r)
    BY <1>3 DEF TokenValidation
  <2>2. /\ outcome = Forward => TokenCovers(decision')
        /\ outcome = "403 token expired" => ~Fresh(decision')
    BY <1>1, <2>1, TokenJudged
  <2> HIDE DEF outcome
  <2>4. /\ decision'.plugin = "hmac_token_validation" /\ decision'.request = r
        /\ decision'.outcome = outcome /\ clock' \in 0..MaxClock
    BY <1>1, <2>1
  <2>5. Claimed(decision')
    BY <2>2, <2>4 DEF Forward
  <2> QED BY <1>0, <2>4, <2>5
<1>4. ASSUME NEW r \in UrlRequests, AuthToken(r) PROVE AccessInv'
  <2> DEFINE outcome == AuthTokenDecision(r)
  <2>1. Decide("hmac_authtoken", r, outcome, Stripped(r, "token"))
    BY <1>4 DEF AuthToken
  <2>2. outcome = Forward => UrlCovers(decision')
    BY <1>1, <2>1, UrlForwarded
  <2>3. outcome # "403 token expired"
    BY DEF AuthTokenDecision, Forward
  <2> HIDE DEF outcome
  <2>4. /\ decision'.plugin = "hmac_authtoken" /\ decision'.request = r
        /\ decision'.outcome = outcome /\ clock' \in 0..MaxClock
    BY <1>1, <2>1
  <2>5. Claimed(decision')
    BY <2>2, <2>3, <2>4 DEF Forward
  <2> QED BY <1>0, <2>4, <2>5
<1>5. ASSUME NEW r \in UrlRequests, JwtAuth(r) PROVE AccessInv'
  <2> DEFINE outcome == JwtDecision(r, clock)
  <2>1. Decide("jwt_auth", r, outcome, Stripped(r, "jwt"))
    BY <1>5 DEF JwtAuth
  <2>2. outcome = Forward => r.path = Empty \/ JwtCovers(decision')
    BY <1>1, <2>1, JwtForwarded
  <2>3. outcome # "403 token expired"
    BY DEF JwtDecision, Forward
  <2> HIDE DEF outcome
  <2>4. /\ decision'.plugin = "jwt_auth" /\ decision'.request = r
        /\ decision'.outcome = outcome /\ clock' \in 0..MaxClock
    BY <1>1, <2>1
  <2>5. Claimed(decision')
    BY <2>2, <2>3, <2>4 DEF Forward
  <2> QED BY <1>0, <2>4, <2>5
<1>6. ASSUME NEW t \in UserTokens, Denylist(t) PROVE AccessInv'
  <2> DEFINE outcome == DenylistDecision(t)
  <2>1. Decide("config_denylist", t, outcome, t)
    BY <1>6 DEF Denylist
  <2>2. outcome # "403 token expired"
    BY DEF DenylistDecision, Forward
  <2> HIDE DEF outcome
  <2>4. /\ decision'.plugin = "config_denylist" /\ decision'.request = t
        /\ decision'.outcome = outcome /\ clock' \in 0..MaxClock
    BY <1>1, <2>1
  <2>5. Claimed(decision')
    BY <2>2, <2>4 DEF Forward
  <2> QED BY <1>0, <2>4, <2>5
<1>7. ASSUME decision' = decision, clock' \in 0..MaxClock PROVE AccessInv'
  BY <1>0, <1>7 DEF AccessInv, ForwardedIsCovered
<1>8. ASSUME NEW c \in DenylistConfigs, ConfigureDenylist(c) PROVE AccessInv'
  BY <1>7, <1>8 DEF ConfigureDenylist, AccessInv
<1>9. CASE Tick
  BY <1>7, <1>9, TimeAssumption DEF Tick, AccessInv
<1>10. CASE UNCHANGED accessVars
  BY <1>7, <1>10 DEF accessVars, AccessInv
<1> QED BY <1>2, <1>3, <1>4, <1>5, <1>6, <1>8, <1>9, <1>10 DEF AccessNext

\* A request goes upstream only with a credential that covers it, which is taken
\* off where the plugin says so, for integers of any width: the unsigned
\* subtraction in hmac_token_validation lets nothing in, and keeps nothing out,
\* by wrapping.
THEOREM ForwardedIsCoveredTheorem == AccessSpec => []ForwardedIsCovered
<1>1. AccessInit => AccessInv
  BY TimeAssumption DEF AccessInit, AccessInv, ForwardedIsCovered, NoDecision, Forward
<1>2. AccessInv => ForwardedIsCovered
  BY DEF AccessInv
<1> QED BY <1>1, <1>2, AccessInvStep, PTL DEF AccessSpec

-----------------------------------------------------------------------------
(* The denylist.                                                            *)

LEMMA FindFirst ==
    ASSUME NEW c \in Seq(STRING), NEW i \in 1..Len(c)
    PROVE  LET nxt == find_first_of(c, i) IN
           \/ nxt = 0 /\ \A k \in i..Len(c) : c[k] # Space
           \/ /\ nxt \in i..Len(c) /\ c[nxt] = Space
              /\ \A k \in i..(nxt - 1) : c[k] # Space
<1> DEFINE blanks == {k \in i..Len(c) : c[k] = Space}
<1>0. Len(c) \in Nat /\ \A k \in i..Len(c) : k \in Nat
  OBVIOUS
<1>1. CASE blanks = {}
  BY <1>1 DEF find_first_of
<1>2. CASE blanks # {}
  <2>1. blanks \in SUBSET Nat
    BY <1>0
  <2>2. Min(blanks) \in blanks /\ \A y \in blanks : Min(blanks) <= y
    BY <1>2, <2>1, MinIn
  <2>3. find_first_of(c, i) = Min(blanks)
    BY <1>2 DEF find_first_of
  <2> HIDE DEF blanks
  <2>4. /\ Min(blanks) \in i..Len(c) /\ c[Min(blanks)] = Space
        /\ \A k \in i..Len(c) : c[k] = Space => Min(blanks) <= k
    BY <2>2 DEF blanks
  <2>5. ASSUME NEW k \in i..(Min(blanks) - 1) PROVE c[k] # Space
    <3> DEFINE m == Min(blanks)
    <3> HIDE DEF m
    <3>1. m \in i..Len(c) /\ k \in i..(m - 1)
      BY <2>4 DEF m
    <3>2. k \in i..Len(c) /\ ~(m <= k)
      BY <1>0, <3>1
    <3> QED BY <2>4, <3>2 DEF m
  <2> QED BY <2>3, <2>4, <2>5
<1> QED BY <1>1, <1>2

\* What the loop of onConfigure gives from place i on.
TokensAt(c, f, i) ==
    IF i > Len(c) THEN {}
    ELSE IF find_first_of(c, i) = 0 THEN {SubSeq(c, i, Len(c))}
    ELSE (IF i # find_first_of(c, i)
          THEN {SubSeq(c, i, find_first_of(c, i) - 1)} ELSE {})
           \cup f[find_first_of(c, i) + 1]

\* The loop ends.
LEMMA TokenizeLoop ==
    ASSUME NEW c \in Seq(STRING)
    PROVE  \E f : /\ Tokenize(c) = f[1]
                  /\ \A i \in 1..(Len(c) + 1) : f[i] = TokensAt(c, f, i)
<1> DEFINE n == Len(c) + 1
           nxt(i) == find_first_of(c, i)
           D(f) == [i \in 1..n |-> TokensAt(c, f, i)]
           from == CHOOSE f : f = D(f)
           parts == {SubSeq(c, p[1], p[2]) : p \in (1..n) \X (0..n)}
           V == SUBSET parts
           stop == {i \in 1..n : i > Len(c) \/ nxt(i) = 0}
           base == [i \in 1..n |-> IF i > Len(c) THEN {} ELSE {SubSeq(c, i, Len(c))}]
           next == [i \in 1..n |-> nxt(i) + 1]
           word(i) == IF i # nxt(i) THEN {SubSeq(c, i, nxt(i) - 1)} ELSE {}
           step == [q \in (1..n) \X V |-> (IF q[1] \in stop THEN {} ELSE word(q[1]))
                                            \cup q[2]]
<1>0. n \in Nat /\ Len(c) \in Nat
  OBVIOUS
<1>1. ASSUME NEW a \in 1..n, NEW b \in 0..n PROVE SubSeq(c, a, b) \in parts
  <2>1. /\ <<a, b>> \in (1..n) \X (0..n)
        /\ SubSeq(c, <<a, b>>[1], <<a, b>>[2]) = SubSeq(c, a, b)
    OBVIOUS
  <2> HIDE DEF n
  <2> QED BY <2>1
<1>2. ASSUME NEW i \in 1..n, i \notin stop PROVE nxt(i) \in i..Len(c)
  <2>1. i \in 1..Len(c) /\ nxt(i) # 0
    BY <1>0, <1>2
  <2> QED BY <2>1, FindFirst
<1>3. \A i \in 1..n : i \notin stop => next[i] \in (i + 1)..n
  BY <1>2
<1>4. base \in [1..n -> V]
  <2>1. \A i \in 1..n : SubSeq(c, i, Len(c)) \in parts
    <3>1. Len(c) \in 0..n
      BY <1>0
    <3> HIDE DEF n, parts
    <3> QED BY <1>1, <3>1
  <2> HIDE DEF n, parts
  <2> QED BY <2>1
<1>5. \A i \in 1..n : i \notin stop => word(i) \in V
  <2> SUFFICES ASSUME NEW i \in 1..n, i \notin stop, i # nxt(i)
               PROVE  SubSeq(c, i, nxt(i) - 1) \in parts
    OBVIOUS
  <2>1. nxt(i) - 1 \in 0..n
    BY <1>2
  <2> QED BY <1>1, <2>1
<1>6. step \in [(1..n) \X V -> V]
  <2> HIDE DEF stop, word, n, parts
  <2> QED BY <1>5
<1>7. PICK f \in [1..n -> V] : \A i \in 1..n :
        f[i] = IF i \in stop THEN base[i] ELSE step[<<i, f[next[i]]>>]
  <2> HIDE DEF n, V, stop, base, next, step
  <2>1. IsLoop(n, V, stop, base, next, step)
    BY <1>0, <1>3, <1>4, <1>6 DEF IsLoop
  <2>2. LoopEnds(n, V, stop, base, next, step)
    BY <2>1, RecursionExists
  <2> QED BY <2>2 DEF LoopEnds, LoopValue
<1>8. ASSUME NEW i \in 1..n PROVE f[i] = TokensAt(c, f, i)
  <2>1. CASE i \in stop
    BY <1>7, <2>1 DEF TokensAt
  <2>2. CASE i \notin stop
    <3>1. next[i] = nxt(i) + 1 /\ f[next[i]] \in V
      BY <1>3, <2>2
    <3>2. step[<<i, f[next[i]]>>] = word(i) \cup f[next[i]]
      <4> HIDE DEF stop, word, V, next
      <4> QED BY <2>2, <3>1
    <3>3. f[i] = word(i) \cup f[nxt(i) + 1]
      BY <1>7, <2>2, <3>1, <3>2
    <3> QED BY <2>2, <3>3 DEF TokensAt
  <2> QED BY <2>1, <2>2
<1>9. f = D(f)
  <2> HIDE DEF n, V
  <2> QED BY <1>8
<1>10. from = D(from)
  <2> HIDE DEF D
  <2> QED BY <1>9
<1>11. Tokenize(c) = from[1]
  BY DEF Tokenize, TokensAt
<1>12. \A i \in 1..n : from[i] = TokensAt(c, from, i)
  <2> HIDE DEF from
  <2> QED BY <1>10
<1> HIDE DEF from
<1> QED BY <1>11, <1>12

WordsFrom(c, i) == {SubSeq(c, w[1], w[2]) : w \in {v \in Words(c) : v[1] >= i}}

\* From a place that follows white space the loop finds the words from there on.
LEMMA TokensAreWords ==
    ASSUME NEW c \in Seq(STRING)
    PROVE  Tokenize(c) = {SubSeq(c, w[1], w[2]) : w \in Words(c)}
<1> DEFINE n == Len(c) + 1
<1>0. n \in Nat /\ Len(c) \in Nat
  OBVIOUS
<1>1. PICK f : /\ Tokenize(c) = f[1]
               /\ \A i \in 1..n : f[i] = TokensAt(c, f, i)
  BY TokenizeLoop
<1> DEFINE T == {i \in 1..n : Blank(c, i - 1) => f[i] = WordsFrom(c, i)}
<1>2. \A i, a, b : <<a, b>> \in Words(c) <=>
        /\ a \in 1..Len(c) /\ b \in 1..Len(c) /\ a <= b
        /\ Blank(c, a - 1) /\ Blank(c, b + 1) /\ \A k \in a..b : ~Blank(c, k)
  BY DEF Words
<1>3. \A w \in Words(c) : w = <<w[1], w[2]>>
  BY DEF Words
<1>4. \A k \in 1..Len(c) : Blank(c, k) <=> c[k] = Space
  BY <1>0 DEF Blank
<1>5. Blank(c, 0) /\ Blank(c, n)
  BY DEF Blank
<1>6. \A j, x : x \in WordsFrom(c, j) <=>
        \E w \in Words(c) : w[1] >= j /\ x = SubSeq(c, w[1], w[2])
  BY DEF WordsFrom
<1>7. ASSUME NEW i \in 1..n, \A j \in (i + 1)..n : j \in T, Blank(c, i - 1)
      PROVE  f[i] = WordsFrom(c, i)
  <2> DEFINE m == find_first_of(c, i)
  <2>1. CASE i > Len(c)
    <3>1. f[i] = {}
      BY <1>1, <2>1 DEF TokensAt
    <3>2. \A w \in Words(c) : ~(w[1] >= i)
      BY <2>1, <1>0 DEF Words
    <3> QED BY <3>1, <3>2 DEF WordsFrom
  <2>2. CASE i <= Len(c) /\ m = 0
    <3>0. f[i] = TokensAt(c, f, i) /\ ~(i > Len(c))
      BY <1>0, <1>1, <2>2
    <3>1. f[i] = {SubSeq(c, i, Len(c))}
      BY <2>2, <3>0 DEF TokensAt
    <3>2. \A k \in i..Len(c) : ~Blank(c, k)
      BY <1>4, <2>2, FindFirst
    <3>3. <<i, Len(c)>> \in Words(c)
      BY <1>0, <1>2, <1>5, <1>7, <2>2, <3>2
    <3>4. ASSUME NEW w \in Words(c), w[1] >= i PROVE w[1] = i /\ w[2] = Len(c)
      <4>1. /\ w[1] \in 1..Len(c) /\ w[2] \in 1..Len(c) /\ w[1] <= w[2]
            /\ Blank(c, w[1] - 1) /\ Blank(c, w[2] + 1)
        BY DEF Words
      <4>2. ~(w[1] - 1 \in i..Len(c)) /\ ~(w[2] + 1 \in i..Len(c))
        BY <3>2, <4>1
      <4> QED BY <1>0, <3>4, <4>1, <4>2
    <3>5. ASSUME NEW x PROVE x \in WordsFrom(c, i) <=> x = SubSeq(c, i, Len(c))
      <4>1. <<i, Len(c)>>[1] = i /\ <<i, Len(c)>>[2] = Len(c) /\ i >= i
        OBVIOUS
      <4>2. x = SubSeq(c, i, Len(c)) => x \in WordsFrom(c, i)
        BY <1>6, <3>3, <4>1
      <4> QED BY <1>6, <3>4, <4>2
    <3> QED BY <3>1, <3>5
  <2>3. CASE i <= Len(c) /\ m # 0
    <3>1. /\ m \in i..Len(c) /\ c[m] = Space
          /\ \A k \in i..(m - 1) : c[k] # Space
      BY <2>3, FindFirst
    <3> DEFINE word == IF i # m THEN {SubSeq(c, i, m - 1)} ELSE {}
    <3>0. f[i] = TokensAt(c, f, i) /\ ~(i > Len(c))
      BY <1>0, <1>1, <2>3
    <3>2. f[i] = word \cup f[m + 1]
      BY <2>3, <3>0 DEF TokensAt
    <3>3. /\ Blank(c, m) /\ \A k \in i..(m - 1) : ~Blank(c, k)
          /\ m + 1 \in (i + 1)..n /\ (m + 1) - 1 = m
      BY <1>0, <1>4, <3>1
    <3>4. f[m + 1] = WordsFrom(c, m + 1)
      BY <1>7, <3>3
    <3> HIDE DEF m
    <3>5. i # m => <<i, m - 1>> \in Words(c)
      <4> SUFFICES ASSUME i # m PROVE <<i, m - 1>> \in Words(c)
        OBVIOUS
      <4>1. m - 1 \in 1..Len(c) /\ i <= m - 1 /\ (m - 1) + 1 = m
        BY <3>1
      <4> QED BY <1>2, <1>7, <2>3, <3>3, <4>1, <1>0
    <3>6. ASSUME NEW w \in Words(c), w[1] >= i, ~(w[1] >= m + 1)
          PROVE  i # m /\ w[1] = i /\ w[2] = m - 1
      <4>1. /\ w[1] \in 1..Len(c) /\ w[2] \in 1..Len(c) /\ w[1] <= w[2]
            /\ Blank(c, w[1] - 1) /\ Blank(c, w[2] + 1)
            /\ \A k \in w[1]..w[2] : ~Blank(c, k)
        BY DEF Words
      <4>2. ~(m \in w[1]..w[2])
        BY <3>3, <4>1
      <4>3. w[1] < m /\ w[2] < m
        BY <3>1, <3>6, <4>1, <4>2
      <4>4. ~(w[1] - 1 \in i..(m - 1)) /\ ~(w[2] + 1 \in i..(m - 1))
        BY <3>3, <4>1
      <4>5. w[1] \in i..(m - 1) /\ w[2] + 1 \in i..m
        BY <3>1, <3>6, <4>1, <4>3
      <4>6. w[1] = i /\ w[2] + 1 = m
        BY <3>1, <4>1, <4>4, <4>5
      <4> QED BY <3>1, <4>1, <4>3, <4>6
    <3>7. \A w \in Words(c) : w[1] >= m + 1 => w[1] >= i
      BY <3>1 DEF Words
    <3>8. ASSUME NEW x
          PROVE  x \in WordsFrom(c, i) <=> x \in word \cup WordsFrom(c, m + 1)
      <4>1. x \in WordsFrom(c, i) => x \in word \cup WordsFrom(c, m + 1)
        BY <1>6, <3>6
      <4>2. x \in WordsFrom(c, m + 1) => x \in WordsFrom(c, i)
        BY <1>6, <3>7
      <4>3. ASSUME x \in word PROVE x \in WordsFrom(c, i)
        <5>1. i # m /\ x = SubSeq(c, i, m - 1)
          BY <4>3
        <5>2. <<i, m - 1>>[1] = i /\ <<i, m - 1>>[2] = m - 1 /\ i >= i
          OBVIOUS
        <5> QED BY <1>6, <3>5, <5>1, <5>2
      <4> QED BY <4>1, <4>2, <4>3
    <3> HIDE DEF word
    <3> QED BY <3>2, <3>4, <3>8
  <2> QED BY <1>0, <2>1, <2>2, <2>3
<1>8. 1 \in T
  <2>1. \A i \in 1..n : (\A j \in (i + 1)..n : j \in T) => i \in T
    BY <1>7
  <2> HIDE DEF T, n
  <2>2. \A i \in 1..n : i \in T
    BY <1>0, <2>1, DownwardInduction
  <2> QED BY <1>0, <2>2 DEF n
<1>9. WordsFrom(c, 1) = {SubSeq(c, w[1], w[2]) : w \in Words(c)}
  <2>1. \A w \in Words(c) : w[1] >= 1
    BY DEF Words
  <2> QED BY <2>1 DEF WordsFrom
<1> QED BY <1>1, <1>5, <1>8, <1>9

\* The tokens are those of a configuration the plugin was given.
DenylistInv ==
    denylist.set_up =>
      /\ denylist.config \in DenylistConfigs
      /\ denylist.tokens = Tokenize(denylist.config)

\* The tokens that are refused are the words of the configuration, of any length
\* and with any white space (the loop of onConfigure in config_denylist).
THEOREM DenylistExactTheorem == AccessSpec => []DenylistExact
<1>1. AccessInit => DenylistInv
  BY DEF AccessInit, DenylistInv, NotConfigured
<1>2. DenylistInv /\ [AccessNext]_accessVars => DenylistInv'
  <2> SUFFICES ASSUME DenylistInv, [AccessNext]_accessVars PROVE DenylistInv'
    OBVIOUS
  <2>1. ASSUME NEW c \in DenylistConfigs, ConfigureDenylist(c) PROVE DenylistInv'
    BY <2>1 DEF ConfigureDenylist, DenylistInv
  <2>2. CASE UNCHANGED denylist
    BY <2>2 DEF DenylistInv
  <2> QED BY <2>1, <2>2 DEF AccessNext, accessVars, AuthCookie, TokenValidation,
                            AuthToken, JwtAuth, Denylist, Decide, Tick
<1>3. DenylistInv => DenylistExact
  BY TokensAreWords, DenylistAssumption DEF DenylistInv, DenylistExact
<1> QED BY <1>1, <1>2, <1>3, PTL DEF AccessSpec

-----------------------------------------------------------------------------
(* Cookies.                                                                 *)

ExchangeFields == {"pc", "sent", "large", "up", "session_id", "origin", "down"}
IsExchange(x) ==
    DOMAIN x = ExchangeFields /\ x = [f \in ExchangeFields |-> x[f]]

IsSequence(h) ==
    /\ Len(h) \in Nat /\ DOMAIN h = 1..Len(h)
    /\ h = [i \in 1..Len(h) |-> h[i]]

Config == [operation : STRING, name : STRING, value : STRING, max_age : Int]

\* What set_cookie makes of a response.
SessionAnswer(x) ==
    /\ x.origin \in OriginReplies
    /\ IF x.session_id # NoSession THEN x.down = x.origin
       ELSE \E id \in SessionIds :
              x.down = Append(x.origin, Directive(kCookieName, id, "none"))

ExchangeOK(x) ==
    /\ IsExchange(x) /\ x.pc \in {"idle", "upstream", "downstream"}
    /\ x.pc # "idle" => cookiePlugin # "none" /\ IsSequence(x.sent)
    /\ cookiePlugin = "set_cookie" /\ x.pc # "idle" =>
         x.session_id = getSessionIdFromCookie(x.sent, x.large)
    /\ cookiePlugin = "set_cookie" /\ x.pc = "downstream" => SessionAnswer(x)
    /\ cookiePlugin = "set_reset_cookie" /\ x.pc = "upstream" =>
         x.up = processCookieDeletions(x.sent, cookieConfigs)
    /\ cookiePlugin = "set_reset_cookie" /\ x.pc = "downstream" =>
         /\ x.origin \in OriginReplies
         /\ x.down = processCookieOperations(x.origin, cookieConfigs)

\* The inductive invariant of the cookie plugins.
CookieInv ==
    /\ cookieConfigs \in Seq(Config)
    /\ DOMAIN exchange = Streams
    /\ \A s \in Streams : ExchangeOK(exchange[s])

\* The client's header is a sequence.
LEMMA JarIsSequence == IsSequence(JarPairs)
<1> DEFINE S == {n \in CookieNames : jar[n] # Absent}
           held == SetToSeq(S)
<1>1. IsFiniteSet(S)
  BY CookieNamesAssumption, FS_Subset
<1>2. Cardinality(S) \in Nat /\ \E f : IsInjective(f) /\ f \in [1..Cardinality(S) -> S]
  <2>1. PICK m \in Nat : ExistsBijection(1..m, S)
    BY <1>1, FS_NatBijection
  <2>2. Cardinality(S) = m
    BY <1>1, <2>1, FS_CountingElements
  <2>3. PICK f : f \in Bijection(1..m, S)
    BY <2>1 DEF ExistsBijection
  <2>4. f \in [1..m -> S] /\ \A a, b \in 1..m : f[a] = f[b] => a = b
    BY <2>3 DEF Bijection, Injection, IsInjective
  <2> QED BY <2>2, <2>4 DEF IsInjective
<1> HIDE DEF S
<1>3. held \in [1..Cardinality(S) -> S]
  BY <1>2 DEF SetToSeq
<1>4. JarPairs = [i \in DOMAIN held |-> Pair(held[i], jar[held[i]])]
  BY DEF JarPairs, S
<1> HIDE DEF held
<1>5. DOMAIN JarPairs = 1..Cardinality(S)
  BY <1>3, <1>4
<1>6. JarPairs = [i \in 1..Cardinality(S) |-> JarPairs[i]]
  BY <1>4, <1>5
<1>7. Len(JarPairs) = Cardinality(S)
  BY <1>2, <1>6
<1>8. JarPairs = [i \in 1..Len(JarPairs) |-> JarPairs[i]]
  BY <1>6, <1>7
<1> QED BY <1>2, <1>5, <1>7, <1>8 DEF IsSequence

LEMMA HeaderIsSequence ==
    ASSUME NEW extra \in Extras
    PROVE  IsSequence(extra \o JarPairs)
<1> DEFINE J == JarPairs
           A == [name : STRING, value : STRING, eq : BOOLEAN, glued : BOOLEAN]
           B == {J[i] : i \in DOMAIN J}
<1>1. IsSequence(J)
  BY JarIsSequence
<1>2. J = [i \in DOMAIN J |-> J[i]]
  BY DEF JarPairs
<1>3. extra \in Seq(A)
  BY ExtrasAssumption
<1> HIDE DEF J, A
<1>4. J \in [1..Len(J) -> B]
  BY <1>1, <1>2 DEF IsSequence
<1>5. J \in Seq(A \cup B) /\ extra \in Seq(A \cup B)
  BY <1>1, <1>3, <1>4 DEF IsSequence
<1> HIDE DEF B
<1>6. extra \o J \in Seq(A \cup B)
  BY <1>5, ConcatLength
<1>7. ASSUME NEW h \in Seq(A \cup B) PROVE IsSequence(h)
  BY DEF IsSequence
<1> QED BY <1>6, <1>7 DEF J

\* One exchange changes.
ChangesTo(s, x) ==
    /\ DOMAIN exchange' = DOMAIN exchange
    /\ \A t \in Streams : exchange'[t] = IF t = s THEN x ELSE exchange[t]

LEMMA OneExchangeChanges ==
    ASSUME CookieInv, NEW s \in Streams, NEW x,
           ChangesTo(s, x), cookiePlugin' = cookiePlugin,
           cookieConfigs' = cookieConfigs, ExchangeOK(x)
    PROVE  CookieInv'
<1>1. DOMAIN exchange' = Streams
  BY DEF CookieInv, ChangesTo
<1>2. ASSUME NEW t \in Streams PROVE ExchangeOK(exchange'[t])
  BY DEF CookieInv, ChangesTo
<1>3. ASSUME NEW t \in Streams PROVE ExchangeOK(exchange[t])'
  BY <1>2 DEF ExchangeOK
<1> QED BY <1>1, <1>3 DEF CookieInv

\* The header of a request is read.
LEMMA CookieRequestStep ==
    ASSUME CookieInv, NEW s \in Streams, NEW extra \in Extras, NEW large \in BOOLEAN,
           CookieRequest(s, extra, large)
    PROVE  CookieInv'
<1> DEFINE x == exchange'[s]
           header == extra \o JarPairs
<1>1. /\ ChangesTo(s, x) /\ cookiePlugin' = cookiePlugin /\ cookiePlugin # "none"
      /\ cookieConfigs' = cookieConfigs
  BY DEF CookieRequest, Loaded, CookieInv, ChangesTo
<1>2. x = [pc |-> "upstream", sent |-> header, large |-> large,
           origin |-> <<>>, down |-> <<>>,
           up |-> IF cookiePlugin = "set_reset_cookie"
                  THEN processCookieDeletions(header, cookieConfigs) ELSE header,
           session_id |-> IF cookiePlugin = "set_cookie"
                          THEN getSessionIdFromCookie(header, large) ELSE NoSession]
  BY DEF CookieRequest, CookieInv
<1>3. IsSequence(header)
  BY HeaderIsSequence
<1> HIDE DEF x, header
<1>4. IsExchange(x)
  BY <1>2 DEF IsExchange, ExchangeFields
<1>5. /\ x.pc = "upstream" /\ x.sent = header /\ x.large = large
      /\ cookiePlugin = "set_cookie" =>
           x.session_id = getSessionIdFromCookie(header, large)
      /\ cookiePlugin = "set_reset_cookie" =>
           x.up = processCookieDeletions(header, cookieConfigs)
  BY <1>2
<1>6. ExchangeOK(x)
  BY <1>1, <1>3, <1>4, <1>5 DEF ExchangeOK
<1> QED BY <1>1, <1>6, OneExchangeChanges

\* The origin answers.
LEMMA CookieResponseStep ==
    ASSUME CookieInv, NEW s \in Streams, NEW list \in OriginReplies,
           NEW id \in SessionIds, CookieResponse(s, list, id)
    PROVE  CookieInv'
<1> DEFINE w == exchange[s]
           x == exchange'[s]
<1>1. /\ ChangesTo(s, x) /\ cookiePlugin' = cookiePlugin /\ w.pc = "upstream"
      /\ cookieConfigs' = cookieConfigs
  <2>1. PICK down : exchange' = [exchange EXCEPT ![s].pc = "downstream",
                                   ![s].origin = list, ![s].down = down]
    BY DEF CookieResponse
  <2>2. ChangesTo(s, x)
    BY <2>1 DEF ChangesTo, CookieInv
  <2> QED BY <2>2 DEF CookieResponse
<1>2. PICK down :
        /\ x = [w EXCEPT !.pc = "downstream", !.origin = list, !.down = down]
        /\ cookiePlugin = "set_cookie" => down = SetCookieResponse(s, list, id)
        /\ cookiePlugin = "set_reset_cookie" =>
             down = processCookieOperations(list, cookieConfigs)
  BY DEF CookieResponse, CookieInv
<1>3. ExchangeOK(w)
  BY DEF CookieInv
<1>4. cookiePlugin = "set_cookie" =>
        down = IF w.session_id # NoSession THEN list
               ELSE Append(list, Directive(kCookieName, id, "none"))
  BY <1>2 DEF SetCookieResponse
<1> HIDE DEF w, x
<1>5. /\ IsExchange(x) /\ x.pc = "downstream" /\ x.origin = list /\ x.down = down
      /\ x.sent = w.sent /\ x.large = w.large /\ x.session_id = w.session_id
  BY <1>2, <1>3 DEF ExchangeOK, IsExchange, ExchangeFields
<1>6. cookiePlugin = "set_cookie" => SessionAnswer(x)
  BY <1>4, <1>5 DEF SessionAnswer
<1>7. ExchangeOK(x)
  BY <1>1, <1>2, <1>3, <1>5, <1>6 DEF ExchangeOK
<1> QED BY <1>1, <1>7, OneExchangeChanges

LEMMA CookieInvStep ==
    ASSUME CookieInv, [CookieNext]_cookieVars
    PROVE  CookieInv'
<1>0. ExchangeOK(IdleExchange)
  <2>1. IsExchange(IdleExchange)
    BY DEF IdleExchange, IsExchange, ExchangeFields
  <2> QED BY <2>1 DEF ExchangeOK, IdleExchange
<1>1. ASSUME NEW p \in {"set_cookie", "set_reset_cookie", "remove_cookie"},
             NEW c \in CookieConfigs, LoadCookiePlugin(p, c)
      PROVE  CookieInv'
  <2>1. cookiePlugin = "none" /\ exchange' = exchange
    BY <1>1 DEF LoadCookiePlugin
  <2>2. ASSUME NEW s \in Streams PROVE ExchangeOK(exchange[s])'
    <3>1. ExchangeOK(exchange[s])
      BY DEF CookieInv
    <3>2. exchange[s].pc = "idle"
      BY <2>1, <3>1 DEF ExchangeOK
    <3> QED BY <2>1, <3>1, <3>2 DEF ExchangeOK
  <2>3. (cookieConfigs \in Seq(Config))'
    <3>1. c \in Seq(Config) /\ <<>> \in Seq(Config)
      BY CookieConfigsAssumption DEF Config
    <3> HIDE DEF Config
    <3>2. ValidConfigs(c) \in Seq(Config)
      BY <3>1, FilterType DEF ValidConfigs
    <3> QED BY <1>1, <3>1, <3>2 DEF LoadCookiePlugin
  <2> QED BY <2>1, <2>2, <2>3 DEF CookieInv
<1>2. ASSUME NEW s \in Streams, ClientReceives(s) PROVE CookieInv'
  <2>1. /\ ChangesTo(s, IdleExchange) /\ cookiePlugin' = cookiePlugin
        /\ cookieConfigs' = cookieConfigs
    BY <1>2 DEF ClientReceives, ChangesTo, CookieInv
  <2> QED BY <1>0, <2>1, OneExchangeChanges
<1>3. CASE UNCHANGED cookieVars
  BY <1>3 DEF cookieVars, CookieInv, ExchangeOK
<1> QED BY <1>1, <1>2, <1>3, CookieRequestStep, CookieResponseStep DEF CookieNext

\* What a stream keeps of its exchange: the session id that its request had, the
\* request as the deletions leave it, the response as the operations leave it.
THEOREM CookieInvariant == CookieSpec => []CookieInv
<1>1. CookieInit => CookieInv
  <2>1. IsExchange(IdleExchange)
    BY DEF IdleExchange, IsExchange, ExchangeFields
  <2>2. CookieInit => cookieConfigs \in Seq(Config)
    BY DEF CookieInit
  <2> QED BY <2>1, <2>2 DEF CookieInit, CookieInv, ExchangeOK, IdleExchange
<1> QED BY <1>1, CookieInvStep, PTL DEF CookieSpec

\* A client that sent one well formed session cookie had it read.
LEMMA SessionRead ==
    ASSUME NEW x, IsSequence(x.sent), SentOneSession(x)
    PROVE  getSessionIdFromCookie(x.sent, x.large) # NoSession
<1> DEFINE h == x.sent
           mine == {i \in DOMAIN h :
                      ~h[i].glued /\ h[i].eq /\ h[i].name = kCookieName}
<1>1. PICK i \in DOMAIN h :
        /\ SessionPairs(h) = {i} /\ h[i].eq /\ h[i].value \in SessionIds
        /\ \A j \in {i, i + 1} \cap DOMAIN h : ~h[j].glued
  BY DEF SentOneSession
<1>2. mine = {i}
  BY <1>1 DEF SessionPairs
<1>3. i \in Nat /\ Len(h) \in Nat /\ (i < Len(h) => i + 1 \in DOMAIN h)
  BY <1>1 DEF IsSequence
<1>4. Min(mine) = i
  BY <1>2, <1>3, MinIn
<1>5. i < Len(h) => ~h[i + 1].glued
  BY <1>1, <1>3
<1>6. isValidSessionId(h[i].value) /\ h[i].value # NoSession
  BY <1>1, SessionIdsAssumption
<1>7. getSessionIdFromCookie(h, x.large) =
        IF /\ ~x.large /\ mine # {}
           /\ Min(mine) < Len(h) => ~h[Min(mine) + 1].glued
           /\ isValidSessionId(h[Min(mine)].value)
        THEN h[Min(mine)].value ELSE NoSession
  BY DEF getSessionIdFromCookie
<1>8. ~x.large
  BY DEF SentOneSession
<1> HIDE DEF mine
<1> QED BY <1>2, <1>4, <1>5, <1>6, <1>7, <1>8

\* An exchange that a client begins with a session leaves it its session, and one
\* that it begins without gives it one, however many exchanges overlap and in
\* whatever order they come back (session_id_ of set_cookie).
THEOREM SessionKeptTheorem == CookieSpec => SessionKept
<1>2. ASSUME CookieInv, CookieNext, NEW s \in Streams, Delivered(s),
             cookiePlugin = "set_cookie"
      PROVE  /\ SentOneSession(exchange[s]) => jar'[kCookieName] = jar[kCookieName]
             /\ SessionPairs(exchange[s].sent) = {} => jar'[kCookieName] \in SessionIds
  <2> DEFINE x == exchange[s]
             list == x.origin
             mine(l) == {i \in DOMAIN l : l[i].name = kCookieName}
  <2>1. jar' = Obey(jar, x.down)
    BY <1>2 DEF CookieNext, Delivered, CookieInv, LoadCookiePlugin, CookieRequest,
                CookieResponse, ClientReceives
  <2>2. ExchangeOK(x) /\ x.pc = "downstream"
    BY <1>2 DEF CookieInv, Delivered
  <2>3. /\ IsSequence(x.sent) /\ SessionAnswer(x)
        /\ x.session_id = getSessionIdFromCookie(x.sent, x.large)
    BY <1>2, <2>2 DEF ExchangeOK
  <2>4. list \in OriginReplies /\ mine(list) = {}
    BY <2>3, OriginRepliesAssumption DEF SessionAnswer
  <2>5. jar'[kCookieName] =
          IF mine(x.down) = {} THEN jar[kCookieName]
          ELSE IF x.down[Max(mine(x.down))].age = "zero" THEN Absent
               ELSE x.down[Max(mine(x.down))].value
    BY <2>1, CookieNamesAssumption DEF Obey
  <2> HIDE DEF x, list
  <2>6. ASSUME SentOneSession(x) PROVE jar'[kCookieName] = jar[kCookieName]
    <3>1. x.session_id # NoSession
      BY <2>3, <2>6, SessionRead
    <3>2. x.down = list
      BY <2>3, <3>1 DEF SessionAnswer, list
    <3> QED BY <2>4, <2>5, <3>2
  <2>7. ASSUME SessionPairs(x.sent) = {} PROVE jar'[kCookieName] \in SessionIds
    <3>1. x.session_id = NoSession
      BY <2>3, <2>7 DEF SessionPairs, getSessionIdFromCookie
    <3>2. PICK id \in SessionIds :
            x.down = Append(list, Directive(kCookieName, id, "none"))
      BY <2>3, <3>1 DEF SessionAnswer, list
    <3>3. list \in Seq([name : STRING, value : STRING, age : STRING])
      BY <2>4, OriginRepliesAssumption
    <3> DEFINE n == Len(list) + 1
    <3>4. /\ DOMAIN x.down = 1..n /\ n \in Nat \ {0} /\ DOMAIN list = 1..(n - 1)
          /\ x.down[n] = Directive(kCookieName, id, "none")
          /\ \A i \in 1..(n - 1) : x.down[i] = list[i]
      BY <3>2, <3>3
    <3> HIDE DEF n
    <3>5. mine(x.down) = {n}
      <4>1. ASSUME NEW i \in 1..n, i # n PROVE x.down[i].name # kCookieName
        <5>1. i \in 1..(n - 1)
          BY <3>4, <4>1
        <5> QED BY <2>4, <3>4, <5>1
      <4>2. x.down[n].name = kCookieName /\ n \in 1..n
        BY <3>4 DEF Directive
      <4> QED BY <3>4, <4>1, <4>2
    <3>6. Max(mine(x.down)) = n
      BY <3>4, <3>5, MaxIn
    <3>7. x.down[n].age = "none" /\ x.down[n].value = id
      BY <3>4 DEF Directive
    <3> QED BY <2>5, <3>5, <3>6, <3>7
  <2> QED BY <2>6, <2>7 DEF x
<1>3. CookieInv /\ [CookieNext]_cookieVars =>
        \/ UNCHANGED cookieVars
        \/ \A s \in Streams :
             Delivered(s) /\ cookiePlugin = "set_cookie" =>
               /\ SentOneSession(exchange[s]) => jar'[kCookieName] = jar[kCookieName]
               /\ SessionPairs(exchange[s].sent) = {} =>
                    jar'[kCookieName] \in SessionIds
  BY <1>2
<1> QED BY <1>3, CookieInvariant, PTL DEF CookieSpec, SessionKept
LEMMA SequenceOfRange ==
    ASSUME NEW h, IsSequence(h)
    PROVE  h \in Seq(Range(h))
BY DEF IsSequence, Range

\* The pairs of a header that are well formed and that no configuration deletes.
Left(T, configs) == {p \in T : p.eq /\ p.name \notin DeletedNames(configs)}
Formed(T) == {p \in T : p.eq}

\* What parseRequestCookies and then processCookieDeletions keep.
LEMMA KeptCookies ==
    ASSUME NEW T, NEW h \in Seq(T), NEW configs
    PROVE  LET cookies == parseRequestCookies(h)
               left == Filter(cookies, {p \in Range(cookies) :
                                          p.name \notin DeletedNames(configs)})
           IN  /\ cookies = Filter(h, Formed(T)) /\ cookies \in Seq(T)
               /\ left = Filter(h, Left(T, configs)) /\ left \in Seq(Left(T, configs))
               /\ left \in Seq(T)
<1> DEFINE F == Formed(T)
           L == Left(T, configs)
           D == DeletedNames(configs)
           cookies == parseRequestCookies(h)
           N == {p \in Range(cookies) : p.name \notin D}
           left == Filter(cookies, N)
<1>1. h \in Seq(Range(h)) /\ Range(h) \subseteq T
  BY RangeType
<1>2. cookies = Filter(h, F)
  <2>1. \A x \in Range(h) : x \in {p \in Range(h) : p.eq} <=> x \in F
    BY <1>1 DEF Formed
  <2> QED BY <1>1, <2>1, FilterSame DEF parseRequestCookies
<1>3. cookies \in Seq(T) /\ cookies \in Seq(F)
  BY <1>2, FilterType
<1>4. cookies \in Seq(Range(cookies)) /\ Range(cookies) \subseteq F
  <2> HIDE DEF cookies, F
  <2> QED BY <1>3, RangeType
<1>5. \A x \in Range(cookies) : x \in N <=> x \in L
  BY <1>4 DEF Left, Formed
<1> HIDE DEF cookies, N
<1>6. left = Filter(cookies, L)
  BY <1>4, <1>5, FilterSame
<1>7. left = Filter(h, F \cap L)
  <2> HIDE DEF F, L
  <2>1. Filter(Filter(h, F), L) = Filter(h, F \cap L)
    BY FilterTwice
  <2> QED BY <1>2, <1>6, <2>1
<1>8. F \cap L = L
  BY DEF Formed, Left
<1>9. left = Filter(h, L)
  BY <1>7, <1>8
<1>10. left \in Seq(L) /\ left \in Seq(T)
  <2> HIDE DEF L, left
  <2> QED BY <1>9, FilterType
<1> QED BY <1>2, <1>3, <1>9, <1>10 DEF cookies, N

\* The pairs as they are written: name=value, apart.
Rewritten(list) == [i \in DOMAIN list |-> Pair(list[i].name, list[i].value)]

LEMMA RewrittenType ==
    ASSUME NEW T, NEW configs, NEW left \in Seq(Left(T, configs))
    PROVE  LET w == Rewritten(left)
               R == {Pair(p.name, p.value) : p \in Left(T, configs)}
           IN  w \in Seq(R) /\ R \subseteq Left(R, configs) /\ Rewritten(w) = w
<1> DEFINE w == Rewritten(left)
           L == Left(T, configs)
           R == {Pair(p.name, p.value) : p \in L}
<1>1. /\ DOMAIN left = 1..Len(left) /\ Len(left) \in Nat
      /\ \A i \in 1..Len(left) : left[i] \in L
  <2>1. left \in Seq(L)
    OBVIOUS
  <2> HIDE DEF L
  <2> QED BY <2>1
<1>2. w = [i \in 1..Len(left) |-> Pair(left[i].name, left[i].value)]
  BY <1>1 DEF Rewritten
<1>3. \A i \in 1..Len(left) : Pair(left[i].name, left[i].value) \in R
  BY <1>1
<1>4. R \subseteq Left(R, configs)
  BY DEF Left, Pair
<1> HIDE DEF R, w
<1>5. w \in Seq(R)
  BY <1>1, <1>2, <1>3
<1>6. Rewritten(w) = w
  BY <1>1, <1>2 DEF Rewritten, Pair
<1> QED BY <1>4, <1>5, <1>6 DEF R, w

\* However often a client sends a cookie that the configuration deletes it does
\* not reach the origin, and the other well formed cookies do, in their order
\* (processCookieDeletions and rebuildCookieHeader of set_reset_cookie).
THEOREM DeletedStaysOutTheorem == CookieSpec => []DeletedStaysOut
<1>1. CookieInv => DeletedStaysOut
  <2> SUFFICES ASSUME CookieInv, NEW s \in Streams,
                      cookiePlugin = "set_reset_cookie", exchange[s].pc = "upstream"
               PROVE  LET up == exchange[s].up IN
                      /\ \A i \in DOMAIN up : up[i].eq =>
                           up[i].name \notin DeletedNames(cookieConfigs)
                      /\ Others(up) = Others(exchange[s].sent)
    BY DEF DeletedStaysOut
  <2> DEFINE h == exchange[s].sent
             up == exchange[s].up
             T == Range(h)
             L == Left(T, cookieConfigs)
             cookies == parseRequestCookies(h)
             left == Filter(h, L)
  <2>1. h \in Seq(T) /\ up = processCookieDeletions(h, cookieConfigs)
    BY SequenceOfRange DEF CookieInv, ExchangeOK
  <2> HIDE DEF h, up, T
  <2>2. ASSUME NEW U, NEW g \in Seq(U)
        PROVE  Others(g) = Rewritten(Filter(g, Left(U, cookieConfigs)))
    BY KeptCookies DEF Others, Rewritten
  <2>3. /\ cookies = Filter(h, Formed(T)) /\ left \in Seq(L)
        /\ up = IF left = cookies THEN h ELSE Rewritten(left)
    <3>1. PICK r : r = Filter(cookies, {p \in Range(cookies) :
                                  p.name \notin DeletedNames(cookieConfigs)})
      OBVIOUS
    <3>2. up = IF r = cookies THEN h ELSE Rewritten(r)
      BY <2>1, <3>1 DEF processCookieDeletions, Rewritten
    <3>3. r = left /\ left \in Seq(L) /\ cookies = Filter(h, Formed(T))
      BY <2>1, <3>1, KeptCookies
    <3> QED BY <3>2, <3>3
  <2>4. ASSUME left = cookies
        PROVE  /\ \A i \in DOMAIN up : up[i].eq =>
                    up[i].name \notin DeletedNames(cookieConfigs)
               /\ Others(up) = Others(h)
    <3>1. up = h
      BY <2>3, <2>4
    <3>2. ASSUME NEW i \in DOMAIN h, h[i].eq
          PROVE  h[i].name \notin DeletedNames(cookieConfigs)
      <4>1. h[i] \in Range(h) \cap Formed(T)
        BY <2>1, <3>2 DEF Formed, Range
      <4>2. h[i] \in Range(cookies)
        BY <2>1, <2>3, <4>1, FilterRange
      <4>3. h[i] \in Range(h) \cap L
        <5> HIDE DEF L, cookies
        <5> QED BY <2>1, <2>4, <4>2, FilterRange
      <4> QED BY <4>3 DEF Left
    <3> QED BY <3>1, <3>2
  <2>5. ASSUME left # cookies
        PROVE  /\ \A i \in DOMAIN up : up[i].eq =>
                    up[i].name \notin DeletedNames(cookieConfigs)
               /\ Others(up) = Others(h)
    <3> DEFINE R == {Pair(p.name, p.value) : p \in L}
    <3>1. up = Rewritten(left)
      BY <2>3, <2>5
    <3> HIDE DEF left
    <3>2. up \in Seq(R) /\ R \subseteq Left(R, cookieConfigs) /\ Rewritten(up) = up
      BY <2>3, <3>1, RewrittenType
    <3> HIDE DEF R, L
    <3>3. Filter(up, Left(R, cookieConfigs)) = up
      BY <3>2, FilterAll
    <3>4. Others(up) = Rewritten(up)
      BY <2>2, <3>2, <3>3
    <3>5. Others(h) = Rewritten(left)
      BY <2>1, <2>2 DEF left, L
    <3>6. ASSUME NEW i \in DOMAIN up
          PROVE  up[i].name \notin DeletedNames(cookieConfigs)
      <4>1. up[i] \in R
        BY <3>2
      <4> QED BY <3>2, <4>1 DEF Left
    <3> QED BY <3>1, <3>2, <3>4, <3>5, <3>6
  <2> QED BY <2>4, <2>5 DEF h, up
<1> QED BY <1>1, CookieInvariant, PTL

\* The directives of the origin, and those that a configuration can ask for.
Age(c) == IF c.max_age > 0 THEN "positive" ELSE "none"

Wanted(c) ==
    IF c.operation = "OVERWRITE" /\ c.value = Empty
    THEN Directive(c.name, Empty, "zero")
    ELSE Directive(c.name, c.value, Age(c))

Directives ==
    [name : STRING, value : STRING, age : STRING] \cup {Wanted(c) : c \in Config}

Writing(c) == c.operation \in {"SET", "OVERWRITE"}

\* One operation: SET adds its directive, OVERWRITE leaves no other of its name.
LEMMA OneOperation ==
    ASSUME NEW list, NEW c
    PROVE  CookieOperation(list, c) =
             IF ~Writing(c) THEN list
             ELSE Append(IF c.operation = "SET" THEN list ELSE removeHeader(list, c.name),
                         Wanted(c))
<1>1. removeExistingSetCookie(list, c.name) = removeHeader(list, c.name)
  BY DEF removeExistingSetCookie, removeHeader
<1> DEFINE others == removeHeader(list, c.name)
<1>2. overwriteCookie(list, c)
        = IF c.value # Empty THEN setCookie(others, c)
          ELSE Append(others, Directive(c.name, Empty, "zero"))
  BY <1>1 DEF overwriteCookie
<1>3. ASSUME NEW l PROVE setCookie(l, c) = Append(l, Directive(c.name, c.value, Age(c)))
  BY DEF setCookie, Age
<1> HIDE DEF others
<1>4. CASE c.operation = "SET"
  <2>1. CookieOperation(list, c) = setCookie(list, c)
    BY <1>4 DEF CookieOperation
  <2>2. Wanted(c) = Directive(c.name, c.value, Age(c))
    BY <1>4 DEF Wanted
  <2> QED BY <1>3, <1>4, <2>1, <2>2 DEF Writing
<1>5. CASE c.operation = "OVERWRITE"
  <2>1. CookieOperation(list, c) = overwriteCookie(list, c)
    BY <1>5 DEF CookieOperation
  <2>2. Wanted(c) = IF c.value = Empty THEN Directive(c.name, Empty, "zero")
                    ELSE Directive(c.name, c.value, Age(c))
    BY <1>5 DEF Wanted
  <2> QED BY <1>2, <1>3, <1>5, <2>1, <2>2 DEF Writing, others
<1>6. CASE ~Writing(c)
  BY <1>6 DEF CookieOperation, Writing
<1> QED BY <1>4, <1>5, <1>6 DEF Writing

\* What an operation leaves of the directives for its own cookie, and of others.
LEMMA OperationEffect ==
    ASSUME NEW list \in Seq(Directives), NEW c \in Config, Writing(c)
    PROVE  LET new == CookieOperation(list, c) IN
           /\ new \in Seq(Directives)
           /\ Named(new, c.name)
                = Append(IF c.operation = "SET" THEN Named(list, c.name) ELSE <<>>,
                         Wanted(c))
           /\ \A S : (\A d \in S : d.name # c.name) => Filter(new, S) = Filter(list, S)
<1> DEFINE x == Wanted(c)
           name == c.name
           gone == removeHeader(list, name)
           old == IF c.operation = "SET" THEN list ELSE gone
           new == CookieOperation(list, c)
<1>1. x \in Directives
  BY DEF Directives
<1>2. x.name = name
  BY DEF Wanted, Directive
<1>3. new = Append(old, x)
  BY OneOperation
<1>4. gone \in Seq(Directives) /\ Named(gone, name) = <<>>
  BY HeaderRemoved
<1>5. gone = Filter(list, OtherNames(Directives, name))
  BY HeaderFilters
<1> HIDE DEF x, gone, new
<1>6. old \in Seq(Directives)
  BY <1>4
<1>7. Named(old, name) = IF c.operation = "SET" THEN Named(list, name) ELSE <<>>
  BY <1>4
<1> HIDE DEF old
<1>8. new \in Seq(Directives) /\ Named(new, name) = Append(Named(old, name), x)
  BY <1>1, <1>2, <1>3, <1>6, HeaderAdded
<1>9. ASSUME NEW S, \A d \in S : d.name # name
      PROVE  Filter(new, S) = Filter(list, S)
  <2>1. x \notin S
    BY <1>2, <1>9
  <2>2. Filter(new, S) = Filter(old, S)
    <3>1. Filter(Append(old, x), S)
            = IF x \in S THEN Append(Filter(old, S), x) ELSE Filter(old, S)
      BY <1>1, <1>6, FilterAppend
    <3> QED BY <1>3, <2>1, <3>1
  <2>3. Filter(gone, S) = Filter(list, S)
    <3> DEFINE B == OtherNames(Directives, name)
    <3>1. \A d \in Directives : d \in B \cap S <=> d \in S
      BY <1>9 DEF OtherNames
    <3> HIDE DEF B
    <3>2. Filter(list, B \cap S) = Filter(list, S)
      BY <3>1, FilterSame
    <3>3. Filter(Filter(list, B), S) = Filter(list, B \cap S)
      BY FilterTwice
    <3> QED BY <1>5, <3>2, <3>3 DEF B
  <2> QED BY <2>2, <2>3 DEF old
<1>10. Named(new, name)
         = Append(IF c.operation = "SET" THEN Named(list, name) ELSE <<>>, x)
  BY <1>7, <1>8, Zenon
<1> QED BY <1>8, <1>9, <1>10, Zenon DEF new, x

\* The operations one after the other.
OperationsRun(list, configs, f) ==
    /\ f[0] = list
    /\ \A i \in 0..Len(configs) : f[i] \in Seq(Directives)
    /\ \A i \in 1..Len(configs) : f[i] = CookieOperation(f[i - 1], configs[i])

LEMMA OperationsLoop ==
    ASSUME NEW list \in Seq(Directives), NEW configs \in Seq(Config)
    PROVE  \E f : /\ processCookieOperations(list, configs) = f[Len(configs)]
                  /\ OperationsRun(list, configs, f)
<1> DEFINE n == Len(configs)
           Op(l, c) == CookieOperation(l, c)
           D(f) == [i \in 0..n |-> IF i = 0 THEN list ELSE Op(f[i - 1], configs[i])]
           after == CHOOSE f : f = D(f)
           V == Seq(Directives)
           step == [q \in (1..n) \X V |-> Op(q[2], configs[q[1]])]
<1>0. n \in Nat /\ list \in V /\ \A i \in 1..n : configs[i] \in Config
  <2> HIDE DEF Config
  <2> QED OBVIOUS
<1>1. \A i \in 1..n, v \in V : Op(v, configs[i]) \in V
  <2> SUFFICES ASSUME NEW i \in 1..n, NEW v \in V PROVE Op(v, configs[i]) \in V
    OBVIOUS
  <2> DEFINE c == configs[i]
  <2>1. c \in Config
    BY <1>0
  <2> HIDE DEF c
  <2>2. CASE Writing(c)
    BY <2>1, <2>2, OperationEffect DEF c
  <2>3. CASE ~Writing(c)
    BY <2>3, OneOperation DEF c
  <2> QED BY <2>2, <2>3
<1>2. processCookieOperations(list, configs) = after[n]
  BY DEF processCookieOperations, ForEach
<1> HIDE DEF Op, n, V
<1>3. step \in [(1..n) \X V -> V]
  BY <1>1
<1>4. PICK f \in [0..n -> V] :
        f[0] = list /\ \A i \in 1..n : f[i] = step[<<i, f[i - 1]>>]
  <2> HIDE DEF step
  <2>1. IsChain(n, V, list, step)
    BY <1>0, <1>3 DEF IsChain
  <2> QED BY <2>1, ChainExists DEF ChainEnds
<1>5. ASSUME NEW i \in 1..n PROVE f[i] = Op(f[i - 1], configs[i])
  <2>1. f[i - 1] \in V
    BY <1>0, <1>4
  <2> QED BY <1>4, <2>1
<1>6. f = D(f)
  BY <1>0, <1>4, <1>5
<1>7. after = D(after)
  <2> HIDE DEF D
  <2> QED BY <1>6
<1> HIDE DEF after
<1>8. after[0] = list /\ \A i \in 1..n : after[i] = Op(after[i - 1], configs[i])
  BY <1>0, <1>7
<1>9. \A i \in 0..n : after[i] \in V
  <2> DEFINE T == {i \in 0..n : after[i] \in V}
  <2>1. 0 \in T
    BY <1>0, <1>8
  <2>2. ASSUME NEW i \in 1..n, i - 1 \in T PROVE i \in T
    <3>1. i \in 0..n
      BY <1>0
    <3> QED BY <1>1, <1>8, <2>2, <3>1
  <2> HIDE DEF T
  <2>3. \A i \in 0..n : i \in T
    BY <1>0, <2>1, <2>2, UpwardInduction
  <2> QED BY <2>3 DEF T
<1> QED BY <1>2, <1>8, <1>9 DEF Op, n, V, OperationsRun

\* The list ends with what the configuration c wants, and has nothing else if c
\* overwrites.
EndsWith(list, c) ==
    \E q \in Seq(Directives) : /\ list = Append(q, Wanted(c))
                               /\ c.operation = "OVERWRITE" => q = <<>>

\* After the first i operations: m was the last one for the cookie.
LastUpTo(name, m, i) ==
    m \in Operations(name) /\ \A k \in (m + 1)..i : k \notin Operations(name)

RunOK(list, f, i) ==
    /\ \A S : (\A d \in S : Operations(d.name) = {}) => Filter(f[i], S) = Filter(list, S)
    /\ \A name, m : m \in 1..i /\ LastUpTo(name, m, i) =>
         EndsWith(Named(f[i], name), cookieConfigs[m])

LEMMA RunStep ==
    ASSUME CookieInv, NEW list, NEW f, OperationsRun(list, cookieConfigs, f),
           NEW i \in 1..Len(cookieConfigs), RunOK(list, f, i - 1)
    PROVE  RunOK(list, f, i)
<1> DEFINE c == cookieConfigs[i]
           old == f[i - 1]
           new == f[i]
           n == Len(cookieConfigs)
<1>0. cookieConfigs \in Seq(Config) /\ n \in Nat /\ DOMAIN cookieConfigs = 1..n
  BY DEF CookieInv
<1>1. c \in Config
  BY <1>0
<1>2. old \in Seq(Directives) /\ new = CookieOperation(old, c)
  <2>1. i - 1 \in 0..n
    BY <1>0
  <2> QED BY <2>1 DEF OperationsRun
<1>3. \A name : i \in Operations(name) <=> Writing(c) /\ c.name = name
  BY <1>0 DEF Operations, Writing
<1>4. ASSUME NEW S, \A d \in S : Operations(d.name) = {}
      PROVE  Filter(new, S) = Filter(list, S)
  <2>1. Filter(old, S) = Filter(list, S)
    BY <1>4 DEF RunOK
  <2>2. CASE Writing(c)
    <3>1. \A d \in S : d.name # c.name
      BY <1>3, <1>4, <2>2
    <3> HIDE DEF c, old, new
    <3>2. Filter(new, S) = Filter(old, S)
      BY <1>1, <1>2, <2>2, <3>1, OperationEffect
    <3> QED BY <2>1, <3>2
  <2>3. CASE ~Writing(c)
    BY <1>2, <2>1, <2>3, OneOperation
  <2> QED BY <2>2, <2>3
<1>5. ASSUME NEW name, NEW m \in 1..i, LastUpTo(name, m, i)
      PROVE  EndsWith(Named(new, name), cookieConfigs[m])
  <2>1. CASE m = i
    <3>1. Writing(c) /\ c.name = name
      BY <1>3, <1>5, <2>1 DEF LastUpTo
    <3> DEFINE q == IF c.operation = "SET" THEN Named(old, name) ELSE <<>>
    <3> HIDE DEF c, old, new
    <3>2. Named(new, name) = Append(q, Wanted(c))
      BY <1>1, <1>2, <3>1, OperationEffect
    <3>3. Named(old, name) \in Seq(Directives)
      BY <1>2, FilterType DEF Named
    <3>4. q \in Seq(Directives) /\ (c.operation = "OVERWRITE" => q = <<>>)
      BY <3>3
    <3> HIDE DEF q
    <3>5. EndsWith(Named(new, name), c)
      BY <3>2, <3>4 DEF EndsWith
    <3> QED BY <2>1, <3>5 DEF c
  <2>2. CASE m # i
    <3>1. m \in 1..(i - 1)
      BY <2>2
    <3>2. i \notin Operations(name) /\ LastUpTo(name, m, i - 1)
      <4>1. i \in (m + 1)..i /\ \A k \in (m + 1)..(i - 1) : k \in (m + 1)..i
        BY <3>1
      <4> QED BY <1>5, <4>1 DEF LastUpTo
    <3>3. EndsWith(Named(old, name), cookieConfigs[m])
      BY <3>1, <3>2 DEF RunOK
    <3>4. Named(new, name) = Named(old, name)
      <4>1. CASE Writing(c)
        <5> DEFINE A == WithName(Directives, name)
        <5>1. c.name # name
          BY <1>3, <3>2, <4>1
        <5>2. \A d \in A : d.name # c.name
          BY <5>1 DEF WithName
        <5> HIDE DEF A, c, old, new
        <5>3. new \in Seq(Directives) /\ Filter(new, A) = Filter(old, A)
          BY <1>1, <1>2, <4>1, <5>2, OperationEffect
        <5>4. Named(new, name) = Filter(new, A) /\ Named(old, name) = Filter(old, A)
          BY <1>2, <5>3, HeaderFilters DEF A
        <5> QED BY <5>3, <5>4
      <4>2. CASE ~Writing(c)
        BY <1>2, <4>2, OneOperation
      <4> QED BY <4>1, <4>2
    <3> QED BY <3>3, <3>4
  <2> QED BY <2>1, <2>2
<1> QED BY <1>4, <1>5 DEF RunOK

\* The last directive for a cookie, which decides, is the last of its own.
LEMMA LastNamed ==
    ASSUME NEW T, NEW list \in Seq(T), NEW name, NEW q \in Seq(T), NEW y \in T,
           Named(list, name) = Append(q, y)
    PROVE  LET mine == {i \in DOMAIN list : list[i].name = name}
           IN  mine # {} /\ list[Max(mine)] = y
<1> DEFINE A == WithName(T, name)
           mine == {i \in DOMAIN list : list[i].name = name}
           k == Max(mine)
           pre == SubSeq(list, 1, k - 1)
           post == SubSeq(list, k + 1, Len(list))
           own == <<list[k]>>
<1>0. DOMAIN list = 1..Len(list) /\ Len(list) \in Nat /\ \A i \in 1..Len(list) : list[i] \in T
  OBVIOUS
<1>1. Filter(list, A) = Append(q, y)
  BY HeaderFilters
<1>2. mine # {}
  <2> SUFFICES ASSUME mine = {} PROVE FALSE
    OBVIOUS
  <2>1. list \in Seq(Range(list)) /\ Range(list) \cap A = {}
    BY RangeType DEF WithName, Range
  <2>2. Filter(list, A) = <<>>
    BY <2>1, FilterNone
  <2>3. Append(q, y) # <<>>
    OBVIOUS
  <2> QED BY <1>1, <2>2, <2>3
<1>3. k \in mine /\ \A i \in mine : k >= i
  <2>1. mine \in SUBSET (1..Len(list))
    BY <1>0
  <2> HIDE DEF mine
  <2> QED BY <1>0, <1>2, <2>1, MaxIn
<1>4. k \in 1..Len(list) /\ list[k] \in A
  BY <1>0, <1>3 DEF WithName
<1>5. ASSUME NEW i \in (k + 1)..Len(list) PROVE list[i] \in OtherNames(T, name)
  <2>1. i \in DOMAIN list /\ ~(k >= i)
    BY <1>0, <1>4
  <2> QED BY <1>0, <1>3, <2>1 DEF OtherNames
<1> HIDE DEF k, mine, A
<1>6. pre \in Seq(T) /\ post \in Seq(T) /\ list = (pre \o own) \o post
  BY <1>4, SplitAround
<1>7. post \in Seq(OtherNames(T, name))
  <2>1. k + 1 \in Int /\ Len(list) \in Int
    BY <1>0, <1>4
  <2> QED BY <1>5, <2>1, SubSeqProperties
<1>8. Filter(post, A) = <<>>
  <2>1. OtherNames(T, name) \cap A = {}
    BY DEF OtherNames, WithName, A
  <2> HIDE DEF post
  <2> QED BY <1>7, <2>1, FilterNone
<1>9. own \in Seq(T) /\ Filter(own, A) = own
  BY <1>0, <1>4, FilterOne
<1>10. own \in Seq(T) /\ Len(own) = 1 /\ own[1] = list[k]
  BY <1>0, <1>4
<1> HIDE DEF pre, post, own
<1>11. Filter(list, A) = (Filter(pre, A) \o own) \o <<>>
  <2>1. AllIn(T, pre, own, post)
    BY <1>6, <1>9 DEF AllIn
  <2>2. Filter((pre \o own) \o post, A)
          = (Filter(pre, A) \o Filter(own, A)) \o Filter(post, A)
    BY <2>1, FilterThree
  <2> QED BY <1>6, <1>8, <1>9, <2>2, Zenon
<1> DEFINE g == Filter(pre, A)
<1>12. g \in Seq(T)
  BY <1>6, FilterType
<1> HIDE DEF g
<1>13. (g \o own) \o <<>> = g \o own
  BY <1>9, <1>12, ConcatEmptySeq, ConcatLength
<1>14. Append(q, y) = g \o own
  BY <1>1, <1>11, <1>13, Zenon DEF g
<1>15. Len(g) + 1 = Len(q) + 1 /\ Len(g) \in Nat /\ Len(q) \in Nat
  <2>1. Len(g \o own) = Len(g) + 1 /\ Len(Append(q, y)) = Len(q) + 1
    <3>1. Len(g \o own) = Len(g) + Len(own)
      BY <1>10, <1>12, ConcatLength
    <3>2. Len(Append(q, y)) = Len(q) + 1
      OBVIOUS
    <3> QED BY <1>10, <3>1, <3>2
  <2> QED BY <1>12, <1>14, <2>1
<1>16. (g \o own)[Len(q) + 1] = own[1] /\ Append(q, y)[Len(q) + 1] = y
  <2> DEFINE z == Len(q) + 1
  <2>1. z \in 1..(Len(g) + Len(own)) /\ ~(z <= Len(g)) /\ z - Len(g) = 1
    BY <1>10, <1>15
  <2>2. Append(q, y)[z] = y
    OBVIOUS
  <2> HIDE DEF z
  <2>3. (g \o own)[z] = own[z - Len(g)]
    BY <1>10, <1>12, <2>1, ConcatAt
  <2> QED BY <2>1, <2>2, <2>3 DEF z
<1>17. list[k] = y
  BY <1>10, <1>14, <1>16
<1> QED BY <1>2, <1>17 DEF k, mine

\* The client ends with what the last operation for a cookie says, whatever the
\* origin set and however many operations there are; an OVERWRITE leaves no other
\* directive for its cookie, and those for cookies without an operation survive in
\* their order (onResponseHeaders of set_reset_cookie).
THEOREM ConfiguredCookieWinsTheorem == CookieSpec => []ConfiguredCookieWins
<1>1. CookieInv => ConfiguredCookieWins
  <2> SUFFICES ASSUME CookieInv, NEW s \in Streams,
                      cookiePlugin = "set_reset_cookie",
                      exchange[s].pc = "downstream"
               PROVE  LET down == exchange[s].down IN
                      /\ Free(down) = Free(exchange[s].origin)
                      /\ \A name \in {n \in CookieNames : Operations(n) # {}} :
                           LET op == LastOperation(name) IN
                           /\ Obey(jar, down)[name]
                                = IF op.operation = "OVERWRITE" /\ op.value = Empty
                                  THEN Absent ELSE op.value
                           /\ op.operation = "OVERWRITE" =>
                                Len(Named(down, name)) = 1
    BY DEF ConfiguredCookieWins
  <2> DEFINE list == exchange[s].origin
             down == exchange[s].down
             n == Len(cookieConfigs)
  <2>1. /\ list \in OriginReplies /\ down = processCookieOperations(list, cookieConfigs)
        /\ cookieConfigs \in Seq(Config)
    BY DEF CookieInv, ExchangeOK
  <2>2. list \in Seq(Directives)
    <3> DEFINE R == [name : STRING, value : STRING, age : STRING]
    <3>1. list \in Seq(R) /\ R \subseteq Directives
      BY <2>1, OriginRepliesAssumption DEF Directives
    <3> HIDE DEF R
    <3> QED BY <3>1
  <2> HIDE DEF list, down
  <2>3. n \in Nat /\ DOMAIN cookieConfigs = 1..n
    <3> HIDE DEF Config
    <3> QED BY <2>1
  <2>4. PICK f : down = f[n] /\ OperationsRun(list, cookieConfigs, f)
    BY <2>1, <2>2, OperationsLoop
  <2> HIDE DEF n
  <2>5. RunOK(list, f, n)
    <3> DEFINE T == {i \in 0..n : RunOK(list, f, i)}
    <3>1. 0 \in T
      BY <2>3, <2>4 DEF RunOK, OperationsRun
    <3>2. ASSUME NEW i \in 1..n, i - 1 \in T PROVE i \in T
      <4>1. i \in 0..n
        BY <2>3
      <4> QED BY <2>4, <3>2, <4>1, RunStep DEF n
    <3> HIDE DEF T
    <3>3. n \in T
      BY <2>3, <3>1, <3>2, UpwardInduction
    <3> QED BY <3>3 DEF T
  <2>6. down \in Seq(Directives)
    BY <2>3, <2>4 DEF OperationsRun, n
  <2>7. Free(down) = Free(list)
    <3> DEFINE S == {d \in Directives : Operations(d.name) = {}}
    <3>1. ASSUME NEW l \in Seq(Directives) PROVE Free(l) = Filter(l, S)
      <4>1. l \in Seq(Range(l)) /\ Range(l) \subseteq Directives
        BY RangeType
      <4> DEFINE R == {e \in Range(l) : Operations(e.name) = {}}
      <4>2. (\A d \in Range(l) : d \in R <=> d \in S) /\ Free(l) = Filter(l, R)
        BY <4>1 DEF Free
      <4> HIDE DEF R, S
      <4>3. Filter(l, R) = Filter(l, S)
        BY <4>1, <4>2, FilterSame
      <4> QED BY <4>2, <4>3
    <3>2. \A d \in S : Operations(d.name) = {}
      OBVIOUS
    <3> HIDE DEF S
    <3>3. Filter(f[n], S) = Filter(list, S)
      BY <2>5, <3>2 DEF RunOK
    <3> QED BY <2>2, <2>4, <2>6, <3>1, <3>3
  <2>8. ASSUME NEW name \in CookieNames, Operations(name) # {}
        PROVE  LET op == LastOperation(name) IN
               /\ Obey(jar, down)[name]
                    = IF op.operation = "OVERWRITE" /\ op.value = Empty
                      THEN Absent ELSE op.value
               /\ op.operation = "OVERWRITE" => Len(Named(down, name)) = 1
    <3> DEFINE m == Max(Operations(name))
               c == cookieConfigs[m]
               mine == {i \in DOMAIN down : down[i].name = name}
    <3>1. Operations(name) \in SUBSET (1..n)
      BY <2>3 DEF Operations
    <3>2. m \in Operations(name) /\ \A k \in Operations(name) : m >= k
      BY <2>3, <2>8, <3>1, MaxIn
    <3>3. m \in 1..n /\ LastUpTo(name, m, n)
      <4>1. m \in 1..n /\ \A k \in (m + 1)..n : ~(m >= k)
        BY <2>3, <3>1, <3>2
      <4> HIDE DEF m
      <4> QED BY <3>2, <4>1 DEF LastUpTo
    <3>4. c \in Config /\ LastOperation(name) = c
      BY <2>1, <2>3, <3>3 DEF LastOperation
    <3> HIDE DEF m
    <3>5. EndsWith(Named(down, name), c)
      BY <2>4, <2>5, <3>3 DEF RunOK
    <3> HIDE DEF c
    <3>6. PICK q \in Seq(Directives) :
            /\ Named(down, name) = Append(q, Wanted(c))
            /\ c.operation = "OVERWRITE" => q = <<>>
      BY <3>5 DEF EndsWith
    <3>7. Wanted(c) \in Directives
      BY <3>4 DEF Directives
    <3> DEFINE y == Wanted(c)
    <3>8. /\ y.age = "zero" <=> c.operation = "OVERWRITE" /\ c.value = Empty
          /\ y.age # "zero" => y.value = c.value
      BY DEF Wanted, Directive, Age
    <3> HIDE DEF y
    <3>9. mine # {} /\ down[Max(mine)] = y
      BY <2>6, <3>6, <3>7, LastNamed DEF y
    <3>10. Obey(jar, down)[name]
             = IF mine = {} THEN jar[name]
               ELSE IF down[Max(mine)].age = "zero" THEN Absent
                    ELSE down[Max(mine)].value
      BY <2>8 DEF Obey
    <3> HIDE DEF mine
    <3>11. Obey(jar, down)[name]
             = IF c.operation = "OVERWRITE" /\ c.value = Empty THEN Absent ELSE c.value
      BY <3>8, <3>9, <3>10
    <3>12. c.operation = "OVERWRITE" => Len(Named(down, name)) = 1
      BY <3>6
    <3> QED BY <3>4, <3>11, <3>12
  <2> QED BY <2>7, <2>8 DEF list, down
<1> QED BY <1>1, CookieInvariant, PTL

=============================================================================
