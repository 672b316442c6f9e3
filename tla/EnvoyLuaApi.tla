----------------------------- MODULE EnvoyLuaApi -----------------------------
(***************************************************************************)
(* What a script sees of the Envoy Lua API: the classes RegisterEnvoyApi    *)
(* binds, what their methods return, and the status unwrapper that stands   *)
(* between the two.  Nearly every C++ method returns an absl::Status or     *)
(* absl::StatusOr, which LuaBridge hands over as an object of its own; the  *)
(* unwrapper makes of it a value, nil or a Lua error.                       *)
(*                                                                          *)
(* A method is given by the outcomes it can have: "error", a status that is *)
(* not OK; "ok", an OK status without a value; Nil, a value that is absent; *)
(* Data, a string, number, boolean or table; or the class of an object.     *)
(***************************************************************************)
EXTENDS Naturals, FiniteSets

Nil == "nil"
Data == "data"
StatusNode == "status node"     \* an absl::Status or StatusOr as an object

Logs == {"logTrace", "logDebug", "logInfo", "logWarn", "logErr", "logCritical"}

\* The accessors that InjectNativeYieldAccessors binds give objects themselves.
NativeAccessors == {"headers", "body", "trailers", "bodyChunks"}

\* Of the many members of Handle that are declared, two more are bound.
HandleMethods ==
    [headers |-> {"Header"}, body |-> {"Buffer"}, trailers |-> {"Header"},
     bodyChunks |-> {Data},
     streamInfo |-> {"error"}, connection |-> {"error"}]

HeaderMethods ==
    [add |-> {"ok", "error"}, remove |-> {"ok", "error"},
     replace |-> {"ok", "error"}, setHttp1ReasonPhrase |-> {"error"},
     get |-> {Nil, Data}, getAtIndex |-> {Nil, Data, "error"},
     getNumValues |-> {Data, "error"}, get_pairs |-> {Data, "error"}]

BufferMethods ==
    [length |-> {Data, "error"}, getBytes |-> {Data, "error"},
     setBytes |-> {"ok", "error"}]

StreamInfoMethods == [downstreamSslConnection |-> {"SslConnection", Nil}]
ConnectionMethods == [ssl |-> {"SslConnection", Nil}]

UnsupportedSsl ==
    {"issuerPeerCertificate", "sha256PeerCertificateIssuerDigest",
     "serialNumberPeerCertificateIssuer", "parsedSubjectPeerCertificate",
     "oidsPeerCertificate", "oidsLocalCertificate", "sessionId",
     "ciphersuiteString"}

SupportedSsl ==
    {"peerCertificatePresented", "peerCertificateValidated",
     "uriSanLocalCertificate", "sha256PeerCertificateDigest",
     "serialNumberPeerCertificate", "subjectPeerCertificate",
     "uriSanPeerCertificate", "subjectLocalCertificate",
     "urlEncodedPemEncodedPeerCertificate",
     "urlEncodedPemEncodedPeerCertificateChain", "dnsSansPeerCertificate",
     "dnsSansLocalCertificate", "validFromPeerCertificate",
     "expirationPeerCertificate", "ciphersuiteId", "tlsVersion"}

SslConnectionMethods ==
    [m \in SupportedSsl \cup UnsupportedSsl |->
       IF m \in SupportedSsl THEN {Data} ELSE {"error"}]

ParsedNameMethods == [m \in {"commonName", "organizationName"} |-> {"error"}]

CounterMethods ==
    [inc |-> {"ok", "error"}, add |-> {"ok", "error"}, value |-> {Data, "error"}]

GaugeMethods ==
    [m \in {"inc", "dec", "add", "sub", "set", "value"} |->
       IF m = "value" THEN {Data, "error"} ELSE {"ok", "error"}]

HistogramMethods == [recordValue |-> {"ok", "error"}]

\* The classes that RegisterEnvoyApi binds.
Methods ==
    [Header |-> HeaderMethods, ParsedName |-> ParsedNameMethods,
     SslConnection |-> SslConnectionMethods, StreamInfo |-> StreamInfoMethods,
     Connection |-> ConnectionMethods, Buffer |-> BufferMethods,
     Counter |-> CounterMethods, Gauge |-> GaugeMethods,
     Histogram |-> HistogramMethods, Handle |-> HandleMethods]

Classes == DOMAIN Methods

LoggingClasses == {"SslConnection", "StreamInfo", "Connection", "Buffer", "Handle"}

unwrapper_classes ==
    {"Handle", "StreamInfo", "Connection", "ConnectionStreamInfo", "Buffer",
     "VirtualHost", "Route", "Counter", "Gauge", "Histogram", "StatsScope",
     "Header"}

\* The wrapper of a method: what the script gets for an outcome in a Lua state
\* where the unwrapper was attached to the classes of `unwrapped'.
Unwrap(unwrapped, class, outcome) ==
    IF class \notin unwrapped THEN StatusNode
    ELSE IF outcome = "error" THEN "raised"
    ELSE IF outcome = "ok" THEN Nil
    ELSE outcome

\* What a call can give to the script.
Results(unwrapped, class, method) ==
    IF method \in Logs THEN {Nil}
    ELSE IF class = "Handle" /\ method \in NativeAccessors
    THEN Methods[class][method]
    ELSE {Unwrap(unwrapped, class, o) : o \in Methods[class][method]}

MethodNames(class) ==
    DOMAIN Methods[class] \cup IF class \in LoggingClasses THEN Logs ELSE {}
=============================================================================
