---------------------------- MODULE HTTPRequest ----------------------------
(***************************************************************************)
(* Request construction of the HTTP probe (src/probes/http/request.go):   *)
(* httpRequestForTarget and its helpers, as pure operators over strings   *)
(* held as sequences of one-character strings, so that the formatting    *)
(* (Sprintf "%s:%d", the IPv6 brackets) is modelled by what it does.      *)
(*                                                                         *)
(* The state is one probe configuration, one target and the request the   *)
(* probe builds for it; BuildRequest rebuilds it with a fresh resolver    *)
(* answer.  The built request is checked against a reference: the RFC    *)
(* 3986 authority grammar a server parses it with.                        *)
(***************************************************************************)
EXTENDS Integers, Sequences, SequencesExt

CONSTANTS
    Hosts,       \* target names and fqdn labels (character sequences)
    IPs,         \* ip.String() of addresses the resolver may return
    Paths,       \* relative URLs ("/..." character sequences)
    Ports,       \* non-zero port numbers
    HeaderNames, \* header names a probe config may list
    UserAgents,  \* non-empty user_agent values
    MaxHeaders,  \* longest headers list explored
    NoIP,        \* model value: target.IP == nil
    ResolveFail, \* model value: target.Resolve returned an error
    NoRequest    \* model value: httpRequestForTarget returned nil

Colon == ":"

-----------------------------------------------------------------------------
(***************************************************************************)
(* Decimal formatting of %d, and its inverse for the reference parser.    *)
(***************************************************************************)
DigitChar == [d \in 0..9 |-> CASE d = 0 -> "0" [] d = 1 -> "1" [] d = 2 -> "2"
                                 [] d = 3 -> "3" [] d = 4 -> "4" [] d = 5 -> "5"
                                 [] d = 6 -> "6" [] d = 7 -> "7" [] d = 8 -> "8"
                                 [] d = 9 -> "9"]

RECURSIVE Decimal(_)
Decimal(n) == IF n < 10 THEN <<DigitChar[n]>>
              ELSE Decimal(n \div 10) \o <<DigitChar[n % 10]>>

\* The value of a digit string; -1 when s is empty or not all digits.
ParseDecimal(s) ==
    IF s # <<>> /\ \A i \in DOMAIN s : s[i] \in Range(DigitChar)
    THEN FoldLeft(LAMBDA acc, c : 10 * acc + (CHOOSE d \in 0..9 : DigitChar[d] = c), 0, s)
    ELSE -1

-----------------------------------------------------------------------------
(***************************************************************************)
(* request.go                                                              *)
(***************************************************************************)

\* hostWithPort: port 0 means no port.
hostWithPort(host, port) ==
    IF port = 0 THEN host ELSE host \o <<Colon>> \o Decimal(port)

\* hostHeaderForTarget: the probe's Host header, else fqdn, else the name.
hostHeaderForTarget(target, probeHostHeader, port) ==
    CASE probeHostHeader # <<>> -> probeHostHeader
      [] target.fqdn # <<>>     -> hostWithPort(target.fqdn, port)
      [] OTHER                  -> hostWithPort(target.name, port)

urlHostForTarget(target) ==
    IF target.fqdn # <<>> THEN target.fqdn ELSE target.name

relURLForTarget(target, probeURL) ==
    CASE probeURL # <<>>        -> probeURL
      [] target.relurl # <<>>   -> target.relurl
      [] OTHER                  -> <<>>

\* Mutant: the host is put in the URL without IPv6 brackets.
BracketedNever(h) == h

\* strings.IndexByte(urlHost, ':') >= 0: put brackets around IPv6 literals.
Bracketed(h) == IF Contains(h, Colon) THEN <<"[">> \o h \o <<"]">> ELSE h

\* http.CanonicalHeaderKey on the names explored.
Canonical(n) == CASE n = "host"       -> "Host"
                  [] n = "user-agent" -> "User-Agent"
                  [] OTHER            -> n

\* Header value of the i-th entry of the config's headers list.
HeaderValue(i) == <<"v", i>>

\* The header loop: a "Host" entry sets probeHostHeader, any other entry
\* is req.Header.Set (which canonicalizes the name); later entries win.
HeaderLoop(headers) ==
    FoldLeft(LAMBDA acc, i :
                IF headers[i] = "Host"
                THEN [acc EXCEPT !.hostHdr = HeaderValue(i)]
                ELSE [acc EXCEPT !.hdr = (Canonical(headers[i]) :> HeaderValue(i)) @@ acc.hdr],
             [hostHdr |-> <<>>, hdr |-> <<>>],
             [j \in 1..Len(headers) |-> j])

\* Mutant: user_agent is set before the headers loop, so a configured
\* User-Agent entry overrides it.
httpRequestForTargetUAFirst(conf, target, res) ==
    LET port == IF conf.port = 0 THEN target.port ELSE conf.port
        resolveFirst == IF conf.resolveFirst = "unset" THEN target.ip # NoIP
                                                       ELSE conf.resolveFirst = "true"
        urlHost == IF resolveFirst THEN res ELSE urlHostForTarget(target)
        url == <<conf.protocol, ":", "/", "/">>
               \o hostWithPort(Bracketed(urlHost), port)
               \o relURLForTarget(target, conf.url)
        loop == HeaderLoop(conf.headers)
        ua == IF conf.userAgent # <<>> THEN ("User-Agent" :> conf.userAgent) ELSE <<>>
    IN IF resolveFirst /\ res = ResolveFail
       THEN NoRequest
       ELSE [url    |-> url,
             host   |-> hostHeaderForTarget(target, loop.hostHdr, port),
             header |-> loop.hdr @@ ua]

\* Mutant: no early return when target.Resolve fails; the nil IP formats
\* as "<nil>".
httpRequestForTargetNoResolveCheck(conf, target, res) ==
    LET port == IF conf.port = 0 THEN target.port ELSE conf.port
        resolveFirst == IF conf.resolveFirst = "unset" THEN target.ip # NoIP
                                                       ELSE conf.resolveFirst = "true"
        urlHost == IF resolveFirst THEN (IF res = ResolveFail THEN <<"<nil>">> ELSE res) ELSE urlHostForTarget(target)
        url == <<conf.protocol, ":", "/", "/">>
               \o hostWithPort(Bracketed(urlHost), port)
               \o relURLForTarget(target, conf.url)
        loop == HeaderLoop(conf.headers)
        ua == IF conf.userAgent # <<>> THEN ("User-Agent" :> conf.userAgent) ELSE <<>>
    IN IF FALSE
       THEN NoRequest
       ELSE [url    |-> url,
             host   |-> hostHeaderForTarget(target, loop.hostHdr, port),
             header |-> ua @@ loop.hdr]

\* httpRequestForTarget, given the resolver's answer res.
httpRequestForTarget(conf, target, res) ==
    LET port == IF conf.port = 0 THEN target.port ELSE conf.port
        resolveFirst == IF conf.resolveFirst = "unset" THEN target.ip # NoIP
                                                       ELSE conf.resolveFirst = "true"
        urlHost == IF resolveFirst THEN res ELSE urlHostForTarget(target)
        url == <<conf.protocol, ":", "/", "/">>
               \o hostWithPort(Bracketed(urlHost), port)
               \o relURLForTarget(target, conf.url)
        loop == HeaderLoop(conf.headers)
        ua == IF conf.userAgent # <<>> THEN ("User-Agent" :> conf.userAgent) ELSE <<>>
    IN IF resolveFirst /\ res = ResolveFail
       THEN NoRequest
       ELSE [url    |-> url,
             host   |-> hostHeaderForTarget(target, loop.hostHdr, port),
             header |-> ua @@ loop.hdr]

-----------------------------------------------------------------------------
(***************************************************************************)
(* Reference definitions: RFC 3986 URL and authority parsing.             *)
(***************************************************************************)

\* authority = ( "[" IPv6 "]" / reg-name / IPv4 ) [ ":" port ]
ParseAuthority(a) ==
    IF a # <<>> /\ a[1] = "["
    THEN LET close == SelectInSeq(a, LAMBDA c : c = "]")
             rest  == SubSeq(a, close + 1, Len(a))
         IN [host |-> SubSeq(a, 2, close - 1),
             port |-> IF rest = <<>> THEN 0 ELSE ParseDecimal(Tail(rest))]
    ELSE LET colon == SelectInSeq(a, LAMBDA c : c = Colon)
         IN IF colon = 0 THEN [host |-> a, port |-> 0]
            ELSE [host |-> SubSeq(a, 1, colon - 1),
                  port |-> ParseDecimal(SubSeq(a, colon + 1, Len(a)))]

\* scheme "://" authority path
ParseURL(u) ==
    LET rest  == SubSeq(u, 5, Len(u))
        slash == SelectInSeq(rest, LAMBDA c : c = "/")
        auth  == IF slash = 0 THEN rest ELSE SubSeq(rest, 1, slash - 1)
    IN [scheme |-> u[1],
        auth   |-> ParseAuthority(auth),
        path   |-> IF slash = 0 THEN <<>> ELSE SubSeq(rest, slash, Len(rest))]
-----------------------------------------------------------------------------
(***************************************************************************)
(* The probe's request for one target.  The probe rebuilds it on every    *)
(* refresh of its targets; target.Resolve may answer differently (or      *)
(* fail) each time.                                                        *)
(***************************************************************************)
Configs == [protocol     : {"http"},
            port         : {0} \cup Ports,
            resolveFirst : {"unset", "true", "false"},  \* p.c.ResolveFirst
            url          : {<<>>} \cup Paths,
            headers      : BoundedSeq(HeaderNames, MaxHeaders),
            userAgent    : {<<>>} \cup UserAgents]

Endpoints == [name : Hosts, fqdn : {<<>>} \cup Hosts, relurl : {<<>>} \cup Paths,
              port : {0} \cup Ports, ip : {NoIP} \cup IPs]

\* What target.Resolve may return: the target's own IP (or an error when it
\* does not match the IP version), or any address the resolver knows.
ResolveResults(target) ==
    IF target.ip # NoIP THEN {target.ip, ResolveFail} ELSE IPs \cup {ResolveFail}

VARIABLES conf, target, resolved, req

vars == <<conf, target, resolved, req>>

Init ==
    /\ conf \in Configs
    /\ target \in Endpoints
    /\ resolved = NoIP        \* not resolved yet
    /\ req = NoRequest        \* not built yet

BuildRequest(res) ==
    /\ resolved' = res
    /\ req' = httpRequestForTarget(conf, target, res)
    /\ UNCHANGED <<conf, target>>

Next == \E res \in ResolveResults(target) : BuildRequest(res)

Spec == Init /\ [][Next]_vars

-----------------------------------------------------------------------------
\* One-character strings, and the scheme, a URL or a Host header is made of.
Chars == UNION {Range(s) : s \in Hosts \cup IPs \cup Paths} \cup Range(DigitChar)
         \cup {":", "/", "[", "]", "http"}

TypeOK ==
    /\ conf \in Configs
    /\ target \in Endpoints
    /\ resolved \in {NoIP, ResolveFail} \cup IPs
    /\ \/ req = NoRequest
       \/ /\ DOMAIN req = {"url", "host", "header"}
          /\ req.url \in Seq(Chars)
          /\ req.host \in Seq(Chars) \cup {HeaderValue(i) : i \in 1..MaxHeaders}

\* The port the request is meant for and the host its URL is meant to name.
IntendedPort == IF conf.port = 0 THEN target.port ELSE conf.port
ResolvesFirst == \/ conf.resolveFirst = "true"
                 \/ conf.resolveFirst = "unset" /\ target.ip # NoIP
UsesResolvedIP == resolved \in IPs /\ ResolvesFirst

\* URL round trip: a request is built exactly when no resolution it needs
\* failed (never with a fallback host), and parsing the URL that
\* httpRequestForTarget formats (with Sprintf, hostWithPort and the IPv6
\* brackets) gives back the resolved IP or the fqdn/name, the
\* configured-or-target port, and the path.
URLRoundTrip ==
    /\ (req = NoRequest) <=> (resolved = NoIP \/ (ResolvesFirst /\ resolved = ResolveFail))
    /\ req # NoRequest =>
        ParseURL(req.url) =
            [scheme |-> conf.protocol,
             auth   |-> [host |-> IF UsesResolvedIP THEN resolved
                                  ELSE IF target.fqdn # <<>> THEN target.fqdn
                                  ELSE target.name,
                         port |-> IntendedPort],
             path   |-> IF conf.url # <<>> THEN conf.url ELSE target.relurl]

\* The last entry of the config's headers list with canonical name n.
LastEntry(n) == SelectLastInSeq(conf.headers, LAMBDA x : Canonical(x) = n)

\* The headers a request carries are, for every configured name other than
\* Host, the value of its last entry, with user_agent overriding any
\* configured User-Agent entry (the header loop then the user_agent Set).
HeadersMatchConfig ==
    req # NoRequest =>
        LET names == {Canonical(conf.headers[i]) : i \in DOMAIN conf.headers}
                     \cup (IF conf.userAgent # <<>> THEN {"User-Agent"} ELSE {})
        IN [n \in DOMAIN req.header \ {"Host"} |-> req.header[n]] =
           [n \in names \ {"Host"} |->
               IF n = "User-Agent" /\ conf.userAgent # <<>> THEN conf.userAgent
               ELSE HeaderValue(LastEntry(n))]

\* The Host a request is sent with (req.Host; net/http ignores a "Host"
\* key of req.Header) is the value of a Host header in the config, under
\* any spelling of the name; without one, it is the target (fqdn or name)
\* and the intended port, as a server parses them from the header.
HostHeaderCorrect ==
    req # NoRequest =>
        IF LastEntry("Host") # 0
        THEN req.host = HeaderValue(LastEntry("Host"))
        ELSE ParseAuthority(req.host) =
                 [host |-> IF target.fqdn # <<>> THEN target.fqdn ELSE target.name,
                  port |-> IntendedPort]
====
