--------------------------- MODULE MCHTTPRequest ---------------------------
(***************************************************************************)
(* Inputs for HTTPRequest: a DNS name and an IPv6 literal as target names, *)
(* an IPv4 and an IPv6 resolver answer, two ports so that the probe's     *)
(* port can override the target's, and header lists of up to two entries *)
(* over Host (both spellings), User-Agent and another header.             *)
(***************************************************************************)
EXTENDS HTTPRequest

MCHosts == {<<"a">>, <<":", ":", "1">>}
MCIPs == {<<"1", ".", "2">>, <<":", ":", "2">>}
MCPaths == {<<"/", "p">>}
MCPorts == {80, 8080}
MCHeaderNames == {"Host", "host", "User-Agent", "X"}
MCUserAgents == {<<"u">>}
====
