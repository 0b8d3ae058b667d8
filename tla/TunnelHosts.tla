------------------------------ MODULE TunnelHosts ------------------------------
(***************************************************************************)
(* The names of tunnels (gateway/server.go, requests/service.go): the      *)
(* public URL that a registration hands out, the subdomain that the        *)
(* gateway finds in a request's Host, the Host that a replay sends, and    *)
(* the hosts that ACME certificates are issued for.                        *)
(*                                                                         *)
(* A text is the sequence of its marks, which are ".", ":" and "/", and of *)
(* the words between them, all in one case (the code compares bytes).      *)
(* Addresses in brackets are left out.                                     *)
(***************************************************************************)
EXTENDS Integers, Sequences

CONSTANTS
    Words,      \* the parts of host names, the schemes and the ports
    Base        \* TUNNEL_BASE_DOMAIN

Texts == Seq(Words \cup {".", ":", "/"})

ASSUME HostConstants ==
    /\ {"https", "http"} \subseteq Words
    /\ Words \cap {".", ":", "/"} = {}
    /\ Base \in Texts

Lacks(text, mark) == \A i \in DOMAIN text : text[i] # mark

\* Package strings.
HasPrefix(text, part) == Len(part) <= Len(text) /\ SubSeq(text, 1, Len(part)) = part

HasSuffix(text, part) ==
    Len(part) <= Len(text) /\ SubSeq(text, Len(text) - Len(part) + 1, Len(text)) = part

TrimPrefix(text, part) ==
    IF HasPrefix(text, part) THEN SubSeq(text, Len(part) + 1, Len(text)) ELSE text

TrimSuffix(text, part) ==
    IF HasSuffix(text, part) THEN SubSeq(text, 1, Len(text) - Len(part)) ELSE text

\* Where the first such mark stands, in a text that does not lack it.
IndexByte(text, mark) ==
    CHOOSE i \in DOMAIN text : text[i] = mark /\ \A j \in 1..(i - 1) : text[j] # mark

\* net.SplitHostPort fails without a colon and with several, and the Host is
\* then taken as it is.
StripPort(host) ==
    IF \E i \in DOMAIN host : \A j \in DOMAIN host : host[j] = ":" <=> j = i
    THEN SubSeq(host, 1, IndexByte(host, ":") - 1)
    ELSE host

\* Empty for a foreign host.
SubdomainFromHost(host) ==
    LET name == StripPort(host)
        suffix == <<".">> \o Base
    IN  IF HasSuffix(name, suffix) THEN TrimSuffix(name, suffix) ELSE <<>>

\* register: the public URL of a minted subdomain.
PublicURL(sub) == <<"https", ":", "/", "/">> \o (sub \o (<<".">> \o Base))

HostFromPublicURL(url) ==
    LET rest == TrimPrefix(TrimPrefix(url, <<"https", ":", "/", "/">>), <<"http", ":", "/", "/">>)
    IN  IF Lacks(rest, "/") THEN rest ELSE SubSeq(rest, 1, IndexByte(rest, "/") - 1)

\* The autocert policy for a TLS server name.
HostPolicy(host) == host = Base \/ HasSuffix(host, <<".">> \o Base)
=============================================================================
