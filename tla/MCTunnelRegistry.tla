-------------------------- MODULE MCTunnelRegistry --------------------------
\* TunnelRegistry with few instances, connections and subdomains, for TLC, and
\* the names of TunnelHosts.
EXTENDS TunnelRegistry, TunnelHosts

CONSTANTS i1, i2, c1, c2, s1

MCInstances == {i1, i2}
MCConns == {c1, c2}
MCSubs == {s1}

\* A base domain of two equal words, which a subdomain may repeat.
MCWords == {"local", "a", "https", "http"}
MCBase == <<"local", ".", "local">>

TextsUpTo(n) == UNION {[1..k -> MCWords \cup {".", ":", "/"}] : k \in 0..n}

ASSUME NamesLeadToTunnels ==
    /\ \A minted \in TextsUpTo(3) \ {<<>>}, port \in {<<>>, <<":">>, <<":", "a">>} :
          Lacks(minted, ":") /\ Lacks(minted, "/") =>
              SubdomainFromHost(HostFromPublicURL(PublicURL(minted)) \o port) = minted
    /\ \A host \in TextsUpTo(5) :
          LET found == SubdomainFromHost(host)
          IN  /\ found # <<>> => PublicURL(found) = <<"https", ":", "/", "/">> \o StripPort(host)
              /\ Lacks(host, ":") =>
                     (HostPolicy(host) <=> found # <<>> \/ host \in {Base, <<".">> \o Base})

\* The same names under a base domain with a port.
Ported == INSTANCE TunnelHosts WITH Words <- MCWords, Base <- <<"local", ":", "a">>

ASSUME PortInBaseServesNobody ==
    \A minted \in TextsUpTo(3) :
        Lacks(minted, ":") /\ Lacks(minted, "/") =>
            Ported!SubdomainFromHost(Ported!HostFromPublicURL(Ported!PublicURL(minted))) = <<>>
=============================================================================
