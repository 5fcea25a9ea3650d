-------------------------- MODULE MCAuthorizationFlow --------------------------
(* AuthorizationFlow with two logins, a loopback client, a listed https URI *)
(* and URIs that must be refused.                                           *)
EXTENDS AuthorizationFlow, TLC

URI(scheme, host, port, rest) ==
    [scheme |-> scheme, host |-> host, port |-> port, rest |-> rest, clean |-> TRUE]

Loopback    == URI("http", "localhost", 1, "/cb")
OtherPort   == URI("http", "localhost", 2, "/cb")
OtherPath   == URI("http", "localhost", 1, "/other")
Hosted      == URI("https", "claude.ai", 443, "/cb")
Unencrypted == URI("http", "example.com", 80, "/cb")

MCExact == {Hosted}
MCURIs == {Loopback, OtherPort, OtherPath, Hosted, Unencrypted}
MCRegistrations == {{Loopback}, {Hosted, Unencrypted}, {Hosted}}

(* The new key is first made known, then used, and the old one dropped.    *)
MCRings == <<<<"old">>, <<"old", "new">>, <<"new", "old">>, <<"new">>>>
ASSUME RingsAnnounced == KeysAnnounced

Symmetry == Permutations(Handlers)
===============================================================================
