----------------------------- MODULE RedirectRules -----------------------------
(***************************************************************************)
(* Which redirect URIs a client may register and use                       *)
(* (authsrv/redirect.go).                                                  *)
(*                                                                         *)
(* A URI is the record of the parts the rules tell apart: clean says that  *)
(* it parses, is absolute and has neither user information nor fragment;   *)
(* rest is its path and query.                                             *)
(***************************************************************************)
CONSTANTS
    Exact,         \* the URIs allowed by exact match: defaults and configured extras
    LoopbackHosts  \* localhost and the loopback addresses

IsURI(u) ==
    /\ u = [scheme |-> u.scheme, host |-> u.host, port |-> u.port,
            rest |-> u.rest, clean |-> u.clean]
    /\ u.clean \in BOOLEAN

isLoopbackHost(host) == host \in LoopbackHosts

LoopbackURI(u) == u.clean /\ u.scheme = "http" /\ isLoopbackHost(u.host)

(* Variant: any http URI passes.                                           *)
allowed_AnyHttp(u) == u.clean /\ (u.scheme = "http" \/ u \in Exact)

(* Plain http is for loopback only; everything else must be listed.        *)
allowed(u) ==
    /\ u.clean
    /\ IF u.scheme = "http" THEN isLoopbackHost(u.host) ELSE u \in Exact

(* Exact match, except that the port of a loopback URI is free: a native   *)
(* client binds a new one for every login.                                 *)
matchRegistered(registered, u) ==
    \/ u \in registered
    \/ /\ LoopbackURI(u)
       /\ \E r \in registered :
            LoopbackURI(r) /\ r.host = u.host /\ r.rest = u.rest
===============================================================================
