---------------------------- MODULE ProbeTargets ----------------------------
(***************************************************************************)
(* Which targets a check probes and with which protocol (src/main.rs and   *)
(* src/types.rs): the protocol of the command line or of the               *)
(* configuration, the --host or --url given or else the configured base    *)
(* domains, each tried test_count times.                                   *)
(***************************************************************************)
EXTENDS Naturals, Sequences

CONSTANT Hosts

Keys == {"http", "tls12", "tls13", "quic"}

\* no protocol: an error
Refused == "refused"

\* a domain without a scheme, or a URL of one
Domain == [scheme : {"none", "http", "https", "other"}, host : Hosts]

\* explicit: --probe-protocol, or NotGiven; cli: --host or --url, if any
NotGiven == "not given"
Request == [explicit : Keys \cup {NotGiven}, preferred : Keys, enabled : SUBSET Keys,
            cli : {<<>>} \cup {<<d>> : d \in Domain}, domains : Seq(Domain), testCount : Nat]

Target == [host : Hosts, protocol : Keys]

-----------------------------------------------------------------------------
Explicit(r) == r.explicit # NotGiven
Wanted(r)   == IF Explicit(r) THEN r.explicit ELSE r.preferred

\* selected_protocol
Selected(r) == IF Wanted(r) \in r.enabled THEN Wanted(r) ELSE Refused

\* parse_target_request: the scheme of a URL decides before the configuration does,
\* but not before the command line
ProtocolFor(d, r) ==
  CASE d.scheme = "none" -> IF Selected(r) = "quic" THEN Refused ELSE Selected(r)
    [] d.scheme = "http" -> IF Explicit(r) /\ Selected(r) # "http" THEN Refused ELSE "http"
    [] d.scheme = "https" -> IF Selected(r) \in {"tls12", "tls13"} THEN Selected(r)
                             ELSE IF Selected(r) = "http" /\ ~Explicit(r) THEN "tls12"
                             ELSE Refused
    [] OTHER -> Refused

\* mutant of Usable: what a URL asks for need not be enabled
UsableUnchecked(d, r) == ProtocolFor(d, r) # Refused

\* protocol_enabled, of the primary target and of every base domain
Usable(d, r) == ProtocolFor(d, r) \in r.enabled

\* base domains count only without --host and --url
Asked(r) == IF r.cli # <<>> THEN r.cli ELSE r.domains

Acceptable(r) ==
  /\ Selected(r) # Refused
  /\ Asked(r) # <<>> /\ r.testCount > 0
  /\ \A i \in DOMAIN Asked(r) : Usable(Asked(r)[i], r)

\* build_strategy_targets: each domain test_count times, in order
TargetsOf(r) ==
  [n \in 1 .. Len(Asked(r)) * r.testCount |->
     LET d == Asked(r)[((n - 1) \div r.testCount) + 1]
     IN  [host |-> d.host, protocol |-> ProtocolFor(d, r)]]
=============================================================================
