---------------------------- MODULE SandboxPolicy ----------------------------
(***************************************************************************)
(* What a sandbox may touch (src/src/sandbox.rs): is_path_allowed,         *)
(* is_domain_allowed, validate_network_request and NetworkPolicy.          *)
(*                                                                         *)
(* A path is the sequence of its components, "/" being the first of an     *)
(* absolute one; Path::starts_with compares components.  A domain is the   *)
(* sequence of its labels, and one ends with "." and another if it has the *)
(* other's labels and more before them.                                    *)
(***************************************************************************)
EXTENDS Naturals, Sequences, SequencesExt

RootDir == <<"/">>

\* blocked_paths
BlockedPaths ==
  {RootDir, <<"/", "etc">>, <<"/", "root">>, <<"/", "home">>, <<"/", "var">>}

StartsWith(path, prefix) == IsPrefix(prefix, path)

\* Mutant of Overrides: only the allowed directory itself is meant.
OverridesExactly(allowed, path) == path \in allowed

Overrides(allowed, path) == \E a \in allowed : StartsWith(path, a)

\* is_path_allowed of a path that canonicalize resolved, or could not.
Unresolved == << >>

IsPathAllowed(allowed, blocked, canonical) ==
  /\ canonical # Unresolved
  /\ \A b \in blocked : StartsWith(canonical, b) => Overrides(allowed, canonical)
  /\ Overrides(allowed, canonical)

-----------------------------------------------------------------------------

\* allow_network and allowed_domains of SandboxLimits.
Limits(network, domains) ==
  [allow_network |-> network, allowed_domains |-> domains]

IsSubdomain(domain, d) == Len(domain) > Len(d) /\ IsSuffix(d, domain)

MatchesDomain(domain, d) == domain = d \/ IsSubdomain(domain, d)

IsDomainAllowed(limits, domain) ==
  /\ limits.allow_network
  /\ \/ limits.allowed_domains = {}
     \/ \E d \in limits.allowed_domains : MatchesDomain(domain, d)

\* A URL as the url crate parses it: host and port may be missing, and the
\* port of its scheme counts as missing.
NoHost == << >>
NoPort == "none"
Malformed == [scheme |-> "none", host |-> NoHost, port |-> NoPort]

ValidateNetworkRequest(limits, url) ==
  /\ limits.allow_network
  /\ url # Malformed
  /\ url.host = NoHost \/ IsDomainAllowed(limits, url.host)

\* NetworkPolicy::default and validate.
AllowedSchemes == {"http", "https"}
BlockedPorts == {"22", "23", "3306", "5432", "27017", "6379"}
AllowedMethods == {"GET", "POST", "HEAD"}

\* Mutant of Validate: the scheme is not looked at.
ValidateAnyScheme(url, method) ==
  /\ url # Malformed
  /\ url.port \notin BlockedPorts
  /\ method \in AllowedMethods

Validate(url, method) ==
  /\ url # Malformed
  /\ url.scheme \in AllowedSchemes
  /\ url.port \notin BlockedPorts
  /\ method \in AllowedMethods

=============================================================================
