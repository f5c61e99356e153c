---------------------------- MODULE MCRateLimits ----------------------------
(* Counters and RateLimits for TLC: two visitors who share a fingerprint and *)
(* ask for two paths.                                                        *)
EXTENDS RateLimits, TLC

\* Model values
CONSTANTS ip1, ip2, p1, p2

From(ip, path) == [ip |-> ip, subnet |-> "net", ua |-> "ua", host |-> "h",
             fprint |-> "ja4", asn |-> 1, hosting |-> FALSE, path |-> path]

MCSignal == {From(ip, path) : ip \in {ip1, ip2}, path \in {p1, p2}}

MCCounting == {"ip_ua", "fp@host", "fp"}

MCLimit == "ip_ua" :> 2 @@ "fp@host" :> 1 @@ "fp" :> 3

\* Nothing known, an office, and a carrier known by its connection type only.
MCNetworks == {[usage |-> "", conn |-> ""], [usage |-> "business", conn |-> ""],
               [usage |-> "unknown", conn |-> "cellular"]}

\* In quarters; an office counts double here, to be exceeded by few requests.
MCFactors == "hosting" :> 1 @@ "business" :> 8 @@ "residential" :> 4
MCConnFactors == "cellular" :> 24 @@ "dialup" :> 4

ASSUME \A s \in MCSignal : IsSignal(s)

\* The two addresses are interchangeable, and so are the two paths.
Symmetry == Permutations({ip1, ip2}) \cup Permutations({p1, p2})
=============================================================================
