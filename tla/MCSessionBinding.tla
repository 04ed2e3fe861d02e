-------------------------- MODULE MCSessionBinding --------------------------
(* SessionBinding with values for TLC: the two adapters' descriptors, two     *)
(* slots in two cities, and a profile that is later narrowed to one of them.  *)
EXTENDS SessionBinding, TLC

CONSTANTS none, o1, o2

Everywhere == [country |-> none, region |-> none, city |-> none, postalCode |-> none,
               asn |-> none, carrier |-> none]
Trusted == [http |-> "provider_trusted", socks5 |-> "provider_trusted"]
MCDescriptor ==
    [mobile |->
        [providerClass |-> "device_backed", costRank |-> 2,
         pricing |-> [model |-> "per_device_month", amountUsd |-> 1],
         capabilities |->
            [clientProtocols |-> {"http", "https", "socks5"}, sessions |-> TRUE,
             exactCity |-> "verifiable", rotation |-> {"interval", "manual"},
             targetPorts |-> none, countries |-> {"US"},
             geography |-> {"country", "region", "city", "carrier"},
             destinationSafety |-> Trusted, providerNetworkScope |-> "external_public_only"]],
     gateway |->
        [providerClass |-> "residential", costRank |-> 1,
         pricing |-> [model |-> "per_gib", amountUsd |-> 2],
         capabilities |->
            [clientProtocols |-> {"http", "https", "socks5"}, sessions |-> TRUE,
             exactCity |-> "provider_guaranteed", rotation |-> {"per_request", "interval", "manual"},
             targetPorts |-> none, countries |-> none, geography |-> TargetingKeys,
             destinationSafety |-> Trusted, providerNetworkScope |-> "external_public_only"]]]

MCOrder == [gateway |-> 1, mobile |-> 2, other |-> 3, s1 |-> 1, s2 |-> 2]
MCWeights == [reliability |-> 30, headroom |-> 30, performance |-> 20, costEfficiency |-> 15,
              stability |-> 5]

MCSlotInfo == [s1 |-> [country |-> "US", region |-> "NY", city |-> "nyc", carrier |-> "t"],
               s2 |-> [country |-> "US", region |-> "IL", city |-> "chi", carrier |-> "t"]]
Profile(targeting) ==
    [providerOverride |-> none, allowedProtocols |-> {"http"}, targeting |-> targeting,
     protocol |-> "http", port |-> 443]
MCProfiles == <<Profile(Everywhere), Profile([Everywhere EXCEPT !.city = "chi"])>>

\* Sessions: never connected; on a slot; on the gateway, where a fallback left it
\* and the preferred class has been seen healthy since.
Bound(provider, endpoint) ==
    [provider |-> provider, endpoint |-> endpoint, profile |-> profileBindingFingerprint(1)]
Stored(bound, since) ==
    [status |-> "open", version |-> 0, bound |-> bound, healthySince |-> since,
     disconnectedAt |-> none]
MCInitialSessions ==
    {Stored(none, none), Stored(Bound("mobile", Slot("s1")), none),
     Stored(Bound("gateway", <<"hash", SessionHandle, 0>>), 0)}

Attempt(provider, slot, outcome, age, wait) ==
    [provider |-> provider, slot |-> slot, endpointId |-> slot, outcome |-> outcome, age |-> age,
     wait |-> wait, bytes |-> 1, connected |-> 2, failover |-> FALSE, capacityPressure |-> FALSE,
     pressureProvider |-> none]
MCRecent == {Attempt("mobile", "s1", "success", 0, 1)}
MCScoredRecords ==
    {Attempt("mobile", "s1", "success", 0, 1), Attempt("mobile", "s2", "failure", 1, 4),
     [Attempt("gateway", none, "success", 2, none) EXCEPT !.failover = TRUE],
     [Attempt("mobile", "s1", "http_error", 1, 0) EXCEPT !.capacityPressure = TRUE]}
MCReferenceCost == Whole(1)
MCSymmetry == Permutations(Ops)
=============================================================================
