------------------------- MODULE MCUsageAccounting -------------------------
(* UsageAccounting with values for TLC: hours of two instants, days of two    *)
(* hours, two customers sharing a paid slot, and a gateway paid by traffic.   *)
EXTENDS UsageAccounting

CONSTANTS none, k1, k2

MCIntervalLength == [hour |-> 2, day |-> 4]

Pricing == [mobile |-> [model |-> "per_device_month", amountUsd |-> 3],
            gateway |-> [model |-> "per_gib", amountUsd |-> 2]]

Route(customer) == [customerId |-> customer, jobId |-> none, country |-> "US"]
ResolutionOf(primary) ==
    [primaryProvider |-> primary, capacityConstraint |-> none, establishmentWaitMs |-> 0]
NoUpstream == [proxySlotId |-> none, upstreamConnectionStartedAt |-> none,
               capacityPressureProvider |-> none]
SlotUpstream(start) == [NoUpstream EXCEPT !.proxySlotId = "s1", !.upstreamConnectionStartedAt = start]

Input(id, op, provider, outcome, bytes, start, end, upstream) ==
    [attemptId |-> id, operationId |-> op, provider |-> provider, outcome |-> outcome,
     bytes |-> bytes, attemptStartedAt |-> start, completedAt |-> end, upstream |-> upstream]

\* An operation whose first attempt, on a slot, is given up and whose second is
\* served by the gateway for want of capacity; and another customer on the slot,
\* over the end of an hour.
MCTraffic ==
    {Priced(attemptUsageRecord(Route("a"), ResolutionOf("mobile"),
        Input("r1", "op1", "mobile", "retry", 1, 0, 2, SlotUpstream(1))), Pricing),
     Priced(attemptUsageRecord(Route("a"), ResolutionOf("mobile"),
        Input("r2", "op1", "gateway", "success", 2, 1, 2,
              [NoUpstream EXCEPT !.capacityPressureProvider = "mobile"])), Pricing),
     Priced(attemptUsageRecord(Route("b"), ResolutionOf("mobile"),
        Input("r3", "op2", "mobile", "success", 1, 0, 3, SlotUpstream(0))), Pricing)}

Total(provider, start, end, amount, version) ==
    [provider |-> provider, periodStartedAt |-> start, periodEndsAt |-> end,
     amountUsd |-> amount, sourceVersion |-> version]
MCPublications == <<{Total("mobile", 0, 4, 13, 1), Total("gateway", 0, 4, 4, 1)}>>

MCSlotPeriods ==
    {[provider |-> "mobile", id |-> "c1", proxySlotId |-> "s1", periodStartedAt |-> 0,
      periodEndsAt |-> 4, priceUsd |-> 3, country |-> "US", health |-> "healthy"]}
============================================================================
