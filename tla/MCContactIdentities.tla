------------------------ MODULE MCContactIdentities ------------------------
(* Contact identities on a small instance: an address resolved, two asked  *)
(* for in either order, and one asked for twice by a single call.          *)
EXTENDS ContactIdentities

CONSTANTS k1, k2

Resolving(k) == [kind |-> "resolve", keys |-> <<k>>]
Creating(ks) == [kind |-> "create", keys |-> ks]

SmallRequests ==
  {Resolving(k1), Creating(<<k1, k2>>), Creating(<<k2, k1>>), Creating(<<k1, k1>>)}

TwoResolves == {Resolving(k1)}

===========================================================================
