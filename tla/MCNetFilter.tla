---------------------------- MODULE MCNetFilter -----------------------------
(***************************************************************************)
(* Instances of NetFilter for TLC.                                         *)
(***************************************************************************)
EXTENDS NetFilter, TLC

CONSTANTS lo, lan,   \* networks
          six,       \* a network that is not added by itself
          h1,        \* a host in lan
          h2,        \* a host in six
          r1, r2

ThreeInterfaces == <<lo, six, lan>>

Filter(networks, interfaces) ==
    [AllowNetworks |-> networks, AllowInterfaces |-> interfaces, DisableIPFilter |-> FALSE]
SomeConfigurations ==
    {Filter({}, {}), Filter({six}, {}), Filter({}, {lan}),
     [Filter({}, {}) EXCEPT !.DisableIPFilter = TRUE]}

LanAndSix == h1 :> lan @@ h2 :> six

=============================================================================
