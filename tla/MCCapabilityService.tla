------------------------- MODULE MCCapabilityService ------------------------
(* One capability with a key and one without, two saves that may overlap,   *)
(* and two starts of the process, each with either of two secrets.          *)
EXTENDS CapabilityService, TLC

CONSTANTS weather, time, g1, g2, a1, a2, s1, s2, r1, r2

MCCapabilities == {weather, time}
MCKeyed == {weather}
MCConfigurations == {g1, g2}
MCApiKeys == {a1, a2}
MCSecrets == {s1, s2}
MCRequests == {r1, r2}
MCSeeds == [c \in MCCapabilities |->
  [enabled |-> TRUE, configuration |-> g1, apiKey |-> IF c = weather THEN a1 ELSE NoKey]]
MCCommands == AllCommands
=============================================================================
