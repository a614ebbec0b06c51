----------------------- MODULE MCGiteaClientSingleton -----------------------
(* Instances of GiteaClientSingleton for TLC. *)
EXTENDS GiteaClientSingleton, TLC

CONSTANTS r1, r2, r3

ThreeCallers == {r1, r2, r3}

OneCaller == {r1}
=============================================================================
