----------------------------- MODULE MCDiscovery -----------------------------
(* Small instances of Discovery for TLC.                                   *)
EXTENDS Discovery, TLC

CONSTANTS a, b, c, h1, h2

OnTwoHosts == (a :> h1) @@ (b :> h2) @@ (c :> h1)

OneEach == (a :> {"general", "local"}) @@ (b :> {"local"}) @@ (c :> {"general"})

NamesOneTwice == {<<h2, h2>>}

=============================================================================
