------------------------- MODULE MCPeerPersistence -------------------------
(* An instance of PeerPersistence for TLC: a parent with a master and a    *)
(* game server, and a child with a game server.                            *)
EXTENDS PeerPersistence, TLC

CONSTANTS parent, child, m1, g1, g2

Processes2 == {parent, child}
Neighbours2 == (parent :> {child}) @@ (child :> {parent})
Conns3 == {m1, g1, g2}
ProcessOf3 == (m1 :> parent) @@ (g1 :> child) @@ (g2 :> parent)
Role3 == (m1 :> "master") @@ (g1 :> "game") @@ (g2 :> "game")
=============================================================================
