---------------------------- MODULE MCGameServer ----------------------------
(* Instances of GameServer for TLC. *)
EXTENDS GameServer, TLC

CONSTANTS p1, p2, p3, u1, u2, r1, r2, r3

\* Three connections, two of them of the same user, one request each.
Peers3 == {p1, p2, p3}
Users2 == {u1, u2}
UserOf3 == (p1 :> u1) @@ (p2 :> u2) @@ (p3 :> u2)
Requests3 == {r1, r2, r3}
Issuer3 == (r1 :> p1) @@ (r2 :> p2) @@ (r3 :> p3)

\* Two connections, the second of which sends two requests.
Peers2 == {p1, p2}
UserOf2 == (p1 :> u1) @@ (p2 :> u2)
Issuer2 == (r1 :> p1) @@ (r2 :> p2) @@ (r3 :> p2)

Requests2 == {r1, r2}
Issuer12 == (r1 :> p1) @@ (r2 :> p2)

Plain(create, max, check, invited) ==
    [create |-> create, max |-> max, check |-> check, open |-> TRUE, invited |-> invited]

\* A creator of a room of two that invites u2, a creator of a room without user
\* check, a creator that closes its room at once, and a plain joiner.
Inviting == Plain(TRUE, 2, TRUE, {u2})
Unchecked == Plain(TRUE, 2, FALSE, {})
Closed == [Plain(TRUE, 0, TRUE, {}) EXCEPT !.open = FALSE]
JoinOnly == Plain(FALSE, 0, TRUE, {})

OffersAdmission == {Inviting, Unchecked, JoinOnly}
OffersReservations == {Inviting, Closed}
OffersTwice == {Inviting, Unchecked}
=============================================================================
