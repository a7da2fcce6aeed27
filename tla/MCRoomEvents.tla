---------------------------- MODULE MCRoomEvents ----------------------------
(* Instances of RoomEvents for TLC. *)
EXTENDS RoomEvents, TLC

CONSTANTS e1, e2

Raises2 == {e1, e2}
Symmetry == Permutations(Raises2)

To(op, to) == [DefaultAsk EXCEPT !.op = op, !.to = to]

\* Events that are cached, for the others or for all.
Caching == {To("AddToRoomCache", "Others"), To("AddToRoomCache", "All"),
            To("AddToRoomCacheGlobal", "Others")}

\* Events that may not be cached.
Passing == {To("DoNotCache", "All"), To("AddToRoomCache", "MasterClient"),
            To("AddToRoomCache", "List"),
            [To("AddToRoomCache", "List") EXCEPT !.list = {2}],
            [To("AddToRoomCache", "All") EXCEPT !.group = 1]}

Removing == {To("RemoveFromCacheForActorsLeft", "Others"),
             To("RemoveFromRoomCache", "Others"),
             [To("RemoveFromRoomCache", "List") EXCEPT !.list = {1}],
             [To("RemoveFromRoomCache", "Others") EXCEPT !.code = 7]}

AllAsks == Caching \cup Passing \cup Removing
=============================================================================
