----------------------------- MODULE GameServer -----------------------------
(***************************************************************************)
(* GameServerHandler (handler_gameserver.cpp) driving one room: joining,   *)
(* creating, leaving and disconnecting, with the suspension points of the  *)
(* coroutine build.                                                        *)
(*                                                                         *)
(* The server is single-threaded, so the code between two lco_await points *)
(* is one atomic step; at every await of a plugin callback the handler is  *)
(* suspended and any other handler, the same handler's disconnect callback *)
(* or the same client's next message may run.  Builds without plugins or   *)
(* without coroutines have the behaviours in which a resume step follows   *)
(* its suspension at once.                                                 *)
(*                                                                         *)
(* handler[p]  GameServerHandler of connection p:                          *)
(*   attached    current_game_ is set                                      *)
(*   seat        game_peer_: the actor of the node it points to, 0 = null  *)
(*   gone        disconnected_              left   has_left_               *)
(*   lease       creation_generation_ (0 = none), with creation_game_      *)
(*   pending     pending_join_: the parked request                         *)
(*   pendingGen  the creation generation it waits for                      *)
(*   overdue     5000 ms have passed since it was parked                   *)
(*   closing     peer_->disconnect() has been called                       *)
(* join[r]     the coroutine of join request r; pc is where it stands:     *)
(*   "before" awaits OnAttach/OnCreateGame/BeforeJoin, "joined" awaits     *)
(*   OnJoinGame; added are its reservations, actor is joined_actor_id      *)
(* leave[p]    the coroutine of a Leave request (awaits OnLeave)           *)
(* drop[p]     HandleDisconnect: "leaving" awaits OnLeave                  *)
(* announced   <<actor, peer>> the room's members were told of by a Join   *)
(*             event and not yet by a Leave event                          *)
(***************************************************************************)
EXTENDS Game

CONSTANTS
    Requests,          \* join requests the clients may send
    NoRequest,
    Issuer,            \* the connection a request arrives on
    Offers,            \* what a join request may ask for
    MaxReservations    \* bound on the reservations the master server makes

Offer == [create : BOOLEAN, max : Nat, check : BOOLEAN, open : BOOLEAN,
          invited : SUBSET Users]

ASSUME GameServerAssumption ==
    /\ NoRequest \notin Requests
    /\ Issuer \in [Requests -> Peers]
    /\ Offers \subseteq Offer
    /\ MaxReservations \in Nat

VARIABLES game, handler, join, leave, drop, announced

vars == <<game, handler, join, leave, drop, announced>>

NoOffer == [create |-> FALSE, max |-> 0, check |-> FALSE, open |-> FALSE,
            invited |-> {}]

IdleJoin == [pc |-> "idle", master |-> FALSE, gen |-> 0,
             added |-> [u \in Users |-> 0], actor |-> 0, offer |-> NoOffer]

\* An authenticated connection: current_game_ is the room of its invitation.
IdleHandler == [attached |-> TRUE, seat |-> 0, gone |-> FALSE, left |-> FALSE,
                lease |-> 0, pending |-> NoRequest, pendingGen |-> 0,
                overdue |-> FALSE, closing |-> FALSE]

Init ==
    /\ game = NewGame
    /\ handler = [p \in Peers |-> IdleHandler]
    /\ join = [r \in Requests |-> IdleJoin]
    /\ leave = [p \in Peers |-> "idle"]
    /\ drop = [p \in Peers |-> [pc |-> "idle", actor |-> 0]]
    /\ announced = {}

JoinPc == {"idle", "parked", "before", "joined", "done"}

HandlerState ==
    [attached : BOOLEAN, seat : 0 .. MaxActor, gone : BOOLEAN, left : BOOLEAN,
     lease : Nat, pending : Requests \cup {NoRequest}, pendingGen : Nat,
     overdue : BOOLEAN, closing : BOOLEAN]

JoinState ==
    [pc : JoinPc, master : BOOLEAN, gen : Nat, added : [Users -> Nat],
     actor : 0 .. MaxActor, offer : Offer]

TypeOK ==
    /\ game \in GameState
    /\ handler \in [Peers -> HandlerState]
    /\ join \in [Requests -> JoinState]
    /\ leave \in [Peers -> {"idle", "awaiting", "done"}]
    /\ drop \in [Peers -> [pc : {"idle", "leaving", "done"}, actor : 0 .. MaxActor]]
    /\ announced \in SUBSET (Actors \X Peers)

-----------------------------------------------------------------------------
(* JoinGame / CreateGame, up to the first await.  h is the handler's state *)
(* at entry (HandleSlowUpdate() clears pending_join_ before it replays a   *)
(* request) and o is what the request asks for.                            *)

Ended == [IdleJoin EXCEPT !.pc = "done"]

\* The early returns that answer with an error and change nothing: already in
\* the room, another request already parked, an uninitialised room that this
\* request may not create.
RefuseJoin(r, h, o) ==
    LET p == Issuer[r] IN
    /\ \/ IsMember(game, p)
       \/ game.creating /\ h.pending # NoRequest
       \/ ~game.created /\ ~game.creating /\ ~(o.create /\ MayBeginCreation(game))
    /\ handler' = [handler EXCEPT ![p] = h]
    /\ join' = [join EXCEPT ![r] = Ended]
    /\ UNCHANGED game

\* A creation is in progress: the request waits in pending_join_.
ParkJoin(r, h, o) ==
    LET p == Issuer[r] IN
    /\ ~IsMember(game, p)
    /\ game.creating /\ h.pending = NoRequest
    /\ handler' = [handler EXCEPT ![p] =
                     [h EXCEPT !.pending = r, !.pendingGen = game.generation,
                               !.overdue = FALSE]]
    /\ join' = [join EXCEPT ![r] = [IdleJoin EXCEPT !.pc = "parked", !.offer = o]]
    /\ UNCHANGED game

\* try_begin_creation() grants the lease.  The awaits of OnAttach and of
\* OnCreateGame are one suspension: between them only disconnected_ is read.
StartAsMaster(r, h, o) ==
    LET p == Issuer[r]
        g == BeginCreation(game, p)
    IN  /\ ~IsMember(game, p)
        /\ o.create /\ MayBeginCreation(game)
        /\ game' = g
        /\ handler' = [handler EXCEPT ![p] = [h EXCEPT !.lease = g.generation]]
        /\ join' = [join EXCEPT ![r] =
                      [IdleJoin EXCEPT !.pc = "before", !.master = TRUE,
                                       !.gen = g.generation, !.offer = o]]

\* The room exists: the joiner is validated before the plugins are asked, and
\* ensure_reset rolls an invalid join back (it has no seat and no reservation).
StartAsJoiner(r, h, o) ==
    LET p == Issuer[r] IN
    /\ ~IsMember(game, p)
    /\ game.created /\ ~game.creating
    /\ IF ValidateJoin(game, UserOf[p], {}, FALSE)
       THEN /\ handler' = [handler EXCEPT ![p] = h]
            /\ join' = [join EXCEPT ![r] = [IdleJoin EXCEPT !.pc = "before", !.offer = o]]
       ELSE /\ handler' = [handler EXCEPT ![p] = [h EXCEPT !.seat = 0]]
            /\ join' = [join EXCEPT ![r] = Ended]
    /\ UNCHANGED game

EnterJoin(r, h, o) ==
    /\ \/ RefuseJoin(r, h, o)
       \/ ParkJoin(r, h, o)
       \/ StartAsMaster(r, h, o)
       \/ StartAsJoiner(r, h, o)
    /\ UNCHANGED <<leave, drop, announced>>

\* A join request arrives on an authenticated connection.
JoinRequest(r, o) ==
    /\ join[r].pc = "idle"
    /\ handler[Issuer[r]].attached
    /\ EnterJoin(r, handler[Issuer[r]], o)

-----------------------------------------------------------------------------
(* JoinGame / CreateGame, after the awaits. *)

\* Mutant: a creator's rollback does not abort the transaction.
RollbackWithoutAbort(g, r) ==
    IF join[r].master THEN g ELSE RemoveIfGeneration(g, join[r].added)

\* rollback_join() on room g.  game_peer_ belongs to the handler, not to the
\* request: any seat the handler holds is given up.
RollbackGame(g, r) ==
    LET p == Issuer[r] IN
    IF join[r].master THEN AbortCreation(g, p, join[r].gen)
    ELSE RemoveIfGeneration(IF handler[p].seat # 0 THEN RemovePeer(g, p) ELSE g,
                            join[r].added)

\* What rollback_join() leaves in the handler; close is set when the code goes
\* on to call peer_->disconnect().
RollbackHandler(r, close) ==
    LET h == handler[Issuer[r]] IN
    [h EXCEPT !.seat = 0,
              !.lease = IF join[r].master THEN 0 ELSE @,
              !.closing = @ \/ close]

\* The coroutine ends through rollback_join().
Rollback(r, close) ==
    /\ game' = RollbackGame(game, r)
    /\ handler' = [handler EXCEPT ![Issuer[r]] = RollbackHandler(r, close)]
    /\ join' = [join EXCEPT ![r] = Ended]
    /\ UNCHANGED <<leave, drop, announced>>

\* The creator's settings, applied while its lease is active.
WithSettings(g, r) ==
    IF join[r].master THEN Configure(g, join[r].offer.max, join[r].offer.check) ELSE g

\* Mutant: the validation is not repeated after the plugin's callback.
AdmissibleOnce(g, r) == FreeActors(g) # {} /\ MayAdd(g, Issuer[r])

\* Whether the request passes every check between the plugin callback and the
\* insertion of its node: validate_join(), create_peer() and add_peer().
Admissible(g, r) ==
    LET p == Issuer[r] IN
    /\ ValidateJoin(g, UserOf[p], join[r].offer.invited, join[r].master)
    /\ FreeActors(g) # {}
    /\ MayAdd(g, p)

\* The reservations the request makes for the users it invites.
WithInvited(g, r) ==
    LET p == Issuer[r] IN
    IF IsMember(g, p) THEN g ELSE Reserve(g, join[r].offer.invited \ {UserOf[p]})

AddedBy(g, g1) ==
    [u \in Users |-> IF g.expected[u] = 0 THEN g1.expected[u] ELSE 0]

LeaseHeld(r) == join[r].master => IsCreationActive(game, Issuer[r], join[r].gen)

\* OnCreateGame or BeforeJoin returned: the connection is gone, the plugin
\* refused, or the lease was lost.
BeforeAborted(r, ok) ==
    /\ join[r].pc = "before"
    /\ handler[Issuer[r]].gone \/ ~ok \/ ~LeaseHeld(r)
    /\ Rollback(r, FALSE)

\* The room does not admit the joiner any more: it is rolled back and dropped.
BeforeRejected(r) ==
    /\ join[r].pc = "before"
    /\ ~handler[Issuer[r]].gone /\ LeaseHeld(r)
    /\ ~Admissible(WithSettings(game, r), r)
    /\ Rollback(r, TRUE)

\* The joiner is admitted and OnJoinGame is asked.
BeforeAdmitted(r) ==
    LET p == Issuer[r]
        g1 == WithSettings(game, r)
        g2 == WithInvited(g1, r)
        g3 == AddNode(g2, p)
    IN  /\ join[r].pc = "before"
        /\ ~handler[p].gone /\ LeaseHeld(r)
        /\ Admissible(g1, r)
        /\ game' = g3
        /\ handler' = [handler EXCEPT ![p].seat = NextActor(g2)]
        /\ join' = [join EXCEPT ![r].pc = "joined",
                                ![r].added = AddedBy(g1, g2),
                                ![r].actor = ActorOf(g3, p)]
        /\ UNCHANGED <<leave, drop, announced>>

\* OnJoinGame returned after the connection was lost.
JoinedGone(r) ==
    /\ join[r].pc = "joined"
    /\ handler[Issuer[r]].gone
    /\ Rollback(r, FALSE)

\* The node was retired while the plugin ran.
JoinedVanished(r) ==
    LET p == Issuer[r] IN
    /\ join[r].pc = "joined"
    /\ ~handler[p].gone /\ ActorOf(game, p) # join[r].actor
    /\ game' = IF join[r].master THEN AbortCreation(game, p, join[r].gen)
               ELSE RemoveIfGeneration(game, join[r].added)
    /\ handler' = [handler EXCEPT ![p] = RollbackHandler(r, join[r].master)]
    /\ join' = [join EXCEPT ![r] = Ended]
    /\ UNCHANGED <<leave, drop, announced>>

\* The plugin refused the join: the node goes, a creator is also dropped.
JoinedRefused(r) ==
    LET p == Issuer[r] IN
    /\ join[r].pc = "joined"
    /\ ~handler[p].gone /\ ActorOf(game, p) = join[r].actor
    /\ game' = IF join[r].master THEN AbortCreation(game, p, join[r].gen)
               ELSE RemoveIfGeneration(RemovePeer(game, p), join[r].added)
    /\ handler' = [handler EXCEPT ![p] = RollbackHandler(r, join[r].master)]
    /\ join' = [join EXCEPT ![r] = Ended]
    /\ UNCHANGED <<leave, drop, announced>>

\* The join completes: a creator's remaining properties are stored and the room
\* is committed; the response is sent and the Join event is broadcast.
JoinedCompleted(r) ==
    LET p == Issuer[r]
        g1 == [game EXCEPT !.config.open = join[r].offer.open]
    IN  /\ join[r].pc = "joined"
        /\ ~handler[p].gone /\ ActorOf(game, p) = join[r].actor
        /\ IF join[r].master
           THEN MayCommit(game, p, join[r].gen) /\ game' = CommitCreation(g1)
           ELSE UNCHANGED game
        /\ handler' = [handler EXCEPT ![p].seat = join[r].actor,
                                      ![p].lease = IF join[r].master THEN 0 ELSE @]
        /\ announced' = announced \cup {<<join[r].actor, p>>}
        /\ join' = [join EXCEPT ![r] = Ended]
        /\ UNCHANGED <<leave, drop>>

ResumeBefore(r) ==
    \/ \E ok \in BOOLEAN : BeforeAborted(r, ok)
    \/ BeforeRejected(r)
    \/ BeforeAdmitted(r)

ResumeJoined(r) ==
    \/ JoinedGone(r)
    \/ JoinedVanished(r)
    \/ JoinedRefused(r)
    \/ JoinedCompleted(r)

-----------------------------------------------------------------------------
(* The parked request. *)

\* wait_started passes 5000 ms.
PendingOverdue(p) ==
    /\ handler[p].pending # NoRequest /\ ~handler[p].overdue
    /\ handler' = [handler EXCEPT ![p].overdue = TRUE]
    /\ UNCHANGED <<game, join, leave, drop, announced>>

GenerationChanged(h) == h.pendingGen # 0 /\ h.pendingGen # game.generation

Unparked(h) == [h EXCEPT !.pending = NoRequest, !.pendingGen = 0, !.overdue = FALSE]

\* HandleSlowUpdate(): the creation finished, the request is replayed.
ReplayPending(p) ==
    LET h == handler[p]
        r == h.pending
    IN  /\ r # NoRequest
        /\ game.created /\ ~game.creating /\ ~GenerationChanged(h)
        /\ EnterJoin(r, [Unparked(h) EXCEPT !.attached = TRUE], join[r].offer)

\* Mutant: a parked request has no time limit.
ExpireAborted(p) ==
    /\ handler[p].pending # NoRequest
    /\ ~game.created /\ ~game.creating
    /\ handler' = [handler EXCEPT ![p] = Unparked(handler[p])]
    /\ join' = [join EXCEPT ![handler[p].pending] = Ended]
    /\ UNCHANGED <<game, leave, drop, announced>>

\* HandleSlowUpdate(): the creation was aborted, superseded or takes too long.
ExpirePending(p) ==
    LET h == handler[p]
        r == h.pending
    IN  /\ r # NoRequest
        /\ ~(game.created /\ ~game.creating /\ ~GenerationChanged(h))
        /\ (~game.created /\ ~game.creating) \/ GenerationChanged(h) \/ h.overdue
        /\ handler' = [handler EXCEPT ![p] = Unparked(h)]
        /\ join' = [join EXCEPT ![r] = Ended]
        /\ UNCHANGED <<game, leave, drop, announced>>

HandleSlowUpdate(p) == ReplayPending(p) \/ ExpirePending(p)

-----------------------------------------------------------------------------
(* Leave and HandleDisconnect. *)

LeaveRequest(p) ==
    /\ handler[p].attached /\ leave[p] = "idle"
    /\ IsMember(game, p)
    /\ leave' = [leave EXCEPT ![p] = "awaiting"]
    /\ UNCHANGED <<game, handler, join, drop, announced>>

\* OnLeave returned; Result::Fail keeps the client in the room.
ResumeLeave(p, ok) ==
    /\ leave[p] = "awaiting"
    /\ leave' = [leave EXCEPT ![p] = IF ok THEN "done" ELSE "idle"]
    /\ handler' = IF ok THEN [handler EXCEPT ![p].left = TRUE, ![p].closing = TRUE]
                  ELSE handler
    /\ UNCHANGED <<game, join, drop, announced>>

\* Mutant: disconnected_ is not set.
DroppedConnected(h) == [Unparked(h) EXCEPT !.attached = FALSE, !.lease = 0, !.seat = 0]

\* What is left of the handler once HandleDisconnect() has moved current_game_
\* away and aborted the creation it was running.
DroppedHandler(h) ==
    [Unparked(h) EXCEPT !.gone = TRUE, !.attached = FALSE, !.lease = 0,
                        !.seat = IF h.lease # 0 THEN 0 ELSE @]

\* HandleDisconnect() up to its await.  A member that has not announced its
\* leave is kept until OnLeave returns; any other is cleaned up at once.
Disconnect(p) ==
    LET h == handler[p]
        g1 == IF h.attached /\ h.lease # 0 THEN AbortCreation(game, p, h.lease)
              ELSE game
        member == h.attached /\ IsMember(g1, p)
        a == IF member THEN ActorOf(g1, p) ELSE 0
        awaits == member /\ ~h.left
    IN  /\ ~h.gone
        /\ game' = IF member /\ h.left THEN RemovePeer(g1, p) ELSE g1
        /\ handler' = [handler EXCEPT ![p] =
                         IF awaits THEN DroppedHandler(h)
                         ELSE [DroppedHandler(h) EXCEPT !.seat = 0]]
        /\ drop' = [drop EXCEPT ![p] = IF awaits THEN [pc |-> "leaving", actor |-> a]
                                       ELSE [pc |-> "done", actor |-> 0]]
        /\ announced' = IF awaits THEN announced ELSE announced \ {<<a, p>>}
        /\ join' = [r \in Requests |-> IF r = h.pending THEN Ended ELSE join[r]]
        /\ UNCHANGED leave

\* OnLeave returned: the peer is removed and the Leave event is broadcast.
FinishDisconnect(p) ==
    /\ drop[p].pc = "leaving"
    /\ game' = RemovePeer(game, p)
    /\ handler' = [handler EXCEPT ![p].seat = 0, ![p].lease = 0]
    /\ announced' = announced \ {<<drop[p].actor, p>>}
    /\ drop' = [drop EXCEPT ![p] = [pc |-> "done", actor |-> 0]]
    /\ UNCHANGED <<join, leave>>

-----------------------------------------------------------------------------
(* The room's other clients: the master server and the scheduler. *)

\* MasterServerHandler's JoinGame reserves the user and the users it invites; a
\* created room is validated first, an uninitialised one is not.
MasterReserve(u, invited) ==
    /\ game.reservations < MaxReservations
    /\ game.created => ValidateJoin(game, u, invited, FALSE)
    /\ game' = Reserve(game, {u} \cup invited)
    /\ UNCHANGED <<handler, join, leave, drop, announced>>

\* The scheduler runs the expiry task of a reservation.
ExpireReservation(task) ==
    /\ game' = RunExpiry(game, task)
    /\ UNCHANGED <<handler, join, leave, drop, announced>>

Next ==
    \/ \E p \in Peers :
          \/ PendingOverdue(p)
          \/ HandleSlowUpdate(p)
          \/ LeaveRequest(p)
          \/ \E ok \in BOOLEAN : ResumeLeave(p, ok)
          \/ Disconnect(p)
          \/ FinishDisconnect(p)
    \/ \E r \in Requests :
          \/ \E o \in Offers : JoinRequest(r, o)
          \/ ResumeBefore(r)
          \/ ResumeJoined(r)
    \/ \E u \in Users, o \in Offers : MasterReserve(u, o.invited)
    \/ \E task \in game.expiries : ExpireReservation(task)

Spec == Init /\ [][Next]_vars

-----------------------------------------------------------------------------
(* Properties. *)

\* The coroutine of request r holds the creation lease.
RunsCreation(r) ==
    /\ join[r].master /\ join[r].pc \in {"before", "joined"}
    /\ IsCreationActive(game, Issuer[r], join[r].gen)

\* A room that is being created is being created by somebody: the lease always
\* belongs to a connected handler that remembers it and has a coroutine that
\* will commit or abort it, so no interleaving of awaits, refusals and
\* disconnects leaves is_creating set for ever.
LeaseHasHolder ==
    game.creating =>
        /\ game.owner \in Peers
        /\ ~handler[game.owner].gone
        /\ handler[game.owner].lease = game.generation
        /\ \E r \in Requests : Issuer[r] = game.owner /\ RunsCreation(r)

\* add_peer(): "A placeholder that has not begun its creation transaction must
\* never gain members; otherwise a failed creation could never be restarted."
\* Before the commit the only member a room can have is the lease's owner.
UncreatedRoomHasNoMembers ==
    ~game.created => \A n \in game.peers : game.creating /\ n.peer = game.owner

\* Once HandleDisconnect() has finished, no coroutine of that connection that is
\* still suspended can put the peer (back) into the room.
NoMemberAfterDisconnect ==
    \A p \in Peers : drop[p].pc = "done" => ~IsMember(game, p)

\* Actor numbers are unique among the members whatever numbers were freed and
\* reused, and under CheckUserOnJoin so are the members' users.
MembersDistinct ==
    \A m, n \in game.peers :
        m # n => /\ m.actor # n.actor
                 /\ game.config.check => UserOf[m.peer] # UserOf[n.peer]

\* Every reservation has a scheduled task that will end it: a seat that is held
\* for a user who never comes is always released.
ReservationsExpire ==
    \A u \in Users : game.expected[u] # 0 => <<u, game.expected[u]>> \in game.expiries

\* The members that the room was told about are still in the room, until their
\* own disconnect is handled: nobody is left with a ghost of a player who was
\* removed without a Leave event.
AnnouncedAreMembers ==
    \A e \in announced : \E n \in game.peers : n.actor = e[1] /\ n.peer = e[2]

\* rollback_join(): "A committed join is owned by normal disconnect cleanup;
\* never erase its peer through the pre-commit rollback path."
CommittedJoinKept ==
    [][\A e \in announced :
          \/ handler'[e[2]].gone
          \/ \E n \in game'.peers : n.actor = e[1] /\ n.peer = e[2]]_vars

\* Whatever changed between the first validation and the end of the plugin's
\* callback, a step that admits a member leaves members and reservations
\* together within the room's limit, the application's and the actor numbers.
AdmissionWithinCapacity ==
    [][Cardinality(game'.peers) > Cardinality(game.peers) =>
          LET seats == Cardinality(game'.peers) + Cardinality(ExpectedUsers(game'))
          IN  /\ game'.config.max > 0 => seats <= game'.config.max
              /\ AppCap > 0 => seats <= AppCap
              /\ seats <= MaxActor]_vars

CreationAborted == game.creating /\ ~game'.creating /\ ~game'.created

\* abort_creation_transaction() undoes the whole transaction: no member stays,
\* the settings are those of the placeholder, and exactly the users who were
\* expected when the lease was taken are expected again.  The reservations that
\* the master server made meanwhile, for whatever player, are gone as well.
AbortRestoresRoom ==
    [][CreationAborted =>
          /\ game'.peers = {}
          /\ game'.config = game.initial
          /\ ExpectedUsers(game') = InitialUsers(game)]_vars

\* A reservation ends only because its user joined, its own task ran, the
\* request that made it was rolled back, or it was made while the room was being
\* created, by whomever, and that creation is aborted.  It never ends through the
\* rollback or the expiry of an older reservation of the same user, and an abort
\* leaves those from before the creation alone, down to their generation.
ReservationKept ==
    [][\A u \in Users :
          LET g == game.expected[u] IN
          g # 0 /\ game'.expected[u] # g =>
             \/ \E n \in game'.peers \ game.peers : UserOf[n.peer] = u
             \/ <<u, g>> \in game.expiries \ game'.expiries
             \/ \E r \in Requests : join[r].added[u] = g /\ join'[r].pc = "done"
             \/ CreationAborted /\ g # game.initialExpected[u]]_vars

\* abort_creation_transaction(): "Roll back only reservations owned by this
\* creation attempt."  A reservation of another user that an abort ends was made
\* by the request that runs the creation.  The code does not keep to this: what
\* a client reserves through the master server during the creation ends too.
AbortEndsOwnReservations ==
    [][CreationAborted =>
          \A u \in Users \ {UserOf[game.owner]} :
             LET g == game.expected[u] IN
             g # 0 /\ game'.expected[u] # g =>
                \E r \in Requests : RunsCreation(r) /\ join[r].added[u] = g]_vars

-----------------------------------------------------------------------------
(* The inductive invariant behind the safety properties. *)

Running(r) == join[r].pc \in {"before", "joined"}

\* A handler that is gone has let go of the room, of its parked request and of
\* its lease; a handler remembers a lease only while it really holds it.
HandlerInv ==
    \A p \in Peers :
        LET h == handler[p] IN
        /\ h.gone <=> ~h.attached
        /\ h.gone => h.pending = NoRequest
        /\ drop[p].pc # "idle" => h.gone
        /\ h.pending # NoRequest =>
              Issuer[h.pending] = p /\ join[h.pending].pc = "parked"
        /\ h.lease # 0 => IsCreationActive(game, p, h.lease)

\* A suspended creator either holds the lease or has been disconnected; at most
\* one holds it; a suspended joiner's room is created and stays so.
CoroutineInv ==
    /\ \A r \in Requests : Running(r) =>
          IF join[r].master
          THEN /\ join[r].gen \in 1 .. game.generation
               /\ handler[Issuer[r]].gone \/ RunsCreation(r)
          ELSE game.created
    /\ \A r \in Requests : join[r].pc = "joined" => join[r].actor # 0
    /\ \A r, s \in Requests : RunsCreation(r) /\ RunsCreation(s) => r = s

LeaseInv == LeaseHasHolder /\ (game.creating => ~game.created)

\* While the room is being created, the users who were expected when the lease
\* was taken are those still expected under a reservation that was not made
\* during the creation, together with those recorded as removed.
InitialUsersInv ==
    game.creating =>
        InitialUsers(game) =
            {u \in ExpectedUsers(game) : game.ownReserved[u] # game.expected[u]}
                \cup game.ownRemoved

\* next_expected_user_generation is never behind a generation in use, so what is
\* reserved during a creation differs from what was reserved before it.
GenerationsInv ==
    \A u \in Users :
        /\ game.expected[u] <= game.reservations
        /\ game.initialExpected[u] <= game.reservations
        /\ game.ownReserved[u] # 0 => game.ownReserved[u] # game.initialExpected[u]

IInv ==
    /\ TypeOK
    /\ HandlerInv
    /\ CoroutineInv
    /\ LeaseInv
    /\ UncreatedRoomHasNoMembers
    /\ NoMemberAfterDisconnect
    /\ MembersDistinct
    /\ ReservationsExpire
    /\ InitialUsersInv
    /\ GenerationsInv

-----------------------------------------------------------------------------
(* The invariant behind AnnouncedAreMembers. *)

\* No connection sends a second join request.
OneRequest == \A r, s \in Requests : Issuer[r] = Issuer[s] => r = s

\* A member's requests have passed the admission, and the member has one actor
\* number; the requests of an announced member have ended, and a disconnect
\* that waits for OnLeave will announce the departure of that very actor.
PresentAt(p) ==
    /\ \A n \in NodesOf(game, p) :
          /\ \A r \in Requests : Issuer[r] = p => join[r].pc \in {"joined", "done"}
          /\ \A m \in NodesOf(game, p) : m.actor = n.actor
    /\ \A e \in announced : e[2] = p =>
          /\ \E n \in NodesOf(game, p) : n.actor = e[1]
          /\ \A r \in Requests : Issuer[r] = p => join[r].pc = "done"
          /\ drop[p].pc = "leaving" => drop[p].actor = e[1]

PresenceInv == \A p \in Peers : PresentAt(p)

-----------------------------------------------------------------------------
(* Liveness. *)

\* run_once() calls HandleSlowUpdate() of every connection every 250 ms and time
\* passes.  Nothing is assumed of the clients or the plugins.
SlowUpdateFairness ==
    \A p \in Peers : WF_vars(PendingOverdue(p)) /\ WF_vars(HandleSlowUpdate(p))

\* A plugin's callback that the handler awaits returns.
PluginFairness ==
    /\ \A r \in Requests : WF_vars(ResumeBefore(r)) /\ WF_vars(ResumeJoined(r))
    /\ \A p \in Peers : WF_vars(FinishDisconnect(p))

\* peer_->disconnect() is followed by the Disconnected state change.
CloseFairness ==
    \A p \in Peers : WF_vars(handler[p].closing /\ Disconnect(p))

FairSpec == Spec /\ SlowUpdateFairness

\* A parked join is answered or replayed even when the creator's plugin never
\* returns: the creation finishes, is aborted, is superseded or times out.
PendingResolved ==
    \A p \in Peers : handler[p].pending # NoRequest ~> handler[p].pending = NoRequest

\* If plugins return, a creation that was begun is committed or aborted.
CreationEnds == PluginFairness => (game.creating ~> ~game.creating)

\* If plugins return and closed connections are reported, a connection the server
\* decided to close ends up outside the room.
ClosedPeerLeaves ==
    PluginFairness /\ CloseFairness =>
        \A p \in Peers : handler[p].closing ~> (handler[p].gone /\ ~IsMember(game, p))
=============================================================================
