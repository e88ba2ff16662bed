-------------------------- MODULE Realtime_proofs ---------------------------
(***************************************************************************)
(* Proofs about Realtime, for any tabs and users, any number of comments   *)
(* and any length of a snapshot.                                           *)
(***************************************************************************)
EXTENDS Realtime, FiniteSetTheorems, TLAPS

-----------------------------------------------------------------------------
(* The comments                                                            *)

\* the types the argument needs
CommentsTyped ==
  /\ saved \in 0..MaxComments
  /\ joining \in [Sockets -> JoinMessage]
  /\ seen \in [Sockets -> SUBSET Int]
  /\ followedFrom \in [Sockets -> Int]

\* the comments after the first n are with the tab or on their way to it
CaughtUpFrom(s, n) == (n + 1)..saved \subseteq seen[s] \cup unannounced

\* A tab that follows the comments is in the room, and so is one whose project.join went
\* past the door and was not followed by a project.leave; whatever came after its snapshot was
\* read has been sent to it or will be.
Following ==
  \A s \in Sockets:
    /\ followedFrom[s] # Never => s \in room
    /\ joining[s].at \in {"entered", "read"} /\ joining[s].stayed => s \in room
    /\ joining[s].at = "read" =>
         /\ joining[s].upTo <= saved
         /\ (joining[s].stayed => CaughtUpFrom(s, joining[s].upTo))

RealtimeInv == CommentsTyped /\ Following /\ NothingFallsBetween

\* What a project.join keeps is determined by how far it has come.
LEMMA JoinShapes ==
  ASSUME NEW m \in JoinMessage
  PROVE  /\ m.at \in {"none", "allowed", "entered", "read"}
         /\ m.at = "entered" => m.stayed \in BOOLEAN
         /\ m.at = "read" => m.stayed \in BOOLEAN /\ m.upTo \in 0..MaxComments
  BY DEF JoinMessage, NotJoining

LEMMA JoinMessages ==
  /\ NotJoining \in JoinMessage
  /\ [at |-> "allowed"] \in JoinMessage
  /\ \A b \in BOOLEAN: [at |-> "entered", stayed |-> b] \in JoinMessage
  /\ \A b \in BOOLEAN, n \in 0..MaxComments:
       [at |-> "read", stayed |-> b, upTo |-> n] \in JoinMessage
  BY DEF JoinMessage

LEMMA RealtimeInitially == RealtimeInit => RealtimeInv
  <1> SUFFICES ASSUME RealtimeInit PROVE RealtimeInv
    OBVIOUS
  <1>1. CommentsTyped
    BY JoinMessages, RealtimeAssumption DEF RealtimeInit, CommentsTyped, Never
  <1>2. Following
    BY DEF RealtimeInit, Following, NotJoining
  <1>3. NothingFallsBetween
    BY DEF RealtimeInit, NothingFallsBetween
  <1> QED
    BY <1>1, <1>2, <1>3 DEF RealtimeInv

\* Steps that touch neither room, messages, comments nor what was seen.
LEMMA UntouchedKept ==
  ASSUME RealtimeInv,
         UNCHANGED <<room, joining, saved, unannounced, seen, followedFrom>>
  PROVE  RealtimeInv'
  BY DEF RealtimeInv, CommentsTyped, Following, NothingFallsBetween, CaughtUpFrom

\* A connection that ends takes its place in the room, its messages and what it saw along.
LEMMA DisconnectKeeps ==
  ASSUME RealtimeInv, NEW s \in Sockets, Disconnect(s)
  PROVE  RealtimeInv'
  <1> USE DEF Disconnect, RealtimeInv
  <1>1. CommentsTyped'
    BY JoinMessages, RealtimeAssumption DEF CommentsTyped, Never
  <1>2. Following'
    BY DEF Following, CommentsTyped, CaughtUpFrom, NotJoining
  <1>3. NothingFallsBetween'
    BY DEF NothingFallsBetween, CommentsTyped
  <1> QED
    BY <1>1, <1>2, <1>3

LEMMA RestartKeeps ==
  ASSUME RealtimeInv, Restart
  PROVE  RealtimeInv'
  <1> USE DEF Restart, RealtimeInv
  <1>1. CommentsTyped'
    BY JoinMessages, RealtimeAssumption DEF CommentsTyped, Never
  <1>2. Following'
    BY DEF Following, NotJoining
  <1>3. NothingFallsBetween'
    BY DEF NothingFallsBetween
  <1> QED
    BY <1>1, <1>2, <1>3

LEMMA BeginJoinKeeps ==
  ASSUME RealtimeInv, NEW s \in Sockets, BeginJoin(s)
  PROVE  RealtimeInv'
  <1> USE DEF BeginJoin, RealtimeInv
  <1>1. CommentsTyped'
    BY JoinMessages DEF CommentsTyped
  <1>2. Following'
    BY DEF Following, CommentsTyped, CaughtUpFrom
  <1>3. NothingFallsBetween'
    BY DEF NothingFallsBetween
  <1> QED
    BY <1>1, <1>2, <1>3

LEMMA EnterRoomKeeps ==
  ASSUME RealtimeInv, NEW s \in Sockets, EnterRoom(s)
  PROVE  RealtimeInv'
  <1> USE DEF EnterRoom, RealtimeInv
  <1>1. CommentsTyped'
    BY JoinMessages DEF CommentsTyped
  <1>2. Following'
    BY DEF Following, CommentsTyped, CaughtUpFrom
  <1>3. NothingFallsBetween'
    BY DEF NothingFallsBetween
  <1> QED
    BY <1>1, <1>2, <1>3

\* The snapshot leaves nothing to catch up on: there is no comment after it yet.
LEMMA ReadSnapshotKeeps ==
  ASSUME RealtimeInv, NEW s \in Sockets, ReadSnapshot(s)
  PROVE  RealtimeInv'
  <1> USE DEF ReadSnapshot, RealtimeInv
  <1>1. joining[s].stayed \in BOOLEAN
    BY JoinShapes DEF CommentsTyped
  <1>2. CommentsTyped'
    BY <1>1, JoinMessages DEF CommentsTyped
  <1>3. (saved + 1)..saved = {}
    BY DEF CommentsTyped
  <1>4. Following'
    BY <1>3 DEF Following, CommentsTyped, CaughtUpFrom
  <1>5. NothingFallsBetween'
    BY DEF NothingFallsBetween
  <1> QED
    BY <1>2, <1>4, <1>5

\* The snapshot holds what was saved when it was read, as far as it goes; the rest came later.
LEMMA EmitSnapshotKeeps ==
  ASSUME RealtimeInv, NEW s \in Sockets, EmitSnapshot(s)
  PROVE  RealtimeInv'
  <1> USE DEF EmitSnapshot, RealtimeInv
  <1>1. joining[s].stayed \in BOOLEAN /\ joining[s].upTo \in 0..MaxComments
    BY JoinShapes DEF CommentsTyped
  <1>2. CommentsTyped'
    BY <1>1, JoinMessages DEF CommentsTyped, Snapshot
  <1>3. Following'
    BY <1>1 DEF Following, CommentsTyped, CaughtUpFrom, NotJoining
  <1>4. NothingFallsBetween'
    <2> SUFFICES ASSUME NEW r \in Sockets, followedFrom'[r] # Never,
                        NEW i \in (1..saved) \ (seen'[r] \cup unannounced)
                 PROVE  SnapshotLimit < i /\ i <= followedFrom'[r]
      BY DEF NothingFallsBetween
    <2>1. CASE r # s
      BY <2>1 DEF NothingFallsBetween, CommentsTyped
    <2>2. CASE r = s /\ followedFrom[s] # Never
      BY <2>2 DEF NothingFallsBetween, CommentsTyped
    <2>3. CASE r = s /\ followedFrom[s] = Never
      <3>1. joining[s].stayed /\ followedFrom'[s] = joining[s].upTo
        BY <2>3 DEF CommentsTyped
      <3>2. CaughtUpFrom(s, joining[s].upTo)
        BY <3>1 DEF Following
      <3>3. i <= joining[s].upTo
        BY <1>1, <2>3, <3>2 DEF CaughtUpFrom, CommentsTyped
      <3>4. i \notin Snapshot(joining[s].upTo)
        BY <2>3 DEF CommentsTyped
      <3>5. SnapshotLimit < i
        BY <1>1, <3>3, <3>4, RealtimeAssumption DEF Snapshot, CommentsTyped
      <3> QED
        BY <2>3, <3>1, <3>3, <3>5
    <2> QED
      BY <2>1, <2>2, <2>3
  <1> QED
    BY <1>2, <1>3, <1>4

LEMMA LeftKeeps ==
  ASSUME RealtimeInv, NEW s \in Sockets, Left(s)
  PROVE  RealtimeInv'
  <1> DEFINE m == IF joining[s].at \in {"entered", "read"}
                    THEN [joining[s] EXCEPT !.stayed = FALSE] ELSE joining[s]
  <1>1. m \in JoinMessage
    BY DEF RealtimeInv, CommentsTyped, JoinMessage, NotJoining
  <1>2. /\ joining' = [joining EXCEPT ![s] = m]
        /\ m.at = joining[s].at
        /\ m.at \in {"entered", "read"} => m.stayed = FALSE
        /\ m.at = "read" => m.upTo = joining[s].upTo
    BY DEF Left, RealtimeInv, CommentsTyped, JoinMessage, NotJoining
  <1>3. /\ room' = room \ {s}
        /\ followedFrom' = [followedFrom EXCEPT ![s] = Never]
        /\ UNCHANGED <<saved, unannounced, seen>>
    BY DEF Left
  <1> HIDE DEF m
  <1> USE DEF RealtimeInv
  <1>4. CommentsTyped'
    BY <1>1, <1>2, <1>3, RealtimeAssumption DEF CommentsTyped, Never
  <1>5. Following'
    BY <1>2, <1>3 DEF Following, CommentsTyped, CaughtUpFrom
  <1>6. NothingFallsBetween'
    BY <1>3 DEF NothingFallsBetween, CommentsTyped
  <1> QED
    BY <1>4, <1>5, <1>6

LEMMA SubscribeKeeps ==
  ASSUME RealtimeInv, NEW s \in Sockets, SubscribeToProject(s)
  PROVE  RealtimeInv'
  BY DEF RealtimeInv, SubscribeToProject, CommentsTyped, Following, NothingFallsBetween, CaughtUpFrom

\* A new comment is still to be announced, to everybody.
LEMMA SaveCommentKeeps ==
  ASSUME RealtimeInv, SaveComment
  PROVE  RealtimeInv'
  <1> USE DEF SaveComment, RealtimeInv
  <1>1. saved' \in 0..MaxComments /\ saved' = saved + 1
    BY RealtimeAssumption DEF CommentsTyped
  <1>2. CommentsTyped'
    BY <1>1 DEF CommentsTyped
  <1>3. Following'
    <2> SUFFICES ASSUME NEW s \in Sockets, joining[s].at = "read"
                 PROVE  /\ joining[s].upTo <= saved'
                        /\ joining[s].stayed => CaughtUpFrom(s, joining[s].upTo)'
      BY DEF Following
    <2>1. joining[s].upTo \in 0..MaxComments
      BY JoinShapes DEF CommentsTyped
    <2>2. joining[s].upTo <= saved'
      BY <1>1, <2>1 DEF Following, CommentsTyped
    <2>3. ASSUME joining[s].stayed PROVE CaughtUpFrom(s, joining[s].upTo)'
      <3>1. CaughtUpFrom(s, joining[s].upTo)
        BY <2>3 DEF Following
      <3> QED
        BY <3>1, <2>1, <1>1 DEF CaughtUpFrom, CommentsTyped
    <2> QED
      BY <2>2, <2>3
  <1>4. NothingFallsBetween'
    BY <1>1 DEF NothingFallsBetween, CommentsTyped
  <1> QED
    BY <1>2, <1>3, <1>4

\* What is announced reaches every tab in the room, hence every tab that follows.
LEMMA EmitCommentKeeps ==
  ASSUME RealtimeInv, NEW i \in Comments, EmitCommentCreated(i)
  PROVE  RealtimeInv'
  <1> USE DEF EmitCommentCreated, RealtimeInv
  <1>1. CommentsTyped'
    BY DEF CommentsTyped, Comments
  <1>2. Following'
    BY DEF Following, CommentsTyped, CaughtUpFrom
  <1>3. NothingFallsBetween'
    BY DEF NothingFallsBetween, Following, CommentsTyped
  <1> QED
    BY <1>1, <1>2, <1>3

\* A tab that was given the snapshot of the comments of a project and has not left is sent
\* every comment saved since, whatever is saved, announced, left, lost or restarted meanwhile
\* (project-comments.gateway.ts:208).
THEOREM CommentsReachFollowers == RealtimeSpec => []NothingFallsBetween
  <1>1. RealtimeInit => RealtimeInv
    BY RealtimeInitially
  <1>2. RealtimeInv /\ [RealtimeNext]_<<realtimeVars, call>> => RealtimeInv'
    <2> SUFFICES ASSUME RealtimeInv, [RealtimeNext]_<<realtimeVars, call>>
                 PROVE  RealtimeInv'
      OBVIOUS
    <2>1. ASSUME NEW s \in Sockets, Connect(s) PROVE RealtimeInv'
      BY <2>1, UntouchedKept DEF Connect
    <2>2. ASSUME NEW s \in Sockets, Authenticated(s) PROVE RealtimeInv'
      BY <2>2, UntouchedKept DEF Authenticated
    <2>3. ASSUME NEW s \in Sockets, Refused(s) PROVE RealtimeInv'
      BY <2>3, UntouchedKept DEF Refused
    <2>4. ASSUME NEW s \in Sockets, Disconnect(s) PROVE RealtimeInv'
      BY <2>4, DisconnectKeeps
    <2>5. CASE Restart
      BY <2>5, RestartKeeps
    <2>6. ASSUME NEW s \in Sockets, BeginJoin(s) PROVE RealtimeInv'
      BY <2>6, BeginJoinKeeps
    <2>7. ASSUME NEW s \in Sockets, EnterRoom(s) PROVE RealtimeInv'
      BY <2>7, EnterRoomKeeps
    <2>8. ASSUME NEW s \in Sockets, ReadSnapshot(s) PROVE RealtimeInv'
      BY <2>8, ReadSnapshotKeeps
    <2>9. ASSUME NEW s \in Sockets, EmitSnapshot(s) PROVE RealtimeInv'
      BY <2>9, EmitSnapshotKeeps
    <2>10. ASSUME NEW s \in Sockets, ProjectLeave(s) \/ UnsubscribeFromProject(s)
           PROVE  RealtimeInv'
      BY <2>10, LeftKeeps DEF ProjectLeave, UnsubscribeFromProject
    <2>11. ASSUME NEW s \in Sockets, SubscribeToProject(s) PROVE RealtimeInv'
      BY <2>11, SubscribeKeeps
    <2>12. CASE SaveComment
      BY <2>12, SaveCommentKeeps
    <2>13. ASSUME NEW i \in Comments, EmitCommentCreated(i) PROVE RealtimeInv'
      BY <2>13, EmitCommentKeeps
    <2>14. CASE UNCHANGED <<realtimeVars, call>>
      BY <2>14, UntouchedKept DEF realtimeVars
    <2> QED
      BY <2>1, <2>2, <2>3, <2>4, <2>5, <2>6, <2>7, <2>8, <2>9, <2>10, <2>11, <2>12, <2>13,
         <2>14 DEF RealtimeNext
  <1> QED
    BY <1>1, <1>2, PTL DEF RealtimeSpec, RealtimeInv

-----------------------------------------------------------------------------
(* Presence                                                                *)

OpenOf(u) == {s \in Sockets: Owner[s] = u /\ socket[s] = "open"}

\* No user is counted less often than he has sockets open; a socket lost while its token is
\* checked makes the count too large, never too small.
PresenceInv ==
  /\ socket \in [Sockets -> {"closed", "checking", "lost", "open"}]
  /\ online \in [Users -> Nat]
  /\ \A u \in Users: Cardinality(OpenOf(u)) <= online[u]

LEMMA OpenIsFinite ==
  ASSUME NEW u
  PROVE  IsFiniteSet(OpenOf(u)) /\ Cardinality(OpenOf(u)) \in Nat
  <1>1. OpenOf(u) \in SUBSET Sockets
    BY DEF OpenOf
  <1> QED
    BY <1>1, RealtimeAssumption, FS_Subset, FS_CardinalityType

LEMMA PresenceInitially == RealtimeInit => PresenceInv
  <1> SUFFICES ASSUME RealtimeInit PROVE PresenceInv
    OBVIOUS
  <1>1. \A u \in Users: OpenOf(u) = {}
    BY DEF RealtimeInit, OpenOf
  <1> QED
    BY <1>1, FS_EmptySet DEF RealtimeInit, PresenceInv

\* An authenticated socket is counted once, whether it is still there or not.
LEMMA AuthenticatedKeeps ==
  ASSUME PresenceInv, NEW s \in Sockets, Authenticated(s)
  PROVE  PresenceInv'
  <1>1. Owner[s] \in Users
    BY DEF Users
  <1>2. /\ socket' \in [Sockets -> {"closed", "checking", "lost", "open"}]
        /\ online' \in [Users -> Nat]
        /\ online'[Owner[s]] = online[Owner[s]] + 1
    BY <1>1 DEF Authenticated, PresenceInv, Counted
  <1>3. ASSUME NEW u \in Users PROVE Cardinality(OpenOf(u)') <= online'[u]
    <2>1. CASE u = Owner[s] /\ socket[s] = "checking"
      <3>1. OpenOf(u)' = OpenOf(u) \cup {s} /\ s \notin OpenOf(u)
        BY <2>1 DEF OpenOf, Authenticated, PresenceInv
      <3>2. Cardinality(OpenOf(u)') = Cardinality(OpenOf(u)) + 1
        BY <3>1, OpenIsFinite, FS_AddElement
      <3> QED
        BY <1>2, <2>1, <3>2, OpenIsFinite DEF PresenceInv
    <2>2. CASE u = Owner[s] /\ socket[s] # "checking"
      <3>1. OpenOf(u)' = OpenOf(u)
        BY <2>2 DEF OpenOf, Authenticated, PresenceInv
      <3> QED
        BY <1>2, <2>2, <3>1, OpenIsFinite DEF PresenceInv
    <2>3. CASE u # Owner[s]
      <3>1. OpenOf(u)' = OpenOf(u) /\ online'[u] = online[u]
        BY <2>3, <1>1 DEF OpenOf, Authenticated, PresenceInv
      <3> QED
        BY <3>1 DEF PresenceInv
    <2> QED
      BY <2>1, <2>2, <2>3
  <1> QED
    BY <1>2, <1>3 DEF PresenceInv

\* A socket is uncounted only when it was open, and then it no longer is.
LEMMA DisconnectCounts ==
  ASSUME PresenceInv, NEW s \in Sockets, Disconnect(s)
  PROVE  PresenceInv'
  <1>1. Owner[s] \in Users
    BY DEF Users
  <1>2. CASE socket[s] = "checking"
    <2>1. \A u \in Users: OpenOf(u)' = OpenOf(u)
      BY <1>2 DEF OpenOf, Disconnect, PresenceInv
    <2> QED
      BY <1>2, <2>1 DEF Disconnect, PresenceInv
  <1>3. CASE socket[s] = "open"
    <2>1. /\ socket' \in [Sockets -> {"closed", "checking", "lost", "open"}]
          /\ online' \in [Users -> Nat]
          /\ online'[Owner[s]] >= online[Owner[s]] - 1
      BY <1>1, <1>3 DEF Disconnect, PresenceInv, Uncounted
    <2>2. ASSUME NEW u \in Users PROVE Cardinality(OpenOf(u)') <= online'[u]
      <3>1. CASE u = Owner[s]
        <4>1. OpenOf(u)' = OpenOf(u) \ {s} /\ s \in OpenOf(u)
          BY <1>3, <3>1 DEF OpenOf, Disconnect, PresenceInv
        <4>2. Cardinality(OpenOf(u)') = Cardinality(OpenOf(u)) - 1
          BY <4>1, OpenIsFinite, FS_RemoveElement
        <4> QED
          BY <2>1, <3>1, <4>2, OpenIsFinite DEF PresenceInv
      <3>2. CASE u # Owner[s]
        <4>1. OpenOf(u)' = OpenOf(u) /\ online'[u] = online[u]
          BY <1>1, <1>3, <3>2 DEF OpenOf, Disconnect, PresenceInv
        <4> QED
          BY <4>1 DEF PresenceInv
      <3> QED
        BY <3>1, <3>2
    <2> QED
      BY <2>1, <2>2 DEF PresenceInv
  <1> QED
    BY <1>2, <1>3 DEF Disconnect

\* Connecting, being refused, and everything that is done with an open socket.
LEMMA SameOpenKept ==
  ASSUME PresenceInv, UNCHANGED online,
         socket' \in [Sockets -> {"closed", "checking", "lost", "open"}],
         \A s \in Sockets: socket'[s] = "open" <=> socket[s] = "open"
  PROVE  PresenceInv'
  <1>1. \A u \in Users: OpenOf(u)' = OpenOf(u)
    BY DEF OpenOf
  <1> QED
    BY <1>1 DEF PresenceInv

LEMMA RestartCounts ==
  ASSUME Restart
  PROVE  PresenceInv'
  <1>1. \A u \in Users: OpenOf(u)' = {}
    BY DEF Restart, OpenOf
  <1>2. /\ socket' \in [Sockets -> {"closed", "checking", "lost", "open"}]
        /\ online' = [u \in Users |-> 0]
    BY DEF Restart
  <1> QED
    BY <1>1, <1>2, FS_EmptySet DEF PresenceInv

\* Whoever has a tab open is online, whatever became of his other connections
\* (presence.service.ts:6).
THEOREM OpenTabsAreOnline == RealtimeSpec => []OnlineWhileOpen
  <1>1. RealtimeInit => PresenceInv
    BY PresenceInitially
  <1>2. PresenceInv /\ [RealtimeNext]_<<realtimeVars, call>> => PresenceInv'
    <2> SUFFICES ASSUME PresenceInv, [RealtimeNext]_<<realtimeVars, call>>
                 PROVE  PresenceInv'
      OBVIOUS
    <2>1. ASSUME NEW s \in Sockets, Connect(s) PROVE PresenceInv'
      BY <2>1, SameOpenKept DEF Connect, PresenceInv
    <2>2. ASSUME NEW s \in Sockets, Authenticated(s) PROVE PresenceInv'
      BY <2>2, AuthenticatedKeeps
    <2>3. ASSUME NEW s \in Sockets, Refused(s) PROVE PresenceInv'
      BY <2>3, SameOpenKept DEF Refused, PresenceInv
    <2>4. ASSUME NEW s \in Sockets, Disconnect(s) PROVE PresenceInv'
      BY <2>4, DisconnectCounts
    <2>5. CASE Restart
      BY <2>5, RestartCounts
    <2>6. CASE UNCHANGED <<socket, online>>
      BY <2>6, SameOpenKept DEF PresenceInv
    <2> QED
      BY <2>1, <2>2, <2>3, <2>4, <2>5, <2>6
      DEF RealtimeNext, realtimeVars, BeginJoin, EnterRoom, ReadSnapshot, EmitSnapshot,
          ProjectLeave, SubscribeToProject, UnsubscribeFromProject, Left, SaveComment,
          EmitCommentCreated
  <1>3. PresenceInv => OnlineWhileOpen
    <2> SUFFICES ASSUME PresenceInv, NEW s \in Sockets, socket[s] = "open"
                 PROVE  online[Owner[s]] > 0
      BY DEF OnlineWhileOpen
    <2>1. Owner[s] \in Users /\ s \in OpenOf(Owner[s])
      BY DEF Users, OpenOf
    <2>2. Cardinality(OpenOf(Owner[s])) # 0
      BY <2>1, OpenIsFinite, FS_EmptySet
    <2> QED
      BY <2>1, <2>2, OpenIsFinite DEF PresenceInv
  <1> QED
    BY <1>1, <1>2, <1>3, PTL DEF RealtimeSpec
-----------------------------------------------------------------------------
(* Types                                                                   *)

SocketStates == {"closed", "checking", "lost", "open"}

PendingOf(u) == {s \in Sockets: Owner[s] = u /\ socket[s] \in {"checking", "lost"}}

\* A socket whose token is checked has its place in the count reserved.
CountsTyped ==
  /\ socket \in [Sockets -> SocketStates]
  /\ online \in [Users -> Nat]
  /\ \A u \in Users: online[u] + Cardinality(PendingOf(u)) <= MaxOnline

\* Only an open socket is in the room or on its way there.
RoomTyped ==
  /\ room \subseteq {s \in Sockets: socket[s] = "open"}
  /\ joining \in [Sockets -> JoinMessage]
  /\ \A s \in Sockets: joining[s].at # "none" => socket[s] = "open"

\* No tab was sent, and no snapshot was read of, more comments than there are.
SeenTyped ==
  /\ saved \in 0..MaxComments
  /\ unannounced \subseteq 1..saved
  /\ seen \in [Sockets -> SUBSET (1..saved)]
  /\ followedFrom \in [Sockets -> 0..Never]
  /\ \A s \in Sockets: joining[s].at = "read" => joining[s].upTo <= saved

RealtimeTyped == CountsTyped /\ RoomTyped /\ SeenTyped

LEMMA PendingIsFinite ==
  ASSUME NEW u
  PROVE  IsFiniteSet(PendingOf(u)) /\ Cardinality(PendingOf(u)) \in Nat
  <1>1. PendingOf(u) \in SUBSET Sockets
    BY DEF PendingOf
  <1> QED
    BY <1>1, RealtimeAssumption, FS_Subset, FS_CardinalityType

LEMMA RealtimeTypedInitially == RealtimeInit => RealtimeTyped
  <1> SUFFICES ASSUME RealtimeInit PROVE RealtimeTyped
    OBVIOUS
  <1>1. CountsTyped
    <2>1. \A u \in Users: PendingOf(u) = {}
      BY DEF RealtimeInit, PendingOf
    <2> QED
      BY <2>1, FS_EmptySet, RealtimeAssumption DEF RealtimeInit, CountsTyped, SocketStates
  <1>2. RoomTyped
    BY JoinMessages DEF RealtimeInit, RoomTyped, NotJoining
  <1>3. SeenTyped
    BY RealtimeAssumption DEF RealtimeInit, SeenTyped, Never, NotJoining
  <1> QED
    BY <1>1, <1>2, <1>3 DEF RealtimeTyped

\* A socket that is no longer checked gives its place up, to the count if it passed.
LEMMA PendingLeaves ==
  ASSUME CountsTyped, NEW s \in Sockets, socket[s] \in {"checking", "lost"},
         NEW state \in {"closed", "open"}, socket' = [socket EXCEPT ![s] = state],
         UNCHANGED online \/ online' = [online EXCEPT ![Owner[s]] = Counted(@)]
  PROVE  CountsTyped'
  <1>1. Owner[s] \in Users
    BY DEF Users
  <1>2. socket' \in [Sockets -> SocketStates] /\ online' \in [Users -> Nat]
    BY DEF CountsTyped, SocketStates, Counted
  <1>3. ASSUME NEW u \in Users
        PROVE  online'[u] + Cardinality(PendingOf(u)') <= MaxOnline
    <2>1. CASE u = Owner[s]
      <3>1. PendingOf(u)' = PendingOf(u) \ {s} /\ s \in PendingOf(u)
        BY <2>1 DEF PendingOf, CountsTyped
      <3>2. Cardinality(PendingOf(u)') = Cardinality(PendingOf(u)) - 1
        BY <3>1, PendingIsFinite, FS_RemoveElement
      <3>3. online'[u] <= online[u] + 1
        BY <1>1, <2>1 DEF CountsTyped, Counted
      <3> QED
        BY <1>2, <3>2, <3>3, PendingIsFinite, RealtimeAssumption DEF CountsTyped
    <2>2. CASE u # Owner[s]
      <3>1. PendingOf(u)' = PendingOf(u) /\ online'[u] = online[u]
        BY <1>1, <2>2 DEF PendingOf, CountsTyped
      <3> QED
        BY <3>1 DEF CountsTyped
    <2> QED
      BY <2>1, <2>2
  <1> QED
    BY <1>2, <1>3 DEF CountsTyped

LEMMA CountsStayTyped ==
  ASSUME CountsTyped,
         \/ \E s \in Sockets: Connect(s) \/ Authenticated(s) \/ Refused(s) \/ Disconnect(s)
         \/ Restart
         \/ UNCHANGED <<socket, online>>
  PROVE  CountsTyped'
  <1>1. ASSUME NEW s \in Sockets, Connect(s)
        PROVE  CountsTyped'
    <2>1. /\ socket[s] = "closed" /\ socket' = [socket EXCEPT ![s] = "checking"]
          /\ UNCHANGED online
      BY <1>1 DEF Connect
    <2>2. ASSUME NEW u \in Users
          PROVE  online[u] + Cardinality(PendingOf(u)') <= MaxOnline
      <3>1. CASE u = Owner[s]
        <4> DEFINE others == {r \in Sockets \ {s}: /\ Owner[r] = Owner[s]
                                                   /\ socket[r] \in {"checking", "lost"}}
        <4>1. others = PendingOf(u)
          BY <2>1, <3>1 DEF PendingOf
        <4>2. online[u] + Cardinality(PendingOf(u)) < MaxOnline
          BY <1>1, <3>1, <4>1 DEF Connect
        <4>3. PendingOf(u)' = PendingOf(u) \cup {s} /\ s \notin PendingOf(u)
          BY <2>1, <3>1 DEF PendingOf, CountsTyped
        <4>4. Cardinality(PendingOf(u)') = Cardinality(PendingOf(u)) + 1
          BY <4>3, PendingIsFinite, FS_AddElement
        <4> QED
          BY <4>2, <4>4, PendingIsFinite, RealtimeAssumption DEF CountsTyped
      <3>2. CASE u # Owner[s]
        <4>1. PendingOf(u)' = PendingOf(u)
          BY <2>1, <3>2 DEF PendingOf, CountsTyped
        <4> QED
          BY <4>1 DEF CountsTyped
      <3> QED
        BY <3>1, <3>2
    <2> QED
      BY <2>1, <2>2 DEF CountsTyped, SocketStates
  <1>2. ASSUME NEW s \in Sockets, Authenticated(s)
        PROVE  CountsTyped'
    <2>1. PICK state \in {"closed", "open"}: socket' = [socket EXCEPT ![s] = state]
      BY <1>2 DEF Authenticated
    <2> QED
      BY <1>2, <2>1, PendingLeaves DEF Authenticated
  <1>3. ASSUME NEW s \in Sockets, Refused(s)
        PROVE  CountsTyped'
    BY <1>3, PendingLeaves DEF Refused
  <1>4. ASSUME NEW s \in Sockets, Disconnect(s)
        PROVE  CountsTyped'
    <2>1. Owner[s] \in Users
      BY DEF Users
    <2>2. socket' \in [Sockets -> SocketStates] /\ online' \in [Users -> Nat]
      BY <1>4, <2>1 DEF Disconnect, CountsTyped, SocketStates, Uncounted
    <2>3. \A u \in Users: online'[u] <= online[u] /\ PendingOf(u)' = PendingOf(u)
      BY <1>4, <2>1 DEF Disconnect, CountsTyped, Uncounted, PendingOf
    <2> QED
      BY <2>2, <2>3, PendingIsFinite, RealtimeAssumption DEF CountsTyped
  <1>5. CASE Restart
    <2>1. \A u \in Users: PendingOf(u)' = {}
      BY <1>5 DEF Restart, PendingOf
    <2> QED
      BY <1>5, <2>1, FS_EmptySet, RealtimeAssumption DEF Restart, CountsTyped, SocketStates
  <1>6. CASE UNCHANGED <<socket, online>>
    BY <1>6 DEF CountsTyped, PendingOf
  <1> QED
    BY <1>1, <1>2, <1>3, <1>4, <1>5, <1>6

\* Connections: whoever is not open is neither in the room nor on the way there.
LEMMA ConnectionTyped ==
  ASSUME RealtimeTyped,
         \/ \E s \in Sockets: Connect(s) \/ Authenticated(s) \/ Refused(s) \/ Disconnect(s)
         \/ Restart
  PROVE  RoomTyped' /\ SeenTyped'
  <1> USE DEF RealtimeTyped
  <1>1. ASSUME NEW s \in Sockets, Connect(s) \/ Authenticated(s) \/ Refused(s)
        PROVE  RoomTyped' /\ SeenTyped'
    <2>1. /\ socket[s] # "open" /\ \A r \in Sockets \ {s}: socket'[r] = socket[r]
          /\ UNCHANGED <<room, joining, saved, unannounced, seen, followedFrom>>
      BY <1>1 DEF Connect, Authenticated, Refused, CountsTyped
    <2>2. s \notin room /\ joining[s].at = "none"
      BY <2>1 DEF RoomTyped
    <2> QED
      BY <2>1, <2>2 DEF RoomTyped, SeenTyped
  <1>2. ASSUME NEW s \in Sockets, Disconnect(s)
        PROVE  RoomTyped' /\ SeenTyped'
    <2>1. \A r \in Sockets \ {s}: socket'[r] = socket[r]
      BY <1>2 DEF Disconnect, CountsTyped
    <2>2. RoomTyped'
      BY <1>2, <2>1, JoinMessages DEF Disconnect, RoomTyped, NotJoining
    <2>3. SeenTyped'
      BY <1>2, RealtimeAssumption DEF Disconnect, RoomTyped, SeenTyped, NotJoining, Never
    <2> QED
      BY <2>2, <2>3
  <1>3. CASE Restart
    BY <1>3, JoinMessages, RealtimeAssumption DEF Restart, RoomTyped, SeenTyped, NotJoining, Never
  <1> QED
    BY <1>1, <1>2, <1>3

\* Messages of the tabs.
LEMMA MessageTyped ==
  ASSUME RealtimeTyped, NEW s \in Sockets,
         \/ BeginJoin(s) \/ EnterRoom(s) \/ ReadSnapshot(s) \/ EmitSnapshot(s)
         \/ ProjectLeave(s) \/ SubscribeToProject(s) \/ UnsubscribeFromProject(s)
  PROVE  RoomTyped' /\ SeenTyped'
  <1> USE DEF RealtimeTyped
  <1>1. joining[s] \in JoinMessage
    BY DEF RoomTyped
  <1>2. Never \in 0..Never /\ \A n \in 0..MaxComments: n \in 0..Never
    BY RealtimeAssumption DEF Never
  <1>3. CASE BeginJoin(s)
    BY <1>3, JoinMessages DEF BeginJoin, Known, RoomTyped, SeenTyped
  <1>4. CASE EnterRoom(s)
    BY <1>4, JoinMessages DEF EnterRoom, RoomTyped, SeenTyped
  <1>5. CASE ReadSnapshot(s)
    <2>1. [at |-> "read", stayed |-> joining[s].stayed, upTo |-> saved] \in JoinMessage
      BY <1>1, <1>5, JoinShapes, JoinMessages DEF ReadSnapshot, SeenTyped
    <2> QED
      BY <1>5, <2>1 DEF ReadSnapshot, RoomTyped, SeenTyped
  <1>6. CASE EmitSnapshot(s)
    <2>1. /\ joining[s].at = "read" /\ joining[s].upTo \in 0..MaxComments
          /\ joining[s].upTo <= saved
      BY <1>1, <1>6, JoinShapes DEF EmitSnapshot, SeenTyped
    <2>2. Snapshot(joining[s].upTo) \subseteq 1..saved
      BY <2>1 DEF Snapshot, SeenTyped
    <2>3. RoomTyped'
      BY <1>6, JoinMessages DEF EmitSnapshot, RoomTyped, NotJoining
    <2>4. SeenTyped'
      BY <1>2, <1>6, <2>1, <2>2 DEF EmitSnapshot, RoomTyped, SeenTyped, NotJoining
    <2> QED
      BY <2>3, <2>4
  <1>7. CASE ProjectLeave(s) \/ UnsubscribeFromProject(s)
    <2> DEFINE m == IF joining[s].at \in {"entered", "read"}
                      THEN [joining[s] EXCEPT !.stayed = FALSE] ELSE joining[s]
    <2>1. m \in JoinMessage
      BY <1>1 DEF JoinMessage, NotJoining
    <2>2. /\ joining' = [joining EXCEPT ![s] = m] /\ room' = room \ {s}
          /\ followedFrom' = [followedFrom EXCEPT ![s] = Never]
          /\ UNCHANGED <<socket, online, saved, unannounced, seen>>
      BY <1>7 DEF ProjectLeave, UnsubscribeFromProject, Left
    <2>3. m.at = joining[s].at /\ (m.at = "read" => m.upTo = joining[s].upTo)
      BY <1>1 DEF JoinMessage, NotJoining
    <2> HIDE DEF m
    <2> QED
      BY <1>2, <2>1, <2>2, <2>3 DEF RoomTyped, SeenTyped
  <1>8. CASE SubscribeToProject(s)
    BY <1>8 DEF SubscribeToProject, Known, RoomTyped, SeenTyped
  <1> QED
    BY <1>3, <1>4, <1>5, <1>6, <1>7, <1>8

\* Comments.
LEMMA CommentTyped ==
  ASSUME RealtimeTyped, SaveComment \/ \E i \in Comments: EmitCommentCreated(i)
  PROVE  RoomTyped' /\ SeenTyped'
  <1> USE DEF RealtimeTyped
  <1>1. CASE SaveComment
    <2>1. saved' \in 0..MaxComments /\ saved' = saved + 1 /\ 1..saved \subseteq 1..saved'
      BY <1>1, RealtimeAssumption DEF SaveComment, SeenTyped
    <2>2. saved' \in 1..saved'
      BY <2>1 DEF SeenTyped
    <2>3. \A s \in Sockets: joining[s].at = "read" => joining[s].upTo <= saved'
      <3>1. \A s \in Sockets: joining[s].at = "read" => joining[s].upTo \in 0..MaxComments
        BY JoinShapes DEF RoomTyped
      <3> QED
        BY <2>1, <3>1, RealtimeAssumption DEF SeenTyped
    <2> QED
      BY <1>1, <2>1, <2>2, <2>3 DEF SaveComment, RoomTyped, SeenTyped
  <1>2. ASSUME NEW i \in Comments, EmitCommentCreated(i)
        PROVE  RoomTyped' /\ SeenTyped'
    BY <1>2 DEF EmitCommentCreated, RoomTyped, SeenTyped
  <1> QED
    BY <1>1, <1>2

LEMMA RealtimeStepTyped ==
  ASSUME RealtimeTyped, RealtimeNext
  PROVE  RealtimeTyped'
  <1>1. CountsTyped'
    BY CountsStayTyped
    DEF RealtimeTyped, RealtimeNext, BeginJoin, EnterRoom, ReadSnapshot, EmitSnapshot,
        ProjectLeave, SubscribeToProject, UnsubscribeFromProject, Left, SaveComment,
        EmitCommentCreated
  <1>2. RoomTyped' /\ SeenTyped'
    BY ConnectionTyped, MessageTyped, CommentTyped DEF RealtimeNext
  <1> QED
    BY <1>1, <1>2 DEF RealtimeTyped

LEMMA RealtimeTypes == RealtimeTyped => RealtimeTypeOK
  <1> SUFFICES ASSUME RealtimeTyped PROVE RealtimeTypeOK
    OBVIOUS
  <1>1. \A u \in Users: online[u] \in 0..MaxOnline
    BY PendingIsFinite, RealtimeAssumption DEF RealtimeTyped, CountsTyped
  <1> QED
    BY <1>1 DEF RealtimeTyped, CountsTyped, RoomTyped, SeenTyped, RealtimeTypeOK, SocketStates
=============================================================================
