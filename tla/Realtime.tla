------------------------------ MODULE Realtime ------------------------------
(***************************************************************************)
(* The sockets of the tabs, the count of them that says who is online      *)
(* (core/presence/presence.service.ts), and the room through which a tab   *)
(* follows the comments of one project                                     *)
(* (core/projects/task-comments.gateway.ts, project-comments.gateway.ts,   *)
(* project-comment.service.ts).  A comment is its rank in the table.       *)
(*                                                                         *)
(* Left out: the right to enter a room, looked at when it is entered and   *)
(* never again; the rooms entered without a snapshot; the notifications    *)
(* sent beside a comment.                                                  *)
(***************************************************************************)
EXTENDS Callers, FiniteSets

CONSTANTS Sockets,        \* connections of the tabs
          Owner,          \* Owner[s]: the user of the tab
          SnapshotLimit,  \* comments in a snapshot
          MaxComments,    \* bound: comments written to the project
          MaxOnline       \* bound: sockets counted for a user

ASSUME RealtimeAssumption ==
  /\ IsFiniteSet(Sockets)
  /\ DOMAIN Owner = Sockets
  /\ SnapshotLimit \in Nat
  /\ MaxComments \in Nat
  /\ MaxOnline \in Nat

VARIABLES socket,       \* socket[s]: where the connection stands
          online,       \* online[u]: sockets counted for u, in memory
          room,         \* the sockets in the room of the project
          joining,      \* joining[s]: how far a project.join of s has come
          saved,        \* comments in the table
          unannounced,  \* those that are still to be sent to the room
          seen,         \* seen[s]: comments the tab has been sent
          followedFrom  \* followedFrom[s]: comments in the table when the snapshot
                        \* was read that the tab has followed since, if any

realtimeVars == <<socket, online, room, joining, saved, unannounced, seen, followedFrom>>

Users == {Owner[s]: s \in Sockets}
Comments == 1..MaxComments
Never == MaxComments + 1
NotJoining == [at |-> "none"]

\* stayed: the tab has not left the room since this message entered it
JoinMessage ==
  {NotJoining} \cup [at: {"allowed"}] \cup [at: {"entered"}, stayed: BOOLEAN]
  \cup [at: {"read"}, stayed: BOOLEAN, upTo: 0..MaxComments]

RealtimeTypeOK ==
  \* lost: closed before the token of its user was checked
  /\ socket \in [Sockets -> {"closed", "checking", "lost", "open"}]
  /\ online \in [Users -> 0..MaxOnline]
  /\ room \subseteq {s \in Sockets: socket[s] = "open"}
  /\ joining \in [Sockets -> JoinMessage]
  /\ saved \in 0..MaxComments
  /\ unannounced \subseteq 1..saved
  /\ seen \in [Sockets -> SUBSET (1..saved)]
  /\ followedFrom \in [Sockets -> 0..Never]

RealtimeInit ==
  /\ socket = [s \in Sockets |-> "closed"]
  /\ online = [u \in Users |-> 0]
  /\ room = {}
  /\ joining = [s \in Sockets |-> NotJoining]
  /\ saved = 0
  /\ unannounced = {}
  /\ seen = [s \in Sockets |-> {}]
  /\ followedFrom = [s \in Sockets |-> Never]

-----------------------------------------------------------------------------
(* Presence                                                                *)

Counted(n) == n + 1

\* (mutant) a closed tab takes its user offline
NoneCounted(n) == 0

Uncounted(n) == IF n > 0 THEN n - 1 ELSE 0

\* handleConnection; authenticate waits for the token, the organisation and the user
Connect(s) ==
  /\ MayRun("realtime")
  /\ socket[s] = "closed"
  /\ online[Owner[s]] + Cardinality({r \in Sockets \ {s}: /\ Owner[r] = Owner[s]
                                                          /\ socket[r] \in {"checking", "lost"}})
       < MaxOnline
  /\ socket' = [socket EXCEPT ![s] = "checking"]
  /\ UNCHANGED <<online, room, joining, saved, unannounced, seen, followedFrom>>

\* a socket that was lost meanwhile is counted all the same
Authenticated(s) ==
  /\ MayRun("realtime")
  /\ socket[s] \in {"checking", "lost"}
  /\ socket' = [socket EXCEPT ![s] = IF @ = "lost" THEN "closed" ELSE "open"]
  /\ online' = [online EXCEPT ![Owner[s]] = Counted(@)]
  /\ UNCHANGED <<room, joining, saved, unannounced, seen, followedFrom>>

Refused(s) ==
  /\ MayRun("realtime")
  /\ socket[s] \in {"checking", "lost"}
  /\ socket' = [socket EXCEPT ![s] = "closed"]
  /\ UNCHANGED <<online, room, joining, saved, unannounced, seen, followedFrom>>

\* handleDisconnect, which knows the user of a socket only once it is authenticated;
\* what the messages of the tab still do reaches nobody
Disconnect(s) ==
  /\ MayRun("realtime")
  /\ \/ /\ socket[s] = "checking"
        /\ socket' = [socket EXCEPT ![s] = "lost"]
        /\ UNCHANGED online
     \/ /\ socket[s] = "open"
        /\ socket' = [socket EXCEPT ![s] = "closed"]
        /\ online' = [online EXCEPT ![Owner[s]] = Uncounted(@)]
  /\ room' = room \ {s}
  /\ joining' = [joining EXCEPT ![s] = NotJoining]
  /\ seen' = [seen EXCEPT ![s] = {}]
  /\ followedFrom' = [followedFrom EXCEPT ![s] = Never]
  /\ UNCHANGED <<saved, unannounced>>

\* everything but the table is in the memory of the one process
Restart ==
  /\ MayRun("realtime")
  /\ socket' = [s \in Sockets |-> "closed"]
  /\ online' = [u \in Users |-> 0]
  /\ room' = {}
  /\ joining' = [s \in Sockets |-> NotJoining]
  /\ unannounced' = {}
  /\ seen' = [s \in Sockets |-> {}]
  /\ followedFrom' = [s \in Sockets |-> Never]
  /\ UNCHANGED saved

-----------------------------------------------------------------------------
(* The room of the project, entered with a snapshot by project.join and    *)
(* without one by projects.subscribe.project                               *)

\* client.data holds the user
Known(s) == MayRun("realtime") /\ socket[s] = "open"

\* the query of who may read the project
BeginJoin(s) ==
  /\ Known(s)
  /\ joining[s] = NotJoining
  /\ joining' = [joining EXCEPT ![s] = [at |-> "allowed"]]
  /\ UNCHANGED <<socket, online, room, saved, unannounced, seen, followedFrom>>

\* (mutant) the room entered is not the one the comments are sent to
EnterOtherRoom(s) ==
  /\ MayRun("realtime")
  /\ joining[s].at = "allowed"
  /\ joining' = [joining EXCEPT ![s] = [at |-> "entered", stayed |-> TRUE]]
  /\ UNCHANGED <<socket, online, room, saved, unannounced, seen, followedFrom>>

EnterRoom(s) ==
  /\ MayRun("realtime")
  /\ joining[s].at = "allowed"
  /\ room' = room \cup {s}
  /\ joining' = [joining EXCEPT ![s] = [at |-> "entered", stayed |-> TRUE]]
  /\ UNCHANGED <<socket, online, saved, unannounced, seen, followedFrom>>

ReadSnapshot(s) ==
  /\ MayRun("realtime")
  /\ joining[s].at = "entered"
  /\ joining' = [joining EXCEPT ![s] = [at |-> "read", stayed |-> @.stayed, upTo |-> saved]]
  /\ UNCHANGED <<socket, online, room, saved, unannounced, seen, followedFrom>>

\* ORDER BY created_at ASC LIMIT: the oldest ones
Snapshot(upTo) == {i \in 1..upTo: i <= SnapshotLimit}

EmitSnapshot(s) ==
  /\ MayRun("realtime")
  /\ joining[s].at = "read"
  /\ seen' = [seen EXCEPT ![s] = @ \cup Snapshot(joining[s].upTo)]
  /\ followedFrom' = [followedFrom EXCEPT ![s] =
                        IF joining[s].stayed /\ @ = Never THEN joining[s].upTo ELSE @]
  /\ joining' = [joining EXCEPT ![s] = NotJoining]
  /\ UNCHANGED <<socket, online, room, saved, unannounced>>

Left(s) ==
  /\ room' = room \ {s}
  /\ followedFrom' = [followedFrom EXCEPT ![s] = Never]
  /\ joining' = [joining EXCEPT ![s] = IF @.at \in {"entered", "read"}
                                         THEN [@ EXCEPT !.stayed = FALSE] ELSE @]
  /\ UNCHANGED <<socket, online, saved, unannounced, seen>>

ProjectLeave(s) == Known(s) /\ Left(s)

SubscribeToProject(s) ==
  /\ Known(s)
  /\ room' = room \cup {s}
  /\ UNCHANGED <<socket, online, joining, saved, unannounced, seen, followedFrom>>

\* the same room: a tab that no longer wants the events of the project loses its comments
UnsubscribeFromProject(s) == Known(s) /\ Left(s)

-----------------------------------------------------------------------------
(* ProjectCommentService.createProjectComment: save, read the author, emit  *)

SaveComment ==
  /\ MayRun("realtime")
  /\ saved < MaxComments
  /\ saved' = saved + 1
  /\ unannounced' = unannounced \cup {saved'}
  /\ UNCHANGED <<socket, online, room, joining, seen, followedFrom>>

EmitCommentCreated(i) ==
  /\ MayRun("realtime")
  /\ i \in unannounced
  /\ unannounced' = unannounced \ {i}
  /\ seen' = [s \in Sockets |-> IF s \in room THEN seen[s] \cup {i} ELSE seen[s]]
  /\ UNCHANGED <<socket, online, room, joining, saved, followedFrom>>

RealtimeNext ==
  /\ \/ \E s \in Sockets: Connect(s) \/ Authenticated(s) \/ Refused(s) \/ Disconnect(s)
     \/ Restart
     \/ \E s \in Sockets:
          \/ BeginJoin(s) \/ EnterRoom(s) \/ ReadSnapshot(s) \/ EmitSnapshot(s)
          \/ ProjectLeave(s) \/ SubscribeToProject(s) \/ UnsubscribeFromProject(s)
     \/ SaveComment
     \/ \E i \in Comments: EmitCommentCreated(i)
  /\ UNCHANGED call

RealtimeSpec == RealtimeInit /\ [][RealtimeNext]_<<realtimeVars, call>>

-----------------------------------------------------------------------------
\* Whoever still has a socket open is online, however many others were opened, refused,
\* lost or closed: closing one tab takes nobody offline who has a second one
\* (presence.service.ts:6).
OnlineWhileOpen == \A s \in Sockets: socket[s] = "open" => online[Owner[s]] > 0

\* A tab that was given the snapshot of the comments and has not left has since been sent
\* every comment saved, but for those on their way and for what the snapshot was too short
\* to hold: nothing falls between the snapshot and the messages
\* (project-comments.gateway.ts:208).
NothingFallsBetween ==
  \A s \in Sockets: followedFrom[s] # Never =>
    \A i \in (1..saved) \ (seen[s] \cup unannounced): SnapshotLimit < i /\ i <= followedFrom[s]
=============================================================================
