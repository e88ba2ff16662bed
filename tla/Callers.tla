------------------------------ MODULE Callers -------------------------------
(***************************************************************************)
(* What the component modules share.  A handler of the API reads in one    *)
(* await and writes in a later one: call[c] holds what the call of client  *)
(* c has read and still has to do, and between two steps of a call other   *)
(* calls may run.                                                          *)
(*                                                                         *)
(* Several components are checked in one run.  A behaviour exercises one   *)
(* of them, its focus; the others keep the state they start in.            *)
(***************************************************************************)
EXTENDS Naturals

CONSTANTS Clients,      \* callers of the API
          Overlapping   \* components whose calls may overlap; the calls of the
                        \* others are made one after the other

VARIABLES focus,        \* the component this behaviour exercises
          call          \* call[c]: the call client c has in flight

Idle == [at |-> "idle"]

Quiet == \A c \in Clients: call[c] = Idle

\* a handler of one step
MayRun(component) == focus = component /\ (component \in Overlapping \/ Quiet)

\* a handler of several; calls made one after the other all come from one client
MayStart(c, component) ==
  /\ MayRun(component)
  /\ call[c] = Idle
  /\ component \in Overlapping \/ c = CHOOSE first \in Clients: TRUE

\* a step of a call: what it knows, and where it stands, afterwards
Goto(c, next) == call' = [call EXCEPT ![c] = next]

Return(c) == Goto(c, Idle)
=============================================================================
