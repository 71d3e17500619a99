---------------------------- MODULE SystemUpdate ----------------------------
(***************************************************************************)
(* What an update of the world promises its systems: each of those enabled *)
(* at its beginning runs at most once, after the ones it has to wait for,  *)
(* beside nothing it must be kept apart from, never after it was deleted,  *)
(* and with the commands of everything it waited for at a barrier applied. *)
(* Commands are applied while nothing runs.                                *)
(***************************************************************************)
CONSTANT Systems

VARIABLES
  alive,    \* systems that exist
  members,  \* systems of this update
  over,     \* those done with
  running,
  told,     \* systems whose commands are not applied yet
  before,   \* pairs of members in the order they have to run
  barrier,  \* pairs with a barrier between them, in either order
  apart     \* pairs that must not run side by side

VInit ==
  /\ alive = Systems
  /\ members = {} /\ over = {} /\ running = {} /\ told = {}
  /\ before = {} /\ barrier = {} /\ apart = {}

relations == <<before, barrier, apart>>

Update ==
  /\ running = {} /\ told = {} /\ over = members
  /\ over' = {} /\ members' \subseteq alive
  /\ UNCHANGED <<alive, running, told>>

MayStart(s) ==
  /\ s \in alive
  /\ \A t \in members \ over : <<t, s>> \notin before
  /\ \A t \in running : <<s, t>> \notin apart /\ <<t, s>> \notin apart
  /\ \A t \in told : <<t, s>> \notin barrier

Start(s) ==
  /\ s \in members \ (over \cup running) /\ MayStart(s)
  /\ running' = running \cup {s}
  /\ UNCHANGED <<alive, members, over, told, relations>>

Finish(s) ==
  /\ s \in running
  /\ running' = running \ {s} /\ over' = over \cup {s}
  /\ told' \in {told, told \cup {s}}
  /\ UNCHANGED <<alive, members, relations>>

Tell(s) ==
  /\ s \in running /\ told' = told \cup {s}
  /\ UNCHANGED <<alive, members, over, running, relations>>

\* Nothing to do: disabled, deleted, or no data changed.
Skip(s) ==
  /\ s \in members \ (over \cup running)
  /\ over' = over \cup {s}
  /\ UNCHANGED <<alive, members, running, told, relations>>

Apply ==
  /\ running = {} /\ told' = {} /\ alive' \subseteq alive
  /\ UNCHANGED <<members, over, running, relations>>

VNext ==
  \/ Update \/ Apply
  \/ \E s \in members : Start(s) \/ Finish(s) \/ Tell(s) \/ Skip(s)

VSpec ==
  VInit /\ [][VNext]_<<alive, members, over, running, told, relations>>
=============================================================================
