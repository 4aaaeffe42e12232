---------------------------- MODULE MCPositions ----------------------------
(* A small instance of Dispatch, with two searches of a driver, and one of *)
(* Presence.  They share no state here, so a behaviour is one of either.   *)
(* The zone is a rectangle of 4 by 6; one point lies on its northern       *)
(* border and one on a diagonal between two default sections.              *)
EXTENDS Dispatch, Presence, TLC

CONSTANTS d1, s1, s2, p1, q1, q2

VARIABLE part

RingMC == <<Corner(0, 0), Corner(0, 6), Corner(4, 6), Corner(4, 0), Corner(0, 0)>>
PointsMC == {Corner(4, 6), Corner(3, 5)}
TargetsMC ==
  {[dir \in Direction |-> IF dir = odd THEN n ELSE 3] : odd \in Direction, n \in {-20, 1}}
ConfiguredMC == {[dir \in {"north", "south"} |-> RingMC]}

PositionsInit ==
  /\ part \in {"searches", "presence"}
  /\ Init /\ PresenceInit
  /\ part = "searches" => sockets = {}
  /\ part = "presence" => \A d \in Drivers : place[d] = 0

PositionsNext ==
  \/ part = "searches" /\ Next /\ UNCHANGED <<part, presenceVars>>
  \/ part = "presence" /\ PresenceNext /\ UNCHANGED <<part, vars>>

PositionsSpec ==
  /\ PositionsInit /\ [][PositionsNext]_<<part, vars, presenceVars>>
  /\ WF_vars(Tick) /\ \A s \in Searches : WF_vars(Step(s))
  /\ PresenceFairness

=============================================================================
