------------------------------- MODULE Award -------------------------------
(***************************************************************************)
(* What the search promises about who gets a trip, without rows, locks or  *)
(* handlers: a trip is asked for, of nobody or of a driver the request     *)
(* names; drivers are invited, one of the invited is granted the trip and  *)
(* told so, and only withdrawing the trip lets another have it.            *)
(* Module Bookings implements it.                                          *)
(***************************************************************************)
CONSTANTS Trips, Drivers, NoDriver

VARIABLES
  made,    \* trips asked for
  pool,    \* drivers invited to each trip
  winner,  \* the driver who has it
  told     \* drivers who have been told it is theirs

vars == <<made, pool, winner, told>>

Init ==
  /\ made = {}
  /\ pool = [t \in Trips |-> {}]
  /\ winner = [t \in Trips |-> NoDriver]
  /\ told = [t \in Trips |-> {}]

(* The one time a driver has a trip without an invitation. *)
Ask(t, d) ==
  /\ t \notin made
  /\ made' = made \cup {t}
  /\ winner' = [winner EXCEPT ![t] = d]
  /\ UNCHANGED <<pool, told>>

Invite(t, d) ==
  /\ pool' = [pool EXCEPT ![t] = @ \cup {d}]
  /\ UNCHANGED <<made, winner, told>>

Grant(t, d) ==
  /\ t \in made /\ winner[t] = NoDriver /\ told[t] = {}
  /\ d \in pool[t]
  /\ winner' = [winner EXCEPT ![t] = d]
  /\ told' = [told EXCEPT ![t] = {d}]
  /\ UNCHANGED <<made, pool>>

(* Accepting again gets the same answer. *)
Confirm(t, d) ==
  /\ winner[t] = d
  /\ told' = [told EXCEPT ![t] = @ \cup {d}]
  /\ UNCHANGED <<made, pool, winner>>

Withdraw(t) ==
  /\ t \in made
  /\ winner' = [winner EXCEPT ![t] = NoDriver]
  /\ told' = [told EXCEPT ![t] = {}]
  /\ UNCHANGED <<made, pool>>

Next ==
  \E t \in Trips :
    \/ Withdraw(t)
    \/ \E d \in Drivers \cup {NoDriver} : Ask(t, d)
    \/ \E d \in Drivers : Invite(t, d) \/ Grant(t, d) \/ Confirm(t, d)

Spec == Init /\ [][Next]_vars

=============================================================================
