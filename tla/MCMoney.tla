------------------------------ MODULE MCMoney ------------------------------
(* Small instances of Money.  A behaviour is one of one of a run's parts.  *)
EXTENDS Money, TLC

CONSTANTS t1, t2, d1, d2, w1, w2, p1, p2
CONSTANT Parts  \* those of the parts below that a run is about

VARIABLE part

(* trips:   no payouts                                                     *)
(* payouts: payouts, one webhook, no settlement of a completion that raises *)
MoneyInit == Init /\ part \in Parts
MoneyNext ==
  /\ Next
  /\ part = "trips" => payout' = payout /\ \A w \in Workers : job'[w].p = NoPayout
  /\ part = "payouts" => raised' = raised /\ webhooks' <= 1
  /\ UNCHANGED part
MoneySpec == MoneyInit /\ [][MoneyNext]_<<vars, part>>

(* The fairness of FairSpec.  *)
FairMoneySpec == MoneySpec /\ \A w \in Workers : WF_vars(Step(w))

=============================================================================
