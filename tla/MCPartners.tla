----------------------------- MODULE MCPartners -----------------------------
(* Small instances of Onboarding, Fleet, Accounts and Reports.  They share *)
(* no state, so a behaviour is one of one of them.                         *)
EXTENDS Onboarding, Fleet, Accounts, Reports, TLC

CONSTANTS k1, k2, e1, e2, a1, a2, oa, ob, ka, kb, l1, l2, d1, d2, t1, t2

VARIABLE part

PartnersInit ==
  /\ part \in {"onboarding", "fleet", "accounts", "reports"}
  /\ OnboardingInit /\ FleetInit /\ AccountInit /\ ReportInit
  /\ driver = [d \in Drivers |-> [online |-> FALSE, approved |-> d = d1]]
  /\ standing[d1] = "active" /\ standing[d2] \in {"active", "removed"}
  /\ trip[t2].driver = d2 /\ trip[t2].phase # "off"
  /\ trip[t1] = [driver |-> d1, phase |-> "ahead", fare |-> 3, day |-> 0]
  /\ part # "reports" => standing[d2] = "active" /\ trip[t2].phase = "ahead" /\ trip[t2].fare = 0

PartnersNext ==
  \/ /\ part = "onboarding" /\ OnboardingNext
     /\ UNCHANGED <<part, fleetVars, accountVars, reportVars>>
  \/ /\ part = "fleet" /\ FleetNext
     /\ UNCHANGED <<part, onboardingVars, accountVars, reportVars>>
  \/ /\ part = "accounts" /\ AccountNext
     /\ UNCHANGED <<part, onboardingVars, fleetVars, reportVars>>
  \/ /\ part = "reports" /\ ReportNext
     /\ UNCHANGED <<part, onboardingVars, fleetVars, accountVars>>

PartnersSpec ==
  PartnersInit /\ [][PartnersNext]_<<part, onboardingVars, fleetVars, accountVars, reportVars>>

Alike ==
  Permutations({a1, a2}) \cup Permutations({oa, ob}) \cup Permutations({l1, l2})
    \cup Permutations({e1, e2})

=============================================================================
