------------------------------ MODULE Accounts ------------------------------
(***************************************************************************)
(* The account of one telephone number: one-time passwords and logins of   *)
(* authn/services.py, authn/firebase_auth.py and authn/api.py, and the     *)
(* other ways a user becomes a driver (get_object and onboarding of        *)
(* drivers/api.py, the portal's driver list, add_driver_to_fleet) or has   *)
(* his row saved (update_profile), with the signal that gives every driver *)
(* a profile.                                                              *)
(*                                                                         *)
(* A request reads the user, decides by what it read, and saves the role.  *)
(***************************************************************************)
EXTENDS Naturals, FiniteSets

CONSTANTS
  Logins,    \* requests that can be in progress at once
  Bootstrap, \* the number is one of ADMIN_BOOTSTRAP_PHONES
  MaxCodes   \* bound: one-time passwords sent

ASSUME AccountConstants == Bootstrap \in BOOLEAN /\ MaxCodes \in Nat

VARIABLES
  role,        \* User.role, or "absent" before there is a user
  driverRow,   \* a DriverProfile exists
  ownerRow,    \* a FleetOwnerProfile exists
  code,        \* otp:login:<phone>, 0 if there is none
  sent,        \* one-time passwords sent
  login,       \* what each request does next, by which way, and what it read
  tokens,      \* history: by which one-time passwords tokens were issued
  misread,     \* history: a role was saved over one the request had not read
  shared       \* history: one-time passwords two requests compared at once

accountVars == <<role, driverRow, ownerRow, code, sent, login, tokens, misread, shared>>

Role == {"customer", "driver", "fleet_driver", "fleet_owner", "super_admin"}
Drives == {"driver", "fleet_driver"}
OtpWay == {"otp_customer", "otp_driver", "otp_owner"}
PasswordWay == {"password_customer", "password_driver", "password_admin"}
Way == OtpWay \cup PasswordWay \cup
         {"firebase_customer", "firebase_driver", "portal", "fleet", "app", "onboarding", "profile"}

Login == [at : {"idle", "delete", "read", "save", "token"}, way : Way,
          code : 0 .. MaxCodes, seen : Role \cup {"absent"}]
NoLogin == [at |-> "idle", way |-> "app", code |-> 0, seen |-> "absent"]

AccountTypeOK ==
  /\ role \in Role \cup {"absent"}
  /\ driverRow \in BOOLEAN /\ ownerRow \in BOOLEAN
  /\ code \in 0 .. sent /\ sent \in 0 .. MaxCodes
  /\ login \in [Logins -> Login]
  /\ tokens \subseteq 0 .. MaxCodes
  /\ misread \in BOOLEAN
  /\ shared \subseteq 1 .. MaxCodes

AccountInit ==
  /\ role = "absent"
  /\ driverRow = FALSE /\ ownerRow = FALSE
  /\ code = 0 /\ sent = 0
  /\ login = [l \in Logins |-> NoLogin]
  /\ tokens = {} /\ misread = FALSE /\ shared = {}

LoginAt(l, at) ==
  login' = [login EXCEPT ![l] = IF at = "idle" THEN NoLogin ELSE [@ EXCEPT !.at = at]]

-----------------------------------------------------------------------------
(* request_otp puts a new code in the place of the old, sent or not.       *)
RequestOtp ==
  /\ sent < MaxCodes
  /\ sent' = sent + 1
  /\ code' = sent + 1
  /\ UNCHANGED <<role, driverRow, ownerRow, login, tokens, misread, shared>>

OtpExpires ==
  /\ code # 0
  /\ code' = 0
  /\ UNCHANGED <<role, driverRow, ownerRow, sent, login, tokens, misread, shared>>

(* verify_otp_and_issue_tokens compares the code and then deletes whatever *)
(* is there.                                                               *)
VerifyOtp(l, way) ==
  /\ login[l].at = "idle" /\ way \in OtpWay /\ code # 0
  /\ login' = [login EXCEPT ![l] = [at |-> "delete", way |-> way, code |-> code, seen |-> "absent"]]
  /\ shared' = IF \E m \in Logins : login[m].at = "delete" /\ login[m].code = code
               THEN shared \cup {code} ELSE shared
  /\ UNCHANGED <<role, driverRow, ownerRow, code, sent, tokens, misread>>

(* mutant: the code stays until it expires                                 *)
KeepCode(l) ==
  /\ login[l].at = "delete"
  /\ LoginAt(l, "read")
  /\ UNCHANGED <<role, driverRow, ownerRow, code, sent, tokens, misread, shared>>

DeleteOtp(l) ==
  /\ login[l].at = "delete"
  /\ code' = 0
  /\ LoginAt(l, "read")
  /\ UNCHANGED <<role, driverRow, ownerRow, sent, tokens, misread, shared>>

(* The other ways begin with a check of their own: a Firebase token, a     *)
(* password, an administrator's or an owner's login, or tokens.            *)
Begin(l, way) ==
  /\ login[l].at = "idle" /\ way \notin OtpWay
  /\ way \in PasswordWay \cup {"app", "onboarding", "profile"} => role # "absent"
  /\ login' = [login EXCEPT ![l] = [NoLogin EXCEPT !.at = "read", !.way = way]]
  /\ UNCHANGED <<role, driverRow, ownerRow, code, sent, tokens, misread, shared>>

(* find_user_by_phone.  A password login promotes a bootstrap number       *)
(* before it looks at the role.                                            *)
ReadUser(l) ==
  LET promoted == login[l].way \in PasswordWay /\ Bootstrap
  IN  /\ login[l].at = "read"
      /\ role' = IF promoted THEN "super_admin" ELSE role
      /\ login' = [login EXCEPT ![l] = [@ EXCEPT !.at = "save", !.seen = role']]
      /\ UNCHANGED <<driverRow, ownerRow, code, sent, tokens, misread, shared>>

-----------------------------------------------------------------------------
(* What a way decides by the user it read: whether it refuses him, which   *)
(* role it gives him, and whether the role is among the columns it saves.  *)
Verdict(refused, given, saves) == [refused |-> refused, given |-> given, saves |-> saves]
Kept(seen) == IF seen = "absent" THEN "customer" ELSE seen

(* mutant: an owner's login is refused to customers only                   *)
OtpOwnerFew(seen) == Verdict(seen = "customer", "fleet_owner", TRUE)

(* verify_otp_and_issue_tokens: an owner's login refuses everybody but new *)
(* users and owners; a driver's saves the role even if it is the same; a   *)
(* customer's keeps it.                                                    *)
OtpOwner(seen)    == Verdict(seen \notin {"fleet_owner", "absent"}, "fleet_owner", TRUE)
OtpDriver(seen)   == Verdict(FALSE, "driver", TRUE)
OtpCustomer(seen) == Verdict(FALSE, Kept(seen), seen = "absent")

(* find_or_create_user_for_firebase: for drivers and for customers.        *)
Firebase(asked, seen) ==
  IF asked = "driver" THEN Verdict(FALSE, "driver", seen # "driver")
                      ELSE Verdict(FALSE, Kept(seen), seen = "absent")

(* The password logins, after the bootstrap: PasswordLoginView makes the   *)
(* user a driver if it is asked to, AdminLoginView wants an administrator. *)
Password(asked, seen) ==
  IF asked = "driver" THEN Verdict(FALSE, "driver", seen # "driver")
                      ELSE Verdict(FALSE, seen, FALSE)
AdminLogin(seen) == Verdict(seen # "super_admin", seen, FALSE)

(* PortalDriversView.post: an administrator makes anybody a driver who is  *)
(* none yet and no administrator.                                          *)
Portal(seen) == Verdict(seen \in Drives \cup {"super_admin"}, "driver", TRUE)

(* add_driver_to_fleet: no owners, and customers only if they drove once.  *)
AddToFleet(seen) ==
  Verdict(seen = "fleet_owner" \/ (seen = "customer" /\ ~driverRow),
          IF seen \in Drives THEN seen ELSE "fleet_driver", seen \notin Drives)

(* get_object of the driver's app, which returns the profile if there is   *)
(* one, and submit_driver_onboarding.                                      *)
Driving(seen) == IF seen \in Drives THEN seen ELSE "driver"
GetObject(seen)        == Verdict(driverRow, Driving(seen), seen \notin Drives)
SubmitOnboarding(seen) == Verdict(FALSE, Driving(seen), seen \notin Drives)

(* update_profile, for customers and administrators: it saves the whole    *)
(* row of the user, whose role is only read.                               *)
UpdateProfile(seen) == Verdict(seen \notin {"customer", "super_admin"}, seen, TRUE)

Decision(way, seen) ==
  CASE way = "otp_owner"         -> OtpOwner(seen)
    [] way = "otp_driver"        -> OtpDriver(seen)
    [] way = "otp_customer"      -> OtpCustomer(seen)
    [] way = "firebase_driver"   -> Firebase("driver", seen)
    [] way = "firebase_customer" -> Firebase("customer", seen)
    [] way = "password_driver"   -> Password("driver", seen)
    [] way = "password_customer" -> Password("customer", seen)
    [] way = "password_admin"    -> AdminLogin(seen)
    [] way = "portal"            -> Portal(seen)
    [] way = "fleet"             -> AddToFleet(seen)
    [] way = "app"               -> GetObject(seen)
    [] way = "onboarding"        -> SubmitOnboarding(seen)
    [] way = "profile"           -> UpdateProfile(seen)

(* mutant: the role is saved in capitals                                   *)
SaveCapitals(l) ==
  /\ login[l].at = "save"
  /\ role' = "DRIVER"
  /\ LoginAt(l, "idle")
  /\ UNCHANGED <<driverRow, ownerRow, code, sent, tokens, misread, shared>>

(* The user is created, unless another request was first, which the unique *)
(* number turns into an error; or saved.  The signal looks at the role the *)
(* request holds, and profiles are created where they are missing.         *)
Save(l) ==
  LET way     == login[l].way
      seen    == login[l].seen
      verdict == Decision(way, seen)
  IN  /\ login[l].at = "save"
      /\ IF verdict.refused \/ (seen = "absent" /\ role # "absent")
         THEN LoginAt(l, "idle") /\ UNCHANGED <<role, driverRow, ownerRow, misread>>
         ELSE /\ role' = IF verdict.saves THEN verdict.given ELSE role
              /\ misread' = (misread \/ (verdict.saves /\ role # seen))
              /\ driverRow' = (driverRow \/ verdict.given \in Drives)
              /\ ownerRow' = (ownerRow \/ way = "otp_owner")
              /\ LoginAt(l, "token")
      /\ UNCHANGED <<code, sent, tokens, shared>>

(* Tokens are issued; the driver's app, the portal and fleets issue none.  *)
Issue(l) ==
  /\ login[l].at = "token"
  /\ tokens' = IF login[l].way \in OtpWay THEN tokens \cup {login[l].code} ELSE tokens
  /\ LoginAt(l, "idle")
  /\ UNCHANGED <<role, driverRow, ownerRow, code, sent, misread, shared>>

AccountNext ==
  \/ RequestOtp
  \/ OtpExpires
  \/ \E l \in Logins, way \in OtpWay : VerifyOtp(l, way)
  \/ \E l \in Logins : DeleteOtp(l)
  \/ \E l \in Logins, way \in Way \ OtpWay : Begin(l, way)
  \/ \E l \in Logins : ReadUser(l)
  \/ \E l \in Logins : Save(l)
  \/ \E l \in Logins : Issue(l)

AccountSpec == AccountInit /\ [][AccountNext]_accountVars

-----------------------------------------------------------------------------
(* Only a role saved over one that changed since it was read makes a fleet *)
(* owner of somebody who has a driver's profile: every way to a driver's   *)
(* profile takes the owner's role away, and an owner's login refuses       *)
(* everybody who ever drove.                                               *)
OwnerNeverDrives == role = "fleet_owner" /\ driverRow => misread

(* A one-time password issues tokens once, unless two requests compared it *)
(* before either deleted it.                                               *)
CodeSpentOnce ==
  [][\A l \in Logins :
       login[l].at = "token" /\ login'[l].at = "idle" /\ login[l].way \in OtpWay
         => login[l].code \notin tokens \/ login[l].code \in shared]_accountVars

=============================================================================
