-------------------------- MODULE Partners_proofs ---------------------------
(***************************************************************************)
(* Theorems about modules Onboarding, Accounts and Reports, for any number *)
(* of clerks, documents and files, of requests and codes, and of drivers   *)
(* and trips.                                                              *)
(***************************************************************************)
EXTENDS Onboarding, Accounts, Reports, FiniteSetTheorems, TLAPS

-----------------------------------------------------------------------------
(* Onboarding.                                                             *)

(* While an approval is owed nothing is pending, and the driver is         *)
(* approved or a clerk is on the way to approve him.                       *)
SomebodyApproves ==
  owed =>
    /\ NothingPending
    /\ profile.kyc = "approved" \/ \E c \in Clerks : clerk[c].at \in {"check", "approve"}

-----------------------------------------------------------------------------
LEMMA FilesGrow ==
  ASSUME OnboardingTypeOK, files < MaxFiles
  PROVE  files + 1 \in 1 .. MaxFiles /\ files + 1 \in 0 .. MaxFiles
  BY OnboardingConstants DEF OnboardingTypeOK

LEMMA AttachedIsDocument ==
  ASSUME OnboardingTypeOK, files < MaxFiles, NEW k \in Kinds
  PROVE  Attached(k) \in Document
<1>1. doc[k] = NoDoc \/ doc[k].image \in 0 .. MaxFiles
  BY DEF OnboardingTypeOK, Document
<1>2. (IF doc[k] = NoDoc THEN 0 ELSE doc[k].image) \in 0 .. MaxFiles
  BY <1>1, OnboardingConstants
<1> QED BY <1>2, FilesGrow DEF Attached, Document, DocStatus

LEMMA ReviewedIsTyped ==
  ASSUME OnboardingTypeOK, NEW k \in Kinds, doc[k] # NoDoc, NEW status \in DocStatus
  PROVE  Reviewed(k, status) \in [Kinds -> Document \cup {NoDoc}]
<1>1. doc[k] \in Document
  BY DEF OnboardingTypeOK
<1>2. [doc[k] EXCEPT !.status = status] \in Document
  BY <1>1 DEF Document
<1> QED BY <1>2 DEF Reviewed, OnboardingTypeOK

(* The state stays within its types, whatever driver, owner, clerks and    *)
(* administrators do.                                                      *)
THEOREM OnboardingTypeCorrect == OnboardingSpec => []OnboardingTypeOK
<1>1. OnboardingInit => OnboardingTypeOK
  <2> SUFFICES ASSUME OnboardingInit PROVE OnboardingTypeOK
    OBVIOUS
  <2>1. profile \in Profile /\ submission \in Profile \cup {NoProfile}
    BY DEF OnboardingInit, Profile, DocStatus
  <2>2. clerk \in [Clerks -> [at : {"idle", "check", "approve"}, kind : Kinds \cup {NoKind}]]
    BY DEF OnboardingInit, Resting
  <2>3. owed \in BOOLEAN
    BY Zenon DEF OnboardingInit
  <2>4. doc \in [Kinds -> Document \cup {NoDoc}] /\ files \in 0 .. MaxFiles
    BY OnboardingConstants DEF OnboardingInit
  <2> QED BY <2>1, <2>2, <2>3, <2>4 DEF OnboardingTypeOK
<1>2. OnboardingTypeOK /\ [OnboardingNext]_onboardingVars => OnboardingTypeOK'
  <2> SUFFICES ASSUME OnboardingTypeOK, [OnboardingNext]_onboardingVars
               PROVE  OnboardingTypeOK'
    OBVIOUS
  <2>1. ASSUME NEW k \in Kinds, Upload(k) \/ UploadByFleet(k)
        PROVE OnboardingTypeOK'
    <3>1. PICK image \in {0, files + 1} : Uploaded(k, image)
      BY <2>1 DEF Upload, UploadByFleet
    <3>2. [status |-> "pending", file |-> files + 1, image |-> image] \in Document
      BY <3>1, FilesGrow, OnboardingConstants DEF Uploaded, Document, DocStatus
    <3>3. doc' \in [Kinds -> Document \cup {NoDoc}]
      BY <3>1, <3>2 DEF Uploaded, OnboardingTypeOK
    <3> QED BY <3>1, <3>3, FilesGrow DEF Uploaded, OnboardingTypeOK
  <2>2. ASSUME NEW k \in Kinds, AttachByFleet(k) PROVE OnboardingTypeOK'
    <3>1. doc' \in [Kinds -> Document \cup {NoDoc}]
      BY <2>2, AttachedIsDocument DEF AttachByFleet, OnboardingTypeOK
    <3> QED BY <2>2, <3>1, FilesGrow DEF AttachByFleet, OnboardingTypeOK
  <2>3. CASE CompleteTraining
    <3>1. profile' \in Profile
      BY <2>3 DEF CompleteTraining, OnboardingTypeOK, Profile
    <3> QED BY <2>3, <3>1 DEF CompleteTraining, OnboardingTypeOK
  <2>4. CASE SubmitRead
    BY <2>4 DEF SubmitRead, OnboardingTypeOK
  <2>5. ASSUME NEW kinds \in SUBSET Kinds, SubmitSave(kinds) PROVE OnboardingTypeOK'
    <3>1. submission \in Profile
      BY <2>5 DEF SubmitSave, OnboardingTypeOK
    <3>2. profile' \in Profile
      BY <2>5, <3>1 DEF SubmitSave, Profile, DocStatus
    <3>3. \A k \in kinds : Attached(k) \in Document
      BY <2>5, AttachedIsDocument DEF SubmitSave
    <3>4. doc' \in [Kinds -> Document \cup {NoDoc}]
      BY <2>5, <3>3 DEF SubmitSave, OnboardingTypeOK
    <3>5. files' \in 0 .. MaxFiles
      BY <2>5, FilesGrow DEF SubmitSave, OnboardingTypeOK
    <3> QED BY <2>5, <3>2, <3>4, <3>5 DEF SubmitSave, OnboardingTypeOK
  <2>6. ASSUME NEW c \in Clerks, NEW k \in Kinds, NEW status \in DocStatus, Review(c, k, status)
        PROVE OnboardingTypeOK'
    <3>1. doc' \in [Kinds -> Document \cup {NoDoc}]
      BY <2>6, ReviewedIsTyped DEF Review
    <3>2. clerk' \in [Clerks -> [at : {"idle", "check", "approve"}, kind : Kinds \cup {NoKind}]]
      BY <2>6 DEF Review, OnboardingTypeOK
    <3>3. owed' \in BOOLEAN
      BY <2>6, Zenon DEF Review
    <3> QED BY <2>6, <3>1, <3>2, <3>3 DEF Review, OnboardingTypeOK
  <2>7. ASSUME NEW c \in Clerks, CheckPending(c) PROVE OnboardingTypeOK'
    <3>1. clerk' \in [Clerks -> [at : {"idle", "check", "approve"}, kind : Kinds \cup {NoKind}]]
      BY <2>7 DEF CheckPending, OnboardingTypeOK, Resting
    <3> QED BY <2>7, <3>1 DEF CheckPending, OnboardingTypeOK
  <2>8. ASSUME NEW c \in Clerks, ApproveDriver(c) PROVE OnboardingTypeOK'
    <3>1. clerk' \in [Clerks -> [at : {"idle", "check", "approve"}, kind : Kinds \cup {NoKind}]]
      BY <2>8 DEF ApproveDriver, OnboardingTypeOK, Resting
    <3>2. profile' \in Profile
      BY <2>8 DEF ApproveDriver, OnboardingTypeOK, Profile, DocStatus
    <3> QED BY <2>8, <3>1, <3>2 DEF ApproveDriver, OnboardingTypeOK
  <2>9. ASSUME NEW status \in DocStatus, SetKyc(status) PROVE OnboardingTypeOK'
    <3>1. profile' \in Profile
      BY <2>9 DEF SetKyc, OnboardingTypeOK, Profile
    <3> QED BY <2>9, <3>1 DEF SetKyc, OnboardingTypeOK
  <2>10. CASE UNCHANGED onboardingVars
    BY <2>10 DEF onboardingVars, OnboardingTypeOK
  <2> QED BY <2>1, <2>2, <2>3, <2>4, <2>5, <2>6, <2>7, <2>8, <2>9, <2>10 DEF OnboardingNext
<1> QED BY <1>1, <1>2, PTL DEF OnboardingSpec

-----------------------------------------------------------------------------
LEMMA ApprovesStep ==
  OnboardingTypeOK /\ SomebodyApproves /\ [OnboardingNext]_onboardingVars => SomebodyApproves'
<1> SUFFICES ASSUME OnboardingTypeOK, SomebodyApproves, [OnboardingNext]_onboardingVars, owed'
             PROVE  /\ NothingPending'
                    /\ \/ profile'.kyc = "approved"
                       \/ \E c \in Clerks : clerk'[c].at \in {"check", "approve"}
  BY DEF SomebodyApproves
<1> USE DEF NothingPending, Pending
<1>1. CASE CompleteTraining
  BY <1>1 DEF CompleteTraining, SomebodyApproves, OnboardingTypeOK, Profile
<1>2. CASE SubmitRead
  BY <1>2 DEF SubmitRead, SomebodyApproves
<1>3. ASSUME NEW c \in Clerks, NEW k \in Kinds, NEW status \in DocStatus, Review(c, k, status)
      PROVE  /\ NothingPending'
             /\ clerk'[c].at = "check"
  <2>1. status = "approved" /\ \A l \in Kinds \ {k} : ~Pending(l)
    BY <1>3 DEF Review
  <2>2. clerk'[c].at = "check"
    BY <1>3, <2>1 DEF Review, OnboardingTypeOK
  <2>3. doc' = [doc EXCEPT ![k].status = "approved"]
    BY <1>3, <2>1 DEF Review, Reviewed
  <2>4. doc[k] \in Document
    BY <1>3 DEF Review, OnboardingTypeOK
  <2>5. doc'[k].status = "approved" /\ \A l \in Kinds \ {k} : doc'[l] = doc[l]
    BY <2>3, <2>4 DEF OnboardingTypeOK, Document
  <2> QED BY <2>1, <2>2, <2>5
<1>4. ASSUME NEW c \in Clerks, CheckPending(c)
      PROVE  NothingPending' /\ clerk'[c].at = "approve"
  <2>1. owed /\ NothingPending
    BY <1>4 DEF CheckPending, SomebodyApproves
  <2>2. clerk' = [clerk EXCEPT ![c] = [@ EXCEPT !.at = "approve"]]
    BY <1>4, <2>1 DEF CheckPending
  <2>3. clerk'[c].at = "approve"
    BY <2>2 DEF OnboardingTypeOK
  <2> QED BY <1>4, <2>1, <2>3 DEF CheckPending
<1>5. ASSUME NEW c \in Clerks, ApproveDriver(c)
      PROVE  NothingPending' /\ profile'.kyc = "approved"
  BY <1>5 DEF ApproveDriver, SomebodyApproves, OnboardingTypeOK, Profile
<1>6. CASE UNCHANGED onboardingVars
  BY <1>6 DEF onboardingVars, SomebodyApproves
<1>7. /\ \A k \in Kinds : ~Upload(k) /\ ~UploadByFleet(k)
      /\ \A k \in Kinds : ~AttachByFleet(k)
      /\ \A kinds \in SUBSET Kinds : ~SubmitSave(kinds)
      /\ \A status \in DocStatus : ~SetKyc(status)
  BY DEF Upload, UploadByFleet, Uploaded, AttachByFleet, SubmitSave, SetKyc
<1> QED BY <1>1, <1>2, <1>3, <1>4, <1>5, <1>6, <1>7 DEF OnboardingNext

(* LastApprovalApproves for any number of clerks: when the approval of the *)
(* last pending document is owed and no clerk is at work, it has been      *)
(* given.                                                                  *)
THEOREM LastApprovalCounts == OnboardingSpec => []LastApprovalApproves
<1>1. OnboardingInit => SomebodyApproves
  BY DEF OnboardingInit, SomebodyApproves
<1>2. SomebodyApproves => LastApprovalApproves
  BY DEF SomebodyApproves, LastApprovalApproves
<1> QED BY <1>1, <1>2, OnboardingTypeCorrect, ApprovesStep, PTL DEF OnboardingSpec

-----------------------------------------------------------------------------
(* Accounts.                                                               *)

(* A user who drives has a profile, nobody else who is not a user yet, and *)
(* what a request read of either is still so when it saves.                *)
DriversHaveRows ==
  /\ role = "absent" => ~driverRow
  /\ role \in Drives => driverRow
  /\ \A l \in Logins : login[l].at = "save" =>
       /\ login[l].seen # "absent" => role # "absent"
       /\ login[l].seen \in Drives => driverRow

(* Codes in use are codes that were sent, and a code that a request has    *)
(* deleted, or has tokens by, is never the current one again.              *)
ByOtp(l) == login[l].at # "idle" /\ login[l].way \in OtpWay
CodesArePast ==
  /\ \A l \in Logins : ByOtp(l) => login[l].code \in 1 .. sent
  /\ tokens \subseteq 1 .. sent
  /\ \A l \in Logins : ByOtp(l) /\ login[l].at # "delete" => login[l].code # code
  /\ code \notin tokens

(* Two requests with one code compared it at once, and so did one with a   *)
(* code by which tokens were issued.                                       *)
SharedIsKnown ==
  /\ \A l, m \in Logins :
       l # m /\ ByOtp(l) /\ ByOtp(m) /\ login[l].code = login[m].code
         => login[l].code \in shared
  /\ \A l \in Logins : ByOtp(l) /\ login[l].code \in tokens => login[l].code \in shared

-----------------------------------------------------------------------------
(* Ways and requests, as sets.                                             *)
LEMMA Ways == OtpWay \subseteq Way /\ "app" \in Way \ OtpWay
  BY DEF Way, OtpWay
LEMMA NoLoginIsLogin == NoLogin \in Login
  BY AccountConstants, Ways DEF NoLogin, Login
LEMMA LoginMoves ==
  ASSUME login \in [Logins -> Login], NEW l \in Logins,
         NEW at \in {"idle", "delete", "read", "save", "token"}, LoginAt(l, at)
  PROVE  /\ login' \in [Logins -> Login]
         /\ at = "idle" => login'[l] = NoLogin
         /\ at # "idle" => login'[l] = [login[l] EXCEPT !.at = at]
         /\ \A m \in Logins \ {l} : login'[m] = login[m]
  BY NoLoginIsLogin DEF LoginAt, Login

LEMMA MovesElsewhere ==
  ASSUME login \in [Logins -> Login], NEW l \in Logins,
         NEW at \in {"idle", "read", "token"}, LoginAt(l, at)
  PROVE  \A m \in Logins : login'[m].at = "save" => m # l /\ login'[m] = login[m]
<1>1. login'[l].at # "save"
  <2>1. CASE at = "idle"
    <3>1. login'[l] = NoLogin
      BY <2>1, LoginMoves
    <3> QED BY <3>1 DEF NoLogin
  <2>2. CASE at # "idle"
    <3>1. login'[l] = [login[l] EXCEPT !.at = at]
      BY <2>2, LoginMoves
    <3> QED BY <3>1 DEF Login
  <2> QED BY <2>1, <2>2
<1> QED BY <1>1, LoginMoves

(* A way saves a role or leaves the one it read, and gives the owner's     *)
(* role to owners and to new users only.                                   *)
LEMMA Decisions ==
  ASSUME NEW way \in Way, NEW seen \in Role \cup {"absent"}
  PROVE  /\ Decision(way, seen).saves \in BOOLEAN
         /\ Decision(way, seen).saves /\ ~Decision(way, seen).refused
              => Decision(way, seen).given \in Role
         /\ ~Decision(way, seen).saves => Decision(way, seen).given = seen
         /\ Decision(way, seen).given = "fleet_owner" /\ Decision(way, seen).saves
              => Decision(way, seen).refused \/ seen \in {"fleet_owner", "absent"}
<1>1. CASE way = "profile"
  <2>1. Decision(way, seen) = UpdateProfile(seen)
    BY <1>1 DEF Decision
  <2>2. UpdateProfile(seen).given = seen /\ UpdateProfile(seen).saves = TRUE
    BY DEF UpdateProfile, Verdict
  <2>3. ~UpdateProfile(seen).refused => seen \in {"customer", "super_admin"}
    BY Zenon DEF UpdateProfile, Verdict
  <2>4. UpdateProfile(seen).given = "fleet_owner" => UpdateProfile(seen).refused \/ seen = "fleet_owner"
    BY <2>2
  <2>5. ~UpdateProfile(seen).refused => UpdateProfile(seen).given \in Role
    BY <2>2, <2>3 DEF Role
  <2> QED BY <2>1, <2>2, <2>4, <2>5
<1>2. CASE way \in OtpWay
  BY <1>2 DEF OtpWay, Decision, Verdict, Kept, OtpOwner, OtpDriver, OtpCustomer, Role
<1>3. CASE way \in PasswordWay
  BY <1>3 DEF PasswordWay, Decision, Verdict, Password, AdminLogin, Role
<1>4. CASE way \in {"firebase_customer", "firebase_driver", "portal", "fleet", "app", "onboarding"}
  BY <1>4 DEF Decision, Verdict, Kept, Firebase, Portal, AddToFleet, GetObject, SubmitOnboarding,
              Driving, Role, Drives
<1> QED BY <1>1, <1>2, <1>3, <1>4 DEF Way

(* The state stays within its types, whatever the requests do.             *)
THEOREM AccountTypeCorrect == AccountSpec => []AccountTypeOK
<1>1. AccountInit => AccountTypeOK
  <2> SUFFICES ASSUME AccountInit PROVE AccountTypeOK
    OBVIOUS
  <2>1. driverRow \in BOOLEAN /\ ownerRow \in BOOLEAN /\ misread \in BOOLEAN
    BY Zenon DEF AccountInit
  <2>2. login \in [Logins -> Login]
    BY NoLoginIsLogin DEF AccountInit
  <2> QED BY <2>1, <2>2, AccountConstants DEF AccountInit, AccountTypeOK
<1>2. AccountTypeOK /\ [AccountNext]_accountVars => AccountTypeOK'
  <2> SUFFICES ASSUME AccountTypeOK, [AccountNext]_accountVars PROVE AccountTypeOK'
    OBVIOUS
  <2> USE AccountConstants DEF AccountTypeOK
  <2>1. CASE RequestOtp
    BY <2>1 DEF RequestOtp
  <2>2. CASE OtpExpires
    BY <2>2 DEF OtpExpires
  <2>3. ASSUME NEW l \in Logins, NEW way \in OtpWay, VerifyOtp(l, way) PROVE AccountTypeOK'
    <3>1. [at |-> "delete", way |-> way, code |-> code, seen |-> "absent"] \in Login
      BY Ways DEF Login
    <3>2. shared' \subseteq 1 .. MaxCodes
      <4>1. code \in 1 .. MaxCodes
        BY <2>3 DEF VerifyOtp
      <4>2. shared' = shared \cup {code} \/ shared' = shared
        BY <2>3, Zenon DEF VerifyOtp
      <4> QED BY <4>1, <4>2
    <3>3. login' \in [Logins -> Login]
      BY <2>3, <3>1 DEF VerifyOtp
    <3> QED BY <2>3, <3>2, <3>3 DEF VerifyOtp
  <2>4. ASSUME NEW l \in Logins, DeleteOtp(l) PROVE AccountTypeOK'
    <3>1. login' \in [Logins -> Login]
      BY <2>4, LoginMoves DEF DeleteOtp
    <3>2. code' \in 0 .. sent' /\ sent' \in 0 .. MaxCodes
      BY <2>4 DEF DeleteOtp
    <3> QED BY <2>4, <3>1, <3>2 DEF DeleteOtp
  <2>5. ASSUME NEW l \in Logins, NEW way \in Way \ OtpWay, Begin(l, way) PROVE AccountTypeOK'
    <3>1. [NoLogin EXCEPT !.at = "read", !.way = way] \in Login
      BY NoLoginIsLogin DEF Login
    <3> QED BY <2>5, <3>1 DEF Begin
  <2>6. ASSUME NEW l \in Logins, ReadUser(l) PROVE AccountTypeOK'
    <3>1. role' \in Role \cup {"absent"}
      BY <2>6 DEF ReadUser, Role
    <3>2. [login[l] EXCEPT !.at = "save", !.seen = role'] \in Login
      BY <3>1 DEF Login
    <3> QED BY <2>6, <3>1, <3>2 DEF ReadUser
  <2>7. ASSUME NEW l \in Logins, Save(l) PROVE AccountTypeOK'
    <3> DEFINE way == login[l].way
               seen == login[l].seen
    <3>0. way \in Way /\ seen \in Role \cup {"absent"}
      BY DEF Login
    <3>1. Decision(way, seen).saves /\ ~Decision(way, seen).refused
            => Decision(way, seen).given \in Role
      BY <3>0, Decisions
    <3>2. role' \in Role \cup {"absent"}
      BY <2>7, <3>1 DEF Save
    <3>3. login' \in [Logins -> Login]
      BY <2>7, LoginMoves DEF Save
    <3>4. driverRow' \in BOOLEAN /\ ownerRow' \in BOOLEAN /\ misread' \in BOOLEAN
      BY <2>7, Zenon DEF Save
    <3> QED BY <2>7, <3>2, <3>3, <3>4 DEF Save
  <2>8. ASSUME NEW l \in Logins, Issue(l) PROVE AccountTypeOK'
    <3>1. login[l].way \in OtpWay /\ login[l].at = "token" => login[l].code \in 0 .. MaxCodes
      BY DEF Login
    <3> QED BY <2>8, <3>1, LoginMoves DEF Issue
  <2>9. CASE UNCHANGED accountVars
    BY <2>9 DEF accountVars
  <2> QED BY <2>1, <2>2, <2>3, <2>4, <2>5, <2>6, <2>7, <2>8, <2>9 DEF AccountNext
<1> QED BY <1>1, <1>2, PTL DEF AccountSpec

-----------------------------------------------------------------------------
(* Whoever has a driver's profile does not become a fleet owner by reads   *)
(* that are still true when the role is saved.                             *)
LEMMA RowsInit == AccountInit => DriversHaveRows /\ OwnerNeverDrives
  BY DEF AccountInit, DriversHaveRows, OwnerNeverDrives, NoLogin, Drives

LEMMA RowsStep ==
  AccountTypeOK /\ DriversHaveRows /\ OwnerNeverDrives /\ [AccountNext]_accountVars
    => (DriversHaveRows /\ OwnerNeverDrives)'
<1> SUFFICES ASSUME AccountTypeOK, DriversHaveRows, OwnerNeverDrives, [AccountNext]_accountVars
             PROVE  (DriversHaveRows /\ OwnerNeverDrives)'
  OBVIOUS
<1> USE DEF DriversHaveRows, OwnerNeverDrives
<1>t. login \in [Logins -> Login]
  BY DEF AccountTypeOK
<1>1. CASE RequestOtp
  BY <1>1 DEF RequestOtp
<1>2. CASE OtpExpires
  BY <1>2 DEF OtpExpires
<1>3. ASSUME NEW l \in Logins, NEW way \in OtpWay, VerifyOtp(l, way)
      PROVE (DriversHaveRows /\ OwnerNeverDrives)'
  BY <1>t, <1>3 DEF VerifyOtp
<1>4. ASSUME NEW l \in Logins, DeleteOtp(l) PROVE (DriversHaveRows /\ OwnerNeverDrives)'
  <2>1. \A m \in Logins : login'[m].at = "save" => login'[m] = login[m]
    BY <1>t, <1>4, LoginMoves DEF DeleteOtp, Login
  <2> QED BY <1>4, <2>1 DEF DeleteOtp
<1>5. ASSUME NEW l \in Logins, NEW way \in Way \ OtpWay, Begin(l, way)
      PROVE (DriversHaveRows /\ OwnerNeverDrives)'
  BY <1>t, <1>5 DEF Begin, NoLogin
<1>6. ASSUME NEW l \in Logins, ReadUser(l) PROVE (DriversHaveRows /\ OwnerNeverDrives)'
  <2>1. login' = [login EXCEPT ![l] = [@ EXCEPT !.at = "save", !.seen = role']]
    BY <1>6, Zenon DEF ReadUser
  <2>2. login'[l].seen = role' /\ \A m \in Logins \ {l} : login'[m] = login[m]
    BY <1>t, <2>1 DEF Login
  <2>3. driverRow' = driverRow /\ misread' = misread
    BY <1>6 DEF ReadUser
  <2>4. CASE role' = role
    BY <2>2, <2>3, <2>4
  <2>5. CASE role' = "super_admin"
    BY <2>2, <2>3, <2>5 DEF Drives
  <2>6. role' = role \/ role' = "super_admin"
    BY <1>6 DEF ReadUser
  <2> QED BY <2>4, <2>5, <2>6
<1>7. ASSUME NEW l \in Logins, Save(l) PROVE (DriversHaveRows /\ OwnerNeverDrives)'
  <2> DEFINE way == login[l].way
             seen == login[l].seen
             held == Decision(way, seen).given
             kept == ~Decision(way, seen).saves
  <2>0. /\ way \in Way /\ seen \in Role \cup {"absent"}
        /\ seen # "absent" => role # "absent"
        /\ seen \in Drives => driverRow
    BY <1>t, <1>7 DEF Save, Login
  <2>1. \A m \in Logins : login'[m].at = "save" => m # l /\ login'[m] = login[m]
    <3>1. LoginAt(l, "idle") \/ LoginAt(l, "token")
      BY <1>7, Zenon DEF Save
    <3> QED BY <3>1, <1>t, MovesElsewhere
  <2>2. CASE UNCHANGED <<role, driverRow, ownerRow, misread>>
    BY <2>1, <2>2
  <2>3. CASE ~(Decision(way, seen).refused \/ (seen = "absent" /\ role # "absent"))
    <3>1. /\ role' = IF kept THEN role ELSE held
          /\ misread' = (misread \/ (~kept /\ role # seen))
          /\ driverRow' = (driverRow \/ held \in Drives)
      BY <1>7, <2>3 DEF Save
    <3>2. /\ kept => held = seen
          /\ ~kept => held \in Role
          /\ ~kept /\ held = "fleet_owner" => seen \in {"fleet_owner", "absent"}
      BY <2>0, <2>3, Decisions
    <3> HIDE DEF held, kept
    <3>3. CASE kept
      BY <2>0, <2>1, <3>1, <3>2, <3>3
    <3>4. CASE ~kept
      BY <2>0, <2>1, <3>1, <3>2, <3>4 DEF Drives, Role
    <3> QED BY <3>3, <3>4
  <2> QED BY <1>7, <2>2, <2>3 DEF Save
<1>8. ASSUME NEW l \in Logins, Issue(l) PROVE (DriversHaveRows /\ OwnerNeverDrives)'
  <2>1. \A m \in Logins : login'[m].at = "save" => login'[m] = login[m]
    BY <1>t, <1>8, MovesElsewhere DEF Issue
  <2> QED BY <1>8, <2>1 DEF Issue
<1>9. CASE UNCHANGED accountVars
  BY <1>9 DEF accountVars
<1> QED BY <1>1, <1>2, <1>3, <1>4, <1>5, <1>6, <1>7, <1>8, <1>9 DEF AccountNext

(* OwnerNeverDrives for any number of requests at once.                    *)
THEOREM OwnersNeverDrive == AccountSpec => []OwnerNeverDrives
<1> QED BY AccountTypeCorrect, RowsInit, RowsStep, PTL DEF AccountSpec

-----------------------------------------------------------------------------
(* One-time passwords: every step keeps CodesArePast and SharedIsKnown.    *)
LEMMA CodesInit == AccountInit => CodesArePast /\ SharedIsKnown
  BY DEF AccountInit, CodesArePast, SharedIsKnown, ByOtp, NoLogin

(* A request that goes on keeps its way and its code.                      *)
LEMMA MovesKeepCodes ==
  ASSUME login \in [Logins -> Login], NEW l \in Logins, login[l].at # "idle",
         NEW at \in {"idle", "read", "token"}, LoginAt(l, at)
  PROVE  /\ \A m \in Logins : ByOtp(m)' => ByOtp(m) /\ login'[m].code = login[m].code
         /\ \A m \in Logins \ {l} : login'[m] = login[m]
         /\ at = "idle" => ~ByOtp(l)'
<1>1. \A m \in Logins \ {l} : login'[m] = login[m]
  BY LoginMoves
<1>2. CASE at = "idle"
  <2>1. login'[l] = NoLogin
    BY <1>2, LoginMoves
  <2>2. ~ByOtp(l)'
    BY <2>1 DEF ByOtp, NoLogin
  <2>3. \A m \in Logins \ {l} : ByOtp(m)' => ByOtp(m) /\ login'[m].code = login[m].code
    BY <1>1 DEF ByOtp
  <2> QED BY <1>1, <2>2, <2>3
<1>3. CASE at # "idle"
  <2>1. login'[l] = [login[l] EXCEPT !.at = at]
    BY <1>3, LoginMoves
  <2>2. login'[l].way = login[l].way /\ login'[l].code = login[l].code
    BY <2>1 DEF Login
  <2> QED BY <1>1, <1>3, <2>2 DEF ByOtp
<1> QED BY <1>2, <1>3

LEMMA CodesStep ==
  AccountTypeOK /\ CodesArePast /\ SharedIsKnown /\ [AccountNext]_accountVars
    => (CodesArePast /\ SharedIsKnown)'
<1> SUFFICES ASSUME AccountTypeOK, CodesArePast, SharedIsKnown, [AccountNext]_accountVars
             PROVE  CodesArePast' /\ SharedIsKnown'
  OBVIOUS
<1>t. /\ login \in [Logins -> Login]
      /\ sent \in Nat /\ code \in 0 .. sent
  BY AccountConstants DEF AccountTypeOK
<1>1. CASE RequestOtp
  <2>1. \A l \in Logins : ByOtp(l)' <=> ByOtp(l)
    BY <1>1 DEF RequestOtp, ByOtp
  <2>2. CodesArePast'
    BY <1>t, <1>1, <2>1 DEF RequestOtp, CodesArePast
  <2>3. SharedIsKnown'
    BY <1>1, <2>1 DEF RequestOtp, SharedIsKnown
  <2> QED BY <2>2, <2>3
<1>2. CASE OtpExpires
  <2>1. \A l \in Logins : ByOtp(l)' <=> ByOtp(l)
    BY <1>2 DEF OtpExpires, ByOtp
  <2>2. CodesArePast'
    BY <1>t, <1>2, <2>1 DEF OtpExpires, CodesArePast
  <2>3. SharedIsKnown'
    BY <1>2, <2>1 DEF OtpExpires, SharedIsKnown
  <2> QED BY <2>2, <2>3
<1>3. ASSUME NEW l \in Logins, NEW way \in OtpWay, VerifyOtp(l, way)
      PROVE CodesArePast' /\ SharedIsKnown'
  <2>1. /\ login'[l].at = "delete" /\ login'[l].way = way /\ login'[l].code = code
        /\ \A m \in Logins \ {l} : login'[m] = login[m]
        /\ code # 0
    BY <1>t, <1>3 DEF VerifyOtp
  <2>2. ByOtp(l)' /\ \A m \in Logins \ {l} : ByOtp(m)' <=> ByOtp(m)
    BY <2>1 DEF ByOtp
  <2>3. code' = code /\ sent' = sent /\ tokens' = tokens
    BY <1>3 DEF VerifyOtp
  <2>4. shared \subseteq shared'
    BY <1>3 DEF VerifyOtp
  <2>5. ASSUME NEW m \in Logins \ {l}, ByOtp(m), login[m].code = code PROVE code \in shared'
    <3>1. login[m].at = "delete"
      BY <2>5 DEF CodesArePast
    <3> QED BY <1>3, <2>5, <3>1 DEF VerifyOtp
  <2>6. CodesArePast'
    BY <1>t, <2>1, <2>2, <2>3 DEF CodesArePast
  <2>7. SharedIsKnown'
    BY <2>1, <2>2, <2>3, <2>4, <2>5 DEF SharedIsKnown, CodesArePast
  <2> QED BY <2>6, <2>7
<1>4. ASSUME NEW l \in Logins, DeleteOtp(l) PROVE CodesArePast' /\ SharedIsKnown'
  <2>1. \A m \in Logins : ByOtp(m)' => ByOtp(m) /\ login'[m].code = login[m].code
    BY <1>t, <1>4, MovesKeepCodes DEF DeleteOtp
  <2>2. code' = 0 /\ sent' = sent /\ tokens' = tokens /\ shared' = shared
    BY <1>4 DEF DeleteOtp
  <2>3. CodesArePast'
    BY <1>t, <2>1, <2>2 DEF CodesArePast
  <2>4. SharedIsKnown'
    BY <2>1, <2>2 DEF SharedIsKnown
  <2> QED BY <2>3, <2>4
<1>5. ASSUME NEW l \in Logins, NEW way \in Way \ OtpWay, Begin(l, way)
      PROVE CodesArePast' /\ SharedIsKnown'
  <2>1. login'[l].way = way /\ \A m \in Logins \ {l} : login'[m] = login[m]
    BY <1>t, <1>5 DEF Begin, NoLogin
  <2>2. \A m \in Logins : ByOtp(m)' => ByOtp(m) /\ login'[m] = login[m]
    BY <2>1 DEF ByOtp
  <2>3. code' = code /\ sent' = sent /\ tokens' = tokens /\ shared' = shared
    BY <1>5 DEF Begin
  <2> QED BY <2>2, <2>3 DEF CodesArePast, SharedIsKnown
<1>6. ASSUME NEW l \in Logins, ReadUser(l) PROVE CodesArePast' /\ SharedIsKnown'
  <2>1. login' = [login EXCEPT ![l] = [@ EXCEPT !.at = "save", !.seen = role']]
    BY <1>6, Zenon DEF ReadUser
  <2>2. /\ login'[l].way = login[l].way /\ login'[l].code = login[l].code
        /\ login'[l].at = "save" /\ login[l].at = "read"
        /\ \A m \in Logins \ {l} : login'[m] = login[m]
    BY <1>t, <1>6, <2>1 DEF ReadUser, Login
  <2>3. /\ \A m \in Logins : ByOtp(m)' => ByOtp(m) /\ login'[m].code = login[m].code
        /\ \A m \in Logins : login'[m].at # "delete" => login[m].at # "delete"
    BY <2>2 DEF ByOtp
  <2>4. code' = code /\ sent' = sent /\ tokens' = tokens /\ shared' = shared
    BY <1>6 DEF ReadUser
  <2> QED BY <2>3, <2>4 DEF CodesArePast, SharedIsKnown
<1>7. ASSUME NEW l \in Logins, Save(l) PROVE CodesArePast' /\ SharedIsKnown'
  <2>0. login[l].at = "save" /\ (LoginAt(l, "idle") \/ LoginAt(l, "token"))
    BY <1>7, Zenon DEF Save
  <2>1. /\ \A m \in Logins : ByOtp(m)' => ByOtp(m) /\ login'[m].code = login[m].code
        /\ \A m \in Logins \ {l} : login'[m] = login[m]
    BY <1>t, <2>0, MovesKeepCodes
  <2>2. code' = code /\ sent' = sent /\ tokens' = tokens /\ shared' = shared
    BY <1>7 DEF Save
  <2>3. \A m \in Logins : login'[m].at # "delete" => login[m].at # "delete"
    BY <2>0, <2>1
  <2> QED BY <2>1, <2>2, <2>3 DEF CodesArePast, SharedIsKnown
<1>8. ASSUME NEW l \in Logins, Issue(l) PROVE CodesArePast' /\ SharedIsKnown'
  <2>1. /\ \A m \in Logins : ByOtp(m)' => m # l /\ ByOtp(m) /\ login'[m] = login[m]
    BY <1>t, <1>8, MovesKeepCodes DEF Issue
  <2>2. code' = code /\ sent' = sent /\ shared' = shared /\ login[l].at = "token"
    BY <1>8 DEF Issue
  <2>3. CASE login[l].way \in OtpWay
    <3>1. ByOtp(l) /\ tokens' = tokens \cup {login[l].code}
      BY <1>8, <2>2, <2>3 DEF Issue, ByOtp
    <3>2. CodesArePast'
      BY <2>1, <2>2, <3>1 DEF CodesArePast
    <3>3. SharedIsKnown'
      BY <2>1, <2>2, <3>1 DEF SharedIsKnown
    <3> QED BY <3>2, <3>3
  <2>4. CASE login[l].way \notin OtpWay
    <3>1. tokens' = tokens
      BY <1>8, <2>4 DEF Issue
    <3> QED BY <2>1, <2>2, <3>1 DEF CodesArePast, SharedIsKnown
  <2> QED BY <2>3, <2>4
<1>9. CASE UNCHANGED accountVars
  BY <1>9 DEF accountVars, CodesArePast, SharedIsKnown, ByOtp
<1> QED BY <1>1, <1>2, <1>3, <1>4, <1>5, <1>6, <1>7, <1>8, <1>9 DEF AccountNext

(* CodeSpentOnce for any number of requests and codes: when tokens are     *)
(* issued by a code for a second time, SharedIsKnown holds of it.          *)
THEOREM CodesSpentOnce == AccountSpec => CodeSpentOnce
<1>1. AccountTypeOK /\ CodesArePast /\ SharedIsKnown /\ [AccountNext]_accountVars =>
        [\A l \in Logins :
           login[l].at = "token" /\ login'[l].at = "idle" /\ login[l].way \in OtpWay
             => login[l].code \notin tokens \/ login[l].code \in shared]_accountVars
  BY DEF SharedIsKnown, ByOtp
<1> QED BY <1>1, AccountTypeCorrect, CodesInit, CodesStep, PTL DEF AccountSpec, CodeSpentOnce

-----------------------------------------------------------------------------
(* Reports.  Sums over finite sets first.                                  *)

(* A nonempty set of finite sets has a smallest: induction over finite     *)
(* sets is by a smallest counterexample here.                              *)
LEMMA SmallestSet ==
  ASSUME NEW S, NEW T \in SUBSET FiniteSubsetsOf(S), T # {}
  PROVE  \E x \in T : \A y \in T : ~(y \subseteq x /\ y # x)
<1>1. IsWellFoundedOn(StrictSubsetOrdering(S), FiniteSubsetsOf(S))
  BY FS_StrictSubsetOrderingWellFounded
<1>2. PICK x \in T : \A y \in T : ~(<<y, x>> \in StrictSubsetOrdering(S))
  BY <1>1, WFMin
<1>3. \A y \in T : y \in SUBSET S
  BY DEF FiniteSubsetsOf
<1> QED  BY <1>2, <1>3 DEF StrictSubsetOrdering

(* What holds of a set whenever it holds of every set smaller by one holds *)
(* of all finite sets: Good is the set of those of which it does.          *)
LEMMA GrowingSets ==
  ASSUME NEW S, IsFiniteSet(S), NEW Good,
         \A T \in SUBSET S : (\A x \in T : T \ {x} \in Good) => T \in Good
  PROVE  \A T \in SUBSET S : T \in Good
<1> DEFINE Bad == {T \in FiniteSubsetsOf(S) : T \notin Good}
<1>1. \A T \in SUBSET S : T \in FiniteSubsetsOf(S)
  BY FS_Subset DEF FiniteSubsetsOf
<1>2. ASSUME Bad # {} PROVE FALSE
  <2>1. PICK T \in Bad : \A U \in Bad : ~ (U \subseteq T /\ U # T)
    <3>1. Bad \in SUBSET FiniteSubsetsOf(S)
      OBVIOUS
    <3> HIDE DEF Bad
    <3> QED BY <1>2, <3>1, SmallestSet
  <2>2. T \subseteq S /\ T \notin Good
    BY <2>1 DEF FiniteSubsetsOf
  <2>4. ASSUME NEW x \in T PROVE T \ {x} \in Good
    <3>1. T \ {x} \subseteq S /\ T \ {x} \subseteq T /\ T \ {x} # T
      BY <2>2, <2>4
    <3>2. T \ {x} \in FiniteSubsetsOf(S)
      BY <1>1, <3>1
    <3> QED BY <2>1, <3>1, <3>2
  <2> QED BY <2>2, <2>4
<1> QED BY <1>1, <1>2

-----------------------------------------------------------------------------
(* A sum of numbers is a number of units: as many for every index as its   *)
(* number.  Whatever holds of cardinalities holds of sums.                 *)

Unit(f, x) == {x} \X (1 .. f[x])
Units(f, T) == UNION {Unit(f, x) : x \in T}

LEMMA UnitCounts ==
  ASSUME NEW f, NEW x, f[x] \in Nat
  PROVE  IsFiniteSet(Unit(f, x)) /\ Cardinality(Unit(f, x)) = f[x]
<1>1. IsFiniteSet({x}) /\ Cardinality({x}) = 1
  BY FS_Singleton
<1>2. IsFiniteSet(1 .. f[x]) /\ Cardinality(1 .. f[x]) = f[x]
  BY FS_Interval
<1>3. IsFiniteSet({x} \X (1 .. f[x])) /\ Cardinality({x} \X (1 .. f[x])) = 1 * f[x]
  BY <1>1, <1>2, FS_Product
<1> QED BY <1>3 DEF Unit

LEMMA CountOfTwo ==
  ASSUME NEW A, NEW B, IsFiniteSet(A), IsFiniteSet(B), A \cap B = {}
  PROVE  /\ IsFiniteSet(A \cup B)
         /\ Cardinality(A \cup B) = Cardinality(A) + Cardinality(B)
<1>1. Cardinality(A \cap B) = 0
  BY FS_EmptySet
<1>2. Cardinality(A) \in Nat /\ Cardinality(B) \in Nat
  BY FS_CardinalityType
<1>3. /\ IsFiniteSet(A \cup B)
      /\ Cardinality(A \cup B) = Cardinality(A) + Cardinality(B) - Cardinality(A \cap B)
  BY FS_Union
<1> QED BY <1>1, <1>2, <1>3

LEMMA UnitsSplit ==
  ASSUME NEW f, NEW A, NEW B, A \cap B = {}
  PROVE  /\ Units(f, A \cup B) = Units(f, A) \cup Units(f, B)
         /\ Units(f, A) \cap Units(f, B) = {}
<1>1. \A T, u : u \in Units(f, T) <=> \E x \in T : u \in Unit(f, x)
  BY DEF Units
<1>2. \A x, y, u : u \in Unit(f, x) /\ u \in Unit(f, y) => x = y
  BY DEF Unit
<1>3. Units(f, A \cup B) = Units(f, A) \cup Units(f, B)
  BY <1>1
<1>4. Units(f, A) \cap Units(f, B) = {}
  BY <1>1, <1>2
<1> QED BY <1>3, <1>4

LEMMA UnitsOfNone == ASSUME NEW f PROVE Units(f, {}) = {}
BY DEF Units

LEMMA UnitsOfOne == ASSUME NEW f, NEW x PROVE Units(f, {x}) = Unit(f, x)
BY DEF Units

LEMMA UnitsFinite ==
  ASSUME NEW f, NEW S, IsFiniteSet(S), \A x \in S : f[x] \in Nat
  PROVE  \A T \in SUBSET S :
           /\ IsFiniteSet(Units(f, T))
           /\ \A x \in T : Cardinality(Units(f, T)) = f[x] + Cardinality(Units(f, T \ {x}))
<1> DEFINE Good == {T \in SUBSET S : IsFiniteSet(Units(f, T))}
<1>1. {} \in Good
  BY UnitsOfNone, FS_EmptySet
<1>2. ASSUME NEW T \in SUBSET S, NEW x \in T, IsFiniteSet(Units(f, T \ {x}))
      PROVE  /\ IsFiniteSet(Units(f, T))
             /\ Cardinality(Units(f, T)) = f[x] + Cardinality(Units(f, T \ {x}))
  <2>1. T = (T \ {x}) \cup {x} /\ (T \ {x}) \cap {x} = {} /\ f[x] \in Nat
    OBVIOUS
  <2> DEFINE R == T \ {x}
  <2>2. T = R \cup {x} /\ R \cap {x} = {} /\ IsFiniteSet(Units(f, R))
    BY <1>2, <2>1
  <2> HIDE DEF R
  <2>3. Units(f, T) = Units(f, R) \cup Unit(f, x) /\ Units(f, R) \cap Unit(f, x) = {}
    <3>1. /\ Units(f, R \cup {x}) = Units(f, R) \cup Units(f, {x})
          /\ Units(f, R) \cap Units(f, {x}) = {}
      BY <2>2, UnitsSplit
    <3>2. Units(f, {x}) = Unit(f, x)
      BY UnitsOfOne
    <3>3. Units(f, T) = Units(f, R \cup {x})
      BY <2>2
    <3> QED BY <3>1, <3>2, <3>3
  <2>4. IsFiniteSet(Unit(f, x)) /\ Cardinality(Unit(f, x)) = f[x]
    BY <2>1, UnitCounts
  <2>5. Cardinality(Units(f, R)) \in Nat
    BY <2>2, FS_CardinalityType
  <2>6. /\ IsFiniteSet(Units(f, R) \cup Unit(f, x))
        /\ Cardinality(Units(f, R) \cup Unit(f, x)) = Cardinality(Units(f, R)) + Cardinality(Unit(f, x))
    BY <2>2, <2>3, <2>4, CountOfTwo
  <2> QED BY <2>1, <2>3, <2>4, <2>5, <2>6 DEF R
<1>3. \A T \in SUBSET S : (\A x \in T : T \ {x} \in Good) => T \in Good
  BY <1>1, <1>2
<1>4. \A T \in SUBSET S : T \in Good
  <2> HIDE DEF Good
  <2> QED BY <1>3, GrowingSets
<1>5. ASSUME NEW T \in SUBSET S
      PROVE  /\ IsFiniteSet(Units(f, T))
             /\ \A x \in T : Cardinality(Units(f, T)) = f[x] + Cardinality(Units(f, T \ {x}))
  <2>1. \A U \in SUBSET S : IsFiniteSet(Units(f, U))
    BY <1>4
  <2>2. \A x \in T : T \ {x} \in SUBSET S
    OBVIOUS
  <2> QED BY <1>2, <2>1, <2>2
<1> QED BY <1>5

(* The recursion by which the community modules fold a sum.                *)
First(T) == CHOOSE x \in T : TRUE
SumsTo(g, f, S) ==
  g = [T \in SUBSET S |-> IF T = {} THEN 0 ELSE f[First(T)] + g[T \ {First(T)}]]

LEMMA SumUnfolds ==
  ASSUME NEW f, NEW S
  PROVE  SumFunctionOnSet(f, S) = (CHOOSE g : SumsTo(g, f, S))[S]
BY DEF SumFunctionOnSet, FoldFunctionOnSet, MapThenFoldSet, SumsTo, First

LEMMA SumCounts ==
  ASSUME NEW f, NEW S, IsFiniteSet(S), \A x \in S : f[x] \in Nat
  PROVE  SumFunctionOnSet(f, S) = Cardinality(Units(f, S))
<1> DEFINE count == [T \in SUBSET S |-> Cardinality(Units(f, T))]
<1>1. \A T \in SUBSET S : T # {} => First(T) \in T
  BY DEF First
<1>2. \A T \in SUBSET S :
        count[T] = IF T = {} THEN 0 ELSE f[First(T)] + count[T \ {First(T)}]
  <2>1. count[{}] = 0
    BY UnitsOfNone, FS_EmptySet
  <2>2. ASSUME NEW T \in SUBSET S, T # {}
        PROVE  count[T] = f[First(T)] + count[T \ {First(T)}]
    <3>1. First(T) \in T
      BY <1>1, <2>2
    <3>2. T \ {First(T)} \in SUBSET S
      OBVIOUS
    <3> QED BY <3>1, <3>2, UnitsFinite
  <2> QED BY <2>1, <2>2
<1>3. SumsTo(count, f, S)
  BY <1>2 DEF SumsTo
<1>4. PICK g : SumsTo(g, f, S) /\ g = CHOOSE h : SumsTo(h, f, S)
  BY <1>3
<1>5. \A T \in SUBSET S : g[T] = IF T = {} THEN 0 ELSE f[First(T)] + g[T \ {First(T)}]
  BY <1>4 DEF SumsTo
<1> HIDE DEF count
<1> DEFINE Good == {T \in SUBSET S : g[T] = count[T]}
<1>6. ASSUME NEW T \in SUBSET S, \A x \in T : T \ {x} \in Good
      PROVE  T \in Good
  BY <1>1, <1>2, <1>5, <1>6
<1>7. \A T \in SUBSET S : T \in Good
  <2> HIDE DEF Good
  <2> QED BY <1>6, GrowingSets
<1>8. g[S] = count[S]
  BY <1>7
<1> QED BY <1>4, <1>8, SumUnfolds DEF count

(* What a sum is made of: nothing, one number, two disjoint parts, ...     *)
LEMMA SumParts ==
  ASSUME NEW f, NEW S, IsFiniteSet(S), \A x \in S : f[x] \in Nat,
         NEW A \in SUBSET S, NEW B \in SUBSET S
  PROVE  /\ SumFunctionOnSet(f, A) \in Nat
         /\ SumFunctionOnSet(f, {}) = 0
         /\ \A x \in S : SumFunctionOnSet(f, {x}) = f[x]
         /\ A \cap B = {} =>
              SumFunctionOnSet(f, A \cup B) = SumFunctionOnSet(f, A) + SumFunctionOnSet(f, B)
         /\ A \subseteq B => SumFunctionOnSet(f, A) <= SumFunctionOnSet(f, B)
<1>1. \A T \in SUBSET S :
        /\ SumFunctionOnSet(f, T) = Cardinality(Units(f, T))
        /\ IsFiniteSet(Units(f, T)) /\ Cardinality(Units(f, T)) \in Nat
  <2>1. TAKE T \in SUBSET S
  <2>2. IsFiniteSet(T) /\ \A x \in T : f[x] \in Nat
    BY FS_Subset
  <2>3. IsFiniteSet(Units(f, T))
    BY UnitsFinite
  <2> QED BY <2>2, <2>3, SumCounts, FS_CardinalityType
<1>2. SumFunctionOnSet(f, {}) = 0
  BY <1>1, UnitsOfNone, FS_EmptySet
<1>3. ASSUME NEW x \in S PROVE SumFunctionOnSet(f, {x}) = f[x]
  BY <1>1, UnitsOfOne, UnitCounts
<1>4. ASSUME A \cap B = {}
      PROVE  SumFunctionOnSet(f, A \cup B) = SumFunctionOnSet(f, A) + SumFunctionOnSet(f, B)
  <2>1. Units(f, A \cup B) = Units(f, A) \cup Units(f, B) /\ Units(f, A) \cap Units(f, B) = {}
    BY <1>4, UnitsSplit
  <2>2. A \cup B \in SUBSET S
    OBVIOUS
  <2>3. Cardinality(Units(f, A) \cup Units(f, B)) = Cardinality(Units(f, A)) + Cardinality(Units(f, B))
    BY <1>1, <2>1, CountOfTwo
  <2> QED BY <1>1, <2>1, <2>2, <2>3
<1>5. ASSUME A \subseteq B PROVE SumFunctionOnSet(f, A) <= SumFunctionOnSet(f, B)
  <2>1. Units(f, A) \subseteq Units(f, B)
    BY <1>5 DEF Units
  <2> QED BY <1>1, <2>1, FS_Subset
<1> QED BY <1>1, <1>2, <1>3, <1>4, <1>5

(* ... and how sums of two functions compare.                              *)
LEMMA SumCompares ==
  ASSUME NEW f, NEW h, NEW S, IsFiniteSet(S),
         \A x \in S : f[x] \in Nat /\ h[x] \in Nat /\ f[x] <= h[x]
  PROVE  SumFunctionOnSet(f, S) <= SumFunctionOnSet(h, S)
<1>1. /\ SumFunctionOnSet(f, S) = Cardinality(Units(f, S))
      /\ SumFunctionOnSet(h, S) = Cardinality(Units(h, S))
  BY SumCounts
<1>2. IsFiniteSet(Units(h, S))
  BY UnitsFinite
<1>3. Units(f, S) \subseteq Units(h, S)
  <2>1. ASSUME NEW x \in S PROVE Unit(f, x) \subseteq Unit(h, x)
    BY DEF Unit
  <2> QED BY <2>1 DEF Units
<1> QED BY <1>1, <1>2, <1>3, FS_Subset

LEMMA SumSame ==
  ASSUME NEW f, NEW h, NEW S, IsFiniteSet(S),
         \A x \in S : f[x] \in Nat /\ h[x] = f[x]
  PROVE  SumFunctionOnSet(f, S) = SumFunctionOnSet(h, S)
<1>1. SumFunctionOnSet(f, S) <= SumFunctionOnSet(h, S)
  BY SumCompares
<1>2. SumFunctionOnSet(h, S) <= SumFunctionOnSet(f, S)
  BY SumCompares
<1>3. SumFunctionOnSet(f, S) \in Nat /\ SumFunctionOnSet(h, S) \in Nat
  BY SumParts
<1> QED BY <1>1, <1>2, <1>3

(* Numbers summed part by part come to the same as all at once.            *)
LEMMA SumByPart ==
  ASSUME NEW f, NEW T, IsFiniteSet(T), \A t \in T : f[t] \in Nat,
         NEW D, IsFiniteSet(D), NEW part, NEW s,
         \A d \in D : part[d] \in SUBSET T /\ s[d] = SumFunctionOnSet(f, part[d]),
         \A d, e \in D : d # e => part[d] \cap part[e] = {},
         NEW U, \A t : t \in U <=> \E d \in D : t \in part[d]
  PROVE  SumFunctionOnSet(s, D) = SumFunctionOnSet(f, U)
<1> DEFINE of(E) == {t \in T : \E d \in E : t \in part[d]}
           Good == {E \in SUBSET D : SumFunctionOnSet(s, E) = SumFunctionOnSet(f, of(E))}
<1>1. \A d \in D : s[d] \in Nat
  BY SumParts
<1>2. ASSUME NEW E \in SUBSET D, \A x \in E : E \ {x} \in Good
      PROVE  E \in Good
  <2>1. CASE E = {}
    <3>1. of(E) = {}
      BY <2>1
    <3> QED BY <1>1, <2>1, <3>1, SumParts
  <2>2. CASE E # {}
    <3>1. PICK x \in E : TRUE
      BY <2>2
    <3> DEFINE R == E \ {x}
               one == part[x]
    <3>2. E = R \cup {x} /\ R \cap {x} = {} /\ R \in SUBSET D /\ x \in D
      BY <3>1
    <3>3. of(E) = of(R) \cup one /\ of(R) \cap one = {}
      BY <3>1, <3>2
    <3>4. of(R) \in SUBSET T /\ one \in SUBSET T
      BY <3>2
    <3>5. SumFunctionOnSet(s, R) = SumFunctionOnSet(f, of(R))
      BY <1>2, <3>1
    <3>6. s[x] = SumFunctionOnSet(f, one)
      BY <3>2
    <3> HIDE DEF R, one, of
    <3>7. SumFunctionOnSet(s, E) = SumFunctionOnSet(s, R) + SumFunctionOnSet(s, {x})
      <4>1. {x} \in SUBSET D
        BY <3>2
      <4> QED BY <1>1, <3>2, <4>1, SumParts
    <3>8. SumFunctionOnSet(s, {x}) = s[x]
      BY <1>1, <3>2, SumParts
    <3>9. SumFunctionOnSet(f, of(E)) = SumFunctionOnSet(f, of(R)) + SumFunctionOnSet(f, one)
      BY <3>3, <3>4, SumParts
    <3> QED BY <3>5, <3>6, <3>7, <3>8, <3>9
  <2> QED BY <2>1, <2>2
<1>3. \A E \in SUBSET D : E \in Good
  <2> HIDE DEF Good
  <2> QED BY <1>2, GrowingSets
<1>4. of(D) = U
  OBVIOUS
<1> QED BY <1>3, <1>4

(* A sum with one of its numbers aside.                                    *)
LEMMA SumWithout ==
  ASSUME NEW f, NEW S, IsFiniteSet(S), \A x \in S : f[x] \in Nat,
         NEW A \in SUBSET S, NEW t \in S
  PROVE  /\ SumFunctionOnSet(f, A \ {t}) \in Nat
         /\ t \in A => SumFunctionOnSet(f, A) = SumFunctionOnSet(f, A \ {t}) + f[t]
         /\ t \notin A => SumFunctionOnSet(f, A) = SumFunctionOnSet(f, A \ {t})
<1>1. A \ {t} \in SUBSET S /\ {t} \in SUBSET S /\ (A \ {t}) \cap {t} = {}
  OBVIOUS
<1>2. SumFunctionOnSet(f, A \ {t}) \in Nat /\ SumFunctionOnSet(f, {t}) = f[t]
  BY <1>1, SumParts
<1>3. SumFunctionOnSet(f, (A \ {t}) \cup {t}) = SumFunctionOnSet(f, A \ {t}) + SumFunctionOnSet(f, {t})
  BY <1>1, SumParts
<1>4. t \in A => A = (A \ {t}) \cup {t}
  OBVIOUS
<1>5. t \notin A => A = A \ {t}
  OBVIOUS
<1> QED BY <1>2, <1>3, <1>4, <1>5

-----------------------------------------------------------------------------
(* Reports: the rows are well typed, and what is compared are sums of the  *)
(* final fares of completed trips.                                         *)

RowsTyped ==
  /\ standing \in [Drivers -> Standing]
  /\ driver \in [Drivers -> [online : BOOLEAN, approved : BOOLEAN]]
  /\ trip \in [Trips -> Trip]
  /\ today \in 0 .. MaxDays

FinalFares == [t \in Trips |-> trip[t].fare]
Earned(D, since) == SumFunctionOnSet(FinalFares, Completed(D, since))
Span == {"today", "lifetime"}
Since(span) == IF span = "today" THEN today ELSE 0

LEMMA FaresAreNumbers ==
  ASSUME RowsTyped
  PROVE  /\ \A t \in Trips : trip[t].fare \in Nat
         /\ \A t \in Trips : trip[t].day \in Nat /\ trip[t].day <= MaxDays
         /\ \A t \in Trips : FinalFares[t] \in Nat
         /\ \A D, since : Completed(D, since) \in SUBSET Trips /\ IsFiniteSet(Completed(D, since))
         /\ \A D, since : Earned(D, since) \in Nat
<1>1. \A t \in Trips : trip[t] \in Trip
  BY DEF RowsTyped
<1>2. \A t \in Trips : trip[t].fare \in Nat
  BY <1>1, ReportConstants DEF Trip
<1>3. \A t \in Trips : trip[t].day \in Nat /\ trip[t].day <= MaxDays
  BY <1>1, ReportConstants DEF Trip
<1>4. \A t \in Trips : FinalFares[t] \in Nat
  BY <1>2 DEF FinalFares
<1>5. \A D, since : Completed(D, since) \in SUBSET Trips
  BY DEF Completed
<1>6. \A D, since : IsFiniteSet(Completed(D, since))
  BY <1>5, ReportConstants, FS_Subset
<1>7. \A D, since : Earned(D, since) \in Nat
  BY <1>4, <1>5, ReportConstants, SumParts DEF Earned
<1> QED BY <1>2, <1>3, <1>4, <1>5, <1>6, <1>7

LEMMA StatsAreSums ==
  ASSUME RowsTyped, NEW D, NEW since
  PROVE  Stats(D, since).earnings = Earned(D, since)
<1> DEFINE done == Completed(D, since)
           own == [t \in done |-> trip[t].fare]
<1>1. done \in SUBSET Trips /\ IsFiniteSet(done) /\ \A t \in Trips : FinalFares[t] \in Nat
  BY FaresAreNumbers
<1>2. \A t \in done : own[t] = FinalFares[t]
  BY <1>1 DEF FinalFares
<1>3. Stats(D, since).earnings = SumFunctionOnSet(own, done)
  BY DEF Stats, SumFunction
<1> HIDE DEF own, done
<1>4. SumFunctionOnSet(FinalFares, done) = SumFunctionOnSet(own, done)
  BY <1>1, <1>2, SumSame
<1> QED BY <1>3, <1>4 DEF Earned, done

(* The earnings of some drivers are those of each of them together.        *)
LEMMA EarnedByDriver ==
  ASSUME RowsTyped, NEW D \in SUBSET Drivers, NEW since, NEW s,
         \A d \in D : s[d] = Stats({d}, since).earnings
  PROVE  SumFunctionOnSet(s, D) = Earned(D, since)
<1> DEFINE part == [d \in D |-> Completed({d}, since)]
<1>1. \A t \in Trips : FinalFares[t] \in Nat
  BY FaresAreNumbers
<1>2. IsFiniteSet(D) /\ IsFiniteSet(Trips)
  BY ReportConstants, FS_Subset
<1>3. \A d \in D : part[d] \in SUBSET Trips /\ s[d] = SumFunctionOnSet(FinalFares, part[d])
  BY FaresAreNumbers, StatsAreSums DEF Earned
<1>4. \A d, e \in D : d # e => part[d] \cap part[e] = {}
  BY DEF Completed
<1>5. \A t : t \in Completed(D, since) <=> \E d \in D : t \in part[d]
  BY DEF Completed
<1> HIDE DEF part
<1>6. SumFunctionOnSet(s, D) = SumFunctionOnSet(FinalFares, Completed(D, since))
  BY <1>1, <1>2, <1>3, <1>4, <1>5, SumByPart
<1> QED BY <1>6 DEF Earned

-----------------------------------------------------------------------------
(* The pages.                                                              *)

LEMMA Multiplied ==
  ASSUME NEW e \in Nat, NEW a \in Nat, NEW b \in Nat, a <= b
  PROVE  e * a <= e * b
<1>1. PICK c \in Nat : b = a + c
  <2>1. b - a \in Nat /\ b = a + (b - a)
    OBVIOUS
  <2> QED BY <2>1
<1>2. e * (a + c) = e * a + e * c
  OBVIOUS
<1>3. e * a \in Nat /\ e * c \in Nat
  OBVIOUS
<1> QED BY <1>1, <1>2, <1>3

Busy(D) == {t \in Trips : trip[t].driver \in D /\ trip[t].phase = "underway"}

LEMMA OnTripCounts ==
  ASSUME RowsTyped, NEW D
  PROVE  /\ IsFiniteSet(Busy(D)) /\ Cardinality(Busy(D)) \in Nat
         /\ Cardinality(OnTrip(D)) \in Nat
         /\ Cardinality(OnTrip(D)) <= Cardinality(Busy(D))
<1> DEFINE of == [t \in Busy(D) |-> trip[t].driver]
<1>1. Busy(D) \in SUBSET Trips
  BY DEF Busy
<1>2. IsFiniteSet(Busy(D))
  BY <1>1, ReportConstants, FS_Subset
<1>3. of \in Surjection(Busy(D), OnTrip(D))
  BY DEF Surjection, OnTrip, Busy
<1> HIDE DEF of
<1>4. IsFiniteSet(OnTrip(D)) /\ Cardinality(OnTrip(D)) <= Cardinality(Busy(D))
  BY <1>2, <1>3, FS_Surjection
<1> QED BY <1>2, <1>4, FS_CardinalityType

LEMMA TripsAlwaysAgree == ASSUME RowsTyped PROVE TripsAgree
<1> DEFINE page == TripsPage(Members)
           done == Completed(Members, 0)
           over == {t \in Trips : trip[t].phase = "completed"}
           live == {t \in Trips : trip[t].phase \in {"ahead", "underway"}}
<1>1. Members \in SUBSET Drivers
  BY DEF Members
<1>2. Dashboard.onTrip = Cardinality(OnTrip(Members))
  BY DEF Dashboard
<1>3. {t \in DOMAIN page : trip[t].phase = "underway"} = Busy(Members)
  BY DEF TripsPage, Busy
<1>4. Dashboard.totals.lifetime = Stats(Members, 0)
  BY DEF Dashboard, Totals
<1>5. Dashboard.totals.lifetime.earnings = Earned(Members, 0)
  BY <1>4, StatsAreSums
<1>6. Dashboard.totals.lifetime.trips = Cardinality(done)
  BY <1>4 DEF Stats
<1>7. /\ done \in SUBSET Trips /\ IsFiniteSet(done)
      /\ \A t \in done : trip[t].fare \in Nat /\ FinalFares[t] = trip[t].fare
  BY FaresAreNumbers DEF FinalFares
<1>8. \A t \in done : page[t] = IF trip[t].fare # 0 THEN trip[t].fare ELSE Estimate
  BY DEF TripsPage, Completed
<1>9. Earned(Members, 0) <= SumFunctionOnSet(page, done)
  <2>1. \A t \in done : FinalFares[t] \in Nat /\ page[t] \in Nat /\ FinalFares[t] <= page[t]
    BY <1>7, <1>8, ReportConstants
  <2> HIDE DEF page, done
  <2>2. SumFunctionOnSet(FinalFares, done) <= SumFunctionOnSet(page, done)
    BY <1>7, <2>1, SumCompares
  <2> QED BY <2>2 DEF Earned, done
<1>10. (\A t \in done : trip[t].fare # 0) => Earned(Members, 0) = SumFunctionOnSet(page, done)
  <2>1. SUFFICES ASSUME \A t \in done : trip[t].fare # 0
                 PROVE  Earned(Members, 0) = SumFunctionOnSet(page, done)
    OBVIOUS
  <2>2. \A t \in done : FinalFares[t] \in Nat /\ page[t] = FinalFares[t]
    BY <1>7, <1>8, <2>1
  <2> HIDE DEF page, done
  <2>3. SumFunctionOnSet(FinalFares, done) = SumFunctionOnSet(page, done)
    BY <1>7, <2>2, SumSame
  <2> QED BY <2>3 DEF Earned, done
<1>11. /\ IsFiniteSet(over) /\ IsFiniteSet(live)
       /\ Cardinality(over) \in Nat /\ Cardinality(live) \in Nat
  <2>1. over \in SUBSET Trips /\ live \in SUBSET Trips
    OBVIOUS
  <2> HIDE DEF over, live
  <2>2. IsFiniteSet(over) /\ IsFiniteSet(live)
    BY <2>1, ReportConstants, FS_Subset
  <2> QED BY <2>2, FS_CardinalityType
<1>12. Cardinality(Busy(Members)) <= Cardinality(live)
  <2>1. Busy(Members) \in SUBSET live
    BY DEF Busy
  <2> HIDE DEF live
  <2> QED BY <1>11, <2>1, FS_Subset
<1>13. Cardinality(done) \in Nat /\ Cardinality(done) <= Cardinality(over)
  <2>1. done \in SUBSET over
    BY DEF Completed
  <2> HIDE DEF over, done
  <2> QED BY <1>7, <1>11, <2>1, FS_Subset, FS_CardinalityType
<1>14. /\ Overview.active = Cardinality(live)
       /\ Overview.completed = Cardinality(over)
       /\ Overview.revenue = Estimate * Cardinality(over)
  BY DEF Overview
<1>15. Estimate * Cardinality(done) <= Estimate * Cardinality(over)
  BY <1>11, <1>13, ReportConstants, Multiplied
<1>16. Estimate * Cardinality(done) \in Nat /\ Estimate * Cardinality(over) \in Nat
  BY <1>11, <1>13, ReportConstants
<1>17. /\ Cardinality(OnTrip(Members)) \in Nat /\ Cardinality(Busy(Members)) \in Nat
       /\ Cardinality(OnTrip(Members)) <= Cardinality(Busy(Members))
  BY OnTripCounts
<1> HIDE DEF page, done, over, live
<1>18. Dashboard.onTrip <= Cardinality({t \in DOMAIN page : trip[t].phase = "underway"})
  BY <1>2, <1>3, <1>17
<1>19. Dashboard.onTrip <= Overview.active
  BY <1>2, <1>11, <1>12, <1>14, <1>17
<1>20. Dashboard.totals.lifetime.trips <= Overview.completed
  BY <1>6, <1>13, <1>14
<1>21. Overview.revenue >= Estimate * Dashboard.totals.lifetime.trips
  BY <1>6, <1>14, <1>15, <1>16
<1> QED BY <1>5, <1>9, <1>10, <1>18, <1>19, <1>20, <1>21 DEF TripsAgree, page, done

LEMMA AlertsCount ==
  ASSUME RowsTyped
  PROVE  Cardinality({d \in Members : ~driver[d].approved})
           = Cardinality({x \in Alerts : x[1] = "kyc"})
<1> DEFINE P == {d \in Members : ~driver[d].approved}
           A == {x \in Alerts : x[1] = "kyc"}
           of == [d \in P |-> <<"kyc", d>>]
<1>1. \A x : x \in A <=> \E d \in P : x = <<"kyc", d>>
  BY DEF Alerts
<1>2. P \in SUBSET Drivers /\ IsFiniteSet(P)
  <2>1. P \in SUBSET Drivers
    BY DEF Members
  <2> HIDE DEF P
  <2> QED BY <2>1, ReportConstants, FS_Subset
<1> HIDE DEF P, A
<1>3. of \in Bijection(P, A)
  <2>1. of \in [P -> A]
    BY <1>1
  <2>2. \A d, e \in P : of[d] = of[e] => d = e
    OBVIOUS
  <2>3. \A x \in A : \E d \in P : of[d] = x
    BY <1>1
  <2> HIDE DEF of
  <2> QED BY <2>1, <2>2, <2>3 DEF Bijection, Injection, Surjection, IsInjective
<1>4. ExistsBijection(P, A)
  BY <1>3 DEF ExistsBijection
<1> QED BY <1>2, <1>4, FS_Bijection DEF P, A

LEMMA PagesAlwaysAgree == ASSUME RowsTyped PROVE PagesAgree
<1>1. Members \in SUBSET Drivers
  BY DEF Members
<1>2. ASSUME NEW d \in Members PROVE Batch[d] = Row(d)
  <2>1. d \in OnTrip(Members) <=> \E t \in Trips : trip[t].driver = d /\ trip[t].phase = "underway"
    BY <1>2 DEF OnTrip
  <2>2. (d \in OnTrip(Members)) = (\E t \in Trips : trip[t].driver = d /\ trip[t].phase = "underway")
    <3> DEFINE busy == d \in OnTrip(Members)
               found == \E t \in Trips : trip[t].driver = d /\ trip[t].phase = "underway"
    <3>1. busy \in BOOLEAN /\ found \in BOOLEAN /\ (busy <=> found)
      BY <2>1
    <3> HIDE DEF busy, found
    <3>2. busy = found
      BY <3>1
    <3> QED BY <3>2 DEF busy, found
  <2> QED BY <2>2 DEF Batch, Row
<1>3. \A d \in Members :
        /\ Batch[d].online = driver[d].online
        /\ Batch[d].onTrip = (d \in OnTrip(Members))
        /\ Batch[d].today = Stats({d}, today)
  BY DEF Batch
<1>4. Dashboard.online = Shown(LAMBDA row : row.online)
  <2>1. {d \in Members : driver[d].online} = {d \in Members : Batch[d].online}
    BY <1>3
  <2> QED BY <2>1 DEF Dashboard, Shown
<1>5. Dashboard.onTrip = Shown(LAMBDA row : row.onTrip)
  <2>1. OnTrip(Members) \subseteq Members
    BY DEF OnTrip
  <2>2. OnTrip(Members) = {d \in Members : Batch[d].onTrip}
    BY <1>3, <2>1
  <2> QED BY <2>2 DEF Dashboard, Shown
<1>6. Dashboard.pending = Cardinality({x \in Alerts : x[1] = "kyc"})
  BY AlertsCount DEF Dashboard
<1>7. Dashboard.totals.today.earnings = SumFunction([d \in Members |-> Batch[d].today.earnings])
  <2> DEFINE s == [d \in Members |-> Batch[d].today.earnings]
  <2>1. \A d \in Members : s[d] = Stats({d}, today).earnings
    BY <1>3
  <2>2. Dashboard.totals.today = Stats(Members, today)
    BY DEF Dashboard, Totals
  <2>3. SumFunction(s) = SumFunctionOnSet(s, Members)
    BY DEF SumFunction
  <2> HIDE DEF s
  <2>4. SumFunctionOnSet(s, Members) = Earned(Members, today)
    BY <1>1, <2>1, EarnedByDriver
  <2> QED BY <2>2, <2>3, <2>4, StatsAreSums DEF s
<1> QED BY <1>2, <1>4, <1>5, <1>6, <1>7, TripsAlwaysAgree DEF PagesAgree

-----------------------------------------------------------------------------
(* The report of earnings.  What it has read so far is compared with what  *)
(* there is to read now: the members, while no membership has changed; the *)
(* day, before midnight; and totals that the earnings, while both stay,    *)
(* fall short of by what was lost and exceed by what was gained at most.   *)

Changes == {"member", "driver", "trip", "midnight"}
Settled == happened \cap {"member", "midnight"} = {}

EditTyped == edit # NoRow => edit \in [of : Trips, row : Trip]
Summed == lost \in Nat /\ gained \in Nat

Near(total, span) ==
  /\ total <= Earned(Members, Since(span)) + lost
  /\ Earned(Members, Since(span)) <= total + gained
TotalsNear ==
  \A span \in Span :
    /\ report.totals[span].earnings \in Nat
    /\ Settled => Near(report.totals[span].earnings, span)
MembersRead ==
  report.members \subseteq Drivers /\ ("member" \notin happened => report.members = Members)

ReportReads ==
  report # NoReport =>
    /\ report.at \in {"totals", "members", "lines", "shown"}
    /\ report.at = "totals" => MembersRead
    /\ report.at = "members" => TotalsNear
    /\ report.at = "lines" =>
         MembersRead /\ TotalsNear /\ ("midnight" \notin happened => report.day = today)

ReportInv ==
  RowsTyped /\ EditTyped /\ Summed /\ happened \subseteq Changes /\ ReportReads /\ LinesAddUp

LEMMA ReportInitial == ReportInit => ReportInv
<1> SUFFICES ASSUME ReportInit PROVE ReportInv
  OBVIOUS
<1>1. RowsTyped
  <2>1. 0 \in 0 .. MaxDays
    BY ReportConstants
  <2>2. trip \in [Trips -> Trip]
    BY DEF ReportInit
  <2> QED BY <2>1, <2>2 DEF ReportInit, RowsTyped
<1> QED BY <1>1 DEF ReportInit, ReportInv, ReportReads, LinesAddUp, Changes, EditTyped, Summed

(* A read of the report leaves everything else.                            *)
LEMMA Unmoving ==
  ASSUME ReportInv, Unmoved
  PROVE  /\ RowsTyped' /\ EditTyped' /\ Members' = Members /\ today' = today
         /\ \A D, since : Earned(D, since)' = Earned(D, since)
         /\ \A span \in Span : Since(span)' = Since(span)
<1>1. UNCHANGED <<standing, driver, trip, edit, today>>
  BY DEF Unmoved, bookingVars
<1> QED BY <1>1 DEF ReportInv, RowsTyped, EditTyped, Members, Since, Earned, FinalFares, Completed

LEMMA ReadMembersStep == ASSUME ReportInv, ReadMembers PROVE ReportInv'
<1>1. report'.at = "totals" /\ report'.members = Members /\ happened' = {} /\ Summed'
  BY DEF ReadMembers, Summed
<1>2. RowsTyped' /\ EditTyped' /\ Members' = Members
  BY Unmoving DEF ReadMembers
<1>3. Members \subseteq Drivers
  BY DEF Members
<1> QED BY <1>1, <1>2, <1>3 DEF ReportInv, ReportReads, MembersRead, LinesAddUp, Changes

LEMMA ReadTotalsStep == ASSUME ReportInv, ReadTotals PROVE ReportInv'
<1>1. /\ RowsTyped /\ RowsTyped' /\ EditTyped' /\ Members' = Members
      /\ \A D, since : Earned(D, since)' = Earned(D, since)
      /\ \A span \in Span : Since(span)' = Since(span)
  BY Unmoving DEF ReadTotals, ReportInv
<1>2. MembersRead /\ Summed
  BY DEF ReportInv, ReportReads, ReadTotals
<1>3. /\ report'.at = "members" /\ report'.totals = Totals(report.members)
      /\ UNCHANGED <<happened, lost, gained>>
  BY DEF ReadTotals, historyVars
<1>4. ASSUME NEW span \in Span
      PROVE  report'.totals[span].earnings = Earned(report.members, Since(span))
  <2>1. Totals(report.members)[span] = Stats(report.members, Since(span))
    BY DEF Totals, Span, Since
  <2> QED BY <1>1, <1>3, <2>1, StatsAreSums
<1>5. \A D, since : Earned(D, since) \in Nat
  BY <1>1, FaresAreNumbers
<1>6. TotalsNear'
  <2> SUFFICES ASSUME NEW span \in Span
               PROVE  /\ report'.totals[span].earnings \in Nat
                      /\ Settled' => Near(report.totals[span].earnings, span)'
    BY DEF TotalsNear
  <2>1. Settled' => report.members = Members
    BY <1>2, <1>3 DEF Settled, MembersRead
  <2>2. Earned(Members, Since(span))' = Earned(Members, Since(span))
    BY <1>1
  <2> QED BY <1>2, <1>3, <1>4, <1>5, <2>1, <2>2 DEF Near, Summed
<1>7. Summed' /\ happened' \subseteq Changes
  BY <1>2, <1>3 DEF Summed, ReportInv
<1> QED BY <1>1, <1>3, <1>6, <1>7 DEF ReportInv, ReportReads, LinesAddUp

LEMMA ReadAgainStep == ASSUME ReportInv, ReadAgain PROVE ReportInv'
<1>1. /\ RowsTyped' /\ EditTyped' /\ Members' = Members /\ today' = today
      /\ \A D, since : Earned(D, since)' = Earned(D, since)
      /\ \A span \in Span : Since(span)' = Since(span)
  BY Unmoving DEF ReadAgain
<1>2. TotalsNear /\ Summed /\ happened \subseteq Changes
  BY DEF ReportInv, ReportReads, ReadAgain
<1>3. /\ report'.at = "lines" /\ report'.totals = report.totals
      /\ report'.members = Members /\ report'.day = today
      /\ UNCHANGED <<happened, lost, gained>>
  BY DEF ReadAgain, historyVars
<1>6. TotalsNear'
  BY <1>1, <1>2, <1>3 DEF TotalsNear, Near, Settled
<1>7. Members \subseteq Drivers
  BY DEF Members
<1>8. Summed' /\ happened' \subseteq Changes
  BY <1>2, <1>3 DEF Summed
<1> QED BY <1>1, <1>3, <1>6, <1>7, <1>8 DEF ReportInv, ReportReads, MembersRead, LinesAddUp

LEMMA ReadByDriverStep == ASSUME ReportInv, ReadByDriver PROVE ReportInv'
<1> DEFINE lines == [d \in report.members |->
                       [today |-> Stats({d}, report.day), lifetime |-> Stats({d}, 0)]]
           Day(span) == IF span = "today" THEN report.day ELSE 0
<1>1. RowsTyped /\ RowsTyped' /\ EditTyped'
  BY Unmoving DEF ReportInv, ReadByDriver
<1>2. /\ MembersRead /\ TotalsNear /\ ("midnight" \notin happened => report.day = today)
      /\ Summed /\ happened \subseteq Changes
  BY DEF ReportInv, ReportReads, ReadByDriver
<1>3. /\ report'.at = "shown" /\ report'.totals = report.totals /\ report'.lines = lines
      /\ UNCHANGED <<happened, lost, gained>>
  BY DEF ReadByDriver, historyVars
<1>4. ASSUME NEW span \in Span
      PROVE  LinesTotal(span)' = Earned(report.members, Day(span))
  <2> DEFINE s == [d \in report.members |-> lines[d][span].earnings]
  <2>1. \A d \in report.members : s[d] = Stats({d}, Day(span)).earnings
    BY DEF Span
  <2>2. LinesTotal(span)' = SumFunction(s)
    <3>1. DOMAIN lines = report.members
      OBVIOUS
    <3> HIDE DEF lines
    <3> QED BY <1>3, <3>1 DEF LinesTotal
  <2>3. SumFunction(s) = SumFunctionOnSet(s, report.members)
    BY DEF SumFunction
  <2>4. report.members \in SUBSET Drivers
    BY <1>2 DEF MembersRead
  <2> HIDE DEF s, Day
  <2>5. SumFunctionOnSet(s, report.members) = Earned(report.members, Day(span))
    BY <1>1, <2>1, <2>4, EarnedByDriver
  <2> QED BY <2>2, <2>3, <2>5
<1>5. LinesAddUp'
  <2>1. ASSUME NEW span \in Span, Settled
        PROVE  LinesTotal(span)' = Earned(Members, Since(span))
    <3>1. report.members = Members /\ report.day = today
      BY <1>2, <2>1 DEF MembersRead, Settled
    <3> QED BY <1>4, <3>1 DEF Since
  <2>2. \A span \in Span : Earned(Members, Since(span)) \in Nat
    BY <1>1, FaresAreNumbers
  <2> QED BY <1>2, <1>3, <2>1, <2>2 DEF LinesAddUp, TotalsNear, Near, Settled, Span
<1>6. Summed' /\ happened' \subseteq Changes
  BY <1>2, <1>3 DEF Summed
<1> QED BY <1>1, <1>3, <1>5, <1>6 DEF ReportInv, ReportReads

LEMMA LeaveStep == ASSUME ReportInv, Leave PROVE ReportInv'
<1>1. RowsTyped' /\ EditTyped'
  BY Unmoving DEF Leave
<1> QED BY <1>1 DEF Leave, ReportInv, ReportReads, LinesAddUp, Changes, Summed

(* What goes on meanwhile: lines once shown stay shown, and what happened  *)
(* is only added to.                                                       *)
LEMMA ShownStays ==
  ASSUME LinesAddUp, report' = report, happened \subseteq happened',
         report # NoReport /\ report.at = "shown" => UNCHANGED <<lost, gained>>
  PROVE  LinesAddUp'
<1>1. \A span : LinesTotal(span)' = LinesTotal(span)
  BY DEF LinesTotal
<1> QED BY <1>1 DEF LinesAddUp

LEMMA EventIsNoted ==
  ASSUME NEW what \in Changes, Event(what), happened \subseteq Changes
  PROVE  /\ report' = report /\ today' = today
         /\ happened \subseteq happened' /\ happened' \subseteq Changes
         /\ report # NoReport /\ report.at # "shown" => what \in happened'
BY DEF Event, InProgress

LEMMA MemberChangesStep ==
  ASSUME ReportInv, NEW d \in Drivers, NEW s \in Standing, MemberChanges(d, s)
  PROVE  ReportInv'
<1>1. /\ report' = report /\ today' = today
      /\ happened \subseteq happened' /\ happened' \subseteq Changes
      /\ report # NoReport /\ report.at # "shown" => "member" \in happened'
  BY EventIsNoted DEF ReportInv, MemberChanges, Changes
<1>2. RowsTyped' /\ EditTyped' /\ Summed' /\ UNCHANGED <<lost, gained>>
  BY <1>1 DEF ReportInv, RowsTyped, EditTyped, Summed, MemberChanges, bookingVars
<1>3. LinesAddUp'
  BY <1>1, <1>2, ShownStays DEF ReportInv
<1>4. ReportReads'
  <2>1. CASE report = NoReport \/ report.at = "shown"
    BY <1>1, <2>1 DEF ReportInv, ReportReads
  <2>2. CASE report # NoReport /\ report.at # "shown"
    <3>1. "member" \in happened'
      BY <1>1, <2>2
    <3>2. TotalsNear => TotalsNear'
      BY <1>1, <3>1 DEF TotalsNear, Settled
    <3>3. MembersRead => MembersRead'
      BY <1>1, <3>1 DEF MembersRead
    <3> QED BY <1>1, <3>2, <3>3 DEF ReportInv, ReportReads
  <2> QED BY <2>1, <2>2
<1> QED BY <1>1, <1>2, <1>3, <1>4 DEF ReportInv

(* Where memberships and the day stay, the totals stay near.               *)
LEMMA RowsMove ==
  ASSUME ReportInv, RowsTyped', EditTyped', Summed', report' = report, today' = today,
         standing' = standing, happened \subseteq happened', happened' \subseteq Changes,
         ~BetweenReads => UNCHANGED <<lost, gained>>,
         BetweenReads =>
           \A span \in Span :
             /\ Earned(Members, Since(span)) + lost <= Earned(Members, Since(span))' + lost'
             /\ Earned(Members, Since(span))' + gained <= Earned(Members, Since(span)) + gained'
  PROVE  ReportInv'
<1>1. Members' = Members
  BY DEF Members
<1>2. LinesAddUp'
  BY ShownStays DEF ReportInv, BetweenReads
<1>3. MembersRead => MembersRead'
  BY <1>1 DEF MembersRead
<1>4. ASSUME BetweenReads, TotalsNear PROVE TotalsNear'
  <2>1. \A span \in Span : Earned(Members, Since(span)) \in Nat
    BY FaresAreNumbers DEF ReportInv
  <2>2. \A span \in Span : Earned(Members, Since(span))' \in Nat
    <3>1. (\A D, since : Earned(D, since) \in Nat)'
      BY FaresAreNumbers, PTL
    <3> QED BY <3>1
  <2>3. Settled' => Settled
    BY DEF Settled
  <2> QED BY <1>4, <2>1, <2>2, <2>3 DEF TotalsNear, Near, ReportInv, Summed
<1>5. ReportReads'
  BY <1>3, <1>4 DEF ReportInv, ReportReads, BetweenReads
<1> QED BY <1>2, <1>5 DEF ReportInv

LEMMA DriverChangesStep ==
  ASSUME ReportInv, NEW d \in Drivers, DriverChanges(d)
  PROVE  ReportInv'
<1>1. /\ report' = report /\ today' = today
      /\ happened \subseteq happened' /\ happened' \subseteq Changes
  BY EventIsNoted DEF ReportInv, DriverChanges, Changes
<1>2. /\ RowsTyped' /\ EditTyped' /\ Summed' /\ UNCHANGED <<lost, gained, standing>>
  BY <1>1 DEF ReportInv, RowsTyped, EditTyped, Summed, DriverChanges, bookingVars
<1>3. \A span \in Span : Earned(Members, Since(span)) = Earned(Members, Since(span))'
  BY <1>1 DEF DriverChanges, bookingVars, Earned, FinalFares, Completed, Members, Since
<1>4. \A span \in Span : Earned(Members, Since(span)) \in Nat
  BY FaresAreNumbers DEF ReportInv
<1>5. lost \in Nat /\ gained \in Nat
  BY DEF ReportInv, Summed
<1> QED BY <1>1, <1>2, <1>3, <1>4, <1>5, RowsMove

(* A save of a trip moves the earnings by what is lost and gained.         *)
LEMMA SaveMoves ==
  ASSUME RowsTyped, RowsTyped', UNCHANGED <<standing, today>>,
         NEW t \in Trips, NEW row \in Trip, row.day = today, trip' = [trip EXCEPT ![t] = row],
         NEW span \in Span
  PROVE  /\ \/ Earned(Members, Since(span)) <= Earned(Members, Since(span))'
            \/ /\ Undoes(row, trip[t])
               /\ Earned(Members, Since(span)) <= Earned(Members, Since(span))' + trip[t].fare
         /\ \/ Earned(Members, Since(span))' <= Earned(Members, Since(span))
            \/ /\ row.phase = "completed"
               /\ Earned(Members, Since(span))' <= Earned(Members, Since(span)) + row.fare
<1> DEFINE A == Completed(Members, Since(span))
           B == Completed(Members, Since(span))'
           f == FinalFares
           h == FinalFares'
<1>1. \A u \in Trips : trip'[u] = IF u = t THEN row ELSE trip[u]
  BY DEF RowsTyped
<1>2. Members' = Members /\ Since(span)' = Since(span) /\ Since(span) <= today
  BY ReportConstants DEF Members, Since, RowsTyped
<1>3. /\ A \in SUBSET Trips /\ B \in SUBSET Trips /\ A \ {t} = B \ {t}
      /\ t \in B <=> row.driver \in Members /\ row.phase = "completed"
      /\ t \in A => trip[t].driver \in Members /\ trip[t].phase = "completed"
  BY <1>1, <1>2 DEF Completed
<1>4. \A u \in Trips : f[u] \in Nat
  BY FaresAreNumbers
<1>5. /\ \A u \in Trips : h[u] = IF u = t THEN row.fare ELSE f[u]
      /\ f[t] = trip[t].fare /\ row.fare \in Nat
  <2>1. row.fare \in Nat
    BY ReportConstants DEF Trip
  <2>2. f[t] = trip[t].fare
    BY DEF FinalFares
  <2>3. \A u \in Trips : h[u] = trip'[u].fare /\ f[u] = trip[u].fare
    BY DEF FinalFares
  <2> QED BY <1>1, <2>1, <2>2, <2>3
<1>6. Earned(Members, Since(span)) = SumFunctionOnSet(f, A)
  BY DEF Earned
<1>7. Earned(Members, Since(span))' = SumFunctionOnSet(h, B)
  BY DEF Earned
<1> HIDE DEF A, B, f, h
<1>8. \A u \in Trips : h[u] \in Nat
  BY <1>4, <1>5
<1>9. /\ SumFunctionOnSet(f, A \ {t}) \in Nat
      /\ t \in A => SumFunctionOnSet(f, A) = SumFunctionOnSet(f, A \ {t}) + f[t]
      /\ t \notin A => SumFunctionOnSet(f, A) = SumFunctionOnSet(f, A \ {t})
  BY <1>3, <1>4, ReportConstants, SumWithout
<1>10. /\ SumFunctionOnSet(h, B \ {t}) \in Nat
       /\ t \in B => SumFunctionOnSet(h, B) = SumFunctionOnSet(h, B \ {t}) + h[t]
       /\ t \notin B => SumFunctionOnSet(h, B) = SumFunctionOnSet(h, B \ {t})
  BY <1>3, <1>8, ReportConstants, SumWithout
<1>11. SumFunctionOnSet(f, A \ {t}) = SumFunctionOnSet(h, B \ {t})
  <2> DEFINE rest == A \ {t}
  <2>1. rest = B \ {t} /\ rest \in SUBSET Trips /\ \A u \in rest : h[u] = f[u]
    BY <1>3, <1>5
  <2> HIDE DEF rest
  <2>2. IsFiniteSet(rest) /\ \A u \in rest : f[u] \in Nat /\ h[u] = f[u]
    BY <1>4, <2>1, ReportConstants, FS_Subset
  <2>3. SumFunctionOnSet(f, rest) = SumFunctionOnSet(h, rest)
    BY <2>2, SumSame
  <2> QED BY <2>1, <2>3 DEF rest
<1>12. t \in A /\ ~Undoes(row, trip[t]) => t \in B /\ f[t] <= h[t]
  BY <1>3, <1>4, <1>5, <1>8 DEF Undoes
<1>13. h[t] = row.fare /\ f[t] \in Nat /\ h[t] \in Nat
  BY <1>4, <1>5, <1>8
<1> QED BY <1>3, <1>5, <1>6, <1>7, <1>9, <1>10, <1>11, <1>12, <1>13

LEMMA SaveKeeps ==
  ASSUME ReportInv, NEW t \in Trips, NEW row \in Trip, SaveTrip(t, row), EditTyped'
  PROVE  ReportInv'
<1> DEFINE new == [row EXCEPT !.day = today]
<1>1. /\ report' = report /\ today' = today
      /\ happened \subseteq happened' /\ happened' \subseteq Changes
  BY EventIsNoted DEF ReportInv, Changes, SaveTrip
<1>2. RowsTyped /\ Summed
  BY DEF ReportInv
<1>3. /\ new \in Trip /\ new.day = today /\ new.driver = row.driver
      /\ new.phase = row.phase /\ new.fare = row.fare
  BY <1>2 DEF RowsTyped, Trip
<1>4. trip' = [trip EXCEPT ![t] = new] /\ UNCHANGED <<standing, driver>>
  BY DEF SaveTrip
<1>5. Undoes(new, trip[t]) <=> Undoes(row, trip[t])
  BY <1>3 DEF Undoes
<1> HIDE DEF new
<1>6. RowsTyped'
  BY <1>1, <1>2, <1>3, <1>4 DEF RowsTyped
<1>7. /\ lost' = IF BetweenReads /\ Undoes(row, trip[t]) THEN lost + trip[t].fare ELSE lost
      /\ gained' = IF BetweenReads /\ row.phase = "completed" THEN gained + row.fare ELSE gained
  BY DEF SaveTrip
<1>8. trip[t].fare \in Nat /\ row.fare \in Nat /\ lost \in Nat /\ gained \in Nat
  BY <1>2, FaresAreNumbers, ReportConstants DEF Trip, Summed
<1>9. Summed'
  BY <1>7, <1>8 DEF Summed
<1>10. ASSUME BetweenReads, NEW span \in Span
       PROVE  /\ Earned(Members, Since(span)) + lost <= Earned(Members, Since(span))' + lost'
              /\ Earned(Members, Since(span))' + gained <= Earned(Members, Since(span)) + gained'
  <2>1. Earned(Members, Since(span)) \in Nat
    BY <1>2, FaresAreNumbers
  <2>2. Earned(Members, Since(span))' \in Nat
    <3>1. (\A D, since : Earned(D, since) \in Nat)'
      BY <1>6, FaresAreNumbers, PTL
    <3> QED BY <3>1
  <2>3. /\ \/ Earned(Members, Since(span)) <= Earned(Members, Since(span))'
           \/ /\ Undoes(new, trip[t])
              /\ Earned(Members, Since(span)) <= Earned(Members, Since(span))' + trip[t].fare
        /\ \/ Earned(Members, Since(span))' <= Earned(Members, Since(span))
           \/ /\ new.phase = "completed"
              /\ Earned(Members, Since(span))' <= Earned(Members, Since(span)) + new.fare
    BY <1>1, <1>2, <1>3, <1>4, <1>6, SaveMoves
  <2> QED BY <1>3, <1>5, <1>7, <1>8, <1>10, <2>1, <2>2, <2>3
<1>11. ~BetweenReads => UNCHANGED <<lost, gained>>
  BY <1>7
<1> QED BY <1>1, <1>4, <1>6, <1>9, <1>10, <1>11, RowsMove

LEMMA TripStep ==
  ASSUME ReportInv,
         \/ \E t \in Trips, phase \in Phase : TripMoves(t, phase)
         \/ \E t \in Trips, fare \in Fares : FareWritten(t, fare)
         \/ \E t \in Trips, d \in Drivers \cup {NoDriver} : TripHanded(t, d)
         \/ EditSaves
  PROVE  ReportInv'
<1>0. trip \in [Trips -> Trip] /\ EditTyped
  BY DEF ReportInv, RowsTyped
<1>1. ASSUME NEW t \in Trips, NEW phase \in Phase, TripMoves(t, phase)  PROVE ReportInv'
  <2>1. [trip[t] EXCEPT !.phase = phase] \in Trip
    BY <1>0 DEF Trip
  <2>2. SaveTrip(t, [trip[t] EXCEPT !.phase = phase]) /\ edit' = edit
    BY <1>1 DEF TripMoves
  <2> QED BY <1>0, <2>1, <2>2, SaveKeeps DEF EditTyped
<1>2. ASSUME NEW t \in Trips, NEW fare \in Fares, FareWritten(t, fare)  PROVE ReportInv'
  <2>1. [trip[t] EXCEPT !.fare = fare] \in Trip
    BY <1>0 DEF Trip
  <2>2. SaveTrip(t, [trip[t] EXCEPT !.fare = fare]) /\ edit' = edit
    BY <1>2 DEF FareWritten
  <2> QED BY <1>0, <2>1, <2>2, SaveKeeps DEF EditTyped
<1>3. ASSUME NEW t \in Trips, NEW d \in Drivers \cup {NoDriver}, TripHanded(t, d)  PROVE ReportInv'
  <2> DEFINE phase == IF d = NoDriver THEN "ahead" ELSE "underway"
  <2>1. phase \in Phase
    BY DEF Phase
  <2>2. SaveTrip(t, [trip[t] EXCEPT !.driver = d, !.phase = phase]) /\ edit' = edit
    BY <1>3 DEF TripHanded
  <2> HIDE DEF phase
  <2>3. [trip[t] EXCEPT !.driver = d, !.phase = phase] \in Trip
    BY <1>0, <2>1 DEF Trip
  <2> QED BY <1>0, <2>2, <2>3, SaveKeeps DEF EditTyped
<1>4. ASSUME EditSaves  PROVE ReportInv'
  <2>1. edit.of \in Trips /\ edit.row \in Trip /\ SaveTrip(edit.of, edit.row) /\ edit' = NoRow
    BY <1>0, <1>4 DEF EditSaves, EditTyped
  <2> QED BY <2>1, SaveKeeps DEF EditTyped
<1> QED BY <1>1, <1>2, <1>3, <1>4

LEMMA EditReadsStep == ASSUME ReportInv, NEW t \in Trips, EditReads(t) PROVE ReportInv'
<1>1. UNCHANGED <<standing, driver, trip, today, report, happened, lost, gained>>
  BY DEF EditReads, historyVars
<1>2. RowsTyped' /\ Summed' /\ happened' \subseteq Changes
  BY <1>1 DEF ReportInv, RowsTyped, Summed
<1>3. EditTyped'
  BY DEF EditReads, EditTyped, ReportInv, RowsTyped
<1>4. \A span \in Span : Earned(Members, Since(span))' = Earned(Members, Since(span))
  BY <1>1 DEF Earned, FinalFares, Completed, Members, Since
<1>5. \A span \in Span : Earned(Members, Since(span)) \in Nat
  BY FaresAreNumbers DEF ReportInv
<1>6. lost \in Nat /\ gained \in Nat
  BY DEF ReportInv, Summed
<1> QED BY <1>1, <1>2, <1>3, <1>4, <1>5, <1>6, RowsMove

LEMMA MidnightStep == ASSUME ReportInv, Midnight PROVE ReportInv'
<1>1. /\ report' = report /\ happened \subseteq happened' /\ happened' \subseteq Changes
      /\ report # NoReport => "midnight" \in happened'
  BY DEF ReportInv, Midnight, Changes
<1>2. RowsTyped' /\ EditTyped' /\ Summed' /\ UNCHANGED <<lost, gained>>
  BY ReportConstants DEF ReportInv, RowsTyped, EditTyped, Summed, Midnight, bookingVars
<1>3. LinesAddUp'
  BY <1>1, <1>2, ShownStays DEF ReportInv
<1>4. Members' = Members
  BY DEF Midnight, Members
<1>5. MembersRead => MembersRead'
  BY <1>1, <1>4 DEF MembersRead
<1>6. report # NoReport /\ TotalsNear => TotalsNear'
  BY <1>1 DEF TotalsNear, Settled
<1> QED BY <1>1, <1>2, <1>3, <1>5, <1>6 DEF ReportInv, ReportReads

LEMMA ReportStep == ReportInv /\ [ReportNext]_reportVars => ReportInv'
<1> SUFFICES ASSUME ReportInv, [ReportNext]_reportVars PROVE ReportInv'
  OBVIOUS
<1>1. CASE ReadMembers
  BY <1>1, ReadMembersStep
<1>2. CASE ReadTotals
  BY <1>2, ReadTotalsStep
<1>3. CASE ReadAgain
  BY <1>3, ReadAgainStep
<1>4. CASE ReadByDriver
  BY <1>4, ReadByDriverStep
<1>5. CASE Leave
  BY <1>5, LeaveStep
<1>6. CASE \E d \in Drivers, s \in Standing : MemberChanges(d, s)
  BY <1>6, MemberChangesStep
<1>7. CASE \E d \in Drivers : DriverChanges(d)
  BY <1>7, DriverChangesStep
<1>8. CASE \/ \E t \in Trips, phase \in Phase : TripMoves(t, phase)
           \/ \E t \in Trips, fare \in Fares : FareWritten(t, fare)
           \/ \E t \in Trips, d \in Drivers \cup {NoDriver} : TripHanded(t, d)
           \/ EditSaves
  BY <1>8, TripStep
<1>9. CASE \E t \in Trips : EditReads(t)
  BY <1>9, EditReadsStep
<1>10. CASE Midnight
  BY <1>10, MidnightStep
<1>11. CASE UNCHANGED reportVars
  <2>1. UNCHANGED <<standing, driver, trip, edit, today, report, happened, lost, gained>>
    BY <1>11 DEF reportVars, bookingVars, historyVars
  <2>2. RowsTyped' /\ EditTyped' /\ Summed' /\ happened' \subseteq Changes
    BY <2>1 DEF ReportInv, RowsTyped, EditTyped, Summed
  <2>3. \A span \in Span : Earned(Members, Since(span)) = Earned(Members, Since(span))'
    BY <2>1 DEF Earned, FinalFares, Completed, Members, Since
  <2>4. \A span \in Span : Earned(Members, Since(span)) \in Nat
    BY FaresAreNumbers DEF ReportInv
  <2>5. lost \in Nat /\ gained \in Nat
    BY DEF ReportInv, Summed
  <2> QED BY <2>1, <2>2, <2>3, <2>4, <2>5, RowsMove
<1> QED BY <1>1, <1>2, <1>3, <1>4, <1>5, <1>6, <1>7, <1>8, <1>9, <1>10, <1>11 DEF ReportNext

(* Dashboard, roster, alerts, trips and overview agree; and the lines of a *)
(* report of earnings are as far from its totals as the trips saved        *)
(* between the two reads account for, and no farther: for any fleet,       *)
(* number of trips and order of changes.                                   *)
THEOREM ReportsAlwaysAgree == ReportSpec => []ReportsAgree
<1>1. ReportInv => ReportsAgree
  BY PagesAlwaysAgree DEF ReportInv, ReportsAgree
<1> QED BY ReportInitial, ReportStep, <1>1, PTL DEF ReportSpec

=============================================================================
