----------------------------- MODULE Onboarding -----------------------------
(***************************************************************************)
(* How a driver becomes approved: drivers/onboarding_service.py, upload_-  *)
(* document and complete_training of drivers/api.py, the fleet owner's     *)
(* uploads (fleet/services.py), and what the admin portal does with a      *)
(* driver and his documents (admin_portal/views.py).                       *)
(*                                                                         *)
(* A clerk's review saves the document, then asks whether any is pending,  *)
(* then approves the driver; a submission saves every column of a profile  *)
(* it read before.  Nothing locks the driver's rows.                       *)
(***************************************************************************)
EXTENDS Naturals, FiniteSets

CONSTANTS
  Clerks,       \* reviews that can be in progress at once
  Kinds,        \* document types
  NoKind, NoDoc, NoProfile,
  MaxFiles      \* bound: files a driver sends in a behaviour

ASSUME OnboardingConstants ==
  /\ NoKind \notin Kinds
  /\ MaxFiles \in Nat

VARIABLES
  profile,    \* DriverProfile: kyc_status, onboarding_completed, training_completed
  doc,        \* DriverDocument rows, by type
  submission, \* what the driver's onboarding request in progress has read
  clerk,      \* what each review does next
  files,      \* files sent so far
  owed        \* history: the last review left nothing pending, by an approval

onboardingVars == <<profile, doc, submission, clerk, files, owed>>

DocStatus == {"pending", "approved", "rejected"}
Profile == [kyc : DocStatus, completed : BOOLEAN, trained : BOOLEAN]

(* file: what file_key names, by when it was sent; image: the bytes kept   *)
(* in the database, 0 if there are none.                                   *)
Document == [status : DocStatus, file : 1 .. MaxFiles, image : 0 .. MaxFiles]
Resting == [at |-> "idle", kind |-> NoKind]

OnboardingTypeOK ==
  /\ profile \in Profile
  /\ doc \in [Kinds -> Document \cup {NoDoc}]
  /\ submission \in Profile \cup {NoProfile}
  /\ clerk \in [Clerks -> [at : {"idle", "check", "approve"}, kind : Kinds \cup {NoKind}]]
  /\ files \in 0 .. MaxFiles
  /\ owed \in BOOLEAN

OnboardingInit ==
  /\ profile = [kyc |-> "pending", completed |-> FALSE, trained |-> FALSE]
  /\ doc = [k \in Kinds |-> NoDoc]
  /\ submission = NoProfile
  /\ clerk = [c \in Clerks |-> Resting]
  /\ files = 0
  /\ owed = FALSE

Pending(k) == doc[k] # NoDoc /\ doc[k].status = "pending"

(* mutant: a rejected document counts as one not yet reviewed              *)
NothingRejected == \A k \in Kinds : doc[k] # NoDoc => doc[k].status = "approved"

NothingPending == \A k \in Kinds : ~Pending(k)

-----------------------------------------------------------------------------
(* An upload makes the document pending, and leaves the driver's           *)
(* kyc_status as it was.                                                   *)
Uploaded(k, image) ==
  /\ files < MaxFiles
  /\ files' = files + 1
  /\ doc' = [doc EXCEPT ![k] = [status |-> "pending", file |-> files + 1, image |-> image]]
  /\ owed' = FALSE
  /\ UNCHANGED <<profile, submission, clerk>>

(* upload_document keeps the bytes beside the key.                         *)
Upload(k) == Uploaded(k, files + 1)

(* upload_fleet_document, for a driver of the owner's fleet: the bytes are *)
(* kept if the object store is not there or fails; the bytes of before go. *)
UploadByFleet(k) == Uploaded(k, 0) \/ Uploaded(k, files + 1)

(* _upsert_document, and the documents add_driver_to_fleet attaches: a new *)
(* key, and whatever bytes the row had.                                    *)
Attached(k) ==
  [status |-> "pending", file |-> files + 1,
   image |-> IF doc[k] = NoDoc THEN 0 ELSE doc[k].image]

AttachByFleet(k) ==
  /\ files < MaxFiles
  /\ files' = files + 1
  /\ doc' = [doc EXCEPT ![k] = Attached(k)]
  /\ owed' = FALSE
  /\ UNCHANGED <<profile, submission, clerk>>

CompleteTraining ==
  /\ profile' = [profile EXCEPT !.trained = TRUE]
  /\ UNCHANGED <<doc, submission, clerk, files, owed>>

(* submit_driver_onboarding reads the profile; then saves all of it, with  *)
(* its documents, in one transaction.                                      *)
SubmitRead ==
  /\ submission = NoProfile
  /\ submission' = profile
  /\ UNCHANGED <<profile, doc, clerk, files, owed>>

SubmitSave(kinds) ==
  /\ submission # NoProfile
  /\ kinds # {} => files < MaxFiles
  /\ files' = IF kinds = {} THEN files ELSE files + 1
  /\ profile' = [submission EXCEPT !.kyc = "pending", !.completed = TRUE]
  /\ doc' = [k \in Kinds |-> IF k \in kinds THEN Attached(k) ELSE doc[k]]
  /\ submission' = NoProfile
  /\ owed' = FALSE
  /\ UNCHANGED clerk

-----------------------------------------------------------------------------
(* PortalDriverDocumentReviewView: only an approval looks further.         *)
Reviewed(k, status) == [doc EXCEPT ![k].status = status]

Review(c, k, status) ==
  /\ clerk[c].at = "idle"
  /\ doc[k] # NoDoc
  /\ doc' = Reviewed(k, status)
  /\ clerk' = IF status = "approved"
                THEN [clerk EXCEPT ![c] = [at |-> "check", kind |-> k]] ELSE clerk
  /\ owed' = (status = "approved" /\ \A l \in Kinds \ {k} : ~Pending(l))
  /\ UNCHANGED <<profile, submission, files>>

CheckPending(c) ==
  /\ clerk[c].at = "check"
  /\ clerk' = [clerk EXCEPT ![c] = IF NothingPending THEN [@ EXCEPT !.at = "approve"] ELSE Resting]
  /\ UNCHANGED <<profile, doc, submission, files, owed>>

ApproveDriver(c) ==
  /\ clerk[c].at = "approve"
  /\ profile' = [profile EXCEPT !.kyc = "approved"]
  /\ clerk' = [clerk EXCEPT ![c] = Resting]
  /\ UNCHANGED <<doc, submission, files, owed>>

(* mutant: the verb of the action is stored for the status                 *)
SetVerb(status) ==
  /\ profile' = [profile EXCEPT !.kyc = IF status = "approved" THEN "approve" ELSE status]
  /\ owed' = FALSE
  /\ UNCHANGED <<doc, submission, clerk, files>>

(* PortalDriverDetailView: the status is set whatever the documents say.   *)
SetKyc(status) ==
  /\ profile' = [profile EXCEPT !.kyc = status]
  /\ owed' = FALSE
  /\ UNCHANGED <<doc, submission, clerk, files>>

OnboardingNext ==
  \/ \E k \in Kinds : Upload(k)
  \/ \E k \in Kinds : UploadByFleet(k)
  \/ \E k \in Kinds : AttachByFleet(k)
  \/ CompleteTraining
  \/ SubmitRead
  \/ \E kinds \in SUBSET Kinds : SubmitSave(kinds)
  \/ \E c \in Clerks, k \in Kinds, status \in DocStatus : Review(c, k, status)
  \/ \E c \in Clerks : CheckPending(c)
  \/ \E c \in Clerks : ApproveDriver(c)
  \/ \E status \in DocStatus : SetKyc(status)

OnboardingSpec == OnboardingInit /\ [][OnboardingNext]_onboardingVars

-----------------------------------------------------------------------------
(* When the approval of a document leaves nothing pending, the driver is   *)
(* approved once no review is in progress: of clerks who approve the last  *)
(* documents at the same moment, one at least finds nothing pending.       *)
(* Only a new file, a submission, another review or an administrator who   *)
(* sets the status himself takes that back.                                *)
LastApprovalApproves ==
  owed /\ (\A c \in Clerks : clerk[c].at = "idle") => profile.kyc = "approved"

=============================================================================
