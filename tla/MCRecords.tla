------------------------------ MODULE MCRecords ------------------------------
(***************************************************************************)
(* Instances of Crm, Files and Backups for TLC.                            *)
(***************************************************************************)
EXTENDS Crm, Backups, TLC

CONSTANTS t1, t2,
    MaxDue          \* bound: the latest due date

VARIABLE scene

recordVars == <<crmVars, fileVars, backupVars, scene>>

\* One task and its subtask.
SubtaskOf == t1 :> None @@ t2 :> t1

\* Runs of the backup are requests, photos are contacts: the scenes do not meet.
Symmetry == Permutations(Contact) \cup Permutations(Key) \cup Permutations(Request)

\* Files of one line, or of two with the same address.
Line == [email : Email \cup {None}, orgName : Name \cup {None}, ticked : {FALSE}]
        \cup [email : {None}, orgName : Name, ticked : {TRUE}]
Lines == {<<a>> : a \in Line}
         \cup {<<a, b>> : a, b \in [email : Email, orgName : Name, ticked : {FALSE}]}

OrganizationStep ==
    \E o \in Organization :
       \E n \in Name : CreateOrganization(o, n) \/ UpdateOrganization(o, n)

\* Bound: one contact form at a time, beside imports or not.
ContactStep(r) ==
    \/ /\ \A q \in Request : ~Doing(q, "contact")
       /\ \E c \in Contact, e \in Email \cup {None}, o \in Organization \cup {None}, n \in Name \cup {None} :
             ContactForm(r, c, e, o, n)
    \/ SaveContact(r)
    \/ \E lines \in Lines, mode \in {"skip", "complete"}, oldest \in [Email -> Contact] :
          ImportRead(r, lines, mode, oldest)
    \/ ImportWrite(r)

OpportunityStep(r) ==
    \/ \E o \in Opportunity, s \in OpenStatus \cup ClosedStatus \cup {None}, org \in Organization,
          c \in Contact \cup {None} : OpportunityForm(r, o, s, org, c)
    \/ SaveOpportunity(r)
    \/ \E o \in Opportunity, s \in OpenStatus \cup ClosedStatus : StatusRead(r, o, s)
    \/ StatusWrite(r)

\* Bounds: one form at a time, beside quick actions or not; it asks for a due date
\* of today or in three days.
FollowUpForms(r) ==
    \/ \E f \in FollowUp, o \in Opportunity \cup {None}, due \in {today, today + 3} :
          \/ \E c \in Contact : FollowUpForm(r, f, c, o, "THEM", due)
          \/ \E c \in Contact : FollowUpFormNewContact(r, f, c, CHOOSE n \in Name : TRUE, o, "ME", due)
    \/ \E f \in FollowUp, due \in {today, today + 3} : EditForm(r, f, None, due)

FollowUpStep(r) ==
    \/ FollowUpForms(r) /\ \A q \in Request : ~Doing(q, "followUp") /\ ~Doing(q, "edit")
    \/ SaveFollowUp(r)
    \/ \E f \in FollowUp, intent \in Intent : QuickRead(r, f, intent, 1)
    \/ QuickWrite(r)
    \/ SaveEdit(r)

\* Two requests on the follow-ups, on the opportunities, on the address book,
\* or on the files; what the others would do is left out.
CrmStep ==
    /\ UNCHANGED fileVars
    /\ CASE scene = "followUps" ->
              /\ \/ \E r \in Request : FollowUpStep(r) \/ GiveUp(r)
                 \/ \E o \in Opportunity : DeleteOpportunity(o)
                 \/ NextDay
              /\ \A f \in FollowUp : followUp'[f] # Absent => followUp'[f].dueAt <= MaxDue
         [] scene = "opportunities" ->
              \/ \E r \in Request : OpportunityStep(r) \/ GiveUp(r)
              \/ \E o \in Opportunity : DeleteOpportunity(o)
              \/ \E c \in Contact, archived \in BOOLEAN : ArchiveContact(c, archived)
              \/ \E o \in Organization, archived \in BOOLEAN : ArchiveOrganization(o, archived)
         [] scene = "contacts" ->
              OrganizationStep \/ \E r \in Request : ContactStep(r) \/ GiveUp(r)
         [] OTHER -> FALSE

\* Bound: one insert is committed without an answer.
FileStep == FilesNext /\ UNCHANGED crmVars /\ Cardinality(unacked') <= 1

\* Two runs that prune archives of several days, with every photo shown; or one run
\* beside the application and a restore, on one day.
BackupStep ==
    \/ /\ scene = "rotation"
       /\ \/ \E r \in BackupRun : RunStep(r)
          \/ NextMorning
          \/ stamps = MaxStamps /\ UNCHANGED backupVars
    \/ scene = "pairs" /\ BackupsNext /\ day' = day /\ stamps' <= Earlier + 1

\* An organisation, a contact and an open opportunity to begin with where they are not created.
Founded ==
    /\ organization = [o \in Organization |-> [name |-> CHOOSE n \in Name : TRUE, archived |-> FALSE]]
    /\ opportunity = [o \in Opportunity |-> [status |-> "A_QUALIFIER", closedAt |-> FALSE, bornClosed |-> FALSE,
                          org |-> CHOOSE x \in Organization : TRUE, contact |-> None]]
    /\ \E known \in Contact : contact = [c \in Contact |->
          IF c = known THEN [email |-> None, org |-> None, orgName |-> None, archived |-> FALSE] ELSE Absent]
    /\ followUp = [f \in FollowUp |-> Absent]
    /\ today = 0 /\ work = [r \in Request |-> Idle]

RecordsInit ==
    /\ FilesInit /\ BackupsInit
    /\ scene \in {"contacts", "files", "followUps", "opportunities", "rotation", "pairs"}
    /\ IF scene \in {"followUps", "opportunities"} THEN Founded ELSE CrmInit
    /\ scene # "pairs" => \A k \in Picture : picture[k] = "shown"

RecordsNext ==
    /\ UNCHANGED scene
    /\ \/ CrmStep /\ UNCHANGED backupVars
       \/ scene = "files" /\ FileStep /\ UNCHANGED backupVars
       \/ BackupStep /\ UNCHANGED <<crmVars, fileVars>>

RecordsSpec == RecordsInit /\ [][RecordsNext]_recordVars
=============================================================================
