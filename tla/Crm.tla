--------------------------------- MODULE Crm ---------------------------------
(***************************************************************************)
(* The CRM of one person: organisations, contacts and their import,        *)
(* opportunities and follow-ups (app/(app)/*/actions.ts, lib/follow-ups,   *)
(* lib/commerce, lib/contacts/import).  A request reads, then writes what   *)
(* it decided on that reading; another one may come in between.  Rows of    *)
(* other people are never matched, so one owner is enough.                  *)
(***************************************************************************)
EXTENDS Integers, Sequences, FiniteSets, Functions, Files

CONSTANTS
    Organization, Opportunity, FollowUp,
    Name,           \* names of organisations, normalised
    Email,
    LastDay,        \* bound: days 0..LastDay are lived through
    MaxNudges       \* bound: nudges counted on a follow-up

ASSUME CrmAssumption == LastDay \in Nat /\ MaxNudges \in Nat

VARIABLES
    organization, contact, opportunity, followUp,   \* the tables
    today,
    work            \* what each request has read and is about to write

crmVars == <<organization, contact, opportunity, followUp, today, work>>

NUDGE_SNOOZE_DAYS == 3
RECEIVED_SNOOZE_DAYS == 1
SnoozeDays == {1, 3, 7}

OpenStatus   == {"A_QUALIFIER", "EN_DISCUSSION", "PROPOSITION"}
ClosedStatus == {"GAGNEE", "PERDUE"}

AllowedTransitions(from) ==
    CASE from = "A_QUALIFIER"   -> {"EN_DISCUSSION", "PROPOSITION", "GAGNEE", "PERDUE"}
      [] from = "EN_DISCUSSION" -> {"A_QUALIFIER", "PROPOSITION", "GAGNEE", "PERDUE"}
      [] from = "PROPOSITION"   -> {"EN_DISCUSSION", "GAGNEE", "PERDUE"}
      [] OTHER                  -> OpenStatus

Intent == {"nudge", "handoff", "received", "snooze", "complete", "abandon", "reopen"}

AllowedFrom(intent) == IF intent = "reopen" THEN {"COMPLETED", "ABANDONED"} ELSE {"OPEN"}

Absent == [status |-> "absent"]
Idle   == [op |-> "none"]

\* Rows of each table.
Organizations == {o \in Organization : organization[o] # Absent}
Contacts      == {c \in Contact : contact[c] # Absent}
Opportunities == {o \in Opportunity : opportunity[o] # Absent}
FollowUps     == {f \in FollowUp : followUp[f] # Absent}

\* What the choosers offer and the forms check again.
ActiveOrganizations == {o \in Organizations : ~organization[o].archived}
ActiveContacts      == {c \in Contacts : ~contact[c].archived}
OpenOpportunities   == {o \in Opportunities : opportunity[o].status \in OpenStatus}

CrmTypeOK ==
    /\ organization \in [Organization -> {Absent} \cup [name: Name, archived: BOOLEAN]]
    /\ contact \in [Contact -> {Absent} \cup
           [email: Email \cup {None}, org: Organization \cup {None}, orgName: Name \cup {None}, archived: BOOLEAN]]
    /\ opportunity \in [Opportunity -> {Absent} \cup
           [status: OpenStatus \cup ClosedStatus, closedAt: BOOLEAN, bornClosed: BOOLEAN,
            org: Organization, contact: Contact \cup {None}]]
    /\ followUp \in [FollowUp -> {Absent} \cup
           [status: {"OPEN", "COMPLETED", "ABANDONED"}, completedAt: BOOLEAN, ballOwner: {"ME", "THEM"},
            dueAt: Int, nudgeCount: Nat, contact: Contact \cup {None}, opportunity: Opportunity \cup {None}]]
    /\ today \in 0..LastDay

CrmInit ==
    /\ organization = [o \in Organization |-> Absent]
    /\ contact      = [c \in Contact |-> Absent]
    /\ opportunity  = [o \in Opportunity |-> Absent]
    /\ followUp     = [f \in FollowUp |-> Absent]
    /\ today = 0
    /\ work = [r \in Request |-> Idle]

Reads(r, what) == work[r] = Idle /\ work' = [work EXCEPT ![r] = what]
Ends(r)        == work' = [work EXCEPT ![r] = Idle]
Doing(r, op)   == work[r].op = op

\* A request that fails, or a process that stops, before its only write.
GiveUp(r) ==
    /\ work[r] # Idle
    /\ Ends(r)
    /\ UNCHANGED <<organization, contact, opportunity, followUp, today>>

NextDay ==
    /\ today < LastDay
    /\ today' = today + 1
    /\ UNCHANGED <<organization, contact, opportunity, followUp, work>>

-----------------------------------------------------------------------------
(* Organisations: never deleted.                                           *)

CreateOrganization(o, n) ==
    /\ o \notin Organizations
    /\ organization' = [organization EXCEPT ![o] = [name |-> n, archived |-> FALSE]]
    /\ UNCHANGED <<contact, opportunity, followUp, today, work>>

\* One transaction: the name goes to the contacts of the organisation.
UpdateOrganization(o, n) ==
    /\ o \in Organizations
    /\ organization' = [organization EXCEPT ![o].name = n]
    /\ contact' = [c \in Contact |-> IF c \in Contacts /\ contact[c].org = o
                                     THEN [contact[c] EXCEPT !.orgName = n] ELSE contact[c]]
    /\ UNCHANGED <<opportunity, followUp, today, work>>

ArchiveOrganization(o, archived) ==
    /\ o \in Organizations
    /\ organization' = [organization EXCEPT ![o].archived = archived]
    /\ UNCHANGED <<contact, opportunity, followUp, today, work>>

-----------------------------------------------------------------------------
(* Contacts: never deleted.  Their photos are in Files.                    *)

\* The organisation is checked and its name taken when none was typed.
\* Creating, c is a row of its own; updating, it exists.
ContactForm(r, c, e, o, typed) ==
    /\ o \in ActiveOrganizations \cup {None}
    /\ Reads(r, [op |-> "contact", contact |-> c, new |-> c \notin Contacts, email |-> e, org |-> o,
                 orgName |-> IF typed = None /\ o # None THEN organization[o].name ELSE typed])
    /\ UNCHANGED <<organization, contact, opportunity, followUp, today>>

SaveContact(r) ==
    LET w == work[r] IN
    /\ Doing(r, "contact")
    /\ w.new <=> w.contact \notin Contacts
    /\ contact' = [contact EXCEPT ![w.contact] =
                      [email |-> w.email, org |-> w.org, orgName |-> w.orgName,
                       archived |-> ~w.new /\ contact[w.contact].archived]]
    /\ Ends(r)
    /\ UNCHANGED <<organization, opportunity, followUp, today>>

ArchiveContact(c, archived) ==
    /\ c \in Contacts
    /\ contact' = [contact EXCEPT ![c].archived = archived]
    /\ UNCHANGED <<organization, opportunity, followUp, today, work>>

-----------------------------------------------------------------------------
(* Import of contacts.                                                     *)

\* organizationResolver: the one active organisation of that name, or none.
ResolveOrganization(n) ==
    LET named == {o \in ActiveOrganizations : organization[o].name = n}
    IN IF n # None /\ Cardinality(named) = 1 THEN CHOOSE o \in named : TRUE ELSE None

\* toRow
ToRow(line) == [email |-> line.email, org |-> ResolveOrganization(line.orgName),
                orgName |-> line.orgName, archived |-> FALSE]

\* planImport: each line of the file is dropped, created, or completes the
\* oldest contact that has its address. A line with the address of an earlier one
\* is dropped; so is a line without an address that looks like a contact, unless
\* it was ticked.
PlanImport(lines, oldest) ==
    LET First(i) == lines[i].email # None => \A j \in 1..(i - 1) : lines[j].email # lines[i].email
        Known(e) == \E c \in Contacts : contact[c].email = e
        Alike(line) == line.orgName # None /\ \E c \in Contacts : contact[c].orgName = line.orgName
        Fillable(line) == contact[oldest[line.email]].orgName = None /\ line.orgName # None
        New(line) == IF line.email # None THEN ~Known(line.email) ELSE Alike(line) => line.ticked
        Fills(line) == line.email # None /\ Known(line.email) /\ Fillable(line)
    IN [create   |-> [i \in {x \in DOMAIN lines : First(x) /\ New(lines[x])} |-> ToRow(lines[i])],
        complete |-> {[contact |-> oldest[lines[i].email], row |-> ToRow(lines[i])] :
                         i \in {x \in DOMAIN lines : First(x) /\ Fills(lines[x])}}]

ImportRead(r, lines, mode, oldest) ==
    LET plan == PlanImport(lines, oldest) IN
    /\ \A c \in Contacts : contact[c].email # None =>
          /\ oldest[contact[c].email] \in Contacts
          /\ contact[oldest[contact[c].email]].email = contact[c].email
    /\ Reads(r, [op |-> "import", create |-> plan.create,
                 complete |-> IF mode = "complete" THEN plan.complete ELSE {}])
    /\ UNCHANGED <<organization, contact, opportunity, followUp, today>>

\* completeBatch decides column by column on the row as it is when it is written.
Completed(row, imported) ==
    [row EXCEPT !.org     = IF row.org # None \/ row.orgName # None THEN row.org ELSE imported.org,
                !.orgName = IF row.orgName # None THEN row.orgName ELSE imported.orgName]

\* One transaction creates the new contacts and completes the others.
ImportWrite(r) ==
    LET w == work[r] IN
    /\ Doing(r, "import")
    /\ \E to \in [DOMAIN w.create -> Contact \ Contacts] :
          /\ IsInjective(to)
          /\ contact' = [c \in Contact |->
                CASE c \in Range(to) -> w.create[CHOOSE i \in DOMAIN to : to[i] = c]
                  [] \E d \in w.complete : d.contact = c ->
                        Completed(contact[c], (CHOOSE d \in w.complete : d.contact = c).row)
                  [] OTHER -> contact[c]]
    /\ Ends(r)
    /\ UNCHANGED <<organization, opportunity, followUp, today>>

-----------------------------------------------------------------------------
(* Opportunities.                                                          *)

\* createOpportunity and updateOpportunity: the organisation and the contact
\* must be active when they are checked.
OpportunityForm(r, o, status, org, c) ==
    /\ org \in ActiveOrganizations
    /\ c \in ActiveContacts \cup {None}
    /\ status = None <=> o \in Opportunities
    /\ Reads(r, [op |-> "opportunity", opportunity |-> o, status |-> status, org |-> org, contact |-> c])
    /\ UNCHANGED <<organization, contact, opportunity, followUp, today>>

\* A new one takes the status asked for, even a closed one, without closedAt.
SaveOpportunity(r) ==
    LET w == work[r] IN
    /\ Doing(r, "opportunity")
    /\ w.status = None <=> w.opportunity \in Opportunities
    /\ opportunity' = [opportunity EXCEPT ![w.opportunity] =
          IF w.status = None
          THEN [@ EXCEPT !.org = w.org, !.contact = w.contact]
          ELSE [status |-> w.status, closedAt |-> FALSE, bornClosed |-> w.status \in ClosedStatus,
                org |-> w.org, contact |-> w.contact]]
    /\ Ends(r)
    /\ UNCHANGED <<organization, contact, followUp, today>>

\* changeOpportunityStatus: asking for the status it has is no change.
StatusRead(r, o, status) ==
    /\ o \in Opportunities
    /\ status \in AllowedTransitions(opportunity[o].status)
    /\ Reads(r, [op |-> "status", opportunity |-> o, seen |-> opportunity[o].status, status |-> status])
    /\ UNCHANGED <<organization, contact, opportunity, followUp, today>>

\* closedAt: erased when opened, set when closed, left alone when it was closed
\* already. The row is written by its id, whatever its status has become.
ClosedAtKept(seen, status, before) ==   \* seeded fault: reopening leaves the date
    IF status \in ClosedStatus /\ seen \in OpenStatus THEN TRUE ELSE before

ClosedAt(seen, status, before) ==
    IF status \in OpenStatus THEN FALSE ELSE IF seen \in OpenStatus THEN TRUE ELSE before

StatusWrite(r) ==
    LET w == work[r] IN
    /\ Doing(r, "status")
    /\ w.opportunity \in Opportunities
    /\ opportunity' = [opportunity EXCEPT ![w.opportunity].status = w.status,
                                          ![w.opportunity].closedAt = ClosedAt(w.seen, w.status, @),
                                          ![w.opportunity].bornClosed = FALSE]
    /\ Ends(r)
    /\ UNCHANGED <<organization, contact, followUp, today>>

\* The links of the follow-ups are emptied by the schema (SetNull).
DeleteOpportunity(o) ==
    /\ o \in Opportunities
    /\ opportunity' = [opportunity EXCEPT ![o] = Absent]
    /\ followUp' = [f \in FollowUp |-> IF f \in FollowUps /\ followUp[f].opportunity = o
                                       THEN [followUp[f] EXCEPT !.opportunity = None] ELSE followUp[f]]
    /\ UNCHANGED <<organization, contact, today, work>>

-----------------------------------------------------------------------------
(* Follow-ups: never deleted.                                              *)

\* createFollowUp on a contact of the address book.
FollowUpForm(r, f, c, o, ball, due) ==
    /\ f \notin FollowUps
    /\ c \in ActiveContacts \cup {None}
    /\ o \in OpenOpportunities \cup {None}
    /\ Reads(r, [op |-> "followUp", followUp |-> f, contact |-> c, opportunity |-> o,
                 ballOwner |-> ball, dueAt |-> due])
    /\ UNCHANGED <<organization, contact, opportunity, followUp, today>>

\* "new": the contact is created first, and stays when the rest is refused.
FollowUpFormNewContact(r, f, c, n, o, ball, due) ==
    /\ f \notin FollowUps /\ c \notin Contacts
    /\ contact' = [contact EXCEPT ![c] = [email |-> None, org |-> None, orgName |-> n, archived |-> FALSE]]
    /\ \/ /\ o \in OpenOpportunities \cup {None}
          /\ Reads(r, [op |-> "followUp", followUp |-> f, contact |-> c, opportunity |-> o,
                       ballOwner |-> ball, dueAt |-> due])
       \/ /\ o \notin OpenOpportunities \cup {None}
          /\ work[r] = Idle /\ UNCHANGED work
    /\ UNCHANGED <<organization, opportunity, followUp, today>>

\* The foreign key refuses an opportunity deleted since it was checked.
SaveFollowUp(r) ==
    LET w == work[r] IN
    /\ Doing(r, "followUp")
    /\ w.followUp \notin FollowUps
    /\ w.opportunity \in Opportunities \cup {None}
    /\ followUp' = [followUp EXCEPT ![w.followUp] =
          [status |-> "OPEN", completedAt |-> FALSE, ballOwner |-> w.ballOwner, dueAt |-> w.dueAt,
           nudgeCount |-> 0, contact |-> w.contact, opportunity |-> w.opportunity]]
    /\ Ends(r)
    /\ UNCHANGED <<organization, contact, opportunity, today>>

\* applyQuickAction reads the row.
QuickRead(r, f, intent, days) ==
    /\ f \in FollowUps
    /\ followUp[f].status \in AllowedFrom(intent)
    /\ Reads(r, [op |-> "quick", followUp |-> f, intent |-> intent, days |-> days,
                 status |-> followUp[f].status, dueAt |-> followUp[f].dueAt,
                 now |-> today])
    /\ UNCHANGED <<organization, contact, opportunity, followUp, today>>

Later(a, b) == IF a > b THEN a ELSE b

\* buildTransition: the effect of each action on the row found by the update.
BuildTransition(w, row) ==
    LET base == Later(w.dueAt, w.now) IN
    CASE w.intent = "nudge" ->
            [row EXCEPT !.ballOwner = "THEM", !.nudgeCount = @ + 1, !.dueAt = w.now + NUDGE_SNOOZE_DAYS]
      [] w.intent = "handoff"  -> [row EXCEPT !.ballOwner = "THEM", !.dueAt = w.now + NUDGE_SNOOZE_DAYS]
      [] w.intent = "received" -> [row EXCEPT !.ballOwner = "ME", !.dueAt = base + RECEIVED_SNOOZE_DAYS]
      [] w.intent = "snooze"   -> [row EXCEPT !.dueAt = base + w.days]
      [] w.intent = "complete" -> [row EXCEPT !.status = "COMPLETED", !.completedAt = TRUE]
      [] w.intent = "abandon"  -> [row EXCEPT !.status = "ABANDONED", !.completedAt = TRUE]
      [] w.intent = "reopen"   -> [row EXCEPT !.status = "OPEN", !.completedAt = FALSE, !.dueAt = w.now]

\* The WHERE of updateMany: the status and the due date that were read.
StillDue(w) ==   \* seeded fault: the status is not compared
    followUp[w.followUp].dueAt = w.dueAt

StillAsRead(w) ==
    /\ followUp[w.followUp].status = w.status
    /\ followUp[w.followUp].dueAt = w.dueAt

\* Refused (count 0), the action ends and the user is told: GiveUp.
QuickWrite(r) ==
    LET w == work[r] IN
    /\ Doing(r, "quick")
    /\ StillAsRead(w)
    /\ followUp[w.followUp].nudgeCount < MaxNudges
    /\ followUp' = [followUp EXCEPT ![w.followUp] = BuildTransition(w, @)]
    /\ Ends(r)
    /\ UNCHANGED <<organization, contact, opportunity, today>>

\* updateFollowUp checks the contact, then writes the row by its id.
EditForm(r, f, c, due) ==
    /\ c \in ActiveContacts \cup {None}
    /\ Reads(r, [op |-> "edit", followUp |-> f, contact |-> c, dueAt |-> due])
    /\ UNCHANGED <<organization, contact, opportunity, followUp, today>>

SaveEdit(r) ==
    LET w == work[r] IN
    /\ Doing(r, "edit")
    /\ w.followUp \in FollowUps
    /\ followUp' = [followUp EXCEPT ![w.followUp].contact = w.contact, ![w.followUp].dueAt = w.dueAt]
    /\ Ends(r)
    /\ UNCHANGED <<organization, contact, opportunity, today>>

-----------------------------------------------------------------------------
(* Any requests of one person, on any rows.                                *)

ImportLine == [email : Email \cup {None}, orgName : Name \cup {None}, ticked : BOOLEAN]

OrganizationSteps ==
    \E o \in Organization :
        \/ \E n \in Name : CreateOrganization(o, n) \/ UpdateOrganization(o, n)
        \/ \E archived \in BOOLEAN : ArchiveOrganization(o, archived)

ContactSteps(r) ==
    \/ \E c \in Contact, e \in Email \cup {None}, o \in Organization \cup {None}, n \in Name \cup {None} :
          ContactForm(r, c, e, o, n)
    \/ SaveContact(r)
    \/ \E c \in Contact, archived \in BOOLEAN : ArchiveContact(c, archived)
    \/ \E lines \in Seq(ImportLine), mode \in {"skip", "complete"}, oldest \in [Email -> Contact] :
          ImportRead(r, lines, mode, oldest)
    \/ ImportWrite(r)

OpportunitySteps(r) ==
    \/ \E o \in Opportunity, s \in OpenStatus \cup ClosedStatus \cup {None}, org \in Organization,
          c \in Contact \cup {None} : OpportunityForm(r, o, s, org, c)
    \/ SaveOpportunity(r)
    \/ \E o \in Opportunity, s \in OpenStatus \cup ClosedStatus : StatusRead(r, o, s)
    \/ StatusWrite(r)
    \/ \E o \in Opportunity : DeleteOpportunity(o)

FollowUpSteps(r) ==
    \/ \E f \in FollowUp, o \in Opportunity \cup {None}, ball \in {"ME", "THEM"}, due \in Int :
          \/ \E c \in Contact \cup {None} : FollowUpForm(r, f, c, o, ball, due)
          \/ \E c \in Contact, n \in Name \cup {None} : FollowUpFormNewContact(r, f, c, n, o, ball, due)
    \/ SaveFollowUp(r)
    \/ \E f \in FollowUp, intent \in Intent, days \in SnoozeDays : QuickRead(r, f, intent, days)
    \/ QuickWrite(r)
    \/ \E f \in FollowUp, c \in Contact \cup {None}, due \in Int : EditForm(r, f, c, due)
    \/ SaveEdit(r)

CrmNext ==
    \/ NextDay \/ OrganizationSteps
    \/ \E r \in Request : ContactSteps(r) \/ OpportunitySteps(r) \/ FollowUpSteps(r) \/ GiveUp(r)

CrmSpec == CrmInit /\ [][CrmNext]_crmVars

-----------------------------------------------------------------------------

\* The dates tell the status, whatever two requests wrote over each other: a
\* follow-up has completedAt exactly when it is closed, and an opportunity has
\* closedAt exactly when it is closed, but for one created closed.
DatesMatchStatus ==
    /\ \A f \in FollowUps : followUp[f].completedAt <=> followUp[f].status # "OPEN"
    /\ \A o \in Opportunities :
          opportunity[o].closedAt <=> opportunity[o].status \in ClosedStatus /\ ~opportunity[o].bornClosed

\* The rows have their type, and their dates tell their status.
CrmInv == CrmTypeOK /\ DatesMatchStatus

\* The quick action in hand is applied to its row by this step.
Applies(r) == Doing(r, "quick") /\ work'[r] = Idle /\ followUp' # followUp

\* A closed follow-up rests: whatever was read before it was closed, no quick
\* action moves its ball or counts a nudge, and an open one is never "reopened",
\* which would replace its due date (domain.ts:43-46).
ClosedFollowUpsRest ==
    [][\A f \in FollowUps :
          /\ followUp[f].status # "OPEN" /\ followUp'[f].status # "OPEN" =>
                /\ followUp'[f].nudgeCount = followUp[f].nudgeCount
                /\ followUp'[f].ballOwner = followUp[f].ballOwner
                /\ followUp'[f].status = followUp[f].status
          /\ \A r \in Request : Applies(r) /\ work[r].intent = "reopen" /\ work[r].followUp = f =>
                followUp[f].status # "OPEN"]_crmVars

\* An import fills what is empty and nothing else, even when the contact changed
\* since it was analysed; it links an organisation to no contact whose own
\* organisation was typed by hand, and creates one contact at most for an
\* address of its file.
ImportFillsOnly ==
    [][\A r \in Request : Doing(r, "import") /\ work'[r] = Idle =>
          /\ \A c \in Contacts :
                /\ contact[c].orgName # None =>
                      contact'[c].orgName = contact[c].orgName /\ contact'[c].org = contact[c].org
                /\ contact[c].org # None => contact'[c].org = contact[c].org
                /\ contact'[c].archived = contact[c].archived
          /\ \A c, d \in {b \in Contact : b \notin Contacts /\ contact'[b] # Absent} :
                contact'[c].email = contact'[d].email /\ contact'[c].email # None => c = d]_crmVars

\* Neither a quick action nor an import undoes what it did not see (the two above).
CrmSteps == ClosedFollowUpsRest /\ ImportFillsOnly
=============================================================================
