----------------------------- MODULE MCServices -----------------------------
(* Instances of the components that surround the task pipeline, and of the *)
(* pipeline itself for its liveness.  They meet only in rows that each     *)
(* module abstracts on its own, so a run explores several of them side by  *)
(* side: the initial state picks the part that runs, and the others rest.  *)
EXTENDS MCTaskLifecycle, CookieImport, CookieArchive, MailboxPool, Registration,
        ProtocolGate

CONSTANTS
    Parts,  \* "tasks", "import", "archive", "mailboxes", "registrations", "gate"
    b1, b2, u1, u2

VARIABLE part \* the part that runs

allVars == <<part, vars, importVars, archive, mailboxVars, registrationVars, gateVars>>

MCBatchOf == [i \in Item |-> IF i = 3 THEN b2 ELSE b1]
MCSpaceOfBatch == [b \in Batch |-> s1]
MCLoginOf == [i \in Item |-> IF i = 2 THEN u2 ELSE u1]

\* Entries of an archive that are as they should be but for one thing.
Cookie(name) == [name |-> name, domain |-> "site", expired |-> FALSE, wellFormed |-> TRUE]
Session == [path |-> "folder", suffix |-> "json", directory |-> FALSE, resourceFork |-> FALSE,
            link |-> FALSE, encrypted |-> FALSE, size |-> 2, packed |-> 1,
            document |-> "object", cookies |-> <<Cookie("token"), Cookie("data")>>]

CookieFiles ==
    LET cookies == [name : {"token", "data"}, domain : {"site"}, expired : BOOLEAN, wellFormed : BOOLEAN]
    IN {<<>>} \cup {<<c>> : c \in cookies} \cup {<<c, d>> : c \in cookies, d \in cookies}
              \cup {<<Cookie("token"), Cookie("data"), Cookie("other")>>}

MCEntries ==
    {Session}
    \cup {[Session EXCEPT !.path = p, !.suffix = x] :
            p \in {"root", "deep", "unsafe"}, x \in {"json", "zip", "other"}}
    \cup {[Session EXCEPT !.directory = d, !.resourceFork = ~d, !.suffix = x, !.path = p] :
            d \in BOOLEAN, x \in {"json", "other"}, p \in {"folder", "deep"}}
    \cup {[Session EXCEPT !.link = TRUE, !.suffix = x] : x \in {"json", "other"}}
    \cup {[Session EXCEPT !.encrypted = TRUE, !.suffix = x] : x \in {"json", "other"}}
    \cup {[Session EXCEPT !.size = n, !.packed = m, !.suffix = x] :
            n \in {0, 2, 3, 4}, m \in {0, 1}, x \in {"json", "other"}}
    \cup {[Session EXCEPT !.document = d] : d \in {"noJson", "wrongUrl", "noCookies"}}

MCArchives ==
    {<<>>} \cup {<<e>> : e \in MCEntries} \cup {<<e, f>> : e \in MCEntries, f \in MCEntries}
           \cup {<<Session, Session, Session>>}
           \cup {<<[Session EXCEPT !.cookies = cookies]>> : cookies \in CookieFiles}

ServicesInit ==
    /\ part \in Parts
    /\ Init /\ ImportInit /\ MailboxInit /\ RegistrationInit /\ GateInit
    /\ IF part = "archive" THEN ArchiveInit ELSE archive = <<>>

TasksRun == part = "tasks" /\ Next
            /\ UNCHANGED <<part, importVars, archive, mailboxVars, registrationVars, gateVars>>
ImportRuns == part = "import" /\ ImportNext
              /\ UNCHANGED <<part, vars, archive, mailboxVars, registrationVars, gateVars>>
MailboxesRun == part = "mailboxes" /\ MailboxNext
                /\ UNCHANGED <<part, vars, importVars, archive, registrationVars, gateVars>>
RegistrationsRun == part = "registrations" /\ RegistrationNext
                    /\ UNCHANGED <<part, vars, importVars, archive, mailboxVars, gateVars>>
GateRuns == part = "gate" /\ GateNext
            /\ UNCHANGED <<part, vars, importVars, archive, mailboxVars, registrationVars>>

ServicesNext ==
    \/ TasksRun
    \/ ImportRuns
    \/ MailboxesRun
    \/ RegistrationsRun
    \/ GateRuns

ServicesSpec == ServicesInit /\ [][ServicesNext]_allVars

(* The rows of every part have their types, and each module's own          *)
(* conditions on them hold.                                                *)
ServicesTypeOK ==
    /\ ImportTypeOK
    /\ MailboxTypeOK
    /\ RegistrationTypeOK
    /\ GateTypeOK
    /\ DeadlineEndsLease
=============================================================================
