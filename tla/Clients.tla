------------------------------ MODULE Clients ------------------------------
(***************************************************************************)
(* The clients of the CRM and what hangs on them, written at once by the   *)
(* synchronisations of the ERP's partners (the global one and those of     *)
(* sellers, each under a lock of its own), by the routes that create,      *)
(* change and delete a client, and by the merge of duplicates a manager    *)
(* asks for.  A synchronisation reads the clients a partner may be, await  *)
(* by await, and only then opens the transaction that merges the others    *)
(* into one of them.                                                       *)
(***************************************************************************)
EXTENDS Integers, FiniteSets, SequencesExt

CONSTANTS
    Ids,          \* ids of clients
    Codes, Documents, Names,  \* codes of the ERP, CPF/CNPJ, and name, city and state as one
    Records,      \* opportunities, activities, contacts... of clients
    Syncs,        \* the scopes of syncPartners, one run of each at a time
    Posts,        \* POST /clients
    Puts,         \* PUT /clients/:id
    Merges,       \* POST /clients/diagnostics/merge-duplicates
    Deletes,      \* DELETE /clients/:id
    RowsOf,       \* RowsOf[s]: the partners the ERP gives synchronisation s, in order
    BodyOf,       \* BodyOf[u]: code, doc and name a POST or PUT carries
    TargetOf,     \* TargetOf[u]: the client of a PUT or DELETE
    PairOf,       \* PairOf[u]: the primary and the duplicate of a merge
    None,         \* no code, no document, no client
    MergedCode,   \* "<code>__MERGED__<time>"
    MaxFailures   \* failures of statements and deaths of the process

\* a row of the ERP has a code, or it is left out
Partner == [code : Codes, doc : Documents \cup {None}, name : Names]
Body == [code : Codes \cup {None}, doc : Documents \cup {None}, name : Names]

Requests == Posts \cup Puts \cup Merges \cup Deletes
Transactions == Syncs \cup Merges

ASSUME ClientsAssumption ==
    /\ IsFiniteSet(Ids) /\ None \notin Ids \cup Codes \cup Documents /\ MergedCode \notin Codes
    /\ Syncs \cap Requests = {} /\ Merges \cap (Posts \cup Puts \cup Deletes) = {}
    /\ RowsOf \in [Syncs -> Seq(Partner)] /\ \A s \in Syncs : RowsOf[s] # <<>>
    /\ BodyOf \in [Posts \cup Puts -> Body]
    /\ TargetOf \in [Puts \cup Deletes -> Ids]
    /\ PairOf \in [Merges -> [primary : Ids, duplicate : Ids]]
    /\ MaxFailures \in Nat

VARIABLES
    client,     \* client[c]: its row
    clientOf,   \* clientOf[x]: the client of record x, None if there is no such row
    audited,    \* the clients ClientCodeAudit has a row of
    at,         \* at[a]: the await a synchronisation or request is at
    row,        \* row[s]: the index of the partner in hand
    byCode, byDocument,  \* what the reads of s have found
    primary,    \* primary[a]: the candidate that stays
    left,       \* left[a]: the duplicates still to be merged, in order
    moved,      \* moved[a]: the records its open transaction has moved
    archived,   \* archived[a]: the duplicates its open transaction has archived
    oldCode,    \* oldCode[u]: the code a PUT has read
    failures

tables == <<client, clientOf, audited>>
reads == <<row, byCode, byDocument>>
transaction == <<primary, left, moved, archived>>
vars == <<tables, at, reads, transaction, oldCode, failures>>

-----------------------------------------------------------------------------
(* Clients.  A merged client carries the prefix that keeps it from the reads
   of a synchronisation; one archived by a manager does not. *)

Absent == [state |-> "absent", code |-> None, doc |-> None, name |-> None]

Present == {c \in Ids : client[c].state \notin {"absent", "deleted"}}
ActiveOnes == {c \in Ids : client[c].state = "active"}

\* cnpjNormalized is unique where there is one, and the identity where there is none
Clash(k, l) ==
    /\ {k.state, l.state} \cap {"absent", "deleted"} = {}
    /\ IF k.doc = None /\ l.doc = None
       THEN k.name = l.name /\ (k.state = "merged" <=> l.state = "merged")
       ELSE k.doc = l.doc
Unique(clients) == \A c, d \in Ids : c # d => ~Clash(clients[c], clients[d])

Candidate(c) == [id |-> c, was |-> client[c]]
IdsOf(candidates) == {k.id : k \in candidates}
Candidates(S) == {Candidate(c) : c \in S}
Visible == {c \in Present : client[c].state # "merged"}

Init ==
    /\ client = [c \in Ids |-> Absent] /\ clientOf = [x \in Records |-> None]
    /\ audited = {}
    /\ at = [a \in Syncs \cup Requests |-> "idle"] /\ row = [s \in Syncs |-> 1]
    /\ byCode = [s \in Syncs |-> {}] /\ byDocument = [s \in Syncs |-> {}]
    /\ primary = [a \in Transactions |-> None] /\ left = [a \in Transactions |-> <<>>]
    /\ moved = [a \in Transactions |-> {}] /\ archived = [a \in Transactions |-> {}]
    /\ oldCode = [u \in Puts |-> None] /\ failures = 0

Goto(a, from, to) == at[a] = from /\ at' = [at EXCEPT ![a] = to]

-----------------------------------------------------------------------------
(* Transactions.  A row is locked by the statement that writes it; what a
   transaction has done is seen when it commits. *)

ClientHeld(a, c) == \E b \in Transactions \ {a} : c \in IdsOf(archived[b])
RecordsHeld(a, c) == \E b \in Transactions \ {a} : \E x \in moved[b] : clientOf[x] = c

\* the next statement of a waits for another transaction
Blocked(a) ==
    CASE at[a] = "merging" /\ left[a] # <<>> -> RecordsHeld(a, Head(left[a]).id)
      [] at[a] = "archiving" -> ClientHeld(a, Head(left[a]).id)
      [] at[a] = "merging" /\ left[a] = <<>> -> a \in Syncs /\ ClientHeld(a, primary[a].id)
      [] OTHER -> FALSE

Open(a, stays, others) ==
    /\ primary' = [primary EXCEPT ![a] = stays] /\ left' = [left EXCEPT ![a] = others]
    /\ UNCHANGED <<moved, archived>>

\* Bug: the records moved stay so when the transaction is rolled back.
CloseKeepingMoves(a) ==
    /\ primary' = [primary EXCEPT ![a] = None] /\ left' = [left EXCEPT ![a] = <<>>]
    /\ archived' = [archived EXCEPT ![a] = {}] /\ UNCHANGED moved

Close(a) ==
    /\ primary' = [primary EXCEPT ![a] = None] /\ left' = [left EXCEPT ![a] = <<>>]
    /\ moved' = [moved EXCEPT ![a] = {}] /\ archived' = [archived EXCEPT ![a] = {}]

\* the updateMany of one duplicate, of all the tables
MoveRecords(a) ==
    /\ Goto(a, "merging", "archiving") /\ left[a] # <<>> /\ ~Blocked(a)
    /\ moved' = [moved EXCEPT ![a] = @ \cup {x \in Records : clientOf[x] = Head(left[a]).id}]
    /\ UNCHANGED <<tables, reads, primary, left, archived, oldCode, failures>>

ArchiveDuplicate(a) ==
    /\ Goto(a, "archiving", "merging") /\ ~Blocked(a) /\ Head(left[a]).id \in Present
    /\ archived' = [archived EXCEPT ![a] = @ \cup {Head(left[a])}]
    /\ left' = [left EXCEPT ![a] = Tail(@)]
    /\ UNCHANGED <<tables, reads, primary, moved, oldCode, failures>>

\* What the duplicate was is what the transaction's actor has read of it.
Archived(k, state) ==
    [state |-> state, code |-> IF k.was.code = None THEN None ELSE MergedCode,
     doc |-> None, name |-> k.was.name]

\* the rows of the clients when a commits, but for its primary
Merged(a) ==
    [c \in Ids |-> IF c \in IdsOf(archived[a])
                   THEN Archived(CHOOSE k \in archived[a] : k.id = c, IF a \in Syncs THEN "merged" ELSE "archived")
                   ELSE client[c]]

\* ClientCodeAudit tells of a change from what was read before, if it is one
Told(told, c, old, new) == IF old = new THEN told ELSE told \cup {c}
AuditOfMerge(a) == audited \cup {c \in IdsOf(archived[a]) : Merged(a)[c].code = MergedCode}

RecordsAfter(a) == [x \in Records |-> IF x \in moved[a] THEN primary[a].id ELSE clientOf[x]]

-----------------------------------------------------------------------------
(* A synchronisation of the partners *)

RowOf(s) == RowsOf[s][row[s]]

StartSync(s) ==
    /\ Goto(s, "idle", "code")
    /\ UNCHANGED <<tables, reads, transaction, oldCode, failures>>

\* the end of row[s], and of the run after the last one
NextRow(s) ==
    /\ at' = [at EXCEPT ![s] = IF row[s] = Len(RowsOf[s]) THEN "idle" ELSE "code"]
    /\ row' = [row EXCEPT ![s] = IF @ = Len(RowsOf[s]) THEN 1 ELSE @ + 1]
    /\ byCode' = [byCode EXCEPT ![s] = {}] /\ byDocument' = [byDocument EXCEPT ![s] = {}]

FindByCode(s) ==
    /\ Goto(s, "code", "document")
    /\ byCode' = [byCode EXCEPT ![s] = Candidates({c \in Visible : client[c].code = RowOf(s).code})]
    /\ UNCHANGED <<tables, row, byDocument, transaction, oldCode, failures>>

FindByDocument(s) ==
    /\ Goto(s, "document", "identity")
    /\ byDocument' = [byDocument EXCEPT ![s] =
          Candidates({c \in Visible : RowOf(s).doc # None /\ client[c].doc = RowOf(s).doc})]
    /\ UNCHANGED <<tables, row, byCode, transaction, oldCode, failures>>

OtherDocument(s, k) == k.was.doc \notin {None, RowOf(s).doc}

\* Bug: the document of the client found by the code is not looked at.
AmbiguousByDocument(s) ==
    byCode[s] # {} /\ \E k \in byDocument[s] :
        k.was.code \notin {None, RowOf(s).code} /\ k.id \notin IdsOf(byCode[s])

\* "same_erp_code_conflicting_document", "same_document_conflicting_erp_code"
Ambiguous(s) ==
    \/ RowOf(s).doc # None /\ \E k \in byCode[s] : OtherDocument(s, k)
    \/ byCode[s] # {} /\ \E k \in byDocument[s] :
          k.was.code \notin {None, RowOf(s).code} /\ k.id \notin IdsOf(byCode[s])

\* Bug: the identity is enough, whatever the code.
SafeIdentityAnyCode(s) ==
    IF byCode[s] \cup byDocument[s] # {} \/ RowOf(s).doc # None THEN {}
    ELSE Candidates({c \in Visible : client[c].name = RowOf(s).name /\ client[c].doc = None})

\* the candidates of a partner without a document that none of its keys has found
SafeIdentity(s) ==
    IF byCode[s] \cup byDocument[s] # {} \/ RowOf(s).doc # None THEN {}
    ELSE Candidates({c \in Visible : /\ client[c].name = RowOf(s).name /\ client[c].doc = None
                                   /\ client[c].code \in {None, RowOf(s).code}})

Matches(s) ==
    IF byCode[s] # {} THEN byCode[s] ELSE IF byDocument[s] # {} THEN byDocument[s] ELSE SafeIdentity(s)

\* an active one before an archived one; history, seller and dates leave it open
MayStay(k, candidates) == k.was.state = "active" \/ \A l \in candidates : l.was.state # "active"

FindByIdentity(s) ==
    /\ at[s] = "identity"
    /\ IF Ambiguous(s) \/ Cardinality(SafeIdentity(s)) > 1
       THEN NextRow(s) /\ UNCHANGED transaction
       ELSE /\ IF Matches(s) = {}
               THEN Goto(s, "identity", "creating") /\ UNCHANGED transaction
               ELSE \E k \in Matches(s) : \E others \in SetToSeqs(Matches(s) \ {k}) :
                       /\ MayStay(k, Matches(s))
                       /\ Goto(s, "identity", "merging") /\ Open(s, k, others)
            /\ UNCHANGED reads
    /\ UNCHANGED <<tables, oldCode, failures>>

\* the primary as the partner has it; a partner without a document leaves it its own
Updated(s, k) ==
    [state |-> "active", code |-> RowOf(s).code,
     doc |-> IF RowOf(s).doc = None THEN k.doc ELSE RowOf(s).doc, name |-> RowOf(s).name]

Rewritten(s) == [Merged(s) EXCEPT ![primary[s].id] = Updated(s, client[primary[s].id])]

UpdatePrimary(s) ==
    /\ at[s] = "merging" /\ left[s] = <<>> /\ ~Blocked(s)
    /\ primary[s].id \in Present /\ Unique(Rewritten(s))
    /\ client' = Rewritten(s)
    /\ clientOf' = RecordsAfter(s)
    /\ audited' = Told(AuditOfMerge(s), primary[s].id, primary[s].was.code, RowOf(s).code)
    /\ NextRow(s) /\ Close(s)
    /\ UNCHANGED <<oldCode, failures>>

\* an id given out by the database; Ids bounds how many there are
Fresh == CHOOSE c \in Ids : client[c] = Absent

New(body) == [state |-> "active", code |-> body.code, doc |-> body.doc, name |-> body.name]
Taken(body) == \E c \in Ids : Clash(client[c], New(body))

Insert(body) ==
    /\ ~Taken(body) /\ Absent \in Range(client)
    /\ client' = [client EXCEPT ![Fresh] = New(body)]
    /\ audited' = Told(audited, Fresh, None, body.code)
    /\ UNCHANGED clientOf

CreateClient(s) ==
    /\ at[s] = "creating"
    /\ Insert(RowOf(s))
    /\ NextRow(s)
    /\ UNCHANGED <<transaction, oldCode, failures>>

\* Bug: the lock of a run that failed is kept, so that no other begins.
EndRunLocked(s) ==
    /\ at' = [at EXCEPT ![s] = "done"] /\ row' = [row EXCEPT ![s] = 1]
    /\ byCode' = [byCode EXCEPT ![s] = {}] /\ byDocument' = [byDocument EXCEPT ![s] = {}]

\* The run ends with the row that failed: those behind it wait for the next run.
EndRun(s) ==
    /\ at' = [at EXCEPT ![s] = "idle"] /\ row' = [row EXCEPT ![s] = 1]
    /\ byCode' = [byCode EXCEPT ![s] = {}] /\ byDocument' = [byDocument EXCEPT ![s] = {}]

\* A statement of a violates a key, or its row is not there (P2002, P2025, P2003).
Impossible(a) ==
    CASE at[a] = "archiving" -> Head(left[a]).id \notin Present
      [] at[a] = "merging" /\ left[a] = <<>> ->
            \/ primary[a].id \notin Present /\ (a \in Syncs \/ moved[a] # {})
            \/ ~Unique(IF a \in Syncs THEN Rewritten(a) ELSE Merged(a))
      [] at[a] = "creating" -> Taken(RowOf(a))
      [] OTHER -> FALSE

\* A transaction that waits is given up, after 5 s or as part of a deadlock.
GivesUp(a) ==
    /\ Blocked(a) \/ Impossible(a)
    /\ Close(a)
    /\ IF a \in Syncs THEN EndRun(a) ELSE at' = [at EXCEPT ![a] = "done"] /\ UNCHANGED reads
    /\ UNCHANGED <<tables, oldCode, failures>>

-----------------------------------------------------------------------------
(* The routes *)

Own(u) == IF u \in Puts THEN {TargetOf[u]} ELSE {}
Rivals(u) == ActiveOnes \ Own(u)

BeginPost(u) ==
    /\ Goto(u, "idle", "code")
    /\ UNCHANGED <<tables, reads, transaction, oldCode, failures>>

BeginPut(u) ==
    /\ TargetOf[u] \in Present
    /\ Goto(u, "idle", "code")
    /\ oldCode' = [oldCode EXCEPT ![u] = client[TargetOf[u]].code]
    /\ UNCHANGED <<tables, reads, transaction, failures>>

\* findDuplicateClient: three reads of the active clients
CheckCode(u) ==
    /\ Goto(u, "code", IF BodyOf[u].code # None /\ \E c \in Rivals(u) : client[c].code = BodyOf[u].code
                       THEN "done" ELSE "document")
    /\ UNCHANGED <<tables, reads, transaction, oldCode, failures>>

CheckDocument(u) ==
    /\ Goto(u, "document", IF BodyOf[u].doc # None /\ \E c \in Rivals(u) : client[c].doc = BodyOf[u].doc
                           THEN "done" ELSE "identity")
    /\ UNCHANGED <<tables, reads, transaction, oldCode, failures>>

\* a seller does not see the clients of others
CheckIdentity(u) ==
    /\ \/ Goto(u, "identity", "writing")
       \/ (\E c \in Rivals(u) : client[c].name = BodyOf[u].name) /\ Goto(u, "identity", "done")
    /\ UNCHANGED <<tables, reads, transaction, oldCode, failures>>

Post(u) ==
    /\ Goto(u, "writing", "done")
    /\ Insert(BodyOf[u])
    /\ UNCHANGED <<reads, transaction, oldCode, failures>>

\* The state of the row is not the request's to change; the name loses the prefix.
Changed(u) ==
    [client EXCEPT ![TargetOf[u]] =
        [state |-> IF @.state = "merged" THEN "archived" ELSE @.state,
         code |-> BodyOf[u].code, doc |-> BodyOf[u].doc, name |-> BodyOf[u].name]]

Put(u) ==
    LET c == TargetOf[u] IN
    /\ Goto(u, "writing", "done")
    /\ c \in Present /\ Unique(Changed(u)) /\ ~ClientHeld(u, c)
    /\ client' = Changed(u)
    /\ audited' = Told(audited, c, oldCode[u], BodyOf[u].code)
    /\ UNCHANGED <<clientOf, reads, transaction, oldCode, failures>>

\* 409 of the keys, 404
Refused(u) ==
    /\ Goto(u, "writing", "done")
    /\ IF u \in Posts THEN Taken(BodyOf[u])
                      ELSE TargetOf[u] \notin Present \/ ~Unique(Changed(u))
    /\ UNCHANGED <<tables, reads, transaction, oldCode, failures>>

BeginMerge(u) ==
    /\ {PairOf[u].primary, PairOf[u].duplicate} \subseteq Present
    /\ Goto(u, "idle", "merging")
    /\ Open(u, Candidate(PairOf[u].primary), <<Candidate(PairOf[u].duplicate)>>)
    /\ UNCHANGED <<tables, reads, oldCode, failures>>

\* the primary is not written
CommitMerge(u) ==
    /\ Goto(u, "merging", "done") /\ left[u] = <<>> /\ ~Impossible(u)
    /\ client' = Merged(u) /\ clientOf' = RecordsAfter(u) /\ audited' = AuditOfMerge(u)
    /\ Close(u)
    /\ UNCHANGED <<reads, oldCode, failures>>

\* With all its records; it waits for the transactions that have its rows.  The
\* rows of its audit stay and refer to it: a client that has any is kept, whole.
DeleteClient(u) ==
    LET c == TargetOf[u] IN
    /\ Goto(u, "idle", "done")
    /\ c \in Present /\ ~ClientHeld(u, c) /\ ~RecordsHeld(u, c)
    /\ ~\E a \in Transactions : moved[a] # {} /\ primary[a].id = c
    /\ \/ /\ c \notin audited
          /\ client' = [client EXCEPT ![c] = [Absent EXCEPT !.state = "deleted"]]
          /\ clientOf' = [x \in Records |-> IF clientOf[x] = c THEN None ELSE clientOf[x]]
       \/ c \in audited /\ UNCHANGED <<client, clientOf>>
    /\ UNCHANGED <<audited, reads, transaction, oldCode, failures>>

\* another route writes a record of a client its user has before him
AddRecord(x) ==
    /\ clientOf[x] = None
    /\ \E c \in ActiveOnes : clientOf' = [clientOf EXCEPT ![x] = c]
    /\ UNCHANGED <<client, audited, at, reads, transaction, oldCode, failures>>

\* any other statement throws, or the process dies
Fails(a) ==
    /\ failures < MaxFailures /\ failures' = failures + 1
    /\ at[a] \notin {"idle", "done"}
    /\ IF a \in Transactions THEN Close(a) ELSE UNCHANGED transaction
    /\ IF a \in Syncs THEN EndRun(a) ELSE at' = [at EXCEPT ![a] = "done"] /\ UNCHANGED reads
    /\ UNCHANGED <<tables, oldCode>>

-----------------------------------------------------------------------------
SyncRow(s) ==
    \/ FindByCode(s) \/ FindByDocument(s) \/ FindByIdentity(s)
    \/ MoveRecords(s) \/ ArchiveDuplicate(s) \/ UpdatePrimary(s) \/ CreateClient(s) \/ GivesUp(s)

Save(u) == CheckCode(u) \/ CheckDocument(u) \/ CheckIdentity(u) \/ Refused(u)

MergeByHand(u) ==
    BeginMerge(u) \/ MoveRecords(u) \/ ArchiveDuplicate(u) \/ CommitMerge(u) \/ GivesUp(u)

Next ==
    \/ \E s \in Syncs : StartSync(s) \/ SyncRow(s)
    \/ \E u \in Posts : BeginPost(u) \/ Save(u) \/ Post(u)
    \/ \E u \in Puts : BeginPut(u) \/ Save(u) \/ Put(u)
    \/ \E u \in Merges : MergeByHand(u)
    \/ \E u \in Deletes : DeleteClient(u)
    \/ \E x \in Records : AddRecord(x)
    \/ \E a \in Syncs \cup Requests : Fails(a)

Spec == Init /\ [][Next]_vars

\* The scheduler repeats each synchronisation, whose statements end.
Fairness ==
    /\ \A s \in Syncs :
          /\ WF_vars(StartSync(s)) /\ WF_vars(SyncRow(s))
          /\ SF_vars(MoveRecords(s)) /\ SF_vars(ArchiveDuplicate(s)) /\ SF_vars(UpdatePrimary(s))
    /\ \A u \in Merges : WF_vars(MoveRecords(u) \/ ArchiveDuplicate(u) \/ CommitMerge(u) \/ GivesUp(u))

FairSpec == Spec /\ Fairness

-----------------------------------------------------------------------------
(* Properties *)

Client ==
    [state : {"absent", "active", "archived", "merged", "deleted"},
     code : Codes \cup {None, MergedCode}, doc : Documents \cup {None}, name : Names \cup {None}]
CandidateRow == [id : Ids, was : Client]
Transacting == {"merging", "archiving"}
Stages == {"idle", "code", "document", "identity", "creating", "writing", "done"} \cup Transacting

\* The variables have their types, and whoever is in no transaction of a merge
\* has no primary, nothing left to merge, no record moved and no row archived.
ClientsTypeOK ==
    /\ client \in [Ids -> Client] /\ clientOf \in [Records -> Ids \cup {None}]
    /\ audited \subseteq Ids
    /\ at \in [Syncs \cup Requests -> Stages]
    /\ row \in [Syncs -> Nat] /\ \A s \in Syncs : row[s] \in 1..Len(RowsOf[s])
    /\ byCode \in [Syncs -> SUBSET CandidateRow] /\ byDocument \in [Syncs -> SUBSET CandidateRow]
    /\ primary \in [Transactions -> CandidateRow \cup {None}]
    /\ left \in [Transactions -> Seq(CandidateRow)]
    /\ moved \in [Transactions -> SUBSET Records]
    /\ archived \in [Transactions -> SUBSET CandidateRow]
    /\ oldCode \in [Puts -> Codes \cup {None, MergedCode}]
    /\ failures \in 0..MaxFailures
    /\ \A a \in Transactions :
          IF at[a] \in Transacting
          THEN primary[a] \in CandidateRow /\ (at[a] = "archiving" => left[a] # <<>>)
          ELSE primary[a] = None /\ left[a] = <<>> /\ moved[a] = {} /\ archived[a] = {}

Serves(c, r) == client[c].state = "active" /\ client[c].code = r.code
Partners == UNION {{RowsOf[s][i] : i \in 1..Len(RowsOf[s])} : s \in Syncs}

\* A synchronisation that has read a document takes it from its client only by
\* merging that client into another, for a partner of this document or of none,
\* unless the document was put there since the read.
KeepsDocumentsRead ==
    [][\A s \in Syncs, c \in Ids :
          at'[s] # at[s] /\ client[c].doc # None /\ client'[c].doc # client[c].doc =>
              \E k \in archived[s] \cup {primary[s]} :
                  /\ k.id = c
                  /\ \/ k.was.doc # client[c].doc
                     \/ client'[c].state = "merged" /\ RowOf(s).doc \in {None, client[c].doc}]_vars

\* "O merge automatico, isoladamente, nao deixa uma identidade de parceiro sem
\* primario ativo": no step of a synchronisation takes from a partner its last
\* active client, unless that client was found by its document, which may
\* correct its code, or has been given its code since it was read.
NoPartnerLosesItsClient ==
    [][\A s \in Syncs, r \in Partners :
          at'[s] # at[s] /\ (\E c \in Ids : Serves(c, r)) =>
              \/ (\E c \in Ids : Serves(c, r))'
              \/ \E k \in archived[s] \cup {primary[s]} :
                    Serves(k.id, r) /\ (k \in byDocument[s] \ byCode[s] \/ k.was.code # r.code)]_vars

\* In the end each partner of a synchronisation has one active client, unless it
\* is left to a person, a client with its code having another document, or it is
\* never reached: a client of another code has the identity of a partner that
\* comes before it, or its own, and every run ends there.
LeftToPerson(r) ==
    r.doc # None /\ \E c \in Present : client[c].code = r.code /\ client[c].doc \notin {None, r.doc}
EndsRuns(r) ==
    r.doc = None /\ \E c \in Present : Clash(client[c], New(r)) /\ client[c].code \notin {None, r.code}
Settled(r) == Cardinality({c \in Ids : Serves(c, r)}) = 1
EachPartnerSettles ==
    <>[](\A s \in Syncs : \A i \in 1..Len(RowsOf[s]) :
            \/ Settled(RowsOf[s][i]) \/ LeftToPerson(RowsOf[s][i])
            \/ \E j \in 1..i : EndsRuns(RowsOf[s][j]))

-----------------------------------------------------------------------------
(* What the repository says of the program, and the program does not do. *)

\* "Historico e relacionamentos preservados no cadastro principal": no record
\* is left on a client that was merged into another.
HistoryOnPrimary == \A x \in Records : clientOf[x] # None => client[clientOf[x]].state # "merged"

\* "Codigo ERP exato [...] nao autoriza sobrescrever documento completo divergente":
\* a synchronisation leaves an active client the document it has, whenever it
\* was put there.
KeepsDocuments ==
    [][\A s \in Syncs, c \in Ids :
          at'[s] # at[s] /\ client[c].doc # None /\ client'[c].state = "active"
              => client'[c].doc = client[c].doc]_vars
=============================================================================
