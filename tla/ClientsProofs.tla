--------------------------- MODULE ClientsProofs ---------------------------
(***************************************************************************)
(* Proofs about Clients, for any clients, partners, synchronisations and   *)
(* requests: types; a synchronisation takes from no client the document it *)
(* has read of it, and from no partner the client that serves it.          *)
(***************************************************************************)
EXTENDS Clients, FiniteSetTheorems, SequenceTheorems, TLAPS

\* What the reads of a synchronisation have found is what they have looked for.
FoundInv ==
    \A s \in Syncs :
        /\ IsFiniteSet(byCode[s]) /\ IsFiniteSet(byDocument[s])
        /\ \A k \in byCode[s] : k.was.code = RowOf(s).code
        /\ \A k \in byDocument[s] : RowOf(s).doc # None /\ k.was.doc = RowOf(s).doc

\* Whom the open transaction of s writes is found by the document, or has the
\* code of the partner or none; and it has no other document than the partner.
DecidedAs(s) ==
    \A k \in archived[s] \cup Range(left[s]) \cup {primary[s]} :
        /\ RowOf(s).doc = None \/ k.was.doc \in {None, RowOf(s).doc}
        /\ k \in byDocument[s] \ byCode[s] \/ k.was.code \in {None, RowOf(s).code}
DecidedInv == \A s \in Syncs : at[s] \in Transacting => DecidedAs(s)

ClientsInv == ClientsTypeOK /\ FoundInv /\ DecidedInv

-----------------------------------------------------------------------------
\* What the assumption says of who acts.
LEMMA Actors ==
  /\ IsFiniteSet(Ids) /\ None \notin Ids /\ None \notin Codes /\ None \notin Documents /\ MergedCode \notin Codes
  /\ MaxFailures \in Nat
  /\ Requests = Posts \cup Puts \cup Merges \cup Deletes
  /\ Transactions = Syncs \cup Merges
  /\ \A s \in Syncs : s \notin Requests /\ s \in Transactions
  /\ \A u \in Merges : u \notin Posts \cup Puts \cup Deletes \cup Syncs
  /\ \A u \in Posts \cup Puts : BodyOf[u] \in Body
  /\ \A u \in Puts \cup Deletes : TargetOf[u] \in Ids
  /\ \A u \in Merges : PairOf[u].primary \in Ids /\ PairOf[u].duplicate \in Ids
  /\ \A s \in Syncs : RowsOf[s] \in Seq(Partner) /\ RowsOf[s] # <<>>
  BY ClientsAssumption, Zenon DEF Requests, Transactions

\* A body is the row of a client that is new.
LEMMA NewIsClient == \A b \in Body : New(b) \in Client /\ New(b).state = "active"
  BY DEF Body, New, Client

LEMMA PartnerIsBody == \A r \in Partner : r \in Body /\ r.code \in Codes
  BY DEF Partner, Body

\* The partner in hand is one of the ERP's.
LEMMA RowIsPartner ==
  ASSUME ClientsTypeOK, NEW s \in Syncs
  PROVE  RowOf(s) \in Partner
  <1>1. RowsOf[s] \in Seq(Partner) /\ row[s] \in 1..Len(RowsOf[s])
    BY Actors DEF ClientsTypeOK
  <1> QED BY <1>1 DEF RowOf

\* Candidates are clients as they were read, and finitely many.
LEMMA CandidatesAreRows ==
  ASSUME ClientsTypeOK
  PROVE  /\ \A c \in Ids : Candidate(c) \in CandidateRow
         /\ \A S \in SUBSET Ids : {Candidate(c) : c \in S} \in SUBSET CandidateRow /\ IsFiniteSet({Candidate(c) : c \in S})
  <1>1. \A c \in Ids : Candidate(c) \in CandidateRow
    BY DEF ClientsTypeOK, Candidate, CandidateRow
  <1>2. ASSUME NEW S \in SUBSET Ids
        PROVE  IsFiniteSet({Candidate(c) : c \in S})
    <2>1. IsFiniteSet(S)
      BY FS_Subset, Actors
    <2> DEFINE T == {Candidate(c) : c \in S}
               f == [c \in S |-> Candidate(c)]
    <2>2. f \in Surjection(S, T)
      BY DEF Surjection
    <2>3. IsFiniteSet(T)
      BY <2>1, <2>2, FS_Surjection
    <2> QED BY <2>3
  <1> QED BY <1>1, <1>2

\* What a transaction writes are clients.
LEMMA MergedIsClient ==
  ASSUME ClientsTypeOK, NEW a \in Transactions
  PROVE  /\ Merged(a) \in [Ids -> Client]
         /\ \A c \in Ids : \/ Merged(a)[c] = client[c] /\ c \notin IdsOf(archived[a])
                           \/ c \in IdsOf(archived[a]) /\ Merged(a)[c].state = IF a \in Syncs THEN "merged" ELSE "archived"
         /\ AuditOfMerge(a) \subseteq Ids
         /\ at[a] \in Transacting => RecordsAfter(a) \in [Records -> Ids \cup {None}]
  <1> DEFINE state == IF a \in Syncs THEN "merged" ELSE "archived"
             ofId(c) == CHOOSE k \in archived[a] : k.id = c
  <1>1. client \in [Ids -> Client] /\ archived[a] \in SUBSET CandidateRow
    BY DEF ClientsTypeOK
  <1>2. ASSUME NEW k \in CandidateRow
        PROVE  Archived(k, state) \in Client /\ Archived(k, state).state = state
    <2>1. k.was \in Client
      BY <1>2 DEF CandidateRow
    <2>2. k.was.name \in Names \cup {None}
      BY <2>1 DEF Client
    <2> QED BY <2>2 DEF Archived, Client
  <1>3. ASSUME NEW c \in Ids, c \in IdsOf(archived[a])
        PROVE  Archived(ofId(c), state) \in Client /\ Archived(ofId(c), state).state = state
    <2>1. \E k \in archived[a] : k.id = c
      BY <1>3 DEF IdsOf
    <2>2. ofId(c) \in archived[a]
      BY <2>1
    <2> QED BY <2>2, <1>1, <1>2
  <1>4. Merged(a) = [c \in Ids |-> IF c \in IdsOf(archived[a]) THEN Archived(ofId(c), state) ELSE client[c]]
    BY DEF Merged
  <1>5. Merged(a) \in [Ids -> Client]
    BY <1>1, <1>3, <1>4
  <1>6. \A c \in Ids : \/ Merged(a)[c] = client[c] /\ c \notin IdsOf(archived[a])
                       \/ c \in IdsOf(archived[a]) /\ Merged(a)[c].state = state
    BY <1>3, <1>4
  <1>7. AuditOfMerge(a) \subseteq Ids
    BY <1>1 DEF AuditOfMerge, IdsOf, CandidateRow, ClientsTypeOK
  <1>8. at[a] \in Transacting => RecordsAfter(a) \in [Records -> Ids \cup {None}]
    <2>1. at[a] \in Transacting => primary[a].id \in Ids
      BY DEF ClientsTypeOK, CandidateRow
    <2> QED BY <2>1 DEF RecordsAfter, ClientsTypeOK
  <1> QED BY <1>5, <1>6, <1>7, <1>8

\* What the decision leaves to merge is a sequence of the clients that matched.
LEMMA MatchesAreCandidates ==
  ASSUME ClientsTypeOK, FoundInv, NEW s \in Syncs
  PROVE  /\ Matches(s) \subseteq CandidateRow
         /\ \A k \in Matches(s) : \A others \in SetToSeqs(Matches(s) \ {k}) :
               others \in Seq(CandidateRow) /\ Range(others) \subseteq Matches(s)
  <1>1. Matches(s) \subseteq CandidateRow /\ IsFiniteSet(Matches(s))
    <2>1. byCode[s] \subseteq CandidateRow /\ byDocument[s] \subseteq CandidateRow
      BY DEF ClientsTypeOK
    <2>2. IsFiniteSet(byCode[s]) /\ IsFiniteSet(byDocument[s])
      BY DEF FoundInv
    <2>3. SafeIdentity(s) \subseteq CandidateRow /\ IsFiniteSet(SafeIdentity(s))
      <3>1. CASE byCode[s] \cup byDocument[s] # {} \/ RowOf(s).doc # None
        BY <3>1, FS_EmptySet DEF SafeIdentity
      <3>2. CASE ~(byCode[s] \cup byDocument[s] # {} \/ RowOf(s).doc # None)
        <4> DEFINE S == {c \in Visible : /\ client[c].name = RowOf(s).name /\ client[c].doc = None
                                  /\ client[c].code \in {None, RowOf(s).code}}
        <4>1. SafeIdentity(s) = {Candidate(c) : c \in S}
          BY <3>2 DEF SafeIdentity, Candidates
        <4>2. S \in SUBSET Ids
          BY DEF Visible, Present
        <4> QED BY <4>1, <4>2, CandidatesAreRows
      <3> QED BY <3>1, <3>2
    <2> QED BY <2>1, <2>2, <2>3 DEF Matches
  <1>2. ASSUME NEW k \in Matches(s), NEW others \in SetToSeqs(Matches(s) \ {k})
        PROVE  others \in Seq(CandidateRow) /\ Range(others) \subseteq Matches(s)
    <2> DEFINE M == Matches(s) \ {k}
    <2>1. IsFiniteSet(M)
      BY <1>1, FS_Subset
    <2>2. Cardinality(M) \in Nat
      BY <2>1, FS_CardinalityType
    <2>3. others \in [1..Cardinality(M) -> M]
      BY <1>2 DEF SetToSeqs
    <2>4. others \in [1..Cardinality(M) -> CandidateRow]
      BY <2>3, <1>1
    <2>5. others \in Seq(CandidateRow)
      BY <2>2, <2>4, SeqDef
    <2>6. Range(others) \subseteq M
      BY <2>3 DEF Range
    <2> QED BY <2>5, <2>6
  <1> QED BY <1>1, <1>2

-----------------------------------------------------------------------------
LEMMA InitInv == Init => ClientsInv
  <1> SUFFICES ASSUME Init PROVE ClientsInv OBVIOUS
  <1>1. ClientsTypeOK
    <2>1. client \in [Ids -> Client]
      BY DEF Init, Client, Absent
    <2>2. clientOf \in [Records -> Ids \cup {None}] /\ audited \subseteq Ids
      BY DEF Init
    <2>3. at \in [Syncs \cup Requests -> Stages]
      BY DEF Init, Stages
    <2>4. row \in [Syncs -> Nat] /\ \A s \in Syncs : row[s] \in 1..Len(RowsOf[s])
      <3>1. row = [s \in Syncs |-> 1]
        BY DEF Init
      <3>2. ASSUME NEW s \in Syncs PROVE Len(RowsOf[s]) \in Nat \ {0}
        BY Actors
      <3> QED BY <3>1, <3>2
    <2>5. /\ byCode \in [Syncs -> SUBSET CandidateRow] /\ byDocument \in [Syncs -> SUBSET CandidateRow]
          /\ oldCode \in [Puts -> Codes \cup {None, MergedCode}] /\ failures \in 0..MaxFailures
      BY Actors DEF Init
    <2>6. /\ primary \in [Transactions -> CandidateRow \cup {None}] /\ left \in [Transactions -> Seq(CandidateRow)]
          /\ moved \in [Transactions -> SUBSET Records] /\ archived \in [Transactions -> SUBSET CandidateRow]
      BY DEF Init
    <2>7. ASSUME NEW a \in Transactions
          PROVE  at[a] \notin Transacting /\ primary[a] = None /\ left[a] = <<>> /\ moved[a] = {} /\ archived[a] = {}
      BY Actors DEF Init, Transacting
    <2> QED BY <2>1, <2>2, <2>3, <2>4, <2>5, <2>6, <2>7 DEF ClientsTypeOK
  <1>2. FoundInv
    BY FS_EmptySet DEF Init, FoundInv
  <1>3. DecidedInv
    BY DEF Init, DecidedInv, Transacting
  <1> QED BY <1>1, <1>2, <1>3 DEF ClientsInv

-----------------------------------------------------------------------------
\* The parts of the type invariant, by who has the variables.
TablesOK ==
    /\ client \in [Ids -> Client] /\ clientOf \in [Records -> Ids \cup {None}]
    /\ audited \subseteq Ids
ReadsOK ==
    /\ row \in [Syncs -> Nat] /\ \A s \in Syncs : row[s] \in 1..Len(RowsOf[s])
    /\ byCode \in [Syncs -> SUBSET CandidateRow] /\ byDocument \in [Syncs -> SUBSET CandidateRow]
TransactionsOK ==
    /\ at \in [Syncs \cup Requests -> Stages]
    /\ primary \in [Transactions -> CandidateRow \cup {None}]
    /\ left \in [Transactions -> Seq(CandidateRow)]
    /\ moved \in [Transactions -> SUBSET Records]
    /\ archived \in [Transactions -> SUBSET CandidateRow]
    /\ \A a \in Transactions :
          IF at[a] \in Transacting
          THEN primary[a] \in CandidateRow /\ (at[a] = "archiving" => left[a] # <<>>)
          ELSE primary[a] = None /\ left[a] = <<>> /\ moved[a] = {} /\ archived[a] = {}
CountsOK == oldCode \in [Puts -> Codes \cup {None, MergedCode}] /\ failures \in 0..MaxFailures

LEMMA TypeParts ==
  /\ ClientsTypeOK => TablesOK /\ ReadsOK /\ TransactionsOK /\ CountsOK
  /\ TablesOK' /\ ReadsOK' /\ TransactionsOK' /\ CountsOK' => ClientsTypeOK'
  BY DEF ClientsTypeOK, TablesOK, ReadsOK, TransactionsOK, CountsOK

\* Who goes on outside a transaction leaves the transactions as they are.
LEMMA GoesOn ==
  ASSUME ClientsTypeOK, NEW a \in Syncs \cup Requests, NEW to \in Stages \ Transacting,
         at[a] \notin Transacting, at' = [at EXCEPT ![a] = to], UNCHANGED transaction
  PROVE  TransactionsOK'
  BY DEF TransactionsOK, ClientsTypeOK, transaction, Transacting

\* Who ends its transaction keeps nothing of it.
LEMMA Ends ==
  ASSUME ClientsTypeOK, NEW a \in Transactions, NEW to \in Stages \ Transacting,
         at' = [at EXCEPT ![a] = to], Close(a)
  PROVE  TransactionsOK'
  <1>1. a \in Syncs \cup Requests
    BY Actors
  <1> QED BY <1>1 DEF TransactionsOK, ClientsTypeOK, Close, Transacting

\* Who opens one has what it has decided.
LEMMA Opens ==
  ASSUME ClientsTypeOK, NEW a \in Transactions, at[a] \notin Transacting,
         NEW k \in CandidateRow, NEW others \in Seq(CandidateRow),
         at' = [at EXCEPT ![a] = "merging"], Open(a, k, others)
  PROVE  TransactionsOK'
  <1>1. a \in Syncs \cup Requests
    BY Actors
  <1> QED BY <1>1 DEF TransactionsOK, ClientsTypeOK, Open, Transacting, Stages

\* The reads of a synchronisation are forgotten with its row.
LEMMA Forgets ==
  ASSUME ClientsTypeOK, NEW s \in Syncs, NextRow(s) \/ EndRun(s)
  PROVE  /\ ReadsOK'
         /\ \E to \in {"idle", "code"} : at' = [at EXCEPT ![s] = to]
         /\ byCode' = [byCode EXCEPT ![s] = {}] /\ byDocument' = [byDocument EXCEPT ![s] = {}]
         /\ \A r \in Syncs \ {s} : row'[r] = row[r]
  <1>1. RowsOf[s] \in Seq(Partner) /\ RowsOf[s] # <<>> /\ row[s] \in 1..Len(RowsOf[s])
    BY Actors DEF ClientsTypeOK
  <1>2. row'[s] \in 1..Len(RowsOf[s])
    BY <1>1 DEF NextRow, EndRun, ClientsTypeOK
  <1>3. /\ byCode' = [byCode EXCEPT ![s] = {}] /\ byDocument' = [byDocument EXCEPT ![s] = {}]
        /\ row' = [row EXCEPT ![s] = row'[s]]
    BY DEF NextRow, EndRun, ClientsTypeOK
  <1>4. ReadsOK'
    <2>1. row'[s] \in Nat
      BY <1>1, <1>2
    <2>2. row' \in [Syncs -> Nat]
      BY <1>3, <2>1 DEF ClientsTypeOK
    <2>3. \A r \in Syncs : row'[r] \in 1..Len(RowsOf[r])
      BY <1>2, <1>3 DEF ClientsTypeOK
    <2> QED BY <1>3, <2>2, <2>3 DEF ReadsOK, ClientsTypeOK
  <1>5. \A r \in Syncs \ {s} : row'[r] = row[r]
    BY <1>3 DEF ClientsTypeOK
  <1>6. \E to \in {"idle", "code"} : at' = [at EXCEPT ![s] = to]
    BY DEF NextRow, EndRun
  <1> QED BY <1>3, <1>4, <1>5, <1>6

\* A client that is new has a type.
LEMMA Inserts ==
  ASSUME ClientsTypeOK, NEW b \in Body, Insert(b)
  PROVE  TablesOK'
  <1>1. Fresh \in Ids
    <2>1. \E c \in Ids : client[c] = Absent
      BY DEF Insert, Range, ClientsTypeOK
    <2> QED BY <2>1 DEF Fresh
  <1>2. New(b) \in Client
    BY NewIsClient
  <1>3. b.code \in Codes \cup {None}
    BY DEF Body
  <1> QED BY <1>1, <1>2, <1>3 DEF TablesOK, ClientsTypeOK, Insert, Told

\* The statements of a merge keep the types.
LEMMA MoveKeepsTypes ==
  ASSUME ClientsTypeOK, NEW a \in Transactions, MoveRecords(a)
  PROVE  ClientsTypeOK'
  <1>1. a \in Syncs \cup Requests
    BY Actors
  <1>2. TransactionsOK'
    <2>1. at' = [at EXCEPT ![a] = "archiving"] /\ at[a] = "merging"
      BY DEF MoveRecords, Goto
    <2>2. moved' \in [Transactions -> SUBSET Records]
      BY DEF MoveRecords, ClientsTypeOK
    <2>3. UNCHANGED <<primary, left, archived>> /\ \A b \in Transactions \ {a} : moved'[b] = moved[b]
      BY DEF MoveRecords, ClientsTypeOK
    <2>4. left[a] # <<>>
      BY DEF MoveRecords
    <2>5. at' \in [Syncs \cup Requests -> Stages] /\ \A b \in Transactions \ {a} : at'[b] = at[b]
      BY <1>1, <2>1, Actors DEF ClientsTypeOK, Transacting, Stages
    <2>6. at'[a] = "archiving" /\ primary[a] \in CandidateRow
      BY <1>1, <2>1 DEF ClientsTypeOK, Transacting
    <2>7. /\ primary \in [Transactions -> CandidateRow \cup {None}]
          /\ left \in [Transactions -> Seq(CandidateRow)] /\ archived \in [Transactions -> SUBSET CandidateRow]
      BY DEF ClientsTypeOK
    <2>8. ASSUME NEW b \in Transactions \ {a}
          PROVE  IF at[b] \in Transacting
                 THEN primary[b] \in CandidateRow /\ (at[b] = "archiving" => left[b] # <<>>)
                 ELSE primary[b] = None /\ left[b] = <<>> /\ moved[b] = {} /\ archived[b] = {}
      BY DEF ClientsTypeOK
    <2> QED BY <2>2, <2>3, <2>4, <2>5, <2>6, <2>7, <2>8 DEF TransactionsOK, Transacting
  <1> QED BY <1>2, TypeParts DEF MoveRecords, TablesOK, ReadsOK, CountsOK, tables, reads

LEMMA ArchiveKeepsTypes ==
  ASSUME ClientsTypeOK, NEW a \in Transactions, ArchiveDuplicate(a)
  PROVE  ClientsTypeOK'
  <1>1. a \in Syncs \cup Requests
    BY Actors
  <1>2. TransactionsOK'
    <2>1. at' = [at EXCEPT ![a] = "merging"] /\ at[a] = "archiving"
      BY DEF ArchiveDuplicate, Goto
    <2>2. Head(left[a]) \in CandidateRow /\ Tail(left[a]) \in Seq(CandidateRow)
      <3>1. left[a] \in Seq(CandidateRow) /\ left[a] # <<>>
        BY <2>1 DEF ClientsTypeOK, Transacting
      <3> QED BY <3>1
    <2>3. archived' \in [Transactions -> SUBSET CandidateRow] /\ left' \in [Transactions -> Seq(CandidateRow)]
      BY <2>2 DEF ArchiveDuplicate, ClientsTypeOK
    <2>4. /\ UNCHANGED <<primary, moved>>
          /\ \A b \in Transactions \ {a} : left'[b] = left[b] /\ archived'[b] = archived[b]
      BY DEF ArchiveDuplicate, ClientsTypeOK
    <2> QED BY <1>1, <2>1, <2>3, <2>4 DEF TransactionsOK, ClientsTypeOK, Transacting, Stages
  <1> QED BY <1>2, TypeParts DEF ArchiveDuplicate, TablesOK, ReadsOK, CountsOK, tables, reads

-----------------------------------------------------------------------------
\* A synchronisation keeps the types.
LEMMA SyncKeepsTypes ==
  ASSUME ClientsTypeOK, FoundInv, NEW s \in Syncs, StartSync(s) \/ SyncRow(s)
  PROVE  ClientsTypeOK'
  <1> USE TypeParts
  <1>1. s \in Transactions /\ s \in Syncs \cup Requests /\ s \notin Puts
    BY Actors
  <1>2. RowOf(s) \in Partner
    BY RowIsPartner
  <1>3. CASE StartSync(s)
    <2>1. TransactionsOK'
      BY <1>1, <1>3, GoesOn DEF StartSync, Goto, Stages, Transacting
    <2> QED BY <1>3, <2>1 DEF StartSync, TablesOK, ReadsOK, CountsOK, tables, reads
  <1>4. CASE FindByCode(s)
    <2>1. TransactionsOK'
      BY <1>1, <1>4, GoesOn DEF FindByCode, Goto, Stages, Transacting
    <2>2. ReadsOK'
      <3>1. byCode'[s] \in SUBSET CandidateRow
        BY <1>4, CandidatesAreRows DEF FindByCode, Candidates, Visible, Present, ClientsTypeOK
      <3> QED BY <3>1, <1>4 DEF FindByCode, ReadsOK, ClientsTypeOK
    <2> QED BY <1>4, <2>1, <2>2 DEF FindByCode, TablesOK, CountsOK, tables
  <1>5. CASE FindByDocument(s)
    <2>1. TransactionsOK'
      BY <1>1, <1>5, GoesOn DEF FindByDocument, Goto, Stages, Transacting
    <2>2. ReadsOK'
      <3>1. byDocument'[s] \in SUBSET CandidateRow
        BY <1>5, CandidatesAreRows DEF FindByDocument, Candidates, Visible, Present, ClientsTypeOK
      <3> QED BY <3>1, <1>5 DEF FindByDocument, ReadsOK, ClientsTypeOK
    <2> QED BY <1>5, <2>1, <2>2 DEF FindByDocument, TablesOK, CountsOK, tables
  <1>6. CASE FindByIdentity(s)
    <2>1. at[s] = "identity" /\ UNCHANGED <<tables, oldCode, failures>>
      BY <1>6 DEF FindByIdentity
    <2>2. ReadsOK' /\ TransactionsOK'
      <3>1. CASE NextRow(s) /\ UNCHANGED transaction
        BY <3>1, <2>1, <1>1, Forgets, GoesOn DEF Stages, Transacting
      <3>2. CASE Goto(s, "identity", "creating") /\ UNCHANGED transaction /\ UNCHANGED reads
        <4>1. TransactionsOK'
          BY <3>2, <1>1, GoesOn DEF Goto, Stages, Transacting
        <4> QED BY <4>1, <3>2 DEF ReadsOK, reads
      <3>3. CASE \E k \in Matches(s) : \E others \in SetToSeqs(Matches(s) \ {k}) :
                    /\ MayStay(k, Matches(s))
                    /\ Goto(s, "identity", "merging") /\ Open(s, k, others) /\ UNCHANGED reads
        <4>1. PICK k \in Matches(s) : \E others \in SetToSeqs(Matches(s) \ {k}) :
                    Goto(s, "identity", "merging") /\ Open(s, k, others) /\ UNCHANGED reads
          BY <3>3
        <4>2. PICK others \in SetToSeqs(Matches(s) \ {k}) :
                    Goto(s, "identity", "merging") /\ Open(s, k, others) /\ UNCHANGED reads
          BY <4>1
        <4>3. k \in CandidateRow /\ others \in Seq(CandidateRow)
          BY MatchesAreCandidates
        <4>4. TransactionsOK'
          BY <4>2, <4>3, <1>1, Opens DEF Goto, Transacting
        <4> QED BY <4>4, <4>2 DEF ReadsOK, reads
      <3> QED BY <1>6, <3>1, <3>2, <3>3 DEF FindByIdentity
    <2> QED BY <2>1, <2>2 DEF TablesOK, CountsOK, tables
  <1>7. CASE MoveRecords(s)
    BY <1>1, <1>7, MoveKeepsTypes
  <1>8. CASE ArchiveDuplicate(s)
    BY <1>1, <1>8, ArchiveKeepsTypes
  <1>9. CASE UpdatePrimary(s)
    <2>1. primary[s] \in CandidateRow
      BY <1>9, <1>1 DEF UpdatePrimary, Transacting, ClientsTypeOK
    <2>2. TablesOK'
      <3>1. Updated(s, client[primary[s].id]) \in Client
        BY <2>1, <1>2 DEF Updated, CandidateRow, Client, Partner, ClientsTypeOK
      <3>2. client' \in [Ids -> Client]
        BY <1>1, <1>9, <3>1, MergedIsClient DEF UpdatePrimary, Rewritten
      <3>3. clientOf' \in [Records -> Ids \cup {None}]
        BY <1>1, <1>9, MergedIsClient DEF UpdatePrimary, Transacting
      <3>4. audited' \subseteq Ids
        BY <2>1, <1>1, <1>9, MergedIsClient DEF UpdatePrimary, Told, CandidateRow
      <3> QED BY <3>2, <3>3, <3>4 DEF TablesOK
    <2>3. ReadsOK' /\ TransactionsOK'
      BY <1>1, <1>9, Forgets, Ends DEF UpdatePrimary, Stages, Transacting
    <2> QED BY <1>9, <2>2, <2>3 DEF UpdatePrimary, CountsOK
  <1>10. CASE CreateClient(s)
    <2>1. TablesOK'
      BY <1>2, <1>10, Inserts, PartnerIsBody DEF CreateClient
    <2>2. ReadsOK' /\ TransactionsOK'
      BY <1>1, <1>10, Forgets, GoesOn DEF CreateClient, Stages, Transacting
    <2> QED BY <1>10, <2>1, <2>2 DEF CreateClient, CountsOK
  <1>11. CASE GivesUp(s)
    <2>1. ReadsOK' /\ TransactionsOK'
      BY <1>1, <1>11, Forgets, Ends DEF GivesUp, Stages, Transacting
    <2> QED BY <1>11, <2>1 DEF GivesUp, TablesOK, CountsOK, tables
  <1> QED BY <1>3, <1>4, <1>5, <1>6, <1>7, <1>8, <1>9, <1>10, <1>11 DEF SyncRow

\* A request keeps the types.
LEMMA RequestKeepsTypes ==
  ASSUME ClientsTypeOK,
         \/ \E u \in Posts : BeginPost(u) \/ Save(u) \/ Post(u)
         \/ \E u \in Puts : BeginPut(u) \/ Save(u) \/ Put(u)
         \/ \E u \in Merges : MergeByHand(u)
         \/ \E u \in Deletes : DeleteClient(u)
  PROVE  ClientsTypeOK'
  <1> USE TypeParts
  <1>1. ASSUME NEW u \in Posts \cup Puts, BeginPost(u) \/ (BeginPut(u) /\ u \in Puts) \/ Save(u)
        PROVE  ClientsTypeOK'
    <2>1. u \in Syncs \cup Requests
      BY Actors
    <2>2. \E to \in Stages \ Transacting : at[u] \notin Transacting /\ at' = [at EXCEPT ![u] = to]
      BY <1>1 DEF BeginPost, BeginPut, Save, CheckCode, CheckDocument, CheckIdentity, Refused, Goto, Stages, Transacting
    <2>3. UNCHANGED <<tables, reads, transaction, failures>>
      BY <1>1 DEF BeginPost, BeginPut, Save, CheckCode, CheckDocument, CheckIdentity, Refused
    <2>4. TransactionsOK'
      BY <2>1, <2>2, <2>3, GoesOn
    <2>5. oldCode' \in [Puts -> Codes \cup {None, MergedCode}]
      <3>1. CASE UNCHANGED oldCode
        BY <3>1 DEF ClientsTypeOK
      <3>2. CASE BeginPut(u) /\ u \in Puts
        <4>1. client[TargetOf[u]].code \in Codes \cup {None, MergedCode}
          BY <3>2, Actors DEF ClientsTypeOK, Client
        <4> QED BY <3>2, <4>1 DEF BeginPut, ClientsTypeOK
      <3> QED BY <1>1, <3>1, <3>2 DEF BeginPost, Save, CheckCode, CheckDocument, CheckIdentity, Refused
    <2> QED BY <2>3, <2>4, <2>5 DEF TablesOK, ReadsOK, CountsOK, tables, reads
  <1>2. ASSUME NEW u \in Posts, Post(u)
        PROVE  ClientsTypeOK'
    <2>1. u \in Syncs \cup Requests /\ BodyOf[u] \in Body
      BY Actors
    <2>2. TransactionsOK'
      BY <1>2, <2>1, GoesOn DEF Post, Goto, Stages, Transacting
    <2>3. TablesOK'
      BY <1>2, <2>1, Inserts DEF Post
    <2> QED BY <1>2, <2>2, <2>3 DEF Post, ReadsOK, CountsOK, reads
  <1>3. ASSUME NEW u \in Puts, Put(u)
        PROVE  ClientsTypeOK'
    <2>1. u \in Syncs \cup Requests /\ BodyOf[u] \in Body /\ TargetOf[u] \in Ids
      BY Actors
    <2>2. TransactionsOK'
      BY <1>3, <2>1, GoesOn DEF Put, Goto, Stages, Transacting
    <2>3. client' \in [Ids -> Client]
      BY <1>3, <2>1 DEF Put, Changed, Client, Body, ClientsTypeOK
    <2>4. audited' \subseteq Ids
      BY <1>3, <2>1 DEF Put, Told, ClientsTypeOK
    <2> QED BY <1>3, <2>2, <2>3, <2>4 DEF Put, TablesOK, ReadsOK, CountsOK, reads
  <1>4. ASSUME NEW u \in Merges, MergeByHand(u)
        PROVE  ClientsTypeOK'
    <2>1. u \in Syncs \cup Requests /\ u \in Transactions /\ u \notin Syncs
      BY Actors
    <2>2. CASE BeginMerge(u)
      <3>1. PairOf[u].primary \in Ids /\ PairOf[u].duplicate \in Ids
        BY Actors
      <3>2. Candidate(PairOf[u].primary) \in CandidateRow /\ Candidate(PairOf[u].duplicate) \in CandidateRow
        BY <3>1, CandidatesAreRows
      <3>3. <<Candidate(PairOf[u].duplicate)>> \in Seq(CandidateRow)
        BY <3>2
      <3>4. TransactionsOK'
        BY <2>1, <2>2, <3>2, <3>3, Opens DEF BeginMerge, Goto, Transacting
      <3> QED BY <2>2, <3>4 DEF BeginMerge, TablesOK, ReadsOK, CountsOK, tables, reads
    <2>3. CASE MoveRecords(u)
      BY <2>1, <2>3, MoveKeepsTypes
    <2>4. CASE ArchiveDuplicate(u)
      BY <2>1, <2>4, ArchiveKeepsTypes
    <2>5. CASE CommitMerge(u)
      <3>1. TransactionsOK'
        BY <2>1, <2>5, Ends DEF CommitMerge, Goto, Stages, Transacting
      <3>2. TablesOK'
        BY <2>1, <2>5, MergedIsClient DEF CommitMerge, Goto, Transacting, TablesOK
      <3> QED BY <2>5, <3>1, <3>2 DEF CommitMerge, ReadsOK, CountsOK, reads
    <2>6. CASE GivesUp(u)
      <3>1. TransactionsOK'
        BY <2>1, <2>6, Ends DEF GivesUp, Stages, Transacting
      <3> QED BY <2>1, <2>6, <3>1 DEF GivesUp, TablesOK, ReadsOK, CountsOK, tables, reads
    <2> QED BY <1>4, <2>2, <2>3, <2>4, <2>5, <2>6 DEF MergeByHand
  <1>5. ASSUME NEW u \in Deletes, DeleteClient(u)
        PROVE  ClientsTypeOK'
    <2>1. u \in Syncs \cup Requests /\ TargetOf[u] \in Ids
      BY Actors
    <2>2. TransactionsOK'
      BY <1>5, <2>1, GoesOn DEF DeleteClient, Goto, Stages, Transacting
    <2>3. [Absent EXCEPT !.state = "deleted"] \in Client
      BY DEF Absent, Client
    <2>4. client' \in [Ids -> Client] /\ clientOf' \in [Records -> Ids \cup {None}]
      <3>1. \/ /\ client' = [client EXCEPT ![TargetOf[u]] = [Absent EXCEPT !.state = "deleted"]]
               /\ clientOf' = [x \in Records |-> IF clientOf[x] = TargetOf[u] THEN None ELSE clientOf[x]]
            \/ UNCHANGED <<client, clientOf>>
        BY <1>5 DEF DeleteClient
      <3> QED BY <2>1, <2>3, <3>1 DEF ClientsTypeOK
    <2>5. UNCHANGED <<audited, reads, oldCode, failures>>
      BY <1>5 DEF DeleteClient
    <2>6. TablesOK'
      BY <2>4, <2>5 DEF TablesOK
    <2>7. ReadsOK' /\ CountsOK'
      BY <2>5 DEF ReadsOK, CountsOK, reads
    <2> QED BY <2>2, <2>6, <2>7
  <1>6. CASE \E u \in Posts : BeginPost(u) \/ Save(u) \/ Post(u)
    <2>1. PICK u \in Posts : BeginPost(u) \/ Save(u) \/ Post(u)
      BY <1>6
    <2>2. CASE BeginPost(u) \/ Save(u)
      BY <1>1, <2>2
    <2>3. CASE Post(u)
      BY <1>2, <2>3
    <2> QED BY <2>1, <2>2, <2>3
  <1>7. CASE \E u \in Puts : BeginPut(u) \/ Save(u) \/ Put(u)
    <2>1. PICK u \in Puts : BeginPut(u) \/ Save(u) \/ Put(u)
      BY <1>7
    <2>2. CASE BeginPut(u) \/ Save(u)
      BY <1>1, <2>2
    <2>3. CASE Put(u)
      BY <1>3, <2>3
    <2> QED BY <2>1, <2>2, <2>3
  <1> QED BY <1>4, <1>5, <1>6, <1>7

\* So does any step.
LEMMA StepKeepsTypes ==
  ASSUME ClientsTypeOK, FoundInv, [Next]_vars
  PROVE  ClientsTypeOK'
  <1>1. CASE \E s \in Syncs : StartSync(s) \/ SyncRow(s)
    BY <1>1, SyncKeepsTypes
  <1>2. CASE \/ \E u \in Posts : BeginPost(u) \/ Save(u) \/ Post(u)
             \/ \E u \in Puts : BeginPut(u) \/ Save(u) \/ Put(u)
             \/ \E u \in Merges : MergeByHand(u)
             \/ \E u \in Deletes : DeleteClient(u)
    BY <1>2, RequestKeepsTypes
  <1>3. CASE \E x \in Records : AddRecord(x)
    <2>1. clientOf' \in [Records -> Ids \cup {None}]
      BY <1>3 DEF AddRecord, ActiveOnes, ClientsTypeOK
    <2> QED BY <1>3, <2>1 DEF AddRecord, ClientsTypeOK, reads, transaction
  <1>4. ASSUME NEW a \in Syncs \cup Requests, Fails(a)
        PROVE  ClientsTypeOK'
    <2>1. TransactionsOK'
      <3>1. \E to \in Stages \ Transacting : at' = [at EXCEPT ![a] = to]
        <4>1. CASE a \in Syncs
          BY <1>4, <4>1, Forgets DEF Fails, Stages, Transacting
        <4>2. CASE a \notin Syncs
          BY <1>4, <4>2 DEF Fails, Stages, Transacting
        <4> QED BY <4>1, <4>2
      <3>2. CASE a \in Transactions
        BY <1>4, <3>1, <3>2, Ends DEF Fails
      <3>3. CASE a \notin Transactions
        <4>1. at[a] \notin Transacting \/ at[a] \in Transacting
          OBVIOUS
        <4>2. UNCHANGED transaction
          BY <1>4, <3>3 DEF Fails
        <4> QED BY <3>1, <3>3, <4>2 DEF TransactionsOK, ClientsTypeOK, transaction
      <3> QED BY <3>2, <3>3
    <2>2. ReadsOK'
      BY <1>4, Forgets DEF Fails, ReadsOK, ClientsTypeOK, reads
    <2>3. TablesOK'
      BY <1>4 DEF Fails, TablesOK, ClientsTypeOK, tables
    <2>4. CountsOK'
      <3>1. failures \in Nat /\ MaxFailures \in Nat /\ failures < MaxFailures /\ failures' = failures + 1
        BY <1>4, Actors DEF Fails, ClientsTypeOK
      <3> QED BY <1>4, <3>1 DEF Fails, CountsOK, ClientsTypeOK
    <2> QED BY <2>1, <2>2, <2>3, <2>4, TypeParts
  <1>5. CASE UNCHANGED vars
    BY <1>5 DEF vars, tables, reads, transaction, ClientsTypeOK
  <1> QED BY <1>1, <1>2, <1>3, <1>4, <1>5 DEF Next

-----------------------------------------------------------------------------
\* A synchronisation is in the hands of its own steps alone.
Acts(s) == StartSync(s) \/ SyncRow(s) \/ Fails(s)
Quiet(s) ==
    /\ at'[s] = at[s] /\ row'[s] = row[s] /\ byCode'[s] = byCode[s] /\ byDocument'[s] = byDocument[s]
    /\ primary'[s] = primary[s] /\ left'[s] = left[s] /\ archived'[s] = archived[s]

LEMMA OthersAreQuiet ==
  ASSUME ClientsTypeOK, [Next]_vars, NEW s \in Syncs
  PROVE  Acts(s) \/ Quiet(s)
  <1> USE Actors
  <1>1. ASSUME NEW r \in Syncs \ {s}, StartSync(r) \/ SyncRow(r)
        PROVE  Quiet(s)
    <2>1. CASE StartSync(r) \/ FindByCode(r) \/ FindByDocument(r) \/ MoveRecords(r) \/ ArchiveDuplicate(r)
      BY <1>1, <2>1 DEF StartSync, FindByCode, FindByDocument, MoveRecords, ArchiveDuplicate, Goto, Quiet,
                        ClientsTypeOK, reads, transaction
    <2>2. CASE FindByIdentity(r)
      <3>1. CASE NextRow(r) /\ UNCHANGED transaction
        BY <3>1 DEF NextRow, Quiet, ClientsTypeOK, transaction
      <3>2. CASE Goto(r, "identity", "creating") /\ UNCHANGED transaction /\ UNCHANGED reads
        BY <3>2 DEF Goto, Quiet, ClientsTypeOK, reads, transaction
      <3>3. ASSUME NEW k, NEW others, Goto(r, "identity", "merging"), Open(r, k, others), UNCHANGED reads
            PROVE  Quiet(s)
        BY <3>3 DEF Goto, Open, Quiet, ClientsTypeOK, reads
      <3> QED BY <2>2, <3>1, <3>2, <3>3 DEF FindByIdentity
    <2>3. CASE UpdatePrimary(r) \/ CreateClient(r)
      BY <1>1, <2>3 DEF UpdatePrimary, CreateClient, NextRow, Close, Quiet, ClientsTypeOK, transaction
    <2>4. CASE GivesUp(r)
      BY <1>1, <2>4 DEF GivesUp, EndRun, Close, Quiet, ClientsTypeOK
    <2> QED BY <1>1, <2>1, <2>2, <2>3, <2>4 DEF SyncRow
  <1>2. ASSUME NEW u \in Requests,
               \/ BeginPost(u) \/ BeginPut(u) \/ Save(u) \/ Post(u) \/ Put(u) \/ DeleteClient(u)
        PROVE  Quiet(s)
    BY <1>2 DEF BeginPost, BeginPut, Save, CheckCode, CheckDocument, CheckIdentity, Refused, Post, Put,
                DeleteClient, Goto, Quiet, ClientsTypeOK, reads, transaction
  <1>3. ASSUME NEW u \in Merges, MergeByHand(u)
        PROVE  Quiet(s)
    <2>1. u \notin Syncs /\ u \in Requests
      OBVIOUS
    <2>2. CASE BeginMerge(u) \/ MoveRecords(u) \/ ArchiveDuplicate(u)
      BY <2>1, <2>2 DEF BeginMerge, MoveRecords, ArchiveDuplicate, Goto, Open, Quiet, ClientsTypeOK, reads
    <2>3. CASE CommitMerge(u) \/ GivesUp(u)
      BY <2>1, <2>3 DEF CommitMerge, GivesUp, Goto, Close, Quiet, ClientsTypeOK, reads
    <2> QED BY <1>3, <2>2, <2>3 DEF MergeByHand
  <1>4. ASSUME NEW x \in Records, AddRecord(x)
        PROVE  Quiet(s)
    BY <1>4 DEF AddRecord, Quiet, reads, transaction
  <1>5. ASSUME NEW a \in (Syncs \cup Requests) \ {s}, Fails(a)
        PROVE  Quiet(s)
    BY <1>5 DEF Fails, EndRun, Close, Quiet, ClientsTypeOK, reads, transaction
  <1>6. CASE UNCHANGED vars
    BY <1>6 DEF vars, reads, transaction, Quiet
  <1> QED BY <1>1, <1>2, <1>3, <1>4, <1>5, <1>6 DEF Next, Acts

\* The row in hand does not change unless the synchronisation acts.
LEMMA SameRow ==
  ASSUME NEW s \in Syncs, row'[s] = row[s]
  PROVE  RowOf(s)' = RowOf(s)
  BY DEF RowOf

\* The stages of an act of a synchronisation.
LEMMA ActsMove ==
  ASSUME ClientsTypeOK, NEW s \in Syncs, Acts(s)
  PROVE  at'[s] # at[s] /\ (at'[s] \in Transacting => FindByIdentity(s) \/ MoveRecords(s) \/ ArchiveDuplicate(s))
  <1>2. CASE StartSync(s) \/ FindByCode(s) \/ FindByDocument(s) \/ MoveRecords(s) \/ ArchiveDuplicate(s)
    BY <1>2 DEF StartSync, FindByCode, FindByDocument, MoveRecords, ArchiveDuplicate, Goto, Transacting, ClientsTypeOK
  <1>3. CASE UpdatePrimary(s) \/ CreateClient(s)
    BY <1>3 DEF UpdatePrimary, CreateClient, NextRow, Transacting, ClientsTypeOK
  <1>4. CASE FindByIdentity(s)
    BY <1>4 DEF FindByIdentity, NextRow, Goto, ClientsTypeOK
  <1>5. CASE GivesUp(s) \/ Fails(s)
    BY <1>5 DEF GivesUp, Fails, EndRun, Blocked, Impossible, Transacting, ClientsTypeOK
  <1> QED BY <1>2, <1>3, <1>4, <1>5 DEF Acts, SyncRow

\* What is found stays what was looked for.
LEMMA StepKeepsFound ==
  ASSUME ClientsTypeOK, FoundInv, [Next]_vars
  PROVE  FoundInv'
  <1> SUFFICES ASSUME NEW s \in Syncs
               PROVE  /\ IsFiniteSet(byCode'[s]) /\ IsFiniteSet(byDocument'[s])
                      /\ \A k \in byCode'[s] : k.was.code = RowOf(s)'.code
                      /\ \A k \in byDocument'[s] : RowOf(s)'.doc # None /\ k.was.doc = RowOf(s)'.doc
    BY DEF FoundInv
  <1> DEFINE Kept == byCode'[s] = byCode[s] /\ byDocument'[s] = byDocument[s] /\ row'[s] = row[s]
             Forgotten == byCode'[s] = {} /\ byDocument'[s] = {}
  <1>1. CASE Kept
    BY <1>1, SameRow DEF FoundInv
  <1>2. CASE Forgotten
    BY <1>2, FS_EmptySet
  <1>3. CASE FindByCode(s)
    <2> DEFINE S == {c \in Visible : client[c].code = RowOf(s).code}
    <2>1. byCode'[s] = {Candidate(c) : c \in S} /\ byDocument'[s] = byDocument[s] /\ row'[s] = row[s]
      BY <1>3 DEF FindByCode, Candidates, ClientsTypeOK
    <2>2. S \in SUBSET Ids
      BY DEF Visible, Present
    <2>3. \A k \in byCode'[s] : k.was.code = RowOf(s).code
      BY <2>1 DEF Candidate
    <2> HIDE DEF S
    <2> QED BY <2>1, <2>2, <2>3, CandidatesAreRows, SameRow DEF FoundInv
  <1>4. CASE FindByDocument(s)
    <2> DEFINE S == {c \in Visible : RowOf(s).doc # None /\ client[c].doc = RowOf(s).doc}
    <2>1. byDocument'[s] = {Candidate(c) : c \in S} /\ byCode'[s] = byCode[s] /\ row'[s] = row[s]
      BY <1>4 DEF FindByDocument, Candidates, ClientsTypeOK
    <2>2. S \in SUBSET Ids
      BY DEF Visible, Present
    <2>3. \A k \in byDocument'[s] : RowOf(s).doc # None /\ k.was.doc = RowOf(s).doc
      BY <2>1 DEF Candidate
    <2> HIDE DEF S
    <2> QED BY <2>1, <2>2, <2>3, CandidatesAreRows, SameRow DEF FoundInv
  <1>5. CASE Acts(s) /\ ~FindByCode(s) /\ ~FindByDocument(s)
    <2>1. CASE StartSync(s) \/ MoveRecords(s) \/ ArchiveDuplicate(s)
      BY <2>1, <1>1 DEF StartSync, MoveRecords, ArchiveDuplicate, reads
    <2>2. CASE FindByIdentity(s) \/ UpdatePrimary(s) \/ CreateClient(s) \/ GivesUp(s) \/ Fails(s)
      <3>1. UNCHANGED reads \/ NextRow(s) \/ EndRun(s)
        BY <2>2 DEF FindByIdentity, UpdatePrimary, CreateClient, GivesUp, Fails
      <3>2. UNCHANGED reads => Kept
        BY DEF reads
      <3>3. NextRow(s) \/ EndRun(s) => Forgotten
        BY DEF NextRow, EndRun, ClientsTypeOK
      <3> QED BY <3>1, <3>2, <3>3, <1>1, <1>2
    <2> QED BY <1>5, <2>1, <2>2 DEF Acts, SyncRow
  <1>6. CASE Quiet(s)
    BY <1>6, <1>1 DEF Quiet
  <1> QED BY <1>3, <1>4, <1>5, <1>6, OthersAreQuiet

\* The decision meets what is asked of it.
LEMMA DecidesWell ==
  ASSUME ClientsTypeOK, FoundInv, NEW s \in Syncs, ~Ambiguous(s), NEW k \in Matches(s)
  PROVE  /\ RowOf(s).doc = None \/ k.was.doc \in {None, RowOf(s).doc}
         /\ k \in byDocument[s] \ byCode[s] \/ k.was.code \in {None, RowOf(s).code}
  <1>1. CASE byCode[s] # {}
    BY <1>1 DEF Matches, Ambiguous, OtherDocument, FoundInv
  <1>2. CASE byCode[s] = {} /\ byDocument[s] # {}
    BY <1>2 DEF Matches, FoundInv
  <1>3. CASE byCode[s] = {} /\ byDocument[s] = {}
    BY <1>3 DEF Matches, SafeIdentity, Candidates, Candidate
  <1> QED BY <1>1, <1>2, <1>3

\* What a transaction was opened with is what it goes on with.
LEMMA StepKeepsDecided ==
  ASSUME ClientsInv, [Next]_vars
  PROVE  DecidedInv'
  <1> USE DEF ClientsInv
  <1> SUFFICES ASSUME NEW s \in Syncs, at'[s] \in Transacting
               PROVE  DecidedAs(s)'
    BY DEF DecidedInv
  <1>1. s \in Transactions
    BY Actors
  <1>2. CASE Quiet(s)
    BY <1>2, SameRow DEF Quiet, DecidedInv, DecidedAs
  <1>3. CASE FindByIdentity(s)
    <2>1. PICK k \in Matches(s) : \E others \in SetToSeqs(Matches(s) \ {k}) : Open(s, k, others) /\ UNCHANGED reads
      BY <1>3 DEF FindByIdentity, NextRow, Goto, Transacting, ClientsTypeOK
    <2>2. PICK others \in SetToSeqs(Matches(s) \ {k}) : Open(s, k, others) /\ UNCHANGED reads
      BY <2>1
    <2>3. ~Ambiguous(s) /\ at[s] = "identity"
      BY <1>3 DEF FindByIdentity, NextRow, Transacting, ClientsTypeOK
    <2>4. primary'[s] = k /\ left'[s] = others /\ archived'[s] = {}
      BY <1>1, <2>2, <2>3 DEF Open, Transacting, ClientsTypeOK
    <2>5. Range(others) \subseteq Matches(s)
      BY MatchesAreCandidates
    <2>6. \A l \in archived'[s] \cup Range(left'[s]) \cup {primary'[s]} : l \in Matches(s)
      BY <2>4, <2>5
    <2>7. RowOf(s)' = RowOf(s) /\ byCode' = byCode /\ byDocument' = byDocument
      BY <2>2 DEF reads, RowOf
    <2> QED BY <2>3, <2>4, <2>6, <2>7, DecidesWell DEF DecidedAs
  <1>4. CASE MoveRecords(s)
    BY <1>4 DEF MoveRecords, Goto, Transacting, DecidedInv, DecidedAs, reads, RowOf, ClientsTypeOK
  <1>5. CASE ArchiveDuplicate(s)
    <2>1. left[s] \in Seq(CandidateRow) /\ left[s] # <<>> /\ at[s] \in Transacting
      BY <1>1, <1>5 DEF ArchiveDuplicate, Goto, Transacting, ClientsTypeOK
    <2>2. Head(left[s]) \in Range(left[s]) /\ Range(Tail(left[s])) \subseteq Range(left[s])
      <3>1. Head(left[s]) = left[s][1] /\ 1 \in DOMAIN left[s]
        BY <2>1
      <3>2. ASSUME NEW i \in DOMAIN Tail(left[s])
            PROVE  Tail(left[s])[i] = left[s][i + 1] /\ i + 1 \in DOMAIN left[s]
        BY <2>1
      <3> QED BY <3>1, <3>2 DEF Range
    <2>3. archived'[s] = archived[s] \cup {Head(left[s])} /\ left'[s] = Tail(left[s]) /\ UNCHANGED <<reads, primary>>
      BY <1>1, <1>5 DEF ArchiveDuplicate, ClientsTypeOK
    <2>4. RowOf(s)' = RowOf(s) /\ byCode' = byCode /\ byDocument' = byDocument /\ primary' = primary
      BY <2>3 DEF reads, RowOf
    <2>5. archived'[s] \cup Range(left'[s]) \subseteq archived[s] \cup Range(left[s])
      BY <2>2, <2>3
    <2>6. DecidedAs(s)
      BY <2>1 DEF DecidedInv
    <2> QED BY <2>4, <2>5, <2>6 DEF DecidedAs
  <1>6. Acts(s) => FindByIdentity(s) \/ MoveRecords(s) \/ ArchiveDuplicate(s)
    BY ActsMove
  <1> QED BY <1>2, <1>3, <1>4, <1>5, <1>6, OthersAreQuiet

LEMMA StepInv == ClientsInv /\ [Next]_vars => ClientsInv'
  BY StepKeepsTypes, StepKeepsFound, StepKeepsDecided DEF ClientsInv

LEMMA SpecInv == Spec => []ClientsInv
  BY InitInv, StepInv, PTL DEF Spec

\* For any clients, partners and requests, the variables keep their types, and
\* who is in no transaction holds nothing of one.
THEOREM ClientsTypeCorrect == Spec => []ClientsTypeOK
  <1>1. ClientsInv => ClientsTypeOK
    BY DEF ClientsInv
  <1> QED BY <1>1, SpecInv, PTL

-----------------------------------------------------------------------------
\* Of the acts of a synchronisation two change clients.
LEMMA ActsOnClients ==
  ASSUME ClientsTypeOK, NEW s \in Syncs, Acts(s)
  PROVE  client' = client \/ UpdatePrimary(s) \/ CreateClient(s)
  BY DEF Acts, SyncRow, StartSync, FindByCode, FindByDocument, FindByIdentity, MoveRecords, ArchiveDuplicate,
         GivesUp, Fails, tables

\* What a client becomes when a synchronisation commits.
LEMMA Commits ==
  ASSUME ClientsInv, NEW s \in Syncs, UpdatePrimary(s), NEW c \in Ids
  PROVE  /\ primary[s] \in CandidateRow /\ DecidedAs(s)
         /\ c = primary[s].id => client'[c] = Updated(s, client[c])
         /\ c # primary[s].id => \/ client'[c] = client[c]
                                 \/ c \in IdsOf(archived[s]) /\ client'[c].state = "merged"
  <1>1. s \in Transactions /\ at[s] \in Transacting
    BY Actors DEF UpdatePrimary, Transacting
  <1>2. primary[s] \in CandidateRow /\ DecidedAs(s)
    BY <1>1 DEF ClientsInv, ClientsTypeOK, DecidedInv
  <1>3. client' = [Merged(s) EXCEPT ![primary[s].id] = Updated(s, client[primary[s].id])]
    BY DEF UpdatePrimary, Rewritten
  <1>4. Merged(s) \in [Ids -> Client]
    BY <1>1, MergedIsClient DEF ClientsInv
  <1>5. c = primary[s].id => client'[c] = Updated(s, client[c])
    BY <1>3, <1>4
  <1>6. c # primary[s].id => client'[c] = Merged(s)[c]
    BY <1>3, <1>4
  <1>7. \/ Merged(s)[c] = client[c]
        \/ c \in IdsOf(archived[s]) /\ Merged(s)[c].state = "merged"
    BY <1>1, MergedIsClient DEF ClientsInv
  <1> QED BY <1>2, <1>5, <1>6, <1>7

\* Whom CreateClient does not insert stays.
LEMMA CreatesOne ==
  ASSUME ClientsTypeOK, NEW s \in Syncs, CreateClient(s), NEW c \in Ids
  PROVE  client'[c] = client[c] \/ client[c] = Absent
  <1>1. \E d \in Ids : client[d] = Absent
    BY DEF CreateClient, Insert, Range, ClientsTypeOK
  <1>2. client[Fresh] = Absent
    BY <1>1 DEF Fresh
  <1> QED BY <1>2 DEF CreateClient, Insert, ClientsTypeOK

\* For any clients and partners, a synchronisation takes from a client the
\* document it has read of it only by merging the client into another, for a
\* partner of this document or of none.
THEOREM KeepsDocumentsReadCorrect == Spec => KeepsDocumentsRead
  <1> DEFINE A == \A s \in Syncs, c \in Ids :
          at'[s] # at[s] /\ client[c].doc # None /\ client'[c].doc # client[c].doc =>
              \E k \in archived[s] \cup {primary[s]} :
                  /\ k.id = c
                  /\ \/ k.was.doc # client[c].doc
                     \/ client'[c].state = "merged" /\ RowOf(s).doc \in {None, client[c].doc}
  <1>1. ASSUME ClientsInv, [Next]_vars
        PROVE  A
    <2> SUFFICES ASSUME NEW s \in Syncs, NEW c \in Ids, at'[s] # at[s], client[c].doc # None,
                        client'[c].doc # client[c].doc
                 PROVE  \E k \in archived[s] \cup {primary[s]} :
                           /\ k.id = c
                           /\ \/ k.was.doc # client[c].doc
                              \/ client'[c].state = "merged" /\ RowOf(s).doc \in {None, client[c].doc}
      OBVIOUS
    <2>1. ClientsTypeOK
      BY <1>1 DEF ClientsInv
    <2>2. Acts(s)
      BY <1>1, <2>1, OthersAreQuiet DEF Quiet
    <2>3. UpdatePrimary(s)
      <3>1. ~CreateClient(s)
        BY <2>1, CreatesOne DEF Absent
      <3> QED BY <2>1, <2>2, <3>1, ActsOnClients
    <2>4. DecidedAs(s)
      BY <1>1, <2>3, Commits
    <2>5. CASE c = primary[s].id
      <3>1. client'[c] = Updated(s, client[c])
        BY <1>1, <2>3, <2>5, Commits
      <3>2. client'[c].doc = RowOf(s).doc /\ RowOf(s).doc # None
        BY <3>1 DEF Updated
      <3>3. primary[s].was.doc \in {None, RowOf(s).doc}
        BY <2>4, <3>2 DEF DecidedAs
      <3> QED BY <2>5, <3>2, <3>3
    <2>6. CASE c # primary[s].id
      <3>1. c \in IdsOf(archived[s]) /\ client'[c].state = "merged"
        BY <1>1, <2>3, <2>6, Commits
      <3>2. PICK k \in archived[s] : k.id = c
        BY <3>1 DEF IdsOf
      <3>3. RowOf(s).doc = None \/ k.was.doc \in {None, RowOf(s).doc}
        BY <2>4, <3>2 DEF DecidedAs
      <3> QED BY <3>1, <3>2, <3>3
    <2> QED BY <2>5, <2>6
  <1>2. UNCHANGED vars => A
    BY DEF vars
  <1> QED BY <1>1, SpecInv, PTL DEF Spec, KeepsDocumentsRead

\* For any clients and partners, no step of a synchronisation takes from a
\* partner its last active client, unless that client was found by its document
\* or has been given its code since it was read.
THEOREM NoPartnerLosesItsClientCorrect == Spec => NoPartnerLosesItsClient
  <1> DEFINE A == \A s \in Syncs, r \in Partners :
          at'[s] # at[s] /\ (\E c \in Ids : Serves(c, r)) =>
              \/ (\E c \in Ids : Serves(c, r))'
              \/ \E k \in archived[s] \cup {primary[s]} :
                    Serves(k.id, r) /\ (k \in byDocument[s] \ byCode[s] \/ k.was.code # r.code)
  <1>1. ASSUME ClientsInv, [Next]_vars
        PROVE  A
    <2> SUFFICES ASSUME NEW s \in Syncs, NEW r \in Partners, at'[s] # at[s], NEW c \in Ids, Serves(c, r),
                        ~(\E d \in Ids : Serves(d, r))'
                 PROVE  \E k \in archived[s] \cup {primary[s]} :
                           Serves(k.id, r) /\ (k \in byDocument[s] \ byCode[s] \/ k.was.code # r.code)
      OBVIOUS
    <2>1. ClientsTypeOK
      BY <1>1 DEF ClientsInv
    <2>2. Acts(s)
      BY <1>1, <2>1, OthersAreQuiet DEF Quiet
    <2>3. client'[c] # client[c]
      BY DEF Serves
    <2>4. UpdatePrimary(s)
      <3>1. ~CreateClient(s)
        BY <2>1, <2>3, CreatesOne DEF Absent, Serves
      <3> QED BY <2>1, <2>2, <2>3, <3>1, ActsOnClients
    <2>5. \E k \in archived[s] \cup {primary[s]} : k.id = c
      BY <1>1, <2>3, <2>4, Commits DEF IdsOf
    <2>6. PICK k \in archived[s] \cup {primary[s]} : k.id = c
      BY <2>5
    <2>7. k \in byDocument[s] \ byCode[s] \/ k.was.code \in {None, RowOf(s).code}
      BY <1>1, <2>4, <2>6, Commits DEF DecidedAs
    <2>8. r.code # None
      <3>1. r \in Partner
        <4>1. PICK q \in Syncs : \E i \in 1..Len(RowsOf[q]) : r = RowsOf[q][i]
          BY DEF Partners
        <4> QED BY <4>1, Actors
      <3> QED BY <3>1, Actors DEF Partner
    <2>9. r.code # RowOf(s).code
      <3>1. PICK d \in Ids : d = primary[s].id
        BY <1>1, <2>4, Commits DEF CandidateRow
      <3>2. client'[d] = Updated(s, client[d])
        BY <1>1, <2>4, <3>1, Commits
      <3>3. RowOf(s).code = r.code => Serves(d, r)'
        BY <3>2 DEF Serves, Updated
      <3> QED BY <3>3
    <2> QED BY <2>6, <2>7, <2>8, <2>9
  <1>2. UNCHANGED vars => A
    BY DEF vars
  <1> QED BY <1>1, SpecInv, PTL DEF Spec, NoPartnerLosesItsClient
=============================================================================
