----------------------- MODULE RepositoryUpdateProofs -----------------------
(***************************************************************************)
(* Proofs about RepositoryUpdate.  An update applies the difference        *)
(* between the content that it found and the one that it fetched to tables *)
(* that hold one of the two: a row of a third content is torn.  A          *)
(* repository refers to the first row of a type, as findByUrl finds it,    *)
(* and that row stays the first while a repository has it; and only the    *)
(* first row of a form is one that addAttribute wrote.                     *)
(***************************************************************************)
EXTENDS RepositoryUpdate, SequenceTheorems, TLAPS

(* Repositories have rows, and are related to the first rows of types *)
Heads ==
    \A pair \in related :
        /\ pair[1] \in 1 .. Len(rows)
        /\ types[pair[2][1]] # << >> /\ pair[2] = FirstOf(pair[2][1])

RowsKnown == \A r \in Ids, f \in Forms : schemas[<<r, f>>] # << >> => r \in 1 .. Len(rows)

(* What an update found *)
JobOf(j) ==
    /\ update[j].at = "repository" =>
         /\ update[j].repo.id \in 0 .. Len(rows)
         /\ update[j].repo.id = 0 => update[j].repo.content = NoContent
    /\ update[j].at = "form" => update[j].repo \in 1 .. Len(rows)

JobsKnown == \A j \in Updates : JobOf(j)

(* TablesMatchContent of one row with the content c, part by part *)
Relates(r, c) ==
    \A t \in Types : t \in DOMAIN c <=> \E n \in Numbers : <<r, <<t, n>>>> \in related

HasForms(r, c) == \A t \in DOMAIN c : c[t] # NoForm => schemas[<<r, c[t]>>] # << >>

Given(r, f, i, c) ==
    LET s == schemas[<<r, f>>][i]
    IN \/ s.restored
       \/ /\ i = 1 /\ <<r, s.type>> \in related
          /\ s.type[1] \in DOMAIN c /\ c[s.type[1]] = f

OnlyForms(r, c) == \A f \in Forms : \A i \in 1 .. Len(schemas[<<r, f>>]) : Given(r, f, i, c)

Fits(r, c) == Relates(r, c) /\ HasForms(r, c) /\ OnlyForms(r, c)

AllFit == \A r \in 1 .. Len(rows) : r \notin torn => Fits(r, rows[r].content)

Attributes == \A i \in used \ late : Present(i)

RepositoryInv == TypeOK /\ Heads /\ RowsKnown /\ JobsKnown /\ AllFit /\ Attributes

-----------------------------------------------------------------------------
(* Contents and sequences *)

(* A content is a function from some types, and no form is of two types. *)
LEMMA ContentType ==
    ASSUME NEW c \in Contents
    PROVE  /\ DOMAIN c \subseteq Types
           /\ c \in [DOMAIN c -> Forms \cup {NoForm}]
           /\ \A s, t \in DOMAIN c : s # t /\ c[s] = c[t] => c[s] = NoForm
  BY DEF Contents

LEMMA NoContentType == NoContent \in Contents /\ DOMAIN NoContent = {}
  BY DEF Contents, NoContent

LEMMA RowType ==
    ASSUME TypeOK, NEW r \in 1 .. Len(rows)
    PROVE  rows[r].url \in Urls /\ rows[r].content \in Contents
  <1>1. rows \in Seq([url : Urls, content : Contents])
    BY DEF TypeOK
  <1>2. rows[r] \in [url : Urls, content : Contents]
    BY <1>1, ElementOfSeq
  <1> QED
    BY <1>2

LEMMA NotEmpty ==
    ASSUME NEW S, NEW s \in Seq(S), s # << >>
    PROVE  /\ 1 \in 1 .. Len(s) /\ s[1] \in S
           /\ Tail(s) \in Seq(S) /\ Len(Tail(s)) = Len(s) - 1
           /\ \A i \in 1 .. Len(s) - 1 : Tail(s)[i] = s[i + 1]
  BY EmptySeq, LenProperties, ElementOfSeq, HeadTailProperties

LEMMA One ==
    ASSUME NEW S, NEW e \in S
    PROVE  /\ <<e>> \in Seq(S) /\ <<e>> # << >> /\ Len(<<e>>) = 1 /\ <<e>>[1] = e
           /\ << >> \in Seq(S) /\ Len(<< >>) = 0
  OBVIOUS

(* The first row of a type that has rows is present. *)
LEMMA FirstIsPresent ==
    ASSUME TypeOK, NEW t \in Types, types[t] # << >>
    PROVE  FirstOf(t) \in TypeIds /\ Present(FirstOf(t))
  <1>1. types[t] \in Seq(Numbers)
    BY DEF TypeOK
  <1>2. 1 \in 1 .. Len(types[t]) /\ types[t][1] \in Numbers
    BY <1>1, NotEmpty
  <1> QED
    BY <1>2 DEF FirstOf, Present, TypeIds

(* The invariant gives the two properties of the module. *)
LEMMA InvGives == RepositoryInv => TablesMatchContent /\ ReferencesHold
  <1> SUFFICES ASSUME RepositoryInv PROVE TablesMatchContent /\ ReferencesHold
    OBVIOUS
  <1> USE DEF RepositoryInv
  <1>1. \A r \in 1 .. Len(rows) : r \notin torn =>
          /\ Relates(r, rows[r].content) /\ HasForms(r, rows[r].content)
          /\ OnlyForms(r, rows[r].content)
    BY DEF AllFit, Fits
  <1>2. TablesMatchContent
    <2> SUFFICES ASSUME NEW r \in 1 .. Len(rows), r \notin torn
                 PROVE  LET c == rows[r].content
                        IN /\ \A t \in Types : t \in DOMAIN c <=>
                                \E n \in Numbers : <<r, <<t, n>>>> \in related
                           /\ \A t \in DOMAIN c : c[t] # NoForm => schemas[<<r, c[t]>>] # << >>
                           /\ \A f \in Forms : \A i \in 1 .. Len(schemas[<<r, f>>]) :
                                LET s == schemas[<<r, f>>][i]
                                IN s.restored \/ (s.type[1] \in DOMAIN c /\ c[s.type[1]] = f)
      BY DEF TablesMatchContent
    <2> DEFINE c == rows[r].content
    <2>1. Relates(r, c) /\ HasForms(r, c) /\ OnlyForms(r, c)
      BY <1>1
    <2> QED
      BY <2>1 DEF Relates, HasForms, OnlyForms, Given
  <1>3. ASSUME NEW pair \in related
        PROVE  Present(pair[2])
    <2>1. pair[2][1] \in Types
      BY DEF TypeOK, TypeIds
    <2>2. types[pair[2][1]] # << >> /\ pair[2] = FirstOf(pair[2][1])
      BY DEF Heads
    <2> QED
      BY <2>1, <2>2, FirstIsPresent
  <1>4. ASSUME NEW r \in 1 .. Len(rows), NEW f \in Forms, r \notin torn,
               NEW i \in 1 .. Len(schemas[<<r, f>>])
        PROVE  schemas[<<r, f>>][i].restored \/ Present(schemas[<<r, f>>][i].type)
    <2>1. Given(r, f, i, rows[r].content)
      BY <1>1, <1>4 DEF OnlyForms
    <2>2. schemas[<<r, f>>][i].restored \/ <<r, schemas[<<r, f>>][i].type>> \in related
      BY <2>1 DEF Given
    <2> QED
      BY <2>2, <1>3
  <1> QED
    BY <1>2, <1>3, <1>4 DEF ReferencesHold, Attributes

-----------------------------------------------------------------------------
(* The initial state, and the steps that leave most tables alone *)

LEMMA IdleType == Idle \in UpdateStates /\ Idle.at = "idle"
  BY DEF UpdateStates, Idle

LEMMA InitInv == Init => RepositoryInv
  <1> SUFFICES ASSUME Init PROVE RepositoryInv
    OBVIOUS
  <1>1. PICK url \in Urls : rows = <<[url |-> url, content |-> NoContent]>>
    BY DEF Init
  <1> DEFINE row == [url |-> url, content |-> NoContent]
  <1>2. row \in [url : Urls, content : Contents] /\ row.content = NoContent
    BY NoContentType
  <1> HIDE DEF row
  <1>3. rows \in Seq([url : Urls, content : Contents]) /\ Len(rows) = 1 /\ rows[1] = row
    BY <1>1, <1>2, One DEF row
  <1>4. 1 \in Numbers /\ Len(rows) <= MaxRows
    BY <1>3, ConstantsAssumption DEF Numbers
  <1>5. types \in [Types -> Seq(Numbers)]
    <2>1. << >> \in Seq(Numbers) /\ <<1>> \in Seq(Numbers)
      BY <1>4, One
    <2> QED
      BY <2>1 DEF Init
  <1>6. schemas \in [Ids \X Forms -> Seq(SchemaRows)]
    <2>1. << >> \in Seq(SchemaRows)
      OBVIOUS
    <2> QED
      BY <2>1 DEF Init
  <1>7. update \in [Updates -> UpdateStates] /\ \A j \in Updates : update[j].at = "idle"
    BY IdleType DEF Init
  <1>8. TypeOK
    BY <1>3, <1>4, <1>5, <1>6, <1>7 DEF Init, TypeOK
  <1>9. \A r \in Ids, f \in Forms : schemas[<<r, f>>] = << >>
    BY DEF Init
  <1>10. AllFit
    <2> SUFFICES ASSUME NEW r \in 1 .. Len(rows) PROVE Fits(r, rows[r].content)
      BY DEF AllFit
    <2>1. r \in Ids /\ rows[r].content = NoContent
      BY <1>2, <1>3, <1>4, ConstantsAssumption DEF Ids
    <2>2. related = {}
      BY DEF Init
    <2>3. Relates(r, NoContent) /\ HasForms(r, NoContent)
      BY <2>2, NoContentType DEF Relates, HasForms
    <2>4. OnlyForms(r, NoContent)
      BY <1>9, <2>1 DEF OnlyForms
    <2> QED
      BY <2>1, <2>3, <2>4 DEF Fits
  <1> QED
    BY <1>7, <1>8, <1>9, <1>10
       DEF RepositoryInv, Init, Heads, RowsKnown, JobsKnown, JobOf, Attributes

(* A row fits when its relations and forms are as before. *)
LEMMA FitsSame ==
    ASSUME NEW r, NEW c \in Contents, Fits(r, c),
           \A i : <<r, i>> \in related' <=> <<r, i>> \in related,
           \A f \in Forms : schemas'[<<r, f>>] = schemas[<<r, f>>]
    PROVE  Fits(r, c)'
  <1>1. \A t \in DOMAIN c : c[t] # NoForm => c[t] \in Forms
    BY ContentType
  <1>2. Relates(r, c)'
    BY DEF Fits, Relates
  <1>3. HasForms(r, c)'
    BY <1>1 DEF Fits, HasForms
  <1>4. OnlyForms(r, c)'
    BY DEF Fits, OnlyForms, Given
  <1> QED
    BY <1>2, <1>3, <1>4 DEF Fits

(* Steps that leave the tables and the attributes alone *)
LEMMA OnlyUpdates ==
    ASSUME RepositoryInv, UNCHANGED tables, UNCHANGED <<used, late>>, chosen' \subseteq TypeIds,
           update' \in [Updates -> UpdateStates],
           \A j \in Updates : update'[j] = update[j] \/ JobOf(j)'
    PROVE  RepositoryInv'
  <1> USE DEF RepositoryInv, tables
  <1>1. TypeOK'
    BY DEF TypeOK
  <1>2. Heads' /\ RowsKnown'
    BY DEF Heads, FirstOf, RowsKnown
  <1>3. JobsKnown'
    <2> SUFFICES ASSUME NEW j \in Updates PROVE JobOf(j)'
      BY DEF JobsKnown
    <2>1. JobOf(j)
      BY DEF JobsKnown
    <2> QED
      BY <2>1 DEF JobOf
  <1>4. AllFit'
    <2> SUFFICES ASSUME NEW r \in 1 .. Len(rows), r \notin torn
                 PROVE  Fits(r, rows[r].content)'
      BY DEF AllFit
    <2>1. PICK c : c = rows[r].content
      OBVIOUS
    <2>2. c \in Contents /\ Fits(r, c)
      BY <2>1, RowType DEF AllFit
    <2>3. Fits(r, c)'
      BY <2>2, FitsSame
    <2> QED
      BY <2>1, <2>3
  <1>5. Attributes'
    BY DEF Attributes, Present
  <1> QED
    BY <1>1, <1>2, <1>3, <1>4, <1>5

LEMMA BeginsStep ==
    ASSUME RepositoryInv, NEW j \in Updates, NEW job \in UpdateStates, Begins(j, job),
           /\ job.at = "repository" =>
                /\ job.repo.id \in 0 .. Len(rows)
                /\ job.repo.id = 0 => job.repo.content = NoContent
           /\ job.at = "form" => job.repo \in 1 .. Len(rows)
    PROVE  RepositoryInv'
  <1>1. UNCHANGED tables /\ UNCHANGED <<used, late>> /\ UNCHANGED chosen
    BY DEF Begins, user
  <1>2. chosen' \subseteq TypeIds
    BY <1>1 DEF RepositoryInv, TypeOK
  <1>3. /\ update' \in [Updates -> UpdateStates] /\ update'[j] = job
        /\ \A k \in Updates : k # j => update'[k] = update[k]
    BY DEF Begins, RepositoryInv, TypeOK
  <1>4. JobOf(j)'
    BY <1>1, <1>3 DEF JobOf, tables
  <1> QED
    BY <1>1, <1>2, <1>3, <1>4, OnlyUpdates

LEMMA AddRepoStep ==
    ASSUME RepositoryInv, NEW j \in Updates, NEW url \in Urls, AddRemoteRepo(j, url)
    PROVE  RepositoryInv'
  <1>1. PICK id \in 0 .. Len(rows) :
          Begins(j, [at |-> "repository", url |-> url,
                     repo |-> [id |-> id, content |->
                               IF id = 0 THEN NoContent ELSE rows[id].content]])
    BY DEF AddRemoteRepo
  <1> DEFINE repo == [id |-> id, content |-> IF id = 0 THEN NoContent ELSE rows[id].content]
             job == [at |-> "repository", url |-> url, repo |-> repo]
  <1>2. Len(rows) \in Nat /\ Len(rows) <= MaxRows /\ MaxRows \in Nat
    BY ConstantsAssumption DEF RepositoryInv, TypeOK
  <1>3. id # 0 => rows[id].content \in Contents
    BY <1>2, RowType DEF RepositoryInv
  <1>4. repo \in [id : 0 .. MaxRows, content : Contents]
    BY <1>2, <1>3, NoContentType
  <1>5. repo.id = id /\ (id = 0 => repo.content = NoContent)
    OBVIOUS
  <1>6. Begins(j, job)
    BY <1>1
  <1> HIDE DEF repo
  <1>7. job \in UpdateStates /\ job.at = "repository" /\ job.repo = repo
    BY <1>4 DEF UpdateStates
  <1> HIDE DEF job
  <1> QED
    BY <1>5, <1>6, <1>7, BeginsStep

LEMMA AddTypeStep ==
    ASSUME RepositoryInv, NEW j \in Updates, NEW t \in Types, AddRemoteType(j, t)
    PROVE  RepositoryInv'
  <1> DEFINE job == [at |-> "type", url |-> t, found |-> {}]
  <1>1. job \in UpdateStates /\ job.at = "type"
    BY DEF UpdateStates
  <1>2. Begins(j, job)
    BY DEF AddRemoteType
  <1> HIDE DEF job
  <1> QED
    BY <1>1, <1>2, BeginsStep

LEMMA AddFormStep ==
    ASSUME RepositoryInv, NEW j \in Updates, NEW r \in Ids, NEW f \in Forms,
           AddRemoteForm(j, r, f)
    PROVE  RepositoryInv'
  <1>1. PICK i \in 1 .. Len(schemas[<<r, f>>]) :
          Begins(j, [at |-> "form", repo |-> r, url |-> f,
                     type |-> schemas[<<r, f>>][i].type, found |-> {}])
    BY DEF AddRemoteForm
  <1> DEFINE type == schemas[<<r, f>>][i].type
             job == [at |-> "form", repo |-> r, url |-> f, type |-> type, found |-> {}]
  <1>2. schemas[<<r, f>>] \in Seq(SchemaRows)
    BY DEF RepositoryInv, TypeOK
  <1>3. type \in TypeIds /\ schemas[<<r, f>>] # << >>
    <2>1. schemas[<<r, f>>][i] \in SchemaRows
      BY <1>2, ElementOfSeq
    <2> QED
      BY <2>1, <1>2 DEF SchemaRows
  <1>4. r \in 1 .. Len(rows)
    BY <1>3 DEF RepositoryInv, RowsKnown
  <1>5. Begins(j, job)
    BY <1>1
  <1> HIDE DEF type
  <1>6. job \in UpdateStates /\ job.at = "form" /\ job.repo = r
    BY <1>3 DEF UpdateStates
  <1> HIDE DEF job
  <1> QED
    BY <1>4, <1>5, <1>6, BeginsStep

LEMMA FindStep ==
    ASSUME RepositoryInv, NEW j \in Updates, FindType(j) \/ FindForm(j)
    PROVE  RepositoryInv'
  <1>1. UNCHANGED tables /\ UNCHANGED <<used, late>> /\ UNCHANGED chosen
    BY DEF FindType, FindForm, Finds, user
  <1>2. chosen' \subseteq TypeIds /\ update \in [Updates -> UpdateStates]
    BY <1>1 DEF RepositoryInv, TypeOK
  <1>3. ASSUME NEW what, update' = [update EXCEPT ![j].found = {what}],
               \/ update[j].at = "type" /\ what \in BOOLEAN
               \/ update[j].at = "form" /\ what \in 0 .. MaxInserts
        PROVE  RepositoryInv'
    <2> DEFINE next == [update[j] EXCEPT !.found = {what}]
    <2>1. update' = [update EXCEPT ![j] = next]
      BY <1>3
    <2>2. next \in UpdateStates /\ next.at = update[j].at
          /\ (update[j].at = "form" => next.repo = update[j].repo)
      <3>1. CASE update[j].at = "type"
        <4>1. update[j] \in [at : {"type"}, url : Types, found : SUBSET BOOLEAN]
          BY <1>2, <3>1 DEF UpdateStates, Idle
        <4>2. next \in [at : {"type"}, url : Types, found : SUBSET BOOLEAN]
          BY <1>3, <3>1, <4>1
        <4> QED
          BY <3>1, <4>1, <4>2 DEF UpdateStates
      <3>2. CASE update[j].at = "form"
        <4>1. update[j] \in [at : {"form"}, repo : Ids, url : Forms, type : TypeIds,
                             found : SUBSET (0 .. MaxInserts)]
          BY <1>2, <3>2 DEF UpdateStates, Idle
        <4>2. next \in [at : {"form"}, repo : Ids, url : Forms, type : TypeIds,
                        found : SUBSET (0 .. MaxInserts)]
          BY <1>3, <3>2, <4>1
        <4> QED
          BY <3>2, <4>1, <4>2 DEF UpdateStates
      <3> QED
        BY <1>3, <3>1, <3>2
    <2> HIDE DEF next
    <2>3. /\ update' \in [Updates -> UpdateStates] /\ update'[j] = next
          /\ \A k \in Updates : k # j => update'[k] = update[k]
      BY <1>2, <2>1, <2>2
    <2>4. update[j].at # "repository" /\ JobOf(j)
      BY <1>3 DEF RepositoryInv, JobsKnown
    <2>5. JobOf(j)'
      BY <1>1, <2>2, <2>3, <2>4 DEF JobOf, tables
    <2> QED
      BY <1>1, <1>2, <2>3, <2>5, OnlyUpdates
  <1>4. CASE FindType(j)
    <2>1. (types[update[j].url] # << >>) \in BOOLEAN
      OBVIOUS
    <2> QED
      BY <1>3, <1>4, <2>1 DEF FindType, Finds
  <1>5. CASE FindForm(j)
    <2> DEFINE k == <<update[j].repo, update[j].url>>
               what == IF schemas[k] = << >> THEN 0 ELSE schemas[k][1].nr
    <2>1. update[j].at = "form" /\ update' = [update EXCEPT ![j].found = {what}]
      BY <1>5 DEF FindForm, Finds
    <2>2. k \in Ids \X Forms
      BY <1>2, <2>1 DEF UpdateStates, Idle
    <2>3. schemas[k] \in Seq(SchemaRows)
      BY <2>2 DEF RepositoryInv, TypeOK
    <2>4. schemas[k] # << >> => schemas[k][1] \in SchemaRows
      BY <2>3, NotEmpty
    <2>5. what \in 0 .. MaxInserts
      BY <2>4, ConstantsAssumption DEF SchemaRows, Numbers
    <2> HIDE DEF what
    <2> QED
      BY <1>3, <2>1, <2>5
  <1> QED
    BY <1>4, <1>5

LEMMA EndStep ==
    ASSUME RepositoryInv, Restart \/ \E j \in Updates : Fails(j)
    PROVE  RepositoryInv'
  <1>1. UNCHANGED tables /\ UNCHANGED <<used, late>> /\ chosen' \subseteq TypeIds
    BY DEF Restart, Fails, user, RepositoryInv, TypeOK
  <1>2. update' \in [Updates -> UpdateStates]
    BY IdleType DEF RepositoryInv, TypeOK, Restart, Fails
  <1>3. \A k \in Updates : update'[k] = update[k] \/ update'[k] = Idle
    BY DEF RepositoryInv, TypeOK, Restart, Fails
  <1>4. \A k \in Updates : update'[k] = update[k] \/ JobOf(k)'
    BY <1>3, IdleType DEF JobOf
  <1> QED
    BY <1>1, <1>2, <1>4, OnlyUpdates

LEMMA ChooseStep ==
    ASSUME RepositoryInv, NEW i \in TypeIds, ChooseType(i)
    PROVE  RepositoryInv'
  <1>1. UNCHANGED tables /\ UNCHANGED <<used, late>> /\ chosen' \subseteq TypeIds
    BY DEF ChooseType
  <1>2. update' \in [Updates -> UpdateStates] /\ \A k \in Updates : update'[k] = update[k]
    BY DEF ChooseType, RepositoryInv, TypeOK
  <1> QED
    BY <1>1, <1>2, OnlyUpdates

(* Steps that leave the tables and updates alone *)
LEMMA OnlyAttributes ==
    ASSUME RepositoryInv, UNCHANGED tables, UNCHANGED update,
           used' \subseteq TypeIds, late' \subseteq used', chosen' \subseteq TypeIds,
           Attributes'
    PROVE  RepositoryInv'
  <1> USE DEF RepositoryInv, tables
  <1>1. TypeOK'
    BY DEF TypeOK
  <1>2. Heads' /\ RowsKnown'
    BY DEF Heads, FirstOf, RowsKnown
  <1>3. JobsKnown'
    BY DEF JobsKnown, JobOf
  <1>4. AllFit'
    <2> SUFFICES ASSUME NEW r \in 1 .. Len(rows), r \notin torn
                 PROVE  Fits(r, rows[r].content)'
      BY DEF AllFit
    <2>1. PICK c : c = rows[r].content
      OBVIOUS
    <2>2. c \in Contents /\ Fits(r, c)
      BY <2>1, RowType DEF AllFit
    <2>3. Fits(r, c)'
      BY <2>2, FitsSame
    <2> QED
      BY <2>1, <2>3
  <1> QED
    BY <1>1, <1>2, <1>3, <1>4

LEMMA UseStep ==
    ASSUME RepositoryInv, NEW i \in TypeIds, UseType(i) \/ ReleaseType(i)
    PROVE  RepositoryInv'
  <1>1. UNCHANGED tables /\ UNCHANGED update
    BY DEF UseType, ReleaseType
  <1>2. used' \subseteq TypeIds /\ late' \subseteq used' /\ chosen' \subseteq TypeIds
    BY DEF UseType, ReleaseType, RepositoryInv, TypeOK
  <1>3. \A k \in TypeIds : Present(k)' <=> Present(k)
    BY <1>1 DEF Present, tables
  <1>4. \A k \in used' \ late' : k \in TypeIds /\ (k \in used \ late \/ Present(k))
    BY <1>2 DEF UseType, ReleaseType
  <1>5. Attributes'
    BY <1>3, <1>4 DEF RepositoryInv, Attributes
  <1> QED
    BY <1>1, <1>2, <1>5, OnlyAttributes

-----------------------------------------------------------------------------
(* Transactions *)

LEMMA JobsStep ==
    ASSUME RepositoryInv, NEW j \in Updates, update' = [update EXCEPT ![j] = Idle],
           Len(rows') \in Nat, Len(rows) <= Len(rows')
    PROVE  update' \in [Updates -> UpdateStates] /\ JobsKnown'
  <1>1. update' \in [Updates -> UpdateStates] /\ \A k \in Updates :
           update'[k] = update[k] \/ update'[k] = Idle
    BY IdleType DEF RepositoryInv, TypeOK
  <1>2. Len(rows) \in Nat
    BY DEF RepositoryInv, TypeOK
  <1>3. ASSUME NEW k \in Updates PROVE JobOf(k)'
    <2>1. CASE update'[k] = Idle
      BY <2>1, IdleType DEF JobOf
    <2>2. CASE update'[k] = update[k]
      BY <2>2, <1>2 DEF JobOf, RepositoryInv, JobsKnown
    <2> QED
      BY <1>1, <2>1, <2>2
  <1> QED
    BY <1>1, <1>3 DEF JobsKnown

LEMMA CommitTypeStep ==
    ASSUME RepositoryInv, NEW j \in Updates, CommitType(j)
    PROVE  RepositoryInv'
  <1> DEFINE t == update[j].url
  <1>1. /\ update[j].at = "type" /\ update' = [update EXCEPT ![j] = Idle]
        /\ UNCHANGED <<rows, related, schemas, torn, used, chosen, late>>
        /\ \/ UNCHANGED <<types, inserts>>
           \/ /\ inserts < MaxInserts /\ inserts' = inserts + 1
              /\ types' = [types EXCEPT ![t] = Append(types[t], NewNumber)]
    BY DEF CommitType, user
  <1>2. update[j] \in UpdateStates /\ t \in Types
    BY <1>1 DEF RepositoryInv, TypeOK, UpdateStates, Idle
  <1> HIDE DEF t
  <1>3. Len(rows') \in Nat /\ Len(rows) <= Len(rows')
    BY <1>1 DEF RepositoryInv, TypeOK
  <1>4. update' \in [Updates -> UpdateStates] /\ JobsKnown'
    BY <1>1, <1>3, JobsStep
  <1>5. \A x \in Types : types[x] \in Seq(Numbers)
    BY DEF RepositoryInv, TypeOK
  <1>6. /\ inserts' \in Numbers /\ types' \in [Types -> Seq(Numbers)]
        /\ \A x \in Types : /\ Len(types[x]) <= Len(types'[x])
                            /\ \A k \in 1 .. Len(types[x]) : types'[x][k] = types[x][k]
    <2>1. CASE UNCHANGED <<types, inserts>>
      BY <2>1, <1>5 DEF RepositoryInv, TypeOK
    <2>2. CASE /\ inserts < MaxInserts /\ inserts' = inserts + 1
               /\ types' = [types EXCEPT ![t] = Append(types[t], NewNumber)]
      <3>1. inserts \in Nat /\ MaxInserts \in Nat /\ NewNumber \in Numbers
        BY <2>2, ConstantsAssumption DEF RepositoryInv, TypeOK, Numbers, NewNumber
      <3>2. /\ Append(types[t], NewNumber) \in Seq(Numbers)
            /\ Len(Append(types[t], NewNumber)) = Len(types[t]) + 1
            /\ \A k \in 1 .. Len(types[t]) : Append(types[t], NewNumber)[k] = types[t][k]
        BY <1>2, <1>5, <3>1, AppendProperties
      <3>3. /\ types' \in [Types -> Seq(Numbers)]
            /\ types'[t] = Append(types[t], NewNumber)
            /\ \A x \in Types : x # t => types'[x] = types[x]
        BY <2>2, <1>2, <3>2 DEF RepositoryInv, TypeOK
      <3>4. \A x \in Types : Len(types[x]) \in Nat
        BY <1>5, LenProperties
      <3> QED
        BY <2>2, <3>1, <3>2, <3>3, <3>4 DEF NewNumber
    <2> QED
      BY <1>1, <2>1, <2>2
  <1>7. TypeOK'
    BY <1>1, <1>4, <1>6 DEF RepositoryInv, TypeOK
  <1>8. \A x \in Types : types[x] # << >> => types'[x] # << >> /\ FirstOf(x)' = FirstOf(x)
    <2> SUFFICES ASSUME NEW x \in Types, types[x] # << >>
                 PROVE  types'[x] # << >> /\ FirstOf(x)' = FirstOf(x)
      OBVIOUS
    <2>1. 1 \in 1 .. Len(types[x]) /\ Len(types[x]) \in Nat
      BY <1>5, NotEmpty, LenProperties
    <2>2. types'[x][1] = types[x][1] /\ Len(types'[x]) # 0
      BY <2>1, <1>6, LenProperties
    <2> QED
      BY <2>2 DEF FirstOf
  <1>9. Heads'
    <2>1. \A pair \in related : pair[2][1] \in Types
      BY DEF RepositoryInv, TypeOK, TypeIds
    <2> SUFFICES ASSUME NEW pair \in related
                 PROVE  /\ pair[1] \in 1 .. Len(rows) /\ types'[pair[2][1]] # << >>
                        /\ pair[2] = FirstOf(pair[2][1])'
      BY <1>1 DEF Heads
    <2>2. PICK x \in Types : x = pair[2][1]
      BY <2>1
    <2>3. pair[1] \in 1 .. Len(rows) /\ types[x] # << >> /\ pair[2] = FirstOf(x)
      BY <2>2 DEF RepositoryInv, Heads
    <2>4. types'[x] # << >> /\ pair[2] = FirstOf(x)'
      BY <1>8, <2>3
    <2> QED
      BY <2>2, <2>3, <2>4 DEF FirstOf
  <1>10. RowsKnown'
    BY <1>1 DEF RepositoryInv, RowsKnown
  <1>11. AllFit'
    <2> SUFFICES ASSUME NEW r \in 1 .. Len(rows), r \notin torn
                 PROVE  Fits(r, rows[r].content)'
      BY <1>1 DEF AllFit
    <2>1. PICK c : c = rows[r].content
      OBVIOUS
    <2>2. c \in Contents /\ Fits(r, c)
      BY <2>1, RowType DEF RepositoryInv, AllFit
    <2>3. Fits(r, c)'
      BY <1>1, <2>2, FitsSame
    <2> QED
      BY <1>1, <2>1, <2>3
  <1>12. Attributes'
    <2>1. \A i \in TypeIds : Present(i) => Present(i)'
      <3> SUFFICES ASSUME NEW i \in TypeIds, NEW k \in 1 .. Len(types[i[1]]),
                          types[i[1]][k] = i[2]
                   PROVE  Present(i)'
        BY DEF Present
      <3>1. i[1] \in Types
        BY DEF TypeIds
      <3>2. k \in 1 .. Len(types'[i[1]]) /\ types'[i[1]][k] = i[2]
        BY <3>1, <1>5, <1>6, LenProperties
      <3> QED
        BY <3>2 DEF Present
    <2>2. used \subseteq TypeIds
      BY DEF RepositoryInv, TypeOK
    <2> QED
      BY <1>1, <2>1, <2>2 DEF RepositoryInv, Attributes
  <1> QED
    BY <1>4, <1>7, <1>9, <1>10, <1>11, <1>12 DEF RepositoryInv

LEMMA CommitFormStep ==
    ASSUME RepositoryInv, NEW j \in Updates, CommitForm(j)
    PROVE  RepositoryInv'
  <1> DEFINE k == <<update[j].repo, update[j].url>>
             type == update[j].type
             patched(row) == IF row.type = type THEN row
                             ELSE [row EXCEPT !.type = type, !.restored = TRUE]
             inserted == [nr |-> NewNumber, type |-> type, restored |-> TRUE]
  <1>1. /\ update[j].at = "form" /\ update' = [update EXCEPT ![j] = Idle]
        /\ UNCHANGED <<rows, types, related, torn, used, chosen, late>>
    BY DEF CommitForm, user
  <1>2. PICK found \in update[j].found :
          \/ /\ inserts < MaxInserts /\ inserts' = inserts + 1
             /\ schemas' = [schemas EXCEPT ![k] = Append(schemas[k], inserted)]
          \/ /\ UNCHANGED inserts
             /\ schemas' = [schemas EXCEPT ![k] =
                  [i \in 1 .. Len(schemas[k]) |->
                     IF schemas[k][i].nr = found THEN patched(schemas[k][i]) ELSE schemas[k][i]]]
    BY DEF CommitForm
  <1>3. /\ k \in Ids \X Forms /\ type \in TypeIds
        /\ update[j].repo \in 1 .. Len(rows) /\ k[1] = update[j].repo
    BY <1>1 DEF RepositoryInv, TypeOK, UpdateStates, Idle, JobsKnown, JobOf
  <1>4. \A x \in Ids \X Forms : schemas[x] \in Seq(SchemaRows) /\ Len(schemas[x]) \in Nat
    BY LenProperties DEF RepositoryInv, TypeOK
  <1>5. \A i \in 1 .. Len(schemas[k]) : schemas[k][i] \in SchemaRows
    BY <1>3, <1>4, ElementOfSeq
  <1>6. \A row \in SchemaRows :
          patched(row) \in SchemaRows /\ (patched(row) = row \/ patched(row).restored)
    BY <1>3 DEF SchemaRows
  <1> HIDE DEF patched, k, type
  (* Of each form, what there was, what was written by addRemote, or both *)
  <1> DEFINE Extends(new, old) ==
               /\ new \in Seq(SchemaRows) /\ Len(old) <= Len(new)
               /\ \A i \in 1 .. Len(new) :
                    new[i].restored \/ (i \in 1 .. Len(old) /\ new[i] = old[i])
  <1>7. \A s \in Seq(SchemaRows) : Extends(s, s)
    BY LenProperties
  <1>8. /\ inserts' \in Numbers /\ schemas' \in [Ids \X Forms -> Seq(SchemaRows)]
        /\ Extends(schemas'[k], schemas[k])
        /\ \A x \in Ids \X Forms : x # k => schemas'[x] = schemas[x]
    <2>1. CASE /\ inserts < MaxInserts /\ inserts' = inserts + 1
               /\ schemas' = [schemas EXCEPT ![k] = Append(schemas[k], inserted)]
      <3>1. inserts \in Nat /\ MaxInserts \in Nat /\ NewNumber \in Numbers
        BY <2>1, ConstantsAssumption DEF RepositoryInv, TypeOK, Numbers, NewNumber
      <3>2. inserted \in SchemaRows /\ inserted.restored
        BY <3>1, <1>3 DEF SchemaRows
      <3> HIDE DEF inserted
      <3>3. /\ Append(schemas[k], inserted) \in Seq(SchemaRows)
            /\ Len(Append(schemas[k], inserted)) = Len(schemas[k]) + 1
            /\ \A i \in 1 .. Len(schemas[k]) : Append(schemas[k], inserted)[i] = schemas[k][i]
            /\ Append(schemas[k], inserted)[Len(schemas[k]) + 1] = inserted
        BY <1>3, <1>4, <3>2, AppendProperties
      <3>4. Extends(Append(schemas[k], inserted), schemas[k])
        BY <1>3, <1>4, <3>2, <3>3
      <3> HIDE DEF Extends
      <3>5. /\ schemas' \in [Ids \X Forms -> Seq(SchemaRows)]
            /\ schemas'[k] = Append(schemas[k], inserted)
            /\ \A x \in Ids \X Forms : x # k => schemas'[x] = schemas[x]
        BY <2>1, <1>3, <3>3 DEF RepositoryInv, TypeOK
      <3>6. inserts' \in Numbers
        BY <2>1, <3>1 DEF NewNumber
      <3> QED
        BY <3>4, <3>5, <3>6
    <2>2. CASE /\ UNCHANGED inserts
               /\ schemas' = [schemas EXCEPT ![k] =
                    [i \in 1 .. Len(schemas[k]) |->
                       IF schemas[k][i].nr = found THEN patched(schemas[k][i])
                       ELSE schemas[k][i]]]
      <3> DEFINE new == [i \in 1 .. Len(schemas[k]) |->
                           IF schemas[k][i].nr = found THEN patched(schemas[k][i])
                           ELSE schemas[k][i]]
      <3>1. \A i \in 1 .. Len(schemas[k]) :
              new[i] \in SchemaRows /\ (new[i] = schemas[k][i] \/ new[i].restored)
        BY <1>5, <1>6
      <3>2. new \in Seq(SchemaRows) /\ Len(new) = Len(schemas[k])
        <4>1. Len(schemas[k]) \in Nat
          BY <1>3, <1>4
        <4>2. new \in [1 .. Len(schemas[k]) -> SchemaRows]
          BY <3>1
        <4>3. new \in Seq(SchemaRows)
          BY <4>1, <4>2, SeqDef
        <4>4. DOMAIN new = 1 .. Len(schemas[k])
          BY <4>2
        <4> HIDE DEF new
        <4>5. Len(new) \in Nat /\ 1 .. Len(new) = 1 .. Len(schemas[k])
          BY <4>3, <4>4, LenProperties
        <4>6. Len(new) = Len(schemas[k])
          BY <4>1, <4>5
        <4> QED
          BY <4>3, <4>6
      <3>3. schemas' = [schemas EXCEPT ![k] = new]
        BY <2>2
      <3> HIDE DEF new
      <3>4. Extends(new, schemas[k])
        BY <1>3, <1>4, <3>1, <3>2
      <3> HIDE DEF Extends
      <3>5. /\ schemas' \in [Ids \X Forms -> Seq(SchemaRows)] /\ schemas'[k] = new
            /\ \A x \in Ids \X Forms : x # k => schemas'[x] = schemas[x]
        BY <1>3, <3>2, <3>3 DEF RepositoryInv, TypeOK
      <3> QED
        BY <2>2, <3>4, <3>5 DEF RepositoryInv, TypeOK
    <2> HIDE DEF Extends, inserted
    <2> QED
      BY <1>2, <2>1, <2>2
  <1> HIDE DEF inserted
  <1>9. \A x \in Ids \X Forms : Extends(schemas'[x], schemas[x])
    <2> HIDE DEF Extends
    <2> QED
      BY <1>4, <1>7, <1>8
  <1>10. Len(rows') \in Nat /\ Len(rows) <= Len(rows')
    BY <1>1 DEF RepositoryInv, TypeOK
  <1>11. update' \in [Updates -> UpdateStates] /\ JobsKnown'
    BY <1>1, <1>10, JobsStep
  <1>12. TypeOK'
    BY <1>1, <1>8, <1>11 DEF RepositoryInv, TypeOK
  <1>13. Heads' /\ Attributes'
    BY <1>1 DEF RepositoryInv, Heads, FirstOf, Attributes, Present
  <1>14. RowsKnown'
    <2> SUFFICES ASSUME NEW r \in Ids, NEW f \in Forms, schemas'[<<r, f>>] # << >>
                 PROVE  r \in 1 .. Len(rows)
      BY <1>1 DEF RowsKnown
    <2>1. CASE <<r, f>> = k
      BY <2>1, <1>3 DEF k
    <2>2. CASE <<r, f>> # k
      BY <2>2, <1>8 DEF RepositoryInv, RowsKnown
    <2> QED
      BY <2>1, <2>2
  <1>15. AllFit'
    <2> SUFFICES ASSUME NEW r \in 1 .. Len(rows), r \notin torn
                 PROVE  Fits(r, rows[r].content)'
      BY <1>1 DEF AllFit
    <2>1. PICK c : c = rows[r].content
      OBVIOUS
    <2>2. c \in Contents /\ Fits(r, c) /\ r \in Ids
      BY <2>1, RowType, ConstantsAssumption DEF RepositoryInv, AllFit, TypeOK, Ids
    <2>3. \A f \in Forms : Extends(schemas'[<<r, f>>], schemas[<<r, f>>])
      BY <1>9, <2>2
    <2>4. Relates(r, c)'
      BY <1>1, <2>2 DEF Fits, Relates
    <2>5. HasForms(r, c)'
      <3> SUFFICES ASSUME NEW t \in DOMAIN c, c[t] # NoForm PROVE schemas'[<<r, c[t]>>] # << >>
        BY DEF HasForms
      <3>1. c[t] \in Forms
        BY <2>2, ContentType
      <3>2. schemas[<<r, c[t]>>] # << >>
        BY <2>2 DEF Fits, HasForms
      <3>3. Len(schemas[<<r, c[t]>>]) \in Nat \ {0}
        BY <3>1, <3>2, <2>2, <1>4, EmptySeq
      <3>4. /\ schemas'[<<r, c[t]>>] \in Seq(SchemaRows)
            /\ Len(schemas[<<r, c[t]>>]) <= Len(schemas'[<<r, c[t]>>])
        BY <3>1, <2>3
      <3>5. Len(schemas'[<<r, c[t]>>]) # 0
        BY <3>3, <3>4, LenProperties
      <3> QED
        BY <3>4, <3>5, EmptySeq
    <2>6. OnlyForms(r, c)'
      <3> SUFFICES ASSUME NEW f \in Forms, NEW i \in 1 .. Len(schemas'[<<r, f>>])
                   PROVE  Given(r, f, i, c)'
        BY DEF OnlyForms
      <3>1. CASE schemas'[<<r, f>>][i].restored
        BY <3>1 DEF Given
      <3>2. CASE /\ i \in 1 .. Len(schemas[<<r, f>>])
                 /\ schemas'[<<r, f>>][i] = schemas[<<r, f>>][i]
        <4>1. Given(r, f, i, c)
          BY <3>2, <2>2 DEF Fits, OnlyForms
        <4> QED
          BY <4>1, <3>2, <1>1 DEF Given
      <3> QED
        BY <3>1, <3>2, <2>3
    <2>7. Fits(r, c)'
      BY <2>4, <2>5, <2>6 DEF Fits
    <2> QED
      BY <1>1, <2>1, <2>7
  <1> QED
    BY <1>11, <1>12, <1>13, <1>14, <1>15 DEF RepositoryInv

-----------------------------------------------------------------------------
(***************************************************************************)
(* The transaction of an update that found the content old of the row r,   *)
(* and fetched new; the tables hold cur, one of the two.                   *)
(***************************************************************************)

LEMMA AddedType ==
    ASSUME NEW old \in Contents, NEW new \in Contents
    PROVE  Added(old, new) \subseteq DOMAIN new /\ Added(old, new) \subseteq Types
  BY ContentType DEF Added, Changed

(* A type with attributes, or of a repository, keeps its rows. *)
LEMMA TypesUpdated ==
    ASSUME TypeOK, NEW old \in Contents, NEW new \in Contents, NEW kept, NEW t \in Types,
           Added(old, new) # {} => NewNumber \in Numbers,
           NEW after, after = TypesAfter(t, kept, old, new)
    PROVE  /\ after \in Seq(Numbers)
           /\ t \in Added(old, new) => after # << >>
           /\ (\E pair \in kept : pair[2] = FirstOf(t)) /\ types[t] # << >> =>
                after = types[t]
           /\ \A k \in 1 .. Len(types[t]) : <<t, types[t][k]>> \in used =>
                \E l \in 1 .. Len(after) : after[l] = types[t][k]
  <1>1. types[t] \in Seq(Numbers) /\ Len(types[t]) \in Nat
    BY LenProperties DEF TypeOK
  <1>2. CASE types[t] = << >>
    <2>1. t \in Added(old, new) => after = <<NewNumber>> /\ NewNumber \in Numbers
      BY <1>2 DEF TypesAfter
    <2>2. t \notin Added(old, new) => after = << >>
      BY <1>2 DEF TypesAfter
    <2>3. after \in Seq(Numbers) /\ (t \in Added(old, new) => after # << >>)
      <3>1. CASE t \in Added(old, new)
        <4>1. NewNumber \in Numbers
          BY <3>1
        <4>2. <<NewNumber>> \in Seq(Numbers) /\ <<NewNumber>> # << >>
          BY <4>1, One
        <4> QED
          BY <4>2, <3>1, <2>1
      <3>2. CASE t \notin Added(old, new)
        BY <3>2, <2>2
      <3> QED
        BY <3>1, <3>2
    <2>4. Len(types[t]) = 0
      BY <1>2
    <2> QED
      BY <1>2, <2>3, <2>4
  <1>3. CASE types[t] # << >> /\ t \in Gone(old, new) /\ Deletable(FirstOf(t), kept)
    <2>1. after = Tail(types[t])
      BY <1>3 DEF TypesAfter
    <2>2. /\ after \in Seq(Numbers) /\ Len(after) = Len(types[t]) - 1
          /\ \A i \in 1 .. Len(types[t]) - 1 : after[i] = types[t][i + 1]
      BY <1>1, <1>3, <2>1, NotEmpty
    <2>3. t \notin Added(old, new)
      BY <1>3 DEF Gone, Added, Changed
    <2>4. FirstOf(t) \notin used /\ \A pair \in kept : pair[2] # FirstOf(t)
      BY <1>3 DEF Deletable
    <2>5. ASSUME NEW k \in 1 .. Len(types[t]), <<t, types[t][k]>> \in used
          PROVE  \E l \in 1 .. Len(after) : after[l] = types[t][k]
      <3>1. k # 1
        BY <2>4, <2>5 DEF FirstOf
      <3>2. k - 1 \in 1 .. Len(types[t]) - 1 /\ (k - 1) + 1 = k
        BY <3>1, <1>1
      <3> QED
        BY <3>2, <2>2
    <2> QED
      BY <2>2, <2>3, <2>4, <2>5
  <1>4. CASE /\ types[t] # << >>
             /\ ~(t \in Gone(old, new) /\ Deletable(FirstOf(t), kept))
    BY <1>1, <1>4 DEF TypesAfter
  <1> QED
    BY <1>2, <1>3, <1>4

LEMMA RelationUpdated ==
    ASSUME RepositoryInv, NEW r, NEW old \in Contents, NEW new \in Contents,
           NEW cur \in {old, new}, Relates(r, cur), NEW t \in Types
    PROVE  t \in DOMAIN new <=> \/ \E n \in Numbers : <<r, <<t, n>>>> \in Kept(r, old, new)
                               \/ t \in Added(old, new)
  <1>1. t \in DOMAIN cur <=> \E n \in Numbers : <<r, <<t, n>>>> \in related
    BY DEF Relates
  <1>2. \A n : <<r, <<t, n>>>> \in related => types[t] # << >> /\ <<t, n>> = FirstOf(t)
    BY DEF RepositoryInv, Heads
  <1>3. \A n : <<r, <<t, n>>>> \in Kept(r, old, new) <=>
                  <<r, <<t, n>>>> \in related /\ t \notin Gone(old, new)
    BY <1>2 DEF Kept, FirstOf
  <1> QED
    BY <1>1, <1>3 DEF Added, Gone, Changed

(* Of one form: what was left, and what is added, has its type. *)
LEMMA FormsTyped ==
    ASSUME TypeOK, NEW r \in Ids, NEW f \in Forms,
           NEW old \in Contents, NEW new \in Contents,
           Added(old, new) # {} => NewNumber \in Numbers,
           \A t \in Added(old, new) : types'[t] \in Seq(Numbers) /\ types'[t] # << >>
    PROVE  FormsAfter(r, f, old, new) \in Seq(SchemaRows)
  <1> DEFINE before == schemas[<<r, f>>]
             left == IF f \in DeletedForms(old, new) /\ before # << >>
                     THEN Tail(before) ELSE before
             added == {t \in Added(old, new) : new[t] = f}
             t == CHOOSE a \in added : TRUE
             row == [nr |-> NewNumber, type |-> <<t, types'[t][1]>>, restored |-> FALSE]
  <1>1. FormsAfter(r, f, old, new) = IF left # << >> \/ added = {} THEN left ELSE <<row>>
    BY DEF FormsAfter
  <1>2. before \in Seq(SchemaRows)
    BY DEF TypeOK
  <1>3. left \in Seq(SchemaRows)
    <2> HIDE DEF before
    <2> QED
      BY <1>2, NotEmpty
  <1>4. added # {} => <<row>> \in Seq(SchemaRows)
    <2> SUFFICES ASSUME added # {} PROVE <<row>> \in Seq(SchemaRows)
      OBVIOUS
    <2>1. t \in added
      OBVIOUS
    <2>2. t \in Added(old, new)
      BY <2>1
    <2> HIDE DEF t
    <2>3. t \in Types /\ types'[t][1] \in Numbers /\ NewNumber \in Numbers
      BY <2>2, AddedType, NotEmpty
    <2>4. row \in SchemaRows
      BY <2>3 DEF SchemaRows, TypeIds
    <2> QED
      BY <2>4, One
  <1> HIDE DEF left, row, added
  <1> QED
    BY <1>1, <1>3, <1>4

(* A row s at i of a form, after the update: UiSchema.addRemote wrote it,  *)
(* or it is the first and new gives it, with a type that is related        *)
Written(r, f, i, s, old, new) ==
    \/ s.restored
    \/ /\ i = 1 /\ s.type[1] \in DOMAIN new /\ new[s.type[1]] = f
       /\ \/ <<r, s.type>> \in Kept(r, old, new)
          \/ /\ s.type[1] \in Added(old, new)
             /\ s.type = <<s.type[1], types'[s.type[1]][1]>>

LEMMA FormsUpdated ==
    ASSUME RepositoryInv, NEW r \in Ids, NEW f \in Forms,
           NEW old \in Contents, NEW new \in Contents, NEW cur \in {old, new},
           HasForms(r, cur), OnlyForms(r, cur)
    PROVE  /\ \A t \in DOMAIN new : new[t] = f => FormsAfter(r, f, old, new) # << >>
           /\ \A i \in 1 .. Len(FormsAfter(r, f, old, new)) :
                Written(r, f, i, FormsAfter(r, f, old, new)[i], old, new)
  <1> DEFINE before == schemas[<<r, f>>]
             left == IF f \in DeletedForms(old, new) /\ before # << >>
                     THEN Tail(before) ELSE before
             added == {t \in Added(old, new) : new[t] = f}
             a == CHOOSE t \in added : TRUE
             row == [nr |-> NewNumber, type |-> <<a, types'[a][1]>>, restored |-> FALSE]
             after == FormsAfter(r, f, old, new)
  <1>1. after = IF left # << >> \/ added = {} THEN left ELSE <<row>>
    BY DEF FormsAfter
  <1>2. before \in Seq(SchemaRows) /\ Len(before) \in Nat
    BY LenProperties DEF RepositoryInv, TypeOK
  <1>3. /\ f # NoForm /\ DOMAIN old \subseteq Types /\ DOMAIN new \subseteq Types
        /\ \A s, t \in DOMAIN old : s # t /\ old[s] = old[t] => old[s] = NoForm
    BY ConstantsAssumption, ContentType
  <1>4. f \in DeletedForms(old, new) <=>
          \E u \in Gone(old, new) \cup Changed(old, new) : old[u] = f
    BY <1>3 DEF DeletedForms
  <1>5. \A i \in 1 .. Len(before) : Given(r, f, i, cur)
    BY DEF OnlyForms
  <1> HIDE DEF before
  (* A form that is not deleted stays with its type *)
  <1>6. ASSUME f \notin DeletedForms(old, new), NEW u \in DOMAIN cur, cur[u] = f
        PROVE  u \in DOMAIN new /\ new[u] = f /\ u \notin Gone(old, new)
    BY <1>4, <1>6 DEF Gone, Changed
  <1>7. ASSUME NEW i \in 1 .. Len(left) PROVE Written(r, f, i, left[i], old, new)
    <2>1. CASE f \in DeletedForms(old, new) /\ before # << >>
      <3>1. /\ left = Tail(before) /\ Len(left) = Len(before) - 1
            /\ \A k \in 1 .. Len(before) - 1 : left[k] = before[k + 1]
        BY <2>1, <1>2, NotEmpty
      <3> HIDE DEF left
      <3>2. i + 1 \in 1 .. Len(before) /\ left[i] = before[i + 1] /\ i + 1 # 1
        BY <3>1, <1>2, <1>7
      <3>3. before[i + 1].restored
        BY <1>5, <3>2 DEF Given, before
      <3> QED
        BY <3>2, <3>3 DEF Written
    <2>2. CASE ~(f \in DeletedForms(old, new) /\ before # << >>)
      <3>1. left = before /\ i \in 1 .. Len(before)
        BY <2>2, <1>7
      <3>2. before # << >>
        BY <3>1
      <3>3. Given(r, f, i, cur)
        BY <1>5, <3>1
      <3> SUFFICES ASSUME ~before[i].restored PROVE Written(r, f, i, before[i], old, new)
        BY <3>1 DEF Written
      <3>4. /\ i = 1 /\ <<r, before[i].type>> \in related
            /\ before[i].type[1] \in DOMAIN cur /\ cur[before[i].type[1]] = f
        BY <3>3 DEF Given, before
      <3>5. /\ before[i].type[1] \in DOMAIN new /\ new[before[i].type[1]] = f
            /\ before[i].type[1] \notin Gone(old, new)
        BY <2>2, <3>2, <3>4, <1>6
      <3>6. <<r, before[i].type>> \in Kept(r, old, new)
        BY <3>4, <3>5 DEF Kept, FirstOf
      <3> QED
        BY <3>4, <3>5, <3>6 DEF Written
    <2> QED
      BY <2>1, <2>2
  <1>8. ASSUME added # {} PROVE Written(r, f, 1, row, old, new)
    <2>1. a \in added
      BY <1>8
    <2>2. a \in Added(old, new) /\ new[a] = f /\ a \in DOMAIN new
      BY <2>1, AddedType
    <2> HIDE DEF a
    <2>3. row.type = <<a, types'[a][1]>> /\ row.type[1] = a
      OBVIOUS
    <2> HIDE DEF row
    <2> QED
      BY <2>2, <2>3 DEF Written
  <1>9. ASSUME NEW t \in DOMAIN new, new[t] = f, added = {}
        PROVE  left # << >>
    <2>1. t \notin Added(old, new)
      BY <1>9
    <2>2. t \in DOMAIN old /\ old[t] = f
      BY <2>1, <1>3, <1>9 DEF Added, Changed
    <2>3. f \notin DeletedForms(old, new)
      <3> SUFFICES ASSUME NEW u \in Gone(old, new) \cup Changed(old, new), old[u] = f
                   PROVE  FALSE
        BY <1>4
      <3>1. u \in DOMAIN old /\ u # t
        BY <1>9, <2>2 DEF Gone, Changed
      <3> QED
        BY <3>1, <2>2, <1>3
    <2>4. t \in DOMAIN cur /\ cur[t] = f
      BY <2>2, <1>9
    <2>5. before # << >>
      BY <2>4, <1>3 DEF HasForms, before
    <2> QED
      BY <2>3, <2>5
  <1> HIDE DEF left, added, row
  <1>10. \A t \in DOMAIN new : new[t] = f => after # << >>
    <2>1. <<row>> # << >>
      OBVIOUS
    <2> QED
      BY <1>1, <1>9, <2>1
  <1>11. \A i \in 1 .. Len(after) : Written(r, f, i, after[i], old, new)
    <2>1. CASE left # << >> \/ added = {}
      BY <2>1, <1>1, <1>7
    <2>2. CASE ~(left # << >> \/ added = {})
      <3>1. after = <<row>>
        BY <2>2, <1>1
      <3> HIDE DEF after
      <3>2. \A i \in 1 .. Len(after) : i = 1 /\ after[i] = row
        BY <3>1
      <3> QED
        BY <2>2, <3>2, <1>8
    <2> QED
      BY <2>1, <2>2
  <1> QED
    BY <1>10, <1>11

LEMMA CommitChange ==
    ASSUME RepositoryInv, NEW j \in Updates, NEW url \in Urls, NEW r \in 1 .. Len(rows) + 1,
           NEW old \in Contents, NEW new \in Contents, r > Len(rows) => old = NoContent,
           WriteRepository(url, r, old, new), update' = [update EXCEPT ![j] = Idle],
           UNCHANGED <<used, chosen, late>>
    PROVE  RepositoryInv'
  <1>1. Len(rows) \in Nat /\ rows \in Seq([url : Urls, content : Contents])
    BY DEF RepositoryInv, TypeOK
  <1>2. /\ r <= MaxRows
        /\ rows' = IF r > Len(rows) THEN Append(rows, [url |-> url, content |-> new])
                   ELSE [rows EXCEPT ![r].content = new]
    BY DEF WriteRepository
  <1>3. types' = [t \in Types |-> TypesAfter(t, Kept(r, old, new), old, new)]
    BY DEF WriteRepository
  <1>4. related' = Kept(r, old, new) \cup {<<r, <<t, types'[t][1]>>>> : t \in Added(old, new)}
    BY DEF WriteRepository
  <1>5. schemas' = [k \in Ids \X Forms |->
                      IF k[1] = r THEN FormsAfter(r, k[2], old, new) ELSE schemas[k]]
    BY DEF WriteRepository
  <1>6. /\ Added(old, new) # {} => inserts < MaxInserts
        /\ inserts' = IF Added(old, new) = {} THEN inserts ELSE inserts + 1
    BY DEF WriteRepository
  <1>7. torn' = IF r > Len(rows) \/ rows[r].content \in {old, new} THEN torn
                ELSE torn \cup {r}
    BY DEF WriteRepository
  <1>8. r \in Ids
    BY <1>1, <1>2, ConstantsAssumption DEF Ids
  (* The rows *)
  <1>9. /\ rows' \in Seq([url : Urls, content : Contents]) /\ Len(rows') \in Nat
        /\ Len(rows') <= MaxRows
        /\ 1 .. Len(rows) \subseteq 1 .. Len(rows') /\ Len(rows) <= Len(rows')
        /\ r \in 1 .. Len(rows') /\ rows'[r].content = new
        /\ \A i \in 1 .. Len(rows') : i # r => i \in 1 .. Len(rows) /\ rows'[i] = rows[i]
    <2> DEFINE S == [url : Urls, content : Contents]
               row == [url |-> url, content |-> new]
               put == [rows[r] EXCEPT !.content = new]
    <2>1. rows \in Seq(S) /\ row \in S /\ row.content = new /\ Len(rows) <= MaxRows
      BY <1>1 DEF RepositoryInv, TypeOK
    <2>2. r \in 1 .. Len(rows) => put \in S /\ put.content = new
      <3>1. r \in 1 .. Len(rows) => rows[r] \in [url : Urls, content : Contents]
        BY <1>1, ElementOfSeq
      <3> QED
        BY <3>1
    <2>3. rows' = IF r > Len(rows) THEN Append(rows, row) ELSE [rows EXCEPT ![r] = put]
      BY <1>2
    <2> SUFFICES /\ rows' \in Seq(S) /\ Len(rows') \in Nat /\ Len(rows') <= MaxRows
                 /\ 1 .. Len(rows) \subseteq 1 .. Len(rows') /\ Len(rows) <= Len(rows')
                 /\ r \in 1 .. Len(rows') /\ rows'[r].content = new
                 /\ \A i \in 1 .. Len(rows') :
                      i # r => i \in 1 .. Len(rows) /\ rows'[i] = rows[i]
      OBVIOUS
    <2> HIDE DEF S, row, put
    <2>4. CASE r > Len(rows)
      <3>1. rows' = Append(rows, row) /\ r = Len(rows) + 1
        BY <1>1, <2>3, <2>4
      <3>2. /\ rows' \in Seq(S) /\ Len(rows') = Len(rows) + 1
            /\ \A i \in 1 .. Len(rows) : rows'[i] = rows[i]
            /\ rows'[Len(rows) + 1] = row
        BY <2>1, <3>1, AppendProperties
      <3>3. \A i \in 1 .. Len(rows') : i # r => i \in 1 .. Len(rows)
        BY <3>1, <3>2, <1>1
      <3> QED
        BY <3>1, <3>2, <3>3, <1>1, <1>2, <2>1
    <2>5. CASE ~(r > Len(rows))
      <3>1. rows' = [rows EXCEPT ![r] = put] /\ r \in 1 .. Len(rows)
        BY <1>1, <2>3, <2>5
      <3>2. /\ rows' \in Seq(S) /\ Len(rows') = Len(rows)
            /\ \A i \in 1 .. Len(rows) : rows'[i] = IF i = r THEN put ELSE rows[i]
        BY <2>1, <2>2, <3>1, ExceptSeq
      <3> QED
        BY <3>1, <3>2, <1>1, <2>1, <2>2
    <2> QED
      BY <2>4, <2>5
  (* The types *)
  <1>10. /\ inserts' \in Numbers
         /\ Added(old, new) # {} => NewNumber \in Numbers
    <2>1. inserts \in 1 .. MaxInserts /\ MaxInserts \in Nat
      BY ConstantsAssumption DEF RepositoryInv, TypeOK, Numbers
    <2> QED
      BY <2>1, <1>6 DEF Numbers, NewNumber
  <1>11. \A t \in Types :
           /\ types'[t] \in Seq(Numbers)
           /\ t \in Added(old, new) => types'[t] # << >>
           /\ (\E pair \in Kept(r, old, new) : pair[2] = FirstOf(t)) /\ types[t] # << >> =>
                  types'[t] = types[t]
           /\ \A k \in 1 .. Len(types[t]) : <<t, types[t][k]>> \in used =>
                  \E l \in 1 .. Len(types'[t]) : types'[t][l] = types[t][k]
    <2> SUFFICES ASSUME NEW t \in Types
                 PROVE  /\ types'[t] \in Seq(Numbers)
                        /\ t \in Added(old, new) => types'[t] # << >>
                        /\ (\E pair \in Kept(r, old, new) : pair[2] = FirstOf(t))
                             /\ types[t] # << >> => types'[t] = types[t]
                        /\ \A k \in 1 .. Len(types[t]) : <<t, types[t][k]>> \in used =>
                             \E l \in 1 .. Len(types'[t]) : types'[t][l] = types[t][k]
      OBVIOUS
    <2>1. types'[t] = TypesAfter(t, Kept(r, old, new), old, new)
      BY <1>3
    <2>2. PICK after : after = types'[t]
      OBVIOUS
    <2>3. TypeOK
      BY DEF RepositoryInv
    <2>5. Added(old, new) # {} => NewNumber \in Numbers
      BY <1>10
    <2>4. /\ after \in Seq(Numbers)
          /\ t \in Added(old, new) => after # << >>
          /\ (\E pair \in Kept(r, old, new) : pair[2] = FirstOf(t)) /\ types[t] # << >> =>
               after = types[t]
          /\ \A k \in 1 .. Len(types[t]) : <<t, types[t][k]>> \in used =>
               \E l \in 1 .. Len(after) : after[l] = types[t][k]
      BY <2>1, <2>2, <2>3, <2>5, TypesUpdated
    <2> QED
      BY <2>2, <2>4
  <1>12. /\ Added(old, new) \subseteq DOMAIN new /\ Added(old, new) \subseteq Types
         /\ \A t \in Added(old, new) :
              types'[t] \in Seq(Numbers) /\ types'[t] # << >> /\ types'[t][1] \in Numbers
    BY <1>11, AddedType, NotEmpty
  (* The types of the tables *)
  <1>13. Kept(r, old, new) \subseteq related /\ related \subseteq Ids \X TypeIds
    BY DEF Kept, RepositoryInv, TypeOK
  <1>14. related' \subseteq Ids \X TypeIds
    <2>1. \A t \in Added(old, new) : <<r, <<t, types'[t][1]>>>> \in Ids \X TypeIds
      BY <1>12, <1>8 DEF TypeIds
    <2> QED
      BY <2>1, <1>13, <1>4
  <1>15. schemas' \in [Ids \X Forms -> Seq(SchemaRows)]
    <2> SUFFICES ASSUME NEW k \in Ids \X Forms
                 PROVE  (IF k[1] = r THEN FormsAfter(r, k[2], old, new) ELSE schemas[k])
                          \in Seq(SchemaRows)
      BY <1>5
    <2>1. k[2] \in Forms /\ schemas[k] \in Seq(SchemaRows)
      BY DEF RepositoryInv, TypeOK
    <2>2. FormsAfter(r, k[2], old, new) \in Seq(SchemaRows)
      <3>1. PICK f \in Forms : f = k[2]
        BY <2>1
      <3>2. TypeOK
        BY DEF RepositoryInv
      <3>4. Added(old, new) # {} => NewNumber \in Numbers
        BY <1>10
      <3>3. FormsAfter(r, f, old, new) \in Seq(SchemaRows)
        BY <3>2, <3>4, <1>8, <1>12, FormsTyped
      <3> QED
        BY <3>1, <3>3
    <2> QED
      BY <2>1, <2>2
  <1>16. update' \in [Updates -> UpdateStates] /\ JobsKnown'
    BY <1>9, JobsStep
  <1>17. TypeOK'
    <2>1. torn' \subseteq Ids /\ types' \in [Types -> Seq(Numbers)]
      BY <1>11, <1>8, <1>3, <1>7 DEF RepositoryInv, TypeOK
    <2>2. inserts' \in Numbers /\ rows' \in Seq([url : Urls, content : Contents])
          /\ Len(rows') <= MaxRows
      BY <1>9, <1>10
    <2>3. used' \subseteq TypeIds /\ late' \subseteq used' /\ chosen' \subseteq TypeIds
      BY DEF RepositoryInv, TypeOK
    <2> QED
      BY <1>14, <1>15, <1>16, <2>1, <2>2, <2>3 DEF TypeOK
  (* What is related stays the first of its type *)
  <1>18. Heads'
    <2> SUFFICES ASSUME NEW pair \in related'
                 PROVE  /\ pair[1] \in 1 .. Len(rows') /\ types'[pair[2][1]] # << >>
                        /\ pair[2] = <<pair[2][1], types'[pair[2][1]][1]>>
      BY DEF Heads, FirstOf
    <2>1. CASE pair \in Kept(r, old, new)
      <3>1. pair \in related /\ pair[2][1] \in Types
        BY <2>1, <1>13 DEF TypeIds
      <3>2. PICK t \in Types : t = pair[2][1]
        BY <3>1
      <3>3. pair[1] \in 1 .. Len(rows) /\ types[t] # << >> /\ pair[2] = FirstOf(t)
        BY <3>1, <3>2 DEF RepositoryInv, Heads
      <3>4. types'[t] = types[t]
        BY <2>1, <3>3, <1>11
      <3> QED
        BY <3>2, <3>3, <3>4, <1>9 DEF FirstOf
    <2>2. CASE pair \notin Kept(r, old, new)
      <3>1. PICK t \in Added(old, new) : pair = <<r, <<t, types'[t][1]>>>>
        BY <2>2, <1>4
      <3>2. pair[1] = r /\ pair[2] = <<t, types'[t][1]>> /\ pair[2][1] = t
        BY <3>1
      <3> QED
        BY <3>2, <1>9, <1>12
    <2> QED
      BY <2>1, <2>2
  <1>19. \A f \in Forms : schemas'[<<r, f>>] = FormsAfter(r, f, old, new)
    BY <1>8, <1>5
  <1>20. \A i \in Ids, f \in Forms : i # r => schemas'[<<i, f>>] = schemas[<<i, f>>]
    BY <1>5
  <1>21. RowsKnown'
    <2> SUFFICES ASSUME NEW i \in Ids, NEW f \in Forms, schemas'[<<i, f>>] # << >>
                 PROVE  i \in 1 .. Len(rows')
      BY DEF RowsKnown
    <2>1. CASE i = r
      BY <2>1, <1>9
    <2>2. CASE i # r
      BY <2>2, <1>9, <1>20 DEF RepositoryInv, RowsKnown
    <2> QED
      BY <2>1, <2>2
  (* r gets the new content, all other rows keep theirs *)
  <1>22. ASSUME NEW cur \in {old, new}, Fits(r, cur)
         PROVE  Fits(r, new)'
    <2>1. Relates(r, cur) /\ HasForms(r, cur) /\ OnlyForms(r, cur)
      BY <1>22 DEF Fits
    <2>2. Relates(r, new)'
      <3> SUFFICES ASSUME NEW t \in Types
                   PROVE  t \in DOMAIN new <=> \E n \in Numbers : <<r, <<t, n>>>> \in related'
        BY DEF Relates
      <3>1. t \in DOMAIN new <=> \/ \E n \in Numbers : <<r, <<t, n>>>> \in Kept(r, old, new)
                                 \/ t \in Added(old, new)
        BY <2>1, RelationUpdated
      <3>2. \A n : <<r, <<t, n>>>> \in related' <=>
                    \/ <<r, <<t, n>>>> \in Kept(r, old, new)
                    \/ t \in Added(old, new) /\ n = types'[t][1]
        BY <1>4
      <3> QED
        BY <3>1, <3>2, <1>12
    <2>3. \A f \in Forms :
            /\ \A t \in DOMAIN new : new[t] = f => schemas'[<<r, f>>] # << >>
            /\ \A i \in 1 .. Len(schemas'[<<r, f>>]) :
                 Written(r, f, i, schemas'[<<r, f>>][i], old, new)
      <3> SUFFICES ASSUME NEW f \in Forms
                   PROVE  /\ \A t \in DOMAIN new : new[t] = f => schemas'[<<r, f>>] # << >>
                          /\ \A i \in 1 .. Len(schemas'[<<r, f>>]) :
                               Written(r, f, i, schemas'[<<r, f>>][i], old, new)
        OBVIOUS
      <3>1. /\ \A t \in DOMAIN new : new[t] = f => FormsAfter(r, f, old, new) # << >>
            /\ \A i \in 1 .. Len(FormsAfter(r, f, old, new)) :
                 Written(r, f, i, FormsAfter(r, f, old, new)[i], old, new)
        BY <2>1, <1>8, FormsUpdated
      <3> QED
        BY <1>19, <3>1
    <2>4. HasForms(r, new)'
      <3>1. \A t \in DOMAIN new : new[t] # NoForm => new[t] \in Forms
        BY ContentType
      <3> QED
        BY <2>3, <3>1 DEF HasForms
    <2>5. OnlyForms(r, new)'
      <3> SUFFICES ASSUME NEW f \in Forms, NEW i \in 1 .. Len(schemas'[<<r, f>>])
                   PROVE  Given(r, f, i, new)'
        BY DEF OnlyForms
      <3>1. PICK s : s = schemas'[<<r, f>>][i]
        OBVIOUS
      <3>2. Written(r, f, i, s, old, new)
        BY <2>3, <3>1
      <3>3. \A t \in Added(old, new) : <<r, <<t, types'[t][1]>>>> \in related'
        BY <1>4
      <3>4. s.restored \/ (/\ i = 1 /\ s.type[1] \in DOMAIN new /\ new[s.type[1]] = f
                           /\ <<r, s.type>> \in related')
        <4>1. CASE s.restored \/ <<r, s.type>> \in Kept(r, old, new)
          BY <4>1, <3>2, <1>4 DEF Written
        <4>2. CASE ~s.restored /\ <<r, s.type>> \notin Kept(r, old, new)
          <5>1. /\ i = 1 /\ s.type[1] \in DOMAIN new /\ new[s.type[1]] = f
                /\ s.type[1] \in Added(old, new)
                /\ s.type = <<s.type[1], types'[s.type[1]][1]>>
            BY <4>2, <3>2 DEF Written
          <5>2. <<r, <<s.type[1], types'[s.type[1]][1]>>>> \in related'
            BY <5>1, <3>3
          <5>3. <<r, s.type>> \in related'
            <6>1. PICK t : t = s.type[1]
              OBVIOUS
            <6>2. <<r, <<t, types'[t][1]>>>> \in related' /\ s.type = <<t, types'[t][1]>>
              BY <5>1, <5>2, <6>1
            <6> QED
              BY <6>2, Zenon
          <5> QED
            BY <5>1, <5>3
        <4> QED
          BY <4>1, <4>2
      <3> QED
        BY <3>1, <3>4 DEF Given
    <2> QED
      BY <2>2, <2>4, <2>5 DEF Fits
  <1>23. ASSUME r \notin torn' PROVE Fits(r, new)'
    <2>1. CASE r > Len(rows)
      <3>1. r = Len(rows) + 1 /\ old = NoContent
        BY <2>1, <1>1
      <3>2. \A pair \in related : pair[1] # r
        BY <3>1, <1>1 DEF RepositoryInv, Heads
      <3>3. \A f \in Forms : schemas[<<r, f>>] = << >>
        BY <3>1, <1>1, <1>8 DEF RepositoryInv, RowsKnown
      <3>4. Relates(r, NoContent) /\ HasForms(r, NoContent)
        BY <3>2, NoContentType DEF Relates, HasForms
      <3>5. OnlyForms(r, NoContent)
        BY <3>3 DEF OnlyForms
      <3>6. Fits(r, NoContent)
        BY <3>4, <3>5 DEF Fits
      <3> QED
        BY <3>1, <3>6, <1>22
    <2>2. CASE ~(r > Len(rows))
      <3>1. r \in 1 .. Len(rows) /\ r \notin torn /\ rows[r].content \in {old, new}
        BY <2>2, <1>1, <1>23, <1>7
      <3>2. PICK cur \in {old, new} : cur = rows[r].content
        BY <3>1
      <3>3. Fits(r, cur)
        BY <3>1, <3>2 DEF RepositoryInv, AllFit
      <3> QED
        BY <3>3, <1>22
    <2> QED
      BY <2>1, <2>2
  <1>24. AllFit'
    <2> SUFFICES ASSUME NEW i \in 1 .. Len(rows'), i \notin torn'
                 PROVE  Fits(i, rows[i].content)'
      BY DEF AllFit
    <2>1. CASE i = r
      BY <2>1, <1>9, <1>23
    <2>2. CASE i # r
      <3>1. i \in 1 .. Len(rows) /\ rows'[i] = rows[i] /\ i \notin torn /\ i \in Ids
        BY <2>2, <1>9, <1>7, ConstantsAssumption DEF Ids
      <3>2. PICK c : c = rows[i].content
        OBVIOUS
      <3>3. c \in Contents /\ Fits(i, c)
        BY <3>1, <3>2, RowType DEF RepositoryInv, AllFit
      <3>4. \A x : <<i, x>> \in related' <=> <<i, x>> \in related
        BY <2>2, <1>4 DEF Kept
      <3>5. Fits(i, c)'
        BY <2>2, <3>1, <3>3, <3>4, <1>20, FitsSame
      <3> QED
        BY <3>1, <3>2, <3>5
    <2> QED
      BY <2>1, <2>2
  (* A type with attributes keeps its rows *)
  <1>25. Attributes'
    <2> SUFFICES ASSUME NEW i \in used, i \notin late PROVE Present(i)'
      BY DEF Attributes
    <2>1. i[1] \in Types /\ i = <<i[1], i[2]>>
      BY DEF RepositoryInv, TypeOK, TypeIds
    <2>2. PICK k \in 1 .. Len(types[i[1]]) : types[i[1]][k] = i[2]
      BY DEF RepositoryInv, Attributes, Present
    <2>3. \E l \in 1 .. Len(types'[i[1]]) : types'[i[1]][l] = i[2]
      BY <2>1, <2>2, <1>11
    <2> QED
      BY <2>3 DEF Present
  <1> QED
    BY <1>16, <1>17, <1>18, <1>21, <1>24, <1>25 DEF RepositoryInv

LEMMA CommitRepositoryStep ==
    ASSUME RepositoryInv, NEW j \in Updates, CommitRepository(j)
    PROVE  RepositoryInv'
  <1>1. /\ update[j].at = "repository" /\ update[j] \in UpdateStates
        /\ update' = [update EXCEPT ![j] = Idle] /\ UNCHANGED <<used, chosen, late>>
    BY DEF CommitRepository, RepositoryInv, TypeOK, user
  <1> DEFINE repo == update[j].repo
             newRow == IF repo.id = 0 THEN Len(rows) + 1 ELSE repo.id
  <1>2. /\ update[j].url \in Urls /\ repo.content \in Contents
        /\ repo.id \in 0 .. Len(rows) /\ (repo.id = 0 => repo.content = NoContent)
    BY <1>1 DEF UpdateStates, Idle, RepositoryInv, JobsKnown, JobOf
  <1>3. PICK new \in Publishable(update[j].url) :
          WriteRepository(update[j].url, newRow, repo.content, new)
    BY DEF CommitRepository
  <1>4. new \in Contents
    BY <1>2, <1>3, ConstantsAssumption
  <1>5. Len(rows) \in Nat
    BY DEF RepositoryInv, TypeOK
  <1>6. newRow \in 1 .. Len(rows) + 1 /\ (newRow > Len(rows) => repo.content = NoContent)
    BY <1>2, <1>5
  <1> HIDE DEF repo, newRow
  <1>7. PICK url \in Urls, r \in 1 .. Len(rows) + 1, old \in Contents :
          url = update[j].url /\ r = newRow /\ old = repo.content
    BY <1>2, <1>6
  <1>8. WriteRepository(url, r, old, new) /\ (r > Len(rows) => old = NoContent)
    BY <1>3, <1>6, <1>7
  <1> QED
    BY <1>1, <1>4, <1>8, CommitChange

-----------------------------------------------------------------------------
LEMMA Inductive == RepositoryInv /\ [Next]_vars => RepositoryInv'
  <1> SUFFICES ASSUME RepositoryInv, [Next]_vars PROVE RepositoryInv'
    OBVIOUS
  <1>1. CASE \E j \in Updates, url \in Urls : AddRemoteRepo(j, url)
    BY <1>1, AddRepoStep
  <1>2. CASE \E j \in Updates, t \in Types : AddRemoteType(j, t)
    BY <1>2, AddTypeStep
  <1>3. CASE \E j \in Updates, r \in Ids, f \in Forms : AddRemoteForm(j, r, f)
    BY <1>3, AddFormStep
  <1>4. CASE \E j \in Updates : FindType(j) \/ FindForm(j)
    BY <1>4, FindStep
  <1>5. CASE \E j \in Updates : CommitRepository(j)
    BY <1>5, CommitRepositoryStep
  <1>6. CASE \E j \in Updates : CommitType(j)
    BY <1>6, CommitTypeStep
  <1>7. CASE \E j \in Updates : CommitForm(j)
    BY <1>7, CommitFormStep
  <1>8. CASE Restart \/ \E j \in Updates : Fails(j)
    BY <1>8, EndStep
  <1>9. CASE \E i \in TypeIds : ChooseType(i)
    BY <1>9, ChooseStep
  <1>10. CASE \E i \in TypeIds : UseType(i) \/ ReleaseType(i)
    BY <1>10, UseStep
  <1>11. CASE UNCHANGED vars
    <2>1. /\ UNCHANGED tables /\ UNCHANGED <<used, late, chosen, update>>
      BY <1>11 DEF vars, user
    <2>2. update' \in [Updates -> UpdateStates] /\ chosen' \subseteq TypeIds
          /\ \A j \in Updates : update'[j] = update[j]
      BY <2>1 DEF RepositoryInv, TypeOK
    <2> QED
      BY <2>1, <2>2, OnlyUpdates
  <1> QED
    BY <1>1, <1>2, <1>3, <1>4, <1>5, <1>6, <1>7, <1>8, <1>9, <1>10, <1>11 DEF Next

LEMMA Invariant == Spec => []RepositoryInv
  BY InitInv, Inductive, PTL DEF Spec

(***************************************************************************)
(* Tables and updates have their types, for any URLs, types, forms,        *)
(* contents, and any number of rows, of inserts and of updates at once.    *)
(***************************************************************************)
THEOREM TypeCorrect == Spec => []TypeOK
  <1>1. RepositoryInv => TypeOK
    BY DEF RepositoryInv
  <1> QED
    BY <1>1, Invariant, PTL

(***************************************************************************)
(* The tables hold the content of each row that is not torn, however many  *)
(* updates of repositories, types and forms overlap, fail or are cut off   *)
(* (repository.js 90-212, id-attribute-type.js 104-126, ui-schema.js       *)
(* 84-113), but the forms that UiSchema.addRemote brought back.            *)
(***************************************************************************)
THEOREM TablesCorrect == Spec => []TablesMatchContent
  <1>1. RepositoryInv => TablesMatchContent
    BY InvGives
  <1> QED
    BY <1>1, Invariant, PTL

(***************************************************************************)
(* No relation refers to a type that was deleted, no attribute unless its  *)
(* type was gone when it was added, and no form of a row that is not torn  *)
(* unless UiSchema.addRemote brought it back: deleteAttribute only counts, *)
(* and sqlite is not asked to check (repository.js 178-186).               *)
(***************************************************************************)
THEOREM NothingDangles == Spec => []ReferencesHold
  <1>1. RepositoryInv => ReferencesHold
    BY InvGives
  <1> QED
    BY <1>1, Invariant, PTL
=============================================================================
