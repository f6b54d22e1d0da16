-------------------------- MODULE RepositoryUpdate --------------------------
(***************************************************************************)
(* src/main/identity/repository.js, id-attribute-type.js and ui-schema.js: *)
(* an attribute repository published at a URL names the types of           *)
(* attributes a user can have and a form (a ui schema) for some of them.   *)
(* addRemoteRepo compares what it fetched with the row it read and changes *)
(* four tables by the difference, in one transaction.  At every start the  *)
(* expired repositories are updated, all at once, then the expired types   *)
(* and then the expired forms; but the first repository that fails ends    *)
(* the wait for the others (Promise.all), a window that is loaded again    *)
(* starts anew, and a type asks for a repository that has no row.  So any  *)
(* updates run side by side, and the user adds attributes meanwhile.  The  *)
(* pool has one connection: transactions and queries do not interleave,    *)
(* but an update fetches and reads before its transaction.                 *)
(*                                                                         *)
(* Left out: contents and expiry of types and forms; how often a           *)
(* repository is related to a type (a type whose form changes is related   *)
(* once more).  What is published names each type and each form once.      *)
(***************************************************************************)
EXTENDS Naturals, Sequences, FiniteSets

CONSTANTS
    Urls,      \* of repositories
    Types,     \* of attributes, by their URLs
    Forms,     \* URLs of ui schemas
    NoForm,
    Updates,   \* bound: updates running at once
    MaxRows,   \* bound: rows of the table repository
    MaxInserts,      \* bound: transactions that insert types or forms
    MaxUsed,         \* bound: types with attributes at a time
    Publishable(_)   \* bound: the contents that a repository has over time

(* identityAttributes: the form, or none, of each type it names *)
Contents ==
    {c \in UNION {[named -> Forms \cup {NoForm}] : named \in SUBSET Types} :
       \A s, t \in DOMAIN c : s # t /\ c[s] = c[t] => c[s] = NoForm}

NoContent == [t \in {} |-> NoForm]

ASSUME ConstantsAssumption ==
    /\ NoForm \notin Forms
    /\ {MaxRows, MaxInserts} \subseteq Nat \ {0}
    /\ \A url \in Urls : Publishable(url) \subseteq Contents

VARIABLES
    rows,        \* table repository, by id: url and content
    types,       \* id_attribute_types: the ids of the rows of each URL
    related,     \* repository_attribute_types: row, type and its id
    schemas,     \* ui_schema: the rows of each repository and form
    used,        \* types of the rows of id_attributes
    chosen,      \* the type of the attribute that the user is adding, if any
    update,      \* the updates that run
    inserts,     \* the transactions that inserted: they number the rows
    torn,        \* rows that an update changed by a difference to another content
    late         \* types that were gone when an attribute of them was added

tables == <<rows, types, related, schemas, inserts, torn>>
user == <<used, chosen, late>>
vars == <<tables, user, update>>

Ids == 1 .. MaxRows
Numbers == 1 .. MaxInserts
TypeIds == Types \X Numbers

(* A transaction inserts one row at most of a type, or of a form of a      *)
(* repository: its number makes an id.  restored: UiSchema.addRemote has   *)
(* written the row, with the ids of its list                               *)
SchemaRows == [nr : Numbers, type : TypeIds, restored : BOOLEAN]

(* Of an update: the row of the repository that it found, or what it has   *)
(* found of a type or form, {} while it waits for the answer               *)
Idle == [at |-> "idle"]
UpdateStates ==
    {Idle}
    \cup [at : {"repository"}, url : Urls,
          repo : [id : 0 .. MaxRows, content : Contents]]
    \cup [at : {"type"}, url : Types, found : SUBSET BOOLEAN]
    \cup [at : {"form"}, repo : Ids, url : Forms, type : TypeIds,
          found : SUBSET (0 .. MaxInserts)]

TypeOK ==
    /\ rows \in Seq([url : Urls, content : Contents]) /\ Len(rows) <= MaxRows
    /\ types \in [Types -> Seq(Numbers)]
    /\ related \subseteq Ids \X TypeIds
    /\ schemas \in [Ids \X Forms -> Seq(SchemaRows)]
    /\ used \subseteq TypeIds /\ late \subseteq used
    /\ chosen \subseteq TypeIds
    /\ update \in [Updates -> UpdateStates]
    /\ inserts \in Numbers
    /\ torn \subseteq Ids

(* What the migrations left: a repository that was not fetched yet, and    *)
(* types of attributes that no repository has                              *)
Init ==
    /\ \E url \in Urls : rows = <<[url |-> url, content |-> NoContent]>>
    /\ types \in [Types -> {<< >>, <<1>>}]
    /\ related = {}
    /\ schemas = [k \in Ids \X Forms |-> << >>]
    /\ used = {} /\ chosen = {} /\ late = {}
    /\ update = [j \in Updates |-> Idle]
    /\ inserts = 1
    /\ torn = {}

-----------------------------------------------------------------------------
(* Repository, IdAttributeType and UiSchema.addRemote...: find, fetch at   *)
(* any moment, then commit.                                                *)

Begins(j, job) ==
    /\ update[j] = Idle
    /\ update' = [update EXCEPT ![j] = job]
    /\ UNCHANGED <<tables, user>>

(* updateRepositories has a row; loadRemote of a type found none.  Either  *)
(* way findByUrl finds the first row; there may be several, as url is not  *)
(* unique.                                                                 *)
AddRemoteRepo(j, url) ==
    \E id \in 0 .. Len(rows) :
        /\ \A o \in 1 .. Len(rows) : rows[o].url = url => id # 0 /\ id <= o
        /\ id # 0 => rows[id].url = url
        /\ Begins(j, [at |-> "repository", url |-> url,
                      repo |-> [id |-> id, content |->
                                IF id = 0 THEN NoContent ELSE rows[id].content]])

(* The types and forms of the list that was read just before *)
AddRemoteType(j, t) ==
    /\ types[t] # << >>
    /\ Begins(j, [at |-> "type", url |-> t, found |-> {}])

AddRemoteForm(j, r, f) ==
    \E i \in 1 .. Len(schemas[<<r, f>>]) :
        Begins(j, [at |-> "form", repo |-> r, url |-> f,
                   type |-> schemas[<<r, f>>][i].type, found |-> {}])

Finds(j, what) ==
    /\ update[j].found = {}
    /\ update' = [update EXCEPT ![j].found = {what}]
    /\ UNCHANGED <<tables, user>>

FindType(j) ==
    /\ update[j].at = "type"
    /\ Finds(j, types[update[j].url] # << >>)

FindForm(j) ==
    /\ update[j].at = "form"
    /\ LET found == schemas[<<update[j].repo, update[j].url>>]
       IN Finds(j, IF found = << >> THEN 0 ELSE found[1].nr)

(* A fetch that fails, or a transaction that is rolled back *)
Fails(j) ==
    /\ update[j] # Idle
    /\ update' = [update EXCEPT ![j] = Idle]
    /\ UNCHANGED <<tables, user>>

-----------------------------------------------------------------------------
(* diffAttributes(old, new): what is deleted and added. *)

Gone(old, new) == DOMAIN old \ DOMAIN new
Changed(old, new) == {t \in DOMAIN old \cap DOMAIN new : old[t] # new[t]}

DeletedForms(old, new) ==
    {old[t] : t \in Gone(old, new) \cup Changed(old, new)} \ {NoForm}
Added(old, new) ==
    (DOMAIN new \ DOMAIN old) \cup {t \in Changed(old, new) : new[t] # NoForm}

(* Mutant: a type with attributes goes as well. *)
DeletableIfUsed(i, relation) == \A pair \in relation : pair[2] # i

(* A type goes when no repository has it, and no attribute *)
Deletable(i, relation) == (\A pair \in relation : pair[2] # i) /\ i \notin used

(* The row that findByUrl finds is the first one of the type *)
FirstOf(t) == <<t, types[t][1]>>

(* Mutant: the row is inserted, but its id is not read back. *)
NoNumber == 0
NewNumber == inserts + 1

(* unrelate of deleteAttribute *)
Kept(r, old, new) ==
    related \ {<<r, FirstOf(t)>> : t \in {g \in Gone(old, new) : types[g] # << >>}}

TypesAfter(t, kept, old, new) ==
    IF types[t] = << >>
    THEN IF t \in Added(old, new) THEN <<NewNumber>> ELSE << >>
    ELSE IF t \in Gone(old, new) /\ Deletable(FirstOf(t), kept) THEN Tail(types[t])
    ELSE types[t]

(* Mutant: what is new is added before what is old is deleted. *)
FormsAddedFirst(r, f, old, new) ==
    LET added == {t \in Added(old, new) : new[t] = f}
        with  == IF schemas[<<r, f>>] # << >> \/ added = {} THEN schemas[<<r, f>>]
                 ELSE <<[nr |-> NewNumber, restored |-> FALSE,
                         type |-> <<CHOOSE t \in added : TRUE, NewNumber>>]>>
    IN IF f \in DeletedForms(old, new) /\ with # << >> THEN Tail(with) ELSE with

(* addAttribute leaves a form that the repository still has *)
FormsAfter(r, f, old, new) ==
    LET left  == IF f \in DeletedForms(old, new) /\ schemas[<<r, f>>] # << >>
                 THEN Tail(schemas[<<r, f>>]) ELSE schemas[<<r, f>>]
        added == {t \in Added(old, new) : new[t] = f}
    IN IF left # << >> \/ added = {} THEN left
       ELSE LET t == CHOOSE t \in added : TRUE
            IN <<[nr |-> NewNumber, type |-> <<t, types'[t][1]>>, restored |-> FALSE]>>

(* create, updateAttributes, patchAndFetch of the row r, or of a new one *)
WriteRepository(url, r, old, new) ==
    LET isNew == r > Len(rows)
        kept  == Kept(r, old, new)
    IN /\ r <= MaxRows
       /\ Added(old, new) # {} => inserts < MaxInserts
       /\ rows' = IF isNew THEN Append(rows, [url |-> url, content |-> new])
                  ELSE [rows EXCEPT ![r].content = new]
       /\ types' = [t \in Types |-> TypesAfter(t, kept, old, new)]
       /\ related' = kept \cup {<<r, <<t, types'[t][1]>>>> : t \in Added(old, new)}
       /\ schemas' = [k \in Ids \X Forms |->
                        IF k[1] = r THEN FormsAfter(r, k[2], old, new) ELSE schemas[k]]
       /\ inserts' = IF Added(old, new) = {} THEN inserts ELSE inserts + 1
       /\ torn' = IF isNew \/ rows[r].content \in {old, new} THEN torn
                  ELSE torn \cup {r}

(* One transaction.  The fetch gave what the owner had published at some   *)
(* moment since the beginning.                                             *)
CommitRepository(j) ==
    /\ update[j].at = "repository"
    /\ LET repo == update[j].repo
           r    == IF repo.id = 0 THEN Len(rows) + 1 ELSE repo.id
       IN \E new \in Publishable(update[j].url) :
             WriteRepository(update[j].url, r, repo.content, new)
    /\ update' = [update EXCEPT ![j] = Idle]
    /\ UNCHANGED user

(* A type that is gone is inserted; one that was found is patched *)
CommitType(j) ==
    /\ update[j].at = "type"
    /\ \E found \in update[j].found :
        IF found THEN UNCHANGED <<types, inserts>>
        ELSE /\ inserts < MaxInserts
             /\ types' = [types EXCEPT ![update[j].url] = Append(@, NewNumber)]
             /\ inserts' = inserts + 1
    /\ update' = [update EXCEPT ![j] = Idle]
    /\ UNCHANGED <<rows, related, schemas, torn, user>>

(* A form that is gone is inserted with the ids of the list, one that was  *)
(* found gets them                                                         *)
CommitForm(j) ==
    /\ update[j].at = "form"
    /\ LET k == <<update[j].repo, update[j].url>>
           type == update[j].type
           patched(row) == IF row.type = type THEN row
                           ELSE [row EXCEPT !.type = type, !.restored = TRUE]
       IN \E found \in update[j].found :
          IF found = 0
          THEN /\ inserts < MaxInserts
               /\ schemas' = [schemas EXCEPT ![k] =
                    Append(@, [nr |-> NewNumber, type |-> type, restored |-> TRUE])]
               /\ inserts' = inserts + 1
          ELSE /\ schemas' = [schemas EXCEPT ![k] =
                    [i \in 1 .. Len(@) |-> IF @[i].nr = found THEN patched(@[i]) ELSE @[i]]]
               /\ UNCHANGED inserts
    /\ update' = [update EXCEPT ![j] = Idle]
    /\ UNCHANGED <<rows, types, related, torn, user>>

-----------------------------------------------------------------------------
(* The store, the user, and the app. *)

Present(i) == \E k \in 1 .. Len(types[i[1]]) : types[i[1]][k] = i[2]

(* The user chooses a type from the store, where the list of types is as   *)
(* it was when loadIdAttributeTypesOperation read it                       *)
ChooseType(i) ==
    /\ chosen = {} /\ Present(i)
    /\ chosen' = {i}
    /\ UNCHANGED <<tables, used, late, update>>

(* IdAttribute.create, which does not ask whether the type is still there *)
UseType(i) ==
    /\ i \in chosen
    /\ Cardinality(used) < MaxUsed
    /\ chosen' = {}
    /\ used' = used \cup {i}
    /\ late' = IF Present(i) THEN late ELSE late \cup {i}
    /\ UNCHANGED <<tables, update>>

(* The last attribute of a type is removed *)
ReleaseType(i) ==
    /\ i \in used
    /\ used' = used \ {i}
    /\ late' = late \ {i}
    /\ UNCHANGED <<tables, chosen, update>>

Restart ==
    /\ update' = [j \in Updates |-> Idle]
    /\ chosen' = {}
    /\ UNCHANGED <<tables, used, late>>

Next ==
    \/ \E j \in Updates :
        \/ \E url \in Urls : AddRemoteRepo(j, url)
        \/ \E t \in Types : AddRemoteType(j, t)
        \/ \E r \in Ids, f \in Forms : AddRemoteForm(j, r, f)
        \/ FindType(j) \/ FindForm(j)
        \/ CommitRepository(j) \/ CommitType(j) \/ CommitForm(j)
        \/ Fails(j)
    \/ \E i \in TypeIds : ChooseType(i) \/ UseType(i) \/ ReleaseType(i)
    \/ Restart

Spec == Init /\ [][Next]_vars

-----------------------------------------------------------------------------

(* What is left of all updates, those lost in the middle and those that    *)
(* ran side by side included, is the content of each row: its types, no    *)
(* form missing, and no form or type of a form that the content does not   *)
(* give (repository.js 90-212).  Excepted are a row whose content was      *)
(* replaced while an update to a third content of it ran, and forms that   *)
(* UiSchema.addRemote brought back, or gave back their old type, after     *)
(* their repository had changed (ui-schema.js 95-104).                     *)
TablesMatchContent ==
    \A r \in 1 .. Len(rows) : r \notin torn =>
        LET c == rows[r].content
        IN /\ \A t \in Types : t \in DOMAIN c <=> \E n \in Numbers : <<r, <<t, n>>>> \in related
           /\ \A t \in DOMAIN c : c[t] # NoForm => schemas[<<r, c[t]>>] # << >>
           /\ \A f \in Forms : \A i \in 1 .. Len(schemas[<<r, f>>]) :
                 LET s == schemas[<<r, f>>][i]
                 IN s.restored \/ (s.type[1] \in DOMAIN c /\ c[s.type[1]] = f)

(* No relation, form or attribute refers to a type that is gone, but the   *)
(* forms excepted above, and attributes of a type that was gone when they  *)
(* were added: sqlite is not asked to check the foreign keys of the        *)
(* schema, so only deleteAttribute's questions keep them, for all          *)
(* repositories and all users of a type (repository.js 178-186).           *)
ReferencesHold ==
    /\ \A i \in used \ late : Present(i)
    /\ \A pair \in related : Present(pair[2])
    /\ \A r \in 1 .. Len(rows), f \in Forms :
          r \notin torn => \A i \in 1 .. Len(schemas[<<r, f>>]) :
             schemas[<<r, f>>][i].restored \/ Present(schemas[<<r, f>>][i].type)

=============================================================================
