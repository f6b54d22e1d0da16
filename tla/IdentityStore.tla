--------------------------- MODULE IdentityStore ---------------------------
(***************************************************************************)
(* src/common/identity and src/main/identity: the attributes of a wallet   *)
(* and their documents, in two tables and in the store that the screens    *)
(* show.  The store is a cache kept up to date by hand: each operation     *)
(* awaits the database one call after the other, and applies the answers   *)
(* with reducers that filter by wallet or by attribute.  Nothing keeps     *)
(* operations apart but the pool of knex, which for sqlite has one         *)
(* connection: calls are answered in the order in which they were made,    *)
(* and what follows an answer runs before the next one.                    *)
(*                                                                         *)
(* Left out: contents (an attribute's data is the number of the edit that  *)
(* wrote it), how often an id is listed (a wallet unlocked twice lists its *)
(* documents twice), types, schemas and the selectors that join them; name *)
(* and setup flag, which createSelfkeyIdOperation writes around its three  *)
(* creations; locking, deleteDocument and the picture, which no screen     *)
(* asks for; reads that fail.                                              *)
(***************************************************************************)
EXTENDS Naturals, Sequences

CONSTANTS
    Wallets,
    NoWallet,
    MaxAttributes,   \* bound: rows ever inserted in id_attributes
    MaxDocuments,    \* bound: rows ever inserted in documents
    MaxEdits,        \* bound: edits
    MaxPending       \* bound: operations under way

ASSUME ConstantsAssumption ==
    /\ NoWallet \notin Wallets
    /\ {MaxAttributes, MaxDocuments, MaxEdits, MaxPending} \subseteq Nat

VARIABLES
    attributes,   \* table id_attributes: the rows ever inserted, by id
    documents,    \* table documents: the rows ever inserted, by id
    store,        \* state.identity: the listed ids and their ById records
    wallet,       \* the id of state.wallet
    unlocked,     \* the wallets unlocked since the start of the app
    latest,       \* the one of them that was unlocked last
    calls,        \* the operations under way, in the order of their pending calls
    edits         \* the number of edits so far

walletVars == <<wallet, unlocked, latest>>
vars == <<attributes, documents, store, walletVars, calls, edits>>

Attributes == 1 .. MaxAttributes
Documents == 1 .. MaxDocuments

(* A deleted row stays as a record: ids are not given twice *)
AttributeRows == [walletId : Wallets, data : 0 .. MaxEdits, present : BOOLEAN]
DocumentRows == [attributeId : Attributes, present : BOOLEAN]

Calls ==
    [at : {"documents", "attributes"}, walletId : Wallets]
    \cup [at : {"create"}, walletId : Wallets, new : BOOLEAN]
    \cup [at : {"created"}, id : Attributes]
    \cup [at : {"edit"}, id : Attributes, data : 1 .. MaxEdits, keep : SUBSET Documents,
          new : BOOLEAN]
    \cup [at : {"edited"}, id : Attributes, data : 1 .. MaxEdits]
    \cup [at : {"remove"}, id : Attributes]

TypeOK ==
    /\ attributes \in Seq(AttributeRows) /\ Len(attributes) <= MaxAttributes
    /\ documents \in Seq(DocumentRows) /\ Len(documents) <= MaxDocuments
    /\ \A d \in 1 .. Len(documents) : documents[d].attributeId <= Len(attributes)
    /\ store \in [attributes : SUBSET Attributes, data : [Attributes -> 0 .. MaxEdits],
                  documents : SUBSET Documents, tagged : SUBSET Documents]
    /\ unlocked \subseteq Wallets
    /\ {wallet, latest} \subseteq unlocked \cup {NoWallet}
    /\ calls \in Seq(Calls) /\ Len(calls) <= MaxPending
    /\ edits \in 0 .. MaxEdits

EmptyStore == [attributes |-> {}, data |-> [a \in Attributes |-> 0],
               documents |-> {}, tagged |-> {}]

Init ==
    /\ attributes = << >>
    /\ documents = << >>
    /\ store = EmptyStore
    /\ wallet = NoWallet
    /\ unlocked = {}
    /\ latest = NoWallet
    /\ calls = << >>
    /\ edits = 0

-----------------------------------------------------------------------------
(* The queries. *)

AttributesOf(w) ==
    {a \in 1 .. Len(attributes) : attributes[a].present /\ attributes[a].walletId = w}
DocumentsOfAttribute(a) ==
    {d \in 1 .. Len(documents) : documents[d].present /\ documents[d].attributeId = a}
DocumentsOf(w) == UNION {DocumentsOfAttribute(a) : a \in AttributesOf(w)}

(* The reducers.  A listed id has one record, the last one that came: a     *)
(* document loaded for its wallet carries walletId, and one loaded for its  *)
(* attribute does not.                                                      *)

(* setDocumentsReducer compares walletId with action.walletId, undefined   *)
SetDocuments(s, loaded) ==
    [s EXCEPT !.documents = (@ \cap s.tagged) \cup loaded,
              !.tagged = (@ \cap s.documents) \cup loaded]

(* Mutant: what is loaded is added to what is there. *)
AddAttributeDocuments(s, a, loaded) ==
    [s EXCEPT !.documents = @ \cup loaded, !.tagged = @ \ loaded]

SetAttributeDocuments(s, a, loaded) ==
    LET others == {d \in s.documents : documents[d].attributeId # a}
    IN [s EXCEPT !.documents = others \cup loaded,
                 !.tagged = @ \cap others]

SetIdAttributes(s, w, loaded) ==
    [s EXCEPT !.attributes = {a \in @ : attributes[a].walletId # w} \cup loaded,
              !.data = [a \in Attributes |->
                           IF a \in loaded THEN attributes[a].data ELSE @[a]]]

AddIdAttribute(s, a) == [s EXCEPT !.attributes = @ \cup {a}, !.data[a] = 0]

UpdateIdAttribute(s, a, data) ==
    IF a \in s.attributes THEN [s EXCEPT !.data[a] = data] ELSE s

DeleteIdAttribute(s, a) == [s EXCEPT !.attributes = @ \ {a}, !.data[a] = 0]

-----------------------------------------------------------------------------
(* Operations begin: their first call joins the queue of the pool. *)

Calling(call) ==
    /\ Len(calls) < MaxPending
    /\ calls' = Append(calls, call)

(* The screens of a wallet appear when its unlock has ended *)
OnDashboard == wallet # NoWallet /\ \A i \in 1 .. Len(calls) :
                                        calls[i].at \notin {"documents", "attributes"}

(* updateWalletWithBalance has set the wallet; unlockIdentityOperation *)
Unlock(w) ==
    /\ wallet' = w
    /\ unlocked' = unlocked \cup {w}
    /\ latest' = w
    /\ Calling([at |-> "documents", walletId |-> w])
    /\ UNCHANGED <<attributes, documents, store, edits>>

(* A balance arrives for a wallet that was replaced meanwhile:             *)
(* updateWalletWithBalance sets state.wallet back and loads nothing.       *)
LateBalance(w) ==
    /\ w \in unlocked
    /\ wallet' = w
    /\ UNCHANGED <<attributes, documents, store, unlocked, latest, calls, edits>>

(* createIdAttributeOperation, with or without a document *)
Create(new) ==
    /\ OnDashboard
    /\ Calling([at |-> "create", walletId |-> wallet, new |-> new])
    /\ UNCHANGED <<attributes, documents, store, walletVars, edits>>

(* The attribute as a screen shows it, with the documents the user keeps   *)
Shown(a) == a \in store.attributes /\ attributes[a].walletId = wallet
ShownDocuments(a) ==
    {d \in store.documents : documents[d].attributeId = a}

(* Mutant: the screen shows the edit before the database has it. *)
EditShownFirst(a, keep, new) ==
    /\ OnDashboard /\ Shown(a)
    /\ keep \subseteq ShownDocuments(a)
    /\ edits < MaxEdits
    /\ edits' = edits + 1
    /\ store' = UpdateIdAttribute(store, a, edits')
    /\ Calling([at |-> "edit", id |-> a, data |-> edits', keep |-> keep, new |-> new])
    /\ UNCHANGED <<attributes, documents, walletVars>>

(* editIdAttributeOperation *)
Edit(a, keep, new) ==
    /\ OnDashboard /\ Shown(a)
    /\ keep \subseteq ShownDocuments(a)
    /\ edits < MaxEdits
    /\ edits' = edits + 1
    /\ Calling([at |-> "edit", id |-> a, data |-> edits + 1, keep |-> keep, new |-> new])
    /\ UNCHANGED <<attributes, documents, store, walletVars>>

(* removeIdAttributeOperation *)
Remove(a) ==
    /\ OnDashboard /\ Shown(a)
    /\ Calling([at |-> "remove", id |-> a])
    /\ UNCHANGED <<attributes, documents, store, walletVars, edits>>

-----------------------------------------------------------------------------
(* The database answers the oldest call, and the operation goes on. *)

Answers(stage) == calls # << >> /\ Head(calls).at = stage
Asks(call) == calls' = Append(Tail(calls), call)
Ends == calls' = Tail(calls)

(* A transaction is rolled back and the operation rejects: an insert that  *)
(* the tables refuse, an edit or a removal of rows that are gone.          *)
Rejected ==
    /\ calls # << >> /\ Head(calls).at \in {"create", "edit", "remove"}
    /\ Ends
    /\ UNCHANGED <<attributes, documents, store, walletVars, edits>>

DocumentsLoaded ==
    /\ Answers("documents")
    /\ LET w == Head(calls).walletId
       IN /\ store' = SetDocuments(store, DocumentsOf(w))
          /\ Asks([at |-> "attributes", walletId |-> w])
    /\ UNCHANGED <<attributes, documents, walletVars, edits>>

AttributesLoaded ==
    /\ Answers("attributes")
    /\ LET w == Head(calls).walletId
       IN store' = SetIdAttributes(store, w, AttributesOf(w))
    /\ Ends
    /\ UNCHANGED <<attributes, documents, walletVars, edits>>

(* Mutant: the document is inserted before the attribute has its id. *)
WithOrphanDocument(rows, new, a) ==
    IF new THEN Append(rows, [attributeId |-> 0, present |-> TRUE]) ELSE rows

WithNewDocument(rows, new, a) ==
    IF new THEN Append(rows, [attributeId |-> a, present |-> TRUE]) ELSE rows

(* IdAttribute.create *)
Created ==
    /\ Answers("create")
    /\ Len(attributes) < MaxAttributes
    /\ Head(calls).new => Len(documents) < MaxDocuments
    /\ LET a == Len(attributes) + 1
       IN /\ attributes' = Append(attributes, [walletId |-> Head(calls).walletId,
                                               data |-> 0, present |-> TRUE])
          /\ documents' = WithNewDocument(documents, Head(calls).new, a)
          /\ Asks([at |-> "created", id |-> a])
    /\ UNCHANGED <<store, walletVars, edits>>

CreatedDocumentsLoaded ==
    /\ Answers("created")
    /\ LET a == Head(calls).id
       IN store' = AddIdAttribute(SetAttributeDocuments(store, a, DocumentsOfAttribute(a)), a)
    /\ Ends
    /\ UNCHANGED <<attributes, documents, walletVars, edits>>

(* IdAttribute.update: upsertGraph deletes the documents it does not name  *)
Edited ==
    /\ Answers("edit")
    /\ attributes[Head(calls).id].present
    /\ Head(calls).keep \subseteq DocumentsOfAttribute(Head(calls).id)
    /\ Head(calls).new => Len(documents) < MaxDocuments
    /\ LET a == Head(calls).id
           kept == [d \in 1 .. Len(documents) |->
                      [documents[d] EXCEPT !.present =
                         @ /\ (documents[d].attributeId = a => d \in Head(calls).keep)]]
       IN /\ attributes' = [attributes EXCEPT ![a].data = Head(calls).data]
          /\ documents' = WithNewDocument(kept, Head(calls).new, a)
          /\ Asks([at |-> "edited", id |-> a, data |-> Head(calls).data])
    /\ UNCHANGED <<store, walletVars, edits>>

EditedDocumentsLoaded ==
    /\ Answers("edited")
    /\ LET a == Head(calls).id
       IN store' = UpdateIdAttribute(SetAttributeDocuments(store, a, DocumentsOfAttribute(a)),
                                     a, Head(calls).data)
    /\ Ends
    /\ UNCHANGED <<attributes, documents, walletVars, edits>>

(* IdAttribute.delete, then both reducers *)
Removed ==
    /\ Answers("remove")
    /\ attributes[Head(calls).id].present
    /\ LET a == Head(calls).id
       IN /\ attributes' = [attributes EXCEPT ![a].present = FALSE]
          /\ documents' = [d \in 1 .. Len(documents) |->
                             [documents[d] EXCEPT !.present =
                                @ /\ documents[d].attributeId # a]]
          /\ store' = DeleteIdAttribute(SetAttributeDocuments(store, a, {}), a)
    /\ Ends
    /\ UNCHANGED <<walletVars, edits>>

(* The app is closed, or crashes, between any two calls; the tables stay   *)
Restart ==
    /\ store' = EmptyStore
    /\ wallet' = NoWallet
    /\ unlocked' = {}
    /\ latest' = NoWallet
    /\ calls' = << >>
    /\ UNCHANGED <<attributes, documents, edits>>

Answer ==
    \/ DocumentsLoaded \/ AttributesLoaded
    \/ Created \/ CreatedDocumentsLoaded
    \/ Edited \/ EditedDocumentsLoaded
    \/ Removed \/ Rejected

Next ==
    \/ \E w \in Wallets : Unlock(w) \/ LateBalance(w)
    \/ \E new \in BOOLEAN : Create(new)
    \/ \E a \in 1 .. Len(attributes), keep \in SUBSET Documents, new \in BOOLEAN :
          Edit(a, keep, new)
    \/ \E a \in 1 .. Len(attributes) : Remove(a)
    \/ Answer
    \/ Restart

Spec == Init /\ [][Next]_vars

-----------------------------------------------------------------------------

(* When no call is pending, the store has the attributes of every wallet   *)
(* that was unlocked, with the data of the table, and the documents of the *)
(* one that was unlocked last, whatever operations and unlocks overlapped  *)
(* (operations.js 54-114).  So the screens of state.wallet are right; but  *)
(* if a late balance has set it back, documents of that wallet may be      *)
(* missing, as setDocumentsReducer drops those loaded for an attribute.    *)
(* Which ids are listed is all that this says, not how often.              *)
StoreMatchesTables ==
    calls = << >> =>
        \A w \in unlocked :
            /\ {a \in store.attributes : attributes[a].walletId = w} = AttributesOf(w)
            /\ \A a \in AttributesOf(w) :
                  /\ store.data[a] = attributes[a].data
                  /\ w = latest => ShownDocuments(a) = DocumentsOfAttribute(a)

(* An attribute on the screen never goes back to older data: a slow load   *)
(* of an unlock does not undo an edit (operations.js 61-65, 96-101).       *)
NeverOlder ==
    [][\A a \in store.attributes \cap store'.attributes :
          store'.data[a] >= store.data[a]]_vars

=============================================================================
