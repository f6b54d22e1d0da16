------------------------ MODULE IdentityStoreProofs ------------------------
(***************************************************************************)
(* Proofs about IdentityStore, for every set of wallets and any number of  *)
(* attributes, documents, edits and operations under way.                  *)
(*                                                                         *)
(* StoreMatchesTables speaks of moments when nothing is pending.  The      *)
(* invariant says for all others which pending call will mend what the     *)
(* store does not show yet, and in which order calls can wait.             *)
(***************************************************************************)
EXTENDS IdentityStore, TLAPS

Starts == {"create", "edit", "remove"}
Loads == {"documents", "attributes"}

(* The pending calls, and those behind the oldest *)
Waiting == {calls[i] : i \in 1 .. Len(calls)}
Behind == {calls[i] : i \in 2 .. Len(calls)}

(* What can wait before what.  Nothing is started while a load is pending, *)
(* so a load is asked for its attributes when no start is left, and finds  *)
(* the answers to all of them before it.                                   *)
MayPrecede(c, d) ==
    /\ c.at \in Loads => d.at \notin Starts
    /\ c.at \in Starts /\ d.at \in Loads => d.at = "documents"
    /\ c.at = "attributes" => d.at \notin {"created", "edited"}
    /\ c.at = "edit" /\ d.at = "edit" => c.data < d.data
    /\ c.at = "edited" /\ d.at = "edited" /\ c.id = d.id => c.data <= d.data
    /\ c.at \in {"edit", "edited", "remove"} /\ d.at = "created" => c.id # d.id

OrderOK ==
    \A i, j \in 1 .. Len(calls) : i < j => MayPrecede(calls[i], calls[j])

(* Behind a load of the documents of another wallet waits one of that      *)
(* which was unlocked last.                                                *)
LoadsOK ==
    \A i \in 1 .. Len(calls) :
        calls[i].at = "documents" /\ calls[i].walletId # latest =>
            \E j \in 1 .. Len(calls) :
                i < j /\ calls[j].at = "documents" /\ calls[j].walletId = latest

Awaits(stages, a) == \E c \in Waiting : c.at \in stages /\ c.id = a
AwaitsLoad(stages, w) == \E c \in Waiting : c.at \in stages /\ c.walletId = w

(* Ids are those of rows. *)
IdsOK ==
    /\ store.attributes \subseteq 1 .. Len(attributes)
    /\ store.documents \subseteq 1 .. Len(documents)
    /\ \A c \in Waiting :
          c.at \in {"created", "edit", "edited", "remove"} => c.id \in 1 .. Len(attributes)

(* What an edit will write is newer than what is there; what was written   *)
(* last is the last to be shown.                                           *)
RowOK(a) ==
    /\ attributes[a].data <= edits
    /\ \A c \in Waiting : c.at = "edit" => attributes[a].data < c.data
    /\ \A c \in Waiting : c.at = "edited" /\ c.id = a =>
          /\ c.data <= attributes[a].data
          /\ \E d \in Waiting : d.at = "edited" /\ d.id = a /\ d.data = attributes[a].data
    /\ \A c \in Waiting : c.at = "created" /\ c.id = a =>
          attributes[a].present /\ attributes[a].data = 0

(* A listed attribute is in the table, and its data is not newer than the  *)
(* row or than what is still to be shown.                                  *)
ListedOK(a) ==
    /\ attributes[a].present
    /\ store.data[a] <= attributes[a].data
    /\ store.data[a] = attributes[a].data \/ Awaits({"edited"}, a)
    /\ \A c \in Waiting : c.at = "edited" /\ c.id = a => store.data[a] <= c.data

(* Whatever is missing from the store has a call that will bring it: the   *)
(* documents of the wallet unlocked last, the attributes of any.           *)
Reached(a) ==
    LET w == attributes[a].walletId
    IN /\ a \in store.attributes \/ Awaits({"created"}, a) \/ AwaitsLoad(Loads, w)
       /\ w = latest =>
             \/ DocumentsOfAttribute(a) \subseteq store.documents
             \/ Awaits({"created", "edited"}, a)
             \/ AwaitsLoad({"documents"}, w)

(* The attributes of the wallets that were unlocked *)
Owned ==
    {a \in 1 .. Len(attributes) :
        attributes[a].present /\ attributes[a].walletId \in unlocked}

(* A document that is gone is shown only until its attribute's edit is. *)
DocumentOK(d) == documents[d].present \/ Awaits({"edited"}, documents[d].attributeId)

StoreInv ==
    /\ TypeOK
    /\ OrderOK /\ LoadsOK /\ IdsOK
    /\ \A c \in Waiting : c.at = "edit" => c.data <= edits
    /\ \A a \in 1 .. Len(attributes) : RowOK(a)
    /\ \A a \in store.attributes : ListedOK(a)
    /\ \A a \in Owned : Reached(a)
    /\ \A d \in store.documents : DocumentOK(d)

-----------------------------------------------------------------------------
(* Calls. *)

LEMMA CallFields ==
    ASSUME NEW c \in Calls
    PROVE  /\ c.at \in Starts \cup Loads \cup {"created", "edited"}
           /\ c.at \in Loads \cup {"create"} => c.walletId \in Wallets
           /\ c.at \in {"created", "edit", "edited", "remove"} => c.id \in Attributes
           /\ c.at \in {"edit", "edited"} => c.data \in 1 .. MaxEdits
           /\ c.at = "edit" => c.keep \in SUBSET Documents
           /\ c.at \in {"create", "edit"} => c.new \in BOOLEAN
  BY DEF Calls, Starts, Loads

LEMMA LoadCalls ==
    ASSUME NEW w \in Wallets
    PROVE  /\ [at |-> "documents", walletId |-> w] \in Calls
           /\ [at |-> "attributes", walletId |-> w] \in Calls
  BY DEF Calls

LEMMA StartCalls ==
    ASSUME NEW w \in Wallets, NEW new \in BOOLEAN, NEW a \in Attributes,
           NEW n \in 1 .. MaxEdits, NEW keep \in SUBSET Documents
    PROVE  /\ [at |-> "create", walletId |-> w, new |-> new] \in Calls
           /\ [at |-> "edit", id |-> a, data |-> n, keep |-> keep, new |-> new] \in Calls
           /\ [at |-> "remove", id |-> a] \in Calls
  BY DEF Calls

LEMMA AnsweredCalls ==
    ASSUME NEW a \in Attributes, NEW n \in 1 .. MaxEdits
    PROVE  /\ [at |-> "created", id |-> a] \in Calls
           /\ [at |-> "edited", id |-> a, data |-> n] \in Calls
  BY DEF Calls

-----------------------------------------------------------------------------
(* The pool's queue. *)

LEMMA QueueHead ==
    ASSUME calls \in Seq(Calls), calls # << >>
    PROVE  /\ Head(calls) \in Calls /\ Head(calls) = calls[1]
           /\ Len(calls) \in Nat \ {0}
           /\ Waiting = Behind \cup {Head(calls)}
           /\ OrderOK => \A d \in Behind : MayPrecede(Head(calls), d)
  <1>1. Len(calls) \in Nat \ {0} /\ Head(calls) = calls[1] /\ calls[1] \in Calls
    OBVIOUS
  <1>2. Waiting = Behind \cup {Head(calls)}
    BY <1>1 DEF Waiting, Behind
  <1>3. ASSUME OrderOK, NEW d \in Behind PROVE MayPrecede(Head(calls), d)
    BY <1>1, <1>3 DEF OrderOK, Behind
  <1> QED
    BY <1>1, <1>2, <1>3

LEMMA QueueCalling ==
    ASSUME calls \in Seq(Calls), OrderOK, NEW c \in Calls, Calling(c),
           \A d \in Waiting : MayPrecede(d, c)
    PROVE  /\ calls' \in Seq(Calls) /\ Len(calls') <= MaxPending
           /\ Waiting' = Waiting \cup {c}
           /\ OrderOK'
  <1> DEFINE n == Len(calls)
  <1>1. n \in Nat /\ calls' \in Seq(Calls) /\ Len(calls') = n + 1
    BY DEF Calling
  <1>2. calls'[n + 1] = c /\ \A i \in 1 .. n : calls'[i] = calls[i]
    BY <1>1 DEF Calling
  <1>3. Waiting' = Waiting \cup {c}
    BY <1>1, <1>2 DEF Waiting
  <1>4. ASSUME NEW i \in 1 .. n + 1, NEW j \in 1 .. n + 1, i < j
        PROVE  MayPrecede(calls'[i], calls'[j])
    <2>1. i \in 1 .. n /\ calls'[i] = calls[i] /\ calls[i] \in Waiting
      BY <1>1, <1>2, <1>4 DEF Waiting
    <2>2. CASE j = n + 1
      BY <2>1, <2>2, <1>2
    <2>3. CASE j \in 1 .. n
      BY <2>1, <2>3, <1>2, <1>4 DEF OrderOK
    <2> QED
      BY <2>2, <2>3, <1>1
  <1> QED
    BY <1>1, <1>3, <1>4, ConstantsAssumption DEF OrderOK, Calling, MayPrecede, ConstantsAssumption

LEMMA QueueEnds ==
    ASSUME calls \in Seq(Calls), calls # << >>, OrderOK, Ends
    PROVE  /\ calls' \in Seq(Calls) /\ Len(calls') = Len(calls) - 1
           /\ \A i \in 1 .. Len(calls') : calls'[i] = calls[i + 1]
           /\ Waiting' = Behind
           /\ OrderOK'
  <1> DEFINE n == Len(calls)
  <1>1. n \in Nat \ {0} /\ calls' \in Seq(Calls) /\ Len(calls') = n - 1
    BY DEF Ends
  <1>2. \A i \in 1 .. n - 1 : calls'[i] = calls[i + 1]
    BY <1>1 DEF Ends
  <1>3. Waiting' = Behind
    <2>1. ASSUME NEW c \in Behind PROVE c \in Waiting'
      <3>1. PICK i \in 2 .. n : c = calls[i]
        BY <2>1 DEF Behind
      <3>2. i - 1 \in 1 .. n - 1 /\ calls'[i - 1] = c
        BY <3>1, <1>1, <1>2
      <3> QED
        BY <3>2, <1>1 DEF Waiting
    <2>2. ASSUME NEW c \in Waiting' PROVE c \in Behind
      <3>1. PICK i \in 1 .. n - 1 : c = calls'[i]
        BY <2>2, <1>1 DEF Waiting
      <3>2. i + 1 \in 2 .. n /\ calls[i + 1] = c
        BY <3>1, <1>1, <1>2
      <3> QED
        BY <3>2, <1>1 DEF Behind
    <2> QED
      BY <2>1, <2>2
  <1>4. ASSUME NEW i \in 1 .. n - 1, NEW j \in 1 .. n - 1, i < j
        PROVE  MayPrecede(calls'[i], calls'[j])
    <2>1. i + 1 \in 1 .. n /\ j + 1 \in 1 .. n /\ i + 1 < j + 1
      BY <1>1, <1>4
    <2> QED
      BY <2>1, <1>2 DEF OrderOK
  <1> QED
    BY <1>1, <1>2, <1>3, <1>4 DEF OrderOK, MayPrecede

LEMMA QueueAsks ==
    ASSUME calls \in Seq(Calls), calls # << >>, OrderOK, NEW c \in Calls, Asks(c),
           \A d \in Behind : MayPrecede(d, c)
    PROVE  /\ calls' \in Seq(Calls) /\ Len(calls') = Len(calls)
           /\ \A i \in 1 .. Len(calls) - 1 : calls'[i] = calls[i + 1]
           /\ calls'[Len(calls)] = c
           /\ Waiting' = Behind \cup {c}
           /\ OrderOK'
  <1> DEFINE n == Len(calls)
  <1>1. n \in Nat \ {0} /\ Tail(calls) \in Seq(Calls) /\ Len(Tail(calls)) = n - 1
    OBVIOUS
  <1>2. calls' \in Seq(Calls) /\ Len(calls') = n
    BY <1>1 DEF Asks
  <1>3. calls'[n] = c /\ \A i \in 1 .. n - 1 : calls'[i] = calls[i + 1]
    BY <1>1 DEF Asks
  <1>4. \A i \in 1 .. n : i = n \/ i \in 1 .. n - 1
    <2> HIDE DEF n
    <2> QED
      BY <1>1
  <1>5. Waiting' = Behind \cup {c}
    <2>1. ASSUME NEW d \in Behind PROVE d \in Waiting'
      <3>1. PICK i \in 2 .. n : d = calls[i]
        BY <2>1 DEF Behind
      <3>2. i - 1 \in 1 .. n - 1 /\ calls'[i - 1] = d
        BY <3>1, <1>1, <1>3
      <3> QED
        BY <3>2, <1>1, <1>2 DEF Waiting
    <2>2. c \in Waiting'
      BY <1>1, <1>2, <1>3 DEF Waiting
    <2>3. ASSUME NEW d \in Waiting' PROVE d \in Behind \cup {c}
      <3>1. PICK i \in 1 .. n : d = calls'[i]
        BY <2>3, <1>2 DEF Waiting
      <3>2. CASE i = n
        BY <3>1, <3>2, <1>3
      <3>3. CASE i \in 1 .. n - 1
        <4>1. i + 1 \in 2 .. n /\ calls[i + 1] = d
          BY <3>1, <3>3, <1>1, <1>3
        <4> QED
          BY <4>1 DEF Behind
      <3> QED
        BY <3>1, <3>2, <3>3, <1>4
    <2> QED
      BY <2>1, <2>2, <2>3
  <1>6. ASSUME NEW i \in 1 .. n, NEW j \in 1 .. n, i < j
        PROVE  MayPrecede(calls'[i], calls'[j])
    <2>1. i + 1 \in 2 .. n /\ calls'[i] = calls[i + 1] /\ calls[i + 1] \in Behind
      BY <1>1, <1>3, <1>6 DEF Behind
    <2>2. CASE j = n
      BY <2>1, <2>2, <1>3
    <2>3. CASE j \in 1 .. n - 1
      <3>1. j + 1 \in 1 .. n /\ i + 1 \in 1 .. n /\ i + 1 < j + 1
        BY <1>1, <1>6, <2>3
      <3> QED
        BY <3>1, <2>1, <2>3, <1>3 DEF OrderOK
    <2> QED
      BY <2>2, <2>3, <1>4
  <1> QED
    BY <1>2, <1>3, <1>5, <1>6 DEF OrderOK, MayPrecede

(* Answering the oldest call takes no load of the documents of the wallet  *)
(* unlocked last from behind that of another, ...                          *)
LEMMA LoadsAnswered ==
    ASSUME calls \in Seq(Calls), calls # << >>, LoadsOK, latest' = latest,
           \A i \in 1 .. Len(calls) - 1 : calls'[i] = calls[i + 1],
           \/ Len(calls') = Len(calls) - 1
           \/ Len(calls') = Len(calls) /\ calls'[Len(calls)].at # "documents"
    PROVE  LoadsOK'
  <1> DEFINE n == Len(calls)
  <1>1. n \in Nat \ {0}
    OBVIOUS
  <1>2. SUFFICES ASSUME NEW i \in 1 .. Len(calls'),
                        calls'[i].at = "documents", calls'[i].walletId # latest
                 PROVE  \E j \in 1 .. Len(calls') :
                           i < j /\ calls'[j].at = "documents" /\ calls'[j].walletId = latest
    BY DEF LoadsOK
  <1>3. i \in 1 .. n - 1
    <2> HIDE DEF n
    <2> QED
      BY <1>1, <1>2 DEF n
  <1>4. PICK j \in 1 .. n : i + 1 < j /\ calls[j].at = "documents" /\ calls[j].walletId = latest
    BY <1>1, <1>2, <1>3 DEF LoadsOK
  <1>5. j - 1 \in 1 .. n - 1 /\ i < j - 1 /\ calls'[j - 1] = calls[j]
    BY <1>1, <1>3, <1>4
  <1>6. j - 1 \in 1 .. Len(calls')
    BY <1>1, <1>5
  <1> QED
    BY <1>4, <1>5, <1>6

(* ... and neither does an operation that begins. *)
LEMMA LoadsCalling ==
    ASSUME calls \in Seq(Calls), NEW c \in Calls, Calling(c),
           \/ LoadsOK /\ latest' = latest /\ c.at # "documents"
           \/ c.at = "documents" /\ c.walletId = latest'
    PROVE  LoadsOK'
  <1> DEFINE n == Len(calls)
  <1>1. n \in Nat /\ Len(calls') = n + 1 /\ calls'[n + 1] = c
    BY DEF Calling
  <1>2. \A i \in 1 .. n : calls'[i] = calls[i]
    BY DEF Calling
  <1>3. SUFFICES ASSUME NEW i \in 1 .. n + 1,
                        calls'[i].at = "documents", calls'[i].walletId # latest'
                 PROVE  \E j \in 1 .. n + 1 :
                           i < j /\ calls'[j].at = "documents" /\ calls'[j].walletId = latest'
    BY <1>1 DEF LoadsOK
  <1>4. i \in 1 .. n
    BY <1>1, <1>3
  <1>5. CASE LoadsOK /\ latest' = latest
    <2>1. PICK j \in 1 .. n : i < j /\ calls[j].at = "documents" /\ calls[j].walletId = latest
      BY <1>2, <1>3, <1>4, <1>5 DEF LoadsOK
    <2> QED
      BY <2>1, <1>1, <1>2, <1>5
  <1>6. CASE c.at = "documents" /\ c.walletId = latest'
    BY <1>1, <1>4, <1>6
  <1> QED
    BY <1>5, <1>6

LEMMA LoadBehind ==
    ASSUME calls \in Seq(Calls), calls # << >>, LoadsOK,
           Head(calls).at = "documents", Head(calls).walletId # latest
    PROVE  \E c \in Behind : c.at = "documents" /\ c.walletId = latest
  <1>1. Len(calls) \in Nat \ {0} /\ Head(calls) = calls[1]
    OBVIOUS
  <1>2. PICK j \in 1 .. Len(calls) :
            1 < j /\ calls[j].at = "documents" /\ calls[j].walletId = latest
    BY <1>1 DEF LoadsOK
  <1>3. calls[j] \in Behind
    BY <1>1, <1>2 DEF Behind
  <1> QED
    BY <1>2, <1>3

-----------------------------------------------------------------------------
(* The store. *)

Stores == [attributes : SUBSET Attributes, data : [Attributes -> 0 .. MaxEdits],
           documents : SUBSET Documents, tagged : SUBSET Documents]

LEMMA Ranges ==
    ASSUME TypeOK
    PROVE  /\ Len(attributes) \in Nat /\ Len(documents) \in Nat
           /\ 1 .. Len(attributes) \subseteq Attributes
           /\ 1 .. Len(documents) \subseteq Documents
           /\ \A a \in 1 .. Len(attributes) : attributes[a] \in AttributeRows
           /\ \A d \in 1 .. Len(documents) :
                 /\ documents[d] \in DocumentRows
                 /\ documents[d].attributeId \in 1 .. Len(attributes)
           /\ store \in Stores
           /\ MaxEdits \in Nat /\ edits \in 0 .. MaxEdits
  <1>1. MaxAttributes \in Nat /\ MaxDocuments \in Nat /\ MaxEdits \in Nat
    BY ConstantsAssumption DEF ConstantsAssumption
  <1>2. /\ Len(attributes) \in Nat /\ Len(documents) \in Nat
        /\ \A a \in 1 .. Len(attributes) : attributes[a] \in AttributeRows
        /\ \A d \in 1 .. Len(documents) : documents[d] \in DocumentRows
    BY DEF TypeOK
  <1>3. ASSUME NEW d \in 1 .. Len(documents)
        PROVE  documents[d].attributeId \in 1 .. Len(attributes)
    BY <1>1, <1>2 DEF TypeOK, DocumentRows, Attributes
  <1> QED
    BY <1>1, <1>2, <1>3 DEF TypeOK, Attributes, Documents, Stores

(* Loading the documents of an attribute touches no others. *)
LEMMA AttributeDocuments ==
    ASSUME TypeOK, IdsOK, NEW a, NEW loaded \in SUBSET DocumentsOfAttribute(a)
    PROVE  LET s == SetAttributeDocuments(store, a, loaded)
           IN /\ s \in Stores
              /\ s.attributes = store.attributes /\ s.data = store.data
              /\ s.documents \subseteq 1 .. Len(documents)
              /\ \A d \in 1 .. Len(documents) :
                    /\ documents[d].attributeId = a => (d \in s.documents <=> d \in loaded)
                    /\ documents[d].attributeId # a =>
                          (d \in s.documents <=> d \in store.documents)
  <1> DEFINE s == SetAttributeDocuments(store, a, loaded)
             others == {d \in store.documents : documents[d].attributeId # a}
  <1>1. store \in Stores /\ 1 .. Len(documents) \subseteq Documents
    BY Ranges
  <1>2. s = [store EXCEPT !.documents = others \cup loaded, !.tagged = @ \cap others]
    BY DEF SetAttributeDocuments
  <1>3. others \subseteq 1 .. Len(documents) /\ loaded \subseteq 1 .. Len(documents)
    BY DEF IdsOK, DocumentsOfAttribute
  <1>4. s \in Stores
    BY <1>1, <1>2, <1>3 DEF Stores
  <1>5. /\ s.attributes = store.attributes /\ s.data = store.data
        /\ s.documents = others \cup loaded
    BY <1>1, <1>2 DEF Stores
  <1> QED
    BY <1>3, <1>4, <1>5 DEF DocumentsOfAttribute

-----------------------------------------------------------------------------
(* The steps. *)

(* What no answer changes: an operation begins, or is rejected. *)
LEMMA Unanswered ==
    ASSUME StoreInv, TypeOK', OrderOK', LoadsOK',
           UNCHANGED <<attributes, documents, store, unlocked, latest>>, edits <= edits',
           \A c \in Waiting : c.at \notin Starts => c \in Waiting',
           \A c \in Waiting' :
              \/ c \in Waiting
              \/ /\ c.at \in Starts
                 /\ c.at # "create" => c.id \in 1 .. Len(attributes)
                 /\ c.at = "edit" => c.data = edits' /\ edits < edits'
    PROVE  StoreInv'
  <1>1. edits \in Nat /\ edits' \in Nat
    BY Ranges DEF StoreInv, TypeOK
  <1>2. IdsOK'
    BY DEF StoreInv, IdsOK, Starts
  <1>3. ASSUME NEW c \in Waiting', c.at = "edit" PROVE c.data <= edits'
    <2>1. CASE c \in Waiting
      <3>1. c \in Calls
        BY <2>1 DEF Waiting, StoreInv, TypeOK
      <3>2. c.data \in Nat
        BY <3>1, <1>3, CallFields
      <3> QED
        BY <2>1, <3>2, <1>1, <1>3 DEF StoreInv
    <2> QED
      BY <2>1, <1>1, <1>3
  <1>4. ASSUME NEW a \in 1 .. Len(attributes) PROVE RowOK(a)'
    <2>1. RowOK(a) /\ attributes[a].data \in Nat
      BY <1>4, Ranges DEF StoreInv, AttributeRows
    <2>2. attributes[a].data <= edits'
      BY <2>1, <1>1 DEF RowOK
    <2>3. ASSUME NEW c \in Waiting', c.at = "edit" PROVE attributes[a].data < c.data
      BY <2>1, <2>3, <1>1 DEF RowOK
    <2> QED
      BY <2>1, <2>2, <2>3 DEF RowOK, Starts
  <1>5. ASSUME NEW a \in store.attributes PROVE ListedOK(a)'
    BY <1>5 DEF StoreInv, ListedOK, Awaits, Starts
  <1>6. ASSUME NEW a \in Owned PROVE Reached(a)'
    <2>1. Reached(a)
      BY <1>6 DEF StoreInv
    <2> QED
      BY <2>1 DEF Reached, Awaits, AwaitsLoad, Starts, Loads, DocumentsOfAttribute
  <1>7. ASSUME NEW d \in store.documents PROVE DocumentOK(d)'
    BY <1>7 DEF StoreInv, DocumentOK, Awaits, Starts
  <1>8. Owned' = Owned
    BY DEF Owned
  <1> QED
    BY <1>2, <1>3, <1>4, <1>5, <1>6, <1>7, <1>8 DEF StoreInv

LEMMA BeginStep ==
    ASSUME StoreInv, NEW c \in Calls, c.at \in Starts, Calling(c), OnDashboard,
           UNCHANGED <<attributes, documents, store, walletVars>>,
           edits' \in 0 .. MaxEdits, edits <= edits',
           c.at # "create" => c.id \in 1 .. Len(attributes),
           c.at = "edit" => c.data = edits' /\ edits < edits'
    PROVE  StoreInv'
  <1>1. calls \in Seq(Calls) /\ edits \in Nat /\ edits' \in Nat
    BY Ranges DEF StoreInv, TypeOK
  <1>2. \A d \in Waiting : d \in Calls /\ d.at \notin Loads
    BY <1>1 DEF Waiting, OnDashboard, Loads
  <1>3. ASSUME NEW d \in Waiting PROVE MayPrecede(d, c)
    <2>1. c.at = "edit" /\ d.at = "edit" => d.data < c.data
      <3>1. d.at = "edit" => d.data \in Nat /\ d.data <= edits
        BY <1>2, <1>3, CallFields DEF StoreInv
      <3> QED
        BY <3>1, <1>1
    <2> QED
      BY <2>1, <1>2, <1>3 DEF MayPrecede, Starts, Loads
  <1>4. /\ calls' \in Seq(Calls) /\ Len(calls') <= MaxPending
        /\ Waiting' = Waiting \cup {c} /\ OrderOK'
    BY <1>1, <1>3, QueueCalling DEF StoreInv
  <1>5. LoadsOK'
    BY <1>1, LoadsCalling DEF StoreInv, Starts, walletVars
  <1>6. TypeOK'
    BY <1>4 DEF StoreInv, TypeOK, walletVars
  <1> QED
    BY <1>4, <1>5, <1>6, Unanswered DEF walletVars

LEMMA CreateStep ==
    ASSUME StoreInv, NEW new \in BOOLEAN, Create(new)
    PROVE  StoreInv'
  <1> DEFINE c == [at |-> "create", walletId |-> wallet, new |-> new]
  <1>1. wallet \in Wallets /\ edits \in 0 .. MaxEdits
    BY DEF Create, OnDashboard, StoreInv, TypeOK
  <1>2. c \in Calls
    BY <1>1 DEF Calls
  <1>3. edits <= edits' /\ edits' \in 0 .. MaxEdits
    BY <1>1 DEF Create
  <1> QED
    BY <1>2, <1>3, BeginStep DEF Create, Starts

LEMMA EditStep ==
    ASSUME StoreInv, NEW a \in 1 .. Len(attributes), NEW keep \in SUBSET Documents,
           NEW new \in BOOLEAN, Edit(a, keep, new)
    PROVE  StoreInv'
  <1> DEFINE c == [at |-> "edit", id |-> a, data |-> edits + 1, keep |-> keep, new |-> new]
  <1>1. a \in Attributes /\ edits \in 0 .. MaxEdits /\ MaxEdits \in Nat
    BY Ranges DEF StoreInv
  <1>2. edits + 1 \in 1 .. MaxEdits /\ edits' = edits + 1 /\ edits < edits + 1
    BY <1>1 DEF Edit
  <1>3. c \in Calls
    BY <1>1, <1>2 DEF Calls
  <1>4. edits' \in 0 .. MaxEdits /\ edits <= edits'
    BY <1>1, <1>2
  <1> QED
    BY <1>2, <1>3, <1>4, BeginStep DEF Edit, Starts

LEMMA RemoveStep ==
    ASSUME StoreInv, NEW a \in 1 .. Len(attributes), Remove(a)
    PROVE  StoreInv'
  <1> DEFINE c == [at |-> "remove", id |-> a]
  <1>1. a \in Attributes /\ edits \in 0 .. MaxEdits /\ MaxEdits \in Nat
    BY Ranges DEF StoreInv
  <1>2. c \in Calls
    BY <1>1 DEF Calls
  <1>3. edits <= edits' /\ edits' \in 0 .. MaxEdits
    BY <1>1 DEF Remove
  <1> QED
    BY <1>2, <1>3, BeginStep DEF Remove, Starts

LEMMA RejectedStep == ASSUME StoreInv, Rejected PROVE StoreInv'
  <1>1. calls \in Seq(Calls) /\ calls # << >> /\ Len(calls) <= MaxPending
    BY DEF StoreInv, TypeOK, Rejected
  <1>2. Waiting = Behind \cup {Head(calls)} /\ Len(calls) \in Nat \ {0}
    BY <1>1, QueueHead
  <1>3. /\ calls' \in Seq(Calls) /\ Len(calls') = Len(calls) - 1
        /\ \A i \in 1 .. Len(calls') : calls'[i] = calls[i + 1]
        /\ Waiting' = Behind /\ OrderOK'
    BY <1>1, QueueEnds DEF StoreInv, Rejected
  <1>4. LoadsOK'
    BY <1>1, <1>3, LoadsAnswered DEF StoreInv, Rejected, walletVars
  <1>5. TypeOK' /\ edits <= edits'
    BY <1>1, <1>2, <1>3, ConstantsAssumption
       DEF ConstantsAssumption, StoreInv, TypeOK, Rejected, walletVars
  <1> QED
    BY <1>2, <1>3, <1>4, <1>5, Unanswered DEF Rejected, Starts, walletVars

(* Loads that begin or go on leave what is said of rows and documents. *)
LEMMA LoadFrame ==
    ASSUME StoreInv, UNCHANGED <<attributes, documents, edits>>,
           \A c \in Waiting : c.at \notin Loads => c \in Waiting',
           \A c \in Waiting' : c.at \notin Loads => c \in Waiting
    PROVE  /\ \A c \in Waiting' : c.at = "edit" => c.data <= edits'
           /\ \A a \in 1 .. Len(attributes) : RowOK(a)'
  <1>1. ASSUME NEW c \in Waiting', c.at = "edit" PROVE c.data <= edits'
    BY <1>1 DEF StoreInv, Loads
  <1>2. ASSUME NEW a \in 1 .. Len(attributes) PROVE RowOK(a)'
    <2>1. RowOK(a)
      BY <1>2 DEF StoreInv
    <2>2. ASSUME NEW c \in Waiting', c.at = "edited", c.id = a
          PROVE  \E d \in Waiting' : d.at = "edited" /\ d.id = a /\ d.data = attributes[a].data
      <3>1. c \in Waiting
        BY <2>2 DEF Loads
      <3>2. PICK d \in Waiting : d.at = "edited" /\ d.id = a /\ d.data = attributes[a].data
        BY <2>1, <2>2, <3>1 DEF RowOK
      <3> QED
        BY <3>2 DEF Loads
    <2> QED
      BY <2>1, <2>2 DEF RowOK, Loads
  <1> QED
    BY <1>1, <1>2

LEMMA UnlockStep ==
    ASSUME StoreInv, NEW w \in Wallets, Unlock(w)
    PROVE  StoreInv'
  <1> DEFINE c == [at |-> "documents", walletId |-> w]
  <1>1. calls \in Seq(Calls) /\ c \in Calls
    BY LoadCalls DEF StoreInv, TypeOK
  <1>2. \A d \in Waiting : MayPrecede(d, c)
    BY DEF MayPrecede, Starts
  <1>3. /\ calls' \in Seq(Calls) /\ Len(calls') <= MaxPending
        /\ Waiting' = Waiting \cup {c} /\ OrderOK'
    BY <1>1, <1>2, QueueCalling DEF StoreInv, Unlock
  <1>4. LoadsOK'
    BY <1>1, LoadsCalling DEF StoreInv, Unlock
  <1>5. TypeOK'
    BY <1>3 DEF StoreInv, TypeOK, Unlock
  <1>6. /\ UNCHANGED <<attributes, documents, store, edits>>
        /\ latest' = w /\ unlocked' = unlocked \cup {w}
    BY DEF Unlock
  <1>7. IdsOK'
    BY <1>3, <1>6 DEF StoreInv, IdsOK
  <1>8. /\ \A d \in Waiting' : d.at = "edit" => d.data <= edits'
        /\ \A a \in 1 .. Len(attributes) : RowOK(a)'
    BY <1>3, <1>6, LoadFrame DEF Loads
  <1>9. ASSUME NEW a \in store.attributes PROVE ListedOK(a)'
    BY <1>3, <1>6, <1>9 DEF StoreInv, ListedOK, Awaits
  <1>10. ASSUME NEW a \in Owned' PROVE Reached(a)'
    <2>1. c \in Waiting' /\ c.at = "documents" /\ c.walletId = latest'
      BY <1>3, <1>6
    <2> HIDE DEF c
    <2>2. CASE attributes[a].walletId = w
      BY <2>1, <2>2, <1>6 DEF Reached, AwaitsLoad, Loads
    <2>3. CASE attributes[a].walletId # w
      <3>1. a \in Owned
        BY <2>3, <1>6, <1>10 DEF Owned
      <3>2. Reached(a)
        BY <3>1 DEF StoreInv
      <3> QED
        BY <2>3, <3>2, <1>3, <1>6 DEF Reached, Awaits, AwaitsLoad, Loads
    <2> QED
      BY <2>2, <2>3
  <1>11. ASSUME NEW d \in store.documents PROVE DocumentOK(d)'
    BY <1>3, <1>6, <1>11 DEF StoreInv, DocumentOK, Awaits
  <1> QED
    BY <1>3, <1>4, <1>5, <1>6, <1>7, <1>8, <1>9, <1>10, <1>11 DEF StoreInv

LEMMA LateBalanceStep ==
    ASSUME StoreInv, NEW w \in Wallets, LateBalance(w)
    PROVE  StoreInv'
  <1>1. TypeOK' /\ OrderOK' /\ LoadsOK' /\ Waiting' = Waiting /\ edits <= edits'
    BY DEF LateBalance, StoreInv, TypeOK, OrderOK, LoadsOK, Waiting, MayPrecede
  <1> QED
    BY <1>1, Unanswered DEF LateBalance

LEMMA DocumentsLoadedStep == ASSUME StoreInv, DocumentsLoaded PROVE StoreInv'
  <1> DEFINE w == Head(calls).walletId
             c == [at |-> "attributes", walletId |-> w]
  <1>1. /\ calls \in Seq(Calls) /\ calls # << >> /\ Len(calls) <= MaxPending
        /\ Head(calls).at = "documents"
    BY DEF StoreInv, TypeOK, DocumentsLoaded, Answers
  <1>2. /\ Head(calls) \in Calls /\ Waiting = Behind \cup {Head(calls)}
        /\ \A d \in Behind : MayPrecede(Head(calls), d)
        /\ Len(calls) \in Nat \ {0}
    BY <1>1, QueueHead DEF StoreInv
  <1>3. w \in Wallets /\ c \in Calls
    BY <1>1, <1>2, CallFields, LoadCalls DEF Loads
  <1>4. \A d \in Behind : MayPrecede(d, c)
    BY <1>1, <1>2 DEF MayPrecede, Loads, Starts
  <1>5. /\ calls' \in Seq(Calls) /\ Len(calls') = Len(calls)
        /\ \A i \in 1 .. Len(calls) - 1 : calls'[i] = calls[i + 1]
        /\ calls'[Len(calls)] = c
        /\ Waiting' = Behind \cup {c} /\ OrderOK'
    BY <1>1, <1>3, <1>4, QueueAsks DEF StoreInv, DocumentsLoaded
  <1>6. LoadsOK'
    BY <1>1, <1>5, LoadsAnswered DEF StoreInv, DocumentsLoaded, walletVars
  <1>7. UNCHANGED <<attributes, documents, wallet, unlocked, latest, edits>>
    BY DEF DocumentsLoaded, walletVars
  <1>8. /\ store \in Stores /\ 1 .. Len(documents) \subseteq Documents
        /\ store.documents \subseteq 1 .. Len(documents)
        /\ DocumentsOf(w) \subseteq 1 .. Len(documents)
    BY Ranges DEF StoreInv, IdsOK, DocumentsOf, DocumentsOfAttribute
  <1>9. /\ store' \in Stores
        /\ store'.attributes = store.attributes /\ store'.data = store.data
        /\ store'.documents = (store.documents \cap store.tagged) \cup DocumentsOf(w)
    BY <1>8 DEF Stores, DocumentsLoaded, SetDocuments
  <1>10. TypeOK'
    BY <1>1, <1>5, <1>7, <1>9 DEF StoreInv, TypeOK, Stores
  <1>11. IdsOK'
    BY <1>2, <1>5, <1>7, <1>8, <1>9 DEF StoreInv, IdsOK
  <1>12. /\ \A d \in Waiting' : d.at = "edit" => d.data <= edits'
         /\ \A a \in 1 .. Len(attributes) : RowOK(a)'
    BY <1>1, <1>2, <1>5, <1>7, LoadFrame DEF Loads
  <1>13. ASSUME NEW a \in store.attributes PROVE ListedOK(a)'
    BY <1>1, <1>2, <1>5, <1>7, <1>9, <1>13 DEF StoreInv, ListedOK, Awaits
  <1>14. ASSUME NEW a \in Owned PROVE Reached(a)'
    <2>1. Reached(a)
      BY <1>14 DEF StoreInv
    <2>2. \/ a \in store'.attributes \/ \E d \in Waiting' : d.at \in {"created"} /\ d.id = a
          \/ \E d \in Waiting' : d.at \in Loads /\ d.walletId = attributes[a].walletId
      BY <2>1, <1>1, <1>2, <1>5, <1>7, <1>9 DEF Reached, Awaits, AwaitsLoad, Loads
    <2>3. attributes[a].walletId = latest =>
             \/ DocumentsOfAttribute(a) \subseteq store'.documents
             \/ \E d \in Waiting' : d.at \in {"documents"} /\ d.walletId = latest
      <3>1. CASE w = latest
        BY <3>1, <1>9, <1>14 DEF DocumentsOf, AttributesOf, Owned
      <3>2. CASE w # latest
        BY <3>2, <1>1, <1>5, <1>7, LoadBehind DEF StoreInv
      <3> QED
        BY <3>1, <3>2
    <2> QED
      BY <2>2, <2>3, <1>7 DEF Reached, Awaits, AwaitsLoad, DocumentsOfAttribute
  <1>15. ASSUME NEW d \in store'.documents PROVE DocumentOK(d)'
    <2>1. CASE d \in DocumentsOf(w)
      BY <2>1, <1>7 DEF DocumentsOf, DocumentsOfAttribute, DocumentOK
    <2>2. CASE d \in store.documents
      BY <2>2, <1>1, <1>2, <1>5, <1>7 DEF StoreInv, DocumentOK, Awaits
    <2> QED
      BY <2>1, <2>2, <1>9, <1>15
  <1>16. Owned' = Owned
    BY <1>7 DEF Owned
  <1> QED
    BY <1>5, <1>6, <1>7, <1>9, <1>10, <1>11, <1>12, <1>13, <1>14, <1>15, <1>16 DEF StoreInv

LEMMA AttributesLoadedStep == ASSUME StoreInv, AttributesLoaded PROVE StoreInv'
  <1> DEFINE w == Head(calls).walletId
  <1>1. /\ calls \in Seq(Calls) /\ calls # << >> /\ Len(calls) <= MaxPending
        /\ Head(calls).at = "attributes"
    BY DEF StoreInv, TypeOK, AttributesLoaded, Answers
  <1>2. /\ Head(calls) \in Calls /\ Waiting = Behind \cup {Head(calls)}
        /\ \A d \in Behind : MayPrecede(Head(calls), d)
        /\ Len(calls) \in Nat \ {0}
    BY <1>1, QueueHead DEF StoreInv
  <1>3. \A d \in Behind : d.at \in Loads
    <2>1. \A d \in Behind : d \in Calls
      BY <1>1 DEF Behind
    <2> QED
      BY <2>1, <1>1, <1>2, CallFields DEF MayPrecede, Loads, Starts
  <1>4. /\ calls' \in Seq(Calls) /\ Len(calls') = Len(calls) - 1
        /\ \A i \in 1 .. Len(calls') : calls'[i] = calls[i + 1]
        /\ Waiting' = Behind /\ OrderOK'
    BY <1>1, QueueEnds DEF StoreInv, AttributesLoaded
  <1>5. UNCHANGED <<attributes, documents, wallet, unlocked, latest, edits>>
    BY DEF AttributesLoaded, walletVars
  <1>6. LoadsOK'
    BY <1>1, <1>4, <1>5, LoadsAnswered DEF StoreInv
  <1>7. /\ store \in Stores /\ 1 .. Len(attributes) \subseteq Attributes
        /\ \A a \in 1 .. Len(attributes) : attributes[a].data \in 0 .. MaxEdits
        /\ store.attributes \subseteq 1 .. Len(attributes)
    BY Ranges DEF StoreInv, IdsOK, AttributeRows
  <1>8. AttributesOf(w) \subseteq 1 .. Len(attributes)
    BY DEF AttributesOf
  <1>9. /\ store' \in Stores
        /\ store'.attributes = {a \in store.attributes : attributes[a].walletId # w}
                                   \cup AttributesOf(w)
        /\ \A a \in 1 .. Len(attributes) :
              store'.data[a] = IF a \in AttributesOf(w) THEN attributes[a].data
                                                        ELSE store.data[a]
        /\ store'.documents = store.documents
    BY <1>7, <1>8 DEF Stores, AttributesLoaded, SetIdAttributes
  <1>10. TypeOK'
    <2>1. MaxPending \in Nat
      BY ConstantsAssumption DEF ConstantsAssumption
    <2>2. Len(calls') <= MaxPending
      BY <2>1, <1>1, <1>2, <1>4
    <2> QED
      BY <2>2, <1>4, <1>5, <1>9 DEF StoreInv, TypeOK, Stores
  <1>11. IdsOK'
    BY <1>2, <1>4, <1>5, <1>7, <1>8, <1>9 DEF StoreInv, IdsOK
  <1>12. /\ \A d \in Waiting' : d.at = "edit" => d.data <= edits'
         /\ \A a \in 1 .. Len(attributes) : RowOK(a)'
    BY <1>1, <1>2, <1>4, <1>5, LoadFrame DEF Loads
  <1>13. ASSUME NEW a \in store'.attributes PROVE ListedOK(a)'
    <2>1. a \in 1 .. Len(attributes)
      BY <1>7, <1>8, <1>9, <1>13
    <2>2. \A d \in Waiting' : d.at # "edited"
      BY <1>3, <1>4 DEF Loads
    <2>3. CASE a \in AttributesOf(w)
      <3>1. store'.data[a] = attributes[a].data /\ attributes[a].data \in Nat
        BY <2>1, <2>3, <1>7, <1>9
      <3> QED
        BY <2>2, <2>3, <3>1, <1>5 DEF ListedOK, AttributesOf
    <2>4. CASE a \notin AttributesOf(w)
      <3>1. a \in store.attributes /\ store'.data[a] = store.data[a]
        BY <2>1, <2>4, <1>9, <1>13
      <3>2. ListedOK(a) /\ \A d \in Waiting : d.at # "edited"
        BY <3>1, <2>2, <1>1, <1>2, <1>4 DEF StoreInv
      <3> QED
        BY <2>2, <3>1, <3>2, <1>5 DEF ListedOK, Awaits
    <2> QED
      BY <2>3, <2>4
  <1>14. ASSUME NEW a \in Owned PROVE Reached(a)'
    <2>1. /\ Reached(a) /\ a \in 1 .. Len(attributes)
          /\ w = attributes[a].walletId => a \in AttributesOf(w)
      BY <1>14 DEF StoreInv, AttributesOf, Owned
    <2>2. CASE w = attributes[a].walletId
      BY <2>1, <2>2, <1>1, <1>2, <1>4, <1>5, <1>9
         DEF Reached, Awaits, AwaitsLoad, DocumentsOfAttribute
    <2>3. CASE w # attributes[a].walletId
      BY <2>1, <2>3, <1>1, <1>2, <1>4, <1>5, <1>9
         DEF Reached, Awaits, AwaitsLoad, DocumentsOfAttribute
    <2> QED
      BY <2>2, <2>3
  <1>15. ASSUME NEW d \in store'.documents PROVE DocumentOK(d)'
    BY <1>1, <1>2, <1>4, <1>5, <1>9, <1>15 DEF StoreInv, DocumentOK, Awaits
  <1>16. Owned' = Owned
    BY <1>5 DEF Owned
  <1> QED
    BY <1>4, <1>5, <1>6, <1>10, <1>11, <1>12, <1>13, <1>14, <1>15, <1>16 DEF StoreInv

(* The documents of an attribute are loaded, and the store shows them:     *)
(* what was awaited of the answer is there.                                *)
LEMMA AttributeShown ==
    ASSUME StoreInv, calls # << >>, Head(calls).at \in {"created", "edited"},
           NEW a, Head(calls).id = a, Waiting' = Behind,
           UNCHANGED <<attributes, documents, unlocked, latest>>,
           store'.documents =
              SetAttributeDocuments(store, a, DocumentsOfAttribute(a)).documents,
           store.attributes \subseteq store'.attributes,
           Head(calls).at = "created" => a \in store'.attributes
    PROVE  /\ \A b \in Owned : Reached(b)'
           /\ \A d \in store'.documents : DocumentOK(d)'
  <1>1. calls \in Seq(Calls) /\ Waiting = Behind \cup {Head(calls)}
    BY QueueHead DEF StoreInv, TypeOK
  <1>2. /\ store'.documents \subseteq 1 .. Len(documents)
        /\ \A d \in 1 .. Len(documents) :
              /\ documents[d].attributeId = a =>
                    (d \in store'.documents <=> d \in DocumentsOfAttribute(a))
              /\ documents[d].attributeId # a =>
                    (d \in store'.documents <=> d \in store.documents)
    BY AttributeDocuments DEF StoreInv
  <1>3. ASSUME NEW b \in Owned PROVE Reached(b)'
    <2> DEFINE w == attributes[b].walletId
    <2>1. Reached(b)
      BY <1>3 DEF StoreInv
    <2>2. b \in store'.attributes \/ Awaits({"created"}, b)' \/ AwaitsLoad(Loads, w)'
      BY <2>1, <1>1 DEF Reached, Awaits, AwaitsLoad, Loads
    <2>3. \A d \in DocumentsOfAttribute(b) :
             d \in 1 .. Len(documents) /\ documents[d].attributeId = b
      BY DEF DocumentsOfAttribute
    <2>4. ASSUME w = latest
          PROVE  \/ DocumentsOfAttribute(b) \subseteq store'.documents
                 \/ Awaits({"created", "edited"}, b)' \/ AwaitsLoad({"documents"}, w)'
      <3>1. CASE b = a
        BY <3>1, <2>3, <1>2
      <3>2. CASE b # a /\ DocumentsOfAttribute(b) \subseteq store.documents
        BY <3>2, <2>3, <1>2
      <3>3. CASE b # a /\ Awaits({"created", "edited"}, b)
        BY <3>3, <1>1 DEF Awaits
      <3>4. CASE AwaitsLoad({"documents"}, w)
        BY <3>4, <1>1 DEF AwaitsLoad
      <3> QED
        BY <3>1, <3>2, <3>3, <3>4, <2>1, <2>4 DEF Reached
    <2> QED
      BY <2>2, <2>4 DEF Reached, DocumentsOfAttribute
  <1>4. ASSUME NEW d \in store'.documents PROVE DocumentOK(d)'
    <2>1. CASE documents[d].attributeId = a
      BY <2>1, <1>2, <1>4 DEF DocumentOK, DocumentsOfAttribute
    <2>2. CASE documents[d].attributeId # a
      <3>1. d \in store.documents
        BY <2>2, <1>2, <1>4
      <3>2. documents[d].present \/ Awaits({"edited"}, documents[d].attributeId)
        BY <3>1 DEF StoreInv, DocumentOK
      <3> QED
        BY <2>2, <3>2, <1>1 DEF DocumentOK, Awaits
    <2> QED
      BY <2>1, <2>2
  <1> QED
    BY <1>3, <1>4

LEMMA CreatedDocumentsLoadedStep == ASSUME StoreInv, CreatedDocumentsLoaded PROVE StoreInv'
  <1> DEFINE a == Head(calls).id
             s == SetAttributeDocuments(store, a, DocumentsOfAttribute(a))
  <1>1. /\ calls \in Seq(Calls) /\ calls # << >> /\ Len(calls) <= MaxPending
        /\ Head(calls).at = "created"
    BY DEF StoreInv, TypeOK, CreatedDocumentsLoaded, Answers
  <1>2. /\ Head(calls) \in Calls /\ Waiting = Behind \cup {Head(calls)}
        /\ Len(calls) \in Nat \ {0}
    BY <1>1, QueueHead
  <1>3. /\ calls' \in Seq(Calls) /\ Len(calls') = Len(calls) - 1
        /\ \A i \in 1 .. Len(calls') : calls'[i] = calls[i + 1]
        /\ Waiting' = Behind /\ OrderOK'
    BY <1>1, QueueEnds DEF StoreInv, CreatedDocumentsLoaded
  <1>4. UNCHANGED <<attributes, documents, wallet, unlocked, latest, edits>>
    BY DEF CreatedDocumentsLoaded, walletVars
  <1>5. LoadsOK'
    BY <1>1, <1>3, <1>4, LoadsAnswered DEF StoreInv
  <1>6. /\ a \in 1 .. Len(attributes) /\ a \in Attributes /\ MaxEdits \in Nat
        /\ attributes[a].present /\ attributes[a].data = 0
    BY <1>1, <1>2, Ranges DEF StoreInv, IdsOK, RowOK
  <1>7. /\ s \in Stores /\ s.attributes = store.attributes /\ s.data = store.data
        /\ s.documents \subseteq 1 .. Len(documents)
    BY AttributeDocuments DEF StoreInv
  <1>8. /\ store' \in Stores
        /\ store'.attributes = store.attributes \cup {a}
        /\ store'.data[a] = 0
        /\ \A b \in Attributes : b # a => store'.data[b] = store.data[b]
        /\ store'.documents = s.documents
    <2>1. store' = AddIdAttribute(s, a)
      BY DEF CreatedDocumentsLoaded
    <2> HIDE DEF s, a
    <2>2. store' = [attributes |-> s.attributes \cup {a}, data |-> [s.data EXCEPT ![a] = 0],
                    documents |-> s.documents, tagged |-> s.tagged]
      BY <2>1, <1>7 DEF Stores, AddIdAttribute
    <2> QED
      BY <2>2, <1>6, <1>7 DEF Stores
  <1>9. TypeOK'
    <2>1. MaxPending \in Nat
      BY ConstantsAssumption DEF ConstantsAssumption
    <2>2. Len(calls') <= MaxPending
      BY <2>1, <1>1, <1>2, <1>3
    <2> QED
      BY <2>2, <1>3, <1>4, <1>8 DEF StoreInv, TypeOK, Stores
  <1>10. IdsOK'
    BY <1>2, <1>3, <1>4, <1>6, <1>7, <1>8 DEF StoreInv, IdsOK
  <1>11. ASSUME NEW b \in 1 .. Len(attributes) PROVE RowOK(b)'
    <2>1. RowOK(b)
      BY <1>11 DEF StoreInv
    <2> QED
      BY <2>1, <1>1, <1>2, <1>3, <1>4 DEF RowOK
  <1>12. ASSUME NEW b \in store'.attributes PROVE ListedOK(b)'
    <2>1. CASE b = a
      <3>1. ASSUME NEW d \in Waiting', d.at = "edited", d.id = a PROVE 0 <= d.data
        <4>1. d \in Calls
          BY <1>1, <1>3, <3>1 DEF Behind
        <4> QED
          BY <4>1, <3>1, CallFields
      <3> QED
        BY <2>1, <3>1, <1>4, <1>6, <1>8 DEF ListedOK
    <2>2. CASE b # a
      <3>1. b \in store.attributes /\ b \in Attributes
        BY <2>2, <1>8, <1>12 DEF Stores
      <3> QED
        BY <2>2, <3>1, <1>1, <1>2, <1>3, <1>4, <1>8 DEF StoreInv, ListedOK, Awaits
    <2> QED
      BY <2>1, <2>2
  <1>13. /\ \A b \in Owned : Reached(b)'
         /\ \A d \in store'.documents : DocumentOK(d)'
    BY <1>1, <1>3, <1>4, <1>8, AttributeShown
  <1>14. Owned' = Owned
    BY <1>4 DEF Owned
  <1>15. \A d \in Waiting' : d.at = "edit" => d.data <= edits'
    BY <1>2, <1>3, <1>4 DEF StoreInv
  <1> QED
    BY <1>3, <1>4, <1>5, <1>9, <1>10, <1>11, <1>12, <1>13, <1>14, <1>15 DEF StoreInv

LEMMA EditedDocumentsLoadedStep == ASSUME StoreInv, EditedDocumentsLoaded PROVE StoreInv'
  <1> DEFINE a == Head(calls).id
             n == Head(calls).data
             s == SetAttributeDocuments(store, a, DocumentsOfAttribute(a))
  <1>1. /\ calls \in Seq(Calls) /\ calls # << >> /\ Len(calls) <= MaxPending
        /\ Head(calls).at = "edited"
    BY DEF StoreInv, TypeOK, EditedDocumentsLoaded, Answers
  <1>2. /\ Head(calls) \in Calls /\ Waiting = Behind \cup {Head(calls)}
        /\ \A d \in Behind : d.at = "edited" /\ d.id = a => n <= d.data
        /\ Len(calls) \in Nat \ {0}
    BY <1>1, QueueHead DEF StoreInv, MayPrecede
  <1>3. /\ calls' \in Seq(Calls) /\ Len(calls') = Len(calls) - 1
        /\ \A i \in 1 .. Len(calls') : calls'[i] = calls[i + 1]
        /\ Waiting' = Behind /\ OrderOK'
    BY <1>1, QueueEnds DEF StoreInv, EditedDocumentsLoaded
  <1>4. UNCHANGED <<attributes, documents, wallet, unlocked, latest, edits>>
    BY DEF EditedDocumentsLoaded, walletVars
  <1>5. LoadsOK'
    BY <1>1, <1>3, <1>4, LoadsAnswered DEF StoreInv
  <1>6. /\ a \in 1 .. Len(attributes) /\ a \in Attributes /\ n \in 1 .. MaxEdits
        /\ attributes[a].data \in Nat /\ n <= attributes[a].data
    BY <1>1, <1>2, CallFields, Ranges DEF StoreInv, IdsOK, RowOK, AttributeRows
  <1>7. /\ s \in Stores /\ s.attributes = store.attributes /\ s.data = store.data
        /\ s.documents \subseteq 1 .. Len(documents)
    BY AttributeDocuments DEF StoreInv
  <1>8. /\ store' \in Stores
        /\ store'.attributes = store.attributes
        /\ a \in store.attributes => store'.data[a] = n
        /\ \A b \in Attributes : b # a => store'.data[b] = store.data[b]
        /\ store'.documents = s.documents
    <2>1. store' = UpdateIdAttribute(s, a, n)
      BY DEF EditedDocumentsLoaded
    <2> HIDE DEF s, n, a
    <2>2. CASE a \in store.attributes
      <3>1. store' = [attributes |-> s.attributes, data |-> [s.data EXCEPT ![a] = n],
                      documents |-> s.documents, tagged |-> s.tagged]
        BY <2>1, <2>2, <1>7 DEF Stores, UpdateIdAttribute
      <3> QED
        BY <3>1, <2>2, <1>6, <1>7 DEF Stores
    <2>3. CASE a \notin store.attributes
      BY <2>1, <2>3, <1>7 DEF UpdateIdAttribute
    <2> QED
      BY <2>2, <2>3
  <1>9. TypeOK'
    <2>1. MaxPending \in Nat
      BY ConstantsAssumption DEF ConstantsAssumption
    <2>2. Len(calls') <= MaxPending
      BY <2>1, <1>1, <1>2, <1>3
    <2> QED
      BY <2>2, <1>3, <1>4, <1>8 DEF StoreInv, TypeOK, Stores
  <1>10. IdsOK'
    BY <1>2, <1>3, <1>4, <1>7, <1>8 DEF StoreInv, IdsOK
  <1>11. ASSUME NEW b \in 1 .. Len(attributes) PROVE RowOK(b)'
    <2>1. RowOK(b)
      BY <1>11 DEF StoreInv
    <2>2. ASSUME NEW c \in Behind, c.at = "edited", c.id = b
          PROVE  \E d \in Behind : d.at = "edited" /\ d.id = b /\ d.data = attributes[b].data
      <3>1. c.data \in Nat /\ c.data <= attributes[b].data /\ attributes[b].data \in Nat
        <4>1. c \in Calls /\ c \in Waiting
          BY <2>2, <1>1, <1>2 DEF Behind
        <4> QED
          BY <4>1, <2>1, <2>2, <1>11, CallFields, Ranges DEF RowOK, StoreInv, AttributeRows
      <3>2. PICK d \in Waiting : d.at = "edited" /\ d.id = b /\ d.data = attributes[b].data
        BY <2>1, <2>2, <1>2 DEF RowOK
      <3>3. CASE d \in Behind
        BY <3>2, <3>3
      <3>4. CASE d = Head(calls)
        <4>1. attributes[b].data <= c.data
          BY <3>2, <3>4, <2>2, <1>2
        <4>2. c.data = attributes[b].data
          BY <4>1, <3>1
        <4> QED
          BY <4>2, <2>2
      <3> QED
        BY <3>2, <3>3, <3>4, <1>2
    <2> QED
      BY <2>1, <2>2, <1>2, <1>3, <1>4 DEF RowOK
  <1>12. ASSUME NEW b \in store'.attributes PROVE ListedOK(b)'
    <2>1. ListedOK(b) /\ b \in store.attributes /\ b \in Attributes
      BY <1>8, <1>12 DEF StoreInv, Stores
    <2>2. CASE b = a
      <3>1. store'.data[a] = attributes[a].data \/ \E d \in Behind : d.at = "edited" /\ d.id = a
        <4>1. PICK d \in Waiting : d.at = "edited" /\ d.id = a /\ d.data = attributes[a].data
          BY <1>1, <1>2, <1>6 DEF StoreInv, RowOK
        <4> QED
          BY <4>1, <2>1, <2>2, <1>2, <1>8
      <3> QED
        BY <2>1, <2>2, <3>1, <1>2, <1>3, <1>4, <1>6, <1>8 DEF ListedOK, Awaits
    <2>3. CASE b # a
      BY <2>1, <2>3, <1>2, <1>3, <1>4, <1>8 DEF ListedOK, Awaits
    <2> QED
      BY <2>2, <2>3
  <1>13. /\ \A b \in Owned : Reached(b)'
         /\ \A d \in store'.documents : DocumentOK(d)'
    BY <1>1, <1>3, <1>4, <1>8, AttributeShown
  <1>14. Owned' = Owned
    BY <1>4 DEF Owned
  <1>15. \A d \in Waiting' : d.at = "edit" => d.data <= edits'
    BY <1>2, <1>3, <1>4 DEF StoreInv
  <1> QED
    BY <1>3, <1>4, <1>5, <1>9, <1>10, <1>11, <1>12, <1>13, <1>14, <1>15 DEF StoreInv

-----------------------------------------------------------------------------
(* The tables. *)

LEMMA NewDocument ==
    ASSUME NEW rows \in Seq(DocumentRows), NEW new \in BOOLEAN, NEW a \in Attributes
    PROVE  LET with == WithNewDocument(rows, new, a)
           IN /\ with \in Seq(DocumentRows)
              /\ Len(with) = IF new THEN Len(rows) + 1 ELSE Len(rows)
              /\ \A d \in 1 .. Len(rows) : with[d] = rows[d]
              /\ new => with[Len(rows) + 1] = [attributeId |-> a, present |-> TRUE]
  <1>1. [attributeId |-> a, present |-> TRUE] \in DocumentRows
    BY DEF DocumentRows
  <1>2. CASE new
    BY <1>1, <1>2 DEF WithNewDocument
  <1>3. CASE ~new
    BY <1>3 DEF WithNewDocument
  <1> QED
    BY <1>2, <1>3

LEMMA MarkedDocuments ==
    ASSUME documents \in Seq(DocumentRows), NEW a, NEW keep
    PROVE  LET kept == [d \in 1 .. Len(documents) |->
                          [documents[d] EXCEPT !.present =
                             @ /\ (documents[d].attributeId = a => d \in keep)]]
           IN /\ kept \in Seq(DocumentRows) /\ Len(kept) = Len(documents)
              /\ \A d \in 1 .. Len(documents) :
                    /\ kept[d].attributeId = documents[d].attributeId
                    /\ kept[d].present <=> documents[d].present
                          /\ (documents[d].attributeId = a => d \in keep)
  <1> DEFINE row(d) == [documents[d] EXCEPT !.present =
                          @ /\ (documents[d].attributeId = a => d \in keep)]
             kept == [d \in 1 .. Len(documents) |-> row(d)]
  <1>1. ASSUME NEW d \in 1 .. Len(documents)
        PROVE  /\ row(d) \in DocumentRows
               /\ row(d).attributeId = documents[d].attributeId
               /\ row(d).present <=> documents[d].present
                     /\ (documents[d].attributeId = a => d \in keep)
    <2>1. documents[d] \in DocumentRows
      OBVIOUS
    <2> QED
      BY <2>1 DEF DocumentRows
  <1>2. kept \in Seq(DocumentRows) /\ Len(kept) = Len(documents)
    <2> HIDE DEF row
    <2> QED
      BY <1>1
  <1> QED
    BY <1>1, <1>2

LEMMA CreatedStep == ASSUME StoreInv, Created PROVE StoreInv'
  <1> DEFINE a == Len(attributes) + 1
             new == Head(calls).new
             row == [walletId |-> Head(calls).walletId, data |-> 0, present |-> TRUE]
             c == [at |-> "created", id |-> a]
  <1>1. /\ calls \in Seq(Calls) /\ calls # << >> /\ Len(calls) <= MaxPending
        /\ Head(calls).at = "create"
    BY DEF StoreInv, TypeOK, Created, Answers
  <1>2. /\ Head(calls) \in Calls /\ Waiting = Behind \cup {Head(calls)}
        /\ Len(calls) \in Nat \ {0}
        /\ \A d \in Behind : MayPrecede(Head(calls), d)
    BY <1>1, QueueHead DEF StoreInv
  <1>3. /\ Head(calls).walletId \in Wallets /\ new \in BOOLEAN
        /\ Len(attributes) \in Nat /\ a \in Attributes /\ MaxEdits \in Nat
        /\ attributes \in Seq(AttributeRows) /\ row \in AttributeRows
    <2>1. MaxEdits \in Nat /\ MaxAttributes \in Nat
      BY ConstantsAssumption DEF ConstantsAssumption
    <2> QED
      BY <2>1, <1>1, <1>2, CallFields
         DEF StoreInv, TypeOK, Created, Attributes, AttributeRows
  <1>4. /\ attributes' \in Seq(AttributeRows) /\ Len(attributes') = a
        /\ attributes'[a] = row
        /\ \A b \in 1 .. Len(attributes) : attributes'[b] = attributes[b]
    BY <1>3 DEF Created
  <1>5. /\ documents' \in Seq(DocumentRows)
        /\ Len(documents') = IF new THEN Len(documents) + 1 ELSE Len(documents)
        /\ \A d \in 1 .. Len(documents) : documents'[d] = documents[d]
        /\ new => documents'[Len(documents) + 1] = [attributeId |-> a, present |-> TRUE]
    <2>1. documents \in Seq(DocumentRows) /\ documents' = WithNewDocument(documents, new, a)
      BY DEF StoreInv, TypeOK, Created
    <2> QED
      BY <2>1, <1>3, NewDocument
  <1>6. UNCHANGED <<store, wallet, unlocked, latest, edits>>
    BY DEF Created, walletVars
  <1>7. \A d \in Waiting : d.at \in {"created", "edit", "edited", "remove"} =>
            d.id \in 1 .. Len(attributes)
    BY DEF StoreInv, IdsOK
  <1>8. \A d \in Behind : MayPrecede(d, c)
    BY <1>1, <1>2, <1>3, <1>7 DEF MayPrecede, Starts, Loads
  <1>9. c \in Calls
    BY <1>3 DEF Calls
  <1>10. /\ calls' \in Seq(Calls) /\ Len(calls') = Len(calls)
         /\ \A i \in 1 .. Len(calls) - 1 : calls'[i] = calls[i + 1]
         /\ calls'[Len(calls)] = c
         /\ Waiting' = Behind \cup {c} /\ OrderOK'
    BY <1>1, <1>8, <1>9, QueueAsks DEF StoreInv, Created
  <1>11. LoadsOK'
    BY <1>1, <1>6, <1>10, LoadsAnswered DEF StoreInv
  <1>12. TypeOK'
    <2>1. /\ Len(documents) \in Nat /\ Len(documents) <= MaxDocuments /\ MaxDocuments \in Nat
          /\ Len(attributes) < MaxAttributes /\ MaxAttributes \in Nat
          /\ new => Len(documents) < MaxDocuments
          /\ \A d \in 1 .. Len(documents) : documents[d].attributeId \in 1 .. Len(attributes)
      BY Ranges, ConstantsAssumption DEF ConstantsAssumption, StoreInv, TypeOK, Created
    <2>2. Len(attributes') <= MaxAttributes /\ Len(documents') <= MaxDocuments
      BY <2>1, <1>3, <1>4, <1>5
    <2>3. ASSUME NEW d \in 1 .. Len(documents')
          PROVE  documents'[d].attributeId <= Len(attributes')
      <3>1. CASE d \in 1 .. Len(documents)
        BY <3>1, <2>1, <1>3, <1>4, <1>5
      <3>2. CASE d \notin 1 .. Len(documents)
        <4>1. new /\ d = Len(documents) + 1
          BY <3>2, <2>1, <1>3, <1>5
        <4> QED
          BY <4>1, <1>3, <1>4, <1>5
      <3> QED
        BY <3>1, <3>2
    <2> QED
      BY <2>2, <2>3, <1>1, <1>4, <1>5, <1>6, <1>10 DEF StoreInv, TypeOK
  <1>13. IdsOK'
    <2>1. /\ 1 .. Len(attributes) \subseteq 1 .. Len(attributes')
          /\ 1 .. Len(documents) \subseteq 1 .. Len(documents')
      BY <1>3, <1>4, <1>5, Ranges DEF StoreInv
    <2>2. a \in 1 .. Len(attributes')
      BY <1>3, <1>4
    <2> QED
      BY <2>1, <2>2, <1>2, <1>6, <1>7, <1>10 DEF StoreInv, IdsOK
  <1>14. \A d \in Waiting' : d.at = "edit" => d.data <= edits'
    BY <1>2, <1>6, <1>10 DEF StoreInv
  <1>15. ASSUME NEW b \in 1 .. Len(attributes') PROVE RowOK(b)'
    <2>1. CASE b \in 1 .. Len(attributes)
      <3>1. RowOK(b) /\ attributes'[b] = attributes[b] /\ b # a
        BY <2>1, <1>3, <1>4 DEF StoreInv
      <3> HIDE DEF a
      <3> QED
        BY <3>1, <1>1, <1>2, <1>6, <1>10 DEF RowOK
    <2>2. CASE b = a
      <3>1. edits \in Nat /\ \A d \in Waiting : d.at = "edit" => d.data \in 1 .. MaxEdits
        BY CallFields, Ranges DEF StoreInv, TypeOK, Waiting
      <3>2. \A d \in Waiting' : d.at = "edited" => d.id # a
        BY <1>2, <1>3, <1>7, <1>10
      <3>3. attributes'[a].data = 0 /\ attributes'[a].present
        BY <1>4
      <3>4. \A d \in Waiting' : d.at = "edit" => 0 < d.data
        BY <3>1, <1>2, <1>3, <1>10
      <3> HIDE DEF a
      <3> QED
        BY <2>2, <3>1, <3>2, <3>3, <3>4, <1>6 DEF RowOK
    <2> QED
      BY <2>1, <2>2, <1>3, <1>4
  <1>16. ASSUME NEW b \in store.attributes PROVE ListedOK(b)'
    <2>1. ListedOK(b) /\ attributes'[b] = attributes[b]
      BY <1>4, <1>16 DEF StoreInv, IdsOK
    <2> QED
      BY <2>1, <1>1, <1>2, <1>6, <1>10 DEF ListedOK, Awaits
  <1>17. ASSUME NEW b \in Owned' PROVE Reached(b)'
    <2>1. CASE b = a
      <3>1. c \in Waiting' /\ c.at = "created" /\ c.id = a
        BY <1>10
      <3> HIDE DEF c, a
      <3> QED
        BY <2>1, <3>1 DEF Reached, Awaits
    <2>2. CASE b # a
      <3> DEFINE w == attributes[b].walletId
      <3>1. b \in Owned /\ attributes'[b].walletId = w
        BY <2>2, <1>3, <1>4, <1>6, <1>17 DEF Owned
      <3>2. DocumentsOfAttribute(b)' \subseteq DocumentsOfAttribute(b)
        BY <2>2, <1>5, Ranges DEF DocumentsOfAttribute, StoreInv
      <3>3. Reached(b)
        BY <3>1 DEF StoreInv
      <3>4. b \in store'.attributes \/ Awaits({"created"}, b)' \/ AwaitsLoad(Loads, w)'
        BY <3>1, <3>3, <1>1, <1>2, <1>6, <1>10 DEF Reached, Awaits, AwaitsLoad, Loads
      <3>5. w = latest =>
               \/ DocumentsOfAttribute(b)' \subseteq store'.documents
               \/ Awaits({"created", "edited"}, b)' \/ AwaitsLoad({"documents"}, w)'
        BY <3>1, <3>2, <3>3, <1>1, <1>2, <1>6, <1>10 DEF Reached, Awaits, AwaitsLoad
      <3> QED
        BY <3>1, <3>4, <3>5, <1>6 DEF Reached, AwaitsLoad
    <2> QED
      BY <2>1, <2>2
  <1>18. ASSUME NEW d \in store.documents PROVE DocumentOK(d)'
    <2>1. DocumentOK(d) /\ documents'[d] = documents[d]
      BY <1>5, <1>18 DEF StoreInv, IdsOK
    <2> QED
      BY <2>1, <1>1, <1>2, <1>10 DEF DocumentOK, Awaits
  <1> QED
    BY <1>6, <1>10, <1>11, <1>12, <1>13, <1>14, <1>15, <1>16, <1>17, <1>18 DEF StoreInv

(* What is changed of one attribute and its documents changes no other's.  *)
LEMMA OthersReached ==
    ASSUME StoreInv, NEW a, NEW b \in Owned, b # a, UNCHANGED latest,
           attributes'[b].walletId = attributes[b].walletId,
           \A d \in Waiting : d.at \in {"created", "edited"} \cup Loads => d \in Waiting',
           b \in store.attributes => b \in store'.attributes,
           DocumentsOfAttribute(b)' = DocumentsOfAttribute(b),
           \A d \in DocumentsOfAttribute(b) : d \in store.documents => d \in store'.documents
    PROVE  Reached(b)'
  <1> DEFINE w == attributes[b].walletId
  <1>1. Reached(b)
    BY DEF StoreInv
  <1>2. b \in store'.attributes \/ Awaits({"created"}, b)' \/ AwaitsLoad(Loads, w)'
    BY <1>1 DEF Reached, Awaits, AwaitsLoad, Loads
  <1>3. w = latest =>
           \/ DocumentsOfAttribute(b)' \subseteq store'.documents
           \/ Awaits({"created", "edited"}, b)' \/ AwaitsLoad({"documents"}, w)'
    BY <1>1 DEF Reached, Awaits, AwaitsLoad, Loads
  <1> QED
    BY <1>2, <1>3 DEF Reached, AwaitsLoad

LEMMA EditedStep == ASSUME StoreInv, Edited PROVE StoreInv'
  <1> DEFINE a == Head(calls).id
             n == Head(calls).data
             new == Head(calls).new
             keep == Head(calls).keep
             c == [at |-> "edited", id |-> a, data |-> n]
             kept == [d \in 1 .. Len(documents) |->
                        [documents[d] EXCEPT !.present =
                           @ /\ (documents[d].attributeId = a => d \in keep)]]
  <1>1. /\ calls \in Seq(Calls) /\ calls # << >> /\ Len(calls) <= MaxPending
        /\ Head(calls).at = "edit"
    BY DEF StoreInv, TypeOK, Edited, Answers
  <1>2. /\ Head(calls) \in Calls /\ Waiting = Behind \cup {Head(calls)}
        /\ Len(calls) \in Nat \ {0}
        /\ \A d \in Behind : MayPrecede(Head(calls), d)
    BY <1>1, QueueHead DEF StoreInv
  <1>3. /\ a \in 1 .. Len(attributes) /\ a \in Attributes /\ n \in 1 .. MaxEdits
        /\ new \in BOOLEAN /\ MaxEdits \in Nat /\ edits \in 0 .. MaxEdits
        /\ attributes \in Seq(AttributeRows) /\ documents \in Seq(DocumentRows)
        /\ \A b \in 1 .. Len(attributes) :
              attributes[b] \in AttributeRows /\ attributes[b].data \in Nat
    BY <1>1, <1>2, CallFields, Ranges DEF StoreInv, TypeOK, IdsOK, AttributeRows
  <1>4. /\ attributes' \in Seq(AttributeRows) /\ Len(attributes') = Len(attributes)
        /\ attributes'[a].data = n
        /\ attributes'[a].walletId = attributes[a].walletId
        /\ attributes'[a].present = attributes[a].present
        /\ \A b \in 1 .. Len(attributes) : b # a => attributes'[b] = attributes[b]
    <2>1. attributes' = [attributes EXCEPT ![a] = [attributes[a] EXCEPT !.data = n]]
      BY DEF Edited
    <2>2. attributes[a] \in AttributeRows /\ n \in 0 .. MaxEdits
      BY <1>3
    <2> HIDE DEF a, n
    <2>3. /\ [attributes[a] EXCEPT !.data = n] \in AttributeRows
          /\ [attributes[a] EXCEPT !.data = n].data = n
          /\ [attributes[a] EXCEPT !.data = n].walletId = attributes[a].walletId
          /\ [attributes[a] EXCEPT !.data = n].present = attributes[a].present
      BY <2>2 DEF AttributeRows
    <2> QED
      BY <2>1, <2>3, <1>3
  <1>5. /\ documents' \in Seq(DocumentRows)
        /\ Len(documents') = IF new THEN Len(documents) + 1 ELSE Len(documents)
        /\ \A d \in 1 .. Len(documents) :
              /\ documents'[d].attributeId = documents[d].attributeId
              /\ documents[d].attributeId # a =>
                    (documents'[d].present <=> documents[d].present)
        /\ new => documents'[Len(documents) + 1].attributeId = a
    <2>1. documents' = WithNewDocument(kept, new, a)
      BY DEF Edited
    <2> HIDE DEF a, new, keep
    <2>2. /\ kept \in Seq(DocumentRows) /\ Len(kept) = Len(documents)
          /\ \A d \in 1 .. Len(documents) :
                /\ kept[d].attributeId = documents[d].attributeId
                /\ kept[d].present <=> documents[d].present
                      /\ (documents[d].attributeId = a => d \in keep)
      BY <1>3, MarkedDocuments
    <2> HIDE DEF kept
    <2>3. /\ documents' \in Seq(DocumentRows)
          /\ Len(documents') = IF new THEN Len(kept) + 1 ELSE Len(kept)
          /\ \A d \in 1 .. Len(kept) : documents'[d] = kept[d]
          /\ new => documents'[Len(kept) + 1] = [attributeId |-> a, present |-> TRUE]
      BY <2>1, <2>2, <1>3, NewDocument
    <2> QED
      BY <2>2, <2>3
  <1>6. UNCHANGED <<store, wallet, unlocked, latest, edits>>
    BY DEF Edited, walletVars
  <1>7. \A d \in Waiting : d.at \in {"created", "edit", "edited", "remove"} =>
            d.id \in 1 .. Len(attributes)
    BY DEF StoreInv, IdsOK
  <1>8. /\ attributes[a].data < n /\ n <= edits
        /\ \A d \in Waiting : d.at = "edited" /\ d.id = a =>
              d.data \in Nat /\ d.data <= attributes[a].data
    <2>1. \A d \in Waiting : d.at = "edited" => d.data \in Nat
      BY CallFields DEF StoreInv, TypeOK, Waiting
    <2> QED
      BY <2>1, <1>1, <1>2, <1>3 DEF StoreInv, RowOK
  <1>9. \A d \in Behind : MayPrecede(d, c)
    BY <1>1, <1>2, <1>3, <1>8 DEF MayPrecede, Starts, Loads
  <1>10. c \in Calls
    BY <1>3, AnsweredCalls
  <1>11. /\ calls' \in Seq(Calls) /\ Len(calls') = Len(calls)
         /\ \A i \in 1 .. Len(calls) - 1 : calls'[i] = calls[i + 1]
         /\ calls'[Len(calls)] = c
         /\ Waiting' = Behind \cup {c} /\ OrderOK'
    BY <1>1, <1>9, <1>10, QueueAsks DEF StoreInv, Edited
  <1>12. c.at = "edited" /\ c.id = a /\ c.data = n
    OBVIOUS
  <1> HIDE DEF c, kept
  <1>13. LoadsOK'
    BY <1>1, <1>6, <1>11, <1>12, LoadsAnswered DEF StoreInv
  <1>14. TypeOK'
    <2>1. /\ Len(documents) \in Nat /\ Len(documents) <= MaxDocuments /\ MaxDocuments \in Nat
          /\ new => Len(documents) < MaxDocuments
          /\ \A d \in 1 .. Len(documents) : documents[d].attributeId \in 1 .. Len(attributes)
      BY Ranges, ConstantsAssumption DEF ConstantsAssumption, StoreInv, TypeOK, Edited
    <2>2. Len(documents') <= MaxDocuments
      BY <2>1, <1>5
    <2>3. ASSUME NEW d \in 1 .. Len(documents')
          PROVE  documents'[d].attributeId <= Len(attributes')
      <3>1. CASE d \in 1 .. Len(documents)
        BY <3>1, <2>1, <1>4, <1>5
      <3>2. CASE d \notin 1 .. Len(documents)
        <4>1. new /\ d = Len(documents) + 1
          BY <3>2, <2>1, <2>3, <1>3, <1>5
        <4> QED
          BY <4>1, <1>3, <1>4, <1>5
      <3> QED
        BY <3>1, <3>2
    <2> QED
      BY <2>2, <2>3, <1>1, <1>4, <1>5, <1>6, <1>11 DEF StoreInv, TypeOK
  <1>15. IdsOK'
    <2>1. 1 .. Len(documents) \subseteq 1 .. Len(documents')
      BY <1>3, <1>5, Ranges DEF StoreInv
    <2> QED
      BY <2>1, <1>2, <1>3, <1>4, <1>6, <1>7, <1>11, <1>12 DEF StoreInv, IdsOK
  <1>16. \A d \in Waiting' : d.at = "edit" => d.data <= edits'
    BY <1>2, <1>6, <1>11, <1>12 DEF StoreInv
  <1>17. ASSUME NEW b \in 1 .. Len(attributes) PROVE RowOK(b)'
    <2>1. RowOK(b)
      BY <1>17 DEF StoreInv
    <2>2. CASE b = a
      <3>1. \A d \in Waiting' : d.at = "edit" => n < d.data
        BY <1>1, <1>2, <1>11, <1>12 DEF MayPrecede
      <3>2. ASSUME NEW d \in Waiting', d.at = "edited", d.id = a PROVE d.data <= n
        <4>1. CASE d = c
          BY <4>1, <1>3, <1>12
        <4>2. CASE d \in Behind
          BY <4>2, <3>2, <1>2, <1>3, <1>8
        <4> QED
          BY <4>1, <4>2, <3>2, <1>11
      <3>3. \A d \in Waiting' : d.at = "created" => d.id # a
        BY <1>1, <1>2, <1>11, <1>12 DEF MayPrecede
      <3>4. c \in Waiting'
        BY <1>11
      <3> HIDE DEF a, n
      <3> QED
        BY <2>2, <3>1, <3>2, <3>3, <3>4, <1>4, <1>6, <1>8, <1>12 DEF RowOK
    <2>3. CASE b # a
      <3>1. attributes'[b] = attributes[b]
        BY <2>3, <1>4, <1>17
      <3> HIDE DEF a, n
      <3> QED
        BY <2>1, <2>3, <3>1, <1>1, <1>2, <1>6, <1>11, <1>12 DEF RowOK
    <2> QED
      BY <2>2, <2>3
  <1>18. ASSUME NEW b \in store.attributes PROVE ListedOK(b)'
    <2>1. ListedOK(b) /\ b \in 1 .. Len(attributes) /\ store.data[b] \in Nat
      BY <1>18, Ranges DEF StoreInv, IdsOK, Stores
    <2>2. CASE b = a
      <3>1. store.data[a] <= n /\ store.data[a] <= attributes[a].data
        BY <2>1, <2>2, <1>3, <1>8 DEF ListedOK
      <3>2. c \in Waiting'
        BY <1>11
      <3> HIDE DEF a, n
      <3> QED
        BY <2>1, <2>2, <3>1, <3>2, <1>2, <1>4, <1>6, <1>11, <1>12 DEF ListedOK, Awaits
    <2>3. CASE b # a
      <3>1. attributes'[b] = attributes[b]
        BY <2>1, <2>3, <1>4
      <3> HIDE DEF a, n
      <3> QED
        BY <2>1, <2>3, <3>1, <1>1, <1>2, <1>6, <1>11, <1>12 DEF ListedOK, Awaits
    <2> QED
      BY <2>2, <2>3
  <1>19. ASSUME NEW b \in Owned PROVE Reached(b)'
    <2>1. CASE b = a
      <3>1. Reached(b)
        BY <1>19 DEF StoreInv
      <3>2. \/ b \in store'.attributes \/ Awaits({"created"}, b)'
            \/ AwaitsLoad(Loads, attributes[b].walletId)'
        BY <2>1, <3>1, <1>1, <1>2, <1>4, <1>6, <1>11 DEF Reached, Awaits, AwaitsLoad, Loads
      <3>3. Awaits({"created", "edited"}, b)'
        BY <2>1, <1>11, <1>12 DEF Awaits
      <3> QED
        BY <3>2, <3>3 DEF Reached
    <2>2. CASE b # a
      <3>1. DocumentsOfAttribute(b)' = DocumentsOfAttribute(b)
        BY <2>2, <1>5, Ranges DEF DocumentsOfAttribute, StoreInv
      <3>2. \A d \in Waiting : d.at \in {"created", "edited"} \cup Loads => d \in Waiting'
        BY <1>1, <1>2, <1>11 DEF Loads
      <3>3. attributes'[b].walletId = attributes[b].walletId
        BY <2>2, <1>4, <1>19 DEF Owned
      <3> HIDE DEF a
      <3> QED
        BY <2>2, <3>1, <3>2, <3>3, <1>6, <1>19, OthersReached
    <2> QED
      BY <2>1, <2>2
  <1>20. ASSUME NEW d \in store.documents PROVE DocumentOK(d)'
    <2>1. DocumentOK(d) /\ d \in 1 .. Len(documents)
      BY <1>20 DEF StoreInv, IdsOK
    <2>2. CASE documents[d].attributeId = a
      BY <2>1, <2>2, <1>5, <1>11, <1>12 DEF DocumentOK, Awaits
    <2>3. CASE documents[d].attributeId # a
      BY <2>1, <2>3, <1>1, <1>2, <1>5, <1>11 DEF DocumentOK, Awaits
    <2> QED
      BY <2>2, <2>3
  <1>21. Owned' = Owned
    BY <1>3, <1>4, <1>6 DEF Owned
  <1> QED
    BY <1>4, <1>6, <1>11, <1>13, <1>14, <1>15, <1>16, <1>17, <1>18, <1>19, <1>20, <1>21
       DEF StoreInv

LEMMA RemovedStep == ASSUME StoreInv, Removed PROVE StoreInv'
  <1> DEFINE a == Head(calls).id
             s == SetAttributeDocuments(store, a, {})
  <1>1. /\ calls \in Seq(Calls) /\ calls # << >> /\ Len(calls) <= MaxPending
        /\ Head(calls).at = "remove"
    BY DEF StoreInv, TypeOK, Removed, Answers
  <1>2. /\ Head(calls) \in Calls /\ Waiting = Behind \cup {Head(calls)}
        /\ Len(calls) \in Nat \ {0}
        /\ \A d \in Behind : MayPrecede(Head(calls), d)
    BY <1>1, QueueHead DEF StoreInv
  <1>3. /\ calls' \in Seq(Calls) /\ Len(calls') = Len(calls) - 1
        /\ \A i \in 1 .. Len(calls') : calls'[i] = calls[i + 1]
        /\ Waiting' = Behind /\ OrderOK'
    BY <1>1, QueueEnds DEF StoreInv, Removed
  <1>4. /\ a \in 1 .. Len(attributes)
        /\ attributes \in Seq(AttributeRows) /\ documents \in Seq(DocumentRows)
        /\ \A b \in 1 .. Len(attributes) : attributes[b] \in AttributeRows
    BY <1>1, <1>2, Ranges DEF StoreInv, TypeOK, IdsOK
  <1>5. /\ attributes' \in Seq(AttributeRows) /\ Len(attributes') = Len(attributes)
        /\ attributes'[a].data = attributes[a].data
        /\ ~attributes'[a].present
        /\ \A b \in 1 .. Len(attributes) : b # a => attributes'[b] = attributes[b]
    <2>1. attributes' = [attributes EXCEPT ![a] = [attributes[a] EXCEPT !.present = FALSE]]
      BY DEF Removed
    <2>2. attributes[a] \in AttributeRows
      BY <1>4
    <2>3. /\ [attributes[a] EXCEPT !.present = FALSE] \in AttributeRows
          /\ [attributes[a] EXCEPT !.present = FALSE].data = attributes[a].data
          /\ [attributes[a] EXCEPT !.present = FALSE].present = FALSE
      BY <2>2 DEF AttributeRows
    <2> HIDE DEF a
    <2> QED
      BY <2>1, <2>3, <1>4
  <1>6. /\ documents' \in Seq(DocumentRows) /\ Len(documents') = Len(documents)
        /\ \A d \in 1 .. Len(documents) :
              /\ documents'[d].attributeId = documents[d].attributeId
              /\ documents[d].attributeId # a =>
                    (documents'[d].present <=> documents[d].present)
    <2> DEFINE row(d) == [documents[d] EXCEPT !.present = @ /\ documents[d].attributeId # a]
    <2>1. documents' = [d \in 1 .. Len(documents) |-> row(d)]
      BY DEF Removed
    <2>2. ASSUME NEW d \in 1 .. Len(documents)
          PROVE  /\ row(d) \in DocumentRows
                 /\ row(d).attributeId = documents[d].attributeId
                 /\ row(d).present <=> documents[d].present /\ documents[d].attributeId # a
      <3>1. documents[d] \in DocumentRows
        BY <1>4
      <3> QED
        BY <3>1 DEF DocumentRows
    <2> HIDE DEF row, a
    <2> QED
      BY <2>1, <2>2, <1>4
  <1>7. UNCHANGED <<wallet, unlocked, latest, edits>>
    BY DEF Removed, walletVars
  <1>8. LoadsOK'
    BY <1>1, <1>3, <1>7, LoadsAnswered DEF StoreInv
  <1>9. /\ s \in Stores /\ s.attributes = store.attributes /\ s.data = store.data
        /\ s.documents \subseteq 1 .. Len(documents)
        /\ \A d \in 1 .. Len(documents) :
              /\ documents[d].attributeId = a => d \notin s.documents
              /\ documents[d].attributeId # a => (d \in s.documents <=> d \in store.documents)
    <2>1. {} \in SUBSET DocumentsOfAttribute(a)
      OBVIOUS
    <2> QED
      BY <2>1, AttributeDocuments DEF StoreInv
  <1>10. /\ store' \in Stores /\ store'.attributes = store.attributes \ {a}
         /\ \A b \in Attributes : b # a => store'.data[b] = store.data[b]
         /\ store'.documents = s.documents
    <2>1. store' = DeleteIdAttribute(s, a)
      BY DEF Removed
    <2>2. 0 \in 0 .. MaxEdits
      BY ConstantsAssumption DEF ConstantsAssumption
    <2> HIDE DEF s, a
    <2> QED
      BY <2>1, <2>2, <1>9 DEF DeleteIdAttribute, Stores
  <1>11. TypeOK'
    <2>1. MaxPending \in Nat
      BY ConstantsAssumption DEF ConstantsAssumption
    <2>2. Len(calls') <= MaxPending
      BY <2>1, <1>1, <1>2, <1>3
    <2> QED
      BY <2>2, <1>3, <1>5, <1>6, <1>7, <1>10 DEF StoreInv, TypeOK, Stores
  <1>12. IdsOK'
    BY <1>2, <1>3, <1>5, <1>6, <1>9, <1>10 DEF StoreInv, IdsOK
  <1>13. \A d \in Waiting' : d.at = "edit" => d.data <= edits'
    BY <1>2, <1>3, <1>7 DEF StoreInv
  <1>14. ASSUME NEW b \in 1 .. Len(attributes) PROVE RowOK(b)'
    <2>1. RowOK(b)
      BY <1>14 DEF StoreInv
    <2>2. /\ attributes'[b].data = attributes[b].data
          /\ b # a => attributes'[b].present = attributes[b].present
      BY <1>5, <1>14
    <2>3. \A d \in Behind : d.at = "created" => d.id # a
      BY <1>1, <1>2 DEF MayPrecede
    <2> QED
      BY <2>1, <2>2, <2>3, <1>1, <1>2, <1>3, <1>7 DEF RowOK
  <1>15. ASSUME NEW b \in store'.attributes PROVE ListedOK(b)'
    <2>1. ListedOK(b) /\ attributes'[b] = attributes[b]
      BY <1>5, <1>10, <1>15 DEF StoreInv, IdsOK
    <2>2. store'.data[b] = store.data[b]
      BY <1>10, <1>15 DEF Stores
    <2> QED
      BY <2>1, <2>2, <1>1, <1>2, <1>3 DEF ListedOK, Awaits
  <1>16. ASSUME NEW b \in Owned' PROVE Reached(b)'
    <2>1. /\ b # a /\ b \in Owned
          /\ attributes'[b].walletId = attributes[b].walletId
      BY <1>5, <1>7, <1>16 DEF Owned
    <2>2. DocumentsOfAttribute(b)' = DocumentsOfAttribute(b)
      BY <2>1, <1>6 DEF DocumentsOfAttribute
    <2>3. \A d \in Waiting : d.at \in {"created", "edited"} \cup Loads => d \in Waiting'
      BY <1>1, <1>2, <1>3 DEF Loads
    <2>4. \A d \in DocumentsOfAttribute(b) : d \in store.documents => d \in store'.documents
      BY <2>1, <1>9, <1>10 DEF DocumentsOfAttribute
    <2>5. b \in store.attributes => b \in store'.attributes
      BY <2>1, <1>10
    <2> HIDE DEF a
    <2> QED
      BY <2>1, <2>2, <2>3, <2>4, <2>5, <1>7, OthersReached
  <1>17. ASSUME NEW d \in store'.documents PROVE DocumentOK(d)'
    <2>1. /\ d \in 1 .. Len(documents) /\ documents[d].attributeId # a
          /\ d \in store.documents
      BY <1>9, <1>10, <1>17
    <2>2. DocumentOK(d)
      BY <2>1 DEF StoreInv
    <2> QED
      BY <2>1, <2>2, <1>1, <1>2, <1>3, <1>6 DEF DocumentOK, Awaits
  <1> QED
    BY <1>3, <1>5, <1>7, <1>8, <1>11, <1>12, <1>13, <1>14, <1>15, <1>16, <1>17 DEF StoreInv

LEMMA RestartStep == ASSUME StoreInv, Restart PROVE StoreInv'
  <1>1. /\ Len(calls') = 0 /\ calls' \in Seq(Calls) /\ Waiting' = {}
        /\ wallet' = NoWallet /\ latest' = NoWallet /\ unlocked' = {}
        /\ UNCHANGED <<attributes, documents, edits>>
        /\ store'.attributes = {} /\ store'.documents = {}
    BY DEF Restart, Waiting, EmptyStore
  <1>2. TypeOK'
    <2>1. store' \in Stores
      BY Ranges DEF Restart, EmptyStore, Stores, StoreInv
    <2>2. MaxPending \in Nat
      BY ConstantsAssumption DEF ConstantsAssumption
    <2> QED
      BY <2>1, <2>2, <1>1 DEF StoreInv, TypeOK, Stores
  <1>3. OrderOK' /\ LoadsOK' /\ IdsOK'
    BY <1>1 DEF OrderOK, LoadsOK, IdsOK, MayPrecede
  <1>4. \A a \in 1 .. Len(attributes) : RowOK(a)'
    BY <1>1 DEF StoreInv, RowOK
  <1>5. Owned' = {}
    BY <1>1 DEF Owned
  <1> QED
    BY <1>1, <1>2, <1>3, <1>4, <1>5 DEF StoreInv

LEMMA InitStoreInv == Init => StoreInv
  <1> SUFFICES ASSUME Init PROVE StoreInv
    OBVIOUS
  <1>1. /\ Len(calls) = 0 /\ calls \in Seq(Calls) /\ Waiting = {}
        /\ Len(attributes) = 0 /\ Len(documents) = 0
        /\ store.attributes = {} /\ store.documents = {}
    BY DEF Init, Waiting, EmptyStore
  <1>2. TypeOK
    <2>1. {MaxAttributes, MaxDocuments, MaxEdits, MaxPending} \subseteq Nat
      BY ConstantsAssumption DEF ConstantsAssumption
    <2>2. store \in Stores
      BY <2>1 DEF Init, EmptyStore, Stores
    <2> QED
      BY <2>1, <2>2, <1>1 DEF Init, TypeOK, Stores
  <1>3. OrderOK /\ LoadsOK /\ IdsOK
    BY <1>1 DEF OrderOK, LoadsOK, IdsOK, MayPrecede
  <1>4. Owned = {}
    BY <1>1 DEF Owned
  <1> QED
    BY <1>1, <1>2, <1>3, <1>4 DEF StoreInv

LEMMA StoreInvariant == Spec => []StoreInv
  <1>1. StoreInv /\ [Next]_vars => StoreInv'
    <2> SUFFICES ASSUME StoreInv, [Next]_vars PROVE StoreInv'
      OBVIOUS
    <2>1. CASE \E w \in Wallets : Unlock(w) \/ LateBalance(w)
      BY <2>1, UnlockStep, LateBalanceStep
    <2>2. CASE \E new \in BOOLEAN : Create(new)
      BY <2>2, CreateStep
    <2>3. CASE \E a \in 1 .. Len(attributes), keep \in SUBSET Documents, new \in BOOLEAN :
                  Edit(a, keep, new)
      BY <2>3, EditStep
    <2>4. CASE \E a \in 1 .. Len(attributes) : Remove(a)
      BY <2>4, RemoveStep
    <2>5. CASE Answer
      BY <2>5, DocumentsLoadedStep, AttributesLoadedStep, CreatedStep,
         CreatedDocumentsLoadedStep, EditedStep, EditedDocumentsLoadedStep,
         RemovedStep, RejectedStep DEF Answer
    <2>6. CASE Restart
      BY <2>6, RestartStep
    <2>7. CASE UNCHANGED vars
      <3>1. TypeOK' /\ OrderOK' /\ LoadsOK' /\ Waiting' = Waiting /\ edits <= edits'
        BY <2>7 DEF vars, walletVars, StoreInv, TypeOK, OrderOK, LoadsOK, Waiting, MayPrecede
      <3> QED
        BY <2>7, <3>1, Unanswered DEF vars, walletVars
    <2> QED
      BY <2>1, <2>2, <2>3, <2>4, <2>5, <2>6, <2>7 DEF Next
  <1> QED
    BY <1>1, InitStoreInv, PTL DEF Spec

-----------------------------------------------------------------------------

(* Tables, store and pending calls have their types: every id the store    *)
(* lists or a call names is one of a row, whatever operations overlap.     *)
THEOREM TypeCorrect == Spec => []TypeOK
  <1>1. StoreInv => TypeOK
    BY DEF StoreInv
  <1> QED
    BY <1>1, StoreInvariant, PTL

(* When no call is pending, the store has what the tables have, for every  *)
(* wallet unlocked since the start (operations.js 54-114): whatever the    *)
(* number of wallets, attributes, documents, edits and operations that     *)
(* overlapped, and whatever balances came late.                            *)
THEOREM ScreensAreTables == Spec => []StoreMatchesTables
  <1>1. StoreInv => StoreMatchesTables
    <2> SUFFICES ASSUME StoreInv, calls = << >>, NEW w \in unlocked
                 PROVE  /\ {a \in store.attributes : attributes[a].walletId = w}
                              = AttributesOf(w)
                        /\ \A a \in AttributesOf(w) :
                              /\ store.data[a] = attributes[a].data
                              /\ w = latest => ShownDocuments(a) = DocumentsOfAttribute(a)
      BY DEF StoreMatchesTables
    <2>1. Waiting = {}
      BY DEF Waiting
    <2>2. \A a \in AttributesOf(w) :
             /\ a \in store.attributes
             /\ w = latest => DocumentsOfAttribute(a) \subseteq store.documents
      BY <2>1 DEF StoreInv, Reached, Awaits, AwaitsLoad, Owned, AttributesOf
    <2>3. \A a \in store.attributes :
             /\ a \in 1 .. Len(attributes) /\ attributes[a].present
             /\ store.data[a] = attributes[a].data
      BY <2>1 DEF StoreInv, IdsOK, ListedOK, Awaits
    <2>4. \A d \in store.documents : d \in 1 .. Len(documents) /\ documents[d].present
      BY <2>1 DEF StoreInv, IdsOK, DocumentOK, Awaits
    <2> QED
      BY <2>2, <2>3, <2>4 DEF ShownDocuments, AttributesOf, DocumentsOfAttribute
  <1> QED
    BY <1>1, StoreInvariant, PTL

(* No answer brings older data back to an attribute that stays on the      *)
(* screen: a load asked for before an edit is answered before it           *)
(* (operations.js 61-65, 96-101).                                          *)
THEOREM DataNeverOlder == Spec => NeverOlder
  <1>1. StoreInv /\ StoreInv' /\ [Next]_vars =>
           [\A a \in store.attributes \cap store'.attributes :
               store'.data[a] >= store.data[a]]_vars
    <2> SUFFICES ASSUME StoreInv, StoreInv', Next,
                        NEW a \in store.attributes, a \in store'.attributes
                 PROVE  store'.data[a] >= store.data[a]
      OBVIOUS
    <2>1. /\ a \in 1 .. Len(attributes) /\ a \in Attributes
          /\ store.data[a] \in Nat /\ attributes[a].data \in Nat
          /\ store.data[a] <= attributes[a].data
          /\ store \in Stores
      BY Ranges DEF StoreInv, IdsOK, Stores, ListedOK, AttributeRows
    <2>2. CASE UNCHANGED store
      BY <2>1, <2>2
    <2>3. CASE DocumentsLoaded
      BY <2>1, <2>3 DEF DocumentsLoaded, SetDocuments, Stores
    <2>4. CASE AttributesLoaded
      BY <2>1, <2>4 DEF AttributesLoaded, SetIdAttributes, Stores
    <2>5. CASE CreatedDocumentsLoaded
      <3> DEFINE b == Head(calls).id
                 s == SetAttributeDocuments(store, b, DocumentsOfAttribute(b))
      <3>1. store' = AddIdAttribute(s, b) /\ s \in Stores /\ s.data = store.data
        BY <2>5, AttributeDocuments DEF CreatedDocumentsLoaded, StoreInv
      <3>2. b = a => store.data[a] = 0
        <4>1. Head(calls) \in Waiting /\ Head(calls).at = "created"
          BY <2>5, QueueHead DEF CreatedDocumentsLoaded, Answers, StoreInv, TypeOK
        <4>2. b = a => attributes[a].data = 0
          BY <2>1, <4>1 DEF StoreInv, RowOK
        <4> QED
          BY <2>1, <4>2
      <3> HIDE DEF s, b
      <3>3. store'.data = [s.data EXCEPT ![b] = 0]
        BY <3>1 DEF AddIdAttribute, Stores
      <3> QED
        BY <2>1, <3>1, <3>2, <3>3 DEF Stores
    <2>6. CASE EditedDocumentsLoaded
      <3> DEFINE b == Head(calls).id
                 n == Head(calls).data
                 s == SetAttributeDocuments(store, b, DocumentsOfAttribute(b))
      <3>1. store' = UpdateIdAttribute(s, b, n) /\ s \in Stores /\ s.data = store.data
        BY <2>6, AttributeDocuments DEF EditedDocumentsLoaded, StoreInv
      <3>2. n \in Nat /\ (b = a => store.data[a] <= n)
        <4>1. Head(calls) \in Waiting /\ Head(calls) \in Calls /\ Head(calls).at = "edited"
          BY <2>6, QueueHead DEF EditedDocumentsLoaded, Answers, StoreInv, TypeOK
        <4> QED
          BY <4>1, CallFields DEF StoreInv, ListedOK
      <3> HIDE DEF s, b, n
      <3>3. store'.data = [s.data EXCEPT ![b] = n] \/ store'.data = s.data
        BY <3>1 DEF UpdateIdAttribute, Stores
      <3> QED
        BY <2>1, <3>1, <3>2, <3>3 DEF Stores
    <2>7. CASE Removed
      BY <2>1, <2>7 DEF Removed, DeleteIdAttribute, SetAttributeDocuments, Stores
    <2>8. CASE Restart
      BY <2>8 DEF Restart, EmptyStore
    <2> QED
      BY <2>2, <2>3, <2>4, <2>5, <2>6, <2>7, <2>8
         DEF Next, Unlock, LateBalance, Create, Edit, Remove, Answer, Rejected, Created, Edited
  <1> QED
    BY <1>1, StoreInvariant, PTL DEF Spec, NeverOlder
=============================================================================
