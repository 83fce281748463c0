--------------------------- MODULE TalpaCatalogProofs ---------------------------
(***************************************************************************)
(* Proofs about TalpaCatalog, for every catalog, every number of requests  *)
(* and every bound.                                                        *)
(***************************************************************************)
EXTENDS TalpaCatalog, TLAPS

ProductRow == [state : {"NONE", "SAVED", "GONE"}, offer : Offers \cup {None},
               id : Ids \cup {None}, accounting : Accountings \cup {None}]

OpenUpdate == [product : Products, row : ProductRow, content : Contents \cup {None}, sent : BOOLEAN]

Update == OpenUpdate \cup {NoUpdate}

ProductAtTalpa == [entity : Products \cup {None}, accounting : Contents \cup {None}]

CatalogTypeOK ==
    /\ products \in [Products -> ProductRow]
    /\ accountings \in [Accountings -> Contents \cup {None}]
    /\ updates \in [Requests -> Update]
    /\ talpa.products \in [Ids -> ProductAtTalpa]

(* What a request found or made at Talpa is Talpa's product of that row. *)
IdsAgree ==
    /\ \A a \in Products : products[a].id # None => talpa.products[products[a].id].entity = a
    /\ \A r \in Requests : updates[r].row.id # None =>
            /\ updates[r].product \in Products
            /\ talpa.products[updates[r].row.id].entity = updates[r].product

OneIsSent ==
    \A r, s \in Requests :
        updates[r].sent /\ updates[s].sent /\ updates[r].product = updates[s].product => r = s

Known(row) == row.id # None /\ row.accounting # None

(* The accounting of a product exists, and so does what a request read of it. *)
AccountingsExist ==
    /\ \A a \in Products : products[a].accounting # None =>
            accountings[products[a].accounting] # None
    /\ \A r \in Requests : updates[r].row.accounting # None =>
            /\ accountings[updates[r].row.accounting] # None
            /\ updates[r].sent => updates[r].content # None

(* Talpa has the accounting that the request will save. *)
SentAgrees ==
    \A r \in Requests : updates[r].sent /\ Known(updates[r].row) =>
        talpa.products[updates[r].row.id].accounting = updates[r].content

(* Talpa has the accounting that was saved, until another request is sent. *)
SavedAgrees ==
    \A a \in Products \ unsent :
        products[a].state = "SAVED" /\ Known(products[a]) /\ ~IsLocked(a) =>
            talpa.products[products[a].id].accounting = accountings[products[a].accounting]

IInv == CatalogTypeOK /\ IdsAgree /\ OneIsSent /\ AccountingsExist /\ SentAgrees /\ SavedAgrees

LEMMA NoneIsNothing ==
    /\ None \notin Products /\ None \notin Ids /\ None \notin Accountings
    /\ None \notin Contents /\ DefaultAccounting \in Contents
  BY CatalogAssumption DEF Products, Ids, Accountings

LEMMA NoRowType == NoRow \in ProductRow /\ NoRow.id = None /\ NoRow.accounting = None
  BY DEF NoRow, ProductRow

LEMMA NoUpdateType ==
    /\ NoUpdate \in Update /\ NoUpdate.sent = FALSE
    /\ NoUpdate.row = NoRow /\ NoUpdate.row.id = None /\ NoUpdate.product = None
    /\ NoUpdate.row.accounting = None
<1>1. NoUpdate.sent = FALSE /\ NoUpdate.row = NoRow /\ NoUpdate.product = None
  BY DEF NoUpdate
<1> QED
  BY <1>1, NoRowType DEF Update

LEMMA UpdateFields ==
  ASSUME NEW u \in Update
  PROVE  /\ u.row \in ProductRow /\ u.sent \in BOOLEAN
         /\ u # NoUpdate => u.product \in Products /\ u \in OpenUpdate
         /\ u.sent => u.content \in Contents \cup {None}
<1>1. CASE u = NoUpdate
  BY <1>1, NoUpdateType, NoRowType
<1>2. CASE u \in OpenUpdate
  BY <1>2 DEF OpenUpdate
<1> QED
  BY <1>1, <1>2 DEF Update

LEMMA InitInv == Init => IInv
<1> SUFFICES ASSUME Init PROVE IInv
  OBVIOUS
<1>1. products = [a \in Products |-> NoRow] /\ updates = [r \in Requests |-> NoUpdate]
      /\ accountings = [k \in Accountings |-> None]
      /\ talpa.products = [i \in Ids |-> NoProduct]
  BY DEF Init
<1>2. NoProduct \in ProductAtTalpa
  BY DEF NoProduct, ProductAtTalpa
<1> HIDE DEF NoRow, NoUpdate, NoProduct
<1>3. CatalogTypeOK
  BY <1>1, <1>2, NoRowType, NoUpdateType DEF CatalogTypeOK
<1>4. \A a \in Products : products[a].accounting = None /\ products[a].id = None
  BY <1>1, NoRowType
<1>5. \A r \in Requests : ~updates[r].sent /\ updates[r].row.id = None /\ updates[r].row.accounting = None
  BY <1>1, NoUpdateType
<1>6. IdsAgree
  BY <1>4, <1>5 DEF IdsAgree
<1>7. OneIsSent /\ SentAgrees /\ AccountingsExist
  BY <1>4, <1>5 DEF OneIsSent, SentAgrees, AccountingsExist
<1>8. SavedAgrees
  BY <1>4 DEF SavedAgrees, Known
<1> QED
  BY <1>3, <1>6, <1>7, <1>8 DEF IInv

(* What create_talpa_product and update_talpa_accounting leave alone. *)
LEMMA CreatesProductKeeps ==
  ASSUME NEW a \in Products, NEW row \in ProductRow, NEW t \in [Ids -> ProductAtTalpa],
         NEW made \in CreatesProduct(row, a, t),
         row.id # None => t[row.id].entity = a
  PROVE  /\ made.row \in ProductRow /\ made.talpa \in [Ids -> ProductAtTalpa]
         /\ made.row.id \in Ids /\ made.talpa[made.row.id].entity = a
         /\ made.row.accounting = row.accounting
         /\ \A i \in Ids : t[i].entity # None => made.talpa[i] = t[i]
         /\ row.id = None => t[made.row.id].entity = None
         /\ row.id # None => made.row = row /\ made.talpa = t
<1>1. CASE row.id # None
  <2>1. made = [row |-> row, talpa |-> t]
    BY <1>1 DEF CreatesProduct
  <2>2. made.row = row /\ made.talpa = t
    BY <2>1
  <2> QED
    BY <1>1, <2>2 DEF ProductRow
<1>2. CASE row.id = None
  <2>1. PICK i \in Ids : IsNextId(i, t) /\ made = Created(i, row, a, t)
    BY <1>2 DEF CreatesProduct
  <2>2. made.row = [row EXCEPT !.id = i] /\ made.talpa = [t EXCEPT ![i].entity = a]
    BY <2>1 DEF Created
  <2>3. t[i] = NoProduct
    BY <2>1, CatalogAssumption DEF IsNextId, Ids
  <2>4. t[i].entity = None
    BY <2>3 DEF NoProduct
  <2>5. made.row \in ProductRow /\ made.row.id = i /\ made.row.accounting = row.accounting
    BY <2>2 DEF ProductRow
  <2>6. [t[i] EXCEPT !.entity = a] \in ProductAtTalpa /\ [t[i] EXCEPT !.entity = a].entity = a
    BY DEF ProductAtTalpa
  <2>7. made.talpa = [t EXCEPT ![i] = [t[i] EXCEPT !.entity = a]]
    BY <2>2
  <2> DEFINE new == [t[i] EXCEPT !.entity = a]
  <2> HIDE DEF new
  <2>8. made.talpa \in [Ids -> ProductAtTalpa] /\ made.talpa[i].entity = a
        /\ \A j \in Ids \ {i} : made.talpa[j] = t[j]
    BY <2>6, <2>7 DEF new
  <2> QED
    BY <1>2, <2>4, <2>5, <2>8
<1> QED
  BY <1>1, <1>2

LEMMA SendsAccountingKeeps ==
  ASSUME NEW row \in ProductRow, NEW content \in Contents \cup {None},
         NEW t \in [Ids -> ProductAtTalpa]
  PROVE  LET sent == SendsAccounting(row, content, t)
         IN  /\ sent \in [Ids -> ProductAtTalpa]
             /\ \A i \in Ids : sent[i].entity = t[i].entity
             /\ \A i \in Ids : i # row.id => sent[i] = t[i]
             /\ Known(row) => sent[row.id].accounting = content
<1>1. CASE ~Known(row)
  BY <1>1 DEF SendsAccounting, Known
<1>2. CASE Known(row)
  <2> DEFINE new == [t[row.id] EXCEPT !.accounting = content]
  <2>1. SendsAccounting(row, content, t) = [t EXCEPT ![row.id] = new]
    BY <1>2 DEF SendsAccounting, Known
  <2>2. row.id \in Ids
    BY <1>2 DEF Known, ProductRow
  <2>3. new \in ProductAtTalpa /\ new.entity = t[row.id].entity /\ new.accounting = content
    BY <2>2 DEF ProductAtTalpa
  <2> HIDE DEF new
  <2> QED
    BY <2>1, <2>2, <2>3
<1> QED
  BY <1>1, <1>2

(* The steps that leave both sides as they are, and no request further. *)
LEMMA UntouchedInv ==
  ASSUME IInv, UNCHANGED rows, UNCHANGED talpa.products, unsent \subseteq unsent'
  PROVE  IInv'
<1>1. UNCHANGED <<products, accountings, updates>>
  BY DEF rows
<1>2. (CatalogTypeOK /\ IdsAgree /\ OneIsSent /\ AccountingsExist /\ SentAgrees)'
  BY <1>1 DEF IInv, CatalogTypeOK, IdsAgree, OneIsSent, AccountingsExist, SentAgrees
<1>3. SavedAgrees'
  BY <1>1 DEF IInv, SavedAgrees, IsLocked
<1> QED
  BY <1>2, <1>3 DEF IInv

(* Talpa's products may only become more. *)
TalpaKeeps ==
    /\ talpa'.products \in [Ids -> ProductAtTalpa]
    /\ \A i \in Ids : talpa.products[i].entity # None => talpa'.products[i] = talpa.products[i]

LEMMA KnownIdsAreKept ==
  ASSUME IInv, TalpaKeeps
  PROVE  /\ \A b \in Products : products[b].id # None =>
                products[b].id \in Ids /\ talpa'.products[products[b].id] = talpa.products[products[b].id]
         /\ \A r \in Requests : updates[r].row.id # None =>
                updates[r].row.id \in Ids
                /\ talpa'.products[updates[r].row.id] = talpa.products[updates[r].row.id]
<1>1. \A b \in Products : products[b] \in ProductRow
  BY DEF IInv, CatalogTypeOK
<1>2. \A r \in Requests : updates[r].row \in ProductRow
  BY UpdateFields DEF IInv, CatalogTypeOK
<1>3. \A row \in ProductRow : row.id # None => row.id \in Ids
  BY DEF ProductRow
<1> QED
  BY <1>1, <1>2, <1>3, NoneIsNothing DEF IInv, IdsAgree, TalpaKeeps

(* An accounting that exists stays as it is. *)
AccountingsStay == \A k \in Accountings : accountings[k] # None => accountings'[k] = accountings[k]

LEMMA KeysOfRows ==
  ASSUME IInv
  PROVE  /\ \A b \in Products : products[b].accounting # None => products[b].accounting \in Accountings
         /\ \A r \in Requests : updates[r].row.accounting # None =>
                updates[r].row.accounting \in Accountings
<1>1. \A row \in ProductRow : row.accounting # None => row.accounting \in Accountings
  BY DEF ProductRow
<1> QED
  BY <1>1, UpdateFields DEF IInv, CatalogTypeOK

(* Writing one product that Talpa need not agree with, or does. *)
LEMMA ProductWritten ==
  ASSUME IInv, NEW a \in Products, NEW row \in ProductRow,
         products' = [products EXCEPT ![a] = row], UNCHANGED updates,
         TalpaKeeps,
         row.id # None => talpa'.products[row.id].entity = a,
         accountings' \in [Accountings -> Contents \cup {None}], AccountingsStay,
         row.accounting # None => accountings'[row.accounting] # None,
         unsent \subseteq unsent',
         row.state = "SAVED" /\ Known(row) /\ a \notin unsent' =>
            talpa'.products[row.id].accounting = accountings'[row.accounting]
  PROVE  IInv'
<1>1. products' \in [Products -> ProductRow] /\ products'[a] = row
      /\ \A b \in Products \ {a} : products'[b] = products[b]
  BY DEF IInv, CatalogTypeOK
<1>2. CatalogTypeOK'
  BY <1>1 DEF IInv, CatalogTypeOK, TalpaKeeps
<1>3. \A b \in Products : products[b].id # None =>
        products[b].id \in Ids /\ talpa'.products[products[b].id] = talpa.products[products[b].id]
        /\ talpa'.products[products[b].id].entity = b
  BY KnownIdsAreKept DEF IInv, IdsAgree
<1>4. \A r \in Requests : updates[r].row.id # None =>
        updates[r].row.id \in Ids
        /\ talpa'.products[updates[r].row.id] = talpa.products[updates[r].row.id]
  BY KnownIdsAreKept
<1>5. IdsAgree'
  <2>1. \A b \in Products : products'[b].id # None => talpa'.products[products'[b].id].entity = b
    BY <1>1, <1>3
  <2>2. \A r \in Requests : updates[r].row.id # None =>
          /\ updates[r].product \in Products
          /\ talpa'.products[updates[r].row.id].entity = updates[r].product
    BY <1>4 DEF IInv, IdsAgree
  <2> QED
    BY <2>1, <2>2 DEF IdsAgree
<1>6. OneIsSent' /\ AccountingsExist'
  <2>1. \A b \in Products : products'[b].accounting # None =>
          accountings'[products'[b].accounting] # None
    BY <1>1, KeysOfRows DEF IInv, AccountingsExist, AccountingsStay
  <2>2. \A r \in Requests : updates[r].row.accounting # None =>
          accountings'[updates[r].row.accounting] # None
    BY KeysOfRows DEF IInv, AccountingsExist, AccountingsStay
  <2> QED
    BY <2>1, <2>2 DEF IInv, OneIsSent, AccountingsExist
<1>7. SentAgrees'
  BY <1>4 DEF IInv, SentAgrees, Known
<1>8. SavedAgrees'
  <2> SUFFICES ASSUME NEW b \in Products, b \notin unsent', products'[b].state = "SAVED",
                      Known(products'[b]), ~IsLocked(b)'
               PROVE  talpa'.products[products'[b].id].accounting = accountings'[products'[b].accounting]
    BY DEF SavedAgrees
  <2>1. CASE b = a
    BY <1>1, <2>1
  <2>2. CASE b # a
    <3>1. products'[b] = products[b] /\ b \in Products \ unsent /\ ~IsLocked(b)
      BY <1>1, <2>2 DEF IsLocked
    <3>2. accountings'[products[b].accounting] = accountings[products[b].accounting]
      BY <3>1, KeysOfRows DEF IInv, AccountingsExist, AccountingsStay, Known
    <3> QED
      BY <1>3, <3>1, <3>2 DEF IInv, SavedAgrees, Known
  <2> QED
    BY <2>1, <2>2
<1> QED
  BY <1>2, <1>5, <1>6, <1>7, <1>8 DEF IInv

LEMMA CreateProductInv ==
  ASSUME IInv, NEW a \in Products, NEW k \in Accountings, NEW offer \in Offers,
         CreateProduct(a, k, offer)
  PROVE  IInv'
<1> DEFINE new == [NoRow EXCEPT !.state = "SAVED", !.offer = offer]
<1>1. new \in ProductRow /\ new.id = None
  BY DEF NoRow, ProductRow
<1> HIDE DEF new
<1>2. PICK made \in CreatesProduct(new, a, talpa.products) :
        LET row == [made.row EXCEPT !.accounting = k]
            sent == SendsAccounting(row, DefaultAccounting, made.talpa)
        IN  \/ /\ products' = [products EXCEPT ![a] = row]
               /\ accountings' = [accountings EXCEPT ![k] = DefaultAccounting]
               /\ talpa' = [talpa EXCEPT !.products = sent]
            \/ /\ products' = [products EXCEPT ![a].state = "GONE"]
               /\ \E t \in {made.talpa, sent} : talpa' = [talpa EXCEPT !.products = t]
               /\ UNCHANGED accountings
  BY DEF CreateProduct, new
<1> DEFINE row == [made.row EXCEPT !.accounting = k]
           sent == SendsAccounting(row, DefaultAccounting, made.talpa)
<1>3. UNCHANGED <<updates, unsent>> /\ accountings[k] = None
  BY DEF CreateProduct, history, IsNextAccounting, Accountings
<1>4. /\ made.row \in ProductRow /\ made.talpa \in [Ids -> ProductAtTalpa]
      /\ made.row.id \in Ids /\ made.talpa[made.row.id].entity = a
      /\ \A i \in Ids : talpa.products[i].entity # None => made.talpa[i] = talpa.products[i]
  BY <1>1, CreatesProductKeeps DEF IInv, CatalogTypeOK
<1>5. row \in ProductRow /\ row.id = made.row.id /\ row.accounting = k
  BY <1>4 DEF ProductRow
<1>6. /\ sent \in [Ids -> ProductAtTalpa] /\ sent[row.id].entity = a
      /\ \A i \in Ids : talpa.products[i].entity # None => sent[i] = talpa.products[i]
      /\ Known(row) => sent[row.id].accounting = DefaultAccounting
  <2>1. talpa.products[row.id].entity = None
    BY <1>1, <1>5, CreatesProductKeeps DEF IInv, CatalogTypeOK
  <2> HIDE DEF row
  <2> QED
    BY <1>4, <1>5, <2>1, SendsAccountingKeeps, NoneIsNothing
<1>7. [products[a] EXCEPT !.state = "GONE"] \in ProductRow
      /\ [products[a] EXCEPT !.state = "GONE"].id = products[a].id
      /\ [products[a] EXCEPT !.state = "GONE"].accounting = products[a].accounting
      /\ [products[a] EXCEPT !.state = "GONE"].state = "GONE"
  BY DEF IInv, CatalogTypeOK, ProductRow
<1> HIDE DEF row, sent
<1>8. CASE /\ products' = [products EXCEPT ![a] = row]
           /\ accountings' = [accountings EXCEPT ![k] = DefaultAccounting]
           /\ talpa' = [talpa EXCEPT !.products = sent]
  <2>1. talpa'.products = sent
    BY <1>8 DEF IInv, CatalogTypeOK
  <2>2. /\ accountings' \in [Accountings -> Contents \cup {None}]
        /\ accountings'[k] = DefaultAccounting
        /\ AccountingsStay
    BY <1>3, <1>8, NoneIsNothing DEF IInv, CatalogTypeOK, AccountingsStay
  <2>3. TalpaKeeps
    BY <1>6, <2>1 DEF TalpaKeeps
  <2> QED
    BY <1>3, <1>5, <1>6, <1>8, <2>1, <2>2, <2>3, ProductWritten, NoneIsNothing
<1>9. ASSUME products' = [products EXCEPT ![a].state = "GONE"], UNCHANGED accountings,
             NEW t \in {made.talpa, sent}, talpa' = [talpa EXCEPT !.products = t]
      PROVE  IInv'
  <2>1. talpa'.products = t
    BY <1>9 DEF IInv, CatalogTypeOK
  <2>2. t \in [Ids -> ProductAtTalpa]
        /\ \A i \in Ids : talpa.products[i].entity # None => t[i] = talpa.products[i]
    BY <1>4, <1>6
  <2>3. products[a].id # None => t[products[a].id].entity = a
    BY <2>2, NoneIsNothing DEF IInv, IdsAgree, CatalogTypeOK, ProductRow
  <2> DEFINE gone == [products[a] EXCEPT !.state = "GONE"]
  <2>4. products' = [products EXCEPT ![a] = gone]
    BY <1>9
  <2> HIDE DEF gone
  <2>5. /\ gone \in ProductRow /\ gone.id = products[a].id /\ gone.state = "GONE"
        /\ gone.accounting = products[a].accounting
    BY <1>7 DEF gone
  <2>6. /\ accountings' \in [Accountings -> Contents \cup {None}] /\ AccountingsStay
        /\ gone.accounting # None => accountings'[gone.accounting] # None
    BY <1>9, <2>5 DEF IInv, CatalogTypeOK, AccountingsStay, AccountingsExist
  <2>7. TalpaKeeps
    BY <2>1, <2>2 DEF TalpaKeeps
  <2> QED
    BY <1>3, <2>1, <2>3, <2>4, <2>5, <2>6, <2>7, ProductWritten
<1> QED
  BY <1>2, <1>8, <1>9 DEF row, sent

(* A request comes in, or ends, without a word to Talpa. *)
LEMMA ReadProductInv ==
  ASSUME IInv, NEW r \in Requests, NEW a \in Products, ReadProduct(r, a)
  PROVE  IInv'
<1> DEFINE new == [product |-> a, row |-> products[a], content |-> None, sent |-> FALSE]
<1>1. updates' = [updates EXCEPT ![r] = new]
  BY DEF ReadProduct
<1>2. new \in Update /\ ~new.sent /\ new.product = a /\ new.row = products[a]
  BY DEF IInv, CatalogTypeOK, Update, OpenUpdate
<1> HIDE DEF new
<1>3. updates' \in [Requests -> Update] /\ updates'[r] = new
      /\ \A s \in Requests \ {r} : updates'[s] = updates[s]
  BY <1>1, <1>2 DEF IInv, CatalogTypeOK
<1>4. UNCHANGED <<products, accountings, talpa, unsent>>
  BY DEF ReadProduct, orders
<1>5. ~updates[r].sent
  BY NoUpdateType DEF ReadProduct, IsOpen
<1>6. CatalogTypeOK'
  BY <1>3, <1>4 DEF IInv, CatalogTypeOK
<1>7. IdsAgree'
  BY <1>2, <1>3, <1>4 DEF IInv, IdsAgree
<1>8. OneIsSent' /\ AccountingsExist'
  BY <1>2, <1>3, <1>4 DEF IInv, OneIsSent, AccountingsExist
<1>9. SentAgrees'
  BY <1>2, <1>3, <1>4 DEF IInv, SentAgrees
<1>10. \A b : IsLocked(b)' <=> IsLocked(b)
  BY <1>2, <1>3, <1>5 DEF IsLocked
<1>11. SavedAgrees'
  BY <1>4, <1>10 DEF IInv, SavedAgrees
<1> QED
  BY <1>6, <1>7, <1>8, <1>9, <1>11 DEF IInv

LEMMA RequestEnded ==
  ASSUME IInv, NEW r \in Requests, updates' = [updates EXCEPT ![r] = NoUpdate],
         UNCHANGED <<products, accountings>>, TalpaKeeps,
         unsent' = unsent \cup {updates[r].product}
  PROVE  IInv'
<1>1. updates' \in [Requests -> Update] /\ updates'[r] = NoUpdate
      /\ \A s \in Requests \ {r} : updates'[s] = updates[s]
  BY NoUpdateType DEF IInv, CatalogTypeOK
<1>2. CatalogTypeOK'
  BY <1>1 DEF IInv, CatalogTypeOK, TalpaKeeps
<1>3. IdsAgree'
  BY <1>1, KnownIdsAreKept, NoUpdateType DEF IInv, IdsAgree
<1>4. OneIsSent' /\ AccountingsExist'
  BY <1>1, NoUpdateType DEF IInv, OneIsSent, AccountingsExist
<1>5. SentAgrees'
  BY <1>1, KnownIdsAreKept, NoUpdateType DEF IInv, SentAgrees, Known
<1>6. \A b \in Products : b # updates[r].product => (IsLocked(b)' <=> IsLocked(b))
  BY <1>1, NoUpdateType, NoneIsNothing DEF IsLocked
<1>7. SavedAgrees'
  BY <1>6, KnownIdsAreKept DEF IInv, SavedAgrees, Known
<1> QED
  BY <1>2, <1>3, <1>4, <1>5, <1>7 DEF IInv

LEMMA SendProductInv ==
  ASSUME IInv, NEW r \in Requests, NEW offer \in Offers, SendProduct(r, offer)
  PROVE  IInv'
<1> DEFINE a == updates[r].product
           read == updates[r].row
           row == [read EXCEPT !.offer = offer]
           content == IF row.accounting = None THEN None ELSE accountings[row.accounting]
<1>1. /\ a \in Products /\ read \in ProductRow
      /\ ~updates[r].sent /\ ~IsLocked(a) /\ UNCHANGED <<products, accountings>>
  BY UpdateFields DEF SendProduct, IsOpen, IInv, CatalogTypeOK
<1>2. row \in ProductRow /\ row.id = read.id /\ row.accounting = read.accounting
  BY <1>1 DEF ProductRow
<1>0. content \in Contents \cup {None} /\ (row.accounting # None => content # None)
  BY <1>2, KeysOfRows DEF IInv, CatalogTypeOK, AccountingsExist
<1>3. PICK made \in CreatesProduct(row, a, talpa.products) :
        \/ /\ updates' = [updates EXCEPT ![r].row = made.row, ![r].content = content,
                                         ![r].sent = TRUE]
           /\ talpa' = [talpa EXCEPT !.products = SendsAccounting(made.row, content, made.talpa)]
           /\ UNCHANGED unsent
        \/ /\ updates' = [updates EXCEPT ![r] = NoUpdate]
           /\ talpa' = [talpa EXCEPT !.products = made.talpa]
           /\ unsent' = unsent \union {a}
  BY DEF SendProduct
<1> HIDE DEF row, content
<1>4. row.id # None => talpa.products[row.id].entity = a
  BY <1>2 DEF IInv, IdsAgree
<1>5. /\ made.row \in ProductRow /\ made.talpa \in [Ids -> ProductAtTalpa]
      /\ made.row.id \in Ids /\ made.talpa[made.row.id].entity = a
      /\ \A i \in Ids : talpa.products[i].entity # None => made.talpa[i] = talpa.products[i]
      /\ row.id = None => talpa.products[made.row.id].entity = None
      /\ row.id # None => made.row.id = row.id
      /\ made.row.accounting = row.accounting
  BY <1>1, <1>2, <1>4, CreatesProductKeeps DEF IInv, CatalogTypeOK
<1>6. \A b \in Products \ {a} : products[b].id # made.row.id
  BY <1>2, <1>4, <1>5, NoneIsNothing DEF IInv, IdsAgree
<1>7. \A s \in Requests : updates[s].product # a => updates[s].row.id # made.row.id
  BY <1>2, <1>4, <1>5, NoneIsNothing DEF IInv, IdsAgree
<1>8. CASE /\ updates' = [updates EXCEPT ![r].row = made.row, ![r].content = content,
                                         ![r].sent = TRUE]
           /\ talpa' = [talpa EXCEPT !.products = SendsAccounting(made.row, content, made.talpa)]
           /\ UNCHANGED unsent
  <2> DEFINE new == [updates[r] EXCEPT !.row = made.row, !.content = content, !.sent = TRUE]
  <2>1. /\ new \in Update /\ new.product = a /\ new.row = made.row /\ new.sent = TRUE
        /\ new.content = content
    <3>1. updates[r] \in OpenUpdate
      BY UpdateFields DEF SendProduct, IsOpen, IInv, CatalogTypeOK
    <3> QED
      BY <1>0, <1>5, <3>1 DEF OpenUpdate, Update
  <2>2. updates' = [updates EXCEPT ![r] = new]
    BY <1>8
  <2> HIDE DEF new
  <2>3. updates' \in [Requests -> Update] /\ updates'[r] = new
        /\ \A s \in Requests \ {r} : updates'[s] = updates[s]
    BY <2>1, <2>2 DEF IInv, CatalogTypeOK
  <2>4. /\ talpa'.products \in [Ids -> ProductAtTalpa]
        /\ \A i \in Ids : talpa'.products[i].entity = made.talpa[i].entity
        /\ \A i \in Ids : i # made.row.id => talpa'.products[i] = made.talpa[i]
        /\ Known(made.row) => talpa'.products[made.row.id].accounting = content
    <3>1. talpa'.products = SendsAccounting(made.row, content, made.talpa)
      BY <1>8 DEF IInv, CatalogTypeOK
    <3>2. content \in Contents \cup {None}
      BY <1>0
    <3> QED
      BY <1>5, <3>1, <3>2, SendsAccountingKeeps
  <2>5. CatalogTypeOK'
    BY <1>1, <2>3, <2>4 DEF IInv, CatalogTypeOK
  <2>6. \A b \in Products : products[b].id # None =>
          products[b].id \in Ids /\ talpa'.products[products[b].id].entity = b
          /\ (b # a => talpa'.products[products[b].id] = talpa.products[products[b].id])
    <3> SUFFICES ASSUME NEW b \in Products, products[b].id # None
                 PROVE  products[b].id \in Ids /\ talpa'.products[products[b].id].entity = b
                        /\ (b # a => talpa'.products[products[b].id] = talpa.products[products[b].id])
      OBVIOUS
    <3>1. products[b].id \in Ids /\ talpa.products[products[b].id].entity = b
      BY DEF IInv, CatalogTypeOK, IdsAgree, ProductRow
    <3>2. made.talpa[products[b].id] = talpa.products[products[b].id]
      BY <1>5, <3>1, NoneIsNothing
    <3> QED
      BY <1>6, <2>4, <3>1, <3>2
  <2>7. \A s \in Requests : updates[s].row.id # None =>
          /\ updates[s].product \in Products
          /\ talpa'.products[updates[s].row.id].entity = updates[s].product
          /\ updates[s].product # a =>
                talpa'.products[updates[s].row.id] = talpa.products[updates[s].row.id]
    <3> SUFFICES ASSUME NEW s \in Requests, updates[s].row.id # None
                 PROVE  /\ updates[s].product \in Products
                        /\ talpa'.products[updates[s].row.id].entity = updates[s].product
                        /\ updates[s].product # a =>
                              talpa'.products[updates[s].row.id] = talpa.products[updates[s].row.id]
      OBVIOUS
    <3>1. updates[s].row.id \in Ids
      BY UpdateFields DEF IInv, CatalogTypeOK, ProductRow
    <3>2. updates[s].product \in Products
          /\ talpa.products[updates[s].row.id].entity = updates[s].product
      BY DEF IInv, IdsAgree
    <3>3. made.talpa[updates[s].row.id] = talpa.products[updates[s].row.id]
      BY <1>5, <3>1, <3>2, NoneIsNothing
    <3> QED
      BY <1>7, <2>4, <3>1, <3>2, <3>3
  <2>8. talpa'.products[made.row.id].entity = a
    BY <1>5, <2>4
  <2>9. IdsAgree'
    BY <1>1, <2>1, <2>3, <2>6, <2>7, <2>8 DEF IdsAgree
  <2>10. \A s \in Requests : updates[s].sent => updates[s].product # a
    BY <1>1 DEF IsLocked
  <2>11. OneIsSent' /\ AccountingsExist'
    <3>1. OneIsSent'
      BY <2>1, <2>3, <2>10 DEF IInv, OneIsSent
    <3>2. made.row.accounting # None => accountings[made.row.accounting] # None /\ content # None
      BY <1>0, <1>2, <1>5 DEF IInv, AccountingsExist
    <3>3. AccountingsExist'
      BY <1>1, <2>1, <2>3, <3>2 DEF IInv, AccountingsExist
    <3> QED
      BY <3>1, <3>3
  <2>12. SentAgrees'
    BY <2>1, <2>3, <2>4, <2>7, <2>10 DEF IInv, SentAgrees, Known
  <2>13. SavedAgrees'
    <3>1. updates'[r].product = a /\ updates'[r].sent
      BY <2>1, <2>3
    <3>2. \A b \in Products \ {a} : IsLocked(b)' <=> IsLocked(b)
      BY <1>1, <2>1, <2>3 DEF IsLocked
    <3> QED
      <4> SUFFICES ASSUME NEW b \in Products, b \notin unsent', products'[b].state = "SAVED",
                          Known(products'[b]), ~IsLocked(b)'
                   PROVE  talpa'.products[products'[b].id].accounting = accountings'[products'[b].accounting]
        BY DEF SavedAgrees
      <4>1. b # a
        BY <3>1 DEF IsLocked
      <4>2. /\ products'[b] = products[b] /\ b \in Products \ unsent /\ ~IsLocked(b)
            /\ products[b].state = "SAVED" /\ Known(products[b])
        BY <1>1, <1>8, <3>2, <4>1
      <4>3. talpa.products[products[b].id].accounting = accountings[products[b].accounting]
        BY <4>2 DEF IInv, SavedAgrees
      <4> QED
        BY <1>1, <2>6, <4>1, <4>2, <4>3 DEF Known
  <2> QED
    BY <2>5, <2>9, <2>11, <2>12, <2>13 DEF IInv
<1>9. CASE /\ updates' = [updates EXCEPT ![r] = NoUpdate]
           /\ talpa' = [talpa EXCEPT !.products = made.talpa]
           /\ unsent' = unsent \union {a}
  <2>1. TalpaKeeps
    BY <1>5, <1>9 DEF TalpaKeeps
  <2> QED
    BY <1>1, <1>9, <2>1, RequestEnded
<1> QED
  BY <1>3, <1>8, <1>9

LEMMA CommitUpdateInv ==
  ASSUME IInv, NEW r \in Requests, CommitUpdate(r)
  PROVE  IInv'
<1> DEFINE a == updates[r].product
           row == updates[r].row
           content == updates[r].content
<1>1. /\ updates[r].sent
      /\ products' = [products EXCEPT ![a] = row]
      /\ accountings' = IF row.accounting = None THEN accountings
                        ELSE [accountings EXCEPT ![row.accounting] = content]
      /\ updates' = [updates EXCEPT ![r] = NoUpdate]
      /\ unsent' = (unsent \ {a}) \union Unaware(a)
      /\ UNCHANGED talpa
  BY DEF CommitUpdate, AccountingsSaved, orders
<1>2. a \in Products /\ row \in ProductRow /\ content \in Contents \cup {None}
  BY <1>1, UpdateFields, NoUpdateType DEF IInv, CatalogTypeOK
<1>3. updates' \in [Requests -> Update] /\ updates'[r] = NoUpdate
      /\ \A s \in Requests \ {r} : updates'[s] = updates[s]
  BY <1>1, NoUpdateType DEF IInv, CatalogTypeOK
<1>4. products' \in [Products -> ProductRow] /\ products'[a] = row
      /\ \A b \in Products \ {a} : products'[b] = products[b]
  BY <1>1, <1>2 DEF IInv, CatalogTypeOK
<1>0. /\ row.accounting # None => content # None /\ row.accounting \in Accountings
      /\ row.accounting # None => accountings'[row.accounting] = content
      /\ accountings' \in [Accountings -> Contents \cup {None}]
      /\ \A k \in Accountings : accountings[k] # None => accountings'[k] # None
  BY <1>1, <1>2, KeysOfRows DEF IInv, CatalogTypeOK, AccountingsExist
<1> HIDE DEF a, row, content
<1>5. CatalogTypeOK'
  BY <1>0, <1>1, <1>3, <1>4 DEF IInv, CatalogTypeOK
<1>6. row.id # None => talpa.products[row.id].entity = a
  BY DEF IInv, IdsAgree, a, row
<1>7. IdsAgree'
  BY <1>1, <1>3, <1>4, <1>6, NoUpdateType DEF IInv, IdsAgree
<1>8. OneIsSent' /\ AccountingsExist'
  <2>1. \A b \in Products : products'[b].accounting # None => accountings'[products'[b].accounting] # None
    BY <1>0, <1>4, KeysOfRows DEF IInv, AccountingsExist
  <2>2. \A s \in Requests : updates'[s].row.accounting # None =>
          /\ accountings'[updates'[s].row.accounting] # None
          /\ updates'[s].sent => updates'[s].content # None
    BY <1>0, <1>3, NoUpdateType, KeysOfRows DEF IInv, AccountingsExist
  <2>3. OneIsSent'
    BY <1>3, NoUpdateType DEF IInv, OneIsSent
  <2> QED
    BY <2>1, <2>2, <2>3 DEF AccountingsExist
<1>9. SentAgrees'
  BY <1>1, <1>3, NoUpdateType DEF IInv, SentAgrees
<1>10. Known(row) => talpa.products[row.id].accounting = content
  BY <1>1 DEF IInv, SentAgrees, a, row, content
<1>11. \A b \in Products \ {a} : IsLocked(b)' <=> IsLocked(b)
  BY <1>3, NoUpdateType, NoneIsNothing DEF IsLocked, a
<1>12. SavedAgrees'
  <2> SUFFICES ASSUME NEW b \in Products, b \notin unsent', products'[b].state = "SAVED",
                      Known(products'[b]), ~IsLocked(b)'
               PROVE  talpa'.products[products'[b].id].accounting = accountings'[products'[b].accounting]
    BY DEF SavedAgrees
  <2>1. CASE b = a
    BY <1>0, <1>1, <1>4, <1>10, <2>1 DEF Known
  <2>2. CASE b # a
    <3>1. products'[b] = products[b] /\ b \in Products \ unsent /\ b \notin Unaware(a) /\ ~IsLocked(b)
      BY <1>1, <1>4, <1>11, <2>2
    <3>2. accountings'[products[b].accounting] = accountings[products[b].accounting]
      BY <2>2, <3>1 DEF Unaware, Known
    <3> QED
      BY <1>1, <3>1, <3>2 DEF IInv, SavedAgrees
  <2> QED
    BY <2>1, <2>2
<1> QED
  BY <1>5, <1>7, <1>8, <1>9, <1>12 DEF IInv

LEMMA EditsInv ==
  ASSUME IInv, NEW a \in Products
  PROVE  /\ DeleteProduct(a) => IInv'
         /\ \A offer \in Offers : AddProduct(a, offer) => IInv'
         /\ \A offer \in Offers, k \in Accountings \cup {None} : EditProduct(a, offer, k) => IInv'
<1>1. /\ talpa.products \in [Ids -> ProductAtTalpa] /\ products[a] \in ProductRow
      /\ accountings \in [Accountings -> Contents \cup {None}]
  BY DEF IInv, CatalogTypeOK
<1>2. ASSUME DeleteProduct(a) PROVE IInv'
  <2> DEFINE row == [NoRow EXCEPT !.state = "GONE"]
  <2>1. row \in ProductRow /\ row.id = None /\ row.accounting = None
    BY DEF NoRow, ProductRow
  <2>2. products' = [products EXCEPT ![a] = row] /\ UNCHANGED <<accountings, updates, talpa, unsent>>
    BY <1>2 DEF DeleteProduct, orders, history
  <2> HIDE DEF row
  <2>3. TalpaKeeps /\ AccountingsStay
    BY <1>1, <2>2 DEF TalpaKeeps, AccountingsStay
  <2> QED
    BY <1>1, <2>1, <2>2, <2>3, ProductWritten DEF Known
<1>3. ASSUME NEW offer \in Offers, AddProduct(a, offer) PROVE IInv'
  <2> DEFINE row == [NoRow EXCEPT !.state = "SAVED", !.offer = offer]
  <2>1. row \in ProductRow /\ row.id = None /\ row.accounting = None
    BY DEF NoRow, ProductRow
  <2>2. products' = [products EXCEPT ![a] = row] /\ UNCHANGED <<accountings, updates, talpa, unsent>>
    BY <1>3 DEF AddProduct, orders, history
  <2> HIDE DEF row
  <2>3. TalpaKeeps /\ AccountingsStay
    BY <1>1, <2>2 DEF TalpaKeeps, AccountingsStay
  <2> QED
    BY <1>1, <2>1, <2>2, <2>3, ProductWritten DEF Known
<1>4. ASSUME NEW offer \in Offers, NEW k \in Accountings \cup {None}, EditProduct(a, offer, k)
      PROVE  IInv'
  <2> DEFINE row == [products[a] EXCEPT !.offer = offer, !.accounting = k]
  <2>1. /\ row \in ProductRow /\ row.id = products[a].id /\ row.accounting = k
        /\ row.state = products[a].state
    BY <1>1 DEF ProductRow
  <2>2. /\ products' = [products EXCEPT ![a] = row] /\ UNCHANGED <<accountings, updates, talpa>>
        /\ unsent' = IF k # products[a].accounting THEN unsent \union {a} ELSE unsent
        /\ k # None => accountings[k] # None
        /\ ~IsLocked(a)
    BY <1>4 DEF EditProduct, orders
  <2>3. row.id # None => talpa.products[row.id].entity = a
    BY <2>1 DEF IInv, IdsAgree
  <2> HIDE DEF row
  <2>4. TalpaKeeps /\ AccountingsStay
    BY <1>1, <2>2 DEF TalpaKeeps, AccountingsStay
  <2>5. row.state = "SAVED" /\ Known(row) /\ a \notin unsent' =>
          talpa.products[row.id].accounting = accountings[row.accounting]
    BY <2>1, <2>2 DEF IInv, SavedAgrees, Known
  <2> QED
    BY <1>1, <2>1, <2>2, <2>3, <2>4, <2>5, ProductWritten
<1> QED
  BY <1>2, <1>3, <1>4

(* The admin site writes an accounting: its products are unsent. *)
LEMMA AccountingWritten ==
  ASSUME IInv, NEW k \in Accountings, NEW content \in Contents,
         AddAccounting(k, content) \/ EditAccounting(k, content)
  PROVE  IInv'
<1>1. /\ accountings' = [accountings EXCEPT ![k] = content]
      /\ UNCHANGED <<products, updates, talpa>>
  BY DEF AddAccounting, EditAccounting, orders
<1>2. /\ accountings' \in [Accountings -> Contents \cup {None}] /\ accountings'[k] # None
      /\ \A n \in Accountings \ {k} : accountings'[n] = accountings[n]
  BY <1>1, NoneIsNothing DEF IInv, CatalogTypeOK
<1>3. unsent \subseteq unsent' /\ (accountings[k] = None \/ {a \in Products : products[a].accounting = k} \subseteq unsent')
  BY DEF AddAccounting, EditAccounting, IsNextAccounting, Accountings, history
<1>4. (CatalogTypeOK /\ IdsAgree /\ OneIsSent /\ SentAgrees)'
  BY <1>1, <1>2 DEF IInv, CatalogTypeOK, IdsAgree, OneIsSent, SentAgrees
<1>5. AccountingsExist'
  <2>1. \A n \in Accountings : accountings[n] # None => accountings'[n] # None
    BY <1>2
  <2> QED
    BY <1>1, <2>1, KeysOfRows DEF IInv, AccountingsExist
<1>6. SavedAgrees'
  <2> SUFFICES ASSUME NEW b \in Products, b \notin unsent', products[b].state = "SAVED",
                      Known(products[b]), ~IsLocked(b)
               PROVE  talpa.products[products[b].id].accounting = accountings'[products[b].accounting]
    BY <1>1 DEF SavedAgrees, IsLocked
  <2>1. products[b].accounting # k /\ products[b].accounting \in Accountings
    BY <1>3, KeysOfRows DEF IInv, AccountingsExist, Known
  <2> QED
    BY <1>2, <1>3, <2>1 DEF IInv, SavedAgrees
<1> QED
  BY <1>4, <1>5, <1>6 DEF IInv

LEMMA SalesInv ==
  ASSUME IInv, SalesNext
  PROVE  IInv'
<1>1. ASSUME UNCHANGED <<rows, talpa, history>> PROVE IInv'
  BY <1>1, UntouchedInv DEF history
<1>2. ASSUME NEW o \in Orders, SendToTalpa(o) PROVE IInv'
  <2>1. UNCHANGED rows /\ UNCHANGED unsent /\ talpa'.products = talpa.products
    BY <1>2 DEF SendToTalpa, history
  <2> QED
    BY <2>1, UntouchedInv
<1>3. ASSUME NEW p \in Permits, ResolveProduct(p) PROVE IInv'
  <2>1. UNCHANGED rows /\ UNCHANGED unsent
    BY <1>3 DEF ResolveProduct, history
  <2>2. CASE UNCHANGED talpa
    BY <2>1, <2>2, UntouchedInv
  <2>3. CASE ~UNCHANGED talpa
    <3>1. PICK a \in Products : talpa' = [talpa EXCEPT !.renewing[p] = products[a].id]
      BY <1>3, <2>3 DEF ResolveProduct
    <3>2. talpa'.products = talpa.products
      BY <3>1
    <3> QED
      BY <2>1, <3>2, UntouchedInv
  <2> QED
    BY <2>2, <2>3
<1>4. ASSUME NEW p \in Permits, NEW o \in Orders, ResolvePrice(p, o) PROVE IInv'
  <2>1. UNCHANGED rows /\ UNCHANGED unsent /\ talpa'.products = talpa.products
    BY <1>4 DEF ResolvePrice, history
  <2> QED
    BY <2>1, UntouchedInv
<1>5. CASE MonthPasses \/ CommitCheckout \/ FailCheckout
  BY <1>1, <1>5 DEF MonthPasses, CommitCheckout, FailCheckout
<1>6. CASE \E a \in Products : BeginCheckout(a) \/ \E o \in Orders : RenewalOrderCreated(o, a)
  BY <1>1, <1>6 DEF BeginCheckout, RenewalOrderCreated
<1>7. CASE \/ \E z \in Zones : ChangeAddress(z)
           \/ \E o \in Orders : PaymentPaid(o)
           \/ \E p \in Permits : EndPermit(p)
  BY <1>1, <1>7 DEF ChangeAddress, PaymentPaid, EndPermit
<1> QED
  BY <1>2, <1>3, <1>4, <1>5, <1>6, <1>7 DEF SalesNext

LEMMA NextInv == IInv /\ [Next]_vars => IInv'
<1> SUFFICES ASSUME IInv, [Next]_vars PROVE IInv'
  OBVIOUS
<1>1. CASE UNCHANGED vars
  BY <1>1, UntouchedInv DEF vars, rows, history
<1>2. CASE ProductsNext
  <2>1. ASSUME NEW r \in Requests, FailUpdate(r) PROVE IInv'
    <3>1. TalpaKeeps
      BY <2>1 DEF FailUpdate, orders, TalpaKeeps, IInv, CatalogTypeOK
    <3> QED
      BY <2>1, <3>1, RequestEnded DEF FailUpdate
  <2> QED
    BY <1>2, <2>1, EditsInv, ReadProductInv, SendProductInv, CommitUpdateInv DEF ProductsNext
<1>3. CASE AccountingsNext
  BY <1>3, CreateProductInv, EditsInv, AccountingWritten DEF AccountingsNext
<1> QED
  BY <1>1, <1>2, <1>3, SalesInv DEF Next

(* Talpa books the payments of a product on the accounting that the application shows, *)
(* however requests, failures and the admin site follow each other, also when products *)
(* share it: resolve_update_product and update_talpa_accounting.                       *)
THEOREM AccountingsAgree == Spec => []AccountingAgrees
<1>1. IInv => AccountingAgrees
  <2> SUFFICES ASSUME IInv, NEW a \in Products \ unsent,
                      products[a].state = "SAVED", Known(products[a]),
                      \A r \in Requests : updates[r].product # a
               PROVE  talpa.products[products[a].id].accounting = accountings[products[a].accounting]
    BY DEF AccountingAgrees, Known
  <2>1. ~IsLocked(a)
    BY DEF IsLocked
  <2> QED
    BY <2>1 DEF IInv, SavedAgrees
<1> QED
  BY InitInv, NextInv, <1>1, PTL DEF Spec

(***************************************************************************)
(* The order that a permit waits for                                       *)
(***************************************************************************)
PermitRow == [status : {"DRAFT", "PAYMENT_IN_PROGRESS", "VALID", "CLOSED"}, primary : BOOLEAN,
              zone : Zones]

PermitsType == permits \in [Permits -> PermitRow]

OrdersType ==
    /\ items \in [Orders -> Products \cup {None}]
    /\ checkout.product \in Products \cup {None} /\ checkout.order \in Orders \cup {None}
    /\ checkout.order # None => checkout.product # None

(* What createOrder sent is over all that is still a draft. *)
SentIsOverDrafts == checkout.order # None => Drafts \subseteq PermitsOf(checkout.order)

TalpaType ==
    /\ talpa = [products |-> talpa.products, orders |-> talpa.orders,
                renewals |-> talpa.renewals, renewing |-> talpa.renewing]
    /\ DOMAIN talpa.orders = Orders

OrderInv == PermitsType /\ OrdersType /\ TalpaType /\ SentIsOverDrafts /\ WaitsForKnownOrder

LEMMA NoOrderIsNone == None \notin Orders /\ None \notin Products
  BY CatalogAssumption DEF Orders, Products

LEMMA InitOrderInv == Init => OrderInv
<1> SUFFICES ASSUME Init PROVE OrderInv
  OBVIOUS
<1>1. PermitsType /\ \A p \in Permits : permits[p].status = "DRAFT"
  BY DEF Init, PermitsType, PermitRow
<1>2. OrdersType /\ checkout.order = None
  BY DEF Init, OrdersType, NoCheckout
<1>3. TalpaType
  BY DEF Init, TalpaType
<1> QED
  BY <1>1, <1>2, <1>3 DEF OrderInv, SentIsOverDrafts, WaitsForKnownOrder

(* Orders at Talpa are added and stay; orders stored stay; no permit is a draft again. *)
LEMMA OrdersKept ==
  ASSUME OrderInv, PermitsType', OrdersType', TalpaType',
         \A o \in Orders : PermitsOf(o) # {} => PermitsOf(o) \subseteq PermitsOf(o)',
         \A o \in Orders : items[o] # None => items'[o] # None,
         \A p \in Permits : permits'[p].status \in {"DRAFT", "PAYMENT_IN_PROGRESS"} =>
            permits'[p].status = permits[p].status,
         checkout'.order = None \/ checkout'.order = checkout.order
  PROVE  OrderInv'
<1>1. WaitsForKnownOrder'
  <2> SUFFICES ASSUME NEW p \in Permits, permits'[p].status = "PAYMENT_IN_PROGRESS"
               PROVE  \E o \in Orders : items'[o] # None /\ p \in PermitsOf(o)'
    BY DEF WaitsForKnownOrder
  <2>1. PICK o \in Orders : items[o] # None /\ p \in PermitsOf(o)
    BY DEF OrderInv, WaitsForKnownOrder
  <2> QED
    BY <2>1
<1>2. SentIsOverDrafts'
  <2> SUFFICES ASSUME checkout'.order # None, NEW p \in Permits, permits'[p].status = "DRAFT"
               PROVE  p \in PermitsOf(checkout.order)'
    BY DEF SentIsOverDrafts, Drafts
  <2>1. p \in PermitsOf(checkout.order) /\ checkout.order \in Orders
    BY DEF OrderInv, SentIsOverDrafts, Drafts, OrdersType
  <2> QED
    BY <2>1
<1> QED
  BY <1>1, <1>2 DEF OrderInv

LEMMA SendToTalpaOrderInv ==
  ASSUME OrderInv, NEW o \in Orders, SendToTalpa(o)
  PROVE  OrderInv'
<1>1. /\ talpa' = [talpa EXCEPT !.orders[o] = OrderData(checkout.product)]
      /\ checkout' = [checkout EXCEPT !.order = o]
      /\ UNCHANGED <<permits, items>>
      /\ checkout.product # None
  BY DEF SendToTalpa
<1>2. talpa.orders[o] = {}
  BY CatalogAssumption DEF SendToTalpa, IsNextOrder, Orders
<1>3. talpa'.orders = [talpa.orders EXCEPT ![o] = OrderData(checkout.product)]
  BY <1>1 DEF OrderInv, TalpaType
<1>4. talpa'.orders[o] = OrderData(checkout.product)
      /\ \A n \in Orders \ {o} : talpa'.orders[n] = talpa.orders[n]
  BY <1>3 DEF OrderInv, TalpaType
<1>5. Drafts \subseteq PermitsOf(o)'
  <2> SUFFICES ASSUME NEW p \in Drafts PROVE p \in PermitsOf(o)'
    OBVIOUS
  <2> DEFINE item == ItemData(p, checkout.product)
  <2>1. item \in OrderData(checkout.product)
    BY DEF OrderData
  <2>2. item.permit = p
    BY DEF ItemData
  <2> HIDE DEF item
  <2>3. item \in talpa'.orders[o]
    BY <1>4, <2>1
  <2> QED
    BY <2>2, <2>3 DEF PermitsOf
<1>6. \A n \in Orders : PermitsOf(n) # {} => PermitsOf(n)' = PermitsOf(n)
  BY <1>2, <1>4 DEF PermitsOf
<1>7. checkout'.product = checkout.product /\ checkout'.order = o
  BY <1>1 DEF OrderInv, OrdersType
<1>8. OrdersType'
  BY <1>1, <1>7 DEF OrderInv, OrdersType
<1>9. PermitsType' /\ TalpaType'
  BY <1>1, <1>3 DEF OrderInv, PermitsType, TalpaType
<1>10. SentIsOverDrafts'
  BY <1>1, <1>5, <1>7 DEF SentIsOverDrafts, Drafts
<1>11. WaitsForKnownOrder'
  BY <1>1, <1>6 DEF OrderInv, WaitsForKnownOrder
<1> QED
  BY <1>8, <1>9, <1>10, <1>11 DEF OrderInv

LEMMA CommitCheckoutOrderInv ==
  ASSUME OrderInv, CommitCheckout
  PROVE  OrderInv'
<1> DEFINE o == checkout.order
<1>1. /\ o \in Orders /\ checkout.product \in Products
      /\ permits' = InPayment(Drafts)
      /\ items' = [items EXCEPT ![o] = checkout.product]
      /\ checkout' = NoCheckout
      /\ UNCHANGED talpa
  BY DEF CommitCheckout, OrderInv, OrdersType
<1>2. checkout'.product = None /\ checkout'.order = None
  BY <1>1 DEF NoCheckout
<1>3. \A p \in Permits : permits'[p] = IF p \in Drafts
                                      THEN [permits[p] EXCEPT !.status = "PAYMENT_IN_PROGRESS"]
                                      ELSE permits[p]
  BY <1>1 DEF InPayment
<1>4. \A p \in Permits : permits'[p].status = "PAYMENT_IN_PROGRESS" =>
        p \in Drafts \/ permits[p].status = "PAYMENT_IN_PROGRESS"
  BY <1>3
<1>5. PermitsType'
  <2>1. \A p \in Permits : permits'[p] \in PermitRow
    BY <1>3 DEF OrderInv, PermitsType, PermitRow
  <2> QED
    BY <1>1, <2>1 DEF PermitsType, InPayment
<1>6. Drafts \subseteq PermitsOf(o)
  BY <1>1, NoOrderIsNone DEF OrderInv, SentIsOverDrafts
<1>7. \A n \in Orders : PermitsOf(n)' = PermitsOf(n)
  BY <1>1 DEF PermitsOf
<1> HIDE DEF o
<1>8. items'[o] # None /\ \A n \in Orders : items[n] # None => items'[n] # None
  BY <1>1, NoOrderIsNone DEF OrderInv, OrdersType
<1>9. OrdersType' /\ TalpaType'
  BY <1>1, <1>2 DEF OrderInv, OrdersType, TalpaType
<1>10. WaitsForKnownOrder'
  BY <1>1, <1>4, <1>6, <1>7, <1>8 DEF OrderInv, WaitsForKnownOrder
<1>11. SentIsOverDrafts'
  BY <1>2 DEF SentIsOverDrafts
<1> QED
  BY <1>5, <1>9, <1>10, <1>11 DEF OrderInv

LEMMA PermitsMoveOrderInv ==
  ASSUME OrderInv
  PROVE  /\ \A o \in Orders : PaymentPaid(o) => OrderInv'
         /\ \A p \in Permits : EndPermit(p) => OrderInv'
         /\ \A z \in Zones : ChangeAddress(z) => OrderInv'
         /\ \A p \in Permits : ResolveProduct(p) => OrderInv'
<1>1. ASSUME NEW o \in Orders, PaymentPaid(o) PROVE OrderInv'
  <2>1. permits' = [p \in Permits |-> IF p \in PermitsOf(o) THEN [permits[p] EXCEPT !.status = "VALID"]
                                                          ELSE permits[p]]
        /\ UNCHANGED <<items, checkout, talpa>>
    BY <1>1 DEF PaymentPaid
  <2>2. PermitsType'
    BY <2>1 DEF OrderInv, PermitsType, PermitRow
  <2>3. \A p \in Permits : permits'[p].status # "VALID" => permits'[p] = permits[p]
    BY <2>1 DEF OrderInv, PermitsType
  <2>4. OrdersType' /\ TalpaType' /\ \A n \in Orders : PermitsOf(n)' = PermitsOf(n)
    BY <2>1 DEF OrderInv, OrdersType, TalpaType, PermitsOf
  <2> QED
    BY <2>1, <2>2, <2>3, <2>4, OrdersKept
<1>2. ASSUME NEW p \in Permits, EndPermit(p) PROVE OrderInv'
  <2>1. permits' = [permits EXCEPT ![p].status = "CLOSED"] /\ UNCHANGED <<items, checkout, talpa>>
    BY <1>2 DEF EndPermit
  <2>2. PermitsType'
    BY <2>1 DEF OrderInv, PermitsType, PermitRow
  <2>3. \A q \in Permits : permits'[q].status # "CLOSED" => permits'[q] = permits[q]
    BY <2>1 DEF OrderInv, PermitsType
  <2>4. OrdersType' /\ TalpaType' /\ \A n \in Orders : PermitsOf(n)' = PermitsOf(n)
    BY <2>1 DEF OrderInv, OrdersType, TalpaType, PermitsOf
  <2> QED
    BY <2>1, <2>2, <2>3, <2>4, OrdersKept
<1>3. ASSUME NEW z \in Zones, ChangeAddress(z) PROVE OrderInv'
  <2>1. permits' = [p \in Permits |-> IF p \in Active THEN [permits[p] EXCEPT !.zone = z]
                                                     ELSE permits[p]]
        /\ UNCHANGED <<items, checkout, talpa>>
    BY <1>3 DEF ChangeAddress
  <2>2. PermitsType'
    BY <2>1 DEF OrderInv, PermitsType, PermitRow
  <2>3. \A q \in Permits : permits'[q].status = permits[q].status
    BY <2>1 DEF OrderInv, PermitsType, PermitRow
  <2>4. OrdersType' /\ TalpaType' /\ \A n \in Orders : PermitsOf(n)' = PermitsOf(n)
    BY <2>1 DEF OrderInv, OrdersType, TalpaType, PermitsOf
  <2> QED
    BY <2>1, <2>2, <2>3, <2>4, OrdersKept
<1>4. ASSUME NEW p \in Permits, ResolveProduct(p) PROVE OrderInv'
  <2>1. permits' = [permits EXCEPT ![p].primary = @ \/ Active \ {p} = {}]
        /\ UNCHANGED <<items, checkout>>
    BY <1>4 DEF ResolveProduct
  <2>2. PermitsType'
    BY <2>1 DEF OrderInv, PermitsType, PermitRow
  <2>3. \A q \in Permits : permits'[q].status = permits[q].status
    BY <2>1 DEF OrderInv, PermitsType, PermitRow
  <2>4. talpa'.orders = talpa.orders /\ TalpaType'
    <3>1. CASE UNCHANGED talpa
      BY <3>1 DEF OrderInv, TalpaType
    <3>2. CASE ~UNCHANGED talpa
      <4>1. PICK a \in Products : talpa' = [talpa EXCEPT !.renewing[p] = products[a].id]
        BY <1>4, <3>2 DEF ResolveProduct
      <4> QED
        BY <4>1 DEF OrderInv, TalpaType
    <3> QED
      BY <3>1, <3>2
  <2>5. OrdersType' /\ \A n \in Orders : PermitsOf(n)' = PermitsOf(n)
    BY <2>1, <2>4 DEF OrderInv, OrdersType, PermitsOf
  <2> QED
    BY <2>1, <2>2, <2>3, <2>4, <2>5, OrdersKept
<1> QED
  BY <1>1, <1>2, <1>3, <1>4

LEMMA RenewalsOrderInv ==
  ASSUME OrderInv, NEW o \in Orders
  PROVE  /\ \A p \in Permits : ResolvePrice(p, o) => OrderInv'
         /\ \A a \in Products : RenewalOrderCreated(o, a) => OrderInv'
<1>1. ASSUME NEW p \in Permits, ResolvePrice(p, o) PROVE OrderInv'
  <2>1. talpa' = [talpa EXCEPT !.renewing[p] = None, !.renewals = @ \union {o},
                              !.orders[o] = {[permit |-> p, id |-> talpa.renewing[p]]}]
        /\ UNCHANGED <<permits, items, checkout>>
    BY <1>1 DEF ResolvePrice, orders
  <2>2. talpa.orders[o] = {}
    BY <1>1, CatalogAssumption DEF ResolvePrice, IsNextOrder, Orders
  <2>3. talpa'.orders = [talpa.orders EXCEPT ![o] = {[permit |-> p, id |-> talpa.renewing[p]]}]
    BY <2>1 DEF OrderInv, TalpaType
  <2>4. TalpaType'
    BY <2>1 DEF OrderInv, TalpaType
  <2>5. \A n \in Orders \ {o} : talpa'.orders[n] = talpa.orders[n]
    BY <2>3 DEF OrderInv, TalpaType
  <2>6. \A n \in Orders : PermitsOf(n) # {} => PermitsOf(n) \subseteq PermitsOf(n)'
    BY <2>2, <2>5 DEF PermitsOf
  <2>7. PermitsType' /\ OrdersType'
    BY <2>1 DEF OrderInv, PermitsType, OrdersType
  <2> QED
    BY <2>1, <2>4, <2>6, <2>7, OrdersKept
<1>2. ASSUME NEW a \in Products, RenewalOrderCreated(o, a) PROVE OrderInv'
  <2>1. items' = [items EXCEPT ![o] = a] /\ UNCHANGED <<permits, checkout, talpa>>
    BY <1>2 DEF RenewalOrderCreated
  <2>2. PermitsType' /\ OrdersType' /\ TalpaType'
    BY <2>1 DEF OrderInv, PermitsType, OrdersType, TalpaType
  <2>3. \A n \in Orders : items[n] # None => items'[n] # None
    BY <2>1, NoOrderIsNone DEF OrderInv, OrdersType
  <2>4. \A n \in Orders : PermitsOf(n)' = PermitsOf(n)
    BY <2>1 DEF PermitsOf
  <2> QED
    BY <2>1, <2>2, <2>3, <2>4, OrdersKept
<1> QED
  BY <1>1, <1>2

LEMMA CatalogOrderInv ==
  ASSUME OrderInv, UNCHANGED <<permits, items>>,
         talpa' = talpa \/ \E t : talpa' = [talpa EXCEPT !.products = t],
         checkout' = checkout \/ checkout' = NoCheckout
           \/ \E a \in Products : checkout' = [product |-> a, order |-> None]
  PROVE  OrderInv'
<1>1. talpa'.orders = talpa.orders /\ TalpaType'
  BY DEF OrderInv, TalpaType
<1>2. PermitsType'
  BY DEF OrderInv, PermitsType
<1>3. OrdersType' /\ (checkout'.order = None \/ checkout'.order = checkout.order)
  BY DEF OrderInv, OrdersType, NoCheckout
<1>4. \A n \in Orders : PermitsOf(n)' = PermitsOf(n)
  BY <1>1 DEF PermitsOf
<1> QED
  BY <1>1, <1>2, <1>3, <1>4, OrdersKept

LEMMA NextOrderInv == OrderInv /\ [Next]_vars => OrderInv'
<1> SUFFICES ASSUME OrderInv, [Next]_vars PROVE OrderInv'
  OBVIOUS
<1>1. ASSUME UNCHANGED <<permits, items, talpa>>,
             checkout' = checkout \/ checkout' = NoCheckout
               \/ \E a \in Products : checkout' = [product |-> a, order |-> None]
      PROVE  OrderInv'
  BY <1>1, CatalogOrderInv
<1>2. ASSUME UNCHANGED orders, talpa' = talpa \/ \E t : talpa' = [talpa EXCEPT !.products = t]
      PROVE  OrderInv'
  BY <1>2, CatalogOrderInv DEF orders
<1>3. CASE MonthPasses \/ FailCheckout \/ UNCHANGED vars
  BY <1>1, <1>3 DEF MonthPasses, FailCheckout, vars, orders
<1>4. CASE \E a \in Products : BeginCheckout(a)
  BY <1>1, <1>4 DEF BeginCheckout
<1>5. CASE ProductsNext
  <2>1. ASSUME NEW r \in Requests, NEW offer \in Offers, SendProduct(r, offer) PROVE OrderInv'
    BY <1>2, <2>1 DEF SendProduct
  <2>2. ASSUME NEW r \in Requests, CommitUpdate(r) \/ FailUpdate(r) PROVE OrderInv'
    BY <1>2, <2>2 DEF CommitUpdate, FailUpdate
  <2>3. CASE \E a \in Products : \/ \E offer \in Offers : AddProduct(a, offer)
                                 \/ \E r \in Requests : ReadProduct(r, a)
                                 \/ DeleteProduct(a)
    BY <1>2, <2>3 DEF AddProduct, ReadProduct, DeleteProduct
  <2> QED
    BY <1>5, <2>1, <2>2, <2>3 DEF ProductsNext
<1>6. CASE AccountingsNext
  <2>1. ASSUME NEW a \in Products, NEW k \in Accountings, NEW offer \in Offers,
               CreateProduct(a, k, offer)
        PROVE  OrderInv'
    BY <1>2, <2>1 DEF CreateProduct
  <2>2. ASSUME NEW a \in Products, NEW offer \in Offers, NEW k \in Accountings \cup {None},
               EditProduct(a, offer, k)
        PROVE  OrderInv'
    BY <1>2, <2>2 DEF EditProduct
  <2>3. ASSUME NEW k \in Accountings, NEW content \in Contents,
               AddAccounting(k, content) \/ EditAccounting(k, content)
        PROVE  OrderInv'
    BY <1>2, <2>3 DEF AddAccounting, EditAccounting
  <2> QED
    BY <1>6, <2>1, <2>2, <2>3 DEF AccountingsNext
<1>7. CASE SalesNext
  BY <1>3, <1>4, <1>7, CommitCheckoutOrderInv, SendToTalpaOrderInv, PermitsMoveOrderInv,
     RenewalsOrderInv DEF SalesNext
<1> QED
  BY <1>3, <1>5, <1>6, <1>7 DEF Next

(* No failure of createOrder leaves a permit waiting for an order that nobody can pay: *)
(* Order.objects.create_for_permits and TalpaOrderManager.send_to_talpa, in one        *)
(* transaction here and none at Talpa.                                                 *)
THEOREM PermitsWaitForKnownOrder == Spec => []WaitsForKnownOrder
<1>1. OrderInv => WaitsForKnownOrder
  BY DEF OrderInv
<1> QED
  BY InitOrderInv, NextOrderInv, <1>1, PTL DEF Spec

(***************************************************************************)
(* The product that was sold                                               *)
(***************************************************************************)
SoldTypeOK ==
    /\ Permits # {}
    /\ talpa.orders \in [Orders -> SUBSET [permit : Permits, id : Ids]]
    /\ talpa.renewing \in [Permits -> Ids \cup {None}]

(* A request writes the product it read, with the id it read: it is alone, or the race *)
(* is noted.                                                                           *)
Writes(r, a) ==
    /\ updates[r].row.state = "SAVED" /\ products[a].state # "NONE"
    /\ a \notin raced =>
        /\ products[a].id # None => updates[r].row.id = products[a].id
        /\ \A s \in Requests : updates[s].product = a => s = r

RequestsInv ==
    /\ \A a \in Products : products[a].state # "SAVED" => products[a].id = None
    /\ \A r \in Requests, a \in Products : updates[r].product = a => Writes(r, a)

(* All permits are sold together, once. *)
NothingSold ==
    /\ \A o \in Orders : items[o] = None
    /\ \A p \in Permits : permits[p].status = "DRAFT" /\ talpa.renewing[p] = None
    /\ talpa.renewals = {}

AllSold == checkout.product = None /\ \A p \in Permits : permits[p].status # "DRAFT"

(* The orders of Talpa: each is over one product, and an order that is used is there. *)
OrdersAtTalpa ==
    \A o \in Orders :
        /\ \A i, j \in talpa.orders[o] : i.id = j.id
        /\ items[o] # None \/ checkout.order = o => talpa.orders[o] # {}

ItemsAreSaved == \A o \in Orders, a \in Products : items[o] = a => products[a].state = "SAVED"

OrderIsOf ==
    \A o \in Orders : \A i \in talpa.orders[o] :
        /\ items[o] \in {None, talpa.products[i.id].entity}
        /\ checkout.order = o => talpa.products[i.id].entity = checkout.product

IsSold(i) ==
    \/ \E o \in Orders : \E j \in talpa.orders[o] : j.id = i
    \/ \E p \in Permits : talpa.renewing[p] = i

(* A product of this id is deleted, or has the id, and so has what a request read of it. *)
HasId(a, i) ==
    /\ products[a].state = "GONE" \/ products[a].id = i
    /\ \A r \in Requests : updates[r].product = a => updates[r].row.id = i

Kept(i) ==
    \E a \in Products : talpa.products[i].entity = a /\ (a \in raced \/ HasId(a, i))

SoldIsKept == \A i \in Ids : IsSold(i) => Kept(i)

SaleInv ==
    /\ SoldTypeOK /\ (NothingSold \/ AllSold) /\ OrdersAtTalpa /\ ItemsAreSaved
    /\ OrderIsOf /\ SoldIsKept

SoldInv == IInv /\ OrderInv /\ RequestsInv /\ SaleInv

LEMMA InitSoldInv == Init => SoldInv
<1> SUFFICES ASSUME Init PROVE SoldInv
  OBVIOUS
<1>1. /\ products = [a \in Products |-> NoRow] /\ updates = [r \in Requests |-> NoUpdate]
      /\ items = [o \in Orders |-> None] /\ checkout = NoCheckout
      /\ talpa.orders = [o \in Orders |-> {}] /\ talpa.renewals = {}
      /\ talpa.renewing = [p \in Permits |-> None]
      /\ Permits # {} /\ \A p \in Permits : permits[p].status = "DRAFT"
  BY DEF Init
<1>2. checkout.product = None /\ checkout.order = None
  BY <1>1 DEF NoCheckout
<1>3. RequestsInv
  BY <1>1, NoRowType, NoUpdateType, NoneIsNothing DEF RequestsInv
<1>4. SoldTypeOK /\ NothingSold
  BY <1>1 DEF SoldTypeOK, NothingSold
<1>5. OrdersAtTalpa /\ OrderIsOf
  BY <1>1, <1>2, NoOrderIsNone DEF OrdersAtTalpa, OrderIsOf
<1>6. ItemsAreSaved /\ SoldIsKept
  BY <1>1, NoneIsNothing DEF ItemsAreSaved, SoldIsKept, IsSold
<1> QED
  BY <1>3, <1>4, <1>5, <1>6, InitInv, InitOrderInv DEF SoldInv, SaleInv

(* A step over the catalog that writes at most one product, and the requests about it. *)
CatalogStep(b) ==
    /\ UNCHANGED orders
    /\ talpa'.orders = talpa.orders /\ talpa'.renewals = talpa.renewals
    /\ talpa'.renewing = talpa.renewing
    /\ \A i \in Ids : talpa.products[i].entity # None =>
        talpa'.products[i].entity = talpa.products[i].entity
    /\ raced \subseteq raced'
    /\ \A c \in Products \ {b} :
        /\ products'[c] = products[c]
        /\ \A r \in Requests : updates'[r].product = c => updates'[r] = updates[r]
    /\ HasItems(b) /\ products[b].state = "SAVED" => products'[b].state = "SAVED"
    /\ \A i \in Ids : b \notin raced' /\ HasId(b, i) => HasId(b, i)'

LEMMA CatalogStepInv ==
  ASSUME SoldInv, NEW b \in Products, CatalogStep(b)
  PROVE  SaleInv'
<1>1. UNCHANGED <<permits, items, checkout>>
  BY DEF CatalogStep, orders
<1>2. talpa'.orders = talpa.orders /\ talpa'.renewals = talpa.renewals
      /\ talpa'.renewing = talpa.renewing
  BY DEF CatalogStep
<1>3. SoldTypeOK'
  BY <1>2 DEF SoldInv, SaleInv, SoldTypeOK
<1>4. (NothingSold \/ AllSold)'
  BY <1>1, <1>2 DEF SoldInv, SaleInv, NothingSold, AllSold
<1>5. OrdersAtTalpa'
  BY <1>1, <1>2 DEF SoldInv, SaleInv, OrdersAtTalpa
<1>6. ItemsAreSaved'
  <2> SUFFICES ASSUME NEW o \in Orders, NEW a \in Products, items[o] = a
               PROVE  products'[a].state = "SAVED"
    BY <1>1 DEF ItemsAreSaved
  <2>1. products[a].state = "SAVED" /\ HasItems(a)
    BY DEF SoldInv, SaleInv, ItemsAreSaved, HasItems
  <2> QED
    BY <2>1 DEF CatalogStep
<1>7. \A i \in Ids : Kept(i) => Kept(i)' /\ talpa'.products[i].entity = talpa.products[i].entity
  <2> SUFFICES ASSUME NEW i \in Ids, Kept(i)
               PROVE  Kept(i)' /\ talpa'.products[i].entity = talpa.products[i].entity
    OBVIOUS
  <2>1. PICK a \in Products : talpa.products[i].entity = a /\ (a \in raced \/ HasId(a, i))
    BY DEF Kept
  <2>2. talpa'.products[i].entity = a /\ raced \subseteq raced'
    BY <2>1, NoneIsNothing DEF CatalogStep
  <2>3. a \in raced' \/ HasId(a, i)'
    <3>1. CASE a = b
      BY <2>1, <2>2, <3>1 DEF CatalogStep
    <3>2. CASE a # b
      <4>1. /\ products'[a] = products[a]
            /\ \A r \in Requests : updates'[r].product = a => updates'[r] = updates[r]
        BY <3>2 DEF CatalogStep
      <4> QED
        BY <2>1, <2>2, <4>1 DEF HasId
    <3> QED
      BY <3>1, <3>2
  <2> QED
    BY <2>1, <2>2, <2>3 DEF Kept
<1>8. \A i : IsSold(i)' <=> IsSold(i)
  BY <1>2 DEF IsSold
<1>9. SoldIsKept'
  BY <1>7, <1>8 DEF SoldInv, SaleInv, SoldIsKept
<1>10. OrderIsOf'
  <2> SUFFICES ASSUME NEW o \in Orders, NEW i \in talpa.orders[o]
               PROVE  /\ items[o] \in {None, talpa'.products[i.id].entity}
                      /\ checkout.order = o => talpa'.products[i.id].entity = checkout.product
    BY <1>1, <1>2 DEF OrderIsOf
  <2>1. i.id \in Ids /\ IsSold(i.id)
    BY DEF SoldInv, SaleInv, SoldTypeOK, IsSold
  <2>2. talpa'.products[i.id].entity = talpa.products[i.id].entity
    BY <1>7, <2>1 DEF SoldInv, SaleInv, SoldIsKept
  <2> QED
    BY <2>2 DEF SoldInv, SaleInv, OrderIsOf
<1> QED
  BY <1>3, <1>4, <1>5, <1>6, <1>9, <1>10 DEF SaleInv

(* The requests and the catalog. *)
LEMMA UpdateProducts ==
  ASSUME IInv, NEW r \in Requests
  PROVE  /\ updates[r] \in Update /\ updates[r].row \in ProductRow
         /\ updates[r].product \in Products <=> updates[r] # NoUpdate
BY UpdateFields, NoUpdateType, NoneIsNothing DEF IInv, CatalogTypeOK

LEMMA RequestsUntouched ==
  ASSUME RequestsInv, UNCHANGED <<products, updates, raced>>
  PROVE  RequestsInv'
BY DEF RequestsInv, Writes

(* A request that ends disturbs no other. *)
LEMMA RequestEndedSold ==
  ASSUME SoldInv, NEW r \in Requests, updates[r] # NoUpdate,
         updates' = [updates EXCEPT ![r] = NoUpdate],
         UNCHANGED <<products, orders, raced>>,
         talpa'.orders = talpa.orders /\ talpa'.renewals = talpa.renewals,
         talpa'.renewing = talpa.renewing,
         \A i \in Ids : talpa.products[i].entity # None =>
            talpa'.products[i].entity = talpa.products[i].entity
  PROVE  RequestsInv' /\ SaleInv'
<1>1. /\ updates'[r].product = None
      /\ \A s \in Requests \ {r} : updates'[s] = updates[s]
  BY NoUpdateType DEF SoldInv, IInv, CatalogTypeOK
<1>2. \A s \in Requests, a \in Products : updates'[s].product = a =>
        s # r /\ updates[s].product = a /\ updates'[s] = updates[s]
  BY <1>1, NoneIsNothing
<1>3. RequestsInv'
  BY <1>2 DEF SoldInv, RequestsInv, Writes
<1>4. PICK b \in Products : b = updates[r].product
  BY UpdateProducts DEF SoldInv
<1>5. CatalogStep(b)
  BY <1>2 DEF CatalogStep, HasId
<1> QED
  BY <1>3, <1>5, CatalogStepInv

(* A product is written that no request is about, or whose id and state stay, or that is *)
(* deleted.                                                                              *)
LEMMA ProductWrittenSold ==
  ASSUME SoldInv, NEW a \in Products, UNCHANGED <<updates, orders, raced>>,
         \A b \in Products \ {a} : products'[b] = products[b],
         products'[a].state # "SAVED" => products'[a].id = None,
         \/ products[a].state = "NONE"
         \/ products'[a].id = products[a].id /\ products'[a].state = products[a].state
         \/ products'[a].state = "GONE" /\ ~HasItems(a),
         talpa'.orders = talpa.orders /\ talpa'.renewals = talpa.renewals,
         talpa'.renewing = talpa.renewing,
         \A i \in Ids : talpa.products[i].entity # None =>
            talpa'.products[i].entity = talpa.products[i].entity
  PROVE  RequestsInv' /\ SaleInv'
<1>1. ASSUME NEW r \in Requests, NEW b \in Products, updates[r].product = b PROVE Writes(r, b)'
  <2>1. Writes(r, b)
    BY <1>1 DEF SoldInv, RequestsInv
  <2>2. CASE b # a
    BY <2>1, <2>2 DEF Writes
  <2>3. CASE b = a
    BY <1>1, <2>1, <2>3 DEF Writes
  <2> QED
    BY <2>2, <2>3
<1>2. RequestsInv'
  BY <1>1 DEF SoldInv, RequestsInv
<1>3. \A i \in Ids : HasId(a, i) => HasId(a, i)'
  <2>1. CASE products[a].state = "NONE"
    <3>1. products[a].id = None
      BY <2>1 DEF SoldInv, RequestsInv
    <3> QED
      BY <2>1, <3>1, NoneIsNothing DEF HasId
  <2>2. CASE products[a].state # "NONE"
    BY <2>2 DEF HasId
  <2> QED
    BY <2>1, <2>2
<1>4. HasItems(a) /\ products[a].state = "SAVED" => products'[a].state = "SAVED"
  OBVIOUS
<1>5. CatalogStep(a)
  BY <1>3, <1>4 DEF CatalogStep
<1> QED
  BY <1>2, <1>5, CatalogStepInv

LEMMA CreateProductSold ==
  ASSUME SoldInv, NEW a \in Products, NEW k \in Accountings, NEW offer \in Offers,
         CreateProduct(a, k, offer)
  PROVE  RequestsInv' /\ SaleInv'
<1> DEFINE new == [NoRow EXCEPT !.state = "SAVED", !.offer = offer]
<1>1. new \in ProductRow /\ new.id = None /\ new.state = "SAVED"
  BY DEF NoRow, ProductRow
<1> HIDE DEF new
<1>2. PICK made \in CreatesProduct(new, a, talpa.products) :
        LET row == [made.row EXCEPT !.accounting = k]
            sent == SendsAccounting(row, DefaultAccounting, made.talpa)
        IN  \/ /\ products' = [products EXCEPT ![a] = row]
               /\ talpa' = [talpa EXCEPT !.products = sent]
            \/ /\ products' = [products EXCEPT ![a].state = "GONE"]
               /\ \E t \in {made.talpa, sent} : talpa' = [talpa EXCEPT !.products = t]
  BY DEF CreateProduct, new
<1>3. UNCHANGED <<updates, orders, raced>> /\ products[a].state = "NONE"
  BY DEF CreateProduct, history, IsNextKey, Products
<1>4. /\ made.row \in ProductRow /\ made.talpa \in [Ids -> ProductAtTalpa]
      /\ \A i \in Ids : talpa.products[i].entity # None => made.talpa[i] = talpa.products[i]
  BY <1>1, CreatesProductKeeps DEF SoldInv, IInv, CatalogTypeOK
<1>5. made.row.state = "SAVED"
  BY <1>1 DEF CreatesProduct, Created, ProductRow
<1> DEFINE row == [made.row EXCEPT !.accounting = k]
           sent == SendsAccounting(row, DefaultAccounting, made.talpa)
<1>6. row \in ProductRow /\ row.state = "SAVED"
  BY <1>4, <1>5 DEF ProductRow
<1>7. \A i \in Ids : sent[i].entity = made.talpa[i].entity
  <2> HIDE DEF row
  <2> QED
    BY <1>4, <1>6, SendsAccountingKeeps, NoneIsNothing
<1> HIDE DEF row, sent
<1>8. \E t \in {made.talpa, sent} : talpa' = [talpa EXCEPT !.products = t]
  BY <1>2 DEF row, sent
<1>9. /\ talpa'.orders = talpa.orders /\ talpa'.renewals = talpa.renewals
      /\ talpa'.renewing = talpa.renewing
      /\ talpa'.products \in {made.talpa, sent}
  BY <1>8 DEF SoldInv, OrderInv, TalpaType
<1>10. products[a].id = None
  BY <1>3 DEF SoldInv, RequestsInv
<1>11. /\ \A b \in Products \ {a} : products'[b] = products[b]
       /\ products'[a].state = "SAVED" \/ products'[a].id = products[a].id
  BY <1>2, <1>6 DEF row, SoldInv, IInv, CatalogTypeOK, ProductRow
<1>12. \A i \in Ids : talpa.products[i].entity # None =>
        talpa'.products[i].entity = talpa.products[i].entity
  BY <1>4, <1>7, <1>9
<1> QED
  BY <1>3, <1>9, <1>10, <1>11, <1>12, ProductWrittenSold

LEMMA EditsSold ==
  ASSUME SoldInv, NEW a \in Products
  PROVE  /\ DeleteProduct(a) => RequestsInv' /\ SaleInv'
         /\ \A offer \in Offers : AddProduct(a, offer) => RequestsInv' /\ SaleInv'
         /\ \A offer \in Offers, k \in Accountings \cup {None} :
                EditProduct(a, offer, k) => RequestsInv' /\ SaleInv'
<1>1. products \in [Products -> ProductRow]
  BY DEF SoldInv, IInv, CatalogTypeOK
<1>2. ASSUME DeleteProduct(a) PROVE RequestsInv' /\ SaleInv'
  <2> DEFINE row == [NoRow EXCEPT !.state = "GONE"]
  <2>1. row.id = None /\ row.state = "GONE"
    BY DEF NoRow
  <2>2. /\ products' = [products EXCEPT ![a] = row] /\ ~HasItems(a)
        /\ UNCHANGED <<updates, orders, talpa, raced>>
    BY <1>2 DEF DeleteProduct, history
  <2> HIDE DEF row
  <2>3. products'[a] = row /\ \A b \in Products \ {a} : products'[b] = products[b]
    BY <1>1, <2>2
  <2> QED
    BY <2>1, <2>2, <2>3, ProductWrittenSold
<1>3. ASSUME NEW offer \in Offers, AddProduct(a, offer) PROVE RequestsInv' /\ SaleInv'
  <2> DEFINE row == [NoRow EXCEPT !.state = "SAVED", !.offer = offer]
  <2>1. row.id = None
    BY DEF NoRow
  <2>2. /\ products' = [products EXCEPT ![a] = row] /\ products[a].state = "NONE"
        /\ UNCHANGED <<updates, orders, talpa, raced>>
    BY <1>3 DEF AddProduct, history, IsNextKey, Products
  <2> HIDE DEF row
  <2>3. products'[a] = row /\ \A b \in Products \ {a} : products'[b] = products[b]
    BY <1>1, <2>2
  <2> QED
    BY <2>1, <2>2, <2>3, ProductWrittenSold
<1>4. ASSUME NEW offer \in Offers, NEW k \in Accountings \cup {None}, EditProduct(a, offer, k)
      PROVE  RequestsInv' /\ SaleInv'
  <2> DEFINE row == [products[a] EXCEPT !.offer = offer, !.accounting = k]
  <2>1. row.id = products[a].id /\ row.state = products[a].state
    BY <1>1 DEF ProductRow
  <2>2. products' = [products EXCEPT ![a] = row] /\ UNCHANGED <<updates, orders, talpa, raced>>
    BY <1>4 DEF EditProduct
  <2> HIDE DEF row
  <2>3. products'[a] = row /\ \A b \in Products \ {a} : products'[b] = products[b]
    BY <1>1, <2>2
  <2>4. products'[a].state # "SAVED" => products'[a].id = None
    BY <2>1, <2>3 DEF SoldInv, RequestsInv
  <2> QED
    BY <2>1, <2>2, <2>3, <2>4, ProductWrittenSold
<1> QED
  BY <1>2, <1>3, <1>4

LEMMA ReadProductSold ==
  ASSUME SoldInv, NEW r \in Requests, NEW a \in Products, ReadProduct(r, a)
  PROVE  RequestsInv' /\ SaleInv'
<1> DEFINE new == [product |-> a, row |-> products[a], content |-> None, sent |-> FALSE]
<1>1. /\ products[a].state = "SAVED" /\ updates' = [updates EXCEPT ![r] = new]
      /\ raced' = IF \E s \in Requests : updates[s].product = a THEN raced \union {a} ELSE raced
      /\ updates[r] = NoUpdate
      /\ UNCHANGED <<products, orders, talpa>>
  BY DEF ReadProduct, IsOpen
<1>2. new.product = a /\ new.row = products[a]
  OBVIOUS
<1> HIDE DEF new
<1>3. updates'[r] = new /\ \A s \in Requests \ {r} : updates'[s] = updates[s]
  BY <1>1 DEF SoldInv, IInv, CatalogTypeOK
<1>4. a \notin raced' => \A s \in Requests : updates'[s].product = a => s = r
  BY <1>1, <1>3
<1>5. ASSUME NEW s \in Requests, NEW b \in Products, updates'[s].product = b PROVE Writes(s, b)'
  <2>1. CASE s = r
    <3>1. b = a
      BY <1>2, <1>3, <1>5, <2>1
    <3> QED
      BY <1>1, <1>2, <1>3, <1>4, <2>1, <3>1 DEF Writes
  <2>2. CASE s # r
    <3>1. updates'[s] = updates[s] /\ Writes(s, b)
      BY <1>3, <1>5, <2>2 DEF SoldInv, RequestsInv
    <3>2. b \notin raced' => a # b /\ b \notin raced
      BY <1>1, <1>5, <3>1
    <3> QED
      BY <1>1, <1>2, <1>3, <3>1, <3>2 DEF Writes
  <2> QED
    BY <2>1, <2>2
<1>6. RequestsInv'
  BY <1>1, <1>5 DEF SoldInv, RequestsInv
<1>7. \A i \in Ids : a \notin raced' /\ HasId(a, i) => HasId(a, i)'
  BY <1>1, <1>2, <1>3, <1>4 DEF HasId
<1>8. CatalogStep(a)
  BY <1>1, <1>2, <1>3, <1>7 DEF CatalogStep
<1> QED
  BY <1>6, <1>8, CatalogStepInv

LEMMA SendProductSold ==
  ASSUME SoldInv, NEW r \in Requests, NEW offer \in Offers, SendProduct(r, offer)
  PROVE  RequestsInv' /\ SaleInv'
<1>0. updates[r].product \in Products /\ updates[r] # NoUpdate
  BY UpdateProducts DEF SendProduct, IsOpen, SoldInv
<1> PICK a \in Products : a = updates[r].product
  BY <1>0
<1> DEFINE read == updates[r].row
           row == [read EXCEPT !.offer = offer]
           content == IF row.accounting = None THEN None ELSE accountings[row.accounting]
<1>1. /\ updates[r] \in Update /\ read \in ProductRow
      /\ Writes(r, a)
      /\ UNCHANGED <<products, orders, raced>>
  BY UpdateProducts DEF SendProduct, IsOpen, SoldInv, RequestsInv
<1>2. row \in ProductRow /\ row.id = read.id /\ row.state = read.state
  BY <1>1 DEF ProductRow
<1>3. PICK made \in CreatesProduct(row, a, talpa.products) :
        \/ /\ updates' = [updates EXCEPT ![r].row = made.row, ![r].content = content,
                                         ![r].sent = TRUE]
           /\ talpa' = [talpa EXCEPT !.products = SendsAccounting(made.row, content, made.talpa)]
        \/ /\ updates' = [updates EXCEPT ![r] = NoUpdate]
           /\ talpa' = [talpa EXCEPT !.products = made.talpa]
  BY DEF SendProduct
<1>4. content \in Contents \cup {None}
  BY <1>2 DEF SoldInv, IInv, CatalogTypeOK, ProductRow
<1> HIDE DEF row, content
<1>5. row.id # None => talpa.products[row.id].entity = a
  BY <1>2 DEF SoldInv, IInv, IdsAgree
<1>6. /\ made.row \in ProductRow /\ made.talpa \in [Ids -> ProductAtTalpa]
      /\ \A i \in Ids : talpa.products[i].entity # None => made.talpa[i] = talpa.products[i]
      /\ row.id # None => made.row.id = row.id
  BY <1>1, <1>2, <1>5, CreatesProductKeeps DEF SoldInv, IInv, CatalogTypeOK
<1>7. made.row.state = row.state
  BY <1>2 DEF CreatesProduct, Created, ProductRow
<1>8. \A i \in Ids : SendsAccounting(made.row, content, made.talpa)[i].entity = made.talpa[i].entity
  BY <1>4, <1>6, SendsAccountingKeeps
<1>9. /\ talpa'.orders = talpa.orders /\ talpa'.renewals = talpa.renewals
      /\ talpa'.renewing = talpa.renewing
      /\ talpa'.products \in {made.talpa, SendsAccounting(made.row, content, made.talpa)}
  BY <1>3 DEF SoldInv, OrderInv, TalpaType
<1>10. \A i \in Ids : talpa.products[i].entity # None =>
        talpa'.products[i].entity = talpa.products[i].entity
  BY <1>6, <1>8, <1>9
<1>11. CASE updates' = [updates EXCEPT ![r].row = made.row, ![r].content = content, ![r].sent = TRUE]
  <2>1. /\ updates'[r].row = made.row /\ updates'[r].product = a
        /\ \A s \in Requests \ {r} : updates'[s] = updates[s]
    BY <1>0, <1>1, <1>11, NoUpdateType, NoneIsNothing DEF SoldInv, IInv, CatalogTypeOK, Update, OpenUpdate
  <2>2. \A q \in Requests : updates'[q].product = updates[q].product
    BY <2>1
  <2>3. ASSUME NEW s \in Requests, NEW b \in Products, updates'[s].product = b PROVE Writes(s, b)'
    <3>1. updates[s].product = b /\ Writes(s, b)
      BY <2>2, <2>3 DEF SoldInv, RequestsInv
    <3>2. CASE s # r
      BY <1>1, <2>1, <2>2, <3>1, <3>2 DEF Writes
    <3>3. CASE s = r
      <4>1. b = a /\ made.row.state = "SAVED"
        BY <1>1, <1>2, <1>7, <2>1, <2>3, <3>3 DEF Writes
      <4>2. products[a].id # None /\ a \notin raced => made.row.id = products[a].id
        BY <1>1, <1>2, <1>6 DEF Writes
      <4> QED
        BY <1>1, <2>1, <2>2, <3>1, <3>3, <4>1, <4>2 DEF Writes
    <3> QED
      BY <3>2, <3>3
  <2>4. RequestsInv'
    BY <1>1, <2>3 DEF SoldInv, RequestsInv
  <2>5. ASSUME NEW i \in Ids, HasId(a, i) PROVE HasId(a, i)'
    <3>1. updates'[r].row.id = i
      BY <1>2, <1>6, <2>1, <2>2, <2>5, NoneIsNothing DEF HasId
    <3> QED
      BY <1>1, <2>1, <2>2, <2>5, <3>1 DEF HasId
  <2>6. CatalogStep(a)
    BY <1>1, <1>9, <1>10, <2>1, <2>2, <2>5 DEF CatalogStep
  <2> QED
    BY <1>1, <2>4, <2>6, CatalogStepInv
<1>12. CASE updates' = [updates EXCEPT ![r] = NoUpdate]
  BY <1>0, <1>1, <1>9, <1>10, <1>12, RequestEndedSold
<1> QED
  BY <1>3, <1>11, <1>12

LEMMA CommitUpdateSold ==
  ASSUME SoldInv, NEW r \in Requests, CommitUpdate(r)
  PROVE  RequestsInv' /\ SaleInv'
<1>0. updates[r].product \in Products
  BY UpdateProducts, NoUpdateType DEF CommitUpdate, SoldInv
<1> PICK a \in Products : a = updates[r].product
  BY <1>0
<1> DEFINE row == updates[r].row
<1>1. /\ updates[r].sent
      /\ products' = [products EXCEPT ![a] = row]
      /\ updates' = [updates EXCEPT ![r] = NoUpdate]
      /\ UNCHANGED <<orders, talpa, raced>>
  BY DEF CommitUpdate
<1>2. Writes(r, a)
  BY DEF SoldInv, RequestsInv
<1>3. row.state = "SAVED" /\ (a \in raced \/ products[a].id \in {None, row.id})
  BY <1>2 DEF Writes
<1>4. products'[a] = row /\ \A b \in Products \ {a} : products'[b] = products[b]
  BY <1>1, <1>2 DEF SoldInv, IInv, CatalogTypeOK
<1>5. updates'[r].product = None /\ \A s \in Requests \ {r} : updates'[s] = updates[s]
  BY <1>1, NoUpdateType DEF SoldInv, IInv, CatalogTypeOK
<1>6. \A s \in Requests, b \in Products : updates'[s].product = b => s # r /\ updates'[s] = updates[s]
  BY <1>5, NoneIsNothing
<1>7. ASSUME NEW s \in Requests, NEW b \in Products, updates'[s].product = b PROVE Writes(s, b)'
  <2>1. s # r /\ updates[s].product = b /\ updates'[s] = updates[s] /\ Writes(s, b)
    BY <1>6, <1>7 DEF SoldInv, RequestsInv
  <2>2. CASE b = a
    <3>1. a \in raced
      BY <1>2, <2>1, <2>2 DEF Writes
    <3> QED
      BY <1>1, <1>3, <1>4, <2>1, <2>2, <3>1 DEF Writes
  <2>3. CASE b # a
    BY <1>1, <1>4, <1>6, <2>1, <2>3 DEF Writes
  <2> QED
    BY <2>2, <2>3
<1>8. ASSUME NEW i \in Ids, HasId(a, i) PROVE HasId(a, i)'
  <2>1. row.id = i
    BY <1>8 DEF HasId
  <2> QED
    BY <1>2, <1>4, <1>6, <1>8, <2>1 DEF HasId
<1> HIDE DEF row
<1>9. RequestsInv'
  BY <1>2, <1>3, <1>4, <1>7 DEF SoldInv, RequestsInv
<1>10. CatalogStep(a)
  BY <1>1, <1>2, <1>3, <1>4, <1>6, <1>8 DEF CatalogStep
<1> QED
  BY <1>2, <1>9, <1>10, CatalogStepInv

(* The purchase and the renewals: the catalog stays. *)
LEMMA KeptStays ==
  ASSUME UNCHANGED <<rows, raced>>, talpa'.products = talpa.products
  PROVE  \A i \in Ids : Kept(i)' <=> Kept(i)
BY DEF Kept, HasId, rows

(* An id of the application is that of the product it belongs to. *)
LEMMA IdsOfRows ==
  ASSUME SoldInv, NEW a \in Products, products[a].id # None
  PROVE  /\ products[a].id \in Ids /\ talpa.products[products[a].id].entity = a
         /\ Kept(products[a].id)
<1>1. products[a].id \in Ids /\ talpa.products[products[a].id].entity = a
  BY DEF SoldInv, IInv, CatalogTypeOK, ProductRow, IdsAgree
<1>2. a \notin raced => \A r \in Requests : updates[r].product = a => updates[r].row.id = products[a].id
  BY DEF SoldInv, RequestsInv, Writes
<1> QED
  BY <1>1, <1>2 DEF Kept, HasId

LEMMA BeginCheckoutSold ==
  ASSUME SoldInv, NEW a \in Products, BeginCheckout(a)
  PROVE  SaleInv'
<1>1. /\ checkout = NoCheckout /\ Drafts # {}
      /\ checkout' = [product |-> a, order |-> None]
      /\ UNCHANGED <<rows, permits, items, talpa, raced>>
  BY DEF BeginCheckout, history
<1>2. checkout'.product = a /\ checkout'.order = None
  BY <1>1
<1>3. NothingSold
  BY <1>1 DEF SoldInv, SaleInv, AllSold, Drafts
<1>4. SoldTypeOK' /\ NothingSold' /\ ItemsAreSaved'
  BY <1>1, <1>3 DEF SoldInv, SaleInv, SoldTypeOK, NothingSold, ItemsAreSaved, rows
<1>5. OrdersAtTalpa' /\ OrderIsOf'
  BY <1>1, <1>2, NoOrderIsNone DEF SoldInv, SaleInv, OrdersAtTalpa, OrderIsOf
<1>6. SoldIsKept'
  BY <1>1, KeptStays DEF SoldInv, SaleInv, SoldIsKept, IsSold
<1> QED
  BY <1>4, <1>5, <1>6 DEF SaleInv

LEMMA SendToTalpaSold ==
  ASSUME SoldInv, NEW o \in Orders, SendToTalpa(o)
  PROVE  SaleInv'
<1>1. checkout.product \in Products
  BY DEF SendToTalpa, SoldInv, OrderInv, OrdersType
<1> PICK a \in Products : a = checkout.product
  BY <1>1
<1>2. /\ checkout.order = None /\ products[a].id # None
      /\ talpa' = [talpa EXCEPT !.orders[o] = OrderData(a)]
      /\ checkout' = [checkout EXCEPT !.order = o]
      /\ UNCHANGED <<rows, permits, items, raced>>
  BY DEF SendToTalpa, history
<1>3. checkout'.product = a /\ checkout'.order = o
  BY <1>2 DEF SoldInv, OrderInv, OrdersType
<1>4. /\ talpa'.orders = [talpa.orders EXCEPT ![o] = OrderData(a)]
      /\ talpa'.renewals = talpa.renewals /\ talpa'.renewing = talpa.renewing
      /\ talpa'.products = talpa.products
  BY <1>2 DEF SoldInv, OrderInv, TalpaType
<1>5. talpa'.orders[o] = OrderData(a) /\ \A n \in Orders \ {o} : talpa'.orders[n] = talpa.orders[n]
  BY <1>4 DEF SoldInv, OrderInv, TalpaType
<1>6. NothingSold /\ NothingSold'
  BY <1>2, <1>4, NoneIsNothing DEF SoldInv, SaleInv, AllSold, NothingSold
<1>7. OrderData(a) # {}
  BY <1>6 DEF SoldInv, SaleInv, SoldTypeOK, NothingSold, OrderData, Drafts
<1>8. \A i \in OrderData(a) : i.id = products[a].id
  BY DEF OrderData, ItemData
<1>9. /\ products[a].id \in Ids /\ talpa.products[products[a].id].entity = a
      /\ Kept(products[a].id)
  BY <1>2, IdsOfRows
<1>10. OrderData(a) \subseteq [permit : Permits, id : Ids]
  BY <1>9 DEF OrderData, ItemData, Drafts
<1>11. SoldTypeOK'
  BY <1>4, <1>10 DEF SoldInv, SaleInv, SoldTypeOK
<1>12. OrdersAtTalpa'
  <2> SUFFICES ASSUME NEW n \in Orders
               PROVE  /\ \A i, j \in talpa'.orders[n] : i.id = j.id
                      /\ items'[n] # None \/ checkout'.order = n => talpa'.orders[n] # {}
    BY DEF OrdersAtTalpa
  <2>1. CASE n = o
    BY <1>5, <1>7, <1>8, <2>1
  <2>2. CASE n # o
    BY <1>2, <1>3, <1>5, <2>2 DEF SoldInv, SaleInv, OrdersAtTalpa
  <2> QED
    BY <2>1, <2>2
<1>13. ItemsAreSaved'
  BY <1>2 DEF SoldInv, SaleInv, ItemsAreSaved, rows
<1>14. OrderIsOf'
  <2> SUFFICES ASSUME NEW n \in Orders, NEW i \in talpa'.orders[n]
               PROVE  /\ items'[n] \in {None, talpa'.products[i.id].entity}
                      /\ checkout'.order = n => talpa'.products[i.id].entity = checkout'.product
    BY DEF OrderIsOf
  <2>1. items'[n] = None
    BY <1>6 DEF NothingSold
  <2>2. CASE n = o
    BY <1>3, <1>4, <1>5, <1>8, <1>9, <2>1, <2>2
  <2>3. CASE n # o
    BY <1>3, <2>1, <2>3
  <2> QED
    BY <2>2, <2>3
<1>15. SoldIsKept'
  <2> SUFFICES ASSUME NEW i \in Ids, IsSold(i)' PROVE Kept(i)
    BY <1>2, <1>4, KeptStays DEF SoldIsKept
  <2>1. IsSold(i) \/ i = products[a].id
    BY <1>4, <1>5, <1>8 DEF IsSold
  <2> QED
    BY <1>9, <2>1 DEF SoldInv, SaleInv, SoldIsKept
<1> QED
  BY <1>6, <1>11, <1>12, <1>13, <1>14, <1>15 DEF SaleInv

LEMMA CommitCheckoutSold ==
  ASSUME SoldInv, CommitCheckout
  PROVE  SaleInv'
<1>0. checkout.order \in Orders /\ checkout.product \in Products
  BY DEF CommitCheckout, SoldInv, OrderInv, OrdersType
<1> PICK o \in Orders, a \in Products : o = checkout.order /\ a = checkout.product
  BY <1>0
<1>1. /\ permits' = InPayment(Drafts) /\ products[a].state = "SAVED"
      /\ items' = [items EXCEPT ![o] = a]
      /\ checkout' = NoCheckout
      /\ UNCHANGED <<rows, talpa, raced>>
  BY DEF CommitCheckout, history
<1>2. checkout'.product = None /\ checkout'.order = None
  BY <1>1 DEF NoCheckout
<1>3. NothingSold
  BY NoOrderIsNone DEF SoldInv, SaleInv, AllSold
<1>4. items'[o] = a /\ \A n \in Orders \ {o} : items'[n] = None
  BY <1>1, <1>3 DEF SoldInv, OrderInv, OrdersType, NothingSold
<1>5. \A p \in Permits : permits'[p].status # "DRAFT"
  BY <1>1, <1>3 DEF InPayment, Drafts, NothingSold, SoldInv, OrderInv, PermitsType, PermitRow
<1>6. AllSold'
  BY <1>2, <1>5 DEF AllSold
<1>7. SoldTypeOK'
  BY <1>1 DEF SoldInv, SaleInv, SoldTypeOK
<1>8. OrdersAtTalpa'
  BY <1>1, <1>2, <1>4, NoOrderIsNone DEF SoldInv, SaleInv, OrdersAtTalpa
<1>9. ItemsAreSaved'
  BY <1>1, <1>4, NoOrderIsNone DEF ItemsAreSaved, rows
<1>10. OrderIsOf'
  BY <1>1, <1>2, <1>4, NoOrderIsNone DEF SoldInv, SaleInv, OrderIsOf
<1>11. SoldIsKept'
  BY <1>1, KeptStays DEF SoldInv, SaleInv, SoldIsKept, IsSold
<1> QED
  BY <1>6, <1>7, <1>8, <1>9, <1>10, <1>11 DEF SaleInv

(* Steps after which no more is stored, sent or renewed than before. *)
LEMMA SaleUntouched ==
  ASSUME SoldInv, UNCHANGED <<rows, items, talpa, raced>>,
         checkout' = checkout \/ checkout' = NoCheckout,
         \A p \in Permits : (permits'[p].status = "DRAFT") <=> (permits[p].status = "DRAFT")
  PROVE  SaleInv'
<1>1. checkout'.product \in {None, checkout.product}
      /\ (checkout'.order = None \/ checkout' = checkout)
  BY DEF NoCheckout
<1>2. SoldTypeOK' /\ ItemsAreSaved'
  BY DEF SoldInv, SaleInv, SoldTypeOK, ItemsAreSaved, rows
<1>3. (NothingSold \/ AllSold)'
  BY <1>1 DEF SoldInv, SaleInv, NothingSold, AllSold
<1>4. OrdersAtTalpa' /\ OrderIsOf'
  BY <1>1, NoOrderIsNone DEF SoldInv, SaleInv, OrdersAtTalpa, OrderIsOf
<1>5. SoldIsKept'
  BY KeptStays DEF SoldInv, SaleInv, SoldIsKept, IsSold
<1> QED
  BY <1>2, <1>3, <1>4, <1>5 DEF SaleInv

LEMMA PermitsMoveSold ==
  ASSUME SoldInv
  PROVE  /\ FailCheckout => SaleInv'
         /\ MonthPasses => SaleInv'
         /\ \A o \in Orders : PaymentPaid(o) => SaleInv'
         /\ \A p \in Permits : EndPermit(p) => SaleInv'
         /\ \A z \in Zones : ChangeAddress(z) => SaleInv'
<1>1. ASSUME FailCheckout \/ MonthPasses PROVE SaleInv'
  BY <1>1, SaleUntouched DEF FailCheckout, MonthPasses, orders, history
<1>2. ASSUME NEW o \in Orders, PaymentPaid(o) PROVE SaleInv'
  <2>1. /\ items[o] # None
        /\ permits' = [p \in Permits |-> IF p \in PermitsOf(o) THEN [permits[p] EXCEPT !.status = "VALID"]
                                                            ELSE permits[p]]
        /\ UNCHANGED <<rows, items, checkout, talpa, raced>>
    BY <1>2 DEF PaymentPaid, history
  <2>2. \A p \in Permits : permits[p].status # "DRAFT"
    BY <2>1 DEF SoldInv, SaleInv, NothingSold, AllSold
  <2>3. \A p \in Permits : permits'[p].status # "DRAFT"
    BY <2>1, <2>2 DEF SoldInv, OrderInv, PermitsType, PermitRow
  <2> QED
    BY <2>1, <2>2, <2>3, SaleUntouched
<1>3. ASSUME NEW p \in Permits, EndPermit(p) PROVE SaleInv'
  <2>1. /\ permits[p].status = "VALID" /\ permits' = [permits EXCEPT ![p].status = "CLOSED"]
        /\ UNCHANGED <<rows, items, checkout, talpa, raced>>
    BY <1>3 DEF EndPermit, history
  <2>2. \A q \in Permits : (permits'[q].status = "DRAFT") <=> (permits[q].status = "DRAFT")
    BY <2>1 DEF SoldInv, OrderInv, PermitsType, PermitRow
  <2> QED
    BY <2>1, <2>2, SaleUntouched
<1>4. ASSUME NEW z \in Zones, ChangeAddress(z) PROVE SaleInv'
  <2>1. /\ permits' = [p \in Permits |-> IF p \in Active THEN [permits[p] EXCEPT !.zone = z]
                                                        ELSE permits[p]]
        /\ UNCHANGED <<rows, items, checkout, talpa, raced>>
    BY <1>4 DEF ChangeAddress, history
  <2>2. \A q \in Permits : permits'[q].status = permits[q].status
    BY <2>1 DEF SoldInv, OrderInv, PermitsType, PermitRow
  <2> QED
    BY <2>1, <2>2, SaleUntouched
<1> QED
  BY <1>1, <1>2, <1>3, <1>4

LEMMA ResolveProductSold ==
  ASSUME SoldInv, NEW p \in Permits, ResolveProduct(p)
  PROVE  SaleInv'
<1>1. /\ permits[p].status \in {"VALID", "CLOSED"}
      /\ permits' = [permits EXCEPT ![p].primary = @ \/ Active \ {p} = {}]
      /\ UNCHANGED <<rows, items, checkout, raced>>
  BY DEF ResolveProduct, history
<1>2. \A q \in Permits : permits'[q].status = permits[q].status
  BY <1>1 DEF SoldInv, OrderInv, PermitsType, PermitRow
<1>3. CASE UNCHANGED talpa
  BY <1>1, <1>2, <1>3, SaleUntouched
<1>4. CASE ~UNCHANGED talpa
  <2>1. PICK a \in Products : talpa' = [talpa EXCEPT !.renewing[p] = products[a].id]
    BY <1>4 DEF ResolveProduct
  <2>2. /\ talpa'.orders = talpa.orders /\ talpa'.renewals = talpa.renewals
        /\ talpa'.products = talpa.products
        /\ talpa'.renewing = [talpa.renewing EXCEPT ![p] = products[a].id]
    BY <2>1 DEF SoldInv, OrderInv, TalpaType
  <2>3. products[a].id # None => products[a].id \in Ids /\ Kept(products[a].id)
    BY IdsOfRows
  <2>4. SoldTypeOK'
    BY <2>2, <2>3 DEF SoldInv, SaleInv, SoldTypeOK
  <2>5. AllSold'
    BY <1>1, <1>2 DEF AllSold, SoldInv, SaleInv, NothingSold
  <2>6. OrdersAtTalpa' /\ ItemsAreSaved'
    BY <1>1, <2>2 DEF SoldInv, SaleInv, OrdersAtTalpa, ItemsAreSaved, rows
  <2>7. OrderIsOf'
    BY <1>1, <2>2 DEF SoldInv, SaleInv, OrderIsOf
  <2>8. SoldIsKept'
    <3> SUFFICES ASSUME NEW i \in Ids, IsSold(i)' PROVE Kept(i)
      BY <1>1, <2>2, KeptStays DEF SoldIsKept
    <3>1. IsSold(i) \/ i = products[a].id
      BY <2>2 DEF IsSold, SoldInv, SaleInv, SoldTypeOK
    <3> QED
      BY <2>3, <3>1, NoneIsNothing DEF SoldInv, SaleInv, SoldIsKept
  <2> QED
    BY <2>4, <2>5, <2>6, <2>7, <2>8 DEF SaleInv
<1> QED
  BY <1>3, <1>4

LEMMA ResolvePriceSold ==
  ASSUME SoldInv, NEW p \in Permits, NEW o \in Orders, ResolvePrice(p, o)
  PROVE  SaleInv'
<1> PICK id : id = talpa.renewing[p]
  OBVIOUS
<1> DEFINE item == [permit |-> p, id |-> id]
<1>1. /\ id # None
      /\ talpa' = [talpa EXCEPT !.renewing[p] = None, !.renewals = @ \union {o}, !.orders[o] = {item}]
      /\ UNCHANGED <<rows, permits, items, checkout, raced>>
  BY DEF ResolvePrice, orders, history
<1>2. talpa.orders[o] = {}
  BY CatalogAssumption DEF ResolvePrice, IsNextOrder, Orders
<1>3. id \in Ids
  BY <1>1 DEF SoldInv, SaleInv, SoldTypeOK
<1>4. item \in [permit : Permits, id : Ids] /\ item.id = id
  BY <1>3
<1> HIDE DEF item
<1>5. AllSold
  BY <1>1 DEF SoldInv, SaleInv, NothingSold
<1>6. /\ talpa'.orders = [talpa.orders EXCEPT ![o] = {item}]
      /\ talpa'.products = talpa.products
      /\ talpa'.renewing = [talpa.renewing EXCEPT ![p] = None]
  BY <1>1 DEF SoldInv, OrderInv, TalpaType
<1>7. talpa'.orders[o] = {item} /\ \A n \in Orders \ {o} : talpa'.orders[n] = talpa.orders[n]
  BY <1>6 DEF SoldInv, OrderInv, TalpaType
<1>8. items[o] = None /\ checkout.order # o
  BY <1>2 DEF SoldInv, SaleInv, OrdersAtTalpa
<1>9. SoldTypeOK'
  BY <1>4, <1>6 DEF SoldInv, SaleInv, SoldTypeOK
<1>10. AllSold' /\ ItemsAreSaved'
  BY <1>1, <1>5 DEF AllSold, SoldInv, SaleInv, ItemsAreSaved, rows
<1>11. OrdersAtTalpa' /\ OrderIsOf'
  <2> SUFFICES ASSUME NEW n \in Orders
               PROVE  /\ \A i, j \in talpa'.orders[n] : i.id = j.id
                      /\ items'[n] # None \/ checkout'.order = n => talpa'.orders[n] # {}
                      /\ \A i \in talpa'.orders[n] :
                            /\ items'[n] \in {None, talpa'.products[i.id].entity}
                            /\ checkout'.order = n => talpa'.products[i.id].entity = checkout'.product
    BY DEF OrdersAtTalpa, OrderIsOf
  <2>1. CASE n = o
    BY <1>1, <1>7, <1>8, <2>1
  <2>2. CASE n # o
    BY <1>1, <1>6, <1>7, <2>2 DEF SoldInv, SaleInv, OrdersAtTalpa, OrderIsOf
  <2> QED
    BY <2>1, <2>2
<1>12. SoldIsKept'
  <2> SUFFICES ASSUME NEW i \in Ids, IsSold(i)' PROVE Kept(i)
    BY <1>1, <1>6, KeptStays DEF SoldIsKept
  <2>1. IsSold(i)
    <3>1. CASE \E n \in Orders : \E j \in talpa'.orders[n] : j.id = i
      BY <1>4, <1>7, <3>1 DEF IsSold
    <3>2. CASE \E q \in Permits : talpa'.renewing[q] = i
      BY <1>6, <3>2, NoneIsNothing DEF IsSold, SoldInv, SaleInv, SoldTypeOK
    <3> QED
      BY <3>1, <3>2 DEF IsSold
  <2> QED
    BY <2>1 DEF SoldInv, SaleInv, SoldIsKept
<1> QED
  BY <1>9, <1>10, <1>11, <1>12 DEF SaleInv

LEMMA RenewalOrderCreatedSold ==
  ASSUME SoldInv, NEW o \in Orders, NEW a \in Products, RenewalOrderCreated(o, a)
  PROVE  SaleInv'
<1>1. /\ o \in talpa.renewals /\ products[a].state = "SAVED"
      /\ items' = [items EXCEPT ![o] = a]
      /\ UNCHANGED <<rows, permits, checkout, talpa, raced>>
  BY DEF RenewalOrderCreated, history
<1>2. PICK i \in talpa.orders[o] : products[a].id = i.id
  BY DEF RenewalOrderCreated
<1>3. i.id \in Ids /\ products[a].id # None
  BY <1>2, NoneIsNothing DEF SoldInv, SaleInv, SoldTypeOK
<1>4. talpa.products[i.id].entity = a
  BY <1>2, <1>3, IdsOfRows
<1>5. items'[o] = a /\ \A n \in Orders \ {o} : items'[n] = items[n]
  BY <1>1 DEF SoldInv, OrderInv, OrdersType
<1>6. AllSold /\ AllSold'
  BY <1>1 DEF SoldInv, SaleInv, NothingSold, AllSold
<1>7. SoldTypeOK'
  BY <1>1 DEF SoldInv, SaleInv, SoldTypeOK
<1>8. OrdersAtTalpa'
  BY <1>1, <1>2, <1>5 DEF SoldInv, SaleInv, OrdersAtTalpa
<1>9. ItemsAreSaved'
  BY <1>1, <1>5 DEF SoldInv, SaleInv, ItemsAreSaved, rows
<1>10. checkout.order = None
  BY <1>6, NoneIsNothing DEF AllSold, SoldInv, OrderInv, OrdersType
<1>11. OrderIsOf'
  <2> SUFFICES ASSUME NEW n \in Orders, NEW j \in talpa.orders[n]
               PROVE  items'[n] \in {None, talpa.products[j.id].entity}
    BY <1>1, <1>10, NoOrderIsNone DEF OrderIsOf
  <2>1. CASE n = o
    <3>1. j.id = i.id
      BY <1>2, <2>1 DEF SoldInv, SaleInv, OrdersAtTalpa
    <3> QED
      BY <1>4, <1>5, <2>1, <3>1
  <2>2. CASE n # o
    BY <1>5, <2>2 DEF SoldInv, SaleInv, OrderIsOf
  <2> QED
    BY <2>1, <2>2
<1>12. SoldIsKept'
  BY <1>1, KeptStays DEF SoldInv, SaleInv, SoldIsKept, IsSold
<1> QED
  BY <1>6, <1>7, <1>8, <1>9, <1>11, <1>12 DEF SaleInv

LEMMA NextSoldInv == SoldInv /\ [Next]_vars => SoldInv'
<1> SUFFICES ASSUME SoldInv, [Next]_vars PROVE SoldInv'
  OBVIOUS
<1>1. IInv' /\ OrderInv'
  BY NextInv, NextOrderInv DEF SoldInv
<1>2. ASSUME UNCHANGED <<products, updates, raced>> PROVE RequestsInv'
  BY <1>2, RequestsUntouched DEF SoldInv
<1>3. CASE UNCHANGED vars
  <2>1. UNCHANGED <<rows, items, talpa, raced, checkout, permits>>
    BY <1>3 DEF vars, orders, history
  <2> QED
    BY <1>1, <1>2, <2>1, SaleUntouched DEF SoldInv, rows
<1>4. CASE ProductsNext
  <2>1. ASSUME NEW r \in Requests, FailUpdate(r) PROVE RequestsInv' /\ SaleInv'
    BY <2>1, RequestEndedSold DEF FailUpdate, IsOpen
  <2>2. RequestsInv' /\ SaleInv'
    BY <1>4, <2>1, EditsSold, ReadProductSold, SendProductSold, CommitUpdateSold DEF ProductsNext
  <2> QED
    BY <1>1, <2>2 DEF SoldInv
<1>5. CASE AccountingsNext
  <2>1. ASSUME NEW k \in Accountings, NEW content \in Contents,
               AddAccounting(k, content) \/ EditAccounting(k, content)
        PROVE  RequestsInv' /\ SaleInv'
    <3>1. UNCHANGED <<products, updates, orders, talpa, raced>>
      BY <2>1 DEF AddAccounting, EditAccounting, history
    <3>2. PICK b : b \in Products
      BY CatalogAssumption DEF Products
    <3>3. CatalogStep(b)
      BY <3>1 DEF CatalogStep, HasId
    <3> QED
      BY <1>2, <3>1, <3>2, <3>3, CatalogStepInv
  <2>2. RequestsInv' /\ SaleInv'
    BY <1>5, <2>1, CreateProductSold, EditsSold DEF AccountingsNext
  <2> QED
    BY <1>1, <2>2 DEF SoldInv
<1>6. CASE SalesNext
  <2>1. UNCHANGED <<rows, raced>>
    BY <1>6 DEF SalesNext, MonthPasses, CommitCheckout, FailCheckout, BeginCheckout,
                RenewalOrderCreated, SendToTalpa, PaymentPaid, EndPermit, ChangeAddress,
                ResolveProduct, ResolvePrice, history
  <2>2. SaleInv'
    BY <1>6, PermitsMoveSold, CommitCheckoutSold, BeginCheckoutSold, SendToTalpaSold,
       ResolveProductSold, ResolvePriceSold, RenewalOrderCreatedSold DEF SalesNext
  <2> QED
    BY <1>1, <1>2, <2>1, <2>2 DEF SoldInv, rows
<1> QED
  BY <1>3, <1>4, <1>5, <1>6 DEF Next

(* What is stored of an order is the product that Talpa sold, and a product that was      *)
(* bought keeps the id under which Talpa renews it, unless two requests wrote it at once, *)
(* wherever its permits moved and whatever was sent again, deleted or saved after its     *)
(* deletion: TalpaResolveProduct, resolve_update_product, resolve_delete_product and      *)
(* SUBSCRIPTION_RENEWAL_ORDER_CREATED.                                                    *)
THEOREM SoldProductsAreKnown == Spec => []SoldProductIsKnown
<1>1. SoldInv => SoldProductIsKnown
  <2> SUFFICES ASSUME SoldInv, NEW o \in Orders, NEW i \in talpa.orders[o]
               PROVE  LET a == talpa.products[i.id].entity
                      IN  /\ items[o] \in {None, a}
                          /\ HasItems(a) => a \in raced \/ products[a].id = i.id
    BY DEF SoldProductIsKnown
  <2>1. i.id \in Ids /\ IsSold(i.id)
    BY DEF SoldInv, SaleInv, SoldTypeOK, IsSold
  <2>2. PICK a \in Products : talpa.products[i.id].entity = a /\ (a \in raced \/ HasId(a, i.id))
    BY <2>1 DEF SoldInv, SaleInv, SoldIsKept, Kept
  <2>3. HasItems(a) => products[a].state = "SAVED"
    BY DEF HasItems, SoldInv, SaleInv, ItemsAreSaved
  <2>4. items[o] \in {None, a}
    BY <2>2 DEF SoldInv, SaleInv, OrderIsOf
  <2> QED
    BY <2>2, <2>3, <2>4 DEF HasId
<1> QED
  BY InitSoldInv, NextSoldInv, <1>1, PTL DEF Spec

================================================================================
