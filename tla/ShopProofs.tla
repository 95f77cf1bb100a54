----------------------------- MODULE ShopProofs -----------------------------
(***************************************************************************)
(* Theorems about Shop: the lines of a cart stay within the stock they     *)
(* remember, a SKU has one product, a filling of the cart is ordered once, *)
(* and a deleted product stays deleted.                                    *)
(***************************************************************************)
EXTENDS Shop, FiniteSetTheorems, TLAPS

Seqs == INSTANCE SequenceTheorems

-----------------------------------------------------------------------------
(* The inductive invariant.                                                *)

Partial(S, X) == UNION {[D -> X] : D \in SUBSET S}
Filter == Skus \cup {"all"}

\* What an answered list can name: a product that was created, perhaps deleted since.
Entry == [id : 1..created, stockQty : Stock]
View == [page : Nat \ {0}, filter : Filter, items : Seq(Entry), total : Nat,
         loading : BOOLEAN, error : BOOLEAN, of : [page : Nat, filter : Filter]]
Call == [page : Nat \ {0}, filter : Filter, items : Seq(Entry), total : Nat,
         read : BOOLEAN, counted : BOOLEAN]

\* A create that is not answered yet has a SKU.
SaveRecord == [step : {"none", "sent", "checked", "done", "refused"}, editing : Nat,
               sku : Skus \cup {"none"}, stockQty : Stock, here : BOOLEAN]
Creates(call) == call.step = "checked" \/ (call.step = "sent" /\ call.editing = 0)
Save == {call \in SaveRecord : Creates(call) => call.sku \in Skus}
Form == [open : BOOLEAN, editing : Nat, stockQty : Stock]
Checkout == [phase : {"unused", "abandoned", "done", "failed"} \cup InFlight,
             lines : Partial(1..created, Line), cart : Nat, here : BOOLEAN]

ProductsInv == created \in 0..MaxProducts /\ product \in Partial(1..created, Product)
DraftsInv == save \in [1..MaxSaves -> Save] /\ form \in Form
ListInv == view \in View /\ calls \in Seq(Call)
LinesInv == lines \in Partial(1..created, Line) /\ LinesInBounds
CheckoutsInv == checkout \in [1..MaxCheckouts -> Checkout] /\ cart \in Nat
Bounded == changes \in Nat /\ faults \in Nat /\ changes + faults <= MaxEvents

\* As long as no call failed and no checkout was left alone, the one checkout under way
\* orders the present filling of the cart, and every order that is done an earlier one.
Present ==
    \A k \in 1..MaxCheckouts :
        /\ checkout[k].phase # "abandoned"
        /\ checkout[k].phase \in InFlight => checkout[k].here /\ checkout[k].cart = cart
        /\ checkout[k].phase = "done" => checkout[k].cart < cart
Single ==
    \A j, k \in 1..MaxCheckouts :
        /\ checkout[j].phase \in InFlight /\ checkout[k].phase \in InFlight => j = k
        /\ checkout[j].phase = "done" /\ checkout[k].phase = "done"
           /\ checkout[j].cart = checkout[k].cart => j = k
OrderedInv == faults = 0 /\ ~left => Present /\ Single

Inv ==
    /\ ProductsInv /\ OneProductPerSku /\ DraftsInv /\ ListInv /\ LinesInv /\ CheckoutsInv
    /\ Bounded /\ OrderedInv

-----------------------------------------------------------------------------
(* Finite functions: carts and the catalog.                                *)

\* What a finite function over S is.
LEMMA PartialIs ==
    ASSUME NEW S, NEW X, NEW f \in Partial(S, X)
    PROVE  DOMAIN f \subseteq S /\ f \in [DOMAIN f -> X] /\ \A p \in DOMAIN f : f[p] \in X
BY DEF Partial

\* With and Without keep a finite function one.
LEMMA PartialWith ==
    ASSUME NEW S, NEW X, NEW f \in Partial(S, X), NEW p \in S, NEW x \in X
    PROVE  With(f, p, x) \in Partial(S, X)
<1>1. f \in [DOMAIN f -> X] /\ DOMAIN f \in SUBSET S
  BY PartialIs
<1>2. With(f, p, x) \in [DOMAIN f \cup {p} -> X]
  BY <1>1 DEF With
<1>3. DOMAIN f \cup {p} \in SUBSET S
  BY <1>1
<1> QED
  BY <1>2, <1>3 DEF Partial

\* Without keeps a finite function one.
LEMMA PartialWithout ==
    ASSUME NEW S, NEW X, NEW f \in Partial(S, X), NEW p
    PROVE  Without(f, p) \in Partial(S, X)
<1>1. f \in [DOMAIN f -> X] /\ DOMAIN f \in SUBSET S
  BY PartialIs
<1>2. Without(f, p) \in [DOMAIN f \ {p} -> X]
  BY <1>1 DEF Without
<1>3. DOMAIN f \ {p} \in SUBSET S
  BY <1>1
<1> QED
  BY <1>2, <1>3 DEF Partial

\* More products leave every cart a cart.
LEMMA PartialGrows ==
    ASSUME NEW S, NEW T, NEW X, S \subseteq T
    PROVE  Partial(S, X) \subseteq Partial(T, X)
BY DEF Partial

-----------------------------------------------------------------------------
(* Lists.                                                                  *)

\* NewestFirst lists every id of a finite set once, from the largest to the smallest.
LEMMA NewestFirstLists ==
    ASSUME NEW ids \in SUBSET Nat, IsFiniteSet(ids)
    PROVE  /\ NewestFirst(ids) \in [1..Cardinality(ids) -> ids]
           /\ Cardinality(ids) \in Nat
           /\ \A m, n \in 1..Cardinality(ids) :
                m < n => NewestFirst(ids)[m] > NewestFirst(ids)[n]
<1> DEFINE Above(x) == {y \in ids : y >= x}
           N == Cardinality(ids)
           rank == [x \in ids |-> Cardinality(Above(x))]
<1>1. N \in Nat
  BY FS_CardinalityType
<1>2. \A x \in ids : IsFiniteSet(Above(x)) /\ Cardinality(Above(x)) \in Nat
                     /\ Cardinality(Above(x)) <= N
  <2> SUFFICES ASSUME NEW x \in ids
               PROVE  IsFiniteSet(Above(x)) /\ Cardinality(Above(x)) \in Nat
                      /\ Cardinality(Above(x)) <= N
    OBVIOUS
  <2>1. Above(x) \in SUBSET ids
    OBVIOUS
  <2> QED
    BY <2>1, FS_Subset, FS_CardinalityType
<1>3. \A x \in ids : Cardinality(Above(x)) \in 1..N
  <2> SUFFICES ASSUME NEW x \in ids, Cardinality(Above(x)) = 0 PROVE FALSE
    BY <1>1, <1>2
  <2>1. Above(x) = {}
    BY <1>2, FS_EmptySet
  <2>2. x \in Above(x)
    OBVIOUS
  <2> QED
    BY <2>1, <2>2
<1>4. \A x, y \in ids : x < y => Cardinality(Above(y)) < Cardinality(Above(x))
  <2> SUFFICES ASSUME NEW x \in ids, NEW y \in ids, x < y
               PROVE  Cardinality(Above(y)) < Cardinality(Above(x))
    OBVIOUS
  <2> x \in Nat /\ y \in Nat
    OBVIOUS
  <2>0. \A z \in Above(y) : z \in Nat /\ z >= x
    OBVIOUS
  <2>1. Above(y) \in SUBSET Above(x)
    BY <2>0
  <2>2. x \in Above(x) /\ x \notin Above(y)
    OBVIOUS
  <2>3. Cardinality(Above(y)) <= Cardinality(Above(x)) /\ Cardinality(Above(y)) # Cardinality(Above(x))
    BY <1>2, <2>1, <2>2, FS_Subset
  <2> QED
    BY <1>2, <2>3
<1>5. rank \in Injection(ids, 1..N)
  <2>1. rank \in [ids -> 1..N]
    BY <1>3
  <2>2. \A x, y \in ids : rank[x] = rank[y] => x = y
    <3> SUFFICES ASSUME NEW x \in ids, NEW y \in ids, rank[x] = rank[y], x # y PROVE FALSE
      OBVIOUS
    <3>1. x < y \/ y < x
      OBVIOUS
    <3>2. Cardinality(Above(x)) = Cardinality(Above(y))
      OBVIOUS
    <3> HIDE DEF Above
    <3> QED
      BY <1>2, <1>4, <3>1, <3>2
  <2> QED
    BY <2>1, <2>2 DEF Injection, IsInjective
<1>6. rank \in Surjection(ids, 1..N)
  <2>1. IsFiniteSet(1..N) /\ Cardinality(1..N) = N
    BY <1>1, FS_Interval
  <2> QED
    BY <1>5, <2>1, FS_Injection
<1>7. \A n \in 1..N : \E x \in ids : Cardinality(Above(x)) = n
  BY <1>6 DEF Surjection
<1>8. \A n \in 1..N : NewestFirst(ids)[n] \in ids /\ Cardinality(Above(NewestFirst(ids)[n])) = n
  <2> SUFFICES ASSUME NEW n \in 1..N
               PROVE  NewestFirst(ids)[n] \in ids /\ Cardinality(Above(NewestFirst(ids)[n])) = n
    OBVIOUS
  <2>1. NewestFirst(ids)[n] = CHOOSE x \in ids : Cardinality(Above(x)) = n
    BY DEF NewestFirst
  <2> HIDE DEF Above
  <2> QED
    BY <1>7, <2>1
<1>9. NewestFirst(ids) \in [1..N -> ids]
  BY <1>8 DEF NewestFirst
<1>10. ASSUME NEW m \in 1..N, NEW n \in 1..N, m < n
       PROVE  NewestFirst(ids)[m] > NewestFirst(ids)[n]
  <2> DEFINE x == NewestFirst(ids)[m]
             y == NewestFirst(ids)[n]
  <2>1. x \in ids /\ y \in ids /\ Cardinality(Above(x)) = m /\ Cardinality(Above(y)) = n
    BY <1>8
  <2>2. ~(x < y)
    <3> HIDE DEF x, y, Above
    <3> QED
      BY <1>1, <1>4, <2>1, <1>10
  <2>3. x # y
    <3> HIDE DEF x, y, Above
    <3> QED
      BY <1>1, <2>1, <1>10
  <2> HIDE DEF x, y
  <2>4. x \in Nat /\ y \in Nat
    BY <2>1
  <2>5. x > y
    BY <2>2, <2>3, <2>4
  <2> QED
    BY <2>5 DEF x, y
<1> QED
  BY <1>1, <1>9, <1>10

\* What ProductsService.list finds are products that exist, with their stock.
LEMMA ListingEntries ==
    ASSUME ProductsInv, NEW search
    PROVE  Listing(search) \in Seq(Entry)
<1> DEFINE found == {p \in DOMAIN product : search \in {"all", product[p].sku}}
<1>1. created \in Nat /\ DOMAIN product \subseteq 1..created /\ \A p \in DOMAIN product : product[p] \in Product
  BY PartialIs, ShopConstants DEF ProductsInv
<1>2. found \in SUBSET (1..created) /\ found \in SUBSET Nat
  BY <1>1
<1>3. IsFiniteSet(found)
  <2>1. IsFiniteSet(1..created)
    BY <1>1, FS_Interval
  <2> HIDE DEF found
  <2> QED
    BY <1>2, <2>1, FS_Subset
<1>4. NewestFirst(found) \in [1..Cardinality(found) -> found] /\ Cardinality(found) \in Nat
  <2> HIDE DEF found
  <2> QED
    BY <1>2, <1>3, NewestFirstLists
<1>5. Listing(search) = [n \in DOMAIN NewestFirst(found) |->
            [id |-> NewestFirst(found)[n], stockQty |-> product[NewestFirst(found)[n]].stockQty]]
  BY DEF Listing
<1>6. \A p \in found : p \in 1..created /\ product[p].stockQty \in Stock
  BY <1>1 DEF Product
<1> HIDE DEF found
<1>7. Listing(search) \in [1..Cardinality(found) -> Entry]
  BY <1>4, <1>5, <1>6 DEF Entry
<1> QED
  BY <1>4, <1>7

\* A page of a list holds entries of the list, also beyond its end.
LEMMA SliceEntries ==
    ASSUME NEW X, NEW list \in Seq(X), NEW page \in Nat \ {0}, NEW limit \in Nat \ {0}
    PROVE  Slice(list, page, limit) \in Seq(X)
<1> DEFINE first == (page - 1) * limit + 1
           last == Lesser(page * limit, Len(list))
<1>1. (page - 1) * limit \in Nat /\ page * limit \in Nat
  <2>1. page - 1 \in Nat
    OBVIOUS
  <2>2. \A a, b \in Nat : a * b \in Nat
    OBVIOUS
  <2> QED
    BY <2>1, <2>2
<1>2. first \in Nat /\ first >= 1 /\ last \in Nat /\ last <= Len(list)
  BY <1>1 DEF Lesser
<1> HIDE DEF first, last
<1>3. \A i \in first..last : list[i] \in X
  BY <1>2
<1>4. SubSeq(list, first, last) \in Seq(X)
  BY <1>2, <1>3, Seqs!SubSeqProperties
<1> QED
  BY <1>4 DEF Slice, first, last

\* A call that ends leaves the others.
LEMMA RemoveAtKeeps ==
    ASSUME NEW X, NEW s \in Seq(X), NEW c \in DOMAIN s
    PROVE  RemoveAt(s, c) \in Seq(X)
<1>1. c \in 1..Len(s) /\ Len(s) \in Nat /\ \A i \in 1..Len(s) : s[i] \in X
  OBVIOUS
<1>2. SubSeq(s, 1, c - 1) \in Seq(X)
  BY <1>1, Seqs!SubSeqProperties
<1>3. SubSeq(s, c + 1, Len(s)) \in Seq(X)
  BY <1>1, Seqs!SubSeqProperties
<1> QED
  BY <1>2, <1>3, Seqs!ConcatProperties DEF RemoveAt

-----------------------------------------------------------------------------
(* Products and drafts.                                                    *)

\* What every step but an insert leaves of the products: some of them, with their SKUs.
Thinned ==
    /\ created' = created /\ product' \in Partial(1..created, Product)
    /\ DOMAIN product' \subseteq DOMAIN product
    /\ \A p \in DOMAIN product' : product'[p].sku = product[p].sku

\* A step that leaves the products alone.
LEMMA UnchangedThins ==
    ASSUME Inv, UNCHANGED server
    PROVE  Thinned
BY DEF Inv, ProductsInv, server, Thinned

\* An update keeps the SKU, and does not bring a product back.
LEMMA UpdatedThins ==
    ASSUME Inv, NEW p, NEW stockQty \in Stock, created' = created, product' = Updated(p, stockQty)
    PROVE  Thinned
<1>1. product \in Partial(1..created, Product)
  BY DEF Inv, ProductsInv
<1>2. DOMAIN product \subseteq 1..created /\ product \in [DOMAIN product -> Product]
  BY <1>1, PartialIs
<1>3. CASE p \notin DOMAIN product
  BY <1>1, <1>3 DEF Updated, Thinned
<1>4. CASE p \in DOMAIN product
  <2> DEFINE new == [product[p] EXCEPT !.stockQty = stockQty]
  <2>1. new \in Product /\ new.sku = product[p].sku
    BY <1>2, <1>4 DEF Product
  <2>2. product' = [product EXCEPT ![p] = new]
    BY <1>2, <1>4 DEF Updated, Product
  <2> HIDE DEF new
  <2>3. product' \in [DOMAIN product -> Product] /\ \A q \in DOMAIN product : product'[q].sku = product[q].sku
    BY <1>2, <1>4, <2>1, <2>2
  <2> QED
    BY <1>2, <2>3 DEF Thinned, Partial
<1> QED
  BY <1>3, <1>4

\* A product that is deleted.
LEMMA WithoutThins ==
    ASSUME Inv, NEW p, created' = created, product' = Without(product, p)
    PROVE  Thinned
<1>1. product \in Partial(1..created, Product)
  BY DEF Inv, ProductsInv
<1>2. Without(product, p) \in Partial(1..created, Product)
  BY <1>1, PartialWithout
<1>3. DOMAIN Without(product, p) = DOMAIN product \ {p}
  BY DEF Without
<1>4. \A q \in DOMAIN product \ {p} : Without(product, p)[q] = product[q]
  BY DEF Without
<1> QED
  BY <1>2, <1>3, <1>4 DEF Thinned

\* An order takes no more of a product than there is.
LEMMA OrderThins ==
    ASSUME Inv, NEW k \in 1..MaxCheckouts, CreateOrder(k)
    PROVE  Thinned
<1>1. product \in Partial(1..created, Product) /\ checkout[k] \in Checkout
  BY DEF Inv, ProductsInv, CheckoutsInv
<1> DEFINE wanted == checkout[k].lines
<1>2. DOMAIN product \subseteq 1..created /\ product \in [DOMAIN product -> Product]
  BY <1>1, PartialIs
<1>3. \A p \in DOMAIN wanted : wanted[p] \in Line
  BY <1>1, PartialIs DEF Checkout
<1>4. created' = created
  BY DEF CreateOrder
<1>5. CASE ~Reservable(wanted)
  BY <1>1, <1>4, <1>5 DEF CreateOrder, Thinned
<1>6. CASE Reservable(wanted)
  <2>1. product' = [p \in DOMAIN product |->
            IF p \in DOMAIN wanted
            THEN [product[p] EXCEPT !.stockQty = @ - Units(wanted[p])] ELSE product[p]]
    BY <1>6 DEF CreateOrder
  <2>2. ASSUME NEW p \in DOMAIN product
        PROVE  product'[p] \in Product /\ product'[p].sku = product[p].sku
    <3>1. CASE p \notin DOMAIN wanted
      BY <1>2, <2>1, <2>2, <3>1
    <3>2. CASE p \in DOMAIN wanted
      <4>1. product[p] \in Product /\ wanted[p] \in Line /\ Units(wanted[p]) <= product[p].stockQty
        BY <1>2, <1>3, <1>6, <2>2, <3>2 DEF Reservable
      <4>4. Units(wanted[p]) \in Nat
        <5>1. \A quantity \in Nat : quantity \div 2 \in Nat
          OBVIOUS
        <5>2. wanted[p].quantity \in Nat
          BY <4>1, ShopConstants DEF Line
        <5> QED
          BY <5>1, <5>2 DEF Units
      <4>2. product[p].stockQty - Units(wanted[p]) \in Stock
        BY <4>1, <4>4, ShopConstants DEF Product, Stock
      <4>3. product'[p] = [product[p] EXCEPT !.stockQty = product[p].stockQty - Units(wanted[p])]
        BY <2>1, <2>2, <3>2, <4>1 DEF Product
      <4> QED
        BY <4>1, <4>2, <4>3 DEF Product
    <3> QED
      BY <3>1, <3>2
  <2>3. DOMAIN product' = DOMAIN product /\ product' \in [DOMAIN product -> Product]
    BY <2>1, <2>2
  <2> QED
    BY <1>2, <1>4, <2>2, <2>3 DEF Thinned, Partial
<1> QED
  BY <1>5, <1>6

\* Every step thins the products or inserts one.
LEMMA ProductsStep ==
    ASSUME Inv, [Next]_vars
    PROVE  Thinned \/ \E s \in 1..MaxSaves : InsertProduct(s)
<1>1. CASE OthersChange
  <2>1. created' = created
    BY <1>1 DEF OthersChange
  <2>2. CASE UNCHANGED product
    BY <2>1, <2>2, UnchangedThins DEF server
  <2>3. CASE \E p \in DOMAIN product : product' = Updated(p, MaxStock)
    BY <2>1, <2>3, UpdatedThins, ShopConstants DEF Stock
  <2>4. CASE \E p \in DOMAIN product : product' = Without(product, p)
    BY <2>1, <2>4, WithoutThins
  <2>5. CASE \E p \in DOMAIN product :
                product[p].stockQty > 0 /\ product' = Updated(p, product[p].stockQty - 1)
    <3>1. PICK p \in DOMAIN product :
                product[p].stockQty > 0 /\ product' = Updated(p, product[p].stockQty - 1)
      BY <2>5
    <3>2. product[p].stockQty \in Stock
      <4>1. product \in Partial(1..created, Product)
        BY DEF Inv, ProductsInv
      <4>2. product[p] \in Product
        BY <4>1, PartialIs
      <4> QED
        BY <4>2 DEF Product
    <3>3. product[p].stockQty - 1 \in Stock
      BY <3>1, <3>2, ShopConstants DEF Stock
    <3> QED
      BY <2>1, <3>1, <3>3, UpdatedThins
  <2> QED
    BY <1>1, <2>2, <2>3, <2>4, <2>5 DEF OthersChange
<1>2. CASE PageStep
  <2>1. UNCHANGED server
    BY <1>2 DEF PageStep, Open, Reload, TurnTo, Search, ReadList, ShowList, ListFails
  <2> QED
    BY <2>1, UnchangedThins
<1>3. CASE CartStep
  <2>1. UNCHANGED server \/ \E k \in 1..MaxCheckouts : CreateOrder(k)
    BY <1>3 DEF CartStep, AddItem, UpdateQuantity, PlaceOrder, Placed, NotPlaced
  <2> QED
    BY <2>1, UnchangedThins, OrderThins
<1>4. CASE AdminStep
  <2>1. ASSUME NEW s \in 1..MaxSaves, UpdateProduct(s) PROVE Thinned
    <3>1. save[s].stockQty \in Stock
      BY DEF Inv, DraftsInv, Save, SaveRecord
    <3> QED
      BY <2>1, <3>1, UpdatedThins DEF UpdateProduct
  <2>2. CASE \E n \in DOMAIN view.items : DeleteProduct(n)
    BY <2>2, WithoutThins DEF DeleteProduct
  <2>3. CASE OpenForm \/ CloseForm \/ Submit
             \/ \E s \in 1..MaxSaves : EndSave(s) \/ SaveFails(s) \/ CheckSku(s)
    BY <2>3, UnchangedThins DEF OpenForm, CloseForm, Submit, EndSave, SaveFails, CheckSku
  <2> QED
    BY <1>4, <2>1, <2>2, <2>3 DEF AdminStep
<1>5. CASE UNCHANGED vars
  BY <1>5, UnchangedThins DEF vars, server
<1> QED
  BY <1>1, <1>2, <1>3, <1>4, <1>5 DEF Next

\* The index, and not the check before it, is what keeps a SKU single.
LEMMA ProductsKept ==
    ASSUME Inv, [Next]_vars
    PROVE  ProductsInv' /\ OneProductPerSku' /\ created' \in Nat /\ created <= created'
<1>1. created \in 0..MaxProducts /\ product \in Partial(1..created, Product) /\ OneProductPerSku
  BY DEF Inv, ProductsInv
<1>2. DOMAIN product \subseteq 1..created
  BY <1>1, PartialIs
<1>3. CASE Thinned
  <2>1. ProductsInv' /\ created' \in Nat /\ created <= created'
    BY <1>1, <1>3, ShopConstants DEF Thinned, ProductsInv
  <2>2. OneProductPerSku'
    BY <1>1, <1>3 DEF Thinned, OneProductPerSku
  <2> QED
    BY <2>1, <2>2
<1>4. ASSUME NEW s \in 1..MaxSaves, InsertProduct(s)
      PROVE  ProductsInv' /\ OneProductPerSku' /\ created' \in Nat /\ created <= created'
  <2>1. CASE UNCHANGED server
    BY <1>1, <2>1, ShopConstants DEF server, ProductsInv, OneProductPerSku
  <2>2. CASE ~UNCHANGED server
    <3> DEFINE new == [sku |-> save[s].sku, stockQty |-> save[s].stockQty]
    <3>1. /\ save[s].step = "checked" /\ ~SkuTaken(save[s].sku)
          /\ created < MaxProducts /\ created' = created + 1
          /\ product' = With(product, created + 1, new)
      BY <1>4, <2>2 DEF InsertProduct, Indexed
    <3>2. new \in Product /\ new.sku = save[s].sku
      BY <3>1 DEF Inv, DraftsInv, Save, SaveRecord, Creates, Product
    <3>3. created + 1 \in 1..created' /\ created' \in 0..MaxProducts /\ 1..created \subseteq 1..created'
      BY <1>1, <3>1, ShopConstants
    <3>4. product \in Partial(1..created', Product)
      BY <1>1, <3>3, PartialGrows
    <3> HIDE DEF new
    <3>5. /\ product' \in Partial(1..created', Product) /\ product'[created + 1] = new
          /\ DOMAIN product' = DOMAIN product \cup {created + 1}
          /\ \A q \in DOMAIN product : q # created + 1 => product'[q] = product[q]
      <4>1. With(product, created + 1, new) \in Partial(1..created', Product)
        BY <3>2, <3>3, <3>4, PartialWith
      <4>2. /\ With(product, created + 1, new)[created + 1] = new
            /\ DOMAIN With(product, created + 1, new) = DOMAIN product \cup {created + 1}
            /\ \A q \in DOMAIN product :
                 q # created + 1 => With(product, created + 1, new)[q] = product[q]
        BY <3>1, <3>2, <3>3, <4>1 DEF With
      <4> QED
        BY <3>1, <4>1, <4>2, Zenon
    <3>6. \A q \in DOMAIN product : product[q].sku # new.sku
      BY <3>1, <3>2 DEF SkuTaken
    <3>7. OneProductPerSku'
      BY <1>1, <3>5, <3>6 DEF OneProductPerSku
    <3> QED
      BY <1>1, <3>1, <3>3, <3>5, <3>7, ShopConstants DEF ProductsInv
  <2> QED
    BY <2>1, <2>2
<1> QED
  BY <1>3, <1>4, ProductsStep

\* What becomes of the save that a step is about.
LEMMA OneSave ==
    ASSUME Inv, NEW s \in 1..MaxSaves, NEW new \in Save, save' = [save EXCEPT ![s] = new],
           form' \in Form
    PROVE  DraftsInv'
<1>1. save' \in [1..MaxSaves -> Save]
  BY DEF Inv, DraftsInv
<1> QED
  BY <1>1 DEF DraftsInv, Save, SaveRecord, Creates, Form, Stock

\* What the invariant says of each save.
LEMMA SavesAre ==
    ASSUME Inv
    PROVE  /\ save \in [1..MaxSaves -> Save] /\ form \in Form /\ NoSave \in Save /\ NoForm \in Form
           /\ \A s \in 1..MaxSaves :
                /\ save[s] \in Save
                /\ \A step \in {"done", "refused"} : [save[s] EXCEPT !.step = step] \in Save
                /\ [save[s] EXCEPT !.here = FALSE] \in Save
<1>1. save \in [1..MaxSaves -> Save] /\ form \in Form
  BY DEF Inv, DraftsInv
<1>2. NoSave \in Save /\ NoForm \in Form
  BY ShopConstants DEF NoSave, NoForm, Save, SaveRecord, Creates, Form, Stock
<1>3. ASSUME NEW s \in 1..MaxSaves, NEW step \in {"done", "refused"}
      PROVE  [save[s] EXCEPT !.step = step] \in Save
  <2>1. [save[s] EXCEPT !.step = step] \in SaveRecord /\ [save[s] EXCEPT !.step = step].step = step
    BY <1>1 DEF Save, SaveRecord
  <2> QED
    BY <2>1 DEF Save, Creates
<1>4. ASSUME NEW s \in 1..MaxSaves
      PROVE  [save[s] EXCEPT !.here = FALSE] \in Save
  <2>1. save[s] \in SaveRecord /\ (Creates(save[s]) => save[s].sku \in Skus)
    BY <1>1 DEF Save
  <2> DEFINE new == [save[s] EXCEPT !.here = FALSE]
  <2>2. /\ new \in SaveRecord /\ new.step = save[s].step
        /\ new.editing = save[s].editing /\ new.sku = save[s].sku
    BY <2>1 DEF SaveRecord
  <2> HIDE DEF new
  <2>3. new \in Save
    BY <2>1, <2>2 DEF Save, Creates
  <2> QED
    BY <2>3 DEF new
<1> QED
  BY <1>1, <1>2, <1>3, <1>4

\* An answered save has its result, or nobody to take it.
LEMMA AnswerKept ==
    ASSUME Inv, NEW s \in 1..MaxSaves, NEW step \in {"done", "refused"}, Answer(s, step), UNCHANGED form
    PROVE  DraftsInv'
<1> DEFINE new == IF save[s].here THEN [save[s] EXCEPT !.step = step] ELSE NoSave
<1>1. new \in Save /\ form' \in Form
  BY SavesAre
<1>2. save' = [save EXCEPT ![s] = new]
  BY DEF Answer
<1> HIDE DEF new
<1> QED
  BY <1>1, <1>2, OneSave

\* The page that is left drops its form and lets its save go on.
LEMMA DetachedKept ==
    ASSUME Inv, save' = Detached, form' \in Form
    PROVE  DraftsInv'
<1>1. \A s \in 1..MaxSaves :
        (IF save[s].step \in {"done", "refused"} THEN NoSave ELSE [save[s] EXCEPT !.here = FALSE]) \in Save
  BY SavesAre
<1>2. save' \in [1..MaxSaves -> Save]
  BY <1>1 DEF Detached
<1> QED
  BY <1>2 DEF DraftsInv, Save, SaveRecord, Creates, Form, Stock

\* The form and the saves hold stock that fits, and a create a SKU until it is answered.
LEMMA DraftsKept ==
    ASSUME Inv, [Next]_vars
    PROVE  DraftsInv'
<1>1. save \in [1..MaxSaves -> Save] /\ form \in Form /\ NoForm \in Form
  BY SavesAre
<1>2. 1 \in Stock
  BY ShopConstants DEF Stock
<1>3. CASE UNCHANGED save /\ form' \in Form
  BY <1>1, <1>3 DEF DraftsInv, Save, SaveRecord, Creates, Form, Stock
<1>4. CASE DropForm
  BY <1>1, <1>4, DetachedKept DEF DropForm
<1>5. CASE OthersChange
  <2>1. ASSUME NEW s \in 1..MaxSaves, NEW sku \in Skus,
               save' = [save EXCEPT ![s] = Sent(0, sku, 1, FALSE)]
        PROVE  DraftsInv'
    <3>1. Sent(0, sku, 1, FALSE) \in Save
      BY <1>2 DEF Sent, Save, SaveRecord
    <3>2. form' \in Form
      BY <1>1, <1>5 DEF OthersChange
    <3> QED
      BY <2>1, <3>1, <3>2, OneSave
  <2> QED
    BY <1>1, <1>3, <1>5, <2>1 DEF OthersChange
<1>6. CASE PageStep
  <2>1. CASE (\E to \in Lists \cup {"cart"} : Open(to)) \/ Reload
    BY <1>4, <2>1 DEF Open, Unmount, Reload
  <2>2. CASE UNCHANGED <<save, form>>
    BY <1>1, <1>3, <2>2
  <2> QED
    BY <1>6, <2>1, <2>2 DEF PageStep, TurnTo, Search, ReadList, ShowList, ListFails
<1>7. CASE CartStep
  <2>1. CASE \E k \in 1..MaxCheckouts : Placed(k)
    BY <1>4, <2>1 DEF Placed
  <2>2. CASE UNCHANGED <<save, form>>
    BY <1>1, <1>3, <2>2
  <2> QED
    BY <1>7, <2>1, <2>2 DEF CartStep, AddItem, UpdateQuantity, PlaceOrder, CreateOrder, NotPlaced
<1>8. CASE OpenForm
  <2>1. ASSUME NEW n \in DOMAIN view.items,
               form' = [open |-> TRUE, editing |-> view.items[n].id, stockQty |-> view.items[n].stockQty]
        PROVE  form' \in Form
    <3>1. view.items \in Seq(Entry)
      BY DEF Inv, ListInv, View
    <3>2. view.items[n] \in Entry /\ created \in Nat
      BY <3>1, ShopConstants DEF Inv, ProductsInv
    <3>3. view.items[n].id \in Nat /\ view.items[n].stockQty \in Stock
      BY <3>2 DEF Entry
    <3> QED
      BY <2>1, <3>3 DEF Form
  <2>2. ASSUME form' = [open |-> TRUE, editing |-> 0, stockQty |-> 1]
        PROVE  form' \in Form
    BY <1>2, <2>2 DEF Form
  <2> QED
    BY <1>3, <1>8, <2>1, <2>2 DEF OpenForm
<1>9. CASE Submit
  <2>1. PICK s \in 1..MaxSaves, sku \in IF form.editing = 0 THEN Skus ELSE {"none"} :
            save' = [save EXCEPT ![s] = Sent(form.editing, sku, form.stockQty, TRUE)]
    BY <1>9 DEF Submit
  <2>2. Sent(form.editing, sku, form.stockQty, TRUE) \in Save
    BY <1>1, <2>1 DEF Sent, Save, SaveRecord, Creates, Form
  <2>3. form' \in Form
    BY <1>1, <1>9 DEF Submit
  <2> QED
    BY <2>1, <2>2, <2>3, OneSave
<1>10. CASE CloseForm \/ \E n \in DOMAIN view.items : DeleteProduct(n)
  BY <1>1, <1>3, <1>10 DEF CloseForm, DeleteProduct
<1>11. ASSUME NEW s \in 1..MaxSaves, CheckSku(s)
       PROVE  DraftsInv'
  <2>1. CASE SkuTaken(save[s].sku)
    BY <1>11, <2>1, AnswerKept DEF CheckSku
  <2>2. CASE ~SkuTaken(save[s].sku)
    <3> DEFINE new == [save[s] EXCEPT !.step = "checked"]
    <3>1. save[s] \in SaveRecord /\ save[s].sku \in Skus
      BY <1>1, <1>11 DEF CheckSku, Save, Creates
    <3>2. new \in SaveRecord /\ new.sku \in Skus
      BY <3>1 DEF SaveRecord
    <3>3. save' = [save EXCEPT ![s] = new]
      BY <1>11, <2>2 DEF CheckSku
    <3> HIDE DEF new
    <3>4. new \in Save /\ form' \in Form
      BY <1>1, <1>11, <3>2 DEF Save, CheckSku
    <3> QED
      BY <3>3, <3>4, OneSave
  <2> QED
    BY <2>1, <2>2
<1>12. ASSUME NEW s \in 1..MaxSaves, InsertProduct(s) \/ UpdateProduct(s)
       PROVE  DraftsInv'
  <2>1. UNCHANGED form /\ \E step \in {"done", "refused"} : Answer(s, step)
    BY <1>12 DEF InsertProduct, UpdateProduct
  <2> QED
    BY <2>1, AnswerKept
<1>13. ASSUME NEW s \in 1..MaxSaves, EndSave(s) \/ SaveFails(s)
       PROVE  DraftsInv'
  BY <1>1, <1>4, <1>13, DetachedKept DEF EndSave, SaveFails
<1>14. CASE UNCHANGED vars
  BY <1>1, <1>3, <1>14 DEF vars
<1> QED
  BY <1>5, <1>6, <1>7, <1>8, <1>9, <1>10, <1>11, <1>12, <1>13, <1>14 DEF Next, AdminStep

-----------------------------------------------------------------------------
(* The list.                                                               *)

\* A list that is asked for: the view with its page and filter, and a call without answer.
LEMMA AskKept ==
    ASSUME Inv, NEW next \in View, Ask(next)
    PROVE  view' \in View /\ calls' \in Seq(Call)
<1>1. next.page \in Nat \ {0} /\ next.filter \in Filter
  BY DEF View
<1>2. NewCall(next) \in Call
  BY <1>1, Seqs!EmptySeq DEF NewCall, Call
<1>3. calls \in Seq(Call)
  BY DEF Inv, ListInv
<1>4. <<NewCall(next)>> \in Seq(Call) /\ Append(calls, NewCall(next)) \in Seq(Call)
  BY <1>2, <1>3
<1>5. calls' = <<NewCall(next)>> \/ calls' = Append(calls, NewCall(next))
  BY DEF Ask, Calls, CallsKept
<1> QED
  BY <1>4, <1>5 DEF Ask

\* What the views that are asked for have in common.
LEMMA ViewsAre ==
    ASSUME Inv, NEW kind, NEW page \in Nat \ {0}, NEW filter \in Filter
    PROVE  /\ NewView("all") \in View /\ NewCall(NewView("all")) \in Call
           /\ Asking(kind, view) \in View /\ Turned(kind, view, page) \in View
           /\ Filtered(kind, view, filter) \in View /\ Failed(view) \in View
<1>1. view \in View
  BY DEF Inv, ListInv
<1>2. <<>> \in Seq(Entry) /\ "all" \in Filter
  BY DEF Filter
<1>3. NewView("all") \in View /\ NewCall(NewView("all")) \in Call
  BY <1>2 DEF NewView, NewCall, View, Call
<1>4. ASSUME NEW v \in View PROVE Asking(kind, v) \in View
  <2>1. PICK e \in BOOLEAN : Asking(kind, v) = [v EXCEPT !.loading = TRUE, !.error = e]
    BY DEF Asking, View
  <2> QED
    BY <2>1 DEF View
<1>5. [view EXCEPT !.page = page] \in View
  BY <1>1 DEF View
<1>7. [view EXCEPT !.filter = filter, !.page = 1] \in View
  <2>1. [view EXCEPT !.filter = filter] \in View
    BY <1>1 DEF View
  <2>2. [view EXCEPT !.filter = filter, !.page = 1] = [[view EXCEPT !.filter = filter] EXCEPT !.page = 1]
    BY <1>1 DEF View
  <2>3. \A v \in View : [v EXCEPT !.page = 1] \in View
    BY DEF View
  <2> QED
    BY <2>1, <2>2, <2>3
<1>6. Failed(view) \in View
  BY <1>1 DEF Failed, View
<1> QED
  BY <1>1, <1>3, <1>4, <1>5, <1>6, <1>7 DEF Turned, Filtered

\* An answer names products that exist when it is read, on a page of its list.
LEMMA ReadKept ==
    ASSUME Inv, NEW c \in DOMAIN calls, ReadList(c)
    PROVE  view' \in View /\ calls' \in Seq(Call)
<1>1. calls \in Seq(Call) /\ calls[c] \in Call /\ view \in View
  BY DEF Inv, ListInv
<1> DEFINE list == Listing(calls[c].filter)
           rows == Slice(list, calls[c].page, PageSize)
<1>2. list \in Seq(Entry)
  BY ListingEntries DEF Inv
<1>3. rows \in Seq(Entry) /\ Len(list) \in Nat
  <2>1. calls[c].page \in Nat \ {0} /\ PageSize \in Nat \ {0}
    BY <1>1, ShopConstants DEF Call
  <2> HIDE DEF list
  <2>2. Slice(list, calls[c].page, PageSize) \in Seq(Entry)
    BY <1>2, <2>1, SliceEntries, Zenon
  <2> QED
    BY <1>2, <2>2
<1> DEFINE new == Counted(EntriesRead(calls[c], list, PageSize), list)
<1>4. new = [calls[c] EXCEPT !.read = TRUE, !.items = rows, !.counted = TRUE, !.total = Len(list)]
  <2> HIDE DEF list
  <2> QED
    BY <1>1 DEF Counted, EntriesRead, Call
<1>5. calls' = [calls EXCEPT ![c] = new]
  BY DEF ReadList
<1> HIDE DEF new, list, rows
<1>6. new \in Call
  BY <1>1, <1>3, <1>4 DEF Call
<1>7. calls' \in Seq(Call)
  BY <1>1, <1>5, <1>6, Seqs!ExceptSeq
<1> QED
  BY <1>1, <1>7 DEF ReadList

\* An answer that is shown, and a call that fails.
LEMMA ShowKept ==
    ASSUME Inv, NEW c \in DOMAIN calls, ShowList(c) \/ ListFails(c)
    PROVE  view' \in View /\ calls' \in Seq(Call)
<1>1. calls \in Seq(Call) /\ calls[c] \in Call /\ view \in View
  BY DEF Inv, ListInv
<1>2. RemoveAt(calls, c) \in Seq(Call)
  BY <1>1, RemoveAtKeeps
<1>3. CASE ListFails(c)
  <2>1. Failed(view) \in View
    BY <1>1 DEF Failed, View
  <2> QED
    BY <1>2, <1>3, <2>1 DEF ListFails
<1>4. CASE ShowList(c)
  <2>1. /\ calls[c].items \in Seq(Entry) /\ calls[c].total \in Nat
        /\ Key(calls[c]) \in [page : Nat, filter : Filter]
    BY <1>1 DEF Call, Key
  <2>2. ASSUME NEW kind PROVE Shown(kind, view, calls[c]) \in View
    <3>1. PICK e \in BOOLEAN :
            Shown(kind, view, calls[c]) =
                [view EXCEPT !.items = calls[c].items, !.total = calls[c].total,
                             !.of = Key(calls[c]), !.loading = FALSE, !.error = e]
      BY <1>1 DEF Shown, View
    <3> QED
      BY <1>1, <2>1, <3>1 DEF View
  <2>3. \E kind : view' = Shown(kind, view, calls[c])
    BY <1>4 DEF ShowList
  <2> QED
    BY <1>2, <1>4, <2>2, <2>3 DEF ShowList
<1> QED
  BY <1>3, <1>4

\* Every step keeps the view and the calls, with the products known before it.
LEMMA ListKept ==
    ASSUME Inv, [Next]_vars
    PROVE  view' \in View /\ calls' \in Seq(Call)
<1>1. view \in View /\ calls \in Seq(Call) /\ <<>> \in Seq(Call)
  BY DEF Inv, ListInv
<1>2. CASE UNCHANGED <<view, calls>>
  BY <1>1, <1>2
<1>3. NewView("all") \in View /\ NewCall(NewView("all")) \in Call
  <2>1. 1 \in Nat \ {0} /\ "all" \in Filter
    BY DEF Filter
  <2> QED
    BY <2>1, ViewsAre
<1>4. <<NewCall(NewView("all"))>> \in Seq(Call)
  BY <1>3
<1>5. ASSUME Ask(Asking(Kind, view)) PROVE view' \in View /\ calls' \in Seq(Call)
  <2>1. Asking(Kind, view) \in View
    <3>1. 1 \in Nat \ {0} /\ "all" \in Filter
      BY DEF Filter
    <3> QED
      BY <3>1, ViewsAre
  <2> QED
    BY <1>5, <2>1, AskKept
<1>6. CASE OthersChange
  BY <1>2, <1>6 DEF OthersChange, pageVars
<1>7. CASE PageStep
  <2>1. CASE (\E to \in Lists \cup {"cart"} : Open(to)) \/ Reload
    BY <1>1, <1>3, <1>4, <2>1 DEF Open, Reload
  <2>2. ASSUME NEW page \in Ids, TurnTo(page)
        PROVE  view' \in View /\ calls' \in Seq(Call)
    <3>1. page \in Nat \ {0} /\ "all" \in Filter
      BY ShopConstants DEF Ids, Filter
    <3>2. Turned(Kind, view, page) \in View
      BY <3>1, ViewsAre
    <3> QED
      BY <2>2, <3>2, AskKept DEF TurnTo
  <2>3. ASSUME NEW sku \in Skus \cup {"all"}, Search(sku)
        PROVE  view' \in View /\ calls' \in Seq(Call)
    <3>1. 1 \in Nat \ {0} /\ sku \in Filter
      BY DEF Filter
    <3>2. Filtered(Kind, view, sku) \in View
      BY <3>1, ViewsAre
    <3> QED
      BY <2>3, <3>2, AskKept DEF Search
  <2>4. CASE \E c \in DOMAIN calls : ReadList(c) \/ ShowList(c) \/ ListFails(c)
    BY <2>4, ReadKept, ShowKept
  <2> QED
    BY <1>7, <2>1, <2>2, <2>3, <2>4 DEF PageStep
<1>8. CASE CartStep
  <2>1. CASE \E k \in 1..MaxCheckouts : Placed(k)
    BY <1>1, <1>3, <2>1 DEF Placed
  <2>2. CASE UNCHANGED <<view, calls>>
    BY <1>2, <2>2
  <2> QED
    BY <1>8, <2>1, <2>2
       DEF CartStep, AddItem, UpdateQuantity, PlaceOrder, CreateOrder, NotPlaced, pageVars
<1>9. CASE AdminStep
  <2>1. CASE (\E s \in 1..MaxSaves : EndSave(s)) \/ \E n \in DOMAIN view.items : DeleteProduct(n)
    BY <1>5, <2>1 DEF EndSave, DeleteProduct
  <2>2. CASE UNCHANGED <<view, calls>>
    BY <1>2, <2>2
  <2> QED
    BY <1>9, <2>1, <2>2
       DEF AdminStep, OpenForm, CloseForm, Submit, UpdateProduct, SaveFails, CheckSku, InsertProduct,
           pageVars
<1>10. CASE UNCHANGED vars
  BY <1>2, <1>10 DEF vars
<1> QED
  BY <1>6, <1>7, <1>8, <1>9, <1>10 DEF Next

-----------------------------------------------------------------------------
(* The cart.                                                               *)

\* A line is in bounds.
Fits(line) == line \in Line /\ line.quantity \in 2..2 * line.stockQty

\* What the invariant says of each line.
LEMMA LinesAre ==
    ASSUME Inv
    PROVE  /\ lines \in Partial(1..created, Line) /\ DOMAIN lines \subseteq 1..created
           /\ \A p \in DOMAIN lines : Fits(lines[p])
<1>1. lines \in Partial(1..created, Line) /\ LinesInBounds
  BY DEF Inv, LinesInv
<1> QED
  BY <1>1, PartialIs DEF LinesInBounds, Fits

\* Putting a fitting line into the cart keeps it a cart of fitting lines.
LEMMA FitsWith ==
    ASSUME Inv, NEW p \in 1..created, NEW line, Fits(line), lines' = With(lines, p, line)
    PROVE  lines' \in Partial(1..created, Line) /\ \A q \in DOMAIN lines' : Fits(lines'[q])
<1>1. lines \in Partial(1..created, Line) /\ \A q \in DOMAIN lines : Fits(lines[q])
  BY LinesAre
<1>2. With(lines, p, line) \in Partial(1..created, Line)
  BY <1>1, PartialWith DEF Fits
<1>3. \A q \in DOMAIN lines' : lines'[q] = line \/ (q \in DOMAIN lines /\ lines'[q] = lines[q])
  <2>1. lines' = [q \in DOMAIN lines \cup {p} |-> IF q = p THEN line ELSE lines[q]]
    BY DEF With
  <2> QED
    BY <2>1
<1> QED
  BY <1>1, <1>2, <1>3

\* Nothing that is added or counted up or down leaves the stock a line remembers.
LEMMA LinesKept ==
    ASSUME Inv, [Next]_vars
    PROVE  lines' \in Partial(1..created, Line) /\ \A p \in DOMAIN lines' : Fits(lines'[p])
<1>1. /\ lines \in Partial(1..created, Line) /\ DOMAIN lines \subseteq 1..created
      /\ \A p \in DOMAIN lines : Fits(lines[p])
  BY LinesAre
<1>2. CASE UNCHANGED lines
  BY <1>1, <1>2
<1>3. ASSUME NEW n \in DOMAIN view.items, NEW quantity \in 2..2 * MaxStock, AddItem(n, quantity)
      PROVE  lines' \in Partial(1..created, Line) /\ \A p \in DOMAIN lines' : Fits(lines'[p])
  <2>1. view.items[n] \in Entry
    BY DEF Inv, ListInv, View
  <2> DEFINE p == view.items[n].id
             stockQty == view.items[n].stockQty
             before == IF p \in DOMAIN lines THEN lines[p].quantity ELSE 0
             line == [quantity |-> Capped(before + quantity, stockQty), stockQty |-> stockQty]
  <2>2. p \in 1..created /\ stockQty \in Stock /\ stockQty > 0
    BY <1>3, <2>1 DEF AddItem, Entry
  <2>3. before \in Nat
    BY <1>1, ShopConstants DEF Fits, Line
  <2>4. lines' = With(lines, p, line)
    BY <1>3 DEF AddItem, AddedTo
  <2> HIDE DEF p, stockQty, before
  <2>5. Capped(before + quantity, stockQty) \in 2..2 * stockQty
    BY <2>2, <2>3, ShopConstants DEF Capped, Lesser, Stock
  <2>6. Fits(line)
    BY <2>2, <2>5, ShopConstants DEF Fits, Line, Stock
  <2> HIDE DEF line
  <2> QED
    BY <2>2, <2>4, <2>6, FitsWith
<1>4. ASSUME NEW p \in DOMAIN lines, UpdateQuantity(p)
      PROVE  lines' \in Partial(1..created, Line) /\ \A q \in DOMAIN lines' : Fits(lines'[q])
  <2> DEFINE Counts(quantity) ==
               [lines[p] EXCEPT !.quantity = Greater(2, Capped(quantity, lines[p].stockQty))]
  <2>1. p \in 1..created /\ Fits(lines[p])
    BY <1>1
  <2>2. /\ lines[p].quantity \in Nat /\ lines[p].stockQty \in Nat /\ lines[p].stockQty >= 1
        /\ lines[p].stockQty <= MaxStock
    BY <2>1, ShopConstants DEF Fits, Line, Stock
  <2>3. ASSUME NEW quantity \in Int PROVE Fits(Counts(quantity))
    <3>1. Greater(2, Capped(quantity, lines[p].stockQty)) \in 2..2 * lines[p].stockQty
      BY <2>2 DEF Greater, Capped, Lesser
    <3>2. Counts(quantity) \in Line /\ Counts(quantity).stockQty = lines[p].stockQty
          /\ Counts(quantity).quantity = Greater(2, Capped(quantity, lines[p].stockQty))
      BY <2>1, <2>2, <3>1, ShopConstants DEF Fits, Line
    <3> HIDE DEF Counts
    <3> QED
      BY <3>1, <3>2 DEF Fits
  <2>4. CASE lines' = With(lines, p, Counts(lines[p].quantity - 2))
    <3> HIDE DEF Counts
    <3>0. lines[p].quantity - 2 \in Int
      BY <2>2
    <3>1. Fits(Counts(lines[p].quantity - 2))
      BY <2>3, <3>0
    <3> QED
      BY <2>1, <2>4, <3>1, FitsWith
  <2>5. CASE lines' = With(lines, p, Counts(lines[p].quantity + 2))
    <3> HIDE DEF Counts
    <3>0. lines[p].quantity + 2 \in Int
      BY <2>2
    <3>1. Fits(Counts(lines[p].quantity + 2))
      BY <2>3, <3>0
    <3> QED
      BY <2>1, <2>5, <3>1, FitsWith
  <2>6. CASE lines' = Without(lines, p)
    <3>1. lines' \in Partial(1..created, Line)
      BY <1>1, <2>6, PartialWithout
    <3>2. \A q \in DOMAIN lines' : q \in DOMAIN lines /\ lines'[q] = lines[q]
      BY <2>6 DEF Without
    <3> QED
      BY <1>1, <3>1, <3>2
  <2> QED
    BY <1>4, <2>4, <2>5, <2>6 DEF UpdateQuantity
<1>5. CASE \E k \in 1..MaxCheckouts : Placed(k)
  <2>1. lines' = <<>>
    BY <1>5 DEF Placed, Cleared
  <2>2. <<>> \in [{} -> Line] /\ DOMAIN <<>> = {}
    OBVIOUS
  <2> QED
    BY <2>1, <2>2 DEF Partial
<1>6. CASE CartStep
  BY <1>2, <1>3, <1>4, <1>5, <1>6 DEF CartStep, PlaceOrder, CreateOrder, NotPlaced
<1>7. CASE OthersChange \/ PageStep \/ AdminStep \/ UNCHANGED vars
  <2>1. UNCHANGED lines
    BY <1>7 DEF OthersChange, PageStep, Open, Unmount, Reload, TurnTo, Search, ReadList, ShowList,
                ListFails, AdminStep, OpenForm, CloseForm, Submit, UpdateProduct, EndSave, SaveFails,
                DeleteProduct, CheckSku, InsertProduct, cartVars, vars
  <2> QED
    BY <1>2, <2>1
<1> QED
  BY <1>6, <1>7 DEF Next

-----------------------------------------------------------------------------
(* Checkouts.                                                              *)

Phases == {"unused", "abandoned", "done", "failed"} \cup InFlight

\* What the invariant says of each checkout.
LEMMA CheckoutsAre ==
    ASSUME Inv, NEW k \in 1..MaxCheckouts
    PROVE  /\ checkout \in [1..MaxCheckouts -> Checkout] /\ checkout[k] \in Checkout /\ cart \in Nat
           /\ checkout[k].phase \in Phases /\ checkout[k].cart \in Nat
BY DEF Inv, CheckoutsInv, Checkout, Phases

\* A call that is over keeps the filling it ordered.
LEMMA OverIs ==
    ASSUME NEW call \in Checkout, NEW phase \in Phases
    PROVE  /\ Over(call, phase) \in Checkout
           /\ Over(call, phase).phase = phase /\ Over(call, phase).cart = call.cart
<1>1. <<>> \in Partial(1..created, Line)
  <2>1. <<>> \in [{} -> Line]
    OBVIOUS
  <2> QED
    BY <2>1 DEF Partial
<1> QED
  BY <1>1 DEF Over, Checkout, Phases

\* What becomes of the checkout that a call is about.
LEMMA OneCheckout ==
    ASSUME Inv, NEW k \in 1..MaxCheckouts, NEW new \in Checkout,
           checkout' = [checkout EXCEPT ![k] = new]
    PROVE  /\ checkout' \in [1..MaxCheckouts -> Checkout] /\ checkout'[k] = new
           /\ \A j \in 1..MaxCheckouts : j # k => checkout'[j] = checkout[j]
<1>1. checkout \in [1..MaxCheckouts -> Checkout]
  BY CheckoutsAre
<1> QED
  BY <1>1

\* A page that is left.
LEMMA UnmountedIs ==
    ASSUME Inv
    PROVE  /\ Unmounted \in [1..MaxCheckouts -> Checkout]
           /\ \A k \in 1..MaxCheckouts :
                Unmounted[k].phase = checkout[k].phase /\ Unmounted[k].cart = checkout[k].cart
<1>1. \A k \in 1..MaxCheckouts : Unmounted[k] = [checkout[k] EXCEPT !.here = FALSE]
  BY DEF Unmounted
<1>2. \A k \in 1..MaxCheckouts : checkout[k] \in Checkout
  BY CheckoutsAre
<1>3. \A k \in 1..MaxCheckouts :
        /\ Unmounted[k] \in Checkout
        /\ Unmounted[k].phase = checkout[k].phase /\ Unmounted[k].cart = checkout[k].cart
  BY <1>1, <1>2 DEF Checkout
<1> QED
  BY <1>3 DEF Unmounted

\* handleCheckout: the filling that is ordered is the present one.
LEMMA PlaceOrderMoves ==
    ASSUME Inv, NEW k \in 1..MaxCheckouts, PlaceOrder(k)
    PROVE  \E new \in Checkout :
             /\ checkout' = [checkout EXCEPT ![k] = new]
             /\ new.phase = "sent" /\ new.cart = cart /\ new.here
<1> DEFINE new == [phase |-> "sent", lines |-> lines, cart |-> cart, here |-> TRUE]
<1>1. lines \in Partial(1..created, Line) /\ cart \in Nat
  BY CheckoutsAre, LinesAre
<1>2. new \in Checkout /\ new.phase = "sent" /\ new.cart = cart /\ new.here
  BY <1>1 DEF Checkout, InFlight
<1>3. checkout' = [checkout EXCEPT ![k] = new]
  BY DEF PlaceOrder
<1> HIDE DEF new
<1> QED
  BY <1>2, <1>3

\* createOrder runs once for a call, also when nobody waits for it any more.
LEMMA CreateOrderMoves ==
    ASSUME Inv, NEW k \in 1..MaxCheckouts, CreateOrder(k)
    PROVE  \E new \in Checkout :
             /\ checkout' = [checkout EXCEPT ![k] = new]
             /\ new.cart = checkout[k].cart
             /\ \/ /\ checkout[k].phase = "sent" /\ new.phase \in {"placed", "refused"}
                   /\ new.here = checkout[k].here
                \/ checkout[k].phase = "abandoned" /\ new.phase \in {"done", "failed"}
<1>1. checkout[k] \in Checkout
  BY CheckoutsAre
<1>2. CASE checkout[k].phase = "sent"
  <2>1. PICK phase \in {"placed", "refused"} : checkout' = [checkout EXCEPT ![k].phase = phase]
    BY <1>2 DEF CreateOrder
  <2> DEFINE new == [checkout[k] EXCEPT !.phase = phase]
  <2>2. new \in Checkout /\ new.phase = phase /\ new.cart = checkout[k].cart /\ new.here = checkout[k].here
    BY <1>1 DEF Checkout, InFlight
  <2>3. checkout' = [checkout EXCEPT ![k] = new]
    BY <2>1
  <2> HIDE DEF new
  <2> QED
    BY <1>2, <2>2, <2>3
<1>3. CASE checkout[k].phase = "abandoned"
  <2>1. PICK phase \in {"done", "failed"} : checkout' = [checkout EXCEPT ![k] = Over(checkout[k], phase)]
    BY <1>3 DEF CreateOrder
  <2>2. Over(checkout[k], phase) \in Checkout
        /\ Over(checkout[k], phase).phase = phase /\ Over(checkout[k], phase).cart = checkout[k].cart
    BY <1>1, OverIs DEF Phases
  <2> QED
    BY <1>3, <2>1, <2>2
<1> QED
  BY <1>2, <1>3 DEF CreateOrder

\* A checkout is given up after a refusal, or else for a failed call.
LEMMA NotPlacedMoves ==
    ASSUME Inv, NEW k \in 1..MaxCheckouts, NotPlaced(k)
    PROVE  \E new \in Checkout :
             /\ checkout' = [checkout EXCEPT ![k] = new]
             /\ new.phase \in {"abandoned", "done", "failed"}
             /\ (checkout[k].phase = "refused" /\ new.phase = "failed" /\ UNCHANGED faults) \/ Fault
<1>1. checkout[k] \in Checkout
  BY CheckoutsAre
<1>2. CASE checkout[k].phase = "refused" /\ UNCHANGED faults
  <2>1. checkout' = [checkout EXCEPT ![k] = Over(checkout[k], "failed")]
    BY <1>2 DEF NotPlaced
  <2>2. Over(checkout[k], "failed") \in Checkout /\ Over(checkout[k], "failed").phase = "failed"
    BY <1>1, OverIs DEF Phases
  <2> QED
    BY <1>2, <2>1, <2>2
<1>3. CASE checkout[k].phase = "placed" /\ Fault
  <2>1. checkout' = [checkout EXCEPT ![k] = Over(checkout[k], "done")]
    BY <1>3 DEF NotPlaced
  <2>2. Over(checkout[k], "done") \in Checkout /\ Over(checkout[k], "done").phase = "done"
    BY <1>1, OverIs DEF Phases
  <2> QED
    BY <1>3, <2>1, <2>2
<1>4. CASE checkout[k].phase = "sent" /\ Fault
  <2> DEFINE new == [checkout[k] EXCEPT !.phase = "abandoned", !.here = FALSE]
  <2>1. checkout' = [checkout EXCEPT ![k] = new]
    BY <1>4 DEF NotPlaced
  <2>2. new \in Checkout /\ new.phase = "abandoned"
    BY <1>1 DEF Checkout
  <2> HIDE DEF new
  <2> QED
    BY <1>4, <2>1, <2>2
<1> QED
  BY <1>2, <1>3, <1>4 DEF NotPlaced

\* The answer that empties the cart.
LEMMA PlacedMoves ==
    ASSUME Inv, NEW k \in 1..MaxCheckouts, Placed(k)
    PROVE  /\ checkout' \in [1..MaxCheckouts -> Checkout]
           /\ checkout'[k].phase = "done" /\ checkout'[k].cart = checkout[k].cart
           /\ \A j \in 1..MaxCheckouts : j # k =>
                checkout'[j].phase = checkout[j].phase /\ checkout'[j].cart = checkout[j].cart
<1> DEFINE new == Over(Unmounted[k], "done")
<1>1. /\ Unmounted \in [1..MaxCheckouts -> Checkout]
      /\ \A j \in 1..MaxCheckouts :
           Unmounted[j].phase = checkout[j].phase /\ Unmounted[j].cart = checkout[j].cart
  BY UnmountedIs
<1>2. new \in Checkout /\ new.phase = "done" /\ new.cart = checkout[k].cart
  BY <1>1, OverIs DEF Phases
<1>3. checkout' = [Unmounted EXCEPT ![k] = new]
  BY DEF Placed
<1> HIDE DEF new
<1> QED
  BY <1>1, <1>2, <1>3

\* A page loaded anew drops what is in flight and nothing else.
LEMMA ReloadMoves ==
    ASSUME Inv, Reload
    PROVE  /\ checkout' \in [1..MaxCheckouts -> Checkout]
           /\ \A k \in 1..MaxCheckouts : checkout[k].phase \notin InFlight => checkout'[k] = checkout[k]
<1> DEFINE dropped(k) == IF checkout[k].phase \in InFlight
                         THEN IF checkout[k].phase = "sent"
                              THEN [checkout[k] EXCEPT !.here = FALSE, !.phase = "abandoned"]
                              ELSE Over(checkout[k], IF checkout[k].phase = "placed" THEN "done" ELSE "failed")
                         ELSE checkout[k]
<1>1. checkout' = [k \in 1..MaxCheckouts |-> dropped(k)]
  BY DEF Reload
<1>2. ASSUME NEW k \in 1..MaxCheckouts PROVE dropped(k) \in Checkout
  <2>1. checkout[k] \in Checkout
    BY CheckoutsAre
  <2>2. [checkout[k] EXCEPT !.here = FALSE, !.phase = "abandoned"] \in Checkout
    BY <2>1 DEF Checkout
  <2>3. Over(checkout[k], "done") \in Checkout /\ Over(checkout[k], "failed") \in Checkout
    BY <2>1, OverIs DEF Phases
  <2> QED
    BY <2>1, <2>2, <2>3
<1>3. \A k \in 1..MaxCheckouts : checkout[k].phase \notin InFlight => dropped(k) = checkout[k]
  OBVIOUS
<1> HIDE DEF dropped
<1> QED
  BY <1>1, <1>2, <1>3

\* Every step keeps the checkouts well-formed, with the products known before it.
LEMMA CheckoutsKept ==
    ASSUME Inv, [Next]_vars
    PROVE  checkout' \in [1..MaxCheckouts -> Checkout] /\ cart' \in Nat
<1>1. checkout \in [1..MaxCheckouts -> Checkout] /\ cart \in Nat
  BY DEF Inv, CheckoutsInv
<1>2. CASE CartStep
  <2>1. cart' \in Nat
    <3>1. cart' = cart \/ cart' = cart + 1
      BY <1>2 DEF CartStep, AddItem, UpdateQuantity, PlaceOrder, CreateOrder, Placed, NotPlaced
    <3> QED
      BY <1>1, <3>1
  <2>2. CASE \E k \in 1..MaxCheckouts : PlaceOrder(k) \/ CreateOrder(k) \/ NotPlaced(k)
    <3>1. PICK k \in 1..MaxCheckouts : PlaceOrder(k) \/ CreateOrder(k) \/ NotPlaced(k)
      BY <2>2
    <3>2. \E new \in Checkout : checkout' = [checkout EXCEPT ![k] = new]
      BY <3>1, PlaceOrderMoves, CreateOrderMoves, NotPlacedMoves
    <3> QED
      BY <2>1, <3>2, OneCheckout
  <2>3. CASE \E k \in 1..MaxCheckouts : Placed(k)
    BY <2>1, <2>3, PlacedMoves
  <2>4. CASE UNCHANGED checkout
    BY <1>1, <2>1, <2>4
  <2> QED
    BY <1>2, <2>2, <2>3, <2>4 DEF CartStep, AddItem, UpdateQuantity
<1>3. CASE PageStep
  <2>1. cart' = cart
    BY <1>3 DEF PageStep, Open, Unmount, Reload, TurnTo, Search, ReadList, ShowList, ListFails, cartVars
  <2>2. CASE \E to \in Lists \cup {"cart"} : Open(to)
    <3>1. checkout' = Unmounted
      BY <2>2 DEF Open, Unmount
    <3> QED
      BY <1>1, <2>1, <3>1, UnmountedIs
  <2>3. CASE Reload
    BY <1>1, <2>1, <2>3, ReloadMoves
  <2>4. CASE UNCHANGED checkout
    BY <1>1, <2>1, <2>4
  <2> QED
    BY <1>3, <2>2, <2>3, <2>4 DEF PageStep, TurnTo, Search, ReadList, ShowList, ListFails, cartVars
<1>4. CASE OthersChange \/ AdminStep \/ UNCHANGED vars
  <2>1. UNCHANGED <<checkout, cart>>
    BY <1>4 DEF OthersChange, AdminStep, OpenForm, CloseForm, Submit, UpdateProduct, EndSave, SaveFails,
                DeleteProduct, CheckSku, InsertProduct, cartVars, vars
  <2> QED
    BY <1>1, <2>1
<1> QED
  BY <1>2, <1>3, <1>4 DEF Next

\* The fillings that are ordered stay apart when phases and fillings stay as they are.
LEMMA SameOrders ==
    ASSUME Inv, Present, Single, cart' = cart,
           \A k \in 1..MaxCheckouts :
                /\ checkout'[k].phase = checkout[k].phase /\ checkout'[k].cart = checkout[k].cart
                /\ checkout[k].phase \in InFlight => checkout'[k].here = checkout[k].here
    PROVE  Present' /\ Single'
BY DEF Present, Single, InFlight

\* A call that leaves the page alone in flight, or ends without an order.
LEMMA OneMoves ==
    ASSUME Inv, Present, Single, cart' = cart, NEW k \in 1..MaxCheckouts, NEW new \in Checkout,
           checkout' = [checkout EXCEPT ![k] = new],
           \/ /\ new.phase \in InFlight /\ new.here /\ new.cart = cart
              /\ \A j \in 1..MaxCheckouts : checkout[j].phase \in InFlight => j = k
           \/ new.phase = "failed"
    PROVE  Present' /\ Single'
<1>1. checkout'[k] = new /\ \A j \in 1..MaxCheckouts : j # k => checkout'[j] = checkout[j]
  BY OneCheckout
<1>2. ASSUME NEW i \in 1..MaxCheckouts
      PROVE  /\ checkout'[i].phase # "abandoned"
             /\ checkout'[i].phase \in InFlight => checkout'[i].here /\ checkout'[i].cart = cart'
             /\ checkout'[i].phase = "done" => checkout'[i].cart < cart'
  BY <1>1 DEF Present, InFlight
<1>3. ASSUME NEW i \in 1..MaxCheckouts, NEW j \in 1..MaxCheckouts
      PROVE  /\ checkout'[i].phase \in InFlight /\ checkout'[j].phase \in InFlight => i = j
             /\ checkout'[i].phase = "done" /\ checkout'[j].phase = "done"
                /\ checkout'[i].cart = checkout'[j].cart => i = j
  BY <1>1 DEF Single, InFlight
<1> QED
  BY <1>2, <1>3 DEF Present, Single, InFlight

\* A second order of one filling needs a failed call, or a checkout that was left alone.
LEMMA OrderedKept ==
    ASSUME Inv, [Next]_vars, faults' = 0, ~left'
    PROVE  Present' /\ Single'
<1>1. faults \in Nat /\ \A k \in 1..MaxCheckouts : checkout[k] \in Checkout
  BY ShopConstants, CheckoutsAre DEF Inv, Bounded
<1>2. ~Fault
  BY <1>1 DEF Fault
<1>3. faults = 0 /\ ~left => Present /\ Single
  BY DEF Inv, OrderedInv
<1>5. CASE UNCHANGED <<checkout, cart, left, faults>>
  BY <1>3, <1>5, SameOrders
<1>6. CASE OthersChange \/ AdminStep \/ UNCHANGED vars
  <2>1. UNCHANGED <<checkout, cart, left>>
    BY <1>6 DEF OthersChange, AdminStep, OpenForm, CloseForm, Submit, UpdateProduct, EndSave, SaveFails,
                DeleteProduct, CheckSku, InsertProduct, cartVars, vars
  <2>2. UNCHANGED faults
    BY <1>2, <1>6
       DEF OthersChange, AdminStep, OpenForm, CloseForm, Submit, UpdateProduct, EndSave, SaveFails,
           DeleteProduct, CheckSku, InsertProduct, vars
  <2> QED
    BY <1>5, <2>1, <2>2
<1>7. CASE PageStep
  <2>1. CASE \E to \in Lists \cup {"cart"} : Open(to)
    <3>1. /\ checkout' = Unmounted /\ cart' = cart /\ faults' = faults
          /\ left' = (left \/ Awaiting)
      BY <2>1 DEF Open, Unmount
    <3>2. ~left /\ ~Awaiting /\ Present /\ Single
      BY <1>3, <3>1
    <3>3. \A k \in 1..MaxCheckouts : checkout[k].phase \notin InFlight
      BY <3>2 DEF Present, Awaiting
    <3> QED
      BY <3>1, <3>2, <3>3, UnmountedIs, SameOrders
  <2>2. CASE Reload
    <3>1. /\ cart' = cart /\ faults' = faults
          /\ left' = (left \/ \E k \in 1..MaxCheckouts : checkout[k].phase \in InFlight)
      BY <2>2 DEF Reload
    <3>2. Present /\ Single /\ \A k \in 1..MaxCheckouts : checkout[k].phase \notin InFlight
      BY <1>3, <3>1
    <3>3. \A k \in 1..MaxCheckouts : checkout'[k] = checkout[k]
      BY <2>2, <3>2, ReloadMoves
    <3> QED
      BY <3>1, <3>2, <3>3, SameOrders
  <2>3. CASE UNCHANGED <<checkout, cart, left, faults>>
    BY <1>5, <2>3
  <2> QED
    BY <1>2, <1>7, <2>1, <2>2, <2>3
       DEF PageStep, TurnTo, Search, ReadList, ShowList, ListFails, cartVars
<1>8. CASE CartStep
  <2>1. ASSUME NEW k \in 1..MaxCheckouts, PlaceOrder(k) PROVE Present' /\ Single'
    <3>1. UNCHANGED <<cart, left, faults>> /\ ~Awaiting
      BY <2>1 DEF PlaceOrder, Placeable
    <3>2. Present /\ Single
      BY <1>3, <3>1
    <3>3. \A j \in 1..MaxCheckouts : checkout[j].phase \notin InFlight
      BY <3>1, <3>2 DEF Present, Awaiting
    <3>4. PICK new \in Checkout :
            /\ checkout' = [checkout EXCEPT ![k] = new]
            /\ new.phase = "sent" /\ new.cart = cart /\ new.here
      BY <2>1, PlaceOrderMoves
    <3>5. new.phase \in InFlight
      BY <3>4 DEF InFlight
    <3> QED
      BY <3>1, <3>2, <3>3, <3>4, <3>5, OneMoves
  <2>2. ASSUME NEW k \in 1..MaxCheckouts, CreateOrder(k) PROVE Present' /\ Single'
    <3>1. UNCHANGED <<cart, left, faults>>
      BY <2>2 DEF CreateOrder
    <3>2. Present /\ Single
      BY <1>3, <3>1
    <3>3. checkout[k].phase # "abandoned"
      BY <3>2 DEF Present
    <3>4. PICK new \in Checkout :
            /\ checkout' = [checkout EXCEPT ![k] = new]
            /\ new.cart = checkout[k].cart /\ new.here = checkout[k].here
            /\ checkout[k].phase = "sent" /\ new.phase \in {"placed", "refused"}
      BY <2>2, <3>3, CreateOrderMoves
    <3>5. new.phase \in InFlight /\ checkout[k].phase \in InFlight
      BY <3>4 DEF InFlight
    <3>6. new.here /\ new.cart = cart /\ \A j \in 1..MaxCheckouts : checkout[j].phase \in InFlight => j = k
      BY <3>2, <3>4, <3>5 DEF Present, Single
    <3> QED
      BY <3>1, <3>2, <3>4, <3>5, <3>6, OneMoves
  <2>3. ASSUME NEW k \in 1..MaxCheckouts, NotPlaced(k) PROVE Present' /\ Single'
    <3>1. UNCHANGED <<cart, left>>
      BY <2>3 DEF NotPlaced
    <3>2. PICK new \in Checkout :
            /\ checkout' = [checkout EXCEPT ![k] = new]
            /\ new.phase = "failed" /\ UNCHANGED faults
      BY <1>2, <2>3, NotPlacedMoves
    <3>3. Present /\ Single
      BY <1>3, <3>1, <3>2
    <3> QED
      BY <3>1, <3>2, <3>3, OneMoves
  <2>4. ASSUME NEW k \in 1..MaxCheckouts, Placed(k) PROVE Present' /\ Single'
    <3>1. /\ cart' = cart + 1 /\ faults' = faults /\ checkout[k].phase = "placed"
          /\ left' = (left \/ \E j \in 1..MaxCheckouts \ {k} :
                                  checkout[j].here /\ checkout[j].phase \in InFlight)
      BY <2>4 DEF Placed
    <3>2. Present /\ Single /\ cart \in Nat
      BY <1>3, <3>1, CheckoutsAre
    <3>3. /\ checkout'[k].phase = "done" /\ checkout'[k].cart = checkout[k].cart
          /\ \A j \in 1..MaxCheckouts : j # k =>
               checkout'[j].phase = checkout[j].phase /\ checkout'[j].cart = checkout[j].cart
      BY <2>4, PlacedMoves
    <3>4. /\ checkout[k].cart = cart
          /\ \A j \in 1..MaxCheckouts : checkout[j].phase \in InFlight => j = k
          /\ \A j \in 1..MaxCheckouts : checkout[j].phase = "done" => checkout[j].cart < cart
      BY <3>1, <3>2 DEF Present, Single, InFlight
    <3>5. \A j \in 1..MaxCheckouts : checkout[j].cart \in Nat
      BY <1>1 DEF Checkout
    <3>6. ASSUME NEW i \in 1..MaxCheckouts
          PROVE  /\ checkout'[i].phase # "abandoned" /\ checkout'[i].phase \notin InFlight
                 /\ checkout'[i].phase = "done" => checkout'[i].cart < cart'
      BY <3>1, <3>2, <3>3, <3>4, <3>5 DEF Present, InFlight
    <3>7. ASSUME NEW i \in 1..MaxCheckouts, NEW j \in 1..MaxCheckouts,
                 checkout'[i].phase = "done", checkout'[j].phase = "done",
                 checkout'[i].cart = checkout'[j].cart
          PROVE  i = j
      BY <3>2, <3>3, <3>4, <3>5, <3>7 DEF Single
    <3> QED
      BY <3>6, <3>7 DEF Present, Single, InFlight
  <2>5. CASE UNCHANGED <<checkout, cart, left, faults>>
    BY <1>5, <2>5
  <2> QED
    BY <1>8, <2>1, <2>2, <2>3, <2>4, <2>5 DEF CartStep, AddItem, UpdateQuantity
<1> QED
  BY <1>6, <1>7, <1>8 DEF Next

-----------------------------------------------------------------------------
(* The theorems.                                                           *)

\* What holds with the products known before a step holds with those known after it.
LEMMA KnownGrows ==
    ASSUME created' \in Nat, created <= created', created \in Nat
    PROVE  /\ Partial(1..created, Line) \subseteq Partial(1..created', Line)
           /\ View \subseteq View' /\ Seq(Call) \subseteq Seq(Call') /\ Checkout \subseteq Checkout'
<1>1. 1..created \subseteq 1..created'
  OBVIOUS
<1>2. Partial(1..created, Line) \subseteq Partial(1..created', Line)
  BY <1>1, PartialGrows
<1>3. Entry \subseteq Entry'
  BY <1>1 DEF Entry, Stock
<1>4. Seq(Entry) \subseteq Seq(Entry')
  BY <1>3, Seqs!SeqMonotonic
<1>5. View \subseteq View' /\ Call \subseteq Call'
  BY <1>4 DEF View, Call, Filter
<1>6. Seq(Call) \subseteq Seq(Call')
  BY <1>5, Seqs!SeqMonotonic
<1>7. Checkout \subseteq Checkout'
  BY <1>2 DEF Checkout, Line, Stock, InFlight
<1> QED
  BY <1>2, <1>5, <1>6, <1>7

\* The invariant holds when the tab is opened.
LEMMA ShopInit ==
    ASSUME Init
    PROVE  Inv
<1>1. created \in {0, 1} /\ MaxProducts \in Nat \ {0} /\ MaxStock \in Stock /\ 0 \in Stock
  BY ShopConstants DEF Init, Stock
<1>2. ProductsInv /\ OneProductPerSku
  <2>1. PICK sku \in Skus : product = [p \in 1..created |-> [sku |-> sku, stockQty |-> MaxStock]]
    BY DEF Init
  <2>2. product \in [1..created -> Product]
    BY <1>1, <2>1 DEF Product
  <2>3. OneProductPerSku
    BY <1>1, <2>1 DEF OneProductPerSku
  <2> QED
    BY <1>1, <2>2, <2>3 DEF ProductsInv, Partial
<1>3. DraftsInv
  BY <1>1 DEF Init, DraftsInv, NoSave, NoForm, Save, SaveRecord, Creates, Form
<1>4. <<>> \in Seq(Entry) /\ <<>> \in Seq(Call) /\ <<>> \in [{} -> Line] /\ DOMAIN <<>> = {}
  OBVIOUS
<1>5. ListInv
  BY <1>4 DEF Init, ListInv, NewView, View, Filter
<1>6. <<>> \in Partial(1..created, Line)
  BY <1>4 DEF Partial
<1>7. LinesInv
  BY <1>4, <1>6 DEF Init, LinesInv, LinesInBounds
<1>8. NoCheckout \in Checkout
  BY <1>6 DEF NoCheckout, Checkout
<1>9. CheckoutsInv
  BY <1>8 DEF Init, CheckoutsInv
<1>10. Bounded
  BY ShopConstants DEF Init, Bounded
<1>11. OrderedInv
  <2>1. \A k \in 1..MaxCheckouts : checkout[k].phase = "unused"
    BY DEF Init, NoCheckout
  <2> QED
    BY <2>1 DEF OrderedInv, Present, Single, InFlight
<1> QED
  BY <1>2, <1>3, <1>5, <1>7, <1>9, <1>10, <1>11 DEF Inv

\* Every step of the tab and of others keeps the invariant.
LEMMA ShopStep ==
    ASSUME Inv, [Next]_vars
    PROVE  Inv'
<1>1. ProductsInv' /\ OneProductPerSku' /\ DraftsInv'
  BY ProductsKept, DraftsKept
<1>2. created \in Nat /\ created' \in Nat /\ created <= created'
  BY ProductsKept, ShopConstants DEF Inv, ProductsInv
<1>3. ListInv'
  BY <1>2, ListKept, KnownGrows DEF ListInv
<1>4. LinesInv'
  <2>1. lines' \in Partial(1..created, Line) /\ \A p \in DOMAIN lines' : Fits(lines'[p])
    BY LinesKept
  <2> QED
    BY <1>2, <2>1, KnownGrows DEF LinesInv, LinesInBounds, Fits
<1>5. CheckoutsInv'
  BY <1>2, CheckoutsKept, KnownGrows DEF CheckoutsInv
<1>6. Bounded'
  <2>1. changes \in Nat /\ faults \in Nat /\ changes + faults <= MaxEvents
    BY DEF Inv, Bounded
  <2>2. \/ UNCHANGED <<changes, faults>>
        \/ Change /\ UNCHANGED faults
        \/ Fault /\ UNCHANGED changes
    BY DEF Next, OthersChange, PageStep, Open, Reload, TurnTo, Search, ReadList, ShowList, ListFails,
           CartStep, AddItem, UpdateQuantity, PlaceOrder, CreateOrder, Placed, NotPlaced,
           AdminStep, OpenForm, CloseForm, Submit, UpdateProduct, EndSave, SaveFails, DeleteProduct,
           CheckSku, InsertProduct, vars
  <2> QED
    BY <2>1, <2>2, ShopConstants DEF Bounded, Change, Fault
<1>7. OrderedInv'
  BY OrderedKept DEF OrderedInv
<1> QED
  BY <1>1, <1>3, <1>4, <1>5, <1>6, <1>7 DEF Inv

\* The invariant that all of the following read off.
THEOREM ShopHolds == Spec => []Inv
<1> QED
  BY ShopInit, ShopStep, PTL DEF Spec

\* CartContext and CartPage: whatever cards, buttons and stale stock a user goes through, a
\* line of the cart asks for one unit at least and never for more than it has seen.
THEOREM LinesFit == Spec => []CartInv
<1>1. Inv => CartInv
  <2> SUFFICES ASSUME Inv PROVE CartInv
    OBVIOUS
  <2>1. created \in 0..MaxProducts /\ product \in Partial(1..created, Product)
    BY DEF Inv, ProductsInv
  <2>2. DOMAIN product \subseteq 1..created /\ \A p \in DOMAIN product : product[p] \in Product
    BY <2>1, PartialIs
  <2>3. DOMAIN lines \subseteq 1..created /\ \A p \in DOMAIN lines : lines[p] \in Line
    BY LinesAre DEF Fits
  <2> QED
    BY <2>1, <2>2, <2>3 DEF Inv, LinesInv, Bounded, CartInv, TypeOK
<1> QED
  BY <1>1, ShopHolds, PTL

\* ProductsService.create: two admins' checks and inserts never leave a SKU twice.
THEOREM SkusStayApart == Spec => []OneProductPerSku
<1>1. Inv => OneProductPerSku
  BY DEF Inv
<1> QED
  BY <1>1, ShopHolds, PTL

\* handleCheckout: clicks and cart changes while an order is being placed do not order
\* one filling of the cart twice.
THEOREM FillingsOrderedOnce == Spec => []OrderedOnce
<1>1. Inv => OrderedOnce
  <2> SUFFICES ASSUME Inv, NEW j \in 1..MaxCheckouts, NEW k \in 1..MaxCheckouts,
                      checkout[j].phase \in {"placed", "done"}, checkout[k].phase \in {"placed", "done"},
                      checkout[j].cart = checkout[k].cart, ~(faults > 0), ~left
               PROVE  j = k
    BY DEF OrderedOnce
  <2>1. Present /\ Single
    BY ShopConstants DEF Inv, Bounded, OrderedInv
  <2>2. cart \in Nat
    BY CheckoutsAre
  <2> QED
    BY <2>1, <2>2 DEF Present, Single, InFlight
<1> QED
  BY <1>1, ShopHolds, PTL

\* findByIdAndUpdate: no save of a form that was opened earlier brings a product back.
THEOREM DeletedForGood == Spec => DeletedStaysDeleted
<1>1. Inv /\ [Next]_vars => [\A p \in 1..created : p \notin DOMAIN product => p \notin DOMAIN product']_vars
  <2> SUFFICES ASSUME Inv, [Next]_vars, NEW p \in 1..created, p \notin DOMAIN product
               PROVE  p \notin DOMAIN product'
    OBVIOUS
  <2>1. CASE Thinned
    BY <2>1 DEF Thinned
  <2>2. ASSUME NEW s \in 1..MaxSaves, InsertProduct(s) PROVE p \notin DOMAIN product'
    <3>1. created \in Nat /\ p # created + 1
      BY ShopConstants DEF Inv, ProductsInv
    <3> QED
      BY <2>2, <3>1 DEF InsertProduct, With, server
  <2> QED
    BY <2>1, <2>2, ProductsStep
<1> QED
  BY <1>1, ShopHolds, PTL DEF Spec, DeletedStaysDeleted
=============================================================================
