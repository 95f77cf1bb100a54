-------------------------------- MODULE Shop --------------------------------
(***************************************************************************)
(* The catalog and the cart of one tab, and the products behind them.  The *)
(* tab's user is an admin, who has every page a customer has and the       *)
(* product administration; other customers and admins act on the same      *)
(* products meanwhile.  An order is placed in one step here: how its stock *)
(* is reserved line by line is StockReservation.  The quantity of a line   *)
(* is counted in halves of a unit: the field of the catalog takes          *)
(* fractions, which an order does not.                                     *)
(***************************************************************************)
EXTENDS ListPage, SequencesExt

CONSTANTS
    Skus,
    Tours,          \* bound: a tab keeps to one of these sets of pages
    MaxProducts,    \* bound: products ever created; a product's id is its number
    MaxStock,       \* bound: stockQty (1 000 000 in the code)
    PageSize,       \* products of a list page (12 or 10 in the code)
    MaxCalls,       \* bound: list calls of AdminProductsPage under way at once
    MaxSaves,       \* bound: saves of products under way at once
    MaxCheckouts,   \* bound: orders the tab tries to place
    MaxEvents       \* bound: what others do, and calls that fail or time out, together

ASSUME ShopConstants ==
    /\ MaxProducts \in Nat \ {0} /\ MaxStock \in Nat \ {0} /\ PageSize \in Nat \ {0}
    /\ MaxCalls \in Nat /\ MaxSaves \in Nat /\ MaxCheckouts \in Nat /\ MaxEvents \in Nat

VARIABLES
    product,    \* the products collection: a function of the ids that are listed
    created,    \* products created so far
    save,       \* save[s]: a create or an update product-service has to answer
    lines,      \* the cart, in memory and in localStorage: a function of product ids
    cart,       \* how often the cart has been emptied by a checkout
    checkout,   \* checkout[k]: the k-th createOrder call
    left,       \* the cart page was left, or loaded anew, with a checkout under way
    tour,       \* the pages the tab's user goes to
    route,      \* the page that is mounted
    view, calls,\* its list: see ListPage
    form,       \* the product form of AdminProductsPage
    changes, faults

server == <<product, created>>
cartVars == <<lines, cart, checkout, left>>
pageVars == <<tour, route, view, calls>>
vars == <<product, created, save, lines, cart, checkout, left, tour, route, view, calls, form,
          changes, faults>>

Fault == changes + faults < MaxEvents /\ faults' = faults + 1

Ids == 1..MaxProducts
Stock == 0..MaxStock
Product == [sku : Skus, stockQty : Stock]
Line == [quantity : 2..2 * MaxStock, stockQty : Stock]

\* A save is a create when it is editing no product.  It goes on when nobody is here to
\* see its answer: the page was left, the call timed out, or another admin sent it.
NoSave == [step |-> "none", editing |-> 0, sku |-> "none", stockQty |-> 0, here |-> FALSE]
Sent(editing, sku, stockQty, here) ==
    [step |-> "sent", editing |-> editing, sku |-> sku, stockQty |-> stockQty, here |-> here]
NoForm == [open |-> FALSE, editing |-> 0, stockQty |-> 0]
NoCheckout == [phase |-> "unused", lines |-> <<>>, cart |-> 0, here |-> FALSE]
Over(call, phase) == [call EXCEPT !.phase = phase, !.lines = <<>>, !.here = FALSE]

Init ==
    /\ created \in {0, 1}
    /\ \E sku \in Skus : product = [p \in 1..created |-> [sku |-> sku, stockQty |-> MaxStock]]
    /\ save = [s \in 1..MaxSaves |-> NoSave]
    /\ lines = <<>> /\ cart = 0 /\ left = FALSE
    /\ checkout = [k \in 1..MaxCheckouts |-> NoCheckout]
    /\ tour \in Tours
    /\ route = "elsewhere" /\ view = NewView("all") /\ calls = <<>>
    /\ form = NoForm
    /\ changes = 0 /\ faults = 0

Without(f, p) == [q \in DOMAIN f \ {p} |-> f[q]]
With(f, p, x) == [q \in DOMAIN f \cup {p} |-> IF q = p THEN x ELSE f[q]]

-----------------------------------------------------------------------------
(* ProductsService.                                                        *)

SkuTaken(sku) == \E p \in DOMAIN product : product[p].sku = sku

Free(s) == save[s].step = "none" /\ \A t \in 1..s - 1 : save[t].step # "none"
Answer(s, step) ==
    save' = [save EXCEPT ![s] = IF @.here THEN [@ EXCEPT !.step = step] ELSE NoSave]

\* create looks for the SKU and inserts; the unique index has the last word.
CheckSku(s) ==
    /\ save[s].step = "sent" /\ save[s].editing = 0
    /\ IF SkuTaken(save[s].sku)
       THEN Answer(s, "refused")
       ELSE save' = [save EXCEPT ![s].step = "checked"]
    /\ UNCHANGED <<server, cartVars, pageVars, form, changes, faults>>

Unindexed(sku) == TRUE
Indexed(sku) == ~SkuTaken(sku)

InsertProduct(s) ==
    /\ save[s].step = "checked"
    /\ IF Indexed(save[s].sku)
       THEN /\ created < MaxProducts /\ created' = created + 1
            /\ product' = With(product, created + 1,
                               [sku |-> save[s].sku, stockQty |-> save[s].stockQty])
            /\ Answer(s, "done")
       ELSE Answer(s, "refused") /\ UNCHANGED server
    /\ UNCHANGED <<cartVars, pageVars, form, changes, faults>>

\* findByIdAndUpdate: a product that is gone stays gone, and is answered PRODUCT_NOT_FOUND.
Upserted(p, stockQty) == With(product, p, [sku |-> CHOOSE sku \in Skus : TRUE, stockQty |-> stockQty])
Updated(p, stockQty) ==
    IF p \in DOMAIN product THEN [product EXCEPT ![p].stockQty = stockQty] ELSE product

UpdateProduct(s) ==
    /\ save[s].step = "sent" /\ save[s].editing # 0
    /\ product' = Updated(save[s].editing, save[s].stockQty)
    /\ Answer(s, IF save[s].editing \in DOMAIN product THEN "done" ELSE "refused")
    /\ UNCHANGED <<created, cartVars, pageVars, form, changes, faults>>

\* Another admin creates, updates or deletes a product; another customer buys one.
Change == changes + faults < MaxEvents /\ changes' = changes + 1
OthersChange ==
    /\ Change
    /\ \/ \E s \in 1..MaxSaves, sku \in Skus :
            /\ Free(s)
            /\ save' = [save EXCEPT ![s] = Sent(0, sku, 1, FALSE)]
            /\ UNCHANGED product
       \/ /\ \E p \in DOMAIN product :
                \/ product' = Updated(p, MaxStock)
                \/ product' = Without(product, p)
                \/ product[p].stockQty > 0 /\ product' = Updated(p, product[p].stockQty - 1)
          /\ UNCHANGED save
    /\ UNCHANGED <<created, cartVars, pageVars, form, faults>>

-----------------------------------------------------------------------------
(* Navigation.                                                             *)

Lists == {"catalog", "admin/products"}
Kind == IF route' = "catalog" THEN CatalogPage ELSE AdminProductsPage
Ask(next) ==
    /\ view' = next /\ calls' = Calls(Kind, calls, next)
    /\ Kind.discards \/ Len(calls') <= MaxCalls

InFlight == {"sent", "placed", "refused"}
Unmounted == [k \in 1..MaxCheckouts |-> [checkout[k] EXCEPT !.here = FALSE]]
Awaiting == \E k \in 1..MaxCheckouts : checkout[k].here /\ checkout[k].phase \in InFlight

\* Nobody waits for the tab's save any more; product-service goes on with it.
Detached ==
    [s \in 1..MaxSaves |->
        IF save[s].step \in {"done", "refused"} THEN NoSave ELSE [save[s] EXCEPT !.here = FALSE]]
DropForm == form' = NoForm /\ save' = Detached

Unmount ==
    /\ checkout' = Unmounted
    /\ left' = (left \/ Awaiting)
    /\ DropForm
    /\ UNCHANGED <<lines, cart>>

Open(to) ==
    /\ to \in tour /\ route # to /\ route' = to /\ UNCHANGED tour
    /\ Unmount
    /\ view' = NewView("all")
    /\ calls' = IF to \in Lists THEN <<NewCall(NewView("all"))>> ELSE <<>>
    /\ UNCHANGED <<server, changes, faults>>

\* The page is loaded anew: the cart comes back from localStorage, no call does.
Reload ==
    /\ checkout' = [k \in 1..MaxCheckouts |->
            IF checkout[k].phase \in InFlight
            THEN IF checkout[k].phase = "sent"
                 THEN [checkout[k] EXCEPT !.here = FALSE, !.phase = "abandoned"]
                 ELSE Over(checkout[k], IF checkout[k].phase = "placed" THEN "done" ELSE "failed")
            ELSE checkout[k]]
    /\ left' = (left \/ \E k \in 1..MaxCheckouts : checkout[k].phase \in InFlight)
    /\ route' = "elsewhere" /\ view' = NewView("all") /\ calls' = <<>> /\ UNCHANGED tour
    /\ DropForm
    /\ UNCHANGED <<server, lines, cart, changes, faults>>

-----------------------------------------------------------------------------
(* The list of CatalogPage and AdminProductsPage.                          *)

Listing(search) ==
    LET newest == NewestFirst({p \in DOMAIN product : search \in {"all", product[p].sku}})
    IN  [n \in DOMAIN newest |-> [id |-> newest[n], stockQty |-> product[newest[n]].stockQty]]

TurnTo(page) ==
    /\ route \in Lists /\ UNCHANGED <<tour, route>>
    /\ page \in Offered(Kind, view, PageSize) \ {view.page}
    /\ Ask(Turned(Kind, view, page))
    /\ UNCHANGED <<server, save, cartVars, form, changes, faults>>

Search(sku) ==
    /\ route \in Lists /\ UNCHANGED <<tour, route>>
    /\ view.filter # sku
    /\ Ask(Filtered(Kind, view, sku))
    /\ UNCHANGED <<server, save, cartVars, form, changes, faults>>

\* The two queries, for the products and their number, are one step here.
ReadList(c) ==
    /\ ~Answered(calls[c])
    /\ calls' = [calls EXCEPT ![c] = Counted(EntriesRead(@, Listing(@.filter), PageSize), Listing(@.filter))]
    /\ UNCHANGED <<server, save, cartVars, tour, route, view, form, changes, faults>>

ShowList(c) ==
    /\ Answered(calls[c]) /\ UNCHANGED <<tour, route>>
    /\ view' = Shown(Kind, view, calls[c]) /\ calls' = RemoveAt(calls, c)
    /\ UNCHANGED <<server, save, cartVars, form, changes, faults>>

ListFails(c) ==
    /\ Fault
    /\ view' = Failed(view) /\ calls' = RemoveAt(calls, c)
    /\ UNCHANGED <<server, save, cartVars, tour, route, form, changes>>

-----------------------------------------------------------------------------
(* CartContext and CartPage.                                               *)

\* addItem, from a card of the catalog that shows some stock.
CappedNever(quantity, stockQty) == quantity
Capped(quantity, stockQty) == Lesser(quantity, 2 * stockQty)

AddedTo(p, quantity, stockQty) ==
    LET before == IF p \in DOMAIN lines THEN lines[p].quantity ELSE 0
    IN  With(lines, p, [quantity |-> Capped(before + quantity, stockQty), stockQty |-> stockQty])

AddItem(n, quantity) ==
    /\ route = "catalog" /\ ~view.loading /\ view.items[n].stockQty > 0
    /\ lines' = AddedTo(view.items[n].id, quantity, view.items[n].stockQty)
    /\ UNCHANGED <<server, save, cart, checkout, left, pageVars, form, changes, faults>>

\* updateQuantity by the buttons of the cart page, and removeItem: also while placing.
UpdateQuantity(p) ==
    /\ route = "cart"
    /\ \/ lines' = With(lines, p, [lines[p] EXCEPT !.quantity = Greater(2, Capped(@ - 2, lines[p].stockQty))])
       \/ /\ lines[p].quantity < 2 * lines[p].stockQty
          /\ lines' = With(lines, p, [lines[p] EXCEPT !.quantity = Greater(2, Capped(@ + 2, lines[p].stockQty))])
       \/ lines' = Without(lines, p)
    /\ UNCHANGED <<server, save, cart, checkout, left, pageVars, form, changes, faults>>

\* handleCheckout; the button is disabled while this mounting of the page is placing.
PlaceableAlways == TRUE
Placeable == ~Awaiting

PlaceOrder(k) ==
    /\ route = "cart" /\ lines # <<>> /\ Placeable
    /\ checkout[k].phase = "unused" /\ \A j \in 1..k - 1 : checkout[j].phase # "unused"
    /\ checkout' = [checkout EXCEPT ![k] = [phase |-> "sent", lines |-> lines, cart |-> cart, here |-> TRUE]]
    /\ UNCHANGED <<server, save, lines, cart, left, pageVars, form, changes, faults>>

\* The order is placed if every line asks for whole units and can be reserved, also when
\* nobody waits any more.
Units(line) == line.quantity \div 2
Reservable(wanted) ==
    \A p \in DOMAIN wanted :
        wanted[p].quantity % 2 = 0 /\ p \in DOMAIN product /\ Units(wanted[p]) <= product[p].stockQty

CreateOrder(k) ==
    /\ checkout[k].phase \in {"sent", "abandoned"}
    /\ LET wanted == checkout[k].lines
           answered == checkout[k].phase = "sent"
       IN  IF Reservable(wanted)
           THEN /\ product' = [p \in DOMAIN product |->
                        IF p \in DOMAIN wanted
                        THEN [product[p] EXCEPT !.stockQty = @ - Units(wanted[p])] ELSE product[p]]
                /\ checkout' = [checkout EXCEPT ![k] =
                        IF answered THEN [@ EXCEPT !.phase = "placed"] ELSE Over(@, "done")]
           ELSE /\ UNCHANGED product
                /\ checkout' = [checkout EXCEPT ![k] =
                        IF answered THEN [@ EXCEPT !.phase = "refused"] ELSE Over(@, "failed")]
    /\ UNCHANGED <<created, save, lines, cart, left, pageVars, form, changes, faults>>

\* The answer empties the cart, whatever it holds by now, and leads to the order's page.
Cleared == <<>>
Placed(k) ==
    /\ checkout[k].phase = "placed"
    /\ checkout' = [Unmounted EXCEPT ![k] = Over(@, "done")]
    /\ left' = (left \/ \E j \in 1..MaxCheckouts \ {k} : checkout[j].here /\ checkout[j].phase \in InFlight)
    /\ lines' = Cleared /\ cart' = cart + 1
    /\ route' = "elsewhere" /\ view' = NewView("all") /\ calls' = <<>> /\ UNCHANGED tour
    /\ DropForm
    /\ UNCHANGED <<server, changes, faults>>

\* A refusal is shown and the cart kept; so it is when no answer comes in time, though
\* the order may have been placed, or is placed afterwards.
NotPlaced(k) ==
    /\ \/ checkout[k].phase = "refused" /\ UNCHANGED faults
       \/ checkout[k].phase \in {"sent", "placed"} /\ Fault
    /\ checkout' = [checkout EXCEPT ![k] =
            CASE @.phase = "sent" -> [@ EXCEPT !.phase = "abandoned", !.here = FALSE]
              [] @.phase = "placed" -> Over(@, "done")
              [] OTHER -> Over(@, "failed")]
    /\ UNCHANGED <<lines, server, save, cart, left, pageVars, form, changes>>

-----------------------------------------------------------------------------
(* AdminProductsPage: the form sends back the stock it was opened with, or *)
(* what the admin typed.                                                   *)

Saving == \E s \in 1..MaxSaves : save[s].here

OpenForm ==
    /\ route = "admin/products" /\ ~form.open
    /\ \/ \E n \in DOMAIN view.items :
            /\ ~view.loading
            /\ form' = [open |-> TRUE, editing |-> view.items[n].id, stockQty |-> view.items[n].stockQty]
       \/ form' = [open |-> TRUE, editing |-> 0, stockQty |-> 1]
    /\ UNCHANGED <<server, save, cartVars, pageVars, changes, faults>>

Submit ==
    /\ form.open /\ ~Saving
    /\ \E s \in 1..MaxSaves, sku \in IF form.editing = 0 THEN Skus ELSE {"none"} :
         Free(s) /\ save' = [save EXCEPT ![s] = Sent(form.editing, sku, form.stockQty, TRUE)]
    /\ UNCHANGED <<server, cartVars, pageVars, form, changes, faults>>

\* The form's Cancel, or a click beside it; not while it saves.
CloseForm ==
    /\ form.open /\ ~Saving
    /\ form' = NoForm
    /\ UNCHANGED <<server, save, cartVars, pageVars, changes, faults>>

\* Saved: the form closes and the list is loaded again.
EndSave(s) ==
    /\ save[s].step = "done"
    /\ DropForm
    /\ UNCHANGED <<tour, route>> /\ Ask(Asking(Kind, view))
    /\ UNCHANGED <<server, cartVars, changes, faults>>

\* The form stays open with the error, and can be sent again: also when no answer came in
\* time, though product-service may have saved already, or will.
SaveFails(s) ==
    /\ save[s].here
    /\ \/ save[s].step = "refused" /\ UNCHANGED faults
       \/ save[s].step # "refused" /\ Fault
    /\ save' = Detached
    /\ UNCHANGED <<server, cartVars, pageVars, form, changes>>

\* handleDelete, answered at once here: deleted, or kept for an order that needs it.
DeleteProduct(n) ==
    /\ route = "admin/products" /\ ~view.loading /\ ~form.open
    /\ view.items[n].id \in DOMAIN product
    /\ product' = Without(product, view.items[n].id)
    /\ UNCHANGED <<tour, route>> /\ Ask(Asking(Kind, view))
    /\ UNCHANGED <<created, save, cartVars, form, changes, faults>>

-----------------------------------------------------------------------------
PageStep ==
    \/ \E to \in Lists \cup {"cart"} : Open(to)
    \/ Reload
    \/ \E page \in Ids : TurnTo(page)
    \/ \E sku \in Skus \cup {"all"} : Search(sku)
    \/ \E c \in DOMAIN calls : ReadList(c) \/ ShowList(c) \/ ListFails(c)
CartStep ==
    \/ \E n \in DOMAIN view.items, quantity \in 2..2 * MaxStock : AddItem(n, quantity)
    \/ \E p \in DOMAIN lines : UpdateQuantity(p)
    \/ \E k \in 1..MaxCheckouts : PlaceOrder(k) \/ CreateOrder(k) \/ Placed(k) \/ NotPlaced(k)
AdminStep ==
    \/ OpenForm \/ CloseForm \/ Submit
    \/ \E n \in DOMAIN view.items : DeleteProduct(n)
    \/ \E s \in 1..MaxSaves :
          CheckSku(s) \/ InsertProduct(s) \/ UpdateProduct(s) \/ EndSave(s) \/ SaveFails(s)

Next == OthersChange \/ PageStep \/ CartStep \/ AdminStep

Spec == Init /\ [][Next]_vars

-----------------------------------------------------------------------------
(* Properties.                                                             *)

\* Every variable has its shape.
TypeOK ==
    /\ DOMAIN product \subseteq 1..created /\ created \in 0..MaxProducts
    /\ \A p \in DOMAIN product : product[p] \in Product
    /\ DOMAIN lines \subseteq 1..created
    /\ \A p \in DOMAIN lines : lines[p] \in Line
    /\ changes \in Nat /\ faults \in Nat /\ changes + faults <= MaxEvents

\* Whatever is added, counted up or down, and whatever stock a card of the catalog still
\* shows, a line of the cart is an order for one unit at least and no more than the
\* stock it remembers.
LinesInBounds == \A p \in DOMAIN lines : lines[p].quantity \in 2..2 * lines[p].stockQty
CartInv == TypeOK /\ LinesInBounds

\* No two products ever have the same SKU, however two admins' checks and inserts meet.
OneProductPerSku ==
    \A p, q \in DOMAIN product : product[p].sku = product[q].sku => p = q

\* A cart is ordered once: two orders come from one filling of the cart only after a call
\* failed, or when the page was left, or loaded anew, while it was placing.
OrderedOnce ==
    \A j, k \in 1..MaxCheckouts :
        /\ checkout[j].phase \in {"placed", "done"} /\ checkout[k].phase \in {"placed", "done"}
        /\ checkout[j].cart = checkout[k].cart
        => j = k \/ faults > 0 \/ left

\* A deleted product never comes back, also when a form that was opened before is saved.
DeletedStaysDeleted ==
    [][\A p \in 1..created : p \notin DOMAIN product => p \notin DOMAIN product']_vars
=============================================================================
