-------------------------------- MODULE Cart --------------------------------
(***************************************************************************)
(* The cart (Global.cart) and the three screens that show or change it:    *)
(* the detail of a piece of furniture, the cart itself and the checkout.   *)
(*                                                                         *)
(* The catalogue draws the costs when it is read, so the same piece can be *)
(* opened with another cost later.  No name of the catalogue contains      *)
(* another, so looking a row up by containment, as the code does, and by   *)
(* equality find the same row.                                             *)
(***************************************************************************)
EXTENDS Integers, SequencesExt

CONSTANTS
  Names,  \* the names of the catalogue
  Costs,  \* the costs drawn
  Limit   \* the largest quantity of a piece

ASSUME CartAssumption ==
  /\ Costs \subseteq Nat
  /\ Limit \in Nat \ {0}

VARIABLES
  cart,    \* the rows of the cart
  screen,  \* the screen on top
  opened,  \* beerDetail of the detail screen
  label    \* itemCounterLBL of the detail screen

vars == <<cart, screen, opened, label>>

-----------------------------------------------------------------------------
Piece == [name : Names, cost : Costs]
Item  == [name : Names, cost : Costs, qty : 0..Limit, total : Nat]

NamesOf(rows)  == {rows[i].name : i \in DOMAIN rows}
RowOf(rows, n) == CHOOSE i \in DOMAIN rows : rows[i].name = n

Listed == NamesOf(cart)

\* What the label says when the detail screen appears.
LabelFor(n, old) == IF n \in Listed THEN cart[RowOf(cart, n)].qty ELSE old

\* Mutant: the last row is taken off, whichever was meant.
WithoutLast(i) == RemoveAt(cart, Len(cart))

\* The cart without row i.
Without(i) == RemoveAt(cart, i)

\* The row with another quantity, and the total that goes with it.
Counted(row, q) == [row EXCEPT !.qty = q, !.total = q * row.cost]

Init ==
  /\ cart = <<>>
  /\ screen = "list"
  /\ opened \in Piece
  /\ label = 0

-----------------------------------------------------------------------------
(* The detail screen. *)

Open(p) ==
  /\ screen = "list"
  /\ screen' = "detail"
  /\ opened' = p
  /\ label' = LabelFor(p.name, 0)
  /\ UNCHANGED cart

Increase ==
  /\ screen = "detail" /\ label < Limit
  /\ label' = label + 1
  /\ UNCHANGED <<cart, screen, opened>>

Decrease ==
  /\ screen = "detail" /\ label # 0
  /\ label' = label - 1
  /\ UNCHANGED <<cart, screen, opened>>

\* Mutant: the cost is renewed, the total is not.
RequantifyNewCost ==
  /\ screen = "detail" /\ opened.name \in Listed
  /\ cart' = [cart EXCEPT ![RowOf(cart, opened.name)].qty = label,
                              ![RowOf(cart, opened.name)].cost = opened.cost]
  /\ UNCHANGED <<screen, opened, label>>

\* A piece that is in the cart gets the quantity of the label, which may be
\* zero; its total stays as it was.
Requantify ==
  /\ screen = "detail" /\ opened.name \in Listed
  /\ cart' = [cart EXCEPT ![RowOf(cart, opened.name)].qty = label]
  /\ UNCHANGED <<screen, opened, label>>

AddNew ==
  /\ screen = "detail" /\ opened.name \notin Listed
  /\ label > 0
  /\ cart' = Append(cart, [name |-> opened.name, cost |-> opened.cost, qty |-> label,
                           total |-> opened.cost * label])
  /\ UNCHANGED <<screen, opened, label>>

-----------------------------------------------------------------------------
(* The cart screen. *)

Plus(i) ==
  /\ screen = "cart" /\ i \in DOMAIN cart
  /\ cart[i].qty < Limit
  /\ cart' = [cart EXCEPT ![i] = Counted(cart[i], cart[i].qty + 1)]
  /\ UNCHANGED <<screen, opened, label>>

Minus(i) ==
  /\ screen = "cart" /\ i \in DOMAIN cart
  /\ cart[i].qty # 0
  /\ cart' = [cart EXCEPT ![i] = Counted(cart[i], cart[i].qty - 1)]
  /\ UNCHANGED <<screen, opened, label>>

\* Minus on a row whose quantity is zero.
TakeOut(i) ==
  /\ screen = "cart" /\ i \in DOMAIN cart
  /\ cart[i].qty = 0
  /\ cart' = Without(i)
  /\ UNCHANGED <<screen, opened, label>>

-----------------------------------------------------------------------------
(* Going from screen to screen. *)

Forward ==
  /\ screen \in {"detail", "cart"}
  /\ screen' = IF screen = "detail" THEN "cart" ELSE "checkout"
  /\ UNCHANGED <<cart, opened, label>>

Back ==
  \/ /\ screen = "detail" /\ screen' = "list"
     /\ UNCHANGED <<cart, opened, label>>
  \/ /\ screen = "cart" /\ screen' = "detail"
     /\ label' = LabelFor(opened.name, label)
     /\ UNCHANGED <<cart, opened>>
  \/ /\ screen = "checkout" /\ screen' = "cart"
     /\ UNCHANGED <<cart, opened, label>>

\* "Your Furniture will be delivered": back to the catalogue, the cart as it was.
Order ==
  /\ screen = "checkout"
  /\ screen' = "list"
  /\ UNCHANGED <<cart, opened, label>>

-----------------------------------------------------------------------------
Next ==
  \/ \E p \in Piece : Open(p)
  \/ Increase \/ Decrease \/ Requantify \/ AddNew
  \/ \E i \in DOMAIN cart : Plus(i) \/ Minus(i) \/ TakeOut(i)
  \/ Forward \/ Back \/ Order

Spec == Init /\ [][Next]_vars

-----------------------------------------------------------------------------
TypeOK ==
  /\ cart \in Seq(Item)
  /\ screen \in {"list", "detail", "cart", "checkout"}
  /\ opened \in Piece
  /\ label \in 0..Limit

\* A piece has one row, however often it is added, taken out and added again
\* from a detail screen that still shows its old quantity (addToCartBtnAction).
OneRow ==
  \A i, j \in DOMAIN cart : cart[i].name = cart[j].name => i = j

\* The total may be that of an earlier quantity, but it is always made of the
\* row's own cost, though the catalogue may have drawn others since
\* (addToCartBtnAction, bookbtn1).
TotalAtOwnCost ==
  \A i \in DOMAIN cart : \E q \in 0..Limit : cart[i].total = q * cart[i].cost

\* The rows implement a basket: no operation on a row touches another, pieces
\* leave only at quantity zero and enter with more (Global.cart).
Quantities(rows) == [n \in NamesOf(rows) |-> rows[RowOf(rows, n)].qty]
B == INSTANCE Basket WITH basket <- Quantities(cart)
BasketSpec == B!Spec
=============================================================================
