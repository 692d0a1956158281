-------------------------------- MODULE Shop --------------------------------
(***************************************************************************)
(* The Dashboard tab: the furniture list and the cart.  The list works     *)
(* only while no other screen lies on it, a detail is opened from a row,   *)
(* and the list appears again when the screens above it are taken away.    *)
(***************************************************************************)
EXTENDS Cart

CONSTANT MaxFetches  \* bound: how often the file is read

ASSUME ShopAssumption == MaxFetches \in Nat \ {0}

VARIABLES beerData, searchArr, editing, beerArrRef, fetches

L == INSTANCE Catalogue

shelf == <<beerData, searchArr, editing, beerArrRef, fetches>>

-----------------------------------------------------------------------------
OpenShop ==
  /\ L!Init
  /\ cart = <<>> /\ screen = "list" /\ label = 0
  /\ opened \in beerArrRef

\* The user works on the list.
Browse ==
  /\ screen = "list"
  /\ \/ L!SwitchTabs \/ L!BeginEditing \/ L!EndEditing
     \/ \E text \in SUBSET Names : L!TextChanged(text)
  /\ UNCHANGED vars

Select(p) ==
  /\ L!Leave(p)
  /\ Open(p)

\* Detail, cart and checkout leave the list alone while they cover it.
Above ==
  /\ \/ Increase \/ Decrease \/ Requantify \/ AddNew
     \/ \E i \in DOMAIN cart : Plus(i) \/ Minus(i) \/ TakeOut(i)
     \/ Forward
     \/ Back /\ screen' # "list"
  /\ UNCHANGED shelf

\* The screens on the list are taken away, and it appears.
Uncover ==
  /\ \/ Back /\ screen' = "list"
     \/ Order
  /\ L!Appears
  /\ UNCHANGED <<searchArr, editing>>

ShopNext ==
  \/ Browse
  \/ \E p \in beerData : Select(p)
  \/ Above
  \/ Uncover

ShopSpec == OpenShop /\ [][ShopNext]_<<vars, shelf>>

-----------------------------------------------------------------------------
\* The prices the customer meets are those of the list: the rows of a search
\* are rows of the last reading, though it filters a copy; the piece in the
\* detail is listed at that cost as long as a screen covers the list; and as
\* long as the file was read once, so is every row of the cart
\* (viewWillAppear, textDidChange, addToCartBtnAction).
PricesAgree ==
  /\ beerData \subseteq beerArrRef
  /\ editing => searchArr \subseteq beerArrRef
  /\ screen # "list" => opened \in beerData
  /\ fetches = 1 =>
       \A i \in DOMAIN cart : [name |-> cart[i].name, cost |-> cart[i].cost] \in beerArrRef

\* Whatever the list does, the cart, its screens and its label make steps of
\* Cart: searching, reading again and coming back interfere with none of them
\* (FurnitureListView, FurnitureDetailViewController).
CartSpec == Spec
=============================================================================
