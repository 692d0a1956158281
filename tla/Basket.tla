------------------------------- MODULE Basket -------------------------------
(***************************************************************************)
(* What a cart promises: some items, each with a quantity.  An item enters *)
(* with a quantity that is not zero and leaves only when its quantity is   *)
(* zero; what happens to one item leaves every other alone.                *)
(***************************************************************************)
EXTENDS Integers

CONSTANTS Names, Limit

VARIABLE basket  \* the quantity of each item in it

Init == basket = [n \in {} |-> 0]

\* The basket with q of item n.
With(n, q) == [m \in DOMAIN basket \cup {n} |-> IF m = n THEN q ELSE basket[m]]

Enter(n, q) ==
  /\ n \notin DOMAIN basket
  /\ q \in 1..Limit
  /\ basket' = With(n, q)

Change(n, q) ==
  /\ n \in DOMAIN basket
  /\ q \in 0..Limit
  /\ basket' = With(n, q)

Leave(n) ==
  /\ n \in DOMAIN basket
  /\ basket[n] = 0
  /\ basket' = [m \in DOMAIN basket \ {n} |-> basket[m]]

Next ==
  \E n \in Names :
    \/ \E q \in 0..Limit : Enter(n, q) \/ Change(n, q)
    \/ Leave(n)

Spec == Init /\ [][Next]_basket
=============================================================================
