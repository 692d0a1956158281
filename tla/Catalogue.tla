----------------------------- MODULE Catalogue -----------------------------
(***************************************************************************)
(* The furniture list (FurnitureListView): a table of rows, a search field *)
(* that filters it and a bundled file it is read from.  A row draws its    *)
(* cost each time it is read.  The order of the rows is left out; a text   *)
(* is the set of the names that contain it, all of them for no text.       *)
(***************************************************************************)
EXTENDS Naturals

CONSTANTS
  Names,      \* the names of the file
  Costs,      \* the costs drawn
  MaxFetches  \* bound: how often the file is read

VARIABLES
  beerData,   \* the rows of the table
  searchArr,  \* the rows when the search began
  editing,    \* the search field is being edited
  beerArrRef, \* the rows as they were last read
  fetches     \* how often they were read

shelf == <<beerData, searchArr, editing, beerArrRef, fetches>>

-----------------------------------------------------------------------------
Row == [name : Names, cost : Costs]

\* The rows of the file, each with the cost drawn for it.
Priced(cost) == {[name |-> n, cost |-> cost[n]] : n \in Names}

Matching(rows, text) == {r \in rows : r.name \in text}

Init ==
  /\ beerArrRef \in {Priced(c) : c \in [Names -> Costs]}
  /\ beerData = beerArrRef
  /\ searchArr = {}
  /\ editing = FALSE
  /\ fetches = 1

\* Mutant: the copy of what was read is not renewed.
FetchedForTable(c) ==
  /\ fetches < MaxFetches
  /\ beerData' = Priced(c)
  /\ fetches' = fetches + 1
  /\ UNCHANGED beerArrRef

\* updateUIwithDetails.
Fetched(c) ==
  /\ fetches < MaxFetches
  /\ beerArrRef' = Priced(c)
  /\ beerData' = Priced(c)
  /\ fetches' = fetches + 1

\* The list appears; it is read again only if no row was left.
Appears ==
  \/ /\ beerData = {}
     /\ \E c \in [Names -> Costs] : Fetched(c)
  \/ /\ beerData # {}
     /\ UNCHANGED <<beerData, beerArrRef, fetches>>

\* Another tab and back: the field loses the keyboard, and keeps its text.
SwitchTabs ==
  /\ Appears
  /\ editing' = FALSE
  /\ UNCHANGED searchArr

BeginEditing ==
  /\ ~ editing
  /\ editing' = TRUE
  /\ searchArr' = beerData
  /\ UNCHANGED <<beerData, beerArrRef, fetches>>

EndEditing ==
  /\ editing
  /\ editing' = FALSE
  /\ UNCHANGED <<beerData, searchArr, beerArrRef, fetches>>

TextChanged(text) ==
  /\ editing
  /\ beerData' = Matching(searchArr, text)
  /\ UNCHANGED <<searchArr, editing, beerArrRef, fetches>>

\* A row is tapped: the text goes, the rows stay as the search left them, and
\* the screen on top takes the keyboard away.
Leave(r) ==
  /\ r \in beerData
  /\ editing' = FALSE
  /\ UNCHANGED <<beerData, searchArr, beerArrRef, fetches>>
=============================================================================
