------------------------------ MODULE MenuCopy ------------------------------
(***************************************************************************)
(* What CreateRestaurant created from another restaurant of the account     *)
(* (internal/handlers/restaurants.go), while that one's menu is edited     *)
(* (menu.go).  Every statement of the copy reads what is committed when it *)
(* starts; the edits are transactions of one statement, and nothing waits. *)
(***************************************************************************)
EXTENDS Naturals

CONSTANTS
    Category, Item,  \* ids of the source's rows (a bound)
    Uncategorised    \* category_id IS NULL

VARIABLES
    categories,   \* rows of menu_categories that are not deleted
    retired,      \* ... that are
    menu,         \* menu_items that are not deleted
    withdrawn,    \* ... that are
    categoryOf,   \* menu_items.category_id
    created,      \* the menu of the restaurant created last
    pc, copy,     \* the next statement of the request that created, its variables
    \* For the properties only: the categories there were at a moment of the
    \* request with the items there were at that moment or a later one of it.
    moments

source == <<categories, retired, menu, withdrawn, categoryOf>>
vars == <<source, created, pc, copy, moments>>

NoCopy == [categories |-> {}, items |-> {}]

Init ==
    /\ categories = {}
    /\ retired = {}
    /\ menu = {}
    /\ withdrawn = {}
    /\ categoryOf = [i \in Item |-> Uncategorised]
    /\ created = NoCopy
    /\ pc = "idle"
    /\ copy = NoCopy
    /\ moments = {}

-----------------------------------------------------------------------------
(* Edits                                                                   *)

Edited ==
    /\ moments' = IF pc = "idle" THEN moments
                  ELSE moments \cup {<<categories', menu'>>} \cup {<<m[1], menu'>> : m \in moments}
    /\ UNCHANGED <<created, pc, copy>>

AddCategory(g) ==
    /\ g \notin categories \cup retired
    /\ categories' = categories \cup {g}
    /\ UNCHANGED <<retired, menu, withdrawn, categoryOf>>
    /\ Edited

\* Its items stay, with the category they had.
DeleteCategory(g) ==
    /\ g \in categories
    /\ categories' = categories \ {g}
    /\ retired' = retired \cup {g}
    /\ UNCHANGED <<menu, withdrawn, categoryOf>>
    /\ Edited

\* The foreign key accepts a category that was deleted since the form was shown.
AddMenuItem(i, g) ==
    /\ i \notin menu \cup withdrawn
    /\ g \in categories \cup retired \cup {Uncategorised}
    /\ menu' = menu \cup {i}
    /\ categoryOf' = [categoryOf EXCEPT ![i] = g]
    /\ UNCHANGED <<categories, retired, withdrawn>>
    /\ Edited

DeleteMenuItem(i) ==
    /\ i \in menu
    /\ menu' = menu \ {i}
    /\ withdrawn' = withdrawn \cup {i}
    /\ UNCHANGED <<categories, retired, categoryOf>>
    /\ Edited

-----------------------------------------------------------------------------
(* The copy                                                                *)

Proceed(mine, statement) ==
    /\ copy' = mine
    /\ pc' = statement
    /\ moments' = CASE statement = "idle" -> {}
                    [] pc = "idle" -> {<<categories, menu>>}
                    [] OTHER -> moments
    /\ UNCHANGED source

Rollback == Proceed(NoCopy, "idle") /\ UNCHANGED created

Abort == pc # "idle" /\ Rollback

CreateRestaurant ==
    /\ pc = "idle"
    /\ Proceed(NoCopy, "categories")
    /\ UNCHANGED created

\* SELECT FROM menu_categories, and an INSERT of each: categoryIDs.
CopyCategories ==
    /\ pc = "categories"
    /\ Proceed([copy EXCEPT !.categories = categories], "items")
    /\ UNCHANGED created

CategoryKept(i) == categoryOf[i] \in copy.categories \cup {Uncategorised}

OrphansUncategorised ==
    LET kept(i) == IF CategoryKept(i) THEN categoryOf[i] ELSE Uncategorised
    IN  /\ pc = "items"
        /\ Proceed([copy EXCEPT !.items = {[item |-> i, category |-> kept(i)] : i \in menu}],
                   "commit")
        /\ UNCHANGED created

\* SELECT FROM menu_items, and an INSERT of each.  The map gives "" for a
\* category it does not have, which is no uuid: the statement fails, and the
\* new restaurant goes with it.
CopyItems ==
    /\ pc = "items"
    /\ \/ /\ \A i \in menu : CategoryKept(i)
          /\ Proceed([copy EXCEPT !.items =
                      {[item |-> i, category |-> categoryOf[i]] : i \in menu}], "commit")
          /\ UNCHANGED created
       \/ ~(\A i \in menu : CategoryKept(i)) /\ Rollback

\* Tables and stock are copied by one statement each; COMMIT.
Commit ==
    /\ pc = "commit"
    /\ created' = copy
    /\ Proceed(NoCopy, "idle")

-----------------------------------------------------------------------------
(* The specification                                                       *)

Next ==
    \/ \E g \in Category : AddCategory(g) \/ DeleteCategory(g)
    \/ \E i \in Item : \/ DeleteMenuItem(i)
                       \/ \E g \in Category \cup {Uncategorised} : AddMenuItem(i, g)
    \/ CreateRestaurant \/ CopyCategories \/ CopyItems \/ Commit \/ Abort

-----------------------------------------------------------------------------
(* Properties                                                              *)

\* Categories and items are read by two statements, between which both are
\* edited, and a deleted category leaves its items behind.  The categories of a
\* new restaurant are all those its source had at one moment of the request, its
\* items all those of the same or a later moment, each in the copy of the category
\* it has.  The two need not have been one menu: an item added meanwhile without a
\* category comes along with categories deleted meanwhile (restaurants.go:148, 175).
Fresh(m) ==
    /\ <<m.categories, {entry.item : entry \in m.items}>> \in moments
    /\ \A entry \in m.items :
          /\ entry.category = categoryOf[entry.item]
          /\ entry.category \in m.categories \cup {Uncategorised}

CopyIsFresh == [][Fresh(created')]_created

=============================================================================
