------------------------------ MODULE Categories ------------------------------
(***************************************************************************)
(* The tree of categories, and the products in it.                         *)
(*   apps/server/src/categories/categories.service.ts                      *)
(*   apps/server/src/products/products.service.ts   relationErrors         *)
(*                                                                         *)
(* The shop shows two levels, and products live in leaves. Both services   *)
(* check that with reads, and write later: nothing spans the two. Of a     *)
(* request only the place in the tree is kept; whatever else it checks may *)
(* refuse it.                                                              *)
(***************************************************************************)
EXTENDS FiniteSets

CONSTANTS
  CategoryIds,  \* the rows table categories may have
  Products,     \* the products
  TreeCalls     \* the requests

Top   == "top"    \* parentId is null
NoRow == "none"   \* there is no such row

ASSUME CategoriesAssumption == {Top, NoRow} \cap CategoryIds = {} /\ CategoryIds # {} /\ Products # {}

VARIABLES
  parent,  \* per category: its parentId, Top or NoRow
  home,    \* per product: its categoryId, or NoRow
  edit,    \* per call: [step, product, category, to, stale]: what it does next,
           \*   the product or category it is about, the category it goes to, and
           \*   (history) whether one of these was written since its first read
  scars    \* history: categories a stale call was about

treeRows == <<parent, home>>
treeVars == <<treeRows, edit, scars>>

Existing == {c \in CategoryIds : parent[c] # NoRow}
Children(c) == {d \in CategoryIds : parent[d] = c}
ProductsOf(c) == {p \in Products : home[p] = c}

\* A call with no place in mind.
Blank(s) == [step |-> s, product |-> CHOOSE p \in Products : TRUE, category |-> Top, to |-> Top, stale |-> FALSE]

TreeInit ==
  /\ parent \in {[c \in CategoryIds |-> IF c = a THEN Top ELSE NoRow] : a \in CategoryIds}
  /\ home = [p \in Products |-> NoRow]
  /\ edit = [k \in TreeCalls |-> Blank("idle")]
  /\ scars = {}

Ends(k) == edit' = [edit EXCEPT ![k] = Blank("done")]

\* The categories a call is about.
Concern(k) == {edit[k].category, edit[k].to} \cap CategoryIds
Open(k) == edit[k].step \notin {"idle", "done"}

\* What call j has read is about the same categories as call k.
Overlaps(j, k) == Open(j) /\ Concern(j) \cap Concern(k) # {}

\* Call k has written: it is over, and what others read of the same
\* categories may be old.
Written(k) ==
  /\ edit' = [j \in TreeCalls |-> IF j = k THEN Blank("done")
                                 ELSE IF Overlaps(j, k) THEN [edit[j] EXCEPT !.stale = TRUE] ELSE edit[j]]
  /\ scars' = IF edit[k].stale THEN scars \cup Concern(k) ELSE scars

-----------------------------------------------------------------------------
(* CategoriesService                                                       *)

\* Variant for the checks: a category with products takes subcategories.
ReceivesAnyway(p) == TRUE
\* parentHasProducts
Receives(p) == ProductsOf(p) = {}

\* assertValidParent reads the parent. Under another category it is refused;
\* the walk up from it only decides with which error.
FindParent(k, c, p) ==
  /\ edit[k].step = "idle"
  /\ p # c
  /\ parent[p] = Top
  /\ Receives(p)
  /\ edit' = [edit EXCEPT ![k] = [@ EXCEPT !.step = IF c \in Existing THEN "count children" ELSE "create",
                                           !.category = c, !.to = p]]
  /\ UNCHANGED <<treeRows, scars>>

\* hasSubcategories, of the category that moves.
CountChildren(k) ==
  /\ edit[k].step = "count children"
  /\ Children(edit[k].category) = {}
  /\ edit' = [edit EXCEPT ![k].step = "update"]
  /\ UNCHANGED <<treeRows, scars>>

\* category.create, category.update: both rows must be there (or the new one
\* not yet, and the parent by its foreign key).
WriteParent(k) ==
  LET c == edit[k].category
      p == edit[k].to
  IN /\ \/ edit[k].step = "create" /\ c \notin Existing
        \/ edit[k].step = "update" /\ c \in Existing
     /\ p \in Existing
     /\ parent' = [parent EXCEPT ![c] = p]
     /\ Written(k)
     /\ UNCHANGED home

\* create or update with no parent: nothing is checked.
MakeTop(c) ==
  /\ parent' = [parent EXCEPT ![c] = Top]
  /\ UNCHANGED <<home, edit, scars>>

\* delete reads the category with its counts.
FindEmpty(k, c) ==
  /\ edit[k].step = "idle"
  /\ c \in Existing
  /\ Children(c) = {} /\ ProductsOf(c) = {}
  /\ edit' = [edit EXCEPT ![k] = [@ EXCEPT !.step = "delete", !.category = c, !.to = c]]
  /\ UNCHANGED <<treeRows, scars>>

\* category.delete. A product that came since restricts it; a subcategory
\* that came since becomes a top-level one.
DeleteCategory(k) ==
  LET c == edit[k].category
  IN /\ edit[k].step = "delete"
     /\ c \in Existing
     /\ ProductsOf(c) = {}
     /\ parent' = [d \in CategoryIds |-> IF d = c THEN NoRow ELSE IF parent[d] = c THEN Top ELSE parent[d]]
     /\ Ends(k)
     /\ UNCHANGED <<home, scars>>

-----------------------------------------------------------------------------
(* ProductsService                                                         *)

\* relationErrors of a product that is created in, or moved to, category c.
FindLeaf(k, p, c) ==
  /\ edit[k].step = "idle"
  /\ c \in Existing
  /\ Children(c) = {}
  /\ edit' = [edit EXCEPT ![k] = [@ EXCEPT !.step = IF home[p] = NoRow THEN "create product" ELSE "move product",
                                           !.product = p, !.category = c, !.to = c]]
  /\ UNCHANGED <<treeRows, scars>>

\* product.create, product.update; the foreign key asks for the category.
FileProduct(k) ==
  LET p == edit[k].product
  IN /\ \/ edit[k].step = "create product" /\ home[p] = NoRow
        \/ edit[k].step = "move product" /\ home[p] # NoRow
     /\ edit[k].to \in Existing
     /\ home' = [home EXCEPT ![p] = edit[k].to]
     /\ Written(k)
     /\ UNCHANGED parent

\* delete of a product that was never ordered.
RemoveProduct(p) ==
  /\ home' = [home EXCEPT ![p] = NoRow]
  /\ UNCHANGED <<parent, edit, scars>>

-----------------------------------------------------------------------------

\* A request is refused or fails.
TreeCallFails(k) ==
  /\ Open(k)
  /\ Ends(k)
  /\ UNCHANGED <<treeRows, scars>>

TreeNext ==
  \/ \E c \in CategoryIds : MakeTop(c)
  \/ \E p \in Products : RemoveProduct(p)
  \/ \E k \in TreeCalls :
       \/ \E c, p \in CategoryIds : FindParent(k, c, p)
       \/ \E c \in CategoryIds : FindEmpty(k, c) \/ \E p \in Products : FindLeaf(k, p, c)
       \/ CountChildren(k) \/ WriteParent(k) \/ DeleteCategory(k) \/ FileProduct(k) \/ TreeCallFails(k)

TreeSpec == TreeInit /\ [][TreeNext]_treeVars

-----------------------------------------------------------------------------

EditSteps == {"idle", "count children", "create", "update", "delete", "create product", "move product", "done"}

\* Types: the rows, with the foreign keys held, and the calls.
TreeTypeOK ==
  /\ parent \in [CategoryIds -> CategoryIds \cup {Top, NoRow}]
  /\ home \in [Products -> CategoryIds \cup {NoRow}]
  /\ edit \in [TreeCalls -> [step : EditSteps, product : Products, category : CategoryIds \cup {Top},
                             to : CategoryIds \cup {Top}, stale : BOOLEAN]]
  /\ scars \subseteq CategoryIds
  /\ \A c \in Existing : parent[c] \in Existing \cup {Top}
  /\ \A p \in Products : home[p] # NoRow => home[p] \in Existing

\* The tree has two levels, so no cycle either, and products are in leaves:
\* the checks of the two services keep that between them, whatever is moved,
\* deleted or made top-level in the meantime. Only requests about the same
\* categories that overlap can break it, and only at those categories.
HierarchyKept ==
  \A c \in Existing \ scars :
    /\ parent[c] # Top /\ parent[c] \notin scars => parent[parent[c]] = Top
    /\ ProductsOf(c) # {} => Children(c) = {}
=============================================================================
