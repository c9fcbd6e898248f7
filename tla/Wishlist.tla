------------------------------- MODULE Wishlist -------------------------------
(***************************************************************************)
(* The wishlist of a shopper who signs in and out, in one tab.             *)
(*   apps/client/src/store/wishlist.ts                                     *)
(*   apps/client/src/components/storefront/SessionSync.tsx                 *)
(*   apps/server/src/wishlist/wishlist.service.ts                          *)
(*                                                                         *)
(* A guest's list is in localStorage; at sign-in it is merged into the     *)
(* account. Between a request and its answer anything may happen, and      *)
(* the answer may be lost after the server has done what it was asked.     *)
(***************************************************************************)
EXTENDS Naturals, FiniteSets

CONSTANTS
  WishCalls,  \* the requests of the store that are out at once
  Wishes,     \* the products
  MaxLocal    \* MAX_LOCAL_ITEMS

ASSUME WishesAssumption == MaxLocal \in Nat \ {0}

VARIABLES
  signedIn,  \* the session has a user
  mode,      \* guest or user
  shown,     \* products of the store
  local,     \* the products in localStorage
  server,    \* the rows of table wishlists
  visible,   \* the products that are active
  job,       \* per request: what it is, and how far
  ids,       \* per request: the products it was sent with
  memo,      \* per request: the list to go back to, or the list of the answer
  owed       \* history: products saved as a guest, and not removed or hidden
             \*   since, and uncontested when they were saved

wishesVars == <<signedIn, mode, shown, local, server, visible, job, ids, memo, owed>>

WishesInit ==
  /\ signedIn = FALSE
  /\ mode = "guest"
  /\ local \in SUBSET Wishes
  /\ Cardinality(local) <= MaxLocal
  /\ shown = local
  /\ server = {}
  /\ visible = Wishes
  /\ job = [k \in WishCalls |-> "idle"]
  /\ ids = [k \in WishCalls |-> {}]
  /\ memo = [k \in WishCalls |-> {}]
  /\ owed = local

Now(k, next) == job' = [job EXCEPT ![k] = next]

\* The request is over, with what it held; another may take its name.
Over(k) ==
  /\ Now(k, "idle")
  /\ ids' = [ids EXCEPT ![k] = {}]
  /\ memo' = [memo EXCEPT ![k] = {}]

Send(k, kind, products, back) ==
  /\ job[k] = "idle"
  /\ Now(k, kind)
  /\ ids' = [ids EXCEPT ![k] = products]
  /\ memo' = [memo EXCEPT ![k] = back]

\* A request that will overwrite or drop the local list is out, or an
\* earlier removal of p.
Contested(p) ==
  \E k \in WishCalls : \/ job[k] \in {"sync", "merged", "refresh"}
                       \/ job[k] = "remove" /\ p \in ids[k]

-----------------------------------------------------------------------------
(* toggle and remove                                                       *)

\* A full local list loses its first product.
SaveAsGuest(p) ==
  /\ mode = "guest" /\ p \notin shown
  /\ shown' = shown \cup {p}
  /\ \E dropped \in SUBSET local :
       /\ Cardinality(dropped) = IF Cardinality(local) >= MaxLocal THEN 1 ELSE 0
       /\ local' = (local \ dropped) \cup {p}
       /\ owed' = (owed \ (dropped \ {p})) \cup (IF Contested(p) THEN {} ELSE {p} \cap visible)
  /\ UNCHANGED <<signedIn, mode, server, visible, job, ids, memo>>

RemoveAsGuest(p) ==
  /\ mode = "guest" /\ p \in shown
  /\ shown' = shown \ {p}
  /\ local' = local \ {p}
  /\ owed' = owed \ {p}
  /\ UNCHANGED <<signedIn, mode, server, visible, job, ids, memo>>

\* Shown at once; taken back if the request fails.
SaveAsUser(k, p) ==
  /\ mode = "user" /\ p \notin shown
  /\ Send(k, "add", {p}, shown)
  /\ shown' = shown \cup {p}
  /\ UNCHANGED <<signedIn, mode, local, server, visible, owed>>

RemoveAsUser(k, p) ==
  /\ mode = "user" /\ p \in shown
  /\ Send(k, "remove", {p}, shown)
  /\ shown' = shown \ {p}
  /\ owed' = owed \ {p}
  /\ UNCHANGED <<signedIn, mode, local, server, visible>>

\* addToWishlist (of a visible product), removeFromWishlist. A request is of
\* the session it was sent with, whatever became of that.
Write(k) ==
  /\ job[k] \in {"add", "remove"}
  /\ \/ job[k] = "add" /\ ids[k] \subseteq visible /\ server' = server \cup ids[k]
     \/ job[k] = "remove" /\ server' = server \ ids[k]
  /\ Now(k, "written")
  /\ ids' = [ids EXCEPT ![k] = {}]
  /\ UNCHANGED <<signedIn, mode, shown, local, visible, memo, owed>>

WriteFails(k) ==
  /\ job[k] \in {"add", "remove", "written"}
  /\ Over(k)
  /\ shown' = memo[k]
  /\ UNCHANGED <<signedIn, mode, local, server, visible, owed>>

WriteAnswered(k) ==
  /\ job[k] = "written"
  /\ Over(k)
  /\ UNCHANGED <<signedIn, mode, shown, local, server, visible, owed>>

-----------------------------------------------------------------------------
(* loadGuest, refreshGuest                                                 *)

SignOut ==
  /\ signedIn
  /\ signedIn' = FALSE
  /\ mode' = "guest"
  /\ shown' = local
  /\ UNCHANGED <<local, server, visible, job, ids, memo, owed>>

Refresh(k) ==
  /\ mode = "guest" /\ local # {}
  /\ Send(k, "refresh", local, {})
  /\ UNCHANGED <<signedIn, mode, shown, local, server, visible, owed>>

\* The list of the start of the refresh, without what was found hidden.
Refreshed(k) ==
  /\ job[k] = "refresh"
  /\ Over(k)
  /\ \/ /\ mode = "guest"
        /\ \E hidden \in SUBSET (ids[k] \ visible) : local' = ids[k] \ hidden
        /\ shown' = local'
     \/ mode = "user" /\ UNCHANGED <<shown, local>>
  /\ UNCHANGED <<signedIn, mode, server, visible, owed>>

-----------------------------------------------------------------------------
(* syncUser                                                                *)

SignIn(k) ==
  /\ ~signedIn
  /\ signedIn' = TRUE
  /\ Send(k, "sync", local, {})
  /\ UNCHANGED <<mode, shown, local, server, visible, owed>>

\* merge, then getWishlist; of an empty list, getWishlist only.
MergeWishes(k) ==
  /\ job[k] = "sync"
  /\ server' = server \cup (ids[k] \cap visible)
  /\ memo' = [memo EXCEPT ![k] = server' \cap visible]
  /\ Now(k, "merged")
  /\ UNCHANGED <<signedIn, mode, shown, local, visible, ids, owed>>

Synced(k) ==
  /\ job[k] = "merged"
  /\ local' = IF ids[k] # {} THEN {} ELSE local
  /\ mode' = "user"
  /\ shown' = memo[k]
  /\ Over(k)
  /\ UNCHANGED <<signedIn, server, visible, owed>>

\* Variant for the checks: the local copy is dropped all the same.
LocalDropped(k) == {}
\* Only drop the local copy once the server has it.
LocalKept(k) == local

SyncFails(k) ==
  /\ job[k] \in {"sync", "merged"}
  /\ local' = LocalKept(k)
  /\ mode' = "user"
  /\ Over(k)
  /\ UNCHANGED <<signedIn, shown, server, visible, owed>>

\* An admin hides a product.
Hide(p) ==
  /\ visible' = visible \ {p}
  /\ owed' = owed \ {p}
  /\ UNCHANGED <<signedIn, mode, shown, local, server, job, ids, memo>>

WishesNext ==
  \/ \E p \in Wishes : SaveAsGuest(p) \/ RemoveAsGuest(p) \/ Hide(p)
  \/ SignOut
  \/ \E k \in WishCalls :
       \/ \E p \in Wishes : SaveAsUser(k, p) \/ RemoveAsUser(k, p)
       \/ Write(k) \/ WriteFails(k) \/ WriteAnswered(k)
       \/ Refresh(k) \/ Refreshed(k)
       \/ SignIn(k) \/ MergeWishes(k) \/ Synced(k) \/ SyncFails(k)

WishesSpec == WishesInit /\ [][WishesNext]_wishesVars

-----------------------------------------------------------------------------

\* Types: the lists and the requests.
WishesTypeOK ==
  /\ signedIn \in BOOLEAN
  /\ mode \in {"guest", "user"}
  /\ {shown, local, server, visible, owed} \subseteq SUBSET Wishes
  /\ job \in [WishCalls -> {"idle", "add", "remove", "written", "refresh", "sync", "merged"}]
  /\ ids \in [WishCalls -> SUBSET Wishes]
  /\ memo \in [WishCalls -> SUBSET Wishes]

\* A product saved as a guest is in the browser or in the account until the
\* shopper removes it or the shop hides it, through sign-ins, sign-outs and
\* lost answers. Excepted is what was saved while a sync or a refresh was
\* out (both end by writing what they read before) or a removal of it.
WishesKept == owed \subseteq local \cup server
=============================================================================
