------------------------------ MODULE AdminList ------------------------------
(***************************************************************************)
(* A list page of the admin: its search box, filter and page, and the      *)
(* requests that load it.                                                  *)
(*   apps/client/src/hooks/admin/useListQuery.ts, list-query.ts            *)
(*   apps/client/src/hooks/admin/useAdminList.ts, admin-list.ts            *)
(*                                                                         *)
(* React runs the effect of a change some time after it: an answer may     *)
(* come in between. Answers come in any order. Typed text is taken as      *)
(* trimmed; of the rows only the query they answer is kept.                *)
(***************************************************************************)
EXTENDS Naturals

CONSTANTS
  Terms,        \* what may be typed in the search box
  NoTerm,       \* the empty text
  Filters,      \* the filters
  FirstFilter,  \* the filter of a page that is opened
  MaxPage,      \* bound: the pages
  MaxVersion,   \* bound: reloads
  MaxRequests   \* bound: requests

ASSUME ListAssumption ==
  NoTerm \in Terms /\ FirstFilter \in Filters /\ MaxPage \in Nat \ {0} /\ MaxVersion \in Nat /\ MaxRequests \in Nat

VARIABLES
  query,     \* [search, applied, filter, page] of listQueryReducer
  typing,    \* the timeout that applies the search is set
  ready,     \* the option enabled: the query was restored from the URL
  list,      \* [rows, loading, error, loaded, version] of adminListReducer;
             \*   rows is what the request of the rows asked for
  ran,       \* the dependencies the effect last ran with, or {} before it did
  requests   \* the requests sent, in order: [of, status, cancelled]

listVars == <<query, typing, ready, list, ran, requests>>

Pages == 1 .. MaxPage
Params == [applied : Terms, filter : Filters, page : Pages]
NoRows == [applied |-> NoTerm, filter |-> FirstFilter, page |-> 0]

ListInit ==
  /\ query = [search |-> NoTerm, applied |-> NoTerm, filter |-> FirstFilter, page |-> 1]
  /\ typing = TRUE
  /\ ready \in BOOLEAN
  /\ list = [rows |-> NoRows, loading |-> TRUE, error |-> FALSE, loaded |-> FALSE, version |-> 0]
  /\ ran = {}
  /\ requests = <<>>

Sent == DOMAIN requests
Last == CHOOSE n \in 0 .. MaxRequests : Sent = 1 .. n

ParamsNow == [applied |-> query.applied, filter |-> query.filter, page |-> query.page]
\* The dependencies of the effect.
Deps == {<<ParamsNow, list.version, ready>>}

-----------------------------------------------------------------------------
(* useListQuery                                                            *)

Type(t) ==
  /\ t # query.search
  /\ query' = [query EXCEPT !.search = t]
  /\ typing' = TRUE
  /\ UNCHANGED <<ready, list, ran, requests>>

\* SEARCH_DELAY_MS after the last change. A new term starts at page one.
ApplySearch ==
  /\ typing
  /\ typing' = FALSE
  /\ query' = IF query.applied = query.search THEN query
              ELSE [query EXCEPT !.applied = query.search, !.page = 1]
  /\ UNCHANGED <<ready, list, ran, requests>>

SetFilter(f) ==
  /\ query' = [query EXCEPT !.filter = f, !.page = 1]
  /\ UNCHANGED <<typing, ready, list, ran, requests>>

SetPage(p) ==
  /\ query' = [query EXCEPT !.page = p]
  /\ UNCHANGED <<typing, ready, list, ran, requests>>

\* The query of the URL; the list waits for it.
Restore(t, f, p) ==
  /\ ~ready
  /\ query' = [search |-> t, applied |-> t, filter |-> f, page |-> p]
  /\ typing' = (typing \/ t # query.search)
  /\ ready' = TRUE
  /\ UNCHANGED <<list, ran, requests>>

-----------------------------------------------------------------------------
(* useAdminList                                                            *)

Cancelled(request) == [request EXCEPT !.cancelled = TRUE]

\* The clean-up of the effect that ran before, then the effect.
RunEffect ==
  /\ ran # Deps
  /\ Last < MaxRequests
  /\ ran' = Deps
  /\ requests' = [n \in 1 .. (IF ready THEN Last + 1 ELSE Last) |->
                    IF n > Last THEN [of |-> ParamsNow, status |-> "pending", cancelled |-> FALSE]
                    ELSE Cancelled(requests[n])]
  /\ list' = IF ready THEN [list EXCEPT !.loading = TRUE] ELSE list
  /\ UNCHANGED <<query, typing, ready>>

\* Variant for the checks: every answer is taken.
TakenAlways(n) == TRUE
\* if (!cancelled) dispatch
Taken(n) == ~requests[n].cancelled

Succeeds(n) ==
  /\ requests[n].status = "pending"
  /\ requests' = [requests EXCEPT ![n].status = "ok"]
  /\ list' = IF Taken(n)
             THEN [list EXCEPT !.rows = requests[n].of, !.loading = FALSE, !.error = FALSE, !.loaded = TRUE]
             ELSE list
  /\ UNCHANGED <<query, typing, ready, ran>>

Fails(n) ==
  /\ requests[n].status = "pending"
  /\ requests' = [requests EXCEPT ![n].status = "failed"]
  /\ list' = IF Taken(n) THEN [list EXCEPT !.loading = FALSE, !.error = TRUE] ELSE list
  /\ UNCHANGED <<query, typing, ready, ran>>

DismissError ==
  /\ list.error
  /\ list' = [list EXCEPT !.error = FALSE]
  /\ UNCHANGED <<query, typing, ready, ran, requests>>

Reload ==
  /\ list.version < MaxVersion
  /\ list' = [list EXCEPT !.version = @ + 1]
  /\ UNCHANGED <<query, typing, ready, ran, requests>>

ListNext ==
  \/ \E t \in Terms, f \in Filters, p \in Pages : Restore(t, f, p)
  \/ \E t \in Terms : Type(t)
  \/ \E f \in Filters : SetFilter(f)
  \/ \E p \in Pages : SetPage(p)
  \/ ApplySearch \/ RunEffect \/ DismissError \/ Reload
  \/ \E n \in Sent : Succeeds(n) \/ Fails(n)

ListSpec == ListInit /\ [][ListNext]_listVars

-----------------------------------------------------------------------------

\* Types: the query, the list and the requests.
ListTypeOK ==
  /\ query \in [search : Terms, applied : Terms, filter : Filters, page : Pages]
  /\ typing \in BOOLEAN /\ ready \in BOOLEAN
  /\ list \in [rows : Params \cup {NoRows}, loading : BOOLEAN, error : BOOLEAN, loaded : BOOLEAN,
               version : 0 .. MaxVersion]
  /\ Last \in 0 .. MaxRequests
  /\ \A n \in Sent : requests[n] \in [of : Params, status : {"pending", "ok", "failed"}, cancelled : BOOLEAN]

\* Once the page has caught up with a change, it says that it is loading
\* just while the request for what is asked for is out; after its answer it
\* shows that answer and no other, whatever order the answers came in.
ListIsHonest ==
  ran = Deps /\ ready =>
    /\ list.loading = (requests[Last].status = "pending")
    /\ requests[Last].status = "ok" => list.rows = ParamsNow
=============================================================================
