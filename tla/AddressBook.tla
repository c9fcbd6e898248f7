----------------------------- MODULE AddressBook -----------------------------
(***************************************************************************)
(* The saved addresses of one user, and which of them is the default.      *)
(*   apps/server/src/addresses/addresses.service.ts                        *)
(*                                                                         *)
(* Every request is a transaction at READ COMMITTED: each statement sees   *)
(* what was committed when it began, waits for the rows others have        *)
(* written, and looks at them again; its writes show when it commits. Of   *)
(* requests that wait for each other the database fails one.               *)
(***************************************************************************)
EXTENDS Naturals, FiniteSets

CONSTANTS
  AddressCalls,  \* the requests
  MaxAddresses,  \* MAX_ADDRESSES_PER_USER
  MaxSaved       \* bound: the addresses are 1 .. MaxSaved, as they were saved

ASSUME AddressAssumption == MaxAddresses \in Nat \ {0} /\ MaxSaved \in Nat /\ IsFiniteSet(AddressCalls)

VARIABLES
  book,     \* per address: unsaved, plain, default (isDefault), removed
  deed,     \* per call: what it does next
  target,   \* per call: the address it is about, 0 if a new one
  sets,     \* per call: the address becomes the default
  unset,    \* per call: the addresses its updateMany clears
  heir,     \* per removal: the address it promotes, or 0
  late,     \* history: per call, another one committed since its first read
  torn,     \* history: a late call has committed, and since then no call that
            \*   was not late has made an address the default
  lateSaves \* history: addresses saved by late calls

callReads == <<target, sets, unset, heir>>
bookHistory == <<torn, lateSaves>>
bookVars == <<book, deed, callReads, late, bookHistory>>

AddressIds == 1 .. MaxSaved
Saved == {n \in AddressIds : book[n] \in {"plain", "default"}}
Defaults == {n \in AddressIds : book[n] = "default"}
\* The next address: after all others, since the newest is looked for.
NextAddress == {n \in AddressIds : book[n] = "unsaved" /\ \A m \in AddressIds : book[m] = "unsaved" => n <= m}

\* The user has saved some addresses; one of them is the default.
BookInit ==
  /\ \E count \in 0 .. MaxAddresses :
       book \in {[n \in AddressIds |-> IF n > count THEN "unsaved" ELSE IF n = d THEN "default" ELSE "plain"] :
                  d \in {n \in AddressIds : n <= count}} \cup {[n \in AddressIds |-> "unsaved"]}
  /\ deed = [k \in AddressCalls |-> "idle"]
  /\ target = [k \in AddressCalls |-> 0]
  /\ sets = [k \in AddressCalls |-> FALSE]
  /\ unset = [k \in AddressCalls |-> {}]
  /\ heir = [k \in AddressCalls |-> 0]
  /\ late = [k \in AddressCalls |-> FALSE]
  /\ torn = FALSE
  /\ lateSaves = {}

Turns(k, next) == deed' = [deed EXCEPT ![k] = next]

\* The first read of call k, about address n; it sets the default or not.
StartOn(k, n, makesDefault, next) ==
  /\ deed[k] = "idle"
  /\ target' = [target EXCEPT ![k] = n]
  /\ sets' = [sets EXCEPT ![k] = makesDefault]
  /\ Turns(k, next)
  /\ UNCHANGED <<book, unset, heir, late, bookHistory>>

\* The rows call k has written and not committed.
Uncommitted(k) == CASE deed[k] = "write" -> unset[k]
                    [] deed[k] = "promote" -> {target[k]}
                    [] OTHER -> {}
\* Call k need not wait for row n, and finds it.
Reaches(k, n) == n \in Saved /\ \A j \in AddressCalls \ {k} : n \notin Uncommitted(j)

\* Call k commits, with the addresses it had found cleared and n set.
Committed(k, n, value) ==
  /\ book' = [m \in AddressIds |-> IF m = n THEN value ELSE IF m \in unset[k] THEN "plain" ELSE book[m]]
  /\ Turns(k, "done")
  /\ late' = [j \in AddressCalls |-> late[j] \/ deed[j] \notin {"idle", "done"}]
  /\ torn' = (late[k] \/ (torn /\ ~sets[k]))
  /\ UNCHANGED callReads

-----------------------------------------------------------------------------
(* create                                                                  *)

\* Variant for the checks: the first address is the default on demand only.
MakesDefaultOnDemand(first, wanted) == wanted
\* count === 0 || dto.isDefault === true
MakesDefault(first, wanted) == first \/ wanted

CountAddresses(k, wanted) ==
  LET makesDefault == MakesDefault(Saved = {}, wanted)
  IN /\ Cardinality(Saved) < MaxAddresses
     /\ StartOn(k, 0, makesDefault, IF makesDefault THEN "clear" ELSE "write")

\* updateMany of the user's default addresses, of create and of update: what
\* it finds, and what of that is default still when it gets hold of it.
FindDefaults(k) ==
  /\ deed[k] = "clear"
  /\ unset' = [unset EXCEPT ![k] = Defaults]
  /\ Turns(k, "lock")
  /\ UNCHANGED <<book, target, sets, heir, late, bookHistory>>

ClearDefaults(k) ==
  /\ deed[k] = "lock"
  /\ \A n \in unset[k] \cap Saved : Reaches(k, n)
  /\ unset' = [unset EXCEPT ![k] = @ \cap Defaults]
  /\ Turns(k, "write")
  /\ UNCHANGED <<book, target, sets, heir, late, bookHistory>>

SaveAddress(k) ==
  /\ deed[k] = "write" /\ target[k] = 0
  /\ \E n \in NextAddress :
       /\ Committed(k, n, IF sets[k] THEN "default" ELSE "plain")
       /\ lateSaves' = IF late[k] THEN lateSaves \cup {n} ELSE lateSaves

-----------------------------------------------------------------------------
(* update, setDefault                                                      *)

\* An update that does not make the address the default changes only its
\* text: of one that is the default already, too.
FindToDefault(k, n) ==
  /\ book[n] = "plain"
  /\ StartOn(k, n, TRUE, "clear")

SetDefault(k) ==
  /\ deed[k] = "write" /\ target[k] > 0
  /\ Reaches(k, target[k])
  /\ Committed(k, target[k], "default")
  /\ UNCHANGED lateSaves

-----------------------------------------------------------------------------
(* remove                                                                  *)

FindToRemove(k, n) ==
  /\ n \in Saved
  /\ StartOn(k, n, FALSE, IF n \in Defaults THEN "find heir" ELSE "remove")

\* The address is deleted; the newest of the others is found.
FindHeir(k) ==
  LET others == Saved \ {target[k]}
  IN /\ deed[k] = "find heir"
     /\ Reaches(k, target[k])
     /\ \E n \in IF others = {} THEN {0} ELSE {m \in others : \A o \in others : o <= m} :
          heir' = [heir EXCEPT ![k] = n]
     /\ Turns(k, "promote")
     /\ UNCHANGED <<book, target, sets, unset, late, bookHistory>>

\* The other one is promoted, if there is one, and the transaction commits.
\* Each statement fails when its address was removed meanwhile.
RemoveAddress(k) ==
  /\ \/ deed[k] = "remove" /\ Reaches(k, target[k])
     \/ deed[k] = "promote" /\ (heir[k] = 0 \/ Reaches(k, heir[k]))
  /\ book' = [m \in AddressIds |-> IF m = target[k] THEN "removed" ELSE IF m = heir[k] THEN "default" ELSE book[m]]
  /\ Turns(k, "done")
  /\ late' = [j \in AddressCalls |-> late[j] \/ deed[j] \notin {"idle", "done"}]
  /\ torn' = (late[k] \/ torn)
  /\ UNCHANGED <<callReads, lateSaves>>

-----------------------------------------------------------------------------

\* A request fails, and its transaction is rolled back.
AddressCallFails(k) ==
  /\ deed[k] \notin {"idle", "done"}
  /\ Turns(k, "done")
  /\ UNCHANGED <<book, callReads, late, bookHistory>>

BookNext ==
  \E k \in AddressCalls :
    \/ \E wanted \in BOOLEAN : CountAddresses(k, wanted)
    \/ \E n \in AddressIds : FindToDefault(k, n) \/ FindToRemove(k, n)
    \/ FindDefaults(k) \/ ClearDefaults(k) \/ SaveAddress(k) \/ SetDefault(k)
    \/ FindHeir(k) \/ RemoveAddress(k) \/ AddressCallFails(k)

BookSpec == BookInit /\ [][BookNext]_bookVars

-----------------------------------------------------------------------------

\* Types: the book and the calls.
BookTypeOK ==
  /\ book \in [AddressIds -> {"unsaved", "plain", "default", "removed"}]
  /\ deed \in [AddressCalls -> {"idle", "clear", "lock", "write", "find heir", "promote", "remove", "done"}]
  /\ target \in [AddressCalls -> 0 .. MaxSaved] /\ heir \in [AddressCalls -> 0 .. MaxSaved]
  /\ sets \in [AddressCalls -> BOOLEAN]
  /\ unset \in [AddressCalls -> SUBSET AddressIds]
  /\ late \in [AddressCalls -> BOOLEAN]
  /\ torn \in BOOLEAN /\ lateSaves \subseteq AddressIds

\* A user with addresses has one default, and not more addresses than the
\* maximum. Requests that overlap can break both; the first address that is
\* made the default by a request on its own puts the default right again,
\* whatever was left behind.
OneDefault ==
  /\ ~torn => Cardinality(Defaults) = (IF Saved = {} THEN 0 ELSE 1)
  /\ Cardinality(Saved \ lateSaves) <= MaxAddresses
=============================================================================
