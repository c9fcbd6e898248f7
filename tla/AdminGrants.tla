----------------------------- MODULE AdminGrants -----------------------------
(***************************************************************************)
(* Who is an admin: invitations, promotions and removals.                  *)
(*   apps/server/src/admin-users/admin-users.service.ts                    *)
(*   apps/server/src/admin-users/ensure-admin.ts                           *)
(*   apps/server/src/auth/verified-email-grants.ts                         *)
(*   apps/server/src/auth/auth.config.ts       its databaseHooks           *)
(*                                                                         *)
(* An account and its normalized email are one thing here. A removal is a  *)
(* Serializable transaction: it counts the admins of its snapshot and      *)
(* fails when another removal committed meanwhile (each read what the      *)
(* other wrote). Promotions run at READ COMMITTED and are not seen by it.  *)
(***************************************************************************)
EXTENDS Integers, FiniteSets

CONSTANTS
  Accounts,    \* the emails
  Owner,       \* OWNER_EMAIL
  GrantCalls   \* the requests, hooks and runs of the command

ASSUME OwnerAssumption == Owner \in Accounts /\ IsFiniteSet(Accounts)

VARIABLES
  role,      \* per email: none (no account yet), CUSTOMER, ADMIN
  verified,  \* emailVerified
  invited,   \* whether adminInvitation has a row of the email
  step,      \* per call: what it does next
  about,     \* per call: the account
  doomed,    \* per removal: another removal committed since its snapshot
  wanted     \* history: how often somebody asked for the email to be an admin,
             \*   less how often its account became one

accountRows == <<role, verified, invited>>
grantReads == <<about, doomed>>
grantsVars == <<accountRows, step, grantReads, wanted>>

Admins == {a \in Accounts : role[a] = "ADMIN"}
Count(condition) == IF condition THEN 1 ELSE 0

\* The shop has an admin (deployment ran ensureAdmin) and no open invitation;
\* promotion asks for a verified email.
GrantsInit ==
  /\ role \in [Accounts -> {"none", "CUSTOMER", "ADMIN"}]
  /\ Admins # {}
  /\ verified \in [Accounts -> BOOLEAN]
  /\ \A a \in Accounts : /\ role[a] = "ADMIN" => verified[a]
                         /\ role[a] = "none" => ~verified[a]
  /\ invited = [a \in Accounts |-> FALSE]
  /\ step = [k \in GrantCalls |-> "idle"]
  /\ about = [k \in GrantCalls |-> Owner]
  /\ doomed = [k \in GrantCalls |-> FALSE]
  /\ wanted = [a \in Accounts |-> 0]

Proceed(k, next) == step' = [step EXCEPT ![k] = next]

\* The call is over, with what it read.
Finish(k) ==
  /\ Proceed(k, "done")
  /\ about' = [about EXCEPT ![k] = Owner]

Start(k, a, next) ==
  /\ step[k] = "idle"
  /\ about' = [about EXCEPT ![k] = a]
  /\ Proceed(k, next)
  /\ UNCHANGED <<accountRows, doomed, wanted>>

\* Account a is an ADMIN from here on, as n more requests wanted.
Promote(a, n) ==
  /\ role' = [role EXCEPT ![a] = "ADMIN"]
  /\ wanted' = [wanted EXCEPT ![a] = @ + n - Count(role[a] # "ADMIN")]

-----------------------------------------------------------------------------
(* Accounts, and the grants of the database hooks                          *)

\* Sign-up; a social one arrives verified.
Register(a) ==
  /\ role[a] = "none"
  /\ role' = [role EXCEPT ![a] = "CUSTOMER"]
  /\ verified' \in {verified, [verified EXCEPT ![a] = TRUE]}
  /\ UNCHANGED <<invited, step, grantReads, wanted>>

VerifyEmail(a) ==
  /\ role[a] # "none"
  /\ ~verified[a]
  /\ verified' = [verified EXCEPT ![a] = TRUE]
  /\ UNCHANGED <<role, invited, step, grantReads, wanted>>

\* A hook of user.create, user.update or session.create runs
\* applyGrantsForUserId, which reads the account.
BeginGrants(k, a) ==
  /\ role[a] # "none"
  /\ verified[a]
  /\ Start(k, a, IF a = Owner THEN "owner" ELSE "accept")

\* updateMany of the Owner who is not an ADMIN yet.
GrantOwner(k) ==
  /\ step[k] = "owner"
  /\ Promote(about[k], Count(role[about[k]] # "ADMIN"))
  /\ Finish(k)
  /\ UNCHANGED <<verified, invited, doomed>>

\* Variant for the checks: the invitation stays.
InvitationKept(a) == invited[a]
\* deleteMany takes the invitation in the transaction that promotes.
InvitationLeft(a) == FALSE

AcceptInvitation(k) ==
  LET a == about[k]
  IN /\ step[k] = "accept"
     /\ \/ /\ invited[a]
           /\ invited' = [invited EXCEPT ![a] = InvitationLeft(a)]
           /\ Promote(a, 0)
        \/ ~invited[a] /\ UNCHANGED <<role, invited, wanted>>
     /\ Finish(k)
     /\ UNCHANGED <<verified, doomed>>

-----------------------------------------------------------------------------
(* AdminUsersService                                                       *)

\* add reads the account; of a verified ADMIN it does no more.
FindForGrant(k, a) ==
  /\ ~(verified[a] /\ role[a] = "ADMIN")
  /\ Start(k, a, IF verified[a] THEN "promote" ELSE "invite")

\* The account was verified when it was read: it is promoted, whatever
\* became of it, and its invitation goes with it.
PromoteNow(k) ==
  /\ step[k] = "promote"
  /\ Promote(about[k], 1)
  /\ invited' = [invited EXCEPT ![about[k]] = FALSE]
  /\ Finish(k)
  /\ UNCHANGED <<verified, doomed>>

\* upsert; the mail that follows changes nothing.
Invite(k) ==
  /\ step[k] = "invite"
  /\ invited' = [invited EXCEPT ![about[k]] = TRUE]
  /\ wanted' = [wanted EXCEPT ![about[k]] = @ + 1]
  /\ Finish(k)
  /\ UNCHANGED <<role, verified, doomed>>

RevokeInvitation(a) ==
  /\ invited[a]
  /\ invited' = [invited EXCEPT ![a] = FALSE]
  /\ UNCHANGED <<role, verified, step, grantReads, wanted>>

\* What remove asks of its snapshot.
Removable(a) == a \in Admins /\ a # Owner /\ Cardinality(Admins) > 1

\* remove reads the account and counts the admins.
CountAdmins(k, a) ==
  /\ step[k] = "idle"
  /\ Removable(a)
  /\ about' = [about EXCEPT ![k] = a]
  /\ Proceed(k, "remove")
  /\ UNCHANGED <<accountRows, doomed, wanted>>

\* Variant for the checks: READ COMMITTED.
NeverAborted(k) == TRUE
\* isolationLevel: 'Serializable'
Serializable(k) == ~doomed[k]

\* The demotion and the end of the sessions commit.
CommitRemove(k) ==
  /\ step[k] = "remove"
  /\ Serializable(k)
  /\ role' = [role EXCEPT ![about[k]] = "CUSTOMER"]
  /\ doomed' = [j \in GrantCalls |-> j # k /\ (doomed[j] \/ step[j] = "remove")]
  /\ Finish(k)
  /\ UNCHANGED <<verified, invited, wanted>>

-----------------------------------------------------------------------------
(* ensureAdmin                                                             *)

\* Reads the user of the email; of an ADMIN it does no more.
FindForEnsure(k, a) ==
  /\ role[a] # "ADMIN"
  /\ Start(k, a, IF role[a] = "none" THEN "create admin" ELSE "update role")

\* user.create fails when the email was registered meanwhile.
CreateAdmin(k) ==
  /\ step[k] = "create admin"
  /\ role[about[k]] = "none"
  /\ Promote(about[k], 1)
  /\ verified' = [verified EXCEPT ![about[k]] = TRUE]
  /\ Finish(k)
  /\ UNCHANGED <<invited, doomed>>

UpdateRole(k) ==
  /\ step[k] = "update role"
  /\ Promote(about[k], 1)
  /\ Finish(k)
  /\ UNCHANGED <<verified, invited, doomed>>

-----------------------------------------------------------------------------

\* A transaction fails or is aborted, or the process dies.
GrantFails(k) ==
  /\ step[k] \notin {"idle", "done"}
  /\ Finish(k)
  /\ doomed' = [doomed EXCEPT ![k] = FALSE]
  /\ UNCHANGED <<accountRows, wanted>>

GrantsNext ==
  \/ \E a \in Accounts : Register(a) \/ VerifyEmail(a) \/ RevokeInvitation(a)
  \/ \E k \in GrantCalls :
       \/ \E a \in Accounts : BeginGrants(k, a) \/ FindForGrant(k, a) \/ CountAdmins(k, a) \/ FindForEnsure(k, a)
       \/ GrantOwner(k) \/ AcceptInvitation(k) \/ PromoteNow(k) \/ Invite(k)
       \/ CommitRemove(k) \/ CreateAdmin(k) \/ UpdateRole(k) \/ GrantFails(k)

GrantsSpec == GrantsInit /\ [][GrantsNext]_grantsVars

-----------------------------------------------------------------------------

\* Types: the accounts, and what each call holds.
GrantsTypeOK ==
  /\ role \in [Accounts -> {"none", "CUSTOMER", "ADMIN"}]
  /\ verified \in [Accounts -> BOOLEAN]
  /\ invited \in [Accounts -> BOOLEAN]
  /\ step \in [GrantCalls -> {"idle", "owner", "accept", "invite", "promote", "remove",
                              "create admin", "update role", "done"}]
  /\ about \in [GrantCalls -> Accounts]
  /\ doomed \in [GrantCalls -> BOOLEAN]
  /\ wanted \in [Accounts -> Int]

\* The shop is never left without an admin, however many removals count the
\* same admins at once.
AdminRemains == Admins # {}

\* An account becomes an admin at most as often as somebody asked for it:
\* sign-ins that race for one invitation, or come again later, spend it once.
InvitationsSpentOnce ==
  \A a \in Accounts : Count(invited[a]) <= wanted[a]
=============================================================================
