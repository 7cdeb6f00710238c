------------------------------- MODULE Staff -------------------------------
(***************************************************************************)
(* Who may sign in to the business's side: the logins (app_user), the      *)
(* invitations that make them (staff_invite), the tokens of those signed   *)
(* in, the guard every staff route passes, and the owner's management of   *)
(* the other logins.                                                       *)
(*                                                                         *)
(* The address is the login, unique over all tenants, and a login is never *)
(* deleted, so an address stands for its row.  The guard reads the row in  *)
(* a transaction of its own; the handler runs later, and decides on what   *)
(* it reads before it writes: guard, judgement and write are steps.  A     *)
(* written row is locked until its transaction ends, so a write and its    *)
(* commit are one.                                                         *)
(***************************************************************************)
EXTENDS Integers, FiniteSets

CONSTANTS
  Tenant,   \* businesses
  Email,    \* addresses
  Invite,   \* ids of invitations
  Request,  \* requests that can be in flight at one time
  Nobody    \* no address and no business

ASSUME NobodyAssumption == Nobody \notin Email \cup Tenant

VARIABLES
  user,       \* the login of an address
  invite,     \* the invitations
  signedIn,   \* the addresses with a token that has not run out
  request,    \* the requests in flight
  raced       \* for checking: businesses one of whose owners was taken away
              \* while another of them was judged and about to be

staffVars == <<user, invite, signedIn, request, raced>>

---------------------------------------------------------------------------
\* The rows.

StaffRole == {"owner", "staff"}
NoUser == [tenant |-> Nobody, role |-> "staff", active |-> FALSE]
User == [tenant : Tenant, role : StaffRole, active : BOOLEAN]
IsUser(e) == user[e] # NoUser
ActiveOwner(e) == IsUser(e) /\ user[e].active /\ user[e].role = "owner"

NoInvite == [tenant |-> Nobody, email |-> Nobody, role |-> "staff",
             expired |-> FALSE, accepted |-> FALSE, revoked |-> FALSE]
InviteRow == [tenant : Tenant, email : Email, role : StaffRole,
              expired : BOOLEAN, accepted : BOOLEAN, revoked : BOOLEAN]
OpenInvite(i) == invite[i] # NoInvite /\ ~invite[i].accepted /\ ~invite[i].revoked

\* staff_invite_pending_email: one open invitation per tenant and address,
\* expired or not.
Pending(t, e) == \E i \in Invite : OpenInvite(i) /\ invite[i].tenant = t /\ invite[i].email = e

\* What an owner asks to change about a login; "keep" is a field left out.
Change == [role : StaffRole \cup {"keep"}, active : {"keep", "on", "off"}]

NoRequest == [phase |-> "idle"]
InFlight ==
       [phase : {"guarded"}, actor : Email]
  \cup [phase : {"inviting"}, actor : Email, email : Email, role : StaffRole]
  \cup [phase : {"judged"}, actor : Email, target : Email, change : Change]
  \cup [phase : {"accepting"}, invite : Invite]

Busy(r, phase) == request[r].phase = phase
Enter(r, local) == request' = [request EXCEPT ![r] = local]
Leave(r) == request' = [request EXCEPT ![r] = NoRequest]

StaffInit ==
  /\ user = [e \in Email |-> NoUser]
  /\ invite = [i \in Invite |-> NoInvite]
  /\ signedIn = {}
  /\ request = [r \in Request |-> NoRequest]
  /\ raced = {}

---------------------------------------------------------------------------
\* Signing up and in.

\* register: the business and its first owner, and a token for him.
Register(e, t) ==
  /\ ~IsUser(e)
  /\ \A f \in Email : user[f].tenant # t
  /\ user' = [user EXCEPT ![e] = [tenant |-> t, role |-> "owner", active |-> TRUE]]
  /\ signedIn' = signedIn \cup {e}
  /\ UNCHANGED <<invite, request, raced>>

\* login: a switched-off login is refused like a wrong password.
Login(e) ==
  /\ IsUser(e) /\ user[e].active
  /\ signedIn' = signedIn \cup {e}
  /\ UNCHANGED <<user, invite, request, raced>>

TokenExpires(e) ==
  /\ e \in signedIn
  /\ signedIn' = signedIn \ {e}
  /\ UNCHANGED <<user, invite, request, raced>>

---------------------------------------------------------------------------
\* The guard of the routes only an owner may use.

\* canActivate: a token, and a row that is active and an owner's now; the role
\* that the token names is not looked at.
LetIn(e) == e \in signedIn /\ ActiveOwner(e)

Guard(r, e) ==
  /\ Busy(r, "idle")
  /\ LetIn(e)
  /\ Enter(r, [phase |-> "guarded", actor |-> e])
  /\ UNCHANGED <<user, invite, signedIn, raced>>

TenantOf(r) == user[request[r].actor].tenant

---------------------------------------------------------------------------
\* Invitations.

\* invite up to its INSERT: nobody has the address, in any tenant.
InviteJudge(r, e, role) ==
  /\ Busy(r, "guarded")
  /\ ~IsUser(e)
  /\ Enter(r, [phase |-> "inviting", actor |-> request[r].actor, email |-> e, role |-> role])
  /\ UNCHANGED <<user, invite, signedIn, raced>>

\* The INSERT: a 409 when an open invitation is in the way.
InviteInsert(r, i) ==
  /\ Busy(r, "inviting")
  /\ invite[i] = NoInvite
  /\ invite' = IF Pending(TenantOf(r), request[r].email) THEN invite
               ELSE [invite EXCEPT ![i] =
                      [tenant |-> TenantOf(r), email |-> request[r].email, role |-> request[r].role,
                       expired |-> FALSE, accepted |-> FALSE, revoked |-> FALSE]]
  /\ Leave(r)
  /\ UNCHANGED <<user, signedIn, raced>>

\* revokeInvite is one UPDATE of an open row of the owner's tenant.
RevokeInvite(r, i) ==
  /\ Busy(r, "guarded")
  /\ OpenInvite(i) /\ invite[i].tenant = TenantOf(r)
  /\ invite' = [invite EXCEPT ![i].revoked = TRUE]
  /\ Leave(r)
  /\ UNCHANGED <<user, signedIn, raced>>

InviteExpires(i) ==
  /\ invite[i] # NoInvite /\ ~invite[i].expired
  /\ invite' = [invite EXCEPT ![i].expired = TRUE]
  /\ UNCHANGED <<user, signedIn, request, raced>>

\* accept up to its transaction: the invitation is good, the password is hashed.
FindLiveInvite(r, i) ==
  /\ Busy(r, "idle")
  /\ OpenInvite(i) /\ ~invite[i].expired
  /\ Enter(r, [phase |-> "accepting", invite |-> i])
  /\ UNCHANGED <<user, invite, signedIn, raced>>

\* Mutant of Spendable: the UPDATE is by id alone.
SpendableById(i) == TRUE

\* The UPDATE that spends the invitation has its conditions in the WHERE.
Spendable(i) == OpenInvite(i)

LoginFrom(i) == [tenant |-> invite[i].tenant, role |-> invite[i].role, active |-> TRUE]

\* The transaction of accept: the invitation is spent and the login made, or
\* neither, when it is spent already or the address has a login by now.
AcceptInvite(r) ==
  LET i == request[r].invite
  IN  /\ Busy(r, "accepting")
      /\ IF Spendable(i) /\ ~IsUser(invite[i].email)
           THEN /\ invite' = [invite EXCEPT ![i].accepted = TRUE]
                /\ user' = [user EXCEPT ![invite[i].email] = LoginFrom(i)]
           ELSE UNCHANGED <<invite, user>>
      /\ Leave(r)
      /\ UNCHANGED <<signedIn, raced>>

---------------------------------------------------------------------------
\* Changes of a login.

LosesAnOwner(e, change) ==
  /\ user[e].role = "owner"
  /\ change.active = "off" \/ change.role = "staff"

OthersLeft(e) == \E f \in Email \ {e} : user[f].tenant = user[e].tenant /\ ActiveOwner(f)

\* Mutant of MayChange: only switching oneself off is looked at.
MayChangeUncounted(actor, e, change) == actor = e => change.active # "off"

\* Nobody switches himself off or changes his own role, and an owner is only
\* lost while another active one is counted.
MayChange(actor, e, change) ==
  /\ actor = e => change.active # "off" /\ change.role \in {"keep", user[e].role}
  /\ LosesAnOwner(e, change) => OthersLeft(e)

\* update up to its UPDATE.
UpdateJudge(r, e, change) ==
  /\ Busy(r, "guarded")
  /\ IsUser(e) /\ user[e].tenant = TenantOf(r)
  /\ MayChange(request[r].actor, e, change)
  /\ Enter(r, [phase |-> "judged", actor |-> request[r].actor, target |-> e, change |-> change])
  /\ UNCHANGED <<user, invite, signedIn, raced>>

\* Mutant of UserAfter: a field left out is written as it was sent.
UserAfterAsSent(row, change) == [row EXCEPT !.role = change.role]

UserAfter(row, change) ==
  [row EXCEPT !.role = IF change.role = "keep" THEN @ ELSE change.role,
              !.active = IF change.active = "keep" THEN @ ELSE change.active = "on"]

\* A change in flight takes an owner away from the business of e, and not e.
TakesAnother(q, e) ==
  /\ Busy(q, "judged")
  /\ request[q].target # e /\ user[request[q].target].tenant = user[e].tenant
  /\ LosesAnOwner(request[q].target, request[q].change)

\* The UPDATE is by id alone.
UpdateWrite(r) ==
  LET e == request[r].target
  IN  /\ Busy(r, "judged")
      /\ user' = [user EXCEPT ![e] = UserAfter(@, request[r].change)]
      /\ raced' = raced \cup {t \in {user[e].tenant} :
           LosesAnOwner(e, request[r].change) /\ \E q \in Request \ {r} : TakesAnother(q, e)}
      /\ Leave(r)
      /\ UNCHANGED <<invite, signedIn>>

\* A request is refused, fails or was for a route that changes nothing here.
Refused(r) ==
  /\ ~Busy(r, "idle")
  /\ Leave(r)
  /\ UNCHANGED <<user, invite, signedIn, raced>>

StaffNext ==
  \/ \E e \in Email : Login(e) \/ TokenExpires(e) \/ \E t \in Tenant : Register(e, t)
  \/ \E i \in Invite : InviteExpires(i)
  \/ \E r \in Request :
       \/ \E e \in Email : Guard(r, e)
       \/ \E e \in Email, role \in StaffRole : InviteJudge(r, e, role)
       \/ \E i \in Invite : InviteInsert(r, i) \/ RevokeInvite(r, i) \/ FindLiveInvite(r, i)
       \/ AcceptInvite(r)
       \/ \E e \in Email, change \in Change : UpdateJudge(r, e, change)
       \/ UpdateWrite(r)
       \/ Refused(r)

StaffSpec == StaffInit /\ [][StaffNext]_staffVars

---------------------------------------------------------------------------
\* Properties.

StaffTypeOK ==
  /\ user \in [Email -> User \cup {NoUser}]
  /\ invite \in [Invite -> InviteRow \cup {NoInvite}]
  /\ signedIn \subseteq Email
  /\ request \in [Request -> InFlight \cup {NoRequest}]
  /\ raced \subseteq Tenant

Registered(t) == \E e \in Email : user[e].tenant = t

\* "An account with no active owner cannot be administered by anyone"
\* (staff.service.ts:253): a business loses its last one in one way only, when
\* two of its owners are taken away by changes that each counted the other.
\* Whatever else overlaps (a promotion, a demotion of one person twice, a
\* switch-off judged before its target became an owner) leaves one.
HasOwner(t) == \E e \in Email : user[e].tenant = t /\ ActiveOwner(e)
AnOwnerIsLeft == \A t \in Tenant \ raced : Registered(t) => HasOwner(t)

\* An invitation makes one login or none: a spent one was not revoked, its
\* address has its login with the business that invited, and of two
\* businesses that invite the same address, or two taps on one link, one wins.
InvitesMakeOneLogin ==
  /\ \A i \in Invite : invite[i].accepted =>
       ~invite[i].revoked /\ user[invite[i].email].tenant = invite[i].tenant
  /\ \A i, j \in Invite : invite[i].accepted /\ invite[j].accepted /\ invite[i].email = invite[j].email
       => i = j
=============================================================================
