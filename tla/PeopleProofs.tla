---------------------------- MODULE PeopleProofs ----------------------------
(***************************************************************************)
(* Theorems about Staff, Customers and Enquiries, each for every value of  *)
(* its constants, and about the three side by side (MCPeople).             *)
(***************************************************************************)
EXTENDS MCPeople, FiniteSetTheorems, TLAPS

---------------------------------------------------------------------------
\* STAFF

ForOwners == {"guarded", "inviting", "judged"}

LEMMA StaffRowTypes ==
  /\ NoUser.tenant = Nobody /\ NoUser.role = "staff" /\ NoUser.active = FALSE
  /\ NoInvite.accepted = FALSE /\ NoInvite.revoked = FALSE
  /\ NoRequest.phase = "idle"
BY DEF NoUser, NoInvite, NoRequest

LEMMA InFlightTypes ==
  ASSUME NEW d \in InFlight \cup {NoRequest}
  PROVE  /\ d.phase \in {"idle", "guarded", "inviting", "judged", "accepting"}
         /\ d.phase \in ForOwners => d.actor \in Email
         /\ d.phase = "inviting" => d.email \in Email /\ d.role \in StaffRole
         /\ d.phase = "judged" => d.target \in Email /\ d.change \in Change
         /\ d.phase = "accepting" => d.invite \in Invite
BY DEF InFlight, NoRequest, ForOwners

LEMMA EnterTyped ==
  ASSUME StaffTypeOK, NEW r \in Request, NEW d \in InFlight, Enter(r, d)
  PROVE  request' \in [Request -> InFlight \cup {NoRequest}]
BY DEF StaffTypeOK, Enter

LEMMA LeaveTyped ==
  ASSUME StaffTypeOK, NEW r \in Request, Leave(r)
  PROVE  request' \in [Request -> InFlight \cup {NoRequest}]
BY DEF StaffTypeOK, Leave

LEMMA UserAfterTyped ==
  ASSUME NEW row \in User, NEW change \in Change
  PROVE  /\ UserAfter(row, change) \in User
         /\ UserAfter(row, change).tenant = row.tenant
         /\ UserAfter(row, change).role = IF change.role = "keep" THEN row.role ELSE change.role
         /\ UserAfter(row, change).active = IF change.active = "keep" THEN row.active
                                            ELSE change.active = "on"
BY DEF UserAfter, User, Change, StaffRole

LEMMA IsUserTyped ==
  ASSUME StaffTypeOK, NEW e \in Email
  PROVE  IsUser(e) <=> user[e] \in User
BY NobodyAssumption DEF StaffTypeOK, IsUser, NoUser, User

---------------------------------------------------------------------------
\* Types.  Who was let in, and who is being changed, has a login.

LoginsExist ==
  \A r \in Request :
    /\ request[r].phase \in ForOwners => IsUser(request[r].actor)
    /\ request[r].phase = "judged" => /\ IsUser(request[r].target)
                                      /\ user[request[r].target].tenant = TenantOf(r)

StaffTyped == StaffTypeOK /\ LoginsExist

\* A login stays, with the business it was made for.
UsersStay == \A e \in Email : IsUser(e) => user'[e] # NoUser /\ user'[e].tenant = user[e].tenant

LEMMA LoginsKept ==
  ASSUME StaffTyped, StaffTypeOK', UsersStay, NEW r \in Request, request'[r] \in {request[r], NoRequest}
  PROVE  /\ request'[r].phase \in ForOwners =>
              user'[request'[r].actor] # NoUser
         /\ request'[r].phase = "judged" =>
              /\ user'[request'[r].target] # NoUser
              /\ user'[request'[r].target].tenant = user'[request'[r].actor].tenant
BY InFlightTypes, StaffRowTypes DEF StaffTyped, StaffTypeOK, LoginsExist, UsersStay, ForOwners, TenantOf

LEMMA StaffTypedStep == StaffTyped /\ [StaffNext]_staffVars => StaffTyped' /\ UsersStay
<1> SUFFICES ASSUME StaffTyped, [StaffNext]_staffVars PROVE StaffTyped' /\ UsersStay
  OBVIOUS
<1>t. StaffTypeOK /\ LoginsExist
  BY DEF StaffTyped
\* Steps that leave the logins alone and enter nothing.
<1> DEFINE Calm == StaffTypeOK' /\ UsersStay
                   /\ \A r \in Request : request'[r] \in {request[r], NoRequest}
<1>0. ASSUME Calm PROVE StaffTyped' /\ UsersStay
  <2>1. \A r \in Request : /\ request'[r].phase \in ForOwners => user'[request'[r].actor] # NoUser
                           /\ request'[r].phase = "judged" =>
                                /\ user'[request'[r].target] # NoUser
                                /\ user'[request'[r].target].tenant = user'[request'[r].actor].tenant
    BY <1>0, LoginsKept
  <2> QED
    BY <1>0, <2>1 DEF StaffTyped, LoginsExist, IsUser, TenantOf
<1>1. ASSUME NEW e \in Email, NEW t \in Tenant, Register(e, t) PROVE Calm
  <2>1. [tenant |-> t, role |-> "owner", active |-> TRUE] \in User
    BY DEF User, StaffRole
  <2>2. StaffTypeOK'
    BY <1>1, <1>t, <2>1 DEF Register, StaffTypeOK
  <2> QED
    BY <1>1, <1>t, <2>2 DEF Register, UsersStay, IsUser, StaffTypeOK
<1>2. ASSUME NEW e \in Email, Login(e) \/ TokenExpires(e) PROVE Calm
  BY <1>2, <1>t DEF Login, TokenExpires, StaffTypeOK, UsersStay, IsUser
<1>3. ASSUME NEW i \in Invite, InviteExpires(i) PROVE Calm
  <2>1. [invite[i] EXCEPT !.expired = TRUE] \in InviteRow
    BY <1>3, <1>t DEF InviteExpires, StaffTypeOK, InviteRow
  <2> QED
    BY <1>3, <1>t, <2>1 DEF InviteExpires, StaffTypeOK, UsersStay, IsUser
<1>4. ASSUME NEW r \in Request, NEW e \in Email, Guard(r, e) PROVE StaffTyped' /\ UsersStay
  <2>1. [phase |-> "guarded", actor |-> e] \in InFlight
    BY DEF InFlight
  <2>2. request' \in [Request -> InFlight \cup {NoRequest}]
    BY <1>4, <1>t, <2>1, EnterTyped DEF Guard
  <2>3. IsUser(e)
    BY <1>4 DEF Guard, LetIn, ActiveOwner
  <2> QED
    BY <1>4, <1>t, <2>2, <2>3 DEF Guard, Enter, StaffTyped, StaffTypeOK, LoginsExist, UsersStay, IsUser, TenantOf
<1>5. ASSUME NEW r \in Request, NEW e \in Email, NEW role \in StaffRole, InviteJudge(r, e, role)
      PROVE StaffTyped' /\ UsersStay
  <2>1. request[r].actor \in Email /\ IsUser(request[r].actor)
    BY <1>5, <1>t, InFlightTypes DEF InviteJudge, Busy, ForOwners, StaffTypeOK, LoginsExist
  <2>2. [phase |-> "inviting", actor |-> request[r].actor, email |-> e, role |-> role] \in InFlight
    BY <2>1 DEF InFlight
  <2>3. request' \in [Request -> InFlight \cup {NoRequest}]
    BY <1>5, <1>t, <2>2, EnterTyped DEF InviteJudge
  <2> QED
    BY <1>5, <1>t, <2>1, <2>3
       DEF InviteJudge, Enter, StaffTyped, StaffTypeOK, LoginsExist, UsersStay, IsUser, TenantOf
<1>6. ASSUME NEW r \in Request, NEW i \in Invite, InviteInsert(r, i) PROVE Calm
  <2>1. /\ request[r].actor \in Email /\ IsUser(request[r].actor)
        /\ request[r].email \in Email /\ request[r].role \in StaffRole
    BY <1>6, <1>t, InFlightTypes DEF InviteInsert, Busy, ForOwners, StaffTypeOK, LoginsExist
  <2>2. TenantOf(r) \in Tenant
    BY <1>t, <2>1, IsUserTyped DEF TenantOf, User
  <2>3. [tenant |-> TenantOf(r), email |-> request[r].email, role |-> request[r].role,
         expired |-> FALSE, accepted |-> FALSE, revoked |-> FALSE] \in InviteRow
    BY <2>1, <2>2 DEF InviteRow
  <2>4. invite' \in [Invite -> InviteRow \cup {NoInvite}]
    BY <1>6, <1>t, <2>3 DEF InviteInsert, StaffTypeOK
  <2>5. request' \in [Request -> InFlight \cup {NoRequest}]
    BY <1>6, <1>t, LeaveTyped DEF InviteInsert
  <2> QED
    BY <1>6, <1>t, <2>4, <2>5 DEF InviteInsert, Leave, StaffTypeOK, UsersStay, IsUser
<1>7. ASSUME NEW r \in Request, NEW i \in Invite, RevokeInvite(r, i) PROVE Calm
  <2>1. [invite[i] EXCEPT !.revoked = TRUE] \in InviteRow
    BY <1>7, <1>t DEF RevokeInvite, OpenInvite, StaffTypeOK, InviteRow
  <2>2. request' \in [Request -> InFlight \cup {NoRequest}]
    BY <1>7, <1>t, LeaveTyped DEF RevokeInvite
  <2> QED
    BY <1>7, <1>t, <2>1, <2>2 DEF RevokeInvite, Leave, StaffTypeOK, UsersStay, IsUser
<1>8. ASSUME NEW r \in Request, NEW i \in Invite, FindLiveInvite(r, i) PROVE StaffTyped' /\ UsersStay
  <2>1. [phase |-> "accepting", invite |-> i] \in InFlight
    BY DEF InFlight
  <2>2. request' \in [Request -> InFlight \cup {NoRequest}]
    BY <1>8, <1>t, <2>1, EnterTyped DEF FindLiveInvite
  <2> QED
    BY <1>8, <1>t, <2>2
       DEF FindLiveInvite, Enter, StaffTyped, StaffTypeOK, LoginsExist, UsersStay, IsUser, TenantOf, ForOwners
<1>9. ASSUME NEW r \in Request, AcceptInvite(r) PROVE Calm
  <2> DEFINE i == request[r].invite
  <2>1. i \in Invite
    BY <1>9, <1>t, InFlightTypes DEF AcceptInvite, Busy, StaffTypeOK
  <2>2. request' \in [Request -> InFlight \cup {NoRequest}]
    BY <1>9, <1>t, LeaveTyped DEF AcceptInvite
  <2>3. CASE Spendable(i) /\ ~IsUser(invite[i].email)
    <3>1. invite[i] \in InviteRow
      BY <1>t, <2>1, <2>3 DEF Spendable, OpenInvite, StaffTypeOK
    <3>2. invite[i].email \in Email /\ LoginFrom(i) \in User
      BY <3>1 DEF LoginFrom, User, InviteRow
    <3>3. [invite[i] EXCEPT !.accepted = TRUE] \in InviteRow
      BY <3>1 DEF InviteRow
    <3>4. /\ invite' = [invite EXCEPT ![i] = [invite[i] EXCEPT !.accepted = TRUE]]
          /\ user' = [user EXCEPT ![invite[i].email] = LoginFrom(i)]
      BY <1>9, <2>3 DEF AcceptInvite
    <3> HIDE DEF i
    <3>5. invite' \in [Invite -> InviteRow \cup {NoInvite}] /\ user' \in [Email -> User \cup {NoUser}]
      BY <1>t, <3>1, <3>2, <3>3, <3>4 DEF StaffTypeOK
    <3>6. UsersStay
      BY <1>t, <2>3, <3>4 DEF UsersStay, IsUser, StaffTypeOK
    <3> QED
      BY <1>9, <1>t, <2>2, <3>5, <3>6 DEF AcceptInvite, Leave, StaffTypeOK
  <2>4. CASE ~(Spendable(i) /\ ~IsUser(invite[i].email))
    BY <1>9, <1>t, <2>2, <2>4 DEF AcceptInvite, Leave, StaffTypeOK, UsersStay, IsUser
  <2> QED
    BY <2>3, <2>4
<1>10. ASSUME NEW r \in Request, NEW e \in Email, NEW change \in Change, UpdateJudge(r, e, change)
       PROVE StaffTyped' /\ UsersStay
  <2>1. request[r].actor \in Email /\ IsUser(request[r].actor)
    BY <1>10, <1>t, InFlightTypes DEF UpdateJudge, Busy, ForOwners, StaffTypeOK, LoginsExist
  <2>2. [phase |-> "judged", actor |-> request[r].actor, target |-> e, change |-> change] \in InFlight
    BY <2>1 DEF InFlight
  <2>3. request' \in [Request -> InFlight \cup {NoRequest}]
    BY <1>10, <1>t, <2>2, EnterTyped DEF UpdateJudge
  <2>4. IsUser(e) /\ user[e].tenant = TenantOf(r)
    BY <1>10 DEF UpdateJudge
  <2> QED
    BY <1>10, <1>t, <2>1, <2>3, <2>4
       DEF UpdateJudge, Enter, StaffTyped, StaffTypeOK, LoginsExist, UsersStay, IsUser, TenantOf
<1>11. ASSUME NEW r \in Request, UpdateWrite(r) PROVE Calm
  <2> DEFINE e == request[r].target
             after == UserAfter(user[e], request[r].change)
  <2>1. e \in Email /\ request[r].change \in Change /\ IsUser(e)
    BY <1>11, <1>t, InFlightTypes DEF UpdateWrite, Busy, StaffTypeOK, LoginsExist
  <2>2. user[e] \in User
    BY <1>t, <2>1, IsUserTyped
  <2>3. after \in User /\ after.tenant = user[e].tenant
    BY <2>1, <2>2, UserAfterTyped
  <2>4. user' = [user EXCEPT ![e] = after]
    BY <1>11 DEF UpdateWrite
  <2>5. request' \in [Request -> InFlight \cup {NoRequest}]
    BY <1>11, <1>t, LeaveTyped DEF UpdateWrite
  <2>6. raced' \subseteq Tenant /\ UNCHANGED <<invite, signedIn>>
    BY <1>11, <1>t, <2>2 DEF UpdateWrite, StaffTypeOK, User
  <2>7. request' = [request EXCEPT ![r] = NoRequest]
    BY <1>11 DEF UpdateWrite, Leave
  <2>8. after # NoUser
    BY <2>3, NobodyAssumption DEF User, NoUser
  <2> HIDE DEF e, after
  <2>9. StaffTypeOK'
    BY <1>t, <2>1, <2>3, <2>4, <2>5, <2>6 DEF StaffTypeOK
  <2>10. ASSUME NEW x \in Email, IsUser(x) PROVE user'[x] # NoUser /\ user'[x].tenant = user[x].tenant
    <3>1. user'[x] = IF x = e THEN after ELSE user[x]
      BY <1>t, <2>4 DEF StaffTypeOK
    <3> QED
      BY <2>3, <2>8, <2>10, <3>1 DEF IsUser
  <2> QED
    BY <1>t, <2>7, <2>9, <2>10 DEF StaffTypeOK, UsersStay
<1>12. ASSUME NEW r \in Request, Refused(r) PROVE Calm
  <2>1. request' \in [Request -> InFlight \cup {NoRequest}]
    BY <1>12, <1>t, LeaveTyped DEF Refused
  <2> QED
    BY <1>12, <1>t, <2>1 DEF Refused, Leave, StaffTypeOK, UsersStay, IsUser
<1>13. ASSUME UNCHANGED staffVars PROVE Calm
  BY <1>13, <1>t DEF staffVars, StaffTypeOK, UsersStay, IsUser
<1> HIDE DEF Calm
<1> QED
  BY <1>0, <1>1, <1>2, <1>3, <1>4, <1>5, <1>6, <1>7, <1>8, <1>9, <1>10, <1>11, <1>12, <1>13
     DEF StaffNext

---------------------------------------------------------------------------
\* Invitations.  A spent one has its login, and no other spent one names the
\* same address.

SpentMade ==
  /\ \A i \in Invite : invite[i].accepted =>
       /\ ~invite[i].revoked
       /\ IsUser(invite[i].email) /\ user[invite[i].email].tenant = invite[i].tenant
  /\ \A i, j \in Invite : invite[i].accepted /\ invite[j].accepted /\ invite[i].email = invite[j].email
       => i = j

LEMMA SpentEmail ==
  ASSUME StaffTypeOK, NEW i \in Invite, invite[i].accepted
  PROVE  invite[i] \in InviteRow /\ invite[i].email \in Email
BY StaffRowTypes DEF StaffTypeOK, InviteRow

\* Nothing is spent by a step that spends nothing.
LEMMA SpentKept ==
  ASSUME StaffTyped, SpentMade, UsersStay,
         \A i \in Invite : invite'[i].accepted =>
           /\ invite[i].accepted /\ invite'[i].revoked = invite[i].revoked
           /\ invite'[i].email = invite[i].email /\ invite'[i].tenant = invite[i].tenant
  PROVE  SpentMade'
<1>1. StaffTypeOK
  BY DEF StaffTyped
<1>2. ASSUME NEW i \in Invite, invite'[i].accepted
      PROVE /\ ~invite'[i].revoked
            /\ user'[invite'[i].email] # NoUser
            /\ user'[invite'[i].email].tenant = invite'[i].tenant
  <2>1. invite[i].accepted /\ invite[i].email \in Email
    BY <1>1, <1>2, SpentEmail
  <2> QED
    BY <1>2, <2>1 DEF SpentMade, UsersStay
<1>3. ASSUME NEW i \in Invite, NEW j \in Invite, invite'[i].accepted, invite'[j].accepted,
             invite'[i].email = invite'[j].email
      PROVE i = j
  BY <1>3 DEF SpentMade
<1> QED
  BY <1>2, <1>3 DEF SpentMade, IsUser

LEMMA SpentStep == StaffTyped /\ SpentMade /\ [StaffNext]_staffVars => SpentMade'
<1> SUFFICES ASSUME StaffTyped, SpentMade, [StaffNext]_staffVars PROVE SpentMade'
  OBVIOUS
<1>t. StaffTypeOK /\ StaffTyped' /\ UsersStay
  BY StaffTypedStep DEF StaffTyped
<1> DEFINE NoneSpent ==
  \A i \in Invite : invite'[i].accepted =>
     /\ invite[i].accepted /\ invite'[i].revoked = invite[i].revoked
     /\ invite'[i].email = invite[i].email /\ invite'[i].tenant = invite[i].tenant
<1>0. NoneSpent => SpentMade'
  BY <1>t, SpentKept
<1>1. CASE UNCHANGED invite
  BY <1>0, <1>1
<1>2. ASSUME NEW i \in Invite, InviteExpires(i) PROVE NoneSpent
  BY <1>2, <1>t DEF InviteExpires, StaffTypeOK, InviteRow
<1>3. ASSUME NEW r \in Request, NEW i \in Invite, InviteInsert(r, i) PROVE NoneSpent
  BY <1>3, <1>t DEF InviteInsert, StaffTypeOK
<1>4. ASSUME NEW r \in Request, NEW i \in Invite, RevokeInvite(r, i) PROVE NoneSpent
  BY <1>4, <1>t DEF RevokeInvite, OpenInvite, StaffTypeOK, InviteRow
<1>5. ASSUME NEW r \in Request, AcceptInvite(r) PROVE SpentMade'
  <2>1. PICK i : i = request[r].invite
    OBVIOUS
  <2>2. i \in Invite
    BY <1>5, <1>t, <2>1, InFlightTypes DEF AcceptInvite, Busy, StaffTypeOK
  <2>3. CASE Spendable(i) /\ ~IsUser(invite[i].email)
    <3>1. ~invite[i].accepted /\ ~invite[i].revoked /\ invite[i] \in InviteRow
      BY <1>t, <2>2, <2>3 DEF Spendable, OpenInvite, StaffTypeOK
    <3>2. /\ invite' = [invite EXCEPT ![i].accepted = TRUE]
          /\ user' = [user EXCEPT ![invite[i].email] = LoginFrom(i)]
      BY <1>5, <2>1, <2>3 DEF AcceptInvite
    <3>3. /\ invite'[i].accepted /\ ~invite'[i].revoked
          /\ invite'[i].email = invite[i].email /\ invite'[i].tenant = invite[i].tenant
      BY <1>t, <2>2, <3>1, <3>2 DEF StaffTypeOK, InviteRow
    <3>4. \A j \in Invite \ {i} : invite'[j] = invite[j]
      BY <1>t, <2>2, <3>2 DEF StaffTypeOK
    <3>5. invite[i].email \in Email /\ user'[invite[i].email] = LoginFrom(i)
      BY <1>t, <3>1, <3>2 DEF StaffTypeOK, InviteRow
    <3>6. LoginFrom(i).tenant = invite[i].tenant /\ LoginFrom(i) # NoUser
      BY <3>1, NobodyAssumption DEF LoginFrom, NoUser, InviteRow
    <3>7. ASSUME NEW j \in Invite \ {i}, invite[j].accepted
          PROVE /\ ~invite[j].revoked /\ invite[j].email # invite[i].email
                /\ user'[invite[j].email] # NoUser
                /\ user'[invite[j].email].tenant = invite[j].tenant
      BY <1>t, <2>3, <3>7, SpentEmail DEF SpentMade, UsersStay
    <3> QED
      BY <3>3, <3>4, <3>5, <3>6, <3>7 DEF SpentMade, IsUser
  <2>4. CASE ~(Spendable(i) /\ ~IsUser(invite[i].email))
    BY <1>0, <1>5, <2>1, <2>4 DEF AcceptInvite
  <2> QED
    BY <2>3, <2>4
<1>6. ASSUME NEW r \in Request, NEW e \in Email,
             Guard(r, e) \/ (\E role \in StaffRole : InviteJudge(r, e, role))
               \/ (\E change \in Change : UpdateJudge(r, e, change))
      PROVE UNCHANGED invite
  BY <1>6 DEF Guard, InviteJudge, UpdateJudge
<1>7. ASSUME NEW r \in Request, UpdateWrite(r) \/ Refused(r) \/ (\E i \in Invite : FindLiveInvite(r, i))
      PROVE UNCHANGED invite
  BY <1>7 DEF UpdateWrite, Refused, FindLiveInvite
<1>8. ASSUME NEW e \in Email, Login(e) \/ TokenExpires(e) \/ (\E t \in Tenant : Register(e, t))
      PROVE UNCHANGED invite
  BY <1>8 DEF Login, TokenExpires, Register
<1>9. ASSUME UNCHANGED staffVars PROVE UNCHANGED invite
  BY <1>9 DEF staffVars
<1> HIDE DEF NoneSpent
<1> QED
  BY <1>0, <1>1, <1>2, <1>3, <1>4, <1>5, <1>6, <1>7, <1>8, <1>9 DEF StaffNext

---------------------------------------------------------------------------
\* Owners.  What was judged stays true until it is written, unless the
\* business is raced: a change that took an owner while another, judged, was
\* to take a different one says so in raced.

GoodOwner(row) == row \in User /\ row.active /\ row.role = "owner"
OwnerIn(table, t) == \E e \in Email : GoodOwner(table[e]) /\ table[e].tenant = t
OtherIn(table, e) == \E f \in Email \ {e} : GoodOwner(table[f]) /\ table[f].tenant = table[e].tenant

Loses(row, change) == row.role = "owner" /\ (change.active = "off" \/ change.role = "staff")
Allowed(table, deed) == Loses(table[deed.target], deed.change) => OtherIn(table, deed.target)

InvitedByOne(table, invites) ==
  \A i \in Invite : invites[i] # NoInvite =>
    \E e \in Email : table[e] # NoUser /\ table[e].tenant = invites[i].tenant
EveryoneHasOne(table, lost) ==
  \A e \in Email : table[e] # NoUser /\ table[e].tenant \notin lost => OwnerIn(table, table[e].tenant)
JudgedStands(table, requests, lost) ==
  \A r \in Request : requests[r].phase = "judged" /\ table[requests[r].target].tenant \notin lost
    => Allowed(table, requests[r])

OwnerInv ==
  /\ InvitedByOne(user, invite)
  /\ EveryoneHasOne(user, raced)
  /\ JudgedStands(user, request, raced)

LEMMA OwnerRows ==
  ASSUME StaffTypeOK
  PROVE  \A e \in Email : ActiveOwner(e) <=> GoodOwner(user[e])
BY IsUserTyped DEF ActiveOwner, GoodOwner

\* Steps that leave the logins alone.
LEMMA OwnersStand ==
  ASSUME OwnerInv, UNCHANGED <<user, raced>>, InvitedByOne(user, invite'),
         \A r \in Request : request'[r] \in {request[r], NoRequest}
           \/ request'[r].phase # "judged" \/ Allowed(user, request'[r])
  PROVE  OwnerInv'
<1>1. EveryoneHasOne(user, raced) /\ JudgedStands(user, request', raced)
  BY StaffRowTypes DEF OwnerInv, JudgedStands
<1>2. InvitedByOne(user', invite') /\ EveryoneHasOne(user', raced') /\ JudgedStands(user', request', raced')
  BY <1>1
<1> QED
  BY <1>2 DEF OwnerInv

\* Steps that add a login, with the owner of its business or as one.
LEMMA OwnersAdded ==
  ASSUME StaffTyped, OwnerInv, NEW e \in Email, NEW row \in User, ~IsUser(e),
         user' = [user EXCEPT ![e] = row], UNCHANGED raced,
         GoodOwner(row) \/ \E f \in Email : IsUser(f) /\ user[f].tenant = row.tenant,
         \A i \in Invite : invite'[i] # NoInvite => invite[i] # NoInvite /\ invite'[i].tenant = invite[i].tenant,
         \A r \in Request : request'[r] \in {request[r], NoRequest}
  PROVE  OwnerInv'
<1>1. \A f \in Email : user'[f] = IF f = e THEN row ELSE user[f]
  BY DEF StaffTyped, StaffTypeOK
<1>2. row # NoUser
  BY NobodyAssumption DEF User, NoUser
<1>3. \A f \in Email : user[f] # NoUser => f # e /\ user'[f] = user[f]
  BY <1>1 DEF IsUser
<1>4. \A f \in Email : GoodOwner(user[f]) => f # e /\ user'[f] = user[f]
  BY <1>3, NobodyAssumption DEF GoodOwner, User, NoUser
<1>5. InvitedByOne(user', invite')
  BY <1>3 DEF OwnerInv, InvitedByOne
<1>6. EveryoneHasOne(user', raced)
  <2>1. ASSUME NEW t, OwnerIn(user, t) PROVE OwnerIn(user', t)
    BY <2>1, <1>4 DEF OwnerIn
  <2>2. row.tenant \notin raced => OwnerIn(user', row.tenant)
    <3>1. CASE GoodOwner(row)
      BY <1>1, <3>1 DEF OwnerIn
    <3>2. CASE \E f \in Email : IsUser(f) /\ user[f].tenant = row.tenant
      BY <2>1, <3>2 DEF OwnerInv, EveryoneHasOne, IsUser
    <3> QED
      BY <3>1, <3>2
  <2>3. ASSUME NEW f \in Email, user'[f] # NoUser, user'[f].tenant \notin raced
        PROVE OwnerIn(user', user'[f].tenant)
    <3>1. CASE f = e
      BY <1>1, <2>2, <2>3, <3>1
    <3>2. CASE f # e
      <4>1. user'[f] = user[f]
        BY <1>1, <3>2
      <4>2. OwnerIn(user, user[f].tenant)
        BY <2>3, <4>1 DEF OwnerInv, EveryoneHasOne
      <4> QED
        BY <2>1, <4>1, <4>2
    <3> QED
      BY <3>1, <3>2
  <2> QED
    BY <2>3 DEF EveryoneHasOne
<1>7. JudgedStands(user', request', raced)
  <2> SUFFICES ASSUME NEW r \in Request, request'[r].phase = "judged",
                      user'[request'[r].target].tenant \notin raced
               PROVE Allowed(user', request'[r])
    BY DEF JudgedStands
  <2>1. request'[r] = request[r] /\ request[r].phase = "judged"
    BY StaffRowTypes
  <2>2. PICK d \in InFlight \cup {NoRequest} : d = request[r] /\ request'[r] = d
    BY <2>1 DEF StaffTyped, StaffTypeOK
  <2>3. d.target \in Email /\ IsUser(d.target) /\ d.phase = "judged"
    BY <2>1, <2>2, InFlightTypes DEF StaffTyped, LoginsExist
  <2>4. user'[d.target] = user[d.target]
    BY <1>3, <2>3 DEF IsUser
  <2>5. Allowed(user, d)
    BY <2>1, <2>2, <2>4 DEF OwnerInv, JudgedStands
  <2>6. OtherIn(user, d.target) => OtherIn(user', d.target)
    BY <1>4, <2>4 DEF OtherIn
  <2> QED
    BY <2>2, <2>4, <2>5, <2>6 DEF Allowed
<1> QED
  BY <1>5, <1>6, <1>7 DEF OwnerInv

\* The UPDATE of a login.
LEMMA OwnersChanged ==
  ASSUME StaffTyped, OwnerInv, NEW r \in Request, UpdateWrite(r)
  PROVE  OwnerInv'
<1>1. PICK d \in InFlight : d = request[r] /\ d.phase = "judged"
  BY InFlightTypes, StaffRowTypes DEF StaffTyped, StaffTypeOK, UpdateWrite, Busy
<1>2. d.target \in Email /\ d.change \in Change /\ d.actor \in Email /\ user[d.target] \in User
      /\ user[d.actor].tenant = user[d.target].tenant
  BY <1>1, InFlightTypes, IsUserTyped DEF StaffTyped, LoginsExist, ForOwners, TenantOf
<1>3. PICK e \in Email : e = d.target
  BY <1>2
<1>4. PICK after : after = UserAfter(user[e], d.change)
  OBVIOUS
<1>5. /\ after \in User /\ after.tenant = user[e].tenant
      /\ after.role = IF d.change.role = "keep" THEN user[e].role ELSE d.change.role
      /\ after.active = IF d.change.active = "keep" THEN user[e].active ELSE d.change.active = "on"
  BY <1>2, <1>3, <1>4, UserAfterTyped
<1>6. \A f \in Email : user'[f] = IF f = e THEN after ELSE user[f]
  BY <1>1, <1>3, <1>4 DEF UpdateWrite, StaffTyped, StaffTypeOK
<1>7. UNCHANGED invite /\ \A q \in Request : request'[q] = IF q = r THEN NoRequest ELSE request[q]
  BY DEF UpdateWrite, Leave, StaffTyped, StaffTypeOK
<1>8. after # NoUser /\ user[e] # NoUser
  BY <1>2, <1>3, <1>5, NobodyAssumption DEF User, NoUser
<1>9. InvitedByOne(user', invite')
  BY <1>5, <1>6, <1>7, <1>8 DEF OwnerInv, InvitedByOne
<1>10. raced \subseteq raced' /\ \A q \in Request \ {r} :
         Loses(user[e], d.change) /\ TakesAnother(q, e) => user[e].tenant \in raced'
  BY <1>1, <1>3 DEF UpdateWrite, LosesAnOwner, Loses
\* The business of the changed login still has an owner.
<1>11. ASSUME user[e].tenant \notin raced'
       PROVE  (Loses(user[e], d.change) => OtherIn(user, e)) /\ OwnerIn(user, user[e].tenant)
  BY <1>1, <1>3, <1>8, <1>10, <1>11 DEF OwnerInv, JudgedStands, Allowed, EveryoneHasOne
<1>12. ASSUME user[e].tenant \notin raced' PROVE OwnerIn(user', user[e].tenant)
  <2>1. CASE OtherIn(user, e)
    BY <1>6, <2>1 DEF OtherIn, OwnerIn
  <2>2. CASE ~OtherIn(user, e)
    <3>1. PICK f \in Email : GoodOwner(user[f]) /\ user[f].tenant = user[e].tenant
      BY <1>11, <1>12 DEF OwnerIn
    <3>2. f = e
      BY <2>2, <3>1 DEF OtherIn
    <3>3. d.change.active \in {"keep", "on"} /\ d.change.role \in {"keep", "owner"}
      BY <1>2, <1>11, <1>12, <2>2, <3>1, <3>2 DEF Loses, GoodOwner, Change, StaffRole
    <3>4. GoodOwner(after)
      BY <1>5, <3>1, <3>2, <3>3 DEF GoodOwner
    <3> QED
      BY <1>5, <1>6, <3>4 DEF OwnerIn
  <2> QED
    BY <2>1, <2>2
<1>13. EveryoneHasOne(user', raced')
  <2>1. ASSUME NEW t, t # user[e].tenant, OwnerIn(user, t) PROVE OwnerIn(user', t)
    BY <1>6, <2>1 DEF OwnerIn
  <2> QED
    BY <1>5, <1>6, <1>10, <1>12, <2>1 DEF OwnerInv, EveryoneHasOne
\* Whatever else is judged still stands.
<1>14. ASSUME NEW q \in Request, request'[q].phase = "judged",
              user'[request'[q].target].tenant \notin raced'
       PROVE  Allowed(user', request'[q])
  <2>1. q # r /\ request'[q] = request[q] /\ request[q].phase = "judged"
    BY <1>7, <1>14, StaffRowTypes
  <2>2. PICK b \in InFlight : b = request[q] /\ b.phase = "judged" /\ b.target \in Email
    BY <2>1, InFlightTypes, StaffRowTypes DEF StaffTyped, StaffTypeOK
  <2>3. user'[b.target].tenant = user[b.target].tenant /\ user[b.target].tenant \notin raced'
    BY <1>5, <1>6, <1>14, <2>1, <2>2
  <2>4. Allowed(user, b)
    BY <1>10, <2>1, <2>2, <2>3 DEF OwnerInv, JudgedStands
  \* Of another business: nothing has changed for it.
  <2>5. CASE user[b.target].tenant # user[e].tenant
    <3>1. b.target # e /\ user'[b.target] = user[b.target]
      BY <1>6, <2>2, <2>5
    <3>2. OtherIn(user, b.target) => OtherIn(user', b.target)
      BY <1>6, <2>5, <3>1 DEF OtherIn
    <3> QED
      BY <2>1, <2>2, <2>4, <3>1, <3>2 DEF Allowed
  \* Of the same login: the others are the same, and if it has become an owner
  \* by this there was another one.
  <2>6. CASE b.target = e
    <3>1. OtherIn(user', e) <=> OtherIn(user, e)
      BY <1>5, <1>6 DEF OtherIn
    <3>2. OtherIn(user, e) \/ user[e].role = "owner"
      BY <1>11, <2>3, <2>6 DEF OwnerIn, OtherIn, GoodOwner
    <3>3. Loses(user'[e], b.change) => Loses(user[e], b.change) \/ OtherIn(user, e)
      BY <3>2 DEF Loses
    <3> QED
      BY <2>1, <2>2, <2>4, <2>6, <3>1, <3>3 DEF Allowed
  \* Of another login: an owner it counted is not the one lost, or the two raced.
  <2>7. CASE user[b.target].tenant = user[e].tenant /\ b.target # e
    <3>1. user'[b.target] = user[b.target]
      BY <1>6, <2>2, <2>7
    <3>2. Loses(user[b.target], b.change) => TakesAnother(q, e)
      BY <2>2, <2>7 DEF TakesAnother, Busy, LosesAnOwner, Loses
    <3>3. Loses(user[b.target], b.change) => ~Loses(user[e], d.change)
      BY <1>10, <2>1, <2>3, <2>7, <3>2
    <3>4. GoodOwner(user[e]) /\ ~Loses(user[e], d.change) => GoodOwner(after)
      BY <1>2, <1>5 DEF Loses, GoodOwner, Change, StaffRole
    <3>5. Loses(user[b.target], b.change) => OtherIn(user', b.target)
      BY <1>3, <1>5, <1>6, <2>4, <2>7, <3>1, <3>3, <3>4 DEF Allowed, OtherIn
    <3> QED
      BY <2>1, <2>2, <3>1, <3>5 DEF Allowed
  <2> QED
    BY <2>5, <2>6, <2>7
<1> QED
  BY <1>9, <1>13, <1>14 DEF OwnerInv, JudgedStands

LEMMA OwnerStep == StaffTyped /\ OwnerInv /\ [StaffNext]_staffVars => OwnerInv'
<1> SUFFICES ASSUME StaffTyped, OwnerInv, [StaffNext]_staffVars PROVE OwnerInv'
  OBVIOUS
<1>t. StaffTypeOK /\ LoginsExist
  BY DEF StaffTyped
<1>i. InvitedByOne(user, invite)
  BY DEF OwnerInv
<1> DEFINE Still ==
  /\ UNCHANGED <<user, raced>> /\ InvitedByOne(user, invite')
  /\ \A r \in Request : request'[r] \in {request[r], NoRequest}
       \/ request'[r].phase # "judged" \/ Allowed(user, request'[r])
<1>0. Still => OwnerInv'
  BY OwnersStand
<1>1. ASSUME NEW e \in Email, NEW t \in Tenant, Register(e, t) PROVE OwnerInv'
  <2>1. PICK row : row = [tenant |-> t, role |-> "owner", active |-> TRUE]
    OBVIOUS
  <2>2. row \in User /\ GoodOwner(row)
    BY <2>1 DEF User, StaffRole, GoodOwner
  <2> QED
    BY <1>1, <2>1, <2>2, OwnersAdded DEF Register
<1>2. ASSUME NEW r \in Request, AcceptInvite(r) PROVE OwnerInv'
  <2>1. PICK i : i = request[r].invite
    OBVIOUS
  <2>2. i \in Invite
    BY <1>2, <1>t, <2>1, InFlightTypes DEF AcceptInvite, Busy, StaffTypeOK
  <2>3. \A q \in Request : request'[q] \in {request[q], NoRequest}
    BY <1>2, <1>t DEF AcceptInvite, Leave, StaffTypeOK
  <2>4. CASE Spendable(i) /\ ~IsUser(invite[i].email)
    <3>1. invite[i] # NoInvite /\ invite[i] \in InviteRow
      BY <1>t, <2>2, <2>4 DEF Spendable, OpenInvite, StaffTypeOK
    <3>2. PICK row : row = LoginFrom(i)
      OBVIOUS
    <3>3. row \in User /\ row.tenant = invite[i].tenant /\ invite[i].email \in Email
      BY <3>1, <3>2 DEF LoginFrom, User, InviteRow
    <3>4. \E f \in Email : IsUser(f) /\ user[f].tenant = row.tenant
      BY <1>i, <2>2, <3>1, <3>3 DEF InvitedByOne, IsUser
    <3>5. /\ user' = [user EXCEPT ![invite[i].email] = row]
          /\ invite' = [invite EXCEPT ![i].accepted = TRUE] /\ UNCHANGED raced
      BY <1>2, <2>1, <2>4, <3>2 DEF AcceptInvite
    <3>6. \A j \in Invite : invite'[j] # NoInvite => invite[j] # NoInvite /\ invite'[j].tenant = invite[j].tenant
      BY <1>t, <2>2, <3>1, <3>5 DEF StaffTypeOK, InviteRow
    <3> QED
      BY <2>3, <2>4, <3>3, <3>4, <3>5, <3>6, OwnersAdded
  <2>5. CASE ~(Spendable(i) /\ ~IsUser(invite[i].email))
    <3>1. UNCHANGED <<user, invite, raced>>
      BY <1>2, <2>1, <2>5 DEF AcceptInvite
    <3> QED
      BY <1>0, <1>i, <2>3, <3>1
  <2> QED
    BY <2>4, <2>5
<1>3. ASSUME NEW r \in Request, UpdateWrite(r) PROVE OwnerInv'
  BY <1>3, OwnersChanged
<1>4. ASSUME NEW e \in Email, Login(e) \/ TokenExpires(e) PROVE Still
  BY <1>4, <1>i DEF Login, TokenExpires
<1>5. ASSUME NEW i \in Invite, InviteExpires(i) PROVE Still
  <2>1. \A j \in Invite : invite'[j] # NoInvite => invite[j] # NoInvite /\ invite'[j].tenant = invite[j].tenant
    BY <1>5, <1>t DEF InviteExpires, StaffTypeOK, InviteRow
  <2> QED
    BY <1>5, <1>i, <2>1 DEF InviteExpires, InvitedByOne
<1>6. ASSUME NEW r \in Request, NEW e \in Email, Guard(r, e) PROVE Still
  BY <1>6, <1>t, <1>i DEF Guard, Enter, StaffTypeOK
<1>7. ASSUME NEW r \in Request, NEW e \in Email, NEW role \in StaffRole, InviteJudge(r, e, role)
      PROVE Still
  BY <1>7, <1>t, <1>i DEF InviteJudge, Enter, StaffTypeOK
<1>8. ASSUME NEW r \in Request, NEW i \in Invite, InviteInsert(r, i) PROVE Still
  <2>1. request[r].actor \in Email /\ IsUser(request[r].actor)
    BY <1>8, <1>t, InFlightTypes DEF InviteInsert, Busy, ForOwners, StaffTypeOK, LoginsExist
  <2>2. \A j \in Invite : invite'[j] # NoInvite =>
          \/ invite[j] # NoInvite /\ invite'[j].tenant = invite[j].tenant
          \/ invite'[j].tenant = user[request[r].actor].tenant
    BY <1>8, <1>t DEF InviteInsert, StaffTypeOK, TenantOf
  <2>3. InvitedByOne(user, invite')
    BY <1>i, <2>1, <2>2 DEF InvitedByOne, IsUser
  <2> QED
    BY <1>8, <1>t, <2>3 DEF InviteInsert, Leave, StaffTypeOK
<1>9. ASSUME NEW r \in Request, NEW i \in Invite, RevokeInvite(r, i) PROVE Still
  <2>1. \A j \in Invite : invite'[j] # NoInvite => invite[j] # NoInvite /\ invite'[j].tenant = invite[j].tenant
    BY <1>9, <1>t DEF RevokeInvite, OpenInvite, StaffTypeOK, InviteRow
  <2> QED
    BY <1>9, <1>t, <1>i, <2>1 DEF RevokeInvite, Leave, StaffTypeOK, InvitedByOne
<1>10. ASSUME NEW r \in Request, NEW i \in Invite, FindLiveInvite(r, i) PROVE Still
  BY <1>10, <1>t, <1>i DEF FindLiveInvite, Enter, StaffTypeOK
<1>11. ASSUME NEW r \in Request, NEW e \in Email, NEW change \in Change, UpdateJudge(r, e, change)
       PROVE Still
  <2>1. PICK d : d = [phase |-> "judged", actor |-> request[r].actor, target |-> e, change |-> change]
    OBVIOUS
  <2>2. Loses(user[e], change) => OthersLeft(e)
    BY <1>11 DEF UpdateJudge, MayChange, LosesAnOwner, Loses
  <2>3. OthersLeft(e) => OtherIn(user, e)
    BY <1>t, OwnerRows DEF OthersLeft, OtherIn
  <2>4. Allowed(user, d)
    BY <2>1, <2>2, <2>3 DEF Allowed
  <2> QED
    BY <1>11, <1>t, <1>i, <2>1, <2>4 DEF UpdateJudge, Enter, StaffTypeOK
<1>12. ASSUME NEW r \in Request, Refused(r) PROVE Still
  BY <1>12, <1>t, <1>i DEF Refused, Leave, StaffTypeOK
<1>13. ASSUME UNCHANGED staffVars PROVE Still
  BY <1>13, <1>i DEF staffVars
<1> HIDE DEF Still
<1> QED
  BY <1>0, <1>1, <1>2, <1>3, <1>4, <1>5, <1>6, <1>7, <1>8, <1>9, <1>10, <1>11, <1>12, <1>13
     DEF StaffNext

---------------------------------------------------------------------------

StaffInv == StaffTyped /\ SpentMade /\ OwnerInv

LEMMA StaffInvInit == StaffInit => StaffInv
<1> SUFFICES ASSUME StaffInit PROVE StaffInv
  OBVIOUS
<1>1. StaffTyped
  BY StaffRowTypes DEF StaffInit, StaffTyped, StaffTypeOK, LoginsExist, ForOwners
<1>2. SpentMade
  BY StaffRowTypes DEF StaffInit, SpentMade
<1>3. OwnerInv
  BY StaffRowTypes DEF StaffInit, OwnerInv, InvitedByOne, EveryoneHasOne, JudgedStands
<1> QED
  BY <1>1, <1>2, <1>3 DEF StaffInv

LEMMA StaffInvAlways == StaffSpec => []StaffInv
<1>1. StaffInv /\ [StaffNext]_staffVars => StaffInv'
  BY StaffTypedStep, SpentStep, OwnerStep DEF StaffInv
<1> QED
  BY <1>1, StaffInvInit, PTL DEF StaffSpec

\* Logins, invitations, tokens and requests keep their types
\* (staff.service.ts, auth.service.ts).
THEOREM StaffTypeCorrect == StaffSpec => []StaffTypeOK
<1>1. StaffInv => StaffTypeOK
  BY DEF StaffInv, StaffTyped
<1> QED
  BY <1>1, StaffInvAlways, PTL

\* StaffService.update leaves a business an active owner, whatever is promoted,
\* demoted and switched off and however the requests overlap, unless two of its
\* owners were being taken away at once, each counted for the other.
THEOREM SomebodyCanAdminister == StaffSpec => []AnOwnerIsLeft
<1>1. StaffInv => AnOwnerIsLeft
  <2> SUFFICES ASSUME StaffInv, NEW t \in Tenant \ raced, NEW e \in Email, user[e].tenant = t
               PROVE HasOwner(t)
    BY DEF AnOwnerIsLeft, Registered
  <2>1. user[e] # NoUser
    BY NobodyAssumption, StaffRowTypes
  <2>2. PICK f \in Email : GoodOwner(user[f]) /\ user[f].tenant = t
    BY <2>1 DEF StaffInv, OwnerInv, EveryoneHasOne, OwnerIn
  <2> QED
    BY <2>2, OwnerRows DEF StaffInv, StaffTyped, HasOwner
<1> QED
  BY <1>1, StaffInvAlways, PTL

\* An invitation makes one login or none, however often its link is followed
\* and whoever else invites the address (StaffService.accept and its unique
\* indexes).
THEOREM OneLoginEach == StaffSpec => []InvitesMakeOneLogin
<1>1. StaffInv => InvitesMakeOneLogin
  BY DEF StaffInv, SpentMade, InvitesMakeOneLogin
<1> QED
  BY <1>1, StaffInvAlways, PTL

---------------------------------------------------------------------------
\* CUSTOMERS

LEMMA VisitTypes ==
  /\ NoVisit.phase = "idle"
  /\ \A x \in Visit : /\ x.phase \in {"asking", "checking"}
                      /\ x.phase = "asking" => x.phone \in Phone
                      /\ x.phase = "checking" => x.challenge \in Challenge
BY DEF NoVisit, Visit

LEMMA ChallengeTypes ==
  \A row \in ChallengeRow : /\ row # NoChallenge /\ row.phone \in Phone /\ row.recent \in BOOLEAN
                            /\ row.attempts \in Nat /\ row.consumed \in BOOLEAN
BY DEF ChallengeRow, NoChallenge

\* The requests that check a challenge, those that ask for a code, and the
\* codes of a number that are within the cooldown.
Checking(c) == {v \in Visitor : visitor[v].phase = "checking" /\ visitor[v].challenge = c}
Asking(p) == {v \in Visitor : visitor[v].phase = "asking" /\ visitor[v].phone = p}
Recent(p) == {c \in Challenge : Issued(c) /\ challenge[c].phone = p /\ challenge[c].recent}

\* A code that is spent is checked by nobody who comes later, and one that is
\* recent is followed by no other: each session, and each recent code, was a
\* request in flight when the first of them was judged.
CodeInv ==
  /\ CustomersTypeOK
  /\ \A v \in Visitor : visitor[v].phase = "checking" => Issued(visitor[v].challenge)
  /\ \A c \in Challenge : (Issued(c) /\ challenge[c].consumed) \/ sessions[c] = 0
  /\ \A c \in Challenge : sessions[c] + Cardinality(Checking(c)) <= together[c]
  /\ \A p \in Phone : Cardinality(Recent(p)) + Cardinality(Asking(p)) <= together[p]

LEMMA SmallSets ==
  /\ \A S \in SUBSET Visitor : IsFiniteSet(S) /\ Cardinality(S) \in Nat
  /\ \A S \in SUBSET Challenge : IsFiniteSet(S) /\ Cardinality(S) \in Nat
BY CustomersAssumption, FS_Subset, FS_CardinalityType

LEMMA LessIsFewer ==
  ASSUME NEW S, NEW T, IsFiniteSet(T), S \subseteq T
  PROVE  Cardinality(S) \in Nat /\ Cardinality(T) \in Nat /\ Cardinality(S) <= Cardinality(T)
BY FS_Subset, FS_CardinalityType

LEMMA OneLess ==
  ASSUME NEW T, IsFiniteSet(T), NEW x \in T, NEW S, S \subseteq T \ {x}
  PROVE  Cardinality(S) \in Nat /\ Cardinality(T) \in Nat /\ Cardinality(S) + 1 <= Cardinality(T)
<1>1. IsFiniteSet(T \ {x}) /\ Cardinality(T \ {x}) = Cardinality(T) - 1
  BY FS_RemoveElement
<1>2. Cardinality(S) \in Nat /\ Cardinality(S) <= Cardinality(T \ {x})
  BY <1>1, LessIsFewer
<1>3. Cardinality(T) \in Nat
  BY FS_CardinalityType
<1>4. QED
  BY <1>1, <1>2, <1>3

\* A visitor's request comes in.
LEMMA EntersIs ==
  ASSUME CustomersTypeOK, NEW v \in Visitor, NEW x \in Visit, NEW y \in Phone \cup Challenge,
         Away(v), Enters(v, x, y)
  PROVE  /\ visitor' \in [Visitor -> Visit \cup {NoVisit}] /\ visitor'[v] = x
         /\ \A w \in Visitor \ {v} : visitor'[w] = visitor[w]
         /\ together' \in [Phone \cup Challenge -> 0 .. Cardinality(Visitor)]
         /\ \A z \in Phone \cup Challenge : together'[z] >= together[z]
         /\ together'[y] >= Cardinality(About(y)) + 1
<1>1. About(y) \subseteq Visitor \ {v}
  BY DEF About, Away
<1>2. /\ IsFiniteSet(Visitor) /\ Cardinality(Visitor) \in Nat /\ Cardinality(About(y)) \in Nat
      /\ Cardinality(About(y)) + 1 <= Cardinality(Visitor)
  <2>1. IsFiniteSet(Visitor)
    BY CustomersAssumption
  <2>2. QED
    BY <1>1, <2>1, OneLess
<1>3. PICK n \in 0 .. Cardinality(Visitor) :
        together' = [together EXCEPT ![y] = n] /\ n >= together[y] /\ n >= Cardinality(About(y)) + 1
  <2>1. PICK n : n = IF Cardinality(About(y)) + 1 > together[y] THEN Cardinality(About(y)) + 1 ELSE together[y]
    OBVIOUS
  <2>2. together' = [together EXCEPT ![y] = n]
    BY <2>1 DEF Enters
  <2>3. together[y] \in 0 .. Cardinality(Visitor)
    BY DEF CustomersTypeOK
  <2>4. n \in 0 .. Cardinality(Visitor) /\ n >= together[y] /\ n >= Cardinality(About(y)) + 1
    BY <1>2, <2>1, <2>3
  <2>5. QED
    BY <2>2, <2>4
<1>4. visitor' = [visitor EXCEPT ![v] = x]
  BY DEF Enters
<1>5. /\ visitor' \in [Visitor -> Visit \cup {NoVisit}] /\ visitor'[v] = x
      /\ \A w \in Visitor \ {v} : visitor'[w] = visitor[w]
  BY <1>4 DEF CustomersTypeOK
<1>6. /\ together' \in [Phone \cup Challenge -> 0 .. Cardinality(Visitor)]
      /\ \A z \in Phone \cup Challenge : together'[z] >= together[z]
      /\ together'[y] >= Cardinality(About(y)) + 1
  BY <1>2, <1>3 DEF CustomersTypeOK
<1>7. QED
  BY <1>5, <1>6

LEMMA LeavesIs ==
  ASSUME CustomersTypeOK, NEW v \in Visitor, Leaves(v)
  PROVE  /\ visitor' \in [Visitor -> Visit \cup {NoVisit}] /\ visitor'[v].phase = "idle"
         /\ \A w \in Visitor \ {v} : visitor'[w] = visitor[w]
         /\ UNCHANGED together
BY VisitTypes DEF CustomersTypeOK, Leaves

LEMMA CodeStep == CodeInv /\ [CustomerNext]_customerVars => CodeInv'
<1> SUFFICES ASSUME CodeInv, [CustomerNext]_customerVars PROVE CodeInv'
  OBVIOUS
<1>0. CustomersTypeOK
  BY DEF CodeInv
<1> DEFINE Visits == \A w \in Visitor : visitor'[w].phase = "checking" =>
                       visitor'[w] = visitor[w] \/ challenge'[visitor'[w].challenge] # NoChallenge
           Codes == \A c \in Challenge :
             /\ (challenge'[c] # NoChallenge /\ challenge'[c].consumed) \/ sessions'[c] = 0
             /\ Issued(c) => challenge'[c] # NoChallenge
           Sums == /\ \A c \in Challenge : sessions'[c] + Cardinality(Checking(c)') <= together'[c]
                   /\ \A p \in Phone : Cardinality(Recent(p)') + Cardinality(Asking(p)') <= together'[p]
<1>1. ASSUME CustomersTypeOK', Visits, Codes, Sums PROVE CodeInv'
  <2>1. ASSUME NEW w \in Visitor, visitor'[w].phase = "checking"
        PROVE  challenge'[visitor'[w].challenge] # NoChallenge
    <3>1. CASE visitor'[w] = visitor[w]
      <4>1. Issued(visitor[w].challenge) /\ visitor[w].challenge \in Challenge
        BY <1>0, <2>1, <3>1, VisitTypes DEF CodeInv, CustomersTypeOK
      <4>2. QED
        BY <1>1, <3>1, <4>1
    <3>2. QED
      BY <1>1, <2>1, <3>1
  <2>2. QED
    BY <1>1, <2>1 DEF CodeInv, Issued
\* A request comes in about a challenge or a number.
<1>2. ASSUME NEW v \in Visitor, NEW p \in Phone, AskJudge(v, p) PROVE CodeInv'
  <2> DEFINE x == [phase |-> "asking", phone |-> p]
  <2>1. x \in Visit
    BY DEF Visit
  <2>2. Away(v) /\ ~Cooling(p) /\ Enters(v, x, p) /\ UNCHANGED <<customer, challenge, sessions>>
    BY <1>2 DEF AskJudge
  <2>3. /\ visitor' \in [Visitor -> Visit \cup {NoVisit}] /\ visitor'[v] = x
        /\ \A w \in Visitor \ {v} : visitor'[w] = visitor[w]
        /\ together' \in [Phone \cup Challenge -> 0 .. Cardinality(Visitor)]
        /\ \A z \in Phone \cup Challenge : together'[z] >= together[z]
        /\ together'[p] >= Cardinality(About(p)) + 1
    BY <1>0, <2>1, <2>2, EntersIs
  <2>4. CustomersTypeOK' /\ Visits /\ Codes
    BY <1>0, <2>2, <2>3 DEF CodeInv, CustomersTypeOK, Issued
  <2>5. ASSUME NEW c \in Challenge PROVE sessions'[c] + Cardinality(Checking(c)') <= together'[c]
    <3>1. Checking(c)' = Checking(c)
      BY <2>2, <2>3 DEF Checking, Away
    <3>2. Cardinality(Checking(c)) \in Nat
      BY SmallSets DEF Checking
    <3>3. QED
      BY <1>0, <2>2, <2>3, <3>1, <3>2 DEF CodeInv, CustomersTypeOK
  <2>6. ASSUME NEW q \in Phone PROVE Cardinality(Recent(q)') + Cardinality(Asking(q)') <= together'[q]
    <3>1. Recent(q)' = Recent(q)
      BY <2>2 DEF Recent, Issued
    <3>2. CASE q = p
      <4>1. Recent(p) = {}
        BY <2>2 DEF Cooling, Recent
      <4>2. v \in Asking(p)' /\ Asking(p)' \ {v} \subseteq About(p) /\ Asking(p)' \subseteq Visitor
        BY <2>3 DEF Asking, About
      <4>3. Cardinality(Asking(p)') <= Cardinality(About(p)) + 1
        <5>1. IsFiniteSet(Asking(p)') /\ IsFiniteSet(About(p)) /\ Cardinality(About(p)) \in Nat
          BY <4>2, SmallSets DEF About
        <5>2. Cardinality(Asking(p)' \ {v}) = Cardinality(Asking(p)') - 1
          BY <4>2, <5>1, FS_RemoveElement
        <5>3. Cardinality(Asking(p)' \ {v}) <= Cardinality(About(p))
          BY <4>2, <5>1, LessIsFewer
        <5>4. Cardinality(Asking(p)') \in Nat
          BY <5>1, FS_CardinalityType
        <5>5. QED
          BY <5>1, <5>2, <5>3, <5>4
      <4>4. Cardinality(Recent(q)') = 0
        BY <3>1, <3>2, <4>1, FS_EmptySet
      <4>5. Cardinality(Asking(p)') \in Nat /\ Cardinality(About(p)) \in Nat /\ together'[p] \in Nat
        <5>1. Asking(p)' \in SUBSET Visitor /\ About(p) \in SUBSET Visitor
          BY <4>2 DEF About
        <5>2. Cardinality(Visitor) \in Nat
          BY CustomersAssumption, FS_CardinalityType
        <5>3. QED
          BY <2>3, <5>1, <5>2, SmallSets
      <4>6. QED
        BY <2>3, <3>2, <4>3, <4>4, <4>5
    <3>3. CASE q # p
      <4>1. Asking(q)' = Asking(q)
        BY <2>2, <2>3, <3>3 DEF Asking, Away
      <4>2. Cardinality(Asking(q)) \in Nat /\ Cardinality(Recent(q)) \in Nat
        BY SmallSets DEF Asking, Recent
      <4>3. QED
        BY <1>0, <2>3, <3>1, <4>1, <4>2 DEF CodeInv, CustomersTypeOK
    <3>4. QED
      BY <3>2, <3>3
  <2>7. QED
    BY <1>1, <2>4, <2>5, <2>6
<1>3. ASSUME NEW v \in Visitor, NEW c \in Challenge, CheckJudge(v, c) PROVE CodeInv'
  <2> DEFINE x == [phase |-> "checking", challenge |-> c]
  <2>1. x \in Visit
    BY DEF Visit
  <2>2. /\ Away(v) /\ Issued(c) /\ ~challenge[c].consumed /\ Enters(v, x, c)
        /\ UNCHANGED <<customer, challenge, sessions>>
    BY <1>3 DEF CheckJudge, Unspent
  <2>3. /\ visitor' \in [Visitor -> Visit \cup {NoVisit}] /\ visitor'[v] = x
        /\ \A w \in Visitor \ {v} : visitor'[w] = visitor[w]
        /\ together' \in [Phone \cup Challenge -> 0 .. Cardinality(Visitor)]
        /\ \A z \in Phone \cup Challenge : together'[z] >= together[z]
        /\ together'[c] >= Cardinality(About(c)) + 1
    BY <1>0, <2>1, <2>2, EntersIs
  <2>4. CustomersTypeOK' /\ Visits /\ Codes
    BY <1>0, <2>2, <2>3 DEF CodeInv, CustomersTypeOK, Issued
  <2>5. ASSUME NEW q \in Phone PROVE Cardinality(Recent(q)') + Cardinality(Asking(q)') <= together'[q]
    <3>1. Recent(q)' = Recent(q) /\ Asking(q)' = Asking(q)
      BY <2>2, <2>3 DEF Recent, Issued, Asking, Away
    <3>2. Cardinality(Asking(q)) \in Nat /\ Cardinality(Recent(q)) \in Nat
      BY SmallSets DEF Asking, Recent
    <3>3. QED
      BY <1>0, <2>3, <3>1, <3>2 DEF CodeInv, CustomersTypeOK
  <2>6. ASSUME NEW e \in Challenge PROVE sessions'[e] + Cardinality(Checking(e)') <= together'[e]
    <3>1. CASE e = c
      <4>1. sessions'[c] = 0
        BY <2>2 DEF CodeInv
      <4>2. v \in Checking(c)' /\ Checking(c)' \ {v} \subseteq About(c) /\ Checking(c)' \subseteq Visitor
        BY <2>3 DEF Checking, About
      <4>3. /\ IsFiniteSet(Checking(c)') /\ Cardinality(Checking(c)') \in Nat
            /\ IsFiniteSet(About(c)) /\ Cardinality(About(c)) \in Nat
        BY <4>2, SmallSets DEF About
      <4>4. Cardinality(Checking(c)' \ {v}) = Cardinality(Checking(c)') - 1
        BY <4>2, <4>3, FS_RemoveElement
      <4>5. Cardinality(Checking(c)' \ {v}) <= Cardinality(About(c))
        BY <4>2, <4>3, LessIsFewer
      <4>6. together'[c] \in Nat
        BY <2>3, CustomersAssumption, FS_CardinalityType
      <4>7. QED
        BY <2>3, <3>1, <4>1, <4>3, <4>4, <4>5, <4>6
    <3>2. CASE e # c
      <4>1. Checking(e)' = Checking(e)
        BY <2>2, <2>3, <3>2 DEF Checking, Away
      <4>2. Cardinality(Checking(e)) \in Nat
        BY SmallSets DEF Checking
      <4>3. QED
        BY <1>0, <2>2, <2>3, <4>1, <4>2 DEF CodeInv, CustomersTypeOK
    <3>3. QED
      BY <3>1, <3>2
  <2>7. QED
    BY <1>1, <2>4, <2>5, <2>6
\* A request goes: it was counted where it was.
<1>4. ASSUME NEW v \in Visitor, Leaves(v)
      PROVE  /\ \A c \in Challenge : Checking(c)' = Checking(c) \ {v} /\ Cardinality(Checking(c)') <= Cardinality(Checking(c))
             /\ \A p \in Phone : Asking(p)' = Asking(p) \ {v} /\ Cardinality(Asking(p)') <= Cardinality(Asking(p))
  <2>1. visitor'[v].phase = "idle" /\ \A w \in Visitor \ {v} : visitor'[w] = visitor[w]
    BY <1>0, <1>4, LeavesIs
  <2>2. \A c \in Challenge : Checking(c)' = Checking(c) \ {v}
    BY <2>1 DEF Checking
  <2>3. \A p \in Phone : Asking(p)' = Asking(p) \ {v}
    BY <2>1 DEF Asking
  <2>4. \A S \in SUBSET Visitor : Cardinality(S \ {v}) <= Cardinality(S)
    BY SmallSets, FS_Subset
  <2>5. QED
    BY <2>2, <2>3, <2>4 DEF Checking, Asking
<1>5. ASSUME NEW v \in Visitor, VisitFails(v) PROVE CodeInv'
  <2>1. Leaves(v) /\ UNCHANGED <<customer, challenge, sessions>>
    BY <1>5 DEF VisitFails
  <2>2. /\ visitor' \in [Visitor -> Visit \cup {NoVisit}] /\ visitor'[v].phase = "idle"
        /\ \A w \in Visitor \ {v} : visitor'[w] = visitor[w]
        /\ UNCHANGED together
    BY <1>0, <2>1, LeavesIs
  <2>3. CustomersTypeOK' /\ Visits /\ Codes
    BY <1>0, <2>1, <2>2 DEF CodeInv, CustomersTypeOK, Issued
  <2>4. /\ \A c \in Challenge : Cardinality(Checking(c)) \in Nat /\ Cardinality(Checking(c)') \in Nat
        /\ \A p \in Phone : /\ Recent(p)' = Recent(p) /\ Cardinality(Recent(p)) \in Nat
                            /\ Cardinality(Asking(p)) \in Nat /\ Cardinality(Asking(p)') \in Nat
    BY <2>1, SmallSets DEF Checking, Asking, Recent, Issued
  <2>5. Sums
    BY <1>0, <1>4, <2>1, <2>2, <2>4 DEF CodeInv, CustomersTypeOK
  <2>6. QED
    BY <1>1, <2>3, <2>5
<1>6. ASSUME NEW v \in Visitor, NEW c \in Challenge, AskCommit(v, c) PROVE CodeInv'
  <2> DEFINE p == visitor[v].phone
             row == [phone |-> p, recent |-> TRUE, expired |-> FALSE, attempts |-> 0, consumed |-> FALSE]
  <2>1. /\ Leaves(v) /\ UNCHANGED <<customer, sessions>> /\ ~Issued(c)
        /\ visitor[v].phase = "asking" /\ challenge' = [challenge EXCEPT ![c] = row]
    BY <1>6 DEF AskCommit
  <2>2. /\ visitor' \in [Visitor -> Visit \cup {NoVisit}] /\ visitor'[v].phase = "idle"
        /\ \A w \in Visitor \ {v} : visitor'[w] = visitor[w]
        /\ UNCHANGED together
    BY <1>0, <2>1, LeavesIs
  <2>3. p \in Phone
    BY <1>0, <2>1, VisitTypes DEF CustomersTypeOK
  <2>4. row \in ChallengeRow
    BY <2>3, CustomersAssumption DEF ChallengeRow
  <2>5. /\ challenge' \in [Challenge -> ChallengeRow \cup {NoChallenge}] /\ challenge'[c] = row
        /\ \A e \in Challenge \ {c} : challenge'[e] = challenge[e]
    BY <1>0, <2>1, <2>4 DEF CustomersTypeOK
  <2>6. CustomersTypeOK'
    BY <1>0, <2>1, <2>2, <2>5 DEF CustomersTypeOK
  <2>7. sessions[c] = 0
    BY <1>0, <2>1 DEF CodeInv, CustomersTypeOK
  <2>8. Visits /\ Codes
    BY <1>0, <2>1, <2>2, <2>4, <2>5, <2>7, ChallengeTypes DEF CodeInv, Issued
  <2>9. \A e \in Challenge : Cardinality(Checking(e)) \in Nat /\ Cardinality(Checking(e)') \in Nat
    BY SmallSets DEF Checking
  <2>10. \A e \in Challenge : sessions'[e] + Cardinality(Checking(e)') <= together'[e]
    BY <1>0, <1>4, <2>1, <2>2, <2>9 DEF CodeInv, CustomersTypeOK
  <2>11. ASSUME NEW q \in Phone PROVE Cardinality(Recent(q)') + Cardinality(Asking(q)') <= together'[q]
    <3>0. /\ IsFiniteSet(Recent(q)) /\ IsFiniteSet(Asking(q)) /\ IsFiniteSet(Recent(q)')
          /\ Cardinality(Recent(q)) \in Nat /\ Cardinality(Asking(q)) \in Nat
          /\ Cardinality(Recent(q)') \in Nat /\ Cardinality(Asking(q)') \in Nat
      BY SmallSets DEF Recent, Asking
    <3>1. CASE q = p
      <4>1. Recent(q)' = Recent(q) \cup {c} /\ c \notin Recent(q)
        BY <2>1, <2>4, <2>5, <3>1, ChallengeTypes DEF Recent, Issued
      <4>2. Cardinality(Recent(q)') = Cardinality(Recent(q)) + 1
        BY <3>0, <4>1, FS_AddElement
      <4>3. v \in Asking(q) /\ Asking(q)' = Asking(q) \ {v}
        BY <1>4, <2>1, <3>1 DEF Asking
      <4>4. Cardinality(Asking(q)') = Cardinality(Asking(q)) - 1
        BY <3>0, <4>3, FS_RemoveElement
      <4>5. QED
        BY <1>0, <2>2, <3>0, <4>2, <4>4 DEF CodeInv, CustomersTypeOK
    <3>2. CASE q # p
      <4>1. Recent(q)' = Recent(q)
        BY <2>1, <2>5, <3>2 DEF Recent, Issued
      <4>2. Cardinality(Asking(q)') <= Cardinality(Asking(q))
        BY <1>4, <2>1
      <4>3. QED
        BY <1>0, <2>2, <3>0, <4>1, <4>2 DEF CodeInv, CustomersTypeOK
    <3>3. QED
      BY <3>1, <3>2
  <2>12. QED
    BY <1>1, <2>6, <2>8, <2>10, <2>11
<1>7. ASSUME NEW v \in Visitor, NEW typed \in BOOLEAN, CheckRight(v, typed) PROVE CodeInv'
  <2>1. PICK c \in Challenge :
          /\ c = visitor[v].challenge /\ visitor[v].phase = "checking" /\ Issued(c)
          /\ challenge' = [challenge EXCEPT ![c].attempts = @ + 1, ![c].consumed = TRUE]
          /\ customer' = [customer EXCEPT ![challenge[c].phone] = NameAfter(challenge[c].phone, typed)]
          /\ sessions' = [sessions EXCEPT ![c] = sessions[c] + 1]
          /\ Leaves(v)
    BY <1>0, <1>7, VisitTypes DEF CheckRight, CodeInv, CustomersTypeOK
  <2>2. /\ visitor' \in [Visitor -> Visit \cup {NoVisit}] /\ visitor'[v].phase = "idle"
        /\ \A w \in Visitor \ {v} : visitor'[w] = visitor[w]
        /\ UNCHANGED together
    BY <1>0, <2>1, LeavesIs
  <2>3. challenge[c] \in ChallengeRow
    BY <1>0, <2>1 DEF CustomersTypeOK, Issued
  <2>4. PICK row : row = [challenge[c] EXCEPT !.attempts = @ + 1, !.consumed = TRUE]
    OBVIOUS
  <2>5. /\ row \in ChallengeRow /\ row.phone = challenge[c].phone /\ row.recent = challenge[c].recent
        /\ row.attempts = challenge[c].attempts + 1 /\ row.consumed /\ row # NoChallenge
    <3>1. challenge[c].attempts + 1 \in Nat
      BY <2>3 DEF ChallengeRow
    <3>2. /\ row.phone = challenge[c].phone /\ row.recent = challenge[c].recent
          /\ row.attempts = challenge[c].attempts + 1 /\ row.consumed = TRUE
      BY <2>3, <2>4 DEF ChallengeRow
    <3>3. row \in ChallengeRow
      BY <2>3, <2>4, <3>1 DEF ChallengeRow
    <3>4. QED
      BY <3>2, <3>3, ChallengeTypes
  <2>6. challenge' = [challenge EXCEPT ![c] = row]
    BY <1>0, <2>1, <2>4 DEF CustomersTypeOK
  <2>7. /\ challenge' \in [Challenge -> ChallengeRow \cup {NoChallenge}] /\ challenge'[c] = row
        /\ \A e \in Challenge \ {c} : challenge'[e] = challenge[e]
    BY <1>0, <2>5, <2>6 DEF CustomersTypeOK
  <2>8. customer' \in [Phone -> Name \cup {NoCustomer}]
    <3>1. challenge[c].phone \in Phone
      BY <2>3 DEF ChallengeRow
    <3>2. NameAfter(challenge[c].phone, typed) \in Name \cup {NoCustomer}
      BY <1>0, <3>1 DEF NameAfter, Name, CustomersTypeOK
    <3>3. QED
      BY <1>0, <2>1, <3>2 DEF CustomersTypeOK
  <2>9. sessions[c] \in Nat
    BY <1>0 DEF CustomersTypeOK
  <2>10. /\ sessions' \in [Challenge -> Nat]
         /\ sessions'[c] = sessions[c] + 1 /\ \A e \in Challenge \ {c} : sessions'[e] = sessions[e]
    BY <1>0, <2>1, <2>9 DEF CustomersTypeOK
  <2>11. CustomersTypeOK'
    BY <1>0, <2>2, <2>7, <2>8, <2>10 DEF CustomersTypeOK
  <2>12. Visits /\ Codes
    <3>1. Visits
      BY <2>2
    <3>2. ASSUME NEW e \in Challenge, e # c
          PROVE  /\ (challenge'[e] # NoChallenge /\ challenge'[e].consumed) \/ sessions'[e] = 0
                 /\ Issued(e) => challenge'[e] # NoChallenge
      BY <2>7, <2>10, <3>2 DEF CodeInv, Issued
    <3>3. challenge'[c] # NoChallenge /\ challenge'[c].consumed
      BY <2>5, <2>7
    <3>4. QED
      BY <3>1, <3>2, <3>3
  <2>13. \A q \in Phone : /\ Recent(q)' = Recent(q) /\ Cardinality(Recent(q)) \in Nat
                          /\ Cardinality(Asking(q)) \in Nat /\ Cardinality(Asking(q)') \in Nat
    <3>1. ASSUME NEW q \in Phone, NEW e \in Challenge
          PROVE  e \in Recent(q)' <=> e \in Recent(q)
      <4>1. CASE e = c
        BY <2>1, <2>5, <2>7, <4>1 DEF Recent, Issued
      <4>2. CASE e # c
        BY <2>7, <4>2 DEF Recent, Issued
      <4>3. QED
        BY <4>1, <4>2
    <3>2. \A q \in Phone : Recent(q)' = Recent(q)
      BY <3>1 DEF Recent
    <3>3. QED
      BY <3>2, SmallSets DEF Recent, Asking
  <2>14. \A q \in Phone : Cardinality(Recent(q)') + Cardinality(Asking(q)') <= together'[q]
    BY <1>0, <1>4, <2>1, <2>2, <2>13 DEF CodeInv, CustomersTypeOK
  <2>15. ASSUME NEW e \in Challenge PROVE sessions'[e] + Cardinality(Checking(e)') <= together'[e]
    <3>1. /\ IsFiniteSet(Checking(e)) /\ Cardinality(Checking(e)) \in Nat /\ Cardinality(Checking(e)') \in Nat
      BY SmallSets DEF Checking
    <3>2. CASE e = c
      <4>1. v \in Checking(e) /\ Checking(e)' = Checking(e) \ {v}
        BY <1>4, <2>1, <3>2 DEF Checking
      <4>2. Cardinality(Checking(e)') = Cardinality(Checking(e)) - 1
        BY <3>1, <4>1, FS_RemoveElement
      <4>3. QED
        BY <1>0, <2>2, <2>9, <2>10, <3>1, <3>2, <4>2 DEF CodeInv, CustomersTypeOK
    <3>3. CASE e # c
      BY <1>0, <1>4, <2>1, <2>2, <2>10, <3>1, <3>3 DEF CodeInv, CustomersTypeOK
    <3>4. QED
      BY <3>2, <3>3
  <2>16. QED
    BY <1>1, <2>11, <2>12, <2>14, <2>15
\* A challenge grows old.
<1>8. ASSUME NEW c \in Challenge, CoolsDown(c) \/ ChallengeExpires(c) PROVE CodeInv'
  <2>1. challenge[c] \in ChallengeRow
    BY <1>0, <1>8 DEF CoolsDown, ChallengeExpires, CustomersTypeOK, Issued
  <2>2. PICK row \in ChallengeRow :
          /\ challenge' = [challenge EXCEPT ![c] = row]
          /\ row.phone = challenge[c].phone /\ (row.recent => challenge[c].recent)
          /\ row.attempts = challenge[c].attempts /\ row.consumed = challenge[c].consumed
    <3>1. CASE CoolsDown(c)
      <4>1. [challenge[c] EXCEPT !.recent = FALSE] \in ChallengeRow
        BY <2>1 DEF ChallengeRow
      <4>2. challenge' = [challenge EXCEPT ![c] = [challenge[c] EXCEPT !.recent = FALSE]]
        BY <1>0, <3>1 DEF CoolsDown, CustomersTypeOK
      <4>3. QED
        BY <2>1, <4>1, <4>2 DEF ChallengeRow
    <3>2. CASE ChallengeExpires(c)
      <4>1. [challenge[c] EXCEPT !.expired = TRUE] \in ChallengeRow
        BY <2>1 DEF ChallengeRow
      <4>2. challenge' = [challenge EXCEPT ![c] = [challenge[c] EXCEPT !.expired = TRUE]]
        BY <1>0, <3>2 DEF ChallengeExpires, CustomersTypeOK
      <4>3. QED
        BY <2>1, <4>1, <4>2 DEF ChallengeRow
    <3>3. QED
      BY <1>8, <3>1, <3>2
  <2>3. /\ challenge' \in [Challenge -> ChallengeRow \cup {NoChallenge}] /\ challenge'[c] = row
        /\ \A e \in Challenge \ {c} : challenge'[e] = challenge[e]
        /\ row # NoChallenge
    BY <1>0, <2>2, ChallengeTypes DEF CustomersTypeOK
  <2>4. UNCHANGED <<customer, visitor, sessions, together>>
    BY <1>8 DEF CoolsDown, ChallengeExpires
  <2>5. CustomersTypeOK' /\ Visits
    BY <1>0, <2>3, <2>4 DEF CustomersTypeOK
  <2>6. Codes
    BY <1>0, <1>8, <2>2, <2>3, <2>4 DEF CodeInv, Issued, CoolsDown, ChallengeExpires
  <2>7. \A e \in Challenge : Checking(e)' = Checking(e)
    BY <2>4 DEF Checking
  <2>8. ASSUME NEW q \in Phone PROVE Cardinality(Recent(q)') + Cardinality(Asking(q)') <= together'[q]
    <3>1. Recent(q)' \subseteq Recent(q) /\ Asking(q)' = Asking(q) /\ Recent(q) \in SUBSET Challenge
      <4>1. Issued(c)
        BY <1>8 DEF CoolsDown, ChallengeExpires
      <4>2. QED
        BY <2>2, <2>3, <2>4, <4>1 DEF Recent, Asking, Issued
    <3>2. IsFiniteSet(Recent(q)) /\ Cardinality(Asking(q)) \in Nat
      BY SmallSets DEF Recent, Asking
    <3>3. /\ Cardinality(Recent(q)') \in Nat /\ Cardinality(Recent(q)) \in Nat
          /\ Cardinality(Recent(q)') <= Cardinality(Recent(q))
      BY <3>1, <3>2, LessIsFewer
    <3>4. QED
      BY <1>0, <2>4, <3>1, <3>2, <3>3 DEF CodeInv, CustomersTypeOK
  <2>9. QED
    BY <1>1, <2>4, <2>5, <2>6, <2>7, <2>8 DEF CodeInv
\* The desk has nothing to do with codes.
<1>9. ASSUME UNCHANGED <<challenge, visitor, sessions, together>>,
             customer' \in [Phone -> Name \cup {NoCustomer}]
      PROVE  CodeInv'
  <2>1. /\ \A c \in Challenge : Checking(c)' = Checking(c) /\ (Issued(c)' <=> Issued(c))
        /\ \A p \in Phone : Recent(p)' = Recent(p) /\ Asking(p)' = Asking(p)
    BY <1>9 DEF Checking, Recent, Asking, Issued
  <2>2. CustomersTypeOK'
    BY <1>0, <1>9 DEF CustomersTypeOK
  <2>3. Visits /\ Codes /\ Sums
    BY <1>9, <2>1 DEF CodeInv, Issued
  <2>4. QED
    BY <1>1, <2>2, <2>3
<1>10. ASSUME NEW p \in Phone, FindOrCreate(p) \/ CreateCustomer(p) PROVE CodeInv'
  <2>1. customer' \in [Phone -> Name \cup {NoCustomer}]
    BY <1>0, <1>10 DEF FindOrCreate, CreateCustomer, CustomersTypeOK, Name
  <2>2. QED
    BY <1>9, <1>10, <2>1 DEF FindOrCreate, CreateCustomer
<1>11. ASSUME NEW p \in Phone, NEW q \in Phone \ {p}, UpdatePhone(p, q) PROVE CodeInv'
  <2>1. customer' \in [Phone -> Name \cup {NoCustomer}]
    BY <1>0, <1>11 DEF UpdatePhone, CustomersTypeOK
  <2>2. QED
    BY <1>9, <1>11, <2>1 DEF UpdatePhone
<1>12. CASE UNCHANGED customerVars
  BY <1>0, <1>9, <1>12 DEF customerVars, CustomersTypeOK
<1>13. QED
  BY <1>2, <1>3, <1>5, <1>6, <1>7, <1>8, <1>10, <1>11, <1>12 DEF CustomerNext

LEMMA CodeInit == CustomerInit => CodeInv
<1> SUFFICES ASSUME CustomerInit PROVE CodeInv
  OBVIOUS
<1>1. Cardinality(Visitor) \in Nat
  BY SmallSets
<1>2. CustomersTypeOK
  BY <1>1 DEF CustomerInit, CustomersTypeOK
<1>3. \A c \in Challenge : ~Issued(c) /\ sessions[c] = 0 /\ together[c] = 0
  BY DEF CustomerInit, Issued
<1>4. /\ \A c \in Challenge : Checking(c) = {}
      /\ \A p \in Phone : Recent(p) = {} /\ Asking(p) = {} /\ together[p] = 0
  BY <1>3, VisitTypes DEF CustomerInit, Checking, Recent, Asking
<1>5. \A v \in Visitor : visitor[v].phase = "idle"
  BY VisitTypes DEF CustomerInit
<1>6. Cardinality({}) = 0
  BY FS_EmptySet
<1>7. \A c \in Challenge : sessions[c] + Cardinality(Checking(c)) <= together[c]
  BY <1>3, <1>4, <1>6
<1>8. \A p \in Phone : Cardinality(Recent(p)) + Cardinality(Asking(p)) <= together[p]
  BY <1>4, <1>6
<1>9. QED
  BY <1>2, <1>3, <1>5, <1>7, <1>8 DEF CodeInv

LEMMA CodeInvAlways == CustomerSpec => []CodeInv
BY CodeInit, CodeStep, PTL DEF CustomerSpec

\* Customers, challenges, requests and counts keep their types
\* (customers.service.ts, otp.service.ts): a request in flight is about a
\* number or a challenge there is, and of no number or challenge have more
\* requests been in flight at one time than there are visitors.
THEOREM CustomersTypeCorrect == CustomerSpec => []CustomersTypeOK
<1>1. CodeInv => CustomersTypeOK
  BY DEF CodeInv
<1>2. QED
  BY <1>1, CodeInvAlways, PTL

\* A code makes no more sessions than requests were checking it at one time,
\* and no more codes are sent to a number within the cooldown than were asked
\* for at one time (OtpService.verify and request), for any number of numbers,
\* challenges and visitors.
THEOREM CodesAlwaysHold == CustomerSpec => []CodesHold
<1>1. CodeInv => CodesHold
  <2> SUFFICES ASSUME CodeInv PROVE CodesHold
    OBVIOUS
  <2>0. CustomersTypeOK
    BY DEF CodeInv
  <2>1. ASSUME NEW c \in Challenge PROVE sessions[c] <= together[c]
    <3>1. Cardinality(Checking(c)) \in Nat /\ sessions[c] + Cardinality(Checking(c)) <= together[c]
      BY SmallSets DEF Checking, CodeInv
    <3>2. sessions[c] \in Int /\ together[c] \in Int
      BY <2>0 DEF CustomersTypeOK
    <3>3. QED
      BY <3>1, <3>2
  <2>2. ASSUME NEW p \in Phone PROVE Cardinality(Recent(p)) <= together[p]
    <3>1. /\ Cardinality(Asking(p)) \in Nat /\ Cardinality(Recent(p)) \in Nat
          /\ Cardinality(Recent(p)) + Cardinality(Asking(p)) <= together[p]
      BY SmallSets DEF Asking, Recent, CodeInv
    <3>2. together[p] \in Int
      BY <2>0 DEF CustomersTypeOK
    <3>3. QED
      BY <3>1, <3>2
  <2>3. QED
    BY <2>1, <2>2 DEF CodesHold, OneSessionPerCode, CodesAreRare, Recent
<1>2. QED
  BY <1>1, CodeInvAlways, PTL

---------------------------------------------------------------------------
\* ENQUIRIES

LEMMA HireRowTypes ==
  /\ Unused.status = "none" /\ Deleted.status = "gone" /\ NoEnquiry.status = "none"
  /\ NoEnquiry.link = NoHire /\ NoDeed.phase = "idle"
  /\ \A row \in HireRow :
       row # Unused /\ row # Deleted /\ row.status \in {"held", "confirmed", "cancelled"}
  /\ \A row \in EnquiryRow : row # NoEnquiry /\ row.status \in Stage
BY DEF Unused, Deleted, NoEnquiry, NoDeed, HireRow, EnquiryRow, Stage

LEMMA DeedTypes ==
  /\ \A deed \in Deed : /\ deed.phase \in {"booking", "moving"} /\ deed # NoDeed
                        /\ deed.enquiry \in Enquiry
                        /\ deed.phase = "moving" => deed.to \in Stage \ {"won"}
                        /\ deed.phase = "booking" => deed.place \in Place /\ deed.deal \in Deal
  /\ NoDeed.phase = "idle"
BY DEF Deed, NoDeed

LEMMA HeldIsHire ==
  ASSUME EnquiriesTypeOK, NEW h \in Hire
  PROVE  /\ Held(h) => hire[h] \in HireRow
         /\ hire[h].status \in {"held", "confirmed", "cancelled"} <=> hire[h] \in HireRow
BY HireRowTypes DEF EnquiriesTypeOK, HireRow, Held

LEMMA StartsTyped ==
  ASSUME EnquiriesTypeOK, NEW a \in Agent, NEW deed \in Deed, Starts(a, deed)
  PROVE  /\ agent' \in [Agent -> Deed \cup {NoDeed}]
         /\ contested' \subseteq Enquiry /\ contested \subseteq contested'
BY DeedTypes DEF EnquiriesTypeOK, Starts

LEMMA EndsTyped ==
  ASSUME EnquiriesTypeOK, NEW a \in Agent, Ends(a)
  PROVE  agent' \in [Agent -> Deed \cup {NoDeed}] /\ contested' \subseteq Enquiry
BY DEF EnquiriesTypeOK, Ends

---------------------------------------------------------------------------
\* Types.

LEMMA EnquiryTypeStep ==
  ASSUME EnquiriesTypeOK, [EnquiryNext]_enquiryVars
  PROVE  EnquiriesTypeOK'
<1>1. ASSUME NEW e \in Enquiry, CreateEnquiry(e) PROVE EnquiriesTypeOK'
  BY <1>1 DEF CreateEnquiry, EnquiriesTypeOK, EnquiryRow, Stage
<1>2. ASSUME NEW a \in Agent, NEW e \in Enquiry, NEW to \in Stage \ {"won"}, MoveJudge(a, e, to)
      PROVE EnquiriesTypeOK'
  <2>1. [phase |-> "moving", enquiry |-> e, to |-> to] \in Deed
    BY DEF Deed
  <2> QED BY <1>2, <2>1, StartsTyped DEF MoveJudge, EnquiriesTypeOK
<1>3. ASSUME NEW a \in Agent, NEW e \in Enquiry, NEW place \in Place, NEW deal \in Deal,
             BookJudge(a, e, place, deal)
      PROVE EnquiriesTypeOK'
  <2>1. [phase |-> "booking", enquiry |-> e, place |-> place, deal |-> deal] \in Deed
    BY DEF Deed
  <2> QED BY <1>3, <2>1, StartsTyped DEF BookJudge, EnquiriesTypeOK
<1>4. ASSUME NEW a \in Agent, MoveWrite(a) PROVE EnquiriesTypeOK'
  <2>1. agent[a] \in Deed /\ agent[a].enquiry \in Enquiry /\ agent[a].to \in Stage
    BY <1>4, DeedTypes DEF MoveWrite, EnquiriesTypeOK
  <2>2. enquiry' \in [Enquiry -> EnquiryRow \cup {NoEnquiry}]
    BY <1>4, <2>1 DEF MoveWrite, EnquiriesTypeOK, EnquiryRow, NoEnquiry
  <2> QED BY <1>4, <2>2, EndsTyped DEF MoveWrite, EnquiriesTypeOK
<1>5. ASSUME NEW a \in Agent, NEW h \in Hire, BookWrite(a, h) PROVE EnquiriesTypeOK'
  <2>1. agent[a] \in Deed /\ agent[a].enquiry \in Enquiry /\ agent[a].place \in Place
        /\ agent[a].deal \in Deal
    BY <1>5, DeedTypes DEF BookWrite, EnquiriesTypeOK
  <2>2. [status |-> IF agent[a].deal = "tentative" THEN "held" ELSE "confirmed", place |-> agent[a].place,
         for |-> agent[a].enquiry, deal |-> agent[a].deal, expired |-> FALSE]
          \in HireRow
    BY <2>1 DEF HireRow, Deal
  <2>3. [status |-> StageAfter(agent[a].deal), link |-> h] \in EnquiryRow
    BY <2>1 DEF EnquiryRow, StageAfter, Stage
  <2>4. hire' \in [Hire -> HireRow \cup {Unused, Deleted}]
    BY <1>5, <2>2 DEF BookWrite, EnquiriesTypeOK
  <2>5. enquiry' \in [Enquiry -> EnquiryRow \cup {NoEnquiry}]
    BY <1>5, <2>3 DEF BookWrite, EnquiriesTypeOK
  <2> QED BY <1>5, <2>4, <2>5, EndsTyped DEF BookWrite, EnquiriesTypeOK
<1>6. ASSUME NEW a \in Agent, DeedFails(a) PROVE EnquiriesTypeOK'
  BY <1>6, EndsTyped DEF DeedFails, EnquiriesTypeOK
<1>7. ASSUME NEW h \in Hire, NEW place \in Place, BookWalkIn(h, place) PROVE EnquiriesTypeOK'
  <2>1. [status |-> "confirmed", place |-> place, for |-> Walk, deal |-> "firm", expired |-> FALSE]
          \in HireRow
    BY DEF HireRow, Deal
  <2> QED BY <1>7, <2>1 DEF BookWalkIn, SetHire, EnquiriesTypeOK
<1>8. ASSUME NEW h \in Hire, ConfirmHire(h) \/ CancelHire(h) \/ HireLapses(h) PROVE EnquiriesTypeOK'
  <2>1. hire[h] \in HireRow
    BY <1>8, HeldIsHire DEF ConfirmHire, CancelHire, HireLapses
  <2>2. CASE ConfirmHire(h) \/ CancelHire(h)
    <3>1. PICK s \in {"held", "confirmed", "cancelled"} : hire' = [hire EXCEPT ![h] = [hire[h] EXCEPT !.status = s]]
      BY <2>2 DEF ConfirmHire, CancelHire, SetHire
    <3>2. [hire[h] EXCEPT !.status = s] \in HireRow
      BY <2>1 DEF HireRow
    <3> QED BY <2>2, <3>1, <3>2 DEF ConfirmHire, CancelHire, EnquiriesTypeOK
  <2>3. CASE HireLapses(h)
    <3>1. [hire[h] EXCEPT !.expired = TRUE] \in HireRow
      BY <2>1 DEF HireRow
    <3> QED BY <2>3, <3>1 DEF HireLapses, SetHire, EnquiriesTypeOK
  <2> QED BY <1>8, <2>2, <2>3
<1>9. ASSUME NEW h \in Hire, DeleteLapsed(h) PROVE EnquiriesTypeOK'
  <2>1. enquiry' \in [Enquiry -> EnquiryRow \cup {NoEnquiry}]
    BY <1>9 DEF DeleteLapsed, EnquiriesTypeOK, EnquiryRow, NoEnquiry
  <2> QED BY <1>9, <2>1 DEF DeleteLapsed, SetHire, EnquiriesTypeOK
<1>10. CASE ListLapsed
  BY <1>10 DEF ListLapsed, EnquiriesTypeOK
<1>11. CASE SweepEnds
  BY <1>11 DEF SweepEnds, EnquiriesTypeOK
<1>12. CASE UNCHANGED enquiryVars
  BY <1>12 DEF enquiryVars, EnquiriesTypeOK
<1> QED
  BY <1>1, <1>2, <1>3, <1>4, <1>5, <1>6, <1>7, <1>8, <1>9, <1>10, <1>11, <1>12 DEF EnquiryNext

\* Enquiries, hires, requests and the sweep keep their types, whatever is
\* written by id alone (EnquiriesService).
THEOREM EnquiriesTypeCorrect == EnquirySpec => []EnquiriesTypeOK
<1>1. EnquiryInit => EnquiriesTypeOK
  BY DEF EnquiryInit, EnquiriesTypeOK
<1> QED BY <1>1, EnquiryTypeStep, PTL DEF EnquirySpec

---------------------------------------------------------------------------
\* Lapsed holds.

\* What a hire was sold as never changes, and a hold the sweep has listed was
\* not sold; a won enquiry links to a hire that was.
SoldStands == \A h \in Hire : hire[h] \in HireRow /\ hire[h].deal = "firm" => hire[h].status \in {"confirmed", "cancelled"}
ListedUnsold == \A h \in listed : hire[h] \in HireRow /\ hire[h].deal # "firm"
WonIsSold ==
  \A e \in Enquiry : enquiry[e].status = "won" =>
    /\ enquiry[e].link \in Hire
    /\ hire[enquiry[e].link] \in HireRow /\ hire[enquiry[e].link].deal = "firm"
    /\ hire[enquiry[e].link].for = e

LapseInv == EnquiriesTypeOK /\ SoldStands /\ ListedUnsold /\ WonIsSold

\* Requests at the desk that write nothing.
OnlyAgents == UNCHANGED <<enquiry, hire, listed>>

\* A hire that was in the table has the sold it had.
HiresKept ==
  \A h \in Hire : hire[h] \in HireRow =>
    /\ hire'[h] \in HireRow /\ hire'[h].deal = hire[h].deal /\ hire'[h].for = hire[h].for
    /\ hire[h].deal = "firm" => hire'[h].status \in {"confirmed", "cancelled"}

LEMMA BookedRow ==
  ASSUME EnquiriesTypeOK, NEW a \in Agent, NEW h \in Hire, BookWrite(a, h)
  PROVE  /\ agent[a] \in Deed /\ agent[a].enquiry \in Enquiry /\ agent[a].deal \in Deal
         /\ hire'[h] \in HireRow /\ hire[h] \notin HireRow
         /\ hire'[h].deal = agent[a].deal /\ hire'[h].for = agent[a].enquiry
         /\ hire'[h].status = IF agent[a].deal = "tentative" THEN "held" ELSE "confirmed"
         /\ \A g \in Hire \ {h} : hire'[g] = hire[g]
         /\ enquiry'[agent[a].enquiry] = [status |-> StageAfter(agent[a].deal), link |-> h]
         /\ \A e \in Enquiry \ {agent[a].enquiry} : enquiry'[e] = enquiry[e]
<1>1. agent[a] \in Deed /\ agent[a].enquiry \in Enquiry /\ agent[a].place \in Place
      /\ agent[a].deal \in Deal
  BY DeedTypes DEF BookWrite, EnquiriesTypeOK
<1>2. [status |-> IF agent[a].deal = "tentative" THEN "held" ELSE "confirmed", place |-> agent[a].place,
       for |-> agent[a].enquiry, deal |-> agent[a].deal, expired |-> FALSE]
        \in HireRow
  BY <1>1 DEF HireRow, Deal
<1> QED BY <1>1, <1>2, HireRowTypes DEF BookWrite, EnquiriesTypeOK

LEMMA WalkInRow ==
  ASSUME EnquiriesTypeOK, NEW h \in Hire, NEW place \in Place, BookWalkIn(h, place)
  PROVE  /\ hire'[h] \in HireRow /\ hire[h] \notin HireRow
         /\ hire'[h].deal = "firm" /\ hire'[h].for = Walk /\ hire'[h].status = "confirmed"
         /\ \A g \in Hire \ {h} : hire'[g] = hire[g]
<1>1. [status |-> "confirmed", place |-> place, for |-> Walk, deal |-> "firm", expired |-> FALSE]
        \in HireRow
  BY DEF HireRow, Deal
<1> QED BY <1>1, HireRowTypes DEF BookWalkIn, SetHire, EnquiriesTypeOK

\* Confirming, cancelling and lapsing keep what a hire was sold as.
LEMMA ChangedHire ==
  ASSUME EnquiriesTypeOK, SoldStands, NEW h \in Hire, ConfirmHire(h) \/ CancelHire(h) \/ HireLapses(h)
  PROVE  /\ HiresKept
         /\ \A g \in Hire : hire'[g] \in HireRow => hire[g] \in HireRow
<1>1. hire[h] \in HireRow
  BY HeldIsHire DEF ConfirmHire, CancelHire, HireLapses
<1>2. \A g \in Hire \ {h} : hire'[g] = hire[g]
  BY DEF ConfirmHire, CancelHire, HireLapses, SetHire, EnquiriesTypeOK
<1>3. PICK row \in HireRow : row = hire[h]
  BY <1>1
<1>4. /\ hire'[h] \in HireRow /\ hire'[h].for = row.for
      /\ hire'[h].deal = row.deal
      /\ hire'[h].status \in {"confirmed", "cancelled", row.status}
  <2>1. CASE ConfirmHire(h)
    <3>1. hire'[h] = [row EXCEPT !.status = "confirmed"]
      BY <2>1, <1>3 DEF ConfirmHire, SetHire, EnquiriesTypeOK
    <3> QED BY <3>1 DEF HireRow
  <2>2. CASE CancelHire(h)
    <3>1. hire'[h] = [row EXCEPT !.status = "cancelled"]
      BY <2>2, <1>3 DEF CancelHire, SetHire, EnquiriesTypeOK
    <3> QED BY <3>1 DEF HireRow
  <2>3. CASE HireLapses(h)
    <3>1. hire'[h] = [row EXCEPT !.expired = TRUE]
      BY <2>3, <1>3 DEF HireLapses, SetHire, EnquiriesTypeOK
    <3> QED BY <3>1 DEF HireRow
  <2> QED BY <2>1, <2>2, <2>3
<1>5. hire[h].deal = "firm" => hire'[h].status \in {"confirmed", "cancelled"}
  BY <1>1, <1>3, <1>4 DEF SoldStands
<1>6. ASSUME NEW g \in Hire, hire[g] \in HireRow
      PROVE  /\ hire'[g] \in HireRow /\ hire'[g].deal = hire[g].deal /\ hire'[g].for = hire[g].for
             /\ hire[g].deal = "firm" => hire'[g].status \in {"confirmed", "cancelled"}
  <2>1. CASE g = h
    BY <2>1, <1>3, <1>4, <1>5
  <2>2. CASE g # h
    BY <2>2, <1>2, <1>6 DEF SoldStands
  <2> QED BY <2>1, <2>2
<1> QED
  BY <1>1, <1>2, <1>6 DEF HiresKept

\* What the sweep deletes is a hold that was not sold, and no won enquiry's.
LEMMA DeletedHire ==
  ASSUME LapseInv, NEW h \in Hire, DeleteLapsed(h)
  PROVE  /\ hire[h] \in HireRow /\ hire[h].deal # "firm" /\ hire'[h] \notin HireRow
         /\ \A g \in Hire \ {h} : hire'[g] = hire[g]
         /\ \A e \in Enquiry : /\ enquiry'[e].status = enquiry[e].status
                               /\ enquiry[e].link # h => enquiry'[e] = enquiry[e]
                               /\ enquiry[e].status = "won" => enquiry[e].link # h
         /\ listed' = listed \ {h}
<1>1. hire[h] \in HireRow /\ hire[h].deal # "firm"
  BY DEF LapseInv, ListedUnsold, DeleteLapsed
<1>2. \A e \in Enquiry : enquiry[e].status = "won" => enquiry[e].link # h
  BY DEF DeleteLapsed, Deletable
<1>3. \A e \in Enquiry : enquiry'[e] = IF enquiry[e].link = h THEN [enquiry[e] EXCEPT !.link = NoHire] ELSE enquiry[e]
  BY DEF DeleteLapsed
<1>4. \A e \in Enquiry : [enquiry[e] EXCEPT !.link = NoHire].status = enquiry[e].status
  BY DEF LapseInv, EnquiriesTypeOK, EnquiryRow, NoEnquiry
<1>5. \A e \in Enquiry : /\ enquiry'[e].status = enquiry[e].status
                         /\ enquiry[e].link # h => enquiry'[e] = enquiry[e]
  BY <1>3, <1>4
<1>6. hire'[h] = Deleted /\ \A g \in Hire \ {h} : hire'[g] = hire[g]
  BY DEF DeleteLapsed, SetHire, LapseInv, EnquiriesTypeOK
<1> QED BY <1>1, <1>2, <1>5, <1>6, HireRowTypes DEF DeleteLapsed

LEMMA LapseStep ==
  ASSUME LapseInv, [EnquiryNext]_enquiryVars
  PROVE  LapseInv'
<1> USE DEF LapseInv
<1>0. EnquiriesTypeOK'
  BY EnquiryTypeStep
<1>1. ASSUME NEW e \in Enquiry, CreateEnquiry(e) PROVE LapseInv'
  <2>1. WonIsSold'
    BY <1>1 DEF CreateEnquiry, WonIsSold, EnquiriesTypeOK
  <2> QED BY <1>0, <1>1, <2>1 DEF CreateEnquiry, SoldStands, ListedUnsold
<1>2. CASE OnlyAgents
  BY <1>0, <1>2 DEF OnlyAgents, SoldStands, ListedUnsold, WonIsSold
<1>3. ASSUME NEW a \in Agent, MoveWrite(a) PROVE LapseInv'
  <2>1. agent[a].enquiry \in Enquiry /\ agent[a].to # "won"
    BY <1>3, DeedTypes DEF MoveWrite, EnquiriesTypeOK
  <2>2. \A e \in Enquiry : enquiry'[e].status = "won" => enquiry'[e] = enquiry[e]
    BY <1>3, <2>1 DEF MoveWrite, EnquiriesTypeOK, EnquiryRow, NoEnquiry
  <2> QED BY <1>0, <1>3, <2>2 DEF MoveWrite, SoldStands, ListedUnsold, WonIsSold
<1>4. ASSUME NEW a \in Agent, NEW h \in Hire, BookWrite(a, h) PROVE LapseInv'
  <2>1. SoldStands'
    BY <1>4, BookedRow, ZenonT(60) DEF SoldStands
  <2>2. h \notin listed
    BY <1>4, BookedRow DEF ListedUnsold
  <2>3. ListedUnsold'
    <3>1. listed' = listed /\ \A g \in listed : hire'[g] = hire[g]
      BY <1>4, <2>2, BookedRow DEF BookWrite, EnquiriesTypeOK
    <3> QED BY <3>1 DEF ListedUnsold
  <2>4. /\ hire[h] \notin HireRow /\ hire'[h] \in HireRow /\ hire'[h].deal = agent[a].deal
        /\ hire'[h].for = agent[a].enquiry
        /\ \A g \in Hire \ {h} : hire'[g] = hire[g]
        /\ agent[a].deal \in Deal
    BY <1>4, BookedRow
  <2>5. /\ enquiry'[agent[a].enquiry] = [status |-> StageAfter(agent[a].deal), link |-> h]
        /\ \A e \in Enquiry \ {agent[a].enquiry} : enquiry'[e] = enquiry[e]
    BY <1>4, BookedRow
  <2>6. ASSUME NEW e \in Enquiry, enquiry'[e].status = "won"
        PROVE  /\ enquiry'[e].link \in Hire /\ hire'[enquiry'[e].link] \in HireRow
               /\ hire'[enquiry'[e].link].deal = "firm" /\ hire'[enquiry'[e].link].for = e
    <3>1. CASE e = agent[a].enquiry
      <4>1. enquiry'[e].link = h /\ enquiry'[e].status = StageAfter(agent[a].deal)
        BY <2>5, <3>1
      <4>2. agent[a].deal = "firm"
        BY <2>4, <2>6, <4>1 DEF StageAfter, Deal
      <4> QED BY <2>4, <3>1, <4>1, <4>2
    <3>2. CASE e # agent[a].enquiry
      <4>1. enquiry'[e] = enquiry[e]
        BY <2>5, <3>2
      <4>2. /\ enquiry[e].link \in Hire /\ hire[enquiry[e].link] \in HireRow
            /\ hire[enquiry[e].link].deal = "firm" /\ hire[enquiry[e].link].for = e
        BY <2>6, <4>1 DEF WonIsSold
      <4>3. hire'[enquiry[e].link] = hire[enquiry[e].link]
        BY <2>4, <4>2
      <4> QED BY <4>1, <4>2, <4>3
    <3> QED BY <3>1, <3>2
  <2> QED BY <1>0, <2>1, <2>3, <2>6 DEF WonIsSold
<1>5. ASSUME NEW h \in Hire, NEW place \in Place, BookWalkIn(h, place) PROVE LapseInv'
  <2>1. UNCHANGED <<enquiry, listed>>
    BY <1>5 DEF BookWalkIn
  <2> QED
    BY <1>0, <1>5, <2>1, WalkInRow DEF SoldStands, ListedUnsold, WonIsSold, EnquiriesTypeOK
<1>6. ASSUME NEW h \in Hire, ConfirmHire(h) \/ CancelHire(h) \/ HireLapses(h) PROVE LapseInv'
  <2>1. UNCHANGED <<enquiry, listed>>
    BY <1>6 DEF ConfirmHire, CancelHire, HireLapses
  <2>2. HiresKept /\ \A g \in Hire : hire'[g] \in HireRow => hire[g] \in HireRow
    BY <1>6, ChangedHire
  <2>3. SoldStands'
    BY <2>2 DEF HiresKept, SoldStands
  <2>4. ListedUnsold'
    BY <2>1, <2>2 DEF HiresKept, ListedUnsold, EnquiriesTypeOK
  <2>5. WonIsSold'
    <3> SUFFICES ASSUME NEW e \in Enquiry, enquiry[e].status = "won"
                 PROVE  /\ enquiry[e].link \in Hire /\ hire'[enquiry[e].link] \in HireRow
                        /\ hire'[enquiry[e].link].deal = "firm" /\ hire'[enquiry[e].link].for = e
      BY <2>1 DEF WonIsSold
    <3>1. /\ enquiry[e].link \in Hire /\ hire[enquiry[e].link] \in HireRow
          /\ hire[enquiry[e].link].deal = "firm" /\ hire[enquiry[e].link].for = e
      BY DEF WonIsSold
    <3> QED BY <2>2, <3>1 DEF HiresKept
  <2> QED BY <1>0, <2>3, <2>4, <2>5
<1>7. ASSUME NEW h \in Hire, DeleteLapsed(h) PROVE LapseInv'
  <2>1. SoldStands'
    BY <1>7, DeletedHire DEF SoldStands
  <2>2. ListedUnsold'
    BY <1>7, DeletedHire DEF ListedUnsold, EnquiriesTypeOK
  <2>3. ASSUME NEW e \in Enquiry, enquiry'[e].status = "won"
        PROVE  /\ enquiry'[e].link \in Hire /\ hire'[enquiry'[e].link] \in HireRow
               /\ hire'[enquiry'[e].link].deal = "firm" /\ hire'[enquiry'[e].link].for = e
    <3>1. enquiry[e].status = "won" /\ enquiry[e].link # h
      BY <1>7, <2>3, DeletedHire
    <3>2. enquiry'[e] = enquiry[e]
      BY <1>7, <3>1, DeletedHire
    <3>3. /\ enquiry[e].link \in Hire /\ hire[enquiry[e].link] \in HireRow
          /\ hire[enquiry[e].link].deal = "firm" /\ hire[enquiry[e].link].for = e
      BY <3>1 DEF WonIsSold
    <3>4. hire'[enquiry[e].link] = hire[enquiry[e].link]
      BY <1>7, <3>1, <3>3, DeletedHire
    <3> QED BY <3>2, <3>3, <3>4
  <2> QED BY <1>0, <2>1, <2>2, <2>3 DEF WonIsSold
<1>8. CASE ListLapsed
  <2>1. ListedUnsold'
    BY <1>8, HeldIsHire DEF ListLapsed, ListedUnsold, SoldStands, Held
  <2> QED BY <1>0, <1>8, <2>1 DEF ListLapsed, SoldStands, WonIsSold
<1>9. CASE SweepEnds
  BY <1>0, <1>9 DEF SweepEnds, SoldStands, ListedUnsold, WonIsSold
<1>10. CASE UNCHANGED enquiryVars
  BY <1>2, <1>10 DEF OnlyAgents, enquiryVars
<1>11. ASSUME NEW a \in Agent, NEW e \in Enquiry, NEW to \in Stage \ {"won"}, MoveJudge(a, e, to)
       PROVE LapseInv'
  BY <1>2, <1>11 DEF OnlyAgents, MoveJudge
<1>12. ASSUME NEW a \in Agent, NEW e \in Enquiry, NEW place \in Place, NEW deal \in Deal,
              BookJudge(a, e, place, deal)
       PROVE LapseInv'
  BY <1>2, <1>12 DEF OnlyAgents, BookJudge
<1>13. ASSUME NEW a \in Agent, DeedFails(a) PROVE LapseInv'
  BY <1>2, <1>13 DEF OnlyAgents, DeedFails
<1> QED
  BY <1>1, <1>3, <1>4, <1>5, <1>6, <1>7, <1>8, <1>9, <1>10, <1>11, <1>12, <1>13 DEF EnquiryNext

LEMMA LapseInvariant == EnquirySpec => []LapseInv
<1>1. EnquiryInit => LapseInv
  BY HireRowTypes DEF EnquiryInit, LapseInv, EnquiriesTypeOK, SoldStands, ListedUnsold, WonIsSold
<1> QED BY <1>1, LapseStep, PTL DEF EnquirySpec

\* However many requests work on an enquiry at once, no hold that has lapsed,
\* and none the sweep has listed, is the booking of a won enquiry: the CHECK
\* refuses no DELETE of the sweep (HoldsService.sweepExpired).
THEOREM SweepIsNeverRefused == EnquirySpec => []LapsedHoldsCanGo
<1>1. LapseInv => LapsedHoldsCanGo
  <2> SUFFICES ASSUME LapseInv, NEW h \in Hire, Held(h) \/ h \in listed, NEW e \in Enquiry,
                      enquiry[e].link = h, enquiry[e].status = "won"
               PROVE FALSE
    BY DEF LapsedHoldsCanGo, Deletable
  <2>1. hire[h] \in HireRow /\ hire[h].deal # "firm"
    BY HeldIsHire DEF LapseInv, SoldStands, ListedUnsold, Held
  <2> QED BY <2>1 DEF LapseInv, WonIsSold
<1> QED BY <1>1, LapseInvariant, PTL

---------------------------------------------------------------------------
\* The pipeline and the calendar.

\* An enquiry that was never contested has one request at most, and the
\* request has found it open.
OneWorker ==
  \A e \in Enquiry \ contested, a \in Agent : WorksOn(a, e) =>
    /\ enquiry[e].status # "won" /\ enquiry[e] \in EnquiryRow
    /\ \A b \in Agent : WorksOn(b, e) => b = a

\* What the property says of such an enquiry, in terms that a step preserves.
Agrees(e) ==
  /\ enquiry[e].status = "won" <=> MadeForGood(e) # {}
  /\ MadeForGood(e) # {} => MadeForGood(e) = {enquiry[e].link}
UncontestedAgree == \A e \in Enquiry \ contested : Agrees(e)

PipelineInv == LapseInv /\ OneWorker /\ UncontestedAgree

SoldTo(h, e) == hire[h] \in HireRow /\ hire[h].for = e /\ hire[h].deal = "firm"

LEMMA MadeForGoodIs ==
  ASSUME EnquiriesTypeOK, SoldStands, NEW e \in Enquiry
  PROVE  MadeForGood(e) = {h \in Hire : SoldTo(h, e)}
BY HeldIsHire DEF MadeForGood, SoldTo, SoldStands

\* A request that has judged the enquiry it will write.
LEMMA OneStarts ==
  ASSUME EnquiriesTypeOK, OneWorker, NEW a \in Agent, NEW deed \in Deed, Starts(a, deed),
         UNCHANGED enquiry, enquiry[deed.enquiry] # NoEnquiry, Open(deed.enquiry)
  PROVE  OneWorker'
<1> SUFFICES ASSUME NEW e \in Enquiry \ contested', NEW c \in Agent, WorksOn(c, e)'
             PROVE  /\ enquiry[e].status # "won" /\ enquiry[e] \in EnquiryRow
                    /\ \A b \in Agent : WorksOn(b, e)' => b = c
  BY DEF OneWorker
<1>1. deed.enquiry \in Enquiry /\ e \in Enquiry \ contested
  BY DeedTypes DEF Starts
<1>2. \A b \in Agent : WorksOn(b, e)' <=> IF b = a THEN deed.enquiry = e ELSE WorksOn(b, e)
  BY DeedTypes DEF Starts, WorksOn, EnquiriesTypeOK
<1>3. CASE deed.enquiry = e
  <2>1. \A b \in Agent : ~WorksOn(b, e)
    BY <1>1, <1>3 DEF Starts
  <2> QED BY <1>1, <1>2, <1>3, <2>1 DEF Open, EnquiriesTypeOK
<1>4. CASE deed.enquiry # e
  BY <1>1, <1>2, <1>4 DEF OneWorker
<1> QED BY <1>3, <1>4

\* A request that ends has written no other enquiry than its own.
LEMMA OneEnds ==
  ASSUME EnquiriesTypeOK, OneWorker, NEW a \in Agent, Ends(a), agent[a].phase # "idle",
         \A e \in Enquiry : agent[a].enquiry # e => enquiry'[e] = enquiry[e]
  PROVE  OneWorker'
<1> SUFFICES ASSUME NEW e \in Enquiry \ contested, NEW c \in Agent, WorksOn(c, e)'
             PROVE  /\ enquiry'[e].status # "won" /\ enquiry'[e] \in EnquiryRow
                    /\ \A b \in Agent : WorksOn(b, e)' => b = c
  BY DEF OneWorker, Ends
<1>1. \A b \in Agent : WorksOn(b, e)' <=> b # a /\ WorksOn(b, e)
  BY DeedTypes DEF Ends, WorksOn, EnquiriesTypeOK
<1>2. c # a /\ WorksOn(c, e)
  BY <1>1
<1>3. ~WorksOn(a, e)
  BY <1>2 DEF OneWorker
<1>4. enquiry'[e] = enquiry[e]
  BY <1>3 DEF WorksOn
<1> QED BY <1>1, <1>2, <1>4 DEF OneWorker

LEMMA OneWorkerStep ==
  ASSUME LapseInv, OneWorker, [EnquiryNext]_enquiryVars
  PROVE  OneWorker'
<1>0. EnquiriesTypeOK
  BY DEF LapseInv
<1>1. ASSUME NEW e \in Enquiry, CreateEnquiry(e) PROVE OneWorker'
  <2>1. \A d \in Enquiry : d # e => enquiry'[d] = enquiry[d]
    BY <1>0, <1>1 DEF CreateEnquiry, EnquiriesTypeOK
  <2>2. \A a \in Agent : WorksOn(a, e) => e \in contested
    BY <1>1, HireRowTypes DEF CreateEnquiry, OneWorker
  <2> QED BY <1>1, <2>1, <2>2 DEF CreateEnquiry, OneWorker, WorksOn
<1>2. ASSUME NEW a \in Agent, NEW e \in Enquiry, NEW to \in Stage \ {"won"}, MoveJudge(a, e, to)
      PROVE OneWorker'
  <2>1. PICK deed \in Deed : deed = [phase |-> "moving", enquiry |-> e, to |-> to]
    BY DEF Deed
  <2> QED BY <1>0, <1>2, <2>1, OneStarts DEF MoveJudge
<1>3. ASSUME NEW a \in Agent, NEW e \in Enquiry, NEW place \in Place, NEW deal \in Deal,
             BookJudge(a, e, place, deal)
      PROVE OneWorker'
  <2>1. PICK deed \in Deed : deed = [phase |-> "booking", enquiry |-> e, place |-> place, deal |-> deal]
    BY DEF Deed
  <2> QED BY <1>0, <1>3, <2>1, OneStarts DEF BookJudge
<1>4. ASSUME NEW a \in Agent, MoveWrite(a) PROVE OneWorker'
  <2>1. \A e \in Enquiry : agent[a].enquiry # e => enquiry'[e] = enquiry[e]
    BY <1>0, <1>4 DEF MoveWrite, EnquiriesTypeOK
  <2> QED BY <1>0, <1>4, <2>1, OneEnds DEF MoveWrite
<1>5. ASSUME NEW a \in Agent, NEW h \in Hire, BookWrite(a, h) PROVE OneWorker'
  <2>1. \A e \in Enquiry : agent[a].enquiry # e => enquiry'[e] = enquiry[e]
    BY <1>0, <1>5, BookedRow
  <2> QED BY <1>0, <1>5, <2>1, OneEnds DEF BookWrite
<1>6. ASSUME NEW a \in Agent, DeedFails(a) PROVE OneWorker'
  BY <1>0, <1>6, OneEnds DEF DeedFails
<1>7. CASE UNCHANGED <<enquiry, agent, contested>>
  BY <1>7 DEF OneWorker, WorksOn
<1>8. ASSUME NEW h \in Hire, DeleteLapsed(h) PROVE OneWorker'
  <2>1. \A e \in Enquiry : enquiry'[e].status = enquiry[e].status
    BY <1>8, DeletedHire
  <2>2. EnquiriesTypeOK'
    BY <1>0, EnquiryTypeStep
  <2>3. \A e \in Enquiry : enquiry[e] \in EnquiryRow => enquiry'[e] \in EnquiryRow
    BY <2>1, <2>2, HireRowTypes DEF EnquiriesTypeOK, Stage
  <2> QED BY <1>8, <2>1, <2>3, SMTT(30) DEF DeleteLapsed, OneWorker, WorksOn
<1>9. ASSUME NEW h \in Hire,
             (\E place \in Place : BookWalkIn(h, place)) \/ ConfirmHire(h) \/ CancelHire(h) \/ HireLapses(h)
      PROVE OneWorker'
  BY <1>7, <1>9 DEF BookWalkIn, ConfirmHire, CancelHire, HireLapses
<1>10. CASE ListLapsed \/ SweepEnds \/ UNCHANGED enquiryVars
  BY <1>7, <1>10 DEF ListLapsed, SweepEnds, enquiryVars
<1> QED
  BY <1>1, <1>2, <1>3, <1>4, <1>5, <1>6, <1>8, <1>9, <1>10 DEF EnquiryNext

LEMMA AgreesStep ==
  ASSUME PipelineInv, [EnquiryNext]_enquiryVars, LapseInv', NEW e \in Enquiry \ contested, e \notin contested'
  PROVE  Agrees(e)'
<1> USE DEF PipelineInv
<1>1. EnquiriesTypeOK /\ SoldStands /\ EnquiriesTypeOK' /\ SoldStands'
  BY DEF LapseInv
<1>2. Agrees(e)
  BY DEF UncontestedAgree
<1>3. MadeForGood(e) = {h \in Hire : SoldTo(h, e)}
  BY <1>1, MadeForGoodIs
<1>4. MadeForGood(e)' = {h \in Hire : SoldTo(h, e)'}
  <2>1. \A h \in Hire : hire'[h].status \in {"held", "confirmed", "cancelled"} <=> hire'[h] \in HireRow
    BY <1>1, HireRowTypes DEF EnquiriesTypeOK
  <2> QED BY <1>1, <2>1 DEF MadeForGood, SoldTo, SoldStands
<1>5. ASSUME UNCHANGED hire, enquiry'[e] = enquiry[e]
      PROVE  Agrees(e)'
  BY <1>2, <1>5 DEF Agrees, MadeForGood
<1>6. ASSUME \A h \in Hire : SoldTo(h, e)' <=> SoldTo(h, e), enquiry'[e] = enquiry[e]
      PROVE  Agrees(e)'
  <2>1. MadeForGood(e)' = MadeForGood(e)
    BY <1>3, <1>4, <1>6
  <2> QED BY <1>2, <1>6, <2>1 DEF Agrees
<1>7. ASSUME NEW d \in Enquiry, CreateEnquiry(d) PROVE Agrees(e)'
  <2>1. CASE e = d
    <3>1. MadeForGood(e) = {} /\ MadeForGood(e)' = MadeForGood(e)
      BY <1>2, <1>7, <2>1, HireRowTypes DEF CreateEnquiry, Agrees, MadeForGood
    <3>2. enquiry'[e].status = "new"
      BY <1>1, <1>7, <2>1 DEF CreateEnquiry, EnquiriesTypeOK
    <3> QED BY <3>1, <3>2 DEF Agrees
  <2>2. CASE e # d
    BY <1>1, <1>5, <1>7, <2>2 DEF CreateEnquiry, EnquiriesTypeOK
  <2> QED BY <2>1, <2>2
<1>8. ASSUME NEW a \in Agent, MoveWrite(a) PROVE Agrees(e)'
  <2>1. agent[a] \in Deed /\ agent[a].enquiry \in Enquiry /\ agent[a].to # "won"
    BY <1>1, <1>8, DeedTypes DEF MoveWrite, EnquiriesTypeOK
  <2>2. CASE e = agent[a].enquiry
    <3>1. enquiry[e].status # "won" /\ enquiry[e] \in EnquiryRow
      BY <1>8, <2>2 DEF OneWorker, WorksOn, MoveWrite
    <3>2. enquiry'[e].status # "won"
      BY <1>1, <1>8, <2>1, <2>2, <3>1 DEF MoveWrite, EnquiriesTypeOK, EnquiryRow
    <3>3. MadeForGood(e) = {} /\ MadeForGood(e)' = MadeForGood(e)
      BY <1>2, <1>8, <3>1 DEF Agrees, MadeForGood, MoveWrite
    <3> QED BY <3>2, <3>3 DEF Agrees
  <2>3. CASE e # agent[a].enquiry
    BY <1>1, <1>5, <1>8, <2>3 DEF MoveWrite, EnquiriesTypeOK
  <2> QED BY <2>2, <2>3
<1>9. ASSUME NEW a \in Agent, NEW h \in Hire, BookWrite(a, h) PROVE Agrees(e)'
  <2>1. /\ hire[h] \notin HireRow /\ hire'[h] \in HireRow /\ hire'[h].deal = agent[a].deal
        /\ hire'[h].for = agent[a].enquiry
        /\ \A g \in Hire \ {h} : hire'[g] = hire[g]
        /\ agent[a].deal \in Deal
    BY <1>1, <1>9, BookedRow, ZenonT(60)
  <2>2. /\ enquiry'[agent[a].enquiry] = [status |-> StageAfter(agent[a].deal), link |-> h]
        /\ e # agent[a].enquiry => enquiry'[e] = enquiry[e]
    BY <1>1, <1>9, BookedRow
  <2>3. CASE e = agent[a].enquiry
    <3>1. enquiry[e].status # "won"
      BY <1>9, <2>3 DEF OneWorker, WorksOn, BookWrite
    <3>2. MadeForGood(e) = {}
      BY <1>2, <3>1 DEF Agrees
    <3>3. \A g \in Hire : SoldTo(g, e)' <=> g = h /\ agent[a].deal = "firm"
      BY <1>3, <2>1, <2>3, <3>2 DEF SoldTo
    <3>4. enquiry'[e].link = h /\ (enquiry'[e].status = "won" <=> agent[a].deal = "firm")
      BY <2>1, <2>2, <2>3 DEF StageAfter, Deal
    <3> QED BY <1>4, <3>3, <3>4 DEF Agrees
  <2>4. CASE e # agent[a].enquiry
    <3>1. \A g \in Hire : SoldTo(g, e)' <=> SoldTo(g, e)
      BY <2>1, <2>4 DEF SoldTo
    <3> QED BY <1>6, <2>2, <2>4, <3>1
  <2> QED BY <2>3, <2>4
<1>10. ASSUME NEW h \in Hire, NEW place \in Place, BookWalkIn(h, place) PROVE Agrees(e)'
  <2>1. /\ hire[h] \notin HireRow /\ hire'[h].for = Walk
        /\ \A g \in Hire \ {h} : hire'[g] = hire[g]
    BY <1>1, <1>10, WalkInRow
  <2>2. \A g \in Hire : SoldTo(g, e)' <=> SoldTo(g, e)
    BY <2>1, EnquiryAssumption DEF SoldTo
  <2> QED BY <1>6, <1>10, <2>2 DEF BookWalkIn
<1>11. ASSUME NEW h \in Hire, ConfirmHire(h) \/ CancelHire(h) \/ HireLapses(h) PROVE Agrees(e)'
  <2>1. HiresKept /\ \A g \in Hire : hire'[g] \in HireRow => hire[g] \in HireRow
    BY <1>1, <1>11, ChangedHire
  <2>2. \A g \in Hire : SoldTo(g, e)' <=> SoldTo(g, e)
    BY <2>1 DEF SoldTo, HiresKept
  <2> QED BY <1>6, <1>11, <2>2 DEF ConfirmHire, CancelHire, HireLapses
<1>12. ASSUME NEW h \in Hire, DeleteLapsed(h) PROVE Agrees(e)'
  <2>1. /\ hire[h] \in HireRow /\ hire[h].deal # "firm" /\ hire'[h] \notin HireRow
        /\ \A g \in Hire \ {h} : hire'[g] = hire[g]
        /\ enquiry'[e].status = enquiry[e].status
        /\ enquiry[e].link # h => enquiry'[e] = enquiry[e]
    BY <1>12, DeletedHire
  <2>2. \A g \in Hire : SoldTo(g, e)' <=> SoldTo(g, e)
    BY <2>1 DEF SoldTo
  <2>3. MadeForGood(e)' = MadeForGood(e) /\ h \notin MadeForGood(e)
    BY <1>3, <1>4, <2>1, <2>2 DEF SoldTo
  <2>4. enquiry[e].link = h => MadeForGood(e) = {}
    BY <1>2, <2>3 DEF Agrees
  <2> QED BY <1>2, <2>1, <2>3, <2>4 DEF Agrees
<1>13. CASE UNCHANGED <<enquiry, hire>>
  BY <1>5, <1>13
<1>14. ASSUME NEW a \in Agent,
              \/ \E d \in Enquiry, to \in Stage \ {"won"} : MoveJudge(a, d, to)
              \/ \E d \in Enquiry, place \in Place, deal \in Deal : BookJudge(a, d, place, deal)
              \/ DeedFails(a)
       PROVE Agrees(e)'
  BY <1>13, <1>14 DEF MoveJudge, BookJudge, DeedFails
<1>15. CASE ListLapsed \/ SweepEnds \/ UNCHANGED enquiryVars
  BY <1>13, <1>15 DEF ListLapsed, SweepEnds, enquiryVars
<1> QED
  BY <1>7, <1>8, <1>9, <1>10, <1>11, <1>12, <1>14, <1>15 DEF EnquiryNext

\* Requests enter the set of contested enquiries and never leave it.
LEMMA ContestedStays ==
  ASSUME [EnquiryNext]_enquiryVars PROVE contested \subseteq contested'
BY DEF EnquiryNext, enquiryVars, CreateEnquiry, MoveJudge, MoveWrite, BookJudge, BookWrite, DeedFails,
       BookWalkIn, ConfirmHire, CancelHire, HireLapses, DeleteLapsed, ListLapsed, SweepEnds, Starts, Ends

\* However many requests work on an enquiry at once, it is won only with a
\* booking made from it, and for good, behind its link; and one that was never
\* contested is won by each such booking (EnquiriesService.book, update).
THEOREM WonMeansBooked == EnquirySpec => []WonByBooking
<1>1. EnquiryInit => OneWorker
  BY HireRowTypes DEF EnquiryInit, OneWorker, WorksOn
<1>2. EnquiryInit => UncontestedAgree
  <2>1. EnquiryInit => \A e \in Enquiry : MadeForGood(e) = {}
    BY HireRowTypes DEF EnquiryInit, MadeForGood
  <2> QED BY <2>1, HireRowTypes DEF EnquiryInit, UncontestedAgree, Agrees
<1>3. LapseInv /\ LapseInv' /\ OneWorker /\ UncontestedAgree /\ [EnquiryNext]_enquiryVars
        => OneWorker' /\ UncontestedAgree'
  <2> SUFFICES ASSUME LapseInv, LapseInv', OneWorker, UncontestedAgree, [EnquiryNext]_enquiryVars
               PROVE  OneWorker' /\ UncontestedAgree'
    OBVIOUS
  <2>1. OneWorker'
    BY OneWorkerStep
  <2>2. ASSUME NEW e \in Enquiry \ contested' PROVE Agrees(e)'
    BY <2>2, ContestedStays, AgreesStep DEF PipelineInv
  <2> QED BY <2>1, <2>2 DEF UncontestedAgree
<1>4. LapseInv /\ UncontestedAgree => WonByBooking
  <2> SUFFICES ASSUME LapseInv, UncontestedAgree PROVE WonByBooking
    OBVIOUS
  <2>1. EnquiriesTypeOK /\ SoldStands /\ WonIsSold
    BY DEF LapseInv
  <2>2. ASSUME NEW e \in Enquiry, enquiry[e].status = "won" PROVE enquiry[e].link \in MadeForGood(e)
    BY <2>1, <2>2 DEF WonIsSold, SoldStands, MadeForGood
  <2>3. ASSUME NEW e \in Enquiry \ contested, NEW h \in MadeForGood(e)
        PROVE  enquiry[e] = [status |-> "won", link |-> h]
    <3>1. enquiry[e].status = "won" /\ enquiry[e].link = h
      BY <2>3 DEF UncontestedAgree, Agrees
    <3>2. enquiry[e] \in EnquiryRow
      BY <2>1, <3>1, HireRowTypes DEF EnquiriesTypeOK
    <3> QED BY <3>1, <3>2 DEF EnquiryRow
  <2> QED BY <2>2, <2>3 DEF WonByBooking
<1> QED BY <1>1, <1>2, <1>3, <1>4, LapseInvariant, PTL DEF EnquirySpec

---------------------------------------------------------------------------
\* ALL THREE

\* The rows about people keep their types, and no CHECK or enum of schema.ts
\* is ever in question, whichever of the three moves.
THEOREM PeopleTypeCorrect == Spec => []PeopleTypeOK
<1>1. Init => StaffInit /\ CustomerInit /\ EnquiryInit
  BY DEF Init
<1>2. [Next]_vars => [StaffNext]_staffVars /\ [CustomerNext]_customerVars /\ [EnquiryNext]_enquiryVars
  <2>1. CASE Next
    BY <2>1 DEF Next
  <2>2. CASE UNCHANGED vars
    BY <2>2 DEF vars
  <2>3. QED
    BY <2>1, <2>2
<1>3. Spec => StaffSpec /\ CustomerSpec /\ EnquirySpec
  BY <1>1, <1>2, PTL DEF Spec, StaffSpec, CustomerSpec, EnquirySpec
<1>4. StaffTypeOK /\ CustomersTypeOK /\ EnquiriesTypeOK => PeopleTypeOK
  BY DEF PeopleTypeOK
<1>5. QED
  BY <1>3, <1>4, StaffTypeCorrect, CustomersTypeCorrect, EnquiriesTypeCorrect, PTL
=============================================================================
