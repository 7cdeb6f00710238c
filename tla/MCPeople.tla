------------------------------ MODULE MCPeople ------------------------------
(***************************************************************************)
(* The rows about people, in one run: logins and invitations, customers    *)
(* and their codes, enquiries.  They share no state, so each behaviour is  *)
(* one of any of them, with the others where they began.                   *)
(***************************************************************************)
EXTENDS Staff, Customers, Enquiries, TLC

CONSTANTS a1, a2, b1, b2, c1, c2, d1, d2, c3

\* The sets of every component are made of the same names.
Alike == Permutations({a1, a2}) \cup Permutations({b1, b2})
         \cup Permutations({c1, c2}) \cup Permutations({d1, d2})

VARIABLE scene

vars == <<staffVars, customerVars, enquiryVars, scene>>

Init ==
  /\ scene \in {"staff", "customers", "enquiries"}
  /\ StaffInit /\ CustomerInit /\ EnquiryInit

Next ==
  /\ UNCHANGED scene
  /\ \/ scene = "staff" /\ StaffNext /\ UNCHANGED <<customerVars, enquiryVars>>
     \/ scene = "customers" /\ CustomerNext /\ UNCHANGED <<staffVars, enquiryVars>>
     \/ scene = "enquiries" /\ EnquiryNext /\ UNCHANGED <<staffVars, customerVars>>

Spec == Init /\ [][Next]_vars

\* The rows, the requests in flight and the counts have their types, in each
\* of the three (schema.ts).
PeopleTypeOK == StaffTypeOK /\ CustomersTypeOK /\ EnquiriesTypeOK
=============================================================================
