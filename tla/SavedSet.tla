------------------------------ MODULE SavedSet ------------------------------
(***************************************************************************)
(* Replacing a whole set of rows, as hours.service and cancellation.service*)
(* do: the rows there are get deleted and the submitted ones inserted, in  *)
(* one transaction.  The DELETE deletes what it sees when it starts; rows  *)
(* that another save commits while it waits stay, and the INSERT stands or *)
(* falls with the constraint between rows.                                 *)
(***************************************************************************)
EXTENDS Integers, FiniteSets

CONSTANTS
  Save,               \* names of saves; a name is used again once its rows are gone
  Editor,             \* requests in flight
  Choice,             \* the sets that the service accepts
  Compatible(_, _)    \* the constraint lets two rows stand side by side

VARIABLES
  rows,      \* the rows in the table, by the save that wrote them
  saving,    \* the requests in flight
  contested  \* for checking: the last save was not alone when it ran

SavedSetInit ==
  /\ rows = [k \in Save |-> {}]
  /\ saving = [e \in Editor |-> [phase |-> "idle"]]
  /\ contested = FALSE

Saving(e) == saving[e].phase = "saving"
AllRows == UNION {rows[k] : k \in Save}

\* The DELETE takes its snapshot.  What was submitted is chosen where it is
\* first compared with other rows, in SaveWrite.
SaveRead(e) ==
  /\ ~Saving(e)
  /\ saving' = [f \in Editor |->
       IF f = e THEN [phase |-> "saving", seen |-> {k \in Save : rows[k] # {}},
                      alone |-> \A g \in Editor : ~Saving(g)]
       ELSE IF Saving(f) THEN [saving[f] EXCEPT !.alone = FALSE] ELSE saving[f]]
  /\ UNCHANGED <<rows, contested>>

\* What the DELETE leaves.
Kept(seen) == [k \in Save |-> IF k \in seen THEN {} ELSE rows[k]]

Fresh(k) == rows[k] = {} /\ \A e \in Editor : Saving(e) => k \notin saving[e].seen

\* The INSERT and the commit.
SaveWrite(e, k, choice) ==
  /\ Saving(e) /\ Fresh(k)
  /\ LET kept == Kept(saving[e].seen)
     IN  /\ \A j \in Save : \A a \in kept[j], b \in choice : Compatible(a, b)
         /\ rows' = [kept EXCEPT ![k] = choice]
  /\ contested' = ~saving[e].alone
  /\ saving' = [saving EXCEPT ![e] = [phase |-> "idle"]]

\* The constraint refuses a row, or the request fails: all is rolled back.
SaveFails(e) ==
  /\ Saving(e)
  /\ saving' = [saving EXCEPT ![e] = [phase |-> "idle"]]
  /\ UNCHANGED <<rows, contested>>

SavedSetNext ==
  \E e \in Editor :
    \/ SaveRead(e)
    \/ \E k \in Save, choice \in Choice : SaveWrite(e, k, choice)
    \/ SaveFails(e)

SavedSetTypeOK ==
  /\ rows \in [Save -> Choice]
  /\ saving \in [Editor -> [phase : {"idle"}]
                   \cup [phase : {"saving"}, seen : SUBSET Save, alone : BOOLEAN]]
  /\ contested \in BOOLEAN
=============================================================================
