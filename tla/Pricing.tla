------------------------------ MODULE Pricing ------------------------------
(***************************************************************************)
(* The price rules of a court on one weekday (backend/src/pricing), and the*)
(* price of an interval, which the calendar, the public page, a hold and a *)
(* series each compute from rows they read themselves.                     *)
(***************************************************************************)
EXTENDS Integers, FiniteSets, SequencesExt

CONSTANTS
  Rule,       \* ids of price rules
  Evening,    \* end of the day in ticks; rules begin and end on ticks
  Priority,   \* the priorities in use
  Owner,      \* requests of owners in flight
  MaxRules    \* rules ever created (bound)

ASSUME PricingAssumption == Evening \in Nat /\ Priority \subseteq Int /\ MaxRules \in Nat

VARIABLES
  rule,      \* the rows
  created,   \* how many there have been: created_at
  patch      \* what a request of an owner has read and means to change

pricingVars == <<rule, created, patch>>

---------------------------------------------------------------------------
NoRule == [status |-> "none"]
RuleRow ==
  {row \in [status : {"active", "inactive"}, from : 0 .. Evening, to : 0 .. Evening,
            priority : Priority, at : 1 .. MaxRules] : row.from < row.to}

Rows == {r \in Rule : rule[r] # NoRule}
Width(r) == rule[r].to - rule[r].from

\* Mutant of Better: the wider rule wins.
BetterIfWider(a, b) ==
  IF rule[b].priority # rule[a].priority THEN IF rule[b].priority > rule[a].priority THEN b ELSE a
  ELSE IF Width(a) # Width(b) THEN IF Width(b) > Width(a) THEN b ELSE a
  ELSE IF rule[b].at > rule[a].at THEN b ELSE a

\* The step of resolvePrice's reduce.
Better(a, b) ==
  IF rule[b].priority # rule[a].priority THEN IF rule[b].priority > rule[a].priority THEN b ELSE a
  ELSE IF Width(a) # Width(b) THEN IF Width(b) < Width(a) THEN b ELSE a
  ELSE IF rule[b].at > rule[a].at THEN b ELSE a

\* The candidates for an interval that starts at a tick.
Covering(tick) ==
  {r \in Rows : rule[r].status = "active" /\ tick >= rule[r].from /\ tick < rule[r].to}

\* The rule that is charged, when the rows come in this order.
resolvePrice(rows) ==
  LET best[i \in 1 .. Len(rows)] == IF i = 1 THEN rows[1] ELSE Better(best[i - 1], rows[i])
  IN  best[Len(rows)]

---------------------------------------------------------------------------
PricingInit ==
  /\ rule = [r \in Rule |-> NoRule]
  /\ created = 0
  /\ patch = [o \in Owner |-> {}]

CreateRule(r, from, to, priority) ==
  /\ rule[r] = NoRule /\ created < MaxRules
  /\ from < to                                     \* assertWindow
  /\ created' = created + 1
  /\ rule' = [rule EXCEPT ![r] = [status |-> "active", from |-> from, to |-> to,
                                  priority |-> priority, at |-> created + 1]]
  /\ UNCHANGED patch

\* A patch names a column, or several that are judged and written as one;
\* assertWindow judges it together with the columns of the row as it was read.
Patches == {<<"status", "active">>, <<"status", "inactive">>}
           \cup {<<"from", t>> : t \in 0 .. Evening} \cup {<<"to", t>> : t \in 0 .. Evening}
           \cup {<<"priority", p>> : p \in Priority}

Patched(row, p) == [row EXCEPT ![p[1]] = p[2]]

UpdateRuleRead(o, r, p) ==
  /\ patch[o] = {} /\ r \in Rows
  /\ LET row == Patched(rule[r], p) IN row.from < row.to
  /\ patch' = [patch EXCEPT ![o] = {<<r, p>>}]
  /\ UNCHANGED <<rule, created>>

\* Mutant of WindowOrdered: the row is judged when it is read and not again.
OrderedWhenRead(row) == row.status \in {"active", "inactive"}

\* price_rule_window_ordered, on the row as it becomes.
WindowOrdered(row) == row.from < row.to

UpdateRuleWrite(o) ==
  \E w \in patch[o] :
    /\ w[1] \in Rows
    /\ LET row == Patched(rule[w[1]], w[2])
       IN WindowOrdered(row) /\ rule' = [rule EXCEPT ![w[1]] = row]
    /\ patch' = [patch EXCEPT ![o] = {}]
    /\ UNCHANGED created

\* The row is gone, or the constraint refuses it.
UpdateRuleFails(o) ==
  /\ patch[o] # {}
  /\ patch' = [patch EXCEPT ![o] = {}]
  /\ UNCHANGED <<rule, created>>

RemoveRule(r) ==
  /\ r \in Rows
  /\ rule' = [rule EXCEPT ![r] = NoRule]
  /\ UNCHANGED <<created, patch>>

PricingNext ==
  \/ \E r \in Rule :
       \/ \E from, to \in 0 .. Evening, p \in Priority : CreateRule(r, from, to, p)
       \/ RemoveRule(r)
  \/ \E o \in Owner :
       \/ \E r \in Rule, p \in Patches : UpdateRuleRead(o, r, p)
       \/ UpdateRuleWrite(o) \/ UpdateRuleFails(o)

---------------------------------------------------------------------------
\* Properties.

\* The rows have their types, which for a window is that it ends after it
\* begins: patches that were judged side by side may not turn one around.
PricingTypeOK ==
  /\ rule \in [Rule -> RuleRow \cup {NoRule}]
  /\ created \in 0 .. MaxRules
  /\ patch \in [Owner -> SUBSET (Rule \X Patches)]
  /\ \A o \in Owner : Cardinality(patch[o]) <= 1

\* The rule that is charged is the one of the highest priority, and among
\* these the narrowest, and among these the latest, whatever order the rows
\* are read in: who shows a price and who charges it agree.
OnePrice ==
  \A tick \in 0 .. Evening - 1 :
    LET R == Covering(tick)
        Highest == {r \in R : \A s \in R : rule[s].priority <= rule[r].priority}
        Narrowest == {r \in Highest : \A s \in Highest : Width(r) <= Width(s)}
        Latest == {r \in Narrowest : \A s \in Narrowest : rule[s].at <= rule[r].at}
    IN  R # {} => {resolvePrice(rows) : rows \in SetToSeqs(R)} = Latest
=============================================================================
