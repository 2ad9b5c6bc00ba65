---------------------------- MODULE StackPlanner ----------------------------
(***************************************************************************)
(* The pure planners of src/stack.rs: which open pull requests belong to   *)
(* one stack, in which order they are merged, and which bases have to      *)
(* change.                                                                 *)
(*                                                                         *)
(* A pull request is a record of its number, the names of its head and     *)
(* base branches, and the parent the policy declares for it or NoParent.   *)
(***************************************************************************)
EXTENDS Integers, Sequences, FiniteSets

NoParent == 0

PullRequest(Number, Branch) ==
  [number : Number, head : Branch, base : Branch, parent : Number \union {NoParent}]

(* Rows of the pull_requests table: finitely many, with numbers of their own. *)
OpenSet(prs) ==
  /\ IsFiniteSet(prs) /\ \A p \in prs : p.number \in Nat \ {NoParent}
  /\ \A p, q \in prs : p.number = q.number => p = q

Numbers(prs) == {pr.number : pr \in prs}
Get(prs, n) == CHOOSE pr \in prs : pr.number = n

(* by_head[branch]. *)
Heads(prs, branch) == {pr \in prs : pr.head = branch}

-----------------------------------------------------------------------------
(* StackPlanner::partition.  The rows of the table have different numbers. *)

(* A base that two pull requests have as their head connects nothing. *)
Linked(prs, pr) ==
  LET heads == Heads(prs, pr.base)
      inferred == IF Cardinality(heads) = 1 THEN Numbers(heads) ELSE {}
  IN (IF pr.parent # NoParent THEN {pr.parent} ELSE inferred) \intersect Numbers(prs)

Adjacent(prs, n) ==
  Linked(prs, Get(prs, n)) \union {pr.number : pr \in {p \in prs : n \in Linked(prs, p)}}

(* The search of the queue, one ring of neighbours at a time. *)
Component(prs, n) ==
  LET Ring[k \in 0..Cardinality(prs)] ==
        IF k = 0 THEN {n}
        ELSE Ring[k - 1] \union UNION {Adjacent(prs, m) : m \in Ring[k - 1]}
  IN {pr \in prs : pr.number \in Ring[Cardinality(prs)]}

Partition(prs) == {Component(prs, n) : n \in Numbers(prs)}

-----------------------------------------------------------------------------
(* StackPlanner::plan on a list. *)

Rejected(why) == [ok |-> FALSE, why |-> why]

Duplicate(list) == \E i, j \in DOMAIN list : i # j /\ list[i].number = list[j].number

(* Mutated: the declared parent wins over the base. *)
BadDeclaration(prs, pr) ==
  \/ Cardinality(Heads(prs, pr.base)) > 1
  \/ pr.parent # NoParent /\ pr.parent \notin Numbers(prs)

(* AmbiguousParents, MissingParent, ConflictingParent: one of them, for the pull
   request of the lowest number. *)
BadParent(prs, pr) ==
  LET heads == Heads(prs, pr.base) IN
  \/ Cardinality(heads) > 1
  \/ /\ pr.parent # NoParent
     /\ pr.parent \notin Numbers(prs) \/ ~(Numbers(heads) \subseteq {pr.parent})

Parents(prs) ==
  [n \in Numbers(prs) |->
     LET pr == Get(prs, n)
         heads == Heads(prs, pr.base)
     IN IF pr.parent # NoParent THEN pr.parent
        ELSE IF heads # {} THEN (CHOOSE h \in heads : TRUE).number ELSE NoParent]

(* reject_cycles: a walk along the parents comes back to where it was. *)
Cyclic(parents) ==
  \E n \in DOMAIN parents :
    LET Up[k \in 0..Cardinality(DOMAIN parents)] ==
          IF k = 0 THEN n ELSE IF Up[k - 1] = NoParent THEN NoParent ELSE parents[Up[k - 1]]
    IN Up[Cardinality(DOMAIN parents)] # NoParent

Children(parents, n) == {c \in DOMAIN parents : parents[c] = n}

(* From the root along the only child, until there is none. *)
Onto(parents, n) ==
  IF Children(parents, n) = {} THEN NoParent ELSE CHOOSE c \in Children(parents, n) : TRUE
MergeOrder(parents) ==
  LET Last == Cardinality(DOMAIN parents)
      At[k \in 1..Last] ==
        CASE k = 1 -> Onto(parents, NoParent)
          [] k > 1 /\ At[k - 1] = NoParent -> NoParent
          [] OTHER -> Onto(parents, At[k - 1])
  IN [k \in 1..Cardinality({i \in 1..Last : At[i] # NoParent}) |-> At[k]]

(* A base branch that is not the head branch of the declared parent. *)
BaseUpdates(prs) ==
  {[number |-> pr.number, from |-> pr.base, to |-> Get(prs, pr.parent).head] :
     pr \in {p \in prs : p.parent # NoParent /\ p.base # Get(prs, p.parent).head}}

NotALine(parents, order) ==
  \/ Cardinality(Children(parents, NoParent)) # 1
  \/ \E n \in DOMAIN parents : Cardinality(Children(parents, n)) > 1
  \/ Len(order) # Cardinality(DOMAIN parents)

PlanStack(list) ==
  LET prs == {list[i] : i \in DOMAIN list}
      parents == Parents(prs)
      order == MergeOrder(parents)
  IN IF list = <<>> THEN Rejected("empty")
     ELSE IF Duplicate(list) THEN Rejected("duplicate")
     ELSE IF \E pr \in prs : BadParent(prs, pr) THEN Rejected("parent")
     ELSE IF Cyclic(parents) THEN Rejected("cycle")
     ELSE IF NotALine(parents, order) THEN Rejected("order")
     ELSE [ok |-> TRUE, order |-> order, updates |-> BaseUpdates(prs)]

=============================================================================
