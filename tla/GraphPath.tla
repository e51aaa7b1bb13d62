------------------------------ MODULE GraphPath ------------------------------
(***************************************************************************)
(* graphPath (core/src/search/graph.ts): breadth-first search for a chain  *)
(* of facts that are not retracted, from one node to another.  A path is   *)
(* the sequence of its nodes.  A step is one turn of the outer loop or of  *)
(* the loop over graphNeighbors.                                           *)
(***************************************************************************)
EXTENDS Naturals, Sequences

CONSTANTS
  Nodes,     \* subjects and objects of facts
  Questions, \* the arguments it may be called with
  Undefined  \* the answer when there is no path

Edge == [from : Nodes, to : Nodes, live : BOOLEAN]

ASSUME GraphPathConstants ==
  /\ Questions \subseteq [facts : Seq(Edge), from : Nodes, to : Nodes, maxDepth : Nat]
  /\ Undefined \notin Seq(Nodes)

VARIABLES
  question, \* the arguments
  queue,    \* paths to nodes not yet looked at
  seen,     \* nodes that were ever queued
  here,     \* the path whose neighbours are queued, or <<>>
  next,     \* the fact that loop is at
  answer    \* the answer, or <<>> before there is one

pathVars == <<question, queue, seen, here, next, answer>>

Tail1(p) == p[Len(p)]
Facts == question.facts

PathStart(questions) ==
  /\ question \in questions
  /\ queue = <<<<question.from>>>>
  /\ seen = {question.from}
  /\ here = <<>>
  /\ next = 1
  /\ answer = <<>>

PathInit == PathStart(Questions)

Searching == answer = <<>> /\ here = <<>>

\* Slip: one edge fewer.
SlipTooDeep(p) == Len(p) >= question.maxDepth

TooDeep(p) == Len(p) > question.maxDepth

\* graphNeighbors of a node.
Leads(f, node) == f.live /\ f.from = node

Visit ==
  /\ Searching
  /\ queue # <<>>
  /\ LET p == Head(queue)
     IN \/ /\ Tail1(p) = question.to
           /\ answer' = p
           /\ UNCHANGED <<here, next>>
        \/ /\ Tail1(p) # question.to
           /\ TooDeep(p)
           /\ UNCHANGED <<here, next, answer>>
        \/ /\ Tail1(p) # question.to
           /\ ~TooDeep(p)
           /\ here' = p
           /\ next' = 1
           /\ UNCHANGED answer
  /\ queue' = Tail(queue)
  /\ UNCHANGED <<question, seen>>

Follow ==
  /\ here # <<>>
  /\ next <= Len(Facts)
  /\ LET f == Facts[next]
     IN IF Leads(f, Tail1(here)) /\ f.to \notin seen
        THEN /\ queue' = Append(queue, Append(here, f.to))
             /\ seen' = seen \union {f.to}
        ELSE UNCHANGED <<queue, seen>>
  /\ next' = next + 1
  /\ UNCHANGED <<question, here, answer>>

Leave ==
  /\ here # <<>>
  /\ next > Len(Facts)
  /\ here' = <<>>
  /\ UNCHANGED <<question, queue, seen, next, answer>>

Exhaust ==
  /\ Searching
  /\ queue = <<>>
  /\ answer' = Undefined
  /\ UNCHANGED <<question, queue, seen, here, next>>

PathNext == Visit \/ Follow \/ Leave \/ Exhaust

PathSpec == PathInit /\ [][PathNext]_pathVars

(***************************************************************************)
(* Properties.                                                             *)
(***************************************************************************)
Linked(a, b) == \E i \in DOMAIN Facts : Facts[i].live /\ Facts[i].from = a /\ Facts[i].to = b

IsPath(p) ==
  /\ p \in Seq(Nodes) /\ p # <<>>
  /\ p[1] = question.from
  /\ \A i \in 1..(Len(p) - 1) : Linked(p[i], p[i + 1])

\* The nodes that k links reach from the start.
Within ==
  LET W[k \in 0..question.maxDepth] ==
        IF k = 0 THEN {question.from}
        ELSE W[k - 1] \union {b \in Nodes : \E a \in W[k - 1] : Linked(a, b)}
  IN W

\* An answer is a chain of active facts to the goal, of at most maxDepth
\* links.
PathIsReal ==
  answer \notin {<<>>, Undefined} =>
    /\ IsPath(answer)
    /\ Tail1(answer) = question.to
    /\ Len(answer) <= question.maxDepth + 1

\* It is the shortest there is, and without an answer no maxDepth links
\* lead to the goal (graph.ts:37 compares nodes with links).
PathIsShortest ==
  /\ PathIsReal
  /\ answer \notin {<<>>, Undefined} =>
       \A k \in 0..question.maxDepth : question.to \in Within[k] => Len(answer) <= k + 1
  /\ answer = Undefined => question.to \notin Within[question.maxDepth]
=============================================================================
