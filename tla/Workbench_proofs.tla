--------------------------- MODULE Workbench_proofs ---------------------------
(***************************************************************************)
(* Proofs about the workbench, for any number of spaces, episodes,         *)
(* handlers under way, clicks and failures.                                *)
(***************************************************************************)
EXTENDS Workbench, SequenceTheorems, FiniteSetTheorems, WellFoundedInduction, TLAPS

(***************************************************************************)
(* The shape of the state.                                                 *)
(***************************************************************************)
PageFields ==
  {"space", "episode", "spaces", "episodes", "timeline", "facts", "entities", "asOf", "asked",
   "receipts", "glow", "review", "busy", "loading", "timer"}
ScreenFields ==
  {"space", "options", "episodes", "timeline", "marked", "facts", "hidden", "dossier"}
ServerFields == {"spaces", "stored", "active", "named", "home", "runs"}
HistFields == {"misled", "lost", "unpolled", "seen", "started", "offered", "settled"}
RequestFields == {"task", "what", "space", "arg", "late", "body"}

IsSeq(n) == n \in Seq({n[i] : i \in DOMAIN n})

TaskShape(T) ==
  /\ DOMAIN T = Slots
  /\ \A t \in Slots : DOMAIN T[t] = {"kind", "stage", "arg"}

NetShape(n) ==
  /\ IsSeq(n)
  /\ \A i \in DOMAIN n : DOMAIN n[i] = RequestFields

ScreenShape(s) == s = [f \in ScreenFields |-> s[f]]

WbShape ==
  /\ DOMAIN page = PageFields
  /\ ScreenShape(screen)
  /\ IsSeq(frames)
  /\ DOMAIN drawn = {"edges", "labels", "glow"}
  /\ DOMAIN server = ServerFields
  /\ DOMAIN hist = HistFields

(***************************************************************************)
(* Who waits for what.                                                     *)
(***************************************************************************)
Shelf == {"principal", "workspaces", "spaces"}
Loads == {"memories", "timeline", "facts", "entities"}
Accepts == {"accept all", "accept one"}
Reviews == Accepts \union {"preview"}

\* The questions a handler asks first.
First(kind) ==
  CASE kind = "create" -> {"create", "spaces"}
    [] kind = "asof" -> {"facts", "entities"}
    [] kind \in Accepts -> {"accept"}
    [] OTHER -> {kind}

\* Handler k may be waiting for the answer to this question.
Fits(what, arg, k) ==
  /\ k.kind # "free"
  /\ k.stage = "none" => k.kind = "bootstrap" /\ what \in Shelf
  /\ k.stage = "first" => what \in First(k.kind)
  /\ k.stage = "load" => what \in Loads
  /\ k.stage = "fallback" => what \in {"timeline", "fallback"}
  /\ k.stage = "recall" => what = "recall"
  /\ what = "accept" => arg = k.arg
  /\ what = "forget" => arg[2] \in {"hide", "retract", "purge"}

\* Two questions of one handler: at the start, or in the two parts of a load.
Beside(a, b) ==
  \/ a \in Shelf /\ b \in Shelf
  \/ a = "timeline" /\ b \in {"facts", "entities"}
  \/ b = "timeline" /\ a \in {"facts", "entities"}

NetInv(n, T) ==
  /\ \A i \in DOMAIN n : n[i].task \in Slots /\ Fits(n[i].what, n[i].arg, T[n[i].task])
  /\ \A i, j \in DOMAIN n :
       i # j /\ n[i].task = n[j].task =>
         Beside(n[i].what, n[j].what) /\ T[n[i].task].stage \in {"none", "load"}

StageOf(kind) ==
  CASE kind = "free" -> {"none"}
    [] kind = "bootstrap" -> {"none", "load", "fallback"}
    [] kind \in {"preview", "recall", "ingest"} -> {"first"}
    [] kind = "asof" -> {"first", "recall"}
    [] OTHER -> {"first", "load", "fallback"}

Kinds ==
  {"free", "bootstrap", "load", "remember", "forget", "create", "recall", "asof", "ingest",
   "poll", "preview"} \union Accepts

TaskInv ==
  \A t \in Slots : tasks[t].kind \in Kinds /\ tasks[t].stage \in StageOf(tasks[t].kind)

NetOk == NetShape(net) /\ NetInv(net, tasks) /\ TaskShape(tasks) /\ TaskInv

PollsIn(n, X) == \A j \in DOMAIN n : n[j].what = "poll" => n[j].arg \in X

(***************************************************************************)
(* Locks, timers, proposals, screen.                                       *)
(***************************************************************************)
Reviewing(t) == tasks[t].kind \in Reviews
Loading(t) == tasks[t].stage \in {"load", "fallback"}

LockInv ==
  /\ \A t, u \in Slots : Reviewing(t) /\ Reviewing(u) => t = u
  /\ page.busy = IF \E t \in Slots : Reviewing(t) THEN TRUE ELSE FALSE
  /\ page.loading => \E t \in Slots : Loading(t)

TimerInv ==
  /\ timers \subseteq hist.started
  /\ PollsIn(net, hist.started)

ReviewInv ==
  \A t \in Slots :
    tasks[t].kind \in Accepts =>
      /\ tasks[t].kind = "accept all" => page.review = tasks[t].arg
      /\ Loading(t) => tasks[t].arg \subseteq hist.settled

NoLoader == \A t \in Slots : ~Loading(t) /\ tasks[t].kind # "bootstrap"
NoDate == \A t \in Slots : ~(tasks[t].kind = "asof" /\ tasks[t].stage = "first")

ListsShown ==
  /\ screen.space = page.space
  /\ screen.options = page.spaces
  /\ screen.episodes = page.episodes
  /\ screen.timeline = page.timeline
  /\ screen.marked = {page.episode} \intersect page.timeline

FactsShown ==
  /\ screen.facts = Graph(page)
  /\ screen.hidden = (page.facts = {})
  /\ screen.dossier = Dossier(page)

\* The map shows the facts, or the last frame will draw them.
MapShown ==
  page.facts # {} =>
    IF frames = << >> THEN drawn.edges = page.facts /\ drawn.labels = Graph(page).labels
    ELSE LET f == frames[Len(frames)]
         IN f.kind = "paint" \/ (f.kind = "draw" /\ f.graph = Graph(page))

ScreenInv ==
  /\ NoLoader => ListsShown
  /\ NoLoader /\ NoDate => FactsShown /\ MapShown
-----------------------------------------------------------------------------
(***************************************************************************)
(* Sequences of requests and frames.                                       *)
(***************************************************************************)
\* A sequence over any set is one over its elements.
LEMMA AnySeq ==
  ASSUME NEW S, NEW n \in Seq(S)
  PROVE  IsSeq(n) /\ Len(n) \in Nat /\ DOMAIN n = 1..Len(n)
<1>1. Len(n) \in Nat /\ n \in [1..Len(n) -> S]
  BY LenProperties
<1> DEFINE R == {n[i] : i \in DOMAIN n}
<1>2. n \in [1..Len(n) -> R]
  BY <1>1
<1>3. n \in Seq(R)
  BY <1>1, <1>2, SeqDef
<1> QED
  BY <1>1, <1>3 DEF IsSeq

\* A sequence has a length and its domain.
LEMMA SeqDomain ==
  ASSUME NEW n, IsSeq(n)
  PROVE  Len(n) \in Nat /\ DOMAIN n = 1..Len(n)
  BY AnySeq DEF IsSeq

\* One more element at the end.
LEMMA AppendOne ==
  ASSUME NEW n, IsSeq(n), NEW e
  PROVE  /\ IsSeq(Append(n, e))
         /\ Len(Append(n, e)) = Len(n) + 1
         /\ DOMAIN Append(n, e) = 1..(Len(n) + 1)
         /\ \A i \in 1..Len(n) : Append(n, e)[i] = n[i]
         /\ Append(n, e)[Len(n) + 1] = e
<1> DEFINE S == {n[i] : i \in DOMAIN n} \union {e}
<1>1. n \in Seq(S)
  BY SeqMonotonic DEF IsSeq
<1>2. e \in S
  OBVIOUS
<1> HIDE DEF S
<1>3. /\ Append(n, e) \in Seq(S)
      /\ Len(Append(n, e)) = Len(n) + 1
      /\ \A i \in 1..Len(n) : Append(n, e)[i] = n[i]
      /\ Append(n, e)[Len(n) + 1] = e
  BY <1>1, <1>2, AppendProperties
<1>4. IsSeq(Append(n, e)) /\ DOMAIN Append(n, e) = 1..Len(Append(n, e))
  BY <1>3, AnySeq
<1> QED
  BY <1>3, <1>4

\* All but the first element.
LEMMA TailOne ==
  ASSUME NEW n, IsSeq(n), n # << >>
  PROVE  /\ IsSeq(Tail(n))
         /\ Head(n) = n[1] /\ 1 \in DOMAIN n
         /\ Len(Tail(n)) = Len(n) - 1
         /\ DOMAIN Tail(n) = 1..(Len(n) - 1)
         /\ \A i \in 1..(Len(n) - 1) : Tail(n)[i] = n[i + 1]
<1>1. PICK S : n \in Seq(S)
  BY DEF IsSeq
<1>2. Len(n) \in Nat \ {0}
  BY <1>1, EmptySeq
<1>3. Tail(n) \in Seq(S) /\ Len(Tail(n)) = Len(n) - 1
  BY <1>1, HeadTailProperties
<1>4. \A i \in 1..(Len(n) - 1) : Tail(n)[i] = n[i + 1]
  BY <1>1, <1>3, HeadTailProperties
<1>5. Head(n) = n[1]
  BY <1>1, <1>2
<1>6. IsSeq(Tail(n)) /\ DOMAIN Tail(n) = 1..Len(Tail(n))
  BY <1>3, AnySeq
<1>7. 1 \in DOMAIN n
  BY <1>2, SeqDomain
<1> QED
  BY <1>3, <1>4, <1>5, <1>6, <1>7

\* Where the element at j of what is left was before i left.
Was(i, j) == IF j < i THEN j ELSE j + 1

\* All but the element at i.
LEMMA RemoveOne ==
  ASSUME NEW n, IsSeq(n), NEW i \in DOMAIN n
  PROVE  /\ IsSeq(RemoveAt(n, i))
         /\ Len(RemoveAt(n, i)) = Len(n) - 1
         /\ DOMAIN RemoveAt(n, i) = 1..(Len(n) - 1)
         /\ \A j \in 1..(Len(n) - 1) : RemoveAt(n, i)[j] = n[Was(i, j)]
<1> DEFINE S == {n[k] : k \in DOMAIN n}
           a == SubSeq(n, 1, i - 1)
           b == SubSeq(n, i + 1, Len(n))
<1>1. Len(n) \in Nat /\ DOMAIN n = 1..Len(n)
  BY SeqDomain
<1>2. i \in 1..Len(n)
  BY <1>1
<1>3. /\ a \in Seq(S) /\ Len(a) = i - 1
      /\ \A k \in 1..(i - 1) : a[k] = n[k]
  <2>1. \A k \in 1..(i - 1) : n[k] \in S
    BY <1>1, <1>2
  <2> HIDE DEF S
  <2>2. /\ a \in Seq(S)
        /\ Len(a) = IF 1 <= i - 1 THEN i - 1 - 1 + 1 ELSE 0
        /\ \A k \in 1..(i - 1 - 1 + 1) : a[k] = n[1 + k - 1]
    BY <1>1, <1>2, <2>1, SubSeqProperties
  <2> HIDE DEF a
  <2> QED
    BY <1>1, <1>2, <2>2
<1>4. /\ b \in Seq(S) /\ Len(b) = Len(n) - i
      /\ \A k \in 1..(Len(n) - i) : b[k] = n[i + k]
  <2>1. \A k \in (i + 1)..Len(n) : n[k] \in S
    BY <1>1, <1>2
  <2> HIDE DEF S
  <2>2. i + 1 \in Int /\ Len(n) \in Int /\ i + 1 >= 1
    BY <1>1, <1>2
  <2>3. /\ b \in Seq(S)
        /\ Len(b) = IF i + 1 <= Len(n) THEN Len(n) - (i + 1) + 1 ELSE 0
        /\ \A k \in 1..(Len(n) - (i + 1) + 1) : b[k] = n[i + 1 + k - 1]
    BY <1>1, <2>1, <2>2, SubSeqProperties
  <2> HIDE DEF b
  <2>4. Len(b) = Len(n) - i
    BY <1>1, <1>2, <2>3
  <2>5. ASSUME NEW k \in 1..(Len(n) - i)
        PROVE  b[k] = n[i + k]
    <3>1. k \in 1..(Len(n) - (i + 1) + 1) /\ i + 1 + k - 1 = i + k
      BY <1>1, <1>2, <2>5
    <3> QED
      BY <2>3, <3>1
  <2> QED
    BY <2>3, <2>4, <2>5
<1> HIDE DEF S, a, b
<1>5. /\ a \o b \in Seq(S)
      /\ Len(a \o b) = Len(n) - 1
      /\ \A j \in 1..(Len(n) - 1) : (a \o b)[j] = IF j <= i - 1 THEN a[j] ELSE b[j - (i - 1)]
  <2>1. /\ a \o b \in Seq(S)
        /\ Len(a \o b) = Len(a) + Len(b)
        /\ \A j \in 1..(Len(a) + Len(b)) : (a \o b)[j] = IF j <= Len(a) THEN a[j] ELSE b[j - Len(a)]
    BY <1>3, <1>4, ConcatProperties
  <2> QED
    BY <1>1, <1>2, <1>3, <1>4, <2>1
<1>6. RemoveAt(n, i) = a \o b
  BY DEF RemoveAt, a, b
<1>7. \A j \in 1..(Len(n) - 1) : (a \o b)[j] = n[Was(i, j)]
  <2> SUFFICES ASSUME NEW j \in 1..(Len(n) - 1)
               PROVE  (a \o b)[j] = n[Was(i, j)]
    OBVIOUS
  <2>1. CASE j < i
    BY <1>1, <1>2, <1>3, <1>5, <2>1 DEF Was
  <2>2. CASE ~(j < i)
    <3>1. (a \o b)[j] = b[j - (i - 1)] /\ j - (i - 1) \in 1..(Len(n) - i)
      BY <1>1, <1>2, <1>5, <2>2
    <3>2. b[j - (i - 1)] = n[i + (j - (i - 1))]
      BY <1>4, <3>1
    <3>3. i + (j - (i - 1)) = j + 1
      BY <1>1, <1>2
    <3> QED
      BY <2>2, <3>1, <3>2, <3>3 DEF Was
  <2> QED
    BY <2>1, <2>2
<1>8. IsSeq(a \o b) /\ DOMAIN (a \o b) = 1..Len(a \o b)
  BY <1>5, AnySeq
<1> QED
  BY <1>5, <1>6, <1>7, <1>8

\* Request i leaves; of the others nothing changes but whether they are late.
LEMMA LeaveOne ==
  ASSUME NetShape(net), NEW i \in DOMAIN net
  PROVE  /\ NetShape(Leave(i))
         /\ DOMAIN Leave(i) = 1..(Len(net) - 1)
         /\ \A j \in DOMAIN Leave(i) :
              /\ Was(i, j) \in DOMAIN net \ {i}
              /\ Leave(i)[j].task = net[Was(i, j)].task
              /\ Leave(i)[j].what = net[Was(i, j)].what
              /\ Leave(i)[j].space = net[Was(i, j)].space
              /\ Leave(i)[j].arg = net[Was(i, j)].arg
              /\ Leave(i)[j].body = net[Was(i, j)].body
<1> DEFINE late(j) == net[j].late \/ (j < i /\ net[j].what = net[i].what)
           m == [j \in DOMAIN net |-> [net[j] EXCEPT !.late = late(j)]]
<1>1. Len(net) \in Nat /\ DOMAIN net = 1..Len(net)
  BY SeqDomain DEF NetShape
<1>2. m \in [1..Len(net) -> {m[j] : j \in DOMAIN net}]
  BY <1>1
<1>3. m \in Seq({m[j] : j \in DOMAIN net})
  BY <1>1, <1>2, SeqDef
<1>4. IsSeq(m) /\ DOMAIN m = DOMAIN net
  BY <1>3, AnySeq
<1>5. Len(m) = Len(net)
  BY <1>1, <1>4, SeqDomain
<1>6. Leave(i) = RemoveAt(m, i)
  BY DEF Leave
<1>7. \A j \in DOMAIN net :
        /\ DOMAIN m[j] = RequestFields
        /\ m[j].task = net[j].task /\ m[j].what = net[j].what /\ m[j].space = net[j].space
        /\ m[j].arg = net[j].arg /\ m[j].body = net[j].body
  BY DEF NetShape, RequestFields
<1> HIDE DEF m
<1>8. /\ IsSeq(Leave(i))
      /\ DOMAIN Leave(i) = 1..(Len(net) - 1)
      /\ \A j \in 1..(Len(net) - 1) : Leave(i)[j] = m[Was(i, j)]
  <2>1. i \in DOMAIN m
    BY <1>4
  <2>2. /\ IsSeq(RemoveAt(m, i))
        /\ DOMAIN RemoveAt(m, i) = 1..(Len(m) - 1)
        /\ \A j \in 1..(Len(m) - 1) : RemoveAt(m, i)[j] = m[Was(i, j)]
    BY <1>4, <2>1, RemoveOne
  <2>3. Len(m) - 1 = Len(net) - 1
    BY <1>5
  <2> HIDE DEF m
  <2> QED
    BY <1>6, <2>2, <2>3, Zenon
<1>9. \A j \in 1..(Len(net) - 1) : Was(i, j) \in DOMAIN net \ {i}
  BY <1>1 DEF Was
<1>10. \A j \in DOMAIN Leave(i) :
         /\ Was(i, j) \in DOMAIN net \ {i}
         /\ Leave(i)[j] = m[Was(i, j)]
  BY <1>8, <1>9
<1>11. NetShape(Leave(i))
  BY <1>7, <1>8, <1>10 DEF NetShape
<1> QED
  BY <1>7, <1>8, <1>10, <1>11

\* Two requests that are left were two before.
LEMMA WasDiffers ==
  ASSUME NEW i \in Int, NEW j \in Int, NEW k \in Int, j # k
  PROVE  Was(i, j) # Was(i, k)
  BY DEF Was
-----------------------------------------------------------------------------
(***************************************************************************)
(* Handlers and their questions.                                           *)
(***************************************************************************)
\* After request i has left, its handler waits for what may go beside it.
LEMMA LeaveKeepsNet ==
  ASSUME NetShape(net), NetInv(net, tasks), NEW i \in DOMAIN net
  PROVE  /\ NetShape(Leave(i))
         /\ NetInv(Leave(i), tasks)
         /\ \A j \in DOMAIN Leave(i) :
              Leave(i)[j].task = net[i].task => /\ Beside(net[i].what, Leave(i)[j].what)
                                                /\ tasks[net[i].task].stage \in {"none", "load"}
         /\ \A X : PollsIn(net, X) => PollsIn(Leave(i), X)
<1> DEFINE n == Leave(i)
<1>1. /\ NetShape(n)
      /\ DOMAIN n = 1..(Len(net) - 1)
      /\ \A j \in DOMAIN n :
           /\ Was(i, j) \in DOMAIN net \ {i}
           /\ n[j].task = net[Was(i, j)].task
           /\ n[j].what = net[Was(i, j)].what
           /\ n[j].arg = net[Was(i, j)].arg
  BY LeaveOne
<1> HIDE DEF n
<1>2. DOMAIN net = 1..Len(net) /\ Len(net) \in Nat
  BY SeqDomain DEF NetShape
<1>3. \A j, k \in DOMAIN n : j # k => Was(i, j) # Was(i, k)
  BY <1>1, <1>2, WasDiffers
<1>4. NetInv(n, tasks)
  BY <1>1, <1>3 DEF NetInv
<1>5. \A j \in DOMAIN n :
        n[j].task = net[i].task => /\ Beside(net[i].what, n[j].what)
                                   /\ tasks[net[i].task].stage \in {"none", "load"}
  BY <1>1 DEF NetInv
<1>6. \A X : PollsIn(net, X) => PollsIn(n, X)
  BY <1>1 DEF PollsIn
<1> QED
  BY <1>1, <1>4, <1>5, <1>6 DEF n

\* What a handler of each kind asks first.
LEMMA FirstQuestions ==
  /\ First("create") = {"create", "spaces"}
  /\ First("asof") = {"facts", "entities"}
  /\ \A kind \in Accepts : First(kind) = {"accept"}
  /\ \A kind \in Kinds \ (Accepts \union {"create", "asof"}) : First(kind) = {kind}
  BY DEF First, Accepts, Kinds

\* What the runs are that are asked about after one more question.
LEMMA AskKeepsPolls ==
  ASSUME NEW n, NetShape(n), NEW t, NEW what, NEW arg, NEW p
  PROVE  \A X : PollsIn(n, X) /\ (what = "poll" => arg \in X)
                  => PollsIn(Ask(n, t, what, arg, p), X)
<1> DEFINE body == IF what \in Writes THEN None ELSE Answer(server', what, p.space, arg)
           space == p.space
<1> HIDE DEF body, space
<1> DEFINE r == [task |-> t, what |-> what, space |-> space, arg |-> arg,
                 late |-> FALSE, body |-> body]
           m == Append(n, r)
<1>1. Ask(n, t, what, arg, p) = m
  BY DEF Ask, body, space
<1>2. r.what = what /\ r.arg = arg
  OBVIOUS
<1> HIDE DEF r
<1>3. /\ DOMAIN m = 1..(Len(n) + 1)
      /\ \A i \in 1..Len(n) : m[i] = n[i]
      /\ m[Len(n) + 1] = r
  BY AppendOne DEF NetShape
<1>4. DOMAIN n = 1..Len(n) /\ Len(n) \in Nat
  BY SeqDomain DEF NetShape
<1> HIDE DEF m
<1>5. \A j \in DOMAIN m : m[j] = r \/ (j \in DOMAIN n /\ m[j] = n[j])
  BY <1>3, <1>4
<1> QED
  BY <1>1, <1>2, <1>5 DEF PollsIn

\* A question more is a sequence of questions still.
LEMMA AskShape ==
  ASSUME NEW n, NetShape(n), NEW t, NEW what, NEW arg, NEW p
  PROVE  NetShape(Ask(n, t, what, arg, p))
<1> DEFINE body == IF what \in Writes THEN None ELSE Answer(server', what, p.space, arg)
           space == p.space
<1> HIDE DEF body, space
<1> DEFINE r == [task |-> t, what |-> what, space |-> space, arg |-> arg,
                 late |-> FALSE, body |-> body]
           m == Append(n, r)
<1>1. Ask(n, t, what, arg, p) = m
  BY DEF Ask, body, space
<1>2. DOMAIN r = RequestFields
  BY DEF RequestFields
<1> HIDE DEF r
<1>3. /\ IsSeq(m)
      /\ DOMAIN m = 1..(Len(n) + 1)
      /\ \A i \in 1..Len(n) : m[i] = n[i]
      /\ m[Len(n) + 1] = r
  BY AppendOne DEF NetShape
<1>4. DOMAIN n = 1..Len(n) /\ Len(n) \in Nat
  BY SeqDomain DEF NetShape
<1> HIDE DEF m
<1>5. \A j \in DOMAIN m : m[j] = r \/ (j \in DOMAIN n /\ m[j] = n[j])
  BY <1>3, <1>4
<1> QED
  BY <1>1, <1>2, <1>3, <1>5 DEF NetShape

\* One more question.
LEMMA AskKeepsNet ==
  ASSUME NEW n, NetShape(n), NEW T, NetInv(n, T), NEW t \in Slots, NEW what, NEW arg, NEW p,
         Fits(what, arg, T[t]),
         \A j \in DOMAIN n : n[j].task = t =>
           Beside(n[j].what, what) /\ Beside(what, n[j].what) /\ T[t].stage \in {"none", "load"}
  PROVE  /\ NetShape(Ask(n, t, what, arg, p))
         /\ NetInv(Ask(n, t, what, arg, p), T)
         /\ \A j \in DOMAIN Ask(n, t, what, arg, p) :
              \/ j \in DOMAIN n /\ Ask(n, t, what, arg, p)[j] = n[j]
              \/ /\ Ask(n, t, what, arg, p)[j].task = t
                 /\ Ask(n, t, what, arg, p)[j].what = what
                 /\ Ask(n, t, what, arg, p)[j].arg = arg
<1> DEFINE body == IF what \in Writes THEN None ELSE Answer(server', what, p.space, arg)
           space == p.space
<1> HIDE DEF body, space
<1> DEFINE r == [task |-> t, what |-> what, space |-> space, arg |-> arg,
                 late |-> FALSE, body |-> body]
           m == Append(n, r)
<1>1. Ask(n, t, what, arg, p) = m
  BY DEF Ask, body, space
<1>2. DOMAIN r = RequestFields /\ r.task = t /\ r.what = what /\ r.arg = arg
  BY DEF RequestFields
<1> HIDE DEF r
<1>3. /\ IsSeq(m)
      /\ DOMAIN m = 1..(Len(n) + 1)
      /\ \A i \in 1..Len(n) : m[i] = n[i]
      /\ m[Len(n) + 1] = r
  BY AppendOne DEF NetShape
<1>4. DOMAIN n = 1..Len(n) /\ Len(n) \in Nat
  BY SeqDomain DEF NetShape
<1> HIDE DEF m
<1>5. \A j \in DOMAIN m : \/ j \in DOMAIN n /\ m[j] = n[j]
                          \/ j = Len(n) + 1 /\ m[j] = r
  BY <1>3, <1>4
<1>6. NetShape(m)
  BY <1>2, <1>3, <1>5 DEF NetShape
<1>7. NetInv(m, T)
  <2>1. \A j \in DOMAIN m : m[j].task \in Slots /\ Fits(m[j].what, m[j].arg, T[m[j].task])
    BY <1>2, <1>5 DEF NetInv
  <2>2. ASSUME NEW j \in DOMAIN m, NEW k \in DOMAIN m, j # k, m[j].task = m[k].task
        PROVE  Beside(m[j].what, m[k].what) /\ T[m[j].task].stage \in {"none", "load"}
    BY <1>2, <1>5, <2>2 DEF NetInv
  <2> QED
    BY <2>1, <2>2 DEF NetInv
<1> QED
  BY <1>1, <1>2, <1>5, <1>6, <1>7

\* A handler that waits for nothing may go on as it likes.
LEMMA OthersKeepNet ==
  ASSUME NEW n, NEW T, NEW U, NetInv(n, T), NEW t, Lanes(n, t) = {},
         \A u \in Slots : u # t => U[u] = T[u]
  PROVE  NetInv(n, U)
  BY DEF NetInv, Lanes

\* A set of natural numbers has a least element.
Below == {ss \in Nat \X Nat : ss[1] < ss[2]}

LEMMA LeastNatural ==
  ASSUME NEW S, S \subseteq Nat, S # {}
  PROVE  \E t \in S : \A u \in S : t <= u
<1>1. IsWellFoundedOn(Below, Nat)
  BY NatLessThanWellFounded DEF OpToRel, Below
<1>2. PICK t \in S : \A u \in S : ~(<<u, t>> \in Below)
  BY <1>1, WFMin
<1>3. ASSUME NEW u \in S
      PROVE  t <= u
  <2>1. ~(u < t)
    BY <1>2, Zenon DEF Below
  <2> QED
    BY <2>1
<1> QED
  BY <1>3

\* The first free slot is free.
LEMMA FirstFreeIsFree ==
  ASSUME FreeSlots # {}, Slots \subseteq Nat
  PROVE  FirstFree \in FreeSlots
<1>1. PICK t \in FreeSlots : \A u \in FreeSlots : t <= u
  BY LeastNatural DEF FreeSlots
<1> QED
  BY <1>1 DEF FirstFree

\* A handler that waits for nothing ends, goes on, or asks one question.
LEMMA NextQuestion ==
  ASSUME NEW n, NetShape(n), NetInv(n, tasks), NEW t \in Slots, Lanes(n, t) = {}, TaskInv,
         TaskShape(tasks'), \A u \in Slots : u # t => tasks'[u] = tasks[u],
         tasks'[t].kind \in Kinds, tasks'[t].stage \in StageOf(tasks'[t].kind),
         \/ net' = n
         \/ \E what, arg, p : net' = Ask(n, t, what, arg, p) /\ Fits(what, arg, tasks'[t])
  PROVE  NetOk'
<1>1. NetInv(n, tasks')
  BY OthersKeepNet
<1>2. TaskInv'
  BY DEF TaskInv
<1>3. CASE net' = n
  BY <1>1, <1>2, <1>3 DEF NetOk
<1>4. ASSUME NEW what, NEW arg, NEW p,
             net' = Ask(n, t, what, arg, p), Fits(what, arg, tasks'[t])
      PROVE  NetOk'
  <2>1. \A j \in DOMAIN n : n[j].task # t
    BY DEF Lanes
  <2>2. NetShape(net') /\ NetInv(net', tasks')
    BY <1>1, <1>4, <2>1, AskKeepsNet
  <2> QED
    BY <1>2, <2>2 DEF NetOk
<1> QED
  BY <1>3, <1>4

\* loadMemories asks for the two parts of the load.
LEMMA ProjectKeepsNet ==
  ASSUME NEW n, NetShape(n), NEW T, NetInv(n, T), NEW t \in Slots, Lanes(n, t) = {},
         T[t].kind # "free", T[t].stage = "load", NEW p
  PROVE  /\ NetShape(Project(n, t, p))
         /\ NetInv(Project(n, t, p), T)
         /\ \A X : PollsIn(n, X) => PollsIn(Project(n, t, p), X)
<1> DEFINE m == Ask(n, t, "timeline", None, p)
<1>1. \A j \in DOMAIN n : n[j].task # t
  BY DEF Lanes
<1>2. Fits("timeline", None, T[t]) /\ Fits("facts", p.asOf, T[t])
  BY DEF Fits, Loads
<1>3. /\ NetShape(m)
      /\ NetInv(m, T)
      /\ \A j \in DOMAIN m : \/ j \in DOMAIN n /\ m[j] = n[j]
                             \/ m[j].task = t /\ m[j].what = "timeline"
      /\ \A X : PollsIn(n, X) => PollsIn(m, X)
  BY <1>1, <1>2, AskKeepsNet, AskKeepsPolls
<1>4. Project(n, t, p) = Ask(m, t, "facts", p.asOf, p)
  BY DEF Project
<1> HIDE DEF m
<1>5. \A j \in DOMAIN m : m[j].task = t => m[j].what = "timeline"
  BY <1>1, <1>3
<1>6. \A j \in DOMAIN m : m[j].task = t =>
        Beside(m[j].what, "facts") /\ Beside("facts", m[j].what) /\ T[t].stage \in {"none", "load"}
  BY <1>5 DEF Beside
<1>7. \A X : PollsIn(m, X) => PollsIn(Ask(m, t, "facts", p.asOf, p), X)
  BY <1>3, AskKeepsPolls
<1>8. /\ NetShape(Ask(m, t, "facts", p.asOf, p))
      /\ NetInv(Ask(m, t, "facts", p.asOf, p), T)
  BY <1>2, <1>3, <1>6, AskKeepsNet
<1> QED
  BY <1>3, <1>4, <1>7, <1>8

LEMMA ProjectQuestions ==
  ASSUME NEW n, NetShape(n), NetInv(n, tasks), NEW t \in Slots, Lanes(n, t) = {}, TaskInv,
         TaskShape(tasks'), \A u \in Slots : u # t => tasks'[u] = tasks[u],
         tasks'[t].kind \in Kinds \ {"free"}, tasks'[t].stage = "load",
         "load" \in StageOf(tasks'[t].kind),
         NEW p, net' = Project(n, t, p)
  PROVE  NetOk'
<1>1. NetInv(n, tasks')
  BY OthersKeepNet
<1>2. TaskInv'
  BY DEF TaskInv
<1> QED
  BY <1>1, <1>2, ProjectKeepsNet DEF NetOk

\* Who waits for which question.
LEMMA WhoAsked ==
  ASSUME NetInv(net, tasks), TaskInv, NEW i \in DOMAIN net
  PROVE  LET k == tasks[net[i].task]
             what == net[i].what
         IN /\ net[i].task \in Slots
            /\ k.kind \in Kinds \ {"free"}
            /\ k.stage \in StageOf(k.kind)
            /\ what \in {"principal", "workspaces"} => k.kind = "bootstrap" /\ k.stage = "none"
            /\ what = "spaces" => \/ k.kind = "bootstrap" /\ k.stage = "none"
                                  \/ k.kind = "create" /\ k.stage = "first"
            /\ what = "memories" => k.stage = "load"
            /\ what \in {"timeline", "fallback"} => k.stage \in {"load", "fallback"}
            /\ what = "fallback" => k.stage = "fallback"
            /\ what \in {"facts", "entities"} => \/ k.stage = "load" /\ k.kind # "asof"
                                                 \/ k.kind = "asof" /\ k.stage = "first"
            /\ what \in {"remember", "forget", "create", "ingest", "poll", "preview"} =>
                 k.kind = what /\ k.stage = "first"
            /\ what = "recall" => \/ k.kind = "recall" /\ k.stage = "first"
                                  \/ k.kind = "asof" /\ k.stage = "recall"
            /\ what = "accept" => k.kind \in Accepts /\ k.stage = "first" /\ net[i].arg = k.arg
<1> DEFINE k == tasks[net[i].task]
           what == net[i].what
<1>1. /\ net[i].task \in Slots /\ Fits(what, net[i].arg, k)
      /\ k.kind \in Kinds /\ k.stage \in StageOf(k.kind)
  BY DEF NetInv, TaskInv
<1> HIDE DEF k, what
<1>2. k.stage \in {"none", "first", "load", "fallback", "recall"}
  BY <1>1 DEF StageOf
<1>3. k.kind \in Kinds \ {"free"}
  BY <1>1 DEF Fits
<1>4. what = "accept" => net[i].arg = k.arg
  BY <1>1 DEF Fits
<1>5. CASE k.stage = "none"
  <2>1. k.kind = "bootstrap" /\ what \in Shelf
    BY <1>1, <1>5 DEF Fits
  <2> QED
    BY <1>1, <1>3, <1>5, <2>1 DEF Shelf, k, what
<1>6. CASE k.stage = "first"
  <2>1. what \in First(k.kind) /\ k.kind \notin {"bootstrap", "free"}
    BY <1>1, <1>6 DEF Fits, StageOf
  <2> QED
    BY <1>1, <1>3, <1>4, <1>6, <2>1 DEF First, Kinds, Accepts, k, what
<1>7. CASE k.stage = "load"
  <2>1. what \in Loads /\ k.kind # "asof"
    BY <1>1, <1>7 DEF Fits, StageOf
  <2> QED
    BY <1>1, <1>3, <1>7, <2>1 DEF Loads, k, what
<1>8. CASE k.stage = "fallback"
  <2>1. what \in {"timeline", "fallback"}
    BY <1>1, <1>8 DEF Fits
  <2> QED
    BY <1>1, <1>3, <1>8, <2>1 DEF k, what
<1>9. CASE k.stage = "recall"
  <2>1. what = "recall" /\ k.kind = "asof"
    BY <1>1, <1>3, <1>9 DEF Fits, StageOf, Kinds, Accepts
  <2> QED
    BY <1>1, <1>3, <1>9, <2>1 DEF k, what
<1> QED
  BY <1>2, <1>5, <1>6, <1>7, <1>8, <1>9

\* A handler ends.
LEMMA EndKeepsNet ==
  ASSUME NEW n, NetShape(n), NetInv(n, tasks), NEW t \in Slots, Lanes(n, t) = {}, TaskInv,
         TaskShape(tasks), End(t), net' = n
  PROVE  NetOk'
<1>1. tasks'[t] = Free /\ \A u \in Slots : u # t => tasks'[u] = tasks[u]
  BY DEF End, TaskShape
<1>2. TaskShape(tasks')
  <2>1. DOMAIN tasks' = Slots
    BY DEF End, TaskShape
  <2>2. DOMAIN Free = {"kind", "stage", "arg"}
    BY DEF Free
  <2> QED
    BY <1>1, <2>1, <2>2 DEF TaskShape
<1>3. tasks'[t].kind \in Kinds /\ tasks'[t].stage \in StageOf(tasks'[t].kind)
  BY <1>1 DEF Free, Kinds, StageOf
<1> QED
  BY <1>1, <1>2, <1>3, NextQuestion

\* The fields of a handler that reaches a stage.
LEMMA StageStep ==
  ASSUME TaskShape(tasks), NEW t \in Slots, NEW stage, Stage(t, stage)
  PROVE  /\ TaskShape(tasks')
         /\ \A u \in Slots : u # t => tasks'[u] = tasks[u]
         /\ tasks'[t].kind = tasks[t].kind /\ tasks'[t].arg = tasks[t].arg
         /\ tasks'[t].stage = stage
  BY DEF Stage, TaskShape

\* A load begins.
LEMMA LoadKeepsNet ==
  ASSUME NEW n, NetShape(n), NetInv(n, tasks), NEW t \in Slots, Lanes(n, t) = {}, TaskInv,
         TaskShape(tasks), tasks[t].kind # "free", "load" \in StageOf(tasks[t].kind),
         NEW p, Load(n, t, p)
  PROVE  NetOk'
<1>1. /\ TaskShape(tasks')
      /\ \A u \in Slots : u # t => tasks'[u] = tasks[u]
      /\ tasks'[t].kind = tasks[t].kind /\ tasks'[t].stage = "load"
  BY StageStep DEF Load
<1>2. tasks'[t].kind \in Kinds /\ tasks'[t].stage \in StageOf(tasks'[t].kind)
  BY <1>1 DEF TaskInv
<1>3. Fits("memories", None, tasks'[t])
  BY <1>1 DEF Fits, Loads
<1>4. net' = Ask(n, t, "memories", None, p)
  BY DEF Load
<1> QED
  BY <1>1, <1>2, <1>3, <1>4, NextQuestion

\* One part of a load is in.
LEMMA JoinKeepsNet ==
  ASSUME NEW n, NetShape(n), NetInv(n, tasks), NEW t \in Slots, TaskInv, TaskShape(tasks),
         tasks[t].kind \in Kinds \ {"free"}, tasks[t].kind = "asof" => Lanes(n, t) = {},
         NEW p, Join(n, t, p)
  PROVE  NetOk'
<1>1. CASE Lanes(n, t) # {}
  BY <1>1 DEF Join, NetOk, TaskShape, TaskInv
<1>2. CASE Lanes(n, t) = {} /\ tasks[t].kind # "asof"
  <2>1. net' = n /\ End(t)
    BY <1>2 DEF Join, Loaded
  <2> QED
    BY <1>2, <2>1, EndKeepsNet
<1>3. CASE Lanes(n, t) = {} /\ tasks[t].kind = "asof"
  <2>1. CASE net' = n /\ End(t)
    BY <1>3, <2>1, EndKeepsNet
  <2>2. CASE net' = Ask(n, t, "recall", p.asOf, p) /\ Stage(t, "recall")
    <3>1. /\ TaskShape(tasks')
          /\ \A u \in Slots : u # t => tasks'[u] = tasks[u]
          /\ tasks'[t].kind = "asof" /\ tasks'[t].stage = "recall"
      BY <1>3, <2>2, StageStep
    <3>2. Fits("recall", p.asOf, tasks'[t])
      BY <3>1 DEF Fits
    <3>3. tasks'[t].kind \in Kinds /\ tasks'[t].stage \in StageOf(tasks'[t].kind)
      BY <3>1 DEF Kinds, StageOf
    <3> QED
      BY <1>3, <2>2, <3>1, <3>2, <3>3, NextQuestion
  <2> QED
    BY <1>3, <2>1, <2>2 DEF Join, Loaded
<1> QED
  BY <1>1, <1>2, <1>3

\* After request i has left: its handler, and when it waits for nothing else.
LEMMA HeardOne ==
  ASSUME NetOk, NEW i \in DOMAIN net
  PROVE  LET t == net[i].task
             n == Leave(i)
         IN /\ t \in Slots /\ TaskShape(tasks) /\ TaskInv
            /\ NetShape(n) /\ NetInv(n, tasks)
            /\ net[i].what \notin Shelf \union {"timeline", "facts", "entities"} => Lanes(n, t) = {}
            /\ tasks[t].stage \notin {"none", "load"} => Lanes(n, t) = {}
            /\ \A j \in DOMAIN n : n[j].task = t => Beside(net[i].what, n[j].what)
<1> DEFINE t == net[i].task
           n == Leave(i)
<1>1. /\ NetShape(n) /\ NetInv(n, tasks)
      /\ \A j \in DOMAIN n : n[j].task = t =>
           Beside(net[i].what, n[j].what) /\ tasks[t].stage \in {"none", "load"}
  BY LeaveKeepsNet DEF NetOk
<1>2. t \in Slots
  BY DEF NetOk, NetInv
<1> HIDE DEF n, t
<1>3. tasks[t].stage \notin {"none", "load"} => Lanes(n, t) = {}
  BY <1>1 DEF Lanes
<1>4. net[i].what \notin Shelf \union {"timeline", "facts", "entities"} => Lanes(n, t) = {}
  BY <1>1 DEF Lanes, Beside
<1> QED
  BY <1>1, <1>2, <1>3, <1>4 DEF NetOk, n, t

\* An answer leaves every handler waiting for what it asked.
LEMMA HearKeepsNet ==
  ASSUME NetOk, NEW i \in DOMAIN net, NEW a, Hear(i, a)
  PROVE  NetOk'
<1> DEFINE q == net[i]
           t == net[i].task
           n == Leave(i)
           k == tasks[t]
<1>1. /\ t \in Slots /\ TaskShape(tasks) /\ TaskInv
      /\ NetShape(n) /\ NetInv(n, tasks)
      /\ q.what \notin Shelf \union {"timeline", "facts", "entities"} => Lanes(n, t) = {}
      /\ k.stage \notin {"none", "load"} => Lanes(n, t) = {}
      /\ \A j \in DOMAIN n : n[j].task = t => Beside(q.what, n[j].what)
  BY HeardOne
<1>2. /\ k.kind \in Kinds \ {"free"} /\ k.stage \in StageOf(k.kind)
      /\ q.what = "spaces" => \/ k.kind = "bootstrap" /\ k.stage = "none"
                              \/ k.kind = "create" /\ k.stage = "first"
      /\ q.what = "memories" => k.stage = "load"
      /\ q.what \in {"timeline", "fallback"} => k.stage \in {"load", "fallback"}
      /\ q.what \in {"facts", "entities"} => \/ k.stage = "load" /\ k.kind # "asof"
                                             \/ k.kind = "asof" /\ k.stage = "first"
      /\ q.what \in {"remember", "forget", "create", "ingest", "poll", "preview"} =>
           k.kind = q.what /\ k.stage = "first"
      /\ q.what = "accept" => k.kind \in Accepts /\ k.stage = "first"
  BY WhoAsked DEF NetOk
<1>3. "load" \in StageOf(k.kind) => "fallback" \in StageOf(k.kind) /\ k.kind # "asof"
  BY DEF StageOf
<1>s. Shelf = {"principal", "workspaces", "spaces"}
  BY DEF Shelf
<1> HIDE DEF q, t, n, k
<1>d. q = net[i] /\ t = q.task /\ n = Leave(i) /\ k = tasks[t]
  BY DEF q, t, n, k
<1>4. CASE HearBootstrap(i, a)
  <2>1. k.kind = "bootstrap"
    BY <1>4, <1>d DEF HearBootstrap
  <2>2. CASE Lanes(n, t) = {}
    <3>1. \E p : Load(n, t, p)
      BY <1>4, <1>d, <2>2 DEF HearBootstrap
    <3>2. "load" \in StageOf(k.kind)
      BY <2>1 DEF StageOf
    <3> QED
      BY <1>1, <1>2, <1>d, <2>2, <3>1, <3>2, LoadKeepsNet
  <2>3. CASE Lanes(n, t) # {}
    <3>1. net' = n /\ tasks' = tasks
      BY <1>4, <1>d, <2>3 DEF HearBootstrap
    <3> QED
      BY <1>1, <3>1 DEF NetOk, TaskInv, TaskShape
  <2> QED
    BY <2>2, <2>3
<1>5. CASE HearMemories(i, a)
  <2>1. q.what = "memories" /\ k.stage = "load" /\ Lanes(n, t) = {}
    BY <1>1, <1>2, <1>5, <1>d, <1>s DEF HearMemories
  <2>2. CASE \E p : net' = Project(n, t, p) /\ tasks' = tasks
    BY <1>1, <1>2, <1>d, <2>1, <2>2, ProjectQuestions
  <2>3. CASE net' = Ask(n, t, "timeline", None, page) /\ Stage(t, "fallback")
    <3>1. /\ TaskShape(tasks')
          /\ \A u \in Slots : u # t => tasks'[u] = tasks[u]
          /\ tasks'[t].kind = k.kind /\ tasks'[t].stage = "fallback"
      BY <1>1, <1>d, <2>3, StageStep
    <3>2. Fits("timeline", None, tasks'[t])
      BY <1>2, <3>1 DEF Fits
    <3> QED
      BY <1>1, <1>2, <1>3, <1>d, <2>1, <2>3, <3>1, <3>2, NextQuestion
  <2> QED
    BY <1>5, <1>d, <2>2, <2>3 DEF HearMemories
<1>6. CASE HearTimeline(i, a)
  <2>1. q.what = "timeline" /\ k.stage \in {"load", "fallback"}
    BY <1>2, <1>6, <1>d DEF HearTimeline
  <2>2. CASE k.stage = "load"
    <3>1. PICK p : Join(n, t, p)
      BY <1>6, <1>d, <2>2 DEF HearTimeline
    <3> QED
      BY <1>1, <1>2, <1>3, <1>d, <2>2, <3>1, JoinKeepsNet
  <2>3. CASE k.stage = "fallback"
    <3>1. Lanes(n, t) = {} /\ "load" \in StageOf(k.kind)
      BY <1>1, <1>2, <2>3 DEF StageOf
    <3>2. CASE \E p : net' = Ask(n, t, "fallback", None, p) /\ tasks' = tasks
      <4>1. Fits("fallback", None, k)
        BY <1>2, <2>3 DEF Fits
      <4> QED
        BY <1>1, <1>2, <1>d, <3>1, <3>2, <4>1, NextQuestion
    <3>3. CASE \E p : net' = Project(n, t, p) /\ Stage(t, "load")
      <4>1. /\ TaskShape(tasks')
            /\ \A u \in Slots : u # t => tasks'[u] = tasks[u]
            /\ tasks'[t].kind = k.kind /\ tasks'[t].stage = "load"
        BY <1>1, <1>d, <3>3, StageStep
      <4> QED
        BY <1>1, <1>2, <1>d, <3>1, <3>3, <4>1, ProjectQuestions
    <3> QED
      BY <1>6, <1>d, <2>3, <3>2, <3>3 DEF HearTimeline
  <2> QED
    BY <2>1, <2>2, <2>3
<1>7. CASE HearFallback(i, a)
  <2>1. q.what = "fallback" /\ Lanes(n, t) = {} /\ "load" \in StageOf(k.kind)
    BY <1>1, <1>2, <1>7, <1>d, <1>s DEF HearFallback, StageOf
  <2>2. \E p : net' = Project(n, t, p) /\ Stage(t, "load")
    BY <1>7, <1>d DEF HearFallback
  <2>3. /\ TaskShape(tasks')
        /\ \A u \in Slots : u # t => tasks'[u] = tasks[u]
        /\ tasks'[t].kind = k.kind /\ tasks'[t].stage = "load"
    BY <1>1, <1>d, <2>2, StageStep
  <2> QED
    BY <1>1, <1>2, <1>d, <2>1, <2>2, <2>3, ProjectQuestions
<1>8. CASE HearFacts(i, a)
  <2>1. /\ q.what = "facts" /\ tasks' = tasks
        /\ \E p : net' = Ask(n, t, "entities", None, p)
    BY <1>8, <1>d DEF HearFacts
  <2>2. Fits("entities", None, k)
    BY <1>2, <2>1, FirstQuestions DEF Fits, Loads
  <2>3. \A j \in DOMAIN n : n[j].task = t =>
          /\ Beside(n[j].what, "entities") /\ Beside("entities", n[j].what)
          /\ k.stage \in {"none", "load"}
    BY <1>1, <2>1 DEF Beside, Shelf, Lanes
  <2>4. NetShape(net') /\ NetInv(net', tasks)
    BY <1>1, <1>d, <2>1, <2>2, <2>3, AskKeepsNet
  <2> QED
    BY <1>1, <2>1, <2>4 DEF NetOk, TaskInv, TaskShape
<1>9. CASE HearEntities(i, a)
  <2>1. PICK p : Join(n, t, p)
    BY <1>9, <1>d DEF HearEntities
  <2>2. k.kind = "asof" => Lanes(n, t) = {}
    BY <1>1, <1>2, <1>9, <1>d DEF HearEntities
  <2> QED
    BY <1>1, <1>2, <1>d, <2>1, <2>2, JoinKeepsNet
<1>10. CASE HearEdit(i, a) \/ HearPoll(i, a) \/ HearAccept(i, a)
  <2>1. q.what \in {"remember", "forget", "poll", "accept"}
    BY <1>10, <1>d DEF HearEdit, HearPoll, HearAccept
  <2>2. Lanes(n, t) = {}
    BY <1>1, <1>s, <2>1
  <2>3. "load" \in StageOf(k.kind)
    BY <1>2, <2>1 DEF StageOf, Accepts
  <2>4. (\E p : Load(n, t, p)) \/ (net' = n /\ End(t))
    BY <1>10, <1>d DEF HearEdit, HearPoll, HearAccept
  <2> QED
    BY <1>1, <1>2, <1>d, <2>2, <2>3, <2>4, LoadKeepsNet, EndKeepsNet
<1>11. CASE HearCreated(i, a)
  <2>1. CASE q.what = "create"
    <3>1. Lanes(n, t) = {} /\ k.kind = "create" /\ k.stage = "first"
      BY <1>1, <1>2, <1>s, <2>1
    <3>2. CASE net' = n /\ End(t)
      BY <1>1, <3>1, <3>2, EndKeepsNet
    <3>3. CASE /\ net' = Ask(n, t, "spaces", None, page)
               /\ tasks' = [tasks EXCEPT ![t].arg = a.body]
      <4>1. /\ TaskShape(tasks')
            /\ \A u \in Slots : u # t => tasks'[u] = tasks[u]
            /\ tasks'[t].kind = "create" /\ tasks'[t].stage = "first"
        BY <1>1, <1>d, <3>1, <3>3 DEF TaskShape
      <4>2. Fits("spaces", None, tasks'[t])
        BY <4>1, FirstQuestions DEF Fits
      <4>3. tasks'[t].kind \in Kinds /\ tasks'[t].stage \in StageOf(tasks'[t].kind)
        BY <4>1 DEF Kinds, StageOf, Accepts
      <4> QED
        BY <1>1, <3>1, <3>3, <4>1, <4>2, <4>3, NextQuestion
    <3> QED
      BY <1>11, <1>d, <2>1, <3>2, <3>3 DEF HearCreated
  <2>2. CASE q.what = "spaces" /\ k.kind = "create"
    <3>1. \E p : Load(n, t, p)
      BY <1>11, <1>d, <2>2 DEF HearCreated
    <3>2. "load" \in StageOf(k.kind) /\ Lanes(n, t) = {}
      BY <1>1, <1>2, <2>2 DEF StageOf, Accepts
    <3> QED
      BY <1>1, <1>2, <1>d, <3>1, <3>2, LoadKeepsNet
  <2> QED
    BY <1>11, <1>d, <2>1, <2>2 DEF HearCreated
<1>12. CASE HearRecall(i, a) \/ HearPreview(i, a)
  <2>1. q.what \in {"recall", "preview"} /\ net' = n /\ End(t)
    BY <1>12, <1>d DEF HearRecall, HearPreview
  <2> QED
    BY <1>1, <1>s, <2>1, EndKeepsNet
<1>13. CASE HearIngest(i, a)
  <2>1. q.what = "ingest" /\ Lanes(n, t) = {} /\ k.kind = "ingest" /\ k.stage = "first"
    BY <1>1, <1>2, <1>13, <1>d, <1>s DEF HearIngest
  <2>2. CASE net' = n /\ End(t)
    BY <1>1, <2>1, <2>2, EndKeepsNet
  <2>3. CASE /\ net' = Ask(n, t, "poll", a.body, page)
             /\ tasks' = [tasks EXCEPT ![t].kind = "poll"]
    <3>1. /\ TaskShape(tasks')
          /\ \A u \in Slots : u # t => tasks'[u] = tasks[u]
          /\ tasks'[t].kind = "poll" /\ tasks'[t].stage = "first"
      BY <1>1, <1>d, <2>1, <2>3 DEF TaskShape
    <3>2. Fits("poll", a.body, tasks'[t])
      BY <3>1 DEF Fits, First, Accepts
    <3>3. tasks'[t].kind \in Kinds /\ tasks'[t].stage \in StageOf(tasks'[t].kind)
      BY <3>1 DEF Kinds, StageOf, Accepts
    <3> QED
      BY <1>1, <2>1, <2>3, <3>1, <3>2, <3>3, NextQuestion
  <2> QED
    BY <1>13, <1>d, <2>2, <2>3 DEF HearIngest
<1> QED
  BY <1>4, <1>5, <1>6, <1>7, <1>8, <1>9, <1>10, <1>11, <1>12, <1>13 DEF Hear

\* A handler starts in the first free slot.
LEMMA StartsWhere ==
  ASSUME Slots \subseteq Nat, TaskShape(tasks), NEW kind, NEW what, NEW arg, NEW p,
         Starts(kind, what, arg, p)
  PROVE  /\ FirstFree \in Slots /\ tasks[FirstFree] = Free
         /\ \A u \in Slots : u # FirstFree => tasks'[u] = tasks[u]
         /\ tasks'[FirstFree].kind = kind
         /\ tasks'[FirstFree].stage = IF kind = "load" THEN "load" ELSE "first"
         /\ kind \in Accepts => tasks'[FirstFree].arg = arg
         /\ page' = p
<1>1. FirstFree \in Slots /\ tasks[FirstFree] = Free
  BY FirstFreeIsFree DEF Starts, FreeSlots
<1>2. /\ page' = p
      /\ tasks' = [tasks EXCEPT ![FirstFree] =
                     [kind |-> kind, stage |-> IF kind = "load" THEN "load" ELSE "first",
                      arg |-> IF kind \in {"accept all", "accept one"} THEN arg ELSE None]]
  BY DEF Starts
<1> QED
  BY <1>1, <1>2 DEF TaskShape, Accepts

\* A handler that starts waits for what it asked.
LEMMA StartsKeepsNet ==
  ASSUME NetOk, Slots \subseteq Nat, NEW kind \in Kinds \ {"free", "bootstrap"}, NEW what, NEW arg,
         NEW p, Starts(kind, what, arg, p),
         IF kind = "load" THEN what \in Loads ELSE what \in First(kind),
         what = "forget" => arg[2] \in {"hide", "retract", "purge"},
         what = "accept" => kind \in Accepts
  PROVE  /\ NetOk'
         /\ \A X : PollsIn(net, X) /\ (what = "poll" => arg \in X) => PollsIn(net', X)
<1> DEFINE t == FirstFree
<1>1. /\ t \in Slots /\ tasks[t] = Free
      /\ \A u \in Slots : u # t => tasks'[u] = tasks[u]
      /\ tasks'[t].kind = kind /\ tasks'[t].stage = IF kind = "load" THEN "load" ELSE "first"
      /\ kind \in Accepts => tasks'[t].arg = arg
  BY StartsWhere DEF NetOk
<1> HIDE DEF t
<1>2. net' = Ask(net, t, what, arg, p) /\ TaskShape(tasks')
  BY <1>1 DEF Starts, NetOk, TaskShape, t
<1>3. \A j \in DOMAIN net : net[j].task # t
  BY <1>1 DEF NetOk, NetInv, Fits, Free
<1>4. Lanes(net, t) = {}
  BY <1>3 DEF Lanes
<1>5. Fits(what, arg, tasks'[t])
  <2>1. CASE kind = "load"
    BY <1>1, <2>1 DEF Fits, Accepts
  <2>2. CASE kind # "load"
    BY <1>1, <2>2 DEF Fits
  <2> QED
    BY <2>1, <2>2
<1>6. tasks'[t].kind \in Kinds /\ tasks'[t].stage \in StageOf(tasks'[t].kind)
  <2>1. tasks'[t].stage \in StageOf(kind)
    BY <1>1 DEF StageOf, Kinds, Accepts
  <2> QED
    BY <1>1, <2>1
<1>7. NetOk'
  BY <1>1, <1>2, <1>4, <1>5, <1>6, NextQuestion DEF NetOk
<1>8. \A X : PollsIn(net, X) /\ (what = "poll" => arg \in X) => PollsIn(net', X)
  BY <1>2, AskKeepsPolls DEF NetOk
<1> QED
  BY <1>7, <1>8

-----------------------------------------------------------------------------
(***************************************************************************)
(* What an answer does to the page.                                        *)
(***************************************************************************)
\* The pages agree on these fields.
Same(p, r, F) == \A f \in F : p[f] = r[f]

\* What acceptExtract does in the end.
LEMMA ConcludedPage ==
  ASSUME NEW p, DOMAIN p = PageFields, NEW t
  PROVE  LET c == [Concluded(t, p) EXCEPT !.loading = FALSE]
         IN /\ DOMAIN c = PageFields
            /\ Same(c, p, PageFields \ {"review", "busy", "loading"})
            /\ c.loading = FALSE
            /\ tasks[t].kind \notin Accepts => c.review = p.review /\ c.busy = p.busy
            /\ tasks[t].kind = "accept all" => c.review = {} /\ c.busy = FALSE
            /\ tasks[t].kind = "accept one" => c.review = p.review \ tasks[t].arg /\ c.busy = FALSE
<1>1. CASE tasks[t].kind = "accept all"
  <2>1. Concluded(t, p) = [p EXCEPT !.review = {}, !.busy = FALSE]
    BY <1>1 DEF Concluded
  <2> QED
    BY <1>1, <2>1 DEF Same, PageFields, Accepts
<1>2. CASE tasks[t].kind = "accept one"
  <2>1. Concluded(t, p) = [p EXCEPT !.review = @ \ tasks[t].arg, !.busy = FALSE]
    BY <1>2 DEF Concluded
  <2> QED
    BY <1>2, <2>1 DEF Same, PageFields, Accepts
<1>3. CASE tasks[t].kind \notin Accepts
  <2>1. Concluded(t, p) = p
    BY <1>3 DEF Concluded, Accepts
  <2> QED
    BY <1>3, <2>1 DEF Same, PageFields, Accepts
<1> QED
  BY <1>1, <1>2, <1>3 DEF Accepts

\* One part of a load is in: the page as that answer left it, and the end of the load.
LEMMA JoinPage ==
  ASSUME NEW n, NEW p, DOMAIN p = PageFields, NEW t, Join(n, t, p)
  PROVE  /\ DOMAIN page' = PageFields
         /\ Same(page', p, PageFields \ {"review", "busy", "loading"})
         /\ tasks[t].kind \notin Accepts \/ Lanes(n, t) # {}
              => page'.review = p.review /\ page'.busy = p.busy
         /\ tasks[t].kind = "asof" \/ Lanes(n, t) # {} => page' = p
<1>1. CASE Lanes(n, t) # {} \/ tasks[t].kind = "asof"
  <2>1. page' = p
    BY <1>1 DEF Join, Loaded
  <2> QED
    BY <2>1 DEF Same
<1>2. CASE Lanes(n, t) = {} /\ tasks[t].kind # "asof"
  <2>1. page' = [Concluded(t, p) EXCEPT !.loading = FALSE]
    BY <1>2 DEF Join, Loaded
  <2> QED
    BY <1>2, <2>1, ConcludedPage
<1> QED
  BY <1>1, <1>2

\* The list of spaces moves the selection and nothing else.
LEMMA KnowSpacesPage ==
  ASSUME NEW p, DOMAIN p = PageFields, NEW S
  PROVE  /\ DOMAIN KnowSpaces(p, S) = PageFields
         /\ Same(KnowSpaces(p, S), p, PageFields \ {"space", "spaces"})
  BY DEF KnowSpaces, Same, PageFields

\* What an answer may change on the page.
LEMMA HearPage ==
  ASSUME DOMAIN page = PageFields, NetOk, NEW i \in DOMAIN net, NEW a, Hear(i, a)
  PROVE  LET what == net[i].what
         IN /\ DOMAIN page' = PageFields
            /\ page'.asOf = page.asOf
            /\ what \notin {"ingest", "poll"} => page'.timer = page.timer /\ timers' = timers
            /\ what \notin {"preview", "accept", "timeline", "entities"} =>
                 page'.review = page.review /\ page'.busy = page.busy
            /\ what \notin Shelf \union {"create", "remember", "forget"} =>
                 Same(page', page, {"space", "spaces", "episode"})
            /\ what \notin {"facts", "entities"} =>
                 Same(page', page, {"facts", "entities"})
            /\ what \notin {"memories", "timeline", "fallback"} =>
                 Same(page', page, {"episodes", "timeline"})
<1> DEFINE what == net[i].what
<1>1. CASE HearBootstrap(i, a)
  <2> DEFINE p == IF what = "spaces" /\ a.ok THEN KnowSpaces(page, a.body) ELSE page
  <2>1. DOMAIN p = PageFields /\ Same(p, page, PageFields \ {"space", "spaces"})
    BY KnowSpacesPage DEF Same
  <2>2. /\ what \in Shelf /\ timers' = timers
        /\ page' = p \/ page' = [p EXCEPT !.loading = TRUE]
    BY <1>1 DEF HearBootstrap, Load, Shelf
  <2> HIDE DEF p, what
  <2>3. DOMAIN page' = PageFields /\ Same(page', page, PageFields \ {"space", "spaces", "loading"})
    BY <2>1, <2>2 DEF Same, PageFields
  <2> QED
    BY <2>2, <2>3 DEF Same, PageFields, Shelf, what
<1>2. CASE HearMemories(i, a) \/ HearFallback(i, a)
  <2>1. /\ what \in {"memories", "fallback"} /\ timers' = timers
        /\ page' = page \/ page' = [page EXCEPT !.episodes = a.body]
    BY <1>2 DEF HearMemories, HearFallback
  <2> HIDE DEF what
  <2>2. DOMAIN page' = PageFields /\ Same(page', page, PageFields \ {"episodes"})
    BY <2>1 DEF Same, PageFields
  <2> QED
    BY <2>1, <2>2 DEF Same, PageFields, Shelf, what
<1>3. CASE HearTimeline(i, a)
  <2> DEFINE p == IF a.ok THEN [page EXCEPT !.timeline = a.body] ELSE page
  <2>1. DOMAIN p = PageFields /\ Same(p, page, PageFields \ {"timeline"})
    BY DEF Same, PageFields
  <2>2. /\ what = "timeline" /\ timers' = timers
        /\ \/ Join(Leave(i), net[i].task, p)
           \/ page' = [p EXCEPT !.episodes = p.timeline]
    BY <1>3 DEF HearTimeline
  <2> HIDE DEF p, what
  <2>3. /\ DOMAIN page' = PageFields
        /\ Same(page', page, PageFields \ {"timeline", "episodes", "review", "busy", "loading"})
    <3>1. CASE Join(Leave(i), net[i].task, p)
      BY <2>1, <3>1, JoinPage DEF Same
    <3>2. CASE page' = [p EXCEPT !.episodes = p.timeline]
      BY <2>1, <3>2 DEF Same, PageFields
    <3> QED
      BY <2>2, <3>1, <3>2
  <2> QED
    BY <2>2, <2>3 DEF Same, PageFields, Shelf, what
<1>4. CASE HearFacts(i, a)
  <2>1. /\ what = "facts" /\ timers' = timers
        /\ page' = page \/ page' = [page EXCEPT !.facts = a.body]
    BY <1>4 DEF HearFacts
  <2> HIDE DEF what
  <2>2. DOMAIN page' = PageFields /\ Same(page', page, PageFields \ {"facts"})
    BY <2>1 DEF Same, PageFields
  <2> QED
    BY <2>1, <2>2 DEF Same, PageFields, Shelf, what
<1>5. CASE HearEntities(i, a)
  <2> DEFINE p == IF a.ok THEN [page EXCEPT !.entities = a.body] ELSE page
  <2>1. DOMAIN p = PageFields /\ Same(p, page, PageFields \ {"entities"})
    BY DEF Same, PageFields
  <2>2. what = "entities" /\ timers' = timers /\ Join(Leave(i), net[i].task, p)
    BY <1>5 DEF HearEntities
  <2> HIDE DEF p, what
  <2>3. /\ DOMAIN page' = PageFields
        /\ Same(page', page, PageFields \ {"entities", "review", "busy", "loading"})
    BY <2>1, <2>2, JoinPage DEF Same
  <2> QED
    BY <2>2, <2>3 DEF Same, PageFields, Shelf, what
<1>6. CASE HearEdit(i, a)
  <2>1. /\ what \in {"remember", "forget"} /\ timers' = timers
        /\ page' = page \/ page' = [[page EXCEPT !.episode = a.body] EXCEPT !.loading = TRUE]
    BY <1>6 DEF HearEdit, Load
  <2> HIDE DEF what
  <2>2. DOMAIN page' = PageFields /\ Same(page', page, PageFields \ {"episode", "loading"})
    BY <2>1 DEF Same, PageFields
  <2> QED
    BY <2>1, <2>2 DEF Same, PageFields, Shelf, what
<1>7. CASE HearCreated(i, a)
  <2> DEFINE p == IF a.ok THEN KnowSpaces(page, a.body) ELSE page
  <2>1. DOMAIN p = PageFields /\ Same(p, page, PageFields \ {"space", "spaces"})
    BY KnowSpacesPage DEF Same
  <2>2. /\ what \in {"create", "spaces"} /\ timers' = timers
        /\ \/ page' = page
           \/ page' = [SelectedIn(p, tasks[net[i].task].arg) EXCEPT !.loading = TRUE]
    BY <1>7 DEF HearCreated, Load
  <2> HIDE DEF p, what
  <2>3. /\ DOMAIN page' = PageFields
        /\ Same(page', page, PageFields \ {"space", "spaces", "episode", "loading"})
    BY <2>1, <2>2 DEF Same, PageFields, SelectedIn
  <2> QED
    BY <2>2, <2>3 DEF Same, PageFields, Shelf, what
<1>8. CASE HearRecall(i, a)
  <2> DEFINE receipts == {f[2] : f \in a.body.facts} \union a.body.memories
  <2>1. /\ what = "recall" /\ timers' = timers
        /\ \/ page' = page
           \/ page' = [page EXCEPT !.receipts = receipts, !.glow = a.body.facts, !.asked = TRUE]
    BY <1>8 DEF HearRecall
  <2> HIDE DEF what, receipts
  <2>2. DOMAIN page' = PageFields /\ Same(page', page, PageFields \ {"receipts", "glow", "asked"})
    BY <2>1 DEF Same, PageFields
  <2> QED
    BY <2>1, <2>2 DEF Same, PageFields, Shelf, what
<1>9. CASE HearIngest(i, a) \/ HearPoll(i, a)
  <2>1. /\ what \in {"ingest", "poll"}
        /\ \/ page' = page
           \/ \E r : page' = [page EXCEPT !.timer = r]
           \/ page' = [[page EXCEPT !.timer = None] EXCEPT !.loading = TRUE]
    BY <1>9 DEF HearIngest, HearPoll, Load
  <2> HIDE DEF what
  <2>2. DOMAIN page' = PageFields /\ Same(page', page, PageFields \ {"timer", "loading"})
    BY <2>1 DEF Same, PageFields
  <2> QED
    BY <2>1, <2>2 DEF Same, PageFields, Shelf, what
<1>10. CASE HearPreview(i, a)
  <2>1. /\ what = "preview" /\ timers' = timers
        /\ \E r : page' = [page EXCEPT !.busy = FALSE, !.review = r]
    BY <1>10 DEF HearPreview
  <2> HIDE DEF what
  <2>2. DOMAIN page' = PageFields /\ Same(page', page, PageFields \ {"busy", "review"})
    BY <2>1 DEF Same, PageFields
  <2> QED
    BY <2>1, <2>2 DEF Same, PageFields, Shelf, what
<1>11. CASE HearAccept(i, a)
  <2>1. /\ what = "accept" /\ timers' = timers
        /\ page' = [page EXCEPT !.loading = TRUE] \/ page' = [page EXCEPT !.busy = FALSE]
    BY <1>11 DEF HearAccept, Load
  <2> HIDE DEF what
  <2>2. DOMAIN page' = PageFields /\ Same(page', page, PageFields \ {"busy", "loading"})
    BY <2>1 DEF Same, PageFields
  <2> QED
    BY <2>1, <2>2 DEF Same, PageFields, Shelf, what
<1> QED
  BY <1>1, <1>2, <1>3, <1>4, <1>5, <1>6, <1>7, <1>8, <1>9, <1>10, <1>11 DEF Hear

\* What the history remembers of an answer.
LEMMA HearHist ==
  ASSUME DOMAIN hist = HistFields, NEW i, NEW a, Hears(i, a)
  PROVE  LET q == net[i]
         IN /\ DOMAIN hist' = HistFields
            /\ hist'.started = IF q.what = "ingest" /\ a.ok THEN hist.started \union {a.body}
                               ELSE hist.started
            /\ hist.seen \subseteq hist'.seen
            /\ q.what = "poll" /\ a.ok /\ a.body \in Terminal => q.arg \in hist'.seen
            /\ hist.unpolled => hist'.unpolled
            /\ q.what = "poll" /\ ~a.ok => hist'.unpolled
            /\ q.what = "preview" /\ a.ok => hist'.offered = a.body /\ hist'.settled = {}
            /\ ~(q.what = "preview" /\ a.ok) =>
                 hist'.offered = hist.offered /\ hist.settled \subseteq hist'.settled
            /\ q.what = "accept" /\ {<<q.space, e>> : e \in q.arg} \subseteq a.server.active
                 => q.arg \subseteq hist'.settled
<1> DEFINE q == net[i]
           misled == Misled(q, a)
           lost == hist.lost \/ (~a.ok /\ a.server # server)
           seen == IF q.what = "poll" /\ a.ok /\ a.body \in Terminal THEN hist.seen \union {q.arg}
                   ELSE hist.seen
           unpolled == hist.unpolled \/ (q.what = "poll" /\ ~a.ok)
           started == IF q.what = "ingest" /\ a.ok THEN hist.started \union {a.body} ELSE hist.started
           offered == IF q.what = "preview" /\ a.ok THEN a.body ELSE hist.offered
           settled == IF q.what = "preview" /\ a.ok THEN {}
                      ELSE IF q.what = "accept" /\ {<<q.space, e>> : e \in q.arg} \subseteq a.server.active
                           THEN hist.settled \union q.arg ELSE hist.settled
<1>1. hist' = [hist EXCEPT !.misled = misled, !.lost = lost, !.seen = seen, !.unpolled = unpolled,
                           !.started = started, !.offered = offered, !.settled = settled]
  BY DEF Hears
<1>2. /\ hist.seen \subseteq seen
      /\ q.what = "poll" /\ a.ok /\ a.body \in Terminal => q.arg \in seen
      /\ hist.unpolled => unpolled
      /\ q.what = "poll" /\ ~a.ok => unpolled
      /\ q.what = "preview" /\ a.ok => offered = a.body /\ settled = {}
      /\ ~(q.what = "preview" /\ a.ok) => offered = hist.offered /\ hist.settled \subseteq settled
      /\ q.what = "accept" /\ {<<q.space, e>> : e \in q.arg} \subseteq a.server.active
           => q.arg \subseteq settled
  OBVIOUS
<1>3. started = IF q.what = "ingest" /\ a.ok THEN hist.started \union {a.body} ELSE hist.started
  OBVIOUS
<1> HIDE DEF misled, lost, seen, unpolled, started, offered, settled
<1>4. /\ DOMAIN hist' = HistFields /\ hist'.seen = seen /\ hist'.started = started
      /\ hist'.offered = offered /\ hist'.settled = settled
  BY <1>1 DEF HistFields
<1>5. hist'.unpolled <=> unpolled
  BY <1>1 DEF HistFields
<1> QED
  BY <1>2, <1>3, <1>4, <1>5

\* Every answer is heard.
LEMMA HearHears ==
  ASSUME NEW i, NEW a, Hear(i, a)
  PROVE  Hears(i, a)
  BY DEF Hear, HearBootstrap, HearMemories, HearTimeline, HearFallback, HearFacts, HearEntities,
         HearEdit, HearCreated, HearRecall, HearIngest, HearPoll, HearPreview, HearAccept

\* What a server that took a request is like.
LEMMA OutcomeServer ==
  ASSUME DOMAIN server = ServerFields, NetOk, NEW i \in DOMAIN net, NEW a \in Outcomes(net[i])
  PROVE  /\ DOMAIN a.server = ServerFields
         /\ net[i].what = "accept" /\ a.ok =>
              {<<net[i].space, e>> : e \in net[i].arg} \subseteq a.server.active
<1> DEFINE q == net[i]
<1>m. q.what = "forget" => q.arg[2] \in {"hide", "retract", "purge"}
  BY DEF NetOk, NetInv, Fits
<1> HIDE DEF q
<1>1. \A e, s, v, u : DOMAIN Store(e, s, v, u) = ServerFields
  BY DEF Store
<1>2. \A s, e, mode : mode \in {"hide", "retract", "purge"} =>
        DOMAIN Forgotten(s, e, mode) = ServerFields
  BY DEF Forgotten
<1>3. \A new : DOMAIN Recorded(new) = ServerFields /\ new \subseteq Recorded(new).active
  BY DEF Recorded, ServerFields
<1>4. ASSUME NEW d \in Taken(q)
      PROVE  /\ DOMAIN d.server = ServerFields
             /\ q.what = "accept" => {<<q.space, e>> : e \in q.arg} \subseteq d.server.active
  <2>1. CASE q.what = "remember"
    <3>1. d = [server |-> Store(NextEpisode, q.space, TRUE, "none"), body |-> NextEpisode]
      BY <2>1 DEF Taken
    <3> QED
      BY <1>1, <2>1, <3>1
  <2>2. CASE q.what = "ingest"
    <3>1. PICK u : d = [server |-> Store(NextEpisode, q.space, u = "succeeded", u),
                        body |-> NextEpisode]
      BY <2>2 DEF Taken
    <3> QED
      BY <1>1, <2>2, <3>1
  <2>3. CASE q.what = "create"
    <3>1. PICK s : d = [server |-> [server EXCEPT !.spaces = @ \union {s}], body |-> s]
      BY <2>3 DEF Taken
    <3> QED
      BY <2>3, <3>1
  <2>4. CASE q.what = "forget"
    <3>1. d = [server |-> Forgotten(q.space, q.arg[1], q.arg[2]), body |-> None]
      BY <2>4 DEF Taken
    <3> QED
      BY <1>2, <1>m, <2>4, <3>1
  <2>5. CASE q.what = "accept"
    <3>1. d = [server |-> Recorded({<<q.space, e>> : e \in q.arg}), body |-> None]
      BY <2>5 DEF Taken
    <3> QED
      BY <1>3, <2>5, <3>1
  <2>6. CASE q.what \notin {"remember", "ingest", "create", "forget", "accept"}
    <3>1. d = [server |-> server, body |-> q.body]
      BY <2>6 DEF Taken
    <3> QED
      BY <2>6, <3>1
  <2> QED
    BY <2>1, <2>2, <2>3, <2>4, <2>5, <2>6
<1>5. /\ (\E d \in Taken(q) : a.server = d.server) \/ (a.server = server /\ ~a.ok)
  BY DEF Outcomes, q
<1> QED
  BY <1>4, <1>5 DEF q

\* The runs that are asked about after an answer.
LEMMA HearPolls ==
  ASSUME NetOk, NEW i \in DOMAIN net, NEW a, Hear(i, a), NEW X, PollsIn(net, X),
         net[i].what = "ingest" /\ a.ok => a.body \in X
  PROVE  PollsIn(net', X)
<1> DEFINE n == Leave(i)
           t == net[i].task
<1>1. PollsIn(n, X) /\ NetShape(n)
  BY LeaveKeepsNet DEF NetOk
<1>2. \A u, what, arg, p : what # "poll" => PollsIn(Ask(n, u, what, arg, p), X)
  BY <1>1, AskKeepsPolls
<1>3. \A p : NetShape(Ask(n, t, "timeline", None, p))
  <2>1. ASSUME NEW p
        PROVE  NetShape(Ask(n, t, "timeline", None, p))
    BY <1>1, AskShape
  <2> QED
    BY <2>1
<1>4. \A p : PollsIn(Project(n, t, p), X)
  BY <1>2, <1>3, AskKeepsPolls DEF Project
<1>5. \A p : Join(n, t, p) => PollsIn(net', X)
  BY <1>1, <1>2 DEF Join, Loaded
<1>6. \A p : Load(n, t, p) => PollsIn(net', X)
  BY <1>2 DEF Load
<1>7. CASE HearIngest(i, a)
  <2>1. CASE a.ok
    <3>1. net' = Ask(n, t, "poll", a.body, page) /\ net[i].what = "ingest"
      BY <1>7, <2>1 DEF HearIngest
    <3> QED
      BY <1>1, <2>1, <3>1, AskKeepsPolls
  <2>2. CASE ~a.ok
    BY <1>1, <1>7, <2>2 DEF HearIngest
  <2> QED
    BY <2>1, <2>2
<1> HIDE DEF n, t
<1>d. n = Leave(i) /\ t = net[i].task
  BY DEF n, t
<1>8. CASE HearBootstrap(i, a) \/ HearMemories(i, a) \/ HearTimeline(i, a) \/ HearFallback(i, a)
  BY <1>1, <1>2, <1>4, <1>5, <1>6, <1>8, <1>d
     DEF HearBootstrap, HearMemories, HearTimeline, HearFallback
<1>9. CASE HearFacts(i, a) \/ HearEntities(i, a) \/ HearEdit(i, a) \/ HearCreated(i, a)
  BY <1>1, <1>2, <1>5, <1>6, <1>9, <1>d DEF HearFacts, HearEntities, HearEdit, HearCreated
<1>10. CASE HearRecall(i, a) \/ HearPoll(i, a) \/ HearPreview(i, a) \/ HearAccept(i, a)
  BY <1>1, <1>6, <1>10, <1>d DEF HearRecall, HearPoll, HearPreview, HearAccept
<1> QED
  BY <1>7, <1>8, <1>9, <1>10 DEF Hear
-----------------------------------------------------------------------------
(***************************************************************************)
(* The steps.                                                              *)
(***************************************************************************)
\* A click starts a handler that asks, or asks nothing.
Begins(kind, what, arg, p) ==
  /\ Starts(kind, what, arg, p)
  /\ kind \in Kinds \ {"free", "bootstrap", "poll"}
  /\ IF kind = "load" THEN what \in Loads ELSE what \in First(kind)
  /\ what = "forget" => arg[2] \in {"hide", "retract", "purge"}
  /\ what = "accept" => kind \in Accepts
  /\ what # "poll"

LEMMA UserStarts ==
  ASSUME User
  PROVE  Idle \/ \E kind, what, arg, p : Begins(kind, what, arg, p)
<1> USE FirstQuestions DEF Begins
<1>k. Kinds = {"free", "bootstrap", "load", "remember", "forget", "create", "recall", "asof",
               "ingest", "poll", "preview", "accept all", "accept one"}
  BY DEF Kinds, Accepts
<1>a. Accepts = {"accept all", "accept one"}
  BY DEF Accepts
<1>1. ASSUME NEW s \in Spaces, SelectSpace(s)
      PROVE  \E kind, what, arg, p : Begins(kind, what, arg, p)
  <2>1. \E p : Starts("load", "memories", None, p)
    BY <1>1 DEF SelectSpace
  <2>2. "memories" \in Loads
    BY DEF Loads
  <2> QED
    BY <1>k, <2>1, <2>2
<1>2. CASE Submit
  <2>1. \/ \E what \in {"remember", "ingest", "create"} : Starts(what, what, None, page)
        \/ Starts("recall", "recall", page.asOf, page)
    BY <1>2 DEF Submit
  <2>2. ASSUME NEW what \in {"remember", "ingest", "create"}, Starts(what, what, None, page)
        PROVE  \E kind, question, arg, p : Begins(kind, question, arg, p)
    <3>1. what \in Kinds \ {"free", "bootstrap", "poll", "load"}
      BY <1>k, <2>2
    <3>2. CASE what = "create"
      BY <2>2, <3>1, <3>2
    <3>3. CASE what \in {"remember", "ingest"}
      <4>1. what \in Kinds \ (Accepts \union {"create", "asof"})
        BY <1>a, <1>k, <3>3
      <4>2. First(what) = {what}
        BY <4>1
      <4>3. Begins(what, what, None, page)
        BY <2>2, <3>1, <3>3, <4>2
      <4> QED
        BY <4>3
    <3> QED
      BY <2>2, <3>2, <3>3
  <2>3. CASE Starts("recall", "recall", page.asOf, page)
    BY <1>a, <1>k, <2>3
  <2> QED
    BY <2>1, <2>2, <2>3
<1>3. ASSUME NEW mode \in {"hide", "retract", "purge"}, ForgetSelected(mode)
      PROVE  \E kind, what, arg, p : Begins(kind, what, arg, p)
  <2>1. Starts("forget", "forget", <<page.episode, mode>>, page)
    BY <1>3 DEF ForgetSelected
  <2>2. <<page.episode, mode>>[2] \in {"hide", "retract", "purge"}
    BY <1>3
  <2> QED
    BY <1>a, <1>k, <2>1, <2>2
<1>4. ASSUME NEW e \in Episodes, SelectEpisode(e) \/ InspectEpisode(e)
      PROVE  Idle
  BY <1>4 DEF SelectEpisode, InspectEpisode
<1>5. ASSUME NEW f \in Facts, SelectEdge(f)
      PROVE  Idle
  BY <1>5 DEF SelectEdge
<1>6. ASSUME NEW date \in {"now", "past"}, ChangeAsOf(date)
      PROVE  \E kind, what, arg, p : Begins(kind, what, arg, p)
  <2>1. \E p : Starts("asof", "facts", date, p)
    BY <1>6 DEF ChangeAsOf
  <2> QED
    BY <1>k, <2>1
<1>7. CASE PreviewExtract
  <2>1. \E p : Starts("preview", "preview", None, p)
    BY <1>7 DEF PreviewExtract
  <2> QED
    BY <1>a, <1>k, <2>1
<1>8. ASSUME NEW kind \in {"accept all", "accept one"}, NEW items \in SUBSET Episodes,
             Accept(kind, items)
      PROVE  \E what, arg, p : Begins(kind, what, arg, p)
  <2>1. \E p : Starts(kind, "accept", items, p)
    BY <1>8 DEF Accept
  <2> QED
    BY <1>8, <1>a, <1>k, <2>1
<1>9. ASSUME NEW items \in SUBSET Episodes, Skip(items)
      PROVE  Idle
  BY <1>9 DEF Skip
<1> HIDE DEF Begins
<1> QED
  BY <1>1, <1>2, <1>3, <1>4, <1>5, <1>6, <1>7, <1>8, <1>9 DEF User

\* Every step leaves every handler waiting for what it asked.
LEMMA NetStep ==
  ASSUME Slots \subseteq Nat, NetOk, WorkbenchNext
  PROVE  NetOk'
<1>1. CASE User
  <2>1. CASE Idle
    BY <2>1 DEF Idle, NetOk, TaskShape, TaskInv
  <2>2. ASSUME NEW kind, NEW what, NEW arg, NEW p, Begins(kind, what, arg, p)
        PROVE  NetOk'
    BY <2>2, StartsKeepsNet DEF Begins
  <2> QED
    BY <1>1, <2>1, <2>2, UserStarts
<1>2. ASSUME NEW i \in DOMAIN net, NEW a, Hear(i, a)
      PROVE  NetOk'
  BY <1>2, HearKeepsNet
<1>3. ASSUME NEW e, WorkerEnds(e) \/ RunFrame
      PROVE  NetOk'
  BY <1>3 DEF WorkerEnds, RunFrame, NetOk, TaskShape, TaskInv
<1>4. ASSUME NEW e, PollTick(e)
      PROVE  NetOk'
  <2>1. Starts("poll", "poll", e, page)
    BY <1>4 DEF PollTick
  <2>2. "poll" \in Kinds \ {"free", "bootstrap"} /\ "poll" \in First("poll")
    BY FirstQuestions DEF Kinds, Accepts
  <2> QED
    BY <2>1, <2>2, StartsKeepsNet
<1> QED
  BY <1>1, <1>2, <1>3, <1>4 DEF WorkbenchNext

\* At first the shelf waits for its three reads.
LEMMA NetInit ==
  ASSUME WorkbenchInit
  PROVE  NetOk
<1>1. PICK t \in Slots :
        /\ tasks = [u \in Slots |-> IF u = t THEN [Free EXCEPT !.kind = "bootstrap"] ELSE Free]
        /\ net = [i \in 1..3 |->
                   [task |-> t, what |-> <<"principal", "workspaces", "spaces">>[i],
                    space |-> Default, arg |-> None, late |-> FALSE,
                    body |-> IF i = 3 THEN Existing ELSE None]]
  BY DEF WorkbenchInit
<1>2. TaskShape(tasks) /\ TaskInv
  BY <1>1 DEF TaskShape, TaskInv, Free, Kinds, StageOf
<1>3. DOMAIN net = 1..3 /\ net \in Seq({net[i] : i \in DOMAIN net})
  <2>1. net \in [1..3 -> {net[i] : i \in DOMAIN net}]
    BY <1>1
  <2> QED
    BY <2>1, SeqDef
<1>4. \A i \in 1..3 : net[i].task = t /\ net[i].what \in Shelf /\ DOMAIN net[i] = RequestFields
  BY <1>1 DEF Shelf, RequestFields
<1>5. NetShape(net)
  BY <1>3, <1>4 DEF NetShape, IsSeq
<1>6. tasks[t].kind = "bootstrap" /\ tasks[t].stage = "none"
  BY <1>1 DEF Free
<1>7. NetInv(net, tasks)
  BY <1>3, <1>4, <1>6 DEF NetInv, Fits, Beside, Shelf
<1> QED
  BY <1>2, <1>5, <1>7 DEF NetOk
\* What a click may change on the page and in the history.
LEMMA UserPage ==
  ASSUME DOMAIN page = PageFields, DOMAIN hist = HistFields, User
  PROVE  /\ DOMAIN page' = PageFields /\ DOMAIN hist' = HistFields
         /\ server' = server /\ timers' = timers
         /\ Same(page', page, PageFields \
                 {"space", "episode", "asOf", "busy", "loading", "review", "glow"})
         /\ Same(hist', hist, HistFields \ {"settled"})
<1> USE DEF Same, PageFields, HistFields, Clicks
<1>1. ASSUME NEW s, SelectSpace(s)
      PROVE  /\ page' = [SelectedIn(page, s) EXCEPT !.loading = TRUE]
             /\ hist' = hist /\ server' = server /\ timers' = timers
  BY <1>1 DEF SelectSpace, Starts
<1>2. ASSUME Submit \/ \E mode : ForgetSelected(mode)
      PROVE  page' = page /\ hist' = hist /\ server' = server /\ timers' = timers
  BY <1>2 DEF Submit, ForgetSelected, Starts
<1>3. ASSUME NEW e, SelectEpisode(e) \/ InspectEpisode(e) \/ SelectEdge(e)
      PROVE  /\ \E d : page' = [page EXCEPT !.episode = d]
             /\ hist' = hist /\ server' = server /\ timers' = timers
  BY <1>3 DEF SelectEpisode, InspectEpisode, SelectEdge
<1>4. ASSUME NEW date, ChangeAsOf(date)
      PROVE  /\ page' = [page EXCEPT !.asOf = date]
             /\ hist' = hist /\ server' = server /\ timers' = timers
  BY <1>4 DEF ChangeAsOf, Starts
<1>5. CASE PreviewExtract
  <2>1. /\ page' = [page EXCEPT !.busy = TRUE, !.glow = {}]
        /\ hist' = hist /\ server' = server /\ timers' = timers
    BY <1>5 DEF PreviewExtract, Starts
  <2> QED
    BY <2>1
<1>6. ASSUME NEW kind, NEW items, Accept(kind, items)
      PROVE  /\ page' = [page EXCEPT !.busy = TRUE]
             /\ hist' = hist /\ server' = server /\ timers' = timers
  BY <1>6 DEF Accept, Starts
<1>7. ASSUME NEW items, Skip(items)
      PROVE  /\ page' = [page EXCEPT !.review = @ \ items]
             /\ hist' = [hist EXCEPT !.settled = @ \union items]
             /\ server' = server /\ timers' = timers
  BY <1>7 DEF Skip
<1>8. CASE \E s \in Spaces : SelectSpace(s)
  BY <1>1, <1>8 DEF SelectedIn
<1>9. CASE Submit \/ \E mode \in {"hide", "retract", "purge"} : ForgetSelected(mode)
  BY <1>2, <1>9
<1>10. CASE (\E e \in Episodes : SelectEpisode(e) \/ InspectEpisode(e)) \/ \E f \in Facts : SelectEdge(f)
  BY <1>3, <1>10
<1>11. CASE \E date \in {"now", "past"} : ChangeAsOf(date)
  BY <1>4, <1>11
<1>12. CASE \E kind \in {"accept all", "accept one"}, items \in SUBSET Episodes : Accept(kind, items)
  BY <1>6, <1>12
<1>13. CASE \E items \in SUBSET Episodes : Skip(items)
  <2>1. PICK items : Skip(items)
    BY <1>13
  <2> QED
    BY <1>7, <2>1
<1> QED
  BY <1>5, <1>8, <1>9, <1>10, <1>11, <1>12, <1>13 DEF User

\* One more frame is the last.
LEMMA AppendFrame ==
  ASSUME NEW q, IsSeq(q), NEW f
  PROVE  /\ IsSeq(Append(q, f))
         /\ Append(q, f) # << >>
         /\ Append(q, f)[Len(Append(q, f))] = f
<1> DEFINE m == Append(q, f)
<1>1. /\ IsSeq(m) /\ Len(m) = Len(q) + 1 /\ DOMAIN m = 1..(Len(q) + 1)
      /\ \A i \in 1..Len(q) : m[i] = q[i]
      /\ m[Len(q) + 1] = f
  BY AppendOne
<1>2. DOMAIN q = 1..Len(q) /\ Len(q) \in Nat
  BY SeqDomain
<1> HIDE DEF m
<1>3. m # << >>
  <2>1. Len(q) + 1 \in DOMAIN m
    BY <1>1, <1>2
  <2> QED
    BY <2>1
<1> QED
  BY <1>1, <1>3 DEF m

\* A map with facts is drawn by the last frame.
LEMMA PaintFrames ==
  ASSUME NEW q, IsSeq(q), NEW p
  PROVE  /\ IsSeq(Paint(q, p))
         /\ p.facts # {} => /\ Paint(q, p) # << >>
                            /\ Paint(q, p)[Len(Paint(q, p))].kind = "draw"
                            /\ Paint(q, p)[Len(Paint(q, p))].graph = Graph(p)
<1> DEFINE f == [kind |-> "draw", graph |-> Graph(p)]
<1>1. f.kind = "draw" /\ f.graph = Graph(p)
  BY DEF Graph
<1>2. Paint(q, p) = IF p.facts = {} THEN q ELSE Append(q, f)
  BY DEF Paint
<1> HIDE DEF f
<1> QED
  BY <1>1, <1>2, AppendFrame

\* The last frame is last until it runs.
LEMMA TailFrames ==
  ASSUME NEW q, IsSeq(q), q # << >>
  PROVE  /\ IsSeq(Tail(q))
         /\ Head(q) = q[1] /\ 1 \in DOMAIN q
         /\ Tail(q) = << >> => Len(q) = 1
         /\ Tail(q) # << >> => Tail(q)[Len(Tail(q))] = q[Len(q)]
<1> DEFINE m == Tail(q)
<1>1. /\ IsSeq(m) /\ Len(m) = Len(q) - 1 /\ DOMAIN m = 1..(Len(q) - 1)
      /\ \A i \in 1..(Len(q) - 1) : m[i] = q[i + 1]
      /\ Head(q) = q[1] /\ 1 \in DOMAIN q
  BY TailOne
<1>2. DOMAIN q = 1..Len(q) /\ Len(q) \in Nat
  BY SeqDomain
<1>3. m # << >> => Len(m) # 0
  BY <1>1, EmptySeq DEF IsSeq
<1>4. m = << >> => Len(m) = 0
  BY <1>1, EmptySeq DEF IsSeq
<1> HIDE DEF m
<1>5. m = << >> => Len(q) = 1
  BY <1>1, <1>2, <1>4
<1>6. m # << >> => m[Len(m)] = q[Len(q)]
  <2>1. SUFFICES ASSUME m # << >>
                 PROVE  m[Len(m)] = q[Len(q)]
    OBVIOUS
  <2>2. Len(q) - 1 \in 1..(Len(q) - 1) /\ Len(q) - 1 + 1 = Len(q)
    BY <1>1, <1>2, <1>3, <2>1
  <2> QED
    BY <1>1, <2>2
<1> QED
  BY <1>1, <1>5, <1>6 DEF m
\* What an answer may show.
Redraws ==
  \/ screen' = screen /\ frames' = frames
  \/ \E o, v : screen' = [screen EXCEPT !.space = o, !.options = v] /\ frames' = frames
  \/ \E p : RenderAll(p) \/ RenderFacts(p)

LEMMA HearRedraws ==
  ASSUME NEW i, NEW a, Hear(i, a)
  PROVE  Redraws /\ drawn' = drawn
<1>1. ASSUME NEW n, NEW t, NEW p, Join(n, t, p)
      PROVE  Redraws
  BY <1>1 DEF Join, Loaded, Redraws
<1>2. CASE HearBootstrap(i, a)
  BY <1>2 DEF HearBootstrap, Redraws
<1>3. CASE HearMemories(i, a) \/ HearFallback(i, a) \/ HearFacts(i, a) \/ HearEdit(i, a)
  BY <1>3 DEF HearMemories, HearFallback, HearFacts, HearEdit, Redraws
<1>4. CASE HearTimeline(i, a)
  BY <1>1, <1>4 DEF HearTimeline, Redraws
<1>5. CASE HearEntities(i, a)
  BY <1>1, <1>5 DEF HearEntities
<1>6. CASE HearCreated(i, a) \/ HearRecall(i, a) \/ HearIngest(i, a)
  BY <1>6 DEF HearCreated, HearRecall, HearIngest, Redraws
<1>7. CASE HearPoll(i, a) \/ HearPreview(i, a) \/ HearAccept(i, a)
  BY <1>7 DEF HearPoll, HearPreview, HearAccept, Redraws
<1> QED
  BY <1>2, <1>3, <1>4, <1>5, <1>6, <1>7 DEF Hear

\* The fields of the screen after a full and after a partial rendering.
LEMMA ViewFields ==
  ASSUME NEW p
  PROVE  /\ ScreenShape(View(p))
         /\ View(p).space = p.space /\ View(p).options = p.spaces
         /\ View(p).episodes = p.episodes /\ View(p).timeline = p.timeline
         /\ View(p).marked = {p.episode} \intersect p.timeline
         /\ View(p).facts = Graph(p) /\ View(p).dossier = Dossier(p)
         /\ View(p).hidden = (p.facts = {})
  BY DEF View, ScreenShape, ScreenFields

LEMMA RenderFactsFields ==
  ASSUME ScreenShape(screen), NEW p, RenderFacts(p)
  PROVE  /\ ScreenShape(screen')
         /\ Same(screen', screen, {"options", "episodes", "timeline", "marked"})
         /\ screen'.space = p.space
         /\ screen'.facts = Graph(p) /\ screen'.dossier = Dossier(p)
         /\ screen'.hidden = (p.facts = {})
  BY DEF RenderFacts, ScreenShape, ScreenFields, Same

LEMMA SelectedFields ==
  ASSUME ScreenShape(screen), NEW p
  PROVE  /\ ScreenShape(Selected(p))
         /\ Same(Selected(p), screen, {"space", "options", "episodes", "facts", "hidden"})
         /\ Selected(p).timeline = p.timeline
         /\ Selected(p).marked = {p.episode} \intersect p.timeline
         /\ Selected(p).dossier = Dossier(p)
  BY DEF Selected, ScreenShape, ScreenFields, Same
\* What a click may show.
LEMMA UserRedraws ==
  ASSUME ScreenShape(screen), IsSeq(frames), DOMAIN drawn = {"edges", "labels", "glow"}, User
  PROVE  /\ ScreenShape(screen') /\ IsSeq(frames')
         /\ DOMAIN drawn' = {"edges", "labels", "glow"}
         /\ drawn'.edges = drawn.edges /\ drawn'.labels = drawn.labels
<1> USE DEF Clicks
<1>1. ASSUME NEW s, SelectSpace(s)
      PROVE  screen' = screen /\ frames' = frames /\ drawn' = drawn
  BY <1>1 DEF SelectSpace
<1>2. ASSUME Submit \/ (\E mode : ForgetSelected(mode)) \/ (\E date : ChangeAsOf(date))
      PROVE  screen' = screen /\ frames' = frames /\ drawn' = drawn
  BY <1>2 DEF Submit, ForgetSelected, ChangeAsOf
<1>3. ASSUME NEW e, SelectEpisode(e) \/ InspectEpisode(e) \/ SelectEdge(e)
      PROVE  ScreenShape(screen') /\ IsSeq(frames') /\ drawn' = drawn
  <2>1. CASE SelectEpisode(e)
    <3>1. /\ screen' = [Selected(page') EXCEPT !.episodes = page.episodes]
          /\ frames' = frames /\ drawn' = drawn
      BY <2>1 DEF SelectEpisode
    <3>2. ScreenShape(Selected(page'))
      BY SelectedFields
    <3> QED
      BY <3>1, <3>2 DEF ScreenShape, ScreenFields
  <2>2. CASE InspectEpisode(e)
    <3>1. /\ screen' = Selected(page')
          /\ frames' = Append(frames, [kind |-> "paint"]) /\ drawn' = drawn
      BY <2>2 DEF InspectEpisode
    <3> QED
      BY <3>1, SelectedFields, AppendFrame
  <2>3. CASE SelectEdge(e)
    <3>1. screen' = Selected(page') /\ frames' = frames /\ drawn' = drawn
      BY <2>3 DEF SelectEdge
    <3> QED
      BY <3>1, SelectedFields
  <2> QED
    BY <1>3, <2>1, <2>2, <2>3
<1>4. CASE PreviewExtract
  <2>1. screen' = screen /\ frames' = frames /\ drawn' = [drawn EXCEPT !.glow = {}]
    BY <1>4 DEF PreviewExtract
  <2> QED
    BY <2>1
<1>5. ASSUME (\E kind, items : Accept(kind, items)) \/ (\E items : Skip(items))
      PROVE  screen' = screen /\ frames' = frames /\ drawn' = drawn
  BY <1>5 DEF Accept, Skip
<1>6. CASE \E s \in Spaces : SelectSpace(s)
  BY <1>1, <1>6
<1>7. CASE \/ Submit \/ (\E mode \in {"hide", "retract", "purge"} : ForgetSelected(mode))
           \/ \E date \in {"now", "past"} : ChangeAsOf(date)
  BY <1>2, <1>7
<1>8. CASE (\E e \in Episodes : SelectEpisode(e) \/ InspectEpisode(e)) \/ \E f \in Facts : SelectEdge(f)
  BY <1>3, <1>8
<1>9. CASE \/ \E kind \in {"accept all", "accept one"}, items \in SUBSET Episodes : Accept(kind, items)
           \/ \E items \in SUBSET Episodes : Skip(items)
  BY <1>5, <1>9
<1> QED
  BY <1>4, <1>6, <1>7, <1>8, <1>9 DEF User

\* What a frame may show.
LEMMA FrameFields ==
  ASSUME ScreenShape(screen), IsSeq(frames), RunFrame
  PROVE  /\ ScreenShape(screen') /\ IsSeq(frames')
         /\ DOMAIN drawn = {"edges", "labels", "glow"} => DOMAIN drawn' = {"edges", "labels", "glow"}
<1>1. CASE Head(frames).kind = "draw"
  <2>1. /\ drawn' = [edges |-> Head(frames).graph.edges,
                     labels |-> Head(frames).graph.labels, glow |-> page.glow]
        /\ frames' = Tail(frames) /\ screen' = screen /\ frames # << >>
    BY <1>1 DEF RunFrame
  <2> QED
    BY <2>1, TailFrames
<1>2. CASE Head(frames).kind # "draw"
  <2>1. /\ frames' = Paint(Tail(frames), page) /\ frames # << >>
        /\ screen' = [screen EXCEPT !.hidden = page.facts = {}] /\ drawn' = drawn
    BY <1>2 DEF RunFrame
  <2> QED
    BY <2>1, TailFrames, PaintFrames DEF ScreenShape, ScreenFields
<1> QED
  BY <1>1, <1>2

\* Every step keeps the shape of the state.
LEMMA ShapeStep ==
  ASSUME WbShape, NetOk, WorkbenchNext
  PROVE  WbShape'
<1>1. CASE User
  BY <1>1, UserPage, UserRedraws DEF WbShape
<1>2. ASSUME NEW i \in DOMAIN net, NEW a \in Outcomes(net[i]), Hear(i, a)
      PROVE  WbShape'
  <2>1. DOMAIN page' = PageFields
    BY <1>2, HearPage DEF WbShape
  <2>2. DOMAIN hist' = HistFields /\ DOMAIN server' = ServerFields
    <3>1. Hears(i, a)
      BY <1>2, HearHears
    <3>2. server' = a.server
      BY <3>1 DEF Hears
    <3> QED
      BY <3>1, <3>2, HearHist, OutcomeServer DEF WbShape
  <2>3. drawn' = drawn /\ Redraws
    BY <1>2, HearRedraws
  <2>4. ScreenShape(screen') /\ IsSeq(frames')
    <3>1. CASE \E o, v : screen' = [screen EXCEPT !.space = o, !.options = v] /\ frames' = frames
      BY <3>1 DEF WbShape, ScreenShape, ScreenFields
    <3>2. ASSUME NEW p, RenderAll(p)
          PROVE  ScreenShape(screen') /\ IsSeq(frames')
      BY <3>2, ViewFields, PaintFrames DEF RenderAll, WbShape
    <3>3. ASSUME NEW p, RenderFacts(p)
          PROVE  ScreenShape(screen') /\ IsSeq(frames')
      <4>1. frames' = Paint(frames, p)
        BY <3>3 DEF RenderFacts
      <4> QED
        BY <3>3, <4>1, RenderFactsFields, PaintFrames DEF WbShape
    <3> QED
      BY <2>3, <3>1, <3>2, <3>3 DEF Redraws, WbShape
  <2> QED
    BY <2>1, <2>2, <2>3, <2>4 DEF WbShape
<1>3. ASSUME NEW e, WorkerEnds(e)
      PROVE  WbShape'
  <2>1. DOMAIN server' = DOMAIN server
    BY <1>3 DEF WorkerEnds
  <2> QED
    BY <1>3, <2>1 DEF WorkerEnds, WbShape
<1>4. ASSUME NEW e, PollTick(e)
      PROVE  WbShape'
  BY <1>4 DEF PollTick, Starts, WbShape
<1>5. CASE RunFrame
  <2>1. page' = page /\ server' = server /\ hist' = hist
    BY <1>5 DEF RunFrame
  <2> QED
    BY <1>5, <2>1, FrameFields DEF WbShape
<1> QED
  BY <1>1, <1>2, <1>3, <1>4, <1>5 DEF WorkbenchNext

LEMMA ShapeInit ==
  ASSUME WorkbenchInit
  PROVE  WbShape
<1>1. DOMAIN page = PageFields /\ DOMAIN server = ServerFields /\ DOMAIN hist = HistFields
  BY DEF WorkbenchInit, EmptyPage, PageFields, ServerFields, HistFields
<1>2. ScreenShape(screen) /\ DOMAIN drawn = {"edges", "labels", "glow"}
  BY DEF WorkbenchInit, ScreenShape, ScreenFields
<1>3. IsSeq(frames)
  BY EmptySeq DEF WorkbenchInit, IsSeq
<1> QED
  BY <1>1, <1>2, <1>3 DEF WbShape
-----------------------------------------------------------------------------
(***************************************************************************)
(* The interval of the ingestion poll.                                     *)
(***************************************************************************)
WatchInv == TimerInv /\ NoTimerLeaks /\ SoleRunIsWatched

\* A step that leaves the interval alone.
LEMMA WatchKept ==
  ASSUME WatchInv, timers' = timers, page'.timer = page.timer, hist'.started = hist.started,
         hist.seen \subseteq hist'.seen, hist.unpolled => hist'.unpolled,
         PollsIn(net', hist.started)
  PROVE  WatchInv'
  BY DEF WatchInv, TimerInv, NoTimerLeaks, SoleRunIsWatched

\* The answer to a submission or a poll.
LEMMA WatchAnswer ==
  ASSUME WatchInv, WbShape, NetOk, NEW i \in DOMAIN net, NEW a, HearIngest(i, a) \/ HearPoll(i, a)
  PROVE  WatchInv'
<1> DEFINE q == net[i]
<1>1. Hear(i, a) /\ Hears(i, a)
  BY HearHears DEF Hear
<1>2. /\ hist'.started = IF q.what = "ingest" /\ a.ok THEN hist.started \union {a.body}
                         ELSE hist.started
      /\ hist.seen \subseteq hist'.seen
      /\ q.what = "poll" /\ a.ok /\ a.body \in Terminal => q.arg \in hist'.seen
      /\ hist.unpolled => hist'.unpolled
      /\ q.what = "poll" /\ ~a.ok => hist'.unpolled
  BY <1>1, HearHist DEF WbShape
<1>3. PollsIn(net', hist'.started)
  <2>1. PollsIn(net, hist'.started) /\ (q.what = "ingest" /\ a.ok => a.body \in hist'.started)
    BY <1>2 DEF WatchInv, TimerInv, PollsIn
  <2> QED
    BY <1>1, <2>1, HearPolls
<1>4. q.what = "poll" => q.arg \in hist.started
  BY DEF WatchInv, TimerInv, PollsIn
<1>p. DOMAIN page = PageFields /\ "timer" \in PageFields
  BY DEF WbShape, PageFields
<1>5. CASE HearIngest(i, a) /\ a.ok
  <2>1. q.what = "ingest" /\ timers' = IntervalFor(a.body) /\ page' = [page EXCEPT !.timer = a.body]
    BY <1>5 DEF HearIngest
  <2>2. timers' = {a.body} /\ page'.timer = a.body
    BY <1>p, <2>1 DEF WatchInv, NoTimerLeaks, IntervalFor
  <2>3. a.body \in hist'.started
    BY <1>2, <1>5, <2>1
  <2>4. TimerInv' /\ NoTimerLeaks'
    BY <1>3, <2>2, <2>3 DEF TimerInv, NoTimerLeaks
  <2>5. SoleRunIsWatched'
    BY <2>2, <2>3 DEF SoleRunIsWatched
  <2> QED
    BY <2>4, <2>5 DEF WatchInv
<1>6. CASE HearIngest(i, a) /\ ~a.ok
  <2>1. timers' = timers /\ page' = page /\ hist'.started = hist.started
    BY <1>2, <1>6 DEF HearIngest
  <2> QED
    BY <1>2, <1>3, <2>1, WatchKept
<1>7. CASE HearPoll(i, a) /\ PollStops(a.ok, a.body)
  <2>1. q.what = "poll" /\ timers' = timers \ {page.timer}
    BY <1>7 DEF HearPoll
  <2>2. page'.timer = None
    <3>1. \/ page' = [page EXCEPT !.timer = None]
          \/ page' = [[page EXCEPT !.timer = None] EXCEPT !.loading = TRUE]
      BY <1>7 DEF HearPoll, Load
    <3> QED
      BY <1>p, <3>1
  <2>3. TimerInv' /\ NoTimerLeaks'
    BY <1>2, <1>3, <2>1 DEF WatchInv, TimerInv, NoTimerLeaks
  <2>4. SoleRunIsWatched'
    BY <1>2, <1>4, <1>7, <2>1 DEF SoleRunIsWatched, PollStops
  <2> QED
    BY <2>3, <2>4 DEF WatchInv
<1>8. CASE HearPoll(i, a) /\ ~PollStops(a.ok, a.body)
  <2>1. q.what = "poll" /\ timers' = timers /\ page' = page
    BY <1>8 DEF HearPoll, PollStops
  <2>2. hist'.started = hist.started
    BY <1>2, <2>1
  <2> QED
    BY <1>2, <1>3, <2>1, <2>2, WatchKept
<1> QED
  BY <1>5, <1>6, <1>7, <1>8

LEMMA WatchStep ==
  ASSUME Slots \subseteq Nat, WatchInv, WbShape, NetOk, [WorkbenchNext]_workbenchVars
  PROVE  WatchInv'
<1>p. PollsIn(net, hist.started)
  BY DEF WatchInv, TimerInv
<1>1. CASE User
  <2>1. timers' = timers /\ page'.timer = page.timer /\ Same(hist', hist, {"started", "seen", "unpolled"})
    BY <1>1, UserPage DEF WbShape, Same, PageFields, HistFields
  <2>2. PollsIn(net', hist.started)
    <3>1. CASE Idle
      BY <1>p, <3>1 DEF Idle
    <3>2. ASSUME NEW kind, NEW what, NEW arg, NEW p, Begins(kind, what, arg, p)
          PROVE  PollsIn(net', hist.started)
      BY <1>p, <3>2, StartsKeepsNet DEF Begins
    <3> QED
      BY <1>1, <3>1, <3>2, UserStarts
  <2> QED
    BY <2>1, <2>2, WatchKept DEF Same
<1>2. ASSUME NEW i \in DOMAIN net, NEW a \in Outcomes(net[i]), Hear(i, a)
      PROVE  WatchInv'
  <2>1. CASE HearIngest(i, a) \/ HearPoll(i, a)
    BY <2>1, WatchAnswer
  <2>2. CASE ~(HearIngest(i, a) \/ HearPoll(i, a))
    <3>1. net[i].what \notin {"ingest", "poll"}
      BY <1>2, <2>2 DEF Hear, HearBootstrap, HearMemories, HearTimeline, HearFallback, HearFacts,
           HearEntities, HearEdit, HearCreated, HearRecall, HearPreview, HearAccept
    <3>2. page'.timer = page.timer /\ timers' = timers
      BY <1>2, <3>1, HearPage DEF WbShape
    <3>3. hist'.started = hist.started /\ hist.seen \subseteq hist'.seen
          /\ (hist.unpolled => hist'.unpolled)
      BY <1>2, <3>1, HearHears, HearHist DEF WbShape
    <3>4. PollsIn(net', hist.started)
      BY <1>2, <1>p, <3>1, HearPolls
    <3> QED
      BY <3>2, <3>3, <3>4, WatchKept
  <2> QED
    BY <2>1, <2>2
<1>3. CASE (\E e : WorkerEnds(e)) \/ RunFrame \/ UNCHANGED workbenchVars
  <2>1. timers' = timers /\ page' = page /\ hist' = hist /\ net' = net
    BY <1>3 DEF WorkerEnds, RunFrame, workbenchVars
  <2> QED
    BY <1>p, <2>1, WatchKept
<1>4. ASSUME NEW e, PollTick(e)
      PROVE  WatchInv'
  <2>1. /\ Starts("poll", "poll", e, page) /\ e \in timers
        /\ timers' = timers /\ hist' = hist
    BY <1>4 DEF PollTick
  <2>2. "poll" \in Kinds \ {"free", "bootstrap"} /\ "poll" \in First("poll")
    BY FirstQuestions DEF Kinds, Accepts
  <2>3. e \in hist.started
    BY <2>1 DEF WatchInv, TimerInv
  <2>4. page' = page /\ PollsIn(net', hist.started)
    BY <1>p, <2>1, <2>2, <2>3, StartsKeepsNet DEF Starts
  <2> QED
    BY <2>1, <2>4, WatchKept
<1> QED
  BY <1>1, <1>2, <1>3, <1>4 DEF WorkbenchNext
-----------------------------------------------------------------------------
(***************************************************************************)
(* What an answer does to its handler: it goes on loading, ends its load,  *)
(* waits for something else or ends, or releases the review.               *)
(***************************************************************************)
\* The fields of the page that the screen shows.
Viewed == {"space", "spaces", "episode", "episodes", "timeline", "facts", "entities"}

GoesOn(i, a) ==
  LET t == net[i].task IN
  /\ tasks'[t].stage \in {"load", "fallback"}
  /\ tasks'[t].kind = tasks[t].kind
  /\ tasks[t].kind \in Accepts => /\ tasks'[t].arg = tasks[t].arg
                                 /\ (Loading(t) \/ (net[i].what = "accept" /\ a.ok))
  /\ Same(page', page, {"review", "busy"})

Finishes(i) ==
  LET t == net[i].task IN
  /\ Loading(t)
  /\ tasks'[t] = Free
  /\ \E p : /\ DOMAIN p = PageFields /\ Same(p, page, {"review", "busy"})
            /\ RenderAll(p)
            /\ page' = [Concluded(t, p) EXCEPT !.loading = FALSE]

Waits(i) ==
  LET t == net[i].task
      dated == tasks[t].kind = "asof" /\ tasks[t].stage = "first"
  IN
  /\ ~Loading(t) /\ tasks[t].kind \notin Reviews
  /\ tasks'[t].stage \notin {"load", "fallback"} /\ tasks'[t].kind \notin Reviews
  /\ Same(page', page, {"review", "busy", "loading"})
  /\ \/ tasks'[t].kind = "bootstrap"
     \/ /\ dated /\ tasks' = tasks
        /\ Same(page', page, Viewed \ {"facts"})
        /\ UNCHANGED <<screen, frames>>
     \/ /\ dated
        /\ tasks'[t].kind # "bootstrap"
        /\ Same(page', page, Viewed \ {"entities"})
        /\ RenderFacts(page')
     \/ /\ tasks[t].kind # "bootstrap" /\ ~dated
        /\ Same(page', page, Viewed)
        /\ UNCHANGED <<screen, frames>>

Releases(i, a) ==
  LET t == net[i].task IN
  /\ tasks[t].kind \in Reviews /\ ~Loading(t)
  /\ tasks'[t] = Free
  /\ Same(page', page, PageFields \ {"busy", "review"})
  /\ page'.busy = FALSE
  /\ IF net[i].what = "preview" /\ a.ok THEN page'.review = a.body ELSE page'.review = page.review
  /\ UNCHANGED <<screen, frames>>

Outcome(i, a) ==
  /\ \A u \in Slots : u # net[i].task => tasks'[u] = tasks[u]
  /\ GoesOn(i, a) \/ Finishes(i) \/ Waits(i) \/ Releases(i, a)

\* A handler that ends.
LEMMA EndStep ==
  ASSUME TaskShape(tasks), NEW t \in Slots, End(t)
  PROVE  tasks'[t] = Free /\ \A u \in Slots : u # t => tasks'[u] = tasks[u]
  BY DEF TaskShape, End

\* A load that begins, for whatever reason but the user's choice.
LEMMA LoadGoesOn ==
  ASSUME DOMAIN page = PageFields, TaskShape(tasks), NEW i, net[i].task \in Slots, NEW a, NEW n, NEW p,
         DOMAIN p = PageFields, Same(p, page, {"review", "busy"}), Load(n, net[i].task, p),
         tasks[net[i].task].kind \in Accepts => net[i].what = "accept" /\ a.ok
  PROVE  Outcome(i, a)
<1> DEFINE t == net[i].task
<1>1. page' = [p EXCEPT !.loading = TRUE] /\ Stage(t, "load")
  BY DEF Load
<1>2. /\ \A u \in Slots : u # t => tasks'[u] = tasks[u]
      /\ tasks'[t].kind = tasks[t].kind /\ tasks'[t].arg = tasks[t].arg
      /\ tasks'[t].stage = "load"
  BY <1>1, StageStep
<1>3. Same(page', page, {"review", "busy"})
  BY <1>1 DEF Same, PageFields
<1> QED
  BY <1>2, <1>3 DEF Outcome, GoesOn

\* One part of a load is in.
LEMMA JoinOutcome ==
  ASSUME DOMAIN page = PageFields, TaskShape(tasks), NEW i, net[i].task \in Slots, NEW a, NEW n, NEW p,
         DOMAIN p = PageFields, Same(p, page, {"review", "busy"}), Join(n, net[i].task, p),
         Loading(net[i].task), tasks[net[i].task].kind # "asof"
  PROVE  Outcome(i, a)
<1> DEFINE t == net[i].task
<1>1. CASE Lanes(n, t) # {}
  <2>1. page' = p /\ tasks' = tasks
    BY <1>1 DEF Join
  <2> QED
    BY <2>1 DEF Outcome, GoesOn, Loading, Same
<1>2. CASE Lanes(n, t) = {}
  <2>1. /\ RenderAll(p) /\ page' = [Concluded(t, p) EXCEPT !.loading = FALSE] /\ End(t)
    BY <1>2 DEF Join, Loaded
  <2>2. Finishes(i)
    BY <2>1, EndStep DEF Finishes
  <2> QED
    BY <2>1, <2>2, EndStep DEF Outcome
<1> QED
  BY <1>1, <1>2
\* A handler's first answers, but for the reads of an as-of date and the review.
LEMMA FirstOutcome ==
  ASSUME DOMAIN page = PageFields, TaskShape(tasks), NEW i, net[i].task \in Slots, NEW a,
         ~Loading(net[i].task),
         tasks[net[i].task].kind \notin Reviews \union {"bootstrap"},
         ~(tasks[net[i].task].kind = "asof" /\ tasks[net[i].task].stage = "first"),
         \A u \in Slots : u # net[i].task => tasks'[u] = tasks[u],
         \/ tasks'[net[i].task] = Free
         \/ /\ tasks'[net[i].task].kind \in {"create", "poll"}
            /\ tasks'[net[i].task].stage = tasks[net[i].task].stage,
         Same(page', page, Viewed \union {"review", "busy", "loading"}),
         screen' = screen, frames' = frames
  PROVE  Outcome(i, a)
<1>1. Reviews = {"accept all", "accept one", "preview"}
  BY DEF Reviews, Accepts
<1> DEFINE t == net[i].task
<1>2. tasks'[t].stage \notin {"load", "fallback"} /\ tasks'[t].kind \notin Reviews
  <2>1. CASE tasks'[t] = Free
    <3>1. tasks'[t].stage = "none" /\ tasks'[t].kind = "free"
      BY <2>1 DEF Free
    <3> QED
      BY <1>1, <3>1
  <2>2. CASE tasks'[t].kind \in {"create", "poll"} /\ tasks'[t].stage = tasks[t].stage
    BY <1>1, <2>2 DEF Loading
  <2> QED
    BY <2>1, <2>2
<1>3. Same(page', page, Viewed) /\ Same(page', page, {"review", "busy", "loading"})
  BY DEF Same
<1> QED
  BY <1>2, <1>3 DEF Outcome, Waits

LEMMA HearOutcome ==
  ASSUME DOMAIN page = PageFields, NetOk, NEW i \in DOMAIN net, NEW a, Hear(i, a)
  PROVE  Outcome(i, a)
<1> DEFINE q == net[i]
           t == net[i].task
           k == tasks[net[i].task]
           n == Leave(i)
<1>1. t \in Slots /\ TaskShape(tasks)
  BY HeardOne
<1>2. /\ k.kind \in Kinds \ {"free"} /\ k.stage \in StageOf(k.kind)
      /\ q.what \in {"principal", "workspaces"} => k.kind = "bootstrap" /\ k.stage = "none"
      /\ q.what = "spaces" => \/ k.kind = "bootstrap" /\ k.stage = "none"
                              \/ k.kind = "create" /\ k.stage = "first"
      /\ q.what = "memories" => k.stage = "load"
      /\ q.what \in {"timeline", "fallback"} => k.stage \in {"load", "fallback"}
      /\ q.what \in {"facts", "entities"} => \/ k.stage = "load" /\ k.kind # "asof"
                                             \/ k.kind = "asof" /\ k.stage = "first"
      /\ q.what \in {"remember", "forget", "create", "ingest", "poll", "preview"} =>
           k.kind = q.what /\ k.stage = "first"
      /\ q.what = "recall" => \/ k.kind = "recall" /\ k.stage = "first"
                              \/ k.kind = "asof" /\ k.stage = "recall"
      /\ q.what = "accept" => k.kind \in Accepts /\ k.stage = "first"
  BY WhoAsked DEF NetOk
<1>r. Reviews = {"accept all", "accept one", "preview"} /\ Accepts = {"accept all", "accept one"}
  BY DEF Reviews, Accepts
<1>l. k.stage \in {"load", "fallback"} => k.kind # "asof" /\ Loading(t)
  BY <1>2 DEF StageOf, Loading
<1>f. k.stage \notin {"load", "fallback"} => ~Loading(t)
  BY DEF Loading
<1> HIDE DEF q, t, k, n
<1>d. q = net[i] /\ t = net[i].task /\ k = tasks[t] /\ n = Leave(i)
  BY DEF q, t, k, n
<1>3. CASE HearBootstrap(i, a)
  <2> DEFINE p == IF q.what = "spaces" /\ a.ok THEN KnowSpaces(page, a.body) ELSE page
  <2>1. DOMAIN p = PageFields /\ Same(p, page, PageFields \ {"space", "spaces"})
    BY KnowSpacesPage DEF Same
  <2>2. k.kind = "bootstrap" /\ k.stage = "none"
    BY <1>2, <1>3, <1>d DEF HearBootstrap
  <2>3. \/ Load(n, t, p)
        \/ page' = p /\ UNCHANGED tasks
    BY <1>3, <1>d DEF HearBootstrap
  <2> HIDE DEF p
  <2>4. Same(p, page, {"review", "busy", "loading"})
    BY <2>1 DEF Same, PageFields
  <2>5. CASE Load(n, t, p)
    BY <1>1, <1>d, <1>r, <2>1, <2>2, <2>4, <2>5, LoadGoesOn DEF Same
  <2>6. CASE page' = p /\ UNCHANGED tasks
    BY <1>d, <1>f, <1>r, <2>2, <2>4, <2>6 DEF Outcome, Waits
  <2> QED
    BY <2>3, <2>5, <2>6
<1>4. CASE HearMemories(i, a) \/ HearFallback(i, a)
  <2>1. q.what \in {"memories", "fallback"}
        /\ (page' = page \/ page' = [page EXCEPT !.episodes = a.body])
        /\ (UNCHANGED tasks \/ Stage(t, "fallback") \/ Stage(t, "load"))
        /\ (q.what = "fallback" => Stage(t, "load"))
    BY <1>4, <1>d DEF HearMemories, HearFallback
  <2>2. Same(page', page, {"review", "busy"})
    BY <2>1 DEF Same, PageFields
  <2>3. Loading(t)
    BY <1>2, <1>l, <2>1
  <2>4. /\ \A u \in Slots : u # t => tasks'[u] = tasks[u]
        /\ tasks'[t].kind = k.kind /\ tasks'[t].arg = k.arg
        /\ tasks'[t].stage \in {"load", "fallback"}
    BY <1>1, <1>2, <1>d, <2>1, StageStep
  <2> QED
    BY <1>d, <2>2, <2>3, <2>4 DEF Outcome, GoesOn
<1>5. CASE HearTimeline(i, a)
  <2> DEFINE p == IF a.ok THEN [page EXCEPT !.timeline = a.body] ELSE page
  <2>1. DOMAIN p = PageFields /\ Same(p, page, {"review", "busy"})
    BY DEF Same, PageFields
  <2>2. q.what = "timeline"
        /\ \/ Join(n, t, p)
           \/ /\ page' = [p EXCEPT !.episodes = p.timeline]
              /\ (UNCHANGED tasks \/ Stage(t, "load"))
    BY <1>5, <1>d DEF HearTimeline
  <2> HIDE DEF p
  <2>3. Loading(t) /\ k.kind # "asof"
    BY <1>2, <1>l, <2>2
  <2>4. CASE Join(n, t, p)
    BY <1>1, <1>d, <2>1, <2>3, <2>4, JoinOutcome
  <2>5. CASE page' = [p EXCEPT !.episodes = p.timeline] /\ (UNCHANGED tasks \/ Stage(t, "load"))
    <3>1. Same(page', page, {"review", "busy"})
      BY <2>1, <2>5 DEF Same, PageFields
    <3>2. /\ \A u \in Slots : u # t => tasks'[u] = tasks[u]
          /\ tasks'[t].kind = k.kind /\ tasks'[t].arg = k.arg
          /\ tasks'[t].stage \in {"load", "fallback"}
      BY <1>1, <1>d, <2>3, <2>5, StageStep DEF Loading
    <3> QED
      BY <1>d, <2>3, <3>1, <3>2 DEF Outcome, GoesOn
  <2> QED
    BY <2>2, <2>4, <2>5
<1>6. CASE HearFacts(i, a)
  <2>1. /\ q.what = "facts" /\ UNCHANGED <<tasks, screen, frames>>
        /\ page' = page \/ page' = [page EXCEPT !.facts = a.body]
    BY <1>6, <1>d DEF HearFacts
  <2>2. Same(page', page, PageFields \ {"facts"})
    BY <2>1 DEF Same, PageFields
  <2>3. Same(page', page, {"review", "busy", "loading"}) /\ Same(page', page, Viewed \ {"facts"})
    BY <2>2 DEF Same, PageFields, Viewed
  <2>4. CASE k.stage = "load"
    BY <1>d, <1>l, <2>1, <2>3, <2>4 DEF Outcome, GoesOn, Same
  <2>5. CASE k.kind = "asof" /\ k.stage = "first"
    BY <1>d, <1>f, <1>r, <2>1, <2>3, <2>5 DEF Outcome, Waits
  <2> QED
    BY <1>2, <2>1, <2>4, <2>5
<1>7. CASE HearEntities(i, a)
  <2> DEFINE p == IF a.ok THEN [page EXCEPT !.entities = a.body] ELSE page
  <2>1. DOMAIN p = PageFields /\ Same(p, page, PageFields \ {"entities"})
    BY DEF Same, PageFields
  <2>2. q.what = "entities" /\ Join(n, t, p)
    BY <1>7, <1>d DEF HearEntities
  <2> HIDE DEF p
  <2>3. Same(p, page, {"review", "busy", "loading"}) /\ Same(p, page, Viewed \ {"entities"})
    BY <2>1 DEF Same, PageFields, Viewed
  <2>4. CASE k.stage = "load"
    BY <1>1, <1>d, <1>l, <2>1, <2>2, <2>3, <2>4, JoinOutcome DEF Same
  <2>5. CASE k.kind = "asof" /\ k.stage = "first"
    <3>1. Lanes(n, t) = {}
      BY <1>d, <2>5, HeardOne
    <3>2. RenderFacts(p) /\ page' = p /\ (Stage(t, "recall") \/ End(t))
      BY <1>d, <2>2, <2>5, <3>1 DEF Join, Loaded
    <3>3. /\ \A u \in Slots : u # t => tasks'[u] = tasks[u]
          /\ tasks'[t].kind \in {"asof", "free"} /\ tasks'[t].stage \in {"recall", "none"}
      BY <1>1, <1>d, <2>5, <3>2, StageStep, EndStep DEF Free
    <3> QED
      BY <1>d, <1>f, <1>r, <2>3, <2>5, <3>2, <3>3 DEF Outcome, Waits
  <2> QED
    BY <1>2, <2>2, <2>4, <2>5
<1>8. CASE HearEdit(i, a) \/ HearPoll(i, a)
  <2>1. /\ q.what \in {"remember", "forget", "poll"}
        /\ UNCHANGED <<screen, frames>>
        /\ \/ \E e : Load(n, t, [page EXCEPT !.episode = e])
           \/ Load(n, t, [page EXCEPT !.timer = None])
           \/ End(t) /\ (page' = page \/ page' = [page EXCEPT !.timer = None])
    BY <1>8, <1>d DEF HearEdit, HearPoll
  <2>2. k.kind \in {"remember", "forget", "poll"} /\ k.stage = "first"
    BY <1>2, <2>1
  <2>3. ASSUME NEW p, Load(n, t, p), DOMAIN p = PageFields, Same(p, page, {"review", "busy"})
        PROVE  Outcome(i, a)
    BY <1>1, <1>d, <1>r, <2>2, <2>3, LoadGoesOn
  <2>4. /\ \A e : /\ DOMAIN [page EXCEPT !.episode = e] = PageFields
                  /\ Same([page EXCEPT !.episode = e], page, {"review", "busy"})
        /\ DOMAIN [page EXCEPT !.timer = None] = PageFields
        /\ Same([page EXCEPT !.timer = None], page, {"review", "busy"})
    BY DEF Same, PageFields
  <2>5. CASE End(t) /\ (page' = page \/ page' = [page EXCEPT !.timer = None])
    <3>1. Same(page', page, Viewed \union {"review", "busy", "loading"})
      BY <2>5 DEF Same, PageFields, Viewed
    <3>2. tasks'[t] = Free /\ \A u \in Slots : u # t => tasks'[u] = tasks[u]
      BY <1>1, <2>5, EndStep
    <3>3. ~Loading(t) /\ k.kind \notin Reviews \union {"bootstrap", "asof"}
      BY <1>f, <1>r, <2>2
    <3> QED
      BY <1>1, <1>d, <2>1, <3>1, <3>2, <3>3, FirstOutcome
  <2> QED
    BY <2>1, <2>3, <2>4, <2>5
<1>9. CASE HearCreated(i, a)
  <2>1. CASE q.what = "create"
    <3>1. /\ UNCHANGED <<page, screen, frames>>
          /\ tasks' = [tasks EXCEPT ![t].arg = a.body] \/ End(t)
      BY <1>9, <1>d, <2>1 DEF HearCreated
    <3>2. k.kind = "create" /\ k.stage = "first"
      BY <1>2, <2>1
    <3>3. /\ \A u \in Slots : u # t => tasks'[u] = tasks[u]
          /\ tasks'[t] = Free \/ (tasks'[t].kind = "create" /\ tasks'[t].stage = k.stage)
      BY <1>1, <1>d, <3>1, <3>2, EndStep DEF TaskShape
    <3> QED
      BY <1>1, <1>d, <1>f, <1>r, <3>1, <3>2, <3>3, FirstOutcome DEF Same
  <2>2. CASE q.what = "spaces" /\ k.kind = "create"
    <3> DEFINE p == IF a.ok THEN KnowSpaces(page, a.body) ELSE page
               s == SelectedIn(p, k.arg)
    <3>1. DOMAIN p = PageFields /\ Same(p, page, PageFields \ {"space", "spaces"})
      BY KnowSpacesPage DEF Same
    <3>2. Load(n, t, s)
      BY <1>9, <1>d, <2>2 DEF HearCreated
    <3>3. DOMAIN s = PageFields /\ Same(s, page, {"review", "busy"})
      <4> HIDE DEF p
      <4> QED
        BY <3>1 DEF Same, PageFields, SelectedIn
    <3> HIDE DEF s
    <3> QED
      BY <1>1, <1>d, <1>r, <2>2, <3>2, <3>3, LoadGoesOn
  <2> QED
    BY <1>9, <1>d, <2>1, <2>2 DEF HearCreated
<1>10. CASE HearRecall(i, a)
  <2> DEFINE receipts == {f[2] : f \in a.body.facts} \union a.body.memories
  <2>1. /\ q.what = "recall" /\ UNCHANGED <<screen, frames>> /\ End(t)
        /\ \/ page' = page
           \/ page' = [page EXCEPT !.receipts = receipts, !.glow = a.body.facts, !.asked = TRUE]
    BY <1>10, <1>d DEF HearRecall
  <2> HIDE DEF receipts
  <2>2. Same(page', page, Viewed \union {"review", "busy", "loading"})
    BY <2>1 DEF Same, PageFields, Viewed
  <2>3. tasks'[t] = Free /\ \A u \in Slots : u # t => tasks'[u] = tasks[u]
    BY <1>1, <2>1, EndStep
  <2>4. ~Loading(t) /\ k.kind \notin Reviews \union {"bootstrap"} /\ k.stage \in {"first", "recall"}
        /\ (k.kind = "asof" => k.stage = "recall")
    BY <1>2, <1>f, <1>r, <2>1
  <2> QED
    BY <1>1, <1>d, <2>1, <2>2, <2>3, <2>4, FirstOutcome
<1>11. CASE HearIngest(i, a)
  <2>1. /\ q.what = "ingest" /\ UNCHANGED <<screen, frames>>
        /\ page' = page \/ page' = [page EXCEPT !.timer = a.body]
        /\ tasks' = [tasks EXCEPT ![t].kind = "poll"] \/ End(t)
    BY <1>11, <1>d DEF HearIngest
  <2>2. Same(page', page, Viewed \union {"review", "busy", "loading"})
    BY <2>1 DEF Same, PageFields, Viewed
  <2>3. /\ \A u \in Slots : u # t => tasks'[u] = tasks[u]
        /\ tasks'[t] = Free \/ (tasks'[t].kind = "poll" /\ tasks'[t].stage = k.stage)
    BY <1>1, <1>d, <2>1, EndStep DEF TaskShape
  <2>4. ~Loading(t) /\ k.kind \notin Reviews \union {"bootstrap", "asof"}
    BY <1>2, <1>f, <1>r, <2>1
  <2> QED
    BY <1>1, <1>d, <2>1, <2>2, <2>3, <2>4, FirstOutcome
<1>12. CASE HearPreview(i, a)
  <2>1. /\ q.what = "preview" /\ UNCHANGED <<screen, frames>> /\ End(t)
        /\ page' = [page EXCEPT !.busy = FALSE, !.review = IF a.ok THEN a.body ELSE @]
    BY <1>12, <1>d DEF HearPreview
  <2>2. /\ Same(page', page, PageFields \ {"busy", "review"}) /\ page'.busy = FALSE
        /\ IF a.ok THEN page'.review = a.body ELSE page'.review = page.review
    BY <2>1 DEF Same, PageFields
  <2>3. tasks'[t] = Free /\ \A u \in Slots : u # t => tasks'[u] = tasks[u]
    BY <1>1, <2>1, EndStep
  <2> QED
    BY <1>2, <1>d, <1>f, <1>r, <2>1, <2>2, <2>3 DEF Outcome, Releases
<1>13. CASE HearAccept(i, a)
  <2>1. /\ q.what = "accept" /\ UNCHANGED <<screen, frames>>
        /\ IF a.ok THEN Load(n, t, page) ELSE End(t) /\ page' = [page EXCEPT !.busy = FALSE]
    BY <1>13, <1>d DEF HearAccept
  <2>2. CASE a.ok
    BY <1>1, <1>d, <2>1, <2>2, LoadGoesOn DEF Same
  <2>3. CASE ~a.ok
    <3>1. /\ Same(page', page, PageFields \ {"busy", "review"}) /\ page'.busy = FALSE
          /\ page'.review = page.review
      BY <2>1, <2>3 DEF Same, PageFields
    <3>2. tasks'[t] = Free /\ \A u \in Slots : u # t => tasks'[u] = tasks[u]
      BY <1>1, <2>1, <2>3, EndStep
    <3> QED
      BY <1>2, <1>d, <1>f, <1>r, <2>1, <2>3, <3>1, <3>2 DEF Outcome, Releases
  <2> QED
    BY <2>2, <2>3
<1> QED
  BY <1>3, <1>4, <1>5, <1>6, <1>7, <1>8, <1>9, <1>10, <1>11, <1>12, <1>13 DEF Hear-----------------------------------------------------------------------------
(***************************************************************************)
(* The locks and the proposals.                                            *)
(***************************************************************************)
\* A click that starts no handler, and one that starts a handler at t.
Stays ==
  /\ tasks' = tasks
  /\ Same(page', page, {"busy", "loading"})
  /\ \/ page'.review = page.review /\ hist' = hist
     \/ /\ ~page.busy
        /\ \E items : /\ page'.review = page.review \ items
                     /\ hist' = [hist EXCEPT !.settled = @ \union items]

Enters(t) ==
  /\ tasks[t] = Free /\ \A u \in Slots : u # t => tasks'[u] = tasks[u]
  /\ page'.review = page.review /\ hist' = hist
  /\ \/ /\ tasks'[t].kind \notin Reviews
        /\ page'.busy = page.busy
        /\ page'.loading = page.loading \/ tasks'[t].stage = "load"
     \/ /\ tasks'[t].kind \in Reviews
        /\ ~page.busy
        /\ page'.busy = TRUE /\ page'.loading = page.loading
        /\ tasks'[t].stage = "first"
        /\ tasks'[t].kind = "accept all" => tasks'[t].arg = page.review

LEMMA UserReviews ==
  ASSUME Slots \subseteq Nat, TaskShape(tasks), DOMAIN page = PageFields, User
  PROVE  Stays \/ \E t \in Slots : Enters(t)
<1>r. Reviews = {"accept all", "accept one", "preview"} /\ Accepts = {"accept all", "accept one"}
  BY DEF Reviews, Accepts
<1>0. ASSUME NEW kind, kind \notin Reviews, NEW what, NEW arg, NEW p, Starts(kind, what, arg, p),
             p.review = page.review, p.busy = page.busy, hist' = hist,
             p.loading = page.loading \/ kind = "load"
      PROVE  \E t \in Slots : Enters(t)
  <2>1. Enters(FirstFree) /\ FirstFree \in Slots
    BY <1>0, StartsWhere DEF Enters
  <2> QED
    BY <2>1
<1>1. ASSUME NEW s, SelectSpace(s)
      PROVE  \E t \in Slots : Enters(t)
  <2> DEFINE p == [SelectedIn(page, s) EXCEPT !.loading = TRUE]
  <2>1. Starts("load", "memories", None, p) /\ hist' = hist
    BY <1>1 DEF SelectSpace
  <2>2. p.review = page.review /\ p.busy = page.busy
    BY DEF SelectedIn, PageFields
  <2> HIDE DEF p
  <2> QED
    BY <1>0, <1>r, <2>1, <2>2
<1>2. CASE Submit \/ \E mode : ForgetSelected(mode)
  <2>1. /\ hist' = hist
        /\ \E kind \in {"remember", "ingest", "create", "recall", "forget"} :
             \E what, arg : Starts(kind, what, arg, page)
    BY <1>2 DEF Submit, ForgetSelected
  <2> QED
    BY <1>0, <1>r, <2>1
<1>3. ASSUME NEW e, SelectEpisode(e) \/ InspectEpisode(e) \/ SelectEdge(e)
      PROVE  Stays
  <2>1. hist' = hist /\ tasks' = tasks /\ \E d : page' = [page EXCEPT !.episode = d]
    BY <1>3 DEF SelectEpisode, InspectEpisode, SelectEdge, Idle
  <2> QED
    BY <2>1 DEF Stays, Same, PageFields
<1>4. ASSUME NEW date, ChangeAsOf(date)
      PROVE  \E t \in Slots : Enters(t)
  <2> DEFINE p == [page EXCEPT !.asOf = date]
  <2>1. Starts("asof", "facts", date, p) /\ hist' = hist
    BY <1>4 DEF ChangeAsOf
  <2>2. p.review = page.review /\ p.busy = page.busy /\ p.loading = page.loading
    BY DEF PageFields
  <2> HIDE DEF p
  <2> QED
    BY <1>0, <1>r, <2>1, <2>2
<1>5. CASE PreviewExtract
  <2> DEFINE p == [page EXCEPT !.busy = TRUE, !.glow = {}]
  <2>1. Starts("preview", "preview", None, p) /\ hist' = hist /\ ~page.busy
    BY <1>5 DEF PreviewExtract, MayReview
  <2>2. p.review = page.review /\ p.busy = TRUE /\ p.loading = page.loading
    BY DEF PageFields
  <2> HIDE DEF p
  <2>3. /\ FirstFree \in Slots /\ tasks[FirstFree] = Free
        /\ \A u \in Slots : u # FirstFree => tasks'[u] = tasks[u]
        /\ tasks'[FirstFree].kind = "preview" /\ tasks'[FirstFree].stage = "first"
        /\ page' = p
    BY <2>1, StartsWhere
  <2>4. Enters(FirstFree)
    BY <1>r, <2>1, <2>2, <2>3 DEF Enters
  <2> QED
    BY <2>3, <2>4
<1>6. ASSUME NEW kind \in {"accept all", "accept one"}, NEW items, Accept(kind, items)
      PROVE  \E t \in Slots : Enters(t)
  <2> DEFINE p == [page EXCEPT !.busy = TRUE]
  <2>1. /\ Starts(kind, "accept", items, p) /\ hist' = hist /\ ~page.busy
        /\ kind = "accept all" => items = page.review
    BY <1>6 DEF Accept, MayReview
  <2>2. p.review = page.review /\ p.busy = TRUE /\ p.loading = page.loading
    BY DEF PageFields
  <2> HIDE DEF p
  <2>3. kind \in Reviews /\ kind \in Accepts /\ kind # "load"
    BY <1>r, <1>6
  <2>4. /\ FirstFree \in Slots /\ tasks[FirstFree] = Free
        /\ \A u \in Slots : u # FirstFree => tasks'[u] = tasks[u]
        /\ tasks'[FirstFree].kind = kind /\ tasks'[FirstFree].stage = "first"
        /\ tasks'[FirstFree].arg = items /\ page' = p
    BY <2>1, <2>3, StartsWhere
  <2>5. Enters(FirstFree)
    BY <2>1, <2>2, <2>3, <2>4 DEF Enters
  <2> QED
    BY <2>4, <2>5
<1>7. ASSUME NEW items, Skip(items)
      PROVE  Stays
  <2>1. /\ page' = [page EXCEPT !.review = @ \ items] /\ ~page.busy /\ tasks' = tasks
        /\ hist' = [hist EXCEPT !.settled = @ \union items]
    BY <1>7 DEF Skip, MayReview, Idle
  <2> QED
    BY <2>1 DEF Stays, Same, PageFields
<1> QED
  BY <1>1, <1>2, <1>3, <1>4, <1>5, <1>6, <1>7 DEF User

\* The lock has one owner, whatever step is taken.
LEMMA LockStep ==
  ASSUME Slots \subseteq Nat, LockInv, WbShape, NetOk, [WorkbenchNext]_workbenchVars
  PROVE  LockInv'
<1>1. CASE User
  <2>1. CASE Stays
    BY <2>1 DEF Stays, LockInv, Same, Reviewing, Loading
  <2>2. ASSUME NEW t \in Slots, Enters(t)
        PROVE  LockInv'
    <3>f. ~Reviewing(t) /\ ~Loading(t)
      <4>1. tasks[t] = Free
        BY <2>2 DEF Enters
      <4>2. tasks[t].kind = "free" /\ tasks[t].stage = "none"
        BY <4>1 DEF Free
      <4> QED
        BY <4>2 DEF Reviewing, Loading, Reviews, Accepts
    <3>1. CASE tasks'[t].kind \notin Reviews
      <4>1. page'.busy = page.busy /\ \A u \in Slots : Reviewing(u)' <=> Reviewing(u)
        BY <2>2, <3>1, <3>f DEF Enters, Reviewing
      <4>2. page'.loading => \E u \in Slots : Loading(u)'
        BY <2>2, <3>1, <3>f DEF Enters, Loading, LockInv
      <4> QED
        BY <4>1, <4>2 DEF LockInv
    <3>2. CASE tasks'[t].kind \in Reviews
      <4>1. /\ ~page.busy /\ page'.busy = TRUE
            /\ Reviewing(t)' /\ \A u \in Slots : u # t => (Reviewing(u)' <=> Reviewing(u))
        BY <2>2, <3>2 DEF Enters, Reviewing
      <4>2. \A u \in Slots : ~Reviewing(u)
        BY <4>1 DEF LockInv
      <4>3. page'.loading => \E u \in Slots : Loading(u)'
        BY <2>2, <3>2, <3>f DEF Enters, Loading, LockInv
      <4> QED
        BY <4>1, <4>2, <4>3 DEF LockInv
    <3> QED
      BY <3>1, <3>2
  <2> QED
    BY <1>1, <2>1, <2>2, UserReviews DEF WbShape, NetOk
<1>2. ASSUME NEW i \in DOMAIN net, NEW a, Hear(i, a)
      PROVE  LockInv'
  <2>t. PICK t : t = net[i].task
    OBVIOUS
  <2>1. t \in Slots /\ Outcome(i, a)
    BY <1>2, <2>t, HearOutcome, HeardOne DEF WbShape
  <2>2. \A u \in Slots : u # t => (Reviewing(u)' <=> Reviewing(u)) /\ (Loading(u)' <=> Loading(u))
    BY <2>t, <2>1 DEF Outcome, Reviewing, Loading
  <2>3. CASE GoesOn(i, a)
    <3>1. /\ Loading(t)' /\ (Reviewing(t)' <=> Reviewing(t)) /\ page'.busy = page.busy
      BY <2>t, <2>3 DEF GoesOn, Loading, Reviewing, Same
    <3> QED
      BY <2>1, <2>2, <3>1 DEF LockInv
  <2>f. tasks'[t] = Free => ~Reviewing(t)'
    <3>1. Free.kind = "free"
      BY DEF Free
    <3> QED
      BY <3>1 DEF Reviewing, Reviews, Accepts
  <2>4. CASE Finishes(i)
    <3>1. PICK p : /\ DOMAIN p = PageFields /\ Same(p, page, {"review", "busy"})
                   /\ page' = [Concluded(t, p) EXCEPT !.loading = FALSE]
      BY <2>t, <2>4 DEF Finishes
    <3>2. /\ page'.loading = FALSE
          /\ tasks[t].kind \notin Accepts => page'.busy = p.busy
          /\ tasks[t].kind \in Accepts => page'.busy = FALSE
      BY <3>1, ConcludedPage DEF Accepts
    <3>3. tasks'[t] = Free /\ Loading(t) /\ p.busy = page.busy
      BY <2>t, <2>4, <3>1 DEF Finishes, Same
    <3>4. tasks[t].kind # "preview"
      <4>1. tasks[t].stage \in StageOf(tasks[t].kind)
        BY <2>1 DEF NetOk, TaskInv
      <4> QED
        BY <3>3, <4>1 DEF StageOf, Loading
    <3>5. CASE tasks[t].kind \in Accepts
      <4>1. Reviewing(t)
        BY <3>5 DEF Reviewing, Reviews
      <4> QED
        BY <2>1, <2>2, <2>f, <3>2, <3>3, <3>5, <4>1 DEF LockInv
    <3>6. CASE tasks[t].kind \notin Accepts
      <4>1. ~Reviewing(t)
        BY <3>4, <3>6 DEF Reviewing, Reviews
      <4> QED
        BY <2>1, <2>2, <2>f, <3>2, <3>3, <3>6, <4>1 DEF LockInv
    <3> QED
      BY <3>5, <3>6
  <2>5. CASE Waits(i)
    <3>1. /\ ~Reviewing(t) /\ ~Reviewing(t)' /\ ~Loading(t) /\ ~Loading(t)'
          /\ page'.busy = page.busy /\ page'.loading = page.loading
      BY <2>t, <2>5 DEF Waits, Reviewing, Loading, Same
    <3> QED
      BY <2>1, <2>2, <3>1 DEF LockInv
  <2>6. CASE Releases(i, a)
    <3>1. /\ Reviewing(t) /\ tasks'[t] = Free /\ ~Loading(t)
          /\ page'.busy = FALSE /\ page'.loading = page.loading
      BY <2>t, <2>6 DEF Releases, Reviewing, Same, PageFields
    <3> QED
      BY <2>1, <2>2, <2>f, <3>1 DEF LockInv
  <2> QED
    BY <2>1, <2>3, <2>4, <2>5, <2>6 DEF Outcome
<1>3. CASE (\E e : WorkerEnds(e)) \/ RunFrame \/ UNCHANGED workbenchVars
  <2>1. page' = page /\ tasks' = tasks
    BY <1>3 DEF WorkerEnds, RunFrame, workbenchVars
  <2> QED
    BY <2>1 DEF LockInv, Reviewing, Loading
<1>4. ASSUME NEW e, PollTick(e)
      PROVE  LockInv'
  <2>1. Starts("poll", "poll", e, page)
    BY <1>4 DEF PollTick
  <2>2. /\ FirstFree \in Slots /\ tasks[FirstFree] = Free
        /\ \A u \in Slots : u # FirstFree => tasks'[u] = tasks[u]
        /\ tasks'[FirstFree].kind = "poll" /\ page' = page
    BY <2>1, StartsWhere DEF NetOk
  <2>3. tasks[FirstFree].kind = "free" /\ tasks[FirstFree].stage = "none"
    BY <2>2 DEF Free
  <2>4. /\ \A u \in Slots : Reviewing(u)' <=> Reviewing(u)
        /\ \A u \in Slots : Loading(u) => Loading(u)'
    BY <2>2, <2>3 DEF Reviewing, Loading, Reviews, Accepts
  <2> QED
    BY <2>2, <2>4 DEF LockInv
<1> QED
  BY <1>1, <1>2, <1>3, <1>4 DEF WorkbenchNext
\* A proposal that leaves the review is settled, whatever step is taken.
LEMMA ReviewStep ==
  ASSUME Slots \subseteq Nat, ReviewInv, NoProposalIsLost, LockInv, WbShape, NetOk, NetOk',
         [WorkbenchNext]_workbenchVars
  PROVE  ReviewInv' /\ NoProposalIsLost'
<1>r. \A u : tasks[u].kind \in Accepts => Reviewing(u)
  BY DEF Reviewing, Reviews
<1>f. Free.kind \notin Accepts
  <2>1. Free.kind = "free"
    BY DEF Free
  <2> QED
    BY <2>1 DEF Accepts
<1>1. CASE User
  <2>1. CASE Stays
    <3>1. CASE page'.review = page.review /\ hist' = hist
      BY <2>1, <3>1 DEF Stays, ReviewInv, NoProposalIsLost, Loading
    <3>2. ASSUME ~page.busy, NEW items, page'.review = page.review \ items,
                 hist' = [hist EXCEPT !.settled = @ \union items]
          PROVE  ReviewInv' /\ NoProposalIsLost'
      <4>1. hist'.offered = hist.offered /\ hist'.settled = hist.settled \union items
        BY <3>2 DEF WbShape, HistFields
      <4>2. \A u \in Slots : tasks'[u].kind \notin Accepts
        BY <1>r, <2>1, <3>2 DEF Stays, LockInv
      <4>3. ReviewInv'
        BY <4>2 DEF ReviewInv
      <4> QED
        BY <3>2, <4>1, <4>3 DEF NoProposalIsLost
    <3> QED
      BY <2>1, <3>1, <3>2 DEF Stays
  <2>2. ASSUME NEW t \in Slots, Enters(t)
        PROVE  ReviewInv' /\ NoProposalIsLost'
    <3>1. page'.review = page.review /\ hist' = hist /\ \A u \in Slots : u # t => tasks'[u] = tasks[u]
      BY <2>2 DEF Enters
    <3>2. /\ tasks'[t].kind \in Accepts => ~Loading(t)'
          /\ tasks'[t].kind = "accept all" => tasks'[t].arg = page.review
      BY <2>2 DEF Enters, Loading, Reviews, Accepts
    <3>3. ASSUME NEW u \in Slots, tasks'[u].kind \in Accepts
          PROVE  /\ tasks'[u].kind = "accept all" => page'.review = tasks'[u].arg
                 /\ Loading(u)' => tasks'[u].arg \subseteq hist'.settled
      <4>1. CASE u = t
        BY <3>1, <3>2, <3>3, <4>1
      <4>2. CASE u # t
        BY <3>1, <3>3, <4>2 DEF ReviewInv, Loading
      <4> QED
        BY <4>1, <4>2
    <3>4. ReviewInv'
      BY <3>3 DEF ReviewInv
    <3> QED
      BY <3>1, <3>4 DEF NoProposalIsLost
  <2> QED
    BY <1>1, <2>1, <2>2, UserReviews DEF WbShape, NetOk
<1>2. ASSUME NEW i \in DOMAIN net, NEW a \in Outcomes(net[i]), Hear(i, a)
      PROVE  ReviewInv' /\ NoProposalIsLost'
  <2>t. PICK t : t = net[i].task
    OBVIOUS
  <2>q. PICK q : q = net[i]
    OBVIOUS
  <2>1. t \in Slots /\ Outcome(i, a)
    BY <1>2, <2>t, HearOutcome, HeardOne DEF WbShape
  <2>2. /\ q.what = "preview" => tasks[t].kind = "preview" /\ ~Loading(t)
        /\ q.what = "accept" => q.arg = tasks[t].arg
    BY <2>t, <2>q, WhoAsked DEF NetOk, Loading
  <2>3. /\ q.what = "preview" /\ a.ok => hist'.offered = a.body /\ hist'.settled = {}
        /\ ~(q.what = "preview" /\ a.ok) =>
             hist'.offered = hist.offered /\ hist.settled \subseteq hist'.settled
        /\ q.what = "accept" /\ {<<q.space, e>> : e \in q.arg} \subseteq a.server.active
             => q.arg \subseteq hist'.settled
    BY <1>2, <2>q, HearHears, HearHist DEF WbShape
  <2>4. q.what = "accept" /\ a.ok => q.arg \subseteq hist'.settled
    <3>1. q.what = "accept" /\ a.ok => {<<q.space, e>> : e \in q.arg} \subseteq a.server.active
      BY <2>q, OutcomeServer DEF WbShape
    <3> QED
      BY <2>3, <3>1
  <2>5. \A u \in Slots : u # t => tasks'[u] = tasks[u]
    BY <2>t, <2>1 DEF Outcome
  <2>6. CASE GoesOn(i, a)
    <3>1. /\ tasks'[t].kind = tasks[t].kind /\ tasks'[t].stage \in {"load", "fallback"}
          /\ tasks[t].kind \in Accepts => /\ tasks'[t].arg = tasks[t].arg
                                         /\ (Loading(t) \/ (q.what = "accept" /\ a.ok))
          /\ page'.review = page.review
      BY <2>t, <2>q, <2>6 DEF GoesOn, Same
    <3>2. q.what # "preview"
      <4>1. tasks'[t].stage \in StageOf(tasks'[t].kind)
        BY <2>1 DEF NetOk, TaskInv
      <4> QED
        BY <2>2, <3>1, <4>1 DEF StageOf
    <3>3. hist'.offered = hist.offered /\ hist.settled \subseteq hist'.settled
      BY <2>3, <3>2
    <3>4. tasks[t].kind \in Accepts => tasks[t].arg \subseteq hist'.settled
      BY <2>1, <2>2, <2>4, <3>1, <3>3 DEF ReviewInv
    <3>5. ASSUME NEW u \in Slots, tasks'[u].kind \in Accepts
          PROVE  /\ tasks'[u].kind = "accept all" => page'.review = tasks'[u].arg
                 /\ Loading(u)' => tasks'[u].arg \subseteq hist'.settled
      <4>1. CASE u = t
        <5>1. tasks[t].kind \in Accepts /\ tasks'[u].arg = tasks[t].arg
          BY <3>1, <3>5, <4>1
        <5>2. tasks'[u].kind = "accept all" => page.review = tasks[t].arg
          BY <2>1, <3>1, <4>1, <5>1 DEF ReviewInv
        <5> QED
          BY <3>1, <3>4, <5>1, <5>2
      <4>2. CASE u # t
        BY <2>5, <3>1, <3>3, <3>5, <4>2 DEF ReviewInv, Loading
      <4> QED
        BY <4>1, <4>2
    <3>6. ReviewInv'
      BY <3>5 DEF ReviewInv
    <3> QED
      BY <3>1, <3>3, <3>6 DEF NoProposalIsLost
  <2>7. CASE Finishes(i)
    <3>1. PICK p : /\ DOMAIN p = PageFields /\ Same(p, page, {"review", "busy"})
                   /\ page' = [Concluded(t, p) EXCEPT !.loading = FALSE]
      BY <2>t, <2>7 DEF Finishes
    <3>2. /\ tasks[t].kind \notin Accepts => page'.review = page.review
          /\ tasks[t].kind = "accept all" => page'.review = {}
          /\ tasks[t].kind = "accept one" => page'.review = page.review \ tasks[t].arg
      BY <3>1, ConcludedPage DEF Same
    <3>3. tasks'[t] = Free /\ Loading(t)
      BY <2>t, <2>7 DEF Finishes
    <3>4. hist'.offered = hist.offered /\ hist.settled \subseteq hist'.settled
      BY <2>2, <2>3, <3>3
    <3>5. CASE tasks[t].kind \in Accepts
      <4>1. \A u \in Slots : tasks'[u].kind \notin Accepts
        BY <1>r, <1>f, <2>1, <2>5, <3>3, <3>5 DEF LockInv
      <4>2. ReviewInv'
        BY <4>1 DEF ReviewInv
      <4>3. /\ tasks[t].arg \subseteq hist.settled
            /\ tasks[t].kind = "accept all" => page.review = tasks[t].arg
        BY <2>1, <3>3, <3>5 DEF ReviewInv
      <4>4. page'.review \subseteq page.review /\ page.review \ page'.review \subseteq tasks[t].arg
        BY <3>2, <3>5, <4>3 DEF Accepts
      <4> QED
        BY <3>4, <4>2, <4>3, <4>4 DEF NoProposalIsLost
    <3>6. CASE tasks[t].kind \notin Accepts
      <4>1. ReviewInv'
        BY <1>f, <2>1, <2>5, <3>2, <3>3, <3>4, <3>6 DEF ReviewInv, Loading
      <4> QED
        BY <3>2, <3>4, <3>6, <4>1 DEF NoProposalIsLost
    <3> QED
      BY <3>5, <3>6
  <2>8. CASE Waits(i)
    <3>1. tasks[t].kind \notin Reviews /\ tasks'[t].kind \notin Reviews /\ page'.review = page.review
      BY <2>t, <2>8 DEF Waits, Same
    <3>2. hist'.offered = hist.offered /\ hist.settled \subseteq hist'.settled
      BY <2>2, <2>3, <3>1 DEF Reviews
    <3>3. ReviewInv'
      BY <2>1, <2>5, <3>1, <3>2 DEF ReviewInv, Loading, Reviews
    <3> QED
      BY <3>1, <3>2, <3>3 DEF NoProposalIsLost
  <2>9. CASE Releases(i, a)
    <3>1. /\ Reviewing(t) /\ tasks'[t] = Free
          /\ IF q.what = "preview" /\ a.ok THEN page'.review = a.body ELSE page'.review = page.review
      BY <2>t, <2>q, <2>9 DEF Releases, Reviewing
    <3>2. \A u \in Slots : tasks'[u].kind \notin Accepts
      BY <1>r, <1>f, <2>1, <2>5, <3>1 DEF LockInv
    <3>3. ReviewInv'
      BY <3>2 DEF ReviewInv
    <3> QED
      BY <2>3, <3>1, <3>3 DEF NoProposalIsLost
  <2> QED
    BY <2>1, <2>6, <2>7, <2>8, <2>9 DEF Outcome
<1>3. CASE (\E e : WorkerEnds(e)) \/ RunFrame \/ UNCHANGED workbenchVars
  <2>1. page' = page /\ tasks' = tasks /\ hist' = hist
    BY <1>3 DEF WorkerEnds, RunFrame, workbenchVars
  <2> QED
    BY <2>1 DEF ReviewInv, NoProposalIsLost, Loading
<1>4. ASSUME NEW e, PollTick(e)
      PROVE  ReviewInv' /\ NoProposalIsLost'
  <2>1. Starts("poll", "poll", e, page) /\ hist' = hist
    BY <1>4 DEF PollTick
  <2>2. /\ \A u \in Slots : u # FirstFree => tasks'[u] = tasks[u]
        /\ tasks'[FirstFree].kind = "poll" /\ page' = page
    BY <2>1, StartsWhere DEF NetOk
  <2>3. "poll" \notin Accepts
    BY DEF Accepts
  <2> QED
    BY <2>1, <2>2, <2>3 DEF ReviewInv, NoProposalIsLost, Loading
<1> QED
  BY <1>1, <1>2, <1>3, <1>4 DEF WorkbenchNext
-----------------------------------------------------------------------------
(***************************************************************************)
(* The screen.                                                             *)
(***************************************************************************)
\* Pages with the same facts, lists and selection look the same.
LEMMA SameView ==
  ASSUME NEW p, NEW r
  PROVE  /\ Same(p, r, {"facts", "entities"}) => Graph(p) = Graph(r)
         /\ Same(p, r, {"facts", "episode", "episodes", "timeline"}) => Dossier(p) = Dossier(r)
  BY DEF Same, Graph, Dossier

\* A step that shows nothing and changes nothing shown.
LEMMA ScreenKept ==
  ASSUME ScreenInv, Same(page', page, Viewed), screen' = screen, frames' = frames,
         drawn'.edges = drawn.edges, drawn'.labels = drawn.labels,
         NoLoader' => NoLoader, NoDate' => NoDate
  PROVE  ScreenInv'
<1>1. Graph(page') = Graph(page) /\ Dossier(page') = Dossier(page)
  BY SameView DEF Same, Viewed
<1>2. ListsShown => ListsShown'
  BY DEF ListsShown, Same, Viewed
<1>3. FactsShown => FactsShown'
  BY <1>1 DEF FactsShown, Same, Viewed
<1>4. MapShown => MapShown'
  BY <1>1 DEF MapShown, Same, Viewed
<1> QED
  BY <1>2, <1>3, <1>4 DEF ScreenInv

\* Of the handlers only t changes, and it was no loader.
LEMMA LoadersKept ==
  ASSUME NEW t \in Slots, \A u \in Slots : u # t => tasks'[u] = tasks[u],
         ~Loading(t), tasks[t].kind # "bootstrap"
  PROVE  NoLoader' => NoLoader
  BY DEF NoLoader, Loading

LEMMA DatesKept ==
  ASSUME NEW t \in Slots, \A u \in Slots : u # t => tasks'[u] = tasks[u],
         ~(tasks[t].kind = "asof" /\ tasks[t].stage = "first")
  PROVE  NoDate' => NoDate
  BY DEF NoDate

\* The screen while a handler still loads.
LEMMA LoaderHides ==
  ASSUME NEW t \in Slots, Loading(t)' \/ tasks'[t].kind = "bootstrap"
  PROVE  ScreenInv'
  BY DEF ScreenInv, NoLoader

\* The lists while the facts of a date are under way.
LEMMA DateHides ==
  ASSUME ScreenInv, NEW t \in Slots, tasks'[t].kind = "asof" /\ tasks'[t].stage = "first",
         NoLoader' => NoLoader, Same(page', page, Viewed \ {"facts"}), screen' = screen
  PROVE  ScreenInv'
<1>1. ListsShown => ListsShown'
  BY DEF ListsShown, Same, Viewed
<1>2. ~NoDate'
  BY DEF NoDate
<1> QED
  BY <1>1, <1>2 DEF ScreenInv

\* What a list click shows.
LEMMA SelectedShown ==
  ASSUME ScreenInv, WbShape, NEW e, page' = [page EXCEPT !.episode = e], tasks' = tasks,
         drawn' = drawn,
         \/ screen' = Selected(page')
         \/ screen' = [Selected(page') EXCEPT !.episodes = page.episodes],
         frames' = frames \/ frames' = Append(frames, [kind |-> "paint"])
  PROVE  ScreenInv'
<1>1. /\ Same(page', page, Viewed \ {"episode"})
  BY DEF WbShape, Same, Viewed, PageFields
<1>2. /\ Same(screen', screen, {"space", "options", "facts", "hidden"})
      /\ screen'.episodes \in {screen.episodes, page.episodes}
      /\ screen'.timeline = page'.timeline
      /\ screen'.marked = {page'.episode} \intersect page'.timeline
      /\ screen'.dossier = Dossier(page')
  <2>s. PICK v : v = Selected(page')
    OBVIOUS
  <2>1. /\ ScreenShape(v)
        /\ Same(v, screen, {"space", "options", "episodes", "facts", "hidden"})
        /\ v.timeline = page'.timeline
        /\ v.marked = {page'.episode} \intersect page'.timeline
        /\ v.dossier = Dossier(page')
    BY <2>s, SelectedFields DEF WbShape
  <2>2. CASE screen' = v
    BY <2>1, <2>2 DEF Same
  <2>3. CASE screen' = [v EXCEPT !.episodes = page.episodes]
    <3>1. /\ screen'.episodes = page.episodes
          /\ \A f \in ScreenFields \ {"episodes"} : screen'[f] = v[f]
      BY <2>1, <2>3 DEF ScreenShape, ScreenFields
    <3> QED
      BY <2>1, <3>1 DEF Same, ScreenFields
  <2> QED
    BY <2>s, <2>2, <2>3
<1>3. ListsShown => ListsShown'
  BY <1>1, <1>2 DEF ListsShown, Same, Viewed
<1>4. Graph(page') = Graph(page)
  BY <1>1, SameView DEF Same, Viewed
<1>5. FactsShown => FactsShown'
  BY <1>1, <1>2, <1>4 DEF FactsShown, Same, Viewed
<1>6. MapShown => MapShown'
  <2>1. CASE frames' = frames
    BY <1>1, <1>4, <2>1 DEF MapShown, Same, Viewed
  <2>2. CASE frames' = Append(frames, [kind |-> "paint"])
    <3>1. frames' # << >> /\ frames'[Len(frames')] = [kind |-> "paint"]
      BY <2>2, AppendFrame DEF WbShape
    <3>2. frames'[Len(frames')].kind = "paint"
      BY <3>1
    <3> QED
      BY <3>1, <3>2 DEF MapShown
  <2> QED
    BY <2>1, <2>2
<1>7. (NoLoader' <=> NoLoader) /\ (NoDate' <=> NoDate)
  BY DEF NoLoader, NoDate, Loading
<1> QED
  BY <1>3, <1>5, <1>6, <1>7 DEF ScreenInv

\* What is rendered shows the page, and its map is drawn by the last frame.
LEMMA PaintedMap ==
  ASSUME IsSeq(frames), frames' = Paint(frames, page')
  PROVE  MapShown'
<1>1. PICK q, p : q = frames' /\ p = page'
  OBVIOUS
<1>2. p.facts # {} => q # << >> /\ q[Len(q)].kind = "draw" /\ q[Len(q)].graph = Graph(p)
  BY <1>1, PaintFrames
<1> QED
  BY <1>1, <1>2 DEF MapShown
\* A click.
LEMMA UserScreen ==
  ASSUME Slots \subseteq Nat, ScreenInv, WbShape, TaskShape(tasks), User
  PROVE  ScreenInv'
<1>d. drawn'.edges = drawn.edges /\ drawn'.labels = drawn.labels
  BY UserRedraws DEF WbShape
<1>f. Free.kind = "free" /\ Free.stage = "none"
  BY DEF Free
<1>k. DOMAIN page = PageFields
  BY DEF WbShape
<1>0. ASSUME NEW kind, NEW what, NEW arg, NEW p, Starts(kind, what, arg, p),
             Same(p, page, Viewed), screen' = screen, frames' = frames
      PROVE  ScreenInv'
  <2>1. PICK t \in Slots : tasks[t] = Free /\ \A u \in Slots : u # t => tasks'[u] = tasks[u]
    BY <1>0, StartsWhere
  <2>2. ~Loading(t) /\ tasks[t].kind = "free"
    BY <1>f, <2>1 DEF Loading
  <2>3. (NoLoader' => NoLoader) /\ (NoDate' => NoDate)
    BY <2>1, <2>2, LoadersKept, DatesKept
  <2>4. page' = p
    BY <1>0 DEF Starts
  <2> QED
    BY <1>0, <1>d, <2>3, <2>4, ScreenKept
<1>1. ASSUME NEW s, SelectSpace(s)
      PROVE  ScreenInv'
  <2>1. \E p : Starts("load", "memories", None, p)
    BY <1>1 DEF SelectSpace
  <2>2. FirstFree \in Slots /\ tasks'[FirstFree].stage = "load"
    BY <2>1, StartsWhere
  <2>3. PICK t \in Slots : tasks'[t].stage = "load"
    BY <2>2
  <2> QED
    BY <2>3, LoaderHides DEF Loading
<1>2. CASE Submit \/ \E mode : ForgetSelected(mode)
  <2>1. /\ screen' = screen /\ frames' = frames
        /\ \E kind, what, arg : Starts(kind, what, arg, page)
    BY <1>2 DEF Submit, ForgetSelected
  <2> QED
    BY <1>0, <2>1 DEF Same
<1>3. ASSUME NEW e, SelectEpisode(e) \/ InspectEpisode(e) \/ SelectEdge(e)
      PROVE  ScreenInv'
  <2>1. /\ tasks' = tasks /\ drawn' = drawn
        /\ \E d : page' = [page EXCEPT !.episode = d]
        /\ \/ screen' = Selected(page')
           \/ screen' = [Selected(page') EXCEPT !.episodes = page.episodes]
        /\ frames' = frames \/ frames' = Append(frames, [kind |-> "paint"])
    BY <1>3 DEF SelectEpisode, InspectEpisode, SelectEdge, Idle, Clicks
  <2> QED
    BY <2>1, SelectedShown
<1>4. ASSUME NEW date, ChangeAsOf(date)
      PROVE  ScreenInv'
  <2> DEFINE p == [page EXCEPT !.asOf = date]
  <2>1. Starts("asof", "facts", date, p) /\ screen' = screen
    BY <1>4 DEF ChangeAsOf
  <2>2. Same(p, page, Viewed \ {"facts"})
    BY <1>k DEF Same, Viewed, PageFields
  <2> HIDE DEF p
  <2>3. PICK t \in Slots : /\ tasks[t] = Free /\ \A u \in Slots : u # t => tasks'[u] = tasks[u]
                           /\ tasks'[t].kind = "asof" /\ tasks'[t].stage = "first"
    <3>1. /\ FirstFree \in Slots /\ tasks[FirstFree] = Free
          /\ \A u \in Slots : u # FirstFree => tasks'[u] = tasks[u]
          /\ tasks'[FirstFree].kind = "asof" /\ tasks'[FirstFree].stage = "first"
      BY <2>1, StartsWhere
    <3> QED
      BY <3>1
  <2>4. ~Loading(t) /\ tasks[t].kind = "free"
    BY <1>f, <2>3 DEF Loading
  <2>5. NoLoader' => NoLoader
    BY <2>3, <2>4, LoadersKept
  <2>6. page' = p
    BY <2>1 DEF Starts
  <2> QED
    BY <2>1, <2>2, <2>3, <2>5, <2>6, DateHides
<1>5. CASE PreviewExtract
  <2> DEFINE p == [page EXCEPT !.busy = TRUE, !.glow = {}]
  <2>1. Starts("preview", "preview", None, p) /\ screen' = screen /\ frames' = frames
    BY <1>5 DEF PreviewExtract
  <2>2. Same(p, page, Viewed)
    BY <1>k DEF Same, Viewed, PageFields
  <2> HIDE DEF p
  <2> QED
    BY <1>0, <2>1, <2>2
<1>6. ASSUME NEW kind, NEW items, Accept(kind, items)
      PROVE  ScreenInv'
  <2> DEFINE p == [page EXCEPT !.busy = TRUE]
  <2>1. Starts(kind, "accept", items, p) /\ screen' = screen /\ frames' = frames
    BY <1>6 DEF Accept
  <2>2. Same(p, page, Viewed)
    BY <1>k DEF Same, Viewed, PageFields
  <2> HIDE DEF p
  <2> QED
    BY <1>0, <2>1, <2>2
<1>7. ASSUME NEW items, Skip(items)
      PROVE  ScreenInv'
  <2>1. /\ page' = [page EXCEPT !.review = @ \ items] /\ tasks' = tasks
        /\ screen' = screen /\ frames' = frames
    BY <1>7 DEF Skip, Idle
  <2>2. Same(page', page, Viewed)
    BY <1>k, <2>1 DEF Same, Viewed, PageFields
  <2>3. (NoLoader' => NoLoader) /\ (NoDate' => NoDate)
    BY <2>1 DEF NoLoader, NoDate, Loading
  <2> QED
    BY <1>d, <2>1, <2>2, <2>3, ScreenKept
<1> QED
  BY <1>1, <1>2, <1>3, <1>4, <1>5, <1>6, <1>7 DEF User

\* An answer.
LEMMA HearScreen ==
  ASSUME ScreenInv, WbShape, NetOk, NEW i \in DOMAIN net, NEW a, Hear(i, a)
  PROVE  ScreenInv'
<1>t. PICK t : t = net[i].task
  OBVIOUS
<1>1. t \in Slots /\ Outcome(i, a)
  BY <1>t, HearOutcome, HeardOne DEF WbShape
<1>2. \A u \in Slots : u # t => tasks'[u] = tasks[u]
  BY <1>t, <1>1 DEF Outcome
<1>d. drawn' = drawn
  BY HearRedraws
<1>3. CASE GoesOn(i, a)
  <2>1. tasks'[t].stage \in {"load", "fallback"}
    BY <1>3, <1>t DEF GoesOn
  <2> QED
    BY <1>1, <2>1, LoaderHides DEF Loading
<1>4. CASE Finishes(i)
  <2>1. PICK p : /\ DOMAIN p = PageFields
                 /\ RenderAll(p) /\ page' = [Concluded(t, p) EXCEPT !.loading = FALSE]
    BY <1>4, <1>t DEF Finishes
  <2>2. Same(page', p, PageFields \ {"review", "busy", "loading"})
    BY <2>1, ConcludedPage
  <2>3. Same(page', p, Viewed)
    BY <2>2 DEF Same, Viewed, PageFields
  <2>4. Graph(page') = Graph(p) /\ Dossier(page') = Dossier(p)
    BY <2>3, SameView DEF Same, Viewed
  <2>5. /\ screen'.space = p.space /\ screen'.options = p.spaces
        /\ screen'.episodes = p.episodes /\ screen'.timeline = p.timeline
        /\ screen'.marked = {p.episode} \intersect p.timeline
        /\ screen'.facts = Graph(p) /\ screen'.dossier = Dossier(p)
        /\ screen'.hidden = (p.facts = {})
    BY <2>1, ViewFields DEF RenderAll
  <2>6. ListsShown' /\ FactsShown'
    BY <2>3, <2>4, <2>5 DEF ListsShown, FactsShown, Same, Viewed
  <2>7. frames' = Paint(frames, page')
    <3>1. Paint(frames, page') = Paint(frames, p)
      BY <2>3, <2>4 DEF Paint, Same, Viewed
    <3> QED
      BY <2>1, <3>1 DEF RenderAll
  <2>8. MapShown'
    BY <2>7, PaintedMap DEF WbShape
  <2> QED
    BY <2>6, <2>8 DEF ScreenInv
<1>5. CASE Waits(i)
  <2>1. ~Loading(t)
    BY <1>5, <1>t DEF Waits
  <2>2. CASE tasks'[t].kind = "bootstrap"
    BY <1>1, <2>2, LoaderHides
  <2>3. CASE /\ tasks[t].kind = "asof" /\ tasks[t].stage = "first" /\ tasks' = tasks
             /\ Same(page', page, Viewed \ {"facts"})
             /\ screen' = screen
    <3>1. NoLoader' => NoLoader
      BY <2>3 DEF NoLoader, Loading
    <3>2. tasks'[t].kind = "asof" /\ tasks'[t].stage = "first"
      BY <2>3
    <3> QED
      BY <1>1, <2>3, <3>1, <3>2, DateHides
  <2>4. CASE /\ tasks[t].kind = "asof"
             /\ Same(page', page, Viewed \ {"entities"})
             /\ RenderFacts(page')
    <3>1. NoLoader' => NoLoader
      BY <1>1, <1>2, <2>1, <2>4, LoadersKept
    <3>2. PICK p : p = page'
      OBVIOUS
    <3>3. /\ Same(screen', screen, {"options", "episodes", "timeline", "marked"})
          /\ screen'.space = p.space
          /\ screen'.facts = Graph(p) /\ screen'.dossier = Dossier(p)
          /\ screen'.hidden = (p.facts = {})
      BY <2>4, <3>2, RenderFactsFields DEF WbShape
    <3>4. ListsShown => ListsShown'
      BY <2>4, <3>2, <3>3 DEF ListsShown, Same, Viewed
    <3>5. FactsShown'
      BY <3>2, <3>3 DEF FactsShown
    <3>6. MapShown'
      BY <2>4, PaintedMap DEF RenderFacts, WbShape
    <3> QED
      BY <3>1, <3>4, <3>5, <3>6 DEF ScreenInv
  <2>5. CASE /\ tasks[t].kind # "bootstrap" /\ ~(tasks[t].kind = "asof" /\ tasks[t].stage = "first")
             /\ Same(page', page, Viewed) /\ screen' = screen /\ frames' = frames
    <3>1. (NoLoader' => NoLoader) /\ (NoDate' => NoDate)
      BY <1>1, <1>2, <2>1, <2>5, LoadersKept, DatesKept
    <3> QED
      BY <1>d, <2>5, <3>1, ScreenKept
  <2> QED
    BY <1>5, <1>t, <2>2, <2>3, <2>4, <2>5 DEF Waits
<1>6. CASE Releases(i, a)
  <2>1. /\ tasks[t].kind \in Reviews /\ ~Loading(t)
        /\ Same(page', page, PageFields \ {"busy", "review"})
        /\ screen' = screen /\ frames' = frames
    BY <1>6, <1>t DEF Releases
  <2>2. Same(page', page, Viewed)
    BY <2>1 DEF Same, Viewed, PageFields
  <2>3. tasks[t].kind # "bootstrap" /\ tasks[t].kind # "asof"
    BY <2>1 DEF Reviews, Accepts
  <2>4. (NoLoader' => NoLoader) /\ (NoDate' => NoDate)
    BY <1>1, <1>2, <2>1, <2>3, LoadersKept, DatesKept
  <2> QED
    BY <1>d, <2>1, <2>2, <2>4, ScreenKept
<1> QED
  BY <1>1, <1>3, <1>4, <1>5, <1>6 DEF Outcome

\* A frame.
LEMMA FrameScreen ==
  ASSUME ScreenInv, WbShape, RunFrame
  PROVE  ScreenInv'
<1>1. page' = page /\ tasks' = tasks /\ frames # << >>
  BY DEF RunFrame
<1>2. (NoLoader' <=> NoLoader) /\ (NoDate' <=> NoDate)
  BY <1>1 DEF NoLoader, NoDate, Loading
<1>3. CASE Head(frames).kind = "draw"
  <2>1. /\ frames' = Tail(frames) /\ screen' = screen
        /\ drawn'.edges = Head(frames).graph.edges
        /\ drawn'.labels = Head(frames).graph.labels
    BY <1>3 DEF RunFrame
  <2>2. ListsShown => ListsShown'
    BY <1>1, <2>1 DEF ListsShown
  <2>3. FactsShown => FactsShown'
    BY <1>1, <2>1 DEF FactsShown, Dossier
  <2>4. MapShown => MapShown'
    <3>1. PICK q : q = frames'
      OBVIOUS
    <3>2. /\ Head(frames) = frames[1]
          /\ q = << >> => Len(frames) = 1
          /\ q # << >> => q[Len(q)] = frames[Len(frames)]
      BY <1>1, <2>1, <3>1, TailFrames DEF WbShape
    <3>3. CASE q # << >>
      BY <1>1, <3>1, <3>2, <3>3 DEF MapShown
    <3>4. CASE q = << >>
      <4>1. ASSUME MapShown, page.facts # {}
            PROVE  drawn'.edges = page.facts /\ drawn'.labels = Graph(page).labels
        <5>1. Head(frames).graph = Graph(page)
          BY <1>1, <1>3, <3>2, <3>4, <4>1 DEF MapShown
        <5>2. Graph(page).edges = page.facts
          BY DEF Graph
        <5> QED
          BY <2>1, <5>1, <5>2
      <4> QED
        BY <1>1, <3>1, <3>4, <4>1 DEF MapShown
    <3> QED
      BY <3>3, <3>4
  <2> QED
    BY <1>2, <2>2, <2>3, <2>4 DEF ScreenInv
<1>4. CASE Head(frames).kind # "draw"
  <2>1. /\ frames' = Paint(Tail(frames), page)
        /\ screen' = [screen EXCEPT !.hidden = page.facts = {}]
        /\ drawn' = drawn
    BY <1>4 DEF RunFrame
  <2>2. /\ screen'.hidden = (page.facts = {})
        /\ \A f \in ScreenFields \ {"hidden"} : screen'[f] = screen[f]
    BY <2>1 DEF WbShape, ScreenShape, ScreenFields
  <2>3. ListsShown => ListsShown'
    BY <1>1, <2>2 DEF ListsShown, ScreenFields
  <2>4. FactsShown => FactsShown'
    BY <1>1, <2>2 DEF FactsShown, Dossier, ScreenFields
  <2>5. MapShown'
    <3>1. PICK q : q = frames'
      OBVIOUS
    <3>2. IsSeq(Tail(frames))
      BY <1>1, TailFrames DEF WbShape
    <3>3. page.facts # {} => /\ q # << >> /\ q[Len(q)].kind = "draw"
                             /\ q[Len(q)].graph = Graph(page)
      BY <2>1, <3>1, <3>2, PaintFrames
    <3> QED
      BY <1>1, <3>1, <3>3 DEF MapShown
  <2> QED
    BY <1>2, <2>3, <2>4, <2>5 DEF ScreenInv
<1> QED
  BY <1>3, <1>4

\* The screen agrees but for what a handler has yet to show.
LEMMA ScreenStep ==
  ASSUME Slots \subseteq Nat, ScreenInv, WbShape, NetOk, [WorkbenchNext]_workbenchVars
  PROVE  ScreenInv'
<1>1. CASE User
  BY <1>1, UserScreen DEF NetOk
<1>2. ASSUME NEW i \in DOMAIN net, NEW a, Hear(i, a)
      PROVE  ScreenInv'
  BY <1>2, HearScreen
<1>3. CASE RunFrame
  BY <1>3, FrameScreen
<1>4. CASE (\E e : WorkerEnds(e)) \/ UNCHANGED workbenchVars
  <2>1. /\ page' = page /\ tasks' = tasks /\ screen' = screen /\ frames' = frames
        /\ drawn' = drawn
    BY <1>4 DEF WorkerEnds, workbenchVars
  <2>2. (NoLoader' => NoLoader) /\ (NoDate' => NoDate)
    BY <2>1 DEF NoLoader, NoDate, Loading
  <2> QED
    BY <2>1, <2>2, ScreenKept DEF Same
<1>5. ASSUME NEW e, PollTick(e)
      PROVE  ScreenInv'
  <2>1. Starts("poll", "poll", e, page) /\ screen' = screen /\ frames' = frames /\ drawn' = drawn
    BY <1>5 DEF PollTick
  <2>2. PICK t \in Slots : tasks[t] = Free /\ \A u \in Slots : u # t => tasks'[u] = tasks[u]
    BY <2>1, StartsWhere DEF NetOk
  <2>3. tasks[t].kind = "free" /\ tasks[t].stage = "none"
    BY <2>2 DEF Free
  <2>4. (NoLoader' => NoLoader) /\ (NoDate' => NoDate)
    BY <2>2, <2>3, LoadersKept, DatesKept DEF Loading
  <2>5. page' = page
    BY <2>1 DEF Starts
  <2> QED
    BY <2>1, <2>4, <2>5, ScreenKept DEF Same
<1> QED
  BY <1>1, <1>2, <1>3, <1>4, <1>5 DEF WorkbenchNext
-----------------------------------------------------------------------------
(***************************************************************************)
(* The theorems.                                                           *)
(***************************************************************************)
WorkbenchInv ==
  /\ WbShape /\ NetOk /\ LockInv /\ WatchInv /\ ReviewInv /\ NoProposalIsLost /\ ScreenInv

LEMMA WorkbenchInvInit ==
  ASSUME WorkbenchInit
  PROVE  WorkbenchInv
<1>1. PICK t \in Slots :
        tasks = [u \in Slots |-> IF u = t THEN [Free EXCEPT !.kind = "bootstrap"] ELSE Free]
  BY DEF WorkbenchInit
<1>2. /\ tasks[t].kind = "bootstrap"
      /\ \A u \in Slots : tasks[u].kind \in {"bootstrap", "free"} /\ tasks[u].stage = "none"
  BY <1>1 DEF Free
<1>3. WbShape /\ NetOk
  BY ShapeInit, NetInit
<1>4. \A u \in Slots : ~Reviewing(u) /\ ~Loading(u) /\ tasks[u].kind \notin Accepts
  BY <1>2 DEF Reviewing, Loading, Reviews, Accepts
<1>5. page = EmptyPage
  BY DEF WorkbenchInit
<1>6. /\ page.busy = FALSE /\ page.loading = FALSE /\ page.timer = None /\ page.review = {}
  BY <1>5 DEF EmptyPage
<1>7. LockInv
  BY <1>4, <1>6 DEF LockInv
<1>8. timers = {} /\ hist.started = {} /\ hist.offered = {}
  BY DEF WorkbenchInit
<1>9. \A j \in DOMAIN net : net[j].what # "poll"
  BY <1>2, <1>3, WhoAsked DEF NetOk, NetInv
<1>10. WatchInv
  BY <1>8, <1>9 DEF WatchInv, TimerInv, NoTimerLeaks, SoleRunIsWatched, PollsIn
<1>11. ReviewInv /\ NoProposalIsLost
  BY <1>4, <1>6, <1>8 DEF ReviewInv, NoProposalIsLost
<1>12. ScreenInv
  BY <1>2 DEF ScreenInv, NoLoader
<1> QED
  BY <1>3, <1>7, <1>10, <1>11, <1>12 DEF WorkbenchInv

LEMMA WorkbenchInvStep ==
  ASSUME WorkbenchInv, [WorkbenchNext]_workbenchVars
  PROVE  WorkbenchInv'
<1>1. Slots \subseteq Nat
  BY WorkbenchConstants
<1>2. WbShape' /\ NetOk'
  <2>1. CASE WorkbenchNext
    BY <1>1, <2>1, NetStep, ShapeStep DEF WorkbenchInv
  <2>2. CASE UNCHANGED workbenchVars
    BY <2>2 DEF WorkbenchInv, workbenchVars, WbShape, NetOk, TaskInv
  <2> QED
    BY <2>1, <2>2
<1> QED
  BY <1>1, <1>2, LockStep, WatchStep, ReviewStep, ScreenStep DEF WorkbenchInv

\* At every moment every handler under way waits for what it asked, the lock has its
\* owner, the interval its run, the review its proposals, and the screen what the page
\* holds but for what a handler has yet to show.
THEOREM WorkbenchInvariant == WorkbenchSpec => []WorkbenchInv
<1>1. WorkbenchInit => WorkbenchInv
  BY WorkbenchInvInit
<1>2. WorkbenchInv /\ [WorkbenchNext]_workbenchVars => WorkbenchInv'
  BY WorkbenchInvStep
<1> QED
  BY <1>1, <1>2, PTL DEF WorkbenchSpec

\* stopIngestionPoll reaches the interval that runs, whatever order two submissions and
\* their polls are answered in.
THEOREM NoTimerLeaksCorrect == WorkbenchSpec => []NoTimerLeaks
<1>1. WorkbenchInv => NoTimerLeaks
  BY DEF WorkbenchInv, WatchInv
<1> QED
  BY <1>1, WorkbenchInvariant, PTL

\* A run submitted alone is watched until the page knows how it ended or a poll failed.
THEOREM SoleRunIsWatchedCorrect == WorkbenchSpec => []SoleRunIsWatched
<1>1. WorkbenchInv => SoleRunIsWatched
  BY DEF WorkbenchInv, WatchInv
<1> QED
  BY <1>1, WorkbenchInvariant, PTL

\* extractBusy is held exactly while one extraction or acceptance is under way, and the
\* shelf says "loading" only while some load is.
THEOREM LocksHaveOwnersCorrect == WorkbenchSpec => []LocksHaveOwners
<1>1. ASSUME LockInv
      PROVE  LocksHaveOwners
  <2> DEFINE kinds == {"preview", "accept all", "accept one"}
             R == {t \in Slots : tasks[t].kind \in kinds}
  <2>1. \A t : Reviewing(t) <=> tasks[t].kind \in kinds
    BY DEF Reviewing, Reviews, Accepts
  <2>2. page.busy <=> \E t \in Slots : tasks[t].kind \in kinds
    BY <1>1, <2>1 DEF LockInv
  <2>3. \A t, u \in R : t = u
    BY <1>1, <2>1 DEF LockInv
  <2> HIDE DEF R
  <2>4. Cardinality(R) <= 1
    <3>1. CASE R = {}
      BY <3>1, FS_EmptySet
    <3>2. CASE R # {}
      <4>1. PICK t : R = {t}
        BY <2>3, <3>2
      <4>2. Cardinality({t}) = 1
        BY FS_Singleton
      <4> QED
        BY <4>1, <4>2
    <3> QED
      BY <3>1, <3>2
  <2>5. page.loading => \E t \in Slots : tasks[t].stage \in {"load", "fallback"}
    BY <1>1 DEF LockInv, Loading
  <2> QED
    BY <2>2, <2>4, <2>5 DEF LocksHaveOwners, R
<1>2. WorkbenchInv => LocksHaveOwners
  BY <1>1 DEF WorkbenchInv
<1> QED
  BY <1>2, WorkbenchInvariant, PTL

\* No proposal leaves the review but skipped, recorded or replaced.
THEOREM NoProposalIsLostCorrect == WorkbenchSpec => []NoProposalIsLost
<1>1. WorkbenchInv => NoProposalIsLost
  BY DEF WorkbenchInv
<1> QED
  BY <1>1, WorkbenchInvariant, PTL

\* Once every handler has ended and every frame has run, the page shows what it holds.
THEOREM ScreenAgreesWhenQuietCorrect == WorkbenchSpec => []ScreenAgreesWhenQuiet
<1>1. ASSUME WbShape, ScreenInv, Quiet
      PROVE  /\ screen = View(page)
             /\ screen.hidden \/ (drawn.edges = page.facts /\ drawn.labels = Graph(page).labels)
  <2>1. NoLoader /\ NoDate
    <3>1. Free.kind = "free" /\ Free.stage = "none"
      BY DEF Free
    <3> QED
      BY <1>1, <3>1 DEF Quiet, NoLoader, NoDate, Loading
  <2>2. ListsShown /\ FactsShown /\ MapShown
    BY <1>1, <2>1 DEF ScreenInv
  <2>3. screen = View(page)
    <3>1. PICK v : v = View(page)
      OBVIOUS
    <3>2. /\ ScreenShape(v)
          /\ v.space = page.space /\ v.options = page.spaces
          /\ v.episodes = page.episodes /\ v.timeline = page.timeline
          /\ v.marked = {page.episode} \intersect page.timeline
          /\ v.facts = Graph(page) /\ v.dossier = Dossier(page)
          /\ v.hidden = (page.facts = {})
      BY <3>1, ViewFields
    <3>3. \A f \in ScreenFields : screen[f] = v[f]
      BY <2>2, <3>2 DEF ListsShown, FactsShown, ScreenFields
    <3>4. ScreenShape(screen)
      BY <1>1 DEF WbShape
    <3> QED
      BY <3>1, <3>2, <3>3, <3>4 DEF ScreenShape
  <2>4. screen.hidden \/ (drawn.edges = page.facts /\ drawn.labels = Graph(page).labels)
    BY <1>1, <2>2 DEF Quiet, FactsShown, MapShown
  <2> QED
    BY <2>3, <2>4
<1>2. WorkbenchInv => ScreenAgreesWhenQuiet
  BY <1>1 DEF WorkbenchInv, ScreenAgreesWhenQuiet
<1> QED
  BY <1>2, WorkbenchInvariant, PTL

-----------------------------------------------------------------------------
(***************************************************************************)
(* The lists: what the newest read of a list will bring.                   *)
(***************************************************************************)
\* The newest read of list L is on time and brings v; every read of it is late.
Newest(n, i) == \A j \in DOMAIN n : n[j].what = n[i].what => j <= i
FreshIn(n, L, v) ==
  \E i \in DOMAIN n : n[i].what = L /\ ~n[i].late /\ n[i].body = v /\ Newest(n, i)
LateIn(n, L) == \A i \in DOMAIN n : n[i].what = L => n[i].late
Asked(n, what) == \E i \in DOMAIN n : n[i].what = what

\* The requests of n are still under way in m, and no other about L.
Extends(m, n) == \A j \in DOMAIN n : j \in DOMAIN m /\ m[j] = n[j]
NoneNew(m, n, L) == \A j \in DOMAIN m : m[j].what = L => j \in DOMAIN n

\* Which of the others are late once request i has left.
LEMMA LeaveLate ==
  ASSUME NetShape(net), NEW i \in DOMAIN net
  PROVE  \A j \in DOMAIN Leave(i) :
           Leave(i)[j].late <=>
             net[Was(i, j)].late \/ (j < i /\ net[Was(i, j)].what = net[i].what)
<1> DEFINE late(j) == net[j].late \/ (j < i /\ net[j].what = net[i].what)
           m == [j \in DOMAIN net |-> [net[j] EXCEPT !.late = late(j)]]
<1>1. Len(net) \in Nat /\ DOMAIN net = 1..Len(net)
  BY SeqDomain DEF NetShape
<1>2. m \in [1..Len(net) -> {m[j] : j \in DOMAIN net}]
  BY <1>1
<1>3. m \in Seq({m[j] : j \in DOMAIN net})
  BY <1>1, <1>2, SeqDef
<1>4. IsSeq(m) /\ DOMAIN m = DOMAIN net
  BY <1>3, AnySeq
<1>5. Len(m) = Len(net)
  BY <1>1, <1>4, SeqDomain
<1>6. Leave(i) = RemoveAt(m, i)
  BY DEF Leave
<1>7. \A j \in DOMAIN net : m[j].late <=> late(j)
  BY DEF NetShape, RequestFields
<1> HIDE DEF m
<1>8. /\ DOMAIN Leave(i) = 1..(Len(net) - 1)
      /\ \A j \in 1..(Len(net) - 1) : Leave(i)[j] = m[Was(i, j)]
  <2>1. i \in DOMAIN m
    BY <1>4
  <2>2. /\ DOMAIN RemoveAt(m, i) = 1..(Len(m) - 1)
        /\ \A j \in 1..(Len(m) - 1) : RemoveAt(m, i)[j] = m[Was(i, j)]
    BY <1>4, <2>1, RemoveOne
  <2>3. Len(m) - 1 = Len(net) - 1
    BY <1>5
  <2> QED
    BY <1>6, <2>2, <2>3, Zenon
<1>9. ASSUME NEW j \in DOMAIN Leave(i)
      PROVE  Leave(i)[j].late <=>
               net[Was(i, j)].late \/ (j < i /\ net[Was(i, j)].what = net[i].what)
  <2>1. Was(i, j) \in DOMAIN net /\ (Was(i, j) < i <=> j < i)
    BY <1>1, <1>8 DEF Was
  <2>2. Leave(i)[j].late <=> late(Was(i, j))
    BY <1>7, <1>8, <2>1
  <2> QED
    BY <2>1, <2>2
<1> QED
  BY <1>9

\* A request that stays has a place in what is left, and the order stays.
LEMMA LeavePlaces ==
  ASSUME NetShape(net), NEW i \in DOMAIN net
  PROVE  /\ \A k \in DOMAIN net \ {i} : \E j \in DOMAIN Leave(i) : Was(i, j) = k
         /\ \A j, k \in DOMAIN Leave(i) : Was(i, k) <= Was(i, j) => k <= j
         /\ \A j \in DOMAIN Leave(i) : Was(i, j) <= i => j < i
         /\ \A j \in DOMAIN Leave(i) : j < i => Was(i, j) < i
<1>1. Len(net) \in Nat /\ DOMAIN net = 1..Len(net)
  BY SeqDomain DEF NetShape
<1>2. DOMAIN Leave(i) = 1..(Len(net) - 1)
  BY LeaveOne
<1>3. ASSUME NEW k \in DOMAIN net \ {i}
      PROVE  \E j \in DOMAIN Leave(i) : Was(i, j) = k
  <2>1. CASE k < i
    BY <1>1, <1>2, <2>1 DEF Was
  <2>2. CASE ~(k < i)
    <3>1. k - 1 \in DOMAIN Leave(i) /\ ~(k - 1 < i) /\ k - 1 + 1 = k
      BY <1>1, <1>2, <2>2
    <3> QED
      BY <3>1 DEF Was
  <2> QED
    BY <2>1, <2>2
<1>4. /\ \A j, k \in DOMAIN Leave(i) : Was(i, k) <= Was(i, j) => k <= j
      /\ \A j \in DOMAIN Leave(i) : Was(i, j) <= i => j < i
      /\ \A j \in DOMAIN Leave(i) : j < i => Was(i, j) < i
  BY <1>1, <1>2 DEF Was
<1> QED
  BY <1>3, <1>4

\* What was late is late, and what brings v now either stays or has just left on time.
LEMMA LeaveFresh ==
  ASSUME NetShape(net), NEW i \in DOMAIN net, NEW L, NEW v
  PROVE  /\ LateIn(net, L) => LateIn(Leave(i), L)
         /\ FreshIn(net, L, v) =>
              \/ FreshIn(Leave(i), L, v)
              \/ /\ net[i].what = L /\ ~net[i].late /\ net[i].body = v
                 /\ LateIn(Leave(i), L)
<1>1. \A j \in DOMAIN Leave(i) :
        /\ Was(i, j) \in DOMAIN net \ {i}
        /\ Leave(i)[j].what = net[Was(i, j)].what
        /\ Leave(i)[j].body = net[Was(i, j)].body
        /\ Leave(i)[j].late <=>
             net[Was(i, j)].late \/ (j < i /\ net[Was(i, j)].what = net[i].what)
  BY LeaveOne, LeaveLate
<1>2. LateIn(net, L) => LateIn(Leave(i), L)
  BY <1>1 DEF LateIn
<1>3. ASSUME NEW k \in DOMAIN net, net[k].what = L, ~net[k].late, net[k].body = v, Newest(net, k)
      PROVE  \/ FreshIn(Leave(i), L, v)
             \/ /\ net[i].what = L /\ ~net[i].late /\ net[i].body = v
                /\ LateIn(Leave(i), L)
  <2>1. CASE k = i
    <3>1. \A j \in DOMAIN Leave(i) : Leave(i)[j].what = L => Leave(i)[j].late
      <4> SUFFICES ASSUME NEW j \in DOMAIN Leave(i), Leave(i)[j].what = L
                   PROVE  Leave(i)[j].late
        OBVIOUS
      <4>1. Was(i, j) <= i
        BY <1>1, <1>3, <2>1 DEF Newest
      <4>2. j < i
        BY <4>1, LeavePlaces
      <4> QED
        BY <1>1, <1>3, <2>1, <4>2
    <3> QED
      BY <1>3, <2>1, <3>1 DEF LateIn
  <2>2. CASE k # i
    <3>1. PICK j \in DOMAIN Leave(i) : Was(i, j) = k
      BY <2>2, LeavePlaces
    <3>2. Leave(i)[j].what = L /\ Leave(i)[j].body = v
      BY <1>1, <1>3, <3>1
    <3>3. ~Leave(i)[j].late
      <4>1. ASSUME j < i, net[k].what = net[i].what
            PROVE  FALSE
        <5>1. i <= k
          BY <1>3, <4>1 DEF Newest
        <5>2. k < i
          BY <3>1, <4>1, LeavePlaces
        <5>3. DOMAIN net \subseteq Nat
          BY SeqDomain DEF NetShape
        <5> QED
          BY <5>1, <5>2, <5>3
      <4> QED
        BY <1>1, <1>3, <3>1, <4>1
    <3>4. Newest(Leave(i), j)
      <4> SUFFICES ASSUME NEW l \in DOMAIN Leave(i), Leave(i)[l].what = Leave(i)[j].what
                   PROVE  l <= j
        BY DEF Newest
      <4>1. Was(i, l) <= Was(i, j)
        BY <1>1, <1>3, <3>1 DEF Newest
      <4> QED
        BY <4>1, LeavePlaces
    <3> QED
      BY <3>2, <3>3, <3>4 DEF FreshIn
  <2> QED
    BY <2>1, <2>2
<1> QED
  BY <1>2, <1>3 DEF FreshIn

\* Other questions change nothing for the reads of a list.
LEMMA ExtendsFresh ==
  ASSUME NEW m, NEW n, Extends(m, n), NEW L, NEW v
  PROVE  /\ NoneNew(m, n, L) /\ FreshIn(n, L, v) => FreshIn(m, L, v)
         /\ NoneNew(m, n, L) /\ LateIn(n, L) => LateIn(m, L)
         /\ Asked(n, L) => Asked(m, L)
<1>1. Asked(n, L) => Asked(m, L)
  BY DEF Asked, Extends
<1>2. NoneNew(m, n, L) /\ LateIn(n, L) => LateIn(m, L)
  BY DEF NoneNew, LateIn, Extends
<1>3. ASSUME NoneNew(m, n, L), NEW i \in DOMAIN n, n[i].what = L, ~n[i].late, n[i].body = v,
             Newest(n, i)
      PROVE  FreshIn(m, L, v)
  <2>1. i \in DOMAIN m /\ m[i] = n[i]
    BY DEF Extends
  <2>2. Newest(m, i)
    BY <1>3, <2>1 DEF Newest, NoneNew, Extends
  <2> QED
    BY <1>3, <2>1, <2>2 DEF FreshIn
<1> QED
  BY <1>1, <1>2, <1>3 DEF FreshIn

\* A question about a list is the newest, and brings what the server answers now.
LEMMA AskExtends ==
  ASSUME NEW n, NetShape(n), NEW t, NEW what, NEW arg, NEW p
  PROVE  LET m == Ask(n, t, what, arg, p)
         IN /\ Extends(m, n)
            /\ \A L : L # what => NoneNew(m, n, L)
            /\ Asked(m, what)
            /\ what \notin Writes => FreshIn(m, what, Answer(server', what, p.space, arg))
<1> DEFINE answer == Answer(server', what, p.space, arg)
           space == p.space
<1> HIDE DEF answer, space
<1> DEFINE body == IF what \in Writes THEN None ELSE answer
<1>b. what \notin Writes => body = answer
  OBVIOUS
<1> HIDE DEF body
<1> DEFINE r == [task |-> t, what |-> what, space |-> space, arg |-> arg,
                 late |-> FALSE, body |-> body]
           m == Append(n, r)
<1>1. Ask(n, t, what, arg, p) = m
  BY DEF Ask, body, space, answer
<1>2. r.what = what /\ ~r.late /\ r.body = body
  OBVIOUS
<1> HIDE DEF r
<1>3. /\ DOMAIN m = 1..(Len(n) + 1)
      /\ \A i \in 1..Len(n) : m[i] = n[i]
      /\ m[Len(n) + 1] = r
  BY AppendOne DEF NetShape
<1>4. DOMAIN n = 1..Len(n) /\ Len(n) \in Nat
  BY SeqDomain DEF NetShape
<1> HIDE DEF m
<1>5. Extends(m, n)
  BY <1>3, <1>4 DEF Extends
<1>6. \A L : L # what => NoneNew(m, n, L)
  BY <1>2, <1>3, <1>4 DEF NoneNew
<1>7. Len(n) + 1 \in DOMAIN m /\ \A j \in DOMAIN m : j <= Len(n) + 1
  BY <1>3, <1>4
<1>8. Asked(m, what)
  BY <1>2, <1>3, <1>7 DEF Asked
<1>9. what \notin Writes => FreshIn(m, what, answer)
  BY <1>2, <1>3, <1>7, <1>b DEF FreshIn, Newest
<1> QED
  BY <1>1, <1>5, <1>6, <1>8, <1>9 DEF answer

LEMMA ProjectExtends ==
  ASSUME NEW n, NetShape(n), NEW t, NEW p
  PROVE  LET m == Project(n, t, p)
         IN /\ Extends(m, n)
            /\ \A L : L \notin {"timeline", "facts"} => NoneNew(m, n, L)
            /\ Asked(m, "facts")
            /\ FreshIn(m, "timeline", Answer(server', "timeline", p.space, None))
            /\ FreshIn(m, "facts", Answer(server', "facts", p.space, p.asOf))
<1> DEFINE l == Ask(n, t, "timeline", None, p)
           m == Ask(l, t, "facts", p.asOf, p)
           v == Answer(server', "timeline", p.space, None)
           w == Answer(server', "facts", p.space, p.asOf)
<1>1. Project(n, t, p) = m
  BY DEF Project
<1>2. "timeline" \notin Writes /\ "facts" \notin Writes
  BY DEF Writes
<1>3. /\ Extends(l, n) /\ NetShape(l) /\ FreshIn(l, "timeline", v)
      /\ \A L : L # "timeline" => NoneNew(l, n, L)
  BY <1>2, AskExtends, AskShape
<1> HIDE DEF l
<1>4. /\ Extends(m, l) /\ Asked(m, "facts") /\ FreshIn(m, "facts", w)
      /\ \A L : L # "facts" => NoneNew(m, l, L)
  BY <1>2, <1>3, AskExtends
<1> HIDE DEF m, v, w
<1>5. Extends(m, n)
  BY <1>3, <1>4 DEF Extends
<1>6. \A L : L \notin {"timeline", "facts"} => NoneNew(m, n, L)
  BY <1>3, <1>4 DEF NoneNew, Extends
<1>7. FreshIn(m, "timeline", v)
  BY <1>3, <1>4, ExtendsFresh
<1> QED
  BY <1>1, <1>4, <1>5, <1>6, <1>7 DEF v, w
-----------------------------------------------------------------------------
(***************************************************************************)
(* What is known of a list: it will be read, its newest read will bring    *)
(* what the server has, or the page holds that unless it was misled.       *)
(***************************************************************************)
Unloaded ==
  \E i \in DOMAIN net : net[i].what \in Shelf /\ tasks[net[i].task].kind = "bootstrap"
Projects == Asked(net, "memories") \/ \E t \in Slots : tasks[t].stage = "fallback"

Will(L) ==
  \/ Unloaded
  \/ L # "memories" /\ Projects
  \/ L = "entities" /\ Asked(net, "facts")

Followed(L) ==
  \/ Will(L)
  \/ \E v : FreshIn(net, L, v) /\ Agrees(L, v)
  \/ (LateIn(net, L) \/ hist.lost) /\ (L \in hist.misled \/ Agrees(L, Held(L)))

ListsInv == \A L \in Lists : Followed(L)

\* A list just asked for is followed.
LEMMA AskedFollowed ==
  ASSUME NEW L, NEW v, FreshIn(net', L, v), v = Now(L)'
  PROVE  Followed(L)'
<1>1. Agrees(L, v)'
  BY DEF Agrees
<1> QED
  BY <1>1 DEF Followed

\* What agreed with the server does so still, when the server has gained no more than
\* episodes of runs the page has not heard of.
LEMMA AgreesKept ==
  ASSUME Unheard \subseteq Unheard',
         \A L \in {"memories", "timeline"} : Now(L)' \ Unheard' = Now(L) \ Unheard',
         \A L \in {"facts", "entities"} : Now(L)' = Now(L)
  PROVE  \A L \in Lists : \A v : Agrees(L, v) => Agrees(L, v)'
<1> SUFFICES ASSUME NEW L \in Lists, NEW v, Agrees(L, v)
             PROVE  Agrees(L, v)'
  OBVIOUS
<1>1. CASE L \in {"memories", "timeline"}
  <2>1. PICK x, y, u, w : x = Now(L) /\ y = Now(L)' /\ u = Unheard /\ w = Unheard'
    OBVIOUS
  <2>2. v \ u = x \ u /\ u \subseteq w /\ y \ w = x \ w
    BY <1>1, <2>1 DEF Agrees
  <2>3. v \ w = y \ w
    BY <2>2
  <2> QED
    BY <1>1, <2>1, <2>3 DEF Agrees
<1>2. CASE L \in {"facts", "entities"}
  BY <1>2 DEF Agrees
<1> QED
  BY <1>1, <1>2 DEF Lists

\* A load begins: the memories are asked for, and the other lists will be.
LEMMA ReloadFollowed ==
  ASSUME NEW n, NetShape(n), NEW t, NEW p,
         net' = Ask(n, t, "memories", None, p), page'.space = p.space
  PROVE  \A L \in Lists : Followed(L)'
<1> DEFINE v == Answer(server', "memories", p.space, None)
<1>1. "memories" \notin Writes
  BY DEF Writes
<1>2. Asked(net', "memories") /\ FreshIn(net', "memories", v)
  BY <1>1, AskExtends
<1>3. v = Now("memories")'
  BY DEF Now
<1> HIDE DEF v
<1>4. Followed("memories")'
  BY <1>2, <1>3, AskedFollowed
<1>5. \A L \in Lists : L # "memories" => Will(L)'
  BY <1>2 DEF Will, Projects
<1> QED
  BY <1>4, <1>5 DEF Followed

\* What will be asked stays so when another question is answered.
LEMMA WillKept ==
  ASSUME NetOk, NEW i \in DOMAIN net, net[i].what \notin Shelf, Extends(net', Leave(i)),
         \A u \in Slots : u # net[i].task => tasks'[u] = tasks[u]
  PROVE  /\ Unloaded => Unloaded'
         /\ \A what : what # net[i].what /\ Asked(net, what) => Asked(net', what)
         /\ /\ net[i].what # "memories"
            /\ tasks[net[i].task].stage = "fallback" => tasks'[net[i].task].stage = "fallback"
            /\ Projects
            => Projects'
<1>1. \A j \in DOMAIN Leave(i) :
        /\ Was(i, j) \in DOMAIN net \ {i}
        /\ Leave(i)[j].task = net[Was(i, j)].task
        /\ Leave(i)[j].what = net[Was(i, j)].what
  BY LeaveOne DEF NetOk
<1>2. \A k \in DOMAIN net \ {i} :
        \E j \in DOMAIN net' : net'[j].task = net[k].task /\ net'[j].what = net[k].what
  <2> SUFFICES ASSUME NEW k \in DOMAIN net \ {i}
               PROVE  \E j \in DOMAIN net' : net'[j].task = net[k].task /\ net'[j].what = net[k].what
    OBVIOUS
  <2>1. PICK j \in DOMAIN Leave(i) : Was(i, j) = k
    BY LeavePlaces DEF NetOk
  <2>2. j \in DOMAIN net' /\ net'[j] = Leave(i)[j]
    BY DEF Extends
  <2> QED
    BY <1>1, <2>1, <2>2
<1>3. \A what : what # net[i].what /\ Asked(net, what) => Asked(net', what)
  BY <1>2 DEF Asked
<1>4. ASSUME NEW k \in DOMAIN net, net[k].what \in Shelf, tasks[net[k].task].kind = "bootstrap"
      PROVE  Unloaded'
  <2>1. k # i
    BY <1>4
  <2>2. net[k].task \in Slots /\ net[k].task # net[i].task
    <3>1. ~Beside(net[k].what, net[i].what)
      BY <1>4 DEF Beside, Shelf
    <3> QED
      BY <2>1, <3>1 DEF NetOk, NetInv
  <2>3. tasks'[net[k].task].kind = "bootstrap"
    BY <1>4, <2>2
  <2>4. PICK j \in DOMAIN net' : net'[j].task = net[k].task /\ net'[j].what = net[k].what
    BY <1>2, <2>1
  <2> QED
    BY <1>4, <2>3, <2>4 DEF Unloaded
<1>5. ASSUME net[i].what # "memories", Projects,
             tasks[net[i].task].stage = "fallback" => tasks'[net[i].task].stage = "fallback"
      PROVE  Projects'
  <2>1. CASE Asked(net, "memories")
    BY <1>3, <1>5, <2>1 DEF Projects
  <2>2. ASSUME NEW t \in Slots, tasks[t].stage = "fallback"
        PROVE  tasks'[t].stage = "fallback"
    BY <1>5, <2>2
  <2> QED
    BY <1>5, <2>1, <2>2 DEF Projects
<1> QED
  BY <1>3, <1>4, <1>5 DEF Unloaded

\* Which lists are misled after an answer, but for an edit nobody heard of.
Brought(q, a) == IF a.ok THEN a.body ELSE Held(IF q.what = "fallback" THEN "memories" ELSE q.what)

LEMMA MisledAnswer ==
  ASSUME NEW q, NEW a, NEW L, a.ok \/ a.server = server
  PROVE  /\ L \notin About(q) /\ L \in hist.misled => L \in Misled(q, a)
         /\ L \in About(q) /\ L \in hist.misled => L \in Misled(q, a) \/ Agrees(L, Brought(q, a))
         /\ L \in About(q) /\ L # q.what => L \in Misled(q, a) \/ Agrees(L, Brought(q, a))
         /\ L \in About(q) /\ a.ok /\ (q.late \/ hist.lost) =>
              L \in Misled(q, a) \/ Agrees(L, Brought(q, a))
         /\ L \in About(q) /\ ~a.ok /\ ~q.late => L \in Misled(q, a) \/ Agrees(L, Brought(q, a))
<1> DEFINE told == IF a.ok THEN a.body ELSE Held(IF q.what = "fallback" THEN "memories" ELSE q.what)
           right == {M \in About(q) : Agrees(M, told)}
           wrong == {M \in About(q) \ right :
                       M = q.what => IF a.ok THEN q.late \/ hist.lost ELSE ~q.late}
<1>1. Misled(q, a) = (hist.misled \ right) \union wrong
  BY DEF Misled
<1>2. told = Brought(q, a)
  BY DEF Brought
<1>3. L \in right <=> L \in About(q) /\ Agrees(L, told)
  OBVIOUS
<1>4. L \in wrong <=> /\ L \in About(q) /\ L \notin right
                      /\ L = q.what => IF a.ok THEN q.late \/ hist.lost ELSE ~q.late
  OBVIOUS
<1> HIDE DEF told, right, wrong
<1> QED
  BY <1>1, <1>2, <1>3, <1>4

\* A list is followed still when a request has left and none about it has come.
LEMMA HeardFollowed ==
  ASSUME NetShape(net), NEW i \in DOMAIN net, NEW a, NEW L \in Lists, Followed(L),
         Extends(net', Leave(i)), NoneNew(net', Leave(i), L),
         Will(L) => Will(L)', \A v : Agrees(L, v) => Agrees(L, v)',
         a.ok \/ a.server = server,
         hist'.misled = Misled(net[i], a), hist.lost => hist'.lost,
         L \in About(net[i]) => Held(L)' = Brought(net[i], a),
         L \notin About(net[i]) => Held(L)' = Held(L),
         net[i].what = L => L \in About(net[i]),
         net[i].what = L /\ a.ok => a.body = net[i].body,
         net[i].what = L /\ ~a.ok => Brought(net[i], a) = Held(L)
  PROVE  Followed(L)'
<1> DEFINE q == net[i]
           about == L \in About(q)
           fine == L \in hist'.misled \/ Agrees(L, Held(L)')
<1>1. /\ ~about /\ L \in hist.misled => L \in hist'.misled
      /\ about /\ L \in hist.misled => L \in hist'.misled \/ Agrees(L, Brought(q, a))
      /\ about /\ L # q.what => L \in hist'.misled \/ Agrees(L, Brought(q, a))
      /\ about /\ a.ok /\ (q.late \/ hist.lost) => L \in hist'.misled \/ Agrees(L, Brought(q, a))
      /\ about /\ ~a.ok /\ ~q.late => L \in hist'.misled \/ Agrees(L, Brought(q, a))
  BY MisledAnswer
<1>2. PICK h : h = Held(L)'
  OBVIOUS
<1>3. about => h = Brought(q, a)
  BY <1>2
<1>4. ASSUME L \in hist'.misled \/ Agrees(L, h), LateIn(net', L) \/ hist.lost
      PROVE  Followed(L)'
  <2>1. L \in hist'.misled \/ Agrees(L, h)'
    BY <1>4
  <2>2. L \in hist'.misled \/ Agrees(L, Held(L))'
    BY <1>2, <2>1 DEF Agrees
  <2>3. LateIn(net', L) \/ hist'.lost
    BY <1>4
  <2> QED
    BY <2>2, <2>3 DEF Followed
<1>5. CASE Will(L)
  BY <1>5 DEF Followed
<1>6. ASSUME NEW v, FreshIn(net, L, v), Agrees(L, v)
      PROVE  Followed(L)'
  <2>1. CASE FreshIn(Leave(i), L, v)
    <3>1. FreshIn(net', L, v)
      BY <2>1, ExtendsFresh
    <3>2. Agrees(L, v)'
      BY <1>6
    <3> QED
      BY <3>1, <3>2 DEF Followed
  <2>2. CASE net[i].what = L /\ ~net[i].late /\ net[i].body = v /\ LateIn(Leave(i), L)
    <3>1. LateIn(net', L)
      BY <2>2, ExtendsFresh
    <3>2. L \in hist'.misled \/ Agrees(L, h)
      <4>1. CASE a.ok
        <5>1. Brought(q, a) = v
          BY <2>2, <4>1 DEF Brought
        <5> QED
          BY <1>3, <1>6, <2>2, <5>1
      <4>2. CASE ~a.ok
        BY <1>1, <1>3, <2>2, <4>2
      <4> QED
        BY <4>1, <4>2
    <3> QED
      BY <1>4, <3>1, <3>2
  <2> QED
    BY <1>6, <2>1, <2>2, LeaveFresh
<1>7. CASE (LateIn(net, L) \/ hist.lost) /\ (L \in hist.misled \/ Agrees(L, Held(L)))
  <2>1. LateIn(net', L) \/ hist.lost
    BY <1>7, LeaveFresh, ExtendsFresh
  <2>2. L = q.what => q.late \/ hist.lost
    BY <1>7 DEF LateIn
  <2>3. L \in hist'.misled \/ Agrees(L, h)
    <3>1. CASE ~about
      BY <1>1, <1>2, <1>7, <3>1
    <3>2. CASE about /\ (L # q.what \/ a.ok)
      BY <1>1, <1>3, <2>2, <3>2
    <3>3. CASE about /\ L = q.what /\ ~a.ok
      BY <1>1, <1>3, <1>7, <3>3
    <3> QED
      BY <3>1, <3>2, <3>3
  <2> QED
    BY <1>4, <2>1, <2>3
<1> QED
  BY <1>5, <1>6, <1>7 DEF Followed
-----------------------------------------------------------------------------
(***************************************************************************)
(* The server: what an answer may have done to it.                         *)
(***************************************************************************)
\* An episode that no space has is as if it had never been, and a run the page has seen
\* end has ended.
RunsInv ==
  /\ DOMAIN server.home = Episodes /\ DOMAIN server.runs = Episodes
  /\ server.stored \subseteq Episodes
  /\ \A e \in Episodes :
       server.home[e] = None => server.runs[e] = "none" /\ e \notin server.stored
  /\ \A e \in Episodes \intersect hist.seen : server.runs[e] \in Terminal

SpaceInv == server.spaces \subseteq Spaces /\ page.space \in Spaces

\* A request is about a space, brings spaces, and tells the end of no run that goes on.
RequestOk(r) ==
  /\ r.space \in Spaces
  /\ r.what = "poll" /\ r.arg \in Episodes /\ r.body \in Terminal =>
       server.runs[r.arg] \in Terminal
  /\ r.what = "spaces" =>
       /\ r.body \subseteq Spaces
       /\ tasks[r.task].kind = "create" => tasks[r.task].arg \in Spaces

RequestsInv == \A i \in DOMAIN net : RequestOk(net[i])

\* Each submission under way has an episode left.
Submissions == {"remember", "ingest"}
RoomInv == Cardinality(Used) + InFlight(Submissions) <= MaxEpisodes

ServerInv == RunsInv /\ SpaceInv /\ RequestsInv /\ RoomInv

\* The sets that are counted are finite.
LEMMA CountedSets ==
  ASSUME NetShape(net), MaxEpisodes \in Nat, NEW kinds
  PROVE  /\ IsFiniteSet(Episodes) /\ Cardinality(Episodes) = MaxEpisodes
         /\ IsFiniteSet(Used) /\ Cardinality(Used) \in Nat
         /\ IsFiniteSet({i \in DOMAIN net : net[i].what \in kinds}) /\ InFlight(kinds) \in Nat
<1>1. IsFiniteSet(Episodes) /\ Cardinality(Episodes) = MaxEpisodes
  <2>1. IsFiniteSet(1..MaxEpisodes)
        /\ Cardinality(1..MaxEpisodes) = IF 1 > MaxEpisodes THEN 0 ELSE MaxEpisodes - 1 + 1
    BY FS_Interval
  <2> QED
    BY <2>1 DEF Episodes
<1>2. IsFiniteSet(Used)
  BY <1>1, FS_Subset DEF Used
<1>3. DOMAIN net = 1..Len(net) /\ Len(net) \in Nat
  BY SeqDomain DEF NetShape
<1>4. IsFiniteSet(DOMAIN net)
  BY <1>3, FS_Interval
<1>5. IsFiniteSet({i \in DOMAIN net : net[i].what \in kinds})
  BY <1>4, FS_Subset
<1> QED
  BY <1>1, <1>2, <1>5, FS_CardinalityType DEF InFlight

\* A submission finds an episode that is not used.
LEMMA SpareEpisode ==
  ASSUME NetShape(net), MaxEpisodes \in Nat, RoomInv, NEW i \in DOMAIN net,
         net[i].what \in Submissions
  PROVE  NextEpisode \in Episodes \ Used
<1> DEFINE I == {k \in DOMAIN net : net[k].what \in Submissions}
<1>1. /\ IsFiniteSet(Episodes) /\ Cardinality(Episodes) = MaxEpisodes
      /\ Cardinality(Used) \in Nat /\ IsFiniteSet(I) /\ InFlight(Submissions) \in Nat
  BY CountedSets
<1>2. i \in I /\ InFlight(Submissions) = Cardinality(I)
  BY DEF InFlight
<1> HIDE DEF I
<1>3. InFlight(Submissions) # 0
  BY <1>1, <1>2, FS_EmptySet
<1>4. Episodes \ Used # {}
  <2> SUFFICES ASSUME Episodes \ Used = {}
               PROVE  FALSE
    OBVIOUS
  <2>1. Used = Episodes
    BY DEF Used
  <2>2. Cardinality(Used) = MaxEpisodes
    BY <1>1, <2>1
  <2> QED
    BY <1>1, <1>3, <2>2 DEF RoomInv
<1>5. Episodes \ Used \subseteq Nat
  BY DEF Episodes
<1>6. \E e \in Episodes \ Used : \A d \in Episodes \ Used : e <= d
  BY <1>4, <1>5, LeastNatural
<1> QED
  BY <1>6 DEF NextEpisode

\* The fields of the server once episode e is stored.
LEMMA StoreFields ==
  ASSUME DOMAIN server = ServerFields, RunsInv, NEW e \in Episodes, NEW s, NEW v, NEW u
  PROVE  LET d == Store(e, s, v, u)
         IN /\ DOMAIN d.home = Episodes /\ DOMAIN d.runs = Episodes
            /\ \A f \in Episodes : d.home[f] = IF f = e THEN s ELSE server.home[f]
            /\ \A f \in Episodes : d.runs[f] = IF f = e THEN u ELSE server.runs[f]
            /\ d.stored = IF v THEN server.stored \union {e} ELSE server.stored
            /\ d.spaces = server.spaces /\ d.active = server.active /\ d.named = server.named
  BY DEF Store, ServerFields, RunsInv

\* A server that took a request which stores no episode, and one that stored one.
Kept(d) ==
  /\ d.home = server.home /\ d.runs = server.runs
  /\ d.stored \subseteq server.stored /\ d.spaces \subseteq Spaces

Told(d) == d.stored = server.stored /\ d.active = server.active /\ d.named = server.named

Stores(q, d) ==
  /\ q.what \in Submissions
  /\ \E v, u : /\ d = Store(NextEpisode, q.space, v, u)
               /\ u \in {"none", "queued", "succeeded"}
               /\ q.what = "ingest" => (v <=> u = "succeeded")

LEMMA OutcomeKind ==
  ASSUME DOMAIN server = ServerFields, NetOk, SpaceInv, NEW i \in DOMAIN net,
         NEW a \in Outcomes(net[i])
  PROVE  /\ Kept(a.server) \/ Stores(net[i], a.server)
         /\ net[i].what \notin Writes \/ net[i].what = "create" =>
              Kept(a.server) /\ Told(a.server)
         /\ a.ok /\ net[i].what \notin Writes => a.body = net[i].body
         /\ a.ok /\ net[i].what = "create" => a.body \in Spaces
         /\ a.ok /\ net[i].what = "ingest" => Stores(net[i], a.server)
<1> DEFINE q == net[i]
<1>m. q.what = "forget" => q.arg[2] \in {"hide", "retract", "purge"}
  BY DEF NetOk, NetInv, Fits
<1>s. server.spaces \subseteq Spaces
  BY DEF SpaceInv
<1> HIDE DEF q
<1>2. Kept(server) /\ Told(server)
  BY <1>s DEF Kept, Told
<1>3. ASSUME NEW d \in Taken(q)
      PROVE  /\ Kept(d.server) \/ Stores(q, d.server)
             /\ q.what \notin Writes \/ q.what = "create" => Kept(d.server) /\ Told(d.server)
             /\ q.what \notin Writes => d.body = q.body
             /\ q.what = "create" => d.body \in Spaces
             /\ q.what = "ingest" => Stores(q, d.server)
  <2>1. CASE q.what = "remember"
    <3>1. d = [server |-> Store(NextEpisode, q.space, TRUE, "none"), body |-> NextEpisode]
      BY <2>1 DEF Taken
    <3>2. d.server = Store(NextEpisode, q.space, TRUE, "none")
      BY <3>1
    <3>3. Stores(q, d.server)
      BY <2>1, <3>2 DEF Stores, Submissions
    <3> QED
      BY <2>1, <3>3 DEF Writes
  <2>2. CASE q.what = "ingest"
    <3>1. PICK u \in {"queued", "succeeded"} :
            d = [server |-> Store(NextEpisode, q.space, u = "succeeded", u), body |-> NextEpisode]
      BY <2>2 DEF Taken
    <3>2. d.server = Store(NextEpisode, q.space, u = "succeeded", u)
      BY <3>1
    <3>3. Stores(q, d.server)
      BY <2>2, <3>2 DEF Stores, Submissions
    <3> QED
      BY <2>2, <3>3 DEF Writes
  <2>3. CASE q.what = "create"
    <3>1. PICK s \in Spaces \ server.spaces :
            d = [server |-> [server EXCEPT !.spaces = @ \union {s}], body |-> s]
      BY <2>3 DEF Taken
    <3> QED
      BY <1>s, <2>3, <3>1 DEF Kept, Told, ServerFields, Writes
  <2>4. CASE q.what = "forget"
    <3>1. d = [server |-> Forgotten(q.space, q.arg[1], q.arg[2]), body |-> None]
      BY <2>4 DEF Taken
    <3>2. \A s, e, mode : mode \in {"hide", "retract", "purge"} => Kept(Forgotten(s, e, mode))
      BY <1>s DEF Forgotten, Kept, ServerFields
    <3> QED
      BY <1>m, <2>4, <3>1, <3>2 DEF Writes
  <2>5. CASE q.what = "accept"
    <3>1. d = [server |-> Recorded({<<q.space, e>> : e \in q.arg}), body |-> None]
      BY <2>5 DEF Taken
    <3>2. \A new : Kept(Recorded(new))
      BY <1>s DEF Recorded, Kept, ServerFields
    <3> QED
      BY <2>5, <3>1, <3>2 DEF Writes
  <2>6. CASE q.what \notin {"remember", "ingest", "create", "forget", "accept"}
    <3>1. d = [server |-> server, body |-> q.body]
      BY <2>6 DEF Taken
    <3> QED
      BY <1>2, <2>6, <3>1
  <2> QED
    BY <2>1, <2>2, <2>3, <2>4, <2>5, <2>6
<1>4. \/ a.ok = TRUE /\ \E d \in Taken(q) : a.server = d.server /\ a.body = d.body
      \/ a.ok = FALSE /\ (a.server = server \/ \E d \in Taken(q) : a.server = d.server)
  BY DEF Outcomes, q
<1>5. CASE a.ok = TRUE /\ \E d \in Taken(q) : a.server = d.server /\ a.body = d.body
  BY <1>3, <1>5 DEF q
<1>6. CASE a.ok = FALSE /\ (a.server = server \/ \E d \in Taken(q) : a.server = d.server)
  BY <1>2, <1>3, <1>6 DEF q
<1> QED
  BY <1>4, <1>5, <1>6

\* What stays true of the runs and the spaces, and which episodes are used.
LEMMA OutcomeRuns ==
  ASSUME DOMAIN server = ServerFields, NetOk, ServerInv, MaxEpisodes \in Nat, None \notin Spaces,
         NEW i \in DOMAIN net, NEW a \in Outcomes(net[i])
  PROVE  LET d == a.server
         IN /\ DOMAIN d.home = Episodes /\ DOMAIN d.runs = Episodes
            /\ \A e \in Episodes : d.home[e] = None => d.runs[e] = "none" /\ e \notin d.stored
            /\ \A e \in Episodes : server.runs[e] \in Terminal => d.runs[e] \in Terminal
            /\ d.stored \subseteq Episodes /\ d.spaces \subseteq Spaces
            /\ \A e \in Episodes : d.home[e] # None =>
                 e \in Used \/ (net[i].what \in Submissions /\ e = NextEpisode)
<1> DEFINE d == a.server
<1>1. Kept(d) \/ Stores(net[i], d)
  BY OutcomeKind DEF ServerInv
<1>2. /\ DOMAIN server.home = Episodes /\ DOMAIN server.runs = Episodes
      /\ \A e \in Episodes :
           server.home[e] = None => server.runs[e] = "none" /\ e \notin server.stored
      /\ server.stored \subseteq Episodes /\ server.spaces \subseteq Spaces /\ net[i].space \in Spaces
  BY DEF ServerInv, RunsInv, SpaceInv, RequestsInv, RequestOk
<1> HIDE DEF d
<1>3. CASE Kept(d)
  BY <1>2, <1>3 DEF Kept, Used, d
<1>4. CASE Stores(net[i], d)
  <2>1. net[i].what \in Submissions
    BY <1>4 DEF Stores
  <2>2. NextEpisode \in Episodes \ Used
    BY <2>1, SpareEpisode DEF NetOk, ServerInv
  <2>4. PICK e, s : e = NextEpisode /\ s = net[i].space
    OBVIOUS
  <2>3. PICK v, u : d = Store(e, s, v, u)
    BY <1>4, <2>4 DEF Stores
  <2>5. e \in Episodes /\ server.home[e] = None
    BY <2>2, <2>4 DEF Used
  <2>6. /\ DOMAIN d.home = Episodes /\ DOMAIN d.runs = Episodes
        /\ \A f \in Episodes : d.home[f] = IF f = e THEN s ELSE server.home[f]
        /\ \A f \in Episodes : d.runs[f] = IF f = e THEN u ELSE server.runs[f]
        /\ d.stored \subseteq server.stored \union {e}
        /\ d.spaces = server.spaces
    <3>1. RunsInv /\ e \in Episodes
      BY <2>5 DEF ServerInv
    <3> DEFINE x == Store(e, s, v, u)
    <3>2. /\ DOMAIN x.home = Episodes /\ DOMAIN x.runs = Episodes
          /\ \A f \in Episodes : x.home[f] = IF f = e THEN s ELSE server.home[f]
          /\ \A f \in Episodes : x.runs[f] = IF f = e THEN u ELSE server.runs[f]
          /\ x.stored \subseteq server.stored \union {e}
          /\ x.spaces = server.spaces
      BY <3>1 DEF Store, ServerFields, RunsInv
    <3>3. x = d
      BY <2>3
    <3> HIDE DEF x
    <3> QED
      BY <3>2, <3>3
  <2>7. server.runs[e] \notin Terminal
    BY <1>2, <2>5 DEF Terminal
  <2>8. s # None
    BY <1>2, <2>4
  <2>9. \A f \in Episodes : d.home[f] = None => d.runs[f] = "none" /\ f \notin d.stored
    BY <1>2, <2>6, <2>8
  <2>10. \A f \in Episodes : server.runs[f] \in Terminal => d.runs[f] \in Terminal
    BY <2>6, <2>7
  <2>11. \A f \in Episodes : d.home[f] # None => f \in Used \/ f = e
    BY <2>6 DEF Used
  <2> QED
    BY <1>2, <2>1, <2>4, <2>5, <2>6, <2>9, <2>10, <2>11 DEF d
<1> QED
  BY <1>1, <1>3, <1>4

\* An answer that is no edit leaves the lists what they are, but for the episode of a run
\* the page has not heard of.
Ended(d) == {e \in Episodes : d.runs[e] \in Terminal /\ e \notin hist.seen}

LEMMA OutcomeTold ==
  ASSUME DOMAIN server = ServerFields, NetOk, ServerInv, MaxEpisodes \in Nat,
         NEW i \in DOMAIN net, NEW a \in Outcomes(net[i]),
         a.ok => net[i].what \notin {"remember", "forget", "accept"},
         ~a.ok => a.server = server
  PROVE  /\ Ended(server) \subseteq Ended(a.server)
         /\ \A s : Visible(a.server, s) \ Ended(a.server) = Visible(server, s) \ Ended(a.server)
         /\ a.server.active = server.active /\ a.server.named = server.named
<1> DEFINE d == a.server
<1>1. CASE ~a.ok
  BY <1>1
<1>2. CASE a.ok /\ net[i].what # "ingest"
  <2>1. Kept(d) /\ Told(d)
    BY <1>2, OutcomeKind DEF ServerInv, Writes
  <2>2. \A s : Visible(d, s) = Visible(server, s)
    BY <2>1 DEF Kept, Told, Visible
  <2>3. d.active = server.active /\ d.named = server.named
    BY <2>1 DEF Told
  <2>4. Ended(d) = Ended(server)
    BY <2>1 DEF Kept, Ended
  <2> QED
    BY <2>2, <2>3, <2>4
<1>3. CASE a.ok /\ net[i].what = "ingest"
  <2>1. Stores(net[i], d)
    BY <1>3, OutcomeKind DEF ServerInv
  <2>2. NextEpisode \in Episodes \ Used
    BY <1>3, SpareEpisode DEF NetOk, ServerInv, Submissions
  <2>4. PICK e, p : e = NextEpisode /\ p = net[i].space
    OBVIOUS
  <2>3. PICK v, u : d = Store(e, p, v, u) /\ (v <=> u = "succeeded")
    BY <1>3, <2>1, <2>4 DEF Stores
  <2>5. /\ e \in Episodes /\ server.home[e] = None
        /\ server.runs[e] = "none" /\ e \notin server.stored
    BY <2>2, <2>4 DEF Used, ServerInv, RunsInv
  <2>6. /\ \A f \in Episodes : d.home[f] = IF f = e THEN p ELSE server.home[f]
        /\ \A f \in Episodes : d.runs[f] = IF f = e THEN u ELSE server.runs[f]
        /\ d.stored = IF v THEN server.stored \union {e} ELSE server.stored
        /\ d.active = server.active /\ d.named = server.named
    <3>1. RunsInv /\ e \in Episodes
      BY <2>5 DEF ServerInv
    <3> DEFINE x == Store(e, p, v, u)
    <3>2. /\ DOMAIN x.home = Episodes /\ DOMAIN x.runs = Episodes
          /\ \A f \in Episodes : x.home[f] = IF f = e THEN p ELSE server.home[f]
          /\ \A f \in Episodes : x.runs[f] = IF f = e THEN u ELSE server.runs[f]
          /\ x.stored = IF v THEN server.stored \union {e} ELSE server.stored
          /\ x.spaces = server.spaces /\ x.active = server.active /\ x.named = server.named
      BY <3>1 DEF Store, ServerFields, RunsInv
    <3>3. x = d
      BY <2>3
    <3> HIDE DEF x, d
    <3> QED
      BY <3>2, <3>3
  <2>7. Ended(server) \subseteq Ended(d)
    BY <2>5, <2>6 DEF Ended, Terminal
  <2>8. v => e \in Ended(d)
    <3>1. e \notin hist.seen
      BY <2>5 DEF ServerInv, RunsInv, Terminal
    <3> QED
      BY <2>3, <2>5, <2>6, <3>1 DEF Ended, Terminal
  <2>9. \A s : Visible(d, s) \ Ended(d) = Visible(server, s) \ Ended(d)
    <3>1. \A f \in server.stored : d.home[f] = server.home[f]
      BY <2>5, <2>6 DEF ServerInv, RunsInv
    <3>2. d.stored = server.stored \/ (d.stored = server.stored \union {e} /\ e \in Ended(d))
      BY <2>6, <2>8
    <3> HIDE DEF d
    <3>3. ASSUME NEW s PROVE Visible(d, s) \ Ended(d) = Visible(server, s) \ Ended(d)
      <4>1. PICK w : w = Ended(d)
        OBVIOUS
      <4> QED
        BY <3>1, <3>2, <4>1 DEF Visible
    <3> QED
      BY <3>3
  <2> QED
    BY <2>6, <2>7, <2>9
<1> QED
  BY <1>1, <1>2, <1>3
-----------------------------------------------------------------------------
(***************************************************************************)
(* What an answer asks next.                                               *)
(***************************************************************************)
AsksFor(n, t, what, arg) == \E p : net' = Ask(n, t, what, arg, p) /\ p.space = page'.space

Reloads(i) == AsksFor(Leave(i), net[i].task, "memories", None)

Shelves(i) ==
  /\ net[i].what \in Shelf /\ tasks[net[i].task].kind = "bootstrap"
  /\ net' = Leave(i) /\ tasks' = tasks /\ Lanes(Leave(i), net[i].task) # {}

Projecting(i) ==
  /\ net[i].what \in {"memories", "timeline", "fallback"}
  /\ \E p : /\ net' = Project(Leave(i), net[i].task, p)
            /\ p.space = page'.space /\ p.asOf = page'.asOf

FallsBack(i) ==
  /\ net[i].what \in {"memories", "timeline"}
  /\ tasks'[net[i].task].stage = "fallback"
  /\ \E what \in {"timeline", "fallback"} : AsksFor(Leave(i), net[i].task, what, None)

Names(i) ==
  /\ net[i].what = "facts" /\ tasks' = tasks
  /\ AsksFor(Leave(i), net[i].task, "entities", None)

CreatedIn(i, a) ==
  /\ net[i].what = "create" /\ a.ok
  /\ tasks'[net[i].task].arg = a.body
  /\ AsksFor(Leave(i), net[i].task, "spaces", None)

Rests(i, a) ==
  /\ net[i].what \notin Shelf \union {"memories", "fallback", "facts"}
  /\ tasks[net[i].task].stage # "fallback"
  /\ net[i].what \in {"remember", "forget", "accept"} => ~a.ok
  /\ net[i].what = "poll" => ~a.ok \/ a.body \notin Terminal
  /\ \/ net' = Leave(i)
     \/ \E what \in {"recall", "poll"} : \E arg : AsksFor(Leave(i), net[i].task, what, arg)
     \/ CreatedIn(i, a)

HeardAs(i, a) ==
  Reloads(i) \/ Shelves(i) \/ Projecting(i) \/ FallsBack(i) \/ Names(i) \/ Rests(i, a)

LEMMA LoadReloads ==
  ASSUME NEW n, NEW t, NEW p, DOMAIN p = PageFields, Load(n, t, p)
  PROVE  AsksFor(n, t, "memories", None)
<1>1. net' = Ask(n, t, "memories", None, p) /\ page' = [p EXCEPT !.loading = TRUE]
  BY DEF Load
<1>2. page'.space = p.space
  BY <1>1 DEF PageFields
<1> QED
  BY <1>1, <1>2 DEF AsksFor

\* A part of a load asks nothing, or again what was asked before the date changed.
LEMMA JoinAsks ==
  ASSUME NEW n, NEW t, NEW p, Join(n, t, p)
  PROVE  net' = n \/ \E arg : AsksFor(n, t, "recall", arg)
<1>1. net' = n \/ (net' = Ask(n, t, "recall", p.asOf, p) /\ page' = p)
  BY DEF Join, Loaded
<1> QED
  BY <1>1 DEF AsksFor

LEMMA HearAsks ==
  ASSUME DOMAIN page = PageFields, NetOk, NEW i \in DOMAIN net, NEW a, Hear(i, a)
  PROVE  HeardAs(i, a)
<1> DEFINE q == net[i]
           t == net[i].task
           k == tasks[net[i].task]
           n == Leave(i)
<1>1. t \in Slots /\ TaskShape(tasks)
  BY HeardOne
<1>2. /\ q.what \in {"timeline", "fallback"} => k.stage \in {"load", "fallback"}
      /\ q.what = "memories" => k.stage = "load"
      /\ q.what \notin {"memories", "timeline", "fallback", "facts", "entities"} \union Shelf
           => k.stage \in {"first", "recall"}
      /\ q.what = "entities" => k.stage \in {"load", "first"}
      /\ q.what = "spaces" /\ k.kind # "bootstrap" => k.kind = "create"
  <2>1. /\ q.what = "memories" => k.stage = "load"
        /\ q.what \in {"timeline", "fallback"} => k.stage \in {"load", "fallback"}
        /\ q.what \in {"facts", "entities"} => \/ k.stage = "load" /\ k.kind # "asof"
                                               \/ k.kind = "asof" /\ k.stage = "first"
        /\ q.what = "spaces" => \/ k.kind = "bootstrap" /\ k.stage = "none"
                                \/ k.kind = "create" /\ k.stage = "first"
    BY WhoAsked DEF NetOk
  <2>2. Fits(q.what, q.arg, k) /\ k.kind \in Kinds /\ k.stage \in StageOf(k.kind)
    BY DEF NetOk, NetInv, TaskInv
  <2> HIDE DEF q, k
  <2>3. k.stage \in {"none", "first", "load", "fallback", "recall"}
    BY <2>2 DEF StageOf
  <2>4. q.what \notin {"memories", "timeline", "fallback", "facts", "entities"} \union Shelf
          => k.stage \in {"first", "recall"}
    BY <2>2, <2>3 DEF Fits, Loads
  <2> QED
    BY <2>1, <2>4
<1>s. Shelf = {"principal", "workspaces", "spaces"}
  BY DEF Shelf
<1> HIDE DEF q, t, k, n
<1>d. q = net[i] /\ t = q.task /\ t = net[i].task /\ n = Leave(i) /\ k = tasks[t]
  BY DEF q, t, k, n
<1>3. CASE HearBootstrap(i, a)
  <2> DEFINE p == IF q.what = "spaces" /\ a.ok THEN KnowSpaces(page, a.body) ELSE page
  <2>1. DOMAIN p = PageFields
    BY KnowSpacesPage
  <2>2. /\ q.what \in Shelf /\ k.kind = "bootstrap"
        /\ Load(n, t, p) \/ (Lanes(n, t) # {} /\ net' = n /\ tasks' = tasks)
    BY <1>3, <1>d, <1>s DEF HearBootstrap
  <2> HIDE DEF p
  <2>3. CASE Load(n, t, p)
    BY <1>d, <2>1, <2>3, LoadReloads DEF HeardAs, Reloads
  <2>4. CASE Lanes(n, t) # {} /\ net' = n /\ tasks' = tasks
    BY <1>d, <2>2, <2>4 DEF HeardAs, Shelves
  <2> QED
    BY <2>2, <2>3, <2>4
<1>4. CASE HearMemories(i, a) \/ HearFallback(i, a)
  <2> DEFINE p == IF a.ok THEN [page EXCEPT !.episodes = a.body] ELSE page
  <2>1. /\ q.what \in {"memories", "fallback"} /\ page' = p
        /\ \/ net' = Project(n, t, p)
           \/ /\ q.what = "memories"
              /\ net' = Ask(n, t, "timeline", None, page) /\ Stage(t, "fallback")
    BY <1>4, <1>d DEF HearMemories, HearFallback
  <2>2. page'.space = page.space
    BY <2>1 DEF PageFields
  <2> HIDE DEF p
  <2>3. CASE net' = Project(n, t, p)
    <3>1. Projecting(i)
      BY <1>d, <2>1, <2>3 DEF Projecting
    <3> QED
      BY <3>1 DEF HeardAs
  <2>4. CASE /\ q.what = "memories"
             /\ net' = Ask(n, t, "timeline", None, page) /\ Stage(t, "fallback")
    <3>1. tasks'[t].stage = "fallback"
      BY <1>1, <2>4, StageStep
    <3>2. AsksFor(n, t, "timeline", None)
      BY <2>2, <2>4 DEF AsksFor
    <3> QED
      BY <1>d, <2>4, <3>1, <3>2 DEF HeardAs, FallsBack
  <2> QED
    BY <2>1, <2>3, <2>4
<1>5. CASE HearTimeline(i, a)
  <2> DEFINE p == IF a.ok THEN [page EXCEPT !.timeline = a.body] ELSE page
             f == [p EXCEPT !.episodes = p.timeline]
  <2>1. /\ q.what = "timeline"
        /\ \/ k.stage # "fallback" /\ Join(n, t, p)
           \/ /\ k.stage = "fallback" /\ page' = f
              /\ \/ net' = Project(n, t, f)
                 \/ net' = Ask(n, t, "fallback", None, f) /\ UNCHANGED tasks
    BY <1>5, <1>d DEF HearTimeline
  <2> HIDE DEF p, f
  <2>2. CASE k.stage # "fallback" /\ Join(n, t, p)
    <3>1. net' = n \/ \E arg : AsksFor(n, t, "recall", arg)
      BY <2>2, JoinAsks
    <3> QED
      BY <1>d, <1>s, <2>1, <2>2, <3>1 DEF HeardAs, Rests
  <2>3. CASE page' = f /\ net' = Project(n, t, f)
    BY <1>d, <2>1, <2>3 DEF HeardAs, Projecting
  <2>4. CASE /\ k.stage = "fallback" /\ page' = f
             /\ net' = Ask(n, t, "fallback", None, f) /\ UNCHANGED tasks
    <3>1. AsksFor(n, t, "fallback", None)
      BY <2>4 DEF AsksFor
    <3> QED
      BY <1>d, <2>1, <2>4, <3>1 DEF HeardAs, FallsBack
  <2> QED
    BY <2>1, <2>2, <2>3, <2>4
<1>6. CASE HearFacts(i, a)
  <2>1. \E p : /\ q.what = "facts" /\ page' = p /\ tasks' = tasks
               /\ net' = Ask(n, t, "entities", None, p)
    BY <1>6, <1>d DEF HearFacts
  <2> QED
    BY <1>d, <2>1 DEF HeardAs, Names, AsksFor
<1>7. CASE HearEntities(i, a)
  <2>1. PICK p : q.what = "entities" /\ Join(n, t, p)
    BY <1>7, <1>d DEF HearEntities
  <2>2. net' = n \/ \E arg : AsksFor(n, t, "recall", arg)
    BY <2>1, JoinAsks
  <2>3. k.stage # "fallback"
    BY <1>2, <2>1
  <2> QED
    BY <1>d, <1>s, <2>1, <2>2, <2>3 DEF HeardAs, Rests
<1>8. CASE HearEdit(i, a) \/ HearAccept(i, a) \/ HearPoll(i, a)
  <2>1. /\ q.what \in {"remember", "forget", "accept", "poll"}
        /\ \/ Load(n, t, page) \/ Load(n, t, [page EXCEPT !.timer = None])
           \/ Load(n, t, [page EXCEPT !.episode = a.body])
           \/ /\ net' = n
              /\ q.what \in {"remember", "forget", "accept"} => ~a.ok
              /\ q.what = "poll" => ~a.ok \/ a.body \notin Terminal
    BY <1>8, <1>d DEF HearEdit, HearAccept, HearPoll
  <2>2. /\ DOMAIN [page EXCEPT !.timer = None] = PageFields
        /\ DOMAIN [page EXCEPT !.episode = a.body] = PageFields
    OBVIOUS
  <2>3. ASSUME NEW p, DOMAIN p = PageFields, Load(n, t, p)
        PROVE  HeardAs(i, a)
    BY <1>d, <2>3, LoadReloads DEF HeardAs, Reloads
  <2>4. CASE /\ net' = n
             /\ q.what \in {"remember", "forget", "accept"} => ~a.ok
             /\ q.what = "poll" => ~a.ok \/ a.body \notin Terminal
    <3>1. k.stage # "fallback"
      BY <1>2, <1>s, <2>1
    <3> QED
      BY <1>d, <1>s, <2>1, <2>4, <3>1 DEF HeardAs, Rests
  <2> QED
    BY <2>1, <2>2, <2>3, <2>4
<1>9. CASE HearCreated(i, a)
  <2>1. CASE q.what = "create"
    <3>1. k.stage # "fallback"
      BY <1>2, <1>s, <2>1
    <3>2. CASE a.ok
      <4>1. /\ net' = Ask(n, t, "spaces", None, page) /\ page' = page
            /\ tasks' = [tasks EXCEPT ![t].arg = a.body]
        BY <1>9, <1>d, <2>1, <3>2 DEF HearCreated
      <4>2. tasks'[t].arg = a.body
        BY <1>1, <4>1 DEF TaskShape
      <4>3. AsksFor(n, t, "spaces", None)
        BY <4>1 DEF AsksFor
      <4>4. CreatedIn(i, a)
        BY <1>d, <2>1, <3>2, <4>2, <4>3 DEF CreatedIn
      <4> QED
        BY <1>d, <1>s, <2>1, <3>1, <4>4 DEF HeardAs, Rests
    <3>3. CASE ~a.ok
      <4>1. net' = n
        BY <1>9, <1>d, <2>1, <3>3 DEF HearCreated
      <4> QED
        BY <1>d, <1>s, <2>1, <3>1, <4>1 DEF HeardAs, Rests
    <3> QED
      BY <3>2, <3>3
  <2>2. CASE q.what # "create"
    <3> DEFINE p == IF a.ok THEN KnowSpaces(page, a.body) ELSE page
    <3>1. Load(n, t, SelectedIn(p, k.arg))
      BY <1>9, <1>d, <2>2 DEF HearCreated
    <3>2. DOMAIN SelectedIn(p, k.arg) = PageFields
      <4>1. DOMAIN p = PageFields
        BY KnowSpacesPage
      <4> HIDE DEF p
      <4> QED
        BY <4>1 DEF SelectedIn
    <3> HIDE DEF p
    <3> QED
      BY <1>d, <3>1, <3>2, LoadReloads DEF HeardAs, Reloads
  <2> QED
    BY <2>1, <2>2
<1>10. CASE HearRecall(i, a) \/ HearPreview(i, a)
  <2>1. q.what \in {"recall", "preview"} /\ net' = n
    BY <1>10, <1>d DEF HearRecall, HearPreview
  <2>2. k.stage # "fallback"
    BY <1>2, <1>s, <2>1
  <2> QED
    BY <1>d, <1>s, <2>1, <2>2 DEF HeardAs, Rests
<1>11. CASE HearIngest(i, a)
  <2>1. /\ q.what = "ingest"
        /\ net' = n \/ (/\ net' = Ask(n, t, "poll", a.body, page)
                        /\ page' = [page EXCEPT !.timer = a.body])
    BY <1>11, <1>d DEF HearIngest
  <2>2. net' = n \/ AsksFor(n, t, "poll", a.body)
    BY <2>1 DEF AsksFor, PageFields
  <2>3. k.stage # "fallback"
    BY <1>2, <1>s, <2>1
  <2> QED
    BY <1>d, <1>s, <2>1, <2>2, <2>3 DEF HeardAs, Rests
<1> QED
  BY <1>3, <1>4, <1>5, <1>6, <1>7, <1>8, <1>9, <1>10, <1>11 DEF Hear
-----------------------------------------------------------------------------
(***************************************************************************)
(* What an answer does to the lists.                                       *)
(***************************************************************************)
LEMMA HeldFields ==
  /\ Held("memories") = page.episodes /\ Held("timeline") = page.timeline
  /\ Held("facts") = page.facts /\ Held("entities") = page.entities
  /\ Held("memories")' = page'.episodes /\ Held("timeline")' = page'.timeline
  /\ Held("facts")' = page'.facts /\ Held("entities")' = page'.entities
  BY DEF Held

\* A list an answer is about changes to what it brought; the others stay.
LEMMA HearHeld ==
  ASSUME DOMAIN page = PageFields, NetOk, NEW i \in DOMAIN net, NEW a, Hear(i, a), NEW L \in Lists
  PROVE  /\ L \in About(net[i]) => Held(L)' = Brought(net[i], a)
         /\ L \notin About(net[i]) => Held(L)' = Held(L)
<1> DEFINE q == net[i]
           t == net[i].task
           k == tasks[net[i].task]
           n == Leave(i)
           b == Brought(net[i], a)
<1>l. Lists = {"memories", "timeline", "facts", "entities"}
  BY DEF Lists
<1>w. /\ q.what = "fallback" => k.stage = "fallback"
      /\ q.what = "memories" => k.stage = "load"
      /\ q.what \in {"facts", "entities"} => k.stage \in {"load", "first"}
      /\ q.what \in {"remember", "forget", "create", "ingest", "poll", "preview", "accept", "recall",
                     "principal", "workspaces", "spaces"} => k.stage \in {"none", "first", "recall"}
  <2>1. /\ q.what \in {"principal", "workspaces"} => k.stage = "none"
        /\ q.what = "spaces" => k.stage \in {"none", "first"}
        /\ q.what = "memories" => k.stage = "load"
        /\ q.what = "fallback" => k.stage = "fallback"
        /\ q.what \in {"facts", "entities"} => k.stage \in {"load", "first"}
        /\ q.what \in {"remember", "forget", "create", "ingest", "poll", "preview"} => k.stage = "first"
        /\ q.what = "recall" => k.stage \in {"first", "recall"}
        /\ q.what = "accept" => k.stage = "first"
    BY WhoAsked DEF NetOk
  <2> HIDE DEF q, k
  <2> QED
    BY <2>1
<1>a. About(q) = ({q.what} \intersect Lists) \union
                 (IF k.stage = "fallback" THEN {"memories"} ELSE {})
  BY DEF About
<1>b. b = IF a.ok THEN a.body ELSE Held(IF q.what = "fallback" THEN "memories" ELSE q.what)
  BY DEF Brought
<1>d. q = net[i] /\ t = net[i].task /\ n = Leave(i) /\ k = tasks[t]
  OBVIOUS
<1>e. b = Brought(net[i], a)
  OBVIOUS
<1> HIDE DEF q, t, k, n, b
<1>1. CASE HearMemories(i, a) \/ HearFallback(i, a)
  <2>1. /\ q.what \in {"memories", "fallback"}
        /\ page' = IF a.ok THEN [page EXCEPT !.episodes = a.body] ELSE page
    BY <1>1, <1>d DEF HearMemories, HearFallback
  <2>2. /\ page'.episodes = IF a.ok THEN a.body ELSE page.episodes
        /\ page'.timeline = page.timeline /\ page'.facts = page.facts
        /\ page'.entities = page.entities
    BY <2>1 DEF PageFields
  <2>3. About(q) = {"memories"}
    BY <1>a, <1>l, <1>w, <2>1
  <2>4. b = IF a.ok THEN a.body ELSE page.episodes
    BY <1>b, <2>1, HeldFields
  <2> QED
    BY <1>d, <1>e, <1>l, <2>2, <2>3, <2>4, HeldFields
<1>2. CASE HearTimeline(i, a)
  <2> DEFINE p == IF a.ok THEN [page EXCEPT !.timeline = a.body] ELSE page
  <2>1. /\ q.what = "timeline"
        /\ \/ k.stage # "fallback" /\ Join(n, t, p)
           \/ k.stage = "fallback" /\ page' = [p EXCEPT !.episodes = p.timeline]
    BY <1>2, <1>d DEF HearTimeline
  <2>2. /\ DOMAIN p = PageFields /\ Same(p, page, PageFields \ {"timeline"})
        /\ p.timeline = IF a.ok THEN a.body ELSE page.timeline
    BY DEF Same, PageFields
  <2> HIDE DEF p
  <2>3. /\ page'.timeline = p.timeline /\ page'.facts = p.facts /\ page'.entities = p.entities
        /\ page'.episodes = IF k.stage = "fallback" THEN p.timeline ELSE p.episodes
    <3>1. CASE k.stage # "fallback" /\ Join(n, t, p)
      <4>1. Same(page', p, PageFields \ {"review", "busy", "loading"})
        BY <2>2, <3>1, JoinPage
      <4> QED
        BY <3>1, <4>1 DEF Same, PageFields
    <3>2. CASE k.stage = "fallback" /\ page' = [p EXCEPT !.episodes = p.timeline]
      BY <2>2, <3>2 DEF PageFields
    <3> QED
      BY <2>1, <3>1, <3>2
  <2>4. /\ page'.timeline = IF a.ok THEN a.body ELSE page.timeline
        /\ page'.facts = page.facts /\ page'.entities = page.entities
        /\ page'.episodes = IF k.stage = "fallback" THEN page'.timeline ELSE page.episodes
    BY <2>2, <2>3 DEF Same, PageFields
  <2>5. About(q) = IF k.stage = "fallback" THEN {"timeline", "memories"} ELSE {"timeline"}
    BY <1>a, <1>l, <2>1
  <2>6. b = IF a.ok THEN a.body ELSE page.timeline
    BY <1>b, <2>1, HeldFields
  <2> QED
    BY <1>d, <1>e, <1>l, <2>4, <2>5, <2>6, HeldFields
<1>3. CASE HearFacts(i, a)
  <2>1. /\ q.what = "facts"
        /\ page' = IF a.ok THEN [page EXCEPT !.facts = a.body] ELSE page
    BY <1>3, <1>d DEF HearFacts
  <2>2. /\ page'.facts = IF a.ok THEN a.body ELSE page.facts
        /\ page'.episodes = page.episodes /\ page'.timeline = page.timeline
        /\ page'.entities = page.entities
    BY <2>1 DEF PageFields
  <2>3. About(q) = {"facts"}
    BY <1>a, <1>l, <1>w, <2>1
  <2>4. b = IF a.ok THEN a.body ELSE page.facts
    BY <1>b, <2>1, HeldFields
  <2> QED
    BY <1>d, <1>e, <1>l, <2>2, <2>3, <2>4, HeldFields
<1>4. CASE HearEntities(i, a)
  <2> DEFINE p == IF a.ok THEN [page EXCEPT !.entities = a.body] ELSE page
  <2>1. q.what = "entities" /\ Join(n, t, p)
    BY <1>4, <1>d DEF HearEntities
  <2>2. /\ DOMAIN p = PageFields /\ Same(p, page, PageFields \ {"entities"})
        /\ p.entities = IF a.ok THEN a.body ELSE page.entities
    BY DEF Same, PageFields
  <2> HIDE DEF p
  <2>3. Same(page', p, PageFields \ {"review", "busy", "loading"})
    BY <2>1, <2>2, JoinPage
  <2>4. /\ page'.entities = IF a.ok THEN a.body ELSE page.entities
        /\ page'.episodes = page.episodes /\ page'.timeline = page.timeline
        /\ page'.facts = page.facts
    BY <2>2, <2>3 DEF Same, PageFields
  <2>5. About(q) = {"entities"}
    BY <1>a, <1>l, <1>w, <2>1
  <2>6. b = IF a.ok THEN a.body ELSE page.entities
    BY <1>b, <2>1, HeldFields
  <2> QED
    BY <1>d, <1>e, <1>l, <2>4, <2>5, <2>6, HeldFields
<1>5. CASE ~(\/ HearMemories(i, a) \/ HearFallback(i, a) \/ HearTimeline(i, a)
             \/ HearFacts(i, a) \/ HearEntities(i, a))
  <2>1. q.what \in {"remember", "forget", "create", "ingest", "poll", "preview", "accept", "recall",
                  "principal", "workspaces", "spaces"}
    BY <1>5, <1>d DEF Hear, HearBootstrap, HearEdit, HearCreated, HearRecall, HearIngest, HearPoll,
         HearPreview, HearAccept
  <2>2. Same(page', page, {"facts", "entities"}) /\ Same(page', page, {"episodes", "timeline"})
    BY <1>d, <2>1, HearPage
  <2>3. About(q) = {}
    BY <1>a, <1>l, <1>w, <2>1
  <2> QED
    BY <1>d, <1>l, <2>2, <2>3, HeldFields DEF Same
<1> QED
  BY <1>1, <1>2, <1>3, <1>4, <1>5

\* Only the shelf and the creation of a space move the selection.
LEMMA HearSpace ==
  ASSUME DOMAIN page = PageFields, NetOk, NEW i \in DOMAIN net, NEW a, Hear(i, a),
         net[i].what \notin Shelf
  PROVE  page'.space = page.space
<1>1. CASE net[i].what \notin {"create", "remember", "forget"}
  BY <1>1, HearPage DEF Same
<1>2. CASE net[i].what \in {"create", "remember", "forget"}
  <2>1. HearEdit(i, a) \/ HearCreated(i, a)
    BY <1>2 DEF Hear, HearBootstrap, HearMemories, HearTimeline, HearFallback, HearFacts, Shelf,
         HearEntities, HearRecall, HearIngest, HearPoll, HearPreview, HearAccept
  <2>2. CASE HearEdit(i, a)
    BY <2>2 DEF HearEdit, Load, PageFields
  <2>3. CASE HearCreated(i, a)
    <3>1. net[i].what # "spaces"
      BY DEF Shelf
    <3> QED
      BY <2>3, <3>1 DEF HearCreated
  <2> QED
    BY <2>1, <2>2, <2>3
<1> QED
  BY <1>1, <1>2

\* What the history remembers of the lists, the lost edits and the runs that ended.
LEMMA HearRemembers ==
  ASSUME DOMAIN hist = HistFields, NEW i, NEW a, Hear(i, a)
  PROVE  /\ server' = a.server
         /\ hist'.misled = Misled(net[i], a)
         /\ hist.lost => hist'.lost
         /\ ~a.ok /\ a.server # server => hist'.lost /\ hist'.misled = Lists
         /\ hist'.seen = IF net[i].what = "poll" /\ a.ok /\ a.body \in Terminal
                         THEN hist.seen \union {net[i].arg} ELSE hist.seen
<1>1. Hears(i, a)
  BY HearHears
<1> DEFINE q == net[i]
           misled == Misled(q, a)
           lost == hist.lost \/ (~a.ok /\ a.server # server)
           seen == IF q.what = "poll" /\ a.ok /\ a.body \in Terminal THEN hist.seen \union {q.arg}
                   ELSE hist.seen
           unpolled == hist.unpolled \/ (q.what = "poll" /\ ~a.ok)
           started == IF q.what = "ingest" /\ a.ok THEN hist.started \union {a.body} ELSE hist.started
           offered == IF q.what = "preview" /\ a.ok THEN a.body ELSE hist.offered
           settled == IF q.what = "preview" /\ a.ok THEN {}
                      ELSE IF q.what = "accept" /\ {<<q.space, e>> : e \in q.arg} \subseteq a.server.active
                           THEN hist.settled \union q.arg ELSE hist.settled
<1>2. /\ server' = a.server
      /\ hist' = [hist EXCEPT !.misled = misled, !.lost = lost, !.seen = seen, !.unpolled = unpolled,
                              !.started = started, !.offered = offered, !.settled = settled]
  BY <1>1 DEF Hears
<1>3. /\ hist.lost => lost
      /\ ~a.ok /\ a.server # server => lost
  OBVIOUS
<1>4. seen = IF net[i].what = "poll" /\ a.ok /\ a.body \in Terminal
             THEN hist.seen \union {net[i].arg} ELSE hist.seen
  OBVIOUS
<1>5. misled = Misled(net[i], a) /\ (~a.ok /\ a.server # server => misled = Lists)
  BY DEF Misled
<1> HIDE DEF misled, lost, seen, unpolled, started, offered, settled
<1>6. hist'.misled = misled /\ hist'.seen = seen /\ (lost => hist'.lost)
  BY <1>2 DEF HistFields
<1> QED
  BY <1>2, <1>3, <1>4, <1>5, <1>6

\* After an answer that starts no load what agreed with the server does so still.
LEMMA HearSees ==
  ASSUME WbShape, NetOk, ServerInv, MaxEpisodes \in Nat, None \notin Spaces,
         NEW i \in DOMAIN net, NEW a \in Outcomes(net[i]), Hear(i, a), HeardAs(i, a),
         ~Reloads(i), net[i].what \notin Shelf, a.ok \/ a.server = server
  PROVE  \A L \in Lists : \A v : Agrees(L, v) => Agrees(L, v)'
<1> DEFINE what == net[i].what
<1>1. what \in {"remember", "forget", "accept"} => ~a.ok
  BY DEF HeardAs, Shelves, Projecting, FallsBack, Names, Rests, Shelf
<1>2. what = "poll" => ~a.ok \/ a.body \notin Terminal
  BY DEF HeardAs, Shelves, Projecting, FallsBack, Names, Rests, Shelf
<1>3. server' = a.server /\ hist'.seen = hist.seen
  BY <1>2, HearRemembers DEF WbShape
<1>4. /\ Ended(server) \subseteq Ended(a.server)
      /\ \A s : Visible(a.server, s) \ Ended(a.server) = Visible(server, s) \ Ended(a.server)
      /\ a.server.active = server.active /\ a.server.named = server.named
  BY <1>1, OutcomeTold DEF WbShape
<1>5. page'.space = page.space /\ page'.asOf = page.asOf
  BY HearSpace, HearPage DEF WbShape
<1>6. Unheard = Ended(server) /\ Unheard' = Ended(a.server)
  BY <1>3 DEF Unheard, Ended
<1>7. ASSUME NEW L \in {"memories", "timeline"}
      PROVE  Now(L)' \ Unheard' = Now(L) \ Unheard'
  <2>1. Now(L) = Visible(server, page.space) /\ Now(L)' = Visible(a.server, page.space)
    BY <1>3, <1>5 DEF Now, Answer
  <2> QED
    BY <1>4, <1>6, <2>1
<1>8. ASSUME NEW L \in {"facts", "entities"}
      PROVE  Now(L)' = Now(L)
  BY <1>3, <1>4, <1>5 DEF Now, Answer
<1> QED
  BY <1>4, <1>6, <1>7, <1>8, AgreesKept

\* After every answer every list is followed.
LEMMA HearLists ==
  ASSUME WbShape, NetOk, ServerInv, MaxEpisodes \in Nat, None \notin Spaces, ListsInv,
         NEW i \in DOMAIN net, NEW a \in Outcomes(net[i]), Hear(i, a)
  PROVE  \A L \in Lists : Followed(L)'
<1> DEFINE q == net[i]
           t == net[i].task
           n == Leave(i)
<1>1. NetShape(n) /\ t \in Slots
  BY HeardOne
<1>2. HeardAs(i, a)
  BY HearAsks DEF WbShape
<1>3. CASE Reloads(i)
  <2>1. \E p : net' = Ask(n, t, "memories", None, p) /\ p.space = page'.space
    BY <1>3 DEF Reloads, AsksFor
  <2> QED
    BY <1>1, <2>1, ReloadFollowed
<1>4. CASE Shelves(i)
  <2>1. PICK j \in DOMAIN n : n[j].task = t
    BY <1>4 DEF Shelves, Lanes
  <2>2. Beside(q.what, n[j].what)
    BY <2>1, HeardOne
  <2>3. n[j].what \in Shelf
    BY <1>4, <2>2 DEF Shelves, Beside, Shelf
  <2>4. net' = n /\ tasks' = tasks /\ tasks[t].kind = "bootstrap"
    BY <1>4 DEF Shelves
  <2>5. Unloaded'
    BY <2>1, <2>3, <2>4 DEF Unloaded
  <2> QED
    BY <2>5 DEF Followed, Will
<1>l. CASE ~a.ok /\ a.server # server
  <2>1. hist'.lost /\ hist'.misled = Lists
    BY <1>l, HearRemembers DEF WbShape
  <2> QED
    BY <2>1 DEF Followed
<1>5. CASE ~Reloads(i) /\ ~Shelves(i) /\ (a.ok \/ a.server = server)
  <2>1. Projecting(i) \/ FallsBack(i) \/ Names(i) \/ Rests(i, a)
    BY <1>2, <1>5 DEF HeardAs
  <2>2. q.what \notin Shelf
    BY <2>1 DEF Projecting, FallsBack, Names, Rests, Shelf
  <2>3. /\ \A L \in Lists : Followed(L)
        /\ \A L \in Lists : \A v : Agrees(L, v) => Agrees(L, v)'
    BY <1>2, <1>5, <2>2, HearSees DEF ListsInv
  <2>4. \A u \in Slots : u # t => tasks'[u] = tasks[u]
    BY HearOutcome DEF Outcome, WbShape
  <2>5. a.ok /\ q.what \notin Writes => a.body = q.body
    BY OutcomeKind DEF ServerInv, WbShape
  <2>6. hist'.misled = Misled(q, a) /\ (hist.lost => hist'.lost)
    BY HearRemembers DEF WbShape
  <2>7. ASSUME NEW L \in Lists, Extends(net', n), NoneNew(net', n, L), Will(L) => Will(L)'
        PROVE  Followed(L)'
    <3>1. L \notin Writes /\ L # "fallback"
      BY DEF Lists, Writes
    <3>2. /\ L \in About(q) => Held(L)' = Brought(q, a)
          /\ L \notin About(q) => Held(L)' = Held(L)
      BY HearHeld DEF WbShape
    <3>3. q.what = L => L \in About(q)
      BY DEF About
    <3>4. q.what = L /\ a.ok => a.body = q.body
      BY <2>5, <3>1
    <3>5. q.what = L /\ ~a.ok => Brought(q, a) = Held(L)
      BY <3>1 DEF Brought
    <3>6. Followed(L) /\ NetShape(net) /\ \A v : Agrees(L, v) => Agrees(L, v)'
      BY <2>3 DEF NetOk
    <3> QED
      BY <1>5, <2>6, <2>7, <3>2, <3>3, <3>4, <3>5, <3>6, HeardFollowed
  <2>8. Extends(net', n) => (Unloaded => Unloaded')
    BY <2>2, <2>4, WillKept
  <2>9. ASSUME Extends(net', n), NoneNew(net', n, "memories")
        PROVE  Followed("memories")'
    <3>1. Will("memories") => Will("memories")'
      BY <2>8, <2>9 DEF Will
    <3> QED
      BY <2>7, <2>9, <3>1 DEF Lists
  <2>10. \A L, v : FreshIn(net', L, v) /\ v = Now(L)' => Followed(L)'
    BY AskedFollowed
  <2>11. CASE Projecting(i)
    <3>1. PICK p : net' = Project(n, t, p) /\ p.space = page'.space /\ p.asOf = page'.asOf
      BY <2>11 DEF Projecting
    <3>2. /\ Extends(net', n) /\ NoneNew(net', n, "memories") /\ Asked(net', "facts")
          /\ FreshIn(net', "timeline", Answer(server', "timeline", p.space, None))
          /\ FreshIn(net', "facts", Answer(server', "facts", p.space, p.asOf))
      BY <1>1, <3>1, ProjectExtends
    <3>3. Answer(server', "timeline", p.space, None) = Now("timeline")'
      BY <3>1 DEF Now
    <3>4. Answer(server', "facts", p.space, p.asOf) = Now("facts")'
      BY <3>1 DEF Now
    <3>5. Followed("timeline")' /\ Followed("facts")'
      BY <2>10, <3>2, <3>3, <3>4
    <3>6. Followed("entities")'
      BY <3>2 DEF Followed, Will
    <3>7. Followed("memories")'
      BY <2>9, <3>2
    <3> QED
      BY <3>5, <3>6, <3>7 DEF Lists
  <2>12. CASE FallsBack(i)
    <3>1. PICK what, p : what \in {"timeline", "fallback"} /\ net' = Ask(n, t, what, None, p)
      BY <2>12 DEF FallsBack, AsksFor
    <3>2. Extends(net', n) /\ NoneNew(net', n, "memories")
      BY <1>1, <3>1, AskExtends
    <3>3. tasks'[t].stage = "fallback"
      BY <2>12 DEF FallsBack
    <3>4. Projects'
      BY <1>1, <3>3 DEF Projects
    <3>5. \A L \in Lists : L # "memories" => Followed(L)'
      BY <3>4 DEF Followed, Will
    <3> QED
      BY <2>9, <3>2, <3>5
  <2>13. CASE Names(i)
    <3>1. PICK p : net' = Ask(n, t, "entities", None, p) /\ p.space = page'.space
      BY <2>13 DEF Names, AsksFor
    <3>2. "entities" \notin Writes
      BY DEF Writes
    <3>3. /\ Extends(net', n) /\ \A L : L # "entities" => NoneNew(net', n, L)
          /\ FreshIn(net', "entities", Answer(server', "entities", p.space, None))
      BY <1>1, <3>1, <3>2, AskExtends
    <3>4. Answer(server', "entities", p.space, None) = Now("entities")'
      BY <3>1 DEF Now
    <3>5. Followed("entities")'
      BY <2>10, <3>3, <3>4
    <3>6. q.what = "facts" /\ tasks' = tasks
      BY <2>13 DEF Names
    <3>7. Projects => Projects'
      BY <2>2, <2>4, <3>3, <3>6, WillKept
    <3>8. \A L \in Lists : L # "entities" => (Will(L) => Will(L)')
      BY <2>8, <3>3, <3>7 DEF Will
    <3>9. \A L \in Lists : L # "entities" => Followed(L)'
      BY <2>7, <3>3, <3>8
    <3> QED
      BY <3>5, <3>9
  <2>14. CASE Rests(i, a)
    <3>1. \/ net' = n
          \/ \E what \in {"recall", "poll", "spaces"} : \E arg, p : net' = Ask(n, t, what, arg, p)
      BY <2>14 DEF Rests, CreatedIn, AsksFor
    <3>2. Extends(net', n) /\ \A L \in Lists : NoneNew(net', n, L)
      <4>1. CASE net' = n
        BY <4>1 DEF Extends, NoneNew
      <4>2. ASSUME NEW what \in {"recall", "poll", "spaces"}, NEW arg, NEW p,
                   net' = Ask(n, t, what, arg, p)
            PROVE  Extends(net', n) /\ \A L \in Lists : NoneNew(net', n, L)
        <5>1. what \notin Lists
          BY <4>2 DEF Lists
        <5> QED
          BY <1>1, <4>2, <5>1, AskExtends
      <4> QED
        BY <3>1, <4>1, <4>2
    <3>3. q.what \notin {"memories", "facts"} /\ tasks[t].stage # "fallback"
      BY <2>14 DEF Rests
    <3>4. Projects => Projects'
      BY <2>2, <2>4, <3>2, <3>3, WillKept
    <3>5. Asked(net, "facts") => Asked(net', "facts")
      BY <2>2, <2>4, <3>2, <3>3, WillKept
    <3>6. \A L \in Lists : Will(L) => Will(L)'
      BY <2>8, <3>2, <3>4, <3>5 DEF Will
    <3> QED
      BY <2>7, <3>2, <3>6
  <2> QED
    BY <2>1, <2>11, <2>12, <2>13, <2>14
<1> QED
  BY <1>2, <1>3, <1>4, <1>5, <1>l
-----------------------------------------------------------------------------
(***************************************************************************)
(* What a click does to the lists.                                         *)
(***************************************************************************)
LEMMA StartsExtends ==
  ASSUME NetOk, Slots \subseteq Nat, NEW kind, NEW what, NEW arg, NEW p, Starts(kind, what, arg, p)
  PROVE  /\ Extends(net', net) /\ Asked(net', what) /\ page' = p
         /\ \A L : L # what => NoneNew(net', net, L)
         /\ what \notin Writes => FreshIn(net', what, Answer(server', what, page'.space, arg))
         /\ \A t \in Slots : tasks[t] # Free => tasks'[t] = tasks[t]
         /\ Unloaded => Unloaded'
         /\ Projects => Projects'
<1>1. net' = Ask(net, FirstFree, what, arg, p) /\ page' = p
  BY DEF Starts
<1>2. /\ Extends(net', net) /\ Asked(net', what)
      /\ \A L : L # what => NoneNew(net', net, L)
      /\ what \notin Writes => FreshIn(net', what, Answer(server', what, p.space, arg))
  BY <1>1, AskExtends DEF NetOk
<1>3. \A t \in Slots : tasks[t] # Free => tasks'[t] = tasks[t]
  BY StartsWhere DEF NetOk
<1>4. Free.kind = "free" /\ Free.stage = "none"
  BY DEF Free
<1>5. \A i \in DOMAIN net : tasks'[net[i].task] = tasks[net[i].task]
  <2>1. \A i \in DOMAIN net : net[i].task \in Slots /\ tasks[net[i].task] # Free
    BY <1>4 DEF NetOk, NetInv, Fits
  <2> QED
    BY <1>3, <2>1
<1>6. Unloaded => Unloaded'
  BY <1>2, <1>5 DEF Unloaded, Extends
<1>7. Projects => Projects'
  <2>1. Asked(net, "memories") => Asked(net', "memories")
    BY <1>2, ExtendsFresh
  <2>2. \A t \in Slots : tasks[t].stage = "fallback" => tasks'[t].stage = "fallback"
    BY <1>3, <1>4
  <2> QED
    BY <2>1, <2>2 DEF Projects
<1> QED
  BY <1>1, <1>2, <1>3, <1>6, <1>7

\* A list the click does not ask for, in the same space at the same date.
LEMMA StartsFollowed ==
  ASSUME NetOk, Slots \subseteq Nat, NEW kind, NEW what, NEW arg, NEW p, Starts(kind, what, arg, p),
         NEW L, L # what, Followed(L), \A v : Agrees(L, v) => Agrees(L, v)', Held(L)' = Held(L),
         hist'.misled = hist.misled, hist'.lost = hist.lost
  PROVE  Followed(L)'
<1>2. /\ Extends(net', net) /\ NoneNew(net', net, L)
      /\ Unloaded => Unloaded'
      /\ Projects => Projects'
  BY StartsExtends
<1>3. /\ \A v : FreshIn(net, L, v) => FreshIn(net', L, v)
      /\ LateIn(net, L) => LateIn(net', L)
      /\ Asked(net, "facts") => Asked(net', "facts")
  BY <1>2, ExtendsFresh
<1>4. Will(L) => Will(L)'
  BY <1>2, <1>3 DEF Will
<1>5. PICK h : h = Held(L)
  OBVIOUS
<1>6. Agrees(L, Held(L)) => Agrees(L, Held(L))'
  <2>1. Agrees(L, h) => Agrees(L, h)'
    OBVIOUS
  <2> QED
    BY <1>5, <2>1 DEF Agrees
<1> QED
  BY <1>3, <1>4, <1>6 DEF Followed

\* What a click asks for.
Asking(kind, what, arg, p) ==
  /\ Starts(kind, what, arg, p)
  /\ what \notin Lists \union {"spaces"}
  /\ what \in Submissions => HasRoom
  /\ Same(p, page, {"space", "asOf"})

Selecting(p) == Starts("load", "memories", None, p) /\ p.space \in Spaces

Dating(date, p) ==
  Starts("asof", "facts", date, p) /\ p.asOf = date /\ p.space = page.space

UserAsks ==
  \/ Idle /\ Same(page', page, {"space", "asOf"})
  \/ \E kind, what, arg, p : Asking(kind, what, arg, p)
  \/ \E p : Selecting(p)
  \/ \E date, p : Dating(date, p)

LEMMA UserQuestions ==
  ASSUME DOMAIN page = PageFields, User
  PROVE  UserAsks
<1>s. Same(page, page, {"space", "asOf"})
  BY DEF Same
<1>1. ASSUME NEW s \in Spaces, SelectSpace(s)
      PROVE  UserAsks
  <2> DEFINE p == [SelectedIn(page, s) EXCEPT !.loading = TRUE]
  <2>1. Starts("load", "memories", None, p)
    BY <1>1 DEF SelectSpace
  <2>2. p.space = s
    BY DEF SelectedIn, PageFields
  <2> HIDE DEF p
  <2> QED
    BY <2>1, <2>2 DEF UserAsks, Selecting
<1>2. CASE Submit
  <2>1. \/ HasRoom /\ \E what \in {"remember", "ingest"} : Starts(what, what, None, page)
        \/ Starts("create", "create", None, page)
        \/ Starts("recall", "recall", page.asOf, page)
    BY <1>2 DEF Submit
  <2>2. \E kind, what, arg : Asking(kind, what, arg, page)
    BY <1>s, <2>1 DEF Asking, Lists, Submissions
  <2> QED
    BY <2>2 DEF UserAsks
<1>3. ASSUME NEW mode, ForgetSelected(mode)
      PROVE  UserAsks
  <2>1. Starts("forget", "forget", <<page.episode, mode>>, page)
    BY <1>3 DEF ForgetSelected
  <2>2. Asking("forget", "forget", <<page.episode, mode>>, page)
    BY <1>s, <2>1 DEF Asking, Lists, Submissions
  <2> QED
    BY <2>2 DEF UserAsks
<1>4. ASSUME NEW e, SelectEpisode(e) \/ InspectEpisode(e) \/ SelectEdge(e)
      PROVE  UserAsks
  <2>1. Idle /\ \E d : page' = [page EXCEPT !.episode = d]
    BY <1>4 DEF SelectEpisode, InspectEpisode, SelectEdge
  <2> QED
    BY <2>1 DEF UserAsks, Same, PageFields
<1>5. ASSUME NEW date, ChangeAsOf(date)
      PROVE  UserAsks
  <2> DEFINE p == [page EXCEPT !.asOf = date]
  <2>1. Starts("asof", "facts", date, p)
    BY <1>5 DEF ChangeAsOf
  <2>2. p.asOf = date /\ p.space = page.space
    BY DEF PageFields
  <2> HIDE DEF p
  <2> QED
    BY <2>1, <2>2 DEF UserAsks, Dating
<1>6. CASE PreviewExtract
  <2> DEFINE p == [page EXCEPT !.busy = TRUE, !.glow = {}]
  <2>1. Starts("preview", "preview", None, p)
    BY <1>6 DEF PreviewExtract
  <2>2. Same(p, page, {"space", "asOf"})
    BY DEF Same, PageFields
  <2> HIDE DEF p
  <2>3. Asking("preview", "preview", None, p)
    BY <2>1, <2>2 DEF Asking, Lists, Submissions
  <2> QED
    BY <2>3 DEF UserAsks
<1>7. ASSUME NEW kind, NEW items, Accept(kind, items)
      PROVE  UserAsks
  <2> DEFINE p == [page EXCEPT !.busy = TRUE]
  <2>1. Starts(kind, "accept", items, p)
    BY <1>7 DEF Accept
  <2>2. Same(p, page, {"space", "asOf"})
    BY DEF Same, PageFields
  <2> HIDE DEF p
  <2>3. Asking(kind, "accept", items, p)
    BY <2>1, <2>2 DEF Asking, Lists, Submissions
  <2> QED
    BY <2>3 DEF UserAsks
<1>8. ASSUME NEW items, Skip(items)
      PROVE  UserAsks
  <2>1. Idle /\ page' = [page EXCEPT !.review = @ \ items]
    BY <1>8 DEF Skip
  <2> QED
    BY <2>1 DEF UserAsks, Same, PageFields
<1> QED
  BY <1>1, <1>2, <1>3, <1>4, <1>5, <1>6, <1>7, <1>8 DEF User

\* A step that changes nothing a list depends on.
LEMMA SameAgrees ==
  ASSUME server' = server, hist'.seen = hist.seen, NEW L, Now(L)' = Now(L)
  PROVE  \A v : Agrees(L, v) => Agrees(L, v)'
<1>1. Unheard' = Unheard
  BY DEF Unheard
<1> QED
  BY <1>1 DEF Agrees

LEMMA IdleFollowed ==
  ASSUME net' = net, tasks' = tasks, server' = server, Same(page', page, {"space", "asOf"}),
         Same(page', page, {"episodes", "timeline", "facts", "entities"}),
         hist'.misled = hist.misled, hist'.lost = hist.lost, hist'.seen = hist.seen,
         NEW L \in Lists, Followed(L)
  PROVE  Followed(L)'
<1>1. Now(L)' = Now(L) /\ Held(L)' = Held(L)
  BY HeldFields DEF Now, Same, Lists
<1>2. Will(L)' <=> Will(L)
  BY DEF Will, Unloaded, Projects
<1>3. \A v : Agrees(L, v) => Agrees(L, v)'
  BY <1>1, SameAgrees
<1>4. PICK h : h = Held(L)
  OBVIOUS
<1>5. Agrees(L, Held(L)) => Agrees(L, Held(L))'
  <2>1. Agrees(L, h) => Agrees(L, h)'
    BY <1>3
  <2> QED
    BY <1>1, <1>4, <2>1 DEF Agrees
<1> QED
  BY <1>2, <1>3, <1>5 DEF Followed

\* A question about no list, asked by a click or by the interval.
LEMMA AskingFollowed ==
  ASSUME NetOk, Slots \subseteq Nat, server' = server, hist'.misled = hist.misled,
         hist'.lost = hist.lost, hist'.seen = hist.seen,
         Same(page', page, {"episodes", "timeline", "facts", "entities"}),
         NEW kind, NEW what, NEW arg, NEW p, Starts(kind, what, arg, p), what \notin Lists,
         Same(p, page, {"space", "asOf"}), NEW L \in Lists, Followed(L)
  PROVE  Followed(L)'
<1>1. page' = p
  BY DEF Starts
<1>2. Held(L)' = Held(L)
  BY HeldFields DEF Same, Lists
<1>3. page'.space = page.space /\ page'.asOf = page.asOf
  BY <1>1 DEF Same
<1>4. Now(L)' = Now(L)
  BY <1>3 DEF Now
<1>5. \A v : Agrees(L, v) => Agrees(L, v)'
  BY <1>4, SameAgrees
<1>6. L # what
  OBVIOUS
<1> QED
  BY <1>2, <1>5, <1>6, StartsFollowed

LEMMA UserLists ==
  ASSUME WbShape, NetOk, Slots \subseteq Nat, ListsInv, User
  PROVE  \A L \in Lists : Followed(L)'
<1>1. /\ server' = server /\ hist'.misled = hist.misled /\ hist'.lost = hist.lost
      /\ hist'.seen = hist.seen
      /\ Same(page', page, {"episodes", "timeline", "facts", "entities"})
  <2>1. /\ server' = server
        /\ Same(page', page, PageFields \
                 {"space", "episode", "asOf", "busy", "loading", "review", "glow"})
        /\ Same(hist', hist, HistFields \ {"settled"})
    BY UserPage DEF WbShape
  <2> QED
    BY <2>1 DEF Same, PageFields, HistFields
<1>2. \A L \in Lists : Followed(L)
  BY DEF ListsInv
<1>3. CASE Idle /\ Same(page', page, {"space", "asOf"})
  BY <1>1, <1>2, <1>3, IdleFollowed DEF Idle
<1>4. ASSUME NEW kind, NEW what, NEW arg, NEW p, Asking(kind, what, arg, p)
      PROVE  \A L \in Lists : Followed(L)'
  BY <1>1, <1>2, <1>4, AskingFollowed DEF Asking
<1>5. ASSUME NEW p, Selecting(p)
      PROVE  \A L \in Lists : Followed(L)'
  <2>1. net' = Ask(net, FirstFree, "memories", None, p) /\ page'.space = p.space
    BY <1>5 DEF Selecting, Starts
  <2> QED
    BY <2>1, ReloadFollowed DEF NetOk
<1>6. ASSUME NEW date, NEW p, Dating(date, p)
      PROVE  \A L \in Lists : Followed(L)'
  <2>1. Starts("asof", "facts", date, p) /\ page' = p /\ p.asOf = date /\ p.space = page.space
    BY <1>6 DEF Dating, Starts
  <2>2. "facts" \notin Writes
    BY DEF Writes
  <2>3. /\ Asked(net', "facts")
        /\ FreshIn(net', "facts", Answer(server', "facts", page'.space, date))
    BY <2>1, <2>2, StartsExtends
  <2>4. Answer(server', "facts", page'.space, date) = Now("facts")'
    BY <2>1 DEF Now
  <2>5. Followed("facts")'
    BY <2>3, <2>4, AskedFollowed
  <2>6. Followed("entities")'
    BY <2>3 DEF Followed, Will
  <2>7. ASSUME NEW L \in {"memories", "timeline"}
        PROVE  Followed(L)'
    <3>1. Held(L)' = Held(L)
      BY <1>1, HeldFields DEF Same
    <3>2. Now(L)' = Now(L)
      BY <1>1, <2>1 DEF Now
    <3>3. Followed(L) /\ L # "facts"
      BY <1>2 DEF Lists
    <3>4. \A v : Agrees(L, v) => Agrees(L, v)'
      BY <1>1, <3>2, SameAgrees
    <3> QED
      BY <1>1, <2>1, <3>1, <3>3, <3>4, StartsFollowed
  <2> QED
    BY <2>5, <2>6, <2>7 DEF Lists
<1> QED
  BY <1>3, <1>4, <1>5, <1>6, UserQuestions DEF WbShape, UserAsks
-----------------------------------------------------------------------------
(***************************************************************************)
(* What the server, the spaces and the requests go on being.               *)
(***************************************************************************)
\* A new question is about the selected space and brings what the server has now.
IsNew(r) ==
  /\ r.space = page'.space
  /\ r.what = "poll" => r.body = server'.runs[r.arg]
  /\ r.what = "spaces" => r.body = server'.spaces

LEMMA AskNew ==
  ASSUME NEW n, NetShape(n), NEW t, NEW what, NEW arg, NEW p, p.space = page'.space
  PROVE  LET m == Ask(n, t, what, arg, p)
         IN \A j \in DOMAIN m : \/ j \in DOMAIN n /\ m[j] = n[j]
                                \/ IsNew(m[j]) /\ m[j].what = what /\ m[j].task = t
<1> DEFINE answer == Answer(server', what, p.space, arg)
           space == p.space
<1>a. /\ what = "poll" => answer = server'.runs[arg]
      /\ what = "spaces" => answer = server'.spaces
  BY DEF Answer
<1> HIDE DEF answer, space
<1> DEFINE body == IF what \in Writes THEN None ELSE answer
<1>b. what \in {"poll", "spaces"} => body = answer
  BY DEF Writes
<1> HIDE DEF body
<1> DEFINE r == [task |-> t, what |-> what, space |-> space, arg |-> arg,
                 late |-> FALSE, body |-> body]
           m == Append(n, r)
<1>1. Ask(n, t, what, arg, p) = m
  BY DEF Ask, body, space, answer
<1>2. r.what = what /\ r.arg = arg /\ r.body = body /\ r.task = t /\ r.space = space
  OBVIOUS
<1> HIDE DEF r
<1>3. /\ DOMAIN m = 1..(Len(n) + 1)
      /\ \A i \in 1..Len(n) : m[i] = n[i]
      /\ m[Len(n) + 1] = r
  BY AppendOne DEF NetShape
<1>4. DOMAIN n = 1..Len(n) /\ Len(n) \in Nat
  BY SeqDomain DEF NetShape
<1>5. IsNew(r)
  BY <1>2, <1>a, <1>b DEF IsNew, space
<1> HIDE DEF m
<1>6. \A j \in DOMAIN m : \/ j \in DOMAIN n /\ m[j] = n[j]
                          \/ IsNew(m[j]) /\ m[j].what = what /\ m[j].task = t
  BY <1>2, <1>3, <1>4, <1>5
<1> QED
  BY <1>1, <1>6

\* What an answer asks is no edit, and spaces are asked for once one is created.
News(i, a) ==
  \A j \in DOMAIN net' :
    \/ j \in DOMAIN Leave(i) /\ net'[j] = Leave(i)[j]
    \/ /\ IsNew(net'[j]) /\ net'[j].what \notin Submissions
       /\ net'[j].what = "spaces" =>
            net[i].what = "create" /\ a.ok /\ tasks'[net'[j].task].arg = a.body

LEMMA HearNews ==
  ASSUME DOMAIN page = PageFields, NetOk, NEW i \in DOMAIN net, NEW a, Hear(i, a)
  PROVE  News(i, a)
<1> DEFINE t == net[i].task
           n == Leave(i)
<1>1. NetShape(n)
  BY HeardOne
<1>2. HeardAs(i, a)
  BY HearAsks
<1> HIDE DEF n, t
<1>d. n = Leave(i) /\ t = net[i].task
  BY DEF n, t
<1>3. ASSUME NEW what, NEW arg, AsksFor(n, t, what, arg), what \notin Submissions,
             what = "spaces" => net[i].what = "create" /\ a.ok /\ tasks'[t].arg = a.body
      PROVE  News(i, a)
  <2>1. PICK p : net' = Ask(n, t, what, arg, p) /\ p.space = page'.space
    BY <1>3 DEF AsksFor
  <2>2. \A j \in DOMAIN net' : \/ j \in DOMAIN n /\ net'[j] = n[j]
                               \/ IsNew(net'[j]) /\ net'[j].what = what /\ net'[j].task = t
    BY <1>1, <2>1, AskNew
  <2> QED
    BY <1>3, <1>d, <2>2 DEF News
<1>4. CASE net' = n
  BY <1>4, <1>d DEF News
<1>5. CASE Projecting(i)
  <2>1. PICK p : net' = Project(n, t, p) /\ p.space = page'.space
    BY <1>5, <1>d DEF Projecting
  <2> DEFINE l == Ask(n, t, "timeline", None, p)
             m == Ask(l, t, "facts", p.asOf, p)
  <2>2. net' = m
    BY <2>1 DEF Project
  <2>3. /\ NetShape(l)
        /\ \A j \in DOMAIN l : \/ j \in DOMAIN n /\ l[j] = n[j]
                               \/ IsNew(l[j]) /\ l[j].what = "timeline"
    BY <1>1, <2>1, AskNew, AskShape
  <2> HIDE DEF l
  <2>4. \A j \in DOMAIN m : \/ j \in DOMAIN l /\ m[j] = l[j]
                            \/ IsNew(m[j]) /\ m[j].what = "facts"
    BY <2>1, <2>3, AskNew
  <2> HIDE DEF m
  <2>5. \A j \in DOMAIN m : \/ j \in DOMAIN n /\ m[j] = n[j]
                            \/ IsNew(m[j]) /\ m[j].what \in {"timeline", "facts"}
    BY <2>3, <2>4
  <2> QED
    BY <1>d, <2>2, <2>5 DEF News, Submissions
<1>6. CASE Reloads(i)
  BY <1>3, <1>6, <1>d DEF Reloads, Submissions
<1>7. CASE FallsBack(i)
  BY <1>3, <1>7, <1>d DEF FallsBack, Submissions
<1>8. CASE Names(i)
  BY <1>3, <1>8, <1>d DEF Names, Submissions
<1>9. CASE Rests(i, a)
  <2>1. CASE \E what \in {"recall", "poll"} : \E arg : AsksFor(n, t, what, arg)
    BY <1>3, <2>1 DEF Submissions
  <2>2. CASE CreatedIn(i, a)
    BY <1>3, <1>d, <2>2 DEF CreatedIn, Submissions
  <2> QED
    BY <1>4, <1>9, <1>d, <2>1, <2>2 DEF Rests
<1>10. CASE Shelves(i)
  BY <1>4, <1>10, <1>d DEF Shelves
<1> QED
  BY <1>2, <1>5, <1>6, <1>7, <1>8, <1>9, <1>10 DEF HeardAs

\* A request goes on being right while runs that ended stay ended.
LEMMA RequestKept ==
  ASSUME NEW r, RequestOk(r),
         \A e \in Episodes : server.runs[e] \in Terminal => server'.runs[e] \in Terminal,
         r.what = "spaces" /\ tasks'[r.task].kind = "create" =>
           tasks[r.task].kind = "create" /\ tasks'[r.task].arg = tasks[r.task].arg
  PROVE  RequestOk(r)'
<1>1. r' = r
  OBVIOUS
<1> QED
  BY DEF RequestOk

\* Requests alike but for being late are alike.
LEMMA SameRequest ==
  ASSUME NEW r, NEW s, RequestOk(r),
         s.task = r.task, s.what = r.what, s.space = r.space, s.arg = r.arg, s.body = r.body
  PROVE  RequestOk(s)
  BY DEF RequestOk

\* The page selects a space that exists.
LEMMA KnowSpacesIn ==
  ASSUME NEW p, DOMAIN p = PageFields, p.space \in Spaces, NEW S, S \subseteq Spaces
  PROVE  KnowSpaces(p, S).space \in Spaces
<1> DEFINE s == IF p.space \in S \/ S = {} THEN p.space ELSE CHOOSE s \in S : TRUE
<1>1. s \in Spaces
  <2>1. CASE p.space \in S \/ S = {}
    BY <2>1
  <2>2. CASE ~(p.space \in S \/ S = {})
    BY <2>2
  <2> QED
    BY <2>1, <2>2
<1>2. KnowSpaces(p, S).space = s
  BY DEF KnowSpaces, PageFields
<1> QED
  BY <1>1, <1>2

LEMMA HearSelects ==
  ASSUME WbShape, NetOk, ServerInv, NEW i \in DOMAIN net, NEW a \in Outcomes(net[i]), Hear(i, a)
  PROVE  page'.space \in Spaces
<1> DEFINE q == net[i]
           t == net[i].task
           n == Leave(i)
           p == IF q.what = "spaces" /\ a.ok THEN KnowSpaces(page, a.body) ELSE page
<1>1. /\ page.space \in Spaces /\ DOMAIN page = PageFields
      /\ q.what = "spaces" => /\ q.body \subseteq Spaces
                              /\ tasks[t].kind = "create" => tasks[t].arg \in Spaces
  BY DEF WbShape, ServerInv, SpaceInv, RequestsInv, RequestOk
<1>2. a.ok /\ q.what = "spaces" => a.body = q.body
  BY OutcomeKind DEF ServerInv, WbShape, Writes
<1>3. DOMAIN p = PageFields /\ p.space \in Spaces
  BY <1>1, <1>2, KnowSpacesPage, KnowSpacesIn
<1>4. CASE q.what \notin Shelf
  BY <1>1, <1>4, HearSpace
<1>5. CASE HearBootstrap(i, a)
  <2>1. page' = p \/ page' = [p EXCEPT !.loading = TRUE]
    BY <1>5 DEF HearBootstrap, Load
  <2> HIDE DEF p
  <2> QED
    BY <1>3, <2>1 DEF PageFields
<1>6. CASE HearCreated(i, a) /\ q.what \in Shelf
  <2>1. /\ q.what = "spaces" /\ tasks[t].kind = "create"
        /\ Load(n, t, SelectedIn(p, tasks[t].arg))
    BY <1>6 DEF HearCreated, Shelf
  <2> HIDE DEF p, t, q, n
  <2>2. tasks[t].arg \in Spaces
    BY <1>1, <2>1
  <2>3. page'.space = tasks[t].arg
    BY <1>3, <2>1 DEF Load, SelectedIn, PageFields
  <2> QED
    BY <2>2, <2>3
<1>7. CASE q.what \in Shelf
  <2>1. HearBootstrap(i, a) \/ HearCreated(i, a)
    BY <1>7 DEF Hear, HearMemories, HearTimeline, HearFallback, HearFacts, Shelf, HearEdit,
         HearEntities, HearRecall, HearIngest, HearPoll, HearPreview, HearAccept
  <2> QED
    BY <1>5, <1>6, <1>7, <2>1
<1> QED
  BY <1>4, <1>7

\* Spaces that one handler waits for while it hears of another question are the shelf's.
LEMMA ShelfStays ==
  ASSUME DOMAIN page = PageFields, NetOk, NEW i \in DOMAIN net, NEW a, Hear(i, a),
         NEW j \in DOMAIN Leave(i), Leave(i)[j].what = "spaces"
  PROVE  LET u == Leave(i)[j].task
         IN tasks'[u].kind = "create" => tasks'[u] = tasks[u]
<1> DEFINE t == net[i].task
           u == Leave(i)[j].task
<1>1. /\ \A v \in Slots : v # t => tasks'[v] = tasks[v]
      /\ GoesOn(i, a) \/ Finishes(i) \/ Waits(i) \/ Releases(i, a)
  BY HearOutcome DEF Outcome
<1>2. /\ Was(i, j) \in DOMAIN net /\ net[Was(i, j)].task = u /\ net[Was(i, j)].what = "spaces"
      /\ u = t => tasks[t].stage \in {"none", "load"}
  BY LeaveOne, LeaveKeepsNet DEF NetOk
<1>3. /\ u \in Slots
      /\ \/ tasks[u].kind = "bootstrap" /\ tasks[u].stage = "none"
         \/ tasks[u].kind = "create" /\ tasks[u].stage = "first"
  BY <1>2, WhoAsked DEF NetOk
<1>4. CASE u # t
  BY <1>1, <1>3, <1>4
<1>5. CASE u = t
  <2>1. tasks[t].kind = "bootstrap"
    BY <1>2, <1>3, <1>5
  <2>2. GoesOn(i, a) => tasks'[t].kind = "bootstrap"
    BY <2>1 DEF GoesOn
  <2>3. Waits(i) => tasks'[t].kind = "bootstrap"
    BY <2>1 DEF Waits
  <2>4. Finishes(i) \/ Releases(i, a) => tasks'[t].kind = "free"
    BY DEF Finishes, Releases, Free
  <2> QED
    BY <1>1, <1>5, <2>2, <2>3, <2>4
<1> QED
  BY <1>4, <1>5

LEMMA HearRequests ==
  ASSUME WbShape, NetOk, ServerInv, MaxEpisodes \in Nat, None \notin Spaces,
         NEW i \in DOMAIN net, NEW a \in Outcomes(net[i]), Hear(i, a)
  PROVE  RequestsInv'
<1>1. page'.space \in Spaces
  BY HearSelects
<1>2. News(i, a)
  BY HearNews DEF WbShape
<1>3. /\ server' = a.server /\ server'.spaces \subseteq Spaces
      /\ \A e \in Episodes : server.runs[e] \in Terminal => server'.runs[e] \in Terminal
  <2>1. server' = a.server
    BY HearRemembers DEF WbShape
  <2>2. /\ a.server.spaces \subseteq Spaces
        /\ \A e \in Episodes : server.runs[e] \in Terminal => a.server.runs[e] \in Terminal
    BY OutcomeRuns DEF WbShape
  <2> QED
    BY <2>1, <2>2
<1>4. ASSUME NEW j \in DOMAIN net', NEW s, s = net'[j]
      PROVE  RequestOk(s)'
  <2>1. CASE j \in DOMAIN Leave(i) /\ s = Leave(i)[j]
    <3>1. PICK r : r = net[Was(i, j)]
      OBVIOUS
    <3>2. /\ Was(i, j) \in DOMAIN net
          /\ s.task = r.task /\ s.what = r.what /\ s.space = r.space /\ s.arg = r.arg
          /\ s.body = r.body
      BY <2>1, <3>1, LeaveOne DEF NetOk
    <3>3. RequestOk(r)
      BY <3>1, <3>2 DEF ServerInv, RequestsInv
    <3>4. RequestOk(s)
      BY <3>2, <3>3, SameRequest
    <3>5. s.what = "spaces" /\ tasks'[s.task].kind = "create" => tasks'[s.task] = tasks[s.task]
      BY <2>1, ShelfStays DEF WbShape
    <3> QED
      BY <1>3, <3>4, <3>5, RequestKept
  <2>2. CASE /\ IsNew(s)
             /\ s.what = "spaces" =>
                  net[i].what = "create" /\ a.ok /\ tasks'[s.task].arg = a.body
    <3>1. s.what = "spaces" => tasks'[s.task].arg \in Spaces
      BY <2>2, OutcomeKind DEF ServerInv, WbShape
    <3> QED
      BY <1>1, <1>3, <2>2, <3>1 DEF RequestOk, IsNew
  <2> QED
    BY <1>2, <1>4, <2>1, <2>2 DEF News
<1> QED
  BY <1>4 DEF RequestsInv


\* What the page has seen end has ended.
LEMMA HearRuns ==
  ASSUME WbShape, NetOk, ServerInv, MaxEpisodes \in Nat, None \notin Spaces,
         NEW i \in DOMAIN net, NEW a \in Outcomes(net[i]), Hear(i, a)
  PROVE  RunsInv'
<1>1. /\ server' = a.server
      /\ hist'.seen = IF net[i].what = "poll" /\ a.ok /\ a.body \in Terminal
                      THEN hist.seen \union {net[i].arg} ELSE hist.seen
  BY HearRemembers DEF WbShape
<1>2. LET d == a.server
      IN /\ DOMAIN d.home = Episodes /\ DOMAIN d.runs = Episodes
         /\ \A e \in Episodes : d.home[e] = None => d.runs[e] = "none" /\ e \notin d.stored
         /\ \A e \in Episodes : server.runs[e] \in Terminal => d.runs[e] \in Terminal
         /\ d.stored \subseteq Episodes
  BY OutcomeRuns DEF WbShape
<1>3. ASSUME net[i].what = "poll", a.ok, a.body \in Terminal, net[i].arg \in Episodes
      PROVE  server.runs[net[i].arg] \in Terminal
  <2>1. a.body = net[i].body
    BY <1>3, OutcomeKind DEF ServerInv, WbShape, Writes
  <2> QED
    BY <1>3, <2>1 DEF ServerInv, RequestsInv, RequestOk
<1>4. \A e \in Episodes \intersect hist'.seen : server.runs[e] \in Terminal
  BY <1>1, <1>3 DEF ServerInv, RunsInv
<1> QED
  BY <1>1, <1>2, <1>4 DEF RunsInv

\* A submission that is answered gives up its place to the episode it stored.
LEMMA HearRoom ==
  ASSUME WbShape, NetOk, ServerInv, MaxEpisodes \in Nat, None \notin Spaces,
         NEW i \in DOMAIN net, NEW a \in Outcomes(net[i]), Hear(i, a)
  PROVE  RoomInv'
<1> DEFINE I == {k \in DOMAIN net : net[k].what \in Submissions}
           J == {j \in DOMAIN net' : net'[j].what \in Submissions}
           V == Used'
           g == [j \in J |-> Was(i, j)]
           m == Cardinality(I)
           u == Cardinality(Used)
<1>1. /\ IsFiniteSet(Used) /\ u \in Nat /\ IsFiniteSet(I) /\ m \in Nat
      /\ u + m <= MaxEpisodes
  <2>1. InFlight(Submissions) = m
    BY DEF InFlight
  <2> QED
    BY <2>1, CountedSets DEF ServerInv, RoomInv, NetOk
<1>2. News(i, a)
  BY HearNews DEF WbShape
<1>3. \A j \in J : j \in DOMAIN Leave(i) /\ net'[j] = Leave(i)[j]
  BY <1>2 DEF News
<1>4. \A j \in J : Was(i, j) \in I \ {i}
  BY <1>3, LeaveOne DEF NetOk
<1>5. \A j, k \in J : j # k => Was(i, j) # Was(i, k)
  <2>1. J \subseteq Int /\ i \in Int
    BY <1>3, LeaveOne, SeqDomain DEF NetOk, NetShape
  <2> QED
    BY <2>1, WasDiffers
<1>6. IsFiniteSet(J) /\ Cardinality(J) <= Cardinality(I \ {i})
  <2>1. IsFiniteSet(I \ {i})
    BY <1>1, FS_RemoveElement
  <2>2. g \in [J -> I \ {i}]
    BY <1>4
  <2>3. g \in Injection(J, I \ {i})
    BY <1>5, <2>2 DEF Injection, IsInjective
  <2> QED
    BY <2>1, <2>3, FS_Injection
<1>7. Cardinality(I \ {i}) = IF net[i].what \in Submissions THEN m - 1 ELSE m
  BY <1>1, FS_RemoveElement
<1>8. V \subseteq Used \union (IF net[i].what \in Submissions THEN {NextEpisode} ELSE {})
  <2>1. server' = a.server
    BY HearRemembers DEF WbShape
  <2>2. \A e \in Episodes : a.server.home[e] # None =>
          e \in Used \/ (net[i].what \in Submissions /\ e = NextEpisode)
    BY OutcomeRuns DEF WbShape
  <2>3. V = {e \in Episodes : a.server.home[e] # None}
    BY <2>1 DEF Used
  <2> QED
    BY <2>2, <2>3
<1>9. /\ IsFiniteSet(V)
      /\ Cardinality(V) <= IF net[i].what \in Submissions THEN u + 1 ELSE u
  <2>1. CASE net[i].what \in Submissions
    <3>1. V \subseteq Used \union {NextEpisode}
      BY <1>8, <2>1
    <3> HIDE DEF V
    <3>2. /\ IsFiniteSet(Used \union {NextEpisode})
          /\ Cardinality(Used \union {NextEpisode}) <= u + 1
      <4>1. PICK U, e : U = Used /\ e = NextEpisode
        OBVIOUS
      <4>2. IsFiniteSet(U) /\ Cardinality(U) \in Nat /\ Cardinality(U) = u
        BY <1>1, <4>1
      <4>3. /\ IsFiniteSet(U \union {e})
            /\ Cardinality(U \union {e}) = IF e \in U THEN Cardinality(U) ELSE Cardinality(U) + 1
        BY <4>2, FS_AddElement
      <4> HIDE DEF u
      <4>4. Cardinality(U \union {e}) <= u + 1
        BY <4>2, <4>3
      <4> QED
        BY <4>1, <4>3, <4>4
    <3>3. IsFiniteSet(V) /\ Cardinality(V) <= Cardinality(Used \union {NextEpisode})
      BY <3>1, <3>2, FS_Subset
    <3> QED
      BY <1>1, <2>1, <3>2, <3>3, FS_CardinalityType
  <2>2. CASE net[i].what \notin Submissions
    <3>1. V \subseteq Used
      BY <1>8, <2>2
    <3> HIDE DEF V
    <3> QED
      BY <1>1, <2>2, <3>1, FS_Subset
  <2> QED
    BY <2>1, <2>2
<1>10. Cardinality(V) + Cardinality(J) <= MaxEpisodes
  <2>1. Cardinality(V) \in Nat /\ Cardinality(J) \in Nat /\ Cardinality(I \ {i}) \in Int
    BY <1>1, <1>6, <1>7, <1>9, FS_CardinalityType
  <2> HIDE DEF V, J, I, m, u
  <2> QED
    BY <1>1, <1>6, <1>7, <1>9, <2>1
<1> QED
  BY <1>10 DEF RoomInv, InFlight

LEMMA HearServer ==
  ASSUME WbShape, NetOk, ServerInv, MaxEpisodes \in Nat, None \notin Spaces,
         NEW i \in DOMAIN net, NEW a \in Outcomes(net[i]), Hear(i, a)
  PROVE  ServerInv'
<1>1. RunsInv' /\ RequestsInv' /\ RoomInv' /\ page'.space \in Spaces
  BY HearRuns, HearRequests, HearRoom, HearSelects
<1>2. server'.spaces \subseteq Spaces
  <2>1. server' = a.server
    BY HearRemembers DEF WbShape
  <2>2. a.server.spaces \subseteq Spaces
    BY OutcomeRuns DEF WbShape
  <2> QED
    BY <2>1, <2>2
<1> QED
  BY <1>1, <1>2 DEF ServerInv, SpaceInv

\* A step that leaves the server, the requests and the selection alone.
LEMMA IdleServer ==
  ASSUME ServerInv, net' = net, tasks' = tasks, server' = server, hist'.seen = hist.seen,
         page'.space = page.space
  PROVE  ServerInv'
<1>1. RunsInv' /\ SpaceInv'
  BY DEF ServerInv, RunsInv, SpaceInv
<1>2. RequestsInv'
  BY DEF ServerInv, RequestsInv, RequestOk
<1>3. RoomInv'
  BY DEF ServerInv, RoomInv, InFlight, Used
<1> QED
  BY <1>1, <1>2, <1>3 DEF ServerInv

\* A question about a space that exists, asked when there is room for it.
LEMMA AskedServer ==
  ASSUME NetOk, Slots \subseteq Nat, MaxEpisodes \in Nat, ServerInv,
         server' = server, hist'.seen = hist.seen,
         NEW kind, NEW what, NEW arg, NEW p, Starts(kind, what, arg, p),
         p.space \in Spaces, what # "spaces", what \in Submissions => HasRoom
  PROVE  ServerInv'
<1>1. /\ net' = Ask(net, FirstFree, what, arg, p) /\ page' = p
      /\ Extends(net', net)
      /\ \A t \in Slots : tasks[t] # Free => tasks'[t] = tasks[t]
  BY StartsExtends DEF Starts
<1>2. RunsInv' /\ SpaceInv'
  BY <1>1 DEF ServerInv, RunsInv, SpaceInv
<1>3. \A j \in DOMAIN net' : \/ j \in DOMAIN net /\ net'[j] = net[j]
                             \/ IsNew(net'[j]) /\ net'[j].what = what
  BY <1>1, AskNew DEF NetOk
<1>4. ASSUME NEW j \in DOMAIN net', NEW s, s = net'[j]
      PROVE  RequestOk(s)'
  <2>1. CASE j \in DOMAIN net /\ s = net[j]
    <3>1. RequestOk(s)
      BY <2>1 DEF ServerInv, RequestsInv
    <3>2. s.task \in Slots /\ tasks[s.task].kind # "free"
      BY <2>1 DEF NetOk, NetInv, Fits
    <3>3. tasks'[s.task] = tasks[s.task]
      <4>1. Free.kind = "free"
        BY DEF Free
      <4>2. tasks[s.task] # Free
        BY <3>2, <4>1
      <4> QED
        BY <1>1, <3>2, <4>2
    <3> QED
      BY <3>1, <3>3, RequestKept
  <2>2. CASE IsNew(s) /\ s.what = what
    BY <1>1, <2>2 DEF RequestOk, IsNew
  <2> QED
    BY <1>3, <1>4, <2>1, <2>2
<1>5. RequestsInv'
  BY <1>4 DEF RequestsInv
<1>6. RoomInv'
  <2> DEFINE I == {k \in DOMAIN net : net[k].what \in Submissions}
             J == {j \in DOMAIN net' : net'[j].what \in Submissions}
             u == Cardinality(Used)
             l == Len(net) + 1
  <2>1. IsFiniteSet(I) /\ Cardinality(I) \in Nat /\ u \in Nat /\ u + Cardinality(I) <= MaxEpisodes
    <3>1. InFlight(Submissions) = Cardinality(I)
      BY DEF InFlight
    <3> QED
      BY <3>1, CountedSets DEF ServerInv, RoomInv, NetOk
  <2>2. DOMAIN net = 1..Len(net) /\ Len(net) \in Nat
    BY SeqDomain DEF NetOk, NetShape
  <2>3. DOMAIN net' = 1..(Len(net) + 1)
    <3>1. PICK r : net' = Append(net, r)
      BY <1>1 DEF Ask
    <3> QED
      BY <3>1, AppendOne DEF NetOk, NetShape
  <2>4. J \subseteq I \union (IF what \in Submissions THEN {l} ELSE {})
    BY <1>1, <1>3, <2>2, <2>3 DEF Extends
  <2>5. what \in Submissions => u + Cardinality(I) < MaxEpisodes
    BY DEF HasRoom, InFlight, Submissions
  <2>6. Used' = Used
    BY DEF Used
  <2> HIDE DEF I, J, u, l
  <2>7. /\ IsFiniteSet(I \union {l})
        /\ Cardinality(I \union {l}) = IF l \in I THEN Cardinality(I) ELSE Cardinality(I) + 1
    BY <2>1, FS_AddElement
  <2>8. u + Cardinality(J) <= MaxEpisodes
    <3>1. CASE what \in Submissions
      <4>1. IsFiniteSet(J) /\ Cardinality(J) <= Cardinality(I \union {l})
        BY <2>4, <2>7, <3>1, FS_Subset
      <4>2. Cardinality(J) \in Nat
        BY <4>1, FS_CardinalityType
      <4> QED
        BY <2>1, <2>5, <2>7, <3>1, <4>1, <4>2
    <3>2. CASE what \notin Submissions
      <4>1. IsFiniteSet(J) /\ Cardinality(J) <= Cardinality(I)
        BY <2>1, <2>4, <3>2, FS_Subset
      <4>2. Cardinality(J) \in Nat
        BY <4>1, FS_CardinalityType
      <4> QED
        BY <2>1, <4>1, <4>2
    <3> QED
      BY <3>1, <3>2
  <2> QED
    BY <2>6, <2>8 DEF RoomInv, InFlight, J, u
<1> QED
  BY <1>2, <1>5, <1>6 DEF ServerInv

LEMMA UserServer ==
  ASSUME WbShape, NetOk, Slots \subseteq Nat, MaxEpisodes \in Nat, ServerInv, User
  PROVE  ServerInv'
<1>1. server' = server /\ hist'.seen = hist.seen
  <2>1. server' = server /\ Same(hist', hist, HistFields \ {"settled"})
    BY UserPage DEF WbShape
  <2> QED
    BY <2>1 DEF Same, HistFields
<1>2. page.space \in Spaces
  BY DEF ServerInv, SpaceInv
<1>3. CASE Idle /\ Same(page', page, {"space", "asOf"})
  BY <1>1, <1>3, IdleServer DEF Idle, Same
<1>4. ASSUME NEW kind, NEW what, NEW arg, NEW p, Asking(kind, what, arg, p)
      PROVE  ServerInv'
  <2>1. p.space \in Spaces
    BY <1>2, <1>4 DEF Asking, Same
  <2>2. Starts(kind, what, arg, p) /\ what # "spaces" /\ (what \in Submissions => HasRoom)
    BY <1>4 DEF Asking
  <2> QED
    BY <1>1, <2>1, <2>2, AskedServer
<1>5. ASSUME NEW p, Selecting(p)
      PROVE  ServerInv'
  <2>1. Starts("load", "memories", None, p) /\ p.space \in Spaces
    BY <1>5 DEF Selecting
  <2>2. "memories" \notin Submissions
    BY DEF Submissions
  <2> QED
    BY <1>1, <2>1, <2>2, AskedServer
<1>6. ASSUME NEW date, NEW p, Dating(date, p)
      PROVE  ServerInv'
  <2>1. Starts("asof", "facts", date, p) /\ p.space \in Spaces
    BY <1>2, <1>6 DEF Dating
  <2>2. "facts" \notin Submissions
    BY DEF Submissions
  <2> QED
    BY <1>1, <2>1, <2>2, AskedServer
<1> QED
  BY <1>3, <1>4, <1>5, <1>6, UserQuestions DEF WbShape, UserAsks
-----------------------------------------------------------------------------
(***************************************************************************)
(* The interval, the worker and the frames.                                *)
(***************************************************************************)
LEMMA TickCurrent ==
  ASSUME WbShape, NetOk, Slots \subseteq Nat, MaxEpisodes \in Nat, ServerInv, ListsInv,
         NEW e, PollTick(e)
  PROVE  ServerInv' /\ ListsInv'
<1>1. Starts("poll", "poll", e, page) /\ server' = server /\ hist' = hist /\ page' = page
  BY DEF PollTick, Starts
<1>2. page.space \in Spaces
  BY DEF ServerInv, SpaceInv
<1>3. "poll" \notin Submissions /\ "poll" \notin Lists
  BY DEF Submissions, Lists
<1>4. ServerInv'
  BY <1>1, <1>2, <1>3, AskedServer
<1>5. ASSUME NEW L \in Lists
      PROVE  Followed(L)'
  <2>1. Followed(L)
    BY DEF ListsInv
  <2>2. Same(page, page, {"space", "asOf"})
        /\ Same(page', page, {"episodes", "timeline", "facts", "entities"})
    BY <1>1 DEF Same
  <2> QED
    BY <1>1, <1>3, <2>1, <2>2, AskingFollowed
<1> QED
  BY <1>4, <1>5 DEF ListsInv

\* The page has not heard of a run as it ends.
LEMMA WorkerCurrent ==
  ASSUME WbShape, ServerInv, ListsInv, NEW e \in Episodes, WorkerEnds(e)
  PROVE  ServerInv' /\ ListsInv'
<1>1. PICK status \in Terminal :
        server' = [server EXCEPT !.runs[e] = status,
                     !.stored = IF status = "succeeded" THEN @ \union {e} ELSE @]
  BY DEF WorkerEnds
<1>2. server.runs[e] = "queued" /\ net' = net /\ tasks' = tasks /\ hist' = hist /\ page' = page
  BY DEF WorkerEnds
<1>3. /\ server'.home = server.home /\ server'.spaces = server.spaces
      /\ DOMAIN server'.runs = Episodes
      /\ \A f \in Episodes : server'.runs[f] = IF f = e THEN status ELSE server.runs[f]
      /\ server'.stored \subseteq server.stored \union {e}
  BY <1>1 DEF WbShape, ServerFields, ServerInv, RunsInv
<1>4. server.home[e] # None
  BY <1>2 DEF ServerInv, RunsInv
<1>5. RunsInv'
  BY <1>1, <1>2, <1>3, <1>4 DEF ServerInv, RunsInv
<1>6. SpaceInv' /\ RoomInv'
  BY <1>2, <1>3 DEF ServerInv, SpaceInv, RoomInv, InFlight, Used
<1>7. RequestsInv'
  <2>1. \A f \in Episodes : server.runs[f] \in Terminal => server'.runs[f] \in Terminal
    BY <1>1, <1>3
  <2> QED
    BY <1>2, <2>1 DEF ServerInv, RequestsInv, RequestOk
<1>8. e \notin hist.seen /\ e \in Unheard' /\ Unheard \subseteq Unheard'
  <2>1. e \notin hist.seen
    BY <1>2 DEF ServerInv, RunsInv, Terminal
  <2> QED
    BY <1>1, <1>2, <1>3, <2>1 DEF Unheard, Terminal
<1>9. server'.active = server.active /\ server'.named = server.named
  BY <1>1 DEF WbShape, ServerFields
<1>10. server.stored \subseteq server'.stored
  BY <1>1 DEF WbShape, ServerFields
<1>11. ASSUME NEW L \in {"memories", "timeline"}
       PROVE  Now(L)' \ Unheard' = Now(L) \ Unheard'
  <2>1. Now(L) = Visible(server, page.space) /\ Now(L)' = Visible(server', page.space)
    BY <1>2 DEF Now, Answer
  <2>2. PICK s, u : s = page.space /\ u = Unheard'
    OBVIOUS
  <2>3. Visible(server', s) \ u = Visible(server, s) \ u
    BY <1>3, <1>8, <1>10, <2>2 DEF Visible
  <2> QED
    BY <2>1, <2>2, <2>3
<1>12. ASSUME NEW L \in {"facts", "entities"}
       PROVE  Now(L)' = Now(L)
  BY <1>2, <1>9 DEF Now, Answer
<1>13. \A L \in Lists : \A v : Agrees(L, v) => Agrees(L, v)'
  BY <1>8, <1>11, <1>12, AgreesKept
<1>14. ASSUME NEW L \in Lists
       PROVE  Followed(L)'
  <2>1. Followed(L)
    BY DEF ListsInv
  <2>2. PICK h : h = Held(L)
    OBVIOUS
  <2>3. Held(L)' = Held(L)
    BY <1>2 DEF Held
  <2>4. Agrees(L, Held(L)) => Agrees(L, Held(L))'
    <3>1. Agrees(L, h) => Agrees(L, h)'
      BY <1>13
    <3> QED
      BY <2>2, <2>3, <3>1 DEF Agrees
  <2>5. Will(L)' <=> Will(L)
    BY <1>2 DEF Will, Unloaded, Projects
  <2>6. \A v : Agrees(L, v) => Agrees(L, v)'
    BY <1>13
  <2> QED
    BY <1>2, <2>1, <2>4, <2>5, <2>6 DEF Followed
<1> QED
  BY <1>5, <1>6, <1>7, <1>14 DEF ServerInv, ListsInv

\* A frame, or nothing.
LEMMA RestCurrent ==
  ASSUME ServerInv, ListsInv, RunFrame \/ UNCHANGED workbenchVars
  PROVE  ServerInv' /\ ListsInv'
<1>1. page' = page /\ net' = net /\ tasks' = tasks /\ server' = server /\ hist' = hist
  BY DEF RunFrame, workbenchVars
<1>2. ServerInv'
  BY <1>1, IdleServer
<1>3. ASSUME NEW L \in Lists
      PROVE  Followed(L)'
  <2>1. Followed(L)
    BY DEF ListsInv
  <2>2. /\ Same(page', page, {"space", "asOf"})
        /\ Same(page', page, {"episodes", "timeline", "facts", "entities"})
    BY <1>1 DEF Same
  <2> QED
    BY <1>1, <2>1, <2>2, IdleFollowed
<1> QED
  BY <1>2, <1>3 DEF ListsInv

-----------------------------------------------------------------------------
(***************************************************************************)
(* The lists are current.                                                  *)
(***************************************************************************)
CurrentInv == WorkbenchInv /\ ServerInv /\ ListsInv

LEMMA CurrentInit ==
  ASSUME WorkbenchInit
  PROVE  CurrentInv
<1>1. PICK t \in Slots :
        /\ tasks = [u \in Slots |-> IF u = t THEN [Free EXCEPT !.kind = "bootstrap"] ELSE Free]
        /\ net = [i \in 1..3 |->
                   [task |-> t, what |-> <<"principal", "workspaces", "spaces">>[i],
                    space |-> Default, arg |-> None, late |-> FALSE,
                    body |-> IF i = 3 THEN Existing ELSE None]]
  BY DEF WorkbenchInit
<1>2. WorkbenchInv
  BY WorkbenchInvInit
<1>3. /\ DOMAIN net = 1..3
      /\ \A i \in 1..3 : net[i].task = t /\ net[i].what \in Shelf /\ net[i].space = Default
      /\ net[3].what = "spaces" /\ net[3].body = Existing
      /\ \A i \in 1..3 : net[i].what = "spaces" => i = 3
  BY <1>1 DEF Shelf
<1>4. tasks[t].kind = "bootstrap"
  BY <1>1 DEF Free
<1>5. /\ Default \in Existing /\ Existing \subseteq Spaces /\ Stored \subseteq Episodes
      /\ None \notin Spaces /\ MaxEpisodes \in Nat
  BY WorkbenchConstants
<1>6. ListsInv
  BY <1>3, <1>4 DEF ListsInv, Followed, Will, Unloaded
<1>7. /\ server.spaces = Existing /\ server.stored = Stored
      /\ server.home = [e \in Episodes |-> IF e \in Stored THEN Default ELSE None]
      /\ server.runs = [e \in Episodes |-> "none"]
      /\ hist.seen = {} /\ page = EmptyPage
  BY DEF WorkbenchInit
<1>8. RunsInv
  BY <1>5, <1>7 DEF RunsInv
<1>9. SpaceInv
  BY <1>5, <1>7 DEF SpaceInv, EmptyPage
<1>10. RequestsInv
  BY <1>3, <1>4, <1>5 DEF RequestsInv, RequestOk, Shelf
<1>11. RoomInv
  <2>1. NetShape(net)
    BY <1>2 DEF WorkbenchInv, NetOk
  <2>2. /\ IsFiniteSet(Episodes) /\ Cardinality(Episodes) = MaxEpisodes
        /\ Cardinality(Used) \in Nat
    BY <1>5, <2>1, CountedSets
  <2>3. InFlight(Submissions) = 0
    <3>1. {i \in DOMAIN net : net[i].what \in Submissions} = {}
      BY <1>3 DEF Submissions, Shelf
    <3> QED
      BY <3>1, FS_EmptySet DEF InFlight
  <2>4. Cardinality(Used) <= Cardinality(Episodes)
    <3>1. Used \subseteq Episodes
      BY DEF Used
    <3> QED
      BY <2>2, <3>1, FS_Subset
  <2> QED
    BY <1>5, <2>2, <2>3, <2>4 DEF RoomInv
<1> QED
  BY <1>2, <1>6, <1>8, <1>9, <1>10, <1>11 DEF CurrentInv, ServerInv

LEMMA CurrentStep ==
  ASSUME CurrentInv, [WorkbenchNext]_workbenchVars
  PROVE  CurrentInv'
<1>1. Slots \subseteq Nat /\ MaxEpisodes \in Nat /\ None \notin Spaces
  BY WorkbenchConstants
<1>2. WorkbenchInv /\ WbShape /\ NetOk /\ ServerInv /\ ListsInv
  BY DEF CurrentInv, WorkbenchInv
<1>3. ASSUME User
      PROVE  ServerInv' /\ ListsInv'
  <2>1. ServerInv'
    BY <1>1, <1>2, <1>3, UserServer
  <2>2. ListsInv'
    BY <1>1, <1>2, <1>3, UserLists DEF ListsInv
  <2> QED
    BY <2>1, <2>2
<1>4. ASSUME NEW i \in DOMAIN net, NEW a \in Outcomes(net[i]), Hear(i, a)
      PROVE  ServerInv' /\ ListsInv'
  <2>1. ServerInv'
    BY <1>1, <1>2, <1>4, HearServer
  <2>2. ListsInv'
    BY <1>1, <1>2, <1>4, HearLists DEF ListsInv
  <2> QED
    BY <2>1, <2>2
<1>5. ASSUME NEW e \in Episodes, WorkerEnds(e)
      PROVE  ServerInv' /\ ListsInv'
  BY <1>2, <1>5, WorkerCurrent DEF ListsInv
<1>6. ASSUME NEW e \in Episodes, PollTick(e)
      PROVE  ServerInv' /\ ListsInv'
  BY <1>1, <1>2, <1>6, TickCurrent
<1>7. ASSUME RunFrame \/ UNCHANGED workbenchVars
      PROVE  ServerInv' /\ ListsInv'
  BY <1>2, <1>7, RestCurrent
<1>8. ServerInv' /\ ListsInv'
  BY <1>3, <1>4, <1>5, <1>6, <1>7 DEF WorkbenchNext
<1>9. WorkbenchInv'
  BY <1>2, WorkbenchInvStep
<1> QED
  BY <1>8, <1>9 DEF CurrentInv

\* Every list will be read again, is being read by a request that brings what the server
\* has, or agrees with the server unless the page was misled about it.
THEOREM CurrentInvariant == WorkbenchSpec => []CurrentInv
<1>1. WorkbenchInit => CurrentInv
  BY CurrentInit
<1>2. CurrentInv /\ [WorkbenchNext]_workbenchVars => CurrentInv'
  BY CurrentStep
<1> QED
  BY <1>1, <1>2, PTL DEF WorkbenchSpec

\* Nothing is on its way when all is quiet.
LEMMA CurrentIsQuiet ==
  ASSUME CurrentInv
  PROVE  ListsAreCurrentWhenQuiet
<1>1. ASSUME Quiet, NEW L \in Lists \ hist.misled
      PROVE  Agrees(L, Held(L))
  <2>1. DOMAIN net = {}
    <3>1. \A i \in DOMAIN net : net[i].task \in Slots /\ tasks[net[i].task].kind # "free"
      BY <1>1 DEF CurrentInv, WorkbenchInv, NetOk, NetInv, Fits
    <3>2. \A t \in Slots : tasks[t].kind = "free"
      BY <1>1 DEF Quiet, Free
    <3> QED
      BY <3>1, <3>2
  <2>2. \A t \in Slots : tasks[t].stage = "none"
    BY <1>1 DEF Quiet, Free
  <2>3. ~Will(L)
    BY <2>1, <2>2 DEF Will, Unloaded, Projects, Asked
  <2>4. \A v : ~FreshIn(net, L, v)
    BY <2>1 DEF FreshIn
  <2> QED
    BY <1>1, <2>3, <2>4 DEF CurrentInv, ListsInv, Followed
<1> QED
  BY <1>1 DEF ListsAreCurrentWhenQuiet

\* Once every handler has ended each list is what the server has for the selected space and
\* date, but for episodes of runs not heard of (loadSpaceProjections, loadMemories and its
\* fallbacks, loadFactsAndEntities, the as-of handler), unless a failed read, a late answer
\* or an edit whose answer was lost has left it otherwise since it last was.
THEOREM ListsAreCurrentWhenQuietCorrect == WorkbenchSpec => []ListsAreCurrentWhenQuiet
  BY CurrentIsQuiet, CurrentInvariant, PTL

-----------------------------------------------------------------------------
(***************************************************************************)
(* Behaviours in which every request is answered and no answer comes after *)
(* that of a newer read of the same list: no list is misled.               *)
(***************************************************************************)
PromptNext ==
  \/ User
  \/ \E i \in DOMAIN net : ~net[i].late /\ \E a \in Outcomes(net[i]) : a.ok /\ Hear(i, a)
  \/ \E e \in Episodes : WorkerEnds(e) \/ PollTick(e)
  \/ RunFrame

PromptSpec == WorkbenchInit /\ [][WorkbenchNext /\ PromptNext]_workbenchVars

NoneFallsBack == \A t \in Slots : tasks[t].stage # "fallback"
PromptInv == CurrentInv /\ hist.misled = {} /\ ~hist.lost /\ NoneFallsBack

\* Only a failed read of the memories falls back.
LEMMA PromptStage ==
  ASSUME DOMAIN page = PageFields, NetOk, NoneFallsBack, NEW i \in DOMAIN net, NEW a, a.ok,
         Hear(i, a)
  PROVE  NoneFallsBack'
<1> DEFINE t == net[i].task
           n == Leave(i)
<1>1. t \in Slots /\ TaskShape(tasks)
  BY HeardOne
<1>2. \A u \in Slots : u # t => tasks'[u] = tasks[u]
  BY HearOutcome DEF Outcome
<1> HIDE DEF t, n
<1>d. t = net[i].task /\ n = Leave(i)
  BY DEF t, n
<1>3. \/ tasks' = tasks \/ End(t) \/ Stage(t, "load") \/ Stage(t, "recall")
      \/ \E x : tasks' = [tasks EXCEPT ![t].arg = x]
      \/ \E x : tasks' = [tasks EXCEPT ![t].kind = x]
  <2>1. CASE HearBootstrap(i, a)
    BY <1>d, <2>1 DEF HearBootstrap, Load
  <2>2. CASE HearMemories(i, a) \/ HearFallback(i, a) \/ HearFacts(i, a)
    BY <1>d, <2>2 DEF HearMemories, HearFallback, HearFacts
  <2>3. ASSUME NEW p, Join(n, t, p)
        PROVE  tasks' = tasks \/ End(t) \/ Stage(t, "recall")
    BY <2>3 DEF Join, Loaded
  <2>4. CASE HearTimeline(i, a)
    <3>1. tasks[t].stage # "fallback"
      BY <1>1 DEF NoneFallsBack
    <3>2. \E p : Join(n, t, p)
      BY <1>d, <2>4, <3>1 DEF HearTimeline
    <3> QED
      BY <2>3, <3>2
  <2>5. CASE HearEntities(i, a)
    <3>1. \E p : Join(n, t, p)
      BY <1>d, <2>5 DEF HearEntities
    <3> QED
      BY <2>3, <3>1
  <2>6. CASE HearEdit(i, a) \/ HearPoll(i, a) \/ HearAccept(i, a)
    BY <1>d, <2>6 DEF HearEdit, HearPoll, HearAccept, Load
  <2>7. CASE HearCreated(i, a)
    BY <1>d, <2>7 DEF HearCreated, Load
  <2>8. CASE HearRecall(i, a) \/ HearIngest(i, a) \/ HearPreview(i, a)
    BY <1>d, <2>8 DEF HearRecall, HearIngest, HearPreview
  <2> QED
    BY <2>1, <2>2, <2>4, <2>5, <2>6, <2>7, <2>8 DEF Hear
<1>4. tasks'[t].stage # "fallback"
  <2>1. tasks[t].stage # "fallback"
    BY <1>1 DEF NoneFallsBack
  <2>2. CASE End(t) \/ Stage(t, "load") \/ Stage(t, "recall")
    BY <1>1, <2>2, EndStep, StageStep DEF Free
  <2>3. CASE tasks' = tasks
    BY <2>1, <2>3
  <2>4. CASE \/ \E x : tasks' = [tasks EXCEPT ![t].arg = x]
             \/ \E x : tasks' = [tasks EXCEPT ![t].kind = x]
    BY <1>1, <2>1, <2>4 DEF TaskShape
  <2> QED
    BY <1>3, <2>2, <2>3, <2>4
<1> QED
  BY <1>2, <1>4 DEF NoneFallsBack

LEMMA PromptHear ==
  ASSUME PromptInv, NEW i \in DOMAIN net, ~net[i].late, NEW a \in Outcomes(net[i]), a.ok, Hear(i, a)
  PROVE  hist'.misled = {} /\ ~hist'.lost /\ NoneFallsBack'
<1> DEFINE q == net[i]
<1>1. DOMAIN page = PageFields /\ DOMAIN hist = HistFields /\ NetOk
  BY DEF PromptInv, CurrentInv, WorkbenchInv, WbShape
<1>2. NoneFallsBack'
  BY <1>1, PromptStage DEF PromptInv
<1>3. Hears(i, a)
  BY HearHears
<1>4. hist'.misled = Misled(q, a)
  BY HearRemembers, <1>1
<1>5. ~hist'.lost
  <2>1. hist'.lost = (hist.lost \/ (~a.ok /\ a.server # server))
    BY <1>1, <1>3 DEF Hears, HistFields
  <2> QED
    BY <2>1 DEF PromptInv
<1>6. Misled(q, a) = {}
  <2> DEFINE told == IF a.ok THEN a.body ELSE Held(IF q.what = "fallback" THEN "memories" ELSE q.what)
             right == {L \in About(q) : Agrees(L, told)}
             wrong == {L \in About(q) \ right :
                         L = q.what => IF a.ok THEN q.late \/ hist.lost ELSE ~q.late}
  <2>1. Misled(q, a) = (hist.misled \ right) \union wrong
    BY DEF Misled
  <2>2. tasks[q.task].stage # "fallback"
    BY <1>1, HeardOne DEF PromptInv, NoneFallsBack
  <2>3. \A L \in About(q) : L = q.what
    BY <2>2 DEF About
  <2>4. ~q.late /\ ~hist.lost /\ a.ok
    BY DEF PromptInv
  <2> HIDE DEF right, told, q
  <2>5. wrong = {}
    BY <2>3, <2>4
  <2> QED
    BY <2>1, <2>5 DEF PromptInv
<1> QED
  BY <1>2, <1>4, <1>5, <1>6

LEMMA PromptStep ==
  ASSUME PromptInv, [WorkbenchNext /\ PromptNext]_workbenchVars
  PROVE  PromptInv'
<1>1. CurrentInv'
  BY CurrentStep DEF PromptInv
<1>2. /\ DOMAIN page = PageFields /\ DOMAIN hist = HistFields /\ NetOk
      /\ hist.misled = {} /\ ~hist.lost /\ NoneFallsBack
  BY DEF PromptInv, CurrentInv, WorkbenchInv, WbShape
<1>3. Slots \subseteq Nat /\ TaskShape(tasks)
  BY <1>2, WorkbenchConstants DEF NetOk
<1>4. ASSUME NEW kind, NEW what, NEW arg, NEW p, Starts(kind, what, arg, p)
      PROVE  NoneFallsBack'
  BY <1>2, <1>3, <1>4, StartsWhere DEF NoneFallsBack
<1>5. CASE User
  <2>1. Same(hist', hist, HistFields \ {"settled"})
    BY <1>2, <1>5, UserPage
  <2>2. Idle \/ \E kind, what, arg, p : Starts(kind, what, arg, p)
    BY <1>2, <1>5, UserQuestions DEF UserAsks, Asking, Selecting, Dating
  <2>3. NoneFallsBack'
    BY <1>2, <1>4, <2>2 DEF Idle, NoneFallsBack
  <2> QED
    BY <1>1, <1>2, <2>1, <2>3 DEF PromptInv, Same, HistFields
<1>6. ASSUME NEW i \in DOMAIN net, ~net[i].late, NEW a \in Outcomes(net[i]), a.ok, Hear(i, a)
      PROVE  PromptInv'
  BY <1>1, <1>6, PromptHear DEF PromptInv
<1>7. ASSUME NEW e \in Episodes, PollTick(e)
      PROVE  PromptInv'
  <2>1. hist' = hist /\ Starts("poll", "poll", e, page)
    BY <1>7 DEF PollTick
  <2> QED
    BY <1>1, <1>2, <1>4, <2>1 DEF PromptInv
<1>8. CASE RunFrame \/ (\E e \in Episodes : WorkerEnds(e)) \/ UNCHANGED workbenchVars
  <2>1. hist' = hist /\ tasks' = tasks
    BY <1>8 DEF RunFrame, WorkerEnds, workbenchVars
  <2> QED
    BY <1>1, <1>2, <2>1 DEF PromptInv, NoneFallsBack
<1> QED
  BY <1>5, <1>6, <1>7, <1>8 DEF PromptNext

\* If every request is answered and no read of a list is overtaken by a newer one, then
\* once every handler has ended each list is what the server has for the selected space
\* and date, but for episodes of runs that no poll has told of (every edit, poll, click
\* and date in main.ts is followed by a read that sees it).
THEOREM PromptListsAreCurrent ==
  PromptSpec => [](Quiet => \A L \in Lists : Agrees(L, Held(L)))
<1>1. WorkbenchInit => PromptInv
  <2> SUFFICES ASSUME WorkbenchInit
               PROVE  PromptInv
    OBVIOUS
  <2>1. hist.misled = {} /\ ~hist.lost
    BY DEF WorkbenchInit
  <2>2. \E t \in Slots :
          tasks = [u \in Slots |-> IF u = t THEN [Free EXCEPT !.kind = "bootstrap"] ELSE Free]
    BY DEF WorkbenchInit
  <2>3. NoneFallsBack
    BY <2>2 DEF NoneFallsBack, Free
  <2> QED
    BY <2>1, <2>3, CurrentInit DEF PromptInv
<1>2. PromptInv /\ [WorkbenchNext /\ PromptNext]_workbenchVars => PromptInv'
  BY PromptStep
<1>3. PromptInv => ListsAreCurrentWhenQuiet
  BY CurrentIsQuiet DEF PromptInv
<1>4. PromptInv => (Quiet => \A L \in Lists : Agrees(L, Held(L)))
  BY <1>3 DEF PromptInv, ListsAreCurrentWhenQuiet
<1> QED
  BY <1>1, <1>2, <1>4, PTL DEF PromptSpec
=============================================================================
