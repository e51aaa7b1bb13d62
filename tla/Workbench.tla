------------------------------ MODULE Workbench ------------------------------
(***************************************************************************)
(* The web workbench (web/src/main.ts, extract-review.ts, api.ts): one     *)
(* page whose event handlers are async functions.  Between two awaits a    *)
(* handler runs alone; at an await any other handler, timer or animation   *)
(* frame may run.                                                          *)
(*                                                                         *)
(* A task is a handler under way, a request is a fetch it waits for.  The  *)
(* path of a request is built from the selected space when it is asked.    *)
(* A read is answered by the server as it is asked, a write is taken just  *)
(* before the page hears of it; the page hears of them in any order, and   *)
(* of a failed write whether or not the server took it.                    *)
(*                                                                         *)
(* An episode stands for its content, for the one fact a consolidation     *)
(* finds in it, for the entity that fact names, and for the ingestion run  *)
(* that stored it.  A fact is the pair of the space it was recorded in and *)
(* its source episode.  The server is external: what the routes answer is  *)
(* the little the page can tell apart.                                     *)
(***************************************************************************)
EXTENDS Naturals, FiniteSets, SequencesExt

CONSTANTS
  Spaces,       \* ids of the knowledge spaces that may exist
  Default,      \* DEFAULT_SPACE_ID
  Existing,     \* the spaces the server has when the page is opened
  Stored,       \* the episodes it has then, all in Default
  Known,        \* those whose fact is recorded
  Slots,        \* handlers that may be under way at once (a bound)
  MaxEpisodes,  \* bound on episode ids
  MaxEvents,    \* bound on what the user does and what fails, together
  None          \* "undefined"

Episodes == 1..MaxEpisodes
Facts == Spaces \X Episodes

ASSUME WorkbenchConstants ==
  /\ Default \in Existing /\ Existing \subseteq Spaces /\ Known \subseteq Stored
  /\ Stored \subseteq Episodes
  /\ Slots \subseteq Nat /\ None \notin Spaces \union Episodes
  /\ {MaxEpisodes, MaxEvents} \subseteq Nat

VARIABLES
  page,      \* the module state of main.ts and extract-review.ts
  screen,    \* what the DOM shows
  frames,    \* callbacks waiting for an animation frame, in order
  drawn,     \* the graph the canvas shows
  timers,    \* runs with a live interval
  tasks,     \* handlers under way, by slot
  net,       \* requests the page waits for, in the order it asked
  server,    \* the database behind the API
  events,    \* clicks of the user and failed requests so far
  hist       \* history: what the properties remember

workbenchVars ==
  <<page, screen, frames, drawn, timers, tasks, net, server, events, hist>>

Lists == {"memories", "timeline", "facts", "entities"}
Writes == {"remember", "ingest", "create", "forget", "accept"}
Terminal == {"succeeded", "failed"}     \* INGESTION_TERMINAL_STATUSES, those in use

(***************************************************************************)
(* The server.                                                             *)
(***************************************************************************)
Visible(d, s) == {e \in d.stored : d.home[e] = s}

\* What the route of a read answers: for a space, or for a run.
Answer(d, what, s, arg) ==
  CASE what = "spaces" -> d.spaces
    [] what \in {"memories", "timeline", "fallback"} -> Visible(d, s)
    [] what = "facts" ->
         {f \in d.active : f[1] = s /\ arg = "now"}     \* nothing was known in the past
    [] what = "recall" ->
         [facts |-> {f \in d.active : f[1] = s /\ arg = "now"}, memories |-> Visible(d, s)]
    [] what = "entities" -> {f \in d.named : f[1] = s}
    [] what = "preview" -> {e \in Visible(d, s) : <<s, e>> \notin d.active}
    [] what = "poll" -> d.runs[arg]
    [] OTHER -> None

Used == {e \in Episodes : server.home[e] # None}
NextEpisode == CHOOSE e \in Episodes \ Used : \A d \in Episodes \ Used : e <= d
InFlight(kinds) == Cardinality({i \in DOMAIN net : net[i].what \in kinds})

Store(e, s, visible, status) ==
  [server EXCEPT !.home[e] = s, !.runs[e] = status,
                 !.stored = IF visible THEN @ \union {e} ELSE @]

Forgotten(s, e, mode) ==
  CASE mode = "hide" -> [server EXCEPT !.stored = @ \ {e}, !.active = @ \ {<<s, e>>}]
    [] mode = "retract" -> [server EXCEPT !.active = @ \ {<<s, e>>}]
    [] mode = "purge" -> [server EXCEPT !.stored = @ \ {e},
                                        !.active = {f \in @ : f[2] # e}]

Recorded(new) == [server EXCEPT !.active = @ \union new, !.named = @ \union new]

\* How the server may take request q: the database after it and the answer.
Taken(q) ==
  CASE q.what = "remember" ->
         {[server |-> Store(NextEpisode, q.space, TRUE, "none"), body |-> NextEpisode]}
    [] q.what = "ingest" ->                  \* a document is stored, a URL is queued
         {[server |-> Store(NextEpisode, q.space, status = "succeeded", status),
           body |-> NextEpisode] : status \in {"queued", "succeeded"}}
    [] q.what = "create" ->
         {[server |-> [server EXCEPT !.spaces = @ \union {s}], body |-> s] :
            s \in Spaces \ server.spaces}
    [] q.what = "forget" ->
         {[server |-> Forgotten(q.space, q.arg[1], q.arg[2]), body |-> None]}
    [] q.what = "accept" ->
         {[server |-> Recorded({<<q.space, e>> : e \in q.arg}), body |-> None]}
    [] OTHER -> {[server |-> server, body |-> q.body]}

\* What the page may hear: the answer, or a failure before or after the server took it.
Outcomes(q) ==
  {[ok |-> TRUE, server |-> d.server, body |-> d.body] : d \in Taken(q)} \union
  {[ok |-> FALSE, server |-> x, body |-> None] : x \in {server} \union {d.server : d \in Taken(q)}}

\* The worker ends a queued run, with its episode or without.
WorkerEnds(e) ==
  /\ server.runs[e] = "queued"
  /\ \E status \in Terminal :
       server' = [server EXCEPT !.runs[e] = status,
                    !.stored = IF status = "succeeded" THEN @ \union {e} ELSE @]
  /\ UNCHANGED <<page, screen, frames, drawn, timers, tasks, net, events, hist>>

(***************************************************************************)
(* Requests and tasks.                                                     *)
(***************************************************************************)
\* apiFetch: the request joins those under way, asked after what this step writes.
Ask(n, t, what, arg, p) ==
  Append(n, [task |-> t, what |-> what, space |-> p.space, arg |-> arg,
             late |-> FALSE,
             body |-> IF what \in Writes THEN None ELSE Answer(server', what, p.space, arg)])

\* Request i leaves; an older read of the same list is late from now on.
Leave(i) ==
  RemoveAt([j \in DOMAIN net |->
              [net[j] EXCEPT !.late = @ \/ (j < i /\ net[j].what = net[i].what)]], i)

Lanes(n, t) == {j \in DOMAIN n : n[j].task = t}

Free == [kind |-> "free", stage |-> "none", arg |-> None]
FreeSlots == {t \in Slots : tasks[t] = Free}
FirstFree == CHOOSE t \in FreeSlots : \A u \in FreeSlots : t <= u

End(t) == tasks' = [tasks EXCEPT ![t] = Free]
Stage(t, stage) == tasks' = [tasks EXCEPT ![t].stage = stage]

\* What the page holds of list L, and what the server has for its space and date.
Held(L) ==
  CASE L = "memories" -> page.episodes
    [] L = "timeline" -> page.timeline
    [] L = "facts" -> page.facts
    [] L = "entities" -> page.entities

Now(L) == Answer(server, L, page.space, IF L = "facts" THEN page.asOf ELSE None)

\* Runs that have ended and no poll has told the page of: their episodes may be missing.
Unheard == {e \in Episodes : server.runs[e] \in Terminal /\ e \notin hist.seen}

Agrees(L, v) ==
  IF L \in {"memories", "timeline"} THEN v \ Unheard = Now(L) \ Unheard ELSE v = Now(L)

\* The lists a request is about: what a load falls back to becomes the memories.
About(q) ==
  ({q.what} \intersect Lists) \union
  (IF tasks[q.task].stage = "fallback" THEN {"memories"} ELSE {})

\* A list is misled by a late answer or a failed read that leaves it other than what the
\* server has, and righted by an answer that leaves it so.  An edit whose answer is lost
\* misleads every list, and after it so may a read that was asked before.
Misled(q, a) ==
  LET told == IF a.ok THEN a.body ELSE Held(IF q.what = "fallback" THEN "memories" ELSE q.what)
      right == {L \in About(q) : Agrees(L, told)}
      wrong == {L \in About(q) \ right :
                  L = q.what => IF a.ok THEN q.late \/ hist.lost ELSE ~q.late}
  IN IF ~a.ok /\ a.server # server THEN Lists ELSE (hist.misled \ right) \union wrong

(***************************************************************************)
(* Rendering.                                                              *)
(***************************************************************************)
\* buildKnowledgeGraph: an edge per fact, its subject labelled by the entity list.
Graph(p) == [edges |-> p.facts, labels |-> p.facts \intersect p.entities]

\* renderDossier: the selected episode, if a list has it, with its facts.
Dossier(p) ==
  IF p.episode \in p.episodes \union p.timeline
  THEN <<p.episode, {f \in p.facts : f[2] = p.episode}>> ELSE None

\* renderAll, one field per region of the page, but for the selected mark of the memory
\* list: inspectEpisode and a click on an edge leave that mark where it was.
View(p) ==
  [space |-> p.space, options |-> p.spaces, episodes |-> p.episodes,
   timeline |-> p.timeline, marked |-> {p.episode} \intersect p.timeline,
   facts |-> Graph(p), hidden |-> p.facts = {}, dossier |-> Dossier(p)]

\* paintKnowledgeMap: an empty graph hides the canvas, another is drawn two frames on.
Paint(q, p) == IF p.facts = {} THEN q ELSE Append(q, [kind |-> "draw", graph |-> Graph(p)])

RenderAll(p) == screen' = View(p) /\ frames' = Paint(frames, p)

\* Slips: what a definition would be after a plausible mistake; one each below.
SlipListOnly(p) ==
  /\ screen' = [screen EXCEPT !.facts = Graph(p), !.hidden = p.facts = {},
                              !.dossier = Dossier(p), !.space = p.space]
  /\ UNCHANGED frames

\* The as-of handler: renderGraph, renderDossier and renderOverview.
RenderFacts(p) ==
  /\ screen' = [screen EXCEPT !.facts = Graph(p), !.hidden = p.facts = {},
                              !.dossier = Dossier(p), !.space = p.space]
  /\ frames' = Paint(frames, p)

\* A click on a list item, and on an edge or a source, which leaves the list alone.
Selected(p) ==
  [screen EXCEPT !.dossier = Dossier(p), !.timeline = p.timeline,
                 !.marked = {p.episode} \intersect p.timeline]

RunFrame ==
  /\ frames # << >>
  /\ IF Head(frames).kind = "draw"
     THEN /\ drawn' = [edges |-> Head(frames).graph.edges,
                       labels |-> Head(frames).graph.labels, glow |-> page.glow]
          /\ frames' = Tail(frames)
          /\ UNCHANGED screen
     ELSE /\ frames' = Paint(Tail(frames), page)
          /\ screen' = [screen EXCEPT !.hidden = page.facts = {}]
          /\ UNCHANGED drawn
  /\ UNCHANGED <<page, timers, tasks, net, server, events, hist>>

(***************************************************************************)
(* Answers.  Hears: the page hears outcome a of request i.                 *)
(***************************************************************************)
Hears(i, a) ==
  LET q == net[i] IN
  /\ a.ok \/ events < MaxEvents
  /\ events' = IF a.ok THEN events ELSE events + 1
  /\ server' = a.server
  /\ hist' = [hist EXCEPT
       !.misled = Misled(q, a),
       !.lost = @ \/ (~a.ok /\ a.server # server),
       !.seen = IF q.what = "poll" /\ a.ok /\ a.body \in Terminal THEN @ \union {q.arg} ELSE @,
       !.unpolled = @ \/ (q.what = "poll" /\ ~a.ok),
       !.started = IF q.what = "ingest" /\ a.ok THEN @ \union {a.body} ELSE @,
       !.offered = IF q.what = "preview" /\ a.ok THEN a.body ELSE @,
       !.settled = IF q.what = "preview" /\ a.ok THEN {}
                   ELSE IF q.what = "accept" /\ {<<q.space, e>> : e \in q.arg} \subseteq a.server.active
                        THEN @ \union q.arg ELSE @]

\* loadSpaceProjections begins: the rest follows from the answers.
Load(n, t, p) ==
  /\ page' = [p EXCEPT !.loading = TRUE]
  /\ net' = Ask(n, t, "memories", None, p)
  /\ Stage(t, "load")

SlipAlwaysNow(n, t, p) == Ask(Ask(n, t, "timeline", None, p), t, "facts", "now", p)

\* Promise.all([loadTimeline(), loadFactsAndEntities()])
Project(n, t, p) == Ask(Ask(n, t, "timeline", None, p), t, "facts", p.asOf, p)

\* What acceptExtract and acceptProposed do once the lists are loaded.
Concluded(t, p) ==
  CASE tasks[t].kind = "accept all" -> [p EXCEPT !.review = {}, !.busy = FALSE]
    [] tasks[t].kind = "accept one" -> [p EXCEPT !.review = @ \ tasks[t].arg, !.busy = FALSE]
    [] OTHER -> p

\* Both parts of the load are in: render, and end or ask the last question again.
Loaded(n, t, p) ==
  IF tasks[t].kind = "asof"
  THEN /\ RenderFacts(p)
       /\ page' = p
       /\ IF p.asked THEN net' = Ask(n, t, "recall", p.asOf, p) /\ Stage(t, "recall")
                     ELSE net' = n /\ End(t)
  ELSE /\ RenderAll(p)
       /\ page' = [Concluded(t, p) EXCEPT !.loading = FALSE]
       /\ net' = n
       /\ End(t)

Join(n, t, p) ==
  IF Lanes(n, t) = {} THEN Loaded(n, t, p)
  ELSE page' = p /\ net' = n /\ UNCHANGED <<tasks, screen, frames>>

\* loadSpaces keeps the selection if the list has it.
KnowSpaces(p, S) ==
  [p EXCEPT !.spaces = S, !.space = IF @ \in S \/ S = {} THEN @ ELSE CHOOSE s \in S : TRUE]

\* bootstrap: three reads at once, then the shelf, then the lists.
HearBootstrap(i, a) ==
  LET q == net[i]
      n == Leave(i)
      p == IF q.what = "spaces" /\ a.ok THEN KnowSpaces(page, a.body) ELSE page
  IN /\ q.what \in {"principal", "workspaces", "spaces"}
     /\ tasks[q.task].kind = "bootstrap"
     /\ Hears(i, a)
     /\ IF Lanes(n, q.task) = {}
        THEN /\ Load(n, q.task, p)
             /\ screen' = [screen EXCEPT !.space = p.space, !.options = p.spaces]
        ELSE page' = p /\ net' = n /\ UNCHANGED <<tasks, screen>>
     /\ UNCHANGED <<frames, drawn, timers>>

\* loadMemories: 404 falls back to the timeline, another error keeps the old list.
HearMemories(i, a) ==
  LET q == net[i]
      p == IF a.ok THEN [page EXCEPT !.episodes = a.body] ELSE page
  IN /\ q.what = "memories"
     /\ Hears(i, a)
     /\ page' = p
     /\ \/ net' = Project(Leave(i), q.task, p) /\ UNCHANGED tasks
        \/ /\ ~a.ok
           /\ net' = Ask(Leave(i), q.task, "timeline", None, page)
           /\ Stage(q.task, "fallback")
     /\ UNCHANGED <<screen, frames, drawn, timers>>

HearTimeline(i, a) ==
  LET q == net[i]
      n == Leave(i)
      p == IF a.ok THEN [page EXCEPT !.timeline = a.body] ELSE page
      f == [p EXCEPT !.episodes = p.timeline]
  IN /\ q.what = "timeline"
     /\ Hears(i, a)
     /\ IF tasks[q.task].stage # "fallback" THEN Join(n, q.task, p)
        ELSE /\ page' = f
             /\ IF f.episodes = {}
                THEN net' = Ask(n, q.task, "fallback", None, f) /\ UNCHANGED tasks
                ELSE net' = Project(n, q.task, f) /\ Stage(q.task, "load")
             /\ UNCHANGED <<screen, frames>>
     /\ UNCHANGED <<drawn, timers>>

HearFallback(i, a) ==
  LET q == net[i]
      p == IF a.ok THEN [page EXCEPT !.episodes = a.body] ELSE page
  IN /\ q.what = "fallback"
     /\ Hears(i, a)
     /\ page' = p
     /\ net' = Project(Leave(i), q.task, p)
     /\ Stage(q.task, "load")
     /\ UNCHANGED <<screen, frames, drawn, timers>>

\* loadFactsAndEntities: one after the other, each keeping what it had on an error.
HearFacts(i, a) ==
  LET q == net[i]
      p == IF a.ok THEN [page EXCEPT !.facts = a.body] ELSE page
  IN /\ q.what = "facts"
     /\ Hears(i, a)
     /\ page' = p
     /\ net' = Ask(Leave(i), q.task, "entities", None, p)
     /\ UNCHANGED <<tasks, screen, frames, drawn, timers>>

HearEntities(i, a) ==
  LET q == net[i]
      p == IF a.ok THEN [page EXCEPT !.entities = a.body] ELSE page
  IN /\ q.what = "entities"
     /\ Hears(i, a)
     /\ Join(Leave(i), q.task, p)
     /\ UNCHANGED <<drawn, timers>>

\* remember selects what it stored, forget clears the selection; both load again.
HearEdit(i, a) ==
  LET q == net[i] IN
  /\ q.what \in {"remember", "forget"}
  /\ Hears(i, a)
  /\ IF a.ok THEN Load(Leave(i), q.task, [page EXCEPT !.episode = a.body])
     ELSE net' = Leave(i) /\ End(q.task) /\ UNCHANGED page
  /\ UNCHANGED <<screen, frames, drawn, timers>>

\* createSpace: the list of spaces is read again, then the new one selected.
SelectedIn(p, s) == [p EXCEPT !.space = s, !.episode = None]

HearCreated(i, a) ==
  LET q == net[i]
      n == Leave(i)
      p == IF a.ok THEN KnowSpaces(page, a.body) ELSE page
  IN /\ Hears(i, a)
     /\ \/ /\ q.what = "create"
           /\ IF a.ok THEN /\ net' = Ask(n, q.task, "spaces", None, page)
                         /\ tasks' = [tasks EXCEPT ![q.task].arg = a.body]
                    ELSE net' = n /\ End(q.task)
           /\ UNCHANGED page
        \/ /\ q.what = "spaces" /\ tasks[q.task].kind = "create"
           /\ Load(n, q.task, SelectedIn(p, tasks[q.task].arg))
     /\ UNCHANGED <<screen, frames, drawn, timers>>

\* recall: receipts and highlights; an earlier result stays on an error.
HearRecall(i, a) ==
  LET q == net[i] IN
  /\ q.what = "recall"
  /\ Hears(i, a)
  /\ page' = IF a.ok
             THEN [page EXCEPT !.receipts = {f[2] : f \in a.body.facts} \union a.body.memories,
                               !.glow = a.body.facts, !.asked = TRUE]
             ELSE page
  /\ net' = Leave(i)
  /\ End(q.task)
  /\ UNCHANGED <<screen, frames, drawn, timers>>

SlipNotCleared(r) == timers \union {r}
SlipNotRunning(ok, status) == ~ok \/ status # "running"

\* startIngestionPoll clears the interval of the run before.
IntervalFor(r) == (timers \ {page.timer}) \union {r}

\* pollIngestion gives up on an error and ends with the run.
PollStops(ok, status) == ~ok \/ status \in Terminal

\* submitIngestion, then startIngestionPoll and its first poll.
HearIngest(i, a) ==
  LET q == net[i] IN
  /\ q.what = "ingest"
  /\ Hears(i, a)
  /\ IF a.ok
     THEN /\ timers' = IntervalFor(a.body)
          /\ page' = [page EXCEPT !.timer = a.body]
          /\ net' = Ask(Leave(i), q.task, "poll", a.body, page)
          /\ tasks' = [tasks EXCEPT ![q.task].kind = "poll"]
     ELSE net' = Leave(i) /\ End(q.task) /\ UNCHANGED <<page, timers>>
  /\ UNCHANGED <<screen, frames, drawn>>

\* stopIngestionPoll clears the interval of whichever run is polled now.
HearPoll(i, a) ==
  LET q == net[i]
      stopped == [page EXCEPT !.timer = None]
      ended == a.ok /\ a.body \in Terminal
  IN /\ q.what = "poll"
     /\ Hears(i, a)
     /\ timers' = IF PollStops(a.ok, a.body) THEN timers \ {page.timer} ELSE timers
     /\ IF ended THEN Load(Leave(i), q.task, stopped)
        ELSE /\ page' = IF PollStops(a.ok, a.body) THEN stopped ELSE page
             /\ net' = Leave(i)
             /\ End(q.task)
     /\ UNCHANGED <<screen, frames, drawn>>

SlipLockedOnError(i, a) ==
  LET q == net[i] IN
  /\ q.what = "preview"
  /\ Hears(i, a)
  /\ page' = IF a.ok THEN [page EXCEPT !.busy = FALSE, !.review = a.body] ELSE page
  /\ net' = Leave(i)
  /\ End(q.task)
  /\ UNCHANGED <<screen, frames, drawn, timers>>

\* previewExtract ends, whatever it heard, with the review released.
HearPreview(i, a) ==
  LET q == net[i] IN
  /\ q.what = "preview"
  /\ Hears(i, a)
  /\ page' = [page EXCEPT !.busy = FALSE, !.review = IF a.ok THEN a.body ELSE @]
  /\ net' = Leave(i)
  /\ End(q.task)
  /\ UNCHANGED <<screen, frames, drawn, timers>>

\* persistAccepted: what was accepted leaves the review after the lists are loaded.
HearAccept(i, a) ==
  LET q == net[i] IN
  /\ q.what = "accept"
  /\ Hears(i, a)
  /\ IF a.ok THEN Load(Leave(i), q.task, page)
     ELSE net' = Leave(i) /\ End(q.task) /\ page' = [page EXCEPT !.busy = FALSE]
  /\ UNCHANGED <<screen, frames, drawn, timers>>

Hear(i, a) ==
  \/ HearBootstrap(i, a) \/ HearMemories(i, a) \/ HearTimeline(i, a)
  \/ HearFallback(i, a) \/ HearFacts(i, a) \/ HearEntities(i, a)
  \/ HearEdit(i, a) \/ HearCreated(i, a) \/ HearRecall(i, a)
  \/ HearIngest(i, a) \/ HearPoll(i, a) \/ HearPreview(i, a) \/ HearAccept(i, a)

(***************************************************************************)
(* The user, the interval and the first step.                              *)
(***************************************************************************)
\* A bound: the user waits for the first load to end.
ShelfReady == \A t \in Slots : tasks[t].kind # "bootstrap"

Clicks ==
  /\ ShelfReady
  /\ events < MaxEvents
  /\ events' = events + 1
  /\ UNCHANGED <<drawn, timers, server>>

\* A handler starts, asks its first question and waits.
Starts(kind, what, arg, p) ==
  /\ FreeSlots # {}
  /\ tasks' = [tasks EXCEPT ![FirstFree] = [kind |-> kind,
                 stage |-> IF kind = "load" THEN "load" ELSE "first",
                 arg |-> IF kind \in {"accept all", "accept one"} THEN arg ELSE None]]
  /\ net' = Ask(net, FirstFree, what, arg, p)
  /\ page' = p

Idle == UNCHANGED <<tasks, net>>     \* a handler that asks nothing

SelectSpace(s) ==
  /\ Clicks
  /\ s \in screen.options
  /\ Starts("load", "memories", None, [SelectedIn(page, s) EXCEPT !.loading = TRUE])
  /\ UNCHANGED <<screen, frames, hist>>

HasRoom == Cardinality(Used) + InFlight({"remember", "ingest"}) < MaxEpisodes

Submit ==
  /\ Clicks
  /\ \/ /\ HasRoom
        /\ \E what \in {"remember", "ingest"} : Starts(what, what, None, page)
     \/ /\ InFlight({"create"}) < Cardinality(Spaces \ server.spaces)
        /\ Starts("create", "create", None, page)
     \/ Starts("recall", "recall", page.asOf, page)
  /\ UNCHANGED <<screen, frames, hist>>

\* forgetSelected names the episode selected at the click.
ForgetSelected(mode) ==
  /\ Clicks
  /\ page.episode # None
  /\ Starts("forget", "forget", <<page.episode, mode>>, page)
  /\ UNCHANGED <<screen, frames, hist>>

SelectEpisode(e) ==
  /\ Clicks
  /\ e \in screen.episodes \union screen.timeline
  /\ e # page.episode             \* a bound: another choice than the present one
  /\ Idle
  /\ page' = [page EXCEPT !.episode = e]
  /\ screen' = [Selected(page') EXCEPT !.episodes = page.episodes]
  /\ UNCHANGED <<frames, hist>>

\* The episodes behind listed facts, receipts, recalled memories and sources.
Inspectable == {f[2] : f \in screen.facts.edges} \union page.receipts

\* inspectEpisode: the map is painted a frame later.
InspectEpisode(e) ==
  /\ Clicks
  /\ e \in Inspectable
  /\ Idle
  /\ page' = [page EXCEPT !.episode = e]
  /\ screen' = Selected(page')
  /\ frames' = Append(frames, [kind |-> "paint"])
  /\ UNCHANGED hist

\* An edge of the map, clicked or found by the search.
SelectEdge(f) ==
  /\ Clicks
  /\ ~screen.hidden
  /\ f \in drawn.edges
  /\ Idle
  /\ page' = [page EXCEPT !.episode = f[2]]
  /\ screen' = Selected(page')
  /\ UNCHANGED <<frames, hist>>

ChangeAsOf(date) ==
  /\ Clicks
  /\ date # page.asOf
  /\ Starts("asof", "facts", date, [page EXCEPT !.asOf = date])
  /\ UNCHANGED <<screen, frames, hist>>

\* extractBusy: one extraction, acceptance or skip at a time.
SlipMayAlways(p) == TRUE
MayReview(p) == ~p.busy

\* The consolidate button, which also clears the highlights of the last recall.
PreviewExtract ==
  /\ ShelfReady
  /\ events < MaxEvents
  /\ events' = events + 1
  /\ UNCHANGED server
  /\ MayReview(page)
  /\ Starts("preview", "preview", None, [page EXCEPT !.busy = TRUE, !.glow = {}])
  /\ drawn' = [drawn EXCEPT !.glow = {}]
  /\ UNCHANGED <<screen, frames, timers, hist>>

\* Accept all, or the button of one row.
Accept(kind, items) ==
  /\ Clicks
  /\ MayReview(page)
  /\ items # {}
  /\ \/ kind = "accept all" /\ items = page.review
     \/ kind = "accept one" /\ Cardinality(items) = 1 /\ items \subseteq page.review
  /\ Starts(kind, "accept", items, [page EXCEPT !.busy = TRUE])
  /\ UNCHANGED <<screen, frames, hist>>

\* skipExtract and skipProposed.
Skip(items) ==
  /\ Clicks
  /\ MayReview(page)
  /\ items # {} /\ items \subseteq page.review
  /\ Cardinality(items) = 1 \/ items = page.review
  /\ Idle
  /\ page' = [page EXCEPT !.review = @ \ items]
  /\ hist' = [hist EXCEPT !.settled = @ \union items]
  /\ UNCHANGED <<screen, frames>>

\* setInterval.  A bound: the previous poll of the same run has been answered.
PollTick(r) ==
  /\ r \in timers
  /\ UNCHANGED <<server, events>>
  /\ \A i \in DOMAIN net : net[i].what = "poll" => net[i].arg # r
  /\ Starts("poll", "poll", r, page)
  /\ UNCHANGED <<screen, frames, drawn, timers, hist>>

User ==
  \/ \E s \in Spaces : SelectSpace(s)
  \/ Submit
  \/ \E mode \in {"hide", "retract", "purge"} : ForgetSelected(mode)
  \/ \E e \in Episodes : SelectEpisode(e) \/ InspectEpisode(e)
  \/ \E f \in Facts : SelectEdge(f)
  \/ \E date \in {"now", "past"} : ChangeAsOf(date)
  \/ PreviewExtract
  \/ \E kind \in {"accept all", "accept one"}, items \in SUBSET Episodes : Accept(kind, items)
  \/ \E items \in SUBSET Episodes : Skip(items)

NoGraph == [edges |-> {}, labels |-> {}]
EmptyPage ==
  [space |-> Default, episode |-> None, spaces |-> {}, episodes |-> {}, timeline |-> {},
   facts |-> {}, entities |-> {}, asOf |-> "now", asked |-> FALSE, receipts |-> {},
   glow |-> {}, review |-> {}, busy |-> FALSE, loading |-> FALSE, timer |-> None]

WorkbenchInit ==
  /\ page = EmptyPage
  /\ screen = [space |-> None, options |-> {}, episodes |-> {}, timeline |-> {},
               marked |-> {}, facts |-> NoGraph, hidden |-> TRUE, dossier |-> None]
  /\ frames = << >>
  /\ drawn = [edges |-> {}, labels |-> {}, glow |-> {}]
  /\ timers = {}
  /\ server = [spaces |-> Existing, stored |-> Stored,
               active |-> {Default} \X Known, named |-> {Default} \X Known,
               home |-> [e \in Episodes |-> IF e \in Stored THEN Default ELSE None],
               runs |-> [e \in Episodes |-> "none"]]
  /\ \E t \in Slots :
       /\ \A u \in Slots : t <= u
       /\ tasks = [u \in Slots |-> IF u = t THEN [Free EXCEPT !.kind = "bootstrap"] ELSE Free]
       /\ net = [i \in 1..3 |->
                   [task |-> t, what |-> <<"principal", "workspaces", "spaces">>[i],
                    space |-> Default, arg |-> None, late |-> FALSE,
                    body |-> IF i = 3 THEN Existing ELSE None]]
  /\ events = 0
  /\ hist = [misled |-> {}, lost |-> FALSE, unpolled |-> FALSE, seen |-> {}, started |-> {},
             offered |-> {}, settled |-> {}]

\* A bound: what waits for a frame is drawn before the network or a timer goes on.
WorkbenchNext ==
  \/ User
  \/ /\ frames = << >>
     /\ \/ \E i \in DOMAIN net : \E a \in Outcomes(net[i]) : Hear(i, a)
        \/ \E e \in Episodes : WorkerEnds(e) \/ PollTick(e)
  \/ RunFrame

WorkbenchSpec == WorkbenchInit /\ [][WorkbenchNext]_workbenchVars

(***************************************************************************)
(* Properties.                                                             *)
(***************************************************************************)
Quiet == frames = << >> /\ \A t \in Slots : tasks[t] = Free

\* Once every handler has ended and every frame has run, the page shows what it holds:
\* lists, counts, dossier, options, and on the map the facts with their labels (renderAll,
\* the partial renderers and the two frames of paintKnowledgeMap), whatever order the
\* answers came in and whatever failed.
ScreenAgreesWhenQuiet ==
  Quiet => /\ screen = View(page)
           /\ screen.hidden \/ (drawn.edges = page.facts /\ drawn.labels = Graph(page).labels)

\* Once every handler has ended, each list is what the server has for the selected space
\* and the as-of date, but for episodes of runs that no poll has told of: every edit, poll,
\* click and date is followed by a read that sees it (loadSpaceProjections, the as-of
\* handler).  A list is excused whose last change for the worse was a failed read, a late
\* answer (one overtaken by a newer, as the code does not drop) or an edit nobody heard of.
ListsAreCurrentWhenQuiet ==
  Quiet => \A L \in Lists \ hist.misled : Agrees(L, Held(L))

\* A proposal leaves the review only because the user skipped it, the server recorded it,
\* or a new extraction replaced the list (extractBusy keeps them apart).
NoProposalIsLost ==
  page.review \subseteq hist.offered /\ hist.offered \ page.review \subseteq hist.settled

\* The review is locked exactly while one extraction or acceptance is under way, and the
\* shelf says "loading" only while some load is (the finally blocks).
LocksHaveOwners ==
  /\ page.busy <=> \E t \in Slots : tasks[t].kind \in {"preview", "accept all", "accept one"}
  /\ Cardinality({t \in Slots : tasks[t].kind \in {"preview", "accept all", "accept one"}}) <= 1
  /\ page.loading => \E t \in Slots : tasks[t].stage \in {"load", "fallback"}

\* An interval that runs is the one stopIngestionPoll can stop: none leaks when two
\* submissions are answered one after the other.
NoTimerLeaks == timers \subseteq {page.timer}

\* A run submitted alone is polled until the page has heard how it ended or a poll has
\* failed (with a second run, an older poll may stop the newer interval).
SoleRunIsWatched ==
  \A e \in hist.started :
    hist.started = {e} /\ e \notin hist.seen => page.timer = e \/ hist.unpolled
=============================================================================
