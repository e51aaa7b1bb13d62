----------------------------- MODULE GraphCanvas -----------------------------
(***************************************************************************)
(* The knowledge graph on its canvas (web/src/graph-view.ts): the graph it *)
(* was given, its layout and camera, the pointer, and the selection the    *)
(* page shows beside it (web/src/main.ts).  The page paints: it empties    *)
(* the inspector, and two frames later hands the graph to the canvas.      *)
(* Which graph it paints, and when, is in Workbench.                       *)
(*                                                                         *)
(* Geometry is left out: a press may hit any node, any edge or neither     *)
(* (hitTestNode before hitTestEdge).  A layout is known by the size it was *)
(* made for, and so is a camera that fits it; Moved is a camera the user   *)
(* panned or zoomed.                                                       *)
(***************************************************************************)
EXTENDS Naturals, Sequences

CONSTANTS
  Graphs,    \* graphs the page may paint: [nodes, edges, incident]
  Sizes,     \* sizes of the canvas
  Far,       \* pixels a press may move and still be a click, in steps
  MaxPaints, \* bound: calls of paintKnowledgeMap
  Nothing,   \* no node, no edge
  Moved

ASSUME CanvasConstants ==
  /\ Far \in Nat /\ MaxPaints \in Nat
  /\ \A g \in Graphs : g.nodes # {} /\ Nothing \notin g.nodes \union g.edges
  /\ Moved \notin Sizes

Empty == [nodes |-> {}, edges |-> {}, incident |-> <<>>]

VARIABLES
  graph,    \* lastNodes and lastEdges
  laidOut,  \* nodes that have a place
  layout,   \* layoutWidth and layoutHeight
  camera,
  selected, \* selectedId and selectedEdgeId
  hovered,  \* hoveredId
  dragging,
  moved,    \* pixels since the press
  told,     \* what the inspector shows
  frames,   \* graphs that wait for their frames
  hidden,   \* there is nothing to show: the canvas is hidden
  late,     \* history: a selection was made while a frame was due
  size,     \* of the canvas
  resized,  \* its ResizeObserver has yet to run
  drawn,    \* what the last redraw showed
  paints    \* calls of paintKnowledgeMap

canvasVars == <<graph, laidOut, layout, camera, selected, hovered, dragging, moved,
                told, frames, hidden, late, size, resized, drawn, paints>>

\* The part of the page, and that of the observer.
pageVars == <<frames, hidden, paints>>
sizeVars == <<size, resized>>

NoSelection == [node |-> Nothing, edge |-> Nothing]

\* All that drawKnowledgeGraph is given.
Picture == [nodes |-> laidOut, edges |-> graph.edges, layout |-> layout, camera |-> camera,
            selected |-> selected, hovered |-> hovered]

CanvasStart(sizes) ==
  /\ graph = Empty /\ laidOut = {}
  /\ size \in sizes
  /\ layout = Nothing
  /\ camera = Moved
  /\ selected = NoSelection /\ hovered = Nothing /\ told = NoSelection
  /\ dragging = FALSE /\ moved = 0
  /\ frames = <<>> /\ hidden = TRUE /\ late = FALSE
  /\ resized = FALSE
  /\ drawn = Picture
  /\ paints = 0

CanvasInit == CanvasStart(Sizes)

\* Slip: a new graph keeps the selection.
SlipKeepsSelection == UNCHANGED <<selected, hovered>>

(***************************************************************************)
(* The page.                                                               *)
(***************************************************************************)
\* paintKnowledgeMap
Paint(g) ==
  /\ paints < MaxPaints
  /\ paints' = paints + 1
  /\ told' = NoSelection
  /\ late' = FALSE
  /\ hidden' = (g.nodes = {})
  /\ frames' = IF g.nodes = {} THEN frames ELSE Append(frames, g)
  /\ UNCHANGED <<graph, laidOut, layout, camera, selected, hovered, dragging, moved,
                 sizeVars, drawn>>

\* onSelect
OnSelect(node, edge) ==
  /\ told' = [node |-> node, edge |-> edge]
  /\ late' = (late \/ frames # <<>>)

(***************************************************************************)
(* The canvas.                                                             *)
(***************************************************************************)
ClearSelection == selected' = NoSelection /\ hovered' = Nothing

\* The camera after applyLayout: fitted, if there is anything to fit.
Fitted(g) == IF g.nodes = {} THEN camera ELSE size

applyLayout(g) ==
  /\ layout' = size
  /\ laidOut' = g.nodes
  /\ camera' = Fitted(g)

Redraw == drawn' = Picture'

SetGraph ==
  /\ frames # <<>>
  /\ graph' = Head(frames)
  /\ frames' = Tail(frames)
  /\ ClearSelection
  /\ applyLayout(graph')
  /\ UNCHANGED <<dragging, moved, told, hidden, late, paints, sizeVars>>
  /\ Redraw

\* Once a frame, and the observer runs in the same frame.
Resize ==
  /\ ~resized
  /\ size' \in Sizes \ {size}
  /\ resized' = TRUE
  /\ UNCHANGED <<graph, laidOut, layout, camera, selected, hovered, dragging, moved,
                 told, late, pageVars, drawn>>

\* relayoutIfNeeded, when the observer runs.
Relayout ==
  /\ resized
  /\ resized' = FALSE
  /\ IF layout = size THEN UNCHANGED <<layout, laidOut, camera>> ELSE applyLayout(graph)
  /\ UNCHANGED <<graph, selected, hovered, dragging, moved, told, late, pageVars, size>>
  /\ Redraw

PointerDown ==
  /\ ~hidden
  /\ dragging' = TRUE
  /\ moved' = 0
  /\ UNCHANGED <<graph, laidOut, layout, camera, selected, hovered, told, late, pageVars,
                 sizeVars, drawn>>

PointerCancel ==
  /\ dragging
  /\ dragging' = FALSE
  /\ UNCHANGED <<graph, laidOut, layout, camera, selected, hovered, moved, told, late,
                 pageVars, sizeVars, drawn>>

Pan ==
  /\ dragging
  /\ camera' = Moved
  /\ moved' = IF moved > Far THEN moved ELSE moved + 1
  /\ UNCHANGED <<graph, laidOut, layout, selected, hovered, dragging, told, late, pageVars,
                 sizeVars>>
  /\ Redraw

Hover ==
  /\ ~hidden
  /\ ~dragging
  /\ hovered' \in (laidOut \union {Nothing}) \ {hovered}
  /\ UNCHANGED <<graph, laidOut, layout, camera, selected, dragging, moved, told, late,
                 pageVars, sizeVars>>
  /\ Redraw

\* hitTestNode, and hitTestEdge where it finds none.
Hits ==
  [node : laidOut, edge : {Nothing}] \union [node : {Nothing}, edge : graph.edges]
    \union {NoSelection}

IsClick == moved <= Far

PointerUp ==
  /\ ~hidden
  /\ dragging' = FALSE
  /\ IF IsClick
     THEN /\ selected' \in Hits
          /\ OnSelect(selected'.node, selected'.edge)
          /\ drawn' = [Picture EXCEPT !.selected = selected']
     ELSE UNCHANGED <<selected, told, late, drawn>>
  /\ UNCHANGED <<graph, laidOut, layout, camera, hovered, moved, pageVars, sizeVars>>

\* focusNode(id) of the search over the nodes; incidentEdgeFor(id) is told,
\* and not selected.
FocusNode(n) ==
  /\ n \in laidOut
  /\ selected' = [node |-> n, edge |-> Nothing]
  /\ camera' = Moved
  /\ OnSelect(n, graph.incident[n])
  /\ UNCHANGED <<graph, laidOut, layout, hovered, dragging, moved, pageVars, sizeVars>>
  /\ Redraw

FocusNothing ==
  /\ selected' = NoSelection
  /\ OnSelect(Nothing, Nothing)
  /\ UNCHANGED <<graph, laidOut, layout, camera, hovered, dragging, moved, pageVars, sizeVars>>
  /\ Redraw

\* onWheel and zoomBy
Zoom ==
  /\ camera' = Moved
  /\ UNCHANGED <<graph, laidOut, layout, selected, hovered, dragging, moved, told, late,
                 pageVars, sizeVars>>
  /\ Redraw

Fit ==
  /\ camera' = IF laidOut = {} THEN Moved ELSE size
  /\ UNCHANGED <<graph, laidOut, layout, selected, hovered, dragging, moved, told, late,
                 pageVars, sizeVars>>
  /\ Redraw

Pointer == PointerDown \/ PointerCancel \/ Pan \/ Hover \/ PointerUp \/ Zoom

CanvasNext ==
  \/ \E g \in Graphs \union {Empty} : Paint(g)
  \/ SetGraph \/ Resize \/ Relayout
  \/ Pointer
  \/ \E n \in laidOut : FocusNode(n)
  \/ FocusNothing \/ Fit

CanvasSpec == CanvasInit /\ [][CanvasNext]_canvasVars

(***************************************************************************)
(* Properties.                                                             *)
(***************************************************************************)
\* What is selected, hovered and drawn is of the graph shown: a graph that
\* arrives in the middle of a press leaves nothing of the old one
\* (graph-view.ts:220).  The camera fits the layout it looks at, unless the
\* user moved it, once no resize is under way.  The inspector shows what is
\* selected, unless the canvas is hidden or the selection was made in the
\* two frames between the page's emptying the inspector and its handing
\* over the graph (main.ts:206): then it shows what the graph no longer has
\* selected, until the page paints again.
CanvasSettles ==
  /\ {selected.node, hovered} \subseteq laidOut \union {Nothing}
  /\ selected.edge \in graph.edges \union {Nothing}
  /\ drawn = Picture
  /\ (~resized /\ layout # Nothing) => layout = size /\ camera \in {Moved, size}
  /\ (frames = <<>> /\ ~hidden /\ ~late) =>
       /\ told.node = selected.node
       /\ selected.edge # Nothing => told.edge = selected.edge
=============================================================================
