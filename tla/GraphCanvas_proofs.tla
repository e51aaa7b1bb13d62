------------------------- MODULE GraphCanvas_proofs -------------------------
(***************************************************************************)
(* What the canvas shows and what the page tells beside it, for any graphs,*)
(* canvas sizes and number of paints.                                      *)
(***************************************************************************)
EXTENDS GraphCanvas, TLAPS

Waiting == frames \in Seq(Graphs)

\* The layout is of the graph, and the selection and the hover are in it.
OfTheGraph ==
  /\ laidOut = graph.nodes
  /\ {selected.node, hovered} \subseteq laidOut \union {Nothing}
  /\ selected.edge \in graph.edges \union {Nothing}

\* A layout that is of the wrong size waits for the observer.
Fitting ==
  /\ graph.nodes = {} => camera = Moved
  /\ layout # Nothing => /\ layout = size => camera \in {Moved, size}
                         /\ ~resized => layout = size

\* The inspector is empty while a frame is due, unless a selection was made
\* in the meantime.
Telling ==
  /\ (frames # <<>> /\ ~late) => told = NoSelection
  /\ (frames = <<>> /\ ~hidden /\ ~late) =>
       /\ told.node = selected.node
       /\ selected.edge # Nothing => told.edge = selected.edge

CanvasInv == Waiting /\ OfTheGraph /\ Fitting /\ drawn = Picture /\ Telling

\* All that OfTheGraph, Fitting and Telling depend on.
looks == <<graph, laidOut, selected, hovered>>
fits == <<graph, layout, camera, size, resized>>
tells == <<frames, hidden, late, told, selected>>

LEMMA CanvasInitially == CanvasInit => CanvasInv
BY DEF CanvasInit, CanvasStart, CanvasInv, Waiting, OfTheGraph, Fitting, Telling, Empty,
   NoSelection

-----------------------------------------------------------------------------
\* The page.
LEMMA PaintKeeps ==
  ASSUME CanvasInv, NEW g \in Graphs \union {Empty}, Paint(g)
  PROVE  CanvasInv'
<1> USE DEF CanvasInv
<1>1. /\ told' = NoSelection /\ late' = FALSE /\ hidden' = (g.nodes = {})
      /\ frames' = (IF g.nodes = {} THEN frames ELSE Append(frames, g))
      /\ UNCHANGED <<graph, laidOut, layout, camera, selected, hovered, size, resized, drawn>>
  BY DEF Paint, sizeVars
<1>2. Waiting' /\ (hidden' \/ frames' # <<>>)
  <2>1. CASE g.nodes = {}
    BY <1>1, <2>1 DEF Waiting
  <2>2. CASE g.nodes # {}
    <3>1. g \in Graphs /\ frames' = Append(frames, g)
      BY <1>1, <2>2 DEF Empty
    <3>2. frames' \in Seq(Graphs) /\ Len(frames') = Len(frames) + 1
      BY <3>1 DEF Waiting
    <3>3. frames' # <<>>
      BY <3>2 DEF Waiting
    <3> QED
      BY <3>2, <3>3 DEF Waiting
  <2> QED
    BY <2>1, <2>2
<1>3. OfTheGraph' /\ Fitting' /\ drawn' = Picture'
  BY <1>1 DEF OfTheGraph, Fitting, Picture
<1> QED
  BY <1>1, <1>2, <1>3 DEF Telling

LEMMA SetGraphKeeps ==
  ASSUME CanvasInv, SetGraph
  PROVE  CanvasInv'
<1> USE DEF CanvasInv
<1>1. /\ frames # <<>> /\ graph' = Head(frames) /\ frames' = Tail(frames)
      /\ selected' = NoSelection /\ hovered' = Nothing
      /\ layout' = size /\ laidOut' = graph'.nodes
      /\ camera' = (IF graph'.nodes = {} THEN camera ELSE size)
      /\ drawn' = Picture'
      /\ UNCHANGED <<told, hidden, late, size, resized>>
  BY DEF SetGraph, ClearSelection, applyLayout, Fitted, Redraw, sizeVars
<1>2. graph' \in Graphs /\ Waiting'
  BY <1>1 DEF Waiting
<1>3. graph'.nodes # {}
  BY <1>2, CanvasConstants
<1>4. OfTheGraph'
  BY <1>1 DEF OfTheGraph, NoSelection
<1>5. Fitting'
  BY <1>1, <1>3 DEF Fitting
<1>6. Telling'
  BY <1>1 DEF Telling, NoSelection
<1> QED
  BY <1>1, <1>2, <1>4, <1>5, <1>6

\* The observer.
LEMMA ResizeKeeps ==
  ASSUME CanvasInv, Resize \/ Relayout
  PROVE  CanvasInv'
<1> USE DEF CanvasInv
<1>1. UNCHANGED <<graph, selected, hovered, frames, hidden, late, told>>
  BY DEF Resize, Relayout, pageVars
<1>2. Waiting' /\ Telling'
  BY <1>1 DEF Waiting, Telling
<1>3. CASE Resize
  <2>1. /\ ~resized /\ size' # size /\ resized' = TRUE
        /\ UNCHANGED <<laidOut, layout, camera, drawn>>
    BY <1>3 DEF Resize
  <2> QED
    BY <1>1, <1>2, <2>1 DEF OfTheGraph, Fitting, Picture
<1>4. CASE Relayout
  <2>1. drawn' = Picture' /\ resized' = FALSE /\ size' = size
    BY <1>4 DEF Relayout, Redraw
  <2>2. CASE layout = size
    <3>1. UNCHANGED <<laidOut, layout, camera>>
      BY <1>4, <2>2 DEF Relayout
    <3> QED
      BY <1>1, <1>2, <2>1, <2>2, <3>1 DEF OfTheGraph, Fitting
  <2>3. CASE layout # size
    <3>1. /\ layout' = size /\ laidOut' = graph.nodes
          /\ camera' = (IF graph.nodes = {} THEN camera ELSE size)
      BY <1>4, <2>3 DEF Relayout, applyLayout, Fitted
    <3> QED
      BY <1>1, <1>2, <2>1, <3>1 DEF OfTheGraph, Fitting
  <2> QED
    BY <2>2, <2>3
<1> QED
  BY <1>3, <1>4

-----------------------------------------------------------------------------
\* The user.  Pans, zooms and fits change the camera alone.
LEMMA CameraKeeps ==
  ASSUME CanvasInv, Pan \/ Zoom \/ Fit
  PROVE  CanvasInv'
<1> USE DEF CanvasInv
<1>1. /\ camera' \in {Moved, size} /\ (laidOut = {} => camera' = Moved)
      /\ drawn' = Picture'
      /\ UNCHANGED <<graph, laidOut, layout, selected, hovered, told, late, frames, hidden,
                     size, resized>>
  BY DEF Pan, Zoom, Fit, Redraw, pageVars, sizeVars
<1> QED
  BY <1>1 DEF Waiting, OfTheGraph, Fitting, Telling

LEMMA PressKeeps ==
  ASSUME CanvasInv, PointerDown \/ PointerCancel
  PROVE  CanvasInv'
<1>1. UNCHANGED <<looks, fits, tells, drawn>>
  BY DEF PointerDown, PointerCancel, looks, fits, tells, pageVars, sizeVars
<1> QED
  BY <1>1 DEF CanvasInv, Waiting, OfTheGraph, Fitting, Telling, Picture, looks, fits, tells

LEMMA HoverKeeps ==
  ASSUME CanvasInv, Hover
  PROVE  CanvasInv'
<1>1. /\ hovered' \in laidOut \union {Nothing}
      /\ drawn' = Picture'
      /\ UNCHANGED <<graph, laidOut, selected, fits, tells>>
  BY DEF Hover, Redraw, fits, tells, pageVars, sizeVars
<1> QED
  BY <1>1 DEF CanvasInv, Waiting, OfTheGraph, Fitting, Telling, fits, tells

\* A selection of the graph, told with the same node and edge, or with the
\* edge that leads to the node.
LEMMA SelectionKeeps ==
  ASSUME CanvasInv, NEW node \in laidOut \union {Nothing}, NEW edge, NEW shown,
         shown \in graph.edges \union {Nothing}, shown \in {edge, Nothing},
         selected' = [node |-> node, edge |-> shown], OnSelect(node, edge),
         drawn' = Picture', graph.nodes = {} => camera' = Moved, camera' \in {camera, Moved},
         UNCHANGED <<graph, laidOut, layout, hovered, frames, hidden, size, resized>>
  PROVE  CanvasInv'
<1> USE DEF CanvasInv
<1>1. told' = [node |-> node, edge |-> edge] /\ late' = (late \/ frames # <<>>)
  BY DEF OnSelect
<1>2. Waiting' /\ OfTheGraph'
  BY DEF Waiting, OfTheGraph
<1>3. Fitting'
  BY DEF Fitting
<1>4. Telling'
  BY <1>1 DEF Telling
<1> QED
  BY <1>2, <1>3, <1>4

LEMMA PointerUpKeeps ==
  ASSUME CanvasInv, PointerUp
  PROVE  CanvasInv'
<1> USE DEF CanvasInv
<1>1. UNCHANGED <<graph, laidOut, layout, camera, hovered, frames, hidden, paints, size, resized>>
  BY DEF PointerUp, pageVars, sizeVars
<1>2. CASE IsClick
  <2>1. /\ selected' \in Hits /\ OnSelect(selected'.node, selected'.edge)
        /\ drawn' = [Picture EXCEPT !.selected = selected']
    BY <1>2 DEF PointerUp
  <2>2. PICK node \in laidOut \union {Nothing}, edge \in graph.edges \union {Nothing} :
          selected' = [node |-> node, edge |-> edge]
    BY <2>1 DEF Hits, NoSelection
  <2>3. OnSelect(node, edge)
    BY <2>1, <2>2
  <2>4. drawn' = Picture'
    BY <1>1, <2>1 DEF Picture
  <2>5. graph.nodes = {} => camera' = Moved
    BY <1>1 DEF Fitting
  <2> QED
    BY <1>1, <2>2, <2>3, <2>4, <2>5, SelectionKeeps
<1>3. CASE ~IsClick
  <2>1. UNCHANGED <<looks, fits, tells, drawn>>
    BY <1>1, <1>3 DEF PointerUp, looks, fits, tells
  <2> QED
    BY <2>1 DEF Waiting, OfTheGraph, Fitting, Telling, Picture, looks, fits, tells
<1> QED
  BY <1>2, <1>3

LEMMA FocusKeeps ==
  ASSUME CanvasInv, FocusNothing \/ \E n \in laidOut : FocusNode(n)
  PROVE  CanvasInv'
<1>1. CASE FocusNothing
  <2>1. /\ selected' = [node |-> Nothing, edge |-> Nothing] /\ OnSelect(Nothing, Nothing)
        /\ drawn' = Picture'
        /\ UNCHANGED <<graph, laidOut, layout, camera, hovered, frames, hidden, size, resized>>
    BY <1>1 DEF FocusNothing, NoSelection, Redraw, pageVars, sizeVars
  <2>2. graph.nodes = {} => camera' = Moved
    BY <2>1 DEF CanvasInv, Fitting
  <2> QED
    BY <2>1, <2>2, SelectionKeeps
<1>2. ASSUME NEW n \in laidOut, FocusNode(n) PROVE CanvasInv'
  <2>1. /\ selected' = [node |-> n, edge |-> Nothing] /\ OnSelect(n, graph.incident[n])
        /\ drawn' = Picture' /\ camera' = Moved
        /\ UNCHANGED <<graph, laidOut, layout, hovered, frames, hidden, size, resized>>
    BY <1>2 DEF FocusNode, Redraw, pageVars, sizeVars
  <2> QED
    BY <2>1, SelectionKeeps
<1> QED
  BY <1>1, <1>2

-----------------------------------------------------------------------------
LEMMA CanvasInvariant == CanvasSpec => []CanvasInv
<1>1. CanvasInv /\ [CanvasNext]_canvasVars => CanvasInv'
  <2> SUFFICES ASSUME CanvasInv, [CanvasNext]_canvasVars PROVE CanvasInv'
    OBVIOUS
  <2>1. ASSUME NEW g \in Graphs \union {Empty}, Paint(g) PROVE CanvasInv'
    BY <2>1, PaintKeeps
  <2>2. CASE SetGraph \/ Resize \/ Relayout
    BY <2>2, SetGraphKeeps, ResizeKeeps
  <2>3. CASE Pointer
    BY <2>3, PressKeeps, CameraKeeps, HoverKeeps, PointerUpKeeps DEF Pointer
  <2>4. CASE Fit \/ FocusNothing \/ \E n \in laidOut : FocusNode(n)
    BY <2>4, CameraKeeps, FocusKeeps
  <2>5. CASE UNCHANGED canvasVars
    BY <2>5 DEF canvasVars, CanvasInv, Waiting, OfTheGraph, Fitting, Telling, Picture
  <2> QED
    BY <2>1, <2>2, <2>3, <2>4, <2>5 DEF CanvasNext
<1> QED
  BY <1>1, CanvasInitially, PTL DEF CanvasSpec

\* The canvas never shows or selects what its graph has not, its camera
\* fits once no resize is under way, and the inspector agrees with the
\* selection but for one made while a frame was due.
THEOREM CanvasCorrect == CanvasSpec => []CanvasSettles
<1>1. CanvasInv => CanvasSettles
  BY DEF CanvasInv, OfTheGraph, Fitting, Telling, CanvasSettles
<1> QED
  BY <1>1, CanvasInvariant, PTL
=============================================================================
