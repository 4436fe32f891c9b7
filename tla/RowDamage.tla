------------------------------ MODULE RowDamage ------------------------------
(***************************************************************************)
(* The rows of a frame: how the host encodes them as a delta, the client    *)
(* applies it, and the damage of the frames between two renders moves and   *)
(* repaints what the renderer has drawn (crates/core/src/remote/frame.rs and *)
(* `damage' of remote/backend.rs).  FrameStream says which frame a delta is  *)
(* applied to; here each reaches the client.                                *)
(***************************************************************************)
EXTENDS Integers, Sequences, FiniteSets

CONSTANTS
    Cells,              \* what a cell may hold
    Sizes,              \* [rows, cols] a viewport may have
    MaxPendingScrolls,  \* MAX_PENDING_SCROLLS (32 in the code)
    MaxMove,            \* lines a frame may move by in an instance
    MaxGeneration       \* frames in a behaviour

ASSUME RowAssumption ==
    /\ \A s \in Sizes : s.rows \in Nat \ {0} /\ s.cols \in Nat \ {0}
    /\ Sizes # {} /\ Cells # {}
    /\ MaxPendingScrolls \in Nat /\ MaxMove \in Nat /\ MaxGeneration \in Nat

VARIABLES
    screen,    \* the frame the host encoded last
    shown,     \* the frame the client shows
    pending,   \* DamageTracker::pending
    last,      \* last_render: the frame the renderer read last
    drawn      \* the cells it has drawn

vars == <<screen, shown, pending, last, drawn>>

-----------------------------------------------------------------------------
Contents(size) == [1..size.rows -> [1..size.cols -> Cells]]
Abs(n) == IF n < 0 THEN -n ELSE n
Least(S) == CHOOSE n \in S : \A m \in S : n <= m
Greatest(S) == CHOOSE n \in S : \A m \in S : n >= m

\* The row of the frame before that shows what `row' shows now, if any.
Source(row, shift, rows) == {row + shift} \cap (1..rows)

\* Encoding.
Changed(old, new, shift, rows) ==
    {row \in 1..rows : \A source \in Source(row, shift, rows) : old[source] # new[row]}

\* The shift that leaves fewer rows to send, of how far output and scrolling
\* moved the view and none.
Shift(old, new, moved, rows) ==
    IF /\ Abs(moved) < rows
       /\ Cardinality(Changed(old, new, moved, rows)) < Cardinality(Changed(old, new, 0, rows))
    THEN moved ELSE 0

Delta(old, new, moved, rows) ==
    LET shift == Shift(old, new, moved, rows)
    IN  [shift |-> shift, sent |-> [row \in Changed(old, new, shift, rows) |-> new[row]]]

\* Applying: FrameUpdate::apply, and a mutant of it in which no row moves.
AppliedUnmoved(old, d, rows) ==
    [row \in 1..rows |-> IF row \in DOMAIN d.sent THEN d.sent[row] ELSE old[row]]
Applied(old, d, rows) ==
    [row \in 1..rows |-> IF row \in DOMAIN d.sent THEN d.sent[row] ELSE old[row + d.shift]]

\* The columns to repaint in a row that was sent, from the first that differs
\* to the last; a row that scrolled in is new.
Span(old, d, row, size) ==
    LET differ == {col \in 1..size.cols :
                      \A source \in Source(row, d.shift, size.rows) :
                          old[source][col] # d.sent[row][col]}
    IN  IF differ = {} THEN {} ELSE Least(differ)..Greatest(differ)

Spans(old, d, size) ==
    [row \in 1..size.rows |-> IF row \in DOMAIN d.sent THEN Span(old, d, row, size) ELSE {}]

-----------------------------------------------------------------------------
(* DamageTracker.  `pending' is a set that holds at most one record: none    *)
(* when the damage is unknown.                                              *)

Hull(S) == IF S = {} THEN {} ELSE Least(S)..Greatest(S)

\* Damage moves with the rows; rows that scroll in are in `spans'.  In the mutant
\* it stays where it was.
MovedNever(columns, shift, rows) == columns
Moved(columns, shift, rows) ==
    [row \in 1..rows |-> UNION {columns[source] : source \in Source(row, shift, rows)}]

Record(p, shift, spans, rows) ==
    LET at == Moved(p.columns, shift, rows)
    IN  [p EXCEPT !.scrolls = IF shift = 0 THEN @ ELSE Append(@, shift),
                  !.columns = [row \in 1..rows |-> Hull(at[row] \cup spans[row])]]

\* The mutant collects any number of scrolls.
RecordedAlways(d, spans, rows) ==
    {Record(p, d.shift, spans, rows) : p \in {q \in pending : DOMAIN q.columns = 1..rows}}
Recorded(d, spans, rows) ==
    {Record(p, d.shift, spans, rows) :
        p \in {q \in pending : /\ DOMAIN q.columns = 1..rows
                               /\ d.shift # 0 => Len(q.scrolls) < MaxPendingScrolls}}

\* Collecting starts anew from the frame the renderer reads.
Collecting(f) == [base |-> f.generation, scrolls |-> <<>>,
                  columns |-> [row \in 1..f.size.rows |-> {}]]

-----------------------------------------------------------------------------
Frame(size, generation, offset, history, cells) ==
    [size |-> size, generation |-> generation, offset |-> offset,
     history |-> history, cells |-> cells]

Init ==
    /\ \E size \in Sizes : \E cells \in Contents(size) :
           screen = Frame(size, 0, 0, 0, cells)
    /\ shown = screen /\ pending = {} /\ last = {} /\ drawn = <<>>

\* A frame of the same screen: output moved the lines, the view scrolled back
\* or forth, and any cells may have changed.
DeltaFrame ==
    /\ screen.generation < MaxGeneration
    /\ \E moved \in -MaxMove..MaxMove, offset \in 0..MaxMove, history \in 0..MaxMove,
          cells \in Contents(screen.size) :
           LET rows == screen.size.rows
               new  == Frame(screen.size, screen.generation + 1, offset, history, cells)
               d    == Delta(screen.cells, cells, moved, rows)
           IN  \* Lines scroll into history, never back.
               /\ moved + offset - screen.offset >= 0
               /\ offset <= history
               /\ screen' = new
               /\ shown' = [new EXCEPT !.cells = Applied(shown.cells, d, rows)]
               /\ pending' = Recorded(d, Spans(shown.cells, d, screen.size), rows)
    /\ UNCHANGED <<last, drawn>>

\* A frame of another screen or size, or one asked for anew.
FullFrame ==
    /\ screen.generation < MaxGeneration
    /\ \E size \in Sizes : \E cells \in Contents(size) :
           screen' = Frame(size, screen.generation + 1, 0, 0, cells)
    /\ shown' = screen' /\ pending' = {}
    /\ UNCHANGED <<last, drawn>>

-----------------------------------------------------------------------------
(* Rendering.                                                              *)

\* What was drawn, with its rows moved as each scroll says.
Rotate(cells, shift) ==
    [row \in DOMAIN cells |-> cells[((row - 1 + shift) % Len(cells)) + 1]]
Scrolled(cells, scrolls) ==
    LET after[n \in 0..Len(scrolls)] ==
            IF n = 0 THEN cells ELSE Rotate(after[n - 1], scrolls[n])
    IN  after[Len(scrolls)]

Repainted(cells, new, columns) ==
    [row \in DOMAIN new |->
        [col \in DOMAIN new[row] |->
            IF col \in columns[row] THEN new[row][col] ELSE cells[row][col]]]

Comparable(old) == old.size = shown.size /\ old.offset = shown.offset

\* The damage applies to the frame read last, whose history it explains.
Known(p, old) ==
    /\ p.base = old.generation
    /\ old.history = shown.history \/ p.scrolls # <<>>

\* Where the cells differ, when no damage is known.
Differing(old) ==
    [row \in 1..shown.size.rows |->
        {col \in 1..shown.size.cols : old.cells[row][col] # shown.cells[row][col]}]

Render ==
    /\ last # {shown}
    /\ \/ /\ \E old \in last, p \in pending :
                 /\ Comparable(old) /\ Known(p, old)
                 /\ drawn' = Repainted(Scrolled(drawn, p.scrolls), shown.cells, p.columns)
       \/ /\ \E old \in last :
                 /\ Comparable(old) /\ \A p \in pending : ~Known(p, old)
                 /\ old.history = shown.history
                 /\ drawn' = Repainted(drawn, shown.cells, Differing(old))
       \/ /\ \A old \in last : ~Comparable(old) \/ ( /\ old.history # shown.history
                                                     /\ \A p \in pending : ~Known(p, old) )
          /\ drawn' = shown.cells
    /\ last' = {shown}
    /\ pending' = {Collecting(shown)}
    /\ UNCHANGED <<screen, shown>>

Next == DeltaFrame \/ FullFrame \/ Render

Spec == Init /\ [][Next]_vars

-----------------------------------------------------------------------------
(* Properties.                                                             *)

FrameType(f) ==
    /\ f.size \in Sizes /\ f.generation \in 0..MaxGeneration
    /\ f.offset \in Nat /\ f.history \in Nat
    /\ f.cells \in Contents(f.size)

\* Frames are whole; the damage collected covers rows of the frame shown, with
\* no more scrolls than are worth replaying.
TypeOK ==
    /\ FrameType(screen) /\ FrameType(shown)
    /\ \A p, q \in pending : p = q
    /\ \A p \in pending :
           /\ DOMAIN p.columns = 1..shown.size.rows
           /\ \A row \in DOMAIN p.columns : p.columns[row] \subseteq 1..shown.size.cols
           /\ Len(p.scrolls) <= MaxPendingScrolls
           /\ \A i \in 1..Len(p.scrolls) : Abs(p.scrolls[i]) \in 1..(shown.size.rows - 1)

\* The client rebuilds every frame of the host exactly, however its lines moved.
ShownIsScreen == shown = screen

\* What the renderer drew from the damage is the frame it read, whatever
\* frames came between two renders.
DrawnIsShown == \A f \in last : drawn = f.cells
=============================================================================
