--------------------------- MODULE RowDamageProofs ---------------------------
(***************************************************************************)
(* Proofs about the deltas of RowDamage: whatever the contents and however   *)
(* far the lines moved, the client rebuilds the host's frame.                *)
(***************************************************************************)
EXTENDS RowDamage, WellFoundedInduction, TLAPS

\* The frames a behaviour holds: of a size the viewport may have, and whole.
Framed(f) == f.size \in Sizes /\ f.cells \in Contents(f.size)

\* The invariant.  That the client shows the host's frame is inductive once
\* the frame is known to be whole.
Invariant == Framed(screen) /\ shown = screen

\* How far the content moved is a number of lines, zero or as told.
LEMMA ShiftInt ==
    ASSUME NEW old, NEW new, NEW moved \in Int, NEW rows
    PROVE  Shift(old, new, moved, rows) \in Int
  BY DEF Shift

\* Applying a delta to the frame it was made from yields the frame it was made
\* for: a row that was not sent has a source, and the source shows the same.
LEMMA DeltaExact ==
    ASSUME NEW rows \in Nat, NEW S, NEW old \in [1..rows -> S],
           NEW new \in [1..rows -> S], NEW moved \in Int
    PROVE  Applied(old, Delta(old, new, moved, rows), rows) = new
<1> DEFINE shift == Shift(old, new, moved, rows)
           changed == Changed(old, new, shift, rows)
           d == Delta(old, new, moved, rows)
<1>1. shift \in Int
  BY ShiftInt
<1>2. d.shift = shift /\ DOMAIN d.sent = changed /\ \A row \in changed : d.sent[row] = new[row]
  BY DEF Delta
<1>3. ASSUME NEW row \in 1..rows, row \notin changed
      PROVE  old[row + shift] = new[row]
  <2>1. PICK source \in Source(row, shift, rows) : old[source] = new[row]
    BY <1>3 DEF Changed
  <2> QED
    BY <2>1 DEF Source
<1>4. ASSUME NEW row \in 1..rows
      PROVE  (IF row \in DOMAIN d.sent THEN d.sent[row] ELSE old[row + d.shift]) = new[row]
  <2>1. CASE row \in changed
    BY <1>2, <2>1
  <2>2. CASE row \notin changed
    BY <1>2, <1>3, <2>2
  <2> QED
    BY <2>1, <2>2
<1>5. Applied(old, d, rows) = [row \in 1..rows |-> new[row]]
  <2> HIDE DEF d
  <2> QED
    BY <1>4 DEF Applied
<1> QED
  BY <1>5

-----------------------------------------------------------------------------
LEMMA InitInvariant == Init => Invariant
  BY DEF Init, Invariant, Framed, Frame

\* A frame of the same screen reaches the client as a delta of its rows.
LEMMA DeltaFrameInvariant ==
    ASSUME Invariant, DeltaFrame
    PROVE  Invariant'
<1>1. PICK moved \in -MaxMove..MaxMove, offset \in 0..MaxMove, history \in 0..MaxMove,
           cells \in Contents(screen.size) :
          LET rows == screen.size.rows
              new  == Frame(screen.size, screen.generation + 1, offset, history, cells)
              d    == Delta(screen.cells, cells, moved, rows)
          IN  /\ screen' = new
              /\ shown' = [new EXCEPT !.cells = Applied(shown.cells, d, rows)]
  BY DEF DeltaFrame
<1> DEFINE rows == screen.size.rows
           new  == Frame(screen.size, screen.generation + 1, offset, history, cells)
           d    == Delta(screen.cells, cells, moved, rows)
<1>2. rows \in Nat /\ moved \in Int
  BY RowAssumption DEF Invariant, Framed
<1>3. Applied(shown.cells, d, rows) = cells
  <2>1. screen.cells \in [1..rows -> [1..screen.size.cols -> Cells]]
    BY DEF Invariant, Framed, Contents
  <2>2. cells \in [1..rows -> [1..screen.size.cols -> Cells]]
    BY DEF Contents
  <2>3. shown.cells = screen.cells
    BY DEF Invariant
  <2>4. Applied(screen.cells, Delta(screen.cells, cells, moved, rows), rows) = cells
    <3> HIDE DEF rows
    <3> QED
      BY <1>2, <2>1, <2>2, DeltaExact
  <2> QED
    BY <2>3, <2>4
<1>4. screen' = new /\ shown' = [new EXCEPT !.cells = cells]
  BY <1>1, <1>3
<1>5. shown' = screen'
  BY <1>4 DEF Frame
<1>6. Framed(screen')
  BY <1>4 DEF Framed, Frame, Invariant
<1> QED
  BY <1>5, <1>6 DEF Invariant, Framed

LEMMA StepInvariant ==
    ASSUME Invariant, [Next]_vars
    PROVE  Invariant'
<1>1. CASE DeltaFrame
  BY <1>1, DeltaFrameInvariant
<1>2. CASE FullFrame
  BY <1>2 DEF FullFrame, Invariant, Framed, Frame
<1>3. CASE Render
  BY <1>3 DEF Render, Invariant, Framed
<1>4. CASE UNCHANGED vars
  BY <1>4 DEF vars, Invariant, Framed
<1> QED
  BY <1>1, <1>2, <1>3, <1>4 DEF Next

\* The client rebuilds every frame of the host exactly: FrameUpdate::apply
\* inverts FrameEncoder's delta for any size, contents and movement.
THEOREM FramesRebuilt == Spec => []ShownIsScreen
<1>1. Invariant => ShownIsScreen
  BY DEF Invariant, ShownIsScreen
<1> QED
  BY InitInvariant, StepInvariant, <1>1, PTL DEF Spec


-----------------------------------------------------------------------------
(* Columns between the first and the last that differ.                     *)

\* A set of numbers that is not empty has a least one.
LEMMA HasLeast ==
    ASSUME NEW S \in SUBSET Nat, S # {}
    PROVE  \E m \in S : \A y \in S : m <= y
<1>1. PICK m \in S : \A y \in S : ~(<<y, m>> \in OpToRel(<, Nat))
  BY WFMin, NatLessThanWellFounded
<1>2. ASSUME NEW y \in Nat, NEW n \in Nat, y < n PROVE <<y, n>> \in OpToRel(<, Nat)
  BY <1>2, SMT DEF OpToRel
<1>3. \A y \in S : ~(y < m)
  BY <1>1, <1>2
<1>4. \A y \in S : y \in Nat /\ m \in Nat
  OBVIOUS
<1>5. \A y \in S : m <= y
  BY <1>3, <1>4
<1> QED
  BY <1>5

\* A set of columns that is not empty has a last one.
LEMMA HasGreatest ==
    ASSUME NEW cols \in Nat, NEW S \in SUBSET (1..cols), S # {}
    PROVE  \E m \in S : \A y \in S : y <= m
<1> DEFINE behind == {cols - n : n \in S}
<1>1. \A n \in S : n \in Nat /\ n <= cols
  OBVIOUS
<1>2. behind \in SUBSET Nat /\ behind # {}
  <2>1. \A n \in S : cols - n \in Nat
    BY <1>1
  <2> QED
    BY <2>1
<1>3. PICK k \in behind : \A y \in behind : k <= y
  <2> HIDE DEF behind
  <2> QED
    BY <1>2, HasLeast
<1>4. PICK m \in S : k = cols - m
  OBVIOUS
<1>5. ASSUME NEW y \in S PROVE y <= m
  <2>1. cols - m <= cols - y
    BY <1>3, <1>4
  <2> QED
    BY <1>1, <2>1
<1> QED
  BY <1>5

\* A hull covers its columns, and nothing beyond them.
LEMMA HullCovers ==
    ASSUME NEW cols \in Nat, NEW S \in SUBSET (1..cols)
    PROVE  S \subseteq Hull(S) /\ Hull(S) \subseteq 1..cols
<1>1. CASE S = {}
  BY <1>1 DEF Hull
<1>2. CASE S # {}
  <2>1. Least(S) \in S /\ \A y \in S : Least(S) <= y
    <3>1. S \in SUBSET Nat
      OBVIOUS
    <3>2. \E m \in S : \A y \in S : m <= y
      BY <1>2, <3>1, HasLeast
    <3> QED
      BY <3>2 DEF Least
  <2>2. Greatest(S) \in S /\ \A y \in S : y <= Greatest(S)
    <3>1. \E m \in S : \A y \in S : y <= m
      BY <1>2, HasGreatest
    <3>2. \E m \in S : \A y \in S : m >= y
      BY <3>1
    <3>3. Greatest(S) \in S /\ \A y \in S : Greatest(S) >= y
      BY <3>2 DEF Greatest
    <3> QED
      BY <3>3
  <2>3. Hull(S) = Least(S)..Greatest(S)
    BY <1>2 DEF Hull
  <2> HIDE DEF Hull
  <2>4. Least(S) \in 1..cols /\ Greatest(S) \in 1..cols /\ \A y \in S : y \in Nat
    <3>1. \A y \in S : y \in 1..cols /\ y \in Nat
      OBVIOUS
    <3> HIDE DEF Least, Greatest
    <3> QED
      BY <2>1, <2>2, <3>1
  <2>5. \A y \in S : y \in Least(S)..Greatest(S)
    BY <2>1, <2>2, <2>4
  <2>6. Least(S)..Greatest(S) \subseteq 1..cols
    BY <2>4
  <2> QED
    BY <2>3, <2>5, <2>6
<1> QED
  BY <1>1, <1>2

-----------------------------------------------------------------------------
(* Scrolls, one after the other.                                           *)

\* What is drawn after each of the scrolls.
IsRun(f, cells, scrolls, k) ==
    f = [n \in 0..k |-> IF n = 0 THEN cells ELSE Rotate(f[n - 1], scrolls[n])]

\* Two lists have the first scrolls in common.
BeginAlike(s, t, k) == \A i \in 1..k : s[i] = t[i]

\* However many scrolls there are, they can be carried out.
LEMMA RunExists ==
    ASSUME NEW cells, NEW scrolls, NEW k \in Nat
    PROVE  \E f : IsRun(f, cells, scrolls, k)
<1> DEFINE Bad == {n \in Nat : ~ \E f : IsRun(f, cells, scrolls, n)}
<1>1. SUFFICES Bad = {}
  OBVIOUS
<1>2. SUFFICES ASSUME Bad # {} PROVE FALSE
  OBVIOUS
<1>3. PICK m \in Bad : \A y \in Bad : m <= y
  <2>1. Bad \in SUBSET Nat
    OBVIOUS
  <2> HIDE DEF Bad
  <2> QED
    BY <1>2, <2>1, HasLeast
<1>4. m # 0
  <2>1. IsRun([n \in 0..0 |-> cells], cells, scrolls, 0)
    BY DEF IsRun
  <2> QED
    BY <1>3, <2>1
<1>5. m \in Nat /\ m - 1 \in Nat /\ ~(m <= m - 1)
  BY <1>3, <1>4
<1>6. PICK f : IsRun(f, cells, scrolls, m - 1)
  BY <1>3, <1>5
<1> DEFINE g == [n \in 0..m |-> IF n = m THEN Rotate(f[m - 1], scrolls[m]) ELSE f[n]]
<1>7. ASSUME NEW n \in 0..m
      PROVE  g[n] = IF n = 0 THEN cells ELSE Rotate(g[n - 1], scrolls[n])
  <2>1. CASE n = m
    <3>1. m - 1 \in 0..m /\ m - 1 # m
      BY <1>5
    <3>2. g[m] = Rotate(f[m - 1], scrolls[m]) /\ g[m - 1] = f[m - 1]
      BY <1>5, <3>1
    <3> HIDE DEF g
    <3> QED
      BY <1>4, <2>1, <3>2
  <2>2. CASE n # m
    <3>1. n \in 0..(m - 1) /\ (n # 0 => n - 1 \in 0..m /\ n - 1 # m)
      BY <1>5, <2>2
    <3>2. f[n] = IF n = 0 THEN cells ELSE Rotate(f[n - 1], scrolls[n])
      BY <1>6, <3>1 DEF IsRun
    <3>3. g[n] = f[n] /\ (n # 0 => g[n - 1] = f[n - 1])
      BY <2>2, <3>1
    <3> HIDE DEF g
    <3> QED
      BY <3>2, <3>3
  <2> QED
    BY <2>1, <2>2
<1>8. g = [n \in 0..m |-> g[n]]
  OBVIOUS
<1>9. IsRun(g, cells, scrolls, m)
  <2> HIDE DEF g
  <2> QED
    BY <1>7, <1>8 DEF IsRun
<1> QED
  BY <1>3, <1>9

\* After a scroll, what was drawn before is rotated by it.
LEMMA RunAt ==
    ASSUME NEW f, NEW cells, NEW scrolls, NEW k, IsRun(f, cells, scrolls, k),
           NEW n \in 0..k, n # 0
    PROVE  f[n] = Rotate(f[n - 1], scrolls[n])
  BY DEF IsRun

\* There is one way to carry out the first scrolls of two lists that begin alike.
LEMMA RunUnique ==
    ASSUME NEW cells, NEW s, NEW t, NEW k \in Nat, NEW l \in Nat, k <= l,
           BeginAlike(s, t, k),
           NEW f, IsRun(f, cells, s, k), NEW g, IsRun(g, cells, t, l)
    PROVE  \A n \in 0..k : f[n] = g[n]
<1> DEFINE Bad == {n \in 0..k : f[n] # g[n]}
<1>1. SUFFICES ASSUME Bad # {} PROVE FALSE
  OBVIOUS
<1>2. PICK m \in Bad : \A y \in Bad : m <= y
  <2>1. Bad \in SUBSET Nat
    OBVIOUS
  <2> HIDE DEF Bad
  <2> QED
    BY <1>1, <2>1, HasLeast
<1>3. m \in 0..k /\ m \in 0..l /\ f[m] # g[m]
  BY <1>2
<1>4. /\ f[m] = IF m = 0 THEN cells ELSE Rotate(f[m - 1], s[m])
      /\ g[m] = IF m = 0 THEN cells ELSE Rotate(g[m - 1], t[m])
  BY <1>3 DEF IsRun
<1>5. m # 0
  BY <1>3, <1>4
<1>6. m - 1 \in 0..k /\ ~(m <= m - 1) /\ m \in 1..k
  BY <1>3, <1>5
<1>7. f[m - 1] = g[m - 1]
  BY <1>2, <1>6
<1>8. s[m] = t[m]
  BY <1>6 DEF BeginAlike
<1> QED
  BY <1>3, <1>4, <1>5, <1>7, <1>8

\* One scroll more is carried out after the others.
LEMMA RunNext ==
    ASSUME NEW cells, NEW s, NEW t, NEW k \in Nat, BeginAlike(s, t, k),
           NEW l, l = k + 1,
           NEW f, IsRun(f, cells, s, k), NEW g, IsRun(g, cells, t, l)
    PROVE  g[l] = Rotate(f[k], t[l])
<1>1. k <= l /\ l \in Nat /\ k \in 0..k /\ l \in 0..l /\ l # 0 /\ l - 1 = k
  OBVIOUS
<1>2. \A n \in 0..k : f[n] = g[n]
  BY <1>1, RunUnique
<1>3. g[l] = Rotate(g[l - 1], t[l])
  BY <1>1, RunAt
<1> QED
  BY <1>1, <1>2, <1>3

\* The list of scrolls is carried out in turn.
LEMMA ScrolledInTurn ==
    ASSUME NEW cells, NEW scrolls \in Seq(Int), NEW shift \in Int
    PROVE  /\ Scrolled(cells, <<>>) = cells
           /\ Scrolled(cells, Append(scrolls, shift)) = Rotate(Scrolled(cells, scrolls), shift)
<1> DEFINE Run(s) == CHOOSE f : IsRun(f, cells, s, Len(s))
<1>1. ASSUME NEW s \in Seq(Int)
      PROVE  IsRun(Run(s), cells, s, Len(s)) /\ Scrolled(cells, s) = Run(s)[Len(s)]
  <2>1. IsRun(Run(s), cells, s, Len(s))
    <3>1. Len(s) \in Nat
      OBVIOUS
    <3>2. \E f : IsRun(f, cells, s, Len(s))
      BY <3>1, RunExists
    <3> QED
      BY <3>2
  <2>2. Scrolled(cells, s) = Run(s)[Len(s)]
    BY DEF Scrolled, IsRun
  <2> QED
    BY <2>1, <2>2
<1> HIDE DEF Run
<1>2. Scrolled(cells, <<>>) = cells
  <2>1. <<>> \in Seq(Int) /\ Len(<<>>) = 0
    OBVIOUS
  <2>2. IsRun(Run(<<>>), cells, <<>>, 0) /\ Scrolled(cells, <<>>) = Run(<<>>)[0]
    BY <1>1, <2>1
  <2> QED
    BY <2>2 DEF IsRun
<1> DEFINE t == Append(scrolls, shift)
           k == Len(scrolls)
<1>3. /\ t \in Seq(Int) /\ k \in Nat /\ Len(t) = k + 1 /\ t[k + 1] = shift
      /\ BeginAlike(scrolls, t, k)
  BY DEF BeginAlike
<1> HIDE DEF t
<1>4. PICK f : IsRun(f, cells, scrolls, k) /\ Scrolled(cells, scrolls) = f[k]
  BY <1>1
<1>5. PICK g : IsRun(g, cells, t, k + 1) /\ Scrolled(cells, t) = g[k + 1]
  BY <1>1, <1>3
<1>6. g[k + 1] = Rotate(f[k], t[k + 1])
  BY <1>3, <1>4, <1>5, RunNext
<1> QED
  BY <1>2, <1>3, <1>4, <1>5, <1>6 DEF t


-----------------------------------------------------------------------------
(* Rows that move.                                                         *)

\* Each row of `new' shows what its source within the screen showed in `old'.
MovedBy(new, old, shift, rows) ==
    \A row \in 1..rows : row + shift \in 1..rows => new[row] = old[row + shift]

\* Rows are moved within the screen, and each to where its content was.
LEMMA RotateMoves ==
    ASSUME NEW rows \in Nat \ {0}, NEW R, NEW cells \in [1..rows -> R], NEW shift \in Int
    PROVE  /\ Rotate(cells, shift) \in [1..rows -> R]
           /\ MovedBy(Rotate(cells, shift), cells, shift, rows)
<1>1. cells \in Seq(R) /\ Len(cells) = rows /\ DOMAIN cells = 1..rows
  OBVIOUS
<1>2. ASSUME NEW x \in Int PROVE (x % rows) + 1 \in 1..rows
  <2>1. x % rows \in 0..(rows - 1)
    OBVIOUS
  <2> QED
    BY <2>1
<1>3. Rotate(cells, shift) = [row \in 1..rows |-> cells[((row - 1 + shift) % rows) + 1]]
  BY <1>1 DEF Rotate
<1>4. \A row \in 1..rows : row - 1 + shift \in Int
  OBVIOUS
<1>5. Rotate(cells, shift) \in [1..rows -> R]
  BY <1>2, <1>3, <1>4
<1>6. ASSUME NEW row \in 1..rows, row + shift \in 1..rows
      PROVE  Rotate(cells, shift)[row] = cells[row + shift]
  <2> DEFINE x == row - 1 + shift
  <2>1. x \in Nat /\ x < rows /\ x + 1 = row + shift
    BY <1>6
  <2> HIDE DEF x
  <2>2. x % rows = x
    BY <2>1
  <2>3. Rotate(cells, shift)[row] = cells[(x % rows) + 1]
    BY <1>3 DEF x
  <2> QED
    BY <2>1, <2>2, <2>3
<1> QED
  BY <1>5, <1>6 DEF MovedBy

\* A row's new content is that of its source, but for the columns of its span.
LEMMA SpansCover ==
    ASSUME NEW size \in Sizes, NEW old \in Contents(size), NEW new \in Contents(size),
           NEW moved \in Int, NEW row \in 1..size.rows
    PROVE  LET d == Delta(old, new, moved, size.rows)
           IN  /\ Spans(old, d, size)[row] \subseteq 1..size.cols
               /\ \A col \in (1..size.cols) \ Spans(old, d, size)[row] :
                      /\ row + d.shift \in 1..size.rows
                      /\ old[row + d.shift][col] = new[row][col]
<1> DEFINE shift == Shift(old, new, moved, size.rows)
           changed == Changed(old, new, shift, size.rows)
           d == Delta(old, new, moved, size.rows)
           differ == {col \in 1..size.cols : \A source \in Source(row, d.shift, size.rows) :
                         old[source][col] # d.sent[row][col]}
<1>1. d.shift = shift /\ DOMAIN d.sent = changed /\ \A r \in changed : d.sent[r] = new[r]
  BY DEF Delta
<1>2. size.cols \in Nat
  BY RowAssumption
<1>3. CASE row \notin changed
  <2>1. PICK source \in Source(row, shift, size.rows) : old[source] = new[row]
    BY <1>3 DEF Changed
  <2>2. source = row + shift /\ source \in 1..size.rows
    BY <2>1 DEF Source
  <2>3. Spans(old, d, size)[row] = {}
    BY <1>1, <1>3 DEF Spans
  <2> QED
    BY <1>1, <2>1, <2>2, <2>3
<1>4. CASE row \in changed
  <2>1. Spans(old, d, size)[row] = Hull(differ)
    BY <1>1, <1>4 DEF Spans, Span, Hull
  <2>2. differ \subseteq Hull(differ) /\ Hull(differ) \subseteq 1..size.cols
    <3>1. differ \in SUBSET (1..size.cols)
      OBVIOUS
    <3> HIDE DEF differ
    <3> QED
      BY <1>2, <3>1, HullCovers
  <2>3. ASSUME NEW col \in 1..size.cols, col \notin differ
        PROVE  row + shift \in 1..size.rows /\ old[row + shift][col] = new[row][col]
    <3>1. PICK source \in Source(row, d.shift, size.rows) : old[source][col] = d.sent[row][col]
      BY <2>3
    <3>2. source = row + shift /\ source \in 1..size.rows
      BY <1>1, <3>1 DEF Source
    <3> QED
      BY <1>1, <1>4, <3>1, <3>2
  <2> QED
    BY <1>1, <2>1, <2>2, <2>3
<1> QED
  BY <1>3, <1>4


-----------------------------------------------------------------------------
(* The damage explains how what was drawn became what is shown.            *)

Damage(p) == [base |-> p.base, scrolls |-> p.scrolls, columns |-> p.columns]

\* The scrolls of `p' are worth replaying; its columns are some of each row's.
Collected(p, size) ==
    /\ p = Damage(p)
    /\ p.scrolls \in Seq(Int) /\ Len(p.scrolls) <= MaxPendingScrolls
    /\ \A i \in 1..Len(p.scrolls) : Abs(p.scrolls[i]) \in 1..(size.rows - 1)
    /\ DOMAIN p.columns = 1..size.rows
    /\ \A row \in 1..size.rows : p.columns[row] \subseteq 1..size.cols

\* What was drawn shows the frame `now' once it is scrolled, but for its columns.
Explains(p, before, now, size) ==
    /\ Collected(p, size)
    /\ Scrolled(before, p.scrolls) \in Contents(size)
    /\ \A row \in 1..size.rows : \A col \in (1..size.cols) \ p.columns[row] :
           Scrolled(before, p.scrolls)[row][col] = now[row][col]

\* A shift is zero, or shorter than the screen.
LEMMA ShiftShort ==
    ASSUME NEW old, NEW new, NEW moved \in Int, NEW rows \in Nat \ {0}
    PROVE  LET shift == Shift(old, new, moved, rows)
           IN  shift \in Int /\ (shift # 0 => Abs(shift) \in 1..(rows - 1))
<1> DEFINE shift == Shift(old, new, moved, rows)
<1>1. shift = 0 \/ (shift = moved /\ Abs(moved) < rows)
  BY DEF Shift
<1>2. moved # 0 /\ Abs(moved) < rows => Abs(moved) \in 1..(rows - 1)
  BY DEF Abs
<1> HIDE DEF shift
<1>3. shift \in Int /\ (shift # 0 => Abs(shift) \in 1..(rows - 1))
  BY <1>1, <1>2
<1> QED
  BY <1>3 DEF shift

\* A list of scrolls grows by one that is short.
LEMMA ScrollsGrow ==
    ASSUME NEW s \in Seq(Int), NEW rows \in Nat, NEW shift \in Int,
           Abs(shift) \in 1..(rows - 1), Len(s) < MaxPendingScrolls,
           \A i \in 1..Len(s) : Abs(s[i]) \in 1..(rows - 1)
    PROVE  /\ Append(s, shift) \in Seq(Int) /\ Len(Append(s, shift)) <= MaxPendingScrolls
           /\ \A i \in 1..Len(Append(s, shift)) : Abs(Append(s, shift)[i]) \in 1..(rows - 1)
<1> DEFINE t == Append(s, shift)
<1>1. /\ t \in Seq(Int) /\ Len(t) = Len(s) + 1 /\ Len(s) \in Nat
      /\ \A i \in 1..Len(s) : t[i] = s[i]
      /\ t[Len(s) + 1] = shift
  OBVIOUS
<1> HIDE DEF t
<1>2. Len(t) <= MaxPendingScrolls
  BY <1>1, RowAssumption
<1>3. \A i \in 1..Len(t) : i \in 1..Len(s) \/ i = Len(s) + 1
  BY <1>1
<1>4. \A i \in 1..Len(t) : Abs(t[i]) \in 1..(rows - 1)
  BY <1>1, <1>3
<1> QED
  BY <1>1, <1>2, <1>4 DEF t

\* A record with two of its fields replaced.
LEMMA FieldsReplaced ==
    ASSUME NEW base, NEW scrolls, NEW columns, NEW more, NEW hulls, NEW p, NEW q,
           p = [base |-> base, scrolls |-> scrolls, columns |-> columns],
           q = [p EXCEPT !.scrolls = more, !.columns = hulls]
    PROVE  q = [base |-> base, scrolls |-> more, columns |-> hulls]
  OBVIOUS

\* A delta recorded in the fields of a record: the scroll is added, and each
\* row repaints the hull of what moved there and what was sent.
LEMMA RecordFields ==
    ASSUME NEW p, p = Damage(p), NEW shift, NEW spans, NEW rows, NEW at,
           at = Moved(p.columns, shift, rows)
    PROVE  Record(p, shift, spans, rows) =
               [base |-> p.base,
                scrolls |-> IF shift = 0 THEN p.scrolls ELSE Append(p.scrolls, shift),
                columns |-> [row \in 1..rows |-> Hull(at[row] \cup spans[row])]]
<1> DEFINE more == IF shift = 0 THEN p.scrolls ELSE Append(p.scrolls, shift)
           hulls == [row \in 1..rows |-> Hull(at[row] \cup spans[row])]
<1>1. Record(p, shift, spans, rows) = [p EXCEPT !.scrolls = more, !.columns = hulls]
  BY DEF Record
<1>2. PICK base, scrolls, columns : p = [base |-> base, scrolls |-> scrolls, columns |-> columns]
  BY DEF Damage
<1> HIDE DEF more, hulls
<1>3. PICK q : q = [p EXCEPT !.scrolls = more, !.columns = hulls]
  OBVIOUS
<1>4. q = [base |-> base, scrolls |-> more, columns |-> hulls]
  BY <1>2, <1>3, FieldsReplaced
<1>5. p.base = base
  BY <1>2
<1> QED
  BY <1>1, <1>3, <1>4, <1>5 DEF more, hulls

\* A delta that is recorded keeps the damage true: its rows move as those drawn
\* will, and what it sends is among its columns.
LEMMA RecordExplains ==
    ASSUME NEW size \in Sizes, NEW old \in Contents(size), NEW new \in Contents(size),
           NEW moved \in Int, NEW p, NEW before, Explains(p, before, old, size),
           NEW d, d = Delta(old, new, moved, size.rows),
           d.shift # 0 => Len(p.scrolls) < MaxPendingScrolls
    PROVE  Explains(Record(p, d.shift, Spans(old, d, size), size.rows), before, new, size)
<1> DEFINE shift == d.shift
           rows == size.rows
           spans == Spans(old, d, size)
           at == Moved(p.columns, shift, rows)
           q == Record(p, shift, spans, rows)
<1>1. /\ shift \in Int /\ (shift # 0 => Abs(shift) \in 1..(rows - 1))
      /\ rows \in Nat \ {0} /\ size.cols \in Nat
  <2>1. rows \in Nat \ {0} /\ size.cols \in Nat
    BY RowAssumption
  <2>2. shift = Shift(old, new, moved, rows)
    BY DEF Delta
  <2> HIDE DEF shift, rows
  <2> QED
    BY <2>1, <2>2, ShiftShort
<1>2. Collected(p, size)
  BY DEF Explains
<1>3. /\ q = Damage(q)
      /\ q.scrolls = IF shift = 0 THEN p.scrolls ELSE Append(p.scrolls, shift)
      /\ q.columns = [row \in 1..rows |-> Hull(at[row] \cup spans[row])]
  <2>1. p = Damage(p)
    BY <1>2 DEF Collected
  <2>2. q = [base |-> p.base,
             scrolls |-> IF shift = 0 THEN p.scrolls ELSE Append(p.scrolls, shift),
             columns |-> [row \in 1..rows |-> Hull(at[row] \cup spans[row])]]
    <3> HIDE DEF shift, rows, spans
    <3> QED
      BY <2>1, RecordFields
  <2> HIDE DEF q, at, spans, shift, rows
  <2> QED
    BY <2>2 DEF Damage
<1>4. ASSUME NEW row \in 1..rows
      PROVE  /\ at[row] \cup spans[row] \subseteq 1..size.cols
             /\ row + shift \in 1..rows => p.columns[row + shift] \subseteq at[row]
  <2>1. at[row] = UNION {p.columns[source] : source \in Source(row, shift, rows)}
    BY DEF Moved
  <2>2. Source(row, shift, rows) \subseteq 1..rows
    BY DEF Source
  <2>3. row + shift \in 1..rows => row + shift \in Source(row, shift, rows)
    BY DEF Source
  <2>4. at[row] \subseteq 1..size.cols
    BY <1>2, <2>1, <2>2 DEF Collected
  <2>5. spans[row] \subseteq 1..size.cols
    BY SpansCover
  <2> HIDE DEF at, spans, shift
  <2> QED
    BY <2>1, <2>3, <2>4, <2>5
<1>5. ASSUME NEW row \in 1..rows
      PROVE  q.columns[row] \subseteq 1..size.cols /\ at[row] \cup spans[row] \subseteq q.columns[row]
  <2>1. q.columns[row] = Hull(at[row] \cup spans[row])
    BY <1>3
  <2>2. at[row] \cup spans[row] \in SUBSET (1..size.cols)
    BY <1>4
  <2> HIDE DEF q, at, spans, rows, shift
  <2> QED
    BY <1>1, <2>1, <2>2, HullCovers
<1>6. Collected(q, size)
  <2>1. /\ q.scrolls \in Seq(Int) /\ Len(q.scrolls) <= MaxPendingScrolls
        /\ \A i \in 1..Len(q.scrolls) : Abs(q.scrolls[i]) \in 1..(rows - 1)
    <3>1. CASE shift = 0
      BY <1>2, <1>3, <3>1 DEF Collected
    <3>2. CASE shift # 0
      <4>1. /\ p.scrolls \in Seq(Int)
            /\ \A i \in 1..Len(p.scrolls) : Abs(p.scrolls[i]) \in 1..(rows - 1)
        BY <1>2 DEF Collected
      <4>2. Len(p.scrolls) < MaxPendingScrolls /\ Abs(shift) \in 1..(rows - 1)
        BY <1>1, <3>2
      <4>3. q.scrolls = Append(p.scrolls, shift)
        BY <1>3, <3>2
      <4> HIDE DEF q, shift, rows
      <4> QED
        BY <1>1, <4>1, <4>2, <4>3, ScrollsGrow
    <3> QED
      BY <3>1, <3>2
  <2>2. DOMAIN q.columns = 1..rows
    BY <1>3
  <2> HIDE DEF q
  <2> QED
    BY <1>3, <1>5, <2>1, <2>2 DEF Collected
<1> DEFINE a == Scrolled(before, p.scrolls)
           b == Scrolled(before, q.scrolls)
<1>7. /\ b \in Contents(size)
      /\ \A row \in 1..rows : row + shift \in 1..rows => b[row] = a[row + shift]
  <2>1. a \in [1..rows -> [1..size.cols -> Cells]]
    BY DEF Explains, Contents
  <2>2. CASE shift = 0
    <3>1. b = a
      BY <1>3, <2>2
    <3>2. \A row \in 1..rows : row + shift = row
      BY <2>2
    <3> HIDE DEF a, b, shift
    <3> QED
      BY <2>1, <3>1, <3>2 DEF Contents
  <2>3. CASE shift # 0
    <3>1. b = Rotate(a, shift)
      <4>1. q.scrolls = Append(p.scrolls, shift) /\ p.scrolls \in Seq(Int)
        BY <1>2, <1>3, <2>3 DEF Collected
      <4> HIDE DEF q, shift
      <4> QED
        BY <1>1, <4>1, ScrolledInTurn
    <3>2. shift \in Int /\ Abs(shift) \in 1..(rows - 1) /\ rows \in Nat \ {0}
      BY <1>1, <2>3
    <3>3. b \in [1..rows -> [1..size.cols -> Cells]] /\ MovedBy(b, a, shift, rows)
      <4> DEFINE R == [1..size.cols -> Cells]
      <4>1. a \in [1..rows -> R]
        BY <2>1
      <4> HIDE DEF a, b, shift, rows, R
      <4>2. b \in [1..rows -> R] /\ MovedBy(b, a, shift, rows)
        BY <4>1, <3>1, <3>2, RotateMoves
      <4> QED
        BY <4>2 DEF R
    <3> HIDE DEF a, b, shift
    <3> QED
      BY <3>3 DEF Contents, MovedBy
  <2> QED
    BY <2>2, <2>3
<1>8. ASSUME NEW row \in 1..rows, NEW col \in (1..size.cols) \ q.columns[row]
      PROVE  b[row][col] = new[row][col]
  <2>1. col \notin at[row] /\ col \notin spans[row]
    BY <1>5
  <2>2. row + shift \in 1..rows /\ old[row + shift][col] = new[row][col]
    <3>1. col \in (1..size.cols) \ Spans(old, d, size)[row]
      BY <2>1
    <3> QED
      BY <3>1, SpansCover
  <2>3. col \notin p.columns[row + shift]
    BY <1>4, <2>1, <2>2
  <2>4. a[row + shift][col] = old[row + shift][col]
    BY <2>2, <2>3 DEF Explains
  <2>5. b[row] = a[row + shift]
    BY <1>7, <2>2
  <2> HIDE DEF a, b, q, shift
  <2> QED
    BY <2>2, <2>4, <2>5
<1>9. Explains(q, before, new, size)
  <2> HIDE DEF q
  <2> QED
    BY <1>6, <1>7, <1>8 DEF Explains, b, rows
<1> QED
  BY <1>9



-----------------------------------------------------------------------------
(* Between renders.                                                        *)

\* Repainting the columns where two screens may differ makes them equal.
LEMMA RepaintedAlike ==
    ASSUME NEW size, NEW new \in Contents(size), NEW cells, NEW columns,
           \A row \in 1..size.rows : \A col \in (1..size.cols) \ columns[row] :
               cells[row][col] = new[row][col]
    PROVE  Repainted(cells, new, columns) = new
<1>1. /\ new \in [1..size.rows -> [1..size.cols -> Cells]]
      /\ DOMAIN new = 1..size.rows
  BY DEF Contents
<1>2. ASSUME NEW row \in 1..size.rows
      PROVE  [col \in DOMAIN new[row] |->
                 IF col \in columns[row] THEN new[row][col] ELSE cells[row][col]] = new[row]
  <2>1. new[row] \in [1..size.cols -> Cells] /\ DOMAIN new[row] = 1..size.cols
    BY <1>1
  <2>2. \A col \in 1..size.cols :
            (IF col \in columns[row] THEN new[row][col] ELSE cells[row][col]) = new[row][col]
    OBVIOUS
  <2>3. [col \in DOMAIN new[row] |->
            IF col \in columns[row] THEN new[row][col] ELSE cells[row][col]]
        = [col \in 1..size.cols |-> new[row][col]]
    BY <2>1, <2>2
  <2> QED
    BY <2>1, <2>3
<1>3. Repainted(cells, new, columns) = [row \in 1..size.rows |-> new[row]]
  BY <1>1, <1>2 DEF Repainted
<1> QED
  BY <1>1, <1>3

\* What was drawn is the frame read last, and the damage, if known, explains
\* how the frame shown came of it.
DamageInv ==
    /\ Invariant /\ FrameType(screen)
    /\ \A old \in last : FrameType(old) /\ drawn = old.cells
    /\ pending # {} => last # {}
    /\ \A p, q \in pending : p = q
    /\ \A p \in pending, old \in last :
           old.size = shown.size /\ Explains(p, old.cells, shown.cells, shown.size)

LEMMA InitDamage == Init => DamageInv
<1> SUFFICES ASSUME Init PROVE DamageInv
  OBVIOUS
<1>1. FrameType(screen)
  BY RowAssumption DEF Init, FrameType, Frame
<1>2. pending = {} /\ last = {}
  BY DEF Init
<1> QED
  BY <1>1, <1>2, InitInvariant DEF DamageInv

\* Damage just begun explains that nothing changed.
LEMMA CollectingExplains ==
    ASSUME NEW f, f.size \in Sizes, f.cells \in Contents(f.size)
    PROVE  Explains(Collecting(f), f.cells, f.cells, f.size)
<1> DEFINE p == Collecting(f)
<1>1. /\ p = Damage(p)
      /\ p.scrolls = <<>> /\ p.columns = [row \in 1..f.size.rows |-> {}]
  BY DEF Collecting, Damage
<1>2. <<>> \in Seq(Int) /\ Len(<<>>) = 0
  OBVIOUS
<1>3. Scrolled(f.cells, p.scrolls) = f.cells
  <2>1. 0 \in Int
    OBVIOUS
  <2> HIDE DEF p
  <2> QED
    BY <1>1, <1>2, <2>1, ScrolledInTurn
<1> HIDE DEF p
<1>4. p.scrolls \in Seq(Int) /\ Len(p.scrolls) = 0 /\ 0 <= MaxPendingScrolls
  BY <1>1, <1>2, RowAssumption
<1>5. Collected(p, f.size)
  BY <1>1, <1>4 DEF Collected
<1>6. Explains(p, f.cells, f.cells, f.size)
  BY <1>3, <1>5 DEF Explains
<1> QED
  BY <1>6 DEF p

\* A frame of the same screen: its delta is recorded, or the damage forgotten.
LEMMA DeltaFrameDamage ==
    ASSUME DamageInv, DeltaFrame
    PROVE  DamageInv'
<1>1. PICK moved \in -MaxMove..MaxMove, offset \in 0..MaxMove, history \in 0..MaxMove,
           cells \in Contents(screen.size) :
          LET rows == screen.size.rows
              new  == Frame(screen.size, screen.generation + 1, offset, history, cells)
              d    == Delta(screen.cells, cells, moved, rows)
          IN  /\ screen' = new
              /\ pending' = Recorded(d, Spans(shown.cells, d, screen.size), rows)
  BY DEF DeltaFrame
<1> DEFINE size == screen.size
           d == Delta(screen.cells, cells, moved, size.rows)
           spans == Spans(screen.cells, d, size)
<1>2. Invariant /\ Invariant' /\ FrameType(screen) /\ shown = screen
  BY DeltaFrameInvariant DEF DamageInv, Invariant
<1>3. /\ screen' = Frame(size, screen.generation + 1, offset, history, cells)
      /\ pending' = Recorded(d, spans, size.rows)
  BY <1>1, <1>2
<1>4. /\ screen'.size = size /\ screen'.cells = cells
      /\ screen'.generation = screen.generation + 1
      /\ screen'.offset = offset /\ screen'.history = history
  BY <1>3 DEF Frame
<1>5. shown' = screen' /\ last' = last /\ drawn' = drawn
  BY <1>2 DEF DeltaFrame, Invariant
<1>6. FrameType(screen')
  <2>1. screen.generation < MaxGeneration
    BY DEF DeltaFrame
  <2>2. screen.generation + 1 \in 0..MaxGeneration
    BY <1>2, <2>1, RowAssumption DEF FrameType
  <2>3. offset \in Nat /\ history \in Nat
    BY RowAssumption
  <2> HIDE DEF d, spans
  <2> QED
    BY <1>2, <1>4, <2>2, <2>3 DEF FrameType
<1>7. ASSUME NEW r \in pending'
      PROVE  \E p \in pending : /\ r = Record(p, d.shift, spans, size.rows)
                                /\ d.shift # 0 => Len(p.scrolls) < MaxPendingScrolls
  <2> HIDE DEF d, spans
  <2> QED
    BY <1>3, <1>7 DEF Recorded
<1>8. ASSUME NEW r \in pending', NEW old \in last
      PROVE  old.size = size /\ Explains(r, old.cells, cells, size)
  <2>1. PICK p \in pending : /\ r = Record(p, d.shift, spans, size.rows)
                             /\ d.shift # 0 => Len(p.scrolls) < MaxPendingScrolls
    BY <1>7
  <2>2. old.size = size /\ Explains(p, old.cells, screen.cells, size)
    BY <1>2 DEF DamageInv
  <2>3. size \in Sizes /\ screen.cells \in Contents(size) /\ cells \in Contents(size) /\ moved \in Int
    BY <1>2, RowAssumption DEF FrameType
  <2>4. PICK e : e = d
    OBVIOUS
  <2>5. Explains(Record(p, e.shift, Spans(screen.cells, e, size), size.rows),
                 old.cells, cells, size)
    <3>1. e = Delta(screen.cells, cells, moved, size.rows)
      BY <2>4
    <3>2. e.shift # 0 => Len(p.scrolls) < MaxPendingScrolls
      BY <2>1, <2>4
    <3> HIDE DEF d, spans, size
    <3> QED
      BY <2>2, <2>3, <3>1, <3>2, RecordExplains
  <2> HIDE DEF d, size
  <2> QED
    BY <2>1, <2>2, <2>4, <2>5
<1>9. \A p, q \in pending' : p = q
  <2> HIDE DEF d, spans, size
  <2> QED
    BY <1>7 DEF DamageInv
<1>10. pending' # {} => last # {}
  BY <1>7 DEF DamageInv
<1>11. \A old \in last : FrameType(old) /\ drawn = old.cells
  BY DEF DamageInv
<1> HIDE DEF d, spans, size
<1> QED
  BY <1>2, <1>4, <1>5, <1>6, <1>8, <1>9, <1>10, <1>11 DEF DamageInv, FrameType

\* What a render draws is the frame shown, by whichever way it knows the damage.
LEMMA RenderDraws ==
    ASSUME DamageInv, Render
    PROVE  drawn' = shown.cells
<1>1. shown.size \in Sizes /\ shown.cells \in Contents(shown.size)
  BY DEF DamageInv, Invariant, Framed
<1>2. ASSUME NEW old \in last, NEW p \in pending,
             drawn' = Repainted(Scrolled(drawn, p.scrolls), shown.cells, p.columns)
      PROVE  drawn' = shown.cells
  <2>1. Explains(p, drawn, shown.cells, shown.size)
    BY DEF DamageInv
  <2>2. \A row \in 1..shown.size.rows : \A col \in (1..shown.size.cols) \ p.columns[row] :
            Scrolled(drawn, p.scrolls)[row][col] = shown.cells[row][col]
    BY <2>1 DEF Explains
  <2>3. Repainted(Scrolled(drawn, p.scrolls), shown.cells, p.columns) = shown.cells
    BY <1>1, <2>2, RepaintedAlike
  <2> QED
    BY <1>2, <2>3
<1>3. ASSUME NEW old \in last, Comparable(old),
             drawn' = Repainted(drawn, shown.cells, Differing(old))
      PROVE  drawn' = shown.cells
  <2>1. drawn = old.cells
    BY DEF DamageInv
  <2>2. \A row \in 1..shown.size.rows : \A col \in (1..shown.size.cols) \ Differing(old)[row] :
            drawn[row][col] = shown.cells[row][col]
    BY <2>1 DEF Differing
  <2>3. Repainted(drawn, shown.cells, Differing(old)) = shown.cells
    BY <1>1, <2>2, RepaintedAlike
  <2> QED
    BY <1>3, <2>3
<1> QED
  BY <1>2, <1>3 DEF Render

\* A render reads the frame shown, and collects damage anew from it.
LEMMA RenderDamage ==
    ASSUME DamageInv, Render
    PROVE  DamageInv'
<1>1. drawn' = shown.cells
  BY RenderDraws
<1>2. /\ screen' = screen /\ shown' = shown
      /\ last' = {shown} /\ pending' = {Collecting(shown)}
  BY DEF Render
<1>3. Invariant /\ FrameType(screen) /\ shown = screen
  BY DEF DamageInv, Invariant
<1>4. Invariant'
  BY <1>3, StepInvariant DEF Next
<1>5. Explains(Collecting(shown), shown.cells, shown.cells, shown.size)
  BY <1>3, CollectingExplains DEF FrameType
<1> QED
  BY <1>1, <1>2, <1>3, <1>4, <1>5 DEF DamageInv, FrameType

LEMMA StepDamage ==
    ASSUME DamageInv, [Next]_vars
    PROVE  DamageInv'
<1>1. CASE DeltaFrame
  BY <1>1, DeltaFrameDamage
<1>2. CASE FullFrame
  <2>1. Invariant'
    BY <1>2, StepInvariant DEF Next, DamageInv
  <2>2. PICK size \in Sizes : \E cells \in Contents(size) :
            screen' = Frame(size, screen.generation + 1, 0, 0, cells)
    BY <1>2 DEF FullFrame
  <2>3. screen.generation + 1 \in 0..MaxGeneration
    BY <1>2, RowAssumption DEF FullFrame, DamageInv, FrameType
  <2>4. FrameType(screen')
    BY <2>2, <2>3 DEF FrameType, Frame
  <2>5. pending' = {} /\ last' = last /\ drawn' = drawn
    BY <1>2 DEF FullFrame
  <2> QED
    BY <2>1, <2>4, <2>5 DEF DamageInv, FrameType
<1>3. CASE Render
  BY <1>3, RenderDamage
<1>4. CASE UNCHANGED vars
  <2>1. Invariant'
    BY StepInvariant DEF DamageInv
  <2> QED
    BY <1>4, <2>1 DEF vars, DamageInv, FrameType
<1> QED
  BY <1>1, <1>2, <1>3, <1>4 DEF Next

\* The invariant that the runs check follows.
LEMMA DamageType == DamageInv => TypeOK /\ DrawnIsShown
<1> SUFFICES ASSUME DamageInv PROVE TypeOK /\ DrawnIsShown
  OBVIOUS
<1>1. FrameType(screen) /\ FrameType(shown)
  BY DEF DamageInv, Invariant
<1>2. ASSUME NEW p \in pending PROVE Collected(p, shown.size)
  BY DEF DamageInv, Explains
<1>3. \A p, q \in pending : p = q
  BY DEF DamageInv
<1>4. DrawnIsShown
  BY DEF DamageInv, DrawnIsShown
<1> QED
  BY <1>1, <1>2, <1>3, <1>4 DEF TypeOK, Collected

\* Frames stay whole, and the damage collected (DamageTracker) covers rows of
\* the frame shown with no more scrolls, each within the screen, than are worth
\* replaying.
THEOREM TypeCorrect == Spec => []TypeOK
<1>1. DamageInv => TypeOK
  BY DamageType
<1> QED
  BY InitDamage, StepDamage, <1>1, PTL DEF Spec

\* What the renderer drew from the damage is the frame it read, however many
\* frames, scrolls and resizes came between two renders (`damage' of
\* remote/backend.rs).
THEOREM DamageSuffices == Spec => []DrawnIsShown
<1>1. DamageInv => DrawnIsShown
  BY DamageType
<1> QED
  BY InitDamage, StepDamage, <1>1, PTL DEF Spec
=============================================================================
