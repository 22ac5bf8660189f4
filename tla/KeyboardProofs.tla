--------------------------- MODULE KeyboardProofs ---------------------------
(***************************************************************************)
(* The invariants of Keyboard for every screen size, key set and width of  *)
(* buffer_index: the types, the cursor, the line on the screen and the     *)
(* line in the shell.                                                      *)
(***************************************************************************)
EXTENDS Keyboard, SequenceTheorems, TLAPS

-----------------------------------------------------------------------------
(* Arithmetic of the cells.                                                *)

\* Arithmetic on the size of the screen.
LEMMA Sizes ==
    /\ MAX_ROW \in Nat /\ MAX_ROW > 1 /\ MAX_COLUMN \in Nat /\ MAX_COLUMN > 1
    /\ MAX_ROW * MAX_COLUMN \in Nat
    /\ (MAX_ROW - 1) * MAX_COLUMN = MAX_ROW * MAX_COLUMN - MAX_COLUMN
    /\ MAX_COLUMN <= MAX_ROW * MAX_COLUMN
BY KeyboardAssumption

\* A cell's number is its row and its column, and the other way round.
LEMMA RowColumn ==
    ASSUME NEW r \in Int, NEW c \in 0 .. MAX_COLUMN - 1, NEW p \in Int,
           p = r * MAX_COLUMN + c
    PROVE  p \div MAX_COLUMN = r /\ p % MAX_COLUMN = c
<1> DEFINE d == MAX_COLUMN
           q == p \div d
           m == p % d
<1>1. d \in Nat /\ d > 1
    BY Sizes
<1>2. q \in Int /\ m \in 0 .. d - 1 /\ p = d * q + m
    BY <1>1
<1> HIDE DEF d, q, m
<1>3. r * d + c = d * q + m /\ c \in 0 .. d - 1
    BY <1>2 DEF d
<1>4. CASE r > q
  <2>1. (r - q - 1) * d >= 0
    BY <1>1, <1>2, <1>4
  <2> QED BY <1>1, <1>2, <1>3, <2>1
<1>5. CASE r < q
  <2>1. (q - r - 1) * d >= 0
    BY <1>1, <1>2, <1>5
  <2> QED BY <1>1, <1>2, <1>3, <2>1
<1>6. CASE r = q
    BY <1>1, <1>2, <1>3, <1>6 DEF d, q, m
<1> QED BY <1>2, <1>4, <1>5, <1>6

\* Every cell but those of the last row is above it.
LEMMA AboveLastRow ==
    ASSUME NEW p \in 0 .. (MAX_ROW - 1) * MAX_COLUMN - 1
    PROVE  p \div MAX_COLUMN # MAX_ROW - 1
<1> DEFINE d == MAX_COLUMN
           q == p \div d
           m == p % d
<1>1. d \in Nat /\ d > 1 /\ (MAX_ROW - 1) * d \in Int
    BY Sizes
<1>2. q \in Int /\ m \in 0 .. d - 1 /\ p = d * q + m
    BY <1>1
<1>3. p < (MAX_ROW - 1) * d
    BY <1>1
<1> HIDE DEF d, q, m
<1> SUFFICES ASSUME q = MAX_ROW - 1 PROVE FALSE
    BY DEF q, d
<1>4. d * q = (MAX_ROW - 1) * d
    BY <1>1, Sizes
<1> QED BY <1>1, <1>2, <1>3, <1>4

\* A cell and the one below it are in the same column.
LEMMA SameColumn ==
    ASSUME NEW p \in Int
    PROVE  (p - MAX_COLUMN) % MAX_COLUMN = p % MAX_COLUMN
<1> DEFINE q == p \div MAX_COLUMN
           m == p % MAX_COLUMN
<1>1. q \in Int /\ m \in 0 .. MAX_COLUMN - 1 /\ p = q * MAX_COLUMN + m
    BY Sizes
<1> HIDE DEF q, m
<1>2. p - MAX_COLUMN = (q - 1) * MAX_COLUMN + m
    BY <1>1, Sizes
<1>3. p - MAX_COLUMN \in Int /\ q - 1 \in Int
    BY <1>1, Sizes
<1>4. (p - MAX_COLUMN) % MAX_COLUMN = m
    BY <1>1, <1>2, <1>3, RowColumn
<1> QED BY <1>4 DEF m
-----------------------------------------------------------------------------
(* What the operations on the screen do to its fields.                     *)

Marks == Chars \cup {BLANK, OLD}

\* One field of the screen at a time.
LEMMA ScreenFields ==
    ASSUME NEW f \in FramebufferState
    PROVE  /\ f.cur_row \in Int /\ f.cur_col \in Int /\ f.start_row \in Int /\ f.start_col \in Int
           /\ f.cells \in [Cells -> Marks]
BY DEF FramebufferState, Marks

\* Setting the cursor's row.
LEMMA SetRow ==
    ASSUME NEW f \in FramebufferState, NEW v \in Int
    PROVE  LET g == [f EXCEPT !.cur_row = v]
           IN  /\ g \in FramebufferState
               /\ g.cur_row = v
               /\ g.cur_col = f.cur_col
               /\ g.start_row = f.start_row
               /\ g.start_col = f.start_col
               /\ g.cells = f.cells
BY DEF FramebufferState, Marks

\* Setting the cursor's column.
LEMMA SetColumn ==
    ASSUME NEW f \in FramebufferState, NEW v \in Int
    PROVE  LET g == [f EXCEPT !.cur_col = v]
           IN  /\ g \in FramebufferState
               /\ g.cur_row = f.cur_row
               /\ g.cur_col = v
               /\ g.start_row = f.start_row
               /\ g.start_col = f.start_col
               /\ g.cells = f.cells
BY DEF FramebufferState, Marks

\* Setting the row in which the line starts.
LEMMA SetStartRow ==
    ASSUME NEW f \in FramebufferState, NEW v \in Int
    PROVE  LET g == [f EXCEPT !.start_row = v]
           IN  /\ g \in FramebufferState
               /\ g.cur_row = f.cur_row
               /\ g.cur_col = f.cur_col
               /\ g.start_row = v
               /\ g.start_col = f.start_col
               /\ g.cells = f.cells
BY DEF FramebufferState, Marks

\* Setting the column in which the line starts.
LEMMA SetStartColumn ==
    ASSUME NEW f \in FramebufferState, NEW v \in Int
    PROVE  LET g == [f EXCEPT !.start_col = v]
           IN  /\ g \in FramebufferState
               /\ g.cur_row = f.cur_row
               /\ g.cur_col = f.cur_col
               /\ g.start_row = f.start_row
               /\ g.start_col = v
               /\ g.cells = f.cells
BY DEF FramebufferState, Marks

\* Replacing the cells.
LEMMA SetCells ==
    ASSUME NEW f \in FramebufferState, NEW v \in [Cells -> Marks]
    PROVE  LET g == [f EXCEPT !.cells = v]
           IN  /\ g \in FramebufferState
               /\ g.cur_row = f.cur_row
               /\ g.cur_col = f.cur_col
               /\ g.start_row = f.start_row
               /\ g.start_col = f.start_col
               /\ g.cells = v
BY DEF FramebufferState, Marks

\* framebuffer_write changes one cell.
LEMMA WriteFields ==
    ASSUME NEW f \in FramebufferState, NEW row, NEW col, NEW c \in Marks
    PROVE  LET g == framebuffer_write(f, row, col, c)
           IN  /\ g \in FramebufferState
               /\ g.cur_row = f.cur_row /\ g.cur_col = f.cur_col
               /\ g.start_row = f.start_row /\ g.start_col = f.start_col
               /\ \A p \in Cells : g.cells[p] = IF p = row * MAX_COLUMN + col THEN c ELSE f.cells[p]
<1> DEFINE k == [p \in Cells |-> IF p = row * MAX_COLUMN + col THEN c ELSE f.cells[p]]
<1>1. k \in [Cells -> Marks]
    BY DEF FramebufferState, Marks
<1>2. framebuffer_write(f, row, col, c) = [f EXCEPT !.cells = k]
    BY DEF framebuffer_write, FramebufferState
<1>3. \A p \in Cells : k[p] = IF p = row * MAX_COLUMN + col THEN c ELSE f.cells[p]
    OBVIOUS
<1> HIDE DEF k
<1> QED BY <1>1, <1>2, <1>3 DEF FramebufferState, Marks

\* scroll_up moves cells, cursor and start of the line up a row.
LEMMA ScrollFields ==
    ASSUME NEW f \in FramebufferState
    PROVE  LET g == scroll_up(f)
           IN  /\ g \in FramebufferState
               /\ g.cur_row = f.cur_row - 1 /\ g.cur_col = f.cur_col
               /\ g.start_row = f.start_row - 1 /\ g.start_col = f.start_col
               /\ \A p \in Cells :
                     g.cells[p] = IF p \div MAX_COLUMN = f.cur_row - 1 THEN BLANK
                                  ELSE IF p + MAX_COLUMN \in Cells THEN f.cells[p + MAX_COLUMN]
                                  ELSE f.cells[p]
<1> DEFINE k == [p \in Cells |-> IF p \div MAX_COLUMN = f.cur_row - 1 THEN BLANK
                                 ELSE IF p + MAX_COLUMN \in Cells THEN f.cells[p + MAX_COLUMN]
                                 ELSE f.cells[p]]
           moved == [p \in Cells |-> IF p + MAX_COLUMN \in Cells
                                     THEN f.cells[p + MAX_COLUMN] ELSE f.cells[p]]
<1>1. k \in [Cells -> Marks]
    BY DEF FramebufferState, Marks
<1>2. [p \in Cells |-> IF p \div MAX_COLUMN = f.cur_row - 1 THEN BLANK ELSE moved[p]] = k
    OBVIOUS
<1>3. scroll_up(f) = [f EXCEPT !.cur_row = f.cur_row - 1, !.start_row = @ - 1, !.cells = k]
    BY <1>2, Zenon DEF scroll_up
<1>4. \A p \in Cells :
          k[p] = IF p \div MAX_COLUMN = f.cur_row - 1 THEN BLANK
                 ELSE IF p + MAX_COLUMN \in Cells THEN f.cells[p + MAX_COLUMN]
                 ELSE f.cells[p]
    OBVIOUS
<1> HIDE DEF k
<1>5. LET g == scroll_up(f)
      IN  /\ g \in FramebufferState
          /\ g.cur_row = f.cur_row - 1 /\ g.cur_col = f.cur_col
          /\ g.start_row = f.start_row - 1 /\ g.start_col = f.start_col
          /\ g.cells = k
  <2> DEFINE g1 == [f EXCEPT !.cur_row = f.cur_row - 1]
             g2 == [g1 EXCEPT !.start_row = g1.start_row - 1]
             g3 == [g2 EXCEPT !.cells = k]
  <2>1. /\ g1 \in FramebufferState /\ g1.cur_row = f.cur_row - 1 /\ g1.cur_col = f.cur_col
        /\ g1.start_row = f.start_row /\ g1.start_col = f.start_col
    BY ScreenFields, SetRow
  <2>2. scroll_up(f) = g3
    BY <1>3
  <2> HIDE DEF g1
  <2>3. /\ g2 \in FramebufferState /\ g2.cur_row = f.cur_row - 1 /\ g2.cur_col = f.cur_col
        /\ g2.start_row = f.start_row - 1 /\ g2.start_col = f.start_col
    BY <2>1, ScreenFields, SetStartRow
  <2> HIDE DEF g2
  <2> QED BY <1>1, <2>2, <2>3, SetCells
<1> QED BY <1>4, <1>5

\* A new line moves the cursor only.
LEMMA NextLineFields ==
    ASSUME NEW f \in FramebufferState
    PROVE  LET g == NextLine(f)
           IN  /\ g \in FramebufferState
               /\ g.cur_row = f.cur_row + 1 /\ g.cur_col = 0
               /\ g.start_row = f.start_row /\ g.start_col = f.start_col
               /\ g.cells = f.cells
<1> DEFINE g1 == [f EXCEPT !.cur_row = f.cur_row + 1]
<1>1. /\ g1 \in FramebufferState /\ g1.cur_row = f.cur_row + 1 /\ g1.cells = f.cells
      /\ g1.start_row = f.start_row /\ g1.start_col = f.start_col
    BY ScreenFields, SetRow
<1>2. NextLine(f) = [g1 EXCEPT !.cur_col = 0]
    BY DEF NextLine
<1> HIDE DEF g1
<1> QED BY <1>1, <1>2, SetColumn

\* A cleared screen is a screen.
LEMMA AllOldType == AllOld \in [Cells -> Marks]
BY DEF AllOld, Marks

\* putchar goes one column on or begins a row of the screen.
LEMMA PutcharFields ==
    ASSUME NEW f \in FramebufferState, NEW c
    PROVE  LET g == putchar(f, c)
           IN  /\ g \in FramebufferState
               /\ f.cur_row \in 0 .. MAX_ROW - 1 => g.cur_row \in 0 .. MAX_ROW - 1
               /\ f.cur_col \in 0 .. MAX_COLUMN - 1 => g.cur_col \in 0 .. MAX_COLUMN - 1
<1> DEFINE n == NextLine(f)
           times == IF n.cur_row >= MAX_ROW THEN n.cur_row - MAX_ROW + 1 ELSE 0
           s == [n EXCEPT !.cur_row = @ - times, !.start_row = @ - times]
           h == IF f.cur_col = MAX_COLUMN - 1 \/ c = NEWLINE THEN s
                ELSE [f EXCEPT !.cur_col = @ + 1]
<1>1. n \in FramebufferState /\ n.cur_row = f.cur_row + 1 /\ n.cur_col = 0
    BY NextLineFields
<1>2. f.cur_row \in Int /\ f.cur_col \in Int
    BY DEF FramebufferState
<1> HIDE DEF n
<1>3. times \in Int
    BY <1>1, <1>2, Sizes
<1>4. n.cur_row - times <= MAX_ROW - 1 /\ (n.cur_row >= 0 => n.cur_row - times >= 0)
    BY <1>1, <1>2, Sizes
<1> HIDE DEF times
<1>5. s \in FramebufferState /\ s.cur_row = n.cur_row - times /\ s.cur_col = 0
  <2> DEFINE s1 == [n EXCEPT !.cur_row = n.cur_row - times]
  <2>1. s1 \in FramebufferState /\ s1.cur_row = n.cur_row - times /\ s1.cur_col = 0
    BY <1>1, <1>3, ScreenFields, SetRow
  <2>2. s = [s1 EXCEPT !.start_row = s1.start_row - times]
    OBVIOUS
  <2> HIDE DEF s1, s
  <2>3. s1.start_row - times \in Int
    BY <1>3, <2>1, ScreenFields
  <2> QED BY <2>1, <2>2, <2>3, SetStartRow
<1> HIDE DEF s
<1>6. LET t == [f EXCEPT !.cur_col = @ + 1]
      IN  t \in FramebufferState /\ t.cur_row = f.cur_row /\ t.cur_col = f.cur_col + 1
    BY DEF FramebufferState
<1>7. /\ h \in FramebufferState
      /\ f.cur_row \in 0 .. MAX_ROW - 1 => h.cur_row \in 0 .. MAX_ROW - 1
      /\ f.cur_col \in 0 .. MAX_COLUMN - 1 => h.cur_col \in 0 .. MAX_COLUMN - 1
  <2>1. CASE f.cur_col = MAX_COLUMN - 1 \/ c = NEWLINE
    <3>1. h = s
      BY <2>1
    <3> HIDE DEF h
    <3> QED BY <1>1, <1>2, <1>3, <1>4, <1>5, <3>1, Sizes
  <2>2. CASE ~(f.cur_col = MAX_COLUMN - 1 \/ c = NEWLINE)
    BY <1>2, <1>6, <2>2, Sizes
  <2> QED BY <2>1, <2>2
<1> HIDE DEF h
<1>8. putchar(f, c) = [h EXCEPT !.cells = AllOld]
    BY DEF putchar, ScrollWhileFull, h, s, times, n
<1> QED BY <1>7, <1>8, AllOldType DEF FramebufferState, Marks

\* The echo of a character puts it at the cursor and goes one cell on; on a
\* full last row the screen moves up and the character is cleared with its row.
LEMMA EchoFields ==
    ASSUME NEW f \in FramebufferState, NEW c \in Chars
    PROVE  Echo(f, c) \in FramebufferState
<1> DEFINE g == IF f.cur_col >= MAX_COLUMN THEN NextLine(f) ELSE f
           h == framebuffer_write(g, g.cur_row, g.cur_col, c)
           k == [h EXCEPT !.cur_col = h.cur_col + 1]
<1>1. g \in FramebufferState
    BY NextLineFields
<1> HIDE DEF g
<1>2. h \in FramebufferState
    BY <1>1, WriteFields DEF Marks
<1> HIDE DEF h
<1>3. k \in FramebufferState
    BY <1>2, ScreenFields, SetColumn
<1>4. Echo(f, c) = ScrollIfFull(k)
    BY DEF Echo, g, h
<1> HIDE DEF k
<1> QED BY <1>3, <1>4, ScrollFields DEF ScrollIfFull

\* With room behind the cursor.
LEMMA EchoInPlace ==
    ASSUME NEW f \in FramebufferState, NEW c \in Chars,
           f.cur_row \in 0 .. MAX_ROW - 1, f.cur_col \in 0 .. MAX_COLUMN,
           f.cur_col < MAX_COLUMN \/ f.cur_row < MAX_ROW - 1
    PROVE  LET e == Echo(f, c)
               here == Position(f.cur_row, f.cur_col)
           IN  /\ e.cur_row \in 0 .. MAX_ROW - 1 /\ e.cur_col \in 0 .. MAX_COLUMN
               /\ e.start_row = f.start_row /\ e.start_col = f.start_col
               /\ Position(e.cur_row, e.cur_col) = here + 1
               /\ here \in Cells
               /\ \A p \in Cells : e.cells[p] = IF p = here THEN c ELSE f.cells[p]
<1> DEFINE g == IF f.cur_col >= MAX_COLUMN THEN NextLine(f) ELSE f
           h == framebuffer_write(g, g.cur_row, g.cur_col, c)
           k == [h EXCEPT !.cur_col = h.cur_col + 1]
           here == Position(f.cur_row, f.cur_col)
<1>1. /\ g \in FramebufferState /\ g.cells = f.cells
      /\ g.start_row = f.start_row /\ g.start_col = f.start_col
      /\ g.cur_row \in 0 .. MAX_ROW - 1 /\ g.cur_col \in 0 .. MAX_COLUMN - 1
      /\ g.cur_row * MAX_COLUMN + g.cur_col = here
  <2>1. CASE f.cur_col >= MAX_COLUMN
    <3>1. f.cur_col = MAX_COLUMN /\ g = NextLine(f)
      BY <2>1, Sizes
    <3>2. /\ g \in FramebufferState /\ g.cells = f.cells
          /\ g.start_row = f.start_row /\ g.start_col = f.start_col
          /\ g.cur_row = f.cur_row + 1 /\ g.cur_col = 0
      BY <3>1, NextLineFields
    <3> HIDE DEF g
    <3>3. (f.cur_row + 1) * MAX_COLUMN + 0 = f.cur_row * MAX_COLUMN + MAX_COLUMN
      BY Sizes
    <3> QED BY <3>1, <3>2, <3>3, Sizes DEF Position
  <2>2. CASE f.cur_col < MAX_COLUMN
    BY <2>2, Sizes DEF Position
  <2> QED BY <2>1, <2>2, Sizes
<1> HIDE DEF g
<1>2. /\ h \in FramebufferState
      /\ h.cur_row = g.cur_row /\ h.cur_col = g.cur_col
      /\ h.start_row = g.start_row /\ h.start_col = g.start_col
      /\ \A p \in Cells : h.cells[p] = IF p = g.cur_row * MAX_COLUMN + g.cur_col THEN c ELSE g.cells[p]
    BY <1>1, WriteFields DEF Marks
<1>3. Echo(f, c) = ScrollIfFull(k)
    BY DEF Echo, g
<1> HIDE DEF h
<1>4. /\ k.cur_row = h.cur_row /\ k.cur_col = h.cur_col + 1 /\ k.cells = h.cells
      /\ k.start_row = h.start_row /\ k.start_col = h.start_col
    BY <1>2, ScreenFields, SetColumn
<1> HIDE DEF k
<1>5. Echo(f, c) = k
    BY <1>1, <1>2, <1>3, <1>4, Sizes DEF ScrollIfFull
<1>6. here \in Cells
  <2>1. (MAX_ROW - 1 - g.cur_row) * MAX_COLUMN >= 0 /\ g.cur_row * MAX_COLUMN >= 0
    BY <1>1, Sizes
  <2>2. (MAX_ROW - 1 - g.cur_row) * MAX_COLUMN
            = MAX_ROW * MAX_COLUMN - MAX_COLUMN - g.cur_row * MAX_COLUMN
    <3>1. \A a, b, d \in Int : (a - b) * d = a * d - b * d
      OBVIOUS
    <3>2. MAX_ROW - 1 \in Int /\ g.cur_row \in Int /\ MAX_COLUMN \in Int
      BY <1>1, Sizes
    <3>3. (MAX_ROW - 1 - g.cur_row) * MAX_COLUMN = (MAX_ROW - 1) * MAX_COLUMN - g.cur_row * MAX_COLUMN
      BY <3>1, <3>2
    <3> QED BY <3>3, Sizes
  <2>3. g.cur_row * MAX_COLUMN \in Int
    BY <1>1, Sizes
  <2> QED BY <1>1, <2>1, <2>2, <2>3, Sizes DEF Cells
<1>7. k.cur_row * MAX_COLUMN + k.cur_col = here + 1
  <2>1. g.cur_row * MAX_COLUMN \in Int
    BY <1>1, Sizes
  <2> QED BY <1>1, <1>2, <1>4, <2>1, Sizes
<1>8. /\ k.cur_row \in 0 .. MAX_ROW - 1 /\ k.cur_col \in 0 .. MAX_COLUMN
      /\ k.start_row = f.start_row /\ k.start_col = f.start_col
      /\ \A p \in Cells : k.cells[p] = IF p = here THEN c ELSE f.cells[p]
    BY <1>1, <1>2, <1>4, Sizes
<1> HIDE DEF here
<1> QED BY <1>5, <1>6, <1>7, <1>8 DEF Position, here

\* Behind a full last row.
LEMMA EchoScrolls ==
    ASSUME NEW f \in FramebufferState, NEW c \in Chars,
           f.cur_row = MAX_ROW - 1, f.cur_col = MAX_COLUMN
    PROVE  LET e == Echo(f, c)
               last == MAX_ROW * MAX_COLUMN - MAX_COLUMN
           IN  /\ e.cur_row = MAX_ROW - 1 /\ e.cur_col = 1
               /\ e.start_row = f.start_row - 1 /\ e.start_col = f.start_col
               /\ e.cells[last] = BLANK /\ last % MAX_COLUMN = 0 /\ last \in Cells
               /\ \A p \in 0 .. last - 1 :
                     p + MAX_COLUMN \in Cells /\ e.cells[p] = f.cells[p + MAX_COLUMN]
<1> DEFINE g == NextLine(f)
           h == framebuffer_write(g, g.cur_row, g.cur_col, c)
           k == [h EXCEPT !.cur_col = h.cur_col + 1]
           e == scroll_up(k)
           last == MAX_ROW * MAX_COLUMN - MAX_COLUMN
<1>1. /\ g \in FramebufferState /\ g.cells = f.cells
      /\ g.start_row = f.start_row /\ g.start_col = f.start_col
      /\ g.cur_row = MAX_ROW /\ g.cur_col = 0
    BY NextLineFields, Sizes
<1>2. Echo(f, c) = ScrollIfFull(k)
    BY Sizes DEF Echo
<1> HIDE DEF g
<1>3. /\ h \in FramebufferState
      /\ h.cur_row = MAX_ROW /\ h.cur_col = 0
      /\ h.start_row = f.start_row /\ h.start_col = f.start_col
      /\ \A p \in Cells : h.cells[p] = IF p = g.cur_row * MAX_COLUMN + g.cur_col THEN c ELSE g.cells[p]
    BY <1>1, WriteFields DEF Marks
<1>4. MAX_ROW * MAX_COLUMN + 0 \notin Cells
    BY Sizes DEF Cells
<1>5. \A p \in Cells : h.cells[p] = f.cells[p]
    BY <1>1, <1>3, <1>4
<1> HIDE DEF h
<1>6. /\ k \in FramebufferState /\ k.cells = h.cells
      /\ k.cur_row = MAX_ROW /\ k.cur_col = 1
      /\ k.start_row = f.start_row /\ k.start_col = f.start_col
    BY <1>3, ScreenFields, SetColumn
<1>7. Echo(f, c) = e
    BY <1>2, <1>6 DEF ScrollIfFull
<1> HIDE DEF k
<1>8. /\ e.cur_row = MAX_ROW - 1 /\ e.cur_col = 1
      /\ e.start_row = f.start_row - 1 /\ e.start_col = f.start_col
      /\ \A p \in Cells :
            e.cells[p] = IF p \div MAX_COLUMN = MAX_ROW - 1 THEN BLANK
                         ELSE IF p + MAX_COLUMN \in Cells THEN k.cells[p + MAX_COLUMN]
                         ELSE k.cells[p]
    BY <1>6, ScrollFields
<1> HIDE DEF e
<1>9. last \in Cells /\ last = (MAX_ROW - 1) * MAX_COLUMN + 0 /\ last \in Int
    BY Sizes DEF Cells
<1>10. last \div MAX_COLUMN = MAX_ROW - 1 /\ last % MAX_COLUMN = 0
  <2>1. MAX_ROW - 1 \in Int /\ 0 \in 0 .. MAX_COLUMN - 1
    BY Sizes
  <2> HIDE DEF last
  <2> QED BY <1>9, <2>1, RowColumn
<1>11. ASSUME NEW p \in 0 .. last - 1
       PROVE  p + MAX_COLUMN \in Cells /\ e.cells[p] = f.cells[p + MAX_COLUMN]
  <2>1. p \in Cells /\ p + MAX_COLUMN \in Cells /\ p \in 0 .. (MAX_ROW - 1) * MAX_COLUMN - 1
    BY Sizes DEF Cells
  <2>2. p \div MAX_COLUMN # MAX_ROW - 1
    BY <2>1, AboveLastRow
  <2> QED BY <1>5, <1>6, <1>8, <2>1, <2>2
<1> HIDE DEF last
<1>12. e.cells[last] = BLANK
    BY <1>8, <1>9, <1>10
<1> QED BY <1>7, <1>8, <1>9, <1>10, <1>11, <1>12 DEF last

\* The echo of a backspace goes one cell back and blanks it.
LEMMA EraseFields ==
    ASSUME NEW f \in FramebufferState
    PROVE  LET e == Erase(f)
               here == Position(f.cur_row, f.cur_col)
           IN  /\ e \in FramebufferState
               /\ e.start_row = f.start_row /\ e.start_col = f.start_col
               /\ f.cur_row \in 0 .. MAX_ROW - 1 /\ f.cur_col \in 0 .. MAX_COLUMN =>
                     /\ e.cur_row \in 0 .. MAX_ROW - 1 /\ e.cur_col \in 0 .. MAX_COLUMN
                     /\ here > 0 =>
                           /\ Position(e.cur_row, e.cur_col) = here - 1
                           /\ \A p \in Cells : p # here - 1 => e.cells[p] = f.cells[p]
<1> DEFINE g == CASE f.cur_col > 0 -> [f EXCEPT !.cur_col = @ - 1]
                  [] f.cur_col = 0 /\ f.cur_row > 0 ->
                         [f EXCEPT !.cur_row = @ - 1, !.cur_col = MAX_COLUMN - 1]
                  [] OTHER -> [f EXCEPT !.cur_row = 0, !.cur_col = 0]
           e == framebuffer_write(g, g.cur_row, g.cur_col, BLANK)
           here == Position(f.cur_row, f.cur_col)
<1>1. f.cur_row \in Int /\ f.cur_col \in Int
    BY ScreenFields
<1>2. /\ g \in FramebufferState
      /\ g.start_row = f.start_row /\ g.start_col = f.start_col /\ g.cells = f.cells
      /\ f.cur_row \in 0 .. MAX_ROW - 1 /\ f.cur_col \in 0 .. MAX_COLUMN =>
            /\ g.cur_row \in 0 .. MAX_ROW - 1 /\ g.cur_col \in 0 .. MAX_COLUMN
            /\ here > 0 => g.cur_row * MAX_COLUMN + g.cur_col = here - 1
  <2>1. CASE f.cur_col > 0
    <3>1. g = [f EXCEPT !.cur_col = f.cur_col - 1]
      BY <2>1
    <3> HIDE DEF g
    <3>2. /\ g \in FramebufferState /\ g.cur_row = f.cur_row /\ g.cur_col = f.cur_col - 1
          /\ g.start_row = f.start_row /\ g.start_col = f.start_col /\ g.cells = f.cells
      BY <1>1, <3>1, SetColumn
    <3>3. f.cur_row * MAX_COLUMN \in Int
      BY <1>1, Sizes
    <3> QED BY <1>1, <2>1, <3>2, <3>3, Sizes DEF Position
  <2>2. CASE f.cur_col = 0 /\ f.cur_row > 0
    <3> DEFINE g1 == [f EXCEPT !.cur_row = f.cur_row - 1]
    <3>1. g = [g1 EXCEPT !.cur_col = MAX_COLUMN - 1]
      BY <2>2
    <3> HIDE DEF g
    <3>2. /\ g1 \in FramebufferState /\ g1.cur_row = f.cur_row - 1
          /\ g1.start_row = f.start_row /\ g1.start_col = f.start_col /\ g1.cells = f.cells
      BY <1>1, SetRow
    <3> HIDE DEF g1
    <3>3. /\ g \in FramebufferState /\ g.cur_row = f.cur_row - 1 /\ g.cur_col = MAX_COLUMN - 1
          /\ g.start_row = f.start_row /\ g.start_col = f.start_col /\ g.cells = f.cells
      BY <3>1, <3>2, SetColumn, Sizes
    <3>4. /\ (f.cur_row - 1) * MAX_COLUMN = f.cur_row * MAX_COLUMN - MAX_COLUMN
          /\ f.cur_row * MAX_COLUMN \in Int
      BY <1>1, Sizes
    <3> QED BY <1>1, <2>2, <3>3, <3>4, Sizes DEF Position
  <2>3. CASE ~(f.cur_col > 0) /\ ~(f.cur_col = 0 /\ f.cur_row > 0)
    <3> DEFINE g1 == [f EXCEPT !.cur_row = 0]
    <3>1. g = [g1 EXCEPT !.cur_col = 0]
      BY <2>3
    <3> HIDE DEF g
    <3>2. /\ g1 \in FramebufferState /\ g1.cur_row = 0
          /\ g1.start_row = f.start_row /\ g1.start_col = f.start_col /\ g1.cells = f.cells
      BY SetRow
    <3> HIDE DEF g1
    <3>3. /\ g \in FramebufferState /\ g.cur_row = 0 /\ g.cur_col = 0
          /\ g.start_row = f.start_row /\ g.start_col = f.start_col /\ g.cells = f.cells
      BY <3>1, <3>2, SetColumn
    <3>4. f.cur_row \in 0 .. MAX_ROW - 1 /\ f.cur_col \in 0 .. MAX_COLUMN =>
              f.cur_row = 0 /\ f.cur_col = 0
      BY <1>1, <2>3
    <3>5. 0 * MAX_COLUMN + 0 = 0
      BY Sizes
    <3> QED BY <3>3, <3>4, <3>5, Sizes DEF Position
  <2> QED BY <2>1, <2>2, <2>3
<1>3. Erase(f) = e
    BY DEF Erase
<1> HIDE DEF g
<1>4. /\ e \in FramebufferState
      /\ e.cur_row = g.cur_row /\ e.cur_col = g.cur_col
      /\ e.start_row = g.start_row /\ e.start_col = g.start_col
      /\ \A p \in Cells : e.cells[p] = IF p = g.cur_row * MAX_COLUMN + g.cur_col THEN BLANK ELSE g.cells[p]
    BY <1>2, WriteFields DEF Marks
<1> HIDE DEF e, here
<1> QED BY <1>2, <1>3, <1>4 DEF Position, here

\* An arrow key moves the cursor by a cell.
LEMMA MovedType ==
    ASSUME fb \in FramebufferState, NEW k
    PROVE  Moved(k) \in FramebufferState
<1>1. /\ fb.cur_row \in Int /\ fb.cur_col \in Int /\ MAX_COLUMN \in Int
    BY ScreenFields, Sizes
<1>2. /\ [fb EXCEPT !.cur_col = fb.cur_col - 1] \in FramebufferState
      /\ [fb EXCEPT !.cur_col = fb.cur_col + 1] \in FramebufferState
      /\ [fb EXCEPT !.cur_row = fb.cur_row - 1] \in FramebufferState
      /\ [fb EXCEPT !.cur_row = fb.cur_row + 1] \in FramebufferState
      /\ NextLine(fb) \in FramebufferState
  <2>1. /\ fb.cur_col - 1 \in Int /\ fb.cur_col + 1 \in Int
        /\ fb.cur_row - 1 \in Int /\ fb.cur_row + 1 \in Int
    BY <1>1
  <2>2. /\ [fb EXCEPT !.cur_col = fb.cur_col - 1] \in FramebufferState
        /\ [fb EXCEPT !.cur_col = fb.cur_col + 1] \in FramebufferState
    BY <2>1, SetColumn
  <2>3. /\ [fb EXCEPT !.cur_row = fb.cur_row - 1] \in FramebufferState
        /\ [fb EXCEPT !.cur_row = fb.cur_row + 1] \in FramebufferState
    BY <2>1, SetRow
  <2>4. NextLine(fb) \in FramebufferState
    BY NextLineFields
  <2> QED BY <2>2, <2>3, <2>4
<1>3. [fb EXCEPT !.cur_col = MAX_COLUMN - 1, !.cur_row = fb.cur_row - 1] \in FramebufferState
  <2> DEFINE g == [fb EXCEPT !.cur_col = MAX_COLUMN - 1]
  <2>1. g \in FramebufferState
    BY <1>1, SetColumn
  <2> HIDE DEF g
  <2>2. [g EXCEPT !.cur_row = fb.cur_row - 1] \in FramebufferState
    BY <1>1, <2>1, SetRow
  <2> QED BY <2>2 DEF g
<1> QED BY <1>2, <1>3, Zenon DEF Moved
-----------------------------------------------------------------------------
(* The inductive invariant.                                                *)

\* A key in the port was pressed within the bounds, and the handler's index
\* is no longer than the line it counts.
Bounds ==
    /\ port \in Arrows => arrows < MaxArrows
    /\ port \in CharKeys => Len(typed) < MaxLine
    /\ keyboard.buffer_index <= Len(typed)

\* While a command runs nothing is left for the next line.
RunsClean ==
    pc = "run" /\ "typed ahead" \notin history =>
        keyboard.keyboard_buffer = ZERO /\ temp_buf = <<>>

\* Enter has switched input off, and from then on the cursor stays within its
\* row, where putchar's test for the last column finds it.
RowOpen ==
    /\ pc = "poll" /\ "typed ahead" \notin history /\ keyboard.keyboard_buffer = NEWLINE =>
          ~keyboard.keyboard_input_on
    /\ Undisturbed /\ (pc = "run" \/ keyboard.keyboard_buffer = NEWLINE) =>
          fb.cur_col < MAX_COLUMN

IInv ==
    /\ TypeOK /\ Bounds /\ RunsClean /\ RowOpen
    /\ CursorOnScreen /\ ShellHasLine /\ LineOnScreen
-----------------------------------------------------------------------------
(* Types.                                                                  *)

\* No character is taken for a zero byte, Backspace or Enter.
LEMMA SymbolsDistinct ==
    /\ ZERO # BACKSPACE /\ ZERO # NEWLINE /\ BACKSPACE # NEWLINE
    /\ \A c \in Chars : c # ZERO /\ c # BACKSPACE /\ c # NEWLINE
BY DEF ZERO, BACKSPACE, NEWLINE, Chars

\* Appending to and dropping from a line.
LEMMA Sequence ==
    ASSUME NEW S, NEW s \in Seq(S)
    PROVE  /\ \A c \in S : Append(s, c) \in Seq(S)
           /\ SubSeq(s, 1, Len(s) - 1) \in Seq(S)
           /\ Len(s) > 0 => /\ Len(SubSeq(s, 1, Len(s) - 1)) = Len(s) - 1
                            /\ \A i \in 1 .. Len(s) - 1 : SubSeq(s, 1, Len(s) - 1)[i] = s[i]
<1>1. \A c \in S : Append(s, c) \in Seq(S)
    OBVIOUS
<1>2. SubSeq(s, 1, Len(s) - 1) \in Seq(S)
    OBVIOUS
<1>3. ASSUME Len(s) > 0
      PROVE  /\ Len(SubSeq(s, 1, Len(s) - 1)) = Len(s) - 1
             /\ \A i \in 1 .. Len(s) - 1 : SubSeq(s, 1, Len(s) - 1)[i] = s[i]
  <2> DEFINE n == Len(s) - 1
  <2>1. n \in Nat /\ \A i \in 1 .. n : s[i] \in S
    BY <1>3
  <2> HIDE DEF n
  <2>2. /\ Len(SubSeq(s, 1, n)) = IF 1 <= n THEN n - 1 + 1 ELSE 0
        /\ \A i \in 1 .. n - 1 + 1 : SubSeq(s, 1, n)[i] = s[1 + i - 1]
    BY <2>1, SubSeqProperties
  <2>3. Len(SubSeq(s, 1, n)) = n
    BY <2>1, <2>2
  <2>4. \A i \in 1 .. n : SubSeq(s, 1, n)[i] = s[i]
    BY <2>1, <2>2
  <2> QED BY <2>3, <2>4 DEF n
<1> QED BY <1>1, <1>2, <1>3

\* The empty line.
LEMMA EmptyLine == <<>> \in Seq(Chars) /\ Len(<<>>) = 0
OBVIOUS

\* Backspace on an empty line.
LEMMA EmptyFront == SubSeq(<<>>, 1, Len(<<>>) - 1) = <<>>
<1>1. Len(<<>>) - 1 = -1
    BY EmptyLine
<1>2. -1 \in Int /\ 1 \in Int /\ -1 < 1
    OBVIOUS
<1>3. SubSeq(<<>>, 1, -1) = <<>>
    BY <1>2, SubSeqEmpty
<1> QED BY <1>1, <1>3

\* The bounds are numbers.
LEMMA BoundTypes ==
    IndexSize \in Nat /\ IndexSize > 1 /\ MaxArrows \in Nat /\ 0 \in 0 .. MaxArrows
BY KeyboardAssumption

\* The screen's sizes are numbers.
LEMMA SizeTypes == MAX_ROW \in Nat /\ MAX_ROW > 1 /\ MAX_COLUMN \in Nat /\ MAX_COLUMN > 1
BY KeyboardAssumption

\* The types of what counts a line.
LEMMA LineTypes ==
    ASSUME TypeOK
    PROVE  /\ arrows \in Nat /\ typed \in Seq(Chars) /\ Len(typed) \in Nat
           /\ keyboard.buffer_index \in Nat /\ keyboard.buffer_index < IndexSize
<1>1. arrows \in 0 .. MaxArrows /\ typed \in Seq(Chars) /\ keyboard \in KeyboardDriverState
    BY Zenon DEF TypeOK
<1>2. keyboard.buffer_index \in 0 .. IndexSize - 1
    BY <1>1 DEF KeyboardDriverState
<1>3. Len(typed) \in Nat
    BY <1>1
<1> QED BY <1>1, <1>2, <1>3, BoundTypes

\* A line fits on the screen above its last row.
LEMMA MaxLineType ==
    MaxLine \in Nat /\ MaxLine >= 1 /\ MaxLine <= MAX_ROW * MAX_COLUMN - MAX_COLUMN
BY KeyboardAssumption, Sizes

\* A character key gives a character under every modifier.
LEMMA AsciiType ==
    ASSUME NEW k \in CharKeys, keyboard \in KeyboardDriverState
    PROVE  ascii_char(k) \in Chars
<1>1. (keyboard.capslock_on # keyboard.shift_on) \in BOOLEAN
    OBVIOUS
<1>2. (keyboard.shift_on /\ k \in Shiftable) \in BOOLEAN
    OBVIOUS
<1> QED BY <1>1, <1>2, Zenon DEF ascii_char, Chars

\* The shell's line consists of characters.
LEMMA CollectType ==
    ASSUME temp_buf \in Seq(Chars), NEW c \in Chars \cup {BACKSPACE}
    PROVE  Collect(c) \in Seq(Chars)
BY DEF Collect, Front

\* The types when the shell starts.
LEMMA InitType == Init => TypeOK /\ Bounds
<1> SUFFICES ASSUME Init PROVE TypeOK /\ Bounds
    OBVIOUS
<1>1. keyboard \in KeyboardDriverState
    BY KeyboardAssumption DEF Init, KeyboardDriverState
<1>2. fb \in FramebufferState
    BY DEF Init, FramebufferState
<1>3. NoKey \notin Arrows /\ NoKey \notin CharKeys
    BY KeysDistinct DEF NoKey, Arrows
<1>4. TypeOK
    BY <1>1, <1>2, BoundTypes, EmptyLine DEF Init, TypeOK
<1>5. keyboard.buffer_index = 0 /\ Len(typed) = 0
    BY DEF Init
<1> QED BY <1>3, <1>4, <1>5 DEF Init, Bounds

\* keyboard after every action that changes it.
LEMMA KeyboardType ==
    ASSUME keyboard \in KeyboardDriverState
    PROVE  /\ [keyboard EXCEPT !.buffer_index = 0] \in KeyboardDriverState
           /\ [keyboard EXCEPT !.capslock_on = ~@] \in KeyboardDriverState
           /\ \A b \in BOOLEAN :
                 /\ [keyboard EXCEPT !.shift_on = b] \in KeyboardDriverState
                 /\ [keyboard EXCEPT !.ctrl_on = b] \in KeyboardDriverState
                 /\ [keyboard EXCEPT !.keyboard_input_on = b] \in KeyboardDriverState
           /\ \A c \in Chars \cup {ZERO, BACKSPACE, NEWLINE} :
                 /\ [keyboard EXCEPT !.keyboard_buffer = c] \in KeyboardDriverState
                 /\ \A i \in 0 .. IndexSize - 1 :
                       [keyboard EXCEPT !.keyboard_buffer = c, !.buffer_index = i] \in KeyboardDriverState
<1> USE KeyboardAssumption DEF KeyboardDriverState
<1>1. [keyboard EXCEPT !.buffer_index = 0] \in KeyboardDriverState
    OBVIOUS
<1>2. [keyboard EXCEPT !.capslock_on = ~@] \in KeyboardDriverState
    OBVIOUS
<1>3. ASSUME NEW b \in BOOLEAN
      PROVE  /\ [keyboard EXCEPT !.shift_on = b] \in KeyboardDriverState
             /\ [keyboard EXCEPT !.ctrl_on = b] \in KeyboardDriverState
             /\ [keyboard EXCEPT !.keyboard_input_on = b] \in KeyboardDriverState
    OBVIOUS
<1>4. ASSUME NEW c \in Chars \cup {ZERO, BACKSPACE, NEWLINE}
      PROVE  [keyboard EXCEPT !.keyboard_buffer = c] \in KeyboardDriverState
    OBVIOUS
<1>5. ASSUME NEW c \in Chars \cup {ZERO, BACKSPACE, NEWLINE}, NEW i \in 0 .. IndexSize - 1
      PROVE  [keyboard EXCEPT !.keyboard_buffer = c, !.buffer_index = i] \in KeyboardDriverState
    OBVIOUS
<1> HIDE DEF KeyboardDriverState
<1> QED BY <1>1, <1>2, <1>3, <1>4, <1>5

\* Every step keeps the types.
LEMMA NextType == TypeOK /\ Bounds /\ [Next]_vars => TypeOK'
<1> SUFFICES ASSUME TypeOK, Bounds, [Next]_vars PROVE TypeOK'
    OBVIOUS
<1>0. /\ port \in Keys \cup {NoKey}
      /\ irq \in BOOLEAN /\ in_service \in BOOLEAN
      /\ keyboard \in KeyboardDriverState
      /\ fb \in FramebufferState
      /\ pc \in {"poll", "run"}
      /\ temp_buf \in Seq(Chars) /\ buf \in Seq(Chars) /\ typed \in Seq(Chars)
      /\ arrows \in 0 .. MaxArrows
      /\ history \subseteq {"missed", "overwritten", "typed ahead"}
    BY Zenon DEF TypeOK
<1>1. keyboard.buffer_index \in 0 .. IndexSize - 1
    BY <1>0 DEF KeyboardDriverState
<1>2. ASSUME Stored PROVE history' \subseteq {"missed", "overwritten", "typed ahead"}
    BY <1>0, <1>2 DEF Stored
<1>3. ASSUME Interrupt, Read, pic_ack
      PROVE  port' \in Keys \cup {NoKey} /\ irq' \in BOOLEAN /\ in_service' \in BOOLEAN
    BY <1>3 DEF Interrupt, Read, pic_ack
<1>4. CASE \E k \in Keys : Press(k)
    BY <1>0, <1>4 DEF Press, TypeOK, shell
<1>5. CASE IsrOff
  <2>1. keyboard' \in KeyboardDriverState
    BY <1>0, <1>5, KeyboardType DEF IsrOff
  <2> QED BY <1>0, <1>5, <2>1 DEF IsrOff, Interrupt, pic_ack, TypeOK, shell
<1>6. CASE IsrModifier
  <2>1. /\ (port = "shift") \in BOOLEAN /\ (port = "ctrl") \in BOOLEAN
    OBVIOUS
  <2>2. keyboard' \in KeyboardDriverState
    <3>1. /\ [keyboard EXCEPT !.capslock_on = ~@] \in KeyboardDriverState
          /\ [keyboard EXCEPT !.shift_on = (port = "shift")] \in KeyboardDriverState
          /\ [keyboard EXCEPT !.ctrl_on = (port = "ctrl")] \in KeyboardDriverState
      BY <1>0, <2>1, KeyboardType
    <3> QED BY <1>0, <1>6, <3>1, Zenon DEF IsrModifier
  <2>3. /\ Interrupt /\ Read /\ pic_ack
        /\ UNCHANGED <<fb, shell, typed, arrows, history>>
    BY <1>6, Zenon DEF IsrModifier, ReturnWithoutChar
  <2> QED BY <1>0, <1>3, <2>2, <2>3 DEF TypeOK, shell
<1>7. CASE IsrArrow
  <2>1. fb' \in FramebufferState
    BY <1>0, <1>7, MovedType DEF IsrArrow
  <2>2. arrows' \in 0 .. MaxArrows
    <3>1. port \in Arrows /\ arrows' = arrows + 1
      BY <1>7, Zenon DEF IsrArrow
    <3>2. arrows < MaxArrows
      BY <3>1 DEF Bounds
    <3>3. arrows \in 0 .. MaxArrows
      BY <1>0
    <3> QED BY <3>1, <3>2, <3>3, BoundTypes
  <2>3. /\ Interrupt /\ Read /\ pic_ack
        /\ UNCHANGED <<keyboard, shell, typed, history>>
    BY <1>7, Zenon DEF IsrArrow, ReturnWithoutChar
  <2> QED BY <1>0, <1>3, <2>1, <2>2, <2>3 DEF TypeOK, shell
<1>8. CASE IsrCtrlC
  <2>1. keyboard' \in KeyboardDriverState
    BY <1>0, <1>8, KeyboardType DEF IsrCtrlC
  <2>2. /\ Interrupt /\ Read /\ pic_ack
        /\ UNCHANGED <<fb, shell, typed, arrows, history>>
    BY <1>8, Zenon DEF IsrCtrlC
  <2> QED BY <1>0, <1>3, <2>1, <2>2 DEF TypeOK, shell
<1>9. CASE IsrBackspace
  <2>1. /\ keyboard' \in KeyboardDriverState /\ fb' \in FramebufferState
        /\ typed' \in Seq(Chars)
        /\ history' \subseteq {"missed", "overwritten", "typed ahead"}
    <3>1. CASE keyboard.buffer_index > 0
      <4>1. /\ keyboard' = [keyboard EXCEPT !.buffer_index = keyboard.buffer_index - 1,
                                            !.keyboard_buffer = BACKSPACE]
            /\ fb' = Erase(fb) /\ typed' = SubSeq(typed, 1, Len(typed) - 1) /\ Stored
        BY <1>9, <3>1 DEF IsrBackspace
      <4>2. keyboard.buffer_index - 1 \in 0 .. IndexSize - 1
        BY <1>1, <3>1, BoundTypes
      <4>3. keyboard' \in KeyboardDriverState
        BY <1>0, <4>1, <4>2 DEF KeyboardDriverState
      <4>4. fb' \in FramebufferState
        BY <1>0, <4>1, EraseFields
      <4>5. typed' \in Seq(Chars)
        BY <1>0, <4>1, Sequence
      <4> QED BY <1>2, <4>1, <4>3, <4>4, <4>5
    <3>2. CASE ~(keyboard.buffer_index > 0)
      BY <1>0, <1>9, <3>2 DEF IsrBackspace
    <3> QED BY <3>1, <3>2
  <2>2. Interrupt /\ Read /\ pic_ack /\ UNCHANGED <<shell, arrows>>
    BY <1>9, Zenon DEF IsrBackspace
  <2> QED BY <1>0, <1>3, <2>1, <2>2 DEF TypeOK, shell
<1>10. CASE IsrEnter
  <2>1. keyboard' \in KeyboardDriverState
    BY <1>0, <1>10 DEF IsrEnter, Entered, KeyboardDriverState
  <2>2. fb' \in FramebufferState
    BY <1>0, <1>10, NextLineFields, ScrollFields DEF IsrEnter, ScrollIfFull
  <2>3. Interrupt /\ Read /\ pic_ack /\ Stored /\ UNCHANGED <<shell, typed, arrows>>
    BY <1>10, Zenon DEF IsrEnter
  <2> QED BY <1>0, <1>2, <1>3, <2>1, <2>2, <2>3 DEF TypeOK, shell
<1>11. CASE IsrChar
  <2>1. ascii_char(port) \in Chars
    BY <1>0, <1>11, AsciiType DEF IsrChar
  <2>2. NextIndex(keyboard.buffer_index) \in 0 .. IndexSize - 1
    BY <1>1, KeyboardAssumption DEF NextIndex
  <2>3. keyboard' = [keyboard EXCEPT !.keyboard_buffer = ascii_char(port),
                                     !.buffer_index = NextIndex(keyboard.buffer_index)]
    BY <1>11 DEF IsrChar
  <2>4. keyboard' \in KeyboardDriverState
    BY <1>0, <2>1, <2>2, <2>3, KeyboardType
  <2>5. fb' \in FramebufferState
    BY <1>0, <1>11, <2>1, EchoFields DEF IsrChar
  <2>6. typed' \in Seq(Chars)
    <3>1. typed' = Append(typed, ascii_char(port))
      BY <1>11, Zenon DEF IsrChar
    <3> QED BY <1>0, <2>1, <3>1, Sequence
  <2>7. Interrupt /\ Read /\ pic_ack /\ Stored /\ UNCHANGED <<shell, arrows>>
    BY <1>11, Zenon DEF IsrChar
  <2> QED BY <1>0, <1>2, <1>3, <2>4, <2>5, <2>6, <2>7 DEF TypeOK, shell
<1>12. CASE Poll
  <2>1. keyboard' \in KeyboardDriverState
    BY <1>0, <1>12, KeyboardType DEF Poll, Fetched
  <2>2. keyboard.keyboard_buffer \in Chars \cup {BACKSPACE, NEWLINE}
    BY <1>0, <1>12 DEF Poll, KeyboardDriverState
  <2>3. temp_buf' \in Seq(Chars) /\ buf' \in Seq(Chars) /\ pc' \in {"poll", "run"}
    <3>1. CASE keyboard.keyboard_buffer = NEWLINE
      BY <1>0, <1>12, <3>1, EmptyLine DEF Poll
    <3>2. CASE keyboard.keyboard_buffer # NEWLINE
      <4>1. Collect(keyboard.keyboard_buffer) \in Seq(Chars)
        BY <1>0, <2>2, <3>2, CollectType
      <4> QED BY <1>0, <1>12, <3>2, <4>1 DEF Poll
    <3> QED BY <3>1, <3>2
  <2> QED BY <1>0, <1>12, <2>1, <2>3 DEF Poll, TypeOK, controller
<1>13. CASE Output
  <2>1. fb' \in FramebufferState
    <3> DEFINE top == [fb EXCEPT !.cur_row = 0, !.cur_col = 0, !.cells = AllOld]
    <3>1. top \in FramebufferState
      <4> DEFINE t1 == [fb EXCEPT !.cur_row = 0]
                 t2 == [t1 EXCEPT !.cur_col = 0]
      <4>1. t1 \in FramebufferState
        <5>1. fb \in FramebufferState
          BY <1>0
        <5> QED BY <5>1, SetRow
      <4> HIDE DEF t1
      <4>2. t2 \in FramebufferState
        BY <4>1, SetColumn
      <4> HIDE DEF t2
      <4>3. [t2 EXCEPT !.cells = AllOld] \in FramebufferState
        BY <4>2, AllOldType, SetCells
      <4> QED BY <4>3 DEF t1, t2
    <3>2. fb' = putchar(fb, NEWLINE) \/ fb' = putchar(fb, OLD) \/ fb' = top
      BY <1>13 DEF Output
    <3> HIDE DEF top
    <3> QED BY <1>0, <3>1, <3>2, PutcharFields
  <2> QED BY <1>0, <1>13, <2>1 DEF Output, TypeOK, controller, shell
<1>14. CASE Activate
  <2>1. keyboard' \in KeyboardDriverState
    <3>1. /\ 0 \in 0 .. IndexSize - 1
          /\ keyboard' = [keyboard EXCEPT !.buffer_index = 0, !.keyboard_input_on = TRUE,
                              !.shift_on = FALSE, !.capslock_on = FALSE, !.ctrl_on = FALSE]
      BY <1>14, BoundTypes DEF Activate
    <3> QED BY <1>0, <3>1 DEF KeyboardDriverState
  <2>2. fb' \in FramebufferState
    BY <1>0, <1>14, AllOldType DEF Activate, FramebufferState, Marks
  <2> QED BY <1>0, <1>14, <2>1, <2>2, EmptyLine DEF Activate, TypeOK, controller
<1>15. CASE PollEmpty \/ UNCHANGED vars
    BY <1>0, <1>15 DEF PollEmpty, vars, TypeOK
<1> QED BY <1>4, <1>5, <1>6, <1>7, <1>8, <1>9, <1>10, <1>11, <1>12, <1>13, <1>14, <1>15
        DEF Next, keyboard_isr
-----------------------------------------------------------------------------
(* The steps by what they do to the line. The actions that only change the *)
(* modifiers, the port or the interrupt line are one case.                 *)

Lost == history \cap {"overwritten", "typed ahead"}
Line == <<pc, temp_buf, buf, arrows>>

PortKept ==
    \/ port' = port
    \/ port' = NoKey
    \/ /\ port' \in Arrows => arrows < MaxArrows
       /\ port' \in CharKeys => Len(typed) < MaxLine

QuietStep ==
    /\ keyboard'.keyboard_buffer = keyboard.keyboard_buffer
    /\ keyboard'.keyboard_input_on => keyboard.keyboard_input_on
    /\ keyboard'.buffer_index \in {0, keyboard.buffer_index}
    /\ PortKept /\ Lost' = Lost
    /\ UNCHANGED <<fb, Line, typed>>

ArrowStep ==
    /\ port' = NoKey /\ arrows' = arrows + 1
    /\ UNCHANGED <<keyboard, pc, temp_buf, buf, typed, history>>

KeyStep == port' = NoKey /\ keyboard.keyboard_input_on /\ Stored /\ UNCHANGED Line

BackStep ==
    /\ KeyStep /\ keyboard.buffer_index > 0
    /\ keyboard'.buffer_index = keyboard.buffer_index - 1
    /\ keyboard'.keyboard_buffer = BACKSPACE
    /\ fb' = Erase(fb)
    /\ typed' = SubSeq(typed, 1, Len(typed) - 1)

EnterStep ==
    /\ KeyStep /\ ~keyboard'.keyboard_input_on
    /\ keyboard'.buffer_index = keyboard.buffer_index
    /\ keyboard'.keyboard_buffer = NEWLINE
    /\ fb' = ScrollIfFull(NextLine(fb))
    /\ typed' = typed

CharStep(c) ==
    /\ KeyStep /\ port \in CharKeys
    /\ keyboard'.buffer_index = NextIndex(keyboard.buffer_index)
    /\ keyboard'.keyboard_buffer = c
    /\ fb' = Echo(fb, c)
    /\ typed' = Append(typed, c)

PollStep ==
    /\ pc = "poll" /\ keyboard.keyboard_buffer # ZERO
    /\ keyboard'.keyboard_buffer = ZERO
    /\ keyboard'.keyboard_input_on = keyboard.keyboard_input_on
    /\ keyboard'.buffer_index = keyboard.buffer_index
    /\ IF keyboard.keyboard_buffer = NEWLINE
       THEN pc' = "run" /\ buf' = temp_buf /\ temp_buf' = <<>>
       ELSE temp_buf' = Collect(keyboard.keyboard_buffer) /\ UNCHANGED <<pc, buf>>
    /\ UNCHANGED <<port, fb, typed, arrows, history>>

ActivateStep ==
    /\ pc = "run" /\ pc' = "poll"
    /\ keyboard'.keyboard_buffer = keyboard.keyboard_buffer
    /\ keyboard'.buffer_index = 0
    /\ fb'.cur_row = fb.cur_row /\ fb'.cur_col = fb.cur_col
    /\ fb'.start_row = fb.cur_row /\ fb'.start_col = fb.cur_col
    /\ typed' = <<>>
    /\ UNCHANGED <<port, temp_buf, arrows, history>>

\* What a step does to the line, by the branch of the handler or of the loop.
LEMMA StepCases ==
    TypeOK /\ [Next]_vars =>
        \/ QuietStep \/ ArrowStep \/ BackStep \/ EnterStep
        \/ \E c \in Chars : CharStep(c)
        \/ PollStep \/ Output \/ ActivateStep
<1> SUFFICES ASSUME TypeOK, [Next]_vars
             PROVE  \/ QuietStep \/ ArrowStep \/ BackStep \/ EnterStep
                    \/ \E c \in Chars : CharStep(c)
                    \/ PollStep \/ Output \/ ActivateStep
    OBVIOUS
<1>0. keyboard \in KeyboardDriverState /\ fb \in FramebufferState
    BY Zenon DEF TypeOK
<1>1. CASE \E k \in Keys : Press(k)
  <2>1. PICK k \in Keys : Press(k)
    BY <1>1
  <2>2. PortKept
    BY <2>1, Zenon DEF Press, PortKept
  <2>3. UNCHANGED <<keyboard, fb, pc, temp_buf, buf, typed, arrows, history>>
    BY <2>1, Zenon DEF Press, shell
  <2> QED BY <2>2, <2>3 DEF QuietStep, Lost, Line
<1>2. CASE IsrOff
  <2>1. /\ keyboard' = [keyboard EXCEPT !.buffer_index = 0] /\ history' = history \cup {"missed"}
        /\ UNCHANGED <<port, fb, pc, temp_buf, buf, typed, arrows>>
    BY <1>2, Zenon DEF IsrOff, shell
  <2>2. /\ keyboard'.keyboard_buffer = keyboard.keyboard_buffer
        /\ keyboard'.keyboard_input_on = keyboard.keyboard_input_on
        /\ keyboard'.buffer_index = 0
    BY <1>0, <2>1 DEF KeyboardDriverState
  <2>3. Lost' = Lost
    BY <2>1 DEF Lost
  <2> QED BY <2>1, <2>2, <2>3 DEF QuietStep, PortKept, Line
<1>3. CASE IsrModifier
  <2>1. /\ port' = NoKey /\ UNCHANGED <<fb, pc, temp_buf, buf, typed, arrows, history>>
    BY <1>3, Zenon DEF IsrModifier, Read, shell
  <2>2. \/ keyboard' = [keyboard EXCEPT !.capslock_on = ~@]
        \/ keyboard' = [keyboard EXCEPT !.shift_on = (port = "shift")]
        \/ keyboard' = [keyboard EXCEPT !.ctrl_on = (port = "ctrl")]
        \/ keyboard' = keyboard
    BY <1>3, Zenon DEF IsrModifier
  <2>3. /\ keyboard'.keyboard_buffer = keyboard.keyboard_buffer
        /\ keyboard'.keyboard_input_on = keyboard.keyboard_input_on
        /\ keyboard'.buffer_index = keyboard.buffer_index
    BY <1>0, <2>2 DEF KeyboardDriverState
  <2> QED BY <2>1, <2>3 DEF QuietStep, PortKept, Line, Lost
<1>4. CASE IsrArrow
    BY <1>4, Zenon DEF IsrArrow, ArrowStep, Read, shell
<1>5. CASE IsrCtrlC
  <2>1. /\ port' = NoKey /\ UNCHANGED <<fb, pc, temp_buf, buf, typed, arrows, history>>
        /\ keyboard' = [keyboard EXCEPT !.keyboard_input_on = FALSE]
    BY <1>5, Zenon DEF IsrCtrlC, Read, shell
  <2>2. /\ keyboard'.keyboard_buffer = keyboard.keyboard_buffer
        /\ keyboard'.keyboard_input_on = FALSE
        /\ keyboard'.buffer_index = keyboard.buffer_index
    BY <1>0, <2>1 DEF KeyboardDriverState
  <2> QED BY <2>1, <2>2 DEF QuietStep, PortKept, Line, Lost
<1>6. CASE IsrBackspace
  <2>1. port' = NoKey /\ keyboard.keyboard_input_on /\ UNCHANGED <<pc, temp_buf, buf, arrows>>
    BY <1>6, Zenon DEF IsrBackspace, Read, shell
  <2>2. CASE keyboard.buffer_index > 0
    <3>1. /\ keyboard' = [keyboard EXCEPT !.buffer_index = @ - 1, !.keyboard_buffer = BACKSPACE]
          /\ fb' = Erase(fb) /\ typed' = SubSeq(typed, 1, Len(typed) - 1) /\ Stored
      BY <1>6, <2>2 DEF IsrBackspace
    <3>2. /\ keyboard'.keyboard_buffer = BACKSPACE
          /\ keyboard'.buffer_index = keyboard.buffer_index - 1
      BY <1>0, <3>1 DEF KeyboardDriverState
    <3> QED BY <2>1, <2>2, <3>1, <3>2 DEF BackStep, KeyStep, Line
  <2>3. CASE ~(keyboard.buffer_index > 0)
    <3>1. UNCHANGED <<keyboard, fb, typed, history>>
      BY <1>6, <2>3 DEF IsrBackspace
    <3> QED BY <2>1, <3>1 DEF QuietStep, PortKept, Line, Lost
  <2> QED BY <2>2, <2>3
<1>7. CASE IsrEnter
  <2>1. /\ port' = NoKey /\ keyboard.keyboard_input_on /\ UNCHANGED <<pc, temp_buf, buf, arrows>>
        /\ keyboard' = [keyboard EXCEPT !.keyboard_buffer = NEWLINE, !.keyboard_input_on = FALSE]
        /\ Stored /\ fb' = ScrollIfFull(NextLine(fb)) /\ typed' = typed
    BY <1>7, Zenon DEF IsrEnter, Read, shell, Entered
  <2>2. /\ keyboard'.keyboard_buffer = NEWLINE /\ keyboard'.keyboard_input_on = FALSE
        /\ keyboard'.buffer_index = keyboard.buffer_index
    BY <1>0, <2>1 DEF KeyboardDriverState
  <2> QED BY <2>1, <2>2 DEF EnterStep, KeyStep, Line
<1>8. CASE IsrChar
  <2> DEFINE c == ascii_char(port)
  <2>1. /\ port' = NoKey /\ keyboard.keyboard_input_on /\ UNCHANGED <<pc, temp_buf, buf, arrows>>
        /\ keyboard' = [keyboard EXCEPT !.keyboard_buffer = c, !.buffer_index = NextIndex(@)]
        /\ Stored /\ fb' = Echo(fb, c) /\ typed' = Append(typed, c) /\ port \in CharKeys
    BY <1>8, Zenon DEF IsrChar, Read, shell
  <2>2. c \in Chars
    BY <1>0, <2>1, AsciiType
  <2> HIDE DEF c
  <2>3. /\ keyboard'.keyboard_buffer = c
        /\ keyboard'.buffer_index = NextIndex(keyboard.buffer_index)
    BY <1>0, <2>1 DEF KeyboardDriverState
  <2>4. CharStep(c)
    BY <2>1, <2>3 DEF CharStep, KeyStep, Line
  <2> QED BY <2>2, <2>4
<1>9. CASE Poll
  <2>1. /\ pc = "poll" /\ keyboard.keyboard_buffer # ZERO
        /\ keyboard' = [keyboard EXCEPT !.keyboard_buffer = ZERO]
        /\ IF keyboard.keyboard_buffer = NEWLINE
           THEN pc' = "run" /\ buf' = temp_buf /\ temp_buf' = <<>>
           ELSE temp_buf' = Collect(keyboard.keyboard_buffer) /\ UNCHANGED <<pc, buf>>
        /\ UNCHANGED <<port, fb, typed, arrows, history>>
    BY <1>9, Zenon DEF Poll, Fetched, controller
  <2>2. /\ keyboard'.keyboard_buffer = ZERO
        /\ keyboard'.keyboard_input_on = keyboard.keyboard_input_on
        /\ keyboard'.buffer_index = keyboard.buffer_index
    BY <1>0, <2>1 DEF KeyboardDriverState
  <2> QED BY <2>1, <2>2, Zenon DEF PollStep
<1>10. CASE Activate
  <2>1. /\ pc = "run" /\ pc' = "poll" /\ typed' = <<>>
        /\ keyboard' = [keyboard EXCEPT !.buffer_index = 0, !.keyboard_input_on = TRUE,
                            !.shift_on = FALSE, !.capslock_on = FALSE, !.ctrl_on = FALSE]
        /\ fb' = [fb EXCEPT !.start_row = fb.cur_row, !.start_col = fb.cur_col, !.cells = AllOld]
        /\ UNCHANGED <<port, temp_buf, arrows, history>>
    BY <1>10, Zenon DEF Activate, controller
  <2>2. keyboard'.keyboard_buffer = keyboard.keyboard_buffer /\ keyboard'.buffer_index = 0
    BY <1>0, <2>1 DEF KeyboardDriverState
  <2>3. /\ fb'.cur_row = fb.cur_row /\ fb'.cur_col = fb.cur_col
        /\ fb'.start_row = fb.cur_row /\ fb'.start_col = fb.cur_col
    BY <1>0, <2>1 DEF FramebufferState
  <2> QED BY <2>1, <2>2, <2>3 DEF ActivateStep
<1>11. CASE PollEmpty \/ UNCHANGED vars
  <2>1. UNCHANGED vars
    BY <1>11 DEF PollEmpty
  <2> QED BY <2>1 DEF vars, QuietStep, PortKept, Line, Lost
<1> QED BY <1>1, <1>2, <1>3, <1>4, <1>5, <1>6, <1>7, <1>8, <1>9, <1>10, <1>11, Zenon
        DEF Next, keyboard_isr

\* What Stored records.
LEMMA StoredFacts ==
    ASSUME Stored
    PROVE  /\ history \subseteq history'
           /\ pc = "run" => "typed ahead" \in history'
           /\ keyboard.keyboard_buffer # ZERO => "overwritten" \in history'
BY DEF Stored

\* What has gone wrong stays recorded.
LEMMA StaysUndisturbed ==
    TypeOK /\ [Next]_vars =>
        /\ "typed ahead" \in history => "typed ahead" \in history'
        /\ "overwritten" \in history => "overwritten" \in history'
        /\ Undisturbed' => Undisturbed
<1> SUFFICES ASSUME TypeOK, [Next]_vars
             PROVE  /\ "typed ahead" \in history => "typed ahead" \in history'
                    /\ "overwritten" \in history => "overwritten" \in history'
                    /\ Undisturbed' => Undisturbed
    OBVIOUS
<1>0. arrows \in Nat
    BY LineTypes
<1>1. CASE QuietStep
    BY <1>1 DEF QuietStep, Lost, Line, Undisturbed
<1>2. CASE ArrowStep
  <2>1. arrows' # 0 /\ history' = history
    BY <1>0, <1>2 DEF ArrowStep
  <2> QED BY <2>1 DEF Undisturbed
<1>3. CASE BackStep \/ EnterStep \/ \E c \in Chars : CharStep(c)
  <2>1. Stored /\ arrows' = arrows
    BY <1>3 DEF BackStep, EnterStep, CharStep, KeyStep, Line
  <2>2. history \subseteq history'
    BY <2>1, StoredFacts
  <2> QED BY <2>1, <2>2 DEF Undisturbed
<1>4. CASE PollStep
    BY <1>4 DEF PollStep, Undisturbed
<1>5. CASE Output
    BY <1>5 DEF Output, Undisturbed
<1>6. CASE ActivateStep
    BY <1>6 DEF ActivateStep, Undisturbed
<1> QED BY <1>1, <1>2, <1>3, <1>4, <1>5, <1>6, StepCases

\* Every step keeps the index within the line.
LEMMA NextBounds == TypeOK /\ Bounds /\ [Next]_vars => Bounds'
<1> SUFFICES ASSUME TypeOK, Bounds, [Next]_vars PROVE Bounds'
    OBVIOUS
<1>0. /\ keyboard.buffer_index \in Nat /\ keyboard.buffer_index <= Len(typed)
      /\ Len(typed) \in Nat /\ typed \in Seq(Chars)
    BY LineTypes DEF Bounds
<1>1. NoKey \notin Arrows /\ NoKey \notin CharKeys
    BY KeysDistinct DEF NoKey, Arrows
<1>2. CASE QuietStep
  <2>1. keyboard'.buffer_index <= Len(typed')
    BY <1>0, <1>2 DEF QuietStep
  <2>2. /\ port' \in Arrows => arrows' < MaxArrows
        /\ port' \in CharKeys => Len(typed') < MaxLine
    BY <1>1, <1>2 DEF QuietStep, PortKept, Bounds, Line
  <2> QED BY <2>1, <2>2 DEF Bounds
<1>3. CASE ArrowStep
    BY <1>0, <1>1, <1>3 DEF ArrowStep, Bounds
<1>4. CASE BackStep
  <2>1. Len(typed') = Len(typed) - 1
    <3>1. typed' = SubSeq(typed, 1, Len(typed) - 1) /\ Len(typed) > 0
      BY <1>0, <1>4 DEF BackStep
    <3> QED BY <1>0, <3>1, Sequence
  <2> QED BY <1>0, <1>1, <1>4, <2>1 DEF BackStep, KeyStep, Bounds
<1>5. CASE EnterStep
    BY <1>0, <1>1, <1>5 DEF EnterStep, KeyStep, Bounds
<1>6. ASSUME NEW c \in Chars, CharStep(c) PROVE Bounds'
  <2>1. Len(typed') = Len(typed) + 1
    BY <1>0, <1>6 DEF CharStep
  <2>2. (keyboard.buffer_index + 1) % IndexSize <= keyboard.buffer_index + 1
    <3>1. keyboard.buffer_index \in 0 .. IndexSize - 1
      BY DEF TypeOK, KeyboardDriverState
    <3>2. CASE keyboard.buffer_index + 1 < IndexSize
      BY <3>1, <3>2, BoundTypes
    <3>3. CASE keyboard.buffer_index + 1 = IndexSize
      BY <3>1, <3>3, BoundTypes
    <3> QED BY <3>1, <3>2, <3>3, BoundTypes
  <2>3. keyboard'.buffer_index = (keyboard.buffer_index + 1) % IndexSize
    BY <1>6 DEF CharStep, NextIndex
  <2>4. (keyboard.buffer_index + 1) % IndexSize \in Int
    BY <1>0, BoundTypes
  <2> QED BY <1>0, <1>1, <1>6, <2>1, <2>2, <2>3, <2>4 DEF CharStep, KeyStep, Bounds
<1>7. CASE PollStep
    BY <1>7 DEF PollStep, Bounds
<1>8. CASE Output
    BY <1>8 DEF Output, Bounds, controller
<1>9. CASE ActivateStep
  <2>1. 0 < MaxLine /\ Len(typed') = 0
    BY <1>9, MaxLineType, EmptyLine DEF ActivateStep
  <2> QED BY <1>9, <2>1 DEF ActivateStep, Bounds
<1> QED BY <1>2, <1>3, <1>4, <1>5, <1>6, <1>7, <1>8, <1>9, StepCases

\* No character is left over while a command runs.
LEMMA NextRunsClean == TypeOK /\ RunsClean /\ [Next]_vars => RunsClean'
<1> SUFFICES ASSUME TypeOK, RunsClean, [Next]_vars, pc' = "run", "typed ahead" \notin history'
             PROVE  keyboard'.keyboard_buffer = ZERO /\ temp_buf' = <<>>
    BY DEF RunsClean
<1>0. "typed ahead" \notin history
    BY StaysUndisturbed
<1>1. CASE QuietStep
    BY <1>0, <1>1 DEF QuietStep, Line, RunsClean
<1>2. CASE ArrowStep
    BY <1>0, <1>2 DEF ArrowStep, RunsClean
<1>3. CASE BackStep \/ EnterStep \/ \E c \in Chars : CharStep(c)
  <2>1. Stored /\ pc' = pc
    BY <1>3 DEF BackStep, EnterStep, CharStep, KeyStep, Line
  <2> QED BY <2>1, StoredFacts
<1>4. CASE PollStep
    BY <1>4 DEF PollStep
<1>5. CASE Output
    BY <1>0, <1>5 DEF Output, RunsClean, shell
<1>6. CASE ActivateStep
    BY <1>6 DEF ActivateStep
<1> QED BY <1>1, <1>2, <1>3, <1>4, <1>5, <1>6, StepCases

\* The cursor.
LEMMA NextCursor ==
    TypeOK /\ RunsClean /\ RowOpen /\ CursorOnScreen /\ [Next]_vars => CursorOnScreen' /\ RowOpen'
<1> SUFFICES ASSUME TypeOK, RunsClean, RowOpen, CursorOnScreen, [Next]_vars
             PROVE  CursorOnScreen' /\ RowOpen'
    OBVIOUS
<1>0. fb \in FramebufferState /\ pc \in {"poll", "run"}
    BY Zenon DEF TypeOK
<1>1. /\ "typed ahead" \in history => "typed ahead" \in history'
      /\ Undisturbed' => Undisturbed
    BY StaysUndisturbed
<1>2. CASE QuietStep
  <2>1. UNCHANGED <<fb, pc>> /\ keyboard'.keyboard_buffer = keyboard.keyboard_buffer
        /\ (keyboard'.keyboard_input_on => keyboard.keyboard_input_on)
    BY <1>2 DEF QuietStep, Line
  <2> QED BY <1>1, <2>1 DEF CursorOnScreen, RowOpen
<1>3. CASE ArrowStep
  <2>1. ~Undisturbed'
    <3>1. arrows \in Nat /\ arrows' = arrows + 1
      BY <1>3, LineTypes DEF ArrowStep
    <3>2. arrows' # 0
      BY <3>1
    <3> QED BY <3>2 DEF Undisturbed
  <2>2. UNCHANGED <<pc, keyboard, history>>
    BY <1>3 DEF ArrowStep
  <2> QED BY <2>1, <2>2 DEF CursorOnScreen, RowOpen
<1>4. CASE BackStep
  <2>1. CursorOnScreen'
    BY <1>0, <1>1, <1>4, EraseFields DEF BackStep, CursorOnScreen
  <2>2. keyboard'.keyboard_buffer # NEWLINE
    BY <1>4, SymbolsDistinct DEF BackStep
  <2>3. Stored /\ pc' = pc
    BY <1>4 DEF BackStep, KeyStep, Line
  <2>4. Undisturbed' => pc # "run"
    BY <2>3, StoredFacts DEF Undisturbed
  <2> QED BY <2>1, <2>2, <2>3, <2>4 DEF RowOpen
<1>5. CASE EnterStep
  <2> DEFINE n == NextLine(fb)
  <2>1. n \in FramebufferState /\ n.cur_row = fb.cur_row + 1 /\ n.cur_col = 0
    BY <1>0, NextLineFields
  <2> HIDE DEF n
  <2>2. fb' = ScrollIfFull(n)
    BY <1>5 DEF EnterStep, n
  <2>3. fb'.cur_col = 0 /\ fb'.cur_row = IF n.cur_row = MAX_ROW THEN n.cur_row - 1 ELSE n.cur_row
    BY <2>1, <2>2, ScrollFields DEF ScrollIfFull
  <2>4. CursorOnScreen'
    <3> SUFFICES ASSUME Undisturbed'
                 PROVE  fb'.cur_row \in 0 .. MAX_ROW - 1 /\ fb'.cur_col \in 0 .. MAX_COLUMN
      BY DEF CursorOnScreen
    <3>1. fb.cur_row \in 0 .. MAX_ROW - 1
      BY <1>1 DEF CursorOnScreen
    <3> QED BY <2>1, <2>3, <3>1, SizeTypes
  <2>5. fb'.cur_col < MAX_COLUMN /\ ~keyboard'.keyboard_input_on
    BY <1>5, <2>3, SizeTypes DEF EnterStep
  <2> QED BY <2>4, <2>5 DEF RowOpen
<1>6. ASSUME NEW c \in Chars, CharStep(c) PROVE CursorOnScreen' /\ RowOpen'
  <2>1. fb' = Echo(fb, c) /\ Stored /\ pc' = pc
    BY <1>6 DEF CharStep, KeyStep, Line
  <2>2. CursorOnScreen'
    <3> SUFFICES ASSUME Undisturbed' PROVE fb'.cur_row \in 0 .. MAX_ROW - 1 /\ fb'.cur_col \in 0 .. MAX_COLUMN
      BY DEF CursorOnScreen
    <3>1. fb.cur_row \in 0 .. MAX_ROW - 1 /\ fb.cur_col \in 0 .. MAX_COLUMN
      BY <1>1 DEF CursorOnScreen
    <3>2. CASE fb.cur_col < MAX_COLUMN \/ fb.cur_row < MAX_ROW - 1
      BY <1>0, <2>1, <3>1, <3>2, EchoInPlace
    <3>3. CASE fb.cur_col = MAX_COLUMN /\ fb.cur_row = MAX_ROW - 1
      BY <1>0, <2>1, <3>3, EchoScrolls, Sizes
    <3> QED BY <3>1, <3>2, <3>3, Sizes
  <2>3. keyboard'.keyboard_buffer # NEWLINE
    BY <1>6, SymbolsDistinct DEF CharStep
  <2>4. Undisturbed' => pc # "run"
    BY <2>1, StoredFacts DEF Undisturbed
  <2> QED BY <2>1, <2>2, <2>3, <2>4 DEF RowOpen
<1>7. CASE PollStep
  <2>1. /\ UNCHANGED <<fb, arrows, history>> /\ keyboard'.keyboard_buffer # NEWLINE
        /\ pc' = "run" => keyboard.keyboard_buffer = NEWLINE
    BY <1>7, SymbolsDistinct DEF PollStep
  <2> QED BY <1>1, <2>1 DEF CursorOnScreen, RowOpen
<1>8. CASE Output
  <2>1. pc = "run" /\ UNCHANGED <<pc, keyboard, history>>
    BY <1>8 DEF Output, shell
  <2>2. Undisturbed' => fb'.cur_row \in 0 .. MAX_ROW - 1 /\ fb'.cur_col \in 0 .. MAX_COLUMN - 1
    <3> SUFFICES ASSUME Undisturbed'
                 PROVE  fb'.cur_row \in 0 .. MAX_ROW - 1 /\ fb'.cur_col \in 0 .. MAX_COLUMN - 1
      OBVIOUS
    <3>1. fb.cur_row \in 0 .. MAX_ROW - 1 /\ fb.cur_col \in 0 .. MAX_COLUMN - 1
      <4>1. /\ fb.cur_row \in 0 .. MAX_ROW - 1 /\ fb.cur_col \in 0 .. MAX_COLUMN
            /\ fb.cur_col < MAX_COLUMN
        BY <1>1, <2>1 DEF CursorOnScreen, RowOpen
      <4> QED BY <4>1, SizeTypes
    <3>2. CASE fb' = putchar(fb, NEWLINE) \/ fb' = putchar(fb, OLD)
      BY <1>0, <3>1, <3>2, PutcharFields
    <3>3. CASE fb' = [fb EXCEPT !.cur_row = 0, !.cur_col = 0, !.cells = AllOld]
      <4>1. fb'.cur_row = 0 /\ fb'.cur_col = 0
        BY <1>0, <3>3 DEF FramebufferState
      <4> QED BY <4>1, Sizes
    <3> QED BY <1>8, <3>2, <3>3 DEF Output
  <2>3. Undisturbed' => fb'.cur_col \in 0 .. MAX_COLUMN /\ fb'.cur_col < MAX_COLUMN
    BY <2>2, Sizes
  <2> QED BY <2>1, <2>2, <2>3 DEF CursorOnScreen, RowOpen
<1>9. CASE ActivateStep
  <2>1. /\ fb'.cur_row = fb.cur_row /\ fb'.cur_col = fb.cur_col /\ pc = "run"
        /\ keyboard'.keyboard_buffer = keyboard.keyboard_buffer /\ history' = history
    BY <1>9 DEF ActivateStep
  <2>2. "typed ahead" \notin history => keyboard'.keyboard_buffer # NEWLINE
    BY <2>1, SymbolsDistinct DEF RunsClean
  <2> QED BY <1>1, <2>1, <2>2 DEF CursorOnScreen, RowOpen
<1> QED BY <1>2, <1>3, <1>4, <1>5, <1>6, <1>7, <1>8, <1>9, StepCases

\* The line in the shell.
LEMMA NextShellHasLine ==
    TypeOK /\ RunsClean /\ ShellHasLine /\ [Next]_vars => ShellHasLine'
<1> SUFFICES ASSUME TypeOK, RunsClean, ShellHasLine, [Next]_vars,
                    "overwritten" \notin history', "typed ahead" \notin history'
             PROVE  IF pc' = "poll" THEN Pending' = typed' ELSE buf' = typed'
    BY DEF ShellHasLine
<1>0. /\ pc \in {"poll", "run"} /\ typed \in Seq(Chars) /\ temp_buf \in Seq(Chars)
      /\ keyboard.keyboard_buffer \in Chars \cup {ZERO, BACKSPACE, NEWLINE}
    BY DEF TypeOK, KeyboardDriverState
<1>1. "overwritten" \notin history /\ "typed ahead" \notin history
    BY StaysUndisturbed
<1>2. IF pc = "poll" THEN Pending = typed ELSE buf = typed
    BY <1>1 DEF ShellHasLine
<1>3. CASE QuietStep
  <2>1. /\ UNCHANGED <<pc, temp_buf, buf, typed>>
        /\ keyboard'.keyboard_buffer = keyboard.keyboard_buffer
    BY <1>3 DEF QuietStep, Line
  <2> QED BY <1>2, <2>1 DEF Pending, Collect
<1>4. CASE ArrowStep
  <2>1. UNCHANGED <<pc, temp_buf, buf, typed, keyboard>>
    BY <1>4 DEF ArrowStep
  <2> QED BY <1>2, <2>1 DEF Pending, Collect
<1>5. ASSUME KeyStep
      PROVE  /\ pc' = "poll" /\ temp_buf' = temp_buf
             /\ keyboard.keyboard_buffer = ZERO /\ temp_buf = typed
  <2>1. Stored /\ pc' = pc /\ temp_buf' = temp_buf
    BY <1>5 DEF KeyStep, Line
  <2>2. pc = "poll" /\ keyboard.keyboard_buffer = ZERO
    BY <1>0, <2>1, StoredFacts
  <2> QED BY <1>2, <2>1, <2>2 DEF Pending
<1>6. CASE BackStep
  <2>1. /\ KeyStep /\ keyboard'.keyboard_buffer = BACKSPACE
        /\ typed' = SubSeq(typed, 1, Len(typed) - 1)
    BY <1>6 DEF BackStep
  <2>2. Pending' = IF temp_buf' = <<>> THEN <<>> ELSE SubSeq(temp_buf', 1, Len(temp_buf') - 1)
    BY <2>1, SymbolsDistinct DEF Pending, Collect, Front
  <2>3. typed = <<>> => typed' = <<>>
    BY <2>1, EmptyFront
  <2> QED BY <1>5, <2>1, <2>2, <2>3
<1>7. CASE EnterStep
  <2>1. KeyStep /\ keyboard'.keyboard_buffer = NEWLINE /\ typed' = typed
    BY <1>7 DEF EnterStep
  <2> QED BY <1>5, <2>1 DEF Pending
<1>8. ASSUME NEW c \in Chars, CharStep(c) PROVE pc' = "poll" /\ Pending' = typed'
  <2>1. KeyStep /\ keyboard'.keyboard_buffer = c /\ typed' = Append(typed, c)
    BY <1>8 DEF CharStep
  <2>2. Pending' = Append(temp_buf', c)
    BY <2>1, SymbolsDistinct DEF Pending, Collect
  <2> QED BY <1>5, <2>1, <2>2
<1>9. CASE PollStep
  <2>1. CASE keyboard.keyboard_buffer = NEWLINE
    BY <1>2, <1>9, <2>1 DEF PollStep, Pending
  <2>2. CASE keyboard.keyboard_buffer # NEWLINE
    <3>1. /\ pc = "poll" /\ pc' = "poll" /\ temp_buf' = Collect(keyboard.keyboard_buffer)
          /\ keyboard.keyboard_buffer # ZERO /\ keyboard'.keyboard_buffer = ZERO /\ typed' = typed
      BY <1>9, <2>2 DEF PollStep
    <3>2. Pending = Collect(keyboard.keyboard_buffer) /\ Pending' = temp_buf'
      BY <2>2, <3>1 DEF Pending
    <3> QED BY <1>2, <3>1, <3>2
  <2> QED BY <2>1, <2>2
<1>10. CASE Output
  <2>1. UNCHANGED <<pc, buf, typed>> /\ pc = "run"
    BY <1>10 DEF Output, shell
  <2> QED BY <1>2, <2>1
<1>11. CASE ActivateStep
  <2>1. /\ pc = "run" /\ keyboard'.keyboard_buffer = keyboard.keyboard_buffer
        /\ temp_buf' = temp_buf /\ typed' = <<>> /\ pc' = "poll"
    BY <1>11 DEF ActivateStep
  <2>2. keyboard.keyboard_buffer = ZERO /\ temp_buf = <<>>
    BY <1>1, <2>1 DEF RunsClean
  <2> QED BY <2>1, <2>2 DEF Pending
<1> QED BY <1>3, <1>4, <1>6, <1>7, <1>8, <1>9, <1>10, <1>11, StepCases

\* The line on the screen.
LEMMA NextLineOnScreen ==
    IInv /\ [Next]_vars => LineOnScreen'
<1> SUFFICES ASSUME IInv, [Next]_vars, Undisturbed', pc' = "poll", keyboard'.keyboard_input_on
             PROVE  /\ Start' >= 0
                    /\ Position(fb.cur_row, fb.cur_col)' = Start' + Len(typed')
                    /\ \A i \in DOMAIN typed' :
                          LET p == Start' + i - 1
                          IN  \/ fb'.cells[p] = typed'[i]
                              \/ fb'.cells[p] = BLANK /\ p % MAX_COLUMN = 0
    BY DEF LineOnScreen
<1>0. /\ TypeOK /\ fb \in FramebufferState /\ pc \in {"poll", "run"}
      /\ typed \in Seq(Chars) /\ Len(typed) \in Nat
    BY LineTypes DEF IInv, TypeOK
<1>1. Undisturbed
    BY <1>0, StaysUndisturbed
<1>2. /\ fb.cur_row \in 0 .. MAX_ROW - 1 /\ fb.cur_col \in 0 .. MAX_COLUMN
      /\ fb.start_row \in Int /\ fb.start_col \in Int
    BY <1>0, <1>1, ScreenFields DEF IInv, CursorOnScreen
<1>3. /\ Position(fb.cur_row, fb.cur_col) \in Nat
      /\ Start \in Int
    BY <1>2, SizeTypes DEF Position, Start
<1>4. ASSUME pc = "poll", keyboard.keyboard_input_on
      PROVE  /\ Start >= 0
             /\ Position(fb.cur_row, fb.cur_col) = Start + Len(typed)
             /\ \A i \in 1 .. Len(typed) :
                   \/ fb.cells[Start + i - 1] = typed[i]
                   \/ fb.cells[Start + i - 1] = BLANK /\ (Start + i - 1) % MAX_COLUMN = 0
  <2>1. DOMAIN typed = 1 .. Len(typed)
    BY <1>0
  <2> QED BY <1>1, <1>4, <2>1 DEF IInv, LineOnScreen
\* Steps that leave the line and the screen as they are.
<1>5. ASSUME pc = "poll", keyboard.keyboard_input_on, fb' = fb, typed' = typed
      PROVE  /\ Start' >= 0
             /\ Position(fb.cur_row, fb.cur_col)' = Start' + Len(typed')
             /\ \A i \in DOMAIN typed' :
                   LET p == Start' + i - 1
                   IN  \/ fb'.cells[p] = typed'[i]
                       \/ fb'.cells[p] = BLANK /\ p % MAX_COLUMN = 0
  <2>1. Start' = Start /\ Position(fb.cur_row, fb.cur_col)' = Position(fb.cur_row, fb.cur_col)
    BY <1>5 DEF Start, Position
  <2>2. DOMAIN typed = 1 .. Len(typed)
    BY <1>0
  <2> QED BY <1>4, <1>5, <2>1, <2>2
<1>6. CASE QuietStep
  <2>1. UNCHANGED <<pc, fb, typed>> /\ keyboard.keyboard_input_on
    BY <1>6 DEF QuietStep, Line
  <2> QED BY <1>5, <2>1
<1>7. CASE ArrowStep
  <2>1. arrows' # 0
    BY <1>0, <1>7, LineTypes DEF ArrowStep
  <2> QED BY <2>1 DEF Undisturbed
<1>8. CASE BackStep
  <2>1. /\ pc = "poll" /\ keyboard.keyboard_input_on /\ fb' = Erase(fb)
        /\ typed' = SubSeq(typed, 1, Len(typed) - 1)
        /\ keyboard.buffer_index > 0
    BY <1>8 DEF BackStep, KeyStep, Line
  <2>2. Len(typed) > 0
    BY <1>0, <2>1, LineTypes DEF IInv, Bounds
  <2>3. /\ Len(typed') = Len(typed) - 1 /\ \A i \in 1 .. Len(typed) - 1 : typed'[i] = typed[i]
        /\ DOMAIN typed' = 1 .. Len(typed')
    <3>1. typed' \in Seq(Chars)
      BY <1>0, <2>1, Sequence
    <3> QED BY <1>0, <2>1, <2>2, <3>1, Sequence
  <2>4. Position(fb.cur_row, fb.cur_col) > 0 /\ Position(fb.cur_row, fb.cur_col) = Start + Len(typed) /\ Start >= 0
    BY <1>0, <1>3, <1>4, <2>1, <2>2
  <2>5. /\ fb'.start_row = fb.start_row /\ fb'.start_col = fb.start_col
        /\ Position(fb'.cur_row, fb'.cur_col) = Position(fb.cur_row, fb.cur_col) - 1
        /\ \A p \in Cells : p # Position(fb.cur_row, fb.cur_col) - 1 => fb'.cells[p] = fb.cells[p]
    BY <1>0, <1>2, <2>1, <2>4, EraseFields
  <2>6. Start' = Start
    BY <2>5 DEF Start, Position
  <2>7. Position(fb.cur_row, fb.cur_col) <= MAX_ROW * MAX_COLUMN
    BY <1>2, Sizes DEF Position
  <2>8. ASSUME NEW i \in 1 .. Len(typed')
        PROVE  \/ fb'.cells[Start + i - 1] = typed'[i]
               \/ fb'.cells[Start + i - 1] = BLANK /\ (Start + i - 1) % MAX_COLUMN = 0
    <3>1. i \in 1 .. Len(typed) /\ i \in 1 .. Len(typed) - 1
      BY <1>0, <2>3
    <3>2. Start + i - 1 \in Cells /\ Start + i - 1 # Position(fb.cur_row, fb.cur_col) - 1
      BY <1>0, <1>3, <2>3, <2>4, <2>7, <3>1, Sizes DEF Cells
    <3>3. fb'.cells[Start + i - 1] = fb.cells[Start + i - 1]
      BY <2>5, <3>2
    <3> QED BY <1>4, <2>1, <2>3, <3>1, <3>3
  <2>9. Position(fb'.cur_row, fb'.cur_col) = Start + Len(typed')
    BY <1>0, <1>3, <2>3, <2>4, <2>5
  <2> QED BY <2>3, <2>4, <2>6, <2>8, <2>9 DEF Position
<1>9. CASE EnterStep
    BY <1>9 DEF EnterStep
<1>10. ASSUME NEW c \in Chars, CharStep(c)
       PROVE  /\ Start' >= 0
              /\ Position(fb.cur_row, fb.cur_col)' = Start' + Len(typed')
              /\ \A i \in DOMAIN typed' :
                    LET p == Start' + i - 1
                    IN  \/ fb'.cells[p] = typed'[i]
                        \/ fb'.cells[p] = BLANK /\ p % MAX_COLUMN = 0
  <2>1. /\ pc = "poll" /\ keyboard.keyboard_input_on /\ fb' = Echo(fb, c)
        /\ typed' = Append(typed, c) /\ port \in CharKeys
    BY <1>10 DEF CharStep, KeyStep, Line
  <2>2. /\ Len(typed') = Len(typed) + 1 /\ \A i \in 1 .. Len(typed) : typed'[i] = typed[i]
        /\ typed'[Len(typed) + 1] = c /\ DOMAIN typed' = 1 .. Len(typed) + 1
    BY <1>0, <2>1
  <2> DEFINE here == Position(fb.cur_row, fb.cur_col)
  <2>3. here = Start + Len(typed) /\ Start >= 0 /\ here \in Nat
    BY <1>3, <1>4, <2>1
  <2>4. CASE fb.cur_col < MAX_COLUMN \/ fb.cur_row < MAX_ROW - 1
    <3>1. /\ fb'.start_row = fb.start_row /\ fb'.start_col = fb.start_col
          /\ Position(fb'.cur_row, fb'.cur_col) = here + 1
          /\ here \in Cells
          /\ \A p \in Cells : fb'.cells[p] = IF p = here THEN c ELSE fb.cells[p]
      BY <1>0, <1>2, <2>1, <2>4, EchoInPlace
    <3>2. Start' = Start
      BY <3>1 DEF Start, Position
    <3> HIDE DEF here
    <3>3. ASSUME NEW i \in 1 .. Len(typed) + 1
          PROVE  \/ fb'.cells[Start + i - 1] = typed'[i]
                 \/ fb'.cells[Start + i - 1] = BLANK /\ (Start + i - 1) % MAX_COLUMN = 0
      <4>1. CASE i = Len(typed) + 1
        <5>1. Start + i - 1 = here
          BY <1>0, <1>3, <2>3, <4>1
        <5> QED BY <2>2, <3>1, <4>1, <5>1
      <4>2. CASE i \in 1 .. Len(typed)
        <5>1. Start + i - 1 \in Cells /\ Start + i - 1 # here
          BY <1>0, <1>3, <2>3, <3>1, <4>2, Sizes DEF Cells
        <5>2. fb'.cells[Start + i - 1] = fb.cells[Start + i - 1]
          BY <3>1, <5>1
        <5> QED BY <1>4, <2>1, <2>2, <4>2, <5>2
      <4> QED BY <1>0, <4>1, <4>2
    <3>4. Position(fb'.cur_row, fb'.cur_col) = Start + Len(typed')
      BY <1>0, <1>3, <2>2, <2>3, <3>1
    <3> QED BY <2>2, <2>3, <3>2, <3>3, <3>4 DEF Position
  <2>5. CASE fb.cur_col = MAX_COLUMN /\ fb.cur_row = MAX_ROW - 1
    <3> DEFINE N == MAX_ROW * MAX_COLUMN
               M == MAX_COLUMN
    <3>1. /\ fb'.cur_row = MAX_ROW - 1 /\ fb'.cur_col = 1
          /\ fb'.start_row = fb.start_row - 1 /\ fb'.start_col = fb.start_col
          /\ fb'.cells[N - M] = BLANK /\ (N - M) % M = 0
          /\ \A p \in 0 .. N - M - 1 : p + M \in Cells /\ fb'.cells[p] = fb.cells[p + M]
      BY <1>0, <2>1, <2>5, EchoScrolls
    <3>2. N \in Nat /\ M \in Nat /\ (MAX_ROW - 1) * M = N - M
      BY Sizes
    <3>3. here = N
      BY <2>5, <3>2 DEF Position
    <3>4. Start' = Start - M
      <4>1. \A a, b \in Int : (a - 1) * b = a * b - b
        OBVIOUS
      <4>2. (fb.start_row - 1) * M = fb.start_row * M - M
        BY <1>2, <3>2, <4>1
      <4>3. fb.start_row * M \in Int
        BY <1>2, <3>2
      <4>4. Start' = (fb.start_row - 1) * M + fb.start_col
        BY <3>1 DEF Start, Position
      <4>5. Start = fb.start_row * M + fb.start_col
        BY DEF Start, Position
      <4> HIDE DEF M, N
      <4> QED BY <1>2, <3>2, <4>2, <4>3, <4>4, <4>5
    <3>5. Len(typed) < MaxLine /\ MaxLine \in Nat /\ MaxLine <= N - M
      BY <2>1, MaxLineType DEF IInv, Bounds
    <3>6. Position(fb'.cur_row, fb'.cur_col) = N - M + 1
      BY <3>1, <3>2 DEF Position
    <3> HIDE DEF here, N
    <3>7. Start' >= 0 /\ Start' \in Int /\ Start' + Len(typed) = N - M
      BY <1>0, <1>3, <2>3, <3>2, <3>3, <3>4, <3>5
    <3>8. ASSUME NEW i \in 1 .. Len(typed) + 1
          PROVE  \/ fb'.cells[Start' + i - 1] = typed'[i]
                 \/ fb'.cells[Start' + i - 1] = BLANK /\ (Start' + i - 1) % M = 0
      <4>1. CASE i = Len(typed) + 1
        <5>1. Start' + i - 1 = N - M
          BY <1>0, <3>2, <3>7, <4>1
        <5> QED BY <3>1, <5>1
      <4>2. CASE i \in 1 .. Len(typed)
        <5>1. Start' + i - 1 \in 0 .. N - M - 1 /\ (Start' + i - 1) + M = Start + i - 1
          BY <1>0, <1>3, <3>2, <3>4, <3>7, <4>2
        <5>2. fb'.cells[Start' + i - 1] = fb.cells[Start + i - 1]
          BY <3>1, <5>1
        <5>3. Start' + i - 1 = (Start + i - 1) - M /\ Start + i - 1 \in Int
          BY <1>0, <1>3, <3>2, <3>4, <4>2
        <5>4. (Start' + i - 1) % M = (Start + i - 1) % M
          BY <5>3, SameColumn
        <5> QED BY <1>4, <2>1, <2>2, <4>2, <5>2, <5>4
      <4> QED BY <1>0, <4>1, <4>2
    <3>9. Position(fb'.cur_row, fb'.cur_col) = Start' + Len(typed')
      BY <1>0, <2>2, <3>2, <3>6, <3>7
    <3> QED BY <2>2, <3>7, <3>8, <3>9 DEF Position
  <2> QED BY <1>2, <2>4, <2>5, SizeTypes
<1>11. CASE PollStep
  <2>1. UNCHANGED <<fb, typed>> /\ pc = "poll" /\ keyboard.keyboard_input_on
    BY <1>11 DEF PollStep
  <2> QED BY <1>5, <2>1
<1>12. CASE Output
  <2>1. pc' = "run"
    BY <1>12 DEF Output, shell
  <2> QED BY <2>1
<1>13. CASE ActivateStep
  <2>1. /\ fb'.cur_row = fb.cur_row /\ fb'.cur_col = fb.cur_col
        /\ fb'.start_row = fb.cur_row /\ fb'.start_col = fb.cur_col
        /\ typed' = <<>>
    BY <1>13 DEF ActivateStep
  <2>2. Start' = Position(fb.cur_row, fb.cur_col) /\ Position(fb.cur_row, fb.cur_col)' = Start'
    BY <2>1 DEF Start, Position
  <2>3. Len(typed') = 0 /\ DOMAIN typed' = {}
    BY <2>1
  <2> QED BY <1>3, <2>2, <2>3
<1> QED BY <1>0, <1>6, <1>7, <1>8, <1>9, <1>10, <1>11, <1>12, <1>13, StepCases
-----------------------------------------------------------------------------
\* The invariant when the shell starts.
LEMMA InitIInv == Init => IInv
<1> SUFFICES ASSUME Init PROVE IInv
    OBVIOUS
<1>1. TypeOK /\ Bounds
    BY InitType
<1>2. /\ keyboard.keyboard_buffer = ZERO /\ temp_buf = <<>> /\ buf = <<>> /\ typed = <<>>
      /\ pc = "run" /\ fb.cur_row = 0 /\ fb.cur_col = 0
    BY DEF Init
<1>3. CursorOnScreen /\ RowOpen
    BY <1>2, SizeTypes DEF CursorOnScreen, RowOpen
<1> QED BY <1>1, <1>2, <1>3 DEF IInv, RunsClean, ShellHasLine, LineOnScreen

\* The invariant of handler, screen and shell.
LEMMA AlwaysIInv == Spec => []IInv
<1>1. IInv /\ [Next]_vars => IInv'
    BY NextType, NextBounds, NextRunsClean, NextCursor, NextShellHasLine, NextLineOnScreen DEF IInv
<1> QED BY <1>1, InitIInv, PTL DEF Spec

\* Whatever is typed, the driver's state, the screen and the shell's buffers
\* keep their types: buffer_index wraps within its byte.
THEOREM TypeCorrect == Spec => []TypeOK
<1>1. IInv => TypeOK
    BY DEF IInv
<1> QED BY <1>1, AlwaysIInv, PTL

\* On a screen of any size the cursor stays on it, or waits behind the last
\* column, as long as no arrow key is used and nothing is typed ahead.
THEOREM CursorStaysOnScreen == Spec => []CursorOnScreen
<1>1. IInv => CursorOnScreen
    BY DEF IInv
<1> QED BY <1>1, AlwaysIInv, PTL

\* The line the shell runs is the line that was typed, for lines of every
\* length, unless a character was overwritten or typed ahead.
THEOREM ShellAlwaysHasLine == Spec => []ShellHasLine
<1>1. IInv => ShellHasLine
    BY DEF IInv
<1> QED BY <1>1, AlwaysIInv, PTL

\* The wrapping, scrolling and erasing of keyboard_isr keep the typed line on
\* the screen, for every screen and every line that fits above its last row.
THEOREM LineStaysOnScreen == Spec => []LineOnScreen
<1>1. IInv => LineOnScreen
    BY DEF IInv
<1> QED BY <1>1, AlwaysIInv, PTL
=============================================================================
