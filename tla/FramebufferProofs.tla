------------------------- MODULE FramebufferProofs -------------------------
(***************************************************************************)
(* Proofs about Framebuffer, for every size of the screen, every text and  *)
(* whatever the BIOS left: the screen is a window on the end of the text,  *)
(* and the cursor is behind it.                                            *)
(***************************************************************************)
EXTENDS Framebuffer, TLAPS

\* The place after a character that was written at place p.
After(p, c) ==
  IF c = NewLine \/ p[2] = FB_COLS - 1 THEN <<p[1] + 1, 0>> ELSE <<p[1], p[2] + 1>>

\* What the definition of Place asks of a function: places follow each other.
Follows(t, f) ==
  f = [k \in 0 .. Len(t) |-> IF k = 0 THEN <<0, 0>> ELSE After(f[k - 1], t[k])]

Places == Nat \X (0 .. FB_COLS - 1)

Before(p, q) == p[1] < q[1] \/ (p[1] = q[1] /\ p[2] < q[2])

\* There is one such function, and it never comes back to a place.
Path ==
  /\ Follows(text, Place)
  /\ \A f : Follows(text, f) => f = Place
  /\ \A k \in 0 .. Len(text) : Place[k] \in Places
  /\ \A k \in 0 .. Len(text) - 1 : Before(Place[k], Pen)

\* fb_row and fb_col are where the text has come to.
AtPen ==
  /\ fb_col = Pen[2]
  /\ IF Pen[1] < FB_ROWS THEN fb_row = Pen[1] ELSE fb_row = FB_ROWS - 1

TypeInv ==
  /\ text \in Seq(Nat) /\ buf \in Seq(Nat)
  /\ fb = [i \in Cells |-> fb[i]]

CursorInv ==
  pc = "idle" => crtc[1] * BYTE + crtc[2] = fb_row * FB_COLS + fb_col

IInv == TypeInv /\ Path /\ AtPen /\ ScreenShowsText /\ CursorInv

----------------------------------------------------------------------------
(* Places *)

\* The definition of Place, as one of the functions Follows describes.
LEMMA PlaceIs == Place = CHOOSE f : Follows(text, f)
BY DEF Place, Follows, After

\* One more character adds one more place, in one way only.
LEMMA OneMore ==
  ASSUME NEW t \in Seq(Nat), NEW c \in Nat, NEW f, Follows(t, f),
         \A g : Follows(t, g) => g = f
  PROVE  LET n == Len(t)
             F == [k \in 0 .. n + 1 |-> IF k <= n THEN f[k] ELSE After(f[n], c)]
         IN  Follows(Append(t, c), F) /\ \A g : Follows(Append(t, c), g) => g = F
<1> DEFINE n == Len(t)
           u == Append(t, c)
           F == [k \in 0 .. n + 1 |-> IF k <= n THEN f[k] ELSE After(f[n], c)]
<1>1. /\ n \in Nat /\ Len(u) = n + 1 /\ u[n + 1] = c
      /\ \A k \in 1 .. n : u[k] = t[k]
  OBVIOUS
<1> HIDE DEF u, n
<1>2. \A k \in 0 .. n : f[k] = IF k = 0 THEN <<0, 0>> ELSE After(f[k - 1], t[k])
  BY DEF Follows, n
<1>3. ASSUME NEW k \in 0 .. n + 1
      PROVE  F[k] = IF k = 0 THEN <<0, 0>> ELSE After(F[k - 1], u[k])
  <2>1. CASE k = 0
    BY <1>1, <1>2, <2>1
  <2>2. CASE k \in 1 .. n
    <3>1. k - 1 \in 0 .. n /\ k # 0 /\ k <= n /\ k - 1 <= n /\ k \in 0 .. n
      BY <1>1, <2>2
    <3>2. F[k] = f[k] /\ F[k - 1] = f[k - 1]
      BY <1>1, <3>1
    <3> QED
      BY <1>1, <1>2, <2>2, <3>1, <3>2
  <2>3. CASE k = n + 1
    <3>1. k # 0 /\ k - 1 = n /\ ~(k <= n)
      BY <1>1, <2>3
    <3>2. F[k] = After(f[n], c) /\ F[k - 1] = f[n]
      BY <1>1, <3>1
    <3> QED
      BY <1>1, <2>3, <3>1, <3>2
  <2> QED
    BY <1>1, <2>1, <2>2, <2>3
<1>4. Follows(u, F)
  BY <1>1, <1>3 DEF Follows
<1>5. ASSUME NEW g, Follows(u, g) PROVE g = F
  <2> DEFINE h == [k \in 0 .. n |-> g[k]]
  <2>1. \A k \in 0 .. n + 1 : g[k] = IF k = 0 THEN <<0, 0>> ELSE After(g[k - 1], u[k])
    BY <1>1, <1>5 DEF Follows
  <2>2. g = [k \in 0 .. n + 1 |-> g[k]]
    BY <1>1, <1>5, <2>1 DEF Follows
  <2>3. ASSUME NEW k \in 0 .. n
        PROVE  h[k] = IF k = 0 THEN <<0, 0>> ELSE After(h[k - 1], t[k])
    <3>1. CASE k = 0
      BY <1>1, <2>1, <3>1
    <3>2. CASE k # 0
      <4>1. k - 1 \in 0 .. n /\ k \in 1 .. n /\ k \in 0 .. n + 1
        BY <1>1, <3>2
      <4> QED
        BY <1>1, <2>1, <3>2, <4>1
    <3> QED
      BY <3>1, <3>2
  <2>4. Follows(t, h)
    BY <2>3 DEF Follows, n
  <2>5. h = f
    BY <2>4
  <2>6. \A k \in 0 .. n : g[k] = f[k]
    <3>1. \A k \in 0 .. n : h[k] = g[k]
      OBVIOUS
    <3> QED
      BY <2>5, <3>1
  <2>7. g[n + 1] = After(f[n], c)
    <3>1. n + 1 \in 0 .. n + 1 /\ n + 1 # 0 /\ (n + 1) - 1 = n /\ n \in 0 .. n
      BY <1>1
    <3> QED
      BY <1>1, <2>1, <2>6, <3>1
  <2>8. \A k \in 0 .. n + 1 : g[k] = F[k]
    <3>1. \A k \in 0 .. n + 1 : k <= n => k \in 0 .. n
      BY <1>1
    <3>2. \A k \in 0 .. n + 1 : ~(k <= n) => k = n + 1
      BY <1>1
    <3> QED
      BY <2>6, <2>7, <3>1, <3>2
  <2> QED
    BY <2>2, <2>8
<1> QED
  BY <1>4, <1>5 DEF n, u

\* Places are on the paper, and each character moves on.
LEMMA AfterPlace ==
  ASSUME NEW p \in Places, NEW c
  PROVE  /\ After(p, c) \in Places /\ Before(p, After(p, c))
         /\ \A q \in Places : Before(q, p) => Before(q, After(p, c))
<1>1. /\ p[1] \in Nat /\ p[2] \in 0 .. FB_COLS - 1 /\ p = <<p[1], p[2]>>
      /\ FB_COLS \in Nat \ {0}
  BY FramebufferConstants DEF Places
<1>2. CASE c = NewLine \/ p[2] = FB_COLS - 1
  BY <1>1, <1>2 DEF After, Places, Before
<1>3. CASE ~(c = NewLine \/ p[2] = FB_COLS - 1)
  BY <1>1, <1>3 DEF After, Places, Before
<1> QED
  BY <1>2, <1>3

\* What a character does to the roll: its place is behind all others, so it covers
\* nothing.
LEMMA RollStep ==
  ASSUME text \in Seq(Nat), Path, NEW c \in Nat, text' = Append(text, c)
  PROVE  /\ Path' /\ Pen \in Places /\ Pen' = After(Pen, c)
         /\ \A line \in Nat, col \in 0 .. FB_COLS - 1 :
              OnRoll(line, col)' = IF c # NewLine /\ <<line, col>> = Pen THEN c
                                   ELSE OnRoll(line, col)
<1> DEFINE n == Len(text)
           F == [k \in 0 .. n + 1 |-> IF k <= n THEN Place[k] ELSE After(Place[n], c)]
<1>1. /\ n \in Nat /\ text' \in Seq(Nat) /\ Len(text') = n + 1 /\ (text')[n + 1] = c
      /\ \A k \in 1 .. n : (text')[k] = text[k]
  OBVIOUS
<1>2. Follows(text', F) /\ \A g : Follows(text', g) => g = F
  BY OneMore DEF Path
<1>3. Place' = F
  <2>1. Place' = CHOOSE f : Follows(text', f)
    BY DEF Place, Follows, After
  <2> QED
    BY <1>2, <2>1
<1>4. /\ \A k \in 0 .. n : (Place')[k] = Place[k]
      /\ (Place')[n + 1] = After(Place[n], c)
  <2>1. \A k \in 0 .. n : k \in 0 .. n + 1 /\ k <= n
    BY <1>1
  <2>2. n + 1 \in 0 .. n + 1 /\ ~(n + 1 <= n)
    BY <1>1
  <2> QED
    BY <1>3, <2>1, <2>2
<1>5. Pen = Place[n] /\ Pen \in Places /\ Pen' = After(Pen, c)
  <2>1. n \in 0 .. n
    BY <1>1
  <2> QED
    BY <1>1, <1>4, <2>1 DEF Pen, Path
<1>6. Path'
  <2>1. \A k \in 0 .. n + 1 : (Place')[k] \in Places
    <3>1. \A k \in 0 .. n + 1 : k \in 0 .. n \/ k = n + 1
      BY <1>1
    <3> QED
      BY <1>4, <1>5, <3>1, AfterPlace DEF Path
  <2>2. ASSUME NEW k \in 0 .. n PROVE Before((Place')[k], Pen')
    <3>1. CASE k = n
      BY <1>4, <1>5, <3>1, AfterPlace
    <3>2. CASE k # n
      <4>1. k \in 0 .. n - 1
        BY <1>1, <3>2
      <4> QED
        BY <1>4, <1>5, <4>1, AfterPlace DEF Path
    <3> QED
      BY <3>1, <3>2
  <2>3. Follows(text', Place') /\ \A g : Follows(text', g) => g = Place'
    BY <1>2, <1>3
  <2>4. (n + 1) - 1 = n
    BY <1>1
  <2> QED
    BY <1>1, <2>1, <2>2, <2>3, <2>4 DEF Path, Follows, Places
<1>7. ASSUME NEW line \in Nat, NEW col \in 0 .. FB_COLS - 1
      PROVE  OnRoll(line, col)' = IF c # NewLine /\ <<line, col>> = Pen THEN c
                                  ELSE OnRoll(line, col)
  <2> DEFINE W == WrittenAt(line, col)
             V == WrittenAt(line, col)'
  <2>1. W = {k \in 1 .. n : text[k] # NewLine /\ Place[k - 1] = <<line, col>>}
    BY DEF WrittenAt
  <2>2. V = {k \in 1 .. n + 1 : (text')[k] # NewLine /\ (Place')[k - 1] = <<line, col>>}
    BY <1>1 DEF WrittenAt
  <2>3. \A k : k \in 1 .. n + 1 <=> k \in 1 .. n \/ k = n + 1
    BY <1>1
  <2>4. \A k \in 1 .. n : (text')[k] = text[k] /\ (Place')[k - 1] = Place[k - 1]
    <3>1. \A k \in 1 .. n : k - 1 \in 0 .. n
      BY <1>1
    <3> QED
      BY <1>1, <1>4, <3>1
  <2>5. (text')[n + 1] = c /\ (Place')[(n + 1) - 1] = Pen
    <3>1. (n + 1) - 1 = n /\ n \in 0 .. n
      BY <1>1
    <3> QED
      BY <1>1, <1>4, <1>5, <3>1
  <2>6. V = W \cup (IF c # NewLine /\ <<line, col>> = Pen THEN {n + 1} ELSE {})
    <3> HIDE DEF V, W
    <3>1. \A k : k \in V <=> k \in W \/ (k = n + 1 /\ c # NewLine /\ <<line, col>> = Pen)
      BY <2>1, <2>2, <2>3, <2>4, <2>5
    <3> QED
      BY <3>1
  <2>7. W \subseteq 1 .. n
    BY <2>1
  <2>8. OnRoll(line, col) = IF W = {} THEN Under(line, col)
                            ELSE text[CHOOSE k \in W : TRUE]
    BY DEF OnRoll
  <2>9. OnRoll(line, col)' = IF V = {} THEN Under(line, col)
                             ELSE (text')[CHOOSE k \in V : TRUE]
    BY DEF OnRoll, Under
  <2>10. CASE c # NewLine /\ <<line, col>> = Pen
    <3>1. W = {}
      <4> SUFFICES ASSUME NEW k \in 1 .. n, Place[k - 1] = Pen PROVE FALSE
        BY <2>1, <2>10
      <4>1. k - 1 \in 0 .. n - 1
        BY <1>1
      <4>2. Before(Pen, Pen)
        BY <4>1 DEF Path
      <4> QED
        BY <1>5, <4>2 DEF Before, Places
    <3> HIDE DEF V, W
    <3>2. V = {n + 1}
      BY <2>6, <2>10, <3>1
    <3> QED
      BY <2>5, <2>9, <2>10, <3>2
  <2>11. CASE ~(c # NewLine /\ <<line, col>> = Pen)
    <3> HIDE DEF V, W
    <3>1. V = W
      BY <2>6, <2>11
    <3>2. W # {} => (CHOOSE k \in W : TRUE) \in W
      OBVIOUS
    <3>3. W # {} => (text')[CHOOSE k \in W : TRUE] = text[CHOOSE k \in W : TRUE]
      BY <1>1, <2>7, <3>2
    <3> QED
      BY <2>8, <2>9, <2>11, <3>1, <3>3
  <2> QED
    BY <2>10, <2>11
<1> QED
  BY <1>5, <1>6, <1>7

----------------------------------------------------------------------------
(* Cells *)

\* Rows and columns number the cells, each once.
LEMMA Grid ==
  /\ FB_COLS \in Nat \ {0} /\ FB_ROWS \in Nat \ {0} /\ BYTE \in Nat \ {0}
  /\ \A r \in 0 .. FB_ROWS - 1, q \in 0 .. FB_COLS - 1 :
       /\ r * FB_COLS + q \in Cells
       /\ r * FB_COLS + q < FB_COLS * (FB_ROWS - 1) <=> r # FB_ROWS - 1
       /\ r * FB_COLS + q + FB_COLS = (r + 1) * FB_COLS + q
  /\ \A r, s \in Nat, q, z \in 0 .. FB_COLS - 1 :
       r * FB_COLS + q = s * FB_COLS + z => r = s /\ q = z
<1>1. FB_COLS \in Nat \ {0} /\ FB_ROWS \in Nat \ {0} /\ BYTE \in Nat \ {0}
  BY FramebufferConstants
<1>2. ASSUME NEW r \in Nat, NEW s \in Nat, r < s
      PROVE  r * FB_COLS + FB_COLS <= s * FB_COLS
  <2>1. PICK d \in Nat : s = r + 1 + d
    <3>1. s - r - 1 \in Nat /\ s = r + 1 + (s - r - 1)
      BY <1>2
    <3> QED
      BY <3>1
  <2>2. (r + 1 + d) * FB_COLS = r * FB_COLS + FB_COLS + d * FB_COLS /\ d * FB_COLS \in Nat
    BY <1>1, <2>1
  <2> QED
    BY <1>1, <2>1, <2>2
<1>3. ASSUME NEW r \in 0 .. FB_ROWS - 1, NEW q \in 0 .. FB_COLS - 1
      PROVE  /\ r * FB_COLS + q \in Cells
             /\ r * FB_COLS + q < FB_COLS * (FB_ROWS - 1) <=> r # FB_ROWS - 1
             /\ r * FB_COLS + q + FB_COLS = (r + 1) * FB_COLS + q
  <2>1. r \in Nat /\ q \in Nat /\ q < FB_COLS /\ r < FB_ROWS /\ r * FB_COLS \in Nat
    BY <1>1
  <2>2. /\ FB_COLS * FB_ROWS = FB_ROWS * FB_COLS
        /\ FB_COLS * (FB_ROWS - 1) = (FB_ROWS - 1) * FB_COLS /\ FB_ROWS * FB_COLS \in Nat
        /\ (FB_ROWS - 1) * FB_COLS \in Nat
    BY <1>1
  <2>3. r * FB_COLS + FB_COLS <= FB_ROWS * FB_COLS
    BY <1>1, <1>2, <2>1
  <2>4. r * FB_COLS + q \in Cells
    BY <1>1, <2>1, <2>2, <2>3 DEF Cells
  <2>5. r # FB_ROWS - 1 => r * FB_COLS + FB_COLS <= (FB_ROWS - 1) * FB_COLS
    <3>1. r # FB_ROWS - 1 => r < FB_ROWS - 1 /\ FB_ROWS - 1 \in Nat
      BY <1>1, <2>1
    <3> QED
      BY <1>2, <2>1, <3>1
  <2>6. r * FB_COLS + q < FB_COLS * (FB_ROWS - 1) <=> r # FB_ROWS - 1
    <3>1. CASE r = FB_ROWS - 1
      BY <1>1, <2>1, <2>2, <3>1
    <3>2. CASE r # FB_ROWS - 1
      BY <1>1, <2>1, <2>2, <2>5, <3>2
    <3> QED
      BY <3>1, <3>2
  <2>7. (r + 1) * FB_COLS = r * FB_COLS + FB_COLS
    BY <1>1, <2>1
  <2> QED
    BY <1>1, <2>1, <2>4, <2>6, <2>7
<1>4. ASSUME NEW r \in Nat, NEW s \in Nat,
             NEW q \in 0 .. FB_COLS - 1, NEW z \in 0 .. FB_COLS - 1,
             r * FB_COLS + q = s * FB_COLS + z
      PROVE  r = s /\ q = z
  <2>1. q \in Nat /\ z \in Nat /\ q < FB_COLS /\ z < FB_COLS
        /\ r * FB_COLS \in Nat /\ s * FB_COLS \in Nat
    BY <1>1
  <2>2. ~(r < s) /\ ~(s < r)
    BY <1>1, <1>2, <1>4, <2>1
  <2>3. r = s
    BY <2>2
  <2> QED
    BY <1>4, <2>1, <2>3
<1> QED
  BY <1>1, <1>3, <1>4

----------------------------------------------------------------------------
(* The steps *)

\* Before anything is written.
LEMMA InitIInv == Init => IInv
<1> SUFFICES ASSUME Init PROVE IInv
  OBVIOUS
<1>1. /\ text = <<>> /\ buf = <<>> /\ fb_col = 0 /\ fb_row = 0 /\ crtc = <<0, 0>>
      /\ fb = [i \in Cells |-> Cell(Garbage(i), 7, 0)]
  BY DEF Init
<1>2. TypeInv
  BY <1>1 DEF TypeInv
<1>3. Len(text) = 0
  BY <1>1
<1>4. Path /\ Pen = <<0, 0>>
  <2> DEFINE f == [k \in 0 .. 0 |-> <<0, 0>>]
  <2>1. Follows(text, f) /\ \A g : Follows(text, g) => g = f
    BY <1>3 DEF Follows
  <2>2. Place = f
    BY <2>1, PlaceIs
  <2>3. <<0, 0>> \in Places
    BY FramebufferConstants DEF Places
  <2> QED
    BY <1>3, <2>1, <2>2, <2>3 DEF Path, Pen
<1>5. AtPen
  BY <1>1, <1>4, Grid DEF AtPen
<1>6. ScreenShowsText
  <2>1. Top = 0
    BY <1>4, Grid DEF Top
  <2>2. ASSUME NEW row \in 0 .. FB_ROWS - 1, NEW col \in 0 .. FB_COLS - 1
        PROVE  fb[row * FB_COLS + col].char = OnRoll(Top + row, col)
    <3>1. WrittenAt(Top + row, col) = {}
      BY <1>3 DEF WrittenAt
    <3>2. Top + row = row /\ row < FB_ROWS
      BY <2>1, Grid
    <3>3. OnRoll(Top + row, col) = Garbage(row * FB_COLS + col)
      BY <3>1, <3>2 DEF OnRoll, Under
    <3>4. row * FB_COLS + col \in Cells
      BY Grid
    <3> QED
      BY <1>1, <3>3, <3>4 DEF Cell
  <2> QED
    BY <2>2 DEF ScreenShowsText
<1>7. CursorInv
  BY <1>1, Grid DEF CursorInv
<1> QED
  BY <1>2, <1>4, <1>5, <1>6, <1>7 DEF IInv

\* Where the text is does not depend on anything but the text.
LEMMA SameText ==
  ASSUME text' = text, IInv,
         UNCHANGED <<fb, fb_col, fb_row>>
  PROVE  Path' /\ AtPen' /\ ScreenShowsText'
<1>1. Path /\ AtPen /\ ScreenShowsText
  BY DEF IInv
<1>2. Place' = Place
  BY DEF Place
<1>3. Pen' = Pen /\ Top' = Top
  BY <1>2 DEF Pen, Top
<1>4. Path'
  BY <1>1, <1>2, <1>3 DEF Path, Follows, Places
<1>5. AtPen'
  BY <1>1, <1>3 DEF AtPen
<1>6. ASSUME NEW line, NEW col PROVE OnRoll(line, col)' = OnRoll(line, col)
  BY <1>2 DEF OnRoll, WrittenAt, Under
<1>7. ScreenShowsText'
  BY <1>1, <1>3, <1>6 DEF ScreenShowsText
<1> QED
  BY <1>4, <1>5, <1>7

\* One character, on the screen and on the roll.
LEMMA CharStep ==
  ASSUME IInv, fb_write_char
  PROVE  IInv'
<1> DEFINE c == Head(buf)
           down == c = NewLine \/ fb_col + 1 >= FB_COLS
           row == IF down THEN fb_row + 1 ELSE fb_row
           here == fb_row * FB_COLS + fb_col
           screen == IF c = NewLine THEN fb ELSE fb_write_cell(here, c, 0, 5)
<1>1. /\ pc = "fb_write" /\ pc' = pc /\ buf # <<>> /\ buf' = Tail(buf)
      /\ text' = Append(text, c)
      /\ IF OffScreen(row) THEN fb_scroll(screen)
         ELSE /\ fb' = screen /\ fb_row' = row
              /\ fb_col' = (IF down THEN 0 ELSE fb_col + 1)
  BY DEF fb_write_char
<1>2. TypeInv /\ Path /\ AtPen /\ ScreenShowsText
  BY DEF IInv
<1>3. /\ c \in Nat /\ buf' \in Seq(Nat) /\ text' \in Seq(Nat)
  BY <1>1, <1>2 DEF TypeInv
<1>4. /\ Path' /\ Pen \in Places /\ Pen' = After(Pen, c)
      /\ \A line \in Nat, col \in 0 .. FB_COLS - 1 :
           OnRoll(line, col)' = IF c # NewLine /\ <<line, col>> = Pen THEN c
                                ELSE OnRoll(line, col)
  BY <1>1, <1>2, <1>3, RollStep DEF TypeInv
<1>5. /\ Pen[1] \in Nat /\ Pen[2] \in 0 .. FB_COLS - 1 /\ Pen = <<Pen[1], Pen[2]>>
      /\ fb_col = Pen[2] /\ fb_row \in 0 .. FB_ROWS - 1 /\ Top \in Nat
      /\ fb_row = Pen[1] - Top
  BY <1>2, <1>4, Grid DEF Places, AtPen, Top
<1>6. /\ down <=> (c = NewLine \/ Pen[2] = FB_COLS - 1)
      /\ Pen' = IF down THEN <<Pen[1] + 1, 0>> ELSE <<Pen[1], Pen[2] + 1>>
  <2> HIDE DEF c
  <2>1. fb_col + 1 >= FB_COLS <=> Pen[2] = FB_COLS - 1
    BY <1>5, Grid
  <2>2. Pen' = IF c = NewLine \/ Pen[2] = FB_COLS - 1 THEN <<Pen[1] + 1, 0>>
               ELSE <<Pen[1], Pen[2] + 1>>
    BY <1>4 DEF After
  <2> QED
    BY <2>1, <2>2
<1>7. here \in Cells
  BY <1>5, Grid
<1> HIDE DEF c
<1>8. /\ screen = [i \in Cells |-> screen[i]]
      /\ \A i \in Cells :
           screen[i].char = IF c # NewLine /\ i = here THEN c ELSE fb[i].char
  <2>1. CASE c = NewLine
    BY <1>2, <2>1 DEF TypeInv
  <2>2. CASE c # NewLine
    <3> HIDE DEF here
    <3>1. screen = [fb EXCEPT ![here] = Cell(c, 0, 5)]
      BY <2>2 DEF fb_write_cell
    <3>2. screen = [i \in Cells |-> IF i = here THEN Cell(c, 0, 5) ELSE fb[i]]
      BY <1>2, <1>7, <3>1 DEF TypeInv
    <3>3. Cell(c, 0, 5).char = c
      BY DEF Cell
    <3> HIDE DEF screen
    <3> QED
      BY <2>2, <3>2, <3>3
  <2> QED
    BY <2>1, <2>2
<1>9. ASSUME NEW r \in 0 .. FB_ROWS - 1, NEW q \in 0 .. FB_COLS - 1,
             NEW line \in Nat, line = Top + r
      PROVE  screen[r * FB_COLS + q].char = OnRoll(line, q)'
  <2> DEFINE i == r * FB_COLS + q
  <2>1. i \in Cells /\ r \in Nat /\ fb_row \in Nat
    BY <1>5, Grid
  <2>2. i = here <=> r = fb_row /\ q = fb_col
    BY <1>5, <2>1, Grid
  <2>3. <<line, q>> = Pen <=> r = fb_row /\ q = fb_col
    BY <1>5, <1>9, <2>1
  <2>4. fb[i].char = OnRoll(line, q)
    BY <1>2, <1>9 DEF ScreenShowsText
  <2>5. OnRoll(line, q)' = IF c # NewLine /\ <<line, q>> = Pen THEN c ELSE OnRoll(line, q)
    BY <1>4
  <2> HIDE DEF i, here, screen
  <2>6. screen[i].char = IF c # NewLine /\ i = here THEN c ELSE fb[i].char
    BY <1>8, <2>1
  <2> QED
    BY <2>2, <2>3, <2>4, <2>5, <2>6 DEF i
<1> HIDE DEF screen, here, down
<1>10. ASSUME Top' \in Nat,
              \A r \in 0 .. FB_ROWS - 1, q \in 0 .. FB_COLS - 1, line \in Nat :
                line = Top' + r => (fb')[r * FB_COLS + q].char = OnRoll(line, q)'
       PROVE  ScreenShowsText'
  <2>1. \A r \in 0 .. FB_ROWS - 1 : Top' + r \in Nat
    <3>1. Top' \in Nat /\ FB_ROWS \in Nat
      BY <1>10, FramebufferConstants
    <3>2. \A t \in Nat, r \in 0 .. FB_ROWS - 1 : t + r \in Nat
      BY <3>1
    <3> QED
      BY <3>1, <3>2
  <2> QED
    BY <1>10, <2>1 DEF ScreenShowsText, OnRoll, WrittenAt, Under
<1>11. CASE OffScreen(row)
  <2>1. /\ fb' = [i \in Cells |-> IF i < FB_COLS * (FB_ROWS - 1)
                                 THEN screen[i + FB_COLS] ELSE Cell(Space, 15, 0)]
        /\ fb_row' = FB_ROWS - 1 /\ fb_col' = 0
    BY <1>1, <1>11 DEF fb_scroll
  <2>2. down /\ fb_row = FB_ROWS - 1
    <3>1. FB_ROWS \in Nat /\ fb_row \in Nat /\ fb_row <= FB_ROWS - 1 /\ row >= FB_ROWS
      BY <1>5, <1>11, FramebufferConstants DEF OffScreen
    <3>2. CASE ~down
      BY <3>1, <3>2
    <3>3. CASE down
      BY <3>1, <3>3
    <3> QED
      BY <3>2, <3>3
  <2>3. /\ Pen' = <<Pen[1] + 1, 0>> /\ Pen[1] + 1 >= FB_ROWS /\ (Pen')[1] = Pen[1] + 1
        /\ Top = Pen[1] - (FB_ROWS - 1) /\ Top' = Top + 1
        /\ (Pen')[1] = Top' + (FB_ROWS - 1)
    BY <1>2, <1>5, <1>6, <2>2, Grid DEF AtPen, Top
  <2>4. AtPen'
    BY <1>5, <2>1, <2>3, Grid DEF AtPen
  <2>5. TypeInv'
    BY <1>3, <2>1 DEF TypeInv, Cells
  <2>6. ASSUME NEW r \in 0 .. FB_ROWS - 1, NEW q \in 0 .. FB_COLS - 1,
               NEW line \in Nat, line = Top' + r
        PROVE  (fb')[r * FB_COLS + q].char = OnRoll(line, q)'
    <3> DEFINE i == r * FB_COLS + q
    <3>1. /\ i \in Cells /\ (i < FB_COLS * (FB_ROWS - 1) <=> r # FB_ROWS - 1)
          /\ i + FB_COLS = (r + 1) * FB_COLS + q
      BY Grid
    <3>2. CASE r # FB_ROWS - 1
      <4>1. r + 1 \in 0 .. FB_ROWS - 1 /\ line = Top + (r + 1)
        BY <1>5, <2>3, <2>6, <3>2, Grid
      <4>2. screen[(r + 1) * FB_COLS + q].char = OnRoll(line, q)'
        BY <1>9, <4>1
      <4> HIDE DEF i
      <4>3. (fb')[i] = screen[i + FB_COLS]
        BY <2>1, <3>1, <3>2
      <4> QED
        BY <3>1, <4>2, <4>3 DEF i
    <3>3. CASE r = FB_ROWS - 1
      <4>1. line = (Pen')[1] /\ ~(line < FB_ROWS)
        BY <1>5, <2>3, <2>6, <3>3, Grid
      <4>2. WrittenAt(line, q)' = {}
        <5> SUFFICES ASSUME NEW k \in 1 .. Len(text'), (Place')[k - 1] = <<line, q>>
                     PROVE  FALSE
          BY DEF WrittenAt
        <5>1. k - 1 \in 0 .. Len(text') - 1
          BY <1>3
        <5>2. Before((Place')[k - 1], Pen')
          BY <1>4, <5>1 DEF Path
        <5>3. ((Place')[k - 1])[1] = line /\ ((Place')[k - 1])[2] = q
          OBVIOUS
        <5>4. (Pen')[2] = 0 /\ q >= 0
          BY <2>3, FramebufferConstants
        <5> QED
          BY <4>1, <5>2, <5>3, <5>4 DEF Before
      <4>3. OnRoll(line, q)' = Space
        BY <4>1, <4>2 DEF OnRoll, Under
      <4> HIDE DEF i
      <4>4. (fb')[i].char = Space
        BY <2>1, <3>1, <3>3 DEF Cell
      <4> QED
        BY <4>3, <4>4 DEF i
    <3> QED
      BY <3>2, <3>3
  <2>7. ScreenShowsText'
    <3>1. Top' \in Nat
      BY <1>5, <2>3
    <3> QED
      BY <1>10, <2>6, <3>1
  <2> QED
    BY <1>1, <1>4, <2>4, <2>5, <2>7 DEF IInv, CursorInv
<1>12. CASE ~OffScreen(row)
  <2>1. fb' = screen /\ fb_row' = row /\ fb_col' = IF down THEN 0 ELSE fb_col + 1
    BY <1>1, <1>12 DEF down
  <2>2. row < FB_ROWS
    BY <1>5, <1>12, Grid DEF OffScreen
  <2>3. /\ Top' = Top
        /\ IF (Pen')[1] < FB_ROWS THEN row = (Pen')[1] ELSE row = FB_ROWS - 1
        /\ (Pen')[2] = IF down THEN 0 ELSE fb_col + 1
    <3>1. CASE down
      BY <1>2, <1>5, <1>6, <2>2, <3>1, Grid DEF AtPen, Top
    <3>2. CASE ~down
      BY <1>2, <1>5, <1>6, <2>2, <3>2, Grid DEF AtPen, Top
    <3> QED
      BY <3>1, <3>2
  <2>4. AtPen'
    BY <2>1, <2>3 DEF AtPen
  <2>5. TypeInv'
    BY <1>3, <1>8, <2>1 DEF TypeInv, Cells
  <2>6. ScreenShowsText'
    BY <1>5, <1>9, <1>10, <2>1, <2>3
  <2> QED
    BY <1>1, <1>4, <2>4, <2>5, <2>6 DEF IInv, CursorInv
<1> QED
  BY <1>11, <1>12

\* Two bytes hold the number of a cell.
LEMMA TwoBytes ==
  ASSUME NEW pos \in Cells
  PROVE  ((pos \div BYTE) % BYTE) * BYTE + (pos % BYTE) = pos
<1>1. /\ BYTE \in Nat \ {0} /\ pos \in Nat /\ FB_COLS * FB_ROWS \in Nat
      /\ pos < FB_COLS * FB_ROWS /\ FB_COLS * FB_ROWS <= BYTE * BYTE
      /\ BYTE * BYTE \in Nat
  BY FramebufferConstants DEF Cells
<1> DEFINE d == pos \div BYTE
<1>2. d \in Nat /\ pos % BYTE \in Nat /\ pos = BYTE * d + (pos % BYTE)
  BY <1>1
<1>3. d < BYTE
  <2> HIDE DEF d
  <2>1. BYTE * d < BYTE * BYTE
    BY <1>1, <1>2
  <2>2. CASE d >= BYTE
    <3>1. BYTE * d >= BYTE * BYTE
      BY <1>1, <1>2, <2>2
    <3>2. BYTE * d \in Nat
      BY <1>1, <1>2
    <3> QED
      BY <1>1, <2>1, <3>1, <3>2
  <2> QED
    BY <1>1, <1>2, <2>2
<1>4. d % BYTE = d
  <2> HIDE DEF d
  <2> QED
    BY <1>1, <1>2, <1>3
<1>5. d * BYTE = BYTE * d
  BY <1>1, <1>2
<1> QED
  BY <1>2, <1>4, <1>5

\* A call begins.
LEMMA BeginStep ==
  ASSUME IInv, NEW string \in Strings, fb_write(string)
  PROVE  IInv'
<1>1. /\ pc' = "fb_write" /\ buf' = string
      /\ UNCHANGED <<fb, fb_col, fb_row, crtc, text>>
  BY DEF fb_write
<1>2. string \in Seq(Nat)
  BY FramebufferConstants
<1>3. TypeInv'
  BY <1>1, <1>2 DEF IInv, TypeInv, Cells
<1> QED
  BY <1>1, <1>3, SameText DEF IInv, CursorInv

\* A call ends, and the cursor moves.
LEMMA EndStep ==
  ASSUME IInv, fb_write_end
  PROVE  IInv'
<1> DEFINE pos == fb_row * FB_COLS + fb_col
<1>1. /\ crtc' = <<pos \div BYTE % BYTE, pos % BYTE>>
      /\ UNCHANGED <<fb, fb_col, fb_row, buf, text>>
  BY DEF fb_write_end, fb_move_cursor
<1>2. TypeInv /\ AtPen /\ Pen \in Places
  <2>1. Len(text) \in 0 .. Len(text)
    BY DEF IInv, TypeInv
  <2> QED
    BY <2>1 DEF IInv, Path, Pen
<1>3. fb_row \in 0 .. FB_ROWS - 1 /\ fb_col \in 0 .. FB_COLS - 1
  BY <1>2, FramebufferConstants DEF AtPen, Places
<1>4. pos \in Cells
  BY <1>3, Grid
<1>5. (crtc')[1] * BYTE + (crtc')[2] = pos
  <2> HIDE DEF pos
  <2> QED
    BY <1>1, <1>4, TwoBytes
<1>6. TypeInv' /\ CursorInv'
  BY <1>1, <1>2, <1>5 DEF TypeInv, CursorInv, Cells
<1> QED
  BY <1>1, <1>6, SameText DEF IInv

\* Every step keeps the invariant.
LEMMA StepIInv == IInv /\ [Next]_vars => IInv'
<1> SUFFICES ASSUME IInv, [Next]_vars PROVE IInv'
  OBVIOUS
<1>1. CASE UNCHANGED vars
  <2>1. UNCHANGED <<fb, fb_col, fb_row, crtc, pc, buf, text>>
    BY <1>1 DEF vars
  <2>2. TypeInv' /\ CursorInv'
    BY <2>1 DEF IInv, TypeInv, CursorInv, Cells
  <2> QED
    BY <2>1, <2>2, SameText DEF IInv
<1> QED
  BY <1>1, BeginStep, CharStep, EndStep DEF Next

----------------------------------------------------------------------------
(* Theorems *)

\* The inductive invariant.
THEOREM Invariance == Spec => []IInv
BY InitIInv, StepIInv, PTL DEF Spec

\* However long the text and wherever its lines end, the screen is a window on the end
\* of it: no character is overwritten, skipped or left behind by fb_write and fb_scroll.
THEOREM ScreenIsAWindow == Spec => []ScreenShowsText
<1>1. IInv => ScreenShowsText
  BY DEF IInv
<1> QED
  BY <1>1, Invariance, PTL

\* The two bytes fb_move_cursor writes put the hardware's cursor behind the text.
THEOREM CursorFollowsText == Spec => []CursorAfterText
<1>1. IInv => CursorAfterText
  <2> SUFFICES ASSUME IInv, pc = "idle"
               PROVE  crtc[1] * BYTE + crtc[2] = (Pen[1] - Top) * FB_COLS + Pen[2]
    BY DEF CursorAfterText
  <2>1. crtc[1] * BYTE + crtc[2] = fb_row * FB_COLS + fb_col
    BY DEF IInv, CursorInv
  <2>2. AtPen /\ Pen[1] \in Nat
    <3>1. Len(text) \in 0 .. Len(text)
      BY DEF IInv, TypeInv
    <3> QED
      BY <3>1 DEF IInv, Path, Pen, Places
  <2>3. fb_row = Pen[1] - Top /\ fb_col = Pen[2]
    BY <2>2, FramebufferConstants DEF AtPen, Top
  <2> QED
    BY <2>1, <2>3
<1> QED
  BY <1>1, Invariance, PTL
============================================================================
