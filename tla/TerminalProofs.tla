------------------------------ MODULE TerminalProofs ---------------------------
(***************************************************************************)
(* Proofs about the terminal: the console, and the shell that reads lines from    *)
(* it. For every screen, font and largest scale, and every sequence of bytes and  *)
(* keys, the cursor stays on the screen, the line SYS_GETS reads is the line that *)
(* is shown, and texts are drawn as meant (Console.tla). For buffers and argvs of  *)
(* any size, and any lines, builtins and option strings, programs get the words   *)
(* of the line and the options its words say (Shell.tla).                          *)
(***************************************************************************)
EXTENDS Console, Shell, WellFoundedInduction, SequenceTheorems, TLAPS

Fields == {"x", "y", "scale", "fg", "esc", "escbuf", "left", "cp", "drawn"}

\* The cell at x, y is on the screen, at the scale of t.
OnScreen(t, x, y) == x \in Nat /\ y \in Nat /\ x + Cw(t) <= Width /\ y + Ch(t) <= Height

\* A terminal whose cursor is on the screen.
Good(t) == DOMAIN t = Fields /\ t.scale \in Scales /\ OnScreen(t, t.x, t.y)

\* Same scale, and the cursor at x, y.
Moved(t, u, x, y) == DOMAIN u = Fields /\ u.x = x /\ u.y = y /\ u.scale = t.scale
Level(t, u) == Moved(t, u, t.x, t.y)

\* A cell of any scale is at least a pixel and fits the screen.
LEMMA CellFits ==
  ASSUME NEW t, t.scale \in Scales
  PROVE  /\ Cw(t) \in Nat \ {0} /\ Cw(t) <= Width /\ Width \in Nat
         /\ Ch(t) \in Nat \ {0} /\ Ch(t) <= Height /\ Height \in Nat
BY ConsoleAssumption DEF Cw, Ch

\* There is a scale, and 1 is one.
LEMMA MaxScalePositive == MaxScale \in Nat \ {0}
BY ConsoleAssumption

\* A cursor moved to a cell of the screen is on it.
LEMMA MovedGood ==
  ASSUME NEW t, NEW u, NEW x, NEW y, Good(t), OnScreen(t, x, y), Moved(t, u, x, y)
  PROVE  Good(u)
<1>1. Cw(u) = Cw(t) /\ Ch(u) = Ch(t)
  BY DEF Moved, Cw, Ch
<1> QED
  BY <1>1 DEF Good, Moved, OnScreen

\* What leaves cursor and scale where they are keeps the cursor on the screen.
LEMMA LevelGood ==
  ASSUME NEW t, NEW u, Good(t), Level(t, u)
  PROVE  Good(u)
BY MovedGood DEF Good, Level

\* Drawing, and what is remembered of it, leaves the cursor alone.
LEMMA DrawLevel == ASSUME NEW t, Good(t), NEW c PROVE Level(t, Draw(t, c))
BY DEF Good, Level, Moved, Draw, Fields

\* Scrolling leaves the cursor to its caller.
LEMMA ScrollLevel == ASSUME NEW t, Good(t) PROVE Level(t, Scroll(t))
BY DEF Good, Level, Moved, Scroll, Fields

\* What is forgotten of the drawing is not the cursor.
LEMMA ForgetGood == ASSUME NEW t, Good(t) PROVE Good(Forget(t))
<1>1. Level(t, Forget(t))
  BY DEF Good, Level, Moved, Forget, Fields
<1> QED
  BY <1>1, LevelGood

\* The first cell is on the screen at every scale.
LEMMA ClearGood ==
  ASSUME NEW t, DOMAIN t = Fields, t.scale \in Scales
  PROVE  Good(Clear(t))
<1> DEFINE u == Clear(t)
<1>1. DOMAIN u = Fields /\ u.x = 0 /\ u.y = 0 /\ u.scale = t.scale
  BY DEF Clear, Fields
<1>2. Cw(u) \in Nat /\ Cw(u) <= Width /\ Ch(u) \in Nat /\ Ch(u) <= Height
  BY <1>1, CellFits
<1> HIDE DEF u
<1>3. OnScreen(u, 0, 0)
  BY <1>2 DEF OnScreen
<1>4. Good(u)
  BY <1>1, <1>3 DEF Good
<1> QED
  BY <1>4 DEF u

\* A new line either has its row on the screen or scrolls and stays in the last.
LEMMA NewlineGood == ASSUME NEW t, Good(t) PROVE Good(fb_newline(t))
<1>1. /\ Cw(t) \in Nat \ {0} /\ Cw(t) <= Width /\ Width \in Nat
      /\ Ch(t) \in Nat \ {0} /\ Ch(t) <= Height /\ Height \in Nat
  BY CellFits DEF Good
<1>2. CASE t.y + Ch(t) + Ch(t) > Height
  <2>1. Level(t, Scroll(t))
    BY ScrollLevel
  <2>2. fb_newline(t) = [Scroll(t) EXCEPT !.x = 0]
    BY <1>2 DEF fb_newline
  <2>3. Moved(t, fb_newline(t), 0, t.y)
    BY <2>1, <2>2 DEF Level, Moved, Fields
  <2>4. OnScreen(t, 0, t.y)
    BY <1>1 DEF Good, OnScreen
  <2> QED
    BY <2>3, <2>4, MovedGood
<1>3. CASE ~(t.y + Ch(t) + Ch(t) > Height)
  <2>1. fb_newline(t) = [t EXCEPT !.x = 0, !.y = t.y + Ch(t)]
    BY <1>3 DEF fb_newline
  <2>2. Moved(t, fb_newline(t), 0, t.y + Ch(t))
    BY <2>1 DEF Good, Moved, Fields
  <2>3. OnScreen(t, 0, t.y + Ch(t))
    BY <1>1, <1>3 DEF Good, OnScreen
  <2> QED
    BY <2>2, <2>3, MovedGood
<1> QED
  BY <1>2, <1>3

\* The next cell, wrapped and scrolled, is on the screen.
LEMMA AdvanceGood == ASSUME NEW t, Good(t) PROVE Good(Advance(t))
<1>1. Cw(t) \in Nat \ {0} /\ Width \in Nat
  BY CellFits DEF Good
<1>2. CASE t.x + Cw(t) + Cw(t) > Width
  BY <1>2, NewlineGood DEF Advance
<1>3. CASE ~(t.x + Cw(t) + Cw(t) > Width)
  <2>1. Advance(t) = [t EXCEPT !.x = t.x + Cw(t)]
    BY <1>3 DEF Advance
  <2>2. Moved(t, Advance(t), t.x + Cw(t), t.y)
    BY <2>1 DEF Good, Moved, Fields
  <2>3. OnScreen(t, t.x + Cw(t), t.y)
    BY <1>1, <1>3 DEF Good, OnScreen
  <2> QED
    BY <2>2, <2>3, MovedGood
<1> QED
  BY <1>2, <1>3

\* fb_putchar_cursor keeps the cursor on the screen, whatever the character.
LEMMA PutcharGood == ASSUME NEW t, Good(t), NEW c PROVE Good(fb_putchar_cursor(t, c))
<1>1. CASE c = NL
  BY <1>1, NewlineGood DEF fb_putchar_cursor, NL, BS
<1>2. CASE c = BS /\ t.x >= Cw(t)
  <2> DEFINE b == [t EXCEPT !.x = t.x - Cw(t)]
  <2>1. Cw(t) \in Nat \ {0} /\ Width \in Nat
    BY CellFits DEF Good
  <2>2. Moved(t, b, t.x - Cw(t), t.y)
    BY DEF Good, Moved, Fields
  <2>3. OnScreen(t, t.x - Cw(t), t.y)
    BY <1>2, <2>1 DEF Good, OnScreen
  <2>4. Good(b)
    BY <2>2, <2>3, MovedGood
  <2>5. Good(Draw(b, SPACE))
    BY <2>4, DrawLevel, LevelGood
  <2>6. fb_putchar_cursor(t, c) = Draw(b, SPACE)
    <3>1. c # NL
      BY <1>2 DEF NL, BS
    <3>2. ~(t.x < Cw(t))
      BY <1>2, <2>1 DEF Good, OnScreen
    <3> QED
      BY <1>2, <3>1, <3>2, Zenon DEF fb_putchar_cursor
  <2> QED
    BY <2>5, <2>6
<1>3. CASE c = BS /\ ~(t.x >= Cw(t))
  <2>1. t.x < Cw(t)
    BY <1>3, CellFits DEF Good, OnScreen
  <2> QED
    BY <1>3, <2>1 DEF fb_putchar_cursor, NL, BS
<1>4. CASE c # NL /\ c # BS
  <2>1. Good(Draw(t, c))
    BY DrawLevel, LevelGood
  <2>2. fb_putchar_cursor(t, c) = Advance(Draw(t, c))
    BY <1>4 DEF fb_putchar_cursor
  <2> QED
    BY <2>1, <2>2, AdvanceGood
<1> QED
  BY <1>1, <1>2, <1>3, <1>4

\* The decoder moves the cursor only through fb_putchar_cursor.
LEMMA EscByteLevel == ASSUME NEW t, Good(t), NEW b PROVE Level(t, EscByte(t, b))
<1>1. CASE t.esc = 1
  <2>1. EscByte(t, b) = [t EXCEPT !.esc = IF b = BRACKET THEN 2 ELSE 0, !.escbuf = <<>>]
    BY <1>1 DEF EscByte
  <2> QED
    BY <2>1 DEF Good, Level, Moved, Fields
<1>2. CASE t.esc = 2 /\ b \in Digits \cup {SEMI}
  <2>1. \/ EscByte(t, b) = [t EXCEPT !.escbuf = Append(t.escbuf, b)]
        \/ EscByte(t, b) = t
    <3>1. b # LETTERM
      BY <1>2 DEF LETTERM, Digits, SEMI
    <3> QED
      BY <1>2, <3>1 DEF EscByte
  <2> QED
    BY <2>1 DEF Good, Level, Moved, Fields
<1>3. CASE t.esc = 2 /\ b = LETTERM
  <2>1. b \notin Digits \cup {SEMI}
    BY <1>3 DEF LETTERM, Digits, SEMI
  <2>2. EscByte(t, b) = [t EXCEPT !.fg = handle_ansi(t), !.esc = 0, !.escbuf = <<>>]
    BY <1>3, <2>1 DEF EscByte
  <2> QED
    BY <2>2 DEF Good, Level, Moved, Fields
<1>4. CASE t.esc # 1 /\ ~(t.esc = 2 /\ b \in Digits \cup {SEMI}) /\ ~(t.esc = 2 /\ b = LETTERM)
  <2>1. EscByte(t, b) = [t EXCEPT !.esc = 0, !.escbuf = <<>>]
    BY <1>4 DEF EscByte
  <2> QED
    BY <2>1 DEF Good, Level, Moved, Fields
<1> QED
  BY <1>1, <1>2, <1>3, <1>4

\* A byte that goes on with a character keeps the cursor on the screen.
LEMMA ContinuedGood == ASSUME NEW t, Good(t), NEW b PROVE Good(Continued(t, b))
<1> DEFINE cp == t.cp * 64 + (b % 64)
           u  == [t EXCEPT !.cp = 0, !.left = 0]
<1>1. CASE t.left = 0
  BY <1>1 DEF Continued
<1>2. CASE t.left = 1
  <2>1. Level(t, u)
    BY DEF Good, Level, Moved, Fields
  <2>2. Good(u)
    BY <2>1, LevelGood
  <2>3. Continued(t, b) = fb_putchar_cursor(u, IF cp < 128 THEN cp ELSE QUESTION)
    BY <1>2 DEF Continued
  <2> QED
    BY <2>2, <2>3, PutcharGood
<1>3. CASE t.left # 0 /\ t.left # 1
  <2>1. Continued(t, b) = [t EXCEPT !.cp = cp, !.left = @ - 1]
    BY <1>3 DEF Continued
  <2>2. Level(t, Continued(t, b))
    BY <2>1 DEF Good, Level, Moved, Fields
  <2> QED
    BY <2>2, LevelGood
<1> QED
  BY <1>1, <1>2, <1>3

\* A byte that begins a character does not move the cursor.
LEMMA LeadLevel == ASSUME NEW t, Good(t), NEW b PROVE Level(t, Lead(t, b))
<1>1. \/ Lead(t, b) = [t EXCEPT !.cp = b % 8, !.left = 3]
      \/ Lead(t, b) = [t EXCEPT !.cp = b % 16, !.left = 2]
      \/ Lead(t, b) = [t EXCEPT !.cp = b % 32, !.left = 1]
  BY DEF Lead
<1> QED
  BY <1>1 DEF Good, Level, Moved, Fields

\* So the UTF-8 decoder as a whole keeps it there.
LEMMA Utf8Good ==
  ASSUME NEW t, Good(t), NEW b \in Int
  PROVE  Good(fb_putchar_cursor_utf8(t, b))
<1>1. CASE t.esc # 0
  <2>1. fb_putchar_cursor_utf8(t, b) = EscByte(t, b)
    BY <1>1 DEF fb_putchar_cursor_utf8
  <2> QED
    BY <2>1, EscByteLevel, LevelGood
<1>2. CASE t.esc = 0 /\ b = ESC
  <2>1. fb_putchar_cursor_utf8(t, b) = [t EXCEPT !.esc = 1]
    BY <1>2 DEF fb_putchar_cursor_utf8, ESC
  <2>2. Level(t, [t EXCEPT !.esc = 1])
    BY DEF Good, Level, Moved, Fields
  <2> QED
    BY <2>1, <2>2, LevelGood
<1>3. CASE t.esc = 0 /\ b < 128 /\ b # ESC
  <2> DEFINE u == [t EXCEPT !.cp = 0, !.left = 0]
  <2>1. Level(t, u)
    BY DEF Good, Level, Moved, Fields
  <2>2. Good(u)
    BY <2>1, LevelGood
  <2>3. fb_putchar_cursor_utf8(t, b) = fb_putchar_cursor(u, b)
    BY <1>3 DEF fb_putchar_cursor_utf8
  <2> QED
    BY <2>2, <2>3, PutcharGood
<1>4. CASE t.esc = 0 /\ b >= 192
  <2>1. fb_putchar_cursor_utf8(t, b) = Lead(t, b)
    BY <1>4 DEF fb_putchar_cursor_utf8, ESC
  <2> QED
    BY <2>1, LeadLevel, LevelGood
<1>5. CASE t.esc = 0 /\ b # ESC /\ ~(b < 128) /\ ~(b >= 192)
  <2>1. fb_putchar_cursor_utf8(t, b) = Continued(t, b)
    BY <1>5 DEF fb_putchar_cursor_utf8
  <2> QED
    BY <2>1, ContinuedGood
<1> QED
  BY <1>1, <1>2, <1>3, <1>4, <1>5

\* A change of scale leaves the cursor where the old scale put it: what makes it
\* good again is the clearing that follows.
LEMMA RescaledGood ==
  ASSUME NEW t, Good(t), NEW c
  PROVE  Good(Clear(Rescaled(t, c)))
<1> DEFINE n == IF c = 45 THEN IF t.scale > 1 THEN t.scale - 1 ELSE t.scale
                          ELSE IF t.scale < MaxScale THEN t.scale + 1 ELSE t.scale
           r == [t EXCEPT !.scale = n]
<1>1. Rescaled(t, c) = r
  BY DEF Rescaled
<1>2. n \in Scales
  BY MaxScalePositive DEF Good, Scales
<1> HIDE DEF n
<1>3. DOMAIN r = Fields /\ r.scale \in Scales
  BY <1>2 DEF Good, Fields
<1> QED
  BY <1>1, <1>3, ClearGood

\* The invariant: CursorOnScreen, of a record that has a terminal's fields.
LEMMA GoodInv == ASSUME Good(term) PROVE CursorOnScreen
BY DEF Good, OnScreen, CursorOnScreen

\* fb_init puts the cursor on the screen.
LEMMA InitGood == ASSUME Init PROVE Good(term)
<1>1. DOMAIN term = Fields /\ term.x = 0 /\ term.y = 0 /\ term.scale = 1
  BY DEF Init, Fields
<1>2. term.scale \in Scales
  BY <1>1, MaxScalePositive DEF Scales
<1>3. OnScreen(term, 0, 0)
  BY <1>2, CellFits DEF OnScreen
<1> QED
  BY <1>1, <1>2, <1>3 DEF Good

\* SYS_PUTS, SYS_PUTCHAR and SYS_CLEAR keep the cursor on the screen.
LEMMA PrintingGood ==
  ASSUME Good(term), Printing
  PROVE  Good(term')
<1>1. ASSUME NEW b \in Bytes, SysPuts(b) PROVE Good(term')
  <2>1. Good(fb_putchar_cursor_utf8(term, b))
    BY Utf8Good, ConsoleAssumption
  <2> QED
    BY <1>1, <2>1, ForgetGood DEF SysPuts
<1>2. ASSUME NEW b \in Bytes, SysPutchar(b) PROVE Good(term')
  <2>1. Good(fb_putchar_cursor(term, b))
    BY PutcharGood
  <2> QED
    BY <1>2, <2>1, ForgetGood DEF SysPutchar
<1>3. CASE SysClear
  <2>1. DOMAIN term = Fields /\ term.scale \in Scales
    BY DEF Good
  <2> QED
    BY <1>3, <2>1, ClearGood DEF SysClear
<1> QED
  BY <1>1, <1>2, <1>3 DEF Printing

\* So does a key, as kb_getchar and its callers take it, zooms included.
LEMMA KeyGood ==
  ASSUME Good(term), NEW sc, Key(sc)
  PROVE  Good(term')
<1>1. CASE KeyHeld(sc)
  BY <1>1 DEF KeyHeld
<1>2. CASE KeyIgnored(sc)
  BY <1>2 DEF KeyIgnored, vars
<1>3. CASE KeyZoom(sc)
  BY <1>3, RescaledGood DEF KeyZoom
<1>4. CASE GetcharReturns(sc)
  BY <1>4 DEF GetcharReturns
<1>5. CASE GetsNewline(sc)
  <2>1. Good(fb_putchar_cursor(term, NL))
    BY PutcharGood
  <2> QED
    BY <1>5, <2>1, ForgetGood DEF GetsNewline
<1>6. CASE GetsBackspace(sc)
  <2>1. Good(fb_putchar_cursor(term, BS))
    BY PutcharGood
  <2> QED
    BY <1>6, <2>1 DEF GetsBackspace
<1>7. CASE GetsStore(sc)
  BY <1>7, PutcharGood DEF GetsStore
<1> QED
  BY <1>1, <1>2, <1>3, <1>4, <1>5, <1>6, <1>7, Zenon DEF Key

\* So does every step.
LEMMA NextGood ==
  ASSUME Good(term), [Next]_vars
  PROVE  Good(term')
<1>1. CASE Printing
  BY <1>1, PrintingGood
<1>2. CASE Reading
  <2>1. CASE SysGetchar
    BY <2>1 DEF SysGetchar
  <2>2. ASSUME NEW max \in Sizes, SysGets(max) PROVE Good(term')
    BY <2>2 DEF SysGets
  <2>3. CASE GetsFull
    BY <2>3, ForgetGood DEF GetsFull
  <2>4. ASSUME NEW sc \in ScanCodes, Key(sc) PROVE Good(term')
    BY <2>4, KeyGood
  <2> QED
    BY <1>2, <2>1, <2>2, <2>3, <2>4 DEF Reading
<1>3. CASE UNCHANGED vars
  BY <1>3 DEF vars
<1> QED
  BY <1>1, <1>2, <1>3 DEF Next

\* The cell under the cursor is on the screen, whatever is printed and typed: the
\* drawing and scrolling code never reaches outside the framebuffer.
THEOREM CursorStaysOnScreen == Spec => []CursorOnScreen
<1>1. Good(term) /\ [Next]_vars => Good(term)'
  BY NextGood
<1>2. Init => Good(term)
  BY InitGood
<1>3. Good(term) => CursorOnScreen
  BY GoodInv
<1> QED
  BY <1>1, <1>2, <1>3, PTL DEF Spec

--------------------------------------------------------------------------------
(* Induction, and the folds of the model, step by step.                          *)
\* A set of numbers has a least one.
LEMMA LeastNat ==
  ASSUME NEW T \in SUBSET Nat, T # {}
  PROVE  \E x \in T : \A y \in T : x <= y
<1>1. PICK x \in T : \A y \in T : ~(<<y, x>> \in OpToRel(<, Nat))
  BY NatLessThanWellFounded, WFMin
<1>2. \A y \in T : ~(y < x)
  BY <1>1 DEF OpToRel
<1> QED BY <1>2

\* What holds of 0 and goes on from each number to the next holds up to n.
LEMMA UpTo ==
  ASSUME NEW n \in Nat, NEW T, 0 \in T, \A i \in 1 .. n : i - 1 \in T => i \in T
  PROVE  \A i \in 0 .. n : i \in T
<1> DEFINE Bad == {i \in 0 .. n : i \notin T}
<1> SUFFICES ASSUME Bad # {} PROVE FALSE
  OBVIOUS
<1>1. PICK x \in Bad : \A y \in Bad : x <= y
  <2>1. Bad \in SUBSET Nat
    OBVIOUS
  <2> QED BY <2>1, LeastNat
<1>2. x \in 1 .. n /\ x - 1 \in 0 .. n
  BY <1>1
<1>3. x - 1 \in T
  BY <1>1, <1>2
<1> QED BY <1>1, <1>2, <1>3

\* What handle_ansi makes of its bytes, byte by byte.
LEMMA AnsiRun ==
  ASSUME NEW t, NEW s, Len(s) \in Nat
  PROVE  \E f : /\ f[0] = t /\ \A i \in 1 .. Len(s) : f[i] = AnsiStep(f[i - 1], s[i])
                /\ AnsiBytes(t, s) = f[Len(s)]
<1> DEFINE n == Len(s)
           Goes(h, k) == h = [i \in 0 .. k |-> IF i = 0 THEN t ELSE AnsiStep(h[i - 1], s[i])]
           T == {k \in 0 .. n : \E h : Goes(h, k)}
           u == CHOOSE h : Goes(h, n)
<1>1. n \in Nat
  OBVIOUS
<1>2. 0 \in T
  <2>1. Goes([i \in 0 .. 0 |-> t], 0)
    OBVIOUS
  <2> HIDE DEF Goes
  <2> QED BY <1>1, <2>1
<1>3. ASSUME NEW k \in 1 .. n, k - 1 \in T PROVE k \in T
  <2>1. PICK h : Goes(h, k - 1)
    BY <1>3
  <2> DEFINE e == [i \in 0 .. k |-> IF i = 0 THEN t
                                   ELSE IF i < k THEN h[i] ELSE AnsiStep(h[k - 1], s[k])]
  <2>2. k - 1 \in 0 .. (k - 1) /\ k \in Nat /\ k # 0
    BY <1>1
  <2>3. \A i \in 0 .. (k - 1) : h[i] = IF i = 0 THEN t ELSE AnsiStep(h[i - 1], s[i])
    BY <2>1
  <2>4. \A i \in 0 .. (k - 1) : e[i] = h[i]
    BY <2>2, <2>3
  <2>5. ASSUME NEW i \in 0 .. k
        PROVE  e[i] = IF i = 0 THEN t ELSE AnsiStep(e[i - 1], s[i])
    <3>1. CASE i = 0
      BY <2>2, <3>1
    <3>2. CASE i # 0 /\ i < k
      <4>1. i \in 0 .. (k - 1) /\ i - 1 \in 0 .. (k - 1)
        BY <2>2, <3>2
      <4>2. e[i] = h[i] /\ e[i - 1] = h[i - 1]
        BY <2>4, <4>1
      <4> HIDE DEF e
      <4> QED BY <2>3, <3>2, <4>1, <4>2
    <3>3. CASE i = k
      <4>1. e[k] = AnsiStep(h[k - 1], s[k])
        BY <2>2
      <4>2. e[k - 1] = h[k - 1]
        BY <2>2, <2>4
      <4> HIDE DEF e
      <4> QED BY <2>2, <3>3, <4>1, <4>2
    <3> QED BY <2>2, <3>1, <3>2, <3>3
  <2>6. e = [i \in 0 .. k |-> e[i]]
    OBVIOUS
  <2> HIDE DEF e
  <2>7. Goes(e, k)
    BY <2>5, <2>6
  <2> QED BY <1>1, <2>7
<1>4. n \in T
  <2> HIDE DEF T, n
  <2>1. \A k \in 0 .. n : k \in T
    BY <1>1, <1>2, <1>3, UpTo
  <2> QED BY <1>1, <2>1
<1>5. Goes(u, n)
  BY <1>4
<1>6. AnsiBytes(t, s) = u[n]
  BY DEF AnsiBytes
<1> HIDE DEF u
<1>7. \A i \in 0 .. n : u[i] = IF i = 0 THEN t ELSE AnsiStep(u[i - 1], s[i])
  BY <1>5
<1>8. 0 \in 0 .. n /\ \A i \in 1 .. n : i \in 0 .. n /\ i # 0
  BY <1>1
<1> HIDE DEF Goes, n
<1>9. u[0] = t /\ \A i \in 1 .. n : u[i] = AnsiStep(u[i - 1], s[i])
  BY <1>7, <1>8
<1> QED BY <1>6, <1>9 DEF n

\* What the decoder makes of bytes, byte by byte.
LEMMA DecodedRun ==
  ASSUME NEW t, NEW s, Len(s) \in Nat
  PROVE  \E f : /\ f[0] = t /\ \A i \in 1 .. Len(s) : f[i] = fb_putchar_cursor_utf8(f[i - 1], s[i])
                /\ Decoded(t, s) = f[Len(s)]
<1> DEFINE n == Len(s)
           Goes(h, k) == h = [i \in 0 .. k |->
                                IF i = 0 THEN t ELSE fb_putchar_cursor_utf8(h[i - 1], s[i])]
           T == {k \in 0 .. n : \E h : Goes(h, k)}
           u == CHOOSE h : Goes(h, n)
<1>1. n \in Nat
  OBVIOUS
<1>2. 0 \in T
  <2>1. Goes([i \in 0 .. 0 |-> t], 0)
    OBVIOUS
  <2> HIDE DEF Goes
  <2> QED BY <1>1, <2>1
<1>3. ASSUME NEW k \in 1 .. n, k - 1 \in T PROVE k \in T
  <2>1. PICK h : Goes(h, k - 1)
    BY <1>3
  <2> DEFINE e == [i \in 0 .. k |-> IF i = 0 THEN t
                                   ELSE IF i < k THEN h[i]
                                   ELSE fb_putchar_cursor_utf8(h[k - 1], s[k])]
  <2>2. k - 1 \in 0 .. (k - 1) /\ k \in Nat /\ k # 0
    BY <1>1
  <2>3. \A i \in 0 .. (k - 1) : h[i] = IF i = 0 THEN t ELSE fb_putchar_cursor_utf8(h[i - 1], s[i])
    BY <2>1
  <2>4. \A i \in 0 .. (k - 1) : e[i] = h[i]
    BY <2>2, <2>3
  <2>5. ASSUME NEW i \in 0 .. k
        PROVE  e[i] = IF i = 0 THEN t ELSE fb_putchar_cursor_utf8(e[i - 1], s[i])
    <3>1. CASE i = 0
      BY <2>2, <3>1
    <3>2. CASE i # 0 /\ i < k
      <4>1. i \in 0 .. (k - 1) /\ i - 1 \in 0 .. (k - 1)
        BY <2>2, <3>2
      <4>2. e[i] = h[i] /\ e[i - 1] = h[i - 1]
        BY <2>4, <4>1
      <4> HIDE DEF e
      <4> QED BY <2>3, <3>2, <4>1, <4>2
    <3>3. CASE i = k
      <4>1. e[k] = fb_putchar_cursor_utf8(h[k - 1], s[k])
        BY <2>2
      <4>2. e[k - 1] = h[k - 1]
        BY <2>2, <2>4
      <4> HIDE DEF e
      <4> QED BY <2>2, <3>3, <4>1, <4>2
    <3> QED BY <2>2, <3>1, <3>2, <3>3
  <2>6. e = [i \in 0 .. k |-> e[i]]
    OBVIOUS
  <2> HIDE DEF e
  <2>7. Goes(e, k)
    BY <2>5, <2>6
  <2> QED BY <1>1, <2>7
<1>4. n \in T
  <2> HIDE DEF T, n
  <2>1. \A k \in 0 .. n : k \in T
    BY <1>1, <1>2, <1>3, UpTo
  <2> QED BY <1>1, <2>1
<1>5. Goes(u, n)
  BY <1>4
<1>6. Decoded(t, s) = u[n]
  BY DEF Decoded
<1> HIDE DEF u
<1>7. \A i \in 0 .. n : u[i] = IF i = 0 THEN t ELSE fb_putchar_cursor_utf8(u[i - 1], s[i])
  BY <1>5
<1>8. 0 \in 0 .. n /\ \A i \in 1 .. n : i \in 0 .. n /\ i # 0
  BY <1>1
<1> HIDE DEF Goes, n
<1>9. u[0] = t /\ \A i \in 1 .. n : u[i] = fb_putchar_cursor_utf8(u[i - 1], s[i])
  BY <1>7, <1>8
<1> QED BY <1>6, <1>9 DEF n

\* What it makes of a text, item by item.
LEMMA BytesRun ==
  ASSUME NEW t, NEW s, Len(s) \in Nat
  PROVE  \E f : /\ f[0] = t /\ \A i \in 1 .. Len(s) : f[i] = Decoded(f[i - 1], Encoded(s[i]))
                /\ AsBytes(t, s) = f[Len(s)]
<1> DEFINE n == Len(s)
           Goes(h, k) == h = [i \in 0 .. k |->
                                IF i = 0 THEN t ELSE Decoded(h[i - 1], Encoded(s[i]))]
           T == {k \in 0 .. n : \E h : Goes(h, k)}
           u == CHOOSE h : Goes(h, n)
<1>1. n \in Nat
  OBVIOUS
<1>2. 0 \in T
  <2>1. Goes([i \in 0 .. 0 |-> t], 0)
    OBVIOUS
  <2> HIDE DEF Goes
  <2> QED BY <1>1, <2>1
<1>3. ASSUME NEW k \in 1 .. n, k - 1 \in T PROVE k \in T
  <2>1. PICK h : Goes(h, k - 1)
    BY <1>3
  <2> DEFINE e == [i \in 0 .. k |-> IF i = 0 THEN t
                                   ELSE IF i < k THEN h[i] ELSE Decoded(h[k - 1], Encoded(s[k]))]
  <2>2. k - 1 \in 0 .. (k - 1) /\ k \in Nat /\ k # 0
    BY <1>1
  <2>3. \A i \in 0 .. (k - 1) : h[i] = IF i = 0 THEN t ELSE Decoded(h[i - 1], Encoded(s[i]))
    BY <2>1
  <2>4. \A i \in 0 .. (k - 1) : e[i] = h[i]
    BY <2>2, <2>3
  <2>5. ASSUME NEW i \in 0 .. k
        PROVE  e[i] = IF i = 0 THEN t ELSE Decoded(e[i - 1], Encoded(s[i]))
    <3>1. CASE i = 0
      BY <2>2, <3>1
    <3>2. CASE i # 0 /\ i < k
      <4>1. i \in 0 .. (k - 1) /\ i - 1 \in 0 .. (k - 1)
        BY <2>2, <3>2
      <4>2. e[i] = h[i] /\ e[i - 1] = h[i - 1]
        BY <2>4, <4>1
      <4> HIDE DEF e
      <4> QED BY <2>3, <3>2, <4>1, <4>2
    <3>3. CASE i = k
      <4>1. e[k] = Decoded(h[k - 1], Encoded(s[k]))
        BY <2>2
      <4>2. e[k - 1] = h[k - 1]
        BY <2>2, <2>4
      <4> HIDE DEF e
      <4> QED BY <2>2, <3>3, <4>1, <4>2
    <3> QED BY <2>2, <3>1, <3>2, <3>3
  <2>6. e = [i \in 0 .. k |-> e[i]]
    OBVIOUS
  <2> HIDE DEF e
  <2>7. Goes(e, k)
    BY <2>5, <2>6
  <2> QED BY <1>1, <2>7
<1>4. n \in T
  <2> HIDE DEF T, n
  <2>1. \A k \in 0 .. n : k \in T
    BY <1>1, <1>2, <1>3, UpTo
  <2> QED BY <1>1, <2>1
<1>5. Goes(u, n)
  BY <1>4
<1>6. AsBytes(t, s) = u[n]
  BY DEF AsBytes
<1> HIDE DEF u
<1>7. \A i \in 0 .. n : u[i] = IF i = 0 THEN t ELSE Decoded(u[i - 1], Encoded(s[i]))
  BY <1>5
<1>8. 0 \in 0 .. n /\ \A i \in 1 .. n : i \in 0 .. n /\ i # 0
  BY <1>1
<1> HIDE DEF Goes, n
<1>9. u[0] = t /\ \A i \in 1 .. n : u[i] = Decoded(u[i - 1], Encoded(s[i]))
  BY <1>7, <1>8
<1> QED BY <1>6, <1>9 DEF n

\* What is meant by a text, item by item.
LEMMA MeantRun ==
  ASSUME NEW t, NEW s, Len(s) \in Nat
  PROVE  \E f : /\ f[0] = t /\ \A i \in 1 .. Len(s) : f[i] = Meant(f[i - 1], s[i])
                /\ AsMeant(t, s) = f[Len(s)]
<1> DEFINE n == Len(s)
           Goes(h, k) == h = [i \in 0 .. k |-> IF i = 0 THEN t ELSE Meant(h[i - 1], s[i])]
           T == {k \in 0 .. n : \E h : Goes(h, k)}
           u == CHOOSE h : Goes(h, n)
<1>1. n \in Nat
  OBVIOUS
<1>2. 0 \in T
  <2>1. Goes([i \in 0 .. 0 |-> t], 0)
    OBVIOUS
  <2> HIDE DEF Goes
  <2> QED BY <1>1, <2>1
<1>3. ASSUME NEW k \in 1 .. n, k - 1 \in T PROVE k \in T
  <2>1. PICK h : Goes(h, k - 1)
    BY <1>3
  <2> DEFINE e == [i \in 0 .. k |-> IF i = 0 THEN t
                                   ELSE IF i < k THEN h[i] ELSE Meant(h[k - 1], s[k])]
  <2>2. k - 1 \in 0 .. (k - 1) /\ k \in Nat /\ k # 0
    BY <1>1
  <2>3. \A i \in 0 .. (k - 1) : h[i] = IF i = 0 THEN t ELSE Meant(h[i - 1], s[i])
    BY <2>1
  <2>4. \A i \in 0 .. (k - 1) : e[i] = h[i]
    BY <2>2, <2>3
  <2>5. ASSUME NEW i \in 0 .. k
        PROVE  e[i] = IF i = 0 THEN t ELSE Meant(e[i - 1], s[i])
    <3>1. CASE i = 0
      BY <2>2, <3>1
    <3>2. CASE i # 0 /\ i < k
      <4>1. i \in 0 .. (k - 1) /\ i - 1 \in 0 .. (k - 1)
        BY <2>2, <3>2
      <4>2. e[i] = h[i] /\ e[i - 1] = h[i - 1]
        BY <2>4, <4>1
      <4> HIDE DEF e
      <4> QED BY <2>3, <3>2, <4>1, <4>2
    <3>3. CASE i = k
      <4>1. e[k] = Meant(h[k - 1], s[k])
        BY <2>2
      <4>2. e[k - 1] = h[k - 1]
        BY <2>2, <2>4
      <4> HIDE DEF e
      <4> QED BY <2>2, <3>3, <4>1, <4>2
    <3> QED BY <2>2, <3>1, <3>2, <3>3
  <2>6. e = [i \in 0 .. k |-> e[i]]
    OBVIOUS
  <2> HIDE DEF e
  <2>7. Goes(e, k)
    BY <2>5, <2>6
  <2> QED BY <1>1, <2>7
<1>4. n \in T
  <2> HIDE DEF T, n
  <2>1. \A k \in 0 .. n : k \in T
    BY <1>1, <1>2, <1>3, UpTo
  <2> QED BY <1>1, <2>1
<1>5. Goes(u, n)
  BY <1>4
<1>6. AsMeant(t, s) = u[n]
  BY DEF AsMeant
<1> HIDE DEF u
<1>7. \A i \in 0 .. n : u[i] = IF i = 0 THEN t ELSE Meant(u[i - 1], s[i])
  BY <1>5
<1>8. 0 \in 0 .. n /\ \A i \in 1 .. n : i \in 0 .. n /\ i # 0
  BY <1>1
<1> HIDE DEF Goes, n
<1>9. u[0] = t /\ \A i \in 1 .. n : u[i] = Meant(u[i - 1], s[i])
  BY <1>7, <1>8
<1> QED BY <1>6, <1>9 DEF n

\* A line without its last character.
LEMMA FrontFacts ==
  ASSUME NEW s \in Seq(Nat), s # <<>>
  PROVE  /\ Len(s) \in Nat \ {0} /\ Front(s) \in Seq(Nat) /\ Len(Front(s)) = Len(s) - 1
         /\ Len(Front(s)) < Len(s) /\ \A i \in 1 .. (Len(s) - 1) : Front(s)[i] = s[i]
<1> DEFINE n == Len(s)
<1>1. n \in Nat \ {0}
  BY EmptySeq
<1>2. PICK f : f = Front(s)
  OBVIOUS
<1>3. f = SubSeq(s, 1, n - 1)
  BY <1>2 DEF Front
<1>4. 1 \in Int /\ n - 1 \in Int /\ \A i \in 1 .. (n - 1) : s[i] \in Nat
  BY <1>1
<1> HIDE DEF n
<1>5. /\ f \in Seq(Nat) /\ Len(f) = IF 1 <= n - 1 THEN n - 1 - 1 + 1 ELSE 0
      /\ \A i \in 1 .. (n - 1 - 1 + 1) : f[i] = s[1 + i - 1]
  BY <1>3, <1>4, SubSeqProperties
<1>6. ASSUME NEW i \in 1 .. (n - 1) PROVE f[i] = s[i]
  <2>1. i \in 1 .. (n - 1 - 1 + 1) /\ 1 + i - 1 = i
    BY <1>1
  <2> QED BY <1>5, <2>1
<1>7. Len(f) = n - 1 /\ n - 1 < n
  BY <1>1, <1>5
<1> QED BY <1>1, <1>2, <1>5, <1>6, <1>7 DEF n

--------------------------------------------------------------------------------
(* The line of SYS_GETS. Columns are multiples of the width of a cell.            *)
Column(t, a) == \E j \in Nat : a = j * Cw(t)
Cells(t)     == \A xy \in DOMAIN t.drawn : xy \in Nat \X Nat /\ Column(t, xy[1])
Grid(t)      == Column(t, t.x) /\ Cells(t)

\* The decoder's state, and esc_buf within its bounds.
Decoder(t) ==
  /\ t.fg \in 30 .. 37 /\ t.esc \in 0 .. 2 /\ t.left \in 0 .. 3 /\ t.cp \in Nat
  /\ t.escbuf \in Seq(Nat) /\ Len(t.escbuf) <= EscMax

\* What drawing does not touch.
Kept(t, u) ==
  /\ DOMAIN u = Fields /\ u.scale = t.scale /\ u.fg = t.fg /\ u.esc = t.esc
  /\ u.escbuf = t.escbuf /\ u.left = t.left /\ u.cp = t.cp

\* Terminals of one scale have the same columns.
LEMMA SameColumns ==
  ASSUME NEW t, NEW u, u.scale = t.scale
  PROVE  /\ Cw(u) = Cw(t) /\ Ch(u) = Ch(t)
         /\ \A a : Column(u, a) <=> Column(t, a)
BY DEF Cw, Ch, Column

\* The first column is one, and the next and the one before a column are.
LEMMA Columns ==
  ASSUME NEW t, t.scale \in Scales, NEW a \in Nat, Column(t, a)
  PROVE  /\ Column(t, 0) /\ Column(t, a + Cw(t))
         /\ (a >= Cw(t) => Column(t, a - Cw(t)))
         /\ (a < Cw(t) => a = 0)
<1> DEFINE c == Cw(t)
<1>1. c \in Nat \ {0}
  BY CellFits
<1>2. PICK j \in Nat : a = j * c
  BY DEF Column
<1> HIDE DEF c
<1>3. 0 = 0 * c /\ (j + 1) * c = j * c + c /\ (j - 1) * c = j * c - c
  BY <1>1
<1>4. j = 0 => a = 0
  BY <1>1, <1>2
<1>5. j # 0 => j * c >= c
  <2>1. j # 0 => (j - 1) * c >= 0
    BY <1>1
  <2> QED BY <1>1, <1>3, <2>1
<1>6. a >= c => \E k \in Nat : a - c = k * c
  <2>1. a >= c => j # 0
    BY <1>1, <1>4
  <2>2. j # 0 => j - 1 \in Nat
    OBVIOUS
  <2>3. a - c = (j - 1) * c
    BY <1>2, <1>3
  <2> QED BY <2>1, <2>2, <2>3
<1>7. \E k \in Nat : a + c = k * c
  BY <1>2, <1>3
<1>8. \E k \in Nat : 0 = k * c
  BY <1>3
<1>9. a < c => a = 0
  BY <1>1, <1>2, <1>4, <1>5
<1> QED BY <1>6, <1>7, <1>8, <1>9 DEF Column, c

\* Between a column and the next there is none.
LEMMA NoneBetween ==
  ASSUME NEW t, t.scale \in Scales, NEW a \in Nat, NEW b \in Nat, Column(t, a), Column(t, b),
         b < a + Cw(t)
  PROVE  b <= a
<1> DEFINE c == Cw(t)
<1>1. c \in Nat \ {0}
  BY CellFits
<1>2. PICK j \in Nat : a = j * c
  BY DEF Column
<1>3. PICK k \in Nat : b = k * c
  BY DEF Column
<1>4. b < a + c
  OBVIOUS
<1> HIDE DEF c
<1>5. SUFFICES ASSUME k > j PROVE FALSE
  <2>1. SUFFICES ASSUME k <= j PROVE b <= a
    BY <1>5
  <2>2. (j - k) * c >= 0
    BY <1>1, <2>1
  <2>3. (j - k) * c = j * c - k * c
    BY <1>1
  <2> QED BY <1>1, <1>2, <1>3, <2>2, <2>3
<1>6. (k - j - 1) * c >= 0
  BY <1>1, <1>5
<1>7. (k - j - 1) * c = k * c - j * c - c
  BY <1>1
<1> QED BY <1>1, <1>2, <1>3, <1>4, <1>6, <1>7

\* A cell that is drawn has its picture, the others keep theirs.
LEMMA DrawFacts ==
  ASSUME NEW t, Good(t), NEW c
  PROVE  LET u == Draw(t, c)
         IN  /\ Kept(t, u) /\ u.x = t.x /\ u.y = t.y
             /\ DOMAIN u.drawn = DOMAIN t.drawn \cup {<<t.x, t.y>>}
             /\ u.drawn[<<t.x, t.y>>] = <<Glyph(c), t.fg>>
             /\ \A xy \in DOMAIN t.drawn : xy # <<t.x, t.y>> => u.drawn[xy] = t.drawn[xy]
<1> DEFINE d == [xy \in DOMAIN t.drawn \cup {<<t.x, t.y>>} |->
                   IF xy = <<t.x, t.y>> THEN <<Glyph(c), t.fg>> ELSE t.drawn[xy]]
<1>1. Draw(t, c) = [t EXCEPT !.drawn = d]
  BY DEF Draw
<1>2. /\ DOMAIN d = DOMAIN t.drawn \cup {<<t.x, t.y>>}
      /\ d[<<t.x, t.y>>] = <<Glyph(c), t.fg>>
      /\ \A xy \in DOMAIN t.drawn : xy # <<t.x, t.y>> => d[xy] = t.drawn[xy]
  OBVIOUS
<1> HIDE DEF d
<1>3. Kept(t, Draw(t, c)) /\ Draw(t, c).x = t.x /\ Draw(t, c).y = t.y /\ Draw(t, c).drawn = d
  BY <1>1 DEF Good, Kept, Fields
<1> QED BY <1>2, <1>3

\* Cells that were drawn stay in their columns.
LEMMA DrawGrid ==
  ASSUME NEW t, Good(t), Grid(t), NEW c
  PROVE  Grid(Draw(t, c))
<1>1. PICK u : u = Draw(t, c)
  OBVIOUS
<1>2. /\ Kept(t, u) /\ u.x = t.x /\ u.y = t.y
      /\ DOMAIN u.drawn = DOMAIN t.drawn \cup {<<t.x, t.y>>}
  BY <1>1, DrawFacts
<1>3. \A a : Column(u, a) <=> Column(t, a)
  BY <1>2, SameColumns DEF Kept
<1>4. <<t.x, t.y>> \in Nat \X Nat /\ <<t.x, t.y>>[1] = t.x
  BY DEF Good, OnScreen
<1> QED BY <1>1, <1>2, <1>3, <1>4 DEF Grid, Cells

\* Scrolling moves cells up their columns.
LEMMA ScrollFacts ==
  ASSUME NEW t, Good(t), Grid(t)
  PROVE  LET u == Scroll(t) IN Kept(t, u) /\ u.x = t.x /\ u.y = t.y /\ Grid(u)
<1> DEFINE D == {<<q[1], q[2] - Ch(t)>> : q \in {r \in DOMAIN t.drawn : r[2] >= Ch(t)}}
           d == [xy \in D |-> t.drawn[<<xy[1], xy[2] + Ch(t)>>]]
<1>1. Scroll(t) = [t EXCEPT !.drawn = d]
  BY DEF Scroll
<1>2. DOMAIN d = D
  OBVIOUS
<1>3. PICK u : u = Scroll(t)
  OBVIOUS
<1> HIDE DEF d
<1>4. Kept(t, u) /\ u.x = t.x /\ u.y = t.y /\ u.drawn = d
  BY <1>1, <1>3 DEF Good, Kept, Fields
<1>5. \A a : Column(u, a) <=> Column(t, a)
  BY <1>4, SameColumns DEF Kept
<1>6. ASSUME NEW xy \in D PROVE xy \in Nat \X Nat /\ Column(t, xy[1])
  <2>1. PICK q \in DOMAIN t.drawn : q[2] >= Ch(t) /\ xy = <<q[1], q[2] - Ch(t)>>
    BY <1>6
  <2>2. q \in Nat \X Nat /\ Column(t, q[1])
    BY DEF Grid, Cells
  <2>3. Ch(t) \in Nat
    BY CellFits DEF Good
  <2>4. q[1] \in Nat /\ q[2] - Ch(t) \in Nat /\ xy[1] = q[1]
    BY <2>1, <2>2, <2>3
  <2> QED BY <2>1, <2>2, <2>4
<1> HIDE DEF D
<1>7. Column(u, u.x)
  BY <1>4, <1>5 DEF Grid
<1>8. \A xy \in DOMAIN u.drawn : xy \in Nat \X Nat /\ Column(u, xy[1])
  BY <1>2, <1>4, <1>5, <1>6
<1>9. Grid(u)
  BY <1>7, <1>8 DEF Grid, Cells
<1> QED BY <1>3, <1>4, <1>9

\* A new line begins in the first column.
LEMMA NewlineFacts ==
  ASSUME NEW t, Good(t), Grid(t)
  PROVE  LET u == fb_newline(t) IN Kept(t, u) /\ u.x = 0 /\ Grid(u)
<1>1. PICK u : u = fb_newline(t)
  OBVIOUS
<1>2. PICK s : Kept(t, s) /\ Grid(s) /\ u.x = 0 /\ Kept(s, u) /\ u.drawn = s.drawn
  <2>1. CASE t.y + Ch(t) + Ch(t) > Height
    <3>1. PICK s : s = Scroll(t)
      OBVIOUS
    <3>2. Kept(t, s) /\ Grid(s)
      BY <3>1, ScrollFacts
    <3>3. u = [s EXCEPT !.x = 0]
      BY <1>1, <2>1, <3>1 DEF fb_newline
    <3>4. u.x = 0 /\ Kept(s, u) /\ u.drawn = s.drawn
      BY <3>2, <3>3 DEF Kept, Fields
    <3> QED BY <3>2, <3>4
  <2>2. CASE ~(t.y + Ch(t) + Ch(t) > Height)
    <3>1. u = [t EXCEPT !.x = 0, !.y = t.y + Ch(t)]
      BY <1>1, <2>2 DEF fb_newline
    <3>2. u.x = 0 /\ Kept(t, u) /\ u.drawn = t.drawn /\ Kept(t, t)
      BY <3>1 DEF Good, Kept, Fields
    <3> QED BY <3>2
  <2> QED BY <2>1, <2>2
<1>3. Kept(t, u)
  BY <1>2 DEF Kept
<1>4. \A a : Column(u, a) <=> Column(s, a)
  BY <1>2, SameColumns DEF Kept
<1>5. Column(t, 0)
  BY Columns DEF Good, OnScreen, Grid
<1>6. Column(u, 0)
  BY <1>3, <1>5, SameColumns DEF Kept
<1>7. Grid(u)
  BY <1>2, <1>4, <1>6 DEF Grid, Cells
<1> QED BY <1>1, <1>2, <1>3, <1>7

\* A character that is drawn goes to the cursor's cell; the cursor goes to the next
\* cell of its row, or to the first of a new line.
LEMMA CharFacts ==
  ASSUME NEW t, Good(t), Grid(t), NEW c, c # NL, c # BS
  PROVE  LET u == fb_putchar_cursor(t, c)
             d == Draw(t, c)
         IN  /\ Kept(t, u) /\ Grid(u)
             /\ \/ u.x = 0
                \/ u.x = t.x + Cw(t) /\ u.y = t.y /\ u.drawn = d.drawn
<1>1. PICK d : d = Draw(t, c)
  OBVIOUS
<1>2. PICK u : u = fb_putchar_cursor(t, c)
  OBVIOUS
<1>3. Good(d) /\ Grid(d) /\ Kept(t, d) /\ d.x = t.x /\ d.y = t.y
  BY <1>1, DrawFacts, DrawGrid, DrawLevel, LevelGood
<1>4. u = Advance(d)
  BY <1>1, <1>2 DEF fb_putchar_cursor
<1>5. Cw(d) = Cw(t) /\ \A a : Column(d, a) <=> Column(t, a)
  BY <1>3, SameColumns DEF Kept
<1>6. CASE d.x + Cw(d) + Cw(d) > Width
  <2>1. u = fb_newline(d)
    BY <1>4, <1>6 DEF Advance
  <2>2. Kept(d, u) /\ u.x = 0 /\ Grid(u)
    BY <1>3, <2>1, NewlineFacts
  <2>3. Kept(t, u)
    BY <1>3, <2>2 DEF Kept
  <2> QED BY <1>1, <1>2, <2>2, <2>3
<1>7. CASE ~(d.x + Cw(d) + Cw(d) > Width)
  <2>1. u = [d EXCEPT !.x = d.x + Cw(d)]
    BY <1>4, <1>7 DEF Advance
  <2>2. Kept(d, u) /\ u.x = d.x + Cw(d) /\ u.y = d.y /\ u.drawn = d.drawn
    BY <1>3, <2>1 DEF Good, Kept, Fields
  <2>3. Kept(t, u)
    BY <1>3, <2>2 DEF Kept
  <2>4. d.x \in Nat /\ Column(d, d.x) /\ d.scale \in Scales
    BY <1>3 DEF Good, OnScreen, Grid
  <2>5. Column(d, d.x + Cw(d))
    BY <2>4, Columns
  <2>6. \A a : Column(u, a) <=> Column(d, a)
    BY <2>2, SameColumns DEF Kept
  <2>7. Grid(u)
    BY <1>3, <2>2, <2>5, <2>6 DEF Grid, Cells
  <2> QED BY <1>1, <1>2, <1>3, <1>5, <2>2, <2>3, <2>7
<1> QED BY <1>6, <1>7

\* A backspace rubs out the cell before the cursor, unless that is in the first column.
LEMMA BackFacts ==
  ASSUME NEW t, Good(t), Grid(t)
  PROVE  LET u == fb_putchar_cursor(t, BS)
         IN  \/ t.x = 0 /\ u = t
             \/ /\ t.x >= Cw(t) /\ Kept(t, u) /\ Grid(u) /\ u.x = t.x - Cw(t) /\ u.y = t.y
                /\ DOMAIN u.drawn = DOMAIN t.drawn \cup {<<u.x, u.y>>}
                /\ \A xy \in DOMAIN t.drawn : xy # <<u.x, u.y>> => u.drawn[xy] = t.drawn[xy]
<1>1. PICK u : u = fb_putchar_cursor(t, BS)
  OBVIOUS
<1>2. Cw(t) \in Nat \ {0} /\ t.x \in Nat /\ Column(t, t.x) /\ t.scale \in Scales
  BY CellFits DEF Good, OnScreen, Grid
<1>3. CASE t.x < Cw(t)
  <2>1. ~(t.x >= Cw(t))
    BY <1>2, <1>3
  <2>2. u = t
    BY <1>1, <1>3, <2>1 DEF fb_putchar_cursor, NL, BS
  <2>3. t.x = 0
    BY <1>2, <1>3, Columns
  <2> QED BY <1>1, <2>2, <2>3
<1>4. CASE t.x >= Cw(t)
  <2>0. ~(t.x < Cw(t)) /\ BS # NL
    BY <1>2, <1>4 DEF NL, BS
  <2>1. PICK b : b = [t EXCEPT !.x = t.x - Cw(t)]
    OBVIOUS
  <2>2. u = Draw(b, SPACE)
    BY <1>1, <1>4, <2>0, <2>1, Zenon DEF fb_putchar_cursor
  <2>3. Kept(t, b) /\ b.x = t.x - Cw(t) /\ b.y = t.y /\ b.drawn = t.drawn
    BY <2>1 DEF Good, Kept, Fields
  <2>4. \A a : Column(b, a) <=> Column(t, a)
    BY <2>3, SameColumns DEF Kept
  <2>5. Column(t, t.x - Cw(t))
    BY <1>2, <1>4, Columns
  <2>6. Grid(b)
    BY <2>3, <2>4, <2>5 DEF Grid, Cells
  <2>7. Good(b)
    <3>1. Moved(t, b, t.x - Cw(t), t.y)
      BY <2>3 DEF Kept, Moved
    <3>2. OnScreen(t, t.x - Cw(t), t.y)
      <4>1. t.x + Cw(t) <= Width /\ Width \in Nat /\ t.y \in Nat /\ t.y + Ch(t) <= Height
        BY ConsoleAssumption DEF Good, OnScreen
      <4> QED BY <1>2, <1>4, <4>1 DEF OnScreen
    <3> QED BY <3>1, <3>2, MovedGood
  <2>8. /\ Kept(b, u) /\ u.x = b.x /\ u.y = b.y
        /\ DOMAIN u.drawn = DOMAIN b.drawn \cup {<<b.x, b.y>>}
        /\ \A xy \in DOMAIN b.drawn : xy # <<b.x, b.y>> => u.drawn[xy] = b.drawn[xy]
    BY <2>2, <2>7, DrawFacts
  <2>9. Grid(u)
    BY <2>2, <2>6, <2>7, DrawGrid
  <2>10. Kept(t, u)
    BY <2>3, <2>8 DEF Kept
  <2> QED BY <1>1, <1>4, <2>3, <2>8, <2>9, <2>10
<1> QED BY <1>2, <1>3, <1>4

\* Whatever fb_putchar_cursor is given, it leaves the decoder alone and draws in columns.
LEMMA PutcharFacts ==
  ASSUME NEW t, Good(t), Grid(t), NEW c
  PROVE  LET u == fb_putchar_cursor(t, c) IN Kept(t, u) /\ Grid(u)
<1>1. Kept(t, t)
  BY DEF Good, Kept
<1>2. CASE c = NL
  <2>1. fb_putchar_cursor(t, c) = fb_newline(t)
    BY <1>2 DEF fb_putchar_cursor, NL, BS
  <2> QED BY <2>1, NewlineFacts
<1>3. CASE c = BS
  <2>1. PICK u : u = fb_putchar_cursor(t, BS)
    OBVIOUS
  <2>2. (Kept(t, u) /\ Grid(u)) \/ u = t
    BY <2>1, BackFacts
  <2> QED BY <1>1, <1>3, <2>1, <2>2
<1>4. CASE c # NL /\ c # BS
  <2>1. PICK u : u = fb_putchar_cursor(t, c)
    OBVIOUS
  <2>2. Kept(t, u) /\ Grid(u)
    BY <1>4, <2>1, CharFacts
  <2> QED BY <2>1, <2>2
<1> QED BY <1>2, <1>3, <1>4

\* The colour of an escape sequence is one of the eight, whatever its parameters.
LEMMA AnsiColour ==
  ASSUME NEW t, Decoder(t)
  PROVE  handle_ansi(t) \in 30 .. 37
<1> DEFINE s == Append(t.escbuf, 0)
           a == [code |-> 0, fg |-> t.fg]
<1>1. Len(s) \in Nat /\ t.fg \in 30 .. 37
  BY DEF Decoder
<1>2. a.fg = t.fg /\ handle_ansi(t) = AnsiBytes(a, s).fg
  BY DEF handle_ansi
<1> HIDE DEF s, a
<1>3. PICK f : /\ f[0] = a /\ \A i \in 1 .. Len(s) : f[i] = AnsiStep(f[i - 1], s[i])
               /\ AnsiBytes(a, s) = f[Len(s)]
  BY <1>1, AnsiRun
<1>4. ASSUME NEW x, NEW b, x.fg \in 30 .. 37 PROVE AnsiStep(x, b).fg \in 30 .. 37
  BY <1>4 DEF AnsiStep, Colour, White
<1> DEFINE T == {i \in 0 .. Len(s) : f[i].fg \in 30 .. 37}
<1>5. 0 \in T
  BY <1>1, <1>2, <1>3
<1>6. \A i \in 1 .. Len(s) : i - 1 \in T => i \in T
  BY <1>1, <1>3, <1>4
<1>7. Len(s) \in T
  <2> HIDE DEF T
  <2>1. \A i \in 0 .. Len(s) : i \in T
    BY <1>1, <1>5, <1>6, UpTo
  <2> QED BY <1>1, <2>1
<1> QED BY <1>2, <1>3, <1>7

\* What a decoder's step may touch: not the cursor, not the cells.
Drawn(t, u) == DOMAIN u = Fields /\ u.scale = t.scale /\ u.x = t.x /\ u.drawn = t.drawn

\* A cursor that is not moved stays in its column.
LEMMA DrawnGrid ==
  ASSUME NEW t, NEW u, Grid(t), Drawn(t, u)
  PROVE  Grid(u)
BY SameColumns DEF Grid, Cells, Drawn

\* A byte of an escape sequence keeps esc_buf within its bounds.
LEMMA EscByteFacts ==
  ASSUME NEW t, Good(t), Decoder(t), NEW b \in Nat
  PROVE  Drawn(t, EscByte(t, b)) /\ Decoder(EscByte(t, b))
<1>0. PICK u : u = EscByte(t, b)
  OBVIOUS
<1>1. <<>> \in Seq(Nat) /\ Len(<<>>) = 0 /\ EscMax \in Nat
  BY ConsoleAssumption
<1>2. CASE t.esc = 1
  <2>1. u = [t EXCEPT !.esc = IF b = BRACKET THEN 2 ELSE 0, !.escbuf = <<>>]
    BY <1>0, <1>2 DEF EscByte
  <2>2. Drawn(t, u) /\ u.fg = t.fg /\ u.esc \in 0 .. 2 /\ u.left = t.left /\ u.cp = t.cp
        /\ u.escbuf = <<>>
    BY <2>1 DEF Good, Drawn, Fields
  <2> QED BY <1>0, <1>1, <2>2 DEF Decoder
<1>3. CASE t.esc = 2 /\ b \in Digits \cup {SEMI}
  <2>0. b # LETTERM
    BY <1>3 DEF LETTERM, Digits, SEMI
  <2>1. CASE Len(t.escbuf) < EscMax
    <3>1. u = [t EXCEPT !.escbuf = Append(t.escbuf, b)]
      BY <1>0, <1>3, <2>0, <2>1 DEF EscByte
    <3>2. Drawn(t, u) /\ u.fg = t.fg /\ u.esc = t.esc /\ u.left = t.left /\ u.cp = t.cp
          /\ u.escbuf = Append(t.escbuf, b)
      BY <3>1 DEF Good, Drawn, Fields
    <3>3. Append(t.escbuf, b) \in Seq(Nat) /\ Len(Append(t.escbuf, b)) <= EscMax
      BY <1>1, <2>1 DEF Decoder
    <3> QED BY <1>0, <3>2, <3>3 DEF Decoder
  <2>2. CASE ~(Len(t.escbuf) < EscMax)
    <3>1. u = t
      BY <1>0, <1>3, <2>0, <2>2 DEF EscByte
    <3> QED BY <1>0, <3>1 DEF Good, Drawn
  <2> QED BY <2>1, <2>2
<1>4. CASE t.esc = 2 /\ b = LETTERM
  <2>1. b \notin Digits \cup {SEMI}
    BY <1>4 DEF LETTERM, Digits, SEMI
  <2>2. u = [t EXCEPT !.fg = handle_ansi(t), !.esc = 0, !.escbuf = <<>>]
    BY <1>0, <1>4, <2>1 DEF EscByte
  <2>3. Drawn(t, u) /\ u.fg = handle_ansi(t) /\ u.esc = 0 /\ u.left = t.left /\ u.cp = t.cp
        /\ u.escbuf = <<>>
    BY <2>2 DEF Good, Drawn, Fields
  <2> QED BY <1>0, <1>1, <2>3, AnsiColour DEF Decoder
<1>5. CASE t.esc # 1 /\ ~(t.esc = 2 /\ b \in Digits \cup {SEMI}) /\ ~(t.esc = 2 /\ b = LETTERM)
  <2>1. u = [t EXCEPT !.esc = 0, !.escbuf = <<>>]
    BY <1>0, <1>5 DEF EscByte
  <2>2. Drawn(t, u) /\ u.fg = t.fg /\ u.esc = 0 /\ u.left = t.left /\ u.cp = t.cp
        /\ u.escbuf = <<>>
    BY <2>1 DEF Good, Drawn, Fields
  <2> QED BY <1>0, <1>1, <2>2 DEF Decoder
<1> QED BY <1>2, <1>3, <1>4, <1>5

\* A byte that begins a character keeps the decoder in its states.
LEMMA LeadFacts ==
  ASSUME NEW t, Good(t), Decoder(t), NEW b \in Nat
  PROVE  Drawn(t, Lead(t, b)) /\ Decoder(Lead(t, b))
<1>1. /\ b % 8 \in Nat /\ b % 16 \in Nat /\ b % 32 \in Nat
      /\ 1 \in 1 .. 3 /\ 2 \in 1 .. 3 /\ 3 \in 1 .. 3
  OBVIOUS
<1>2. PICK cp \in Nat, n \in 1 .. 3 : Lead(t, b) = [t EXCEPT !.cp = cp, !.left = n]
  <2>1. \/ Lead(t, b) = [t EXCEPT !.cp = b % 8, !.left = 3]
        \/ Lead(t, b) = [t EXCEPT !.cp = b % 16, !.left = 2]
        \/ Lead(t, b) = [t EXCEPT !.cp = b % 32, !.left = 1]
    BY DEF Lead
  <2> QED BY <1>1, <2>1, Zenon
<1>3. PICK u : u = [t EXCEPT !.cp = cp, !.left = n]
  OBVIOUS
<1>4. Drawn(t, u) /\ u.fg = t.fg /\ u.esc = t.esc /\ u.left = n /\ u.cp = cp
      /\ u.escbuf = t.escbuf
  BY <1>3 DEF Good, Drawn, Fields
<1> QED BY <1>2, <1>3, <1>4 DEF Decoder

\* A terminal whose character is complete draws like the one it was.
LEMMA ResetFacts ==
  ASSUME NEW t, Good(t), Grid(t), Decoder(t)
  PROVE  LET u == [t EXCEPT !.cp = 0, !.left = 0] IN Good(u) /\ Grid(u) /\ Decoder(u)
<1>1. PICK u : u = [t EXCEPT !.cp = 0, !.left = 0]
  OBVIOUS
<1>2. Drawn(t, u) /\ u.y = t.y /\ u.fg = t.fg /\ u.esc = t.esc /\ u.left = 0 /\ u.cp = 0
      /\ u.escbuf = t.escbuf
  BY <1>1 DEF Good, Drawn, Fields
<1>3. Good(u)
  BY <1>2, LevelGood DEF Level, Moved, Drawn
<1>4. Decoder(u)
  BY <1>2 DEF Decoder
<1> QED BY <1>1, <1>2, <1>3, <1>4, DrawnGrid

\* What fb_putchar_cursor draws leaves the decoder in its states.
LEMMA PutcharDecoder ==
  ASSUME NEW t, Good(t), Grid(t), Decoder(t), NEW c
  PROVE  LET u == fb_putchar_cursor(t, c) IN Grid(u) /\ Decoder(u)
<1>1. PICK u : u = fb_putchar_cursor(t, c)
  OBVIOUS
<1>2. Kept(t, u) /\ Grid(u)
  BY <1>1, PutcharFacts
<1> QED BY <1>1, <1>2 DEF Kept, Decoder

\* Any byte leaves the decoder in its states and the cursor in a column.
LEMMA Utf8Decoder ==
  ASSUME NEW t, Good(t), Grid(t), Decoder(t), NEW b \in Nat
  PROVE  LET u == fb_putchar_cursor_utf8(t, b) IN Grid(u) /\ Decoder(u)
<1>0. PICK r : r = [t EXCEPT !.cp = 0, !.left = 0]
  OBVIOUS
<1>r. Good(r) /\ Grid(r) /\ Decoder(r)
  BY <1>0, ResetFacts
<1>1. CASE t.esc # 0
  <2>1. fb_putchar_cursor_utf8(t, b) = EscByte(t, b)
    BY <1>1 DEF fb_putchar_cursor_utf8
  <2> QED BY <2>1, EscByteFacts, DrawnGrid
<1>2. CASE t.esc = 0 /\ b = ESC
  <2>1. PICK u : u = [t EXCEPT !.esc = 1]
    OBVIOUS
  <2>2. fb_putchar_cursor_utf8(t, b) = u
    BY <1>2, <2>1 DEF fb_putchar_cursor_utf8, ESC
  <2>3. Drawn(t, u) /\ u.fg = t.fg /\ u.esc = 1 /\ u.left = t.left /\ u.cp = t.cp
        /\ u.escbuf = t.escbuf
    BY <2>1 DEF Good, Drawn, Fields
  <2>4. Decoder(u)
    BY <2>3 DEF Decoder
  <2> QED BY <2>2, <2>3, <2>4, DrawnGrid
<1>3. CASE t.esc = 0 /\ b < 128 /\ b # ESC
  <2>1. fb_putchar_cursor_utf8(t, b) = fb_putchar_cursor(r, b)
    BY <1>0, <1>3 DEF fb_putchar_cursor_utf8
  <2> QED BY <1>r, <2>1, PutcharDecoder
<1>4. CASE t.esc = 0 /\ b >= 192
  <2>1. fb_putchar_cursor_utf8(t, b) = Lead(t, b)
    BY <1>4 DEF fb_putchar_cursor_utf8, ESC
  <2> QED BY <2>1, LeadFacts, DrawnGrid
<1>5. CASE t.esc = 0 /\ b # ESC /\ ~(b < 128) /\ ~(b >= 192)
  <2> DEFINE cp == t.cp * 64 + (b % 64)
  <2>1. fb_putchar_cursor_utf8(t, b) = Continued(t, b)
    BY <1>5 DEF fb_putchar_cursor_utf8
  <2>2. CASE t.left = 0
    BY <2>1, <2>2 DEF Continued
  <2>3. CASE t.left = 1
    <3>1. Continued(t, b) = fb_putchar_cursor(r, IF cp < 128 THEN cp ELSE QUESTION)
      BY <1>0, <2>3 DEF Continued
    <3> QED BY <1>r, <2>1, <3>1, PutcharDecoder
  <2>4. CASE t.left # 0 /\ t.left # 1
    <3>1. cp \in Nat
      BY DEF Decoder
    <3>2. Continued(t, b) = [t EXCEPT !.cp = cp, !.left = @ - 1]
      BY <2>4 DEF Continued
    <3> HIDE DEF cp
    <3>3. PICK u : u = [t EXCEPT !.cp = cp, !.left = @ - 1]
      OBVIOUS
    <3>4. Drawn(t, u) /\ u.fg = t.fg /\ u.esc = t.esc /\ u.left = t.left - 1 /\ u.cp = cp
          /\ u.escbuf = t.escbuf
      BY <3>3 DEF Good, Drawn, Fields
    <3>5. Decoder(u)
      BY <2>4, <3>1, <3>4 DEF Decoder
    <3> QED BY <2>1, <3>2, <3>3, <3>4, <3>5, DrawnGrid
  <2> QED BY <2>2, <2>3, <2>4
<1> QED BY <1>1, <1>2, <1>3, <1>4, <1>5

\* What stands before the cursor in its row is the end of the line; and all of the
\* line stands there while its start is known.
Row(t, buf) ==
  \A xy \in DOMAIN t.drawn : xy[2] = t.y /\ xy[1] < t.x =>
    \E k \in 1 .. Len(buf) : /\ xy[1] = t.x - k * Cw(t)
                             /\ t.drawn[xy] = <<buf[Len(buf) + 1 - k], t.fg>>
Whole(t, buf, start) ==
  start # Lost =>
    /\ t.x = start + Len(buf) * Cw(t)
    /\ \A k \in 1 .. Len(buf) : <<t.x - k * Cw(t), t.y>> \in DOMAIN t.drawn

\* A character that is typed joins the line on the screen as it joins the buffer.
LEMMA StoreLine ==
  ASSUME NEW t, Good(t), Grid(t), NEW buf \in Seq(Nat), NEW start \in Nat \cup {Lost},
         Row(t, buf), Whole(t, buf, start), NEW c \in 0 .. 127, c # NL, c # BS
  PROVE  LET u == fb_putchar_cursor(t, c)
             new == Append(buf, c)
         IN  Row(u, new) /\ Whole(u, new, IF u.x = 0 THEN Lost ELSE start)
<1> DEFINE C == Cw(t)
           n == Len(buf)
<1>1. PICK u : u = fb_putchar_cursor(t, c)
  OBVIOUS
<1>2. PICK d : d = Draw(t, c)
  OBVIOUS
<1>3. PICK new : new = Append(buf, c)
  OBVIOUS
<1>4. /\ Kept(t, u) /\ Grid(u)
      /\ u.x = 0 \/ (u.x = t.x + C /\ u.y = t.y /\ u.drawn = d.drawn)
  BY <1>1, <1>2, CharFacts
<1>5. /\ DOMAIN d.drawn = DOMAIN t.drawn \cup {<<t.x, t.y>>}
      /\ d.drawn[<<t.x, t.y>>] = <<Glyph(c), t.fg>>
      /\ \A xy \in DOMAIN t.drawn : xy # <<t.x, t.y>> => d.drawn[xy] = t.drawn[xy]
  BY <1>2, DrawFacts
<1>6. n \in Nat /\ Len(new) = n + 1 /\ new[n + 1] = c /\ \A i \in 1 .. n : new[i] = buf[i]
  BY <1>3
<1>7. /\ C \in Nat \ {0} /\ t.x \in Nat /\ t.y \in Nat /\ t.scale \in Scales
      /\ Column(t, t.x)
  BY CellFits DEF Good, OnScreen, Grid
<1>8. Cw(u) = C /\ u.fg = t.fg
  BY <1>4, SameColumns DEF Kept
<1>9. Glyph(c) = c
  BY DEF Glyph
<1>10. \A k \in Int : (k + 1) * C = k * C + C
  BY <1>7
<1>11. Cells(t)
  BY DEF Grid
<1> HIDE DEF C, n
<1>12. CASE u.x = 0
  <2>1. \A xy \in DOMAIN u.drawn : xy \in Nat \X Nat
    BY <1>4 DEF Grid, Cells
  <2>2. \A xy \in DOMAIN u.drawn : ~(xy[1] < u.x)
    BY <1>12, <2>1
  <2>3. Row(u, new)
    BY <2>2 DEF Row
  <2>4. Whole(u, new, Lost)
    BY DEF Whole
  <2> QED BY <1>1, <1>3, <1>12, <2>3, <2>4
<1>13. CASE u.x # 0
  <2>1. u.x = t.x + C /\ u.y = t.y /\ u.drawn = d.drawn
    BY <1>4, <1>13
  <2>2. ASSUME NEW xy \in DOMAIN d.drawn, xy[2] = t.y, xy[1] < t.x + C
        PROVE  \E k \in 1 .. (n + 1) : xy[1] = t.x + C - k * C
                                      /\ d.drawn[xy] = <<new[n + 2 - k], t.fg>>
    <3>1. CASE xy = <<t.x, t.y>>
      <4>1. xy[1] = t.x /\ d.drawn[xy] = <<new[n + 1], t.fg>>
        BY <1>5, <1>6, <1>9, <3>1
      <4>2. t.x = t.x + C - 1 * C /\ n + 2 - 1 = n + 1 /\ 1 \in 1 .. (n + 1)
        BY <1>6, <1>7
      <4>3. d.drawn[xy] = <<new[n + 2 - 1], t.fg>>
        BY <4>1, <4>2
      <4> QED BY <4>1, <4>2, <4>3
    <3>2. CASE xy # <<t.x, t.y>>
      <4>1. xy \in DOMAIN t.drawn /\ d.drawn[xy] = t.drawn[xy]
        BY <1>5, <3>2
      <4>2. xy \in Nat \X Nat /\ Column(t, xy[1])
        BY <1>11, <4>1 DEF Cells
      <4>3. xy[1] \in Nat /\ xy = <<xy[1], xy[2]>>
        BY <4>2
      <4>4. xy[1] <= t.x
        BY <1>7, <2>2, <4>2, <4>3, NoneBetween DEF C
      <4>5. xy[1] # t.x
        BY <2>2, <3>2, <4>3
      <4>6. xy[1] < t.x
        BY <1>7, <4>3, <4>4, <4>5
      <4>7. PICK k \in 1 .. n : xy[1] = t.x - k * C /\ t.drawn[xy] = <<buf[n + 1 - k], t.fg>>
        BY <2>2, <4>1, <4>6 DEF Row, C, n
      <4>8. (k + 1) * C = k * C + C /\ k * C \in Int
        BY <1>7, <1>10
      <4>9. xy[1] = t.x + C - (k + 1) * C
        BY <1>7, <4>7, <4>8
      <4>10. /\ n + 2 - (k + 1) = n + 1 - k /\ k + 1 \in 1 .. (n + 1)
             /\ n + 1 - k \in 1 .. n
        BY <1>6
      <4>11. d.drawn[xy] = <<new[n + 2 - (k + 1)], t.fg>>
        BY <1>6, <4>1, <4>7, <4>10
      <4> QED BY <4>9, <4>10, <4>11
    <3> QED BY <3>1, <3>2
  <2>3. Row(u, new)
    <3>1. ASSUME NEW xy \in DOMAIN u.drawn, xy[2] = u.y, xy[1] < u.x
          PROVE  \E k \in 1 .. Len(new) : /\ xy[1] = u.x - k * Cw(u)
                                          /\ u.drawn[xy] = <<new[Len(new) + 1 - k], u.fg>>
      <4>1. PICK k \in 1 .. (n + 1) : xy[1] = t.x + C - k * C
                                      /\ d.drawn[xy] = <<new[n + 2 - k], t.fg>>
        BY <2>1, <2>2, <3>1
      <4>2. Len(new) + 1 - k = n + 2 - k /\ k \in 1 .. Len(new)
        BY <1>6
      <4>3. xy[1] = u.x - k * Cw(u)
        <5>1. k * C \in Int
          BY <1>7
        <5> QED BY <1>7, <1>8, <2>1, <4>1, <5>1
      <4>4. u.drawn[xy] = <<new[Len(new) + 1 - k], u.fg>>
        BY <1>8, <2>1, <4>1, <4>2
      <4> QED BY <4>2, <4>3, <4>4, Zenon
    <3> QED BY <3>1 DEF Row
  <2>4. Whole(u, new, start)
    <3>1. SUFFICES ASSUME start # Lost
                   PROVE  /\ u.x = start + (n + 1) * C
                          /\ \A k \in 1 .. (n + 1) : <<u.x - k * C, u.y>> \in DOMAIN u.drawn
      BY <1>6, <1>8 DEF Whole
    <3>2. /\ t.x = start + n * C
          /\ \A k \in 1 .. n : <<t.x - k * C, t.y>> \in DOMAIN t.drawn
      BY <3>1 DEF Whole, C, n
    <3>3. u.x = start + (n + 1) * C
      <4>1. (n + 1) * C = n * C + C /\ n * C \in Int /\ start \in Nat
        BY <1>6, <1>7, <1>10, <3>1
      <4> QED BY <1>7, <2>1, <3>2, <4>1
    <3>4. ASSUME NEW k \in 1 .. (n + 1) PROVE <<u.x - k * C, u.y>> \in DOMAIN u.drawn
      <4>1. CASE k = 1
        <5>1. u.x - k * C = t.x
          BY <1>7, <2>1, <4>1
        <5> QED BY <1>5, <2>1, <5>1
      <4>2. CASE k # 1
        <5>1. k - 1 \in 1 .. n
          BY <1>6, <4>2
        <5>2. k * C = (k - 1) * C + C /\ (k - 1) * C \in Int
          BY <1>7
        <5>3. u.x - k * C = t.x - (k - 1) * C
          BY <1>7, <2>1, <5>2
        <5>4. <<t.x - (k - 1) * C, t.y>> \in DOMAIN t.drawn
          BY <3>2, <5>1
        <5> QED BY <1>5, <2>1, <5>3, <5>4
      <4> QED BY <4>1, <4>2
    <3> QED BY <3>3, <3>4
  <2> QED BY <1>1, <1>3, <1>13, <2>3, <2>4
<1> QED BY <1>12, <1>13

\* A character taken back leaves the line on the screen as it leaves the buffer.
LEMMA BackLine ==
  ASSUME NEW t, Good(t), Grid(t), NEW buf \in Seq(Nat), NEW start \in Nat \cup {Lost},
         Row(t, buf), Whole(t, buf, start), buf # <<>>
  PROVE  LET u == fb_putchar_cursor(t, BS)
         IN  Row(u, Front(buf)) /\ Whole(u, Front(buf), start)
<1> DEFINE C == Cw(t)
           n == Len(buf)
<1>1. PICK u : u = fb_putchar_cursor(t, BS)
  OBVIOUS
<1>2. PICK old : old = Front(buf)
  OBVIOUS
<1>3. n \in Nat \ {0} /\ Len(old) = n - 1 /\ \A i \in 1 .. (n - 1) : old[i] = buf[i]
  BY <1>2, FrontFacts
<1>4. /\ C \in Nat \ {0} /\ t.x \in Nat /\ t.y \in Nat
  BY CellFits DEF Good, OnScreen
<1>5. Cells(t)
  BY DEF Grid
<1>6. \/ t.x = 0 /\ u = t
      \/ /\ t.x >= C /\ Kept(t, u) /\ u.x = t.x - C /\ u.y = t.y
         /\ DOMAIN u.drawn = DOMAIN t.drawn \cup {<<u.x, u.y>>}
         /\ \A xy \in DOMAIN t.drawn : xy # <<u.x, u.y>> => u.drawn[xy] = t.drawn[xy]
  BY <1>1, BackFacts
<1> HIDE DEF C, n
<1>7. CASE t.x = 0 /\ u = t
  <2>1. \A xy \in DOMAIN u.drawn : ~(xy[1] < u.x)
    BY <1>5, <1>7 DEF Cells
  <2>2. start = Lost
    <3>1. SUFFICES ASSUME start \in Nat, t.x = start + n * C PROVE FALSE
      BY DEF Whole, C, n
    <3>2. PICK m \in Nat : m = n * C /\ m >= 1
      BY <1>3, <1>4
    <3> QED BY <1>7, <3>1, <3>2
  <2> QED BY <1>1, <1>2, <2>1, <2>2 DEF Row, Whole
<1>8. CASE u # t \/ t.x # 0
  <2>1. /\ t.x >= C /\ Kept(t, u) /\ u.x = t.x - C /\ u.y = t.y
        /\ DOMAIN u.drawn = DOMAIN t.drawn \cup {<<u.x, u.y>>}
        /\ \A xy \in DOMAIN t.drawn : xy # <<u.x, u.y>> => u.drawn[xy] = t.drawn[xy]
    BY <1>6, <1>8
  <2>2. Cw(u) = C /\ u.fg = t.fg
    BY <2>1, SameColumns DEF Kept, C
  <2>3. ASSUME NEW xy \in DOMAIN u.drawn, xy[2] = u.y, xy[1] < u.x
        PROVE  \E k \in 1 .. (n - 1) : xy[1] = u.x - k * C /\ u.drawn[xy] = <<old[n - k], t.fg>>
    <3>1. xy # <<u.x, u.y>>
      <4>1. u.x \in Nat
        BY <1>4, <2>1
      <4> QED BY <2>3, <4>1
    <3>2. xy \in DOMAIN t.drawn /\ u.drawn[xy] = t.drawn[xy]
      BY <2>1, <3>1
    <3>3. xy[1] \in Nat
      BY <1>5, <3>2 DEF Cells
    <3>4. xy[2] = t.y /\ xy[1] < t.x
      BY <1>4, <2>1, <2>3, <3>3
    <3>5. PICK k \in 1 .. n : xy[1] = t.x - k * C /\ t.drawn[xy] = <<buf[n + 1 - k], t.fg>>
      BY <3>2, <3>4 DEF Row, C, n
    <3>6. k # 1
      <4>1. SUFFICES ASSUME k = 1 PROVE FALSE
        OBVIOUS
      <4>2. 1 * C = C
        BY <1>4
      <4> QED BY <1>4, <2>1, <2>3, <3>5, <4>1, <4>2
    <3>7. k * C = (k - 1) * C + C /\ (k - 1) * C \in Int
      BY <1>4
    <3>8. xy[1] = u.x - (k - 1) * C
      BY <1>4, <2>1, <3>5, <3>7
    <3>9. k - 1 \in 1 .. (n - 1) /\ n - (k - 1) = n + 1 - k /\ n + 1 - k \in 1 .. (n - 1)
      BY <1>3, <3>6
    <3>10. u.drawn[xy] = <<old[n - (k - 1)], t.fg>>
      BY <1>3, <3>2, <3>5, <3>9
    <3> QED BY <3>8, <3>9, <3>10
  <2>4. Row(u, old)
    <3>1. \A k \in 1 .. (n - 1) : n - 1 + 1 - k = n - k
      BY <1>3
    <3> QED BY <1>3, <2>2, <2>3, <3>1 DEF Row
  <2>5. Whole(u, old, start)
    <3>1. SUFFICES ASSUME start # Lost
                   PROVE  /\ u.x = start + (n - 1) * C
                          /\ \A k \in 1 .. (n - 1) : <<u.x - k * C, u.y>> \in DOMAIN u.drawn
      BY <1>3, <2>2 DEF Whole
    <3>2. /\ t.x = start + n * C
          /\ \A k \in 1 .. n : <<t.x - k * C, t.y>> \in DOMAIN t.drawn
      BY <3>1 DEF Whole, C, n
    <3>3. u.x = start + (n - 1) * C
      <4>1. n * C = (n - 1) * C + C /\ (n - 1) * C \in Int /\ start \in Nat
        BY <1>3, <1>4, <3>1
      <4> QED BY <1>4, <2>1, <3>2, <4>1
    <3>4. ASSUME NEW k \in 1 .. (n - 1) PROVE <<u.x - k * C, u.y>> \in DOMAIN u.drawn
      <4>1. k + 1 \in 1 .. n
        BY <1>3
      <4>2. (k + 1) * C = k * C + C /\ k * C \in Int
        BY <1>4
      <4>3. u.x - k * C = t.x - (k + 1) * C
        BY <1>4, <2>1, <4>2
      <4>4. <<t.x - (k + 1) * C, t.y>> \in DOMAIN t.drawn
        BY <3>2, <4>1
      <4> QED BY <2>1, <4>3, <4>4
    <3> QED BY <3>3, <3>4
  <2> QED BY <1>1, <1>2, <2>4, <2>5
<1> QED BY <1>7, <1>8

CallFields == {"op", "max", "buf", "start"}

\* A call, and what it has to do with the screen: SYS_GETS its line, the others none.
CallType(c) ==
  /\ DOMAIN c = CallFields /\ c.op \in {"none", "gets", "getchar"} /\ c.max \in Nat
  /\ c.buf \in Seq(Nat) /\ c.start \in Nat \cup {Lost}
OnTerm(t, c) ==
  IF c.op = "gets" THEN Len(c.buf) < c.max /\ Row(t, c.buf) /\ Whole(t, c.buf, c.start)
  ELSE DOMAIN t.drawn = {}

\* The terminal, the keys that are held and the call that reads.
TermInv(t) == Good(t) /\ Grid(t) /\ Decoder(t)
LineInv ==
  /\ TermInv(term) /\ CallType(call) /\ OnTerm(term, call)
  /\ held \in [shift : BOOLEAN, ctrl : BOOLEAN]

\* Characters are those of the key maps.
LEMMA CharFits == ASSUME NEW sc \in ScanCodes PROVE Char(sc) \in 0 .. 127
<1>1. sc \in 0 .. 255
  BY ConsoleAssumption
<1>2. ~(sc >= 128) => sc \in 0 .. 127
  BY <1>1
<1>3. \A i \in 0 .. 127 : scancode_map[i] \in 0 .. 127 /\ scancode_map_shift[i] \in 0 .. 127
  BY ConsoleAssumption
<1>4. CASE sc \in Modifiers \/ sc >= 128
  BY <1>4 DEF Char
<1>5. CASE ~(sc \in Modifiers \/ sc >= 128)
  <2>1. /\ sc \in 0 .. 127
        /\ Char(sc) = IF held.shift THEN scancode_map_shift[sc] ELSE scancode_map[sc]
    BY <1>2, <1>5 DEF Char
  <2> QED BY <1>3, <2>1
<1> QED BY <1>4, <1>5

\* No call: the values of NoCall.
LEMMA NoCallFacts ==
  /\ DOMAIN NoCall = CallFields /\ NoCall.op = "none" /\ NoCall.max = 0
  /\ NoCall.buf = <<>> /\ NoCall.start = Lost /\ CallType(NoCall)
<1>1. <<>> \in Seq(Nat) /\ Lost \in Nat \cup {Lost} /\ 0 \in Nat
  OBVIOUS
<1>2. /\ DOMAIN NoCall = CallFields /\ NoCall.op = "none" /\ NoCall.max = 0
      /\ NoCall.buf = <<>> /\ NoCall.start = Lost
  BY DEF NoCall, CallFields
<1> QED BY <1>1, <1>2, Zenon DEF CallType

\* What is drawn is forgotten, and nothing else.
LEMMA ForgetInv ==
  ASSUME NEW t, TermInv(t)
  PROVE  TermInv(Forget(t)) /\ DOMAIN Forget(t).drawn = {}
<1>1. PICK u : u = Forget(t)
  OBVIOUS
<1>2. /\ DOMAIN u = Fields /\ u.scale = t.scale /\ u.x = t.x /\ u.y = t.y /\ u.fg = t.fg
      /\ u.esc = t.esc /\ u.left = t.left /\ u.cp = t.cp /\ u.escbuf = t.escbuf
      /\ u.drawn = <<>>
  BY <1>1 DEF Forget, TermInv, Good, Fields
<1>3. DOMAIN u.drawn = {}
  BY <1>2
<1>4. Good(u)
  BY <1>1, ForgetGood DEF TermInv
<1>5. Decoder(u)
  BY <1>2 DEF TermInv, Decoder
<1>6. Column(u, u.x)
  BY <1>2, SameColumns DEF TermInv, Grid
<1>7. Grid(u)
  BY <1>3, <1>6 DEF Grid, Cells
<1> QED BY <1>1, <1>3, <1>4, <1>5, <1>7 DEF TermInv

\* A screen that is cleared has no cells, at any scale.
LEMMA ClearInv ==
  ASSUME NEW t, DOMAIN t = Fields, t.scale \in Scales, Decoder(t)
  PROVE  TermInv(Clear(t)) /\ DOMAIN Clear(t).drawn = {} /\ Clear(t).x = 0
<1>1. PICK u : u = Clear(t)
  OBVIOUS
<1>2. /\ DOMAIN u = Fields /\ u.scale = t.scale /\ u.x = 0 /\ u.fg = t.fg
      /\ u.esc = t.esc /\ u.left = t.left /\ u.cp = t.cp /\ u.escbuf = t.escbuf
      /\ u.drawn = <<>>
  BY <1>1 DEF Clear, Fields
<1>3. DOMAIN u.drawn = {}
  BY <1>2
<1>4. Good(u)
  BY <1>1, ClearGood
<1>5. Decoder(u)
  BY <1>2 DEF Decoder
<1>6. Column(u, 0)
  <2>1. 0 = 0 * Cw(u)
    BY <1>4, CellFits DEF Good
  <2> QED BY <2>1 DEF Column
<1>7. Grid(u)
  BY <1>2, <1>3, <1>6 DEF Grid, Cells
<1> QED BY <1>1, <1>2, <1>3, <1>4, <1>5, <1>7 DEF TermInv

\* A terminal of another scale, cleared.
LEMMA ZoomInv ==
  ASSUME NEW t, TermInv(t), NEW c
  PROVE  LET u == Clear(Rescaled(t, c)) IN TermInv(u) /\ DOMAIN u.drawn = {} /\ u.x = 0
<1> DEFINE n == IF c = 45 THEN IF t.scale > 1 THEN t.scale - 1 ELSE t.scale
                          ELSE IF t.scale < MaxScale THEN t.scale + 1 ELSE t.scale
<1>1. PICK r : r = [t EXCEPT !.scale = n]
  OBVIOUS
<1>2. Rescaled(t, c) = r
  BY <1>1 DEF Rescaled
<1>3. n \in Scales
  BY MaxScalePositive DEF TermInv, Good, Scales
<1> HIDE DEF n
<1>4. /\ DOMAIN r = Fields /\ r.scale = n /\ r.fg = t.fg /\ r.esc = t.esc /\ r.left = t.left
      /\ r.cp = t.cp /\ r.escbuf = t.escbuf
  BY <1>1 DEF TermInv, Good, Fields
<1>5. Decoder(r)
  BY <1>4 DEF TermInv, Decoder
<1> QED BY <1>2, <1>3, <1>4, <1>5, ClearInv

\* A character drawn leaves a terminal a terminal.
LEMMA PutcharInv ==
  ASSUME NEW t, TermInv(t), NEW c
  PROVE  TermInv(fb_putchar_cursor(t, c))
BY PutcharGood, PutcharDecoder DEF TermInv

\* A call that prints.
LEMMA PrintingLine ==
  ASSUME LineInv, Printing
  PROVE  LineInv'
<1>1. SUFFICES ASSUME TermInv(term'), DOMAIN term'.drawn = {}, call' = call, held' = held,
                      call.op = "none"
               PROVE  LineInv'
  <2>1. Running /\ TermInv(term)
    BY DEF LineInv, Printing, SysPuts, SysPutchar, SysClear
  <2>2. ASSUME NEW b \in Bytes, SysPuts(b) PROVE LineInv'
    <3>1. b \in Nat
      BY ConsoleAssumption
    <3>2. TermInv(fb_putchar_cursor_utf8(term, b))
      BY <2>1, <3>1, Utf8Good, Utf8Decoder DEF TermInv
    <3> QED BY <1>1, <2>1, <2>2, <3>2, ForgetInv DEF SysPuts, Running
  <2>3. ASSUME NEW b \in Bytes, SysPutchar(b) PROVE LineInv'
    <3>1. TermInv(fb_putchar_cursor(term, b))
      BY <2>1, PutcharInv
    <3> QED BY <1>1, <2>1, <2>3, <3>1, ForgetInv DEF SysPutchar, Running
  <2>4. CASE SysClear
    BY <1>1, <2>1, <2>4, ClearInv DEF SysClear, Running, TermInv, Good
  <2> QED BY <2>2, <2>3, <2>4 DEF Printing
<1>2. TermInv(term)' /\ CallType(call)' /\ OnTerm(term, call)'
  BY <1>1 DEF LineInv, OnTerm
<1> QED BY <1>1, <1>2 DEF LineInv

\* A step that leaves no call and no cells behind.
LEMMA QuietLine ==
  ASSUME LineInv, TermInv(term'), DOMAIN term'.drawn = {}, CallType(call'),
         call'.op # "gets", held' \in [shift : BOOLEAN, ctrl : BOOLEAN]
  PROVE  LineInv'
BY DEF LineInv, OnTerm

\* A step of SYS_GETS that leaves a line on the screen.
LEMMA GetsLine ==
  ASSUME LineInv, TermInv(term'), CallType(call'), call'.op = "gets",
         Len(call'.buf) < call'.max, Row(term', call'.buf),
         Whole(term', call'.buf, call'.start), held' \in [shift : BOOLEAN, ctrl : BOOLEAN]
  PROVE  LineInv'
BY DEF LineInv, OnTerm

\* A key is added to the line.
LEMMA StoreStep ==
  ASSUME LineInv, NEW sc \in ScanCodes, GetsStore(sc)
  PROVE  LineInv'
<1>1. PICK c : c = Char(sc)
  OBVIOUS
<1>2. c \in 0 .. 127 /\ c # NL /\ c # BS
  BY <1>1, CharFits DEF GetsStore
<1>3. /\ call.op = "gets" /\ Waiting /\ term' = fb_putchar_cursor(term, c) /\ held' = held
      /\ call' = [call EXCEPT !.buf = Append(@, c),
                              !.start = IF term'.x = 0 THEN Lost ELSE @]
  BY <1>1 DEF GetsStore, Typed
<1>4. /\ TermInv(term) /\ CallType(call) /\ Row(term, call.buf)
      /\ Whole(term, call.buf, call.start)
  BY <1>3 DEF LineInv, OnTerm
<1>5. TermInv(term')
  BY <1>3, <1>4, PutcharInv
<1>6. /\ DOMAIN call' = CallFields /\ call'.op = "gets" /\ call'.max = call.max
      /\ call'.buf = Append(call.buf, c)
      /\ call'.start = IF term'.x = 0 THEN Lost ELSE call.start
  BY <1>3, <1>4 DEF CallType, CallFields
<1>7. Row(term', call'.buf) /\ Whole(term', call'.buf, call'.start)
  <2>1. call.buf \in Seq(Nat) /\ call.start \in Nat \cup {Lost}
    BY <1>4 DEF CallType
  <2>2. Good(term) /\ Grid(term)
    BY <1>4 DEF TermInv
  <2>3. PICK t, buf, start : t = term /\ buf = call.buf /\ start = call.start
    OBVIOUS
  <2>4. PICK u : u = fb_putchar_cursor(t, c)
    OBVIOUS
  <2>5. Row(u, Append(buf, c)) /\ Whole(u, Append(buf, c), IF u.x = 0 THEN Lost ELSE start)
    BY <1>2, <1>4, <2>1, <2>2, <2>3, <2>4, StoreLine
  <2>6. u = term'
    BY <1>3, <2>3, <2>4
  <2> QED BY <1>6, <2>3, <2>5, <2>6
<1>8. CallType(call') /\ Len(call'.buf) < call'.max
  <2>1. call.buf \in Seq(Nat) /\ Len(call.buf) < call.max - 1 /\ call.max \in Nat
    BY <1>3, <1>4 DEF CallType, Waiting
  <2>2. Append(call.buf, c) \in Seq(Nat) /\ Len(Append(call.buf, c)) = Len(call.buf) + 1
    BY <1>2, <2>1
  <2> QED BY <1>4, <1>6, <2>1, <2>2 DEF CallType
<1>9. held' \in [shift : BOOLEAN, ctrl : BOOLEAN]
  BY <1>3 DEF LineInv
<1> QED BY <1>5, <1>6, <1>7, <1>8, <1>9, GetsLine

\* One is taken back.
LEMMA BackStep ==
  ASSUME LineInv, NEW sc \in ScanCodes, GetsBackspace(sc)
  PROVE  LineInv'
<1>1. CASE call.buf = <<>>
  <2>1. term' = term /\ call' = call /\ held' = held
    BY <1>1 DEF GetsBackspace, Typed
  <2> QED BY <2>1 DEF LineInv
<1>2. CASE call.buf # <<>>
  <2>1. /\ call.op = "gets" /\ term' = fb_putchar_cursor(term, BS) /\ held' = held
        /\ call' = [call EXCEPT !.buf = Front(@)]
    BY <1>2 DEF GetsBackspace, Typed
  <2>2. /\ TermInv(term) /\ CallType(call) /\ Row(term, call.buf)
        /\ Whole(term, call.buf, call.start) /\ Len(call.buf) < call.max
    BY <2>1 DEF LineInv, OnTerm
  <2>3. TermInv(term')
    BY <2>1, <2>2, PutcharInv
  <2>4. /\ DOMAIN call' = CallFields /\ call'.op = "gets" /\ call'.max = call.max
        /\ call'.buf = Front(call.buf) /\ call'.start = call.start
    BY <2>1, <2>2 DEF CallType, CallFields
  <2>5. call.buf \in Seq(Nat) /\ call.start \in Nat \cup {Lost} /\ call.max \in Nat
    BY <2>2 DEF CallType
  <2>6. Row(term', call'.buf) /\ Whole(term', call'.buf, call'.start)
    <3>1. Good(term) /\ Grid(term)
      BY <2>2 DEF TermInv
    <3>2. PICK t, buf, start : t = term /\ buf = call.buf /\ start = call.start
      OBVIOUS
    <3>3. PICK u : u = fb_putchar_cursor(t, BS)
      OBVIOUS
    <3>4. Row(u, Front(buf)) /\ Whole(u, Front(buf), start)
      BY <1>2, <2>2, <2>5, <3>1, <3>2, <3>3, BackLine
    <3>5. u = term'
      BY <2>1, <3>2, <3>3
    <3> QED BY <2>4, <3>2, <3>4, <3>5
  <2>7. CallType(call') /\ Len(call'.buf) < call'.max
    <3>1. PICK s : s = call.buf
      OBVIOUS
    <3>2. s \in Seq(Nat) /\ s # <<>>
      BY <1>2, <2>5, <3>1
    <3>3. Front(s) \in Seq(Nat) /\ Len(Front(s)) < Len(s)
      BY <3>2, FrontFacts
    <3> QED BY <2>2, <2>4, <2>5, <3>1, <3>3 DEF CallType
  <2>8. held' \in [shift : BOOLEAN, ctrl : BOOLEAN]
    BY <2>1 DEF LineInv
  <2> QED BY <2>3, <2>4, <2>6, <2>7, <2>8, GetsLine
<1> QED BY <1>1, <1>2

\* A key, whatever it does.
LEMMA KeyLine ==
  ASSUME LineInv, NEW sc \in ScanCodes, Key(sc)
  PROVE  LineInv'
<1>0. TermInv(term) /\ CallType(call) /\ held \in [shift : BOOLEAN, ctrl : BOOLEAN]
  BY DEF LineInv
<1>1. CASE KeyHeld(sc)
  <2>1. term' = term /\ call' = call /\ held' \in [shift : BOOLEAN, ctrl : BOOLEAN]
    BY <1>0, <1>1 DEF KeyHeld
  <2> QED BY <2>1 DEF LineInv
<1>2. CASE KeyIgnored(sc)
  BY <1>2 DEF KeyIgnored, vars, LineInv
<1>3. CASE KeyZoom(sc)
  <2>1. /\ Waiting /\ term' = Clear(Rescaled(term, Char(sc))) /\ held' = held
        /\ call' = [call EXCEPT !.start = Lost]
    BY <1>3 DEF KeyZoom
  <2>2. TermInv(term') /\ DOMAIN term'.drawn = {} /\ term'.x = 0
    BY <1>0, <2>1, ZoomInv
  <2>3. /\ DOMAIN call' = CallFields /\ call'.op = call.op /\ call'.max = call.max
        /\ call'.buf = call.buf /\ call'.start = Lost
    BY <1>0, <2>1 DEF CallType, CallFields
  <2>4. CallType(call')
    BY <1>0, <2>3 DEF CallType
  <2>5. Row(term', call'.buf) /\ Whole(term', call'.buf, call'.start)
    BY <2>2, <2>3 DEF Row, Whole
  <2>6. CASE call.op = "gets"
    <3>1. Len(call.buf) < call.max
      BY <2>6 DEF LineInv, OnTerm
    <3> QED BY <1>0, <2>1, <2>2, <2>3, <2>4, <2>5, <2>6, <3>1, GetsLine
  <2>7. CASE call.op # "gets"
    BY <1>0, <2>1, <2>2, <2>3, <2>4, <2>7, QuietLine
  <2> QED BY <2>6, <2>7
<1>4. CASE GetcharReturns(sc)
  <2>1. call.op = "getchar" /\ term' = term /\ call' = NoCall /\ held' = held
    BY <1>4 DEF GetcharReturns, Typed
  <2>2. DOMAIN term.drawn = {}
    BY <2>1 DEF LineInv, OnTerm
  <2> QED BY <1>0, <2>1, <2>2, NoCallFacts, QuietLine
<1>5. CASE GetsNewline(sc)
  <2>1. term' = Forget(fb_putchar_cursor(term, NL)) /\ call' = NoCall /\ held' = held
    BY <1>5 DEF GetsNewline, Typed
  <2>2. TermInv(term') /\ DOMAIN term'.drawn = {}
    BY <1>0, <2>1, PutcharInv, ForgetInv
  <2> QED BY <1>0, <2>1, <2>2, NoCallFacts, QuietLine
<1>6. CASE GetsBackspace(sc)
  BY <1>6, BackStep
<1>7. CASE GetsStore(sc)
  BY <1>7, StoreStep
<1> QED BY <1>1, <1>2, <1>3, <1>4, <1>5, <1>6, <1>7, Zenon DEF Key

\* Every step.
LEMMA NextLine ==
  ASSUME LineInv, [Next]_vars
  PROVE  LineInv'
<1>0. TermInv(term) /\ CallType(call) /\ held \in [shift : BOOLEAN, ctrl : BOOLEAN]
  BY DEF LineInv
<1>1. CASE Printing
  BY <1>1, PrintingLine
<1>2. CASE Reading
  <2>1. CASE SysGetchar
    <3>1. /\ call.op = "none" /\ term' = term /\ held' = held
          /\ call' = [NoCall EXCEPT !.op = "getchar"]
      BY <2>1 DEF SysGetchar, Running
    <3>2. PICK n : n = NoCall
      OBVIOUS
    <3>3. call' = [n EXCEPT !.op = "getchar"]
      BY <3>1, <3>2
    <3>4. /\ DOMAIN n = CallFields /\ n.op = "none" /\ n.max = 0 /\ n.buf = <<>>
          /\ n.start = Lost
      BY <3>2, NoCallFacts
    <3>5. /\ DOMAIN call' = CallFields /\ call'.op = "getchar" /\ call'.max = 0
          /\ call'.buf = <<>> /\ call'.start = Lost
      BY <3>3, <3>4 DEF CallFields
    <3>6. CallType(call')
      BY <3>5 DEF CallType
    <3>7. DOMAIN term.drawn = {}
      BY <3>1 DEF LineInv, OnTerm
    <3> QED BY <1>0, <3>1, <3>5, <3>6, <3>7, QuietLine
  <2>2. ASSUME NEW max \in Sizes, SysGets(max) PROVE LineInv'
    <3>1. /\ call.op = "none" /\ term' = term /\ held' = held
          /\ call' = [op |-> "gets", max |-> max, buf |-> <<>>, start |-> term.x]
      BY <2>2 DEF SysGets, Running
    <3>2. max \in Nat \ {0}
      BY ConsoleAssumption
    <3>3. /\ DOMAIN call' = CallFields /\ call'.op = "gets" /\ call'.max = max
          /\ call'.buf = <<>> /\ call'.start = term.x
      BY <3>1 DEF CallFields
    <3>4. term.x \in Nat
      BY <1>0 DEF TermInv, Good, OnScreen
    <3>5. CallType(call')
      BY <3>2, <3>3, <3>4 DEF CallType
    <3>6. DOMAIN term.drawn = {}
      BY <3>1 DEF LineInv, OnTerm
    <3>7. Len(call'.buf) = 0 /\ Len(call'.buf) < call'.max
      BY <3>2, <3>3
    <3>8. Row(term, call'.buf)
      BY <3>6 DEF Row
    <3>9. Whole(term, call'.buf, call'.start)
      <4>1. 0 * Cw(term) = 0
        BY <1>0, CellFits DEF TermInv, Good
      <4> QED BY <3>3, <3>4, <3>7, <4>1 DEF Whole
    <3> QED BY <1>0, <3>1, <3>3, <3>5, <3>7, <3>8, <3>9, GetsLine
  <2>3. CASE GetsFull
    <3>1. term' = Forget(term) /\ call' = NoCall /\ held' = held
      BY <2>3 DEF GetsFull
    <3> QED BY <1>0, <3>1, ForgetInv, NoCallFacts, QuietLine
  <2>4. ASSUME NEW sc \in ScanCodes, Key(sc) PROVE LineInv'
    BY <2>4, KeyLine
  <2> QED BY <1>2, <2>1, <2>2, <2>3, <2>4 DEF Reading
<1>3. CASE UNCHANGED vars
  BY <1>3 DEF vars, LineInv
<1> QED BY <1>1, <1>2, <1>3 DEF Next

\* fb_init leaves an empty screen and the decoder at rest.
LEMMA InitLine == ASSUME Init PROVE LineInv
<1>1. Good(term)
  BY InitGood
<1>2. /\ term.x = 0 /\ term.fg = White /\ term.esc = 0 /\ term.escbuf = <<>>
      /\ term.left = 0 /\ term.cp = 0 /\ term.drawn = <<>>
  BY DEF Init
<1>3. DOMAIN term.drawn = {}
  BY <1>2
<1>4. Column(term, 0)
  <2>1. 0 = 0 * Cw(term)
    BY <1>1, CellFits DEF Good
  <2> QED BY <2>1 DEF Column
<1>5. Decoder(term)
  <2>1. EscMax \in Nat
    BY ConsoleAssumption
  <2> QED BY <1>2, <2>1 DEF Decoder, White
<1>6. TermInv(term)
  BY <1>1, <1>2, <1>3, <1>4, <1>5 DEF TermInv, Grid, Cells
<1>7. call = NoCall /\ held \in [shift : BOOLEAN, ctrl : BOOLEAN]
  BY DEF Init
<1> QED BY <1>3, <1>6, <1>7, NoCallFacts DEF LineInv, OnTerm

\* Behind counts cells: the picture k cells before the cursor is k characters old.
LEMMA BehindIs ==
  ASSUME NEW c \in Nat \ {0}, NEW x \in Int, NEW a \in Int, NEW k \in Nat, a = x - k * c
  PROVE  (x - a) \div c = k
<1>1. x - a = k * c
  OBVIOUS
<1>2. PICK q : q = (k * c) \div c
  OBVIOUS
<1>3. q \in Int /\ q * c <= k * c /\ k * c < q * c + c
  BY <1>2
<1>4. q <= k
  <2>1. SUFFICES ASSUME q >= k + 1 PROVE FALSE
    BY <1>3
  <2>2. (q - k - 1) * c >= 0
    BY <1>3, <2>1
  <2>3. (q - k - 1) * c = q * c - k * c - c
    BY <1>3
  <2> QED BY <1>3, <2>2, <2>3
<1>5. q >= k
  <2>1. SUFFICES ASSUME k >= q + 1 PROVE FALSE
    BY <1>3
  <2>2. (k - q - 1) * c >= 0
    BY <1>3, <2>1
  <2>3. (k - q - 1) * c = k * c - q * c - c
    BY <1>3
  <2> QED BY <1>3, <2>2, <2>3
<1> QED BY <1>1, <1>2, <1>3, <1>4, <1>5

\* The invariant says more than LineShown.
LEMMA LineInvShown == ASSUME LineInv PROVE LineShown
<1>0. TermInv(term) /\ CallType(call) /\ OnTerm(term, call)
      /\ held \in [shift : BOOLEAN, ctrl : BOOLEAN]
  BY DEF LineInv
<1>1. TypeOK
  BY <1>0 DEF TypeOK, TermInv, Decoder, CallType, OnTerm
<1>2. SUFFICES ASSUME call.op = "gets"
      PROVE  /\ \A xy \in DOMAIN term.drawn :
                  xy[2] = term.y /\ xy[1] < term.x =>
                    LET behind == (term.x - xy[1]) \div Cw(term)
                    IN  /\ behind <= Len(call.buf)
                        /\ term.drawn[xy] = <<call.buf[Len(call.buf) + 1 - behind], term.fg>>
             /\ call.start # Lost =>
                  /\ term.x = call.start + Len(call.buf) * Cw(term)
                  /\ \A k \in 1 .. Len(call.buf) :
                       <<term.x - k * Cw(term), term.y>> \in DOMAIN term.drawn
  BY <1>1 DEF LineShown
<1>3. Row(term, call.buf) /\ Whole(term, call.buf, call.start)
  BY <1>0, <1>2 DEF OnTerm
<1>4. ASSUME NEW xy \in DOMAIN term.drawn, xy[2] = term.y, xy[1] < term.x,
             NEW behind, behind = (term.x - xy[1]) \div Cw(term)
      PROVE  /\ behind <= Len(call.buf)
             /\ term.drawn[xy] = <<call.buf[Len(call.buf) + 1 - behind], term.fg>>
  <2>1. PICK k \in 1 .. Len(call.buf) :
           /\ xy[1] = term.x - k * Cw(term)
           /\ term.drawn[xy] = <<call.buf[Len(call.buf) + 1 - k], term.fg>>
    BY <1>3, <1>4 DEF Row
  <2>2. Len(call.buf) \in Nat
    BY <1>0 DEF CallType
  <2>3. term.x \in Int /\ xy[1] \in Int /\ Cw(term) \in Nat \ {0} /\ k \in Nat
    <3>1. Good(term) /\ xy \in Nat \X Nat
      BY <1>0 DEF TermInv, Grid, Cells
    <3> QED BY <2>2, <3>1, CellFits DEF Good, OnScreen
  <2>4. behind = k
    <3>1. PICK c, x, a : c = Cw(term) /\ x = term.x /\ a = xy[1]
      OBVIOUS
    <3>2. (x - a) \div c = k
      BY <2>1, <2>3, <3>1, BehindIs
    <3> QED BY <1>4, <3>1, <3>2
  <2> QED BY <2>1, <2>2, <2>4
<1>5. call.start # Lost =>
        /\ term.x = call.start + Len(call.buf) * Cw(term)
        /\ \A k \in 1 .. Len(call.buf) :
             <<term.x - k * Cw(term), term.y>> \in DOMAIN term.drawn
  BY <1>3 DEF Whole
<1> QED BY <1>4, <1>5

\* The line a program reads is the line the user sees: what stands before the cursor
\* is the end of the buffer, and all of it stands there until it wraps or a zoom
\* clears it.
THEOREM LineStaysShown == Spec => []LineShown
<1>1. LineInv /\ [Next]_vars => LineInv'
  BY NextLine
<1>2. Init => LineInv
  BY InitLine
<1>3. LineInv => LineShown
  BY LineInvShown
<1> QED BY <1>1, <1>2, <1>3, PTL DEF Spec

--------------------------------------------------------------------------------
(* Texts. Two terminals are alike when they show the same: the decoder's state may   *)
(* differ.                                                                      *)
Alike(t, u) ==
  /\ DOMAIN u = Fields /\ u.x = t.x /\ u.y = t.y /\ u.scale = t.scale /\ u.fg = t.fg
  /\ u.drawn = t.drawn

\* Drawing and scrolling look at nothing but what is shown.
LEMMA DrawAlike ==
  ASSUME NEW t, NEW u, DOMAIN t = Fields, Alike(t, u), NEW c
  PROVE  Alike(Draw(t, c), Draw(u, c)) /\ DOMAIN Draw(t, c) = Fields
<1> DEFINE d(v) == [xy \in DOMAIN v.drawn \cup {<<v.x, v.y>>} |->
                      IF xy = <<v.x, v.y>> THEN <<Glyph(c), v.fg>> ELSE v.drawn[xy]]
<1>1. Draw(t, c) = [t EXCEPT !.drawn = d(t)] /\ Draw(u, c) = [u EXCEPT !.drawn = d(u)]
  BY DEF Draw
<1>2. d(t) = d(u)
  BY DEF Alike
<1> HIDE DEF d
<1> QED BY <1>1, <1>2 DEF Alike, Fields

\* The same of scrolling.
LEMMA ScrollAlike ==
  ASSUME NEW t, NEW u, DOMAIN t = Fields, Alike(t, u)
  PROVE  Alike(Scroll(t), Scroll(u)) /\ DOMAIN Scroll(t) = Fields
<1> DEFINE h    == Ch(t)
           d(v) == [xy \in {<<q[1], q[2] - h>> : q \in {r \in DOMAIN v.drawn : r[2] >= h}} |->
                      v.drawn[<<xy[1], xy[2] + h>>]]
<1>0. Ch(u) = h
  BY DEF Alike, Ch
<1> HIDE DEF h
<1>1. Scroll(t) = [t EXCEPT !.drawn = d(t)] /\ Scroll(u) = [u EXCEPT !.drawn = d(u)]
  BY <1>0 DEF Scroll, h
<1>2. d(t) = d(u)
  BY DEF Alike
<1> HIDE DEF d
<1> QED BY <1>1, <1>2 DEF Alike, Fields

\* The same of a new line.
LEMMA NewlineAlike ==
  ASSUME NEW t, NEW u, DOMAIN t = Fields, Alike(t, u)
  PROVE  Alike(fb_newline(t), fb_newline(u)) /\ DOMAIN fb_newline(t) = Fields
<1>0. Ch(u) = Ch(t) /\ u.y = t.y
  BY DEF Alike, Ch
<1>1. CASE t.y + Ch(t) + Ch(t) > Height
  <2>1. PICK s, r : s = Scroll(t) /\ r = Scroll(u)
    OBVIOUS
  <2>2. fb_newline(t) = [s EXCEPT !.x = 0] /\ fb_newline(u) = [r EXCEPT !.x = 0]
    BY <1>0, <1>1, <2>1 DEF fb_newline
  <2>3. DOMAIN s = Fields /\ Alike(s, r)
    BY <2>1, ScrollAlike
  <2> QED BY <2>2, <2>3 DEF Alike, Fields
<1>2. CASE ~(t.y + Ch(t) + Ch(t) > Height)
  <2>1. /\ fb_newline(t) = [t EXCEPT !.x = 0, !.y = t.y + Ch(t)]
        /\ fb_newline(u) = [u EXCEPT !.x = 0, !.y = t.y + Ch(t)]
    BY <1>0, <1>2 DEF fb_newline
  <2> QED BY <2>1 DEF Alike, Fields
<1> QED BY <1>1, <1>2

\* The same of a character: what is drawn depends on nothing but what is shown.
LEMMA PutcharAlike ==
  ASSUME NEW t, NEW u, Good(t), Alike(t, u), NEW c
  PROVE  Alike(fb_putchar_cursor(t, c), fb_putchar_cursor(u, c))
<1>0. DOMAIN t = Fields /\ Cw(u) = Cw(t) /\ u.x = t.x
  BY DEF Good, Alike, Cw
<1>1. CASE c = NL
  <2>1. fb_putchar_cursor(t, c) = fb_newline(t) /\ fb_putchar_cursor(u, c) = fb_newline(u)
    BY <1>1 DEF fb_putchar_cursor, NL, BS
  <2> QED BY <1>0, <2>1, NewlineAlike
<1>2. CASE c = BS /\ t.x >= Cw(t)
  <2>0. c # NL /\ ~(t.x < Cw(t))
    BY <1>2, CellFits DEF Good, OnScreen, NL, BS
  <2>1. PICK b, e : b = [t EXCEPT !.x = @ - Cw(t)] /\ e = [u EXCEPT !.x = @ - Cw(u)]
    OBVIOUS
  <2>2. fb_putchar_cursor(t, c) = Draw(b, SPACE) /\ fb_putchar_cursor(u, c) = Draw(e, SPACE)
    BY <1>0, <1>2, <2>0, <2>1, Zenon DEF fb_putchar_cursor
  <2>3. DOMAIN b = Fields /\ Alike(b, e)
    BY <1>0, <2>1 DEF Alike, Fields
  <2> QED BY <2>2, <2>3, DrawAlike
<1>3. CASE c = BS /\ ~(t.x >= Cw(t))
  <2>1. c # NL /\ t.x < Cw(t)
    BY <1>3, CellFits DEF Good, OnScreen, NL, BS
  <2>2. fb_putchar_cursor(t, c) = t /\ fb_putchar_cursor(u, c) = u
    BY <1>0, <1>3, <2>1, Zenon DEF fb_putchar_cursor
  <2> QED BY <2>2
<1>4. CASE c # NL /\ c # BS
  <2>1. PICK b, e : b = Draw(t, c) /\ e = Draw(u, c)
    OBVIOUS
  <2>2. fb_putchar_cursor(t, c) = Advance(b) /\ fb_putchar_cursor(u, c) = Advance(e)
    BY <1>4, <2>1 DEF fb_putchar_cursor
  <2>3. DOMAIN b = Fields /\ Alike(b, e)
    BY <1>0, <2>1, DrawAlike
  <2>4. Cw(e) = Cw(b) /\ e.x = b.x
    BY <2>3 DEF Alike, Cw
  <2>5. CASE b.x + Cw(b) + Cw(b) > Width
    <3>1. Advance(b) = fb_newline(b) /\ Advance(e) = fb_newline(e)
      BY <2>4, <2>5 DEF Advance
    <3> QED BY <2>2, <2>3, <3>1, NewlineAlike
  <2>6. CASE ~(b.x + Cw(b) + Cw(b) > Width)
    <3>1. /\ Advance(b) = [b EXCEPT !.x = b.x + Cw(b)]
          /\ Advance(e) = [e EXCEPT !.x = b.x + Cw(b)]
      BY <2>4, <2>6 DEF Advance
    <3>2. Alike(Advance(b), Advance(e))
      BY <2>3, <3>1 DEF Alike, Fields
    <3> QED BY <2>2, <3>2
  <2> QED BY <2>5, <2>6
<1> QED BY <1>1, <1>2, <1>3, <1>4

\* The same, with the length named.
LEMMA DecodedBytes ==
  ASSUME NEW t, NEW s, Len(s) \in Nat, NEW n, Len(s) = n
  PROVE  \E f : /\ f[0] = t /\ \A i \in 1 .. n : f[i] = fb_putchar_cursor_utf8(f[i - 1], s[i])
               /\ Decoded(t, s) = f[n]
BY DecodedRun

\* The bytes of an item, one after the other: the terminals they lead through.
LEMMA DecodedFrom ==
  ASSUME NEW t, NEW s, NEW n \in 1 .. 5, Len(s) = n
  PROVE  \E f : /\ f[0] = t /\ \A i \in 1 .. n : f[i] = fb_putchar_cursor_utf8(f[i - 1], s[i])
               /\ Decoded(t, s) = f[n]
<1>1. Len(s) \in Nat
  OBVIOUS
<1> QED BY <1>1, DecodedBytes

\* One byte.
LEMMA Decoded1 ==
  ASSUME NEW t, NEW a,
         NEW v1,
         v1 = fb_putchar_cursor_utf8(t, a)
  PROVE  Decoded(t, <<a>>) = v1
<1> DEFINE s == <<a>>
<1>1. Len(s) = 1 /\ s[1] = a
  OBVIOUS
<1> HIDE DEF s
<1>2. PICK f : /\ f[0] = t /\ \A i \in 1 .. 1 : f[i] = fb_putchar_cursor_utf8(f[i - 1], s[i])
               /\ Decoded(t, s) = f[1]
  BY <1>1, DecodedFrom
<1>3. f[1] = v1
  <2>1. f[1] = v1
    BY <1>1, <1>2
  <2> QED BY <2>1
<1> QED BY <1>2, <1>3 DEF s

\* Two.
LEMMA Decoded2 ==
  ASSUME NEW t, NEW a, NEW b,
         NEW v1, NEW v2,
         v1 = fb_putchar_cursor_utf8(t, a),
         v2 = fb_putchar_cursor_utf8(v1, b)
  PROVE  Decoded(t, <<a, b>>) = v2
<1> DEFINE s == <<a, b>>
<1>1. Len(s) = 2 /\ s[1] = a /\ s[2] = b
  OBVIOUS
<1> HIDE DEF s
<1>2. PICK f : /\ f[0] = t /\ \A i \in 1 .. 2 : f[i] = fb_putchar_cursor_utf8(f[i - 1], s[i])
               /\ Decoded(t, s) = f[2]
  BY <1>1, DecodedFrom
<1>3. f[1] = v1 /\ f[2] = v2
  <2>1. f[1] = v1
    BY <1>1, <1>2
  <2>2. f[2] = v2
    BY <1>1, <1>2, <2>1
  <2> QED BY <2>1, <2>2
<1> QED BY <1>2, <1>3 DEF s

\* Three.
LEMMA Decoded3 ==
  ASSUME NEW t, NEW a, NEW b, NEW c,
         NEW v1, NEW v2, NEW v3,
         v1 = fb_putchar_cursor_utf8(t, a),
         v2 = fb_putchar_cursor_utf8(v1, b),
         v3 = fb_putchar_cursor_utf8(v2, c)
  PROVE  Decoded(t, <<a, b, c>>) = v3
<1> DEFINE s == <<a, b, c>>
<1>1. Len(s) = 3 /\ s[1] = a /\ s[2] = b /\ s[3] = c
  OBVIOUS
<1> HIDE DEF s
<1>2. PICK f : /\ f[0] = t /\ \A i \in 1 .. 3 : f[i] = fb_putchar_cursor_utf8(f[i - 1], s[i])
               /\ Decoded(t, s) = f[3]
  BY <1>1, DecodedFrom
<1>3. f[1] = v1 /\ f[2] = v2 /\ f[3] = v3
  <2>1. f[1] = v1
    BY <1>1, <1>2
  <2>2. f[2] = v2
    BY <1>1, <1>2, <2>1
  <2>3. f[3] = v3
    BY <1>1, <1>2, <2>2
  <2> QED BY <2>1, <2>2, <2>3
<1> QED BY <1>2, <1>3 DEF s

\* Four.
LEMMA Decoded4 ==
  ASSUME NEW t, NEW a, NEW b, NEW c, NEW d,
         NEW v1, NEW v2, NEW v3, NEW v4,
         v1 = fb_putchar_cursor_utf8(t, a),
         v2 = fb_putchar_cursor_utf8(v1, b),
         v3 = fb_putchar_cursor_utf8(v2, c),
         v4 = fb_putchar_cursor_utf8(v3, d)
  PROVE  Decoded(t, <<a, b, c, d>>) = v4
<1> DEFINE s == <<a, b, c, d>>
<1>1. Len(s) = 4 /\ s[1] = a /\ s[2] = b /\ s[3] = c /\ s[4] = d
  OBVIOUS
<1> HIDE DEF s
<1>2. PICK f : /\ f[0] = t /\ \A i \in 1 .. 4 : f[i] = fb_putchar_cursor_utf8(f[i - 1], s[i])
               /\ Decoded(t, s) = f[4]
  BY <1>1, DecodedFrom
<1>3. f[1] = v1 /\ f[2] = v2 /\ f[3] = v3 /\ f[4] = v4
  <2>1. f[1] = v1
    BY <1>1, <1>2
  <2>2. f[2] = v2
    BY <1>1, <1>2, <2>1
  <2>3. f[3] = v3
    BY <1>1, <1>2, <2>2
  <2>4. f[4] = v4
    BY <1>1, <1>2, <2>3
  <2> QED BY <2>1, <2>2, <2>3, <2>4
<1> QED BY <1>2, <1>3 DEF s

\* Five.
LEMMA Decoded5 ==
  ASSUME NEW t, NEW a, NEW b, NEW c, NEW d, NEW e,
         NEW v1, NEW v2, NEW v3, NEW v4, NEW v5,
         v1 = fb_putchar_cursor_utf8(t, a),
         v2 = fb_putchar_cursor_utf8(v1, b),
         v3 = fb_putchar_cursor_utf8(v2, c),
         v4 = fb_putchar_cursor_utf8(v3, d),
         v5 = fb_putchar_cursor_utf8(v4, e)
  PROVE  Decoded(t, <<a, b, c, d, e>>) = v5
<1> DEFINE s == <<a, b, c, d, e>>
<1>1. Len(s) = 5 /\ s[1] = a /\ s[2] = b /\ s[3] = c /\ s[4] = d /\ s[5] = e
  OBVIOUS
<1> HIDE DEF s
<1>2. PICK f : /\ f[0] = t /\ \A i \in 1 .. 5 : f[i] = fb_putchar_cursor_utf8(f[i - 1], s[i])
               /\ Decoded(t, s) = f[5]
  BY <1>1, DecodedFrom
<1>3. f[1] = v1 /\ f[2] = v2 /\ f[3] = v3 /\ f[4] = v4 /\ f[5] = v5
  <2>1. f[1] = v1
    BY <1>1, <1>2
  <2>2. f[2] = v2
    BY <1>1, <1>2, <2>1
  <2>3. f[3] = v3
    BY <1>1, <1>2, <2>2
  <2>4. f[4] = v4
    BY <1>1, <1>2, <2>3
  <2>5. f[5] = v5
    BY <1>1, <1>2, <2>4
  <2> QED BY <2>1, <2>2, <2>3, <2>4, <2>5
<1> QED BY <1>2, <1>3 DEF s

\* A terminal between two characters of a text: u shows what it should.
Between(t, u) == TermInv(t) /\ t.esc = 0 /\ Alike(t, u)

\* Any byte leaves a terminal a terminal.
LEMMA Utf8Inv ==
  ASSUME NEW t, TermInv(t), NEW b \in Nat
  PROVE  TermInv(fb_putchar_cursor_utf8(t, b))
BY Utf8Good, Utf8Decoder DEF TermInv

\* A character begun: k more bytes are to come.
Expecting(t, k, cp) == [t EXCEPT !.cp = cp, !.left = k]
\* The same, shown by u.
Begun(t, u, k, cp) == Between(t, u) /\ t.left = k /\ t.cp = cp
\* Six more bits.
Joined(cp, b) == cp * 64 + (b % 64)

\* A complete character is drawn as if nothing had been kept of it.
LEMMA ResetDraws ==
  ASSUME NEW t, NEW u, Between(t, u), NEW c, NEW r, r = Expecting(t, 0, 0)
  PROVE  Between(fb_putchar_cursor(r, c), fb_putchar_cursor(u, c))
<1>1. r = [t EXCEPT !.cp = 0, !.left = 0]
  BY DEF Expecting
<1>2. TermInv(r)
  BY <1>1, ResetFacts DEF Between, TermInv
<1>3. Alike(r, u) /\ r.esc = 0
  BY <1>1 DEF Between, Alike, TermInv, Good, Fields
<1>4. PICK v : v = fb_putchar_cursor(r, c)
  OBVIOUS
<1>5. TermInv(v) /\ Kept(r, v)
  BY <1>2, <1>4, PutcharInv, PutcharFacts DEF TermInv
<1>6. v.esc = 0
  BY <1>3, <1>5 DEF Kept
<1>7. Alike(v, fb_putchar_cursor(u, c))
  BY <1>2, <1>3, <1>4, PutcharAlike DEF TermInv
<1> QED BY <1>1, <1>4, <1>5, <1>6, <1>7 DEF Between

\* A character of one byte.
LEMMA OneByte ==
  ASSUME NEW t, NEW u, Between(t, u), NEW n \in 1 .. 127, n # ESC
  PROVE  Between(fb_putchar_cursor_utf8(t, n), fb_putchar_cursor(u, n))
<1>1. PICK r : r = Expecting(t, 0, 0)
  OBVIOUS
<1>2. fb_putchar_cursor_utf8(t, n) = fb_putchar_cursor(r, n)
  BY <1>1 DEF fb_putchar_cursor_utf8, Between, Expecting
<1> QED BY <1>1, <1>2, ResetDraws

\* The first byte of a longer one.
LEMMA FirstByte ==
  ASSUME NEW t, NEW u, Between(t, u), NEW b \in 192 .. 247, NEW k, NEW cp,
         Lead(t, b) = Expecting(t, k, cp),
         NEW v, v = fb_putchar_cursor_utf8(t, b)
  PROVE  Begun(v, u, k, cp)
<1>1. v = Lead(t, b)
  <2>1. b # ESC /\ ~(b < 128) /\ b >= 192
    BY DEF ESC
  <2>2. t.esc = 0
    BY DEF Between
  <2> QED BY <2>1, <2>2 DEF fb_putchar_cursor_utf8
<1>2. v.left = k /\ v.cp = cp /\ v.esc = 0 /\ Alike(v, u)
  BY <1>1 DEF Expecting, Between, Alike, TermInv, Good, Fields
<1>3. TermInv(v)
  <2>1. b \in Nat
    OBVIOUS
  <2> QED BY <2>1, Utf8Inv DEF Between
<1> QED BY <1>2, <1>3 DEF Between, Begun

\* The first of two.
LEMMA FirstOfTwo ==
  ASSUME NEW t, NEW u, Between(t, u), NEW q \in 0 .. 31,
         NEW v, v = fb_putchar_cursor_utf8(t, 192 + q)
  PROVE  Begun(v, u, 1, q)
<1>1. PICK b : b = 192 + q
  OBVIOUS
<1>0. b \in 192 .. 247
  BY <1>1
<1>2. ~(b >= 240) /\ ~(b >= 224) /\ b % 32 = q
  BY <1>1
<1>3. Lead(t, b) = Expecting(t, 1, q)
  BY <1>2 DEF Lead, Expecting
<1>4. v = fb_putchar_cursor_utf8(t, b)
  BY <1>1
<1> QED BY <1>0, <1>3, <1>4, FirstByte

\* The first of three.
LEMMA FirstOfThree ==
  ASSUME NEW t, NEW u, Between(t, u), NEW q \in 0 .. 15,
         NEW v, v = fb_putchar_cursor_utf8(t, 224 + q)
  PROVE  Begun(v, u, 2, q)
<1>1. PICK b : b = 224 + q
  OBVIOUS
<1>0. b \in 192 .. 247
  BY <1>1
<1>2. ~(b >= 240) /\ b >= 224 /\ b % 16 = q
  BY <1>1
<1>3. Lead(t, b) = Expecting(t, 2, q)
  <2> DEFINE four == [t EXCEPT !.cp = b % 8, !.left = 3]
             three == [t EXCEPT !.cp = b % 16, !.left = 2]
             two == [t EXCEPT !.cp = b % 32, !.left = 1]
  <2>1. Lead(t, b) = IF b >= 240 THEN four ELSE IF b >= 224 THEN three ELSE two
    BY Zenon DEF Lead
  <2>2. three = Expecting(t, 2, q)
    BY <1>2 DEF Expecting
  <2> HIDE DEF two, three, four
  <2> QED BY <1>2, <2>1, <2>2
<1>4. v = fb_putchar_cursor_utf8(t, b)
  BY <1>1
<1> QED BY <1>0, <1>3, <1>4, FirstByte

\* The first of four.
LEMMA FirstOfFour ==
  ASSUME NEW t, NEW u, Between(t, u), NEW q \in 0 .. 7,
         NEW v, v = fb_putchar_cursor_utf8(t, 240 + q)
  PROVE  Begun(v, u, 3, q)
<1>1. PICK b : b = 240 + q
  OBVIOUS
<1>0. b \in 192 .. 247
  BY <1>1
<1>2. b >= 240 /\ b % 8 = q
  BY <1>1
<1>3. Lead(t, b) = Expecting(t, 3, q)
  BY <1>2 DEF Lead, Expecting
<1>4. v = fb_putchar_cursor_utf8(t, b)
  BY <1>1
<1> QED BY <1>0, <1>3, <1>4, FirstByte

\* One of the next, when more are to come.
LEMMA NextByte ==
  ASSUME NEW t, NEW u, NEW b \in 128 .. 191,
         NEW k \in {1, 2}, NEW cp, Begun(t, u, k + 1, cp),
         NEW v, v = fb_putchar_cursor_utf8(t, b)
  PROVE  Begun(v, u, k, Joined(cp, b))
<1>0. Between(t, u) /\ t.left = k + 1 /\ t.cp = cp /\ t.esc = 0
  BY DEF Begun, Between
<1>1. v = Continued(t, b)
  <2>1. b # ESC /\ ~(b < 128) /\ ~(b >= 192)
    BY DEF ESC
  <2> QED BY <1>0, <2>1, Zenon DEF fb_putchar_cursor_utf8
<1>2. Continued(t, b) = Expecting(t, k, Joined(cp, b))
  <2>1. t.left # 0 /\ t.left # 1 /\ t.left - 1 = k
    BY <1>0
  <2> QED BY <1>0, <2>1, Zenon DEF Continued, Joined, Expecting
<1>3. v.left = k /\ v.cp = Joined(cp, b) /\ v.esc = 0 /\ Alike(v, u)
  BY <1>0, <1>1, <1>2 DEF Expecting, Between, Alike, TermInv, Good, Fields
<1>4. TermInv(v)
  <2>1. b \in Nat
    OBVIOUS
  <2> QED BY <1>0, <2>1, Utf8Inv DEF Between
<1> QED BY <1>3, <1>4 DEF Between, Begun

\* The last one: what is drawn stands for a code point beyond ASCII.
LEMMA LastByte ==
  ASSUME NEW t, NEW u, NEW b \in 128 .. 191,
         NEW q, Begun(t, u, 1, q), Joined(q, b) >= 128,
         NEW v, v = fb_putchar_cursor_utf8(t, b)
  PROVE  Between(v, fb_putchar_cursor(u, QUESTION))
<1> DEFINE cp == Joined(q, b)
<1>0. Between(t, u) /\ t.left = 1 /\ t.cp = q /\ t.esc = 0
  BY DEF Begun, Between
<1>1. PICK r : r = Expecting(t, 0, 0)
  OBVIOUS
<1>2. v = Continued(t, b)
  <2>1. b # ESC /\ ~(b < 128) /\ ~(b >= 192)
    BY DEF ESC
  <2> QED BY <1>0, <2>1, Zenon DEF fb_putchar_cursor_utf8
<1>3. Continued(t, b) = fb_putchar_cursor(r, IF cp < 128 THEN cp ELSE QUESTION)
  BY <1>0, <1>1 DEF Continued, Expecting, Joined
<1>4. ~(cp < 128)
  <2>1. q \in Nat
    BY <1>0 DEF Between, TermInv, Decoder
  <2>2. cp \in Int
    BY <2>1 DEF Joined
  <2> QED BY <2>2
<1> HIDE DEF cp
<1>5. v = fb_putchar_cursor(r, QUESTION)
  BY <1>2, <1>3, <1>4
<1> QED BY <1>0, <1>1, <1>5, ResetDraws

\* The last six bits of a number, and the rest.
LEMMA SixBits ==
  ASSUME NEW n \in Nat
  PROVE  /\ n \div 64 \in Nat /\ Cont(n) \in 128 .. 191
         /\ Joined(n \div 64, Cont(n)) = n
<1>1. PICK q \in Nat, r \in 0 .. 63 : q = n \div 64 /\ r = n % 64 /\ n = q * 64 + r
  OBVIOUS
<1>2. (128 + r) % 64 = r /\ 128 + r \in 128 .. 191
  OBVIOUS
<1> QED BY <1>1, <1>2 DEF Cont, Joined

\* The first bytes say how many follow, and the rest of them is the number.
LEMMA FirstBits ==
  ASSUME NEW q \in Nat
  PROVE  /\ q < 32 => 192 + q \in 192 .. 223 /\ (192 + q) % 32 = q
         /\ q < 16 => 224 + q \in 224 .. 239 /\ (224 + q) % 16 = q
         /\ q < 8 => 240 + q \in 240 .. 247 /\ (240 + q) % 8 = q
OBVIOUS

\* A character is drawn as meant, whatever came before it.
LEMMA CharShown ==
  ASSUME NEW t, NEW u, Between(t, u), NEW n \in Points
  PROVE  Between(Decoded(t, Utf8(n)), fb_putchar_cursor(u, Glyph(n)))
<1> DEFINE q == n \div 64
           hi == q \div 64
           o == hi \div 64
           d == Cont(n)
           c == Cont(q)
           b == Cont(hi)
<1>1. n \in Nat /\ n # 0 /\ n # ESC /\ o < 8
  BY TextAssumption
<1>2. q \in Nat /\ d \in 128 .. 191 /\ Joined(q, d) = n
  BY <1>1, SixBits
<1>3. hi \in Nat /\ c \in 128 .. 191 /\ Joined(hi, c) = q
  BY <1>2, SixBits
<1>4. o \in Nat /\ b \in 128 .. 191 /\ Joined(o, b) = hi
  BY <1>3, SixBits
<1>5. Utf8(n) = IF n < 128 THEN <<n>>
                ELSE IF q < 32 THEN <<192 + q, d>>
                ELSE IF hi < 16 THEN <<224 + hi, c, d>>
                ELSE <<240 + o, b, c, d>>
  BY DEF Utf8
<1> HIDE DEF q, hi, o, b, c, d
<1>6. CASE n < 128
  <2>1. Utf8(n) = <<n>> /\ Glyph(n) = n /\ n \in 1 .. 127
    BY <1>1, <1>5, <1>6 DEF Glyph
  <2>2. PICK v : v = fb_putchar_cursor_utf8(t, n)
    OBVIOUS
  <2>3. Decoded(t, <<n>>) = v
    BY <2>2, Decoded1
  <2> QED BY <1>1, <2>1, <2>2, <2>3, OneByte
<1>7. CASE n >= 128
  <2>0. Glyph(n) = QUESTION /\ ~(n < 128)
    BY <1>1, <1>7 DEF Glyph
  <2>1. CASE q < 32
    <3>1. Utf8(n) = <<192 + q, d>>
      BY <1>5, <2>0, <2>1
    <3>2. PICK a : a = 192 + q
      OBVIOUS
    <3>3. PICK v : v = fb_putchar_cursor_utf8(t, a)
      OBVIOUS
    <3>4. PICK w : w = fb_putchar_cursor_utf8(v, d)
      OBVIOUS
    <3>5. Begun(v, u, 1, q)
      BY <1>2, <2>1, <3>2, <3>3, FirstOfTwo
    <3>6. Between(w, fb_putchar_cursor(u, QUESTION))
      BY <1>2, <1>7, <3>4, <3>5, LastByte
    <3>7. Decoded(t, <<a, d>>) = w
      BY <3>3, <3>4, Decoded2
    <3> QED BY <2>0, <3>1, <3>2, <3>6, <3>7
  <2>2. CASE ~(q < 32) /\ hi < 16
    <3>1. Utf8(n) = <<224 + hi, c, d>>
      BY <1>5, <2>0, <2>2
    <3>2. PICK a : a = 224 + hi
      OBVIOUS
    <3>3. PICK v : v = fb_putchar_cursor_utf8(t, a)
      OBVIOUS
    <3>4. PICK w : w = fb_putchar_cursor_utf8(v, c)
      OBVIOUS
    <3>5. PICK x : x = fb_putchar_cursor_utf8(w, d)
      OBVIOUS
    <3>6. Begun(v, u, 2, hi)
      BY <1>3, <2>2, <3>2, <3>3, FirstOfThree
    <3>7. Begun(w, u, 1, q)
      <4>1. 1 \in {1, 2} /\ 1 + 1 = 2
        OBVIOUS
      <4> QED BY <1>3, <3>4, <3>6, <4>1, NextByte
    <3>8. Between(x, fb_putchar_cursor(u, QUESTION))
      BY <1>2, <1>7, <3>5, <3>7, LastByte
    <3>9. Decoded(t, <<a, c, d>>) = x
      BY <3>3, <3>4, <3>5, Decoded3
    <3> QED BY <2>0, <3>1, <3>2, <3>8, <3>9
  <2>3. CASE ~(q < 32) /\ ~(hi < 16)
    <3>1. Utf8(n) = <<240 + o, b, c, d>>
      BY <1>5, <2>0, <2>3
    <3>2. PICK a : a = 240 + o
      OBVIOUS
    <3>3. PICK v : v = fb_putchar_cursor_utf8(t, a)
      OBVIOUS
    <3>4. PICK w : w = fb_putchar_cursor_utf8(v, b)
      OBVIOUS
    <3>5. PICK x : x = fb_putchar_cursor_utf8(w, c)
      OBVIOUS
    <3>6. PICK y : y = fb_putchar_cursor_utf8(x, d)
      OBVIOUS
    <3>7. Begun(v, u, 3, o)
      BY <1>1, <1>4, <3>2, <3>3, FirstOfFour
    <3>8. Begun(w, u, 2, hi)
      <4>1. 2 \in {1, 2} /\ 2 + 1 = 3
        OBVIOUS
      <4> QED BY <1>4, <3>4, <3>7, <4>1, NextByte
    <3>9. Begun(x, u, 1, q)
      <4>1. 1 \in {1, 2} /\ 1 + 1 = 2
        OBVIOUS
      <4> QED BY <1>3, <3>5, <3>8, <4>1, NextByte
    <3>10. Between(y, fb_putchar_cursor(u, QUESTION))
      BY <1>2, <1>7, <3>6, <3>9, LastByte
    <3>11. Decoded(t, <<a, b, c, d>>) = y
      BY <3>3, <3>4, <3>5, <3>6, Decoded4
    <3> QED BY <2>0, <3>1, <3>2, <3>10, <3>11
  <2> QED BY <2>1, <2>2, <2>3
<1> QED BY <1>1, <1>6, <1>7

\* A colour's number does not wrap.
LEMMA SmallModulo ==
  ASSUME NEW m \in Nat, m > 37, NEW n \in 0 .. 37
  PROVE  n % m = n
OBVIOUS

\* Two digits are read as the number they are.
LEMMA AnsiReads ==
  ASSUME NEW c \in 30 .. 37, NEW s, NEW a, a.code = 0,
         Len(s) = 3, s[1] = 48 + (c \div 10), s[2] = 48 + (c % 10), s[3] = 0
  PROVE  AnsiBytes(a, s).fg = c
<1>1. c \div 10 = 3 /\ c = 30 + (c % 10) /\ c % 10 \in 0 .. 9
  OBVIOUS
<1>2. PICK r \in 0 .. 9 : r = c % 10 /\ c = 30 + r
  BY <1>1
<1>3. Len(s) = 3 /\ s[1] = 51 /\ s[2] = 48 + r /\ s[3] = 0
  BY <1>1, <1>2
<1>4. PICK f : /\ f[0] = a /\ \A i \in 1 .. Len(s) : f[i] = AnsiStep(f[i - 1], s[i])
               /\ AnsiBytes(a, s) = f[Len(s)]
  <2>1. Len(s) \in Nat
    BY <1>3
  <2> QED BY <2>1, AnsiRun
<1>5. /\ f[1] = AnsiStep(a, 51) /\ f[2] = AnsiStep(f[1], 48 + r) /\ f[3] = AnsiStep(f[2], 0)
      /\ AnsiBytes(a, s) = f[3]
  BY <1>3, <1>4
<1>6. \A n \in 0 .. 37 : n % IntSize = n
  <2>1. IntSize \in Nat /\ IntSize > 37
    BY ConsoleAssumption, TextAssumption
  <2> QED BY <2>1, SmallModulo
<1>7. f[1].code = 3
  <2>1. f[1].code = (a.code * 10 + (51 - 48)) % IntSize
    BY <1>5 DEF AnsiStep, SEMI
  <2> QED BY <1>6, <2>1
<1>8. f[2].code = c
  <2>1. f[2].code = (f[1].code * 10 + (48 + r - 48)) % IntSize
    BY <1>5 DEF AnsiStep, SEMI
  <2>2. f[1].code * 10 + (48 + r - 48) = c
    BY <1>2, <1>7
  <2> QED BY <1>6, <2>1, <2>2
<1>9. f[3].fg = Colour(f[2].code, f[2].fg)
  BY <1>5 DEF AnsiStep
<1> QED BY <1>5, <1>8, <1>9 DEF Colour, White

\* A byte of an escape sequence.
LEMMA EscState ==
  ASSUME NEW t, t.esc # 0, NEW b
  PROVE  fb_putchar_cursor_utf8(t, b) = EscByte(t, b)
BY DEF fb_putchar_cursor_utf8

\* Its beginning.
LEMMA EscBegins ==
  ASSUME NEW t, NEW u, Between(t, u), NEW v, v = fb_putchar_cursor_utf8(t, ESC)
  PROVE  TermInv(v) /\ v.esc = 1 /\ Alike(v, u)
<1>1. t.esc = 0
  BY DEF Between
<1>2. v = [t EXCEPT !.esc = 1]
  BY <1>1 DEF fb_putchar_cursor_utf8, ESC
<1>3. v.esc = 1 /\ Alike(v, u)
  BY <1>2 DEF Between, TermInv, Good, Alike, Fields
<1>4. ESC \in Nat
  BY DEF ESC
<1> QED BY <1>3, <1>4, Utf8Inv DEF Between

\* Its bracket.
LEMMA EscBracket ==
  ASSUME NEW t, NEW u, TermInv(t), t.esc = 1, Alike(t, u),
         NEW v, v = fb_putchar_cursor_utf8(t, BRACKET)
  PROVE  TermInv(v) /\ v.esc = 2 /\ v.escbuf = <<>> /\ Alike(v, u)
<1>1. v = EscByte(t, BRACKET)
  BY EscState
<1>2. v = [t EXCEPT !.esc = 2, !.escbuf = <<>>]
  BY <1>1 DEF EscByte
<1>3. v.esc = 2 /\ v.escbuf = <<>> /\ Alike(v, u)
  BY <1>2 DEF TermInv, Good, Alike, Fields
<1>4. BRACKET \in Nat
  BY DEF BRACKET
<1> QED BY <1>3, <1>4, Utf8Inv

\* A terminal that has read n bytes of the parameters of an escape sequence.
Reads(t, u, n) == TermInv(t) /\ t.esc = 2 /\ Len(t.escbuf) = n /\ Alike(t, u)

\* A digit of it, while there is room.
LEMMA EscDigit ==
  ASSUME NEW t, NEW u, NEW n, Reads(t, u, n), n < EscMax, NEW d \in Digits,
         NEW v, v = fb_putchar_cursor_utf8(t, d)
  PROVE  /\ Reads(v, u, n + 1) /\ v.escbuf[n + 1] = d
         /\ \A i \in 1 .. n : v.escbuf[i] = t.escbuf[i]
<1>0. TermInv(t) /\ t.esc = 2 /\ Len(t.escbuf) = n /\ Alike(t, u)
  BY DEF Reads
<1>1. v = EscByte(t, d)
  BY <1>0, EscState
<1>2. t.esc # 1 /\ d # LETTERM /\ d \in Digits \cup {SEMI} /\ d \in Nat
  BY <1>0 DEF Digits, LETTERM
<1>3. PICK s : s = Append(t.escbuf, d)
  OBVIOUS
<1>4. EscByte(t, d) = [t EXCEPT !.escbuf = s]
  <2>1. Len(t.escbuf) < EscMax
    BY <1>0
  <2> QED BY <1>0, <1>2, <1>3, <2>1, Zenon DEF EscByte
<1>5. v.esc = 2 /\ v.escbuf = s /\ Alike(v, u)
  BY <1>0, <1>1, <1>4 DEF TermInv, Good, Alike, Fields
<1>6. Len(s) = n + 1 /\ s[n + 1] = d /\ \A i \in 1 .. n : s[i] = t.escbuf[i]
  <2>1. t.escbuf \in Seq(Nat)
    BY <1>0 DEF TermInv, Decoder
  <2> QED BY <1>0, <1>2, <1>3, <2>1
<1> QED BY <1>0, <1>2, <1>5, <1>6, Utf8Inv DEF Reads

\* Its end: the colour is what the digits say.
LEMMA EscEnds ==
  ASSUME NEW t, NEW u, TermInv(t), t.esc = 2, Alike(t, u), NEW c, c = handle_ansi(t),
         NEW v, v = fb_putchar_cursor_utf8(t, LETTERM)
  PROVE  Between(v, [u EXCEPT !.fg = c])
<1>1. v = EscByte(t, LETTERM)
  BY EscState
<1>2. LETTERM \notin Digits \cup {SEMI}
  BY DEF LETTERM, Digits, SEMI
<1>3. EscByte(t, LETTERM) = [t EXCEPT !.fg = c, !.esc = 0, !.escbuf = <<>>]
  <2>1. t.esc # 1
    OBVIOUS
  <2> QED BY <1>2, <2>1, Zenon DEF EscByte
<1>4. v.esc = 0 /\ Alike(v, [u EXCEPT !.fg = c])
  BY <1>1, <1>3 DEF TermInv, Good, Alike, Fields
<1>5. LETTERM \in Nat
  BY DEF LETTERM
<1> QED BY <1>4, <1>5, Utf8Inv DEF Between

\* A sequence and one byte after it.
LEMMA OneAfter ==
  ASSUME NEW r \in Seq(Nat), NEW z \in Nat, NEW s, s = Append(r, z), NEW n, n = Len(r)
  PROVE  Len(s) = n + 1 /\ s[n + 1] = z /\ \A i \in 1 .. n : s[i] = r[i]
OBVIOUS

\* A change of colour is one, whatever colour it was.
LEMMA ColourShown ==
  ASSUME NEW t, NEW u, Between(t, u), NEW c \in Colours
  PROVE  Between(Decoded(t, <<ESC, BRACKET, 48 + (c \div 10), 48 + (c % 10), LETTERM>>),
                 [u EXCEPT !.fg = c])
<1>1. c \in 30 .. 37 /\ EscMax >= 2 /\ EscMax \in Nat
  BY TextAssumption, ConsoleAssumption
<1>2. PICK d, e : d = 48 + (c \div 10) /\ e = 48 + (c % 10)
  OBVIOUS
<1>3. d \in Digits /\ e \in Digits
  BY <1>1, <1>2 DEF Digits
<1>4. PICK t1 : t1 = fb_putchar_cursor_utf8(t, ESC)
  OBVIOUS
<1>5. PICK t2 : t2 = fb_putchar_cursor_utf8(t1, BRACKET)
  OBVIOUS
<1>6. PICK t3 : t3 = fb_putchar_cursor_utf8(t2, d)
  OBVIOUS
<1>7. PICK t4 : t4 = fb_putchar_cursor_utf8(t3, e)
  OBVIOUS
<1>8. PICK t5 : t5 = fb_putchar_cursor_utf8(t4, LETTERM)
  OBVIOUS
<1>9. Decoded(t, <<ESC, BRACKET, d, e, LETTERM>>) = t5
  BY <1>4, <1>5, <1>6, <1>7, <1>8, Decoded5
<1>10. TermInv(t1) /\ t1.esc = 1 /\ Alike(t1, u)
  BY <1>4, EscBegins
<1>11. Reads(t2, u, 0)
  <2>1. Len(<<>>) = 0
    OBVIOUS
  <2> QED BY <1>5, <1>10, <2>1, EscBracket DEF Reads
<1>12. Reads(t3, u, 1) /\ t3.escbuf[1] = d
  <2>1. 0 < EscMax /\ 0 + 1 = 1
    BY <1>1
  <2> QED BY <1>3, <1>6, <1>11, <2>1, EscDigit
<1>13. Reads(t4, u, 2) /\ t4.escbuf[1] = d /\ t4.escbuf[2] = e
  <2>1. 1 < EscMax /\ 1 + 1 = 2 /\ 1 \in 1 .. 1
    BY <1>1
  <2> QED BY <1>3, <1>7, <1>12, <2>1, EscDigit
<1>14. c = handle_ansi(t4)
  <2> DEFINE a == [code |-> 0, fg |-> t4.fg]
             s == Append(t4.escbuf, 0)
  <2>1. handle_ansi(t4) = AnsiBytes(a, s).fg
    BY DEF handle_ansi
  <2>2. a.code = 0
    OBVIOUS
  <2>3. Len(s) = 3 /\ s[1] = d /\ s[2] = e /\ s[3] = 0
    <3>1. PICK r, n : r = t4.escbuf /\ n = Len(r)
      OBVIOUS
    <3>2. n = 2 /\ r[1] = d /\ r[2] = e
      BY <1>13, <3>1 DEF Reads
    <3>0. r \in Seq(Nat)
      BY <1>13, <3>1 DEF Reads, TermInv, Decoder
    <3>3. s = Append(r, 0) /\ 0 \in Nat
      BY <3>1
    <3> HIDE DEF s
    <3>4. Len(s) = n + 1 /\ s[n + 1] = 0 /\ \A i \in 1 .. n : s[i] = r[i]
      BY <3>0, <3>1, <3>3, OneAfter
    <3> QED BY <3>2, <3>4
  <2> HIDE DEF a, s
  <2> QED BY <1>1, <1>2, <2>1, <2>2, <2>3, AnsiReads
<1>15. Between(t5, [u EXCEPT !.fg = c])
  BY <1>8, <1>13, <1>14, EscEnds DEF Reads
<1> QED BY <1>2, <1>9, <1>15

\* An item is drawn as meant.
LEMMA ItemShown ==
  ASSUME NEW t, NEW u, Between(t, u), NEW i \in Item
  PROVE  Between(Decoded(t, Encoded(i)), Meant(u, i))
<1>1. CASE i \in [char : Points]
  <2>1. IsChar(i) /\ i.char \in Points
    BY <1>1 DEF IsChar
  <2>2. Encoded(i) = Utf8(i.char) /\ Meant(u, i) = fb_putchar_cursor(u, Glyph(i.char))
    BY <2>1, Zenon DEF Encoded, Meant
  <2> QED BY <2>1, <2>2, CharShown
<1>2. CASE i \in [colour : Colours]
  <2>1. ~IsChar(i) /\ i.colour \in Colours
    BY <1>2 DEF IsChar
  <2>2. PICK c : c = i.colour
    OBVIOUS
  <2>3. /\ Encoded(i) = <<ESC, BRACKET, 48 + (c \div 10), 48 + (c % 10), LETTERM>>
        /\ Meant(u, i) = [u EXCEPT !.fg = c]
    BY <2>1, <2>2, Zenon DEF Encoded, Meant
  <2> QED BY <2>1, <2>2, <2>3, ColourShown
<1> QED BY <1>1, <1>2 DEF Item

\* So is a text, item by item.
LEMMA TextDrawn ==
  ASSUME NEW t, NEW u, Between(t, u), NEW s, Len(s) \in Nat,
         \A i \in 1 .. Len(s) : s[i] \in Item
  PROVE  Between(AsBytes(t, s), AsMeant(u, s))
<1>1. PICK n \in Nat : n = Len(s)
  OBVIOUS
<1>2. PICK f : /\ f[0] = t /\ \A i \in 1 .. n : f[i] = Decoded(f[i - 1], Encoded(s[i]))
               /\ AsBytes(t, s) = f[n]
  BY <1>1, BytesRun
<1>3. PICK g : /\ g[0] = u /\ \A i \in 1 .. n : g[i] = Meant(g[i - 1], s[i])
               /\ AsMeant(u, s) = g[n]
  <2>1. \E g : /\ g[0] = u /\ \A i \in 1 .. Len(s) : g[i] = Meant(g[i - 1], s[i])
               /\ AsMeant(u, s) = g[Len(s)]
    BY MeantRun, Zenon
  <2> QED BY <1>1, <2>1, Zenon
<1> DEFINE T == {i \in 0 .. n : Between(f[i], g[i])}
<1>4. 0 \in T
  BY <1>2, <1>3
<1>5. ASSUME NEW i \in 1 .. n, i - 1 \in T
      PROVE  i \in T
  <2>1. PICK v, w : v = f[i - 1] /\ w = g[i - 1]
    OBVIOUS
  <2>2. Between(v, w) /\ s[i] \in Item
    BY <1>1, <1>5, <2>1
  <2>3. f[i] = Decoded(v, Encoded(s[i])) /\ g[i] = Meant(w, s[i])
    BY <1>2, <1>3, <2>1
  <2>4. Between(f[i], g[i])
    BY <2>2, <2>3, ItemShown
  <2> QED BY <2>4
<1>6. \A i \in 0 .. n : i \in T
  <2> HIDE DEF T
  <2> QED BY <1>4, <1>5, UpTo
<1>7. n \in T
  BY <1>6
<1> QED BY <1>2, <1>3, <1>7

\* What is printed next is drawn as meant.
LEMMA LineInvText == LineInv => TextShown
<1> SUFFICES ASSUME LineInv, term.esc = 0, NEW s \in Text
             PROVE  Seen(AsBytes(term, s)) = Seen(AsMeant(term, s))
  BY DEF TextShown
<1>1. Between(term, term)
  BY DEF LineInv, Between, TermInv, Good, Alike
<1>2. Len(s) \in Nat /\ \A i \in 1 .. Len(s) : s[i] \in Item
  <2>1. PICK n \in 1 .. TextMax : s \in [1 .. n -> Item]
    BY DEF Text
  <2>2. n \in Nat
    BY TextAssumption
  <2>3. s \in Seq(Item) /\ Len(s) = n
    BY <2>1, <2>2
  <2> QED BY <2>1, <2>2, <2>3
<1>3. PICK v, w : v = AsBytes(term, s) /\ w = AsMeant(term, s)
  OBVIOUS
<1>4. Alike(v, w)
  BY <1>1, <1>2, <1>3, TextDrawn DEF Between
<1>5. Seen(v) = Seen(w)
  BY <1>4 DEF Alike, Seen
<1> QED BY <1>3, <1>5

\* Text is drawn as meant whatever was printed before it: of a character that was cut
\* short, and of the colours, nothing is left in the decoder that it would show.
THEOREM TextStaysShown == Spec => []TextShown
<1>1. LineInv /\ [Next]_vars => LineInv'
  BY NextLine
<1>2. Init => LineInv
  BY InitLine
<1>3. LineInv => TextShown
  BY LineInvText
<1> QED BY <1>1, <1>2, <1>3, PTL DEF Spec

--------------------------------------------------------------------------------
(* The shell: Words and Options, step by step.                                  *)
\* What holds of n and goes on from each number to the one before holds from 0 on.
LEMMA DownTo ==
  ASSUME NEW n \in Nat, NEW T, n \in T, \A i \in 1 .. n : i \in T => i - 1 \in T
  PROVE  \A i \in 0 .. n : i \in T
<1> DEFINE U == {i \in 0 .. n : n - i \in T}
<1>1. 0 \in U
  OBVIOUS
<1>2. ASSUME NEW i \in 1 .. n, i - 1 \in U PROVE i \in U
  <2>1. n - (i - 1) \in 1 .. n /\ (n - (i - 1)) - 1 = n - i /\ i \in 0 .. n
    OBVIOUS
  <2>2. n - (i - 1) \in T
    BY <1>2
  <2> QED BY <2>1, <2>2
<1>3. \A i \in 0 .. n : i \in U
  <2> HIDE DEF U
  <2> QED BY <1>1, <1>2, UpTo
<1>4. ASSUME NEW i \in 0 .. n PROVE i \in T
  <2>1. n - i \in 0 .. n /\ n - (n - i) = i
    OBVIOUS
  <2>2. n - i \in U
    BY <1>3, <2>1
  <2>3. n - (n - i) \in T
    BY <2>2
  <2> QED BY <2>1, <2>3
<1> QED BY <1>4

\* Min is the least number of a set, and nothing else is.
LEMMA MinIn ==
  ASSUME NEW S \in SUBSET Nat, S # {}
  PROVE  Min(S) \in S /\ \A y \in S : Min(S) <= y
BY LeastNat DEF Min

\* Whatever is least in a set of numbers is Min.
LEMMA MinIs ==
  ASSUME NEW S \in SUBSET Nat, NEW m \in S, \A y \in S : m <= y
  PROVE  Min(S) = m
<1>1. Min(S) \in Nat /\ m \in Nat /\ Min(S) <= m /\ m <= Min(S)
  BY MinIn
<1> QED BY <1>1

\* The word at place i of a line: where it starts, what ends it and where.
StartOf(line, i) == IF line[i] = QUOTE THEN i + 1 ELSE i
Closing(line, i) == IF line[i] = QUOTE THEN QUOTE ELSE BLANK
Closed(line, i)  == {k \in StartOf(line, i) .. Len(line) : line[k] = Closing(line, i)}
                      \cup {Len(line) + 1}
StopOf(line, i)  == Min(Closed(line, i))
WordAt(line, i)  == SubSeq(line, StartOf(line, i), StopOf(line, i) - 1)

\* What Words does at place i, when h is what it makes of the rest.
WordsAt(line, h, i) ==
  IF i > Len(line) THEN <<>>
  ELSE IF line[i] = BLANK THEN h[i + 1]
  ELSE <<WordAt(line, i)>> \o h[StopOf(line, i) + 1]

\* A word ends in the line or just after it.
LEMMA StopInLine ==
  ASSUME NEW line \in Seq(Chars), NEW i \in 1 .. Len(line)
  PROVE  /\ StartOf(line, i) \in i .. (i + 1)
         /\ Closed(line, i) \in SUBSET Nat
         /\ StopOf(line, i) \in StartOf(line, i) .. (Len(line) + 1)
         /\ StopOf(line, i) \in Closed(line, i)
<1>1. Len(line) \in Nat
  OBVIOUS
<1>2. StartOf(line, i) \in i .. (i + 1)
  BY <1>1 DEF StartOf
<1>3. Closed(line, i) \in SUBSET Nat /\ Closed(line, i) # {}
  BY <1>1, <1>2 DEF Closed
<1>4. StopOf(line, i) \in Closed(line, i)
  BY <1>3, MinIn DEF StopOf
<1> QED BY <1>1, <1>2, <1>3, <1>4 DEF Closed

\* What Words makes of the rest of a line decides what it makes of the line.
LEMMA WordsAtSame ==
  ASSUME NEW line \in Seq(Chars), NEW i \in 1 .. (Len(line) + 2), NEW g, NEW h,
         \A j \in (i + 1) .. (Len(line) + 2) : g[j] = h[j]
  PROVE  WordsAt(line, g, i) = WordsAt(line, h, i)
<1>1. Len(line) \in Nat
  OBVIOUS
<1>2. CASE i > Len(line)
  BY <1>2 DEF WordsAt
<1>3. CASE ~(i > Len(line))
  <2>1. i \in 1 .. Len(line)
    BY <1>1, <1>3
  <2>2. g[i + 1] = h[i + 1]
    BY <1>1, <2>1
  <2>3. g[StopOf(line, i) + 1] = h[StopOf(line, i) + 1]
    BY <1>1, <2>1, StopInLine
  <2> QED BY <2>2, <2>3 DEF WordsAt
<1> QED BY <1>2, <1>3

\* Words, place by place.
LEMMA WordsRun ==
  ASSUME NEW line \in Seq(Chars)
  PROVE  \A i \in 1 .. (Len(line) + 2) :
           WordsFrom(line)[i] = WordsAt(line, WordsFrom(line), i)
<1> DEFINE n == Len(line)
           Goes(h) == h = [i \in 1 .. (n + 2) |-> WordsAt(line, h, i)]
           T == {k \in 0 .. (n + 2) :
                   \E h : \A i \in (k + 1) .. (n + 2) : h[i] = WordsAt(line, h, i)}
           u == CHOOSE h : Goes(h)
<1>1. n \in Nat /\ n + 2 \in Nat
  OBVIOUS
<1>2. n + 2 \in T
  <2>1. n + 2 \in 0 .. (n + 2) /\ \A i \in (n + 2 + 1) .. (n + 2) : FALSE
    BY <1>1
  <2> QED BY <2>1
<1>3. ASSUME NEW k \in 1 .. (n + 2), k \in T PROVE k - 1 \in T
  <2>1. PICK h : \A i \in (k + 1) .. (n + 2) : h[i] = WordsAt(line, h, i)
    BY <1>3
  <2> DEFINE e == [i \in 1 .. (n + 2) |-> IF i = k THEN WordsAt(line, h, k) ELSE h[i]]
  <2>2. e[k] = WordsAt(line, h, k) /\ \A i \in (k + 1) .. (n + 2) : e[i] = h[i]
    BY <1>1
  <2> HIDE DEF e
  <2>3. ASSUME NEW i \in k .. (n + 2)
        PROVE  e[i] = WordsAt(line, e, i)
    <3>0. i \in 1 .. (n + 2) /\ \A j \in (i + 1) .. (n + 2) : e[j] = h[j]
      BY <1>1, <2>2
    <3>1. WordsAt(line, e, i) = WordsAt(line, h, i)
      BY <3>0, WordsAtSame
    <3>2. CASE i = k
      BY <2>2, <3>1, <3>2
    <3>3. CASE i # k
      <4>1. i \in (k + 1) .. (n + 2)
        BY <1>1, <3>3
      <4> QED BY <2>1, <2>2, <3>1, <4>1
    <3> QED BY <3>2, <3>3
  <2>4. k - 1 \in 0 .. (n + 2) /\ (k - 1) + 1 = k
    BY <1>1
  <2> QED BY <2>3, <2>4
<1>4. 0 \in T
  <2> HIDE DEF T, n
  <2>1. \A k \in 0 .. (n + 2) : k \in T
    BY <1>1, <1>2, <1>3, DownTo
  <2> QED BY <1>1, <2>1
<1>5. Goes(u)
  <2>1. PICK h : \A i \in 1 .. (n + 2) : h[i] = WordsAt(line, h, i)
    BY <1>4
  <2> DEFINE e == [i \in 1 .. (n + 2) |-> h[i]]
  <2>2. ASSUME NEW i \in 1 .. (n + 2) PROVE e[i] = WordsAt(line, e, i)
    <3>1. \A j \in (i + 1) .. (n + 2) : e[j] = h[j]
      BY <1>1
    <3>2. WordsAt(line, e, i) = WordsAt(line, h, i)
      BY <3>1, WordsAtSame
    <3> QED BY <2>1, <3>2
  <2>3. e = [i \in 1 .. (n + 2) |-> e[i]]
    OBVIOUS
  <2> HIDE DEF e
  <2>4. Goes(e)
    BY <2>2, <2>3
  <2> QED BY <2>4
<1>6. WordsFrom(line) = u
  BY DEF WordsFrom, WordsAt, WordAt, StopOf, Closed, Closing, StartOf
<1> HIDE DEF u
<1>7. \A i \in 1 .. (n + 2) : u[i] = WordsAt(line, u, i)
  BY <1>5
<1> QED BY <1>6, <1>7

\* The cluster of word i: what takes an argument in it, and what getopt returns.
Takes(os, c)   == c \in DOMAIN os /\ os[c]
Plainly(os, c) == [opt |-> IF c \in DOMAIN os THEN c ELSE "?", arg |-> <<>>]
Taking(words, os, i) == {j \in DOMAIN Tail(words[i]) : Takes(os, Tail(words[i])[j])}
                          \cup {Len(Tail(words[i])) + 1}
FirstTaking(words, os, i) == Min(Taking(words, os, i))
Paired(words, os, i) == FirstTaking(words, os, i) = Len(Tail(words[i])) /\ i < Len(words)
Finishing(words, os, i) ==
  IF FirstTaking(words, os, i) > Len(Tail(words[i])) THEN {}
  ELSE IF Paired(words, os, i)
       THEN {[opt |-> Tail(words[i])[FirstTaking(words, os, i)], arg |-> words[i + 1]]}
  ELSE {Refused}
Plains(words, os, i) ==
  {Plainly(os, Tail(words[i])[j]) : j \in 1 .. (FirstTaking(words, os, i) - 1)}
Following(words, os, i) == IF Paired(words, os, i) THEN i + 2 ELSE i + 1

\* What Options does at word i, when h is what it makes of the rest.
OptionsAt(words, os, h, i) ==
  IF i > Len(words) \/ ~IsOption(words[i])
  THEN [opts |-> {}, operands |-> Min({i, Len(words) + 1})]
  ELSE IF words[i] = <<DASH, DASH>> THEN [opts |-> {}, operands |-> i + 1]
  ELSE [opts     |-> Plains(words, os, i) \cup Finishing(words, os, i)
                       \cup h[Following(words, os, i)].opts,
        operands |-> h[Following(words, os, i)].operands]

\* What Options makes of the rest of the words decides what it makes of them.
LEMMA OptionsAtSame ==
  ASSUME NEW words \in Seq(Seq(Chars)), NEW os, NEW i \in 1 .. (Len(words) + 2), NEW g, NEW h,
         \A j \in (i + 1) .. (Len(words) + 2) : g[j] = h[j]
  PROVE  OptionsAt(words, os, g, i) = OptionsAt(words, os, h, i)
<1>1. Len(words) \in Nat
  OBVIOUS
<1>2. CASE i > Len(words)
  BY <1>2 DEF OptionsAt
<1>3. CASE ~(i > Len(words))
  <2>1. Following(words, os, i) \in (i + 1) .. (Len(words) + 2)
    BY <1>1, <1>3 DEF Following, Paired
  <2>2. g[Following(words, os, i)] = h[Following(words, os, i)]
    BY <2>1
  <2> QED BY <2>2 DEF OptionsAt
<1> QED BY <1>2, <1>3

\* Options, word by word.
LEMMA OptionsRun ==
  ASSUME NEW words \in Seq(Seq(Chars)), NEW os
  PROVE  \A i \in 2 .. (Len(words) + 2) :
           OptionsFrom(words, os)[i] = OptionsAt(words, os, OptionsFrom(words, os), i)
<1> DEFINE n == Len(words)
           Goes(h) == h = [i \in 2 .. (n + 2) |-> OptionsAt(words, os, h, i)]
           T == {k \in 0 .. (n + 2) :
                   \E h : \A i \in (k + 1) .. (n + 2) : h[i] = OptionsAt(words, os, h, i)}
           u == CHOOSE h : Goes(h)
<1>1. n \in Nat /\ n + 2 \in Nat
  OBVIOUS
<1>2. n + 2 \in T
  <2>1. n + 2 \in 0 .. (n + 2) /\ \A i \in (n + 2 + 1) .. (n + 2) : FALSE
    BY <1>1
  <2> QED BY <2>1
<1>3. ASSUME NEW k \in 1 .. (n + 2), k \in T PROVE k - 1 \in T
  <2>1. PICK h : \A i \in (k + 1) .. (n + 2) : h[i] = OptionsAt(words, os, h, i)
    BY <1>3
  <2> DEFINE e == [i \in 1 .. (n + 2) |-> IF i = k THEN OptionsAt(words, os, h, k) ELSE h[i]]
  <2>2. e[k] = OptionsAt(words, os, h, k) /\ \A i \in (k + 1) .. (n + 2) : e[i] = h[i]
    BY <1>1
  <2> HIDE DEF e
  <2>3. ASSUME NEW i \in k .. (n + 2)
        PROVE  e[i] = OptionsAt(words, os, e, i)
    <3>0. i \in 1 .. (n + 2) /\ \A j \in (i + 1) .. (n + 2) : e[j] = h[j]
      BY <1>1, <2>2
    <3>1. OptionsAt(words, os, e, i) = OptionsAt(words, os, h, i)
      BY <3>0, OptionsAtSame
    <3>2. CASE i = k
      BY <2>2, <3>1, <3>2
    <3>3. CASE i # k
      <4>1. i \in (k + 1) .. (n + 2)
        BY <1>1, <3>3
      <4> QED BY <2>1, <2>2, <3>1, <4>1
    <3> QED BY <3>2, <3>3
  <2>4. k - 1 \in 0 .. (n + 2) /\ (k - 1) + 1 = k
    BY <1>1
  <2> QED BY <2>3, <2>4
<1>4. 0 \in T
  <2> HIDE DEF T, n
  <2>1. \A k \in 0 .. (n + 2) : k \in T
    BY <1>1, <1>2, <1>3, DownTo
  <2> QED BY <1>1, <2>1
<1>5. Goes(u)
  <2>1. PICK h : \A i \in 1 .. (n + 2) : h[i] = OptionsAt(words, os, h, i)
    BY <1>4
  <2> DEFINE e == [i \in 2 .. (n + 2) |-> h[i]]
  <2>2. ASSUME NEW i \in 2 .. (n + 2) PROVE e[i] = OptionsAt(words, os, e, i)
    <3>1. \A j \in (i + 1) .. (n + 2) : e[j] = h[j]
      BY <1>1
    <3>2. OptionsAt(words, os, e, i) = OptionsAt(words, os, h, i)
      BY <3>1, OptionsAtSame
    <3> QED BY <2>1, <3>2
  <2>3. e = [i \in 2 .. (n + 2) |-> e[i]]
    OBVIOUS
  <2> HIDE DEF e
  <2>4. Goes(e)
    BY <2>2, <2>3
  <2> QED BY <2>4
<1>6. OptionsFrom(words, os) = u
  BY DEF OptionsFrom, OptionsAt, Takes, Plainly, Taking, FirstTaking,
         Paired, Finishing, Plains, Following
<1> HIDE DEF u
<1>7. \A i \in 2 .. (n + 2) : u[i] = OptionsAt(words, os, u, i)
  BY <1>5
<1> QED BY <1>6, <1>7

--------------------------------------------------------------------------------
(* The shell's inductive invariant.                                             *)
Buffer == [1 .. MaxInput -> Chars \cup {NUL, Stale}]

\* The string at w ends at e.
Ended(b, w, e) == b[e] = NUL /\ \A j \in w .. (e - 1) : b[j] # NUL

\* What is left of the line from the cursor on is as it was typed, and the strings
\* found so far end before the cursor, or at it when it is on the last NUL.
LineCut ==
  /\ typed \in Lines /\ input \in Buffer
  /\ p \in 1 .. (Len(typed) + 1) /\ input[Len(typed) + 1] = NUL
  /\ \A j \in p .. Len(typed) : input[j] = typed[j]
  /\ argv \in Seq(1 .. MaxInput) /\ Len(argv) <= ArgMax
  /\ \A k \in 1 .. Len(argv) : \E e \in argv[k] .. p : Ended(input, argv[k], e)

\* The strings parse has found.
Found == [k \in 1 .. Len(argv) |-> String(argv[k])]

\* They are the words of the line up to the cursor, and in the end all that fit.
SoFar == Found \in Seq(Seq(Chars)) /\ Words(typed) = Found \o WordsFrom(typed)[p]
AllFound ==
  /\ argv # <<>> /\ Found \in Seq(Seq(Chars)) /\ Len(argv) <= Len(Words(typed))
  /\ Found = SubSeq(Words(typed), 1, Len(argv))
  /\ Len(argv) = Len(Words(typed)) \/ Len(argv) = ArgMax
Parsing ==
  /\ pc \in {"parse", "dispatch"} => LineCut
  /\ pc = "parse" => SoFar
  /\ pc = "dispatch" => AllFound

\* A program has a name, of characters, and options.
HasArgv ==
  /\ child \in Seq(Seq(Chars)) /\ child # <<>>
  /\ child = SubSeq(Words(typed), 1, Min({Len(Words(typed)), ArgMax - 1}))
  /\ optstring \in OptStrings

\* The options getopt has returned and those of the words from optind on are the
\* program's; of a cluster it is in, the options it is past are returned.
InClusterAt ==
  /\ optind < Argc /\ IsOption(Word(optind)) /\ Word(optind) # <<DASH, DASH>>
  /\ nextchar \in 1 .. (Len(Word(optind)) - 2)
  /\ \A n \in 0 .. (nextchar - 1) :
       ~Takes(optstring, Option(n)) /\ Plainly(optstring, Option(n)) \in opts

OptionsRead ==
  /\ optind \in 1 .. Argc
  /\ Options(child, optstring).opts = opts \cup OptionsFrom(child, optstring)[optind + 1].opts
  /\ Options(child, optstring).operands = OptionsFrom(child, optstring)[optind + 1].operands
  /\ InCluster => InClusterAt

ShellInv ==
  /\ ShellTypeOK /\ Parsing
  /\ pc \in {"options", "operands"} => HasArgv
  /\ pc = "options" => OptionsRead
  /\ OptionsAsTyped

--------------------------------------------------------------------------------
(* A line being cut.                                                            *)
\* A NUL is not typed, and blanks, quotes and dashes are told apart.
LEMMA CharsApart ==
  /\ NUL \notin Chars /\ {BLANK, QUOTE, DASH} \subseteq Chars
  /\ BLANK # QUOTE /\ BLANK # NUL /\ QUOTE # NUL /\ BLANK # DASH
BY ShellAssumption DEF Chars, NUL, BLANK, QUOTE, DASH

\* At, First and String of any buffer.
AtIn(b, i)        == IF i \in DOMAIN b THEN b[i] ELSE NUL
FirstIn(b, i, cs) == CHOOSE k \in i .. (MaxInput + 1) :
                       AtIn(b, k) \in cs /\ \A j \in i .. (k - 1) : AtIn(b, j) \notin cs
StringIn(b, i)    == SubSeq(b, i, FirstIn(b, i, {NUL}) - 1)

\* They are the shell's of its buffer.
LEMMA InInput ==
  /\ \A i : At(i) = AtIn(input, i)
  /\ \A i, cs : First(i, cs) = FirstIn(input, i, cs)
  /\ \A i : String(i) = StringIn(input, i)
  /\ \A i : String(i)' = StringIn(input', i)
BY DEF At, AtIn, First, FirstIn, String, StringIn

\* First finds the first place, when there is one.
LEMMA FirstFound ==
  ASSUME NEW b, NEW i \in 1 .. (MaxInput + 1), NEW cs,
         NEW k \in i .. (MaxInput + 1), AtIn(b, k) \in cs,
         NEW f, f = FirstIn(b, i, cs)
  PROVE  f \in i .. k /\ AtIn(b, f) \in cs /\ \A j \in i .. (f - 1) : AtIn(b, j) \notin cs
<1> DEFINE T == {j \in i .. (MaxInput + 1) : AtIn(b, j) \in cs}
<1>0. MaxInput \in Nat
  BY ShellAssumption
<1>1. PICK x \in T : \A y \in T : x <= y
  <2>1. T \in SUBSET Nat /\ T # {}
    BY <1>0
  <2> QED BY <2>1, LeastNat
<1>2. \A j \in i .. (x - 1) : AtIn(b, j) \notin cs
  BY <1>0, <1>1
<1>3. f \in i .. (MaxInput + 1) /\ AtIn(b, f) \in cs /\ \A j \in i .. (f - 1) : AtIn(b, j) \notin cs
  BY <1>1, <1>2 DEF FirstIn
<1>4. ~(k \in i .. (f - 1))
  BY <1>3
<1> QED BY <1>0, <1>3, <1>4

\* The string at w ends at its NUL.
LEMMA StringEnds ==
  ASSUME NEW b \in Buffer, NEW w \in 1 .. MaxInput, NEW e \in w .. MaxInput, Ended(b, w, e)
  PROVE  StringIn(b, w) = SubSeq(b, w, e - 1)
<1>0. MaxInput \in Nat /\ DOMAIN b = 1 .. MaxInput
  BY ShellAssumption DEF Buffer
<1>1. PICK f : f = FirstIn(b, w, {NUL})
  OBVIOUS
<1>2. AtIn(b, e) = NUL /\ \A j \in w .. (e - 1) : AtIn(b, j) # NUL
  BY <1>0 DEF AtIn, Ended
<1>3. f \in w .. e /\ AtIn(b, f) = NUL
  <2>1. w \in 1 .. (MaxInput + 1) /\ e \in w .. (MaxInput + 1) /\ AtIn(b, e) \in {NUL}
    BY <1>0, <1>2
  <2>2. f \in w .. e /\ AtIn(b, f) \in {NUL}
    BY <1>1, <2>1, FirstFound
  <2> QED BY <2>2
<1>4. f = e
  BY <1>0, <1>2, <1>3
<1> QED BY <1>1, <1>4 DEF StringIn

\* A buffer that is the same up to the NUL has the same string there.
LEMMA SameString ==
  ASSUME NEW b \in Buffer, NEW c \in Buffer, NEW w \in 1 .. MaxInput,
         NEW e \in w .. MaxInput, Ended(b, w, e), \A j \in w .. e : c[j] = b[j]
  PROVE  Ended(c, w, e) /\ StringIn(c, w) = StringIn(b, w)
<1>0. MaxInput \in Nat /\ DOMAIN b = 1 .. MaxInput /\ DOMAIN c = 1 .. MaxInput
  BY ShellAssumption DEF Buffer
<1>1. Ended(c, w, e)
  <2>1. e \in w .. e /\ \A j \in w .. (e - 1) : j \in w .. e
    BY <1>0
  <2> QED BY <2>1 DEF Ended
<1>2. StringIn(b, w) = SubSeq(b, w, e - 1) /\ StringIn(c, w) = SubSeq(c, w, e - 1)
  BY <1>1, StringEnds
<1>3. SubSeq(b, w, e - 1) = SubSeq(c, w, e - 1)
  BY <1>0
<1> QED BY <1>1, <1>2, <1>3

\* Blanks before a word are no part of the words.
LEMMA BlanksSkipped ==
  ASSUME NEW line \in Seq(Chars), NEW a \in 1 .. (Len(line) + 1), NEW q \in 1 .. a,
         \A j \in q .. (a - 1) : line[j] = BLANK
  PROVE  WordsFrom(line)[q] = WordsFrom(line)[a]
<1> DEFINE T == {k \in 0 .. (a - q) : WordsFrom(line)[q] = WordsFrom(line)[q + k]}
<1>0. Len(line) \in Nat /\ a - q \in Nat
  OBVIOUS
<1>1. 0 \in T
  BY <1>0
<1>2. ASSUME NEW k \in 1 .. (a - q), k - 1 \in T PROVE k \in T
  <2>1. PICK i : i = q + (k - 1)
    OBVIOUS
  <2>2. i \in q .. (a - 1) /\ i \in 1 .. (Len(line) + 2) /\ ~(i > Len(line)) /\ i + 1 = q + k
    BY <1>0, <2>1
  <2>3. line[i] = BLANK
    BY <2>2
  <2>4. WordsFrom(line)[i] = WordsAt(line, WordsFrom(line), i)
    BY <2>2, WordsRun
  <2>5. WordsFrom(line)[i] = WordsFrom(line)[i + 1]
    BY <2>2, <2>3, <2>4 DEF WordsAt
  <2>6. k \in 0 .. (a - q)
    BY <1>0
  <2> QED BY <1>2, <2>1, <2>2, <2>5, <2>6
<1>3. a - q \in T
  <2> HIDE DEF T
  <2>1. a - q \in 0 .. (a - q)
    BY <1>0
  <2> QED BY <1>0, <1>1, <1>2, <2>1, UpTo
<1>4. q + (a - q) = a
  BY <1>0
<1> QED BY <1>3, <1>4

\* Words are strings of characters, and there are none after the line.
LEMMA WordsType ==
  ASSUME NEW line \in Seq(Chars)
  PROVE  /\ \A i \in 1 .. (Len(line) + 2) : WordsFrom(line)[i] \in Seq(Seq(Chars))
         /\ \A i \in (Len(line) + 1) .. (Len(line) + 2) : WordsFrom(line)[i] = <<>>
         /\ Words(line) = WordsFrom(line)[1]
         /\ Words(line) \in Seq(Seq(Chars))
<1> DEFINE n == Len(line)
           T == {k \in 0 .. (n + 2) :
                   \A i \in (k + 1) .. (n + 2) : WordsFrom(line)[i] \in Seq(Seq(Chars))}
<1>0. n \in Nat
  OBVIOUS
<1>1. n + 2 \in T
  <2>1. n + 2 \in 0 .. (n + 2) /\ \A i \in (n + 2 + 1) .. (n + 2) : FALSE
    BY <1>0
  <2> QED BY <2>1
<1>2. ASSUME NEW k \in 1 .. (n + 2), k \in T PROVE k - 1 \in T
  <2>1. PICK W : W = WordsFrom(line)
    OBVIOUS
  <2>2. W[k] = WordsAt(line, W, k) /\ \A i \in (k + 1) .. (n + 2) : W[i] \in Seq(Seq(Chars))
    BY <1>2, <2>1, WordsRun
  <2>3. W[k] \in Seq(Seq(Chars))
    <3>1. CASE k > n
      BY <2>2, <3>1 DEF WordsAt
    <3>2. CASE ~(k > n) /\ line[k] = BLANK
      <4>1. k + 1 \in (k + 1) .. (n + 2)
        BY <1>0, <3>2
      <4> QED BY <2>2, <3>2, <4>1 DEF WordsAt
    <3>3. CASE ~(k > n) /\ line[k] # BLANK
      <4>0. k \in 1 .. n
        BY <1>0, <3>3
      <4>1. /\ StartOf(line, k) \in k .. (k + 1)
            /\ StopOf(line, k) \in StartOf(line, k) .. (n + 1)
        BY <4>0, StopInLine
      <4>2. PICK r : r = W[StopOf(line, k) + 1]
        OBVIOUS
      <4>3. r \in Seq(Seq(Chars))
        BY <1>0, <2>2, <4>0, <4>1, <4>2
      <4>4. PICK v : v = WordAt(line, k)
        OBVIOUS
      <4>5. v \in Seq(Chars)
        BY <1>0, <4>0, <4>1, <4>4 DEF WordAt
      <4>6. W[k] = <<v>> \o r
        BY <2>2, <3>3, <4>2, <4>4 DEF WordsAt
      <4> QED BY <4>3, <4>5, <4>6
    <3> QED BY <3>1, <3>2, <3>3
  <2>4. /\ k - 1 \in 0 .. (n + 2)
        /\ \A i \in ((k - 1) + 1) .. (n + 2) : i = k \/ i \in (k + 1) .. (n + 2)
    BY <1>0
  <2> QED BY <2>1, <2>2, <2>3, <2>4
<1>3. 0 \in T
  <2> HIDE DEF T, n
  <2>0. n + 2 \in Nat /\ 0 \in 0 .. (n + 2)
    BY <1>0
  <2> QED BY <1>0, <1>1, <1>2, <2>0, DownTo
<1>4. \A i \in (n + 1) .. (n + 2) : WordsFrom(line)[i] = <<>>
  <2> TAKE i \in (n + 1) .. (n + 2)
  <2>1. i \in 1 .. (n + 2) /\ i > n
    BY <1>0
  <2> QED BY <2>1, WordsRun DEF WordsAt
<1>5. \A i \in 1 .. (n + 2) : WordsFrom(line)[i] \in Seq(Seq(Chars))
  BY <1>3
<1>6. 1 \in 1 .. (n + 2)
  BY <1>0
<1> QED BY <1>4, <1>5, <1>6 DEF Words

\* What the parser reads from the cursor on is the line, and a NUL after it.
LEMMA CutReads ==
  ASSUME LineCut
  PROVE  /\ typed \in Seq(Chars) /\ Len(typed) \in Nat /\ Len(typed) + 1 \in 1 .. MaxInput
         /\ DOMAIN input = 1 .. MaxInput /\ MaxInput \in Nat
         /\ At(Len(typed) + 1) = NUL
         /\ \A j \in p .. Len(typed) : At(j) = typed[j] /\ At(j) \in Chars
<1>1. typed \in Seq(Chars) /\ Len(typed) \in 1 .. (MaxInput - 1) /\ MaxInput \in Nat
  BY ShellAssumption DEF LineCut
<1>2. DOMAIN input = 1 .. MaxInput
  BY DEF LineCut, Buffer
<1>3. p \in 1 .. (Len(typed) + 1)
  BY DEF LineCut
<1>4. ASSUME NEW j \in p .. Len(typed) PROVE At(j) = typed[j] /\ At(j) \in Chars
  <2>1. j \in 1 .. MaxInput /\ j \in 1 .. Len(typed)
    BY <1>1, <1>3
  <2>2. input[j] = typed[j]
    BY DEF LineCut
  <2>3. typed[j] \in Chars
    BY <1>1, <2>1
  <2> QED BY <1>2, <2>1, <2>2, <2>3 DEF At
<1>5. At(Len(typed) + 1) = NUL
  BY <1>1, <1>2 DEF At, LineCut
<1> QED BY <1>1, <1>2, <1>4, <1>5

\* After the blanks the parser is at a character that is none, or at the last NUL.
LEMMA AfterBlanksIs ==
  ASSUME LineCut, NEW a, a = AfterBlanks
  PROVE  /\ a \in p .. (Len(typed) + 1)
         /\ \A j \in p .. (a - 1) : typed[j] = BLANK
         /\ At(a) = NUL <=> a = Len(typed) + 1
         /\ a <= Len(typed) => typed[a] # BLANK
<1> DEFINE n == Len(typed)
<1>0. n \in Nat /\ n + 1 \in 1 .. MaxInput /\ p \in 1 .. (n + 1) /\ MaxInput \in Nat
  BY CutReads DEF LineCut
<1>1. \A j \in p .. n : At(j) = typed[j] /\ At(j) \in Chars
  BY CutReads
<1>2. At(n + 1) = NUL
  BY CutReads
<1>3. /\ a \in p .. (n + 1) /\ At(a) \in Others(BLANK)
      /\ \A j \in p .. (a - 1) : At(j) \notin Others(BLANK)
  <2>1. AtIn(input, n + 1) \in Others(BLANK)
    BY <1>2, CharsApart, InInput DEF Others
  <2>2. a = FirstIn(input, p, Others(BLANK))
    BY InInput DEF AfterBlanks
  <2>3. p \in 1 .. (MaxInput + 1) /\ n + 1 \in p .. (MaxInput + 1)
    BY <1>0
  <2>4. /\ a \in p .. (n + 1) /\ AtIn(input, a) \in Others(BLANK)
        /\ \A j \in p .. (a - 1) : AtIn(input, j) \notin Others(BLANK)
    BY <2>1, <2>2, <2>3, FirstFound
  <2> QED BY <2>4, InInput
<1>4. ASSUME NEW j \in p .. (a - 1) PROVE typed[j] = BLANK
  <2>1. j \in p .. n
    BY <1>0, <1>3
  <2>2. typed[j] \in Chars /\ typed[j] \notin Others(BLANK)
    BY <1>1, <1>3, <2>1
  <2> QED BY <2>2 DEF Others
<1>5. ASSUME a <= n PROVE typed[a] # BLANK /\ At(a) # NUL
  <2>1. a \in p .. n
    BY <1>0, <1>3, <1>5
  <2>2. At(a) = typed[a] /\ At(a) \in Chars
    BY <1>1, <2>1
  <2> QED BY <1>3, <2>2, CharsApart DEF Others
<1>6. a <= n \/ a = n + 1
  BY <1>0, <1>3
<1> QED BY <1>0, <1>2, <1>3, <1>4, <1>5, <1>6

\* The next word is the line's, and what is left is what Words makes of the rest.
LEMMA NextWordIs ==
  ASSUME LineCut, NEW a, a = AfterBlanks, At(a) # NUL
  PROVE  /\ a \in 1 .. Len(typed)
         /\ NextWord.start = StartOf(typed, a) /\ NextWord.end = StopOf(typed, a)
         /\ At(StopOf(typed, a)) = NUL <=> StopOf(typed, a) = Len(typed) + 1
         /\ WordsFrom(typed)[p] =
              <<WordAt(typed, a)>> \o WordsFrom(typed)[StopOf(typed, a) + 1]
<1> DEFINE n == Len(typed)
           w == StartOf(typed, a)
           c == Closing(typed, a)
<1>0. /\ n \in Nat /\ n + 1 \in 1 .. MaxInput /\ p \in 1 .. (n + 1) /\ MaxInput \in Nat
      /\ typed \in Seq(Chars)
  BY CutReads DEF LineCut
<1>1. \A j \in p .. n : At(j) = typed[j] /\ At(j) \in Chars
  BY CutReads
<1>2. At(n + 1) = NUL
  BY CutReads
<1>3. /\ a \in p .. (n + 1) /\ a # n + 1
      /\ \A j \in p .. (a - 1) : typed[j] = BLANK /\ (a <= n => typed[a] # BLANK)
  BY AfterBlanksIs
<1>4. a \in 1 .. n /\ a \in p .. n
  BY <1>0, <1>3
<1>5. typed[a] # BLANK
  BY <1>4, AfterBlanksIs
<1>6. w \in a .. (a + 1)
  BY <1>0, <1>4, StopInLine
<1>7. At(a) = typed[a]
  BY <1>1, <1>4
<1>8. NextWord.start = w /\ NextWord.end = FirstIn(input, w, {NUL, c})
  BY <1>7, InInput DEF NextWord, StartOf, Closing
<1>9. PICK e : e = FirstIn(input, w, {NUL, c})
  OBVIOUS
<1>10. c \in {BLANK, QUOTE} /\ c # NUL
  BY CharsApart DEF Closing
<1> HIDE DEF w, c, n
<1>11. /\ e \in w .. (n + 1) /\ At(e) \in {NUL, c}
       /\ \A j \in w .. (e - 1) : At(j) \notin {NUL, c}
  <2>1. w \in 1 .. (MaxInput + 1) /\ n + 1 \in w .. (MaxInput + 1)
    BY <1>0, <1>4, <1>6
  <2>2. AtIn(input, n + 1) \in {NUL, c}
    BY <1>2, InInput
  <2>3. /\ e \in w .. (n + 1) /\ AtIn(input, e) \in {NUL, c}
        /\ \A j \in w .. (e - 1) : AtIn(input, j) \notin {NUL, c}
    BY <1>9, <2>1, <2>2, FirstFound
  <2> QED BY <2>3, InInput
<1>12. \A j \in w .. n : At(j) = typed[j] /\ At(j) # NUL
  <2> TAKE j \in w .. n
  <2>1. j \in p .. n
    BY <1>0, <1>4, <1>6
  <2> QED BY <1>1, <2>1, CharsApart
<1>13. At(e) = NUL <=> e = n + 1
  <2>1. e = n + 1 \/ e \in w .. n
    BY <1>0, <1>4, <1>6, <1>11
  <2> QED BY <1>2, <1>12, <2>1
<1>14. StopOf(typed, a) = e
  <2>1. Closed(typed, a) = {k \in w .. n : typed[k] = c} \cup {n + 1}
    BY DEF Closed, w, c, n
  <2>2. e \in Closed(typed, a)
    <3>1. CASE e = n + 1
      BY <2>1, <3>1
    <3>2. CASE e # n + 1
      <4>1. e \in w .. n
        BY <1>0, <1>4, <1>6, <1>11, <3>2
      <4>2. typed[e] = c
        BY <1>11, <1>12, <4>1
      <4> QED BY <2>1, <4>1, <4>2
    <3> QED BY <3>1, <3>2
  <2>3. ASSUME NEW k \in Closed(typed, a) PROVE e <= k
    <3>1. CASE k = n + 1
      BY <1>0, <1>4, <1>6, <1>11, <3>1
    <3>2. CASE k # n + 1
      <4>1. k \in w .. n /\ typed[k] = c
        BY <2>1, <2>3, <3>2
      <4>2. At(k) = c
        BY <1>12, <4>1
      <4>3. ~(k \in w .. (e - 1))
        BY <1>11, <4>2
      <4> QED BY <1>0, <1>4, <1>6, <1>11, <4>1, <4>3
    <3> QED BY <3>1, <3>2
  <2>4. Closed(typed, a) \in SUBSET Nat
    BY <1>0, <1>4, StopInLine DEF n
  <2> QED BY <2>2, <2>3, <2>4, MinIs DEF StopOf
<1>15. WordsFrom(typed)[p] = <<WordAt(typed, a)>> \o WordsFrom(typed)[StopOf(typed, a) + 1]
  <2>1. WordsFrom(typed)[p] = WordsFrom(typed)[a]
    <3>1. a \in 1 .. (Len(typed) + 1) /\ p \in 1 .. a
      BY <1>0, <1>4 DEF n
    <3>2. \A j \in p .. (a - 1) : typed[j] = BLANK
      BY AfterBlanksIs
    <3> QED BY <1>0, <3>1, <3>2, BlanksSkipped
  <2>2. a \in 1 .. (Len(typed) + 2) /\ ~(a > Len(typed))
    BY <1>0, <1>4 DEF n
  <2>3. WordsFrom(typed)[a] = WordsAt(typed, WordsFrom(typed), a)
    BY <1>0, <2>2, WordsRun
  <2> QED BY <1>5, <2>1, <2>2, <2>3 DEF WordsAt
<1> QED BY <1>4, <1>8, <1>9, <1>13, <1>14, <1>15 DEF w, n

\* Sequences with the same elements in a range are the same there.
LEMMA SameSubSeq ==
  ASSUME NEW b, NEW c, NEW m \in Nat, NEW k \in Int, \A j \in m .. k : b[j] = c[j]
  PROVE  SubSeq(b, m, k) = SubSeq(c, m, k)
OBVIOUS

\* A list of strings followed by one more and the rest of the words.
LEMMA OneWordMore ==
  ASSUME NEW r \in Seq(Seq(Chars)), NEW w \in Seq(Chars), NEW t \in Seq(Seq(Chars))
  PROVE  r \o (<<w>> \o t) = Append(r, w) \o t
<1>1. PICK S : S = Seq(Chars)
  OBVIOUS
<1>2. r \in Seq(S) /\ t \in Seq(S) /\ w \in S
  BY <1>1
<1>3. <<w>> \in Seq(S)
  BY <1>2
<1>4. (r \o <<w>>) \o t = r \o (<<w>> \o t)
  BY <1>2, <1>3, ConcatAssociative
<1>5. Append(r, w) = r \o <<w>>
  BY <1>2, AppendIsConcat
<1> QED BY <1>4, <1>5

\* The strings found are strings of the buffer.
LEMMA FoundIs ==
  ASSUME LineCut
  PROVE  /\ Len(argv) \in Nat /\ Len(Found) = Len(argv)
         /\ \A k \in 1 .. Len(argv) : Found[k] = StringIn(input, argv[k])
<1>1. Len(argv) \in Nat
  BY DEF LineCut
<1>2. Found = [k \in 1 .. Len(argv) |-> StringIn(input, argv[k])]
  BY InInput DEF Found
<1> QED BY <1>1, <1>2

\* A word found: parse cuts it off the line, and it joins those found before.
LEMMA WordCut ==
  ASSUME LineCut, SoFar, ParseWord
  PROVE  LineCut' /\ SoFar'
<1> DEFINE n == Len(typed)
<1>0. PICK a : a = AfterBlanks
  OBVIOUS
<1>1. At(a) # NUL /\ Len(argv) < ArgMax /\ typed' = typed
  BY <1>0 DEF ParseWord
<1>2. PICK w, e : w = NextWord.start /\ e = NextWord.end
  OBVIOUS
<1>3. /\ a \in 1 .. n /\ w = StartOf(typed, a) /\ e = StopOf(typed, a)
      /\ At(e) = NUL <=> e = n + 1
      /\ WordsFrom(typed)[p] = <<WordAt(typed, a)>> \o WordsFrom(typed)[e + 1]
  BY <1>0, <1>1, <1>2, NextWordIs
<1>4. /\ n \in Nat /\ n + 1 \in 1 .. MaxInput /\ p \in 1 .. (n + 1) /\ MaxInput \in Nat
      /\ typed \in Seq(Chars) /\ DOMAIN input = 1 .. MaxInput
  BY CutReads DEF LineCut
<1>5. a \in p .. (n + 1)
  BY <1>0, AfterBlanksIs
<1>6. w \in a .. (a + 1) /\ e \in w .. (n + 1) /\ e \in Closed(typed, a)
  BY <1>3, <1>4, StopInLine
<1>20. /\ p \in Nat /\ a \in Nat /\ w \in Nat /\ e \in Nat
       /\ 1 <= p /\ p <= a /\ a <= w /\ w <= e /\ e <= n + 1 /\ n + 1 <= MaxInput
  BY <1>4, <1>5, <1>6
<1>7. PICK v : v = WordAt(typed, a)
  OBVIOUS
<1>8. v = SubSeq(typed, w, e - 1) /\ v \in Seq(Chars)
  <2>1. v = SubSeq(typed, w, e - 1)
    BY <1>3, <1>7 DEF WordAt
  <2>2. \A i \in w .. (e - 1) : typed[i] \in Chars
    <3> TAKE i \in w .. (e - 1)
    <3>1. i \in 1 .. n
      BY <1>4, <1>20
    <3> QED BY <1>4, <3>1
  <2>3. w \in Int /\ e - 1 \in Int
    BY <1>20
  <2> QED BY <2>1, <2>2, <2>3, SubSeqProperties
<1>9. /\ argv' = Append(argv, w) /\ argv \in Seq(1 .. MaxInput)
      /\ w \in 1 .. MaxInput /\ Len(argv) \in Nat
  BY <1>2, <1>3, <1>4, <1>5, <1>6 DEF ParseWord, LineCut
<1>10. /\ argv' \in Seq(1 .. MaxInput) /\ Len(argv') = Len(argv) + 1 /\ argv'[Len(argv) + 1] = w
       /\ \A k \in 1 .. Len(argv) : argv'[k] = argv[k]
  BY <1>9
<1>11. \/ At(e) = NUL /\ p' = e /\ input' = input
       \/ At(e) # NUL /\ p' = e + 1 /\ input' = [input EXCEPT ![e] = NUL]
  BY <1>2 DEF ParseWord
<1>12. /\ input' \in Buffer /\ input \in Buffer /\ input'[e] = NUL
       /\ \A j \in 1 .. MaxInput : j # e => input'[j] = input[j]
       /\ input[e] = NUL => input' = input
  <2>1. input \in Buffer /\ e \in 1 .. MaxInput
    BY <1>3, <1>4, <1>6 DEF LineCut
  <2>2. CASE At(e) = NUL
    BY <1>4, <1>11, <2>1, <2>2 DEF At
  <2>3. CASE At(e) # NUL
    BY <1>4, <1>11, <2>1, <2>3 DEF At, Buffer
  <2> QED BY <2>2, <2>3
<1>13. p' \in e .. (n + 1) /\ e \in p .. p' /\ WordsFrom(typed)[e + 1] = WordsFrom(typed)[p']
  <2>1. CASE At(e) = NUL
    <3>1. e = n + 1 /\ p' = n + 1
      BY <1>3, <1>11, <2>1
    <3>2. WordsFrom(typed)[n + 1] = <<>> /\ WordsFrom(typed)[n + 2] = <<>>
      <4>1. \A i \in (Len(typed) + 1) .. (Len(typed) + 2) : WordsFrom(typed)[i] = <<>>
        BY <1>4, WordsType
      <4>2. n + 1 \in (n + 1) .. (n + 2) /\ n + 2 \in (n + 1) .. (n + 2)
        BY <1>4
      <4> QED BY <4>1, <4>2
    <3>3. e + 1 = n + 2
      BY <1>4, <3>1
    <3> QED BY <1>4, <1>6, <3>1, <3>2, <3>3
  <2>2. CASE At(e) # NUL
    <3>1. e # n + 1 /\ p' = e + 1
      BY <1>3, <1>11, <2>2
    <3>2. e + 1 \in e .. (n + 1) /\ e \in p .. (e + 1)
      BY <1>4, <1>20, <3>1
    <3> QED BY <3>1, <3>2
  <2> QED BY <2>1, <2>2
<1>14. ASSUME NEW k \in 1 .. Len(argv)
       PROVE  /\ \E d \in argv'[k] .. p' : Ended(input', argv'[k], d)
              /\ StringIn(input', argv'[k]) = StringIn(input, argv[k])
  <2>1. PICK d \in argv[k] .. p : Ended(input, argv[k], d)
    BY DEF LineCut
  <2>2. argv[k] \in 1 .. MaxInput /\ argv'[k] = argv[k] /\ d \in argv[k] .. MaxInput
    BY <1>4, <1>9, <1>10, <2>1
  <2>3. \A j \in argv[k] .. d : input'[j] = input[j]
    <3> TAKE j \in argv[k] .. d
    <3>1. j \in 1 .. MaxInput /\ j <= e
      BY <1>4, <1>20, <2>1, <2>2
    <3>2. CASE j # e
      BY <1>12, <3>1, <3>2
    <3>3. CASE j = e
      <4>1. d = e
        BY <1>20, <2>1, <2>2, <3>3
      <4>2. input[e] = NUL
        BY <2>1, <4>1 DEF Ended
      <4> QED BY <1>12, <4>2
    <3> QED BY <3>2, <3>3
  <2>4. Ended(input', argv[k], d) /\ StringIn(input', argv[k]) = StringIn(input, argv[k])
    BY <1>12, <2>1, <2>2, <2>3, SameString
  <2>5. d \in argv[k] .. p'
    BY <1>4, <1>13, <2>1, <2>2
  <2> QED BY <2>2, <2>4, <2>5
<1>15. Ended(input', w, e) /\ StringIn(input', w) = v
  <2>1. \A j \in w .. (e - 1) : input'[j] = typed[j] /\ input'[j] # NUL
    <3> TAKE j \in w .. (e - 1)
    <3>1. j \in p .. n /\ j # e /\ j \in 1 .. MaxInput
      BY <1>4, <1>20
    <3>2. input'[j] = input[j]
      BY <1>12, <3>1
    <3>3. input[j] = typed[j]
      BY <3>1 DEF LineCut
    <3>4. typed[j] \in Chars
      BY <1>4, <3>1
    <3> QED BY <3>2, <3>3, <3>4, CharsApart
  <2>2. Ended(input', w, e)
    BY <1>12, <2>1 DEF Ended
  <2>3. StringIn(input', w) = SubSeq(input', w, e - 1)
    <3>1. w \in 1 .. MaxInput /\ e \in w .. MaxInput
      BY <1>3, <1>4, <1>6, <1>9
    <3> QED BY <1>12, <2>2, <3>1, StringEnds
  <2>4. SubSeq(input', w, e - 1) = SubSeq(typed, w, e - 1)
    BY <1>20, <2>1, SameSubSeq
  <2> QED BY <1>8, <2>2, <2>3, <2>4
<1>16. LineCut'
  <2>1. input'[n + 1] = NUL
    <3>1. n + 1 \in 1 .. MaxInput /\ input[n + 1] = NUL
      BY <1>4 DEF LineCut
    <3> QED BY <1>12, <3>1
  <2>2. \A j \in p' .. n : input'[j] = typed[j]
    <3> TAKE j \in p' .. n
    <3>1. p' = e + 1 /\ e \in Int
      BY <1>3, <1>4, <1>6, <1>11, <1>13
    <3>2. j \in p .. n /\ j # e /\ j \in 1 .. MaxInput
      BY <1>4, <1>5, <1>6, <1>13, <3>1
    <3>3. input[j] = typed[j]
      BY <3>2 DEF LineCut
    <3> QED BY <1>12, <3>2, <3>3
  <2>3. p' \in 1 .. (n + 1)
    BY <1>4, <1>13
  <2>4. ASSUME NEW k \in 1 .. Len(argv') PROVE \E d \in argv'[k] .. p' : Ended(input', argv'[k], d)
    <3>1. CASE k \in 1 .. Len(argv)
      BY <1>14, <3>1
    <3>2. CASE k = Len(argv) + 1
      <4>1. e \in w .. p'
        BY <1>4, <1>6, <1>13
      <4> QED BY <1>10, <1>15, <3>2, <4>1
    <3> QED BY <1>9, <1>10, <3>1, <3>2
  <2>5. Len(argv') <= ArgMax
    BY <1>1, <1>9, <1>10, ShellAssumption
  <2>6. typed \in Lines
    BY DEF LineCut
  <2> QED BY <1>1, <1>10, <1>12, <2>1, <2>2, <2>3, <2>4, <2>5, <2>6 DEF LineCut
<1>17. Found' = Append(Found, v)
  <2>1. Found' = [k \in 1 .. Len(argv') |-> StringIn(input', argv'[k])]
    BY InInput DEF Found
  <2>2. Len(Found) = Len(argv) /\ \A k \in 1 .. Len(argv) : Found[k] = StringIn(input, argv[k])
    BY FoundIs
  <2>3. Found' \in Seq(Seq(Chars)) /\ Append(Found, v) \in Seq(Seq(Chars))
    <3>1. \A k \in 1 .. Len(argv') : StringIn(input', argv'[k]) \in Seq(Chars)
      <4> TAKE k \in 1 .. Len(argv')
      <4>1. CASE k \in 1 .. Len(argv)
        <5>1. Found[k] \in Seq(Chars)
          BY <2>2, <4>1 DEF SoFar
        <5> QED BY <1>14, <2>2, <4>1, <5>1
      <4>2. CASE k = Len(argv) + 1
        BY <1>8, <1>10, <1>15, <4>2
      <4> QED BY <1>9, <1>10, <4>1, <4>2
    <3>2. Found' \in Seq(Seq(Chars))
      BY <1>9, <1>10, <2>1, <3>1
    <3> QED BY <1>8, <3>2 DEF SoFar
  <2>4. Len(Found') = Len(argv) + 1 /\ Len(Append(Found, v)) = Len(argv) + 1
    BY <1>8, <1>9, <1>10, <2>1, <2>2 DEF SoFar
  <2>5. ASSUME NEW k \in 1 .. (Len(argv) + 1) PROVE Found'[k] = Append(Found, v)[k]
    <3>1. Found'[k] = StringIn(input', argv'[k])
      BY <1>10, <2>1
    <3>2. CASE k \in 1 .. Len(argv)
      <4>1. Append(Found, v)[k] = Found[k]
        BY <1>8, <1>9, <2>2, <3>2 DEF SoFar
      <4> QED BY <1>14, <2>2, <3>1, <3>2, <4>1
    <3>3. CASE k = Len(argv) + 1
      <4>1. Append(Found, v)[k] = v
        BY <1>8, <1>9, <2>2, <3>3 DEF SoFar
      <4>2. argv'[k] = w
        BY <1>10, <3>3
      <4>3. StringIn(input', argv'[k]) = v
        BY <1>15, <4>2
      <4> QED BY <3>1, <4>1, <4>3
    <3>4. k \in 1 .. Len(argv) \/ k = Len(argv) + 1
      BY <1>9
    <3> QED BY <3>2, <3>3, <3>4
  <2> QED BY <2>3, <2>4, <2>5, SeqEqual
<1>18. Words(typed) = Found' \o WordsFrom(typed)[p']
  <2>1. PICK r : r = WordsFrom(typed)[p']
    OBVIOUS
  <2>2. r \in Seq(Seq(Chars))
    <3>1. p' \in 1 .. (Len(typed) + 2)
      BY <1>4, <1>13
    <3> QED BY <1>4, <2>1, <3>1, WordsType
  <2>3. Words(typed) = Found \o (<<v>> \o r)
    BY <1>3, <1>7, <1>13, <2>1 DEF SoFar
  <2>4. PICK u : u = Found
    OBVIOUS
  <2>5. u \o (<<v>> \o r) = Append(u, v) \o r
    <3>1. u \in Seq(Seq(Chars)) /\ v \in Seq(Chars)
      BY <1>8, <2>4 DEF SoFar
    <3> HIDE <1>8, <2>4
    <3> QED BY <2>2, <3>1, OneWordMore
  <2> QED BY <1>17, <2>1, <2>3, <2>4, <2>5
<1>19. Found' \in Seq(Seq(Chars))
  BY <1>8, <1>17 DEF SoFar
<1>21. Words(typed)' = Words(typed) /\ WordsFrom(typed)' = WordsFrom(typed)
  BY <1>1
<1> QED BY <1>16, <1>18, <1>19, <1>21 DEF SoFar

\* A line typed is to be parsed from its start.
LEMMA LineTyped ==
  ASSUME NEW line \in Lines, GetLine(line)
  PROVE  LineCut' /\ SoFar'
<1> DEFINE b == [i \in 1 .. MaxInput |->
                   IF i <= Len(line) THEN line[i] ELSE IF i = Len(line) + 1 THEN NUL ELSE Stale]
<1>1. /\ line \in Seq(Chars) /\ Len(line) \in Nat /\ Len(line) + 1 \in 1 .. MaxInput
      /\ MaxInput \in Nat /\ ArgMax \in Nat
  BY ShellAssumption
<1>2. typed' = line /\ input' = b /\ p' = 1 /\ argv' = <<>>
  BY DEF GetLine
<1>3. b \in Buffer
  <2>1. \A i \in 1 .. MaxInput : i <= Len(line) => line[i] \in Chars
    BY <1>1
  <2> QED BY <1>1, <2>1 DEF Buffer
<1>4. b[Len(line) + 1] = NUL /\ \A j \in 1 .. Len(line) : b[j] = line[j]
  BY <1>1
<1> HIDE DEF b
<1>5. LineCut'
  <2>1. argv' \in Seq(1 .. MaxInput) /\ Len(argv') = 0
    BY <1>2
  <2>2. 1 \in 1 .. (Len(line) + 1)
    BY <1>1
  <2> QED BY <1>1, <1>2, <1>3, <1>4, <2>1, <2>2 DEF LineCut
<1>6. SoFar'
  <2>1. Found' = <<>>
    BY <1>2 DEF Found
  <2>2. PICK W : W = Words(line)
    OBVIOUS
  <2>3. W \in Seq(Seq(Chars)) /\ WordsFrom(line)[1] = W
    BY <1>1, <2>2, WordsType
  <2>4. <<>> \o W = W
    BY <2>3
  <2>5. Words(typed)' = W /\ WordsFrom(typed)' = WordsFrom(line)
    BY <1>2, <2>2
  <2> QED BY <1>2, <2>1, <2>3, <2>4, <2>5 DEF SoFar
<1> QED BY <1>5, <1>6

\* When parse is done it has found all the words, or as many as argv holds.
LEMMA LineParsed ==
  ASSUME LineCut, SoFar, ParseDone, argv # <<>>
  PROVE  AllFound
<1>1. /\ Len(Found) = Len(argv) /\ Len(argv) \in Nat /\ Len(argv) <= ArgMax
      /\ typed \in Seq(Chars) /\ Len(typed) \in Nat /\ p \in 1 .. (Len(typed) + 1)
  BY FoundIs, CutReads DEF LineCut
<1>2. PICK r : r = WordsFrom(typed)[p]
  OBVIOUS
<1>3. r \in Seq(Seq(Chars))
  <2>1. p \in 1 .. (Len(typed) + 2)
    BY <1>1
  <2> QED BY <1>1, <1>2, <2>1, WordsType
<1>4. PICK F : F = Found
  OBVIOUS
<1>5. F \in Seq(Seq(Chars)) /\ Words(typed) = F \o r
  BY <1>2, <1>4 DEF SoFar
<1>6. PICK W : W = F \o r
  OBVIOUS
<1>7. /\ W \in Seq(Seq(Chars)) /\ Len(W) = Len(F) + Len(r) /\ Len(F) \in Nat /\ Len(r) \in Nat
      /\ \A k \in 1 .. Len(F) : W[k] = F[k]
  BY <1>3, <1>5, <1>6
<1>8. F = SubSeq(W, 1, Len(F))
  <2>1. /\ SubSeq(W, 1, Len(F)) \in Seq(Seq(Chars)) /\ Len(SubSeq(W, 1, Len(F))) = Len(F)
        /\ \A k \in 1 .. Len(F) : SubSeq(W, 1, Len(F))[k] = W[k]
    BY <1>7
  <2> QED BY <1>5, <1>7, <2>1, SeqEqual
<1>9. Len(argv) = Len(W) \/ Len(argv) = ArgMax
  <2>1. CASE At(AfterBlanks) = NUL
    <3>1. PICK a : a = AfterBlanks
      OBVIOUS
    <3>2. a = Len(typed) + 1 /\ \A j \in p .. (a - 1) : typed[j] = BLANK
      BY <2>1, <3>1, AfterBlanksIs
    <3>3. a \in 1 .. (Len(typed) + 1) /\ p \in 1 .. a /\ a \in (Len(typed) + 1) .. (Len(typed) + 2)
      BY <1>1, <3>2
    <3>4. r = WordsFrom(typed)[a]
      BY <1>1, <1>2, <3>2, <3>3, BlanksSkipped
    <3>5. WordsFrom(typed)[a] = <<>>
      BY <1>1, <3>3, WordsType
    <3>6. Len(r) = 0
      BY <3>4, <3>5
    <3> QED BY <1>1, <1>4, <1>7, <3>6
  <2>2. CASE Len(argv) = ArgMax
    BY <2>2
  <2> QED BY <2>1, <2>2 DEF ParseDone
<1>10. Words(typed) = W /\ Len(argv) = Len(F)
  BY <1>1, <1>4, <1>5, <1>6
<1>11. Len(argv) <= Len(Words(typed)) /\ Found = SubSeq(Words(typed), 1, Len(argv))
  BY <1>4, <1>7, <1>8, <1>10
<1>12. Found \in Seq(Seq(Chars))
  BY <1>4, <1>5
<1>13. Len(argv) = Len(Words(typed)) \/ Len(argv) = ArgMax
  BY <1>9, <1>10
<1> QED BY <1>11, <1>12, <1>13 DEF AllFound

\* The lesser of two numbers.
LEMMA MinPair ==
  ASSUME NEW a \in Nat, NEW b \in Nat
  PROVE  Min({a, b}) = IF a <= b THEN a ELSE b
<1>1. CASE a <= b
  <2>1. Min({a, b}) = a
    BY <1>1, MinIs
  <2> QED BY <1>1, <2>1
<1>2. CASE ~(a <= b)
  <2>1. Min({a, b}) = b
    BY <1>2, MinIs
  <2> QED BY <1>2, <2>1
<1> QED BY <1>1, <1>2

\* The program gets the words found, but for the last of a full argv.
LEMMA Executed ==
  ASSUME LineCut, AllFound, TryExec
  PROVE  HasArgv' /\ OptionsRead' /\ Len(child') < ArgMax
<1> DEFINE m == Min({Len(argv), ArgMax - 1})
<1>0. Len(Found) = Len(argv) /\ Len(argv) \in Nat /\ ArgMax \in Nat \ {0, 1} /\ typed \in Seq(Chars)
  BY FoundIs, CutReads, ShellAssumption
<1>1. argv # <<>> /\ argv \in Seq(1 .. MaxInput)
  BY DEF LineCut, AllFound
<1>2. Len(argv) # 0
  BY <1>1
<1>3. PICK W : W = Words(typed)
  OBVIOUS
<1>4. W \in Seq(Seq(Chars)) /\ Len(W) \in Nat
  BY <1>0, <1>3, WordsType
<1>5. /\ Found = SubSeq(W, 1, Len(argv)) /\ Len(argv) <= Len(W)
      /\ Len(argv) = Len(W) \/ Len(argv) = ArgMax
  BY <1>3 DEF AllFound
<1>6. m \in 1 .. Len(argv) /\ m < ArgMax /\ m = Min({Len(W), ArgMax - 1})
  <2>1. ArgMax - 1 \in Nat
    BY <1>0
  <2>2. m = IF Len(argv) <= ArgMax - 1 THEN Len(argv) ELSE ArgMax - 1
    BY <1>0, <2>1, MinPair
  <2>3. Min({Len(W), ArgMax - 1}) = IF Len(W) <= ArgMax - 1 THEN Len(W) ELSE ArgMax - 1
    BY <1>4, <2>1, MinPair
  <2> QED BY <1>0, <1>2, <1>4, <1>5, <2>2, <2>3
<1>7. child' = [i \in 1 .. m |-> StringIn(input, argv[i])]
  BY InInput DEF TryExec
<1> HIDE DEF m
<1>8. \A i \in 1 .. m : child'[i] = W[i]
  <2> TAKE i \in 1 .. m
  <2>1. i \in 1 .. Len(argv)
    BY <1>0, <1>6
  <2>2. Found[i] = StringIn(input, argv[i])
    BY <2>1, FoundIs
  <2>3. SubSeq(W, 1, Len(argv))[i] = W[i]
    BY <1>0, <1>4, <1>5, <2>1
  <2> QED BY <1>5, <1>7, <2>2, <2>3
<1>9. child' = SubSeq(W, 1, m) /\ child' \in Seq(Seq(Chars)) /\ Len(child') = m
  <2>0. m \in Nat /\ 1 <= m /\ m <= Len(W)
    BY <1>0, <1>4, <1>5, <1>6
  <2>1. \A i \in 1 .. m : W[i] \in Seq(Chars)
    BY <1>4, <2>0
  <2>2. child' \in Seq(Seq(Chars)) /\ Len(child') = m
    <3>1. \A i \in 1 .. m : StringIn(input, argv[i]) \in Seq(Chars)
      BY <1>7, <1>8, <2>1
    <3> QED BY <1>7, <2>0, <3>1
  <2>3. /\ SubSeq(W, 1, m) \in Seq(Seq(Chars)) /\ Len(SubSeq(W, 1, m)) = m
        /\ \A i \in 1 .. m : SubSeq(W, 1, m)[i] = W[i]
    BY <1>4, <2>0
  <2>4. child' = SubSeq(W, 1, m)
    BY <1>8, <2>2, <2>3, SeqEqual
  <2> QED BY <2>2, <2>4
<1>10. HasArgv'
  <2>1. child' # <<>>
    <3>1. Len(child') # 0
      BY <1>0, <1>6, <1>9
    <3> QED BY <3>1
  <2>2. Words(typed)' = W /\ optstring' \in OptStrings
    BY <1>3 DEF TryExec, lineVars
  <2> QED BY <1>6, <1>9, <2>1, <2>2 DEF HasArgv
<1>11. OptionsRead'
  <2>1. optind' = 1 /\ optcursor' = FALSE /\ opts' = {}
    BY DEF TryExec
  <2>2. 1 \in 1 .. m /\ 1 + 1 = 2
    BY <1>0, <1>6
  <2>3. PICK Z : Z = OptionsFrom(child', optstring')
    OBVIOUS
  <2>4. Options(child', optstring') = Z[2] /\ Argc' = m
    BY <1>9, <2>3 DEF Options, Argc
  <2>5. Z[2].opts = {} \cup Z[2].opts
    OBVIOUS
  <2> QED BY <2>1, <2>2, <2>3, <2>4, <2>5 DEF OptionsRead, InCluster
<1> QED BY <1>6, <1>9, <1>10, <1>11

--------------------------------------------------------------------------------
(* getopt.                                                                      *)
\* A program's argv.
LEMMA ArgvTyped ==
  ASSUME HasArgv
  PROVE  child \in Seq(Seq(Chars)) /\ child # <<>> /\ optstring \in OptStrings
BY Zenon DEF HasArgv

\* The option getopt looks at is the next of its cluster t, and those before it
\* take no argument and are returned.
Looked(i, t, n) ==
  /\ i = optind + 1 /\ t = Tail(child[i]) /\ n = Place
  /\ optind \in 1 .. (Argc - 1) /\ i \in 2 .. Argc
  /\ IsOption(child[i]) /\ child[i] # <<DASH, DASH>>
  /\ Len(child[i]) = Len(t) + 1 /\ t \in Seq(Chars) /\ n \in 0 .. (Len(t) - 1)
  /\ \A j \in 1 .. Len(t) : child[i][j + 1] = t[j]
  /\ \A j \in 1 .. n : ~Takes(optstring, t[j]) /\ Plainly(optstring, t[j]) \in opts

\* There is such a cluster whenever getopt looks at an option.
LEMMA LookedAt ==
  ASSUME HasArgv, OptionsRead, optcursor \in BOOLEAN, Looking
  PROVE  \E i, t, n : Looked(i, t, n)
<1>1. PICK i, w, t, n : i = optind + 1 /\ w = child[i] /\ t = Tail(w) /\ n = Place
  OBVIOUS
<1>2. Argc \in Nat /\ optind \in 1 .. (Argc - 1) /\ i \in 2 .. Argc
  BY <1>1, ArgvTyped DEF OptionsRead, Looking, Argc
<1>3. w \in Seq(Chars) /\ Word(optind) = w
  <2>1. child \in Seq(Seq(Chars)) /\ i \in 1 .. Len(child)
    BY <1>2, ArgvTyped DEF Argc
  <2> QED BY <1>1, <2>1 DEF Word
<1>4. IsOption(w) /\ w # <<DASH, DASH>>
  BY <1>3 DEF Looking, OptionsRead, InClusterAt
<1>5. Len(w) > 1 /\ Len(w) \in Nat /\ w # <<>>
  BY <1>3, <1>4 DEF IsOption
<1>6. t \in Seq(Chars) /\ Len(w) = Len(t) + 1 /\ \A j \in 1 .. Len(t) : w[j + 1] = t[j]
  BY <1>1, <1>3, <1>5, HeadTailProperties
<1>7. /\ n \in 0 .. (Len(t) - 1)
      /\ \A j \in 1 .. n : ~Takes(optstring, t[j]) /\ Plainly(optstring, t[j]) \in opts
  <2>1. CASE ~InCluster
    <3>1. n = 0
      BY <1>1, <2>1 DEF Place
    <3>2. 0 \in 0 .. (Len(t) - 1) /\ \A j \in 1 .. 0 : FALSE
      BY <1>5, <1>6
    <3> QED BY <3>1, <3>2
  <2>2. CASE InCluster
    <3>1. n = nextchar /\ n \in 1 .. (Len(w) - 2)
      BY <1>1, <1>3, <2>2 DEF Place, OptionsRead, InClusterAt
    <3>2. ASSUME NEW j \in 1 .. n
          PROVE  ~Takes(optstring, t[j]) /\ Plainly(optstring, t[j]) \in opts
      <4>1. j - 1 \in 0 .. (nextchar - 1) /\ j \in 1 .. Len(t) /\ (j - 1) + 2 = j + 1
        BY <1>5, <1>6, <3>1
      <4>2. Option(j - 1) = t[j]
        BY <1>3, <1>6, <4>1 DEF Option
      <4>3. ~Takes(optstring, Option(j - 1)) /\ Plainly(optstring, Option(j - 1)) \in opts
        BY <2>2, <4>1 DEF OptionsRead, InClusterAt
      <4> QED BY <4>2, <4>3
    <3>3. n \in 0 .. (Len(t) - 1)
      BY <1>5, <1>6, <3>1
    <3> QED BY <3>2, <3>3
  <2> QED BY <2>1, <2>2
<1> QED BY <1>1, <1>2, <1>4, <1>6, <1>7 DEF Looked

\* What it looks at, in the cluster.
LEMMA LookedOption ==
  ASSUME NEW i, NEW t, NEW n, Looked(i, t, n)
  PROVE  /\ Len(t) \in Nat /\ n + 1 \in 1 .. Len(t)
         /\ Option(n) = t[n + 1] /\ (IsLast(n) <=> n + 1 = Len(t))
<1>1. t \in Seq(Chars) /\ n \in 0 .. (Len(t) - 1) /\ Len(child[i]) = Len(t) + 1
  BY DEF Looked
<1>2. Word(optind) = child[i]
  BY DEF Looked, Word
<1>3. Len(t) \in Nat /\ n + 1 \in 1 .. Len(t) /\ (n + 1) + 1 = n + 2
  BY <1>1
<1>4. child[i][(n + 1) + 1] = t[n + 1]
  BY <1>3 DEF Looked
<1>5. Option(n) = t[n + 1]
  BY <1>2, <1>3, <1>4 DEF Option
<1>6. IsLast(n) <=> n + 1 = Len(t)
  BY <1>1, <1>2, <1>3 DEF IsLast
<1> QED BY <1>3, <1>5, <1>6

\* The options of the cluster's word, and of the words after it.
LEMMA OptionsHere ==
  ASSUME HasArgv, NEW i, NEW t, NEW n, Looked(i, t, n),
         NEW Z, Z = OptionsFrom(child, optstring), NEW z, z = Z[Following(child, optstring, i)]
  PROVE  /\ Z[i].opts = Plains(child, optstring, i) \cup Finishing(child, optstring, i) \cup z.opts
         /\ Z[i].operands = z.operands
<1>1. i \in 2 .. Len(child) /\ IsOption(child[i]) /\ child[i] # <<DASH, DASH>>
  BY DEF Looked, Argc
<1>2. child \in Seq(Seq(Chars)) /\ Len(child) \in Nat
  BY ArgvTyped
<1>3. i \in 2 .. (Len(child) + 2) /\ ~(i > Len(child))
  BY <1>1, <1>2
<1>4. Z[i] = OptionsAt(child, optstring, Z, i)
  BY <1>2, <1>3, OptionsRun
<1> QED BY <1>1, <1>3, <1>4 DEF OptionsAt

\* The first option of a cluster that takes an argument is a later one.
LEMMA NotTaking ==
  ASSUME HasArgv, NEW i, NEW t, NEW n, Looked(i, t, n), ~Takes(optstring, t[n + 1])
  PROVE  /\ Plainly(optstring, t[n + 1]) \in Plains(child, optstring, i)
         /\ n + 1 = Len(t) =>
              /\ Following(child, optstring, i) = i + 1 /\ Finishing(child, optstring, i) = {}
              /\ Plains(child, optstring, i) \subseteq opts \cup {Plainly(optstring, t[n + 1])}
<1>1. PICK k : k = FirstTaking(child, optstring, i)
  OBVIOUS
<1>2. PICK S : S = Taking(child, optstring, i)
  OBVIOUS
<1>3. t \in Seq(Chars) /\ Len(t) \in Nat /\ n \in Nat /\ n + 1 \in 1 .. Len(t) /\ t = Tail(child[i])
  BY LookedOption DEF Looked
<1>4. S = {j \in 1 .. Len(t) : Takes(optstring, t[j])} \cup {Len(t) + 1}
  BY <1>2, <1>3 DEF Taking
<1>5. \A j \in 1 .. (n + 1) : ~Takes(optstring, t[j])
  <2>1. \A j \in 1 .. (n + 1) : j = n + 1 \/ j \in 1 .. n
    BY <1>3
  <2>2. \A j \in 1 .. n : ~Takes(optstring, t[j])
    BY DEF Looked
  <2> QED BY <2>1, <2>2
<1>6. k \in S
  <2>1. S \in SUBSET Nat /\ Len(t) + 1 \in S
    BY <1>3, <1>4
  <2> QED BY <1>1, <1>2, <2>1, MinIn DEF FirstTaking
<1>7. k \in Nat /\ k > n + 1 /\ k <= Len(t) + 1
  <2>1. k \in 1 .. (Len(t) + 1) /\ ~(k \in 1 .. (n + 1))
    BY <1>3, <1>4, <1>5, <1>6
  <2> QED BY <1>3, <2>1
<1>8. Plains(child, optstring, i) = {Plainly(optstring, t[j]) : j \in 1 .. (k - 1)}
  BY <1>1, <1>3 DEF Plains
<1>9. n + 1 \in 1 .. (k - 1)
  BY <1>3, <1>7
<1>10. ASSUME n + 1 = Len(t)
       PROVE  /\ Following(child, optstring, i) = i + 1 /\ Finishing(child, optstring, i) = {}
              /\ Plains(child, optstring, i) \subseteq opts \cup {Plainly(optstring, t[n + 1])}
  <2>1. k = Len(t) + 1 /\ k > Len(t) /\ k # Len(t)
    BY <1>3, <1>7, <1>10
  <2>2. Finishing(child, optstring, i) = {} /\ ~Paired(child, optstring, i)
    BY <1>1, <1>3, <2>1 DEF Finishing, Paired
  <2>3. \A j \in 1 .. (k - 1) : j \in 1 .. n \/ j = n + 1
    BY <1>3, <1>10, <2>1
  <2>4. \A j \in 1 .. n : Plainly(optstring, t[j]) \in opts
    BY DEF Looked
  <2> QED BY <1>8, <2>2, <2>3, <2>4 DEF Following
<1> QED BY <1>8, <1>9, <1>10

\* The option is the first of its cluster that takes an argument.
LEMMA FirstTakes ==
  ASSUME HasArgv, NEW i, NEW t, NEW n, Looked(i, t, n), Takes(optstring, t[n + 1])
  PROVE  /\ FirstTaking(child, optstring, i) = n + 1
         /\ Plains(child, optstring, i) \subseteq opts
<1>3. t \in Seq(Chars) /\ Len(t) \in Nat /\ n \in Nat /\ n + 1 \in 1 .. Len(t) /\ t = Tail(child[i])
  BY LookedOption DEF Looked
<1>4. Taking(child, optstring, i) = {j \in 1 .. Len(t) : Takes(optstring, t[j])} \cup {Len(t) + 1}
  BY <1>3 DEF Taking
<1>5. \A j \in 1 .. n : ~Takes(optstring, t[j]) /\ Plainly(optstring, t[j]) \in opts
  BY DEF Looked
<1>6. FirstTaking(child, optstring, i) = n + 1
  <2>1. PICK S : S = Taking(child, optstring, i)
    OBVIOUS
  <2>2. S \in SUBSET Nat /\ n + 1 \in S
    BY <1>3, <1>4, <2>1
  <2>3. ASSUME NEW y \in S PROVE n + 1 <= y
    <3>1. y \in 1 .. (Len(t) + 1) /\ ~(y \in 1 .. n)
      BY <1>3, <1>4, <1>5, <2>1, <2>3
    <3> QED BY <1>3, <3>1
  <2>4. Min(S) = n + 1
    BY <2>2, <2>3, MinIs
  <2> QED BY <2>1, <2>4 DEF FirstTaking
<1>7. Plains(child, optstring, i) = {Plainly(optstring, t[j]) : j \in 1 .. n}
  <2>1. (n + 1) - 1 = n
    BY <1>3
  <2> QED BY <1>3, <1>6, <2>1 DEF Plains
<1> QED BY <1>5, <1>6, <1>7

\* A step of getopt that returns r and goes on to word i.
Stepped(i, r) ==
  /\ UNCHANGED <<child, optstring>> /\ Returns(r)
  /\ optind' + 1 = i /\ optind' \in 1 .. Argc

\* The loop goes on to a word after the option's, having returned all of its options.
LEMMA WordDone ==
  ASSUME HasArgv, OptionsRead, NEW i, NEW t, NEW n, Looked(i, t, n),
         NEW j, j = Following(child, optstring, i), NEW r, Stepped(j, r), optcursor' = FALSE,
         NEW E, E = Plains(child, optstring, i) \cup Finishing(child, optstring, i),
         E \subseteq opts \cup {r}, r \in E
  PROVE  OptionsRead'
<1>1. PICK Z : Z = OptionsFrom(child, optstring)
  OBVIOUS
<1>2. PICK z : z = Z[j]
  OBVIOUS
<1>3. Z[i].opts = E \cup z.opts /\ Z[i].operands = z.operands
  BY <1>1, <1>2, OptionsHere
<1>4. i = optind + 1
  BY DEF Looked
<1>5. Z[2].opts = opts \cup Z[i].opts /\ Z[2].operands = Z[i].operands
  BY <1>1, <1>4 DEF OptionsRead, Options
<1>6. opts' = opts \cup {r} /\ child' = child /\ optstring' = optstring /\ optind' + 1 = j
  BY DEF Stepped, Returns
<1>7. Z[2].opts = opts' \cup z.opts /\ Z[2].operands = z.operands
  BY <1>3, <1>5, <1>6
<1>8. /\ Options(child, optstring)' = Z[2] /\ OptionsFrom(child, optstring)' = Z
      /\ Argc' = Argc /\ ~InCluster'
  BY <1>1, <1>6 DEF Options, Argc, InCluster
<1>9. optind' \in 1 .. Argc
  BY DEF Stepped
<1> QED BY <1>2, <1>6, <1>7, <1>8, <1>9 DEF OptionsRead

\* The loop goes on in the cluster.
LEMMA ClusterGoesOn ==
  ASSUME HasArgv, OptionsRead, NEW i, NEW t, NEW n, Looked(i, t, n), n + 1 # Len(t),
         ~Takes(optstring, t[n + 1]),
         UNCHANGED <<child, optstring, optind>>, Returns(Plainly(optstring, t[n + 1])),
         nextchar' = n + 1, optcursor' = TRUE
  PROVE  OptionsRead'
<1>1. PICK Z : Z = OptionsFrom(child, optstring)
  OBVIOUS
<1>2. PICK r : r = Plainly(optstring, t[n + 1])
  OBVIOUS
<1>3. r \in Z[i].opts
  <2>1. PICK z : z = Z[Following(child, optstring, i)]
    OBVIOUS
  <2>2. Z[i].opts = Plains(child, optstring, i) \cup Finishing(child, optstring, i) \cup z.opts
    BY <1>1, <2>1, OptionsHere
  <2>3. r \in Plains(child, optstring, i)
    BY <1>2, NotTaking
  <2> QED BY <2>2, <2>3
<1>4. /\ i = optind + 1 /\ optind \in 1 .. (Argc - 1)
      /\ IsOption(child[i]) /\ child[i] # <<DASH, DASH>>
  BY DEF Looked
<1>5. Z[2].opts = opts \cup Z[i].opts /\ Z[2].operands = Z[i].operands
  BY <1>1, <1>4 DEF OptionsRead, Options
<1>6. opts' = opts \cup {r} /\ child' = child /\ optstring' = optstring /\ optind' = optind
  BY <1>2 DEF Returns
<1>7. Z[2].opts = opts' \cup Z[i].opts
  BY <1>3, <1>5, <1>6
<1>8. /\ Options(child, optstring)' = Z[2] /\ OptionsFrom(child, optstring)' = Z
      /\ Argc' = Argc /\ Word(optind)' = child[i]
  BY <1>1, <1>4, <1>6 DEF Options, Argc, Word
<1>9. Argc \in Nat
  BY ArgvTyped DEF Argc
<1>10. InClusterAt'
  <2>1. /\ Len(t) \in Nat /\ n + 1 \in 1 .. Len(t) /\ n \in Nat /\ Len(child[i]) = Len(t) + 1
        /\ \A j \in 1 .. Len(t) : child[i][j + 1] = t[j]
    BY LookedOption DEF Looked
  <2>2. nextchar' \in 1 .. (Len(child[i]) - 2)
    BY <2>1
  <2>3. ASSUME NEW m \in 0 .. (nextchar' - 1)
        PROVE  ~Takes(optstring', Option(m)') /\ Plainly(optstring', Option(m)') \in opts'
    <3>1. m + 1 \in 1 .. Len(t) /\ (m + 1) + 1 = m + 2
      BY <2>1
    <3>2. Option(m)' = child[i][m + 2]
      BY <1>8 DEF Option
    <3>3. Option(m)' = t[m + 1]
      BY <2>1, <3>1, <3>2
    <3>4. m + 1 = n + 1 \/ m + 1 \in 1 .. n
      BY <2>1
    <3>5. \A j \in 1 .. n : ~Takes(optstring, t[j]) /\ Plainly(optstring, t[j]) \in opts
      BY DEF Looked
    <3>6. ~Takes(optstring, t[m + 1]) /\ Plainly(optstring, t[m + 1]) \in opts'
      <4>1. CASE m + 1 = n + 1
        BY <1>2, <1>6, <4>1
      <4>2. CASE m + 1 \in 1 .. n
        BY <1>6, <3>5, <4>2
      <4> QED BY <3>4, <4>1, <4>2
    <3> QED BY <1>6, <3>3, <3>6
  <2>4. optind' < Argc
    BY <1>4, <1>6, <1>9
  <2> QED BY <1>4, <1>6, <1>8, <2>2, <2>3, <2>4 DEF InClusterAt
<1>11. optind' \in 1 .. Argc /\ optind' + 1 = i
  BY <1>4, <1>6, <1>9
<1> QED BY <1>5, <1>7, <1>8, <1>10, <1>11 DEF OptionsRead

\* An option that takes no argument, known or not.
LEMMA PlainStep ==
  ASSUME HasArgv, OptionsRead, NEW i, NEW t, NEW n, Looked(i, t, n),
         UNCHANGED <<child, optstring>>, Illegal(n) \/ Plain(n)
  PROVE  OptionsRead'
<1>1. /\ Len(t) \in Nat /\ n + 1 \in 1 .. Len(t)
      /\ Option(n) = t[n + 1] /\ (IsLast(n) <=> n + 1 = Len(t))
  BY LookedOption
<1>2. PICK r : r = Plainly(optstring, t[n + 1])
  OBVIOUS
<1>3. ~Takes(optstring, t[n + 1]) /\ Returns(r) /\ StepPast(n)
  BY <1>1, <1>2 DEF Illegal, Plain, Takes, Plainly, Refused
<1>4. CASE IsLast(n)
  <2>1. optcursor' = FALSE /\ optind' = optind + 1
    BY <1>3, <1>4 DEF StepPast
  <2>2. i = optind + 1 /\ optind \in 1 .. (Argc - 1) /\ Argc \in Nat
    BY ArgvTyped DEF Looked, Argc
  <2>3. Following(child, optstring, i) = i + 1 /\ Finishing(child, optstring, i) = {}
    BY <1>1, <1>3, <1>4, NotTaking
  <2>4. /\ Plains(child, optstring, i) \subseteq opts \cup {r}
        /\ r \in Plains(child, optstring, i)
    BY <1>1, <1>2, <1>3, <1>4, NotTaking
  <2>5. optind' + 1 = i + 1 /\ optind' \in 1 .. Argc
    BY <2>1, <2>2
  <2>6. Stepped(i + 1, r)
    BY <1>3, <2>5 DEF Stepped
  <2>7. PICK E : E = Plains(child, optstring, i) \cup Finishing(child, optstring, i)
    OBVIOUS
  <2>8. E \subseteq opts \cup {r} /\ r \in E
    BY <2>3, <2>4, <2>7
  <2>9. PICK j : j = Following(child, optstring, i)
    OBVIOUS
  <2>10. Stepped(j, r)
    BY <2>3, <2>6, <2>9
  <2> QED BY <2>1, <2>7, <2>8, <2>9, <2>10, WordDone
<1>5. CASE ~IsLast(n)
  <2>1. optcursor' = TRUE /\ optind' = optind /\ nextchar' = n + 1 /\ n + 1 # Len(t)
    BY <1>1, <1>3, <1>5 DEF StepPast
  <2> QED BY <1>2, <1>3, <2>1, ClusterGoesOn
<1> QED BY <1>4, <1>5

\* An option that takes an argument, with one or without.
LEMMA ArgumentStep ==
  ASSUME HasArgv, OptionsRead, NEW i, NEW t, NEW n, Looked(i, t, n),
         UNCHANGED <<child, optstring>>, Attached(n) \/ Missing(n) \/ Separate(n)
  PROVE  OptionsRead'
<1>1. /\ Len(t) \in Nat /\ n + 1 \in 1 .. Len(t)
      /\ Option(n) = t[n + 1] /\ (IsLast(n) <=> n + 1 = Len(t))
  BY LookedOption
<1>2. /\ i = optind + 1 /\ optind \in 1 .. (Argc - 1) /\ Argc \in Nat /\ Argc = Len(child)
      /\ t = Tail(child[i])
  BY ArgvTyped DEF Looked, Argc
<1>3. Takes(optstring, t[n + 1])
  BY <1>1 DEF Attached, Missing, Separate, WithArgument, Takes
<1>4. FirstTaking(child, optstring, i) = n + 1 /\ Plains(child, optstring, i) \subseteq opts
  BY <1>3, FirstTakes
<1>5. ~(n + 1 > Len(t))
  BY <1>1
<1>6. Paired(child, optstring, i) <=> IsLast(n) /\ optind + 1 < Argc
  BY <1>1, <1>2, <1>4 DEF Paired
<1>7. \E r : /\ Finishing(child, optstring, i) = {r} /\ Returns(r) /\ optcursor' = FALSE
             /\ optind' + 1 = Following(child, optstring, i) /\ optind' \in 1 .. Argc
  <2>1. CASE Attached(n) \/ Missing(n)
    <3>1. ~Paired(child, optstring, i)
      BY <1>2, <1>6, <2>1 DEF Attached, Missing
    <3>2. Finishing(child, optstring, i) = {Refused} /\ Following(child, optstring, i) = i + 1
      BY <1>2, <1>4, <1>5, <3>1 DEF Finishing, Following
    <3>3. Returns(Refused) /\ optcursor' = FALSE /\ optind' = optind + 1
      BY <2>1 DEF Attached, Missing, WithArgument
    <3>4. optind' + 1 = i + 1 /\ optind' \in 1 .. Argc
      BY <1>2, <3>3
    <3> QED BY <3>2, <3>3, <3>4
  <2>2. CASE Separate(n)
    <3>1. Paired(child, optstring, i) /\ optind + 1 < Argc
      BY <1>6, <2>2 DEF Separate
    <3>2. PICK r : r = [opt |-> t[n + 1], arg |-> child[i + 1]]
      OBVIOUS
    <3>3. Finishing(child, optstring, i) = {r} /\ Following(child, optstring, i) = i + 2
      BY <1>2, <1>4, <1>5, <3>1, <3>2 DEF Finishing, Following
    <3>4. Word(optind + 1) = child[i + 1]
      BY <1>2 DEF Word
    <3>5. Returns(r) /\ optcursor' = FALSE /\ optind' = optind + 2
      BY <1>1, <2>2, <3>2, <3>4 DEF Separate, WithArgument
    <3>6. optind' + 1 = i + 2 /\ optind' \in 1 .. Argc
      BY <1>2, <3>1, <3>5
    <3> QED BY <3>3, <3>5, <3>6
  <2> QED BY <2>1, <2>2
<1>8. PICK r : /\ Finishing(child, optstring, i) = {r} /\ Returns(r) /\ optcursor' = FALSE
               /\ optind' + 1 = Following(child, optstring, i) /\ optind' \in 1 .. Argc
  BY <1>7
<1>9. PICK j : j = Following(child, optstring, i)
  OBVIOUS
<1>10. Stepped(j, r)
  BY <1>8, <1>9 DEF Stepped
<1>11. PICK E : E = Plains(child, optstring, i) \cup Finishing(child, optstring, i)
  OBVIOUS
<1>12. E \subseteq opts \cup {r} /\ r \in E
  BY <1>4, <1>8, <1>11
<1> QED BY <1>8, <1>9, <1>10, <1>11, <1>12, WordDone

\* When getopt returns -1 the options are the command's and optind is at its operands.
LEMMA EndStep ==
  ASSUME HasArgv, OptionsRead, UNCHANGED <<child, optstring>>, OptionsEnd
  PROVE  OptionsAsTyped'
<1>1. PICK Z, i : Z = OptionsFrom(child, optstring) /\ i = optind + 1
  OBVIOUS
<1>2. /\ child \in Seq(Seq(Chars)) /\ Argc = Len(child) /\ Argc \in Nat
      /\ optind \in 1 .. Argc /\ i \in 2 .. (Argc + 1)
  BY <1>1, ArgvTyped DEF OptionsRead, Argc
<1>3. Z[2].opts = opts \cup Z[i].opts /\ Z[2].operands = Z[i].operands
  BY <1>1 DEF OptionsRead, Options
<1>4. Z[i] = OptionsAt(child, optstring, Z, i)
  <2>1. i \in 2 .. (Len(child) + 2)
    BY <1>2
  <2> QED BY <1>1, <1>2, <2>1, OptionsRun
<1>5. Z[i].opts = {} /\ Z[i].operands = optind' + 1
  <2>1. CASE optind >= Argc /\ UNCHANGED <<optind, optcursor>>
    <3>1. i > Len(child) /\ i = Len(child) + 1 /\ i \in Nat
      BY <1>1, <1>2, <2>1
    <3>2. Min({i, Len(child) + 1}) = i
      BY <3>1, MinPair
    <3> QED BY <1>1, <1>4, <2>1, <3>1, <3>2 DEF OptionsAt
  <2>2. CASE optind < Argc /\ ~IsOption(Word(optind)) /\ UNCHANGED optind
    <3>1. ~IsOption(child[i])
      BY <1>1, <2>2 DEF Word
    <3>2. i \in Nat /\ Len(child) + 1 \in Nat /\ i <= Len(child) + 1
      BY <1>2
    <3>3. Min({i, Len(child) + 1}) = i
      BY <3>2, MinPair
    <3> QED BY <1>1, <1>4, <2>2, <3>1, <3>3 DEF OptionsAt
  <2>3. CASE optind < Argc /\ Word(optind) = <<DASH, DASH>> /\ optind' = optind + 1
    <3>1. child[i] = <<DASH, DASH>>
      BY <1>1, <2>3 DEF Word
    <3>2. IsOption(child[i]) /\ ~(i > Len(child))
      BY <1>1, <1>2, <2>3, <3>1 DEF IsOption
    <3>3. Z[i] = [opts |-> {}, operands |-> i + 1]
      BY <1>4, <3>1, <3>2 DEF OptionsAt
    <3> QED BY <1>1, <2>3, <3>3
  <2> QED BY <2>1, <2>2, <2>3 DEF OptionsEnd
<1>6. opts' = opts /\ child' = child /\ optstring' = optstring
  BY DEF OptionsEnd
<1>7. Options(child, optstring)' = Z[2]
  BY <1>1, <1>6 DEF Options
<1>8. opts' = Z[2].opts /\ optind' + 1 = Z[2].operands
  BY <1>3, <1>5, <1>6
<1> QED BY <1>7, <1>8 DEF OptionsAsTyped

--------------------------------------------------------------------------------
(* The invariant of shell and getopt, action by action.                         *)
\* A new prompt.
LEMMA PromptInv == ASSUME Prompt PROVE ShellInv'
<1>1. /\ pc' = "prompt" /\ typed' = <<>> /\ p' = 1 /\ argv' = <<>> /\ child' = <<>>
      /\ optcursor' = FALSE
  BY DEF Prompt
<1>2. Len(typed') = 0 /\ Len(argv') = 0 /\ Len(child') = 0
  BY <1>1
<1>3. 0 < MaxInput /\ 1 \in 1 .. (MaxInput + 1) /\ 0 < ArgMax /\ 0 <= ArgMax
  BY ShellAssumption
<1>4. ShellTypeOK'
  BY <1>1, <1>2, <1>3 DEF ShellTypeOK
<1> QED BY <1>1, <1>4 DEF ShellInv, Parsing, OptionsAsTyped

\* The shell's first prompt.
LEMMA ShellInitInv == ASSUME ShellInit PROVE ShellInv
<1>1. /\ pc = "prompt" /\ typed = <<>> /\ p = 1 /\ argv = <<>> /\ child = <<>>
      /\ optcursor = FALSE
  BY DEF ShellInit
<1>2. Len(typed) = 0 /\ Len(argv) = 0 /\ Len(child) = 0
  BY <1>1
<1>3. 0 < MaxInput /\ 1 \in 1 .. (MaxInput + 1) /\ 0 < ArgMax /\ 0 <= ArgMax
  BY ShellAssumption
<1>4. ShellTypeOK
  BY <1>1, <1>2, <1>3 DEF ShellTypeOK
<1> QED BY <1>1, <1>4 DEF ShellInv, Parsing, OptionsAsTyped

\* While a line is parsed nothing but the line has to fit.
LEMMA LineTypeOK ==
  ASSUME ShellTypeOK, LineCut', pc' \in {"parse", "dispatch"}, UNCHANGED optVars
  PROVE  ShellTypeOK'
<1>1. /\ typed' \in Lines /\ p' \in 1 .. (Len(typed') + 1) /\ Len(argv') <= ArgMax
  BY DEF LineCut
<1>2. Len(typed') \in 1 .. (MaxInput - 1) /\ MaxInput \in Nat
  BY <1>1, ShellAssumption
<1>3. Len(typed') < MaxInput /\ p' \in 1 .. (MaxInput + 1)
  BY <1>1, <1>2
<1>4. child' = child /\ optcursor' = optcursor /\ Len(child) < ArgMax /\ optcursor \in BOOLEAN
  BY DEF optVars, ShellTypeOK
<1> QED BY <1>1, <1>3, <1>4 DEF ShellTypeOK

\* A line typed.
LEMMA GetLineInv ==
  ASSUME ShellInv, NEW line \in Lines, GetLine(line)
  PROVE  ShellInv'
<1>1. LineCut' /\ SoFar' /\ pc' = "parse" /\ UNCHANGED optVars
  BY LineTyped DEF GetLine
<1>2. ShellTypeOK'
  BY <1>1, LineTypeOK DEF ShellInv
<1> QED BY <1>1, <1>2 DEF ShellInv, Parsing, OptionsAsTyped

\* A word cut off the line.
LEMMA ParseWordInv == ASSUME ShellInv, ParseWord PROVE ShellInv'
<1>1. pc = "parse" /\ pc' = "parse" /\ UNCHANGED optVars
  BY DEF ParseWord
<1>2. LineCut /\ SoFar
  BY <1>1 DEF ShellInv, Parsing
<1>3. LineCut' /\ SoFar'
  BY <1>2, WordCut
<1>4. ShellTypeOK'
  BY <1>1, <1>3, LineTypeOK DEF ShellInv
<1> QED BY <1>1, <1>3, <1>4 DEF ShellInv, Parsing, OptionsAsTyped

\* The end of parse.
LEMMA ParseDoneInv == ASSUME ShellInv, ParseDone PROVE ShellInv'
<1>1. CASE argv = <<>>
  BY <1>1, PromptInv DEF ParseDone
<1>2. CASE argv # <<>>
  <2>1. pc = "parse" /\ pc' = "dispatch" /\ UNCHANGED <<typed, input, p, argv>> /\ UNCHANGED optVars
    BY <1>2 DEF ParseDone, lineVars
  <2>2. LineCut /\ SoFar
    BY <2>1 DEF ShellInv, Parsing
  <2>3. AllFound
    BY <1>2, <2>2, LineParsed
  <2>4. LineCut'
    BY <2>1, <2>2 DEF LineCut
  <2>5. AllFound'
    <3>1. Found' = Found
      BY <2>1, InInput DEF Found
    <3> QED BY <2>1, <2>3, <3>1 DEF AllFound
  <2>6. ShellTypeOK'
    BY <2>1, <2>4, LineTypeOK DEF ShellInv
  <2> QED BY <2>1, <2>4, <2>5, <2>6 DEF ShellInv, Parsing, OptionsAsTyped
<1> QED BY <1>1, <1>2

\* The bound of optind.
LEMMA OptindBound ==
  ASSUME NEW n \in Nat, n # 0
  PROVE  Max({1, n}) = n
<1>1. n \in {1, n} /\ \A y \in {1, n} : n >= y
  OBVIOUS
<1>2. Max({1, n}) \in {1, n} /\ \A y \in {1, n} : Max({1, n}) >= y
  BY <1>1 DEF Max
<1> QED BY <1>1, <1>2

\* What getopt knows fits.
LEMMA OptTypeOK ==
  ASSUME ShellTypeOK, UNCHANGED lineVars, pc' = "options", HasArgv', OptionsRead',
         Len(child') < ArgMax, optcursor' \in BOOLEAN
  PROVE  ShellTypeOK'
<1>1. typed' = typed /\ p' = p /\ argv' = argv
  BY DEF lineVars
<1>2. child' \in Seq(Seq(Chars)) /\ child' # <<>>
  BY Zenon DEF HasArgv
<1>3. Argc' \in Nat /\ Argc' # 0
  BY <1>2 DEF Argc
<1>4. Max({1, Argc'}) = Argc'
  BY <1>3, OptindBound
<1>5. optind' \in 1 .. Max({1, Argc'})
  BY <1>4 DEF OptionsRead
<1> QED BY <1>1, <1>5 DEF ShellTypeOK

\* A program starts.
LEMMA TryExecInv == ASSUME ShellInv, TryExec PROVE ShellInv'
<1>1. pc = "dispatch" /\ pc' = "options" /\ UNCHANGED lineVars /\ optcursor' = FALSE
  BY DEF TryExec
<1>2. LineCut /\ AllFound
  BY <1>1 DEF ShellInv, Parsing
<1>3. HasArgv' /\ OptionsRead' /\ Len(child') < ArgMax
  BY <1>2, Executed
<1>4. ShellTypeOK'
  BY <1>1, <1>3, OptTypeOK DEF ShellInv
<1> QED BY <1>1, <1>3, <1>4 DEF ShellInv, Parsing, OptionsAsTyped

\* A call of getopt.
LEMMA GetoptInv == ASSUME ShellInv, Getopt PROVE ShellInv'
<1>1. /\ pc = "options" /\ UNCHANGED <<typed, input, p, argv>>
      /\ UNCHANGED <<child, optstring>> /\ UNCHANGED lineVars
  BY DEF Getopt, Loop, lineVars
<1>2. HasArgv /\ OptionsRead /\ ShellTypeOK
  BY <1>1 DEF ShellInv
<1>3. HasArgv' /\ Len(child') < ArgMax /\ optcursor \in BOOLEAN
  BY <1>1, <1>2 DEF HasArgv, ShellTypeOK
<1>4. CASE OptionsEnd
  <2>1. pc' = "operands" /\ optcursor' \in BOOLEAN
    BY <1>3, <1>4 DEF OptionsEnd
  <2>2. OptionsAsTyped'
    BY <1>1, <1>2, <1>4, EndStep
  <2>3. ShellTypeOK'
    BY <1>1, <1>2, <1>3, <2>1 DEF ShellTypeOK
  <2> QED BY <1>3, <2>1, <2>2, <2>3 DEF ShellInv, Parsing
<1>5. CASE /\ Looking /\ UNCHANGED pc
           /\ LET n == Place IN Illegal(n) \/ Plain(n) \/ Attached(n) \/ Missing(n) \/ Separate(n)
  <2>1. PICK i, t, n : Looked(i, t, n)
    BY <1>2, <1>3, <1>5, LookedAt
  <2>2. Illegal(n) \/ Plain(n) \/ Attached(n) \/ Missing(n) \/ Separate(n)
    BY <1>5, <2>1 DEF Looked
  <2>3. OptionsRead'
    BY <1>1, <1>2, <2>1, <2>2, PlainStep, ArgumentStep
  <2>4. pc' = "options" /\ optcursor' \in BOOLEAN
    BY <1>1, <1>5, <2>2
       DEF Illegal, Plain, Attached, Missing, Separate, WithArgument, StepPast, IsLast
  <2>5. ShellTypeOK'
    BY <1>1, <1>2, <1>3, <2>3, <2>4, OptTypeOK
  <2> QED BY <1>3, <2>3, <2>4, <2>5 DEF ShellInv, Parsing, OptionsAsTyped
<1> QED BY <1>4, <1>5 DEF Getopt

\* Every step of shell and program keeps the invariant.
LEMMA ShellNextInv ==
  ASSUME ShellInv, [ShellNext]_shellVars
  PROVE  ShellInv'
<1>1. CASE ParseWord
  BY <1>1, ParseWordInv
<1>2. CASE ParseDone
  BY <1>2, ParseDoneInv
<1>3. CASE Stay \/ ProgramEnds
  BY <1>3, PromptInv DEF Stay, ProgramEnds
<1>4. CASE TryExec
  BY <1>4, TryExecInv
<1>5. CASE Getopt
  BY <1>5, GetoptInv
<1>6. CASE Type
  BY <1>6, GetLineInv DEF Type
<1>7. CASE UNCHANGED shellVars
  <2>1. UNCHANGED <<typed, input, p, argv, pc, child, optstring, optind, optcursor, nextchar, opts>>
    BY <1>7 DEF shellVars, lineVars, optVars
  <2>2. UNCHANGED ShellTypeOK
    BY <2>1 DEF ShellTypeOK, Argc
  <2>3. UNCHANGED <<LineCut, Found>>
    BY <2>1, InInput DEF LineCut, Found
  <2>4. UNCHANGED <<SoFar, AllFound, HasArgv>>
    BY <2>1, <2>3 DEF SoFar, AllFound, HasArgv
  <2>5. UNCHANGED <<OptionsRead, OptionsAsTyped>>
    BY <2>1 DEF OptionsRead, OptionsAsTyped, InClusterAt, InCluster, Word, Option, Argc
  <2> QED BY <2>1, <2>2, <2>3, <2>4, <2>5 DEF ShellInv, Parsing
<1> QED BY <1>1, <1>2, <1>3, <1>4, <1>5, <1>6, <1>7 DEF ShellNext, Work

\* The invariant holds of every line that is typed and of every program it starts.
THEOREM ShellStaysInv == ShellSpec => []ShellInv
<1>1. ShellInit => ShellInv
  BY ShellInitInv
<1>2. ShellInv /\ [ShellNext]_shellVars => ShellInv'
  BY ShellNextInv
<1> QED BY <1>1, <1>2, PTL DEF ShellSpec

\* A program's argv is the words of the line, as many as fit, however the line has
\* been cut up in its buffer: parse and try_exec of shell/main.c.
THEOREM ArgvStaysWords == ShellSpec => []ArgvIsWords
<1>1. ShellInv => ArgvIsWords
  <2> SUFFICES ASSUME ShellInv PROVE ArgvIsWords
    OBVIOUS
  <2>1. ShellTypeOK
    BY DEF ShellInv
  <2>2. pc \in {"options", "operands"} =>
          child = SubSeq(Words(typed), 1, Min({Len(Words(typed)), ArgMax - 1}))
    BY Zenon DEF ShellInv, HasArgv
  <2> QED BY <2>1, <2>2, Zenon DEF ArgvIsWords
<1> QED BY <1>1, ShellStaysInv, PTL

\* getopt gives a program the options its words say and leaves optind at its
\* operands: args.h, called until it returns -1.
THEOREM OptionsStayAsTyped == ShellSpec => []OptionsAsTyped
<1>1. ShellInv => OptionsAsTyped
  BY DEF ShellInv
<1> QED BY <1>1, ShellStaysInv, PTL
================================================================================
