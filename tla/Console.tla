-------------------------------- MODULE Console --------------------------------
(***************************************************************************)
(* The console (src/src/drivers/framebuffer.c), the keyboard (keyboard.c) and   *)
(* the system calls that print and read a line (kernel/syscall.c:22-64). One     *)
(* program runs at a time, so a call that prints is not interleaved with one     *)
(* that reads; what is interleaved, byte by byte, is the text of many calls and  *)
(* the state the decoder keeps from each to the next. A picture is what is at     *)
(* the top left pixel of each cell; the background colour never changes.         *)
(***************************************************************************)
EXTENDS Integers, Sequences, SequencesExt

CONSTANTS
  FontWidth, FontHeight,  \* 8 and 16
  MaxScale,               \* 4
  Width, Height,          \* of the screen, in pixels
  EscMax,                 \* parameter bytes of an escape sequence kept: 15
  IntSize,                \* values of an int: 2^32
  Bytes,                  \* what programs print
  Sizes,                  \* sizes programs give SYS_GETS
  ScanCodes,              \* what the keyboard sends
  scancode_map, scancode_map_shift,
  Points, Colours,        \* what texts are made of: see TextShown
  TextMax                 \* and how long they are

Scales == 1 .. MaxScale

\* A cell of the largest font fits the screen. A size of 0 would make max - 1 wrap:
\* every caller passes the size of an array.
ASSUME ConsoleAssumption ==
  /\ FontWidth \in Nat \ {0} /\ FontHeight \in Nat \ {0} /\ MaxScale \in Nat \ {0}
  /\ Width \in Nat /\ Height \in Nat
  /\ \A s \in Scales : /\ FontWidth * s \in Nat \ {0} /\ FontWidth * s <= Width
                       /\ FontHeight * s \in Nat \ {0} /\ FontHeight * s <= Height
  /\ EscMax \in Nat /\ IntSize \in Nat \ {0}
  /\ Bytes \subseteq 1 .. 255 /\ Sizes \subseteq Nat \ {0} /\ ScanCodes \subseteq 0 .. 255
  /\ scancode_map \in [0 .. 127 -> 0 .. 127]
  /\ scancode_map_shift \in [0 .. 127 -> 0 .. 127]

VARIABLES
  term,  \* cursor, font scale, colour and decoder; drawn: the cells drawn since
         \* SYS_GETS began, what came before is not remembered
  held,  \* shift_held and ctrl_held
  call   \* the call that reads; start: the cursor's x when it began, or Lost

vars == <<term, held, call>>

NL == 10   BS == 8   ESC == 27   SPACE == 32   QUESTION == 63
Digits == 48 .. 57   SEMI == 59   BRACKET == 91   LETTERM == 109
White == 37

Lost   == -1
NoCall == [op |-> "none", max |-> 0, buf |-> <<>>, start |-> Lost]

Init ==
  /\ term = [x |-> 0, y |-> 0, scale |-> 1, fg |-> White, esc |-> 0, escbuf |-> <<>>,
             left |-> 0, cp |-> 0, drawn |-> <<>>]
  /\ held = [shift |-> FALSE, ctrl |-> FALSE]
  /\ call = NoCall

--------------------------------------------------------------------------------
(* Drawing.                                                                     *)
Cw(t) == FontWidth * t.scale
Ch(t) == FontHeight * t.scale

\* fb_putchar at the cursor.
Glyph(c) == IF c >= 128 THEN QUESTION ELSE c
Draw(t, c) ==
  [t EXCEPT !.drawn = [p \in DOMAIN t.drawn \cup {<<t.x, t.y>>} |->
     IF p = <<t.x, t.y>> THEN <<Glyph(c), t.fg>> ELSE t.drawn[p]]]

Scroll(t) ==
  [t EXCEPT !.drawn = [p \in {<<q[1], q[2] - Ch(t)>> : q \in
                              {r \in DOMAIN t.drawn : r[2] >= Ch(t)}} |->
                         t.drawn[<<p[1], p[2] + Ch(t)>>]]]

\* fb_fill and the cursor's return to the first cell.
Clear(t) == [t EXCEPT !.x = 0, !.y = 0, !.drawn = <<>>]

fb_newline(t) ==
  IF t.y + Ch(t) + Ch(t) > Height
  THEN [Scroll(t) EXCEPT !.x = 0]
  ELSE [t EXCEPT !.x = 0, !.y = @ + Ch(t)]

Advance(t) ==
  IF t.x + Cw(t) + Cw(t) > Width THEN fb_newline(t) ELSE [t EXCEPT !.x = @ + Cw(t)]

fb_putchar_cursor(t, c) ==
  CASE c = NL                    -> fb_newline(t)
    [] c = BS /\ t.x >= Cw(t)    -> Draw([t EXCEPT !.x = @ - Cw(t)], SPACE)
    [] c = BS /\ t.x < Cw(t)     -> t
    [] OTHER                     -> Advance(Draw(t, c))
--------------------------------------------------------------------------------
(* The decoder.                                                                 *)
\* A colour is its code; 0 and 37 are the same white.
Colour(code, fg) ==
  IF code = 0 THEN White ELSE IF code \in 30 .. 37 THEN code ELSE fg

\* code is an int: it wraps after ten digits.
AnsiStep(s, b) ==
  IF b = SEMI \/ b = 0
  THEN [code |-> 0, fg |-> Colour(s.code, s.fg)]
  ELSE [code |-> (s.code * 10 + (b - 48)) % IntSize, fg |-> s.fg]

AnsiBytes(s, bytes) ==
  LET at[i \in 0 .. Len(bytes)] == IF i = 0 THEN s ELSE AnsiStep(at[i - 1], bytes[i])
  IN  at[Len(bytes)]

handle_ansi(t) == AnsiBytes([code |-> 0, fg |-> t.fg], Append(t.escbuf, 0)).fg

\* esc_state is not 0. What is in esc_buf afterwards is never read.
EscByte(t, b) ==
  CASE t.esc = 1 -> [t EXCEPT !.esc = IF b = BRACKET THEN 2 ELSE 0, !.escbuf = <<>>]
    [] t.esc = 2 /\ b \in Digits \cup {SEMI} ->
         IF Len(t.escbuf) < EscMax THEN [t EXCEPT !.escbuf = Append(@, b)] ELSE t
    [] t.esc = 2 /\ b = LETTERM ->
         [t EXCEPT !.fg = handle_ansi(t), !.esc = 0, !.escbuf = <<>>]
    [] OTHER -> [t EXCEPT !.esc = 0, !.escbuf = <<>>]

\* The first byte of a character of more than one.
Lead(t, b) ==
  IF b >= 240 THEN [t EXCEPT !.cp = b % 8, !.left = 3]
  ELSE IF b >= 224 THEN [t EXCEPT !.cp = b % 16, !.left = 2]
  ELSE [t EXCEPT !.cp = b % 32, !.left = 1]

\* One of the others. A code point that is drawn is never read again.
Continued(t, b) ==
  LET cp == t.cp * 64 + (b % 64)
  IN  CASE t.left = 0 -> t
        [] t.left = 1 -> fb_putchar_cursor([t EXCEPT !.cp = 0, !.left = 0],
                                           IF cp < 128 THEN cp ELSE QUESTION)
        [] OTHER      -> [t EXCEPT !.cp = cp, !.left = @ - 1]

\* An incomplete character takes the byte after it for its own, whatever it is.
fb_putchar_cursor_utf8Bug(t, b) ==
  CASE t.esc # 0            -> EscByte(t, b)
    [] t.esc = 0 /\ b = ESC -> [t EXCEPT !.esc = 1]
    [] t.esc = 0 /\ b < 128 /\ b # ESC -> fb_putchar_cursor([t EXCEPT !.cp = 0, !.left = 0], b)
    [] t.esc = 0 /\ b >= 192 /\ t.left = 0 -> Lead(t, b)
    [] OTHER                -> Continued(t, b)
fb_putchar_cursor_utf8(t, b) ==
  CASE t.esc # 0            -> EscByte(t, b)
    [] t.esc = 0 /\ b = ESC -> [t EXCEPT !.esc = 1]
    [] t.esc = 0 /\ b < 128 /\ b # ESC -> fb_putchar_cursor([t EXCEPT !.cp = 0, !.left = 0], b)
    [] t.esc = 0 /\ b >= 192 -> Lead(t, b)
    [] OTHER                -> Continued(t, b)
--------------------------------------------------------------------------------
(* The calls that print.                                                        *)
Forget(t) == [t EXCEPT !.drawn = <<>>]
Running   == call.op = "none"

\* One byte of the text of SYS_PUTS.
SysPuts(b) ==
  /\ Running /\ term' = Forget(fb_putchar_cursor_utf8(term, b))
  /\ UNCHANGED <<held, call>>

\* SYS_PUTCHAR, and one byte of kputs: past the decoder.
SysPutchar(b) ==
  /\ Running /\ term' = Forget(fb_putchar_cursor(term, b))
  /\ UNCHANGED <<held, call>>

SysClear == Running /\ term' = Clear(term) /\ UNCHANGED <<held, call>>
--------------------------------------------------------------------------------
(* The keyboard: kb_getchar, one scan code at a time.                           *)
Shifts == {42, 54}   Shifts_R == {170, 182}   Ctrl == 29   Ctrl_R == 157
Modifiers == Shifts \cup Shifts_R \cup {Ctrl, Ctrl_R}

\* The character of a scan code; 0 when there is none.
Char(sc) ==
  IF sc \in Modifiers \/ sc >= 128 THEN 0
  ELSE IF held.shift THEN scancode_map_shift[sc] ELSE scancode_map[sc]

Zooms(c) == held.ctrl /\ c \in {61, 43, 45}  \* '=', '+' and '-'

\* SYS_GETS has room for a character.
Waiting == call.op = "getchar" \/ (call.op = "gets" /\ Len(call.buf) < call.max - 1)

KeyHeld(sc) ==
  /\ Waiting /\ sc \in Modifiers
  /\ held' = [shift |-> (held.shift \/ sc \in Shifts) /\ sc \notin Shifts_R,
              ctrl  |-> (held.ctrl \/ sc = Ctrl) /\ sc # Ctrl_R]
  /\ UNCHANGED <<term, call>>

KeyIgnored(sc) == /\ Waiting /\ sc \notin Modifiers /\ Char(sc) = 0
                  /\ UNCHANGED vars

Rescaled(t, c) == [t EXCEPT !.scale =
  IF c = 45 THEN IF @ > 1 THEN @ - 1 ELSE @ ELSE IF @ < MaxScale THEN @ + 1 ELSE @]

\* The cursor is left where it was.
KeyZoomBug(sc) ==
  /\ Waiting /\ Char(sc) # 0 /\ Zooms(Char(sc))
  /\ term' = [Rescaled(term, Char(sc)) EXCEPT !.drawn = <<>>]
  /\ call' = [call EXCEPT !.start = Lost] /\ UNCHANGED held
KeyZoom(sc) ==
  /\ Waiting /\ Char(sc) # 0 /\ Zooms(Char(sc))
  /\ term' = Clear(Rescaled(term, Char(sc)))
  /\ call' = [call EXCEPT !.start = Lost] /\ UNCHANGED held

Typed(sc) == Waiting /\ Char(sc) # 0 /\ ~Zooms(Char(sc)) /\ UNCHANGED held
--------------------------------------------------------------------------------
(* SYS_GETCHAR and SYS_GETS.                                                    *)
SysGetchar == /\ Running /\ call' = [NoCall EXCEPT !.op = "getchar"]
              /\ UNCHANGED <<term, held>>

GetcharReturns(sc) ==
  /\ call.op = "getchar" /\ Typed(sc) /\ call' = NoCall /\ UNCHANGED term

SysGets(max) ==
  /\ Running
  /\ call' = [op |-> "gets", max |-> max, buf |-> <<>>, start |-> term.x]
  /\ UNCHANGED <<term, held>>

GetsNewline(sc) ==
  /\ call.op = "gets" /\ Typed(sc) /\ Char(sc) = NL
  /\ term' = Forget(fb_putchar_cursor(term, NL)) /\ call' = NoCall

\* Nothing is taken back, but what stands before the line is rubbed out.
GetsBackspaceBug(sc) ==
  /\ call.op = "gets" /\ Typed(sc) /\ Char(sc) = BS
  /\ call' = IF call.buf = <<>> THEN call ELSE [call EXCEPT !.buf = Front(@)]
  /\ term' = fb_putchar_cursor(term, BS)
GetsBackspace(sc) ==
  /\ call.op = "gets" /\ Typed(sc) /\ Char(sc) = BS
  /\ IF call.buf = <<>> THEN UNCHANGED <<term, call>>
     ELSE call' = [call EXCEPT !.buf = Front(@)] /\ term' = fb_putchar_cursor(term, BS)

\* The echo goes past the decoder. A line that reaches the edge goes on below it.
GetsStore(sc) ==
  /\ call.op = "gets" /\ Typed(sc) /\ Char(sc) \notin {NL, BS}
  /\ term' = fb_putchar_cursor(term, Char(sc))
  /\ call' = [call EXCEPT !.buf = Append(@, Char(sc)),
                          !.start = IF term'.x = 0 THEN Lost ELSE @]

\* The buffer is full; no newline is waited for.
GetsFull == /\ call.op = "gets" /\ ~Waiting
            /\ term' = Forget(term) /\ call' = NoCall /\ UNCHANGED held

Printing == (\E b \in Bytes : SysPuts(b) \/ SysPutchar(b)) \/ SysClear
Key(sc)  == \/ KeyHeld(sc) \/ KeyIgnored(sc) \/ KeyZoom(sc) \/ GetcharReturns(sc)
            \/ GetsNewline(sc) \/ GetsBackspace(sc) \/ GetsStore(sc)
Reading  == \/ SysGetchar \/ (\E max \in Sizes : SysGets(max)) \/ GetsFull
            \/ \E sc \in ScanCodes : Key(sc)

Next == Printing \/ Reading
Spec == Init /\ [][Next]_vars
--------------------------------------------------------------------------------
\* esc_buf and the caller's buffer have a byte left for the 0 at their end, which
\* handle_ansi and SYS_GETS write without a look at how full they are.
TypeOK ==
  /\ term.fg \in 30 .. 37 /\ term.esc \in 0 .. 2 /\ term.left \in 0 .. 3
  /\ term.cp \in Nat /\ Len(term.escbuf) <= EscMax
  /\ held \in [shift : BOOLEAN, ctrl : BOOLEAN]
  /\ call.op \in {"none", "gets", "getchar"} /\ call.max \in Nat
  /\ call.op = "gets" => Len(call.buf) < call.max

\* The cell under the cursor is inside the screen, before every character and at
\* every scale: fb_putpixel would clip what is outside, fb_scroll would move it
\* from beyond the framebuffer (framebuffer.c:72-84).
CursorOnScreen ==
  /\ term.x \in Nat /\ term.y \in Nat /\ term.scale \in Scales
  /\ term.x + Cw(term) <= Width /\ term.y + Ch(term) <= Height

\* What stands before the cursor in its row is the end of the line SYS_GETS has in
\* its buffer; and all of the line stands there, from where it began, as long as
\* it fits the row and no zoom has cleared it.
LineShown ==
  /\ TypeOK
  /\ call.op = "gets" =>
    LET n == Len(call.buf)
        Behind(p) == (term.x - p[1]) \div Cw(term)
    IN  /\ \A p \in DOMAIN term.drawn :
             p[2] = term.y /\ p[1] < term.x =>
               Behind(p) <= n /\ term.drawn[p] = <<call.buf[n + 1 - Behind(p)], term.fg>>
        /\ call.start # Lost =>
             /\ term.x = call.start + n * Cw(term)
             /\ \A k \in 1 .. n : <<term.x - k * Cw(term), term.y>> \in DOMAIN term.drawn

\* A text is characters, in UTF-8, and changes of colour. ESC is no character, and the
\* longest encoding has four bytes.
ASSUME TextAssumption ==
  /\ \A n \in Points : n \in Nat \ {0, ESC} /\ ((n \div 64) \div 64) \div 64 < 8
  /\ Colours \subseteq 30 .. 37
  /\ EscMax >= 2 /\ IntSize > 37 /\ TextMax \in Nat

Cont(n) == 128 + (n % 64)
Utf8(n) ==
  LET q == n \div 64
      p == q \div 64
  IN  IF n < 128 THEN <<n>>
      ELSE IF q < 32 THEN <<192 + q, Cont(n)>>
      ELSE IF p < 16 THEN <<224 + p, Cont(q), Cont(n)>>
      ELSE <<240 + (p \div 64), Cont(p), Cont(q), Cont(n)>>

Item    == [char : Points] \cup [colour : Colours]
Text    == UNION {[1 .. n -> Item] : n \in 1 .. TextMax}
IsChar(i) == "char" \in DOMAIN i
Encoded(i) ==
  IF IsChar(i) THEN Utf8(i.char)
  ELSE <<ESC, BRACKET, 48 + (i.colour \div 10), 48 + (i.colour % 10), LETTERM>>
Meant(t, i) ==
  IF IsChar(i) THEN fb_putchar_cursor(t, Glyph(i.char)) ELSE [t EXCEPT !.fg = i.colour]
Seen(t) == [x |-> t.x, y |-> t.y, fg |-> t.fg, drawn |-> t.drawn]

\* What a terminal is after bytes have gone through the decoder, and after a text is
\* drawn as meant.
Decoded(t, bytes) ==
  LET at[i \in 0 .. Len(bytes)] ==
        IF i = 0 THEN t ELSE fb_putchar_cursor_utf8(at[i - 1], bytes[i])
  IN  at[Len(bytes)]
AsBytes(t, text) ==
  LET at[i \in 0 .. Len(text)] ==
        IF i = 0 THEN t ELSE Decoded(at[i - 1], Encoded(text[i]))
  IN  at[Len(text)]
AsMeant(t, text) ==
  LET at[i \in 0 .. Len(text)] == IF i = 0 THEN t ELSE Meant(at[i - 1], text[i])
  IN  at[Len(text)]

\* Whatever was printed before, cut characters and stray bytes among it, a text
\* printed next is drawn as meant, one cell for a character, unless it starts in
\* the middle of an escape sequence.
TextShown ==
  Running /\ term.esc = 0 =>
    \A text \in Text : Seen(AsBytes(term, text)) = Seen(AsMeant(term, text))
================================================================================
