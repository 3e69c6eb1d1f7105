----------------------------- MODULE LineEditor -----------------------------
(***************************************************************************)
(* The data of the built-in shell (shell/server/fallback): the tokens an   *)
(* InputStream makes of what is typed, the line editor of the Interpreter  *)
(* with its history, the line endings of an OutputStream, and the screen   *)
(* of the terminal that shows the result.                                  *)
(*                                                                         *)
(* A byte is a string, "ESC", "CR", "LF", "TAB", "DEL" and "EOT" control   *)
(* characters, "CTL" any other one, "LEAD" and "TAIL" the two bytes of a   *)
(* character that is not ASCII; the others are printable.  On the way out  *)
(* "left" and "right" are the escape sequences that move the cursor, and   *)
(* "prompt" the prompt.  An edit is a record of the editor it leaves and   *)
(* of what it writes.                                                      *)
(***************************************************************************)
EXTENDS Integers, Sequences, SequencesExt

Arrows == [A |-> "UpArrow", B |-> "DownArrow", C |-> "RightArrow",
           D |-> "LeftArrow"]
Controls == [CR |-> "Enter", DEL |-> "Backspace", EOT |-> "ControlC"]

\* bytes is what to_bytes returns for the token.
Token(key, bytes) == [key |-> key, bytes |-> bytes]

-----------------------------------------------------------------------------
(* InputStream::parse_buff.                                                *)

ArrowAt(buff, i) ==
  /\ i + 2 <= Len(buff) /\ buff[i] = "ESC" /\ buff[i + 1] = "["
  /\ buff[i + 2] \in DOMAIN Arrows

\* Mutant: an escape sequence is not waited for.
NeverHeldAt(buff, i) == FALSE

\* What may become an escape sequence waits for three bytes.
HeldAt(buff, i) == buff[i] = "ESC" /\ i + 2 > Len(buff)

\* Bytes that mean nothing to the editor are joined to one token.
WithByte(b, tokens) ==
  IF tokens # <<>> /\ Head(tokens).key = "Bytes"
  THEN <<Token("Bytes", <<b>> \o Head(tokens).bytes)>> \o Tail(tokens)
  ELSE <<Token("Bytes", <<b>>)>> \o tokens

\* The tokens in buff, and the bytes that are kept for the next time.
Parsed(buff) ==
  LET from[i \in 1 .. Len(buff) + 1] ==
        IF i > Len(buff) THEN [tokens |-> <<>>, rest |-> <<>>]
        ELSE IF HeldAt(buff, i)
        THEN [tokens |-> <<>>, rest |-> SubSeq(buff, i, Len(buff))]
        ELSE IF ArrowAt(buff, i)
        THEN [from[i + 3] EXCEPT !.tokens =
                <<Token(Arrows[buff[i + 2]], SubSeq(buff, i, i + 2))>> \o @]
        ELSE IF buff[i] \in DOMAIN Controls
        THEN [from[i + 1] EXCEPT !.tokens =
                <<Token(Controls[buff[i]], <<buff[i]>>)>> \o @]
        ELSE [from[i + 1] EXCEPT !.tokens = WithByte(buff[i], @)]
  IN from[1]

\* Tokens one byte or key at a time.
Keys1(tokens) ==
  FlattenSeq([i \in DOMAIN tokens |->
    IF tokens[i].key = "Bytes"
    THEN [j \in DOMAIN tokens[i].bytes |-> tokens[i].bytes[j]]
    ELSE <<tokens[i].key>>])

-----------------------------------------------------------------------------
(* The line editor of the Interpreter.                                     *)

NewEditor == [line |-> <<>>, cursor |-> 0, history |-> <<>>, history_pos |-> 0]

Times(n, b) == [i \in 1 .. n |-> b]
Larger(m, n) == IF m < n THEN n ELSE m
Edit(ed, out) == [ed |-> ed, out |-> out]

\* Mutant: only as much is written as the new line holds.
RefreshShort(ed, new) ==
  Edit(new, Times(ed.cursor, "left") \o new.line
              \o Times(Len(new.line) - new.cursor, "left"))

\* refresh_line: back to the start, the new line, blanks over what is left of
\* the old one, and back to the cursor.
Refresh(ed, new) ==
  LET n == Larger(Len(ed.line), Len(new.line))
  IN Edit(new, Times(ed.cursor, "left") \o new.line
                 \o Times(n - Len(new.line), " ") \o Times(n - new.cursor, "left"))

InsertBytes(ed, bytes) ==
  LET new == [ed EXCEPT
        !.line = SubSeq(@, 1, ed.cursor) \o bytes
                   \o SubSeq(@, ed.cursor + 1, Len(@)),
        !.cursor = @ + Len(bytes)]
  IN IF ed.cursor = Len(ed.line) THEN Edit(new, bytes) ELSE Refresh(ed, new)

AdvanceCursor(ed) ==
  IF ed.cursor = Len(ed.line) THEN Edit(ed, <<>>)
  ELSE Edit([ed EXCEPT !.cursor = @ + 1], <<"right">>)

RetractCursor(ed) ==
  IF ed.cursor = 0 THEN Edit(ed, <<>>)
  ELSE Edit([ed EXCEPT !.cursor = @ - 1], <<"left">>)

Backspace(ed) ==
  LET new == [ed EXCEPT
        !.line = SubSeq(@, 1, ed.cursor - 1) \o SubSeq(@, ed.cursor + 1, Len(@)),
        !.cursor = @ - 1]
  IN IF ed.cursor = 0 THEN Edit(ed, <<>>)
     ELSE IF ed.cursor = Len(ed.line) THEN Edit(new, <<"left", " ", "left">>)
     ELSE Refresh(ed, new)

Recall(ed, pos, line) ==
  Refresh(ed, [ed EXCEPT !.history_pos = pos, !.line = line,
                         !.cursor = Len(line)])

PreviousInHistory(ed) ==
  IF ed.history_pos = 0 THEN Edit(ed, <<>>)
  ELSE Recall(ed, ed.history_pos - 1, ed.history[ed.history_pos])

NextInHistory(ed) ==
  LET pos == ed.history_pos + 1
  IN IF pos > Len(ed.history) THEN Edit(ed, <<>>)
     ELSE Recall(ed, pos, IF pos = Len(ed.history) THEN <<>>
                          ELSE ed.history[pos + 1])

InterruptLine(ed) ==
  Edit([ed EXCEPT !.line = <<>>, !.cursor = 0], <<"CR", "LF", "prompt">>)

\* The end of read_line, once the line has proved to be text.
NewLine(ed) ==
  Edit([line |-> <<>>, cursor |-> 0, history |-> Append(ed.history, ed.line),
        history_pos |-> Len(ed.history) + 1], <<"CR", "LF">>)

\* The edit for each token but Enter.
EditOf(ed, token) ==
  CASE token.key = "Bytes"      -> InsertBytes(ed, token.bytes)
    [] token.key = "UpArrow"    -> PreviousInHistory(ed)
    [] token.key = "DownArrow"  -> NextInHistory(ed)
    [] token.key = "RightArrow" -> AdvanceCursor(ed)
    [] token.key = "LeftArrow"  -> RetractCursor(ed)
    [] token.key = "Backspace"  -> Backspace(ed)
    [] token.key = "ControlC"   -> InterruptLine(ed)

-----------------------------------------------------------------------------
(* OutputStream::write.                                                    *)

\* Mutant: the last byte of the write before is not looked at.
Returned(last, buf) ==
  FlattenSeq([i \in DOMAIN buf |->
    IF buf[i] = "LF" /\ (i = 1 \/ buf[i - 1] # "CR")
    THEN <<"CR", "LF">> ELSE <<buf[i]>>])

\* A line feed without a carriage return before it is given one; last is the
\* byte that was written before.
Converted(last, buf) ==
  FlattenSeq([i \in DOMAIN buf |->
    IF buf[i] = "LF" /\ (IF i = 1 THEN last ELSE buf[i - 1]) # "CR"
    THEN <<"CR", "LF">> ELSE <<buf[i]>>])

-----------------------------------------------------------------------------
(* The terminal at the client, wide enough for every line: what follows    *)
(* the prompt in the row of the cursor, and where the cursor is in it.     *)

TabStop == 8

\* The bytes the editor counts as one column and the terminal does not.
NotOneColumn == {"LF", "TAB", "ESC", "CTL", "LEAD", "TAIL"}

BlankScreen == [row |-> <<>>, col |-> 0]

\* A character is drawn when its last byte has come.  What an escape sequence
\* does besides those of the editor is left open: see DisplayAgrees.
Drawn(screen, b) ==
  CASE b = "left"  -> [screen EXCEPT !.col = @ - 1]
    [] b = "right" -> [screen EXCEPT !.col = @ + 1]
    [] b \in {"prompt", "CR", "LF"} -> BlankScreen
    [] b \in {"ESC", "CTL", "LEAD"} -> screen
    [] b = "TAB" -> LET stop == (screen.col \div TabStop + 1) * TabStop
                    IN [row |-> screen.row \o Times(stop - Len(screen.row), " "),
                        col |-> stop]
    [] OTHER -> [row |-> SubSeq(screen.row, 1, screen.col) \o <<b>>
                           \o SubSeq(screen.row, screen.col + 2, Len(screen.row)),
                 col |-> screen.col + 1]

Shows(screen, out) ==
  LET after[i \in 0 .. Len(out)] ==
        IF i = 0 THEN screen
        ELSE LET before == after[i - 1] IN Drawn(before, out[i])
  IN after[Len(out)]

\* The row shows the line, and nothing after it, with the cursor in its place.
Agree(screen, ed) ==
  /\ screen.col = ed.cursor
  /\ IsPrefix(ed.line, screen.row)
  /\ \A i \in Len(ed.line) + 1 .. Len(screen.row) : screen.row[i] = " "
=============================================================================
