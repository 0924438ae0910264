---------------------------- MODULE CommandLine ----------------------------
(***************************************************************************)
(* The command line: Shell::handle_keyboard fills current_line and echoes  *)
(* each key through out::cprint; Enter runs the line as a command.  All of *)
(* it happens inside the keyboard interrupt, so a key is one step.         *)
(*                                                                         *)
(* A key is the character translate makes of it (the shift keys only       *)
(* choose the table).  Commands are told by a first word of one character. *)
(* A cell of the screen holds the set of the glyphs drawn over each other  *)
(* since it was last cleared; a blank draws nothing.                       *)
(***************************************************************************)
EXTENDS Integers, Sequences, FiniteSets, SequencesExt

CONSTANTS
    CanvasWidth, CanvasHeight,  \* of the shell canvas, in pixels
    MaxCharacters,          \* MAX_COMMAND_CHARACTERS
    Keys,                   \* the characters that are typed, except Space
    LineBound, RowBound     \* bounds on the index and on cursor_pos.y

Space == " "
NewLine == "newline"
End == "end"                \* 0, the end of a string
Pointer == "pointer"        \* a byte of Shell::mouse, behind current_line

ASSUME CommandLineAssumption ==
    /\ CanvasWidth \in Nat /\ CanvasWidth >= 40 /\ CanvasHeight \in Nat \ {0}
    /\ MaxCharacters \in Nat \ {0}
    /\ LineBound \in Nat /\ RowBound \in Nat \ {0, 1}
    /\ Keys \cap {Space, NewLine, End, Pointer} = {}

VARIABLES
    current_line,       \* its bytes, and behind them those of the next member
    current_line_index,
    screen,             \* cursor_pos, user_begin_pos and the cells
    entered             \* ghost: Enter was pressed

lineVars == <<current_line, current_line_index, screen, entered>>

Glyphs == Keys \cup {">", "?", "#", "u"}
Columns == 0 .. CanvasWidth \div 8
Rows == 0 .. RowBound
Point == [x : Columns, y : Rows]

LineTypeOK ==
    /\ current_line \in [0 .. LineBound -> Keys \cup {Space, End, Pointer}]
    /\ current_line_index \in 0 .. LineBound
    /\ screen.cursor \in Point /\ screen.begin \in Point
    /\ screen.cells \in [Point -> SUBSET Glyphs]
    /\ entered \in BOOLEAN

-----------------------------------------------------------------------------
(* out: the cursor and what is drawn. *)

Blank == [p \in Point |-> {}]

\* draw_rect clears the cell of a character only if it lies on the canvas as a
\* whole; draw_char draws the pixels that do.
ClearedWhole(p) == p.x * 8 + 13 <= CanvasWidth /\ p.y * 16 + 16 <= CanvasHeight
DrawnInPart(p) == p.x * 8 + 5 < CanvasWidth /\ p.y * 16 < CanvasHeight

Rect(cells, p) == IF ClearedWhole(p) THEN [cells EXCEPT ![p] = {}] ELSE cells

Glyph(cells, p, c) ==
    IF c = Space \/ ~DrawnInPart(p) THEN cells ELSE [cells EXCEPT ![p] = @ \cup {c}]

\* The cursor behind a character at p, on the next row if the row is full.
Advanced(p) ==
    IF (p.x + 1) * 8 + 16 > CanvasWidth THEN [x |-> 0, y |-> p.y + 1] ELSE [p EXCEPT !.x = @ + 1]

\* cprint.  A newline moves user_begin_pos as well.
Printed(s, c) ==
    IF c = NewLine
    THEN [s EXCEPT !.cursor = [x |-> 0, y |-> @.y + 1], !.begin.y = @ + 1]
    ELSE [s EXCEPT !.cells = Glyph(Rect(@, s.cursor), s.cursor, c),
                   !.cursor = Advanced(@)]

\* print.
PrintedAll(s, text) == FoldLeft(Printed, s, text)

Cleared(s) == [s EXCEPT !.cells = Blank, !.cursor = [x |-> 0, y |-> 0]]

\* mutant: back to the last column there is room for
BackFromMargin(p) ==
    IF p.x > 0 THEN [p EXCEPT !.x = @ - 1]
    ELSE [x |-> (CanvasWidth - 1) \div 8, y |-> p.y - 1]

Back(p) ==
    IF p.x > 0 THEN [p EXCEPT !.x = @ - 1]
    ELSE [x |-> (CanvasWidth - 10) \div 8, y |-> p.y - 1]

\* backspace: nothing happens at the prompt.
Backspaced(s) ==
    IF s.cursor.x <= s.begin.x /\ s.cursor.y = s.begin.y THEN s
    ELSE [s EXCEPT !.cursor = Back(@), !.cells = Rect(@, Back(s.cursor))]

\* enter, and init_user: the prompt, and where the user begins behind it.
Prompted(s) ==
    LET shown == PrintedAll(s, <<NewLine, ">", Space>>)
    IN  [shown EXCEPT !.begin = shown.cursor]

-----------------------------------------------------------------------------
(* parse_command. *)

\* The string at the start of the line.  With no 0 in current_line it runs on
\* into the bytes behind it.
Text(line) ==
    LET ends == {i \in DOMAIN line : line[i] = End}
        length == IF ends = {} THEN LineBound + 1
                  ELSE CHOOSE i \in ends : \A j \in ends : i <= j
    IN  [i \in 1 .. length |-> line[i - 1]]

\* argv: the longest stretches of the string without a blank.  The code has room
\* for MAX_COMMAND_TOKENS = 16 of them and does not count; lines of the model are
\* too short for more.
Words(text) ==
    LET Grow(words, i) ==
            IF text[i] = Space THEN words
            ELSE IF i = 1 \/ text[i - 1] = Space THEN Append(words, <<text[i]>>)
            ELSE [words EXCEPT ![Len(words)] = Append(@, text[i])]
    IN  FoldLeft(Grow, <<>>, [i \in 1 .. Len(text) |-> i])

\* What a command shows.  "e" is echo, "c" is clear, "w" is windowcolor; "window"
\* prints a line, as an unknown command does.
Executed(s, words) ==
    CASE words = <<>> -> s
      [] words # <<>> /\ words[1] = <<"e">> ->
            PrintedAll(s, FlattenSeq([i \in 1 .. Len(words) - 1 |-> Append(words[i + 1], Space)]))
      [] words # <<>> /\ words[1] = <<"c">> -> Cleared(s)
      [] words # <<>> /\ words[1] = <<"w">> ->
            IF Len(words) = 3 THEN s ELSE PrintedAll(s, <<"u", NewLine>>)
      [] OTHER -> PrintedAll(s, <<"?">> \o words[1] \o <<NewLine>>)

-----------------------------------------------------------------------------
\* memset(current_line, 0, MAX_COMMAND_CHARACTERS)
Wiped(line) == [i \in DOMAIN line |-> IF i < MaxCharacters THEN End ELSE line[i]]

\* The prompt of init_user.  When there is a disk, the constructor of FAT32 has
\* printed behind it what it found there.
LineInit ==
    /\ current_line = [i \in 0 .. LineBound |-> IF i < MaxCharacters THEN End ELSE Pointer]
    /\ current_line_index = 0
    /\ \E found \in {<<>>, <<"#", NewLine, "#", "#">>} :
          screen = PrintedAll(Prompted([cursor |-> [x |-> 0, y |-> 0],
                                        begin |-> [x |-> 4, y |-> 0],
                                        cells |-> Blank]), found)
    /\ entered = FALSE

\* Bounds of the model.
InBounds == current_line_index < LineBound /\ Advanced(screen.cursor).y <= RowBound

Store(c) ==
    /\ screen' = Printed(screen, c)
    /\ current_line' = [current_line EXCEPT ![current_line_index] = c]
    /\ current_line_index' = current_line_index + 1
    /\ UNCHANGED entered

\* A key with a character is dropped when the line is over-full: the one for
\* index MaxCharacters, behind the line, is not.
TypeKey ==
    /\ InBounds
    /\ ~(current_line_index > MaxCharacters)
    /\ \E c \in Keys : Store(c)

\* Space is never dropped.
TypeSpace == InBounds /\ Store(Space)

IndexBack ==
    /\ current_line_index' = IF current_line_index = 0 THEN 0 ELSE current_line_index - 1
    /\ current_line' = [current_line EXCEPT ![current_line_index'] = End]

TypeBackspace ==
    /\ IndexBack
    /\ screen' = Backspaced(screen)
    /\ UNCHANGED entered

\* execute_command.  Of the cells only those from the prompt on are kept: the
\* cursor does not come back above them before the screen is cleared.
TypeEnter ==
    LET words == Words(Text(current_line))
        shown == Prompted(Executed(PrintedAll(screen, <<NewLine>>), words))
    IN  /\ shown.cursor.y < RowBound
        /\ screen' = [shown EXCEPT !.cells = [p \in Point |->
                                                 IF p.y < shown.begin.y THEN {} ELSE @[p]]]
        /\ current_line' = Wiped(current_line)
        /\ current_line_index' = 0
        /\ entered' = TRUE

handle_keyboard == TypeKey \/ TypeSpace \/ TypeBackspace \/ TypeEnter

LineNext == handle_keyboard

LineSpec == LineInit /\ [][LineNext]_lineVars

-----------------------------------------------------------------------------
\* The k-th cell behind the prompt.
CellAt[k \in 0 .. LineBound] ==
    IF k = 0 THEN screen.begin ELSE Advanced(CellAt[k - 1])

\* From the first command on, what the user sees is what a command will get:
\* after any typing and taking back, over the end of a row and back, the cells
\* behind the prompt show the bytes of current_line, the cursor is behind the
\* last, and the line ends there.  It claims nothing while the line is full: then
\* it has no end, and keys are stored in the pointer behind it.
ScreenShowsLine ==
    /\ LineTypeOK
    /\ entered /\ current_line_index < MaxCharacters =>
          /\ Len(Text(current_line)) = current_line_index
          /\ screen.cursor = CellAt[current_line_index]
          /\ \A k \in 0 .. current_line_index - 1 :
                ClearedWhole(CellAt[k]) =>
                    screen.cells[CellAt[k]] = {current_line[k]} \ {Space}
          /\ LET prompt == [x |-> 0, y |-> screen.begin.y]
             IN  ClearedWhole(prompt) => screen.cells[prompt] = {">"}
=============================================================================
