------------------------------ MODULE Terminal ------------------------------
(***************************************************************************)
(* The raw terminal of the interface, crates/ramforge-cli/src/tui/         *)
(* terminal.rs, driven by the loop of tui::run (mod.rs): a session that    *)
(* puts the terminal in raw mode and restores it when dropped, frames      *)
(* clipped to the window, and keys decoded from the bytes they arrive as,  *)
(* one byte and one timeout at a time.                                     *)
(***************************************************************************)
EXTENDS Integers, SequencesExt

CONSTANTS
  Keys,        \* what can be pressed: [bytes, menu, text], the bytes the
               \* terminal sends and the command meant in each input mode
  Screens,     \* contents drawn, sequences of lines of characters
  WindowSizes, \* [width, height]
  MaxKeys      \* bound on the keys pressed

\* What is drawn is text, and a window of no rows or no columns is an error
\* before anything is drawn (terminal_size).
ASSUME ScreensAssumption ==
  \A screen \in Screens :
    /\ screen \in Seq(Range(screen))
    /\ \A i \in DOMAIN screen : screen[i] \in Seq(Range(screen[i]))
ASSUME WindowsAssumption == WindowSizes \subseteq [width : Nat \ {0}, height : Nat \ {0}]

VARIABLES
  tty,        \* [raw, hidden]: the terminal's mode and whether its cursor is hidden
  unrestored, \* history: the restoring calls of Drop that failed
  reader,     \* where the loop of run stands
  got,        \* the bytes of the command being read
  textMode,   \* app.accepts_text() of the command being read
  wire,       \* bytes of the last key that have not arrived yet
  pending,    \* bytes arrived and not read
  typed,      \* history: the keys pressed
  delivered,  \* history: [command, text], one for each read_command that returned
  orderly,    \* history: no key was cut by a timeout or run into an open escape
  frame       \* what the last draw put on the screen

terminalVars == <<tty, unrestored, reader, got, textMode, wire, pending, typed, delivered, orderly, frame>>
keyboard == <<wire, typed>>
session == <<tty, unrestored>>

ESC == 27
MaxEscapeSequenceBytes == 16
MaxUnknownTailBytes == 256
Restored == [raw |-> FALSE, hidden |-> FALSE]
NoFrame == [lines |-> <<>>, screen |-> <<>>, size |-> [width |-> 0, height |-> 0]]
Ended == {"absent", "closed"}

---------------------------------------------------------------------------
(* Bytes to commands.                                                      *)

ArrowCommand(byte) ==
  CASE byte = 65 -> "Up" [] byte = 66 -> "Down" [] byte = 67 -> "Right" [] byte = 68 -> "Left"
    [] OTHER -> "None"

AsciiCommand(byte, text) ==
  CASE byte = 3 -> "Quit"
    [] byte \in {10, 13} -> "Enter"
    [] byte \in {8, 127} -> "Backspace"
    [] byte = 113 /\ ~text -> "Quit"
    [] byte \in 32..126 -> <<byte>>
    [] OTHER -> "None"

\* Mutant: a decoder that stops at the first byte after the bracket.
EscapeDecodeShort(bytes) ==
  CASE bytes \in {<<91>>, <<79>>} -> "NeedMore"
    [] bytes[1] \in {79, 91} -> ArrowCommand(Last(bytes))
    [] OTHER -> "None"

\* EscapeSequenceDecoder::push: what the bytes after the escape amount to so far
EscapeDecode(bytes) ==
  CASE bytes \in {<<91>>, <<79>>} -> "NeedMore"
    [] Len(bytes) = 2 /\ bytes[1] = 79 -> ArrowCommand(bytes[2])
    [] bytes[1] = 91 /\ Last(bytes) \in 64..126 -> ArrowCommand(Last(bytes))
    [] bytes[1] = 91 /\ Last(bytes) \notin 64..126 ->
         IF Len(bytes) - 1 >= MaxEscapeSequenceBytes - 1 THEN "None" ELSE "NeedMore"
    [] OTHER -> "None"

Finish(bytes) == IF bytes = <<>> THEN "Back" ELSE "None"
HasUnknownPrefix(bytes) == bytes = <<>> \/ bytes[1] \notin {91, 79}

Utf8Length(first) ==
  CASE first \in 194..223 -> 2 [] first \in 224..239 -> 3 [] first \in 240..244 -> 4 [] OTHER -> 0

\* std::str::from_utf8 on the bytes of one character
ValidUtf8(bytes) ==
  /\ \A i \in 2..Len(bytes) : bytes[i] \in 128..191
  /\ bytes[1] = 224 => bytes[2] >= 160
  /\ bytes[1] = 237 => bytes[2] <= 159
  /\ bytes[1] = 240 => bytes[2] >= 144
  /\ bytes[1] = 244 => bytes[2] <= 143

Utf8Command(bytes) == IF ValidUtf8(bytes) THEN bytes ELSE "None"

---------------------------------------------------------------------------
(* Frames.                                                                 *)

\* A tab is up to four blanks, a control character nothing.
PutCharacter(out, c, width) ==
  LET room == width - Len(out) IN
  IF Len(out) >= width \/ c = "control" THEN out
  ELSE IF c = "tab" THEN out \o [i \in 1..(IF room < 4 THEN room ELSE 4) |-> "blank"]
  ELSE Append(out, c)

\* sanitize_and_clip
SanitizeAndClip(line, width) ==
  FoldLeft(LAMBDA out, c : PutCharacter(out, c, width), <<>>, line)

ClippedNotice == <<"...", "content", "clipped", "to", "terminal", "size", "...">>

Visible(lines, height) ==
  LET head == (height - 1) \div 2
      tail == height - head - 1 IN
  IF Len(lines) <= height THEN lines
  ELSE IF height = 1 THEN <<lines[1]>>
  ELSE IF height = 2 THEN <<lines[1], Last(lines)>>
  ELSE SubSeq(lines, 1, head) \o <<ClippedNotice>> \o SubSeq(lines, Len(lines) - tail + 1, Len(lines))

ComposeFrame(screen, size) ==
  LET clip(line) == SanitizeAndClip(line, size.width)
      lines == [i \in DOMAIN screen |-> clip(screen[i])]
      visible == Visible(lines, size.height) IN
  [i \in DOMAIN visible |-> clip(visible[i])]

---------------------------------------------------------------------------
(* The session and the loop.                                               *)

TerminalInit ==
  /\ tty = Restored /\ unrestored = {} /\ reader = "new" /\ got = <<>> /\ textMode = FALSE
  /\ wire = <<>> /\ pending = <<>> /\ typed = <<>> /\ delivered = <<>>
  /\ orderly = TRUE /\ frame = NoFrame

\* Mutant: a drop that puts the attributes back and leaves the cursor hidden.
DropAttributesOnly(found) ==
  /\ unrestored' \in SUBSET {"attributes"}
  /\ tty' = [found EXCEPT !.raw = found.raw /\ unrestored' # {}]
  /\ reader' = "closed"

\* Drop: tcsetattr puts the saved attributes back, then the cursor is shown by
\* a write and a flush.  Each is tried whatever came of the other, and its
\* failure ignored; a failed write may have got as far as the cursor.
DropSession(found) ==
  /\ unrestored' \in SUBSET {"attributes", "output"}
  /\ tty' \in {t \in [raw : BOOLEAN, hidden : BOOLEAN] :
                /\ t.raw = (found.raw /\ "attributes" \in unrestored')
                /\ t.hidden => found.hidden /\ "output" \in unrestored'}
  /\ reader' = "closed"

\* TerminalSession::new: no terminal, or attributes that cannot be read or set,
\* and nothing changed
OpenRefused ==
  /\ reader = "new" /\ reader' = "absent"
  /\ UNCHANGED <<session, got, textMode, wire, pending, typed, delivered, orderly, frame>>

\* raw mode set, then the screen cleared and the cursor hidden
OpenSession ==
  /\ reader = "new" /\ reader' = "draw"
  /\ tty' = [raw |-> TRUE, hidden |-> TRUE]
  /\ UNCHANGED <<unrestored, got, textMode, wire, pending, typed, delivered, orderly, frame>>

\* raw mode set, and the write or the flush that follows fails, before or after
\* the cursor is hidden
OpenFails ==
  /\ reader = "new"
  /\ \E hidden \in BOOLEAN : DropSession([raw |-> TRUE, hidden |-> hidden])
  /\ UNCHANGED <<got, textMode, wire, pending, typed, delivered, orderly, frame>>

Draw ==
  /\ reader = "draw" /\ reader' = "first" /\ got' = <<>>
  /\ \E screen \in Screens, size \in WindowSizes, text \in BOOLEAN :
       /\ textMode' = text
       /\ frame' = [lines |-> ComposeFrame(screen, size), screen |-> screen, size |-> size]
  /\ UNCHANGED <<session, wire, pending, typed, delivered, orderly>>

\* The window size, a write or a read fails, or the input is closed: the
\* error leaves run through ?, and the session is dropped on the way (the
\* bytes not read are the next reader's).
SessionFails ==
  /\ reader \notin {"new"} \cup Ended
  /\ DropSession(tty)
  /\ got' = <<>> /\ wire' = <<>> /\ pending' = <<>> /\ frame' = NoFrame
  /\ UNCHANGED <<textMode, typed, delivered, orderly>>

\* read_command returns; app.handle may ask to quit, and run then ends.
Deliver(command) ==
  /\ delivered' = Append(delivered, [command |-> command, text |-> textMode])
  /\ \/ reader' = "draw" /\ UNCHANGED session
     \/ DropSession(tty)

\* read_byte blocks until a byte is there; the loop retries an interrupted read.
ReadFirst ==
  /\ reader = "first" /\ pending # <<>>
  /\ LET first == Head(pending) IN
     /\ pending' = Tail(pending)
     /\ CASE first = ESC -> reader' = "escape" /\ got' = <<>> /\ UNCHANGED <<session, delivered>>
          [] first # ESC /\ first >= 128 /\ Utf8Length(first) > 0 ->
               reader' = "utf8" /\ got' = <<first>> /\ UNCHANGED <<session, delivered>>
          [] first # ESC /\ first >= 128 /\ Utf8Length(first) = 0 ->
               got' = <<>> /\ Deliver("None")
          [] OTHER -> got' = <<>> /\ Deliver(AsciiCommand(first, textMode))
  /\ frame' = NoFrame
  /\ UNCHANGED <<keyboard, textMode, orderly>>

\* read_escape_sequence: one byte within the timeout
ReadEscape ==
  /\ reader = "escape" /\ pending # <<>>
  /\ pending' = Tail(pending)
  /\ got' = Append(got, Head(pending))
  /\ LET decoded == EscapeDecode(got') IN
     CASE decoded = "NeedMore" /\ Len(got') < MaxEscapeSequenceBytes -> UNCHANGED <<session, reader, delivered>>
       [] decoded = "NeedMore" /\ Len(got') >= MaxEscapeSequenceBytes -> Deliver("None")
       [] decoded = "None" /\ HasUnknownPrefix(got') -> reader' = "drain" /\ UNCHANGED <<session, delivered>>
       [] OTHER -> Deliver(decoded)
  /\ UNCHANGED <<keyboard, textMode, orderly, frame>>

\* 100 ms without a byte: the escape key itself, or a sequence cut short
EscapeTimeout ==
  /\ reader = "escape" /\ pending = <<>>
  /\ Deliver(Finish(got))
  /\ orderly' = (orderly /\ wire = <<>>)
  /\ UNCHANGED <<keyboard, got, textMode, pending, frame>>

\* drain_escape_tail: whatever arrives within 10 ms of the byte before it
DrainByte ==
  /\ reader = "drain" /\ pending # <<>>
  /\ pending' = Tail(pending)
  /\ got' = Append(got, Head(pending))
  /\ IF Len(got') - 1 >= MaxUnknownTailBytes
     THEN Deliver("None") ELSE UNCHANGED <<session, reader, delivered>>
  /\ UNCHANGED <<keyboard, textMode, orderly, frame>>

DrainTimeout ==
  /\ reader = "drain" /\ pending = <<>>
  /\ Deliver("None")
  /\ orderly' = (orderly /\ wire = <<>>)
  /\ UNCHANGED <<keyboard, got, textMode, pending, frame>>

\* read_utf8_character: the continuation bytes, each within the timeout
ReadUtf8 ==
  /\ reader = "utf8" /\ pending # <<>>
  /\ pending' = Tail(pending)
  /\ got' = Append(got, Head(pending))
  /\ IF Len(got') = Utf8Length(got'[1])
     THEN Deliver(Utf8Command(got'))
     ELSE UNCHANGED <<session, reader, delivered>>
  /\ UNCHANGED <<keyboard, textMode, orderly, frame>>

Utf8Timeout ==
  /\ reader = "utf8" /\ pending = <<>>
  /\ Deliver("None")
  /\ orderly' = (orderly /\ wire = <<>>)
  /\ UNCHANGED <<keyboard, got, textMode, pending, frame>>

---------------------------------------------------------------------------
(* The user and the line: a key's bytes arrive one by one.                 *)

\* An escape that the next key could continue.
OpenEnded(key) == key.bytes[1] = ESC /\ (Len(key.bytes) = 1 \/ key.bytes[2] \notin {79, 91})

KeyPressed ==
  /\ reader \notin Ended /\ wire = <<>> /\ Len(typed) < MaxKeys
  /\ \E key \in Keys :
       /\ wire' = key.bytes /\ typed' = Append(typed, key)
       /\ orderly' = (orderly /\ ~(/\ typed # <<>> /\ OpenEnded(Last(typed))
                                   /\ Len(delivered) < Len(typed)))
  /\ UNCHANGED <<session, reader, got, textMode, pending, delivered, frame>>

ByteArrives ==
  /\ reader \notin Ended /\ wire # <<>>
  /\ pending' = Append(pending, Head(wire)) /\ wire' = Tail(wire)
  /\ UNCHANGED <<session, reader, got, textMode, typed, delivered, orderly, frame>>

TerminalNext ==
  \/ OpenRefused \/ OpenSession \/ OpenFails \/ Draw \/ SessionFails
  \/ ReadFirst \/ ReadEscape \/ EscapeTimeout \/ DrainByte \/ DrainTimeout
  \/ ReadUtf8 \/ Utf8Timeout \/ KeyPressed \/ ByteArrives

TerminalSpec == TerminalInit /\ [][TerminalNext]_terminalVars

---------------------------------------------------------------------------
(* Properties.                                                             *)

\* However the bytes of the keys are spread over the reads, and however far
\* the typing runs ahead, read_command returns one command for each key, in
\* order, and the one the key means: no byte of a sequence is left for the
\* next read, where it would be taken for a character.  The exceptions are a
\* timeout inside a key; a bare Escape, or an escape that the next key could
\* continue, with another key typed before it is decoded (orderly); and the
\* sequences the decoder takes to end early, as ESC [ [ A of a console's
\* function keys, whose last byte it leaves behind: they are not in Keys.
KeysDecodeWhole ==
  orderly =>
    /\ Len(delivered) <= Len(typed)
    /\ \A i \in DOMAIN delivered :
         delivered[i].command = IF delivered[i].text THEN typed[i].text ELSE typed[i].menu

\* Whenever run has ended, whether the user quit, a draw or a read failed or
\* the session could not be opened, the terminal is back in the mode and with
\* the cursor it had, but for what the call that restores just that failed to
\* do: no way out passes Drop by, and neither of its calls waits for the other.
TerminalRestored ==
  reader \in Ended =>
    /\ tty.raw => "attributes" \in unrestored
    /\ tty.hidden => "output" \in unrestored

\* A frame never has more rows than the window nor more characters in a row
\* than the window has columns (a character that takes two columns is counted
\* as one), and carries no control character.  It shows every line of contents
\* that fit, and of clipped ones still the first and, with two rows or more,
\* the last (the title and the key help).
FrameFits ==
  LET size == frame.size
      clip(line) == SanitizeAndClip(line, size.width) IN
  frame.lines # <<>> =>
    /\ Len(frame.lines) <= size.height
    /\ \A i \in DOMAIN frame.lines :
         Len(frame.lines[i]) <= size.width /\ "control" \notin Range(frame.lines[i])
    /\ Len(frame.screen) <= size.height =>
         /\ Len(frame.lines) = Len(frame.screen)
         /\ \A i \in DOMAIN frame.lines : frame.lines[i] = clip(frame.screen[i])
    /\ frame.lines[1] = clip(frame.screen[1])
    /\ size.height > 1 => Last(frame.lines) = clip(Last(frame.screen))

\* The screen is used within its bounds and given back as far as its calls
\* succeed (compose_frame, TerminalSession::new and drop).
ScreenRespected == TerminalRestored /\ FrameFits
=============================================================================
