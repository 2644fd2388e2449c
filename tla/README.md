# terminalTool: a TLA+ verification of its core

terminalTool is a C++ library for full-screen terminal programs: a session
borrows the terminal, a console renders frames into it, and an input layer turns
what arrives into key presses, text and events. This directory models the parts
of it whose correctness depends on the order in which things happen, checks the
models with TLC and proves the most important results with TLAPS. `src/` below
is the repository.

## The system

| Part | Source | State | Operations |
|---|---|---|---|
| POSIX backend | `src/platform/PosixTerminal.cpp` | `PosixState` (saved termios, descriptor flags, signal actions), the volatile flags `emergencyRestored`, `resumeRequested`, `resizeRequested`; the terminal itself | `platformInitialize`, `platformShutdown`, `platformUpdate`, `platformTerminalSize`, `platformReadInput`, `signalHandler`, `emergencyRestore` |
| TerminalSession | `src/TerminalSession.cpp` | the one active session | constructor with its catch block, destructor, `update` |
| Input | `src/Input.cpp` | current, pressed and released keys, text, focus, the bounded queue of raw events | `initialize`, `reset`, `update`, `pollEvent`, `clearEvents`, `clearEventOverflow`, queries |
| Escape-sequence parser | `src/detail/EscapeSequenceParser.cpp` | a buffer of bytes, the delay of a lone Escape | `feed`, `flushExpired`, `flush`, `reset` |
| Unicode | `src/detail/Unicode.cpp` | none | UTF-8 decoding and encoding, sanitising |
| Console | `src/Console.cpp` | two framebuffers, `firstFrame`, the clip stack, the frame in progress | drawing, `beginFrame`, `endFrame`, `resizeToTerminal`, `pushClip`, `popClip` |
| Windows backend | `src/platform/WindowsTerminal.cpp` | saved console modes, code pages and title and what of them has been changed, tracked modifiers, a pending surrogate, the control handler | the same platform interface; `controlHandler`, `restoreState` |
| UTF-16 repeats | `src/detail/Utf16.cpp` | a pending high surrogate and its count | `decodeRepeatedUtf16`, `flushRepeatedUtf16`, `resetRepeatedUtf16` |
| Colour, DeltaTime, TerminalError | | little or none | |

They interact as follows. The session's constructor calls
`platformInitialize()`, asks for the terminal's size, allocates the framebuffer
and initialises `Input`; its destructor and its catch block undo all of it. The
application then repeats a frame: `TerminalSession::update()` (which calls
`platformUpdate()` and, if needed, resizes the framebuffer), `Input::update()`
(which calls `platformReadInput()`, that is `read()` and the parser, and
processes the native events), drawing, and `Console::endFrame()`. On POSIX,
signal handlers interrupt all of this at any point and share the volatile flags,
the signal actions and the terminal with it. There are no threads on POSIX; on
Windows the system runs the control handler on a thread of its own, which shares
the saved state and the console with the main thread.

What is hard here: signal handlers that nest in each other and in the
constructor or destructor; system calls that fail half way through a setup; two
records of the keyboard, consumed at different times; a queue at its limit whose
allocation may also fail; bytes that arrive cut anywhere, with a timeout that
races the next byte; a renderer that writes only what it believes to differ on a
terminal that can fail, be resized or be written to by others; rectangles at the
edges of `int`; words wider than the area they are wrapped into; a control handler
that restores the console while another thread configures it, puts it back or
resets what is known of it; key records that are read late, that the console has
put together, or that are missing because another window has the focus.
`PROJECT.json` lists these hazards line by line, with the
properties that answer each.

## The modules

| Module | Models |
|---|---|
| `PosixSession` | session, POSIX backend and the part of `Console` they act upon |
| `PosixSessionProperties` | its properties, and the inductive invariants behind them |
| `PosixSession_proofs` | its theorems |
| `InputState`, `InputStateProperties`, `InputState_proofs` | `Input`, its properties and theorems |
| `EventFifo` | the abstract specification of Input's raw event queue |
| `EscapeParser`, `EscapeParserProperties`, `EscapeParser_proofs` | the parser, its properties and theorems |
| `Utf8`, `Utf8Properties` | the UTF-8 decoder and encoder, which `EscapeParser` uses, and the sanitising of titles |
| `Utf8_proofs` | lemmas about folds and bits, and about what the decoder does with any bytes |
| `Text_proofs` | the theorems about the decoder, the titles and the lines of wrapped text |
| `Geometry` | rectangles: containment, and intersection with its clamping |
| `Console`, `ConsoleProperties`, `Console_proofs` | clips, drawing, the framebuffers, the two renderers and the terminal they write to; their properties and theorems |
| `WrappedText`, `WrappedTextProperties` | how `drawWrappedText()` breaks a text into lines, as a pure function |
| `ConsoleText`, `ConsoleTextProperties` | `Console` with `drawWrappedText()`; the theorems of `Console_proofs` are about both |
| `WindowsSession`, `WindowsSessionProperties`, `WindowsSession_proofs` | a session on a Windows console and its control handlers; their properties and theorems |
| `WindowsInput`, `WindowsInputProperties`, `WindowsInput_proofs` | the user, the console's buffer of records, the read of the Windows backend, and `InputState`; their properties and theorems |
| `Utf16` | the decoder of repeated UTF-16 code units, which `WindowsInput` uses |
| `MC_*` | values for TLC |

The definitions named like weaker variants of another (`StopFirst` beside
`HandlerEntry`, `LostOnce` beside `Lost`, ...) are plausible mistakes. Nothing
uses them; `PROJECT.json` ("mutants") says which definition each one replaces and
which property then fails.

### PosixSession

The state is the kernel's (`tty`, `winSize`, `disposition`, `pending`,
`process`), the program's (`state`, the three volatile flags, `console`) and the
control's: `stack` holds the signal handlers that have been entered, the
running one last, and `pc` gives the place of each frame, as a label. Labels
`c_...` belong to the constructor and `platformInitialize()`, `u_...` to
`update()`, `t_...` to the public `Console::terminalSize()`, `d_...` to the
destructor and the constructor's catch block, `f_remove` to the catch block of
`platformInitialize()`, `er_...` to `emergencyRestore()`, `h_...` to
`signalHandler()`. A step is one system call or one access to a volatile flag
that a handler also accesses, so handlers come between any two of them. Failure
is a second disjunct of the step concerned, enabled when its label is in
`FailPoints`.

The terminal is three facts: raw attributes, `O_NONBLOCK`, and the screen modes,
which are `"original"`, `"session"` or, after a write that failed half way,
`"partial"`. The bytes of the escape sequences are abstracted away.

`console` keeps only what a suspension or a resize touches: the framebuffer's
size, `firstFrame`, and whether the screen still shows what `previousBuffer`
says. `Console` models it in full.

`torn` is auxiliary: no guard reads it. It is the set of the parts of the terminal
(raw attributes, `O_NONBLOCK`, screen modes) of which `emergencyRestored` is untrue
although nobody is restoring. A part gets into it in three ways: its own restoring call
fails, which `emergencyRestore()` ignores (`PutBack`); the constructor changes it after
a signal has restored the terminal (`Tear`); or a reapplication changes it
before it clears the flag, which it never does when one of its calls fails. It is empty
again when a reapplication has reached its end. Since the destructor skips a restoration
that the flag says is done, `torn` is also what a session leaves behind, and
`IdleRestored` says so as an equality.

A `read()` that finds canonical, blocking input goes on waiting line after line, as the
loop does, until the input ends or fails (`WaitEnds`).

The application catches a `TerminalError` in its frame loop or lets it unwind; it
may call `Console::terminalSize()` anywhere in its frame, and end the session
anywhere. Signals are SIGWINCH, SIGTSTP, SIGCONT and, for the four terminating
ones that the code treats alike, SIGTERM.

### InputState and EventFifo

A step of `update()` processes one native event; a lost focus takes one step per
key, in the order of the loop of `releaseAllKeys()`. Of an event its type, key,
character and `repeated` are kept; repeat counts, scan codes and modifiers are
handed through unchanged and left out. The application is the one of the README:
it drains the queue and then looks at `eventOverflowed()`; an application that
throws events away, or finds that some were lost, asks `isHeld()`. `view` is the
set of keys it believes to be held and `before` is what was held when `update()`
began; no action of `Input` reads either. `MayFail` lets `push_back()`,
`appendUtf8()` and the read of the platform fail, and the flush of a new session.

`EventFifo` says what the queue promises: it loses the oldest event only when
it is full, loses the new one only when it cannot be stored, and counts both. The
implementation is shown to refine it.

### EscapeParser and Utf8

A step of a parse is one round of the loop of `parseAvailable()`, one action per
branch. `consumed` is the position in the buffer, `pc` tells who called:
`feed()`, `flushExpired()`, or `flush()`, which parses and then drains. Bytes
are numbers and decoding is done in full: parameters with their overflow to zero,
modifier bits, UTF-8 with everything that makes it malformed. Only the tables
that number the keys are abstracted: a key is named by the code it came from. The
clock is `expired`, which becomes true some time after a delay began. `sent` and
`cut` are auxiliary: the keystrokes that were sent, and whether a parse was
forced, which cuts a sequence short.

The properties compare the parser with a reading of all bytes at once, which knows
nothing of calls and buffers: `FirstToken` is what a series of bytes begins with, once
it is all there, and `Whole` takes one such token after the other from the left.

`Utf8Properties` is a little state machine that appends a byte: its states are
all short series of bytes, and its action property compares a decision with that
for a longer input. `SanitizeTitle` is what `sanitizeTerminalTitle()` leaves of a
title.

### Console, ConsoleText, WrappedText and Geometry

The variables are those of `Console.cpp`; a framebuffer is a function from
positions to cells, a cell a character with its two colours. A drawing call is
one action: it computes the cells that its loops visit, as sets, from the
rectangles that the code computes (`Visible`, `Intersect`), and stores those for
which `drawCell()` does not return early. Arithmetic that the code does in 64
bits is done in integers, and clamped where the code clamps it. Sizes of words, lines
and of the list of lines, which the code casts to `int`, keep what an `int` keeps of them
(`AsInt`).

`endFrame()` takes one step per cell, so that `write()` can fail after any part of
the output (`FrameFails`, also between the colours of a cell and its character),
and so that the terminal can be disturbed at any moment (`Disturb`). What a frame
would send is one buffer in the code and is written afterwards; since the
renderers read only the program's own buffers, sending each cell as it is rendered
makes no difference. The terminal is what it does with the output: a cursor, which
cannot be moved beyond the size the terminal has at that time, a pen and a screen.
A character beyond the right margin changes nothing here; that none is written on
an undisturbed terminal is part of what the proofs show. `Garbage` is what
a screen holds that `terminalTool` has not written.

`pushed` and `spoilt` are auxiliary: the areas of the clips on the stack, and
whether the screen was disturbed since the last full frame began. No action reads
them. Characters are one cell wide, as the code assumes; the terminal's state
after `Colour::RESET` is a pen of its own.

`WrappedText` is a fold over the characters with the state of the code's loop:
the lines so far, the line and the word being built, and whether a newline came
last. Its properties describe the same lines without that state, by paragraphs,
words and pieces of words. `ConsoleText` adds the call that draws those lines
to the actions of `Console`.

### WindowsSession

`con` is the console, as the six things that a session changes: each is as it was
found, as the session wants it or, for the screen, in between. `state`,
`activeState` and `restorationStarted` are the program's. `pc` has a place for the
main thread and for each thread that runs `controlHandler()`; both may be in
`restoreState()`, whose labels are the parts in the order in which it puts them
back. A step is one console call or one access to what the threads share. After
our handler, which passes every event on, either the application's handler deals
with the event or the process ends. The handler finds `activeState` null, and puts
nothing back, when it was called before the constructor set it or, if its removal does
not wait, after the destructor cleared it: the label is then `"o_next"`, not `"h_next"`.

Whether `SetConsoleCtrlHandler()` waits for a handler that is running is not
documented; `serial` stands for either behaviour, and is chosen once.

Three auxiliary variables name the circumstances in which less holds: `torn`, the
constructor went on changing the console after a restoration had begun;
`overtaken`, a session was reset or begun under a handler that was still running;
`titleKept`, a session was told not to restore its title.

### WindowsInput and Utf16

`WindowsInput` composes four parties: a user with keys and windows; the console,
which turns what they do into records and adds a key-down to a record that is just
like it; `platformReadInput()`, one step per record; and `InputState`, which gets the
native events with `HandOver`. A record carries the modifiers of its moment, of
which Shift has no side and Super is not among them, and the code unit that its key
types. While another window has the focus there are no records: `missed` are the
keys that were released then. `typed` and `decoded` record all code units entered and all
characters made of them; `report` is the last key record read with the modifiers that
the code gives it, and with what was held. None of the four is read by an action of
the program; `KeyRecord` puts `missed` and what is held into a record for `report` only.

`Utf16` computes what one record of a repeated code unit makes of the pending half,
with a counter up to `MaxCount` (32 bits in the code).

## What is checked

| Run | Shows |
|---|---|
| `session_interleavings` | With no failing call and every interleaving of two signals, nested handlers and the frame loop, for four kinds of application: the type and stack invariant; `UpdatedInSession` (after `update()` the session's modes are in force or are asked for again), `RepaintOwed` (a screen that is stale will be repainted in full), and `ResumeHonoured` (a request to reapply the modes leads to their being in force) |
| `session_failures` | Any call of the constructor, `update()`, `read()`, `endFrame()` or `emergencyRestore()` may fail, in two sessions one after the other with two signals: the signal actions are given back (`HandlersPutBack`); of the terminal exactly the parts in `torn` are not (`IdleRestored`); the flag that says that it was restored is true of every other part (`FlagTruth`), and no signal stops or ends the process with another part changed, unless it hits a restoration half way (`StopsRestored`) |
| `session_polling` | Without signal handlers: the framebuffer follows a terminal that is resized twice (`SizeFollowed`) |
| `windows_session` | Two sessions on a Windows console, any call of the constructor and one of the restoration failing, two control events on two threads at any moment, with and without a waiting `SetConsoleCtrlHandler()`: the console is put back between sessions (`IdleRestored`) and when an event of which the handler found a session ends the process (`EndsRestored`), by one thread at a time unless a session is reset or begun under a running handler (`OneRestorer`), which a waiting removal excludes (`NotReadWhenReset`) |
| `windows_input` | Five acts of a user of a Windows console, read at any moment: no key stays held that nobody holds (`NoStuckKeys`), events come with the modifiers of their moment (`ModifiersReal`), and repeated surrogates make the text that was entered (`TextExact`) |
| `input_queue` | Four native events of any types, two keys and queues of zero, two and three places: the edges (`EdgesExact`), the agreement of the two records (`ViewComplete`), repeats and focus (`FirstPressIsNew`, `FocusLossReleasesAll`), and the refinement of `EventFifo` (`LossesCounted`) |
| `parser` | Keystrokes, or bytes of every kind, cut anywhere, with delays, flushes and resets: keystrokes are recognised with their modifiers, in order (`KeysRecognised`), bytes give the same in any pieces (`PiecesDoNotMatter`), the buffer is bounded (`BufferBounded`), only a lone Escape is delayed (`PendingIsLoneEscape`), and it is resolved (`EscapeResolved`, under fairness) |
| `text` | Every series of up to four of the 17 bytes at the boundaries of the byte classes: what is decoded is an encoding and every encoding is decoded (`DecodingExact`), what has been decided does not change with what follows, and is decided with the fourth byte (`ResultStable`), titles hold no control characters (`TitlesClean`); every text of up to six letters, blanks and newlines in areas of one to four cells: the lines it is broken into (`LinesExact`) |
| `console_drawing` | Up to three nested clips, before, in and between sessions and resizes: every clip is the intersection of all areas pushed (`ClipsExact`), lines, fills and borders cover exactly what they should (`ShapesExact`), aligned texts have the right margins and content (`AlignmentExact`), so do the lines of wrapped texts (`LinesPlaced`), and every kind of drawing stays inside (`DrawsInsideClips`; for wrapped texts this is part of `LinesPlaced`) |
| `console_frames` | Three frames, full, differential or empty, that fail anywhere, with a terminal that is resized or written to at any moment: a screen that nobody else touched shows the last frame that was presented (`ScreenShowsFrame`), and no cell holds a control character (`TypeOK`) |
| `finding_...` | Two runs that TLC finds violated; see "Findings" |

### Bounds

- Signals: two (`MaxSignals`), which covers a handler that is interrupted by
  another one, and a signal that arrives a second time while `dispatchPrevious()`
  has the old action in place. The theorems hold for any number of signals.
- Sessions: two where something is left behind could matter (`MaxSessions`). A
  session starts only in a terminal that the one before has given back.
- Applications: four kinds of signal actions; three in `session_failures`
  (`ReturningActions`), since an action that exits ends the process like a default one.
- Failures: `AllFailures` has every label with a call that can fail, the three calls of
  `emergencyRestore()` among them, which are silent; a failing write leaves the screen
  modes as they were or `"partial"`.
- Resizes: two between two sizes.
- Input: four events are enough for a press, its release, a lost focus and an
  overflow of a queue of two or three places. A limit of zero, which turns the
  queue off, is among the values.
- Parser: `MAX_ESCAPE_SEQUENCE_LENGTH` is 128 in the code and 6 here, so that
  sequences of that length occur; a piece has up to three bytes. `Typable` gives
  what is typed: three keystrokes, or four to six bytes of alphabets that have a member
  for each class of bytes the loop distinguishes.
- Texts: a decision of the decoder needs four bytes at most. Six letters make two
  words with a newline or a blank on either side, and words twice as wide as the area;
  an `int` of the run counts up to six (`IntMax`).
- Windows sessions: two control events (`MaxControls`), on two threads, so that a
  handler meets another one, the main thread and a second session. One of the calls that
  put things back may fail (that for the output mode), of which nobody hears; the
  promise is for the other parts, the title among them.
- Windows input: five acts, of which up to three enter text without a key; records of up
  to two repeats and a counter of two bits, so that it does overflow (`TextExact` says for
  which texts it does not). `MayFail` is off: a read or an allocation that fails
  loses the records read so far, key-ups among them, and isHeld() cannot know. A read
  that finds no record only clears the edges, which `input_queue` covers; it
  is left out.
- Console: an `int` of four bits, with rectangles that end at its edges and beyond;
  terminals of 3x1 and 2x2 cells, so that rows, runs of cells and the threshold at
  half of the cells all matter; two inks where frames are shown. Three clips (`MaxClips`) nest over a frame;
  two drawings (`MaxDraws`) and three frames (`MaxFrames`) give a full frame, a
  difference and a difference after a failure; one disturbance (`MaxDisturbances`) at
  any moment. The theorems hold for terminals, integers and calls without bound.

### Fairness

- `PosixSession`: weak fairness of the constructor, the shutdown, the handlers
  and the delivery of signals, since the scheduler runs whatever frame is on top
  and the kernel delivers what is pending; strong fairness of the frame loop,
  since an application keeps drawing frames however often it calls
  `terminalSize()` in between. Nothing obliges the user to end the input, to
  continue a stopped process or to end a session: the liveness properties except
  those states.
- `EscapeParser`: weak fairness of the rounds, of `feed()`, of the clock and of
  `flushExpired()`, since every frame's `platformReadInput()` reads what has
  arrived and then calls `flushExpired()`. Nothing obliges the terminal to send
  more.

`Console` and the Windows modules state no liveness and assume no fairness: their
operations are loops without waiting.

`CHECK_DEADLOCK FALSE` is given where the bounds make the model stop, and where the
process may end.

## What is proved

The theorems hold for every value of the constants under the assumptions named in
the modules, for any number of signals, keys, events, sessions and failures.

- `TypeCorrect` (`PosixSession_proofs`): `TypeOK`, with the part that is not
  about types: no signal has two frames on the stack. `dispatchPrevious()`
  unblocks the signal that it handles; that is harmless because the application's
  action is then in place, and `Deliverable` requires ours.
- `ActionsPutBack` (`PosixSession_proofs`): `HandlersPutBack`. The
  inductive invariant is `Custody`: at every moment an application's action is
  either in place or kept in `oldActions`, also while a handler has put it back
  for a moment and while `installHandlers()` or `removeHandlers()` is half way.
- `RestorationClaimed`, `TerminalPutBack` and `StopsOnlyRestored`
  (`PosixSession_proofs`): `FlagTruth`, `IdleRestored` and `StopsRestored`, whatever
  calls fail, those of the restoration too. `RestoreInv` adds how far each frame inside
  `emergencyRestore()` has come, that nothing is changed before it is saved, and that
  what is torn is changed, which makes `IdleRestored` an equality;
  `StopInv` that a handler past its restoration has `emergencyRestored` set and that
  only such handlers can stop or end the process.
- `ModesInForce` and `RepaintsOwed` (`PosixSession_proofs`):
  `UpdatedInSession` and `RepaintOwed`, provided that the system calls of a
  reapplication do not fail (`Reapplied`; everything else may). In `ResumeInv` the
  steps of the constructor and of `platformUpdate()` each add one mode, and a handler
  inside `emergencyRestore()` or after it owes the request (`Owing`) that it leaves
  before it returns; so what it takes away is never unasked for.
- `TypeCorrect`, `EdgesAccountedFor`, `ViewsAgree` and `QueueImplementsFifo`
  (`InputState_proofs`): the bound of the queue; the accounting of the edges; the
  agreement of the queue with `isHeld()`; and the refinement of `EventFifo`, with
  the initial states and every step mapped. `PressesAreNew` and `FocusLossIsLast`
  are `FirstPressIsNew` and `FocusLossReleasesAll`; they rest on `EventsTrue`, the
  agreement of every event in the queue with the keys at its moment, and on
  `LeastElement`, since the loop over the keys releases the first one held.
- `BufferStaysBounded`, `OnlyEscapeIsDelayed` and `TypeCorrect`
  (`EscapeParser_proofs`): `BufferBounded`, `PendingIsLoneEscape` and `TypeOK`, which says
  of every event delivered that it is of one of its kinds with a key or character
  that this kind can have (`IsEvent`).
  `BufferInv` adds that during a parse
  the delay can only be running before the first round, and only if that round
  has an Escape before it. Both rest on two lemmas about rounds, one for those
  that use bytes and one for those that end the loop, and on `DecodeLength`, which
  bounds what the decoder takes.
- `Pieces` (`EscapeParser_proofs`): `PiecesDoNotMatter`. A token, once it is there, is
  the same whatever bytes follow it; so `StreamInv` can say that the bytes that were
  read, parsed at once, give what was delivered and then what the buffer still gives,
  and `ReadInv` that the same holds in the middle of a parse, between any two rounds.
- `Keys` (`EscapeParser_proofs`): `KeysRecognised`. What each keystroke of `Meaning`
  sends is one token, or two for a character after an Escape, and yields its events; a
  series of them yields the series. It assumes that the bound of a sequence is
  six or more, the length of the longest keystroke in `Meaning`; it is 128 in the code.
- `Decoding`, `ResultsFinal` and `Titles` (`Text_proofs`): `DecodingExact`,
  `ResultStable` and `TitlesClean`, for bytes in any number. A result is final, and there
  with the fourth byte. An encoding is taken
  apart into leading bits and groups of six; the decoder's loop, a fold, puts the
  same number together, and the intervals that it excludes after some first bytes are
  the numbers that are no scalar values or have a shorter encoding. What is left
  of a title is a series of encodings, by induction over the title.
- `LinesAreExact` (`Text_proofs`): `LinesExact`, for areas of any width and texts of any
  number of characters that an `int` can count: words and lines are then no
  longer (`Sized`), so that no cast changes a size. The inductive invariant is `WrapInv`, over what the loop has read: its text
  divides into finished paragraphs and a last one, that one into words and the word
  being built; `lines` and `currentLine` are the lines of the finished paragraphs and
  what the words fill (`Shows`), and `endedWithNewLine` says that the last paragraph is
  empty and follows another. `WordShown` is the step of `appendWord()`: filling lines
  with the pieces of a word is what the `while` loop and the three cases after it do,
  because pieces as wide as the area are lines of their own (`FilledChunks`). The
  end of the text is `LinesOfText`: whether the final flush adds a line depends on
  whether the last paragraph holds only blanks.
- `IntersectionExact`, `TypeCorrect`, `ClipsAreIntersections`, `DrawingStaysInside`
  and `FramesAreShown` (`Console_proofs`), of the console with wrapped texts and, by
  `PlainSpec`, without. The first says that the intersection that
  the code computes of two `int` rectangles contains the points both contain, for
  every width of `int`: widening and clamping lose nothing. `ClipInv` carries it
  along the stack, and `DrawsInsideClips` follows from it. For `ScreenShowsFrame`
  the inductive invariant is `RenderInv`: while an undisturbed frame is rendered,
  the cells before `at` show the new buffer and those after it the old one (or, in
  a full frame, anything); the cursor is where a run of cells has left it;
  and what the renderer believes of the terminal's colours is what its pen is.
- `ShapesAreExact` and `AlignmentIsExact` (`Console_proofs`): `ShapesExact`, from
  lemmas that lines are fills, what a fill covers and which five parts a border has;
  and `AlignmentExact`, since clamping the start of a text to `int` moves no
  character that could be seen. The second assumes that the length of a text is an `int`.
  `WrappedTextIsPlaced` is `LinesPlaced`, for any text whose characters and lines an `int`
  can count: no line is wider than its area,
  whatever the words, which is an invariant of the fold over the characters; so each
  line has the margins that its alignment asks for, and the rows are those of the area.
- `TypeCorrect`, `NeverReadWhenReset`, `NeverTwoRestorers`, `ConsolePutBack` and
  `EndsPutBack` (`WindowsSession_proofs`): all properties of `windows_session`, for any
  number of threads, control events and sessions. The invariants build on each other:
  `Progress` says what the constructor has done when it is at a label, `Calls` which
  handlers can still be running, `Guarded` that whoever restores has set
  `restorationStarted` and nobody else gets past it, and `Owed` that what a session has
  changed is either put back or still to be put back by whoever restores. A call of
  the restoration that fails costs its own part only (`Restored`). `NeverTwoRestorers`
  excepts a state that is reset, or a session that is begun, under a running handler
  (`overtaken`), which `NeverReadWhenReset` excludes where the removal of a handler waits.
  `EndsPutBack` excepts the events and moments that `EndsRestored` lists.
- `ModifiersAreReal` and `NoKeyIsStuck` (`WindowsInput_proofs`): `ModifiersReal`
  and, when no read and no allocation fails, `NoStuckKeys`. Both look ahead: a
  property of what is read now must hold of what will be read later. `ModifierInv` says of
  every record in the buffer that what the backend will believe of a modifier when it comes
  to it was so, or was missed, when the record was made; `HandsInv` that
  the keys held when everything has been read are held down. `HeldFirst`, `HeldMore` and
  `HeldAlike` say what that becomes when a record is read, added or joined with the
  last one. A read that fails loses the events it has read, hence the assumption.
- `TextIsExact` (`WindowsInput_proofs`): `TextExact`. `TextInv` says that the code units
  entered are those that have been read and then those of the records in the buffer, and
  that the backend's counter and output are what the units read come to one by one.
  `RepeatedHighs`, `RepeatedLows` and `RepeatedOthers` compare a record of any number of
  repeats with as many single units, by induction over that number; `QueueShort` keeps the
  counter within its width, since the halves that wait are no more than those entered.

Induction over the data of these proofs, bytes, repeats and characters, is done in two
ways: with the set of the lengths for which a claim holds (`Induction` in `Utf8_proofs`),
and with what a fold does for the empty sequence and for one more element
(`FoldEmpty`, `FoldAppend` and their relatives in the same module).

Only model-checked: what is liveness (`ResumeHonoured`, `SizeFollowed`,
`EscapeResolved`), which is out of the prover's reach.

## Findings

Each has a run in which TLC finds the property violated; `PROJECT.json` quotes
the lines.

1. `finding_destruction`: the handlers are installed before the startup sequence
   is written. A signal in between, whose earlier handler returns, leaves
   `emergencyRestored` set while the modes are then applied; a destructor that
   follows without an `update()` skips the restoration. A reapplication that fails half
   way (`PosixTerminal.cpp:336-337` throw before 338 clears the flag) has the same
   consequence, unless a later one succeeds: the destructor leaves the terminal raw, and
   until then SIGTSTP and the terminating signals leave it so too. `IdleRestored` and
   `StopsRestored` have both as their exceptions, by part.
2. `finding_size`: `platformTerminalSize()` clears `resizeRequested` for every
   caller. An application that calls `Console::terminalSize()` after a SIGWINCH
   keeps the old framebuffer; so does one that is resized again between the query
   and the clearing of the flag.

Other observations have no run of their own.

- `platformUpdate()` clears `resumeRequested` (`PosixTerminal.cpp:335`) before it
  reapplies the modes; if that fails, the request is forgotten, and an application
  that catches the error goes on in the original modes or in some of the session's,
  which nobody puts back (finding 1). `ResumeHonoured` is
  therefore checked without failures, and excepts a read that waits for a
  line: it keeps the request standing until the input ends.
- A CSI sequence with a control byte in it and no final byte stays in the
  buffer until more bytes come (`EscapeSequenceParser.cpp:400`), although the header
  (25-26) has malformed sequences recovered; `EscapeResolved` speaks of the lone Escape
  only.
- A second signal, or SIGTSTP, that hits a restoration half way, or a
  reapplication that has not yet cleared `emergencyRestored`, takes it for done and
  may stop or end the process in session modes: these are the provisos `MidRestore`
  and `torn` of `StopsRestored`.
- A signal between `update()` and `read()` restores canonical, blocking input, and
  the read then waits for a line (the label `"blocked"` of `PosixSession`).
- A terminal that is resized and resized back between two updates has the size it
  had (`Console.cpp:163`), and nothing is invalidated, whatever its screen holds:
  `spoilt` stands for it, and only the next full frame clears it.
- A `ScopedClip` that is alive during an `update()` that resizes pops, when it is
  destroyed, a clip that is not its own, or finds the stack empty, which is
  asserted in debug builds (`Console.cpp:157`, `227-234`).
- On Windows, a first key-down that the console has put together with its repeats is
  marked as a repeat (`WindowsTerminal.cpp:566`), although it holds the first
  one too (`Input.h:279`: "whether this is a repeat key-down"); a consumer that skips repeats misses the press.
- A lost focus resets the pending surrogate but not the tracked modifiers
  (`WindowsTerminal.cpp:587`): a modifier that is released in another window is reported
  with later events until it is pressed again; `ModifiersReal` allows for it.
- Halves of surrogate pairs are counted in 32 bits (`Utf16.cpp:51`).
- A control event in the constructor, between the installation of the handler and the
  startup sequence, that the application deals with, uses up `restorationStarted`:
  what the constructor changes afterwards stays changed (`torn`).
- A control event between the installation of the handler and the assignment of
  `activeState` (`WindowsTerminal.cpp:466-471`) finds no session: if it ends the process,
  the console keeps the session's modes and code pages. `TerminalSession.h:21-22` promises a
  best effort only; `EndsRestored` names the window as its exception.
- A control event between `SetConsoleTitleW()` and the assignment of `titleChanged`
  (`WindowsTerminal.cpp:481`) ends the process with the session's title.
- If `SetConsoleCtrlHandler()` does not wait for a running handler,
  `platformShutdown()` resets the state, strings among it, that the handler's thread
  reads (`overtaken`), and the next session's constructor clears `restorationStarted`
  under it (line 391), so that two threads can then restore the console concurrently, which
  docs/platforms.md:25-26 excludes without a condition. A second event can end the
  process while another thread is in the middle of the restoration.
- A byte that announces a character of several makes the decoder wait for as many,
  whatever they are (`Unicode.cpp:49`): F0 and a letter wait for two more bytes although
  the result can only be U+FFFD.
- Sizes of words, lines and lists of lines beyond `INT_MAX` are cast to `int`
  (`Console.cpp:377`, `392`, `433`), and are negative up to twice that: such a word is not
  cut, and nothing of such a list of lines is drawn.
- A constructor that fails before virtual terminal processing is on still writes the
  restoring sequences.
- Of a wrapped text, blanks after the last newline are not a line, though nothing after
  it is one: "a" and a newline make two lines, with a blank behind it one. What
  `drawWrappedText()` returns counts the lines in its area, visible or not.

## What is not modelled

- Characters that a terminal shows two cells wide: the code counts one cell for each.
- Of the Windows backend: the table of virtual key codes, scan codes, lock keys,
  records of the mouse and the menu, which the code skips; the conversion of titles.
  `WindowsInput` names keys, and the queries of the size repeat those of POSIX.
- The second constructor that `activeSession` refuses: one compare-exchange.
- The bytes of escape sequences that are written; the key tables; formatting of
  colours; elapsed time; the exception class; build files, the demonstration and
  the tests.
- Pending signals whose action has become "ignore" are delivered late here and
  discarded at once by the kernel; both have no effect.

## Plan

1. `PosixSession` (done; all of it proved but liveness).
2. `InputState` with `EventFifo` (done and proved).
3. `EscapeParser` and `Utf8` (done and proved, but liveness).
4. `Geometry`, `Console`, `WrappedText` and `ConsoleText` (done and proved).
5. `WindowsSession`, `Utf16` and `WindowsInput` (done and proved).
6. What is left: `Console` shown to implement the abstract console of `PosixSession`.
