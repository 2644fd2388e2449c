--------------------------- MODULE WindowsSession ---------------------------
(***************************************************************************)
(* platform/WindowsTerminal.cpp: the console is configured by a session's  *)
(* constructor and put back by its destructor, by a constructor that fails *)
(* and by a control handler, which the system runs on a thread of its own. *)
(* The handler passes every event on: the application's handlers may deal  *)
(* with it, else the process ends.                                         *)
(*                                                                         *)
(* A step is one console call, or one access to what both threads share.   *)
(* A failing call of the constructor leads to platformShutdown(): the      *)
(* restoreState() and removeHandler() that some of its error paths call    *)
(* before are the first calls of platformShutdown() again.                 *)
(***************************************************************************)
EXTENDS Naturals

CONSTANTS
  Handlers,         \* threads that the system runs handlers on
  SessionOptions,   \* the TerminalOptions that sessions may have
  SerialDispatch,   \* whether SetConsoleCtrlHandler() waits for a handler that
                    \* is running; the system's documentation does not tell
  FailPoints,       \* labels of the calls that may fail
  MaxControls,      \* bound: control events
  MaxSessions       \* bound: sessions, one after the other

\* What a session changes, in the order restoreState() puts it back.
Parts == {"screen", "title", "outMode", "inMode", "outCP", "inCP"}

Options == [title : BOOLEAN, restoreTitle : BOOLEAN, handlers : BOOLEAN]

\* TerminalOptions as they are when nobody has set them.
DefaultOptions == [title |-> TRUE, restoreTitle |-> TRUE, handlers |-> TRUE]

ASSUME SessionAssumption ==
  /\ "main" \notin Handlers
  /\ SessionOptions \subseteq Options
  /\ SerialDispatch \subseteq BOOLEAN
  /\ MaxControls \in Nat /\ MaxSessions \in Nat

VARIABLES
  con,          \* the console: [Parts -> "original", "session" or "partial"]
  installed,    \* the system calls controlHandler()
  process,      \* "running"; "ended" by an event that controlHandler() has passed
                \* on, whether or not it found a session; "crashed"
  state,        \* WindowsState
  activeState,  \* whether activeState points to state
  restorationStarted,
  options,      \* state.options
  pc,           \* a label for the main thread and for every handler's
  serial,       \* whether handlers run one at a time
  torn,         \* auxiliary: a part was changed after a restoration had begun
  overtaken,    \* auxiliary: state was reset under a handler that reads it, or
                \* a session was begun under a handler of the one before
  titleKept,    \* auxiliary: a session was told not to restore its title
  budget        \* the bounds left

history == <<torn, overtaken, titleKept>>
vars == <<con, installed, process, state, activeState, restorationStarted, options,
          pc, serial, history, budget>>

Threads == {"main"} \cup Handlers

\* The values read before a session changes them, and what it has changed.
Unsaved == [p \in Parts |-> "unsaved"]
FreshState ==
  [output |-> FALSE, original |-> Unsaved, changed |-> {}, handlerInstalled |-> FALSE]

OriginalConsole == [p \in Parts |-> "original"]
-----------------------------------------------------------------------------
(* restoreState(), on either thread.                                       *)

\* Whether it puts a part back.
UndoneIfMarked(p) == state.output /\ p \in state.changed

Undone(p) ==
  CASE p = "screen" -> state.output
    [] p = "title" -> p \in state.changed /\ state.original[p] # "unsaved"
                        /\ options.restoreTitle
    [] p \in {"outMode", "inMode"} -> state.original[p] # "unsaved"
    [] p \in {"outCP", "inCP"} -> p \in state.changed

NextPart(p) ==
  CASE p = "screen" -> "title" [] p = "title" -> "outMode"
    [] p = "outMode" -> "inMode" [] p = "inMode" -> "outCP" [] p = "outCP" -> "inCP"

AfterRestoreReset(t) == "d_reset"
AfterRestore(t) == IF t = "main" THEN "d_reset" ELSE "h_next"

AfterOutput(t, p) == IF p = "outCP" THEN AfterRestore(t) ELSE NextPart(p)
After(t, p) == IF p = "inCP" THEN AfterRestore(t) ELSE NextPart(p)

Goto(t, label) == pc' = [pc EXCEPT ![t] = label]

\* restorationStarted.test_and_set()
TestThenSetLate(t) ==
  /\ pc[t] = "r_test"
  /\ Goto(t, IF restorationStarted THEN AfterRestore(t) ELSE "screen")
  /\ restorationStarted' = (restorationStarted \/ t = "main")
  /\ UNCHANGED <<con, installed, process, state, activeState, options, serial,
                 history, budget>>

TestAndSet(t) ==
  /\ pc[t] = "r_test"
  /\ Goto(t, IF restorationStarted THEN AfterRestore(t) ELSE "screen")
  /\ restorationStarted' = TRUE
  /\ UNCHANGED <<con, installed, process, state, activeState, options, serial,
                 history, budget>>

\* Nobody hears of a part that could not be put back.
RestorePart(t, p) ==
  /\ pc[t] = p
  /\ \/ con' = IF ~Undone(p) THEN con
               ELSE [con EXCEPT ![p] = IF p = "screen" THEN "original"
                                       ELSE state.original[p]]
     \/ p \in FailPoints /\ UNCHANGED con
  /\ Goto(t, After(t, p))
  /\ UNCHANGED <<installed, process, state, activeState, restorationStarted,
                 options, serial, history, budget>>

\* A handler that reads the title while it is being destroyed: anything.
RaceForTitle(h) ==
  /\ overtaken /\ pc[h] = "title"
  /\ process' = "crashed"
  /\ UNCHANGED <<con, installed, state, activeState, restorationStarted, options,
                 pc, serial, history, budget>>

Restore(t) == TestAndSet(t) \/ (\E p \in Parts : RestorePart(t, p))
Restoring(t) == pc[t] \in Parts
-----------------------------------------------------------------------------
(* The control handlers.                                                   *)

Quiet == \A h \in Handlers : pc[h] = "off"

\* An event: the system calls our handler first, since it was added last.  One
\* that finds it not installed is between the system and the application, and
\* of no interest here.
Raise(h) ==
  /\ pc[h] = "off"
  /\ serial => Quiet
  /\ budget.controls > 0
  /\ budget' = [budget EXCEPT !.controls = @ - 1]
  /\ installed
  /\ Goto(h, "h_load")
  /\ UNCHANGED <<con, installed, process, state, activeState, restorationStarted,
                 options, serial, history>>

\* activeState is null before it is set (WindowsTerminal.cpp:471) and after it is
\* cleared (193), though the handler may have been called: nothing is put back.
ControlHandler(h) ==
  /\ pc[h] = "h_load"
  /\ Goto(h, IF activeState THEN "r_test" ELSE "o_next")
  /\ UNCHANGED <<con, installed, process, state, activeState, restorationStarted,
                 options, serial, history, budget>>

\* It returns FALSE: the application's handler deals with the event, or the
\* default one ends the process.
PassOn(h) ==
  /\ pc[h] \in {"h_next", "o_next"}
  /\ \/ Goto(h, "off") /\ UNCHANGED process
     \/ process' = "ended" /\ UNCHANGED pc
  /\ UNCHANGED <<con, installed, state, activeState, restorationStarted, options,
                 serial, history, budget>>

Handler(h) == ControlHandler(h) \/ Restore(h) \/ RaceForTitle(h) \/ PassOn(h)
-----------------------------------------------------------------------------
(* platformInitialize() and the rest of the constructor.                   *)

Main(from, to) == pc["main"] = from /\ Goto("main", to)

\* A call fails with nothing done: the constructor throws.
Fails(from) ==
  /\ from \in FailPoints
  /\ Main(from, "d_remove")
  /\ UNCHANGED <<con, installed, state, activeState, torn>>

StartSession ==
  /\ budget.sessions > 0
  /\ Main("idle", "handles")
  /\ options' \in SessionOptions
  /\ restorationStarted' = FALSE
  /\ state' = FreshState
  /\ overtaken' = (overtaken \/ \E h \in Handlers : Restoring(h) \/ pc[h] \in {"r_test", "h_next"})
  /\ budget' = [budget EXCEPT !.sessions = @ - 1]
  /\ UNCHANGED <<con, installed, process, activeState, serial, torn, titleKept>>

\* Standard output, then standard input: either may not be there.
GetHandles ==
  /\ \/ Main("handles", "save_outMode") /\ state' = [state EXCEPT !.output = TRUE]
     \/ /\ "handles" \in FailPoints
        /\ Main("handles", "d_remove")
        /\ \E output \in BOOLEAN : state' = [state EXCEPT !.output = output]
  /\ UNCHANGED <<con, installed, activeState, torn>>

\* GetConsoleMode() and GetConsoleTitleW().
Save(p, from, to) ==
  \/ /\ Main(from, to)
     /\ state' = [state EXCEPT !.original[p] = con[p]]
     /\ UNCHANGED <<con, installed, activeState, torn>>
  \/ Fails(from)

SaveCodePages ==
  \/ /\ Main("save_pages", IF options.title /\ options.restoreTitle THEN "save_title"
                           ELSE "set_outCP")
     /\ state' = [state EXCEPT !.original["outCP"] = con["outCP"],
                               !.original["inCP"] = con["inCP"]]
     /\ UNCHANGED <<con, installed, activeState, torn>>
  \/ Fails("save_pages")

\* SetConsoleOutputCP(), SetConsoleCP() and SetConsoleMode(); only the code
\* pages are marked as changed.
Set(p, from, to) ==
  \/ /\ Main(from, to)
     /\ con' = [con EXCEPT ![p] = "session"]
     /\ state' = [state EXCEPT !.changed = @ \cup ({p} \cap {"outCP", "inCP"})]
     /\ torn' = (torn \/ restorationStarted)
     /\ UNCHANGED <<installed, activeState>>
  \/ Fails(from)

AfterModes == IF options.handlers THEN "install"
              ELSE IF options.title THEN "set_title" ELSE "write"

\* SetConsoleCtrlHandler(controlHandler, TRUE)
Install ==
  \/ /\ serial => Quiet
     /\ Main("install", "activate")
     /\ installed' = TRUE
     /\ UNCHANGED <<con, state, activeState, torn>>
  \/ Fails("install")

Activate ==
  /\ Main("activate", IF options.title THEN "set_title" ELSE "write")
  /\ state' = [state EXCEPT !.handlerInstalled = TRUE]
  /\ activeState' = TRUE
  /\ UNCHANGED <<con, installed, torn>>

\* SetConsoleTitleW(); that it was called is noted afterwards.
SetTitle ==
  \/ /\ Main("set_title", "mark_title")
     /\ con' = [con EXCEPT !["title"] = "session"]
     /\ torn' = (torn \/ restorationStarted)
     /\ UNCHANGED <<installed, state, activeState>>
  \/ Fails("set_title")

MarkTitle ==
  /\ Main("mark_title", "write")
  /\ state' = [state EXCEPT !.changed = @ \cup {"title"}]
  /\ torn' = (torn \/ restorationStarted)
  /\ UNCHANGED <<con, installed, activeState>>

\* The startup sequence, which may fail half way.
WriteStartup ==
  /\ \/ Main("write", "allocate") /\ con' = [con EXCEPT !["screen"] = "session"]
     \/ /\ "write" \in FailPoints
        /\ Main("write", "d_remove")
        /\ con' \in {con, [con EXCEPT !["screen"] = "partial"]}
  /\ torn' = (torn \/ restorationStarted)
  /\ UNCHANGED <<installed, state, activeState>>

\* Console and Input are initialised last.
Allocate ==
  \/ Main("allocate", "app") /\ UNCHANGED <<con, installed, state, activeState, torn>>
  \/ Fails("allocate")

Construct ==
  /\ \/ GetHandles
     \/ Save("outMode", "save_outMode", "save_inMode")
     \/ Save("inMode", "save_inMode", "save_pages")
     \/ SaveCodePages
     \/ Save("title", "save_title", "set_outCP")
     \/ Set("outCP", "set_outCP", "set_inCP")
     \/ Set("inCP", "set_inCP", "set_outMode")
     \/ Set("outMode", "set_outMode", "set_inMode")
     \/ Set("inMode", "set_inMode", AfterModes)
     \/ Install \/ Activate
     \/ SetTitle \/ MarkTitle
     \/ WriteStartup \/ Allocate
  /\ titleKept' = (titleKept \/ (pc["main"] = "set_title" /\ ~options.restoreTitle))
  /\ UNCHANGED <<process, restorationStarted, options, serial, overtaken, budget>>
-----------------------------------------------------------------------------
(* platformShutdown(), for the destructor and for a failed constructor.    *)

EndSession ==
  /\ Main("app", "d_remove")
  /\ UNCHANGED <<con, installed, process, state, activeState, restorationStarted,
                 options, serial, history, budget>>

\* SetConsoleCtrlHandler(controlHandler, FALSE)
RemoveNothing ==
  /\ Main("d_remove", "r_test")
  /\ UNCHANGED <<con, installed, process, state, activeState, restorationStarted,
                 options, serial, history, budget>>

RemoveHandler ==
  /\ pc["main"] = "d_remove"
  /\ IF state.handlerInstalled
     THEN /\ serial => Quiet
          /\ installed' = FALSE
          /\ Goto("main", "d_inactive")
     ELSE UNCHANGED installed /\ Goto("main", "r_test")
  /\ UNCHANGED <<con, process, state, activeState, restorationStarted, options,
                 serial, history, budget>>

Deactivate ==
  /\ Main("d_inactive", "r_test")
  /\ state' = [state EXCEPT !.handlerInstalled = FALSE]
  /\ activeState' = FALSE
  /\ UNCHANGED <<con, installed, process, restorationStarted, options, serial,
                 history, budget>>

ResetState ==
  /\ Main("d_reset", "idle")
  /\ state' = FreshState
  /\ options' = DefaultOptions
  /\ overtaken' = (overtaken \/ \E h \in Handlers : Restoring(h))
  /\ UNCHANGED <<con, installed, process, activeState, restorationStarted, serial,
                 torn, titleKept, budget>>

Shutdown == RemoveHandler \/ Deactivate \/ Restore("main") \/ ResetState
-----------------------------------------------------------------------------
Init ==
  /\ con = OriginalConsole
  /\ installed = FALSE
  /\ process = "running"
  /\ state = FreshState
  /\ activeState = FALSE
  /\ restorationStarted = FALSE
  /\ options = DefaultOptions
  /\ pc = [t \in Threads |-> IF t = "main" THEN "idle" ELSE "off"]
  /\ serial \in SerialDispatch
  /\ torn = FALSE /\ overtaken = FALSE /\ titleKept = FALSE
  /\ budget = [controls |-> MaxControls, sessions |-> MaxSessions]

\* The end of the process ends all threads.
Next ==
  /\ process = "running"
  /\ \/ StartSession \/ Construct \/ EndSession \/ Shutdown
     \/ \E h \in Handlers : Raise(h) \/ Handler(h)

Spec == Init /\ [][Next]_vars

=============================================================================
