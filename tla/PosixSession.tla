---------------------------- MODULE PosixSession ----------------------------
(***************************************************************************)
(* The life of a terminalTool session on POSIX: TerminalSession.cpp over   *)
(* platform/PosixTerminal.cpp.                                             *)
(*                                                                         *)
(* The application's thread ("main") constructs a session, runs its frame  *)
(* loop and destroys the session; signal handlers interrupt it, and each   *)
(* other, between any two steps.  What runs is the frame on top of `stack`;*)
(* everything below waits, as on the real stack.  A step is one system     *)
(* call, or one access to a volatile flag that a handler also accesses.    *)
(*                                                                         *)
(* The terminal is abstracted to three facts: whether its termios          *)
(* attributes are raw, whether the input descriptor is O_NONBLOCK, and     *)
(* which screen modes (alternate screen, cursor, wrapping, focus           *)
(* reporting) the escape sequences written so far have left it in.         *)
(***************************************************************************)
EXTENDS Naturals, Sequences

CONSTANTS
  HandledSignals,   \* HANDLED_SIGNALS, in order, without repetition
  AppActions,       \* the signal actions the application may have installed
  InstallHandlers,  \* TerminalOptions::installSignalHandlers
  FailPoints,       \* the labels whose system call or allocation may fail
  Sizes,            \* terminal sizes
  NoFrame,          \* frameWidth = frameHeight = 0: no framebuffer
  MaxSignals,       \* bound: signals raised by users and other processes
  MaxResizes,       \* bound: changes of the terminal's size
  MaxSessions       \* bound: sessions constructed, one after the other

Signals == {HandledSignals[i] : i \in DOMAIN HandledSignals}

\* Signals whose default action neither terminates nor stops the process.
Harmless == {"SIGWINCH", "SIGCONT"}

\* sigaction values: ours (signalHandler), the default, ignored, and an
\* application handler that returns or that ends the process (_exit).
OldKinds == {"SIG_DFL", "SIG_IGN", "returns", "exits"}
Kinds == OldKinds \cup {"ours"}

ASSUME SignalAssumption ==
  /\ HandledSignals \in Seq(STRING)
  /\ Harmless \cup {"SIGTSTP"} \subseteq Signals
  /\ "main" \notin Signals
  /\ AppActions \subseteq [Signals -> OldKinds]
  /\ \A f \in AppActions : \A s \in Harmless : f[s] # "exits"

ASSUME ConstantAssumption ==
  /\ InstallHandlers \in BOOLEAN
  /\ NoFrame \notin Sizes
  /\ MaxSignals \in Nat /\ MaxResizes \in Nat /\ MaxSessions \in Nat

Frames == {"main"} \cup Signals

VARIABLES
  tty,               \* [raw, nonblock, modes]: the terminal and descriptor
  winSize,           \* what TIOCGWINSZ answers
  disposition,       \* the kernel's action for each handled signal
  pending,           \* signals raised and not yet delivered
  process,           \* "running", "stopped" (SIGSTOP) or "dead"
  appAction,         \* the actions in force before any session
  state,             \* struct PosixState, the fields that steer control
  emergencyRestored, \* volatile flag
  resumeRequested,   \* volatile flag
  resizeRequested,   \* volatile flag
  console,           \* Console: [frame, first, shown], see below
  pc,                \* the label each frame is at; "off": not on the stack
  stack,             \* handlers on the stack, the running one last
  local,             \* main's locals: [ret, check, size]
  torn,              \* auxiliary, no guard reads it: see Tear and PutBack
  budget             \* the bounds left: [signals, resizes, sessions]

flags == <<emergencyRestored, resumeRequested, resizeRequested>>
kernel == <<winSize, disposition, pending, process, appAction>>
vars == <<tty, kernel, state, flags, console, pc, stack, local, torn, budget>>

\* console.frame is frameWidth and frameHeight, console.first is firstFrame;
\* console.shown tells whether the screen displays previousBuffer.
ClosedConsole == [frame |-> NoFrame, first |-> TRUE, shown |-> FALSE]

\* state = PosixState {}: a zeroed sigaction is SIG_DFL.
FreshState ==
  [ attributesSaved |-> FALSE, flagsSaved |-> FALSE, initialized |-> FALSE,
    handlersInstalled |-> FALSE, oldActions |-> [s \in Signals |-> "SIG_DFL"] ]

OriginalTty == [raw |-> FALSE, nonblock |-> FALSE, modes |-> "original"]
SessionTty == [raw |-> TRUE, nonblock |-> TRUE, modes |-> "session"]

\* What a session changes of the terminal, and what it has changed just now.
Parts == {"raw", "nonblock", "modes"}
Changed == {part \in Parts : tty[part] # OriginalTty[part]}

Restored == tty = OriginalTty
-----------------------------------------------------------------------------
(* Control.                                                                *)

Running == IF stack = <<>> THEN "main" ELSE stack[Len(stack)]

At(c, label) == process = "running" /\ c = Running /\ pc[c] = label

Goto(c, label) == pc' = [pc EXCEPT ![c] = label]

\* A part that takes its session mode while the restoration is still marked
\* as done is torn from that mark: emergencyRestored no longer speaks of it.
\* It happens in a constructor that a signal has interrupted, and in a
\* reapplication, up to its end or, when it fails half way, beyond.
Tear(part) == torn' = IF emergencyRestored THEN torn \cup {part} ELSE torn

\* A call that puts a part back and ignores its own failure, which matters
\* when there is something to put back.
PutBack(label, part) ==
  \/ /\ tty' = [tty EXCEPT ![part] = OriginalTty[part]]
     /\ torn' = torn \ {part}
  \/ /\ label \in FailPoints
     /\ part \in Changed
     /\ torn' = torn \cup {part}
     /\ UNCHANGED tty

First(S) == {i \in S : \A j \in S : i <= j}
Ours == {i \in DOMAIN HandledSignals : disposition[HandledSignals[i]] = "ours"}
NotOurs == DOMAIN HandledSignals \ Ours
-----------------------------------------------------------------------------
(* emergencyRestore(), called from a handler, from a failed                *)
(* platformInitialize() and from platformShutdown().                       *)

Restoring == {"er_write", "er_attr", "er_flags"}

AfterRestore(c) == IF c = "main" THEN local.ret ELSE "h_action"

RestoreCheck(c) ==
  /\ At(c, "er_check")
  /\ Goto(c, IF emergencyRestored THEN AfterRestore(c) ELSE "er_mark")
  /\ UNCHANGED <<tty, kernel, state, flags, console, stack, local, torn, budget>>

RestoreMark(c) ==
  /\ At(c, "er_mark")
  /\ emergencyRestored' = TRUE
  /\ Goto(c, "er_write")
  /\ UNCHANGED <<tty, kernel, state, resumeRequested, resizeRequested,
                 console, stack, local, torn, budget>>

\* writeBestEffort() gives up silently on an error such as EAGAIN, before or
\* after it has written a part of the sequence.
RestoreWrite(c) ==
  /\ At(c, "er_write")
  /\ \/ PutBack("er_write", "modes")
     \/ /\ "er_write" \in FailPoints
        /\ "modes" \in Changed
        /\ tty' = [tty EXCEPT !.modes = "partial"]
        /\ torn' = torn \cup {"modes"}
  /\ console' = [console EXCEPT !.shown = FALSE]
  /\ Goto(c, "er_attr")
  /\ UNCHANGED <<kernel, state, flags, stack, local, budget>>

\* tcsetattr(), whose result is ignored.
RestoreAttributes(c) ==
  /\ At(c, "er_attr")
  /\ IF state.attributesSaved THEN PutBack("er_attr", "raw")
                              ELSE UNCHANGED <<tty, torn>>
  /\ Goto(c, "er_flags")
  /\ UNCHANGED <<kernel, state, flags, console, stack, local, budget>>

\* fcntl(), whose result is ignored.
RestoreFlags(c) ==
  /\ At(c, "er_flags")
  /\ IF state.flagsSaved THEN PutBack("er_flags", "nonblock")
                         ELSE UNCHANGED <<tty, torn>>
  /\ Goto(c, AfterRestore(c))
  /\ UNCHANGED <<kernel, state, flags, console, stack, local, budget>>

EmergencyRestore(c) ==
  \/ RestoreCheck(c) \/ RestoreMark(c) \/ RestoreWrite(c)
  \/ RestoreAttributes(c) \/ RestoreFlags(c)
-----------------------------------------------------------------------------
(* Signals.  The kernel keeps a signal blocked while its handler runs,     *)
(* except while dispatchPrevious() unblocks it; then the old action is in  *)
(* place, so no signal has two frames on the stack.                        *)

\* What an action other than ours does when the kernel takes it.
TakeAction(s, action) ==
  process' = IF \/ action = "exits"
                \/ action = "SIG_DFL" /\ s \notin Harmless \cup {"SIGTSTP"}
             THEN "dead"
             ELSE IF action = "SIG_DFL" /\ s = "SIGTSTP" THEN "stopped"
             ELSE process

\* Stop and continue signals cancel each other when they are sent.
Cancelled(s) ==
  CASE s = "SIGCONT" -> {"SIGTSTP"} [] s = "SIGTSTP" -> {"SIGCONT"} [] OTHER -> {}

\* Somebody raises s; SIGCONT wakes a stopped process whatever its action.
Raise(s) ==
  /\ process # "dead"
  /\ budget.signals > 0
  /\ budget' = [budget EXCEPT !.signals = @ - 1]
  /\ pending' = (pending \ Cancelled(s)) \cup {s}
  /\ process' = IF s = "SIGCONT" THEN "running" ELSE process
  /\ UNCHANGED <<tty, winSize, disposition, appAction, state, flags, console,
                 pc, stack, local, torn>>

\* The user resizes the terminal window; the kernel raises SIGWINCH.
Resize(size) ==
  /\ process # "dead"
  /\ budget.resizes > 0
  /\ size # winSize
  /\ winSize' = size
  /\ pending' = pending \cup {"SIGWINCH"}
  /\ budget' = [budget EXCEPT !.resizes = @ - 1]
  /\ UNCHANGED <<tty, disposition, process, appAction, state, flags, console,
                 pc, stack, local, torn>>

StopFirst(s) ==
  CASE s = "SIGWINCH" -> "h_resize"
    [] s = "SIGCONT" -> "h_continue"
    [] s = "SIGTSTP" -> "h_action"
    [] OTHER -> "er_check"

HandlerEntry(s) ==
  CASE s = "SIGWINCH" -> "h_resize"
    [] s = "SIGCONT" -> "h_continue"
    [] OTHER -> "er_check"

\* signalHandler(s) may be entered: it is installed with sa_flags = 0.
DeliverableNoDefer(s) == disposition[s] = "ours"
Deliverable(s) == disposition[s] = "ours" /\ pc[s] = "off"

\* The kernel interrupts the running frame with signalHandler(s).
DeliverOurs(s) ==
  /\ process = "running"
  /\ s \in pending
  /\ Deliverable(s)
  /\ pending' = pending \ {s}
  /\ stack' = Append(stack, s)
  /\ Goto(s, HandlerEntry(s))
  /\ UNCHANGED <<tty, winSize, disposition, process, appAction, state, flags,
                 console, local, torn, budget>>

\* s arrives while the application's own action is in place.
DeliverOther(s) ==
  /\ process = "running"
  /\ s \in pending
  /\ disposition[s] # "ours"
  /\ pending' = pending \ {s}
  /\ TakeAction(s, disposition[s])
  /\ UNCHANGED <<tty, winSize, disposition, appAction, state, flags, console,
                 pc, stack, local, torn, budget>>

\* signalHandler(SIGWINCH) up to dispatchPrevious().
HandleResize(s) ==
  /\ At(s, "h_resize")
  /\ resizeRequested' = TRUE
  /\ Goto(s, "h_dispatch")
  /\ UNCHANGED <<tty, kernel, state, emergencyRestored, resumeRequested,
                 console, stack, local, torn, budget>>

\* signalHandler(SIGCONT) up to dispatchPrevious().
HandleContinue(s) ==
  /\ At(s, "h_continue")
  /\ resumeRequested' = TRUE
  /\ resizeRequested' = TRUE
  /\ Goto(s, "h_dispatch")
  /\ UNCHANGED <<tty, kernel, state, emergencyRestored, console, stack, local,
                 torn, budget>>

\* After emergencyRestore(): SIGTSTP over the default action stops the
\* process with SIGSTOP, every other signal goes on to dispatchPrevious().
HandleAction(s) ==
  /\ At(s, "h_action")
  /\ IF s = "SIGTSTP" /\ state.oldActions[s] = "SIG_DFL"
     THEN /\ process' = "stopped"
          /\ pending' = pending \ Cancelled(s)
          /\ Goto(s, "h_flags")
     ELSE UNCHANGED <<process, pending>> /\ Goto(s, "h_dispatch")
  /\ UNCHANGED <<tty, winSize, disposition, appAction, state, flags, console,
                 stack, local, torn, budget>>

ReturnAtOnce(s) == "h_return"
AfterDispatch(s) == IF s \in Harmless THEN "h_return" ELSE "h_flags"

\* dispatchPrevious() up to and including kill(getpid(), s): the old action
\* is put back, the signal unblocked and taken at once, together with one
\* that was already waiting (a signal is pending at most once).
DispatchPrevious(s) ==
  /\ At(s, "h_dispatch")
  /\ IF state.oldActions[s] = "SIG_IGN"
     THEN /\ Goto(s, AfterDispatch(s))
          /\ UNCHANGED <<disposition, pending, process>>
     ELSE /\ disposition' = [disposition EXCEPT ![s] = state.oldActions[s]]
          /\ pending' = pending \ (Cancelled(s) \cup {s})
          /\ TakeAction(s, state.oldActions[s])
          /\ Goto(s, "h_reinstall")
  /\ UNCHANGED <<tty, winSize, appAction, state, flags, console, stack, local,
                 torn, budget>>

ReinstallCurrentHandler(s) ==
  /\ At(s, "h_reinstall")
  /\ disposition' = [disposition EXCEPT ![s] = "ours"]
  /\ Goto(s, AfterDispatch(s))
  /\ UNCHANGED <<tty, winSize, pending, process, appAction, state, flags,
                 console, stack, local, torn, budget>>

\* The tail of signalHandler() for terminating signals and SIGTSTP.
HandleFlags(s) ==
  /\ At(s, "h_flags")
  /\ resumeRequested' = TRUE
  /\ resizeRequested' = TRUE
  /\ Goto(s, "h_return")
  /\ UNCHANGED <<tty, kernel, state, emergencyRestored, console, stack, local,
                 torn, budget>>

HandlerReturn(s) ==
  /\ At(s, "h_return")
  /\ stack' = SubSeq(stack, 1, Len(stack) - 1)
  /\ Goto(s, "off")
  /\ UNCHANGED <<tty, kernel, state, flags, console, local, torn, budget>>

Handler(s) ==
  \/ EmergencyRestore(s)
  \/ HandleResize(s) \/ HandleContinue(s) \/ HandleAction(s)
  \/ DispatchPrevious(s) \/ ReinstallCurrentHandler(s)
  \/ HandleFlags(s) \/ HandlerReturn(s)
-----------------------------------------------------------------------------
(* Main: TerminalSession's constructor and platformInitialize().           *)

MainAt(label) == At("main", label)
MainGoto(label) == Goto("main", label)

\* Where an exception goes: from platformInitialize()'s try block to its own
\* handler, otherwise to the constructor's, which runs platformShutdown().
ThrowInTry == local' = [local EXCEPT !.ret = "f_remove"] /\ MainGoto("er_check")
Throw == MainGoto("d_enter") /\ UNCHANGED local

\* Bound: a session starts in a terminal that an earlier one has not spoilt.
StartSession ==
  /\ MainAt("idle")
  /\ budget.sessions > 0
  /\ Restored
  /\ budget' = [budget EXCEPT !.sessions = @ - 1]
  /\ MainGoto("c_query")
  /\ UNCHANGED <<tty, kernel, state, flags, console, stack, local, torn>>

\* Neither descriptor may be a terminal: nothing has been saved yet.
NotATerminal ==
  /\ MainAt("c_query")
  /\ "c_query" \in FailPoints
  /\ Throw
  /\ UNCHANGED <<tty, kernel, state, flags, console, stack, torn, budget>>

\* state = PosixState {}, the flags cleared, attributes and flags saved; the
\* first query or only the second may fail.  None of ours is installed yet.
SaveOriginals ==
  /\ MainAt("c_query")
  /\ \/ /\ state' = [FreshState EXCEPT !.attributesSaved = TRUE,
                                        !.flagsSaved = TRUE]
        /\ MainGoto("c_raw")
     \/ /\ "c_query" \in FailPoints
        /\ state' \in {FreshState, [FreshState EXCEPT !.attributesSaved = TRUE]}
        /\ MainGoto("d_enter")
  /\ emergencyRestored' = FALSE
  /\ resumeRequested' = FALSE
  /\ resizeRequested' = FALSE
  /\ torn' = {}
  /\ UNCHANGED <<tty, kernel, console, stack, local, budget>>

\* applyRuntimeState(): tcsetattr() and then fcntl(), each of which may fail;
\* failing is what follows a failure.
SetRaw(label, next, Failing) ==
  /\ MainAt(label)
  /\ \/ /\ tty' = [tty EXCEPT !.raw = TRUE]
        /\ Tear("raw")
        /\ MainGoto(next)
        /\ UNCHANGED local
     \/ /\ label \in FailPoints
        /\ Failing
        /\ UNCHANGED <<tty, torn>>
  /\ UNCHANGED <<kernel, state, flags, console, stack, budget>>

SetNonBlocking(label, next, Failing) ==
  /\ MainAt(label)
  /\ \/ /\ tty' = [tty EXCEPT !.nonblock = TRUE]
        /\ Tear("nonblock")
        /\ MainGoto(next)
        /\ UNCHANGED local
     \/ /\ label \in FailPoints
        /\ Failing
        /\ UNCHANGED <<tty, torn>>
  /\ UNCHANGED <<kernel, state, flags, console, stack, budget>>

\* platformWriteOutput(startupSequence(options)).  A write that fails has
\* written nothing or some part of the sequence.
WriteStartup(label, next, Failing) ==
  /\ MainAt(label)
  /\ \/ /\ tty' = [tty EXCEPT !.modes = "session"]
        /\ Tear("modes")
        /\ MainGoto(next)
        /\ UNCHANGED local
     \/ /\ label \in FailPoints
        /\ \/ tty' = [tty EXCEPT !.modes = "partial"] /\ Tear("modes")
           \/ UNCHANGED <<tty, torn>>
        /\ Failing
  /\ console' = [console EXCEPT !.shown = FALSE]
  /\ UNCHANGED <<kernel, state, flags, stack, budget>>

\* One round of the loop of installHandlers().
InstallHandler ==
  /\ MainAt("c_install")
  /\ \E i \in First(NotOurs) :
     LET s == HandledSignals[i]
     IN \/ /\ state' = [state EXCEPT !.oldActions[s] = disposition[s]]
           /\ disposition' = [disposition EXCEPT ![s] = "ours"]
           /\ UNCHANGED pc
        \/ /\ "c_install" \in FailPoints
           /\ MainGoto("c_rollback")
           /\ UNCHANGED <<state, disposition>>
  /\ UNCHANGED <<tty, winSize, pending, process, appAction, flags, console,
                 stack, local, torn, budget>>

InstalledAll ==
  /\ MainAt("c_install")
  /\ NotOurs = {}
  /\ state' = [state EXCEPT !.handlersInstalled = TRUE]
  /\ MainGoto("c_write")
  /\ UNCHANGED <<tty, kernel, flags, console, stack, local, torn, budget>>

\* sigaction(HANDLED_SIGNALS[index], &oldActions[index]), one signal a step.
PutBackOne ==
  /\ \E i \in First(Ours) :
     LET s == HandledSignals[i]
     IN disposition' = [disposition EXCEPT ![s] = state.oldActions[s]]
  /\ UNCHANGED <<tty, winSize, pending, process, appAction, state, flags,
                 console, pc, stack, local, torn, budget>>

\* installHandlers() failed: put back those installed so far, then throw.
RollbackHandler == MainAt("c_rollback") /\ PutBackOne

RolledBackEarly ==
  /\ MainAt("c_rollback")
  /\ ThrowInTry
  /\ UNCHANGED <<tty, kernel, state, flags, console, stack, torn, budget>>

RolledBack ==
  /\ MainAt("c_rollback")
  /\ Ours = {}
  /\ ThrowInTry
  /\ UNCHANGED <<tty, kernel, state, flags, console, stack, torn, budget>>

WrittenStartup ==
  /\ MainAt("c_done")
  /\ state' = [state EXCEPT !.initialized = TRUE]
  /\ MainGoto("c_size")
  /\ UNCHANGED <<tty, kernel, flags, console, stack, local, torn, budget>>

PlatformInitialize ==
  \/ NotATerminal \/ SaveOriginals
  \/ SetRaw("c_raw", "c_nonblock", ThrowInTry)
  \/ SetNonBlocking("c_nonblock", IF InstallHandlers THEN "c_install" ELSE "c_write",
                    ThrowInTry)
  \/ InstallHandler \/ InstalledAll \/ RollbackHandler \/ RolledBack
  \/ WriteStartup("c_write", "c_done", ThrowInTry)
  \/ WrittenStartup
-----------------------------------------------------------------------------
(* platformTerminalSize(): the query, and then resizeRequested = 0.  Its    *)
(* callers are the constructor (c_), update() (u_) and the public           *)
(* Console::terminalSize() (t_).                                            *)

QuerySize(label, next, Failing) ==
  /\ MainAt(label)
  /\ \/ local' = [local EXCEPT !.size = winSize] /\ MainGoto(next)
     \/ label \in FailPoints /\ Failing
  /\ UNCHANGED <<tty, kernel, state, flags, console, stack, torn, budget>>

AcknowledgeResize ==
  /\ resizeRequested' = FALSE
  /\ UNCHANGED <<emergencyRestored, resumeRequested>>

\* Console::initializeFrameBuffer() and Input::initialize(), whose failures
\* (allocation, platformFlushInput()) have the same consequence.
FinishConstruction ==
  /\ MainAt("c_ack")
  /\ AcknowledgeResize
  /\ \/ /\ console' = [frame |-> local.size, first |-> TRUE, shown |-> FALSE]
        /\ MainGoto("loop")
        /\ UNCHANGED local
     \/ /\ "c_ack" \in FailPoints
        /\ console' \in {console, [frame |-> local.size, first |-> TRUE,
                                   shown |-> FALSE]}
        /\ Throw
  /\ UNCHANGED <<tty, kernel, state, stack, torn, budget>>

Construct ==
  \/ StartSession \/ PlatformInitialize
  \/ QuerySize("c_size", "c_ack", Throw) \/ FinishConstruction
-----------------------------------------------------------------------------
(* The frame loop, in the order the README gives: TerminalSession::update, *)
(* Input::update, Console::endFrame.  An application that catches a        *)
(* TerminalError carries on with its next frame; one that does not unwinds *)
(* into the destructor.                                                    *)

AppThrow == MainGoto("thrown") /\ UNCHANGED local

AppCatch ==
  /\ MainAt("thrown")
  /\ MainGoto("loop")
  /\ UNCHANGED <<tty, kernel, state, flags, console, stack, local, torn, budget>>

ResizeDueOnSignal == resizeRequested
ResizeDue == ~state.handlersInstalled \/ resizeRequested

\* platformUpdate(): is a size query due?
UpdateCheck ==
  /\ MainAt("loop")
  /\ local' = [local EXCEPT !.check = ResizeDue]
  /\ MainGoto("u_resume")
  /\ UNCHANGED <<tty, kernel, state, flags, console, stack, torn, budget>>

ForgetToReapply ==
  /\ MainAt("u_resume")
  /\ resumeRequested' = FALSE
  /\ MainGoto(IF local.check THEN "u_size" ELSE "updated")
  /\ UNCHANGED <<tty, kernel, state, emergencyRestored, resizeRequested,
                 console, stack, local, torn, budget>>

\* platformUpdate(): is the runtime state to be reapplied?
UpdateResume ==
  /\ MainAt("u_resume")
  /\ resumeRequested' = FALSE
  /\ MainGoto(IF resumeRequested THEN "u_raw"
              ELSE IF local.check THEN "u_size" ELSE "updated")
  /\ UNCHANGED <<tty, kernel, state, emergencyRestored, resizeRequested,
                 console, stack, local, torn, budget>>

\* Console::invalidate().
InvalidateNothing == console
Invalidated == [console EXCEPT !.first = @ \/ console.frame # NoFrame]

StillMarkedRestored ==
  /\ MainAt("u_clear")
  /\ torn' = {}
  /\ state' = [state EXCEPT !.initialized = TRUE]
  /\ console' = Invalidated
  /\ MainGoto("u_size")
  /\ UNCHANGED <<tty, kernel, flags, stack, local, budget>>

\* The end of platformUpdate()'s resume branch, and Console::invalidate().
UpdateResumed ==
  /\ MainAt("u_clear")
  /\ emergencyRestored' = FALSE
  /\ torn' = {}
  /\ state' = [state EXCEPT !.initialized = TRUE]
  /\ console' = Invalidated
  /\ MainGoto("u_size")
  /\ UNCHANGED <<tty, kernel, resumeRequested, resizeRequested, stack, local,
                 budget>>

\* resizeFrameBuffer() keeps the old buffers when it cannot allocate.
ResizeToTerminal ==
  /\ MainAt("u_ack")
  /\ AcknowledgeResize
  /\ \/ /\ console' = IF local.size = console.frame THEN console
                      ELSE [console EXCEPT !.frame = local.size, !.first = TRUE]
        /\ MainGoto("updated")
        /\ UNCHANGED local
     \/ /\ "u_ack" \in FailPoints /\ local.size # console.frame
        /\ AppThrow
        /\ UNCHANGED console
  /\ UNCHANGED <<tty, kernel, state, stack, torn, budget>>

Update ==
  \/ UpdateCheck \/ UpdateResume
  \/ SetRaw("u_raw", "u_nonblock", AppThrow)
  \/ SetNonBlocking("u_nonblock", "u_write", AppThrow)
  \/ WriteStartup("u_write", "u_clear", AppThrow)
  \/ UpdateResumed
  \/ QuerySize("u_size", "u_ack", AppThrow) \/ ResizeToTerminal

\* platformReadInput(): with canonical attributes and without O_NONBLOCK,
\* read() waits for the user to finish a line, and after it for the next.
ReadInput ==
  /\ MainAt("updated")
  /\ state.initialized
  /\ \/ MainGoto(IF ~tty.raw /\ ~tty.nonblock THEN "blocked" ELSE "polled")
        /\ UNCHANGED local
     \/ "updated" \in FailPoints /\ AppThrow
  /\ UNCHANGED <<tty, kernel, state, flags, console, stack, torn, budget>>

\* The loop ends when read() has nothing more to give (an end of file) or
\* fails; neither a line nor a signal ends it.
WaitEnds ==
  /\ MainAt("blocked")
  /\ \/ MainGoto("polled") /\ UNCHANGED local
     \/ "updated" \in FailPoints /\ AppThrow
  /\ UNCHANGED <<tty, kernel, state, flags, console, stack, torn, budget>>

\* endFrame(): a full frame shows everything, a differential one repairs
\* nothing, and one that fails part-way asks for a full frame next.
EndFrame ==
  /\ MainAt("polled")
  /\ state.initialized
  /\ \/ /\ console' = [console EXCEPT !.first = FALSE,
                                      !.shown = console.first \/ @]
        /\ MainGoto("loop")
        /\ UNCHANGED local
     \/ /\ "polled" \in FailPoints
        /\ console' = [console EXCEPT !.first = TRUE, !.shown = FALSE]
        /\ AppThrow
  /\ UNCHANGED <<tty, kernel, state, flags, stack, torn, budget>>

\* The application may ask for the size anywhere in its frame.
CallTerminalSize ==
  /\ \E label \in {"loop", "updated", "polled"} :
       MainAt(label) /\ local' = [local EXCEPT !.ret = label]
  /\ MainGoto("t_size")
  /\ UNCHANGED <<tty, kernel, state, flags, console, stack, torn, budget>>

TerminalSizeReturns ==
  /\ MainAt("t_ack")
  /\ AcknowledgeResize
  /\ MainGoto(local.ret)
  /\ UNCHANGED <<tty, kernel, state, console, stack, local, torn, budget>>

TerminalSize ==
  \/ CallTerminalSize
  \/ QuerySize("t_size", "t_ack", AppThrow) \/ TerminalSizeReturns

Frame == Update \/ ReadInput \/ EndFrame
-----------------------------------------------------------------------------
(* The destructor and the constructor's catch block run the same calls:    *)
(* Console::shutdownFrameBuffer() and platformShutdown().                  *)

Destroy ==
  /\ \E label \in {"loop", "updated", "polled", "thrown"} : MainAt(label)
  /\ MainGoto("d_enter")
  /\ UNCHANGED <<tty, kernel, state, flags, console, stack, local, torn, budget>>

PlatformShutdown ==
  /\ MainAt("d_enter")
  /\ console' = ClosedConsole
  /\ MainGoto(IF state.attributesSaved \/ state.flagsSaved THEN "d_remove"
              ELSE "idle")
  /\ UNCHANGED <<tty, kernel, state, flags, stack, local, torn, budget>>

\* removeHandlers(), from platformShutdown() and from platformInitialize()'s
\* catch block, which has restored the terminal already.
RemoveHandler(label) ==
  /\ MainAt(label)
  /\ state.handlersInstalled
  /\ PutBackOne

RemovedUnrestored(label) ==
  /\ MainAt(label)
  /\ state.handlersInstalled => Ours = {}
  /\ state' = [state EXCEPT !.handlersInstalled = FALSE]
  /\ IF label = "f_remove"
     THEN Throw
     ELSE MainGoto("d_reset") /\ UNCHANGED local
  /\ UNCHANGED <<tty, kernel, flags, console, stack, torn, budget>>

HandlersRemoved(label) ==
  /\ MainAt(label)
  /\ state.handlersInstalled => Ours = {}
  /\ state' = [state EXCEPT !.handlersInstalled = FALSE]
  /\ IF label = "f_remove"
     THEN Throw
     ELSE local' = [local EXCEPT !.ret = "d_reset"] /\ MainGoto("er_check")
  /\ UNCHANGED <<tty, kernel, flags, console, stack, torn, budget>>

ResetState ==
  /\ MainAt("d_reset")
  /\ state' = FreshState
  /\ emergencyRestored' = FALSE
  /\ resumeRequested' = FALSE
  /\ resizeRequested' = FALSE
  /\ MainGoto("idle")
  /\ UNCHANGED <<tty, kernel, console, stack, local, torn, budget>>

Shutdown ==
  \/ PlatformShutdown
  \/ \E label \in {"f_remove", "d_remove"} :
       RemoveHandler(label) \/ HandlersRemoved(label)
  \/ EmergencyRestore("main")
  \/ ResetState
-----------------------------------------------------------------------------
Init ==
  /\ tty = OriginalTty
  /\ winSize \in Sizes
  /\ appAction \in AppActions
  /\ disposition = appAction
  /\ pending = {}
  /\ process = "running"
  /\ state = FreshState
  /\ emergencyRestored = FALSE
  /\ resumeRequested = FALSE
  /\ resizeRequested = FALSE
  /\ console = ClosedConsole
  /\ pc = [c \in Frames |-> IF c = "main" THEN "idle" ELSE "off"]
  /\ stack = <<>>
  /\ local = [ret |-> "d_reset", check |-> FALSE, size |-> winSize]
  /\ torn = {}
  /\ budget = [signals |-> MaxSignals, resizes |-> MaxResizes,
               sessions |-> MaxSessions]

Main ==
  Construct \/ Frame \/ TerminalSize \/ AppCatch \/ Destroy \/ Shutdown

Environment ==
  \/ \E s \in Signals : Raise(s) \/ DeliverOurs(s) \/ DeliverOther(s)
  \/ \E size \in Sizes : Resize(size)
  \/ WaitEnds

Next == Main \/ Environment \/ \E s \in Signals : Handler(s)

Spec == Init /\ [][Next]_vars

\* The scheduler runs whatever frame is on top, the kernel delivers what is
\* pending, and the application keeps drawing frames, however often it asks for
\* the terminal's size in between.  Nothing obliges a user
\* to end the input, to continue a stopped process or to end the session.
Fairness ==
  /\ WF_vars(Construct) /\ SF_vars(Frame) /\ WF_vars(Shutdown)
  /\ WF_vars(QuerySize("t_size", "t_ack", AppThrow)) /\ WF_vars(TerminalSizeReturns)
  /\ WF_vars(\E s \in Signals : Handler(s))
  /\ WF_vars(\E s \in Signals : DeliverOurs(s) \/ DeliverOther(s))

FairSpec == Spec /\ Fairness
=============================================================================
