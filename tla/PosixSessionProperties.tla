----------------------- MODULE PosixSessionProperties -----------------------
(***************************************************************************)
(* What a POSIX terminal session promises: to the user, whose terminal it  *)
(* borrows; to the application, whose signal actions it replaces and whose *)
(* frames it draws.                                                        *)
(***************************************************************************)
EXTENDS PosixSession

UpdateLabels ==
  {"u_resume", "u_raw", "u_nonblock", "u_write", "u_clear", "u_size", "u_ack"}

Reapplying == {"u_raw", "u_nonblock", "u_write", "u_clear"}

MainLabels ==
  {"idle", "c_query", "c_raw", "c_nonblock", "c_install", "c_rollback",
   "c_write", "c_done", "c_size", "c_ack", "loop", "updated", "blocked",
   "polled", "thrown", "t_size", "t_ack", "d_enter", "f_remove", "d_remove",
   "d_reset", "er_check", "er_mark"} \cup UpdateLabels \cup Restoring

HandlerLabels ==
  {"off", "er_check", "er_mark", "h_resize", "h_continue", "h_action",
   "h_dispatch", "h_reinstall", "h_flags", "h_return"} \cup Restoring

AppLabels == {"loop", "updated", "polled"}

RetLabels == AppLabels \cup {"d_reset", "f_remove"}

TtyType ==
  [raw : BOOLEAN, nonblock : BOOLEAN, modes : {"original", "session", "partial"}]

StateType ==
  [ attributesSaved : BOOLEAN, flagsSaved : BOOLEAN, initialized : BOOLEAN,
    handlersInstalled : BOOLEAN, oldActions : [Signals -> OldKinds] ]

\* The handlers on the stack are those that have been entered and have not
\* returned, and no signal interrupts its own handler: dispatchPrevious()
\* unblocks a signal only while the application's action is in place.
StackOK ==
  /\ stack \in Seq(Signals)
  /\ \A i, j \in DOMAIN stack : stack[i] = stack[j] => i = j
  /\ \A s \in Signals : pc[s] # "off" <=> \E i \in DOMAIN stack : stack[i] = s

PcOK ==
  /\ pc \in [Frames -> MainLabels \cup HandlerLabels]
  /\ pc["main"] \in MainLabels
  /\ \A s \in Signals : pc[s] \in HandlerLabels

VarsOK ==
  /\ tty \in TtyType
  /\ winSize \in Sizes
  /\ appAction \in AppActions
  /\ disposition \in [Signals -> Kinds]
  /\ pending \subseteq Signals
  /\ process \in {"running", "stopped", "dead"}
  /\ state \in StateType
  /\ emergencyRestored \in BOOLEAN
  /\ resumeRequested \in BOOLEAN
  /\ resizeRequested \in BOOLEAN
  /\ console \in [frame : Sizes \cup {NoFrame}, first : BOOLEAN, shown : BOOLEAN]
  /\ local \in [ret : RetLabels, check : BOOLEAN, size : Sizes]
  /\ torn \subseteq Parts
  /\ budget \in [signals : Nat, resizes : Nat, sessions : Nat]

\* Every variable has its type, and the stack of signal handlers mirrors the
\* program counters of the frames.
TypeOK == VarsOK /\ PcOK /\ StackOK
-----------------------------------------------------------------------------
(* The user's terminal.                                                    *)

MidRestore == \E c \in Frames : pc[c] \in Restoring

\* emergencyRestored speaks the truth: while it is set and no frame is inside
\* emergencyRestore(), every part of the terminal is back in its original
\* state.  That is what lets a second signal, or a destructor, skip the work
\* (PosixTerminal.cpp:105).  The parts that are torn are the exceptions, and
\* there are three kinds: one whose restoring call failed silently (110-118),
\* one that the constructor changed after a signal had restored it (299-305)
\* and one changed by a reapplication that has not reached its end, or that
\* has failed before it (336-338).
FlagTruth == emergencyRestored /\ ~MidRestore => Changed \subseteq torn

\* Once the handlers are in, no signal stops or ends the process with a part
\* of the terminal changed, unless it hits a restoration half way, or the part
\* is torn: then the handler's emergencyRestore() does nothing.  That is so
\* from a signal during construction to the end of the first reapplication,
\* and after a failed reapplication for the rest of the session.
Guarded == state.handlersInstalled /\ pc["main"] \notin {"f_remove", "d_remove"}

StopsRestored ==
  Guarded /\ process # "running" => Changed \subseteq torn \/ MidRestore

\* After the destructor, or a constructor that threw, the parts of the terminal
\* that are not as the session found them are exactly the torn ones: those
\* whose own restoring call failed, and those changed by the constructor after
\* a signal, or by a reapplication that failed, with emergencyRestored still
\* set, which the destructor leaves alone.  No other signal and no other
\* failure leaves anything behind, and nothing torn is given back after all.
IdleRestored == pc["main"] = "idle" => Changed = torn

\* Destruction reverses every configured mode, as TerminalSession.h says.
DestructionRestores == pc["main"] = "idle" => Restored

-----------------------------------------------------------------------------
(* The application's signal actions.                                       *)

\* Between sessions every signal has the application's own action, also after
\* a constructor that failed half way through installHandlers() and after
\* handlers that were caught between two sigaction() calls.
HandlersPutBack == pc["main"] = "idle" => disposition = appAction
-----------------------------------------------------------------------------
(* The application's frames and input.                                     *)

\* When update() has returned and input is about to be read, the session's
\* modes are in force or a signal has since asked for them to be reapplied.
UpdatedInSession ==
  pc["main"] = "updated" /\ stack = <<>> => tty = SessionTty \/ resumeRequested

\* A screen that no longer shows the last frame is repainted in full: either
\* the next endFrame() draws everything or a reapplication, which invalidates
\* the frame, is under way or still requested.
RepaintOwed ==
  console.frame # NoFrame /\ ~console.first /\ ~console.shown
    => resumeRequested \/ pc["main"] \in Reapplying \/ stack # <<>>
-----------------------------------------------------------------------------
(* Liveness.  A session may be stopped or killed, wait in a blocking read, *)
(* or be destroyed: then nothing more is due.                              *)

Gone == process # "running" \/ pc["main"] \in {"idle", "blocked"}

\* A request to resume is honoured: the session's modes come back, and until
\* then a read() that waits for a line waits with the request still standing.
ResumeHonoured ==
  resumeRequested ~>
    \/ tty = SessionTty
    \/ Gone /\ (pc["main"] = "blocked" => resumeRequested)

\* The framebuffer follows the terminal: a size that lasts is adopted.
SizeFollowed ==
  \A size \in Sizes :
    winSize = size ~> (console.frame = size \/ winSize # size \/ Gone)
-----------------------------------------------------------------------------
(* The inductive invariants behind HandlersPutBack, IdleRestored, FlagTruth *)
(* and StopsRestored.                                                      *)

MainRestoring == pc["main"] \in {"er_check", "er_mark"} \cup Restoring

\* Where control returns to: from emergencyRestore() and terminalSize().
ReturnsOK ==
  /\ MainRestoring => local.ret \in {"d_reset", "f_remove"}
  /\ pc["main"] \in {"t_size", "t_ack"} => local.ret \in AppLabels

Saving == {"c_raw", "c_nonblock", "c_install", "c_rollback"}

\* The labels before installHandlers() and after removeHandlers().
Unhandled ==
  \/ pc["main"] \in {"idle", "c_query", "d_reset"} \cup Saving
  \/ MainRestoring /\ local.ret = "d_reset"

Untouched == \A s \in Signals : disposition[s] = appAction[s] /\ pc[s] = "off"

\* Either the application's action for a signal is in place or it is kept in
\* oldActions; outside a session's handlers nothing of ours is left.
Custody ==
  /\ \A s \in Signals :
       /\ disposition[s] \in {"ours", appAction[s]}
       /\ disposition[s] = "ours" \/ pc[s] # "off"
            => state.oldActions[s] = appAction[s]
  /\ Unhandled => ~state.handlersInstalled
  /\ ~state.handlersInstalled /\ pc["main"] \notin {"c_install", "c_rollback"}
       => Untouched
  /\ state.handlersInstalled => state.attributesSaved
  /\ pc["main"] \in Saving => state.attributesSaved

\* The labels of a session that has saved everything it changes.
Live ==
  {"c_write", "c_done", "c_size", "c_ack", "loop", "updated", "blocked",
   "polled", "thrown", "t_size", "t_ack"} \cup Saving \cup UpdateLabels

SavedOK ==
  /\ state.flagsSaved => state.attributesSaved
  /\ ~state.flagsSaved => Changed = {} \/ pc["main"] = "idle"
  /\ pc["main"] \in {"idle", "c_query"} => ~state.flagsSaved
  /\ pc["main"] \in Live => state.flagsSaved

\* How far each restoration has come.
ProgressOK ==
  /\ \A c \in Frames : pc[c] \in Restoring => emergencyRestored
  /\ \A c \in Frames :
       pc[c] \in {"er_attr", "er_flags"} => "modes" \notin Changed \ torn
  /\ \A c \in Frames : pc[c] = "er_flags" => "raw" \notin Changed \ torn

RestoreInv ==
  /\ SavedOK
  /\ ProgressOK
  /\ FlagTruth
  /\ torn \subseteq Changed
  /\ pc["main"] \in {"idle", "d_reset"} => Changed \subseteq torn

\* The labels of a handler that does not restore the terminal.
HarmlessLabels ==
  {"off", "h_resize", "h_continue", "h_dispatch", "h_reinstall", "h_return"}

\* A handler that can stop or end the process has restored the terminal.
StopInv ==
  /\ Guarded => \A s \in Signals : disposition[s] = "ours" \/ pc[s] = "h_reinstall"
  /\ \A s \in Signals \ Harmless :
       /\ pc[s] \notin {"h_resize", "h_continue"}
       /\ pc[s] \in {"h_action", "h_dispatch", "h_reinstall", "h_flags"}
            => emergencyRestored
  /\ \A s \in Harmless : pc[s] \in HarmlessLabels
  /\ StopsRestored
-----------------------------------------------------------------------------
(* The inductive invariant behind UpdatedInSession and RepaintOwed.        *)

\* A handler that restores the terminal asks for the session's modes later.
OwingLabels ==
  {"er_check", "er_mark", "h_action", "h_dispatch", "h_reinstall", "h_flags"}
    \cup Restoring
Owing(s) == s \notin Harmless /\ pc[s] \in OwingLabels

WillResume == resumeRequested \/ \E s \in Signals : Owing(s)

\* The labels of main behind each step towards the session's modes.
AfterAll ==
  {"c_done", "c_size", "c_ack", "loop", "u_resume", "u_clear", "u_size", "u_ack",
   "updated", "blocked", "polled", "thrown", "t_size", "t_ack"}
AfterNonBlocking == {"c_install", "c_write", "u_write"} \cup AfterAll
AfterRaw == {"c_nonblock", "u_nonblock"} \cup AfterNonBlocking

InForce(label) ==
  /\ label \in AfterRaw => tty.raw
  /\ label \in AfterNonBlocking => tty.nonblock
  /\ label \in AfterAll => tty.modes = "session"

Stale == console.frame # NoFrame /\ ~console.first /\ ~console.shown

\* The labels at which there may be a framebuffer.
Framed ==
  {"loop", "updated", "blocked", "polled", "thrown", "t_size", "t_ack", "d_enter"}
    \cup UpdateLabels

ResumeInv ==
  /\ InForce(pc["main"]) \/ WillResume
  /\ Stale => WillResume \/ pc["main"] \in Reapplying
  /\ pc["main"] \in Framed \/ console.frame = NoFrame
  /\ \A s \in Harmless : pc[s] \in HarmlessLabels
=============================================================================
