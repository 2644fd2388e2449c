---------------------- MODULE WindowsSessionProperties ----------------------
(***************************************************************************)
(* What a session on a Windows console promises.                           *)
(***************************************************************************)
EXTENDS WindowsSession

Saves == {"save_outMode", "save_inMode", "save_pages", "save_title"}
Sets == {"set_outCP", "set_inCP", "set_outMode", "set_inMode", "set_title"}

MainLabels ==
  {"idle", "handles", "install", "activate", "mark_title", "write", "allocate", "app",
   "d_remove", "d_inactive", "d_reset", "r_test"} \cup Saves \cup Sets \cup Parts

HandlerLabels == {"off", "h_load", "r_test", "h_next", "o_next"} \cup Parts

Appearance == {"original", "session", "partial"}

\* The types of the variables; only the main thread is ever in the constructor
\* or the destructor, and a handler only in controlHandler().
TypeOK ==
  /\ con \in [Parts -> Appearance]
  /\ installed \in BOOLEAN /\ activeState \in BOOLEAN /\ restorationStarted \in BOOLEAN
  /\ process \in {"running", "ended", "crashed"}
  /\ state \in [output : BOOLEAN, original : [Parts -> Appearance \cup {"unsaved"}],
                changed : SUBSET Parts, handlerInstalled : BOOLEAN]
  /\ options \in Options
  /\ pc \in [Threads -> MainLabels \cup HandlerLabels]
  /\ pc["main"] \in MainLabels
  /\ \A h \in Handlers : pc[h] \in HandlerLabels
  /\ serial \in BOOLEAN
  /\ torn \in BOOLEAN /\ overtaken \in BOOLEAN /\ titleKept \in BOOLEAN
  /\ budget \in [controls : Nat, sessions : Nat]

\* The console is as it was found, except for a title that was to be kept and
\* for a part that restoreState() may fail to put back: the others do not
\* suffer from it.
Restored ==
  \A p \in Parts \ FailPoints : con[p] = "original" \/ (p = "title" /\ titleKept)

\* "Destruction reverses every configured mode" (TerminalSession.h:83), and so
\* does a constructor that throws, wherever it does, and whatever control events
\* came that the application dealt with: between sessions the console is as it
\* was found, unless the constructor went on changing it after a handler's
\* restoration had begun, or took state away from a handler.
IdleRestored == pc["main"] = "idle" => Restored \/ torn \/ overtaken

\* A handler has found a session and passed its event on.
SessionFound == \E h \in Handlers : pc[h] = "h_next"

\* "Windows control events ... receive a best-effort emergency restoration path"
\* (TerminalSession.h:21-22).  A control event that ends the process leaves the
\* console as it was found, at every point of the session's life, except for
\*  - an event of which controlHandler() found activeState null (178): it came
\*    between the installation of the handler (466) and the store (471), or, when
\*    SetConsoleCtrlHandler() does not wait for a running handler, was overtaken
\*    by its removal (191-193).  Nothing is put back then;
\*  - the end of the process while another thread is in restoreState();
\*  - a title that has been set and not yet been marked as changed (477-481);
\*  - the provisos of IdleRestored.
EndsRestored ==
  process = "ended" => \/ Restored
                       \/ ~SessionFound /\ (installed \/ ~serial)
                       \/ \E t \in Threads : Restoring(t)
                       \/ pc["main"] = "mark_title"
                       \/ torn \/ overtaken

\* "Emergency restoration is guarded so normal destruction and a control handler
\* cannot both restore the console concurrently" (docs/platforms.md:25-26, the
\* test_and_set of WindowsTerminal.cpp:142), and neither can two handlers.  The
\* exception is a handler that is still in restoreState() when its state is reset
\* or the next session begins: line 391 clears the flag under it, and a second
\* thread may follow.  That takes a SetConsoleCtrlHandler() that does not wait for
\* a running handler (NotReadWhenReset), and the quoted line is not true then.
OneRestorer ==
  overtaken \/ \A t, u \in Threads : Restoring(t) /\ Restoring(u) => t = u

\* platformShutdown() resets the state that restoreState() reads
\* (WindowsTerminal.cpp:144-166 and 494-498).  When SetConsoleCtrlHandler()
\* waits for a running handler, no handler is ever left reading it.
NotReadWhenReset == serial => ~overtaken
=============================================================================
