------------------------ MODULE PosixSession_proofs ------------------------
(***************************************************************************)
(* Proofs that every POSIX session, whatever signals it handles, whatever  *)
(* the application's signal actions and however many signals arrive, keeps *)
(* the safety properties that TLC checks on small instances.               *)
(***************************************************************************)
EXTENDS PosixSessionProperties, SequenceTheorems, TLAPS

\* The frames, and the list of signals.
LEMMA SignalFacts ==
  /\ "main" \in Frames /\ Signals \subseteq Frames /\ "main" \notin Signals
  /\ \A i \in DOMAIN HandledSignals : HandledSignals[i] \in Signals
BY SignalAssumption DEF Frames, Signals

\* A main label is assigned: the frames of the handlers are not disturbed.
LEMMA MainMoves ==
  ASSUME TypeOK, NEW label \in MainLabels, Goto("main", label), UNCHANGED stack
  PROVE  PcOK' /\ StackOK'
BY SignalFacts DEF TypeOK, PcOK, StackOK, Goto, Frames

\* A handler that stays on the stack moves on.
LEMMA HandlerMoves ==
  ASSUME TypeOK, NEW s \in Signals, NEW label \in HandlerLabels \ {"off"},
         pc[s] # "off", Goto(s, label), UNCHANGED stack
  PROVE  PcOK' /\ StackOK'
BY SignalFacts DEF TypeOK, PcOK, StackOK, Goto, Frames

\* A step that leaves the frames alone.
LEMMA NothingMoves ==
  ASSUME TypeOK, UNCHANGED <<pc, stack>>
  PROVE  PcOK' /\ StackOK'
BY DEF TypeOK, PcOK, StackOK

\* A sequence without its last element.
LEMMA Popped ==
  ASSUME NEW S, NEW q \in Seq(S), NEW n \in Nat, Len(q) = n + 1
  PROVE  /\ SubSeq(q, 1, n) \in Seq(S)
         /\ Len(SubSeq(q, 1, n)) = n
         /\ \A i \in 1 .. n : SubSeq(q, 1, n)[i] = q[i]
<1>1. 1 \in Int /\ n \in Int /\ \A i \in 1 .. n : q[i] \in S
  OBVIOUS
<1>2. /\ SubSeq(q, 1, n) \in Seq(S)
      /\ Len(SubSeq(q, 1, n)) = IF 1 <= n THEN n - 1 + 1 ELSE 0
      /\ \A i \in 1 .. n - 1 + 1 : SubSeq(q, 1, n)[i] = q[1 + i - 1]
  BY <1>1, SubSeqProperties
<1>3. n - 1 + 1 = n /\ (1 <= n \/ n = 0) /\ \A i \in 1 .. n : 1 + i - 1 = i
  OBVIOUS
<1>4. Len(SubSeq(q, 1, n)) = n
  BY <1>2, <1>3
<1> QED
  BY <1>2, <1>3, <1>4, Zenon

\* Main runs only when no handler is on the stack.
LEMMA MainAlone ==
  ASSUME TypeOK, NEW label, MainAt(label)
  PROVE  /\ stack = <<>> /\ process = "running" /\ pc["main"] = label
         /\ \A s \in Signals : pc[s] = "off"
<1>1. "main" = Running /\ process = "running" /\ pc["main"] = label
  BY DEF MainAt, At
<1>2. stack = <<>>
  <2> SUFFICES ASSUME stack # <<>> PROVE FALSE
    OBVIOUS
  <2>1. stack \in Seq(Signals)
    BY DEF TypeOK, StackOK
  <2>2. stack[Len(stack)] \in Signals
    BY <2>1
  <2> QED
    BY <1>1, <2>2, SignalFacts DEF Running
<1> QED
  BY <1>1, <1>2 DEF TypeOK, StackOK

\* A running handler is the last on the stack.
LEMMA HandlerOnTop ==
  ASSUME TypeOK, NEW s \in Signals, NEW label, At(s, label)
  PROVE  /\ stack # <<>> /\ stack[Len(stack)] = s
         /\ process = "running" /\ pc[s] = label /\ pc[s] # "off"
<1>1. s = Running /\ process = "running" /\ pc[s] = label
  BY DEF At
<1>2. stack # <<>> /\ stack[Len(stack)] = s
  BY <1>1, SignalFacts DEF Running
<1>3. Len(stack) \in DOMAIN stack
  BY <1>2 DEF TypeOK, StackOK
<1> QED
  BY <1>1, <1>2, <1>3 DEF TypeOK, StackOK
-----------------------------------------------------------------------------
(* Type correctness, action by action.                                     *)

\* The constructor and platformInitialize().
LEMMA TypeConstruct ==
  ASSUME TypeOK, Construct
  PROVE  TypeOK'
<1>1. CASE StartSession
  <2>1. VarsOK'
    BY <1>1 DEF StartSession, TypeOK, VarsOK, kernel, flags
  <2>2. PcOK' /\ StackOK'
    BY <1>1, MainMoves, NothingMoves DEF StartSession, MainLabels, UpdateLabels,
       Restoring, AppLabels, RetLabels, MainGoto
  <2> QED
    BY <2>1, <2>2 DEF TypeOK
<1>2. CASE NotATerminal
  <2>1. VarsOK'
    BY <1>2 DEF NotATerminal, Throw, TypeOK, VarsOK, kernel, flags
  <2>2. PcOK' /\ StackOK'
    BY <1>2, MainMoves, NothingMoves DEF NotATerminal, Throw, MainLabels,
       UpdateLabels, Restoring, AppLabels, RetLabels, MainGoto
  <2> QED
    BY <2>1, <2>2 DEF TypeOK
<1>3. CASE SaveOriginals
  <2>1. VarsOK'
    <3>1. FreshState \in StateType
      BY DEF FreshState, StateType, OldKinds
    <3>2. state' \in StateType
      BY <1>3, <3>1 DEF SaveOriginals, StateType
    <3> QED
      BY <1>3, <3>2 DEF SaveOriginals, TypeOK, VarsOK, kernel, flags
  <2>2. PcOK' /\ StackOK'
    BY <1>3, MainMoves, NothingMoves DEF SaveOriginals, StateType, FreshState,
       OldKinds, MainLabels, UpdateLabels, Restoring, AppLabels, RetLabels,
       MainGoto
  <2> QED
    BY <2>1, <2>2 DEF TypeOK
<1>4. CASE SetRaw("c_raw", "c_nonblock", ThrowInTry)
  <2>1. VarsOK'
    BY <1>4 DEF SetRaw, ThrowInTry, Tear, Parts, TtyType, RetLabels, AppLabels, TypeOK,
       VarsOK, kernel, flags
  <2>2. PcOK' /\ StackOK'
    BY <1>4, MainMoves, NothingMoves DEF SetRaw, ThrowInTry, Tear, TtyType,
       RetLabels, AppLabels, MainLabels, UpdateLabels, Restoring, AppLabels,
       RetLabels, MainGoto
  <2> QED
    BY <2>1, <2>2 DEF TypeOK
<1>5. CASE SetNonBlocking("c_nonblock", IF InstallHandlers THEN "c_install" ELSE "c_write",
                       ThrowInTry)
  <2>1. VarsOK'
    BY <1>5 DEF SetNonBlocking, ThrowInTry, Tear, Parts, TtyType, RetLabels, AppLabels,
       TypeOK, VarsOK, kernel, flags
  <2>2. PcOK' /\ StackOK'
    BY <1>5, MainMoves, NothingMoves DEF SetNonBlocking, ThrowInTry, Tear,
       TtyType, RetLabels, AppLabels, MainLabels, UpdateLabels, Restoring,
       AppLabels, RetLabels, MainGoto
  <2> QED
    BY <2>1, <2>2 DEF TypeOK
<1>6. CASE InstallHandler
  <2>1. VarsOK'
    BY <1>6, SignalFacts DEF InstallHandler, NotOurs, Ours, First, StateType,
       Kinds, OldKinds, TypeOK, VarsOK, kernel, flags
  <2>2. PcOK' /\ StackOK'
    BY <1>6, MainMoves, NothingMoves DEF InstallHandler, NotOurs, Ours, First,
       StateType, Kinds, OldKinds, MainLabels, UpdateLabels, Restoring, AppLabels,
       RetLabels, MainGoto
  <2> QED
    BY <2>1, <2>2 DEF TypeOK
<1>7. CASE InstalledAll
  <2>1. VarsOK'
    BY <1>7, ConstantAssumption DEF InstalledAll, StateType, TypeOK, VarsOK,
       kernel, flags
  <2>2. PcOK' /\ StackOK'
    BY <1>7, MainMoves, NothingMoves DEF InstalledAll, StateType, MainLabels,
       UpdateLabels, Restoring, AppLabels, RetLabels, MainGoto
  <2> QED
    BY <2>1, <2>2 DEF TypeOK
<1>8. CASE RollbackHandler
  <2>1. VarsOK'
    BY <1>8, SignalFacts DEF RollbackHandler, PutBackOne, Ours, First, StateType,
       Kinds, TypeOK, VarsOK, kernel, flags
  <2>2. PcOK' /\ StackOK'
    BY <1>8, MainMoves, NothingMoves DEF RollbackHandler, PutBackOne, Ours, First,
       StateType, Kinds, MainLabels, UpdateLabels, Restoring, AppLabels,
       RetLabels, MainGoto
  <2> QED
    BY <2>1, <2>2 DEF TypeOK
<1>9. CASE RolledBack
  <2>1. VarsOK'
    BY <1>9 DEF RolledBack, ThrowInTry, RetLabels, TypeOK, VarsOK, kernel, flags
  <2>2. PcOK' /\ StackOK'
    BY <1>9, MainMoves, NothingMoves DEF RolledBack, ThrowInTry, RetLabels,
       MainLabels, UpdateLabels, Restoring, AppLabels, RetLabels, MainGoto
  <2> QED
    BY <2>1, <2>2 DEF TypeOK
<1>10. CASE WriteStartup("c_write", "c_done", ThrowInTry)
  <2>1. VarsOK'
    <3>1. tty' \in TtyType
      BY <1>10 DEF WriteStartup, TtyType, TypeOK, VarsOK
    <3>2. local' \in [ret : RetLabels, check : BOOLEAN, size : Sizes]
      BY <1>10 DEF WriteStartup, ThrowInTry, RetLabels, TypeOK, VarsOK
    <3>3. console' \in [frame : Sizes \cup {NoFrame}, first : BOOLEAN, shown : BOOLEAN]
      BY <1>10 DEF WriteStartup, TypeOK, VarsOK
    <3>4. torn' \subseteq Parts
      BY <1>10 DEF WriteStartup, Tear, Parts, TypeOK, VarsOK
    <3> QED
      BY <1>10, <3>1, <3>2, <3>3, <3>4 DEF WriteStartup, TypeOK, VarsOK, kernel, flags
  <2>2. PcOK' /\ StackOK'
    BY <1>10, MainMoves, NothingMoves DEF WriteStartup, ThrowInTry, Tear, TtyType,
       RetLabels, AppLabels, MainLabels, UpdateLabels, Restoring, AppLabels,
       RetLabels, MainGoto
  <2> QED
    BY <2>1, <2>2 DEF TypeOK
<1>11. CASE WrittenStartup
  <2>1. VarsOK'
    BY <1>11 DEF WrittenStartup, StateType, TypeOK, VarsOK, kernel, flags
  <2>2. PcOK' /\ StackOK'
    BY <1>11, MainMoves, NothingMoves DEF WrittenStartup, StateType, MainLabels,
       UpdateLabels, Restoring, AppLabels, RetLabels, MainGoto
  <2> QED
    BY <2>1, <2>2 DEF TypeOK
<1>12. CASE QuerySize("c_size", "c_ack", Throw)
  <2>1. VarsOK'
    BY <1>12 DEF QuerySize, Throw, TypeOK, VarsOK, kernel, flags
  <2>2. PcOK' /\ StackOK'
    BY <1>12, MainMoves, NothingMoves DEF QuerySize, Throw, MainLabels,
       UpdateLabels, Restoring, AppLabels, RetLabels, MainGoto
  <2> QED
    BY <2>1, <2>2 DEF TypeOK
<1>13. CASE FinishConstruction
  <2>1. VarsOK'
    <3> DEFINE fresh == [frame |-> local.size, first |-> TRUE, shown |-> FALSE]
    <3>1. console' \in {console, fresh} /\ local' \in {local}
      BY <1>13 DEF FinishConstruction, Throw
    <3>2. fresh \in [frame : Sizes \cup {NoFrame}, first : BOOLEAN, shown : BOOLEAN]
      BY DEF TypeOK, VarsOK
    <3>3. resizeRequested' = FALSE
      BY <1>13 DEF FinishConstruction, AcknowledgeResize
    <3> HIDE DEF fresh
    <3> QED
      BY <1>13, <3>1, <3>2, <3>3 DEF FinishConstruction, AcknowledgeResize,
         TypeOK, VarsOK, kernel, flags
  <2>2. PcOK' /\ StackOK'
    BY <1>13, MainMoves, NothingMoves DEF FinishConstruction, AcknowledgeResize,
       Throw, MainLabels, UpdateLabels, Restoring, AppLabels, RetLabels, MainGoto
  <2> QED
    BY <2>1, <2>2 DEF TypeOK
<1> QED
  BY <1>1, <1>2, <1>3, <1>4, <1>5, <1>6, <1>7, <1>8, <1>9, <1>10, <1>11, <1>12,
     <1>13 DEF Construct, PlatformInitialize

\* The frame loop, and the calls the application makes around it.
LEMMA TypeApplication ==
  ASSUME TypeOK, Frame \/ TerminalSize \/ AppCatch \/ Destroy
  PROVE  TypeOK'
<1>1. CASE UpdateCheck
  <2>1. VarsOK'
    <3>1. ResizeDue \in BOOLEAN
      BY DEF ResizeDue
    <3>2. PICK due \in BOOLEAN : local' = [local EXCEPT !.check = due]
      BY <1>1, <3>1, Zenon DEF UpdateCheck
    <3> QED
      BY <1>1, <3>2 DEF UpdateCheck, TypeOK, VarsOK, kernel, flags
  <2>2. PcOK' /\ StackOK'
    BY <1>1, MainMoves, NothingMoves DEF UpdateCheck, ResizeDue, StateType,
       MainLabels, UpdateLabels, Restoring, AppLabels, RetLabels, MainGoto
  <2> QED
    BY <2>1, <2>2 DEF TypeOK
<1>2. CASE UpdateResume
  <2>1. VarsOK'
    BY <1>2 DEF UpdateResume, TypeOK, VarsOK, kernel, flags
  <2>2. PcOK' /\ StackOK'
    BY <1>2, MainMoves, NothingMoves DEF UpdateResume, MainLabels, UpdateLabels,
       Restoring, AppLabels, RetLabels, MainGoto
  <2> QED
    BY <2>1, <2>2 DEF TypeOK
<1>3. CASE SetRaw("u_raw", "u_nonblock", AppThrow)
  <2>1. VarsOK'
    BY <1>3 DEF SetRaw, AppThrow, Tear, Parts, TtyType, TypeOK, VarsOK,
       kernel, flags
  <2>2. PcOK' /\ StackOK'
    BY <1>3, MainMoves, NothingMoves DEF SetRaw, AppThrow, Tear, TtyType,
       MainLabels, UpdateLabels, Restoring, AppLabels, RetLabels, MainGoto
  <2> QED
    BY <2>1, <2>2 DEF TypeOK
<1>4. CASE SetNonBlocking("u_nonblock", "u_write", AppThrow)
  <2>1. VarsOK'
    BY <1>4 DEF SetNonBlocking, AppThrow, Tear, Parts, TtyType, TypeOK, VarsOK,
       kernel, flags
  <2>2. PcOK' /\ StackOK'
    BY <1>4, MainMoves, NothingMoves DEF SetNonBlocking, AppThrow, Tear, TtyType,
       MainLabels, UpdateLabels, Restoring, AppLabels, RetLabels, MainGoto
  <2> QED
    BY <2>1, <2>2 DEF TypeOK
<1>5. CASE WriteStartup("u_write", "u_clear", AppThrow)
  <2>1. VarsOK'
    BY <1>5 DEF WriteStartup, AppThrow, Tear, Parts, TtyType, TypeOK, VarsOK,
       kernel, flags
  <2>2. PcOK' /\ StackOK'
    BY <1>5, MainMoves, NothingMoves DEF WriteStartup, AppThrow, Tear, TtyType,
       MainLabels, UpdateLabels, Restoring, AppLabels, RetLabels, MainGoto
  <2> QED
    BY <2>1, <2>2 DEF TypeOK
<1>6. CASE UpdateResumed
  <2>1. VarsOK'
    BY <1>6 DEF UpdateResumed, Invalidated, StateType, TypeOK, VarsOK, kernel, flags
  <2>2. PcOK' /\ StackOK'
    BY <1>6, MainMoves, NothingMoves DEF UpdateResumed, Invalidated, StateType,
       MainLabels, UpdateLabels, Restoring, AppLabels, RetLabels, MainGoto
  <2> QED
    BY <2>1, <2>2 DEF TypeOK
<1>7. CASE QuerySize("u_size", "u_ack", AppThrow)
  <2>1. VarsOK'
    BY <1>7 DEF QuerySize, AppThrow, TypeOK, VarsOK, kernel, flags
  <2>2. PcOK' /\ StackOK'
    BY <1>7, MainMoves, NothingMoves DEF QuerySize, AppThrow, MainLabels,
       UpdateLabels, Restoring, AppLabels, RetLabels, MainGoto
  <2> QED
    BY <2>1, <2>2 DEF TypeOK
<1>8. CASE ResizeToTerminal
  <2>1. VarsOK'
    BY <1>8 DEF ResizeToTerminal, AcknowledgeResize, AppThrow, TypeOK, VarsOK,
       kernel, flags
  <2>2. PcOK' /\ StackOK'
    BY <1>8, MainMoves, NothingMoves DEF ResizeToTerminal, AcknowledgeResize,
       AppThrow, MainLabels, UpdateLabels, Restoring, AppLabels, RetLabels,
       MainGoto
  <2> QED
    BY <2>1, <2>2 DEF TypeOK
<1>9. CASE ReadInput
  <2>1. VarsOK'
    BY <1>9 DEF ReadInput, AppThrow, TypeOK, VarsOK, kernel, flags
  <2>2. PcOK' /\ StackOK'
    BY <1>9, MainMoves, NothingMoves DEF ReadInput, AppThrow, MainLabels,
       UpdateLabels, Restoring, AppLabels, RetLabels, MainGoto
  <2> QED
    BY <2>1, <2>2 DEF TypeOK
<1>10. CASE EndFrame
  <2>1. VarsOK'
    BY <1>10 DEF EndFrame, AppThrow, TypeOK, VarsOK, kernel, flags
  <2>2. PcOK' /\ StackOK'
    BY <1>10, MainMoves, NothingMoves DEF EndFrame, AppThrow, MainLabels,
       UpdateLabels, Restoring, AppLabels, RetLabels, MainGoto
  <2> QED
    BY <2>1, <2>2 DEF TypeOK
<1>11. CASE CallTerminalSize
  <2>1. VarsOK'
    BY <1>11 DEF CallTerminalSize, RetLabels, AppLabels, TypeOK, VarsOK, kernel,
       flags
  <2>2. PcOK' /\ StackOK'
    BY <1>11, MainMoves, NothingMoves DEF CallTerminalSize, RetLabels, AppLabels,
       MainLabels, UpdateLabels, Restoring, AppLabels, RetLabels, MainGoto
  <2> QED
    BY <2>1, <2>2 DEF TypeOK
<1>12. CASE QuerySize("t_size", "t_ack", AppThrow)
  <2>1. VarsOK'
    BY <1>12 DEF QuerySize, AppThrow, TypeOK, VarsOK, kernel, flags
  <2>2. PcOK' /\ StackOK'
    BY <1>12, MainMoves, NothingMoves DEF QuerySize, AppThrow, MainLabels,
       UpdateLabels, Restoring, AppLabels, RetLabels, MainGoto
  <2> QED
    BY <2>1, <2>2 DEF TypeOK
<1>13. CASE TerminalSizeReturns
  <2>1. VarsOK'
    BY <1>13 DEF TerminalSizeReturns, AcknowledgeResize, TypeOK, VarsOK, kernel,
       flags
  <2>2. PcOK' /\ StackOK'
    BY <1>13, MainMoves, NothingMoves DEF TerminalSizeReturns, AcknowledgeResize,
       TypeOK, VarsOK, MainLabels, UpdateLabels, Restoring, AppLabels, RetLabels,
       MainGoto
  <2> QED
    BY <2>1, <2>2 DEF TypeOK
<1>14. CASE AppCatch
  <2>1. VarsOK'
    BY <1>14 DEF AppCatch, TypeOK, VarsOK, kernel, flags
  <2>2. PcOK' /\ StackOK'
    BY <1>14, MainMoves, NothingMoves DEF AppCatch, MainLabels, UpdateLabels,
       Restoring, AppLabels, RetLabels, MainGoto
  <2> QED
    BY <2>1, <2>2 DEF TypeOK
<1>15. CASE Destroy
  <2>1. VarsOK'
    BY <1>15 DEF Destroy, TypeOK, VarsOK, kernel, flags
  <2>2. PcOK' /\ StackOK'
    BY <1>15, MainMoves, NothingMoves DEF Destroy, MainLabels, UpdateLabels,
       Restoring, AppLabels, RetLabels, MainGoto
  <2> QED
    BY <2>1, <2>2 DEF TypeOK
<1> QED
  BY <1>1, <1>2, <1>3, <1>4, <1>5, <1>6, <1>7, <1>8, <1>9, <1>10, <1>11, <1>12,
     <1>13, <1>14, <1>15 DEF Frame, Update, TerminalSize

\* emergencyRestore() moves on inside the frame that called it.
LEMMA RestoreMoves ==
  ASSUME TypeOK, NEW c \in Frames, pc[c] # "off", UNCHANGED stack,
         NEW label \in {"er_mark", AfterRestore(c)} \cup Restoring, Goto(c, label)
  PROVE  PcOK' /\ StackOK'
<1>1. CASE c = "main"
  <2>1. label \in MainLabels
    BY <1>1 DEF AfterRestore, TypeOK, VarsOK, RetLabels, AppLabels, MainLabels
  <2> QED
    BY <1>1, <2>1, MainMoves
<1>2. CASE c \in Signals
  <2>1. label \in HandlerLabels \ {"off"}
    BY <1>2, SignalFacts DEF AfterRestore, HandlerLabels, Restoring
  <2> QED
    BY <1>2, <2>1, HandlerMoves
<1> QED
  BY <1>1, <1>2 DEF Frames

\* What a restoring call leaves of the terminal has its type.
LEMMA PutBackType ==
  ASSUME TypeOK, NEW label, NEW part \in Parts, PutBack(label, part)
  PROVE  tty' \in TtyType /\ torn' \subseteq Parts
<1>1. tty \in TtyType /\ torn \subseteq Parts
  BY DEF TypeOK, VarsOK
<1>2. CASE UNCHANGED tty /\ torn' = torn \cup {part}
  BY <1>1, <1>2
<1>3. CASE tty' = [tty EXCEPT ![part] = OriginalTty[part]] /\ torn' = torn \ {part}
  <2>1. CASE part = "raw"
    BY <1>1, <1>3, <2>1 DEF Parts, OriginalTty, TtyType
  <2>2. CASE part = "nonblock"
    BY <1>1, <1>3, <2>2 DEF Parts, OriginalTty, TtyType
  <2>3. CASE part = "modes"
    BY <1>1, <1>3, <2>3 DEF Parts, OriginalTty, TtyType
  <2> QED
    BY <2>1, <2>2, <2>3 DEF Parts
<1> QED
  BY <1>2, <1>3 DEF PutBack

\* emergencyRestore(), in whichever frame.
LEMMA TypeRestore ==
  ASSUME TypeOK, NEW c \in Frames, EmergencyRestore(c)
  PROVE  TypeOK'
<1>1. CASE RestoreCheck(c)
  <2>1. VarsOK'
    BY <1>1 DEF RestoreCheck, TypeOK, VarsOK, kernel, flags
  <2>2. PcOK' /\ StackOK'
    BY <1>1, RestoreMoves DEF RestoreCheck, At, Restoring
  <2> QED
    BY <2>1, <2>2 DEF TypeOK
<1>2. CASE RestoreMark(c)
  <2>1. VarsOK'
    BY <1>2 DEF RestoreMark, TypeOK, VarsOK, kernel, flags
  <2>2. PcOK' /\ StackOK'
    BY <1>2, RestoreMoves DEF RestoreMark, At, Restoring
  <2> QED
    BY <2>1, <2>2 DEF TypeOK
<1>3. CASE RestoreWrite(c)
  <2>1. tty' \in TtyType /\ torn' \subseteq Parts
    <3>1. CASE PutBack("er_write", "modes")
      BY <3>1, PutBackType DEF Parts
    <3>2. CASE tty' = [tty EXCEPT !.modes = "partial"] /\ torn' = torn \cup {"modes"}
      BY <3>2 DEF TtyType, Parts, TypeOK, VarsOK
    <3> QED
      BY <1>3, <3>1, <3>2 DEF RestoreWrite
  <2>2. VarsOK'
    BY <1>3, <2>1 DEF RestoreWrite, TypeOK, VarsOK, kernel, flags
  <2>3. PcOK' /\ StackOK'
    BY <1>3, RestoreMoves DEF RestoreWrite, At, Restoring
  <2> QED
    BY <2>2, <2>3 DEF TypeOK
<1>4. CASE RestoreAttributes(c)
  <2>1. tty' \in TtyType /\ torn' \subseteq Parts
    BY <1>4, PutBackType DEF RestoreAttributes, Parts, TypeOK, VarsOK
  <2>2. VarsOK'
    BY <1>4, <2>1 DEF RestoreAttributes, TypeOK, VarsOK, kernel, flags
  <2>3. PcOK' /\ StackOK'
    BY <1>4, RestoreMoves DEF RestoreAttributes, At, Restoring
  <2> QED
    BY <2>2, <2>3 DEF TypeOK
<1>5. CASE RestoreFlags(c)
  <2>1. tty' \in TtyType /\ torn' \subseteq Parts
    BY <1>5, PutBackType DEF RestoreFlags, Parts, TypeOK, VarsOK
  <2>2. VarsOK'
    BY <1>5, <2>1 DEF RestoreFlags, TypeOK, VarsOK, kernel, flags
  <2>3. PcOK' /\ StackOK'
    BY <1>5, RestoreMoves DEF RestoreFlags, At
  <2> QED
    BY <2>2, <2>3 DEF TypeOK
<1> QED
  BY <1>1, <1>2, <1>3, <1>4, <1>5 DEF EmergencyRestore

\* The destructor and the paths of a failed constructor.
LEMMA TypeShutdown ==
  ASSUME TypeOK, Shutdown
  PROVE  TypeOK'
<1>1. CASE PlatformShutdown
  <2>1. VarsOK'
    BY <1>1 DEF PlatformShutdown, ClosedConsole, TypeOK, VarsOK, kernel, flags
  <2>2. PcOK' /\ StackOK'
    BY <1>1, MainMoves, NothingMoves DEF PlatformShutdown, ClosedConsole,
       MainLabels, UpdateLabels, Restoring, AppLabels, RetLabels, MainGoto
  <2> QED
    BY <2>1, <2>2 DEF TypeOK
<1>2. CASE \E label \in {"f_remove", "d_remove"} : RemoveHandler(label)
  <2>1. VarsOK'
    BY <1>2, SignalFacts DEF RemoveHandler, PutBackOne, Ours, First, StateType,
       Kinds, TypeOK, VarsOK, kernel, flags
  <2>2. PcOK' /\ StackOK'
    BY <1>2, MainMoves, NothingMoves DEF RemoveHandler, PutBackOne, Ours, First,
       StateType, Kinds, MainLabels, UpdateLabels, Restoring, AppLabels,
       RetLabels, MainGoto
  <2> QED
    BY <2>1, <2>2 DEF TypeOK
<1>3. CASE \E label \in {"f_remove", "d_remove"} : HandlersRemoved(label)
  <2>1. VarsOK'
    <3>1. local' \in [ret : RetLabels, check : BOOLEAN, size : Sizes]
      BY <1>3 DEF HandlersRemoved, Throw, RetLabels, TypeOK, VarsOK
    <3>2. state' \in StateType
      BY <1>3 DEF HandlersRemoved, StateType, TypeOK, VarsOK
    <3> QED
      BY <1>3, <3>1, <3>2 DEF HandlersRemoved, TypeOK, VarsOK, kernel, flags
  <2>2. PcOK' /\ StackOK'
    BY <1>3, MainMoves, NothingMoves DEF HandlersRemoved, Throw, StateType,
       RetLabels, MainLabels, UpdateLabels, Restoring, AppLabels, RetLabels,
       MainGoto
  <2> QED
    BY <2>1, <2>2 DEF TypeOK
<1>4. CASE EmergencyRestore("main")
  BY <1>4, TypeRestore, SignalFacts
<1>5. CASE ResetState
  <2>1. VarsOK'
    BY <1>5 DEF ResetState, FreshState, StateType, OldKinds, TypeOK, VarsOK,
       kernel, flags
  <2>2. PcOK' /\ StackOK'
    BY <1>5, MainMoves, NothingMoves DEF ResetState, FreshState, StateType,
       OldKinds, MainLabels, UpdateLabels, Restoring, AppLabels, RetLabels,
       MainGoto
  <2> QED
    BY <2>1, <2>2 DEF TypeOK
<1> QED
  BY <1>1, <1>2, <1>3, <1>4, <1>5 DEF Shutdown

\* signalHandler(), after emergencyRestore().
LEMMA TypeHandler ==
  ASSUME TypeOK, NEW s \in Signals, Handler(s)
  PROVE  TypeOK'
<1>1. CASE EmergencyRestore(s)
  BY <1>1, TypeRestore, SignalFacts
<1>2. CASE HandleResize(s)
  <2>1. VarsOK'
    BY <1>2 DEF HandleResize, TypeOK, VarsOK, kernel, flags
  <2>2. PcOK' /\ StackOK'
    BY <1>2, HandlerMoves, HandlerOnTop DEF HandleResize, AfterDispatch,
       HandlerLabels
  <2> QED
    BY <2>1, <2>2 DEF TypeOK
<1>3. CASE HandleContinue(s)
  <2>1. VarsOK'
    BY <1>3 DEF HandleContinue, TypeOK, VarsOK, kernel, flags
  <2>2. PcOK' /\ StackOK'
    BY <1>3, HandlerMoves, HandlerOnTop DEF HandleContinue, AfterDispatch,
       HandlerLabels
  <2> QED
    BY <2>1, <2>2 DEF TypeOK
<1>4. CASE HandleAction(s)
  <2>1. VarsOK'
    BY <1>4 DEF HandleAction, TypeOK, VarsOK, kernel, flags
  <2>2. PcOK' /\ StackOK'
    BY <1>4, HandlerMoves, HandlerOnTop DEF HandleAction, AfterDispatch,
       HandlerLabels
  <2> QED
    BY <2>1, <2>2 DEF TypeOK
<1>5. CASE DispatchPrevious(s)
  <2>1. VarsOK'
    BY <1>5 DEF DispatchPrevious, TakeAction, StateType, Kinds, OldKinds,
       AfterDispatch, TypeOK, VarsOK, kernel, flags
  <2>2. PcOK' /\ StackOK'
    BY <1>5, HandlerMoves, HandlerOnTop DEF DispatchPrevious, AfterDispatch,
       HandlerLabels
  <2> QED
    BY <2>1, <2>2 DEF TypeOK
<1>6. CASE ReinstallCurrentHandler(s)
  <2>1. VarsOK'
    BY <1>6 DEF ReinstallCurrentHandler, Kinds, AfterDispatch, TypeOK, VarsOK,
       kernel, flags
  <2>2. PcOK' /\ StackOK'
    BY <1>6, HandlerMoves, HandlerOnTop DEF ReinstallCurrentHandler,
       AfterDispatch, HandlerLabels
  <2> QED
    BY <2>1, <2>2 DEF TypeOK
<1>7. CASE HandleFlags(s)
  <2>1. VarsOK'
    BY <1>7 DEF HandleFlags, TypeOK, VarsOK, kernel, flags
  <2>2. PcOK' /\ StackOK'
    BY <1>7, HandlerMoves, HandlerOnTop DEF HandleFlags, AfterDispatch,
       HandlerLabels
  <2> QED
    BY <2>1, <2>2 DEF TypeOK
<1>8. CASE HandlerReturn(s)
  <2>1. VarsOK'
    BY <1>8 DEF HandlerReturn, TypeOK, VarsOK, kernel, flags
  <2>2. PcOK'
    BY <1>8, SignalFacts DEF HandlerReturn, Goto, TypeOK, PcOK, HandlerLabels,
       Frames
  <2>3. stack # <<>> /\ stack[Len(stack)] = s
    BY <1>8, HandlerOnTop DEF HandlerReturn
  <2>4. /\ stack' \in Seq(Signals)
        /\ Len(stack') = Len(stack) - 1
        /\ \A i \in 1 .. Len(stack) - 1 : stack'[i] = stack[i]
    <3>1. stack \in Seq(Signals) /\ stack' = SubSeq(stack, 1, Len(stack) - 1)
      BY <1>8 DEF HandlerReturn, TypeOK, StackOK
    <3>2. Len(stack) \in Nat \ {0}
      BY <2>3, <3>1
    <3>3. Len(stack) - 1 \in Nat /\ Len(stack) = (Len(stack) - 1) + 1
      BY <3>2
    <3> QED
      BY <3>1, <3>3, Popped
  <2>5. \A i, j \in DOMAIN stack' : stack'[i] = stack'[j] => i = j
    BY <2>4 DEF TypeOK, StackOK
  <2>6. \A i \in DOMAIN stack' : stack'[i] # s
    BY <2>3, <2>4 DEF TypeOK, StackOK
  <2>7. ASSUME NEW z \in Signals
        PROVE  pc'[z] # "off" <=> \E i \in DOMAIN stack' : stack'[i] = z
    <3>1. CASE z = s
      BY <1>8, <2>6, <3>1, SignalFacts DEF HandlerReturn, Goto, TypeOK, PcOK, Frames
    <3>2. CASE z # s
      <4>1. pc'[z] = pc[z]
        BY <1>8, <3>2, SignalFacts DEF HandlerReturn, Goto, TypeOK, PcOK, Frames
      <4>2. (\E i \in DOMAIN stack' : stack'[i] = z) <=> \E i \in DOMAIN stack : stack[i] = z
        BY <2>3, <2>4, <3>2 DEF TypeOK, StackOK
      <4> QED
        BY <4>1, <4>2 DEF TypeOK, StackOK
    <3> QED
      BY <3>1, <3>2
  <2> QED
    BY <2>1, <2>2, <2>4, <2>5, <2>7 DEF TypeOK, StackOK
<1> QED
  BY <1>1, <1>2, <1>3, <1>4, <1>5, <1>6, <1>7, <1>8 DEF Handler

\* The kernel, the user and other processes.
LEMMA TypeEnvironment ==
  ASSUME TypeOK, Environment
  PROVE  TypeOK'
<1>1. ASSUME NEW s \in Signals, Raise(s) PROVE TypeOK'
  <2>1. VarsOK'
    BY <1>1 DEF Raise, TypeOK, VarsOK, kernel, flags
  <2> QED
    BY <1>1, <2>1, NothingMoves DEF Raise, TypeOK
<1>2. ASSUME NEW s \in Signals, DeliverOurs(s) PROVE TypeOK'
  <2>1. VarsOK'
    BY <1>2 DEF DeliverOurs, TypeOK, VarsOK, kernel, flags
  <2>2. HandlerEntry(s) \in HandlerLabels \ {"off"}
    BY DEF HandlerEntry, HandlerLabels
  <2>3. PcOK'
    BY <1>2, <2>2, SignalFacts DEF DeliverOurs, Goto, TypeOK, PcOK, Frames
  <2>4. /\ stack' \in Seq(Signals)
        /\ Len(stack') = Len(stack) + 1
        /\ \A i \in 1 .. Len(stack) : stack'[i] = stack[i]
        /\ stack'[Len(stack) + 1] = s
    BY <1>2 DEF DeliverOurs, TypeOK, StackOK
  <2>5. \A i \in DOMAIN stack : stack[i] # s
    BY <1>2 DEF DeliverOurs, Deliverable, TypeOK, StackOK
  <2>6. \A i, j \in DOMAIN stack' : stack'[i] = stack'[j] => i = j
    BY <2>4, <2>5 DEF TypeOK, StackOK
  <2>7. \A z \in Signals : pc'[z] # "off" <=> \E i \in DOMAIN stack' : stack'[i] = z
    BY <1>2, <2>2, <2>4, SignalFacts
    DEF DeliverOurs, Goto, TypeOK, PcOK, StackOK, Frames
  <2> QED
    BY <2>1, <2>3, <2>4, <2>6, <2>7 DEF TypeOK, StackOK
<1>3. ASSUME NEW s \in Signals, DeliverOther(s) PROVE TypeOK'
  <2>1. VarsOK'
    BY <1>3 DEF DeliverOther, TakeAction, TypeOK, VarsOK, kernel, flags
  <2> QED
    BY <1>3, <2>1, NothingMoves DEF DeliverOther, TypeOK
<1>4. ASSUME NEW size \in Sizes, Resize(size) PROVE TypeOK'
  <2>1. "SIGWINCH" \in Signals
    BY SignalAssumption DEF Harmless
  <2>2. VarsOK'
    BY <1>4, <2>1 DEF Resize, TypeOK, VarsOK, kernel, flags
  <2> QED
    BY <1>4, <2>2, NothingMoves DEF Resize, TypeOK
<1>5. CASE WaitEnds
  <2>1. VarsOK'
    BY <1>5 DEF WaitEnds, AppThrow, TypeOK, VarsOK, kernel, flags
  <2> QED
    BY <1>5, <2>1, MainMoves DEF WaitEnds, AppThrow, MainGoto, MainLabels, TypeOK
<1> QED
  BY <1>1, <1>2, <1>3, <1>4, <1>5 DEF Environment

\* Every variable has its type before the first session,
LEMMA TypeInit == Init => TypeOK
<1> SUFFICES ASSUME Init PROVE TypeOK
  OBVIOUS
<1>1. VarsOK
  <2>1. disposition \in [Signals -> Kinds]
    BY SignalAssumption DEF Init, Kinds
  <2>2. state \in StateType /\ tty \in TtyType
    BY DEF Init, FreshState, StateType, OldKinds, OriginalTty, TtyType
  <2> QED
    BY <2>1, <2>2, ConstantAssumption
    DEF Init, VarsOK, ClosedConsole, RetLabels
<1>2. PcOK /\ StackOK
  BY SignalFacts DEF Init, PcOK, StackOK, Frames, MainLabels, HandlerLabels
<1> QED
  BY <1>1, <1>2 DEF TypeOK

\* and after every step.
LEMMA TypeStep == TypeOK /\ [Next]_vars => TypeOK'
<1> SUFFICES ASSUME TypeOK, [Next]_vars PROVE TypeOK'
  OBVIOUS
<1>1. CASE Main
  BY <1>1, TypeConstruct, TypeApplication, TypeShutdown DEF Main
<1>2. CASE Environment
  BY <1>2, TypeEnvironment
<1>3. CASE \E s \in Signals : Handler(s)
  BY <1>3, TypeHandler
<1>4. CASE UNCHANGED vars
  BY <1>4, NothingMoves DEF vars, kernel, flags, TypeOK, VarsOK
<1> QED
  BY <1>1, <1>2, <1>3, <1>4 DEF Next

\* Every variable always has its type, and the program counters of the
\* handler frames always agree with the stack (signalHandler() and sa_mask).
THEOREM TypeCorrect == Spec => []TypeOK
BY TypeInit, TypeStep, PTL DEF Spec
-----------------------------------------------------------------------------
(* HandlersPutBack: the application's signal actions are in custody while  *)
(* a session runs, and are put back whatever fails.                        *)

\* ReturnsOK in the constructor and platformInitialize().
LEMMA ReturnsConstruct ==
  ASSUME TypeOK, ReturnsOK, Construct
  PROVE  ReturnsOK'
<1> USE DEF ReturnsOK, MainRestoring, Restoring, AppLabels, MainGoto, Goto,
    TypeOK, PcOK, VarsOK, Frames
<1>1. CASE StartSession
  BY <1>1, MainAlone DEF StartSession
<1>2. CASE NotATerminal
  BY <1>2, MainAlone DEF NotATerminal, Throw
<1>3. CASE SaveOriginals
  BY <1>3, MainAlone DEF SaveOriginals, FreshState
<1>4. CASE SetRaw("c_raw", "c_nonblock", ThrowInTry)
  BY <1>4, MainAlone DEF SetRaw, ThrowInTry
<1>5. CASE SetNonBlocking("c_nonblock", IF InstallHandlers THEN "c_install" ELSE "c_write",
                       ThrowInTry)
  BY <1>5, MainAlone DEF SetNonBlocking, ThrowInTry
<1>6. CASE InstallHandler
  BY <1>6, MainAlone DEF InstallHandler, NotOurs, Ours, First
<1>7. CASE InstalledAll
  BY <1>7, MainAlone DEF InstalledAll, NotOurs, Ours
<1>8. CASE RollbackHandler
  BY <1>8, MainAlone DEF RollbackHandler, PutBackOne, Ours, First
<1>9. CASE RolledBack
  BY <1>9, MainAlone DEF RolledBack, ThrowInTry, Ours
<1>10. CASE WriteStartup("c_write", "c_done", ThrowInTry)
  BY <1>10, MainAlone DEF WriteStartup, ThrowInTry
<1>11. CASE WrittenStartup
  BY <1>11, MainAlone DEF WrittenStartup
<1>12. CASE QuerySize("c_size", "c_ack", Throw)
  BY <1>12, MainAlone DEF QuerySize, Throw
<1>13. CASE FinishConstruction
  BY <1>13, MainAlone DEF FinishConstruction, AcknowledgeResize, Throw
<1> QED
  BY <1>1, <1>2, <1>3, <1>4, <1>5, <1>6, <1>7, <1>8, <1>9, <1>10, <1>11, <1>12,
     <1>13 DEF Construct, PlatformInitialize

\* ReturnsOK in the frame loop, and the calls the application makes around it.
LEMMA ReturnsApplication ==
  ASSUME TypeOK, ReturnsOK, Frame \/ TerminalSize \/ AppCatch \/ Destroy
  PROVE  ReturnsOK'
<1> USE DEF ReturnsOK, MainRestoring, Restoring, AppLabels, MainGoto, Goto,
    TypeOK, PcOK, VarsOK, Frames
<1>1. CASE UpdateCheck
  BY <1>1, MainAlone DEF UpdateCheck
<1>2. CASE UpdateResume
  BY <1>2, MainAlone DEF UpdateResume
<1>3. CASE SetRaw("u_raw", "u_nonblock", AppThrow)
  BY <1>3, MainAlone DEF SetRaw, AppThrow
<1>4. CASE SetNonBlocking("u_nonblock", "u_write", AppThrow)
  BY <1>4, MainAlone DEF SetNonBlocking, AppThrow
<1>5. CASE WriteStartup("u_write", "u_clear", AppThrow)
  BY <1>5, MainAlone DEF WriteStartup, AppThrow
<1>6. CASE UpdateResumed
  BY <1>6, MainAlone DEF UpdateResumed
<1>7. CASE QuerySize("u_size", "u_ack", AppThrow)
  BY <1>7, MainAlone DEF QuerySize, AppThrow
<1>8. CASE ResizeToTerminal
  BY <1>8, MainAlone DEF ResizeToTerminal, AcknowledgeResize, AppThrow
<1>9. CASE ReadInput
  BY <1>9, MainAlone DEF ReadInput, AppThrow
<1>10. CASE EndFrame
  BY <1>10, MainAlone DEF EndFrame, AppThrow
<1>11. CASE CallTerminalSize
  BY <1>11, MainAlone DEF CallTerminalSize
<1>12. CASE QuerySize("t_size", "t_ack", AppThrow)
  BY <1>12, MainAlone DEF QuerySize, AppThrow
<1>13. CASE TerminalSizeReturns
  BY <1>13, MainAlone DEF TerminalSizeReturns, AcknowledgeResize
<1>14. CASE AppCatch
  BY <1>14, MainAlone DEF AppCatch
<1>15. CASE Destroy
  BY <1>15, MainAlone DEF Destroy
<1> QED
  BY <1>1, <1>2, <1>3, <1>4, <1>5, <1>6, <1>7, <1>8, <1>9, <1>10, <1>11, <1>12,
     <1>13, <1>14, <1>15 DEF Frame, Update, TerminalSize

\* ReturnsOK in the destructor and the paths of a failed constructor.
LEMMA ReturnsShutdown ==
  ASSUME TypeOK, ReturnsOK, Shutdown
  PROVE  ReturnsOK'
<1> USE DEF ReturnsOK, MainRestoring, Restoring, AppLabels, MainGoto, Goto,
    TypeOK, PcOK, VarsOK, Frames
<1>1. CASE PlatformShutdown
  BY <1>1, MainAlone DEF PlatformShutdown
<1>2. CASE \E label \in {"f_remove", "d_remove"} : RemoveHandler(label)
  BY <1>2, MainAlone DEF RemoveHandler, PutBackOne, Ours, First
<1>3. CASE \E label \in {"f_remove", "d_remove"} : HandlersRemoved(label)
  BY <1>3, MainAlone DEF HandlersRemoved, Throw, Ours
<1>4. CASE RestoreCheck("main")
  BY <1>4, MainAlone DEF RestoreCheck, AfterRestore, MainAt
<1>5. CASE RestoreMark("main")
  BY <1>5, MainAlone DEF RestoreMark, MainAt
<1>6. CASE RestoreWrite("main")
  BY <1>6, MainAlone DEF RestoreWrite, MainAt
<1>7. CASE RestoreAttributes("main")
  BY <1>7, MainAlone DEF RestoreAttributes, MainAt
<1>8. CASE RestoreFlags("main")
  BY <1>8, MainAlone DEF RestoreFlags, AfterRestore, MainAt
<1>9. CASE ResetState
  BY <1>9, MainAlone DEF ResetState, FreshState
<1> QED
  BY <1>1, <1>2, <1>3, <1>4, <1>5, <1>6, <1>7, <1>8, <1>9 DEF Shutdown,
     EmergencyRestore

\* The application's actions are never ours, and every signal is in the list.
LEMMA Actions ==
  ASSUME TypeOK, NEW s \in Signals
  PROVE  appAction[s] # "ours" /\ \E i \in DOMAIN HandledSignals : HandledSignals[i] = s
<1>1. appAction \in [Signals -> OldKinds]
  BY SignalAssumption DEF TypeOK, VarsOK
<1>2. appAction[s] # "ours"
  BY <1>1 DEF OldKinds
<1> QED
  BY <1>2 DEF Signals

\* Main moves on between installHandlers() and removeHandlers().
LEMMA CustodyMain ==
  ASSUME TypeOK, Custody, NEW from, NEW to \in {"d_enter"} \cup (Live \ Saving),
         from \notin Saving, MainAt(from), MainGoto(to),
         UNCHANGED <<disposition, appAction, state>>
  PROVE  Custody'
BY MainAlone, SignalFacts
DEF Custody, Unhandled, Untouched, Saving, MainRestoring, Restoring, Live,
    UpdateLabels, MainGoto, Goto, TypeOK, PcOK, Frames

\* A new session starts with nothing of ours in place.
LEMMA CustodySave ==
  ASSUME TypeOK, Custody, SaveOriginals
  PROVE  Custody'
<1>1. MainAt("c_query") /\ UNCHANGED <<disposition, appAction, local>>
  BY DEF SaveOriginals, kernel
<1>2. Untouched /\ \A s \in Signals : disposition[s] # "ours"
  BY <1>1, MainAlone, Actions DEF Custody, Unhandled, Untouched
<1>3. /\ pc' = [pc EXCEPT !["main"] = "c_raw"] \/ pc' = [pc EXCEPT !["main"] = "d_enter"]
      /\ ~state'.handlersInstalled
      /\ pc'["main"] = "c_raw" => state'.attributesSaved
  <2>1. CASE /\ state' = [FreshState EXCEPT !.attributesSaved = TRUE, !.flagsSaved = TRUE]
             /\ MainGoto("c_raw")
    BY <2>1 DEF FreshState, MainGoto, Goto
  <2>2. CASE /\ state' \in {FreshState, [FreshState EXCEPT !.attributesSaved = TRUE]}
             /\ MainGoto("d_enter")
    <3>1. ~state'.handlersInstalled
      BY <2>2 DEF FreshState
    <3>2. pc'["main"] # "c_raw"
      BY <2>2, SignalFacts DEF MainGoto, Goto, TypeOK, PcOK
    <3> QED
      BY <2>2, <3>1, <3>2 DEF MainGoto, Goto
  <2> QED
    BY <2>1, <2>2, Zenon DEF SaveOriginals
<1> QED
  BY <1>1, <1>2, <1>3, SignalFacts
  DEF Custody, Unhandled, Untouched, Saving, MainRestoring, Restoring,
      TypeOK, PcOK, Frames

\* Custody in the constructor and platformInitialize().
LEMMA CustodyConstruct ==
  ASSUME TypeOK, ReturnsOK, Custody, Construct
  PROVE  Custody'
<1> USE DEF Custody, Unhandled, Untouched, Saving, ReturnsOK, MainRestoring,
    Restoring, AppLabels, MainGoto, Goto, TypeOK, PcOK, VarsOK, StateType,
    Frames, kernel, flags
<1>1. CASE StartSession
  BY <1>1, MainAlone, SignalFacts, Actions DEF StartSession
<1>2. CASE NotATerminal
  BY <1>2, MainAlone, SignalFacts, Actions DEF NotATerminal, Throw
<1>3. CASE SaveOriginals
  BY <1>3, CustodySave
<1>4. CASE SetRaw("c_raw", "c_nonblock", ThrowInTry)
  BY <1>4, MainAlone, SignalFacts, Actions DEF SetRaw, ThrowInTry
<1>5. CASE SetNonBlocking("c_nonblock", IF InstallHandlers THEN "c_install" ELSE "c_write",
                       ThrowInTry)
  BY <1>5, MainAlone, SignalFacts, Actions DEF SetNonBlocking, ThrowInTry
<1>6. CASE InstallHandler
  BY <1>6, MainAlone, SignalFacts, Actions DEF InstallHandler, NotOurs, Ours,
    First
<1>7. CASE InstalledAll
  BY <1>7, MainAlone, SignalFacts, Actions DEF InstalledAll, NotOurs, Ours
<1>8. CASE RollbackHandler
  BY <1>8, MainAlone, SignalFacts, Actions DEF RollbackHandler, PutBackOne,
    Ours, First
<1>9. CASE RolledBack
  BY <1>9, MainAlone, SignalFacts, Actions DEF RolledBack, ThrowInTry, Ours
<1>10. CASE WriteStartup("c_write", "c_done", ThrowInTry)
  BY <1>10, MainAlone, SignalFacts, Actions DEF WriteStartup, ThrowInTry
<1>11. CASE WrittenStartup
  BY <1>11, MainAlone, SignalFacts, Actions DEF WrittenStartup
<1>12. CASE QuerySize("c_size", "c_ack", Throw)
  BY <1>12, MainAlone, SignalFacts, Actions DEF QuerySize, Throw
<1>13. CASE FinishConstruction
  <2>1. MainAt("c_ack") /\ UNCHANGED <<disposition, appAction, state>>
    BY <1>13 DEF FinishConstruction, kernel
  <2>2. MainGoto("loop") \/ MainGoto("d_enter")
    BY <1>13 DEF FinishConstruction, Throw
  <2> QED
    BY <2>1, <2>2, CustodyMain DEF Live, Saving
<1> QED
  BY <1>1, <1>2, <1>3, <1>4, <1>5, <1>6, <1>7, <1>8, <1>9, <1>10, <1>11, <1>12,
     <1>13 DEF Construct, PlatformInitialize

\* Custody in the frame loop, and the calls the application makes around it.
LEMMA CustodyApplication ==
  ASSUME TypeOK, ReturnsOK, Custody, Frame \/ TerminalSize \/ AppCatch \/ Destroy
  PROVE  Custody'
<1> USE DEF Custody, Unhandled, Untouched, Saving, ReturnsOK, MainRestoring,
    Restoring, AppLabels, MainGoto, Goto, TypeOK, PcOK, VarsOK, StateType,
    Frames, kernel, flags
<1>1. CASE UpdateCheck
  BY <1>1, MainAlone, SignalFacts, Actions DEF UpdateCheck
<1>2. CASE UpdateResume
  BY <1>2, MainAlone, SignalFacts, Actions DEF UpdateResume
<1>3. CASE SetRaw("u_raw", "u_nonblock", AppThrow)
  BY <1>3, MainAlone, SignalFacts, Actions DEF SetRaw, AppThrow
<1>4. CASE SetNonBlocking("u_nonblock", "u_write", AppThrow)
  BY <1>4, MainAlone, SignalFacts, Actions DEF SetNonBlocking, AppThrow
<1>5. CASE WriteStartup("u_write", "u_clear", AppThrow)
  BY <1>5, MainAlone, SignalFacts, Actions DEF WriteStartup, AppThrow
<1>6. CASE UpdateResumed
  BY <1>6, MainAlone, SignalFacts, Actions DEF UpdateResumed
<1>7. CASE QuerySize("u_size", "u_ack", AppThrow)
  BY <1>7, MainAlone, SignalFacts, Actions DEF QuerySize, AppThrow
<1>8. CASE ResizeToTerminal
  BY <1>8, MainAlone, SignalFacts, Actions DEF ResizeToTerminal,
    AcknowledgeResize, AppThrow
<1>9. CASE ReadInput
  <2>1. MainAt("updated") /\ UNCHANGED <<disposition, appAction, state>>
    BY <1>9 DEF ReadInput, kernel
  <2>2. MainGoto("blocked") \/ MainGoto("polled") \/ MainGoto("thrown")
    BY <1>9, Zenon DEF ReadInput, AppThrow
  <2> QED
    BY <2>1, <2>2, CustodyMain DEF Live, Saving
<1>10. CASE EndFrame
  BY <1>10, MainAlone, SignalFacts, Actions DEF EndFrame, AppThrow
<1>11. CASE CallTerminalSize
  BY <1>11, MainAlone, SignalFacts, Actions DEF CallTerminalSize
<1>12. CASE QuerySize("t_size", "t_ack", AppThrow)
  BY <1>12, MainAlone, SignalFacts, Actions DEF QuerySize, AppThrow
<1>13. CASE TerminalSizeReturns
  BY <1>13, MainAlone, SignalFacts, Actions DEF TerminalSizeReturns,
    AcknowledgeResize
<1>14. CASE AppCatch
  BY <1>14, MainAlone, SignalFacts, Actions DEF AppCatch
<1>15. CASE Destroy
  BY <1>15, MainAlone, SignalFacts, Actions DEF Destroy
<1> QED
  BY <1>1, <1>2, <1>3, <1>4, <1>5, <1>6, <1>7, <1>8, <1>9, <1>10, <1>11, <1>12,
     <1>13, <1>14, <1>15 DEF Frame, Update, TerminalSize

\* Custody in the destructor and the paths of a failed constructor.
LEMMA CustodyShutdown ==
  ASSUME TypeOK, ReturnsOK, Custody, Shutdown
  PROVE  Custody'
<1> USE DEF Custody, Unhandled, Untouched, Saving, ReturnsOK, MainRestoring,
    Restoring, AppLabels, MainGoto, Goto, TypeOK, PcOK, VarsOK, StateType,
    Frames, kernel, flags
<1>1. CASE PlatformShutdown
  BY <1>1, MainAlone, SignalFacts, Actions DEF PlatformShutdown
<1>2. CASE \E label \in {"f_remove", "d_remove"} : RemoveHandler(label)
  BY <1>2, MainAlone, SignalFacts, Actions DEF RemoveHandler, PutBackOne, Ours,
    First
<1>3. CASE \E label \in {"f_remove", "d_remove"} : HandlersRemoved(label)
  BY <1>3, MainAlone, SignalFacts, Actions DEF HandlersRemoved, Throw, Ours
<1>4. CASE RestoreCheck("main")
  BY <1>4, MainAlone, SignalFacts, Actions DEF RestoreCheck, AfterRestore,
    MainAt
<1>5. CASE RestoreMark("main")
  BY <1>5, MainAlone, SignalFacts, Actions DEF RestoreMark, MainAt
<1>6. CASE RestoreWrite("main")
  BY <1>6, MainAlone, SignalFacts, Actions DEF RestoreWrite, MainAt
<1>7. CASE RestoreAttributes("main")
  BY <1>7, MainAlone, SignalFacts, Actions DEF RestoreAttributes, MainAt
<1>8. CASE RestoreFlags("main")
  BY <1>8, MainAlone, SignalFacts, Actions DEF RestoreFlags, AfterRestore,
    MainAt
<1>9. CASE ResetState
  BY <1>9, MainAlone, SignalFacts, Actions DEF ResetState, FreshState
<1> QED
  BY <1>1, <1>2, <1>3, <1>4, <1>5, <1>6, <1>7, <1>8, <1>9 DEF Shutdown,
     EmergencyRestore

\* A handler leaves main where it was.
LEMMA HandlerKeepsMain ==
  ASSUME TypeOK, NEW s \in Signals, Handler(s)
  PROVE  /\ pc'["main"] = pc["main"] /\ UNCHANGED <<local, state, appAction>>
         /\ pc[s] # "off"
         /\ \A z \in Signals \ {s} : pc'[z] = pc[z]
<1>1. /\ UNCHANGED <<local, state, appAction>>
      /\ \E label : At(s, label)
      /\ \E label : Goto(s, label)
  <2>1. CASE RestoreCheck(s)
    BY <2>1, Zenon DEF RestoreCheck, kernel
  <2>2. CASE RestoreMark(s)
    BY <2>2, Zenon DEF RestoreMark, kernel
  <2>3. CASE RestoreWrite(s)
    BY <2>3, Zenon DEF RestoreWrite, kernel
  <2>4. CASE RestoreAttributes(s)
    BY <2>4, Zenon DEF RestoreAttributes, kernel
  <2>5. CASE RestoreFlags(s)
    BY <2>5, Zenon DEF RestoreFlags, kernel
  <2>6. CASE HandleResize(s)
    BY <2>6, Zenon DEF HandleResize, kernel
  <2>7. CASE HandleContinue(s)
    BY <2>7, Zenon DEF HandleContinue, kernel
  <2>8. CASE HandleAction(s)
    BY <2>8, Zenon DEF HandleAction, kernel
  <2>9. CASE DispatchPrevious(s)
    BY <2>9, Zenon DEF DispatchPrevious, kernel
  <2>10. CASE ReinstallCurrentHandler(s)
    BY <2>10, Zenon DEF ReinstallCurrentHandler, kernel
  <2>11. CASE HandleFlags(s)
    BY <2>11, Zenon DEF HandleFlags, kernel
  <2>12. CASE HandlerReturn(s)
    BY <2>12, Zenon DEF HandlerReturn, kernel
  <2> QED
    BY <2>1, <2>2, <2>3, <2>4, <2>5, <2>6, <2>7, <2>8, <2>9, <2>10, <2>11, <2>12
       DEF Handler, EmergencyRestore
<1>2. pc[s] # "off"
  BY <1>1, HandlerOnTop
<1> QED
  BY <1>1, <1>2, SignalFacts DEF Goto, TypeOK, PcOK, Frames

\* No step of a handler, of the kernel or of another process moves main.
LEMMA ReturnsOthers ==
  ASSUME TypeOK, ReturnsOK, Environment \/ \E s \in Signals : Handler(s)
  PROVE  ReturnsOK'
<1>1. ASSUME NEW s \in Signals, Handler(s) PROVE ReturnsOK'
  BY <1>1, HandlerKeepsMain DEF ReturnsOK, MainRestoring
<1>2. CASE Environment
  <2>1. CASE WaitEnds
    BY <2>1, MainAlone DEF WaitEnds, AppThrow, ReturnsOK, MainRestoring, Restoring,
       AppLabels,
      MainGoto, Goto, TypeOK, PcOK, Frames
  <2>2. ASSUME NEW s \in Signals, DeliverOurs(s) PROVE ReturnsOK'
    BY <2>2, SignalFacts DEF DeliverOurs, ReturnsOK, MainRestoring, Goto, TypeOK,
       PcOK
  <2>3. ASSUME NEW s \in Signals, Raise(s) \/ DeliverOther(s) PROVE ReturnsOK'
    BY <2>3 DEF Raise, DeliverOther, ReturnsOK, MainRestoring
  <2>4. ASSUME NEW size \in Sizes, Resize(size) PROVE ReturnsOK'
    BY <2>4 DEF Resize, ReturnsOK, MainRestoring
  <2> QED
    BY <1>2, <2>1, <2>2, <2>3, <2>4 DEF Environment
<1> QED
  BY <1>1, <1>2

\* Handlers run only in sessions that have their handlers installed, and put
\* back and reinstall only what oldActions says.
LEMMA CustodyHandler ==
  ASSUME TypeOK, Custody, NEW s \in Signals, Handler(s)
  PROVE  Custody'
<1>1. /\ pc'["main"] = pc["main"] /\ UNCHANGED <<local, state, appAction>>
      /\ pc[s] # "off" /\ \A z \in Signals \ {s} : pc'[z] = pc[z]
  BY HandlerKeepsMain
<1>2. /\ ~Untouched
      /\ state.oldActions[s] = appAction[s]
  BY <1>1 DEF Custody, Untouched
<1>3. disposition' \in {disposition, [disposition EXCEPT ![s] = "ours"],
                       [disposition EXCEPT ![s] = state.oldActions[s]]}
  <2>1. CASE RestoreCheck(s)
    BY <2>1 DEF RestoreCheck, kernel
  <2>2. CASE RestoreMark(s)
    BY <2>2 DEF RestoreMark, kernel
  <2>3. CASE RestoreWrite(s)
    BY <2>3 DEF RestoreWrite, kernel
  <2>4. CASE RestoreAttributes(s)
    BY <2>4 DEF RestoreAttributes, kernel
  <2>5. CASE RestoreFlags(s)
    BY <2>5 DEF RestoreFlags, kernel
  <2>6. CASE HandleResize(s)
    BY <2>6 DEF HandleResize, kernel
  <2>7. CASE HandleContinue(s)
    BY <2>7 DEF HandleContinue, kernel
  <2>8. CASE HandleAction(s)
    BY <2>8 DEF HandleAction, kernel
  <2>9. CASE DispatchPrevious(s)
    BY <2>9 DEF DispatchPrevious, kernel
  <2>10. CASE ReinstallCurrentHandler(s)
    BY <2>10 DEF ReinstallCurrentHandler, kernel
  <2>11. CASE HandleFlags(s)
    BY <2>11 DEF HandleFlags, kernel
  <2>12. CASE HandlerReturn(s)
    BY <2>12 DEF HandlerReturn, kernel
  <2> QED
    BY <2>1, <2>2, <2>3, <2>4, <2>5, <2>6, <2>7, <2>8, <2>9, <2>10, <2>11, <2>12
       DEF Handler, EmergencyRestore
<1>4. /\ disposition'[s] \in {"ours", appAction[s]}
      /\ \A z \in Signals \ {s} : disposition'[z] = disposition[z]
  BY <1>2, <1>3 DEF Custody, TypeOK, VarsOK
<1> QED
  BY <1>1, <1>2, <1>4 DEF Custody, Unhandled, MainRestoring

\* The kernel runs signalHandler() only where it is installed.
LEMMA CustodyEnvironment ==
  ASSUME TypeOK, Custody, Environment
  PROVE  Custody'
<1>1. CASE WaitEnds
  BY <1>1, CustodyMain DEF WaitEnds, AppThrow, kernel, Live, Saving
<1>2. ASSUME NEW s \in Signals, DeliverOurs(s) PROVE Custody'
  <2>1. disposition[s] = "ours" /\ ~Untouched
    BY <1>2, Actions DEF DeliverOurs, Deliverable, Untouched
  <2>2. /\ UNCHANGED <<disposition, state, appAction, local>>
        /\ pc'["main"] = pc["main"] /\ \A z \in Signals \ {s} : pc'[z] = pc[z]
    BY <1>2, SignalFacts DEF DeliverOurs, Goto, TypeOK, PcOK, Frames
  <2> QED
    BY <2>1, <2>2 DEF Custody, Unhandled, MainRestoring
<1>3. ASSUME NEW s \in Signals, Raise(s) \/ DeliverOther(s) PROVE Custody'
  BY <1>3 DEF Raise, DeliverOther, Custody, Unhandled, Untouched, MainRestoring
<1>4. ASSUME NEW size \in Sizes, Resize(size) PROVE Custody'
  BY <1>4 DEF Resize, Custody, Unhandled, Untouched, MainRestoring
<1> QED
  BY <1>1, <1>2, <1>3, <1>4 DEF Environment

\* The inductive invariant of PosixSession without its terminal.
SessionInv == TypeOK /\ ReturnsOK /\ Custody

\* The invariant holds before the first session,
LEMMA SessionInit == Init => SessionInv
<1> SUFFICES ASSUME Init PROVE SessionInv
  OBVIOUS
<1>1. TypeOK
  BY TypeInit
<1>2. \A s \in Signals : pc[s] = "off"
  BY SignalFacts DEF Init, Frames
<1>3. pc["main"] = "idle" /\ ~state.handlersInstalled
  BY SignalFacts DEF Init, FreshState
<1>4. \A s \in Signals : disposition[s] = appAction[s] /\ appAction[s] # "ours"
  BY <1>1, Actions DEF Init
<1> QED
  BY <1>1, <1>2, <1>3, <1>4
  DEF SessionInv, ReturnsOK, Custody, Unhandled, Untouched, MainRestoring,
      Restoring, Saving

\* and every step preserves it.
LEMMA SessionStep == SessionInv /\ [Next]_vars => SessionInv'
<1> SUFFICES ASSUME SessionInv, [Next]_vars PROVE SessionInv'
  OBVIOUS
<1>1. TypeOK /\ ReturnsOK /\ Custody
  BY DEF SessionInv
<1>2. TypeOK'
  BY <1>1, TypeStep
<1>3. CASE Main
  BY <1>1, <1>2, <1>3, ReturnsConstruct, ReturnsApplication, ReturnsShutdown,
     CustodyConstruct, CustodyApplication, CustodyShutdown DEF Main, SessionInv
<1>4. CASE Environment
  BY <1>1, <1>2, <1>4, ReturnsOthers, CustodyEnvironment DEF SessionInv
<1>5. CASE \E s \in Signals : Handler(s)
  BY <1>1, <1>2, <1>5, ReturnsOthers, CustodyHandler DEF SessionInv
<1>6. CASE UNCHANGED vars
  BY <1>1, <1>2, <1>6
  DEF SessionInv, vars, kernel, flags, ReturnsOK, Custody, Unhandled, Untouched,
      MainRestoring
<1> QED
  BY <1>3, <1>4, <1>5, <1>6 DEF Next

\* The invariant of every session, whatever fails.
THEOREM SessionInvariant == Spec => []SessionInv
BY SessionInit, SessionStep, PTL DEF Spec

\* Between sessions every signal has the application's own action, whatever
\* failed and whichever signals interrupted installHandlers() or removeHandlers().
THEOREM ActionsPutBack == Spec => []HandlersPutBack
<1>1. SessionInv => HandlersPutBack
  <2> SUFFICES ASSUME SessionInv, pc["main"] = "idle" PROVE disposition = appAction
    BY DEF HandlersPutBack
  <2>1. \A s \in Signals : disposition[s] = appAction[s]
    BY DEF SessionInv, Custody, Unhandled, Untouched
  <2>2. disposition \in [Signals -> Kinds] /\ appAction \in [Signals -> OldKinds]
    BY SignalAssumption DEF SessionInv, TypeOK, VarsOK
  <2> QED
    BY <2>1, <2>2
<1> QED
  BY <1>1, SessionInvariant, PTL
-----------------------------------------------------------------------------
(* FlagTruth, IdleRestored and StopsRestored: emergencyRestored tells the  *)
(* truth, and the end of a session, like a signal that stops or ends it,   *)
(* leaves the terminal as it found it.                                     *)

\* The terminal is restored when no part of it is changed.
LEMMA RestoredParts ==
  ASSUME TypeOK
  PROVE  Restored <=> Changed = {}
<1>1. tty \in TtyType
  BY DEF TypeOK, VarsOK
<1>2. Changed = {} <=> tty.modes = "original" /\ ~tty.raw /\ ~tty.nonblock
  BY <1>1 DEF Changed, Parts, OriginalTty, TtyType
<1>3. Restored <=> tty.modes = "original" /\ ~tty.raw /\ ~tty.nonblock
  BY <1>1 DEF Restored, OriginalTty, TtyType
<1> QED
  BY <1>2, <1>3

\* A part takes its session mode, or the sequence stops somewhere inside.
LEMMA TakenParts ==
  ASSUME TypeOK
  PROVE  /\ tty' = [tty EXCEPT !.raw = TRUE] => Changed' = Changed \cup {"raw"}
         /\ tty' = [tty EXCEPT !.nonblock = TRUE]
              => Changed' = Changed \cup {"nonblock"}
         /\ tty' = [tty EXCEPT !.modes = "session"]
              => Changed' = Changed \cup {"modes"}
         /\ tty' = [tty EXCEPT !.modes = "partial"]
              => Changed' = Changed \cup {"modes"}
<1>1. tty \in TtyType
  BY DEF TypeOK, VarsOK
<1> QED
  BY <1>1 DEF Changed, Parts, OriginalTty, TtyType

\* The parts that a call settles, or tears when it fails.
LEMMA PutBackParts ==
  ASSUME TypeOK, torn \subseteq Changed, NEW label, NEW part \in Parts,
         PutBack(label, part)
  PROVE  /\ torn' \subseteq Changed' /\ Changed' \subseteq Changed
         /\ Changed' \ torn' = (Changed \ torn) \ {part}
<1>1. tty \in TtyType /\ torn \subseteq Parts
  BY DEF TypeOK, VarsOK
<1>2. CASE UNCHANGED tty /\ torn' = torn \cup {part} /\ part \in Changed
  <2>1. Changed' = Changed
    BY <1>2 DEF Changed
  <2> QED
    BY <1>2, <2>1
<1>3. CASE tty' = [tty EXCEPT ![part] = OriginalTty[part]] /\ torn' = torn \ {part}
  <2>1. DOMAIN tty = Parts
    BY <1>1 DEF Parts, TtyType
  <2>2. \A p \in Parts : tty'[p] = IF p = part THEN OriginalTty[part] ELSE tty[p]
    BY <1>1, <1>3, <2>1 DEF TtyType, Parts
  <2>3. Changed' = Changed \ {part}
    BY <2>2 DEF Changed
  <2> QED
    BY <1>3, <2>3
<1> QED
  BY <1>2, <1>3 DEF PutBack

\* emergencyRestore() in any frame.  A nested call that finds
\* emergencyRestored set does nothing, and the calls below it on the stack
\* carry on where they were: the terminal only ever comes closer to its
\* original state, or a part that does not is torn.
LEMMA RestoreRestores ==
  ASSUME TypeOK, ReturnsOK, RestoreInv,
         NEW c \in Frames, pc["main"] \notin {"idle", "c_query", "d_reset"},
         EmergencyRestore(c)
  PROVE  RestoreInv'
<1> USE DEF RestoreInv, Restoring
<1>1. tty \in TtyType /\ state \in StateType /\ pc \in [Frames -> MainLabels \cup HandlerLabels]
  BY DEF TypeOK, VarsOK, PcOK
<1>2. Changed \subseteq Parts
  BY DEF Changed
<1>4. /\ pc[c] \in {"er_check", "er_mark"} \cup Restoring
      /\ c = "main" => \A s \in Signals : pc[s] = "off"
  <2>1. \E label \in {"er_check", "er_mark"} \cup Restoring : At(c, label)
    BY DEF EmergencyRestore, RestoreCheck, RestoreMark, RestoreWrite,
           RestoreAttributes, RestoreFlags
  <2> QED
    BY <2>1, MainAlone DEF At, MainAt
<1>5. AfterRestore(c) = IF c = "main" THEN local.ret ELSE "h_action"
  BY DEF AfterRestore
<1>6. c = "main" => local.ret \in {"d_reset", "f_remove"}
  BY <1>4 DEF ReturnsOK, MainRestoring
<1>7. \A s \in Signals : s \in Frames /\ s # "main"
  BY SignalFacts
<1> DEFINE Moves(label) == pc' = [pc EXCEPT ![c] = label]
           Settles(part) ==
             /\ torn' \subseteq Changed' /\ Changed' \subseteq Changed
             /\ Changed' \ torn' = (Changed \ torn) \ {part}
<1>8. CASE RestoreCheck(c)
  <2>1. UNCHANGED <<tty, state, emergencyRestored, torn>> /\ pc[c] = "er_check"
    BY <1>8 DEF RestoreCheck, At, flags
  <2>5. Changed' = Changed
    BY <2>1 DEF Changed
  <2>2. CASE ~emergencyRestored
    <3>1. Moves("er_mark")
      BY <1>8, <2>2 DEF RestoreCheck, Goto
    <3> QED
      BY <1>1, <2>1, <2>2, <2>5, <3>1, <1>7
      DEF SavedOK, ProgressOK, FlagTruth, MidRestore, Live, Saving, UpdateLabels
  <2>3. CASE emergencyRestored /\ c = "main"
    <3>1. Moves(local.ret)
      BY <1>8, <2>3 DEF RestoreCheck, Goto, AfterRestore
    <3>2. Changed \subseteq torn
      BY <1>4, <2>1, <2>3, <1>7 DEF FlagTruth, MidRestore, Frames
    <3> QED
      BY <1>1, <1>6, <2>1, <2>3, <2>5, <3>1, <3>2, <1>7
      DEF SavedOK, ProgressOK, FlagTruth, MidRestore, Live, Saving, UpdateLabels
  <2>4. CASE emergencyRestored /\ c # "main"
    <3>1. Moves("h_action")
      BY <1>8, <2>4 DEF RestoreCheck, Goto, AfterRestore
    <3> QED
      BY <1>1, <2>1, <2>4, <2>5, <3>1, <1>7
      DEF SavedOK, ProgressOK, FlagTruth, MidRestore
  <2> QED
    BY <2>2, <2>3, <2>4
<1>9. CASE RestoreMark(c)
  <2>1. UNCHANGED <<tty, state, torn>> /\ Moves("er_write") /\ emergencyRestored'
    BY <1>9 DEF RestoreMark, Goto
  <2>2. Changed' = Changed
    BY <2>1 DEF Changed
  <2> QED
    BY <1>1, <2>1, <2>2, <1>7
    DEF SavedOK, ProgressOK, FlagTruth, MidRestore, Live, Saving, UpdateLabels
<1>10. CASE RestoreWrite(c)
  <2>1. /\ Moves("er_attr") /\ UNCHANGED <<state, emergencyRestored>>
        /\ pc[c] = "er_write"
    BY <1>10 DEF RestoreWrite, Goto, At, flags
  <2>2. Settles("modes")
    <3>1. CASE PutBack("er_write", "modes")
      BY <3>1, PutBackParts DEF Parts
    <3>2. CASE /\ "modes" \in Changed /\ tty' = [tty EXCEPT !.modes = "partial"]
               /\ torn' = torn \cup {"modes"}
      <4>1. Changed' = Changed
        BY <3>2, TakenParts
      <4> QED
        BY <3>2, <4>1
    <3> QED
      BY <1>10, <3>1, <3>2 DEF RestoreWrite
  <2> QED
    BY <1>1, <2>1, <2>2, <1>7
    DEF SavedOK, ProgressOK, FlagTruth, MidRestore, Live, Saving, UpdateLabels
<1>11. CASE RestoreAttributes(c)
  <2>1. /\ Moves("er_flags") /\ UNCHANGED <<state, emergencyRestored>>
        /\ pc[c] = "er_attr"
    BY <1>11 DEF RestoreAttributes, Goto, At, flags
  <2>2. Settles("raw")
    <3>1. CASE state.attributesSaved
      BY <1>11, <3>1, PutBackParts DEF RestoreAttributes, Parts
    <3>2. CASE ~state.attributesSaved
      <4>1. UNCHANGED <<tty, torn>> /\ Changed = {}
        BY <1>11, <3>2 DEF RestoreAttributes, SavedOK
      <4>2. Changed' = Changed
        BY <4>1 DEF Changed
      <4> QED
        BY <4>1, <4>2
    <3> QED
      BY <3>1, <3>2
  <2> QED
    BY <1>1, <2>1, <2>2, <1>7
    DEF SavedOK, ProgressOK, FlagTruth, MidRestore, Live, Saving, UpdateLabels
<1>12. CASE RestoreFlags(c)
  <2>1. /\ Moves(AfterRestore(c)) /\ UNCHANGED <<state, emergencyRestored>>
        /\ pc[c] = "er_flags"
    BY <1>12 DEF RestoreFlags, Goto, At, flags
  <2>2. Settles("nonblock")
    <3>1. CASE state.flagsSaved
      BY <1>12, <3>1, PutBackParts DEF RestoreFlags, Parts
    <3>2. CASE ~state.flagsSaved
      <4>1. UNCHANGED <<tty, torn>> /\ Changed = {}
        BY <1>12, <3>2 DEF RestoreFlags, SavedOK
      <4>2. Changed' = Changed
        BY <4>1 DEF Changed
      <4> QED
        BY <4>1, <4>2
    <3> QED
      BY <3>1, <3>2
  <2>3. Changed' \subseteq torn'
    <3>1. "modes" \notin Changed \ torn /\ "raw" \notin Changed \ torn
      BY <2>1 DEF ProgressOK
    <3> QED
      BY <1>2, <2>2, <3>1 DEF Parts
  <2> QED
    BY <1>1, <1>5, <1>6, <2>1, <2>2, <2>3, <1>7
    DEF SavedOK, ProgressOK, FlagTruth, MidRestore, Live, Saving, UpdateLabels
<1> QED
  BY <1>8, <1>9, <1>10, <1>11, <1>12 DEF EmergencyRestore

\* RestoreInv in the constructor and platformInitialize().
LEMMA RestoreConstruct ==
  ASSUME TypeOK, ReturnsOK, RestoreInv, Construct
  PROVE  RestoreInv'
<1>0. UNCHANGED tty => Changed' = Changed
  BY DEF Changed
<1> USE <1>0 DEF RestoreInv, SavedOK, ProgressOK, FlagTruth, MidRestore,
    Live, UpdateLabels, Tear, Saving, ReturnsOK, MainRestoring, Restoring,
    AppLabels, MainGoto, Goto, TypeOK, PcOK, VarsOK, StateType, Frames, kernel,
    flags
<1>1. CASE StartSession
  <2>1. Changed = {} /\ UNCHANGED <<tty, torn>>
    BY <1>1, RestoredParts DEF StartSession
  <2>2. Changed' = {}
    BY <2>1 DEF Changed
  <2> QED
    BY <1>1, <2>1, <2>2, MainAlone, SignalFacts DEF StartSession
<1>2. CASE NotATerminal
  BY <1>2, MainAlone, SignalFacts DEF NotATerminal, Throw
<1>3. CASE SaveOriginals
  <2>1. /\ MainAt("c_query") /\ UNCHANGED tty
        /\ emergencyRestored' = FALSE
        /\ pc' = [pc EXCEPT !["main"] = IF state'.flagsSaved THEN "c_raw" ELSE "d_enter"]
        /\ state'.flagsSaved => state'.attributesSaved
    <3>1. CASE /\ state' = [FreshState EXCEPT !.attributesSaved = TRUE, !.flagsSaved = TRUE]
               /\ MainGoto("c_raw")
      BY <1>3, <3>1 DEF SaveOriginals, FreshState, MainGoto, Goto
    <3>2. CASE /\ state' \in {FreshState, [FreshState EXCEPT !.attributesSaved = TRUE]}
               /\ MainGoto("d_enter")
      <4>1. ~state'.flagsSaved
        BY <3>2 DEF FreshState
      <4> QED
        BY <1>3, <3>2, <4>1 DEF SaveOriginals, MainGoto, Goto
    <3> QED
      BY <1>3, <3>1, <3>2, Zenon DEF SaveOriginals
  <2>2. Changed = {} /\ torn' = {}
    BY <1>3, <2>1, MainAlone DEF RestoreInv, SavedOK, SaveOriginals
  <2>3. Changed' = {}
    BY <2>1, <2>2 DEF Changed
  <2> QED
    BY <2>1, <2>2, <2>3, MainAlone, SignalFacts
    DEF RestoreInv, SavedOK, ProgressOK, FlagTruth, Live, UpdateLabels,
        Saving, Restoring, TypeOK, PcOK, Frames
<1>4. CASE SetRaw("c_raw", "c_nonblock", ThrowInTry)
  BY <1>4, TakenParts, MainAlone, SignalFacts DEF SetRaw, ThrowInTry
<1>5. CASE SetNonBlocking("c_nonblock", IF InstallHandlers THEN "c_install" ELSE "c_write",
                       ThrowInTry)
  BY <1>5, TakenParts, MainAlone, SignalFacts DEF SetNonBlocking, ThrowInTry
<1>6. CASE InstallHandler
  BY <1>6, MainAlone, SignalFacts DEF InstallHandler, NotOurs, Ours, First
<1>7. CASE InstalledAll
  BY <1>7, MainAlone, SignalFacts DEF InstalledAll, NotOurs, Ours
<1>8. CASE RollbackHandler
  BY <1>8, MainAlone, SignalFacts DEF RollbackHandler, PutBackOne, Ours, First
<1>9. CASE RolledBack
  BY <1>9, MainAlone, SignalFacts DEF RolledBack, ThrowInTry, Ours
<1>10. CASE WriteStartup("c_write", "c_done", ThrowInTry)
  BY <1>10, TakenParts, MainAlone, SignalFacts DEF WriteStartup, ThrowInTry
<1>11. CASE WrittenStartup
  BY <1>11, MainAlone, SignalFacts DEF WrittenStartup
<1>12. CASE QuerySize("c_size", "c_ack", Throw)
  BY <1>12, MainAlone, SignalFacts DEF QuerySize, Throw
<1>13. CASE FinishConstruction
  BY <1>13, MainAlone, SignalFacts DEF FinishConstruction, AcknowledgeResize,
    Throw
<1> QED
  BY <1>1, <1>2, <1>3, <1>4, <1>5, <1>6, <1>7, <1>8, <1>9, <1>10, <1>11, <1>12,
     <1>13 DEF Construct, PlatformInitialize

\* RestoreInv in the frame loop, and the calls the application makes around it.
LEMMA RestoreApplication ==
  ASSUME TypeOK, ReturnsOK, RestoreInv, Frame \/ TerminalSize \/ AppCatch \/ Destroy
  PROVE  RestoreInv'
<1>0. UNCHANGED tty => Changed' = Changed
  BY DEF Changed
<1> USE <1>0 DEF RestoreInv, SavedOK, ProgressOK, FlagTruth, MidRestore,
    Live, UpdateLabels, Tear, Saving, ReturnsOK, MainRestoring, Restoring,
    AppLabels, MainGoto, Goto, TypeOK, PcOK, VarsOK, StateType, Frames, kernel,
    flags
<1>1. CASE UpdateCheck
  BY <1>1, MainAlone, SignalFacts DEF UpdateCheck
<1>2. CASE UpdateResume
  BY <1>2, MainAlone, SignalFacts DEF UpdateResume
<1>3. CASE SetRaw("u_raw", "u_nonblock", AppThrow)
  BY <1>3, TakenParts, MainAlone, SignalFacts DEF SetRaw, AppThrow
<1>4. CASE SetNonBlocking("u_nonblock", "u_write", AppThrow)
  BY <1>4, TakenParts, MainAlone, SignalFacts DEF SetNonBlocking, AppThrow
<1>5. CASE WriteStartup("u_write", "u_clear", AppThrow)
  BY <1>5, TakenParts, MainAlone, SignalFacts DEF WriteStartup, AppThrow
<1>6. CASE UpdateResumed
  BY <1>6, MainAlone, SignalFacts DEF UpdateResumed
<1>7. CASE QuerySize("u_size", "u_ack", AppThrow)
  BY <1>7, MainAlone, SignalFacts DEF QuerySize, AppThrow
<1>8. CASE ResizeToTerminal
  BY <1>8, MainAlone, SignalFacts DEF ResizeToTerminal, AcknowledgeResize,
    AppThrow
<1>9. CASE ReadInput
  BY <1>9, MainAlone, SignalFacts DEF ReadInput, AppThrow
<1>10. CASE EndFrame
  BY <1>10, MainAlone, SignalFacts DEF EndFrame, AppThrow
<1>11. CASE CallTerminalSize
  BY <1>11, MainAlone, SignalFacts DEF CallTerminalSize
<1>12. CASE QuerySize("t_size", "t_ack", AppThrow)
  BY <1>12, MainAlone, SignalFacts DEF QuerySize, AppThrow
<1>13. CASE TerminalSizeReturns
  BY <1>13, MainAlone, SignalFacts DEF TerminalSizeReturns, AcknowledgeResize
<1>14. CASE AppCatch
  BY <1>14, MainAlone, SignalFacts DEF AppCatch
<1>15. CASE Destroy
  BY <1>15, MainAlone, SignalFacts DEF Destroy
<1> QED
  BY <1>1, <1>2, <1>3, <1>4, <1>5, <1>6, <1>7, <1>8, <1>9, <1>10, <1>11, <1>12,
     <1>13, <1>14, <1>15 DEF Frame, Update, TerminalSize

\* RestoreInv in the destructor and the paths of a failed constructor.
LEMMA RestoreShutdown ==
  ASSUME TypeOK, ReturnsOK, RestoreInv, Shutdown
  PROVE  RestoreInv'
<1>0. UNCHANGED tty => Changed' = Changed
  BY DEF Changed
<1> USE <1>0 DEF RestoreInv, SavedOK, ProgressOK, FlagTruth, MidRestore,
    Live, UpdateLabels, Tear, Saving, ReturnsOK, MainRestoring, Restoring,
    AppLabels, MainGoto, Goto, TypeOK, PcOK, VarsOK, StateType, Frames, kernel,
    flags
<1>1. CASE PlatformShutdown
  BY <1>1, MainAlone, SignalFacts DEF PlatformShutdown
<1>2. CASE \E label \in {"f_remove", "d_remove"} : RemoveHandler(label)
  BY <1>2, MainAlone, SignalFacts DEF RemoveHandler, PutBackOne, Ours, First
<1>3. CASE \E label \in {"f_remove", "d_remove"} : HandlersRemoved(label)
  BY <1>3, MainAlone, SignalFacts DEF HandlersRemoved, Throw, Ours
<1>4. CASE ResetState
  BY <1>4, MainAlone, SignalFacts DEF ResetState, FreshState
<1>5. CASE EmergencyRestore("main")
  <2>1. \E label \in {"er_check", "er_mark"} \cup Restoring : At("main", label)
    BY <1>5 DEF EmergencyRestore, RestoreCheck, RestoreMark, RestoreWrite,
                RestoreAttributes, RestoreFlags, Restoring
  <2>2. pc["main"] \notin {"idle", "c_query", "d_reset"}
    BY <2>1 DEF At, Restoring
  <2> QED
    BY <1>5, <2>2, RestoreRestores, SignalFacts
<1> QED
  BY <1>1, <1>2, <1>3, <1>4, <1>5 DEF Shutdown

\* The rest of a handler leaves the terminal alone.
LEMMA RestoreHandler ==
  ASSUME TypeOK, ReturnsOK, Custody, RestoreInv,
         NEW s \in Signals, Handler(s)
  PROVE  RestoreInv'
<1>1. CASE EmergencyRestore(s)
  <2>1. ~Untouched
    BY HandlerKeepsMain DEF Untouched
  <2>2. pc["main"] \notin {"idle", "c_query", "d_reset"}
    BY <2>1 DEF Custody, Unhandled
  <2> QED
    BY <1>1, <2>2, RestoreRestores, SignalFacts
<1>2. CASE ~EmergencyRestore(s)
  <2>1. /\ UNCHANGED <<tty, state, emergencyRestored, torn>>
        /\ pc[s] \notin Restoring
        /\ \E label \in {"h_dispatch", "h_reinstall", "h_flags", "h_return", "off"} :
             Goto(s, label)
    <3>1. CASE HandleResize(s)
      BY <3>1, HandlerOnTop DEF HandleResize, AfterDispatch, Restoring, flags
    <3>2. CASE HandleContinue(s)
      BY <3>2, HandlerOnTop DEF HandleContinue, AfterDispatch, Restoring, flags
    <3>3. CASE HandleAction(s)
      BY <3>3, HandlerOnTop DEF HandleAction, AfterDispatch, Restoring, flags
    <3>4. CASE DispatchPrevious(s)
      BY <3>4, HandlerOnTop DEF DispatchPrevious, AfterDispatch, Restoring, flags
    <3>5. CASE ReinstallCurrentHandler(s)
      BY <3>5, HandlerOnTop DEF ReinstallCurrentHandler, AfterDispatch, Restoring,
         flags
    <3>6. CASE HandleFlags(s)
      BY <3>6, HandlerOnTop DEF HandleFlags, AfterDispatch, Restoring, flags
    <3>7. CASE HandlerReturn(s)
      BY <3>7, HandlerOnTop DEF HandlerReturn, AfterDispatch, Restoring, flags
    <3> QED
      BY <1>2, <3>1, <3>2, <3>3, <3>4, <3>5, <3>6, <3>7 DEF Handler
  <2>2. /\ pc'["main"] = pc["main"] /\ pc'[s] \notin Restoring
        /\ \A c \in Frames \ {s} : pc'[c] = pc[c]
    BY <2>1, SignalFacts DEF Goto, Restoring, TypeOK, PcOK
  <2>3. \A c \in Frames : pc'[c] \in Restoring <=> pc[c] \in Restoring
    BY <2>1, <2>2
  <2>4. \A c \in Frames : pc'[c] \in Restoring => pc'[c] = pc[c]
    BY <2>2
  <2> QED
    BY <2>1, <2>2, <2>3, <2>4
    DEF RestoreInv, SavedOK, ProgressOK, FlagTruth, MidRestore, Changed, Restoring
<1> QED
  BY <1>1, <1>2

\* The kernel enters a handler before its restoration begins.
LEMMA RestoreEnvironment ==
  ASSUME TypeOK, RestoreInv, Environment
  PROVE  RestoreInv'
<1>1. CASE WaitEnds
  BY <1>1, MainAlone, SignalFacts
  DEF WaitEnds, AppThrow, RestoreInv, SavedOK, ProgressOK, FlagTruth, MidRestore, Changed,
      Live, UpdateLabels, Saving, Restoring, MainGoto, Goto, TypeOK, PcOK, Frames, flags
<1>2. ASSUME NEW s \in Signals, DeliverOurs(s) PROVE RestoreInv'
  <2>1. /\ UNCHANGED <<tty, state, emergencyRestored, torn>>
        /\ pc[s] = "off"
        /\ \E label \in {"er_check", "h_resize", "h_continue"} : Goto(s, label)
    BY <1>2 DEF DeliverOurs, Deliverable, HandlerEntry, flags
  <2>2. /\ pc'["main"] = pc["main"] /\ pc'[s] \notin Restoring
        /\ \A c \in Frames \ {s} : pc'[c] = pc[c]
    BY <2>1, SignalFacts DEF Goto, Restoring, TypeOK, PcOK
  <2>3. \A c \in Frames : pc'[c] \in Restoring <=> pc[c] \in Restoring
    BY <2>1, <2>2 DEF Restoring
  <2> QED
    BY <2>1, <2>2, <2>3
    DEF RestoreInv, SavedOK, ProgressOK, FlagTruth, MidRestore, Changed, Restoring
<1>3. CASE UNCHANGED <<tty, state, emergencyRestored, torn, pc>>
  BY <1>3 DEF RestoreInv, SavedOK, ProgressOK, FlagTruth, MidRestore, Changed
<1>4. ASSUME NEW s \in Signals, Raise(s) \/ DeliverOther(s) PROVE RestoreInv'
  BY <1>3, <1>4 DEF Raise, DeliverOther, flags
<1>5. ASSUME NEW size \in Sizes, Resize(size) PROVE RestoreInv'
  BY <1>3, <1>5 DEF Resize, flags
<1> QED
  BY <1>1, <1>2, <1>4, <1>5 DEF Environment

\* The invariant holds before the first session,
LEMMA RestoreInit == Init => RestoreInv
<1> SUFFICES ASSUME Init PROVE RestoreInv
  OBVIOUS
<1>1. \A c \in Frames : pc[c] \in {"idle", "off"}
  BY DEF Init
<1>2. pc["main"] = "idle" /\ ~state.flagsSaved /\ Changed = {} /\ torn = {}
  BY SignalFacts DEF Init, FreshState, Changed
<1> QED
  BY <1>1, <1>2
  DEF RestoreInv, SavedOK, ProgressOK, FlagTruth, Restoring, Live, UpdateLabels, Saving

\* and every step preserves it.
LEMMA RestoreStep ==
  ASSUME SessionInv, RestoreInv, [Next]_vars
  PROVE  RestoreInv'
<1>1. TypeOK /\ ReturnsOK /\ Custody
  BY DEF SessionInv
<1>2. CASE Main
  BY <1>1, <1>2, RestoreConstruct, RestoreApplication, RestoreShutdown DEF Main
<1>3. CASE Environment
  BY <1>1, <1>3, RestoreEnvironment
<1>4. CASE \E s \in Signals : Handler(s)
  BY <1>1, <1>4, RestoreHandler
<1>5. CASE UNCHANGED vars
  BY <1>5
  DEF vars, flags, RestoreInv, SavedOK, ProgressOK, FlagTruth, MidRestore, Changed
<1> QED
  BY <1>2, <1>3, <1>4, <1>5 DEF Next

\* The invariant of the terminal.
THEOREM RestoreInvariant == Spec => []RestoreInv
BY RestoreInit, RestoreStep, SessionInvariant, PTL DEF Spec

\* emergencyRestored claims no restoration that has not happened, except of the
\* torn parts (emergencyRestore(), PosixTerminal.cpp:104-119).
THEOREM RestorationClaimed == Spec => []FlagTruth
<1>1. RestoreInv => FlagTruth
  BY DEF RestoreInv
<1> QED
  BY <1>1, RestoreInvariant, PTL

\* The destructor and the failing constructor leave changed exactly the parts
\* that are torn (platformShutdown(), platformInitialize()).
THEOREM TerminalPutBack == Spec => []IdleRestored
<1>1. RestoreInv => IdleRestored
  BY DEF RestoreInv, IdleRestored
<1> QED
  BY <1>1, RestoreInvariant, PTL
-----------------------------------------------------------------------------
(* StopsRestored: no signal stops or ends the process over a session's     *)
(* terminal, outside the windows that the property names.                  *)

Removing == {"f_remove", "d_remove"}

\* A step of main, which runs with no handler on the stack, keeps StopInv if
\* the signals it leaves guarded are all ours.
LEMMA StopMain ==
  ASSUME TypeOK, StopInv, NEW from, NEW to, MainAt(from),
         MainGoto(to) \/ UNCHANGED pc, UNCHANGED process,
         Guarded' => \A s \in Signals : disposition'[s] = "ours"
  PROVE  StopInv'
<1>1. process = "running" /\ \A s \in Signals : pc[s] = "off"
  BY MainAlone
<1>2. \A s \in Signals : pc'[s] = "off"
  BY <1>1, SignalFacts DEF MainGoto, Goto, TypeOK, PcOK
<1>3. Harmless \subseteq Signals
  BY SignalAssumption
<1> QED
  BY <1>1, <1>2, <1>3 DEF StopInv, StopsRestored

\* Such a step outside installHandlers() and removeHandlers().
LEMMA StopElsewhere ==
  ASSUME TypeOK, StopInv, UNCHANGED <<process, disposition>>,
         state'.handlersInstalled \in {FALSE, state.handlersInstalled},
         \E from, to : from \notin Removing /\ MainAt(from) /\ MainGoto(to)
  PROVE  StopInv'
<1>1. PICK from, to : from \notin Removing /\ MainAt(from) /\ MainGoto(to)
  OBVIOUS
<1>2. pc["main"] \notin Removing /\ \A s \in Signals : pc[s] = "off"
  BY <1>1, MainAlone
<1>3. Guarded' => \A s \in Signals : disposition'[s] = "ours"
  BY <1>2 DEF Guarded, StopInv, Removing
<1> QED
  BY <1>1, <1>3, StopMain

\* The constructor and platformInitialize().
LEMMA StopConstruct ==
  ASSUME TypeOK, Custody, StopInv, Construct
  PROVE  StopInv'
<1>1. CASE StartSession
  <2>1. UNCHANGED <<process, disposition>> /\ state'.handlersInstalled \in {FALSE, state.handlersInstalled}
    BY <1>1 DEF StartSession, kernel, TypeOK, VarsOK, StateType
  <2>2. \E from, to : from \notin Removing /\ MainAt(from) /\ MainGoto(to)
    BY <1>1, Zenon DEF StartSession, Removing
  <2> QED
    BY <2>1, <2>2, StopElsewhere
<1>2. CASE NotATerminal
  <2>1. UNCHANGED <<process, disposition>> /\ state'.handlersInstalled \in {FALSE, state.handlersInstalled}
    BY <1>2 DEF NotATerminal, Throw, kernel, TypeOK, VarsOK, StateType
  <2>2. \E from, to : from \notin Removing /\ MainAt(from) /\ MainGoto(to)
    BY <1>2, Zenon DEF NotATerminal, Throw, Removing
  <2> QED
    BY <2>1, <2>2, StopElsewhere
<1>3. CASE SaveOriginals
  <2>1. MainAt("c_query") /\ UNCHANGED <<process, disposition>>
    BY <1>3 DEF SaveOriginals, kernel
  <2>2. MainGoto("c_raw") \/ MainGoto("d_enter")
    BY <1>3 DEF SaveOriginals
  <2>3. state'.handlersInstalled = FALSE
    <3>1. \/ state' = [FreshState EXCEPT !.attributesSaved = TRUE, !.flagsSaved = TRUE]
          \/ state' \in {FreshState, [FreshState EXCEPT !.attributesSaved = TRUE]}
      BY <1>3, Zenon DEF SaveOriginals
    <3>2. CASE state' = [FreshState EXCEPT !.attributesSaved = TRUE, !.flagsSaved = TRUE]
      BY <3>2 DEF FreshState
    <3>3. CASE state' \in {FreshState, [FreshState EXCEPT !.attributesSaved = TRUE]}
      BY <3>3 DEF FreshState
    <3> QED
      BY <3>1, <3>2, <3>3
  <2>4. \E from, to : from \notin Removing /\ MainAt(from) /\ MainGoto(to)
    BY <2>1, <2>2, Zenon DEF Removing
  <2> QED
    BY <2>1, <2>3, <2>4, StopElsewhere
<1>4. CASE SetRaw("c_raw", "c_nonblock", ThrowInTry)
  <2>1. UNCHANGED <<process, disposition>> /\ state'.handlersInstalled \in {FALSE, state.handlersInstalled}
    BY <1>4 DEF SetRaw, ThrowInTry, kernel, TypeOK, VarsOK, StateType
  <2>2. \E from, to : from \notin Removing /\ MainAt(from) /\ MainGoto(to)
    BY <1>4, Zenon DEF SetRaw, ThrowInTry, Removing
  <2> QED
    BY <2>1, <2>2, StopElsewhere
<1>5. CASE SetNonBlocking("c_nonblock", IF InstallHandlers THEN "c_install" ELSE "c_write",
                       ThrowInTry)
  <2>1. UNCHANGED <<process, disposition>> /\ state'.handlersInstalled \in {FALSE, state.handlersInstalled}
    BY <1>5 DEF SetNonBlocking, ThrowInTry, kernel, TypeOK, VarsOK, StateType
  <2>2. \E from, to : from \notin Removing /\ MainAt(from) /\ MainGoto(to)
    BY <1>5, Zenon DEF SetNonBlocking, ThrowInTry, Removing
  <2> QED
    BY <2>1, <2>2, StopElsewhere
<1>6. CASE InstallHandler
  <2>1. MainAt("c_install") /\ UNCHANGED process /\ (MainGoto("c_rollback") \/ UNCHANGED pc)
    BY <1>6 DEF InstallHandler, kernel
  <2>2. ~Guarded'
    BY <1>6, MainAlone, SignalFacts DEF InstallHandler, TypeOK, VarsOK, StateType,
       Custody, Unhandled, Saving, Guarded, MainGoto, Goto, TypeOK, PcOK
  <2> QED
    BY <2>1, <2>2, StopMain
<1>7. CASE InstalledAll
  <2>1. MainAt("c_install") /\ MainGoto("c_write") /\ UNCHANGED <<process, disposition>>
    BY <1>7 DEF InstalledAll, kernel
  <2>2. \A s \in Signals : disposition[s] = "ours"
    BY <1>7, Actions DEF InstalledAll, NotOurs, Ours
  <2> QED
    BY <2>1, <2>2, StopMain
<1>8. CASE RollbackHandler
  <2>1. MainAt("c_rollback") /\ UNCHANGED process /\ (MainGoto("c_rollback") \/ UNCHANGED pc)
    BY <1>8 DEF RollbackHandler, PutBackOne, kernel
  <2>2. ~Guarded'
    BY <1>8, MainAlone, SignalFacts DEF RollbackHandler, PutBackOne, Custody,
       Unhandled, Saving, Guarded, MainGoto, Goto, TypeOK, PcOK
  <2> QED
    BY <2>1, <2>2, StopMain
<1>9. CASE RolledBack
  <2>1. UNCHANGED <<process, disposition>> /\ state'.handlersInstalled \in {FALSE, state.handlersInstalled}
    BY <1>9 DEF RolledBack, ThrowInTry, Ours, kernel, TypeOK, VarsOK, StateType
  <2>2. \E from, to : from \notin Removing /\ MainAt(from) /\ MainGoto(to)
    BY <1>9, Zenon DEF RolledBack, ThrowInTry, Ours, Removing
  <2> QED
    BY <2>1, <2>2, StopElsewhere
<1>10. CASE WriteStartup("c_write", "c_done", ThrowInTry)
  <2>1. UNCHANGED <<process, disposition>> /\ state'.handlersInstalled \in {FALSE, state.handlersInstalled}
    BY <1>10 DEF WriteStartup, ThrowInTry, kernel, TypeOK, VarsOK, StateType
  <2>2. \E from, to : from \notin Removing /\ MainAt(from) /\ MainGoto(to)
    BY <1>10, Zenon DEF WriteStartup, ThrowInTry, Removing
  <2> QED
    BY <2>1, <2>2, StopElsewhere
<1>11. CASE WrittenStartup
  <2>1. UNCHANGED <<process, disposition>> /\ state'.handlersInstalled \in {FALSE, state.handlersInstalled}
    BY <1>11 DEF WrittenStartup, kernel, TypeOK, VarsOK, StateType
  <2>2. \E from, to : from \notin Removing /\ MainAt(from) /\ MainGoto(to)
    BY <1>11, Zenon DEF WrittenStartup, Removing
  <2> QED
    BY <2>1, <2>2, StopElsewhere
<1>12. CASE QuerySize("c_size", "c_ack", Throw)
  <2>1. UNCHANGED <<process, disposition>> /\ state'.handlersInstalled \in {FALSE, state.handlersInstalled}
    BY <1>12 DEF QuerySize, Throw, kernel, TypeOK, VarsOK, StateType
  <2>2. \E from, to : from \notin Removing /\ MainAt(from) /\ MainGoto(to)
    BY <1>12, Zenon DEF QuerySize, Throw, Removing
  <2> QED
    BY <2>1, <2>2, StopElsewhere
<1>13. CASE FinishConstruction
  <2>1. UNCHANGED <<process, disposition>> /\ state'.handlersInstalled \in {FALSE, state.handlersInstalled}
    BY <1>13 DEF FinishConstruction, AcknowledgeResize, Throw, kernel, TypeOK,
       VarsOK, StateType
  <2>2. \E from, to : from \notin Removing /\ MainAt(from) /\ MainGoto(to)
    BY <1>13, Zenon DEF FinishConstruction, AcknowledgeResize, Throw, Removing
  <2> QED
    BY <2>1, <2>2, StopElsewhere
<1> QED
  BY <1>1, <1>2, <1>3, <1>4, <1>5, <1>6, <1>7, <1>8, <1>9, <1>10, <1>11, <1>12,
     <1>13 DEF Construct, PlatformInitialize

\* The frame loop, and the calls the application makes around it.
LEMMA StopApplication ==
  ASSUME TypeOK, Custody, StopInv, Frame \/ TerminalSize \/ AppCatch \/ Destroy
  PROVE  StopInv'
<1>1. CASE UpdateCheck
  <2>1. UNCHANGED <<process, disposition>> /\ state'.handlersInstalled \in {FALSE, state.handlersInstalled}
    BY <1>1 DEF UpdateCheck, kernel, TypeOK, VarsOK, StateType
  <2>2. \E from, to : from \notin Removing /\ MainAt(from) /\ MainGoto(to)
    BY <1>1, Zenon DEF UpdateCheck, Removing
  <2> QED
    BY <2>1, <2>2, StopElsewhere
<1>2. CASE UpdateResume
  <2>1. UNCHANGED <<process, disposition>> /\ state'.handlersInstalled \in {FALSE, state.handlersInstalled}
    BY <1>2 DEF UpdateResume, kernel, TypeOK, VarsOK, StateType
  <2>2. \E from, to : from \notin Removing /\ MainAt(from) /\ MainGoto(to)
    BY <1>2, Zenon DEF UpdateResume, Removing
  <2> QED
    BY <2>1, <2>2, StopElsewhere
<1>3. CASE SetRaw("u_raw", "u_nonblock", AppThrow)
  <2>1. UNCHANGED <<process, disposition>> /\ state'.handlersInstalled \in {FALSE, state.handlersInstalled}
    BY <1>3 DEF SetRaw, AppThrow, kernel, TypeOK, VarsOK, StateType
  <2>2. \E from, to : from \notin Removing /\ MainAt(from) /\ MainGoto(to)
    BY <1>3, Zenon DEF SetRaw, AppThrow, Removing
  <2> QED
    BY <2>1, <2>2, StopElsewhere
<1>4. CASE SetNonBlocking("u_nonblock", "u_write", AppThrow)
  <2>1. UNCHANGED <<process, disposition>> /\ state'.handlersInstalled \in {FALSE, state.handlersInstalled}
    BY <1>4 DEF SetNonBlocking, AppThrow, kernel, TypeOK, VarsOK, StateType
  <2>2. \E from, to : from \notin Removing /\ MainAt(from) /\ MainGoto(to)
    BY <1>4, Zenon DEF SetNonBlocking, AppThrow, Removing
  <2> QED
    BY <2>1, <2>2, StopElsewhere
<1>5. CASE WriteStartup("u_write", "u_clear", AppThrow)
  <2>1. UNCHANGED <<process, disposition>> /\ state'.handlersInstalled \in {FALSE, state.handlersInstalled}
    BY <1>5 DEF WriteStartup, AppThrow, kernel, TypeOK, VarsOK, StateType
  <2>2. \E from, to : from \notin Removing /\ MainAt(from) /\ MainGoto(to)
    BY <1>5, Zenon DEF WriteStartup, AppThrow, Removing
  <2> QED
    BY <2>1, <2>2, StopElsewhere
<1>6. CASE UpdateResumed
  <2>1. UNCHANGED <<process, disposition>> /\ state'.handlersInstalled \in {FALSE, state.handlersInstalled}
    BY <1>6 DEF UpdateResumed, kernel, TypeOK, VarsOK, StateType
  <2>2. \E from, to : from \notin Removing /\ MainAt(from) /\ MainGoto(to)
    BY <1>6, Zenon DEF UpdateResumed, Removing
  <2> QED
    BY <2>1, <2>2, StopElsewhere
<1>7. CASE QuerySize("u_size", "u_ack", AppThrow)
  <2>1. UNCHANGED <<process, disposition>> /\ state'.handlersInstalled \in {FALSE, state.handlersInstalled}
    BY <1>7 DEF QuerySize, AppThrow, kernel, TypeOK, VarsOK, StateType
  <2>2. \E from, to : from \notin Removing /\ MainAt(from) /\ MainGoto(to)
    BY <1>7, Zenon DEF QuerySize, AppThrow, Removing
  <2> QED
    BY <2>1, <2>2, StopElsewhere
<1>8. CASE ResizeToTerminal
  <2>1. UNCHANGED <<process, disposition>> /\ state'.handlersInstalled \in {FALSE, state.handlersInstalled}
    BY <1>8 DEF ResizeToTerminal, AcknowledgeResize, AppThrow, kernel, TypeOK,
       VarsOK, StateType
  <2>2. \E from, to : from \notin Removing /\ MainAt(from) /\ MainGoto(to)
    BY <1>8, Zenon DEF ResizeToTerminal, AcknowledgeResize, AppThrow, Removing
  <2> QED
    BY <2>1, <2>2, StopElsewhere
<1>9. CASE ReadInput
  <2>1. UNCHANGED <<process, disposition>> /\ state'.handlersInstalled \in {FALSE, state.handlersInstalled}
    BY <1>9 DEF ReadInput, AppThrow, kernel, TypeOK, VarsOK, StateType
  <2>2. \E from, to : from \notin Removing /\ MainAt(from) /\ MainGoto(to)
    BY <1>9, Zenon DEF ReadInput, AppThrow, Removing
  <2> QED
    BY <2>1, <2>2, StopElsewhere
<1>10. CASE EndFrame
  <2>1. UNCHANGED <<process, disposition>> /\ state'.handlersInstalled \in {FALSE, state.handlersInstalled}
    BY <1>10 DEF EndFrame, AppThrow, kernel, TypeOK, VarsOK, StateType
  <2>2. \E from, to : from \notin Removing /\ MainAt(from) /\ MainGoto(to)
    BY <1>10, Zenon DEF EndFrame, AppThrow, Removing
  <2> QED
    BY <2>1, <2>2, StopElsewhere
<1>11. CASE CallTerminalSize
  <2>1. UNCHANGED <<process, disposition>> /\ state'.handlersInstalled \in {FALSE, state.handlersInstalled}
    BY <1>11 DEF CallTerminalSize, kernel, TypeOK, VarsOK, StateType
  <2>2. \E from, to : from \notin Removing /\ MainAt(from) /\ MainGoto(to)
    BY <1>11, Zenon DEF CallTerminalSize, Removing
  <2> QED
    BY <2>1, <2>2, StopElsewhere
<1>12. CASE QuerySize("t_size", "t_ack", AppThrow)
  <2>1. UNCHANGED <<process, disposition>> /\ state'.handlersInstalled \in {FALSE, state.handlersInstalled}
    BY <1>12 DEF QuerySize, AppThrow, kernel, TypeOK, VarsOK, StateType
  <2>2. \E from, to : from \notin Removing /\ MainAt(from) /\ MainGoto(to)
    BY <1>12, Zenon DEF QuerySize, AppThrow, Removing
  <2> QED
    BY <2>1, <2>2, StopElsewhere
<1>13. CASE TerminalSizeReturns
  <2>1. UNCHANGED <<process, disposition>> /\ state'.handlersInstalled \in {FALSE, state.handlersInstalled}
    BY <1>13 DEF TerminalSizeReturns, AcknowledgeResize, kernel, TypeOK, VarsOK,
       StateType
  <2>2. \E from, to : from \notin Removing /\ MainAt(from) /\ MainGoto(to)
    BY <1>13, Zenon DEF TerminalSizeReturns, AcknowledgeResize, Removing
  <2> QED
    BY <2>1, <2>2, StopElsewhere
<1>14. CASE AppCatch
  <2>1. UNCHANGED <<process, disposition>> /\ state'.handlersInstalled \in {FALSE, state.handlersInstalled}
    BY <1>14 DEF AppCatch, kernel, TypeOK, VarsOK, StateType
  <2>2. \E from, to : from \notin Removing /\ MainAt(from) /\ MainGoto(to)
    BY <1>14, Zenon DEF AppCatch, Removing
  <2> QED
    BY <2>1, <2>2, StopElsewhere
<1>15. CASE Destroy
  <2>1. UNCHANGED <<process, disposition>> /\ state'.handlersInstalled \in {FALSE, state.handlersInstalled}
    BY <1>15 DEF Destroy, kernel, TypeOK, VarsOK, StateType
  <2>2. \E from, to : from \notin Removing /\ MainAt(from) /\ MainGoto(to)
    BY <1>15, Zenon DEF Destroy, Removing
  <2> QED
    BY <2>1, <2>2, StopElsewhere
<1> QED
  BY <1>1, <1>2, <1>3, <1>4, <1>5, <1>6, <1>7, <1>8, <1>9, <1>10, <1>11, <1>12,
     <1>13, <1>14, <1>15 DEF Frame, Update, TerminalSize

\* The destructor and the paths of a failed constructor.
LEMMA StopShutdown ==
  ASSUME TypeOK, Custody, StopInv, Shutdown
  PROVE  StopInv'
<1>1. CASE PlatformShutdown
  <2>1. UNCHANGED <<process, disposition>> /\ state'.handlersInstalled \in {FALSE, state.handlersInstalled}
    BY <1>1 DEF PlatformShutdown, kernel, TypeOK, VarsOK, StateType
  <2>2. \E from, to : from \notin Removing /\ MainAt(from) /\ MainGoto(to)
    BY <1>1, Zenon DEF PlatformShutdown, Removing
  <2> QED
    BY <2>1, <2>2, StopElsewhere
<1>2. CASE \E label \in {"f_remove", "d_remove"} : RemoveHandler(label)
  <2>1. \E label \in Removing : MainAt(label) /\ UNCHANGED <<process, pc, state>>
    BY <1>2 DEF RemoveHandler, PutBackOne, Removing
  <2>2. ~Guarded'
    BY <2>1, MainAlone DEF Guarded, Removing
  <2> QED
    BY <2>1, <2>2, StopMain
<1>3. CASE \E label \in {"f_remove", "d_remove"} : HandlersRemoved(label)
  <2>1. /\ \E from, to : MainAt(from) /\ MainGoto(to)
        /\ UNCHANGED process
    BY <1>3, Zenon DEF HandlersRemoved, Throw, kernel
  <2>2. ~Guarded'
    BY <1>3 DEF HandlersRemoved, Guarded, TypeOK, VarsOK, StateType
  <2> QED
    BY <2>1, <2>2, StopMain
<1>4. CASE RestoreCheck("main")
  <2>1. UNCHANGED <<process, disposition>> /\ state'.handlersInstalled \in {FALSE, state.handlersInstalled}
    BY <1>4 DEF RestoreCheck, AfterRestore, kernel, TypeOK, VarsOK, StateType
  <2>2. \E from, to : from \notin Removing /\ MainAt(from) /\ MainGoto(to)
    BY <1>4, Zenon DEF RestoreCheck, AfterRestore, Removing, MainAt, MainGoto
  <2> QED
    BY <2>1, <2>2, StopElsewhere
<1>5. CASE RestoreMark("main")
  <2>1. UNCHANGED <<process, disposition>> /\ state'.handlersInstalled \in {FALSE, state.handlersInstalled}
    BY <1>5 DEF RestoreMark, kernel, TypeOK, VarsOK, StateType
  <2>2. \E from, to : from \notin Removing /\ MainAt(from) /\ MainGoto(to)
    BY <1>5, Zenon DEF RestoreMark, Removing, MainAt, MainGoto
  <2> QED
    BY <2>1, <2>2, StopElsewhere
<1>6. CASE RestoreWrite("main")
  <2>1. UNCHANGED <<process, disposition>> /\ state'.handlersInstalled \in {FALSE, state.handlersInstalled}
    BY <1>6 DEF RestoreWrite, kernel, TypeOK, VarsOK, StateType
  <2>2. \E from, to : from \notin Removing /\ MainAt(from) /\ MainGoto(to)
    BY <1>6, Zenon DEF RestoreWrite, Removing, MainAt, MainGoto
  <2> QED
    BY <2>1, <2>2, StopElsewhere
<1>7. CASE RestoreAttributes("main")
  <2>1. UNCHANGED <<process, disposition>> /\ state'.handlersInstalled \in {FALSE, state.handlersInstalled}
    BY <1>7 DEF RestoreAttributes, kernel, TypeOK, VarsOK, StateType
  <2>2. \E from, to : from \notin Removing /\ MainAt(from) /\ MainGoto(to)
    BY <1>7, Zenon DEF RestoreAttributes, Removing, MainAt, MainGoto
  <2> QED
    BY <2>1, <2>2, StopElsewhere
<1>8. CASE RestoreFlags("main")
  <2>1. UNCHANGED <<process, disposition>> /\ state'.handlersInstalled \in {FALSE, state.handlersInstalled}
    BY <1>8 DEF RestoreFlags, AfterRestore, kernel, TypeOK, VarsOK, StateType
  <2>2. \E from, to : from \notin Removing /\ MainAt(from) /\ MainGoto(to)
    BY <1>8, Zenon DEF RestoreFlags, AfterRestore, Removing, MainAt, MainGoto
  <2> QED
    BY <2>1, <2>2, StopElsewhere
<1>9. CASE ResetState
  <2>1. UNCHANGED <<process, disposition>> /\ state'.handlersInstalled \in {FALSE, state.handlersInstalled}
    BY <1>9 DEF ResetState, FreshState, kernel, TypeOK, VarsOK, StateType
  <2>2. \E from, to : from \notin Removing /\ MainAt(from) /\ MainGoto(to)
    BY <1>9, Zenon DEF ResetState, FreshState, Removing
  <2> QED
    BY <2>1, <2>2, StopElsewhere
<1> QED
  BY <1>1, <1>2, <1>3, <1>4, <1>5, <1>6, <1>7, <1>8, <1>9 DEF Shutdown,
     EmergencyRestore

\* What a handler that terminates or stops the process has done before.
LEMMA Terminates ==
  ASSUME RestoreInv, StopInv, NEW s \in Signals \ Harmless,
         pc[s] \in {"h_action", "h_dispatch", "h_reinstall"}
  PROVE  Changed \subseteq torn \/ MidRestore
BY DEF RestoreInv, FlagTruth, StopInv

\* The application's action for a harmless signal does neither.
LEMMA TakesHarmless ==
  ASSUME TypeOK, NEW s \in Harmless, TakeAction(s, appAction[s])
  PROVE  UNCHANGED process
BY SignalAssumption DEF TakeAction, TypeOK, VarsOK, Harmless

\* Handlers stop or end the process only after emergencyRestore().
LEMMA StopHandler ==
  ASSUME TypeOK, Custody, RestoreInv, StopInv, NEW s \in Signals, Handler(s)
  PROVE  StopInv'
<1>1. /\ pc'["main"] = pc["main"] /\ UNCHANGED <<local, state, appAction>>
      /\ pc[s] # "off" /\ \A z \in Signals \ {s} : pc'[z] = pc[z]
  BY HandlerKeepsMain
<1>2. Harmless \subseteq Signals /\ Frames = {"main"} \cup Signals
  BY SignalAssumption DEF Frames
<1>3. pc \in [Frames -> MainLabels \cup HandlerLabels] /\ disposition \in [Signals -> Kinds]
  BY DEF TypeOK, PcOK, VarsOK
<1>4. process = "running"
  BY Zenon
  DEF Handler, EmergencyRestore, RestoreCheck, RestoreMark, RestoreWrite,
      RestoreAttributes, RestoreFlags, HandleResize, HandleContinue, HandleAction,
      DispatchPrevious, ReinstallCurrentHandler, HandleFlags, HandlerReturn, At
<1>5. Guarded' <=> Guarded
  BY <1>1 DEF Guarded
<1>6. state.oldActions[s] = appAction[s]
  BY <1>1 DEF Custody
<1>7. CASE EmergencyRestore(s)
  <2>1. UNCHANGED <<disposition, process>>
    BY <1>7 DEF EmergencyRestore, RestoreCheck, RestoreMark, RestoreWrite,
                RestoreAttributes, RestoreFlags, kernel
  <2>2. pc[s] \in {"er_check", "er_mark"} \cup Restoring
    BY <1>7 DEF EmergencyRestore, RestoreCheck, RestoreMark, RestoreWrite,
                RestoreAttributes, RestoreFlags, At, Restoring
  <2>3. s \notin Harmless
    BY <2>2 DEF StopInv, HarmlessLabels, Restoring
  <2>4. emergencyRestored => emergencyRestored'
    BY <1>7 DEF EmergencyRestore, RestoreCheck, RestoreMark, RestoreWrite,
                RestoreAttributes, RestoreFlags, flags
  <2>5. pc'[s] \notin {"h_reinstall", "h_resize", "h_continue"} /\ pc[s] # "h_reinstall"
        /\ (pc'[s] \in {"h_action", "h_dispatch", "h_reinstall", "h_flags"} => emergencyRestored')
    <3>1. CASE RestoreCheck(s)
      BY <1>2, <1>3, <3>1, SignalFacts DEF RestoreCheck, AfterRestore, At, Goto,
         flags
    <3>2. CASE RestoreMark(s)
      BY <1>2, <1>3, <3>2 DEF RestoreMark, At, Goto
    <3>3. CASE RestoreWrite(s)
      BY <1>2, <1>3, <3>3 DEF RestoreWrite, At, Goto
    <3>4. CASE RestoreAttributes(s)
      BY <1>2, <1>3, <3>4 DEF RestoreAttributes, At, Goto
    <3>5. CASE RestoreFlags(s)
      <4>1. emergencyRestored
        BY <1>2, <3>5 DEF RestoreFlags, At, RestoreInv, ProgressOK, Restoring
      <4> QED
        BY <1>2, <1>3, <2>4, <3>5, <4>1, SignalFacts DEF RestoreFlags,
           AfterRestore, At, Goto
    <3> QED
      BY <1>7, <3>1, <3>2, <3>3, <3>4, <3>5 DEF EmergencyRestore
  <2> QED
    BY <1>1, <1>2, <1>4, <1>5, <2>1, <2>3, <2>4, <2>5 DEF StopInv, StopsRestored
<1>8. CASE HandleResize(s) \/ HandleContinue(s) \/ HandleFlags(s) \/ HandlerReturn(s)
  <2>1. /\ UNCHANGED <<disposition, process, emergencyRestored>> /\ pc[s] # "h_reinstall"
        /\ pc'[s] \in {"h_dispatch", "h_return", "off"}
        /\ pc'[s] = "h_dispatch" => pc[s] \in {"h_resize", "h_continue"}
    BY <1>2, <1>3, <1>8
    DEF HandleResize, HandleContinue, HandleFlags, HandlerReturn, At, Goto, kernel, flags
  <2> QED
    BY <1>1, <1>2, <1>4, <1>5, <2>1 DEF StopInv, HarmlessLabels, StopsRestored
<1>9. CASE HandleAction(s)
  <2>1. /\ UNCHANGED <<tty, torn, disposition, emergencyRestored>>
        /\ pc[s] = "h_action" /\ pc'[s] \in {"h_dispatch", "h_flags"}
    BY <1>2, <1>3, <1>9 DEF HandleAction, At, Goto, flags
  <2>2. s \notin Harmless
    BY <2>1 DEF StopInv, HarmlessLabels
  <2>3. Changed' \subseteq torn' \/ MidRestore'
    BY <1>1, <1>2, <2>1, <2>2, Terminates DEF Changed, MidRestore, Restoring
  <2> QED
    BY <1>1, <1>2, <1>5, <2>1, <2>2, <2>3 DEF StopInv, StopsRestored
<1>10. CASE DispatchPrevious(s)
  <2>1. /\ UNCHANGED <<tty, torn, emergencyRestored>>
        /\ pc[s] = "h_dispatch"
    BY <1>10 DEF DispatchPrevious, At, flags
  <2>2. \/ UNCHANGED <<disposition, process>> /\ pc'[s] = AfterDispatch(s)
        \/ /\ disposition' = [disposition EXCEPT ![s] = appAction[s]]
           /\ TakeAction(s, appAction[s]) /\ pc'[s] = "h_reinstall"
    BY <1>2, <1>3, <1>6, <1>10 DEF DispatchPrevious, Goto
  <2>3. AfterDispatch(s) = IF s \in Harmless THEN "h_return" ELSE "h_flags"
    BY DEF AfterDispatch
  <2>4. CASE s \in Harmless
    <3>1. UNCHANGED process
      BY <2>2, <2>4, TakesHarmless
    <3> QED
      BY <1>1, <1>2, <1>3, <1>4, <1>5, <2>1, <2>2, <2>3, <2>4, <3>1
      DEF StopInv, HarmlessLabels, StopsRestored
  <2>5. CASE s \notin Harmless
    <3>1. Changed' \subseteq torn' \/ MidRestore'
      BY <1>1, <1>2, <2>1, <2>5, Terminates DEF Changed, MidRestore, Restoring
    <3> QED
      BY <1>1, <1>2, <1>3, <1>5, <2>1, <2>2, <2>3, <2>5, <3>1
      DEF StopInv, StopsRestored
  <2> QED
    BY <2>4, <2>5
<1>11. CASE ReinstallCurrentHandler(s)
  <2>1. /\ UNCHANGED <<process, emergencyRestored>> /\ pc[s] = "h_reinstall"
        /\ disposition' = [disposition EXCEPT ![s] = "ours"]
        /\ pc'[s] = IF s \in Harmless THEN "h_return" ELSE "h_flags"
    BY <1>2, <1>3, <1>11 DEF ReinstallCurrentHandler, AfterDispatch, At, Goto, flags
  <2> QED
    BY <1>1, <1>2, <1>3, <1>4, <1>5, <2>1 DEF StopInv, HarmlessLabels, StopsRestored
<1> QED
  BY <1>7, <1>8, <1>9, <1>10, <1>11 DEF Handler

\* While a session's handlers are in, the application's own action is in place
\* only inside dispatchPrevious().
LEMMA StopEnvironment ==
  ASSUME TypeOK, Custody, RestoreInv, StopInv, Environment
  PROVE  StopInv'
<1>1. Harmless \subseteq Signals /\ Frames = {"main"} \cup Signals
  BY SignalAssumption DEF Frames
<1>2. CASE WaitEnds
  <2>1. \E from, to : from \notin Removing /\ MainAt(from) /\ MainGoto(to)
    BY <1>2, Zenon DEF WaitEnds, AppThrow, Removing
  <2> QED
    BY <1>2, <2>1, StopElsewhere DEF WaitEnds, AppThrow, kernel
<1>3. ASSUME NEW s \in Signals, DeliverOurs(s) PROVE StopInv'
  <2>1. /\ UNCHANGED <<disposition, process, state, emergencyRestored>>
        /\ process = "running" /\ pc[s] = "off" /\ disposition[s] = "ours"
    BY <1>3 DEF DeliverOurs, Deliverable, flags
  <2>2. /\ pc'["main"] = pc["main"] /\ \A z \in Signals \ {s} : pc'[z] = pc[z]
        /\ pc'[s] \in IF s \in Harmless THEN {"h_resize", "h_continue"} ELSE {"er_check"}
    BY <1>1, <1>3, SignalFacts
    DEF DeliverOurs, HandlerEntry, Harmless, Goto, TypeOK, PcOK
  <2> QED
    BY <1>1, <2>1, <2>2 DEF StopInv, HarmlessLabels, StopsRestored, Guarded
<1>4. ASSUME NEW s \in Signals, DeliverOther(s) PROVE StopInv'
  <2>1. /\ UNCHANGED <<tty, torn, disposition, state, emergencyRestored, pc>>
        /\ process = "running" /\ disposition[s] # "ours"
        /\ TakeAction(s, disposition[s])
    BY <1>4 DEF DeliverOther, flags
  <2>2. CASE s \in Harmless
    <3>1. UNCHANGED process
      BY <2>1, <2>2, TakesHarmless DEF Custody
    <3> QED
      BY <2>1, <3>1 DEF StopInv, StopsRestored, Guarded
  <2>3. CASE s \notin Harmless
    <3>1. Guarded => Changed \subseteq torn \/ MidRestore
      BY <2>1, <2>3, Terminates DEF StopInv
    <3> QED
      BY <2>1, <3>1 DEF StopInv, StopsRestored, Guarded, Changed, MidRestore
  <2> QED
    BY <2>2, <2>3
<1>5. ASSUME NEW s \in Signals, Raise(s) PROVE StopInv'
  BY <1>5 DEF Raise, StopInv, StopsRestored, Guarded, Changed, MidRestore, flags
<1>6. ASSUME NEW size \in Sizes, Resize(size) PROVE StopInv'
  BY <1>6 DEF Resize, StopInv, StopsRestored, Guarded, Changed, MidRestore, flags
<1> QED
  BY <1>2, <1>3, <1>4, <1>5, <1>6 DEF Environment

\* The invariant holds before the first session,
LEMMA StopInit == Init => StopInv
<1> SUFFICES ASSUME Init PROVE StopInv
  OBVIOUS
<1>1. \A s \in Signals : pc[s] = "off"
  BY SignalFacts DEF Init, Frames
<1>2. ~Guarded /\ Harmless \subseteq Signals
  BY SignalAssumption DEF Init, Guarded, FreshState
<1> QED
  BY <1>1, <1>2 DEF StopInv, HarmlessLabels, StopsRestored

\* and every step preserves it.
LEMMA StopStep ==
  ASSUME SessionInv, RestoreInv, StopInv, [Next]_vars
  PROVE  StopInv'
<1>1. TypeOK /\ Custody
  BY DEF SessionInv
<1>2. CASE Main
  BY <1>1, <1>2, StopConstruct, StopApplication, StopShutdown DEF Main
<1>3. CASE Environment
  BY <1>1, <1>3, StopEnvironment
<1>4. CASE \E s \in Signals : Handler(s)
  BY <1>1, <1>4, StopHandler
<1>5. CASE UNCHANGED vars
  BY <1>5
  DEF vars, kernel, flags, StopInv, StopsRestored, Guarded, Changed, MidRestore
<1> QED
  BY <1>2, <1>3, <1>4, <1>5 DEF Next

\* No signal stops or ends the process over a part of the terminal that the
\* session has changed, unless it arrives inside emergencyRestore() or the part
\* is torn (signalHandler()).
THEOREM StopsOnlyRestored == Spec => []StopsRestored
<1>1. Spec => []StopInv
  BY StopInit, StopStep, SessionInvariant, RestoreInvariant, PTL DEF Spec
<1>2. StopInv => StopsRestored
  BY DEF StopInv
<1> QED
  BY <1>1, <1>2, PTL
-----------------------------------------------------------------------------
(* UpdatedInSession and RepaintOwed: whoever puts the terminal back while  *)
(* the application runs leaves the request to take it again.               *)

\* What ResumeInv asks of main at a label when no handler is on the stack.
Due(label) ==
  /\ InForce(label) \/ resumeRequested
  /\ Stale => resumeRequested \/ label \in Reapplying
  /\ label \in Framed \/ console.frame = NoFrame

\* Main runs with no handler on the stack, so it owes what Due says.
LEMMA ResumeMain ==
  ASSUME TypeOK, ResumeInv, NEW from, NEW to, MainAt(from), MainGoto(to),
         Due(from) => Due(to)'
  PROVE  ResumeInv'
<1>1. pc["main"] = from /\ \A s \in Signals : pc[s] = "off"
  BY MainAlone
<1>2. pc'["main"] = to /\ \A s \in Signals : pc'[s] = "off"
  BY <1>1, SignalFacts DEF MainGoto, Goto, TypeOK, PcOK, Frames
<1>3. Due(from)
  BY <1>1 DEF ResumeInv, Due, WillResume, Owing, OwingLabels, Restoring
<1>4. Due(to)'
  BY <1>3
<1>5. Harmless \subseteq Signals
  BY SignalAssumption
<1> QED
  BY <1>2, <1>4, <1>5 DEF ResumeInv, Due, WillResume, HarmlessLabels

\* A step of main that touches neither the terminal nor the frame, and that
\* skips no step towards the session's modes.
LEMMA ResumeQuiet ==
  ASSUME TypeOK, ResumeInv, NEW from, NEW to, MainAt(from), MainGoto(to),
         UNCHANGED <<tty, console, resumeRequested>>,
         to \in AfterAll => from \in AfterAll,
         to \in AfterNonBlocking => from \in AfterNonBlocking,
         to \in AfterRaw => from \in AfterRaw,
         from \notin Reapplying,
         from \in Framed => to \in Framed
  PROVE  ResumeInv'
BY ResumeMain DEF Due, InForce, Stale

\* A step that moves nothing ResumeInv speaks of.
LEMMA ResumeStill ==
  ASSUME ResumeInv, UNCHANGED <<tty, console, resumeRequested, pc>>
  PROVE  ResumeInv'
BY DEF ResumeInv, InForce, WillResume, Owing, Stale

\* The constructor and platformInitialize() set the modes one by one.
LEMMA ResumeConstruct ==
  ASSUME TypeOK, ResumeInv, Construct
  PROVE  ResumeInv'
<1> USE DEF Framed, UpdateLabels, Reapplying, AfterAll, AfterNonBlocking, AfterRaw
<1>1. CASE StartSession
  BY <1>1, ResumeQuiet DEF StartSession, flags
<1>2. CASE NotATerminal
  BY <1>2, ResumeQuiet DEF NotATerminal, Throw, flags
<1>3. CASE SaveOriginals
  <2>1. MainAt("c_query") /\ (MainGoto("c_raw") \/ MainGoto("d_enter"))
    BY <1>3, Zenon DEF SaveOriginals
  <2>2. UNCHANGED <<tty, console>>
    BY <1>3 DEF SaveOriginals
  <2> QED
    BY <2>1, <2>2, ResumeMain DEF Due, InForce, Stale
<1>4. CASE SetRaw("c_raw", "c_nonblock", ThrowInTry)
  <2>1. MainAt("c_raw") /\ UNCHANGED <<console, resumeRequested>>
    BY <1>4 DEF SetRaw, flags
  <2>2. \/ MainGoto("c_nonblock") /\ tty' = [tty EXCEPT !.raw = TRUE]
        \/ MainGoto("er_check") /\ UNCHANGED tty
    BY <1>4 DEF SetRaw, ThrowInTry
  <2> QED
    BY <2>1, <2>2, ResumeMain DEF Due, InForce, Stale, TypeOK, VarsOK, TtyType
<1>5. CASE SetNonBlocking("c_nonblock", IF InstallHandlers THEN "c_install" ELSE "c_write",
                       ThrowInTry)
  <2>1. MainAt("c_nonblock") /\ UNCHANGED <<console, resumeRequested>>
    BY <1>5 DEF SetNonBlocking, flags
  <2>2. \/ /\ MainGoto("c_install") \/ MainGoto("c_write")
           /\ tty' = [tty EXCEPT !.nonblock = TRUE]
        \/ MainGoto("er_check") /\ UNCHANGED tty
    BY <1>5 DEF SetNonBlocking, ThrowInTry
  <2> QED
    BY <2>1, <2>2, ResumeMain DEF Due, InForce, Stale, TypeOK, VarsOK, TtyType
<1>6. CASE InstallHandler
  <2>1. MainAt("c_install") /\ UNCHANGED <<tty, console, resumeRequested>>
    BY <1>6 DEF InstallHandler, flags
  <2>2. UNCHANGED pc \/ MainGoto("c_rollback")
    BY <1>6 DEF InstallHandler
  <2> QED
    BY <2>1, <2>2, ResumeQuiet, ResumeStill
<1>7. CASE InstalledAll
  BY <1>7, ResumeQuiet DEF InstalledAll, flags
<1>8. CASE RollbackHandler
  BY <1>8, ResumeStill DEF RollbackHandler, PutBackOne, flags
<1>9. CASE RolledBack
  BY <1>9, ResumeQuiet DEF RolledBack, ThrowInTry, flags
<1>10. CASE WriteStartup("c_write", "c_done", ThrowInTry)
  <2>1. /\ MainAt("c_write") /\ UNCHANGED resumeRequested
        /\ console' = [console EXCEPT !.shown = FALSE]
    BY <1>10 DEF WriteStartup, flags
  <2>2. \/ MainGoto("c_done") /\ tty' = [tty EXCEPT !.modes = "session"]
        \/ MainGoto("er_check")
    BY <1>10 DEF WriteStartup, ThrowInTry
  <2> QED
    BY <2>1, <2>2, ResumeMain DEF Due, InForce, Stale, TypeOK, VarsOK, TtyType
<1>11. CASE WrittenStartup
  BY <1>11, ResumeQuiet DEF WrittenStartup, flags
<1>12. CASE QuerySize("c_size", "c_ack", Throw)
  BY <1>12, ResumeQuiet DEF QuerySize, Throw, flags
<1>13. CASE FinishConstruction
  <2>1. MainAt("c_ack") /\ UNCHANGED <<tty, resumeRequested>>
    BY <1>13 DEF FinishConstruction, AcknowledgeResize
  <2>2. MainGoto("loop") \/ MainGoto("d_enter")
    BY <1>13 DEF FinishConstruction, Throw
  <2>3. console' = console \/ console'.first
    BY <1>13 DEF FinishConstruction
  <2> QED
    BY <2>1, <2>2, <2>3, ResumeMain DEF Due, InForce, Stale
<1> QED
  BY <1>1, <1>2, <1>3, <1>4, <1>5, <1>6, <1>7, <1>8, <1>9, <1>10, <1>11, <1>12,
     <1>13 DEF Construct, PlatformInitialize

\* The system calls of a reapplication do not fail.
Reapplied == {"u_raw", "u_nonblock", "u_write"} \cap FailPoints = {}

\* The frame loop honours a request to resume before it clears it, and the
\* calls the application makes around it leave the modes alone.
LEMMA ResumeApplication ==
  ASSUME TypeOK, ReturnsOK, ResumeInv, Reapplied,
         Frame \/ TerminalSize \/ AppCatch \/ Destroy
  PROVE  ResumeInv'
<1> USE DEF Framed, UpdateLabels, Reapplying, AfterAll, AfterNonBlocking, AfterRaw
<1>1. CASE UpdateCheck
  BY <1>1, ResumeQuiet DEF UpdateCheck, flags
<1>2. CASE UpdateResume
  <2>1. MainAt("u_resume") /\ UNCHANGED <<tty, console>>
    BY <1>2 DEF UpdateResume
  <2>2. CASE resumeRequested
    BY <1>2, <2>1, <2>2, ResumeMain DEF UpdateResume, Due, InForce, Stale
  <2>3. CASE ~resumeRequested
    <3>1. MainGoto("u_size") \/ MainGoto("updated")
      BY <1>2, <2>3 DEF UpdateResume
    <3> QED
      BY <2>1, <2>3, <3>1, ResumeMain DEF Due, InForce, Stale
  <2> QED
    BY <2>2, <2>3
<1>3. CASE SetRaw("u_raw", "u_nonblock", AppThrow)
  <2>1. /\ MainAt("u_raw") /\ UNCHANGED <<console, resumeRequested>>
        /\ MainGoto("u_nonblock") /\ tty' = [tty EXCEPT !.raw = TRUE]
    BY <1>3 DEF SetRaw, flags, Reapplied
  <2> QED
    BY <2>1, ResumeMain DEF Due, InForce, Stale, TypeOK, VarsOK, TtyType
<1>4. CASE SetNonBlocking("u_nonblock", "u_write", AppThrow)
  <2>1. /\ MainAt("u_nonblock") /\ UNCHANGED <<console, resumeRequested>>
        /\ MainGoto("u_write") /\ tty' = [tty EXCEPT !.nonblock = TRUE]
    BY <1>4 DEF SetNonBlocking, flags, Reapplied
  <2> QED
    BY <2>1, ResumeMain DEF Due, InForce, Stale, TypeOK, VarsOK, TtyType
<1>5. CASE WriteStartup("u_write", "u_clear", AppThrow)
  <2>1. /\ MainAt("u_write") /\ UNCHANGED resumeRequested
        /\ MainGoto("u_clear") /\ tty' = [tty EXCEPT !.modes = "session"]
    BY <1>5 DEF WriteStartup, flags, Reapplied
  <2> QED
    BY <2>1, ResumeMain DEF Due, InForce, Stale, TypeOK, VarsOK, TtyType
<1>6. CASE UpdateResumed
  <2>1. /\ MainAt("u_clear") /\ UNCHANGED <<tty, resumeRequested>>
        /\ MainGoto("u_size")
        /\ console'.frame = NoFrame \/ console'.first
    BY <1>6 DEF UpdateResumed, Invalidated, TypeOK, VarsOK
  <2> QED
    BY <2>1, ResumeMain DEF Due, InForce, Stale
<1>7. CASE QuerySize("u_size", "u_ack", AppThrow)
  BY <1>7, ResumeQuiet DEF QuerySize, AppThrow, flags
<1>8. CASE ResizeToTerminal
  <2>1. MainAt("u_ack") /\ UNCHANGED <<tty, resumeRequested>>
    BY <1>8 DEF ResizeToTerminal, AcknowledgeResize
  <2>2. MainGoto("updated") \/ MainGoto("thrown")
    BY <1>8 DEF ResizeToTerminal, AppThrow
  <2>3. console' = console \/ console'.first
    BY <1>8 DEF ResizeToTerminal, TypeOK, VarsOK
  <2> QED
    BY <2>1, <2>2, <2>3, ResumeMain DEF Due, InForce, Stale
<1>9. CASE ReadInput
  <2>1. MainAt("updated") /\ UNCHANGED <<tty, console, resumeRequested>>
    BY <1>9 DEF ReadInput, flags
  <2>2. MainGoto("blocked") \/ MainGoto("polled") \/ MainGoto("thrown")
    BY <1>9, Zenon DEF ReadInput, AppThrow
  <2> QED
    BY <2>1, <2>2, ResumeQuiet
<1>10. CASE EndFrame
  <2>1. MainAt("polled") /\ UNCHANGED <<tty, resumeRequested>>
    BY <1>10 DEF EndFrame, flags
  <2>2. MainGoto("loop") \/ MainGoto("thrown")
    BY <1>10 DEF EndFrame, AppThrow
  <2>3. Stale' => Stale
    BY <1>10 DEF EndFrame, Stale, TypeOK, VarsOK
  <2> QED
    BY <2>1, <2>2, <2>3, ResumeMain DEF Due, InForce
<1>11. CASE CallTerminalSize
  BY <1>11, ResumeQuiet DEF CallTerminalSize, flags
<1>12. CASE QuerySize("t_size", "t_ack", AppThrow)
  BY <1>12, ResumeQuiet DEF QuerySize, AppThrow, flags
<1>13. CASE TerminalSizeReturns
  <2>1. MainAt("t_ack") /\ UNCHANGED <<tty, console, resumeRequested>>
    BY <1>13 DEF TerminalSizeReturns, AcknowledgeResize
  <2>2. MainGoto("loop") \/ MainGoto("updated") \/ MainGoto("polled")
    BY <1>13, <2>1, MainAlone DEF TerminalSizeReturns, ReturnsOK, AppLabels
  <2> QED
    BY <2>1, <2>2, ResumeQuiet
<1>14. CASE AppCatch
  BY <1>14, ResumeQuiet DEF AppCatch, flags
<1>15. CASE Destroy
  BY <1>15, ResumeQuiet DEF Destroy, flags
<1> QED
  BY <1>1, <1>2, <1>3, <1>4, <1>5, <1>6, <1>7, <1>8, <1>9, <1>10, <1>11, <1>12,
     <1>13, <1>14, <1>15 DEF Frame, Update, TerminalSize

\* The destructor has given the framebuffer up before it restores anything.
LEMMA ResumeShutdown ==
  ASSUME TypeOK, ReturnsOK, ResumeInv, Shutdown
  PROVE  ResumeInv'
<1> USE DEF Framed, UpdateLabels, Reapplying, AfterAll, AfterNonBlocking, AfterRaw
<1>1. CASE PlatformShutdown
  <2>1. /\ MainAt("d_enter") /\ UNCHANGED <<tty, resumeRequested>>
        /\ MainGoto("d_remove") \/ MainGoto("idle")
        /\ console'.frame = NoFrame
    BY <1>1 DEF PlatformShutdown, ClosedConsole, flags
  <2> QED
    BY <2>1, ResumeMain DEF Due, InForce, Stale
<1>2. CASE \E label \in {"f_remove", "d_remove"} : RemoveHandler(label)
  BY <1>2, ResumeStill DEF RemoveHandler, PutBackOne, flags
<1>3. CASE \E label \in {"f_remove", "d_remove"} : HandlersRemoved(label)
  <2>1. UNCHANGED <<tty, console, resumeRequested>>
    BY <1>3 DEF HandlersRemoved, flags
  <2>2. \/ MainAt("f_remove") /\ MainGoto("d_enter")
        \/ MainAt("d_remove") /\ MainGoto("er_check")
    BY <1>3 DEF HandlersRemoved, Throw
  <2> QED
    BY <2>1, <2>2, ResumeQuiet
<1>4. ASSUME EmergencyRestore("main") PROVE ResumeInv'
  <2>1. /\ UNCHANGED resumeRequested
        /\ UNCHANGED console \/ console' = [console EXCEPT !.shown = FALSE]
    BY <1>4 DEF EmergencyRestore, RestoreCheck, RestoreMark, RestoreWrite,
       RestoreAttributes, RestoreFlags, flags
  <2>2. \E from \in {"er_check", "er_mark"} \cup Restoring : MainAt(from)
    BY <1>4 DEF EmergencyRestore, RestoreCheck, RestoreMark, RestoreWrite,
       RestoreAttributes, RestoreFlags, MainAt, Restoring
  <2>3. local.ret \in {"d_reset", "f_remove"}
    BY <2>2, MainAlone DEF ReturnsOK, MainRestoring
  <2>4. \E to \in {"er_mark", "d_reset", "f_remove"} \cup Restoring : MainGoto(to)
    BY <1>4, <2>3 DEF EmergencyRestore, RestoreCheck, RestoreMark, RestoreWrite,
       RestoreAttributes, RestoreFlags, MainGoto, Restoring, AfterRestore
  <2> QED
    BY <2>1, <2>2, <2>4, ResumeMain
    DEF Due, InForce, Stale, Restoring, TypeOK, VarsOK
<1>5. CASE ResetState
  <2>1. MainAt("d_reset") /\ MainGoto("idle") /\ UNCHANGED <<tty, console>>
    BY <1>5 DEF ResetState
  <2> QED
    BY <2>1, ResumeMain DEF Due, InForce, Stale
<1> QED
  BY <1>1, <1>2, <1>3, <1>4, <1>5 DEF Shutdown

\* A handler that touches the terminal, or ends its turn, leaves the request.
LEMMA ResumeMoves ==
  ASSUME TypeOK, ResumeInv, NEW s \in Signals, NEW from, NEW to, At(s, from),
         Handler(s), Goto(s, to), resumeRequested => resumeRequested',
         s \in Harmless => to \in HarmlessLabels,
         from \in OwingLabels /\ s \notin Harmless
           => to \in OwingLabels \/ resumeRequested',
         \/ UNCHANGED <<tty, console>>
         \/ s \notin Harmless /\ to \in OwingLabels /\ console'.frame = console.frame
  PROVE  ResumeInv'
<1>1. /\ pc[s] = from /\ pc'[s] = to /\ pc'["main"] = pc["main"]
      /\ \A z \in Signals \ {s} : pc'[z] = pc[z]
  BY HandlerKeepsMain, HandlerOnTop, SignalFacts DEF Goto, TypeOK, PcOK
<1>2. WillResume => WillResume'
  BY <1>1 DEF WillResume, Owing
<1>3. Harmless \subseteq Signals
  BY SignalAssumption
<1>4. \A z \in Harmless : pc'[z] \in HarmlessLabels
  BY <1>1, <1>3 DEF ResumeInv
<1>5. CASE UNCHANGED <<tty, console>>
  BY <1>1, <1>2, <1>4, <1>5 DEF ResumeInv, InForce, Stale
<1>6. CASE s \notin Harmless /\ to \in OwingLabels /\ console'.frame = console.frame
  <2>1. WillResume'
    BY <1>1, <1>6 DEF WillResume, Owing
  <2> QED
    BY <1>1, <1>4, <1>6, <2>1 DEF ResumeInv
<1> QED
  BY <1>5, <1>6

\* Every handler that restores ends by asking for the modes again.
LEMMA ResumeHandler ==
  ASSUME TypeOK, ResumeInv, NEW s \in Signals, Handler(s)
  PROVE  ResumeInv'
<1> USE DEF OwingLabels, HarmlessLabels, Restoring
<1>1. ASSUME NEW label, At(s, label), s \in Harmless PROVE label \in HarmlessLabels
  BY <1>1, HandlerOnTop DEF ResumeInv
<1>2. CASE RestoreCheck(s)
  <2>1. At(s, "er_check") /\ UNCHANGED <<tty, console, resumeRequested>>
    BY <1>2 DEF RestoreCheck, flags
  <2>2. Goto(s, "er_mark") \/ Goto(s, "h_action")
    BY <1>2, SignalFacts DEF RestoreCheck, AfterRestore
  <2> QED
    BY <1>1, <2>1, <2>2, ResumeMoves
<1>3. CASE RestoreMark(s)
  BY <1>1, <1>3, ResumeMoves DEF RestoreMark
<1>4. CASE RestoreWrite(s)
  <2>1. /\ At(s, "er_write") /\ Goto(s, "er_attr") /\ UNCHANGED resumeRequested
        /\ console'.frame = console.frame
    BY <1>4 DEF RestoreWrite, flags, TypeOK, VarsOK
  <2> QED
    BY <1>1, <2>1, ResumeMoves
<1>5. CASE RestoreAttributes(s)
  BY <1>1, <1>5, ResumeMoves DEF RestoreAttributes, flags
<1>6. CASE RestoreFlags(s)
  <2>1. /\ At(s, "er_flags") /\ Goto(s, "h_action")
        /\ UNCHANGED <<console, resumeRequested>>
    BY <1>6, SignalFacts DEF RestoreFlags, AfterRestore, flags
  <2> QED
    BY <1>1, <2>1, ResumeMoves
<1>7. CASE HandleResize(s)
  BY <1>7, ResumeMoves DEF HandleResize
<1>8. CASE HandleContinue(s)
  BY <1>8, ResumeMoves DEF HandleContinue
<1>9. CASE HandleAction(s)
  <2>1. At(s, "h_action") /\ UNCHANGED <<tty, console, resumeRequested>>
    BY <1>9 DEF HandleAction, flags
  <2>2. Goto(s, "h_flags") \/ Goto(s, "h_dispatch")
    BY <1>9 DEF HandleAction
  <2> QED
    BY <1>1, <2>1, <2>2, ResumeMoves
<1>10. CASE DispatchPrevious(s)
  <2>1. At(s, "h_dispatch") /\ UNCHANGED <<tty, console, resumeRequested>>
    BY <1>10 DEF DispatchPrevious, flags
  <2>2. Goto(s, AfterDispatch(s)) \/ Goto(s, "h_reinstall")
    BY <1>10 DEF DispatchPrevious
  <2>3. AfterDispatch(s) = IF s \in Harmless THEN "h_return" ELSE "h_flags"
    BY DEF AfterDispatch
  <2> QED
    BY <2>1, <2>2, <2>3, ResumeMoves
<1>11. CASE ReinstallCurrentHandler(s)
  <2>1. At(s, "h_reinstall") /\ UNCHANGED <<tty, console, resumeRequested>>
    BY <1>11 DEF ReinstallCurrentHandler, flags
  <2>2. Goto(s, IF s \in Harmless THEN "h_return" ELSE "h_flags")
    BY <1>11 DEF ReinstallCurrentHandler, AfterDispatch
  <2> QED
    BY <2>1, <2>2, ResumeMoves
<1>12. CASE HandleFlags(s)
  BY <1>12, ResumeMoves DEF HandleFlags
<1>13. CASE HandlerReturn(s)
  BY <1>13, ResumeMoves DEF HandlerReturn, flags
<1> QED
  BY <1>2, <1>3, <1>4, <1>5, <1>6, <1>7, <1>8, <1>9, <1>10, <1>11, <1>12, <1>13
     DEF Handler, EmergencyRestore

\* The kernel and other processes change neither the modes nor the frame.
LEMMA ResumeEnvironment ==
  ASSUME TypeOK, ResumeInv, Environment
  PROVE  ResumeInv'
<1>1. CASE WaitEnds
  BY <1>1, ResumeQuiet
  DEF WaitEnds, AppThrow, flags, Framed, UpdateLabels, Reapplying, AfterAll,
      AfterNonBlocking, AfterRaw
<1>2. ASSUME NEW s \in Signals, DeliverOurs(s) PROVE ResumeInv'
  <2>1. /\ UNCHANGED <<tty, console, resumeRequested>> /\ pc[s] = "off"
        /\ pc'["main"] = pc["main"] /\ pc'[s] = HandlerEntry(s)
        /\ \A z \in Signals \ {s} : pc'[z] = pc[z]
    BY <1>2, SignalFacts DEF DeliverOurs, Deliverable, Goto, flags, TypeOK, PcOK, Frames
  <2>2. WillResume => WillResume'
    BY <2>1 DEF WillResume, Owing, OwingLabels, Restoring
  <2>3. s \in Harmless => pc'[s] \in HarmlessLabels
    BY <2>1 DEF HandlerEntry, Harmless, HarmlessLabels
  <2>4. Harmless \subseteq Signals
    BY SignalAssumption
  <2> QED
    BY <2>1, <2>2, <2>3, <2>4 DEF ResumeInv, InForce, Stale
<1>3. ASSUME NEW s \in Signals, Raise(s) \/ DeliverOther(s) PROVE ResumeInv'
  BY <1>3, ResumeStill DEF Raise, DeliverOther, flags
<1>4. ASSUME NEW size \in Sizes, Resize(size) PROVE ResumeInv'
  BY <1>4, ResumeStill DEF Resize, flags
<1> QED
  BY <1>1, <1>2, <1>3, <1>4 DEF Environment

\* Nothing is owed before the first session,
LEMMA ResumeInit == Init => ResumeInv
<1> SUFFICES ASSUME Init PROVE ResumeInv
  OBVIOUS
<1>1. pc["main"] = "idle" /\ \A s \in Signals : pc[s] = "off"
  BY SignalFacts DEF Init, Frames
<1>2. console.frame = NoFrame
  BY DEF Init, ClosedConsole
<1>3. Harmless \subseteq Signals
  BY SignalAssumption
<1> QED
  BY <1>1, <1>2, <1>3
  DEF ResumeInv, InForce, Stale, HarmlessLabels, AfterAll, AfterNonBlocking, AfterRaw

\* and every step pays for what it takes, unless a reapplication fails.
LEMMA ResumeStep ==
  ASSUME Reapplied, SessionInv, ResumeInv, [Next]_vars
  PROVE  ResumeInv'
<1>1. TypeOK /\ ReturnsOK
  BY DEF SessionInv
<1>2. CASE Main
  BY <1>1, <1>2, ResumeConstruct, ResumeApplication, ResumeShutdown DEF Main
<1>3. CASE Environment
  BY <1>1, <1>3, ResumeEnvironment
<1>4. CASE \E s \in Signals : Handler(s)
  BY <1>1, <1>4, ResumeHandler
<1>5. CASE UNCHANGED vars
  BY <1>5, ResumeStill DEF vars, flags
<1> QED
  BY <1>2, <1>3, <1>4, <1>5 DEF Next

\* The invariant of every session whose reapplications succeed.
LEMMA ResumeInvariant == ASSUME Reapplied PROVE Spec => []ResumeInv
<1>1. SessionInv /\ ResumeInv /\ [Next]_vars => ResumeInv'
  BY ResumeStep
<1> QED
  BY <1>1, ResumeInit, SessionInvariant, PTL DEF Spec

\* When update() has returned and no handler is on the stack, the session's
\* modes are in force or a request to reapply them stands, whichever signals
\* came at whichever step of platformUpdate(), as long as the system calls of
\* the reapplication itself succeed.
THEOREM ModesInForce == ASSUME Reapplied PROVE Spec => []UpdatedInSession
<1>1. TypeOK /\ ResumeInv => UpdatedInSession
  <2> SUFFICES ASSUME TypeOK, ResumeInv, pc["main"] = "updated", stack = <<>>,
                      ~resumeRequested
               PROVE  tty = SessionTty
    BY DEF UpdatedInSession
  <2>1. \A s \in Signals : pc[s] = "off"
    BY DEF TypeOK, StackOK
  <2>2. ~WillResume
    BY <2>1 DEF WillResume, Owing, OwingLabels, Restoring
  <2>3. tty.raw /\ tty.nonblock /\ tty.modes = "session"
    BY <2>2 DEF ResumeInv, InForce, AfterRaw, AfterNonBlocking, AfterAll
  <2> QED
    BY <2>3 DEF SessionTty, TypeOK, VarsOK, TtyType
<1> QED
  BY <1>1, TypeCorrect, ResumeInvariant, PTL

\* A screen that no longer shows the last frame is repainted in full, however
\* the restorations and reapplications interleave, under the same proviso.
THEOREM RepaintsOwed == ASSUME Reapplied PROVE Spec => []RepaintOwed
<1>1. TypeOK /\ ResumeInv => RepaintOwed
  <2> SUFFICES ASSUME TypeOK, ResumeInv, Stale, stack = <<>>,
                      pc["main"] \notin Reapplying
               PROVE  resumeRequested
    BY DEF RepaintOwed, Stale
  <2>1. \A s \in Signals : pc[s] = "off"
    BY DEF TypeOK, StackOK
  <2> QED
    BY <2>1 DEF ResumeInv, WillResume, Owing, OwingLabels, Restoring
<1> QED
  BY <1>1, TypeCorrect, ResumeInvariant, PTL
=============================================================================
