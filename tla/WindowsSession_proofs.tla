----------------------- MODULE WindowsSession_proofs -----------------------
(***************************************************************************)
(* Proofs about the session on a Windows console, for any number of        *)
(* handler threads, events and sessions and any failures of the            *)
(* constructor.  The invariants build upon each other: what has been saved *)
(* by when; who may call the handler; who restores; what is still owed to  *)
(* the console.                                                            *)
(***************************************************************************)
EXTENDS WindowsSessionProperties, TLAPS

\* The labels at which a value has been read.
PagesSaved == {"save_title", "set_outCP", "set_inCP", "set_outMode", "set_inMode"}
InModeSaved == PagesSaved \cup {"save_pages"}
OutModeSaved == InModeSaved \cup {"save_inMode"}
TitleSaved ==
  {"set_outCP", "set_inCP", "set_outMode", "set_inMode", "install", "activate", "set_title",
   "mark_title"}
OutputThere == OutModeSaved \cup TitleSaved \cup {"save_outMode", "write"}

\* The constructor changes nothing that it has not saved.
Progress ==
  /\ pc["main"] \in OutModeSaved => state.original["outMode"] # "unsaved"
  /\ pc["main"] \in InModeSaved => state.original["inMode"] # "unsaved"
  /\ pc["main"] \in PagesSaved =>
       state.original["outCP"] # "unsaved" /\ state.original["inCP"] # "unsaved"
  /\ pc["main"] \in TitleSaved /\ options.title /\ options.restoreTitle =>
       state.original["title"] # "unsaved"
  /\ \A p \in state.changed : p \in {"outCP", "inCP"} => state.original[p] # "unsaved"
  /\ pc["main"] \in {"set_title", "mark_title"} => options.title
  /\ pc["main"] \in OutputThere => state.output
  /\ pc["main"] \in {"idle", "handles"} => state = FreshState

TypeInv == TypeOK /\ Progress

LEMMA ThreadFacts ==
  /\ "main" \in Threads
  /\ \A h \in Handlers : h \in Threads /\ h # "main"
BY SessionAssumption DEF Threads

LEMMA TypeInit == Init => TypeInv
<1> SUFFICES ASSUME Init PROVE TypeInv
  OBVIOUS
<1> USE DEF Init, FreshState, Unsaved, OriginalConsole, DefaultOptions, Options, Appearance
<1>1. TypeOK
  <2>1. pc \in [Threads -> MainLabels \cup HandlerLabels]
    BY DEF MainLabels, HandlerLabels
  <2>2. pc["main"] \in MainLabels /\ \A h \in Handlers : pc[h] \in HandlerLabels
    BY ThreadFacts DEF MainLabels, HandlerLabels
  <2>3. budget \in [controls : Nat, sessions : Nat]
    BY SessionAssumption
  <2>4. serial \in BOOLEAN
    BY SessionAssumption
  <2> QED
    BY <2>1, <2>2, <2>3, <2>4 DEF TypeOK
<1>2. pc["main"] = "idle"
  BY ThreadFacts
<1>3. Progress
  BY <1>2 DEF Progress, OutModeSaved, InModeSaved, PagesSaved, TitleSaved, OutputThere
<1> QED
  BY <1>1, <1>3 DEF TypeInv

\* restoreState() on any thread.
LEMMA TypeRestore ==
  ASSUME TypeInv, NEW t \in Threads, Restore(t)
  PROVE  TypeInv'
<1> USE DEF TypeInv, Goto
<1>1. pc[t] \in Parts \cup {"r_test"}
  BY DEF Restore, TestAndSet, RestorePart
<1>2. t # "main" => t \in Handlers
  BY DEF Threads
<1>3. /\ UNCHANGED <<installed, process, state, activeState, options, serial, torn, overtaken,
                     titleKept, budget>>
      /\ restorationStarted' \in BOOLEAN
  BY DEF Restore, TestAndSet, RestorePart, history, TypeOK
<1>4. con' \in [Parts -> Appearance]
  <2>1. CASE UNCHANGED con
    BY <2>1 DEF TypeOK
  <2>2. ASSUME NEW p \in Parts, Undone(p),
               con' = [con EXCEPT ![p] = IF p = "screen" THEN "original" ELSE state.original[p]]
        PROVE  con' \in [Parts -> Appearance]
    <3>1. p # "screen" => state.original[p] # "unsaved"
      BY <2>2 DEF Undone, Progress, Parts
    <3> QED
      BY <2>2, <3>1 DEF TypeOK, Appearance
  <2> QED
    BY <2>1, <2>2 DEF Restore, TestAndSet, RestorePart
<1>5. \E label : /\ pc' = [pc EXCEPT ![t] = label]
                 /\ label \in Parts \cup {IF t = "main" THEN "d_reset" ELSE "h_next"}
  BY DEF Restore, TestAndSet, RestorePart, After, AfterRestore, NextPart, Parts
<1>6. /\ pc' \in [Threads -> MainLabels \cup HandlerLabels]
      /\ pc'["main"] \in MainLabels
      /\ \A h \in Handlers : pc'[h] \in HandlerLabels
  BY <1>2, <1>5, ThreadFacts DEF TypeOK, MainLabels, HandlerLabels
<1>7. pc'["main"] = pc["main"] \/ pc'["main"] \in Parts \cup {"d_reset"}
  BY <1>5, ThreadFacts DEF TypeOK
<1>8. TypeOK'
  BY <1>3, <1>4, <1>6 DEF TypeOK
<1>9. Progress'
  BY <1>3, <1>7
  DEF Progress, OutModeSaved, InModeSaved, PagesSaved, TitleSaved, OutputThere, Parts
<1> QED
  BY <1>8, <1>9

\* The steps of a handler outside of restoreState().
HandlerStep(h) == Raise(h) \/ ControlHandler(h) \/ PassOn(h) \/ RaceForTitle(h)

LEMMA TypeHandler ==
  ASSUME TypeInv, NEW h \in Handlers, HandlerStep(h)
  PROVE  TypeInv'
<1> USE DEF TypeInv, HandlerStep, Raise, ControlHandler, PassOn, RaceForTitle, Goto, history
<1>1. UNCHANGED <<con, installed, state, activeState, restorationStarted, options, serial, torn,
                  overtaken, titleKept>>
  OBVIOUS
<1>2. \E label \in HandlerLabels : pc' = [pc EXCEPT ![h] = label]
  BY ThreadFacts DEF HandlerLabels, TypeOK
<1>3. process' \in {"running", "ended", "crashed"}
  BY DEF TypeOK
<1>4. budget' \in [controls : Nat, sessions : Nat]
  BY DEF TypeOK
<1>5. pc'["main"] = pc["main"]
  BY <1>2, ThreadFacts DEF TypeOK
<1>6. /\ pc' \in [Threads -> MainLabels \cup HandlerLabels]
      /\ \A g \in Handlers : pc'[g] \in HandlerLabels
  BY <1>2, ThreadFacts DEF TypeOK
<1>7. TypeOK'
  BY <1>1, <1>3, <1>4, <1>5, <1>6 DEF TypeOK
<1>8. Progress'
  BY <1>1, <1>5 DEF Progress
<1> QED
  BY <1>7, <1>8

-----------------------------------------------------------------------------
\* What the type invariant says of a step that moves the main thread on.
LEMMA TypeMain ==
  ASSUME TypeInv, NEW label \in MainLabels, pc' = [pc EXCEPT !["main"] = label],
         con' \in [Parts -> Appearance],
         installed' \in BOOLEAN, activeState' \in BOOLEAN, restorationStarted' \in BOOLEAN,
         state' \in [output : BOOLEAN, original : [Parts -> Appearance \cup {"unsaved"}],
                     changed : SUBSET Parts, handlerInstalled : BOOLEAN],
         options' \in Options,
         torn' \in BOOLEAN, overtaken' \in BOOLEAN, titleKept' \in BOOLEAN,
         budget' \in [controls : Nat, sessions : Nat],
         UNCHANGED <<process, serial>>
  PROVE  TypeOK' /\ pc'["main"] = label
<1>1. /\ pc' \in [Threads -> MainLabels \cup HandlerLabels]
      /\ pc'["main"] = label
      /\ \A h \in Handlers : pc'[h] \in HandlerLabels
  BY ThreadFacts DEF TypeInv, TypeOK
<1> QED
  BY <1>1 DEF TypeInv, TypeOK

\* The steps of the constructor that only move on, because a call failed.
LEMMA TypeFails ==
  ASSUME TypeInv, Construct, NEW label, Fails(label)
  PROVE  TypeInv'
<1> USE DEF TypeInv, Fails, Main, Goto
<1>1. /\ UNCHANGED <<con, installed, state, activeState, torn, process, restorationStarted,
                     options, serial, overtaken, budget>>
      /\ pc' = [pc EXCEPT !["main"] = "d_remove"]
  BY DEF Construct
<1>2. titleKept' \in BOOLEAN
  BY DEF Construct, TypeOK
<1>3. "d_remove" \in MainLabels
  BY DEF MainLabels
<1>4. TypeOK' /\ pc'["main"] = "d_remove"
  BY <1>1, <1>2, <1>3, TypeMain DEF TypeOK
<1>5. Progress'
  BY <1>1, <1>4
  DEF Progress, OutModeSaved, InModeSaved, PagesSaved, TitleSaved, OutputThere
<1> QED
  BY <1>4, <1>5

\* A step of the constructor, by its disjuncts.
LEMMA TypeConstruct ==
  ASSUME TypeInv, Construct
  PROVE  TypeInv'
<1> USE DEF TypeInv, Main, Goto
<1>1. /\ UNCHANGED <<process, restorationStarted, options, serial, overtaken, budget>>
      /\ titleKept' \in BOOLEAN
  BY DEF Construct, TypeOK
<1>3. ASSUME NEW label, Fails(label) PROVE TypeInv'
  BY <1>3, TypeFails
<1>4. CASE GetHandles
  <2>1. UNCHANGED <<con, installed, activeState, torn>>
    BY <1>4 DEF GetHandles
  <2>2. PICK label \in {"save_outMode", "d_remove"}, output \in BOOLEAN :
          /\ pc["main"] = "handles"
          /\ pc' = [pc EXCEPT !["main"] = label]
          /\ state' = [state EXCEPT !.output = output]
          /\ label = "save_outMode" => output
    BY <1>4 DEF GetHandles
  <2>3. label \in MainLabels
    BY DEF MainLabels, Saves
  <2>4. TypeOK' /\ pc'["main"] = label
    BY <1>1, <2>1, <2>2, <2>3, TypeMain DEF TypeOK
  <2>5. state'.changed = {}
    BY <2>2 DEF Progress, FreshState
  <2>6. state'.output = output
    BY <2>2 DEF TypeOK
  <2>7. Progress'
    BY <2>2, <2>4, <2>5, <2>6
    DEF Progress, OutModeSaved, InModeSaved, PagesSaved, TitleSaved, OutputThere
  <2> QED
    BY <2>4, <2>7
<1>5. ASSUME NEW p \in {"outMode", "inMode", "title"}, NEW from, NEW to \in MainLabels,
             <<p, from, to>> \in {<<"outMode", "save_outMode", "save_inMode">>,
                                  <<"inMode", "save_inMode", "save_pages">>,
                                  <<"title", "save_title", "set_outCP">>},
             Save(p, from, to)
      PROVE  TypeInv'
  <2>1. CASE Fails(from)
    BY <1>3, <2>1
  <2>2. CASE ~Fails(from)
    <3>1. /\ UNCHANGED <<con, installed, activeState, torn>>
          /\ pc["main"] = from /\ pc' = [pc EXCEPT !["main"] = to]
          /\ state' = [state EXCEPT !.original[p] = con[p]]
      BY <1>5, <2>2 DEF Save
    <3>2. con[p] # "unsaved" /\ con[p] \in Appearance
      BY DEF TypeOK, Appearance, Parts
    <3>3. state' \in [output : BOOLEAN, original : [Parts -> Appearance \cup {"unsaved"}],
                      changed : SUBSET Parts, handlerInstalled : BOOLEAN]
      BY <3>1, <3>2 DEF TypeOK
    <3>4. TypeOK' /\ pc'["main"] = to
      BY <1>1, <3>1, <3>3, TypeMain DEF TypeOK
    <3>5. /\ state'.original[p] = con[p]
          /\ \A q \in Parts \ {p} : state'.original[q] = state.original[q]
          /\ state'.changed = state.changed /\ state'.output = state.output
      BY <3>1 DEF TypeOK, Parts
    <3>6. Progress'
      BY <1>1, <1>5, <3>1, <3>2, <3>4, <3>5
      DEF Progress, OutModeSaved, InModeSaved, PagesSaved, TitleSaved, OutputThere, Parts
    <3> QED
      BY <3>4, <3>6
  <2> QED
    BY <2>1, <2>2
<1>6. CASE SaveCodePages
  <2>1. CASE Fails("save_pages")
    BY <1>3, <2>1
  <2>2. CASE ~Fails("save_pages")
    <3> DEFINE to == IF options.title /\ options.restoreTitle THEN "save_title" ELSE "set_outCP"
    <3>1. /\ UNCHANGED <<con, installed, activeState, torn>>
          /\ pc["main"] = "save_pages" /\ pc' = [pc EXCEPT !["main"] = to]
          /\ state' = [state EXCEPT !.original["outCP"] = con["outCP"],
                                    !.original["inCP"] = con["inCP"]]
      BY <1>6, <2>2 DEF SaveCodePages
    <3>2. /\ con["outCP"] # "unsaved" /\ con["outCP"] \in Appearance
          /\ con["inCP"] # "unsaved" /\ con["inCP"] \in Appearance
      BY DEF TypeOK, Appearance, Parts
    <3>3. state' \in [output : BOOLEAN, original : [Parts -> Appearance \cup {"unsaved"}],
                      changed : SUBSET Parts, handlerInstalled : BOOLEAN]
      BY <3>1, <3>2 DEF TypeOK
    <3>4. to \in MainLabels
      BY DEF MainLabels, Saves, Sets
    <3>5. TypeOK' /\ pc'["main"] = to
      BY <1>1, <3>1, <3>3, <3>4, TypeMain DEF TypeOK
    <3>6. /\ state'.original["outCP"] = con["outCP"]
          /\ state'.original["inCP"] = con["inCP"]
          /\ \A q \in Parts \ {"outCP", "inCP"} : state'.original[q] = state.original[q]
          /\ state'.changed = state.changed /\ state'.output = state.output
      BY <3>1 DEF TypeOK, Parts
    <3>7. Progress'
      BY <1>1, <3>1, <3>2, <3>5, <3>6
      DEF Progress, OutModeSaved, InModeSaved, PagesSaved, TitleSaved, OutputThere, Parts
    <3> QED
      BY <3>5, <3>7
  <2> QED
    BY <2>1, <2>2
<1>7. ASSUME NEW p \in {"outMode", "inMode", "outCP", "inCP"}, NEW from, NEW to \in MainLabels,
             \/ <<p, from, to>> \in {<<"outCP", "set_outCP", "set_inCP">>,
                                     <<"inCP", "set_inCP", "set_outMode">>,
                                     <<"outMode", "set_outMode", "set_inMode">>}
             \/ p = "inMode" /\ from = "set_inMode" /\ to = AfterModes,
             Set(p, from, to)
      PROVE  TypeInv'
  <2>1. CASE Fails(from)
    BY <1>3, <2>1
  <2>2. CASE ~Fails(from)
    <3>1. /\ UNCHANGED <<installed, activeState>>
          /\ pc["main"] = from /\ pc' = [pc EXCEPT !["main"] = to]
          /\ con' = [con EXCEPT ![p] = "session"]
          /\ state' = [state EXCEPT !.changed = @ \cup ({p} \cap {"outCP", "inCP"})]
          /\ torn' = (torn \/ restorationStarted)
      BY <1>7, <2>2 DEF Set
    <3>2. con' \in [Parts -> Appearance] /\ torn' \in BOOLEAN
      BY <3>1 DEF TypeOK, Appearance
    <3>3. {p} \cap {"outCP", "inCP"} \subseteq Parts
      BY DEF Parts
    <3>4. /\ state'.changed = state.changed \cup ({p} \cap {"outCP", "inCP"})
          /\ state'.original = state.original /\ state'.output = state.output
      BY <3>1 DEF TypeOK
    <3>5. state' \in [output : BOOLEAN, original : [Parts -> Appearance \cup {"unsaved"}],
                      changed : SUBSET Parts, handlerInstalled : BOOLEAN]
      BY <3>1, <3>3 DEF TypeOK
    <3>6. TypeOK' /\ pc'["main"] = to
      BY <1>1, <3>1, <3>2, <3>5, TypeMain DEF TypeOK
    <3>7. to = AfterModes => to \in {"install", "set_title", "write"}
                             /\ (to = "set_title" => options.title)
      BY DEF AfterModes
    <3>8. Progress'
      BY <1>1, <1>7, <3>1, <3>4, <3>6, <3>7
      DEF Progress, OutModeSaved, InModeSaved, PagesSaved, TitleSaved, OutputThere
    <3> QED
      BY <3>6, <3>8
  <2> QED
    BY <2>1, <2>2
<1>8. CASE Install
  <2>1. CASE Fails("install")
    BY <1>3, <2>1
  <2>2. CASE ~Fails("install")
    <3>1. /\ UNCHANGED <<con, state, activeState, torn>> /\ installed' = TRUE
          /\ pc["main"] = "install" /\ pc' = [pc EXCEPT !["main"] = "activate"]
      BY <1>8, <2>2 DEF Install
    <3>2. "activate" \in MainLabels
      BY DEF MainLabels
    <3>3. TypeOK' /\ pc'["main"] = "activate"
      BY <1>1, <3>1, <3>2, TypeMain DEF TypeOK
    <3>4. Progress'
      BY <1>1, <3>1, <3>3
      DEF Progress, OutModeSaved, InModeSaved, PagesSaved, TitleSaved, OutputThere
    <3> QED
      BY <3>3, <3>4
  <2> QED
    BY <2>1, <2>2
<1>9. CASE Activate
  <2> DEFINE to == IF options.title THEN "set_title" ELSE "write"
  <2>1. /\ UNCHANGED <<con, installed, torn>> /\ activeState' = TRUE
        /\ pc["main"] = "activate" /\ pc' = [pc EXCEPT !["main"] = to]
        /\ state' = [state EXCEPT !.handlerInstalled = TRUE]
    BY <1>9 DEF Activate
  <2>2. to \in MainLabels
    BY DEF MainLabels, Sets
  <2>3. state' \in [output : BOOLEAN, original : [Parts -> Appearance \cup {"unsaved"}],
                    changed : SUBSET Parts, handlerInstalled : BOOLEAN]
    BY <2>1 DEF TypeOK
  <2>4. TypeOK' /\ pc'["main"] = to
    BY <1>1, <2>1, <2>2, <2>3, TypeMain DEF TypeOK
  <2>5. UNCHANGED <<state.original, state.changed, state.output>>
    BY <2>1 DEF TypeOK
  <2>6. Progress'
    BY <1>1, <2>1, <2>4, <2>5
    DEF Progress, OutModeSaved, InModeSaved, PagesSaved, TitleSaved, OutputThere
  <2> QED
    BY <2>4, <2>6
<1>10. CASE SetTitle
  <2>1. CASE Fails("set_title")
    BY <1>3, <2>1
  <2>2. CASE ~Fails("set_title")
    <3>1. /\ UNCHANGED <<installed, state, activeState>>
          /\ pc["main"] = "set_title" /\ pc' = [pc EXCEPT !["main"] = "mark_title"]
          /\ con' = [con EXCEPT !["title"] = "session"]
          /\ torn' = (torn \/ restorationStarted)
      BY <1>10, <2>2 DEF SetTitle
    <3>2. con' \in [Parts -> Appearance] /\ torn' \in BOOLEAN
      BY <3>1 DEF TypeOK, Appearance
    <3>3. "mark_title" \in MainLabels
      BY DEF MainLabels
    <3>4. TypeOK' /\ pc'["main"] = "mark_title"
      BY <1>1, <3>1, <3>2, <3>3, TypeMain DEF TypeOK
    <3>5. Progress'
      BY <1>1, <3>1, <3>4
      DEF Progress, OutModeSaved, InModeSaved, PagesSaved, TitleSaved, OutputThere
    <3> QED
      BY <3>4, <3>5
  <2> QED
    BY <2>1, <2>2
<1>11. CASE MarkTitle
  <2>1. /\ UNCHANGED <<con, installed, activeState>>
        /\ pc["main"] = "mark_title" /\ pc' = [pc EXCEPT !["main"] = "write"]
        /\ state' = [state EXCEPT !.changed = @ \cup {"title"}]
        /\ torn' = (torn \/ restorationStarted)
    BY <1>11 DEF MarkTitle
  <2>2. torn' \in BOOLEAN /\ "write" \in MainLabels /\ "title" \in Parts
    BY <2>1 DEF TypeOK, MainLabels, Parts
  <2>3. state' \in [output : BOOLEAN, original : [Parts -> Appearance \cup {"unsaved"}],
                    changed : SUBSET Parts, handlerInstalled : BOOLEAN]
    BY <2>1, <2>2 DEF TypeOK
  <2>4. TypeOK' /\ pc'["main"] = "write"
    BY <1>1, <2>1, <2>2, <2>3, TypeMain DEF TypeOK
  <2>5. /\ state'.changed = state.changed \cup {"title"}
        /\ UNCHANGED <<state.original, state.output>>
    BY <2>1 DEF TypeOK
  <2>6. Progress'
    BY <1>1, <2>1, <2>4, <2>5
    DEF Progress, OutModeSaved, InModeSaved, PagesSaved, TitleSaved, OutputThere
  <2> QED
    BY <2>4, <2>6
<1>12. CASE WriteStartup
  <2>1. UNCHANGED <<installed, state, activeState>> /\ torn' = (torn \/ restorationStarted)
    BY <1>12 DEF WriteStartup
  <2>2. PICK label \in {"allocate", "d_remove"} :
          pc["main"] = "write" /\ pc' = [pc EXCEPT !["main"] = label]
    BY <1>12 DEF WriteStartup
  <2>3. con' \in [Parts -> Appearance] /\ torn' \in BOOLEAN
    BY <1>12, <2>1 DEF WriteStartup, TypeOK, Appearance
  <2>4. label \in MainLabels
    BY DEF MainLabels
  <2>5. TypeOK' /\ pc'["main"] = label
    BY <1>1, <2>1, <2>2, <2>3, <2>4, TypeMain DEF TypeOK
  <2>6. Progress'
    BY <1>1, <2>1, <2>2, <2>5
    DEF Progress, OutModeSaved, InModeSaved, PagesSaved, TitleSaved, OutputThere
  <2> QED
    BY <2>5, <2>6
<1>13. CASE Allocate
  <2>1. CASE Fails("allocate")
    BY <1>3, <2>1
  <2>2. CASE ~Fails("allocate")
    <3>1. /\ UNCHANGED <<con, installed, state, activeState, torn>>
          /\ pc["main"] = "allocate" /\ pc' = [pc EXCEPT !["main"] = "app"]
      BY <1>13, <2>2 DEF Allocate
    <3>2. "app" \in MainLabels
      BY DEF MainLabels
    <3>3. TypeOK' /\ pc'["main"] = "app"
      BY <1>1, <3>1, <3>2, TypeMain DEF TypeOK
    <3>4. Progress'
      BY <1>1, <3>1, <3>3
      DEF Progress, OutModeSaved, InModeSaved, PagesSaved, TitleSaved, OutputThere
    <3> QED
      BY <3>3, <3>4
  <2> QED
    BY <2>1, <2>2
<1>14. /\ {"save_inMode", "save_pages", "set_outCP", "set_inCP", "set_outMode", "set_inMode"}
            \subseteq MainLabels
       /\ AfterModes \in MainLabels
  BY DEF MainLabels, Saves, Sets, AfterModes
<1>15. CASE \/ Save("outMode", "save_outMode", "save_inMode")
            \/ Save("inMode", "save_inMode", "save_pages")
            \/ Save("title", "save_title", "set_outCP")
  BY <1>5, <1>14, <1>15
<1>16. CASE \/ Set("outCP", "set_outCP", "set_inCP")
            \/ Set("inCP", "set_inCP", "set_outMode")
            \/ Set("outMode", "set_outMode", "set_inMode")
            \/ Set("inMode", "set_inMode", AfterModes)
  BY <1>7, <1>14, <1>16
<1> QED
  BY <1>4, <1>6, <1>8, <1>9, <1>10, <1>11, <1>12, <1>13, <1>15, <1>16 DEF Construct

LEMMA FreshTyped ==
  /\ FreshState \in [output : BOOLEAN, original : [Parts -> Appearance \cup {"unsaved"}],
                     changed : SUBSET Parts, handlerInstalled : BOOLEAN]
  /\ DefaultOptions \in Options
BY DEF FreshState, Unsaved, Appearance, DefaultOptions, Options

LEMMA TypeStart ==
  ASSUME TypeInv, StartSession
  PROVE  TypeInv'
<1> USE DEF TypeInv, StartSession, Main, Goto
<1>1. options' \in Options
  BY SessionAssumption
<1>2. overtaken' \in BOOLEAN
  BY DEF TypeOK
<1>3. budget' \in [controls : Nat, sessions : Nat]
  BY DEF TypeOK
<1>4. "handles" \in MainLabels
  BY DEF MainLabels
<1>5. TypeOK' /\ pc'["main"] = "handles"
  BY <1>1, <1>2, <1>3, <1>4, TypeMain, FreshTyped DEF TypeOK
<1>6. Progress'
  BY <1>5
  DEF Progress, OutModeSaved, InModeSaved, PagesSaved, TitleSaved, OutputThere, FreshState
<1> QED
  BY <1>5, <1>6

\* The steps of the destructor outside of restoreState().
LEMMA TypeEnd ==
  ASSUME TypeInv, EndSession \/ RemoveHandler \/ Deactivate
  PROVE  TypeInv'
<1> USE DEF TypeInv, EndSession, RemoveHandler, Deactivate, Main, Goto, history
<1>1. /\ UNCHANGED <<con, process, restorationStarted, options, serial, torn, overtaken,
                     titleKept, budget>>
      /\ installed' \in BOOLEAN /\ activeState' \in BOOLEAN
  BY DEF TypeOK
<1>2. PICK label \in {"d_remove", "d_inactive", "r_test"} : pc' = [pc EXCEPT !["main"] = label]
  OBVIOUS
<1>3. label \in MainLabels
  BY DEF MainLabels
<1>4. state' = state \/ state' = [state EXCEPT !.handlerInstalled = FALSE]
  OBVIOUS
<1>5. state' \in [output : BOOLEAN, original : [Parts -> Appearance \cup {"unsaved"}],
                  changed : SUBSET Parts, handlerInstalled : BOOLEAN]
  BY <1>4 DEF TypeOK
<1>6. TypeOK' /\ pc'["main"] = label
  BY <1>1, <1>2, <1>3, <1>5, TypeMain DEF TypeOK
<1>7. state'.original = state.original /\ state'.changed = state.changed
  BY <1>4 DEF TypeOK
<1>8. Progress'
  BY <1>6, <1>7
  DEF Progress, OutModeSaved, InModeSaved, PagesSaved, TitleSaved, OutputThere
<1> QED
  BY <1>6, <1>8

LEMMA TypeReset ==
  ASSUME TypeInv, ResetState
  PROVE  TypeInv'
<1> USE DEF TypeInv, ResetState, Main, Goto
<1>1. overtaken' \in BOOLEAN
  BY DEF TypeOK
<1>2. "idle" \in MainLabels
  BY DEF MainLabels
<1>3. TypeOK' /\ pc'["main"] = "idle"
  BY <1>1, <1>2, TypeMain, FreshTyped DEF TypeOK
<1>4. Progress'
  BY <1>3
  DEF Progress, OutModeSaved, InModeSaved, PagesSaved, TitleSaved, OutputThere, FreshState
<1> QED
  BY <1>3, <1>4

LEMMA TypeStep == TypeInv /\ [Next]_vars => TypeInv'
<1> SUFFICES ASSUME TypeInv, [Next]_vars PROVE TypeInv'
  OBVIOUS
<1>1. CASE StartSession
  BY <1>1, TypeStart
<1>2. CASE Construct
  BY <1>2, TypeConstruct
<1>3. CASE EndSession \/ RemoveHandler \/ Deactivate
  BY <1>3, TypeEnd
<1>4. CASE \E t \in Threads : Restore(t)
  BY <1>4, TypeRestore
<1>5. CASE ResetState
  BY <1>5, TypeReset
<1>6. CASE \E h \in Handlers : HandlerStep(h)
  BY <1>6, TypeHandler
<1>7. CASE UNCHANGED vars
  BY <1>7 DEF vars, history, TypeInv, TypeOK, Progress
<1> QED
  BY <1>1, <1>2, <1>3, <1>4, <1>5, <1>6, <1>7, ThreadFacts
  DEF Next, Shutdown, Handler, HandlerStep

\* The types hold, and the constructor changes nothing that it has not saved.
THEOREM TypeInvariant == Spec => []TypeInv
<1>1. Init => TypeInv
  BY TypeInit
<1>2. TypeInv /\ [Next]_vars => TypeInv'
  BY TypeStep
<1> QED
  BY <1>1, <1>2, PTL DEF Spec

\* Every variable keeps its type; only the main thread is ever in the
\* constructor or the destructor, and a handler only in controlHandler().
THEOREM TypeCorrect == Spec => []TypeOK
BY TypeInvariant, PTL DEF TypeInv
-----------------------------------------------------------------------------
(* Who may call the handler, and who reads the state.                      *)

\* Where the main thread is while the handler is not installed.
Off ==
  {"idle", "handles", "save_outMode", "save_inMode", "save_pages", "save_title", "set_outCP",
   "set_inCP", "set_outMode", "set_inMode", "install", "d_inactive", "r_test", "d_reset"}
  \cup Parts

Calls ==
  /\ activeState = state.handlerInstalled
  /\ pc["main"] \in Off => ~installed
  /\ pc["main"] = "activate" => installed
  /\ pc["main"] \notin {"activate", "d_inactive"} => installed = state.handlerInstalled
  /\ serial /\ ~installed => Quiet
  /\ serial => ~overtaken

\* A step of the constructor that neither installs nor activates the handler.
LEMMA ConstructMoves ==
  ASSUME TypeInv, Construct
  PROVE  \/ Install /\ ~Fails("install")
         \/ Activate
         \/ /\ UNCHANGED <<installed, activeState>>
            /\ state'.handlerInstalled = state.handlerInstalled
            /\ \E label \in MainLabels \ (Parts \cup {"r_test", "idle", "d_reset", "d_inactive",
                                                     "activate"}) :
                 /\ pc' = [pc EXCEPT !["main"] = label]
                 /\ label \in Off => pc["main"] \in Off
            /\ pc["main"] \notin Parts \cup {"activate", "d_inactive", "d_reset", "idle"}
<1> USE DEF Main, Goto, Parts, Off, MainLabels, Saves, Sets
<1> DEFINE Inert ==
      /\ UNCHANGED <<installed, activeState>>
      /\ state'.handlerInstalled = state.handlerInstalled
      /\ \E label \in MainLabels \ (Parts \cup {"r_test", "idle", "d_reset", "d_inactive",
                                               "activate"}) :
           /\ pc' = [pc EXCEPT !["main"] = label]
           /\ label \in Off => pc["main"] \in Off
      /\ pc["main"] \notin Parts \cup {"activate", "d_inactive", "d_reset", "idle"}
<1>1. ASSUME NEW label \in {"save_outMode", "save_inMode", "save_pages", "save_title", "set_outCP",
                            "set_inCP", "set_outMode", "set_inMode", "install", "set_title",
                            "allocate"},
             Fails(label)
      PROVE  Inert
  <2>1. UNCHANGED <<installed, state, activeState>> /\ pc["main"] = label
    BY <1>1 DEF Fails
  <2>2. pc' = [pc EXCEPT !["main"] = "d_remove"]
    BY <1>1 DEF Fails
  <2>3. /\ "d_remove" \in MainLabels \ (Parts \cup {"r_test", "idle", "d_reset", "d_inactive",
                                               "activate"})
        /\ "d_remove" \notin Off
    OBVIOUS
  <2>4. label \notin Parts \cup {"activate", "d_inactive", "d_reset", "idle"}
    OBVIOUS
  <2> QED
    BY <2>1, <2>2, <2>3, <2>4
<1>2. CASE GetHandles
  BY <1>2 DEF GetHandles, TypeInv, TypeOK
<1>3. CASE \/ Save("outMode", "save_outMode", "save_inMode")
           \/ Save("inMode", "save_inMode", "save_pages")
           \/ Save("title", "save_title", "set_outCP")
           \/ SaveCodePages
  BY <1>1, <1>3 DEF Save, SaveCodePages, TypeInv, TypeOK
<1>4. CASE \/ Set("outCP", "set_outCP", "set_inCP")
           \/ Set("inCP", "set_inCP", "set_outMode")
           \/ Set("outMode", "set_outMode", "set_inMode")
           \/ Set("inMode", "set_inMode", AfterModes)
  BY <1>1, <1>4 DEF Set, AfterModes, TypeInv, TypeOK
<1>5. CASE SetTitle \/ MarkTitle
  BY <1>1, <1>5 DEF SetTitle, MarkTitle, TypeInv, TypeOK
<1>6. CASE WriteStartup \/ Allocate
  BY <1>1, <1>6 DEF WriteStartup, Allocate
<1>7. CASE Install
  BY <1>1, <1>7
<1> QED
  BY <1>2, <1>3, <1>4, <1>5, <1>6, <1>7 DEF Construct

LEMMA CallsInit == Init => Calls
<1> SUFFICES ASSUME Init PROVE Calls
  OBVIOUS
<1>1. pc["main"] = "idle" /\ \A h \in Handlers : pc[h] = "off"
  BY ThreadFacts DEF Init
<1>2. installed = FALSE /\ activeState = FALSE /\ ~overtaken /\ state.handlerInstalled = FALSE
  BY DEF Init, FreshState
<1> QED
  BY <1>1, <1>2 DEF Calls, Quiet

LEMMA CallsStep == TypeInv /\ Calls /\ [Next]_vars => Calls'
<1> SUFFICES ASSUME TypeInv, Calls, [Next]_vars PROVE Calls'
  OBVIOUS
<1> USE DEF Calls, Goto, Main
<1>1. pc \in [Threads -> MainLabels \cup HandlerLabels]
  BY DEF TypeInv, TypeOK
<1>2. ASSUME NEW label, pc' = [pc EXCEPT !["main"] = label]
      PROVE  pc'["main"] = label /\ (Quiet' <=> Quiet)
  BY <1>1, <1>2, ThreadFacts DEF Quiet
<1>3. CASE StartSession
  <2>1. ~installed
    BY <1>3 DEF StartSession, Off
  <2>2. serial => ~overtaken'
    BY <1>3, <2>1 DEF StartSession, Quiet, Restoring, Parts
  <2> QED
    <3>1. pc'["main"] = "handles" /\ (Quiet' <=> Quiet)
      BY <1>2, <1>3 DEF StartSession
    <3>2. UNCHANGED <<installed, activeState, serial>> /\ state'.handlerInstalled = FALSE
      BY <1>3 DEF StartSession, FreshState
    <3>3. installed = FALSE /\ activeState = FALSE
      BY <1>3, <2>1 DEF StartSession, TypeInv, TypeOK
    <3> QED
      BY <2>1, <2>2, <3>1, <3>2, <3>3
<1>4. CASE Construct
  <2>1. UNCHANGED <<serial, overtaken>>
    BY <1>4 DEF Construct
  <2>2. CASE Install /\ ~Fails("install")
    BY <1>2, <2>1, <2>2 DEF Install, Off, Parts
  <2>3. CASE Activate
    <3>1. state'.handlerInstalled
      BY <2>3 DEF Activate, TypeInv, TypeOK
    <3> QED
      BY <1>2, <2>1, <2>3, <3>1 DEF Activate, Off, Parts
  <2>4. CASE ~(Install /\ ~Fails("install")) /\ ~Activate
    BY <1>2, <1>4, <2>1, <2>4, ConstructMoves
  <2> QED
    BY <2>2, <2>3, <2>4
<1>5. CASE EndSession
  BY <1>2, <1>5 DEF EndSession, Off, Parts, history
<1>6. CASE RemoveHandler
  BY <1>2, <1>6 DEF RemoveHandler, Off, Parts, history
<1>7. CASE Deactivate
  <2>1. state'.handlerInstalled = FALSE
    BY <1>7 DEF Deactivate, TypeInv, TypeOK
  <2> QED
    <3>1. pc["main"] = "d_inactive" /\ pc'["main"] = "r_test" /\ (Quiet' <=> Quiet)
      BY <1>2, <1>7 DEF Deactivate
    <3>2. UNCHANGED <<installed, serial, overtaken>> /\ activeState' = FALSE
      BY <1>7 DEF Deactivate, history
    <3>3. installed = FALSE
      BY <3>1 DEF Off, TypeInv, TypeOK
    <3> QED
      BY <2>1, <3>1, <3>2, <3>3
<1>8. CASE ResetState
  <2>1. ~installed
    BY <1>8 DEF ResetState, Off
  <2>2. serial => ~overtaken'
    BY <1>8, <2>1 DEF ResetState, Quiet, Restoring, Parts
  <2> QED
    <3>1. pc["main"] = "d_reset" /\ pc'["main"] = "idle" /\ (Quiet' <=> Quiet)
      BY <1>2, <1>8 DEF ResetState
    <3>2. UNCHANGED <<installed, activeState, serial>> /\ state'.handlerInstalled = FALSE
      BY <1>8 DEF ResetState, FreshState
    <3>3. installed = FALSE /\ activeState = FALSE
      BY <2>1, <3>1 DEF TypeInv, TypeOK
    <3> QED
      BY <2>1, <2>2, <3>1, <3>2, <3>3
<1>9. CASE Restore("main")
  <2>1. PICK label \in Parts \cup {"d_reset"} : pc' = [pc EXCEPT !["main"] = label]
    BY <1>9 DEF Restore, TestAndSet, RestorePart, After, AfterRestore, NextPart, Parts
  <2>2. pc["main"] \in Parts \cup {"r_test"}
    BY <1>9 DEF Restore, TestAndSet, RestorePart
  <2>3. UNCHANGED <<installed, state, activeState, serial, overtaken>>
    BY <1>9 DEF Restore, TestAndSet, RestorePart, history
  <2> QED
    BY <1>2, <2>1, <2>2, <2>3 DEF Off, Parts
<1>10. ASSUME NEW h \in Handlers, Raise(h) \/ Handler(h)
       PROVE  Calls'
  <2>1. pc'["main"] = pc["main"]
    BY <1>10, ThreadFacts, <1>1
    DEF Raise, Handler, ControlHandler, PassOn, RaceForTitle, Restore, TestAndSet, RestorePart
  <2>2. UNCHANGED <<installed, state, activeState, serial, overtaken>>
    BY <1>10 DEF Raise, Handler, ControlHandler, PassOn, RaceForTitle, Restore, TestAndSet,
                 RestorePart, history
  <2>3. serial => installed
    BY <1>10 DEF Raise, Handler, ControlHandler, PassOn, RaceForTitle, Restore, TestAndSet,
                 RestorePart, Quiet, Parts
  <2> QED
    BY <2>1, <2>2, <2>3
<1>11. CASE UNCHANGED vars
  BY <1>11 DEF vars, history, Quiet
<1> QED
  BY <1>3, <1>4, <1>5, <1>6, <1>7, <1>8, <1>9, <1>10, <1>11 DEF Next, Shutdown

THEOREM CallsInvariant == Spec => []Calls
BY TypeInvariant, CallsInit, CallsStep, PTL DEF Spec

\* When SetConsoleCtrlHandler() waits for a handler that runs, the state that
\* restoreState() reads is never reset under it, nor is a session begun.
THEOREM NeverReadWhenReset == Spec => []NotReadWhenReset
<1>1. Calls => NotReadWhenReset
  BY DEF Calls, NotReadWhenReset
<1> QED
  BY <1>1, CallsInvariant, PTL
-----------------------------------------------------------------------------
(* The guard of emergency restoration.                                     *)

Guarded ==
  overtaken \/ /\ \A t \in Threads : Restoring(t) => restorationStarted
               /\ \A t, u \in Threads : Restoring(t) /\ Restoring(u) => t = u

\* A thread moves to a label that is not in restoreState().
LEMMA GuardedLeaves ==
  ASSUME TypeInv, Guarded, NEW t \in Threads, NEW label,
         pc' = [pc EXCEPT ![t] = label], label \notin Parts,
         restorationStarted => restorationStarted', overtaken => overtaken'
  PROVE  Guarded'
<1>1. \A u \in Threads : Restoring(u)' => Restoring(u)
  BY DEF Restoring, TypeInv, TypeOK
<1> QED
  BY <1>1 DEF Guarded

LEMMA GuardedInit == Init => Guarded
BY DEF Init, Guarded, Restoring, Threads, Parts

LEMMA GuardedStep == TypeInv /\ Guarded /\ [Next]_vars => Guarded'
<1> SUFFICES ASSUME TypeInv, Guarded, [Next]_vars PROVE Guarded'
  OBVIOUS
<1> USE DEF Goto, Main
<1>1. pc \in [Threads -> MainLabels \cup HandlerLabels]
  BY DEF TypeInv, TypeOK
<1>2. CASE StartSession
  <2>1. overtaken' \/ \A h \in Handlers : ~Restoring(h)
    BY <1>2 DEF StartSession
  <2>2. pc'["main"] = "handles" /\ \A h \in Handlers : pc'[h] = pc[h]
    BY <1>1, <1>2, ThreadFacts DEF StartSession
  <2>3. overtaken' \/ \A t \in Threads : ~Restoring(t)'
    BY <2>1, <2>2 DEF Restoring, Threads, Parts
  <2> QED
    BY <2>3 DEF Guarded
<1>3. CASE Construct
  <2>1. UNCHANGED <<restorationStarted, overtaken>>
    BY <1>3 DEF Construct
  <2>2. \E label : pc' = [pc EXCEPT !["main"] = label] /\ label \notin Parts
    <3>1. CASE Install /\ ~Fails("install")
      BY <3>1 DEF Install, Parts
    <3>2. CASE Activate
      <4> DEFINE to == IF options.title THEN "set_title" ELSE "write"
      <4>1. pc' = [pc EXCEPT !["main"] = to]
        BY <3>2 DEF Activate
      <4>2. to \notin Parts
        BY DEF Parts
      <4> QED
        BY <4>1, <4>2
    <3> QED
      BY <1>3, <3>1, <3>2, ConstructMoves
  <2> QED
    BY <2>1, <2>2, ThreadFacts, GuardedLeaves
<1>4. CASE EndSession \/ RemoveHandler \/ Deactivate \/ ResetState
  <2>1. restorationStarted' = restorationStarted /\ (overtaken => overtaken')
    <3>1. CASE EndSession \/ RemoveHandler \/ Deactivate
      BY <3>1 DEF EndSession, RemoveHandler, Deactivate, history
    <3>2. CASE ResetState
      BY <3>2 DEF ResetState
    <3> QED
      BY <1>4, <3>1, <3>2
  <2>2. \E label : pc' = [pc EXCEPT !["main"] = label] /\ label \notin Parts
    BY <1>4 DEF EndSession, RemoveHandler, Deactivate, ResetState, Parts
  <2> QED
    BY <2>1, <2>2, ThreadFacts, GuardedLeaves
<1>5. ASSUME NEW t \in Threads, TestAndSet(t)
      PROVE  Guarded'
  <2>1. restorationStarted' = TRUE /\ overtaken' = overtaken
    BY <1>5 DEF TestAndSet, history
  <2>2. CASE restorationStarted
    <3>1. \E label : pc' = [pc EXCEPT ![t] = label] /\ label \notin Parts
      <4>1. pc' = [pc EXCEPT ![t] = AfterRestore(t)]
        BY <1>5, <2>2 DEF TestAndSet
      <4>2. AfterRestore(t) \notin Parts
        BY DEF AfterRestore, Parts
      <4> QED
        BY <4>1, <4>2
    <3> QED
      BY <2>1, <3>1, GuardedLeaves
  <2>3. CASE ~restorationStarted
    <3>1. overtaken \/ \A u \in Threads : ~Restoring(u)
      BY <2>3 DEF Guarded
    <3>2. \A u \in Threads \ {t} : pc'[u] = pc[u]
      BY <1>1, <1>5 DEF TestAndSet
    <3> QED
      BY <2>1, <3>1, <3>2 DEF Guarded, Restoring
  <2> QED
    BY <2>2, <2>3
<1>6. ASSUME NEW t \in Threads, NEW p \in Parts, RestorePart(t, p)
      PROVE  Guarded'
  <2>1. UNCHANGED <<restorationStarted, overtaken>> /\ Restoring(t)
    BY <1>6 DEF RestorePart, Restoring, history
  <2>2. \A u \in Threads \ {t} : pc'[u] = pc[u]
    BY <1>1, <1>6 DEF RestorePart
  <2> QED
    BY <2>1, <2>2 DEF Guarded, Restoring
<1>7. ASSUME NEW h \in Handlers, HandlerStep(h)
      PROVE  Guarded'
  <2>1. UNCHANGED <<restorationStarted, overtaken>>
    BY <1>7 DEF HandlerStep, Raise, ControlHandler, PassOn, RaceForTitle, history
  <2>2. \/ UNCHANGED pc
        \/ \E label : pc' = [pc EXCEPT ![h] = label] /\ label \notin Parts
    BY <1>7 DEF HandlerStep, Raise, ControlHandler, PassOn, RaceForTitle, Parts
  <2>3. CASE UNCHANGED pc
    BY <2>1, <2>3 DEF Guarded, Restoring
  <2> QED
    BY <2>1, <2>2, <2>3, ThreadFacts, GuardedLeaves
<1>8. CASE UNCHANGED vars
  BY <1>8 DEF vars, history, Guarded, Restoring
<1> QED
  BY <1>2, <1>3, <1>4, <1>5, <1>6, <1>7, <1>8, ThreadFacts
  DEF Next, Shutdown, Restore, Handler, HandlerStep

THEOREM GuardedInvariant == Spec => []Guarded
BY TypeInvariant, GuardedInit, GuardedStep, PTL DEF Spec

\* Normal destruction and a control handler never restore the console at the
\* same time, nor do two handlers, as long as no session was reset or begun under
\* a handler: the proviso of OneRestorer, which NeverReadWhenReset shows to be met
\* where SetConsoleCtrlHandler() waits for a running handler.
THEOREM NeverTwoRestorers == Spec => []OneRestorer
<1>1. Guarded => OneRestorer
  BY DEF Guarded, OneRestorer
<1> QED
  BY <1>1, GuardedInvariant, PTL
-----------------------------------------------------------------------------
(* What is still owed to the console.                                      *)

\* Until the constructor changes the first part of the console.
Early == {"idle", "handles", "set_outCP"} \cup Saves

\* The parts that a thread is still to put back.
Ahead(label) ==
  CASE label = "screen" -> Parts
    [] label = "title" -> Parts \ {"screen"}
    [] label = "outMode" -> {"outMode", "inMode", "outCP", "inCP"}
    [] label = "inMode" -> {"inMode", "outCP", "inCP"}
    [] label = "outCP" -> {"outCP", "inCP"}
    [] label = "inCP" -> {"inCP"}
    [] OTHER -> {}

Pending(p) == ~restorationStarted \/ \E t \in Threads : p \in Ahead(pc[t])

\* restoreState() would put it back as it was.
Remembered(p) == Undone(p) /\ (p = "screen" \/ state.original[p] = "original")

\* A part is as it is for a reason: nobody can say that it was to be put back.
Excused(p) ==
  p \in FailPoints \/ (p = "title" /\ (titleKept \/ pc["main"] = "mark_title"))

Accounted ==
  /\ \A p \in Parts : con[p] = "original" \/ Excused(p) \/ (Pending(p) /\ Remembered(p))
  /\ \A p \in Parts :
       state.original[p] \in {"unsaved", "original"} \/ p \in FailPoints
         \/ (p = "title" /\ titleKept)

Passed ==
  /\ pc["main"] \in Early => Restored
  /\ pc["main"] = "mark_title" => titleKept \/ options.restoreTitle
  /\ pc["main"] = "d_reset" => restorationStarted
  /\ \A h \in Handlers : pc[h] = "h_next" => restorationStarted
  /\ process = "ended" => ~Quiet

Owed == torn \/ overtaken \/ (Accounted /\ Passed)

LEMMA AheadFacts ==
  /\ \A label : label \notin Parts => Ahead(label) = {}
  /\ Ahead("screen") = Parts
  /\ \A t \in Threads, p \in Parts : Ahead(p) \ {p} \subseteq Ahead(After(t, p))
<1>1. \A label : label \notin Parts => Ahead(label) = {}
  BY DEF Ahead, Parts
<1>2. Ahead("screen") = Parts
  BY DEF Ahead
<1>3. ASSUME NEW t \in Threads, NEW p \in Parts
      PROVE  Ahead(p) \ {p} \subseteq Ahead(After(t, p))
  <2>1. CASE p = "screen" BY <2>1 DEF Ahead, After, NextPart, Parts
  <2>2. CASE p = "title" BY <2>2 DEF Ahead, After, NextPart, Parts
  <2>3. CASE p = "outMode" BY <2>3 DEF Ahead, After, NextPart, Parts
  <2>4. CASE p = "inMode" BY <2>4 DEF Ahead, After, NextPart, Parts
  <2>5. CASE p = "outCP" BY <2>5 DEF Ahead, After, NextPart, Parts
  <2>6. CASE p = "inCP" BY <2>6 DEF Ahead, After, NextPart, Parts
  <2> QED
    BY <2>1, <2>2, <2>3, <2>4, <2>5, <2>6 DEF Parts
<1> QED
  BY <1>1, <1>2, <1>3

\* Without a thread that restores and with a restoration begun, nothing is owed.
LEMMA NothingPending ==
  ASSUME restorationStarted, \A t \in Threads : ~Restoring(t)
  PROVE  \A p \in Parts : ~Pending(p)
BY AheadFacts DEF Pending, Restoring

\* The main thread moves on, outside of restoreState() and after what is early,
\* and changes at most what is remembered while no restoration has begun.
LEMMA OwedMoves ==
  ASSUME TypeInv, TypeInv', Accounted, Passed, NEW label, pc' = [pc EXCEPT !["main"] = label],
         label \notin Parts \cup Early \cup {"mark_title", "d_reset"}, pc["main"] \notin Parts,
         UNCHANGED <<process, restorationStarted, options>>, titleKept => titleKept',
         state'.original = state.original, state'.output = state.output,
         state.changed \subseteq state'.changed,
         \A p \in Parts :
           con'[p] = con[p] \/ p \in FailPoints \/ (~restorationStarted /\ Remembered(p)'),
         pc["main"] = "mark_title" =>
           titleKept' \/ "title" \in FailPoints \/ (~restorationStarted /\ Remembered("title")')
  PROVE  Accounted' /\ Passed'
<1>1. pc'["main"] = label /\ \A h \in Handlers : pc'[h] = pc[h]
  BY ThreadFacts DEF TypeInv, TypeOK
<1>2. ASSUME NEW p \in Parts, Pending(p) PROVE Pending(p)'
  <2>1. CASE ~restorationStarted
    BY <2>1 DEF Pending
  <2>2. ASSUME NEW t \in Threads, p \in Ahead(pc[t]) PROVE Pending(p)'
    <3>1. t # "main"
      BY <2>2, AheadFacts
    <3>2. pc'[t] = pc[t]
      BY <1>1, <3>1 DEF Threads
    <3> QED
      BY <2>2, <3>2 DEF Pending
  <2> QED
    BY <1>2, <2>1, <2>2 DEF Pending
<1>3. ASSUME NEW p \in Parts, Remembered(p) PROVE Remembered(p)'
  BY <1>3 DEF Remembered, Undone, Parts
<1>4. ASSUME NEW p \in Parts
      PROVE  con'[p] = "original" \/ Excused(p)' \/ (Pending(p)' /\ Remembered(p)')
  <2>1. CASE ~restorationStarted /\ Remembered(p)'
    BY <2>1 DEF Pending
  <2>2. CASE con'[p] = con[p]
    <3>1. CASE con[p] = "original"
      BY <2>2, <3>1
    <3>2. CASE Excused(p)
      BY <3>2 DEF Excused, Pending
    <3>3. CASE Pending(p) /\ Remembered(p)
      BY <1>2, <1>3, <3>3
    <3> QED
      BY <3>1, <3>2, <3>3 DEF Accounted
  <2>3. CASE p \in FailPoints
    BY <2>3 DEF Excused
  <2> QED
    BY <2>1, <2>2, <2>3
<1>5. Accounted'
  BY <1>4 DEF Accounted
<1>6. Passed'
  BY <1>1 DEF Passed, Quiet
<1> QED
  BY <1>5, <1>6

\* The main thread reads the console before it changes anything.
LEMMA OwedEarly ==
  ASSUME TypeInv, TypeInv', Accounted, Passed, NEW label, pc' = [pc EXCEPT !["main"] = label],
         label \notin {"mark_title", "d_reset"}, pc["main"] \in Early,
         UNCHANGED <<con, process, restorationStarted, options>>, titleKept => titleKept',
         \A p \in Parts : state'.original[p] \in {state.original[p], con[p]}
  PROVE  Accounted' /\ Passed'
<1>1. pc'["main"] = label /\ \A h \in Handlers : pc'[h] = pc[h]
  BY ThreadFacts DEF TypeInv, TypeOK
<1>2. Restored /\ Restored'
  BY DEF Passed, Restored
<1>3. Accounted'
  BY <1>2 DEF Accounted, Restored, Excused
<1>4. Passed'
  BY <1>1, <1>2 DEF Passed, Quiet
<1> QED
  BY <1>3, <1>4

LEMMA OwedInit == Init => Owed
<1> SUFFICES ASSUME Init PROVE Owed
  OBVIOUS
<1>1. Restored /\ \A p \in Parts : con[p] = "original" /\ state.original[p] = "unsaved"
  BY DEF Init, OriginalConsole, Restored, FreshState, Unsaved
<1>2. pc["main"] = "idle" /\ \A h \in Handlers : pc[h] = "off"
  BY ThreadFacts DEF Init
<1>3. process = "running"
  BY DEF Init
<1> QED
  BY <1>1, <1>2, <1>3 DEF Owed, Accounted, Passed

\* restoreState() on any thread: what it does not put back stays accounted for.
LEMMA OwedRestore ==
  ASSUME TypeInv, TypeInv', Guarded, Accounted, Passed,
         ~overtaken, process = "running", NEW t \in Threads, Restore(t)
  PROVE  Accounted' /\ Passed'
<1> USE DEF Goto
<1>1. pc \in [Threads -> MainLabels \cup HandlerLabels]
  BY DEF TypeInv, TypeOK
<1>2. CASE TestAndSet(t)
  <2>1. UNCHANGED <<con, state, options, titleKept, process>> /\ restorationStarted' = TRUE
    BY <1>2 DEF TestAndSet, history
  <2>2. PICK label \in {AfterRestore(t), "screen"} :
          /\ pc' = [pc EXCEPT ![t] = label]
          /\ ~restorationStarted => label = "screen"
    BY <1>2 DEF TestAndSet
  <2>3. pc[t] = "r_test" /\ pc'[t] = label /\ \A u \in Threads \ {t} : pc'[u] = pc[u]
    BY <1>1, <1>2, <2>2 DEF TestAndSet
  <2>4. ASSUME NEW p \in Parts, Pending(p) PROVE Pending(p)'
    <3>1. CASE ~restorationStarted
      BY <2>2, <2>3, <3>1, AheadFacts DEF Pending
    <3>2. ASSUME NEW u \in Threads, p \in Ahead(pc[u]) PROVE Pending(p)'
      <4>1. u # t
        BY <2>3, <3>2, AheadFacts DEF Parts
      <4> QED
        BY <2>3, <3>2, <4>1 DEF Pending
    <3> QED
      BY <2>4, <3>1, <3>2 DEF Pending
  <2>5. ASSUME NEW p \in Parts, Excused(p) PROVE Excused(p)'
    BY <2>1, <2>3, <2>5, ThreadFacts DEF Excused
  <2>6. \A p \in Parts : Remembered(p) <=> Remembered(p)'
    BY <2>1 DEF Remembered, Undone, Parts
  <2>7. Accounted'
    BY <2>1, <2>4, <2>5, <2>6 DEF Accounted
  <2>8. pc'["main"] = pc["main"] \/ pc'["main"] \in {"d_reset", "screen"}
    BY <2>3, ThreadFacts DEF AfterRestore
  <2>9. Restored => Restored'
    BY <2>1 DEF Restored
  <2>10. Passed'
    BY <2>1, <2>8, <2>9, <1>2 DEF Passed, Early, Saves
  <2> QED
    BY <2>7, <2>10
<1>3. ASSUME NEW p \in Parts, RestorePart(t, p)
      PROVE  Accounted' /\ Passed'
  <2>1. UNCHANGED <<state, options, restorationStarted, titleKept, process>> /\ pc[t] = p
    BY <1>3 DEF RestorePart, history
  <2>2. restorationStarted
    BY <2>1 DEF Guarded, Restoring
  <2>3. pc'[t] = After(t, p) /\ \A u \in Threads \ {t} : pc'[u] = pc[u]
    BY <1>1, <1>3 DEF RestorePart
  <2>4. \/ con' = IF ~Undone(p) THEN con
                  ELSE [con EXCEPT ![p] = IF p = "screen" THEN "original" ELSE state.original[p]]
        \/ p \in FailPoints /\ con' = con
    BY <1>3 DEF RestorePart
  <2>5. \A q \in Parts \ {p} : con'[q] = con[q]
    BY <2>4 DEF TypeInv, TypeOK
  <2>6. con[p] = "original" \/ (p = "title" /\ titleKept) \/ Remembered(p)
        => con'[p] = "original" \/ p \in FailPoints \/ (p = "title" /\ titleKept)
    <3>1. CASE ~Undone(p)
      BY <2>4, <3>1 DEF Remembered
    <3>2. CASE Undone(p)
      <4>1. p \notin FailPoints =>
              con'[p] = IF p = "screen" THEN "original" ELSE state.original[p]
        BY <2>4, <3>2 DEF TypeInv, TypeOK
      <4>2. p # "screen" => state.original[p] # "unsaved"
        BY <3>2 DEF Undone, TypeInv, Progress, Parts
      <4> QED
        BY <4>1, <4>2 DEF Accounted
    <3> QED
      BY <3>1, <3>2
  <2>7. \A q \in Parts : Remembered(q) <=> Remembered(q)'
    BY <2>1 DEF Remembered, Undone, Parts
  <2>8. pc["main"] = "mark_title" => pc'["main"] = "mark_title"
    BY <2>1, <2>3, ThreadFacts DEF Parts
  <2>9. ASSUME NEW q \in Parts, Excused(q) PROVE Excused(q)'
    BY <2>1, <2>8, <2>9 DEF Excused
  <2>10. ASSUME NEW q \in Parts \ {p}, Pending(q) PROVE Pending(q)'
    <3>1. PICK u \in Threads : q \in Ahead(pc[u])
      BY <2>2, <2>10 DEF Pending
    <3>2. CASE u = t
      BY <2>1, <2>3, <3>1, <3>2, AheadFacts DEF Pending
    <3>3. CASE u # t
      BY <2>3, <3>1, <3>3 DEF Pending
    <3> QED
      BY <3>2, <3>3
  <2>11. con'[p] = "original" \/ Excused(p)'
    <3>1. CASE Excused(p)
      BY <2>9, <3>1
    <3>2. CASE ~Excused(p)
      BY <2>1, <2>6, <3>2 DEF Accounted, Excused
    <3> QED
      BY <3>1, <3>2
  <2>12. Accounted'
    <3>1. ASSUME NEW q \in Parts \ {p}
          PROVE  con'[q] = "original" \/ Excused(q)' \/ (Pending(q)' /\ Remembered(q)')
      BY <2>5, <2>7, <2>9, <2>10 DEF Accounted
    <3> QED
      BY <2>1, <2>11, <3>1 DEF Accounted
  <2>13. pc'["main"] = pc["main"] \/ pc'["main"] \in {"d_reset"} \cup Parts
    BY <2>3, ThreadFacts DEF After, AfterRestore, NextPart, Parts
  <2>14. pc["main"] \in Early => Restored'
    BY <2>1, <2>5, <2>6 DEF Passed, Restored
  <2>15. Passed'
    BY <2>1, <2>2, <2>13, <2>14 DEF Passed, Early, Saves, Parts
  <2> QED
    BY <2>12, <2>15
<1> QED
  BY <1>2, <1>3 DEF Restore

LEMMA OwedHandler ==
  ASSUME TypeInv, TypeInv', Accounted, Passed, ~overtaken, process = "running",
         NEW h \in Handlers, HandlerStep(h)
  PROVE  Accounted' /\ Passed'
<1> USE DEF Goto
<1>1. /\ UNCHANGED <<con, state, options, titleKept, restorationStarted>>
      /\ ~RaceForTitle(h)
  BY DEF HandlerStep, Raise, ControlHandler, PassOn, RaceForTitle, history
<1>2. PICK label \in {pc[h], "h_load", "r_test", "o_next", "off"} :
        /\ pc' = [pc EXCEPT ![h] = label]
        /\ pc[h] \notin Parts
        /\ process' = "ended" => pc[h] \in {"h_next", "o_next"} /\ label = pc[h]
  <2>1. pc = [pc EXCEPT ![h] = pc[h]]
    BY ThreadFacts DEF TypeInv, TypeOK
  <2>2. CASE Raise(h)
    BY <2>2 DEF Raise, Parts
  <2>3. CASE ControlHandler(h)
    BY <2>3 DEF ControlHandler, Parts
  <2>4. CASE PassOn(h)
    BY <2>1, <2>4 DEF PassOn, Parts
  <2> QED
    BY <1>1, <2>2, <2>3, <2>4 DEF HandlerStep
<1>3. /\ pc'[h] = label /\ pc'["main"] = pc["main"]
      /\ \A u \in Threads \ {h} : pc'[u] = pc[u]
  BY <1>2, ThreadFacts DEF TypeInv, TypeOK
<1>4. ASSUME NEW p \in Parts, Pending(p) PROVE Pending(p)'
  <2>1. CASE ~restorationStarted
    BY <1>1, <2>1 DEF Pending
  <2>2. ASSUME NEW u \in Threads, p \in Ahead(pc[u]) PROVE Pending(p)'
    <3>1. u # h
      BY <1>2, <2>2, AheadFacts
    <3> QED
      BY <1>3, <2>2, <3>1 DEF Pending
  <2> QED
    BY <1>4, <2>1, <2>2 DEF Pending
<1>5. /\ \A p \in Parts : Remembered(p) <=> Remembered(p)'
      /\ \A p \in Parts : Excused(p) <=> Excused(p)'
      /\ Restored <=> Restored'
  BY <1>1, <1>3 DEF Remembered, Undone, Excused, Restored, Parts
<1>6. Accounted'
  BY <1>1, <1>4, <1>5 DEF Accounted
<1>7. process' = "ended" => ~Quiet'
  BY <1>2, <1>3 DEF Quiet
<1>8. Passed'
  BY <1>1, <1>2, <1>3, <1>5, <1>7, ThreadFacts DEF Passed, Threads
<1> QED
  BY <1>6, <1>8

\* The constructor.
LEMMA OwedConstruct ==
  ASSUME TypeInv, TypeInv', Accounted, Passed, ~torn', process = "running", Construct
  PROVE  Accounted' /\ Passed'
<1> USE DEF Main, Goto
<1> DEFINE Later(label) ==
      /\ pc' = [pc EXCEPT !["main"] = label]
      /\ label \notin Parts \cup Early \cup {"mark_title", "d_reset"}
<1>1. UNCHANGED <<process, restorationStarted, options>>
  BY DEF Construct
<1>2. titleKept => titleKept'
  BY DEF Construct
<1>3. ASSUME NEW label, Later(label), pc["main"] \notin Parts \cup {"mark_title"},
             state'.original = state.original, state'.output = state.output,
             state.changed \subseteq state'.changed,
             \A p \in Parts :
               con'[p] = con[p] \/ p \in FailPoints \/ (~restorationStarted /\ Remembered(p)')
      PROVE  Accounted' /\ Passed'
  BY <1>1, <1>2, <1>3, OwedMoves
<1>4. ASSUME NEW from \in MainLabels \ (Parts \cup {"mark_title"}), Fails(from)
      PROVE  Accounted' /\ Passed'
  <2>1. Later("d_remove")
    BY <1>4 DEF Fails, Parts, Early, Saves
  <2>2. UNCHANGED <<con, state>> /\ pc["main"] = from
    BY <1>4 DEF Fails
  <2> QED
    BY <1>3, <1>4, <2>1, <2>2
<1>5. CASE GetHandles
  <2>1. \E label \in {"save_outMode", "d_remove"} : pc' = [pc EXCEPT !["main"] = label]
    BY <1>5 DEF GetHandles
  <2>2. pc["main"] \in Early /\ con' = con /\ state'.original = state.original
    BY <1>5 DEF GetHandles, Early, TypeInv, TypeOK
  <2> QED
    BY <1>1, <1>2, <2>1, <2>2, OwedEarly
<1>6. ASSUME NEW p \in Parts, NEW from \in Saves,
             NEW to \in {"save_inMode", "save_pages", "set_outCP"}, Save(p, from, to)
      PROVE  Accounted' /\ Passed'
  <2>1. CASE Fails(from)
    BY <1>4, <1>6, <2>1 DEF Saves, MainLabels, Parts
  <2>2. CASE ~Fails(from)
    <3>1. /\ pc' = [pc EXCEPT !["main"] = to] /\ pc["main"] \in Early /\ con' = con
          /\ state' = [state EXCEPT !.original[p] = con[p]]
      BY <1>6, <2>2 DEF Save, Early
    <3>2. \A q \in Parts : state'.original[q] \in {state.original[q], con[q]}
      BY <3>1 DEF TypeInv, TypeOK
    <3> QED
      BY <1>1, <1>2, <3>1, <3>2, OwedEarly
  <2> QED
    BY <2>1, <2>2
<1>7. CASE SaveCodePages
  <2>1. CASE Fails("save_pages")
    BY <1>4, <2>1 DEF Saves, MainLabels, Parts
  <2>2. CASE ~Fails("save_pages")
    <3>1. /\ \E to \in {"save_title", "set_outCP"} : pc' = [pc EXCEPT !["main"] = to]
          /\ pc["main"] \in Early /\ con' = con
          /\ state' = [state EXCEPT !.original["outCP"] = con["outCP"],
                                    !.original["inCP"] = con["inCP"]]
      BY <1>7, <2>2 DEF SaveCodePages, Early, Saves
    <3>2. \A q \in Parts : state'.original[q] \in {state.original[q], con[q]}
      BY <3>1 DEF TypeInv, TypeOK
    <3> QED
      BY <1>1, <1>2, <3>1, <3>2, OwedEarly
  <2> QED
    BY <2>1, <2>2
<1>8. ASSUME NEW p \in {"outMode", "inMode", "outCP", "inCP"}, NEW from \in Sets,
             NEW to \in {"set_inCP", "set_outMode", "set_inMode", "install", "set_title", "write"},
             from # "set_inMode" => p # "inMode", p = "inMode" => from = "set_inMode",
             p = "outMode" => from = "set_outMode", Set(p, from, to)
      PROVE  Accounted' /\ Passed'
  <2>1. CASE Fails(from)
    BY <1>4, <1>8, <2>1 DEF Sets, MainLabels, Parts
  <2>2. CASE ~Fails(from)
    <3>1. /\ pc["main"] = from /\ pc' = [pc EXCEPT !["main"] = to]
          /\ con' = [con EXCEPT ![p] = "session"]
          /\ state' = [state EXCEPT !.changed = @ \cup ({p} \cap {"outCP", "inCP"})]
          /\ torn' = (torn \/ restorationStarted)
      BY <1>8, <2>2 DEF Set
    <3>2. Later(to)
      BY <3>1 DEF Parts, Early, Saves
    <3>3. /\ state'.original = state.original /\ state'.output = state.output
          /\ state'.changed = state.changed \cup ({p} \cap {"outCP", "inCP"})
      BY <3>1 DEF TypeInv, TypeOK
    <3>4. ~restorationStarted
      BY <3>1
    <3>5. state.original[p] # "unsaved"
      BY <1>8, <3>1, <3>3
      DEF TypeInv, Progress, Sets, OutModeSaved, InModeSaved, PagesSaved
    <3>6. p \in Parts /\ (state.original[p] = "original" \/ p \in FailPoints)
      BY <3>5 DEF Accounted, Parts
    <3>7. p \in FailPoints \/ Remembered(p)'
      BY <3>3, <3>6 DEF Remembered, Undone
    <3>8. \A q \in Parts \ {p} : con'[q] = con[q]
      BY <3>1 DEF TypeInv, TypeOK
    <3> QED
      BY <1>3, <3>1, <3>2, <3>3, <3>4, <3>7, <3>8 DEF Sets, Parts
  <2> QED
    BY <2>1, <2>2
<1>9. CASE Install
  <2>1. CASE Fails("install")
    BY <1>4, <2>1 DEF MainLabels, Parts
  <2>2. CASE ~Fails("install")
    <3>1. Later("activate") /\ UNCHANGED <<con, state>> /\ pc["main"] = "install"
      BY <1>9, <2>2 DEF Install, Parts, Early, Saves
    <3> QED
      BY <1>3, <3>1 DEF Parts
  <2> QED
    BY <2>1, <2>2
<1>10. CASE Activate
  <2>1. /\ con' = con /\ pc["main"] = "activate"
        /\ UNCHANGED <<state.original, state.output, state.changed>>
    BY <1>10 DEF Activate, TypeInv, TypeOK
  <2>2. PICK label \in {"set_title", "write"} : pc' = [pc EXCEPT !["main"] = label]
    BY <1>10 DEF Activate
  <2>3. Later(label)
    BY <2>2 DEF Parts, Early, Saves
  <2> QED
    BY <1>3, <2>1, <2>3 DEF Parts
<1>11. CASE SetTitle
  <2>1. CASE Fails("set_title")
    BY <1>4, <2>1 DEF MainLabels, Sets, Parts
  <2>2. CASE ~Fails("set_title")
    <3>1. /\ pc["main"] = "set_title" /\ pc' = [pc EXCEPT !["main"] = "mark_title"]
          /\ con' = [con EXCEPT !["title"] = "session"] /\ state' = state
      BY <1>11, <2>2 DEF SetTitle
    <3>2. titleKept' \/ options.restoreTitle
      BY <3>1 DEF Construct
    <3>3. pc'["main"] = "mark_title" /\ \A h \in Handlers : pc'[h] = pc[h]
      BY <3>1, ThreadFacts DEF TypeInv, TypeOK
    <3>4. \A p \in Parts \ {"title"} : con'[p] = con[p]
      BY <3>1 DEF TypeInv, TypeOK
    <3>5. ASSUME NEW p \in Parts, Pending(p) PROVE Pending(p)'
      <4>1. CASE ~restorationStarted
        BY <1>1, <4>1 DEF Pending
      <4>2. ASSUME NEW t \in Threads, p \in Ahead(pc[t]) PROVE Pending(p)'
        <5>1. t # "main"
          BY <3>1, <4>2, AheadFacts DEF Parts
        <5> QED
          BY <3>3, <4>2, <5>1 DEF Pending, Threads
      <4> QED
        BY <3>5, <4>1, <4>2 DEF Pending
    <3>6. \A p \in Parts : Remembered(p) <=> Remembered(p)'
      BY <1>1, <3>1 DEF Remembered, Undone, Parts
    <3>7. Excused("title")'
      BY <3>3 DEF Excused
    <3>8. Accounted'
      BY <1>2, <3>1, <3>4, <3>5, <3>6, <3>7 DEF Accounted, Excused
    <3>9. Passed'
      BY <1>1, <3>2, <3>3 DEF Passed, Early, Saves
    <3> QED
      BY <3>8, <3>9
  <2> QED
    BY <2>1, <2>2
<1>12. CASE MarkTitle
  <2>1. /\ pc["main"] = "mark_title" /\ pc' = [pc EXCEPT !["main"] = "write"] /\ con' = con
        /\ state' = [state EXCEPT !.changed = @ \cup {"title"}]
        /\ torn' = (torn \/ restorationStarted)
    BY <1>12 DEF MarkTitle
  <2>2. /\ state'.original = state.original /\ state'.output = state.output
        /\ state'.changed = state.changed \cup {"title"}
    BY <2>1 DEF TypeInv, TypeOK
  <2>3. ~titleKept =>
          options.restoreTitle /\ (state.original["title"] = "original" \/ "title" \in FailPoints)
    <3>1. ~titleKept => options.restoreTitle
      BY <2>1 DEF Passed
    <3>2. options.title
      BY <2>1 DEF TypeInv, Progress
    <3>3. ~titleKept => state.original["title"] # "unsaved"
      BY <2>1, <3>1, <3>2 DEF TypeInv, Progress, TitleSaved
    <3> QED
      BY <3>1, <3>3 DEF Accounted, Parts
  <2>4. titleKept' \/ "title" \in FailPoints \/ (~restorationStarted /\ Remembered("title")')
    BY <1>1, <1>2, <2>1, <2>2, <2>3 DEF Remembered, Undone
  <2>5. "write" \notin Parts \cup Early \cup {"mark_title", "d_reset"}
    BY DEF Parts, Early, Saves
  <2>6. pc["main"] \notin Parts
    BY <2>1 DEF Parts
  <2> QED
    BY <1>1, <1>2, <2>1, <2>2, <2>4, <2>5, <2>6, OwedMoves
<1>13. CASE WriteStartup
  <2>1. /\ state' = state /\ pc["main"] = "write" /\ torn' = (torn \/ restorationStarted)
        /\ \A p \in Parts \ {"screen"} : con'[p] = con[p]
    BY <1>13 DEF WriteStartup, TypeInv, TypeOK
  <2>2. PICK label \in {"allocate", "d_remove"} : pc' = [pc EXCEPT !["main"] = label]
    BY <1>13 DEF WriteStartup
  <2>3. Later(label)
    BY <2>2 DEF Parts, Early, Saves
  <2>4. ~restorationStarted /\ Remembered("screen")'
    BY <2>1 DEF Remembered, Undone, TypeInv, Progress, OutputThere
  <2> QED
    BY <1>3, <2>1, <2>3, <2>4 DEF Parts
<1>14. CASE Allocate
  <2>1. CASE Fails("allocate")
    BY <1>4, <2>1 DEF MainLabels, Parts
  <2>2. CASE ~Fails("allocate")
    <3>1. Later("app") /\ UNCHANGED <<con, state>> /\ pc["main"] = "allocate"
      BY <1>14, <2>2 DEF Allocate, Parts, Early, Saves
    <3> QED
      BY <1>3, <3>1 DEF Parts
  <2> QED
    BY <2>1, <2>2
<1>15. CASE \/ Save("outMode", "save_outMode", "save_inMode")
            \/ Save("inMode", "save_inMode", "save_pages")
            \/ Save("title", "save_title", "set_outCP")
  BY <1>6, <1>15 DEF Saves, Parts
<1>16. CASE \/ Set("outCP", "set_outCP", "set_inCP")
            \/ Set("inCP", "set_inCP", "set_outMode")
            \/ Set("outMode", "set_outMode", "set_inMode")
            \/ Set("inMode", "set_inMode", AfterModes)
  BY <1>8, <1>16 DEF Sets, AfterModes
<1> QED
  BY <1>5, <1>7, <1>9, <1>10, <1>11, <1>12, <1>13, <1>14, <1>15, <1>16 DEF Construct

\* The rest of the main thread's steps.
LEMMA OwedMain ==
  ASSUME TypeInv, TypeInv', Accounted, Passed, ~overtaken', process = "running",
         \/ StartSession
         \/ EndSession
         \/ RemoveHandler
         \/ Deactivate
         \/ ResetState
  PROVE  Accounted' /\ Passed'
<1> USE DEF Main, Goto
<1>1. CASE StartSession
  <2>1. /\ pc["main"] = "idle" /\ pc' = [pc EXCEPT !["main"] = "handles"]
        /\ UNCHANGED <<con, process, titleKept>> /\ state' = FreshState
        /\ \A h \in Handlers : pc[h] # "h_next"
    BY <1>1 DEF StartSession
  <2>2. pc'["main"] = "handles" /\ \A h \in Handlers : pc'[h] = pc[h]
    BY <2>1, ThreadFacts DEF TypeInv, TypeOK
  <2>3. Restored /\ Restored'
    BY <2>1 DEF Passed, Early, Restored
  <2>4. Accounted'
    BY <2>1, <2>3 DEF Accounted, Restored, Excused, FreshState, Unsaved
  <2>5. Passed'
    BY <2>1, <2>2, <2>3 DEF Passed
  <2> QED
    BY <2>4, <2>5
<1>2. CASE EndSession \/ RemoveHandler \/ Deactivate
  <2>1. /\ UNCHANGED <<con, process, restorationStarted, options, titleKept>>
        /\ pc["main"] \in {"app", "d_remove", "d_inactive"}
    BY <1>2 DEF EndSession, RemoveHandler, Deactivate, history
  <2>2. PICK label \in {"d_remove", "d_inactive", "r_test"} :
          pc' = [pc EXCEPT !["main"] = label]
    BY <1>2 DEF EndSession, RemoveHandler, Deactivate
  <2>3. UNCHANGED <<state.original, state.output, state.changed>>
    BY <1>2 DEF EndSession, RemoveHandler, Deactivate, TypeInv, TypeOK
  <2>4. label \notin Parts \cup Early \cup {"mark_title", "d_reset"}
    BY DEF Parts, Early, Saves
  <2>5. pc["main"] \notin Parts
    BY <2>1 DEF Parts
  <2> QED
    BY <2>1, <2>2, <2>3, <2>4, <2>5, OwedMoves
<1>3. CASE ResetState
  <2>1. /\ pc["main"] = "d_reset" /\ pc' = [pc EXCEPT !["main"] = "idle"]
        /\ UNCHANGED <<con, process, titleKept, restorationStarted>> /\ state' = FreshState
        /\ \A h \in Handlers : ~Restoring(h)
    BY <1>3 DEF ResetState
  <2>2. pc'["main"] = "idle" /\ \A h \in Handlers : pc'[h] = pc[h]
    BY <2>1, ThreadFacts DEF TypeInv, TypeOK
  <2>3. \A p \in Parts : ~Pending(p)
    BY <2>1, NothingPending DEF Passed, Threads, Restoring, Parts
  <2>4. Restored /\ Restored'
    BY <2>1, <2>3 DEF Accounted, Excused, Restored
  <2>5. Accounted'
    BY <2>1, <2>4 DEF Accounted, Restored, Excused, FreshState, Unsaved
  <2>6. Passed'
    BY <2>1, <2>2, <2>4 DEF Passed
  <2> QED
    BY <2>5, <2>6
<1> QED
  BY <1>1, <1>2, <1>3

\* What has once gone wrong is not forgotten.
LEMMA HistoryKept == [Next]_vars => (torn => torn') /\ (overtaken => overtaken')
<1> SUFFICES ASSUME [Next]_vars PROVE (torn => torn') /\ (overtaken => overtaken')
  OBVIOUS
<1>1. CASE StartSession
  BY <1>1 DEF StartSession
<1>2. CASE Construct
  <2>1. overtaken' = overtaken
    BY <1>2 DEF Construct
  <2>2. torn => torn'
    BY <1>2 DEF Construct, GetHandles, Save, SaveCodePages, Set, Install, Activate, SetTitle,
                MarkTitle, WriteStartup, Allocate, Fails
  <2> QED
    BY <2>1, <2>2
<1>3. CASE ResetState
  BY <1>3 DEF ResetState
<1>4. CASE EndSession \/ RemoveHandler \/ Deactivate
  BY <1>4 DEF EndSession, RemoveHandler, Deactivate, history
<1>5. CASE \E t \in Threads : Restore(t)
  BY <1>5 DEF Restore, TestAndSet, RestorePart, history
<1>6. CASE \E h \in Handlers : HandlerStep(h)
  BY <1>6 DEF HandlerStep, Raise, ControlHandler, PassOn, RaceForTitle, history
<1>7. CASE UNCHANGED vars
  BY <1>7 DEF vars, history
<1> QED
  BY <1>1, <1>2, <1>3, <1>4, <1>5, <1>6, <1>7, ThreadFacts
  DEF Next, Shutdown, Handler, HandlerStep

LEMMA OwedStep ==
  ASSUME TypeInv, TypeInv', Guarded, Owed, [Next]_vars
  PROVE  Owed'
<1> SUFFICES ASSUME ~torn', ~overtaken' PROVE Accounted' /\ Passed'
  BY DEF Owed
<1>1. ~torn /\ ~overtaken /\ Accounted /\ Passed
  BY HistoryKept DEF Owed
<1>2. CASE UNCHANGED vars
  <2>1. UNCHANGED <<con, state, options, pc, titleKept, restorationStarted, process>>
    BY <1>2 DEF vars, history
  <2> QED
    BY <1>1, <2>1
    DEF Accounted, Passed, Pending, Remembered, Undone, Excused, Restored, Quiet
<1>3. CASE Next
  <2>1. process = "running"
    BY <1>3 DEF Next
  <2>2. CASE Construct
    BY <1>1, <2>1, <2>2, OwedConstruct
  <2>3. CASE StartSession \/ EndSession \/ RemoveHandler \/ Deactivate \/ ResetState
    BY <1>1, <2>1, <2>3, OwedMain
  <2>4. CASE \E t \in Threads : Restore(t)
    BY <1>1, <2>1, <2>4, OwedRestore
  <2>5. CASE \E h \in Handlers : HandlerStep(h)
    BY <1>1, <2>1, <2>5, OwedHandler
  <2> QED
    BY <1>3, <2>2, <2>3, <2>4, <2>5, ThreadFacts
    DEF Next, Shutdown, Handler, HandlerStep
<1> QED
  BY <1>2, <1>3

THEOREM OwedInvariant == Spec => []Owed
BY TypeInvariant, GuardedInvariant, OwedInit, OwedStep, PTL DEF Spec

\* Between sessions the console is as it was found, wherever a constructor failed
\* and whatever events were dealt with, unless the constructor went on changing
\* it after a restoration had begun, or a handler's state was reset.
THEOREM ConsolePutBack == Spec => []IdleRestored
<1>1. Owed => IdleRestored
  BY DEF Owed, Passed, IdleRestored, Early
<1> QED
  BY <1>1, OwedInvariant, PTL

\* An event that ends the process after a handler has found a session leaves the
\* console as it was found, under the provisos of EndsRestored.  Where
\* SetConsoleCtrlHandler() waits for a running handler, an event that finds none
\* ends the process only while the handler is installed.
THEOREM EndsPutBack == Spec => []EndsRestored
<1>1. Calls /\ Owed => EndsRestored
  <2> SUFFICES ASSUME Calls, Accounted, Passed, process = "ended",
                      ~(~SessionFound /\ (installed \/ ~serial)),
                      \A t \in Threads : ~Restoring(t), pc["main"] # "mark_title"
               PROVE  Restored
    BY DEF Owed, EndsRestored
  <2>1. SessionFound
    BY DEF Calls, Passed
  <2>2. restorationStarted
    BY <2>1 DEF Passed, SessionFound
  <2>3. \A p \in Parts : ~Pending(p)
    BY <2>2, NothingPending
  <2> QED
    BY <2>3 DEF Accounted, Excused, Restored
<1> QED
  BY <1>1, CallsInvariant, OwedInvariant, PTL
=============================================================================
