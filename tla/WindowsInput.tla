---------------------------- MODULE WindowsInput ----------------------------
(***************************************************************************)
(* From the keyboard to Input on Windows: the user's hands, the console's  *)
(* buffer of records, platformReadInput() of WindowsTerminal.cpp, which    *)
(* turns records into native events, and Input, which processes these.     *)
(* The console sees the keyboard only while its window has the focus.      *)
(*                                                                         *)
(* A step of a read handles one record.  What arrives during a read is     *)
(* read by the same loop as what came before it, so the user acts between  *)
(* updates.  Scan codes, lock keys and virtual key codes are left out: a   *)
(* record names its portable key.                                          *)
(***************************************************************************)
EXTENDS InputState, Utf16, SequencesExt

CONSTANTS
  UnitOf,        \* the code unit that a key types, zero for none
  PastedUnits,   \* code units that are entered without a key of their own
  FocusOptions,  \* values of TerminalOptions::enableFocusEvents
  MaxRepeats,    \* bound: wRepeatCount of a record
  MaxActs,       \* bound: acts of the user
  MaxPastes      \* bound: those that enter text without a key

Shifts == {"LeftShift", "RightShift"}
Controls == {"LeftControl", "RightControl"}
Alts == {"LeftAlt", "RightAlt"}
Supers == {"LeftSuper", "RightSuper"}
ModifierKeys == Shifts \cup Controls \cup Alts \cup Supers

ASSUME WindowsAssumption ==
  /\ UnitOf \in [Keys \cup {Unknown} -> 0 .. 2 ^ 16 - 1]
  /\ Unknown \notin ModifierKeys
  /\ PastedUnits \subseteq 1 .. 2 ^ 16 - 1
  /\ FocusOptions \subseteq BOOLEAN
  /\ MaxRepeats \in 1 .. 2 ^ 16 - 1 /\ MaxActs \in Nat /\ MaxPastes \in Nat

VARIABLES
  physical,     \* the user: keys held down
  here,         \* the console's window has the focus
  records,      \* the console's input buffer
  tracked,      \* WindowsState: the modifier keys whose Held flag is set
  utf16State,
  enableFocusEvents,
  reading,      \* platformReadInput() is running
  nativeEvents, \* the events it has appended
  acts,         \* the bounds left: [all, pastes]
  missed,       \* auxiliary: keys that were released while the focus was elsewhere
  typed,        \* auxiliary: the code units entered since the buffer was flushed,
                \* zero for a lost focus that the session takes note of
  decoded,      \* auxiliary: the characters made of them
  report        \* auxiliary: the last key record of this read, with its modifiers

keyboard == <<physical, here, records, acts, missed, typed>>
backend == <<tracked, utf16State, decoded, report>>
windowsVars == <<keyboard, backend, enableFocusEvents, reading, nativeEvents>>

NoReport == [modifiers |-> {}, held |-> {}, missed |-> {}]
-----------------------------------------------------------------------------
(* The user and the console.                                               *)

\* The bits of dwControlKeyState.
ControlState ==
  (physical \cap (Controls \cup Alts)) \cup (IF physical \cap Shifts = {} THEN {} ELSE {"Shift"})

KeyRecord(k, down, repeats, unit) ==
  [type |-> "key", key |-> k, down |-> down, repeats |-> repeats, unit |-> unit,
   control |-> ControlState', held |-> physical', missed |-> missed']

\* A key-down just like the last record in the buffer is added to it.
Coalesces(r) ==
  /\ records # <<>> /\ Last(records).type = "key"
  /\ r.down /\ Last(records) = [r EXCEPT !.repeats = Last(records).repeats]

Buffer(r) ==
  IF r.type = "key" /\ Coalesces(r)
  THEN [records EXCEPT ![Len(records)].repeats = @ + r.repeats]
  ELSE Append(records, r)

Between == pc = "ready" /\ ~reading

Act(kinds) ==
  /\ Between
  /\ \A kind \in kinds : acts[kind] > 0
  /\ acts' = [kind \in DOMAIN acts |-> acts[kind] - IF kind \in kinds THEN 1 ELSE 0]
  /\ UNCHANGED <<vars, backend, enableFocusEvents, reading, nativeEvents>>

KeyReachesConsole(k, down, unit) ==
  /\ records' = IF here THEN Buffer(KeyRecord(k, down, 1, unit)) ELSE records
  /\ typed' = IF here /\ down /\ unit # 0 THEN Append(typed, unit) ELSE typed

Press(k) ==
  /\ Act({"all"})
  /\ k \notin physical
  /\ physical' = physical \cup {k}
  /\ missed' = missed \ {k}
  /\ KeyReachesConsole(k, TRUE, UnitOf[k])
  /\ UNCHANGED here

AutoRepeat(k) ==
  /\ Act({"all"})
  /\ k \in physical /\ here
  /\ \A r \in Range(records) : r.type = "key" => r.repeats < MaxRepeats
  /\ UNCHANGED <<physical, missed, here>>
  /\ KeyReachesConsole(k, TRUE, UnitOf[k])

Release(k) ==
  /\ Act({"all"})
  /\ k \in physical
  /\ physical' = physical \ {k}
  /\ missed' = IF here THEN missed ELSE missed \cup {k}
  /\ KeyReachesConsole(k, FALSE, 0)
  /\ UNCHANGED here

\* Pasted text, or an input method: code units with no key of their own.
Paste(unit, repeats) ==
  /\ Act({"all", "pastes"})
  /\ here
  /\ UNCHANGED <<physical, missed, here>>
  /\ records' = Buffer(KeyRecord(Unknown, TRUE, repeats, unit))
  /\ typed' = typed \o Times(repeats, unit)

SwitchWindow ==
  /\ Act({"all"})
  /\ here' = ~here
  /\ records' = Append(records, [type |-> "focus", set |-> here'])
  /\ typed' = IF here /\ enableFocusEvents THEN Append(typed, 0) ELSE typed
  /\ UNCHANGED <<physical, missed>>

User ==
  \/ \E k \in Keys : Press(k) \/ AutoRepeat(k) \/ Release(k)
  \/ \E unit \in PastedUnits, repeats \in 1 .. MaxRepeats : Paste(unit, repeats)
  \/ SwitchWindow
-----------------------------------------------------------------------------
(* platformReadInput().                                                    *)

\* updateTrackedModifier()
Tracked(k, down) ==
  IF down THEN tracked \cup ({k} \cap ModifierKeys) ELSE tracked \ {k}

\* modifiersFromControlState(): Shift without a side counts as the left one.
ModifiersTracked(held, control) == held
Modifiers(held, control) ==
  held \cup (control \cap (Controls \cup Alts))
       \cup (IF "Shift" \in control /\ held \cap Shifts = {} THEN {"LeftShift"} ELSE {})

\* A read that finds no record hands over no event: an update() that only
\* clears the flags of the last frame is left to InputState.
BeginRead ==
  /\ Between
  /\ records # <<>>
  /\ reading' = TRUE
  /\ nativeEvents' = <<>>
  /\ UNCHANGED <<vars, keyboard, backend, enableFocusEvents>>

Reading(type) == reading /\ records # <<>> /\ Head(records).type = type

Read(events) ==
  /\ records' = Tail(records)
  /\ nativeEvents' = nativeEvents \o events
  /\ UNCHANGED <<vars, physical, here, acts, missed, typed, enableFocusEvents, reading>>

Text(characters) == [i \in DOMAIN characters |-> [type |-> "Text", character |-> characters[i]]]

\* A key-down that types something is followed by the text.
ReadKey ==
  /\ Reading("key")
  /\ LET r == Head(records)
         event == [type |-> IF r.down THEN "KeyDown" ELSE "KeyUp", key |-> r.key,
                   repeated |-> r.down /\ r.repeats > 1]
         decoding == IF r.down /\ r.unit # 0 THEN DecodeRepeated(utf16State, r.unit, r.repeats)
                     ELSE Decoding(utf16State, <<>>)
     IN /\ tracked' = Tracked(r.key, r.down)
        /\ report' = [modifiers |-> Modifiers(tracked', r.control),
                      held |-> r.held, missed |-> r.missed]
        /\ utf16State' = decoding.pending
        /\ decoded' = decoded \o decoding.output
        /\ Read(<<event>> \o Text(decoding.output))

\* The halves of a character do not survive a change of windows; the tracked
\* modifiers do.
PendingAfterFocus(set) == IF set THEN utf16State ELSE NothingPending

ReadFocus ==
  /\ Reading("focus")
  /\ LET r == Head(records)
     IN IF enableFocusEvents
        THEN /\ Read(<<[type |-> IF r.set THEN "FocusGained" ELSE "FocusLost"]>>)
             /\ utf16State' = PendingAfterFocus(r.set)
        ELSE Read(<<>>) /\ UNCHANGED utf16State
  /\ UNCHANGED <<tracked, decoded, report>>

\* The events are handed to Input; a read that fails before the buffer is empty
\* throws, with the events it has read.
HandOver ==
  /\ reading
  /\ BeginUpdate(nativeEvents)
  /\ records # <<>> => pc' = "ready"
  /\ reading' = FALSE
  /\ nativeEvents' = <<>>
  /\ report' = NoReport
  /\ UNCHANGED <<keyboard, tracked, utf16State, decoded, enableFocusEvents>>

\* A new session: platformInitialize() and platformFlushInput().
Begin ==
  /\ Initialize
  /\ tracked' = {} /\ utf16State' = NothingPending
  /\ records' = <<>>
  /\ typed' = <<>> /\ decoded' = <<>>
  /\ enableFocusEvents' \in FocusOptions
  /\ missed' = {}
  /\ UNCHANGED <<physical, here, acts, report, reading, nativeEvents>>

\* Input's own steps.
Process ==
  /\ \/ KeyDown \/ KeyUp \/ TextEntered \/ FocusGained
     \/ FocusLost \/ (\E k \in Keys : ReleaseKey(k)) \/ ReleasedAllKeys \/ EndUpdate
     \/ ~reading /\ Close
  /\ UNCHANGED windowsVars
-----------------------------------------------------------------------------
WindowsInit ==
  /\ Init
  /\ physical = {} /\ here = TRUE
  /\ records = <<>>
  /\ tracked = {} /\ utf16State = NothingPending
  /\ enableFocusEvents \in FocusOptions
  /\ reading = FALSE /\ nativeEvents = <<>>
  /\ acts = [all |-> MaxActs, pastes |-> MaxPastes]
  /\ missed = {} /\ typed = <<>> /\ decoded = <<>>
  /\ report = NoReport

WindowsNext == User \/ BeginRead \/ ReadKey \/ ReadFocus \/ HandOver \/ Begin \/ Process

WindowsSpec == WindowsInit /\ [][WindowsNext]_<<vars, windowsVars>>
=============================================================================
