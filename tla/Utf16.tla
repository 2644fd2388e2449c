-------------------------------- MODULE Utf16 --------------------------------
(***************************************************************************)
(* detail/Utf16.cpp: UTF-16 code units that come with a repeat count, as   *)
(* the records of a Windows console do.  Code units and characters are     *)
(* numbers; the state is the pending high surrogate, zero for none, and    *)
(* how often it has come, counted modulo MaxCount + 1.                     *)
(***************************************************************************)
EXTENDS Naturals, Sequences

CONSTANT MaxCount  \* the largest pendingHighSurrogateCount: 2 ^ 32 - 1 in the code

ASSUME CountAssumption == MaxCount \in Nat

HighSurrogates == 55296 .. 56319
LowSurrogates == 56320 .. 57343
Unpaired == 65533
NothingPending == [high |-> 0, count |-> 0]

Times(n, c) == [i \in 1 .. n |-> c]
Pair(high, low) == 65536 + (high - 55296) * 1024 + (low - 56320)

\* A result of decodeRepeatedUtf16(): the state after it, and the output.
Decoding(pending, output) == [pending |-> pending, output |-> output]

\* flushRepeatedUtf16(): what is pending will find no other half.
Flushed(pending) == Times(pending.count, Unpaired)

\* Another high surrogate: halves of one kind add up.
AfterHighForgetful(pending, unit, repeats) ==
  Decoding([high |-> unit, count |-> repeats],
           IF pending.high \in {0, unit} THEN <<>> ELSE Flushed(pending))

AfterHigh(pending, unit, repeats) ==
  LET same == pending.high \in {0, unit}
      count == (IF same THEN pending.count ELSE 0) + repeats
  IN Decoding([high |-> unit, count |-> count % (MaxCount + 1)],
              IF same THEN <<>> ELSE Flushed(pending))

\* A low surrogate, paired one for one.
AfterLow(pending, unit, repeats) ==
  LET pairs == IF pending.count < repeats THEN pending.count ELSE repeats
      left == pending.count - pairs
  IN Decoding(IF pairs > 0 /\ left = 0 THEN NothingPending
              ELSE [pending EXCEPT !.count = left],
              Times(pairs, Pair(pending.high, unit)) \o Times(repeats - pairs, Unpaired))

DecodeRepeated(pending, unit, repeats) ==
  CASE repeats = 0 -> Decoding(pending, <<>>)
    [] repeats > 0 /\ unit \in HighSurrogates -> AfterHigh(pending, unit, repeats)
    [] repeats > 0 /\ unit \in LowSurrogates -> AfterLow(pending, unit, repeats)
    [] OTHER -> Decoding(NothingPending, Flushed(pending) \o Times(repeats, unit))
=============================================================================
