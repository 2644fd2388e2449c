------------------------------ MODULE Geometry ------------------------------
(***************************************************************************)
(* The integer rectangles of Console: which cells one contains and how two *)
(* are intersected.  Coordinates are C++ ints; the arithmetic on them is    *)
(* done in 64 bits, where nothing overflows, and is clamped back to int.   *)
(***************************************************************************)
EXTENDS Integers

CONSTANTS
  IntMin,   \* std::numeric_limits<int>::min()
  IntMax    \* std::numeric_limits<int>::max()

ASSUME IntAssumption ==
  /\ IntMax \in Nat
  /\ IntMin \in Int
  /\ IntMin = -IntMax - 1

Ints == IntMin .. IntMax

Rects == [x : Ints, y : Ints, width : Ints, height : Ints]

Rect(x, y, width, height) ==
  [x |-> x, y |-> y, width |-> width, height |-> height]

FitsInt(value) == value \in Ints

ClampToInt(value) ==
  IF value < IntMin THEN IntMin ELSE IF value > IntMax THEN IntMax ELSE value

Larger(a, b) == IF a < b THEN b ELSE a

Smaller(a, b) == IF b < a THEN b ELSE a

-----------------------------------------------------------------------------
\* A rectangle is half open, and empty when a side is not positive.
Contains(r, p) ==
  /\ r.width > 0 /\ r.height > 0
  /\ p[1] >= r.x /\ p[1] < r.x + r.width
  /\ p[2] >= r.y /\ p[2] < r.y + r.height

\* The ends of a rectangle, where a negative side counts as none; and the
\* right end in the 32 bits of an int.
Wrapped(value) == IF value > IntMax THEN value - 2 * (IntMax + 1) ELSE value
RightOfNarrow(r) == Wrapped(r.x + Larger(0, r.width))
RightOf(r) == r.x + Larger(0, r.width)
BottomOf(r) == r.y + Larger(0, r.height)

Intersect(first, second) ==
  LET left   == Larger(first.x, second.x)
      top    == Larger(first.y, second.y)
      right  == Smaller(RightOf(first), RightOf(second))
      bottom == Smaller(BottomOf(first), BottomOf(second))
  IN IF right <= left \/ bottom <= top
     THEN Rect(ClampToInt(left), ClampToInt(top), 0, 0)
     ELSE Rect(ClampToInt(left), ClampToInt(top),
               Smaller(right - left, IntMax), Smaller(bottom - top, IntMax))
=============================================================================
