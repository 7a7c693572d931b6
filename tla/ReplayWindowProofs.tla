------------------------- MODULE ReplayWindowProofs -------------------------
(***************************************************************************)
(* For every modulus, bitmap width, configured window and lag: the replay  *)
(* window takes a number if and only if it is new.                         *)
(*                                                                         *)
(* The inductive invariant ties the window to the numbers it stands for:   *)
(* `top' is the highest number taken, modulo Mod, and bit i of `seen'      *)
(* says whether the number i below it was taken.  It needs the bound on    *)
(* what the sender may be ahead, without which the serial distance of the  *)
(* next number could come out negative.                                    *)
(***************************************************************************)
EXTENDS ReplayWindow, TLAPS

\* What the window of a live sender records.
Recorded ==
    /\ win.top = high % Mod
    /\ high < sent
    /\ 2 * (sent - 1 - high) < Mod
    /\ \A n \in got : n <= high
    /\ \A i \in 0..(Bits - 1) : i \in win.seen <=> high - i \in got

WindowRecord == [top : 0..(Mod - 1), seen : SUBSET (0..(Bits - 1)), quiet : BOOLEAN]

WindowInv == WindowTypeOK /\ (~win.quiet => Recorded)

-----------------------------------------------------------------------------
\* Serial number arithmetic recovers the distance of two numbers less than
\* half the ring apart from what the wire carries of them.
LEMMA SerialIsDistance ==
    ASSUME NEW a \in Int, NEW b \in Int, -Mod <= 2 * (a - b), 2 * (a - b) < Mod
    PROVE  serial(a % Mod, b % Mod) = a - b
<1> DEFINE p == a % Mod
           q == b % Mod
           k == (a \div Mod) - (b \div Mod)
<1>1. Mod \in Nat \ {0}
  BY WindowAssumption
<1>2. p \in 0..(Mod - 1) /\ q \in 0..(Mod - 1) /\ k \in Int
  BY <1>1
<1>3. a = Mod * (a \div Mod) + p /\ b = Mod * (b \div Mod) + q
  BY <1>1
<1>4. a - b = (Mod * k) + (p - q)
  <2>1. a \div Mod \in Int /\ b \div Mod \in Int
    BY <1>1
  <2>2. Mod * k = (Mod * (a \div Mod)) - (Mod * (b \div Mod))
    BY <1>1, <2>1
  <2> QED
    BY <1>1, <1>2, <1>3, <2>1, <2>2
<1> HIDE DEF p, q, k
<1>5. k \in {-1, 0, 1}
  <2>1. k > 1 => Mod * k >= 2 * Mod
    BY <1>1, <1>2
  <2>2. k < -1 => Mod * k <= -(2 * Mod)
    BY <1>1, <1>2
  <2> QED
    BY <1>1, <1>2, <1>4, <2>1, <2>2
<1>6. (p - q) % Mod = IF p >= q THEN p - q ELSE (p - q) + Mod
  <2>1. ASSUME NEW x \in 0..(Mod - 1)
        PROVE  x % Mod = x
    BY <1>1, <2>1
  <2>2. ASSUME NEW x \in Int, -Mod <= x, x < 0
        PROVE  x % Mod = x + Mod
    BY <1>1, <2>2
  <2> QED
    BY <1>1, <1>2, <2>1, <2>2
<1>7. serial(p, q) = LET d == IF p >= q THEN p - q ELSE (p - q) + Mod
                     IN  IF 2 * d < Mod THEN d ELSE d - Mod
  BY <1>6 DEF serial
<1>8. a - b = (p - q) - Mod \/ a - b = p - q \/ a - b = (p - q) + Mod
  BY <1>1, <1>2, <1>4, <1>5
<1>9. serial(p, q) = a - b
  BY <1>1, <1>2, <1>7, <1>8
<1> QED
  BY <1>9 DEF p, q

\* A window that has taken something is a window.
LEMMA LiveWindow ==
    ASSUME NEW t \in 0..(Mod - 1), NEW S \in SUBSET (0..(Bits - 1)),
           win' = [top |-> t, seen |-> S, quiet |-> FALSE]
    PROVE  win' \in WindowRecord
BY DEF WindowRecord

\* A number the network still delivers is less than half the ring from the
\* highest one taken.
LEMMA DeliveredIsNear ==
    ASSUME WindowInv, ~win.quiet, NEW n \in Nat, n < sent, sent <= n + MaxLag
    PROVE  serial(n % Mod, win.top) = n - high
<1>1. /\ Mod \in Nat /\ MaxLag \in Nat /\ 2 * MaxLag < Mod
      /\ sent \in Nat /\ high \in Nat
  BY WindowAssumption DEF WindowInv, WindowTypeOK
<1>2. high < sent /\ 2 * (sent - 1 - high) < Mod /\ win.top = high % Mod
  BY DEF WindowInv, Recorded
<1>3. -Mod <= 2 * (n - high) /\ 2 * (n - high) < Mod
  BY <1>1, <1>2
<1>4. serial(n % Mod, high % Mod) = n - high
  <2>1. n \in Int /\ high \in Int
    BY <1>1
  <2> QED
    BY <1>3, <2>1, SerialIsDistance, Zenon
<1> QED
  BY <1>2, <1>4

\* The invariant decides every number that arrives.
LEMMA InvDecides == WindowInv => TakenIffNew
<1> SUFFICES ASSUME WindowInv, ~win.quiet, NEW n \in 0..(MaxSent - 1),
                    n < sent, sent <= n + MaxLag
             PROVE  fresh(win, n % Mod, size) <=> n \notin got /\ n > high - size
  BY DEF TakenIffNew
<1>1. n \in Nat /\ Bits \in Nat /\ size \in 1..Bits /\ high \in Nat
  BY WindowAssumption DEF WindowInv, WindowTypeOK
<1>2. serial(n % Mod, win.top) = n - high
  BY <1>1, DeliveredIsNear
<1>3. fresh(win, n % Mod, size) <=> n - high > 0 \/ (-(n - high) < size /\ -(n - high) \notin win.seen)
  BY <1>2 DEF fresh
<1>4. CASE n > high
  <2>1. n \notin got
    BY <1>1, <1>4 DEF WindowInv, Recorded
  <2> QED
    BY <1>1, <1>3, <1>4, <2>1
<1>5. CASE n <= high /\ high - n < size
  <2>1. high - n \in 0..(Bits - 1)
    BY <1>1, <1>5
  <2>2. high - n \in win.seen <=> n \in got
    <3>1. high - n \in win.seen <=> high - (high - n) \in got
      BY <2>1 DEF WindowInv, Recorded
    <3>2. high - (high - n) = n
      BY <1>1
    <3> QED
      BY <3>1, <3>2
  <2>3. -(n - high) = high - n
    BY <1>1
  <2> QED
    BY <1>1, <1>3, <1>5, <2>2, <2>3
<1>6. CASE n <= high /\ high - n >= size
  BY <1>1, <1>3, <1>6
<1> QED
  BY <1>1, <1>4, <1>5, <1>6

-----------------------------------------------------------------------------
\* An accepted number is recorded as the one it is.
LEMMA AcceptKeeps ==
    ASSUME WindowInv, NEW n \in Nat, Accept(n)
    PROVE  WindowInv'
<1> USE WindowAssumption
<1>1. /\ n < sent /\ sent <= n + MaxLag
      /\ size' = size /\ sent' = sent
      /\ win' = recorded(win, n % Mod)
      /\ size \in 1..Bits /\ sent \in Nat /\ high \in Nat /\ got \in SUBSET Nat
      /\ win.top \in 0..(Mod - 1) /\ win.seen \in SUBSET (0..(Bits - 1)) /\ win.quiet \in BOOLEAN
  BY DEF Accept, WindowInv, WindowTypeOK
<1>2. n % Mod \in 0..(Mod - 1)
  OBVIOUS
<1>3. ~win'.quiet
  BY <1>1 DEF recorded
<1>4. CASE win.quiet
  <2>1. win' = [top |-> n % Mod, seen |-> {0}, quiet |-> FALSE] /\ high' = n /\ got' = {n}
    BY <1>1, <1>4 DEF recorded, Accept
  <2>2. WindowTypeOK'
    <3>1. {0} \in SUBSET (0..(Bits - 1))
      OBVIOUS
    <3>2. win' \in WindowRecord
      BY <1>2, <2>1, <3>1, LiveWindow, Zenon
    <3> QED
      BY <1>1, <2>1, <3>2 DEF WindowTypeOK, WindowRecord
  <2>3. \A i \in 0..(Bits - 1) : i \in win'.seen <=> high' - i \in got'
    BY <2>1
  <2>4. Recorded'
    BY <1>1, <2>1, <2>3 DEF Recorded
  <2> QED
    BY <2>2, <2>4 DEF WindowInv
<1>5. CASE ~win.quiet
  <2>1. Recorded
    BY <1>5 DEF WindowInv
  <2>2. serial(n % Mod, win.top) = n - high
    BY <1>1, <1>5, DeliveredIsNear
  <2>3. n - high > 0 \/ (-(n - high) < size /\ -(n - high) \notin win.seen)
    BY <1>5, <2>2 DEF Accept, fresh
  <2>4. got' = got \cup {n}
    BY <1>5 DEF Accept
  <2>5. CASE n > high
    <3>1. high' = n
      BY <2>5 DEF Accept
    <3>2. win' = [top |-> n % Mod, seen |-> shifted(win.seen, n - high), quiet |-> FALSE]
      <4>1. n - high > 0
        BY <1>1, <2>5
      <4> QED
        BY <1>1, <1>5, <2>2, <4>1, Zenon DEF recorded
    <3>3. shifted(win.seen, n - high) \in SUBSET (0..(Bits - 1))
      BY DEF shifted
    <3>4. WindowTypeOK'
      <4>1. win' \in WindowRecord
        BY <1>2, <3>2, <3>3, LiveWindow, Zenon
      <4> QED
        BY <1>1, <2>4, <3>1, <4>1 DEF WindowTypeOK, WindowRecord
    <3>5. ASSUME NEW i \in 0..(Bits - 1)
          PROVE  i \in win'.seen <=> high' - i \in got'
      <4>1. i \in win'.seen <=> i = 0 \/ i - (n - high) \in win.seen
        BY <3>2 DEF shifted
      <4>2. i - (n - high) \in win.seen => n - i \in got
        <5>1. i - (n - high) \in 0..(Bits - 1) =>
                (i - (n - high) \in win.seen <=> high - (i - (n - high)) \in got)
          BY <2>1 DEF Recorded
        <5>2. high - (i - (n - high)) = n - i
          BY <1>1
        <5> QED
          BY <1>1, <5>1, <5>2
      <4>3. n - i \in got => i - (n - high) \in win.seen
        <5>1. n - i \in got => n - i <= high
          BY <2>1 DEF Recorded
        <5>2. n - i <= high => i - (n - high) \in 0..(Bits - 1)
          BY <1>1, <2>5
        <5>3. i - (n - high) \in 0..(Bits - 1) =>
                (i - (n - high) \in win.seen <=> high - (i - (n - high)) \in got)
          BY <2>1 DEF Recorded
        <5>4. high - (i - (n - high)) = n - i
          BY <1>1
        <5> QED
          BY <5>1, <5>2, <5>3, <5>4
      <4>4. n - i = n <=> i = 0
        OBVIOUS
      <4> QED
        BY <2>4, <3>1, <4>1, <4>2, <4>3, <4>4
    <3>6. \A m \in got' : m <= high'
      BY <1>1, <2>1, <2>4, <2>5, <3>1 DEF Recorded
    <3>7. Recorded'
      BY <1>1, <3>1, <3>2, <3>5, <3>6 DEF Recorded
    <3> QED
      BY <3>4, <3>7 DEF WindowInv
  <2>6. CASE n <= high
    <3>1. high' = high
      BY <1>1, <1>5, <2>6 DEF Accept
    <3>2. win' = [top |-> win.top, seen |-> win.seen \cup {-(n - high)}, quiet |-> FALSE]
      <4>1. ~(n - high > 0)
        BY <1>1, <2>6
      <4> QED
        BY <1>1, <1>5, <2>2, <4>1, Zenon DEF recorded
    <3>3. -(n - high) \in 0..(Bits - 1) /\ -(n - high) = high - n
      BY <1>1, <2>3, <2>6
    <3>4. WindowTypeOK'
      <4>1. win.seen \cup {-(n - high)} \in SUBSET (0..(Bits - 1))
        BY <1>1, <3>3
      <4>2. win' \in WindowRecord
        BY <1>1, <3>2, <4>1, LiveWindow
      <4> QED
        BY <1>1, <2>4, <3>1, <4>2 DEF WindowTypeOK, WindowRecord
    <3>5. ASSUME NEW i \in 0..(Bits - 1)
          PROVE  i \in win'.seen <=> high' - i \in got'
      <4>1. i \in win'.seen <=> i \in win.seen \/ i = high - n
        BY <3>2, <3>3
      <4>2. i \in win.seen <=> high - i \in got
        BY <2>1 DEF Recorded
      <4>3. i = high - n <=> high - i = n
        BY <1>1
      <4> QED
        BY <2>4, <3>1, <4>1, <4>2, <4>3
    <3>6. \A m \in got' : m <= high'
      BY <2>1, <2>4, <2>6, <3>1 DEF Recorded
    <3>7. Recorded'
      BY <1>1, <2>1, <3>1, <3>2, <3>5, <3>6 DEF Recorded
    <3> QED
      BY <3>4, <3>7 DEF WindowInv
  <2> QED
    BY <1>1, <2>5, <2>6
<1> QED
  BY <1>1, <1>4, <1>5

LEMMA WindowInitially == WindowInit => WindowInv
BY WindowAssumption DEF WindowInit, WindowInv, WindowTypeOK, NewWindow

LEMMA WindowStep == WindowInv /\ [WindowNext]_windowVars => WindowInv'
<1> SUFFICES ASSUME WindowInv, [WindowNext]_windowVars
             PROVE  WindowInv'
  OBVIOUS
<1>1. CASE Count
  <2>1. /\ sent' = sent + 1 /\ size' = size /\ win' = win /\ high' = high /\ got' = got
        /\ win.quiet \/ 2 * (sent - high) < Mod
    BY <1>1 DEF Count
  <2>2. WindowTypeOK'
    BY <2>1 DEF WindowInv, WindowTypeOK
  <2>3. ~win.quiet => Recorded'
    <3> SUFFICES ASSUME ~win.quiet PROVE Recorded'
      OBVIOUS
    <3>1. sent \in Nat /\ high \in Nat /\ Mod \in Nat
      BY WindowAssumption DEF WindowInv, WindowTypeOK
    <3>2. high' < sent' /\ 2 * (sent' - 1 - high') < Mod
      BY <2>1, <3>1 DEF WindowInv, Recorded
    <3> QED
      BY <2>1, <3>2 DEF WindowInv, Recorded
  <2> QED
    BY <2>1, <2>2, <2>3 DEF WindowInv
<1>2. CASE Silence
  <2>1. win \in WindowRecord
    BY DEF WindowInv, WindowTypeOK, WindowRecord
  <2>2. win'.quiet /\ win' \in WindowRecord
    BY <1>2, <2>1, Zenon DEF Silence, WindowRecord
  <2>3. WindowTypeOK'
    BY <1>2, <2>2, Zenon DEF Silence, WindowInv, WindowTypeOK, WindowRecord
  <2> QED
    BY <2>2, <2>3 DEF WindowInv
<1>3. ASSUME NEW n \in 0..(MaxSent - 1), Accept(n)
      PROVE  WindowInv'
  BY <1>3, AcceptKeeps, WindowAssumption
<1>4. ASSUME UNCHANGED windowVars
      PROVE  WindowInv'
  BY <1>4 DEF windowVars, WindowInv, WindowTypeOK, Recorded
<1>5. ASSUME NEW n \in 0..(MaxSent - 1), Refuse(n)
      PROVE  WindowInv'
  BY <1>4, <1>5 DEF Refuse
<1> QED
  BY <1>1, <1>2, <1>3, <1>4, <1>5 DEF WindowNext

-----------------------------------------------------------------------------
\* ReplayWindow::accept takes a number from a live sender exactly when it has
\* not been taken since the last reset and lies within the configured width,
\* for every ring and bitmap and however often the counter has wrapped.
THEOREM WindowTakesIffNew == WindowSpec => []TakenIffNew
<1>1. WindowSpec => []WindowInv
  BY WindowInitially, WindowStep, PTL DEF WindowSpec
<1> QED
  BY <1>1, InvDecides, PTL
=============================================================================
