---------------------------- MODULE ReplayWindow ----------------------------
(***************************************************************************)
(* The anti-replay window of rsession/replay.rs: the highest SPDU number   *)
(* accepted from one sender under one key and a bitmap of the ones below   *)
(* it, with numbers compared in serial number arithmetic so that the       *)
(* sender's counter may wrap.                                              *)
(*                                                                         *)
(* The specification at the end puts the window behind a sender that       *)
(* counts without wrapping and a network that delays, repeats and reorders *)
(* what it sent.  Mod stands for 2^32 and Bits for the 64 bits of `seen';  *)
(* a window of `size' bits, at most Bits, is what Session::open configures.*)
(***************************************************************************)
EXTENDS Integers

CONSTANTS
    Mod,        \* the numbers of the wire: 2^32 in the code
    Bits,       \* the width of the bitmap: 64 in the code
    MaxLag,     \* how far behind the newest number sent the network delivers
    MaxSent     \* bound: numbers the sender uses

ASSUME WindowAssumption ==
    /\ Mod \in Nat \ {0}
    /\ Bits \in Nat \ {0}
    /\ MaxLag \in Nat
    /\ MaxSent \in Nat
    /\ 2 * MaxLag < Mod
    /\ 2 * Bits < Mod

VARIABLES
    size,       \* the configured window width
    win,        \* the window: [top, seen, quiet]
    sent,       \* how many numbers the sender has used
    high,       \* observation: the number of the sender that `top' stands for
    got         \* observation: the numbers accepted since the last reset

windowVars == <<size, win, sent, high, got>>

(***************************************************************************)
(* n.wrapping_sub(top) as i32: the distance from top to n in the half ring *)
(* on either side of it.                                                   *)
(***************************************************************************)
serial(n, top) ==
    LET d == (n - top) % Mod
    IN  IF 2 * d < Mod THEN d ELSE d - Mod

(***************************************************************************)
(* (seen << d) | 1, or 1 when everything is shifted out.                   *)
(***************************************************************************)
shifted(seen, d) ==
    {0} \cup {i \in 0..(Bits - 1) : i - d \in seen}

(***************************************************************************)
(* `quiet' is the code's `expired': nothing accepted yet, or the reset     *)
(* time passed with nothing accepted.                                      *)
(***************************************************************************)
NewWindow == [top |-> 0, seen |-> {}, quiet |-> TRUE]

(***************************************************************************)
(* A bug: a window one number wider than configured.                       *)
(***************************************************************************)
fresh_Wider(w, n, width) ==
    LET d == serial(n, w.top)
    IN  w.quiet \/ d > 0 \/ (-d <= width /\ -d \notin w.seen)

(***************************************************************************)
(* ReplayWindow::accept: what it takes, and the window that has taken it.  *)
(***************************************************************************)
fresh(w, n, width) ==
    LET d == serial(n, w.top)
    IN  w.quiet \/ d > 0 \/ (-d < width /\ -d \notin w.seen)

recorded(w, n) ==
    LET d == serial(n, w.top)
    IN  [top   |-> IF w.quiet \/ d > 0 THEN n ELSE w.top,
         seen  |-> IF w.quiet THEN {0}
                   ELSE IF d > 0 THEN shifted(w.seen, d)
                   ELSE w.seen \cup {-d},
         quiet |-> FALSE]

-----------------------------------------------------------------------------
WindowInit ==
    /\ size \in 1..Bits
    /\ win = NewWindow
    /\ sent = 0
    /\ high = 0
    /\ got = {}

(***************************************************************************)
(* Session::send takes the next number.  The network does not lose half    *)
(* the ring in a row, 2^31 SPDUs, which serial number arithmetic cannot    *)
(* tell from a step back.                                                  *)
(***************************************************************************)
Count ==
    /\ sent < MaxSent
    /\ win.quiet \/ 2 * (sent - high) < Mod
    /\ sent' = sent + 1
    /\ UNCHANGED <<size, win, high, got>>

(***************************************************************************)
(* The reset time passes with nothing accepted.                            *)
(***************************************************************************)
Silence ==
    /\ win' = [win EXCEPT !.quiet = TRUE]
    /\ UNCHANGED <<size, sent, high, got>>

(***************************************************************************)
(* ReplayWindow::accept for the sender's number n, which travels modulo    *)
(* Mod.                                                                    *)
(***************************************************************************)
Accept(n) ==
    /\ n < sent /\ sent <= n + MaxLag
    /\ fresh(win, n % Mod, size)
    /\ win' = recorded(win, n % Mod)
    /\ high' = IF win.quiet \/ n > high THEN n ELSE high
    /\ got' = IF win.quiet THEN {n} ELSE got \cup {n}
    /\ UNCHANGED <<size, sent>>

Refuse(n) ==
    /\ n < sent /\ sent <= n + MaxLag
    /\ ~fresh(win, n % Mod, size)
    /\ UNCHANGED windowVars

WindowNext ==
    \/ Count
    \/ Silence
    \/ \E n \in 0..(MaxSent - 1) : Accept(n) \/ Refuse(n)

WindowSpec == WindowInit /\ [][WindowNext]_windowVars

-----------------------------------------------------------------------------
WindowTypeOK ==
    /\ size \in 1..Bits
    /\ win \in [top : 0..(Mod - 1), seen : SUBSET (0..(Bits - 1)), quiet : BOOLEAN]
    /\ sent \in Nat
    /\ high \in Nat
    /\ got \in SUBSET Nat

(***************************************************************************)
(* The window refuses exactly what RFC 4303 lets it refuse: a number that  *)
(* arrives while the window is live is taken if and only if it has not     *)
(* been taken since the last reset and is newer than the oldest the        *)
(* configured width remembers.  So no SPDU is accepted twice and none is   *)
(* lost to the wrap of the counter.                                        *)
(***************************************************************************)
TakenIffNew ==
    \A n \in 0..(MaxSent - 1) :
        n < sent /\ sent <= n + MaxLag /\ ~win.quiet
            => (fresh(win, n % Mod, size) <=> n \notin got /\ n > high - size)

=============================================================================
