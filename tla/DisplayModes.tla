----------------------------- MODULE DisplayModes -----------------------------
(***************************************************************************)
(* The choice of a display mode (windows-host/vdisplay/src/mode_select.cpp)*)
(* as the loops of PickBestMode make it, and what its declaration in       *)
(* virtual_display.hpp promises of the choice.                             *)
(***************************************************************************)
EXTENDS Integers, Sequences, SequencesExt

\* What Windows lists has a size, of sides below 2^31: the 64 bits of area and
\* same_aspect hold every product.
Side == {n \in Nat : 0 < n /\ n <= 2147483647}

DisplayMode == [width : Side, height : Side, hz : Nat]

NoMode == [width |-> 0, height |-> 0, hz |-> 0]

area(m) == m.width * m.height

same_size(a, b) == a.width = b.width /\ a.height = b.height

\* Aspect ratios are compared by cross-multiplication, in 64 bits.
same_aspect(a, b) == a.width * b.height = b.width * a.height

Distance(x, y) == IF x < y THEN y - x ELSE x - y

\* A mutant of nearer_refresh: the lower of two equally near.
lower_refresh(a, b, desired) ==
  \/ Distance(a.hz, desired.hz) < Distance(b.hz, desired.hz)
  \/ Distance(a.hz, desired.hz) = Distance(b.hz, desired.hz) /\ a.hz < b.hz

\* Tier 2: nearer in refresh rate, the higher of two equally near.
nearer_refresh(a, b, desired) ==
  \/ Distance(a.hz, desired.hz) < Distance(b.hz, desired.hz)
  \/ Distance(a.hz, desired.hz) = Distance(b.hz, desired.hz) /\ a.hz > b.hz

\* Tier 3: aspect ratio, then pixel area, then refresh rate.
better_fit(a, b, desired) ==
  LET aa == same_aspect(a, desired)
      ba == same_aspect(b, desired)
      ad == Distance(area(a), area(desired))
      bd == Distance(area(b), area(desired))
  IN  \/ aa /\ ~ba
      \/ aa = ba /\ ad < bd
      \/ aa = ba /\ ad = bd /\ a.hz > b.hz

\* The loops of tiers 2 and 3: what is the best after each mode.  A later mode
\* that beats it replaces it; NoMode is nullptr.
Sized(desired, supported) ==
  LET best[i \in 0..Len(supported)] ==
        IF i = 0 THEN NoMode
        ELSE IF /\ same_size(supported[i], desired)
                /\ best[i - 1] = NoMode \/ nearer_refresh(supported[i], best[i - 1], desired)
          THEN supported[i] ELSE best[i - 1]
  IN  best

Fitting(desired, supported) ==
  LET best[i \in 0..Len(supported) - 1] ==
        IF i = 0 THEN supported[1]
        ELSE IF better_fit(supported[i + 1], best[i - 1], desired)
          THEN supported[i + 1] ELSE best[i - 1]
  IN  best

\* The tiers in turn; NoMode is nullopt.
PickBestMode(desired, supported) ==
  LET sized == Sized(desired, supported)[Len(supported)]
  IN  IF supported = <<>> THEN NoMode
      ELSE IF desired \in ToSet(supported) THEN desired
      ELSE IF sized # NoMode THEN sized
      ELSE Fitting(desired, supported)[Len(supported) - 1]

-------------------------------------------------------------------------------

\* What virtual_display.hpp:24 promises, tier by tier.
IsBest(m, desired, modes) ==
  LET offered == ToSet(modes)
      sized == {x \in offered : same_size(x, desired)}
      shaped == {x \in offered : same_aspect(x, desired)}
      candidates == IF sized # {} THEN sized ELSE IF shaped # {} THEN shaped ELSE offered
      off(x) == IF sized # {} THEN Distance(x.hz, desired.hz)
                ELSE Distance(area(x), area(desired))
      nearest == {x \in candidates : \A y \in candidates : off(x) <= off(y)}
  IN  IF desired \in offered THEN m = desired
      ELSE m \in nearest /\ \A y \in nearest : m.hz >= y.hz
===============================================================================
