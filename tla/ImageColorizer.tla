---------------------------- MODULE ImageColorizer ----------------------------
(***************************************************************************)
(* The colour of a distance (driver/src/color.cpp).  The constructor fills *)
(* colorVector with NUM_COLORS colours from blue (index 0) to red;         *)
(* getColor turns a distance into an index, the near ones at its red end.  *)
(*                                                                         *)
(* Floating point is exact integer arithmetic here: the range is 0..20000  *)
(* (tof320.cpp:32), so that indexFactorColor is 3/8, and the corners of    *)
(* createColorMap are multiples of one eighth.                             *)
(***************************************************************************)
EXTENDS Integers

NUM_COLORS == 7500
begin == 0
end == 20000

PIXEL_CODE_OFFSET == 48000
LOW_AMPLITUDE == 16001 + PIXEL_CODE_OFFSET
ADC_OVERFLOW == 16002 + PIXEL_CODE_OFFSET
SATURATION == 16003 + PIXEL_CODE_OFFSET
INTERFERENCE == 16007 + PIXEL_CODE_OFFSET
EDGE_DETECTED == 16008 + PIXEL_CODE_OFFSET

Color(r, g, b) == [r |-> r, g |-> g, b |-> b]
Black == Color(0, 0, 0)

\* Faulty variant of Channel: the last ramp goes up again.
ChannelUp(pos, x0, x1, x2, x3) ==
  IF x0 <= pos /\ pos < x1 THEN (255 * (pos - x0)) \div (x1 - x0)
  ELSE IF x1 <= pos /\ pos < x2 THEN 255
  ELSE IF x2 <= pos /\ pos < x3 THEN (255 * (pos - x2)) \div (x3 - x2)
  ELSE 0

\* One channel: up from x0 to x1, full to x2, down to x3; interpolate yields a
\* double that is cut to an unsigned char.
Channel(pos, x0, x1, x2, x3) ==
  IF x0 <= pos /\ pos < x1 THEN (255 * (pos - x0)) \div (x1 - x0)
  ELSE IF x1 <= pos /\ pos < x2 THEN 255
  ELSE IF x2 <= pos /\ pos < x3 THEN (255 * (x3 - pos)) \div (x3 - x2)
  ELSE 0

\* The position of an index on the map, and the corner after n eighths, both
\* in units of 1 / (8 * NUM_COLORS).
Position(index) == 8 * index - 2 * NUM_COLORS
Eighths(n) == n * NUM_COLORS

CreateColorMap(index) ==
  Color(Channel(Position(index), Eighths(1), Eighths(3), Eighths(5), Eighths(9)),
        Channel(Position(index), Eighths(-1), Eighths(1), Eighths(3), Eighths(6)),
        Channel(Position(index), Eighths(-3), Eighths(-1), Eighths(1), Eighths(3)))

\* value * indexFactorColor - 1, cut to an int (towards zero).
Cut(value) == IF 3 * value < 8 THEN 0 ELSE (3 * value) \div 8 - 1

\* The far end stays at the first colour.
ColorIndex(value) ==
  IF Cut(value) < NUM_COLORS THEN NUM_COLORS - Cut(value) - 1 ELSE 0

InRange(value) == value - begin >= 0 /\ value - begin <= end

GetColor(value) ==
  IF value \in {0, LOW_AMPLITUDE} THEN Black
  ELSE IF value = ADC_OVERFLOW THEN Color(169, 14, 255)
  ELSE IF value = INTERFERENCE THEN Color(255, 255, 255)
  ELSE IF value = EDGE_DETECTED THEN Color(255, 0, 0)
  ELSE IF value = SATURATION \/ value >= 65000 THEN Color(255, 0, 128)
  ELSE IF InRange(value) THEN CreateColorMap(ColorIndex(value))
  ELSE Color(127, 127, 127)
===============================================================================
