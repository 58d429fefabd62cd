-------------------------- MODULE CartesianTransform --------------------------
(***************************************************************************)
(* Where a pixel looks (driver/src/cartesian_transform.cpp).  The table of *)
(* a lens lists, for 101 equidistant angles, the distance rp from the      *)
(* optical axis at which the sensor sees them; initLensTransform looks for *)
(* the two entries between which a pixel lies and interpolates.  An angle  *)
(* is represented by the number of the upper entry, 0 for none.            *)
(*                                                                         *)
(* rp is given in whole micrometres, the squares of distances in square    *)
(* micrometres: a pixel is 20 by 20 micrometres (tof320.hpp:97) and its    *)
(* middle lies at an odd number of half pixels from the axis.              *)
(***************************************************************************)
EXTENDS Integers, Sequences

LensTypes == {"WIDE_FIELD", "STANDARD_FIELD", "NARROW_FIELD"}

RpWide ==
  <<0, 48, 95, 143, 190, 238, 286, 333, 381, 428, 476, 523, 571, 618, 665, 713, 760, 807, 854,
    901, 948, 995, 1042, 1089, 1135, 1182, 1228, 1275, 1321, 1367, 1413, 1459, 1505, 1551, 1596,
    1641, 1687, 1732, 1777, 1822, 1866, 1911, 1955, 1999, 2043, 2087, 2130, 2173, 2216, 2259,
    2302, 2344, 2386, 2428, 2470, 2511, 2552, 2593, 2634, 2674, 2714, 2754, 2793, 2832, 2871,
    2909, 2948, 2985, 3023, 3060, 3096, 3132, 3168, 3204, 3239, 3273, 3308, 3341, 3375, 3408,
    3440, 3472, 3504, 3535, 3565, 3595, 3625, 3654, 3682, 3710, 3738, 3765, 3791, 3817, 3842,
    3866, 3890, 3914, 3936, 3959, 3980>>

RpStandard ==
  <<0, 39, 77, 116, 154, 193, 232, 270, 309, 348, 386, 425, 464, 502, 541, 580, 618, 657, 696,
    735, 774, 812, 851, 890, 929, 968, 1007, 1046, 1085, 1124, 1163, 1202, 1241, 1280, 1320,
    1359, 1398, 1438, 1477, 1516, 1556, 1595, 1635, 1674, 1714, 1754, 1794, 1833, 1873, 1913,
    1953, 1993, 2033, 2074, 2114, 2154, 2195, 2235, 2276, 2316, 2357, 2398, 2439, 2480, 2521,
    2562, 2603, 2645, 2686, 2728, 2769, 2811, 2853, 2895, 2937, 2979, 3022, 3064, 3107, 3150,
    3193, 3236, 3279, 3322, 3366, 3409, 3453, 3497, 3541, 3585, 3630, 3674, 3719, 3764, 3809,
    3854, 3899, 3944, 3990, 4036, 4082>>

RpNarrow ==
  <<0, 40, 80, 110, 150, 190, 230, 260, 300, 340, 380, 410, 450, 490, 530, 570, 600, 640, 680,
    720, 750, 790, 830, 870, 910, 940, 980, 1020, 1060, 1100, 1130, 1170, 1210, 1250, 1290,
    1330, 1360, 1400, 1440, 1480, 1520, 1560, 1600, 1630, 1670, 1710, 1750, 1790, 1830, 1870,
    1910, 1950, 1990, 2020, 2060, 2100, 2140, 2180, 2220, 2260, 2300, 2340, 2380, 2420, 2460,
    2500, 2540, 2580, 2620, 2660, 2700, 2740, 2790, 2830, 2870, 2910, 2950, 2990, 3030, 3080,
    3120, 3160, 3200, 3240, 3290, 3330, 3370, 3420, 3460, 3500, 3550, 3590, 3630, 3680, 3720,
    3770, 3810, 3850, 3900, 3940, 3990>>

\* Entry i of the table, from 0 on.
Tables == [WIDE_FIELD |-> RpWide, STANDARD_FIELD |-> RpStandard, NARROW_FIELD |-> RpNarrow]
Rp(lens, i) == Tables[lens][i + 1]

distortionTableSize == 101

\* The sensor, and the row or column, counted from the axis, of a pixel.
Width == 320
Height == 240

FromAxis(n, size, offset) == 1 - size \div 2 + offset + n

\* The square of the radius of getAngle.
Square(n) == n * n
RadiusSquared(x, y, cx, cy) ==
  100 * (Square(2 * FromAxis(x, Width, cx) - 1) + Square(2 * FromAxis(y, Height, cy) - 1))

Between(lens, i, radius2) ==
  Square(Rp(lens, i - 1)) <= radius2 /\ radius2 <= Square(Rp(lens, i))

\* Faulty variant of GetAngle: the last interval is left out.
GetAngleShort(lens, radius2) ==
  LET hits == {i \in 1..distortionTableSize - 2 : Between(lens, i, radius2)}
  IN  IF hits = {} THEN 0 ELSE CHOOSE i \in hits : \A j \in hits : j <= i

\* getAngle keeps the last interval that holds the radius, and an angle of zero
\* if there is none.
GetAngle(lens, radius2) ==
  LET hits == {i \in 1..distortionTableSize - 1 : Between(lens, i, radius2)}
  IN  IF hits = {} THEN 0 ELSE CHOOSE i \in hits : \A j \in hits : j <= i
===============================================================================
