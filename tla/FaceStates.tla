----------------------------- MODULE FaceStates -----------------------------
(* Fluxes through the faces of one row of zones, kernel by kernel, as        *)
(* GetFlux computes them: primitives reconstructed to both sides of every    *)
(* face, floors or a second reconstruction where they come out too low,      *)
(* signal speeds, a flux.  Of the primitives there are rho, which stands for *)
(* internal energy as well, the velocity v along the row, and the field B    *)
(* along it, which faces know better.  Zone z has the faces z and z + 1.     *)
(* Values are multiples of FaceUnit, so that divisions lose little.           *)
EXTENDS Integers, Scalars, FiniteSetsExt

CONSTANTS
    RowZones,   \* zones of the row
    FaceUnit,
    LeftOver,   \* what the last direction, or step, left in a temporary
    Rows        \* [rho, v, B : zone -> value, scheme, flux, fallback, floors, floor, c, polar]

nghost == 4
RowStored == -nghost .. RowZones - 1 + nghost
OwnZones == 0 .. RowZones - 1

ASSUME FacesAssumption ==
    /\ RowZones \in Nat \ {0} /\ FaceUnit \in {120 * k : k \in 1 .. 9}
    /\ LeftOver \notin Int \cup [{"rho", "v", "B"} -> Int]
    /\ \A c \in Rows :
        /\ c.rho \in [RowStored -> Nat] /\ c.v \in [RowStored -> Int] /\ c.B \in [RowStored -> Int]
        /\ c.scheme \in {"donor_cell", "linear_mc", "linear_vl", "weno5", "mp5", "ppm", "ppmx"}
        /\ c.fallback \in BOOLEAN /\ c.floors \in BOOLEAN /\ c.polar \in BOOLEAN
        /\ c.floor \in Nat /\ c.c \in Nat \ {0}

VARIABLES
    row,            \* the case: what the row holds and how fluxes are computed
    kernel,         \* the one that runs next
    left, right,    \* face -> primitives on its sides: Flux.Pl, Flux.Pr
    flagged,        \* faces with a flag of a face's floor
    cmax, cmin,     \* face -> signal speeds, both as magnitudes
    flux            \* face -> flux of rho

faceVars == <<row, kernel, left, right, flagged, cmax, cmin, flux>>

-----------------------------------------------------------------------------
(* The schemes: what a stencil of five zones gives at the left and right     *)
(* ends of its middle one.                                                   *)

MINMOD(a, b) == IF (a > 0 /\ b > 0) \/ (a < 0 /\ b < 0)
                THEN IF magnitude(a) < magnitude(b) THEN a ELSE b
                ELSE 0
Median(a, b, c) == a + MINMOD(b - a, c - a)

(* mc() times the slope it is a ratio of. *)
mcSlope(dm, dp) ==
    LET s == sign(dp) IN
    IF dp = 0 THEN 0
    ELSE s * greatest(0, least(2 * s * dp, least(2 * s * dm, (s * dp + s * dm) \div 2)))

donor_cell(x1, x2, x3, x4, x5) == [l |-> x3, r |-> x3]

linear_mc(x1, x2, x3, x4, x5) ==
    LET dq == mcSlope(x3 - x2, x4 - x3) IN [l |-> x3 - dq \div 2, r |-> x3 + dq \div 2]

linear_vl(x1, x2, x3, x4, x5) ==
    LET dq2 == (x3 - x2) * (x4 - x3)
        dqm == IF dq2 <= 0 THEN 0 ELSE sign(x4 - x2) * ((2 * dq2) \div magnitude(x4 - x2))
    IN  [l |-> x3 - dqm \div 2, r |-> x3 + dqm \div 2]

(* A mean of three parabolas, weighted by the inverse squares of how rough   *)
(* each is; all the weight is the smooth ones' if there are any.             *)
Weighed(g, beta, k) ==
    LET smoothest == least(beta[1], least(beta[2], beta[3]))
        share == IF beta[k] = 0 THEN 100 ELSE (100 * smoothest) \div beta[k]
    IN  g * share * share
WenoMean(p, w) ==
    (p[1] * w[1] + p[2] * w[2] + p[3] * w[3]) \div (w[1] + w[2] + w[3])

weno5(y1, y2, y3, y4, y5) ==
    LET x1 == y1 \div FaceUnit   x2 == y2 \div FaceUnit   x3 == y3 \div FaceUnit
        x4 == y4 \div FaceUnit   x5 == y5 \div FaceUnit   u == FaceUnit \div 8
        rough(c1, c2) == 13 * c1 * c1 + 3 * c2 * c2
        beta == <<rough(x1 - 2 * x2 + x3, x1 - 4 * x2 + 3 * x3),
                  rough(x2 - 2 * x3 + x4, x4 - x2),
                  rough(x3 - 2 * x4 + x5, x5 - 4 * x4 + 3 * x3)>>
        wtr == <<Weighed(1, beta, 1), Weighed(10, beta, 2), Weighed(5, beta, 3)>>
        wtl == <<Weighed(1, beta, 3), Weighed(10, beta, 2), Weighed(5, beta, 1)>>
    IN  [l |-> WenoMean(<<u * (3 * x5 - 10 * x4 + 15 * x3), u * (6 * x3 + 3 * x2 - x4),
                          u * (3 * x3 + 6 * x2 - x1)>>, wtl),
         r |-> WenoMean(<<u * (3 * x1 - 10 * x2 + 15 * x3), u * (6 * x3 + 3 * x4 - x2),
                          u * (3 * x3 + 6 * x4 - x5)>>, wtr)]

mp5_subcalc(Fjm2, Fjm1, Fj, Fjp1, Fjp2) ==
    LET f == (2 * Fjm2 - 13 * Fjm1 + 47 * Fj + 27 * Fjp1 - 3 * Fjp2) \div 60
        fMP == Fj + MINMOD(Fjp1 - Fj, 4 * (Fj - Fjm1))
        d2m == Fjm2 + Fj - 2 * Fjm1
        d2 == Fjm1 + Fjp1 - 2 * Fj
        d2p == Fj + Fjp2 - 2 * Fjp1
        dMMp == MINMOD(MINMOD(4 * d2 - d2p, 4 * d2p - d2), MINMOD(d2, d2p))
        dMMm == MINMOD(MINMOD(4 * d2m - d2, 4 * d2 - d2m), MINMOD(d2, d2m))
        fUL == Fj + 4 * (Fj - Fjm1)
        fMD == (Fj + Fjp1 - dMMp) \div 2
        fLC == (3 * Fj - Fjm1) \div 2 + (4 * dMMm) \div 3
        fmin == greatest(least(least(Fj, Fjp1), fMD), least(least(Fj, fUL), fLC))
        fmax == least(greatest(greatest(Fj, Fjp1), fMD), greatest(greatest(Fj, fUL), fLC))
    IN  IF (f - Fj) * (f - fMP) <= 0 THEN f ELSE Median(f, fmin, fmax)

mp5(x1, x2, x3, x4, x5) ==
    [l |-> mp5_subcalc(x5, x4, x3, x2, x1), r |-> mp5_subcalc(x1, x2, x3, x4, x5)]

(* Neither side may be more than twice as far from the middle as the other.  *)
Monotonized(x3, e) ==
    LET qc == e.r - x3   qd == e.l - x3 IN
    [l |-> IF magnitude(qd) >= 2 * magnitude(qc) THEN x3 - 2 * qc ELSE e.l,
     r |-> IF magnitude(qc) >= 2 * magnitude(qd) THEN x3 - 2 * qd ELSE e.r]

Parabolic(x1, x2, x3, x4, x5) ==
    [l |-> (7 * (x3 + x2) - (x1 + x4)) \div 12, r |-> (7 * (x3 + x4) - (x2 + x5)) \div 12]

ppm(x1, x2, x3, x4, x5) ==
    LET e == Parabolic(x1, x2, x3, x4, x5)
        b == [l |-> between(e.l, least(x3, x2), greatest(x3, x2)),
              r |-> between(e.r, least(x3, x4), greatest(x3, x4))]
    IN  IF (b.r - x3) * (b.l - x3) >= 0 THEN [l |-> x3, r |-> x3] ELSE Monotonized(x3, b)

(* A curvature all of one sign is limited by the smallest of the others.     *)
Limited(d2, others) ==
    LET smallest == Min({magnitude(o) : o \in others})
    IN  IF (\A o \in others \cup {d2} : o > 0) \/ (\A o \in others \cup {d2} : o < 0)
        THEN sign(d2) * least((5 * smallest) \div 4, magnitude(d2)) ELSE 0

ppmx(x1, x2, x3, x4, x5) ==
    LET e == Parabolic(x1, x2, x3, x4, x5)
        d2l == x1 + x3 - 2 * x2   d2c == x2 + x4 - 2 * x3   d2r == x3 + x5 - 2 * x4
        kept(q, xa, xb, other) ==
            IF (xa - q) * (xb - q) > 0
            THEN (xa + xb) \div 2 - Limited(3 * (xa + xb - 2 * q), {d2c, other}) \div 6
            ELSE q
        q == [l |-> kept(e.l, x2, x3, d2l), r |-> kept(e.r, x3, x4, d2r)]
        d2q == 6 * (q.l + q.r - 2 * x3)
        limited == magnitude(Limited(d2q, {d2l, d2c, d2r}))
        shrunk(a) == IF d2q = 0 THEN x3 ELSE x3 + ((a - x3) * limited) \div magnitude(d2q)
    IN  IF (q.r - x3) * (x3 - q.l) <= 0 \/ (x2 - x3) * (x3 - x4) <= 0
        THEN [l |-> shrunk(q.l), r |-> shrunk(q.r)]
        ELSE Monotonized(x3, q)

reconstruct(scheme, q, z) ==
    LET x1 == q[z - 2]   x2 == q[z - 1]   x3 == q[z]   x4 == q[z + 1]   x5 == q[z + 2] IN
    CASE scheme = "donor_cell" -> donor_cell(x1, x2, x3, x4, x5)
      [] scheme = "linear_mc" -> linear_mc(x1, x2, x3, x4, x5)
      [] scheme = "linear_vl" -> linear_vl(x1, x2, x3, x4, x5)
      [] scheme = "weno5" -> weno5(x1, x2, x3, x4, x5)
      [] scheme = "mp5" -> mp5(x1, x2, x3, x4, x5)
      [] scheme = "ppm" -> ppm(x1, x2, x3, x4, x5)
      [] scheme = "ppmx" -> ppmx(x1, x2, x3, x4, x5)

-----------------------------------------------------------------------------
(* The kernels.  Temporaries still hold what the last direction left there,  *)
(* until a kernel writes them.                                               *)
Known(s) == s /= LeftOver
Faces == -nghost .. RowZones + nghost

RowFaces == 0 .. RowZones
Calculated == -1 .. RowZones + 1      \* one face beyond the row's own, for Flux-CT and FOFC
\* Mutant: no zone beyond the faces that are calculated
ReconstructedInside == -1 .. RowZones + 1
Reconstructed == -2 .. RowZones + 1   \* the zones on both sides of those

Quantities == {"rho", "v", "B"}
Sides(scheme, z) == [p \in Quantities |-> reconstruct(scheme, row[p], z)]
LeftOf(s) == [p \in Quantities |-> s[p].l]
RightOf(s) == [p \in Quantities |-> s[p].r]

(* The scheme of zones near the poles is linear, with ISMR.                  *)
SchemeOfRow == IF row.polar THEN "linear_mc" ELSE row.scheme

Untouched ==
    /\ kernel = "recon"
    /\ left = [f \in Faces |-> LeftOver] /\ right = left
    /\ flagged = {}
    /\ cmax = [f \in Faces |-> LeftOver] /\ cmin = cmax /\ flux = cmax

FaceInit == row \in Rows /\ Untouched

(* The side of a zone that is left of its middle is right of its first face. *)
Reconstruct ==
    /\ kernel = "recon" /\ kernel' = "floors"
    /\ left' = [f \in Faces |-> IF f - 1 \in Reconstructed
                                 THEN RightOf(Sides(SchemeOfRow, f - 1)) ELSE left[f]]
    /\ right' = [f \in Faces |-> IF f \in Reconstructed
                                  THEN LeftOf(Sides(SchemeOfRow, f)) ELSE right[f]]
    /\ UNCHANGED <<row, flagged, cmax, cmin, flux>>

(* The geometric floor, which is zero if a lower one means another attempt.  *)
geo_floor == IF row.fallback THEN 0 ELSE row.floor
HitsFloor(s) == Known(s) /\ geo_floor > s.rho
apply_geo_floors(s) == IF HitsFloor(s) THEN [s EXCEPT !.rho = geo_floor, !.v = 0] ELSE s
BelowFloor == {f \in Calculated : HitsFloor(left[f]) \/ HitsFloor(right[f])}

ReconstructionFloors ==
    /\ kernel = "floors" /\ kernel' = "fallback"
    /\ IF row.floors
       THEN /\ left' = [f \in Faces |->
                           IF f \in Calculated THEN apply_geo_floors(left[f]) ELSE left[f]]
            /\ right' = [f \in Faces |->
                            IF f \in Calculated THEN apply_geo_floors(right[f]) ELSE right[f]]
            /\ flagged' = flagged \cup BelowFloor
       ELSE UNCHANGED <<left, right, flagged>>
    /\ UNCHANGED <<row, cmax, cmin, flux>>

ReconstructionFallback ==
    /\ kernel = "fallback" /\ kernel' = "replace"
    /\ IF row.fallback
       THEN /\ right' = [f \in Faces |->
                            IF f \in BelowFloor THEN LeftOf(Sides("ppm", f)) ELSE right[f]]
            /\ left' = [f \in Faces |->
                           IF f \in BelowFloor THEN RightOf(Sides("ppm", f - 1)) ELSE left[f]]
            /\ flagged' = flagged \cup BelowFloor
       ELSE UNCHANGED <<left, right, flagged>>
    /\ UNCHANGED <<row, cmax, cmin, flux>>

(* The field through a face of the row is what the face itself has.          *)
FaceB(f) == (row.B[f - 1] + row.B[f]) \div 2
ReplaceFace ==
    /\ kernel = "replace" /\ kernel' = "left"
    /\ left' = [f \in Faces |->
                   IF f \in RowFaces THEN [left[f] EXCEPT !.B = FaceB(f)] ELSE left[f]]
    /\ right' = [f \in Faces |->
                    IF f \in RowFaces THEN [right[f] EXCEPT !.B = FaceB(f)] ELSE right[f]]
    /\ UNCHANGED <<row, flagged, cmax, cmin, flux>>

(* Speeds of the left state, then the greatest of both, as magnitudes.       *)
LeftSpeeds ==
    /\ kernel = "left" /\ kernel' = "right"
    /\ cmax' = [f \in Faces |-> IF f \in Calculated /\ Known(left[f])
                                 THEN greatest(0, left[f].v + row.c) ELSE cmax[f]]
    /\ cmin' = [f \in Faces |-> IF f \in Calculated /\ Known(left[f])
                                 THEN least(0, left[f].v - row.c) ELSE cmin[f]]
    /\ UNCHANGED <<row, left, right, flagged, flux>>

\* Mutant: the right state's speeds replace the left one's
SpeedsOfRight ==
    /\ kernel = "right" /\ kernel' = "riemann"
    /\ cmax' = [f \in Faces |-> IF f \in Calculated /\ Known(right[f])
                                 THEN greatest(0, right[f].v + row.c) ELSE cmax[f]]
    /\ cmin' = [f \in Faces |-> IF f \in Calculated /\ Known(right[f])
                                 THEN -least(0, right[f].v - row.c) ELSE cmin[f]]
    /\ UNCHANGED <<row, left, right, flagged, flux>>

RightSpeeds ==
    /\ kernel = "right" /\ kernel' = "riemann"
    /\ cmax' = [f \in Faces |-> IF f \in Calculated /\ Known(right[f]) /\ Known(cmax[f])
                                 THEN greatest(cmax[f], right[f].v + row.c) ELSE cmax[f]]
    /\ cmin' = [f \in Faces |-> IF f \in Calculated /\ Known(right[f]) /\ Known(cmin[f])
                                 THEN -least(cmin[f], right[f].v - row.c) ELSE cmin[f]]
    /\ UNCHANGED <<row, left, right, flagged, flux>>

llf(fl, fr, cp, cm, ul, ur) == (fl + fr - greatest(cp, cm) * (ur - ul)) \div 2
hlle(fl, fr, cp, cm, ul, ur) == (cp * fl + cm * fr - cp * cm * (ur - ul)) \div (cp + cm)

Solved(f) ==
    LET l == left[f]   r == right[f] IN
    IF row.flux = "hlle" THEN hlle(l.rho * l.v, r.rho * r.v, cmax[f], cmin[f], l.rho, r.rho)
                         ELSE llf(l.rho * l.v, r.rho * r.v, cmax[f], cmin[f], l.rho, r.rho)

Riemann ==
    /\ kernel = "riemann" /\ kernel' = "done"
    /\ flux' = [f \in Faces |-> IF f \in Calculated /\ Known(left[f]) /\ Known(right[f])
                                 THEN Solved(f) ELSE flux[f]]
    /\ UNCHANGED <<row, left, right, flagged, cmax, cmin>>

FaceNext ==
    \/ Reconstruct \/ ReconstructionFloors \/ ReconstructionFallback \/ ReplaceFace
    \/ LeftSpeeds \/ RightSpeeds \/ Riemann

FaceSpec == FaceInit /\ [][FaceNext]_faceVars

-----------------------------------------------------------------------------
finished == kernel = "done"
Smooth == {"donor_cell", "linear_mc", "linear_vl", "ppm"}
rounding == 4

(* Every face that Flux-CT, the corrections or the update of the row read    *)
(* has a flux from states of this step, on both sides: none of what the last *)
(* direction left in the temporaries is used, although the kernels' ranges   *)
(* differ and each side of a face is written for another zone.               *)
FluxesAreFresh ==
    finished => \A f \in Calculated :
        Known(left[f]) /\ Known(right[f]) /\ Known(cmax[f]) /\ Known(cmin[f]) /\ Known(flux[f])

(* Schemes meant not to add extremes leave both states of a face within what *)
(* its zones hold, those a fallback brings in included, and no scheme tells  *)
(* a row from its mirror image.                                              *)
Monotone(f) == SchemeOfRow \in Smooth \/ f \in flagged
NoNewExtremes ==
    finished => \A f \in Calculated :
        Monotone(f) /\ (flagged = {} \/ ~row.floors) =>
            \A s \in {left[f], right[f]} :
                /\ s.rho >= least(row.rho[f - 1], row.rho[f]) - rounding
                /\ s.rho <= greatest(row.rho[f - 1], row.rho[f]) + rounding
MirrorImage ==
    LET mirrored == [z \in RowStored |-> row.rho[RowZones - 1 - z]] IN
    kernel = "recon" => \A z \in Reconstructed :
        LET a == reconstruct(SchemeOfRow, row.rho, z)
            b == reconstruct(SchemeOfRow, mirrored, RowZones - 1 - z)
        IN  magnitude(a.l - b.r) <= rounding /\ magnitude(a.r - b.l) <= rounding
StatesSound == FluxesAreFresh /\ NoNewExtremes /\ MirrorImage

(* A step as long as half of what the fastest signal of the zones' inner     *)
(* faces allows, which is what EstimateTimestep looks at, leaves a density   *)
(* above zero in every zone with both faces among them: what first-order     *)
(* corrections count on.  (The outer face of the last zone counts in the     *)
(* block beyond.)  It takes speeds that bound both states of a face.         *)
ctop(f) == greatest(cmax[f], cmin[f])
FluxKeepsPositive ==
    finished /\ SchemeOfRow \in {"donor_cell", "linear_mc", "linear_vl"} /\ flagged = {} =>
        LET fastest == Max({ctop(f) : f \in OwnZones}) IN
        \A z \in OwnZones : z + 1 \in OwnZones =>
            2 * fastest * row.rho[z] - (flux[z + 1] - flux[z]) >= -rounding * fastest
=============================================================================
