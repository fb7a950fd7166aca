---------------------------- MODULE ProximityProofs ----------------------------
(***************************************************************************)
(* What the proximity engine computes, for all distances and settings.     *)
(***************************************************************************)
EXTENDS Proximity, TLAPS

\* Distances are naturals, and the same both ways.
LEMMA DistanceFacts ==
    ASSUME NEW x \in Int, NEW y \in Int
    PROVE  Distance(x, y) \in Nat /\ Distance(x, y) = Distance(y, x)
  BY DEF Distance

\* The units of gain and pan are positive.
LEMMA UnitFacts == Span \in Nat \ {0} /\ Width \in Nat \ {0}
  BY ProximityAssumption DEF Span, Width, AtLeast

\* A gain is between silence and full volume, even where fade_start lies beyond
\* audible_distance (proximity.py 69-75).
THEOREM GainIsBounded ==
    ASSUME NEW d \in Nat PROVE Gain(d) \in 0 .. Span
  BY ProximityAssumption, UnitFacts DEF Gain, Clamp, AtLeast

\* Nobody is heard from audible_distance on, and everybody before it, however
\* the two distances of the configuration lie to each other (proximity.py 69-75).
THEOREM HeardWithinRange ==
    ASSUME NEW d \in Nat PROVE Gain(d) > 0 <=> d < Audible
  <1>1. CASE d >= Audible
    BY <1>1, ProximityAssumption DEF Gain
  <1>2. CASE d < Audible /\ d <= Fade
    BY <1>2, ProximityAssumption, UnitFacts DEF Gain
  <1>3. CASE d < Audible /\ Fade < d
    <2>1. Span = Audible - Fade
      BY <1>3, ProximityAssumption DEF Span, AtLeast
    <2>2. Gain(d) = Clamp(Audible - d, 0, Span)
      BY <1>3, <2>1, ProximityAssumption DEF Gain
    <2> QED BY <1>3, <2>1, <2>2, ProximityAssumption DEF Clamp, AtLeast
  <1> QED BY <1>1, <1>2, <1>3, ProximityAssumption

\* A voice never grows louder as its speaker walks away (proximity.py 69-75).
THEOREM GainFades ==
    ASSUME NEW d \in Nat, NEW e \in Nat, d <= e PROVE Gain(e) <= Gain(d)
  <1>1. CASE e >= Audible
    BY <1>1, GainIsBounded, UnitFacts, ProximityAssumption DEF Gain
  <1>2. CASE e < Audible /\ d <= Fade
    <2>1. Gain(d) = Span
      BY <1>2, ProximityAssumption DEF Gain
    <2> QED BY <2>1, GainIsBounded, UnitFacts
  <1>3. CASE e < Audible /\ Fade < d
    BY <1>3, ProximityAssumption, UnitFacts DEF Gain, Clamp, AtLeast
  <1> QED BY <1>1, <1>2, <1>3, ProximityAssumption

\* Who is on my right has me on their left, equally far (proximity.py 77-81).
THEOREM PanIsOpposite ==
    ASSUME NEW x \in Int, NEW y \in Int
    PROVE  Pan(x, y) \in -Width .. Width /\ Pan(y, x) = -Pan(x, y)
  BY UnitFacts DEF Pan, Clamp, AtLeast
================================================================================
