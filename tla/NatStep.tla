-------------------------------- MODULE NatStep --------------------------------
(***************************************************************************)
(* GetNatWightPort (natcross/NatDetectionHelper.cpp): the step by which a  *)
(* NAT moves on its external port, from the distances between the ports of *)
(* three mappings; 0 is DEFAULT_WIGHT_PORT, "random".                      *)
(***************************************************************************)
EXTENDS Integers

Abs(n) == IF n < 0 THEN -n ELSE n

\* Euclid's algorithm, with the larger number first.
oujilide[p \in Nat \X Nat] ==
  LET a == p[1]
      b == p[2]
  IN  IF b > a THEN oujilide[<<b, a>>]
      ELSE IF b = 0 THEN a ELSE oujilide[<<b, a % b>>]

\* "Negated if both are negative": of a step it gives the absolute value, of the
\* greatest common divisor, which is positive, the negative one.
Signed(n, step1, step2) == IF step1 < 0 /\ step2 < 0 THEN -n ELSE n

Smaller(step1, step2) == IF Abs(step1) < Abs(step2) THEN step1 ELSE step2
Larger(step1, step2)  == IF Abs(step1) < Abs(step2) THEN step2 ELSE step1

Divisible(step1, step2) ==
  /\ step1 # 0 /\ step2 # 0 /\ Abs(step1) # Abs(step2)
  /\ Abs(Larger(step1, step2)) % Abs(Smaller(step1, step2)) = 0

CommonStep(step1, step2) ==
  LET g == oujilide[<<Abs(step1), Abs(step2)>>]
  IN  IF g \in {1, 2, 3} \/ (g * 20 < Abs(step1) /\ g * 20 < Abs(step2))
      THEN 0 ELSE Signed(g, step1, step2)

LargerStep(step1, step2) ==          \* bug: the larger distance, not the smaller
  IF step1 = step2 THEN step1 ELSE Larger(step1, step2)

GetNatWightPort(step1, step2) ==
  CASE step1 = step2            -> step1
    [] Divisible(step1, step2)  -> Signed(Smaller(step1, step2), step1, step2)
    [] step1 = 0 \/ step2 = 0   -> 0
    [] OTHER                    -> CommonStep(step1, step2)
===============================================================================
