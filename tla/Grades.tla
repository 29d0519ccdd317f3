------------------------------- MODULE Grades -------------------------------
(***************************************************************************)
(* Grade points, in hundredths (module/result/result.service.ts).          *)
(***************************************************************************)
EXTENDS Integers, FiniteSetsExt

PERCENTAGE_TO_GRADE_POINT ==
  {<<80, 400>>, <<75, 375>>, <<70, 350>>, <<65, 325>>, <<60, 300>>, <<55, 275>>,
   <<50, 250>>, <<45, 225>>, <<40, 200>>, <<0, 0>>}

Points == {band[2] : band \in PERCENTAGE_TO_GRADE_POINT}

\* The point of the highest band that obtained / total * 100 reaches.
percentageToGradePoint(obtained, total) ==
  IF total = 0 THEN 0
  ELSE Max({band[2] : band \in {b \in PERCENTAGE_TO_GRADE_POINT :
                                   obtained * 100 >= b[1] * total}})
==============================================================================
