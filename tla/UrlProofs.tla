------------------------------- MODULE UrlProofs -------------------------------
(***************************************************************************)
(* Proofs about the two kinds of URL that callers write: those of          *)
(* transformed images (TransformParams), for every query and context, and  *)
(* signed ones (ProxyTokens), for every set of objects, sizes and          *)
(* lifetimes and any number of tokens, of uploads at once and of ticks.    *)
(***************************************************************************)
EXTENDS TransformParams, ProxyTokens, SequenceTheorems, WellFoundedInduction, TLAPS

(***************************************************************************)
(* canonicalize: what it makes of a dimension, whatever was asked for.     *)
(***************************************************************************)
\* A quotient and what it leaves.
LEMMA DivisionBounds ==
  ASSUME NEW a \in Nat, NEW b \in Nat, b > 0
  PROVE  /\ a \div b \in Nat
         /\ b * (a \div b) <= a /\ a < b * (a \div b) + b
OBVIOUS

\* A factor keeps the order.
LEMMA TimesIsMonotone ==
  ASSUME NEW a \in Nat, NEW b \in Nat, NEW c \in Nat, a <= b
  PROVE  c * a <= c * b
OBVIOUS

\* A quotient lies between its neighbours.
LEMMA Squeeze ==
  ASSUME NEW a \in Nat, NEW b \in Nat, NEW d \in Nat, d > 0,
         d * a < d * b + d
  PROVE  a <= b
<1>1. SUFFICES ASSUME b + 1 <= a  PROVE FALSE
  OBVIOUS
<1>2. d * (b + 1) <= d * a  BY <1>1, TimesIsMonotone
<1>3. d * (b + 1) = d * b + d  OBVIOUS
<1>4. d * a \in Nat /\ d * b \in Nat  OBVIOUS
<1>5. QED  BY <1>2, <1>3, <1>4

\* Math.round of n / d is one of the two integers at it, and the nearer one.
LEMMA Rounding ==
  ASSUME NEW n \in Nat, NEW d \in Nat, d > 0
  PROVE  LET r == RoundedRatio(n, d)
         IN /\ r \in {n \div d, n \div d + 1}
            /\ r \in Nat
            /\ 2 * r * d - d <= 2 * n
            /\ 2 * n < 2 * r * d + d
<1> DEFINE r == RoundedRatio(n, d)
           k == n \div d
<1>1. /\ r \in Nat
      /\ (2 * d) * r <= 2 * n + d /\ 2 * n + d < (2 * d) * r + 2 * d
  BY DivisionBounds DEF RoundedRatio
<1>2. k \in Nat /\ d * k <= n /\ n < d * k + d
  BY DivisionBounds
<1> HIDE DEF r, k
<1>3. /\ (2 * d) * r = 2 * (d * r) /\ d * r \in Nat /\ d * k \in Nat
      /\ 2 * r * d = 2 * (d * r)
  BY <1>1, <1>2
<1>4. d * k < d * r + d  BY <1>1, <1>2, <1>3
<1>5. k <= r  BY <1>1, <1>2, <1>4, Squeeze
<1>6. d * r < d * (k + 1) + d
  <2>1. d * (k + 1) = d * k + d  BY <1>2
  <2>2. QED  BY <1>1, <1>2, <1>3, <2>1
<1>7. r <= k + 1  BY <1>1, <1>2, <1>6, Squeeze
<1>8. QED  BY <1>1, <1>2, <1>3, <1>5, <1>7 DEF r, k

\* What a ratio makes of a dimension.
LEMMA RatioIsNat ==
  ASSUME NEW n \in Nat, NEW num \in Nat \ {0}, NEW den \in Nat \ {0}
  PROVE  AtLeastOne(RoundedRatio(n * num, den)) \in Nat
<1>1. n * num \in Nat /\ den \in Nat /\ den > 0  OBVIOUS
<1>2. RoundedRatio(n * num, den) \in Nat  BY <1>1, Rounding
<1>3. QED  BY <1>2 DEF AtLeastOne

\* If some rung is not below n, one of them is the first.
LEMMA LeastRung ==
  ASSUME NEW n \in Nat, NEW t \in DIMENSION_LADDER, t >= n
  PROVE  \E r \in DIMENSION_LADDER :
           r >= n /\ \A s \in DIMENSION_LADDER : s >= n => r <= s
BY DEF DIMENSION_LADDER

\* Snapping takes a dimension up to a rung, or leaves it.
LEMMA Snapping ==
  ASSUME NEW n \in Nat, NEW ctx
  PROVE  \/ Snap(n, ctx) = n
         \/ /\ ctx.ladder /\ Snap(n, ctx) > n
            /\ Snap(n, ctx) \in DIMENSION_LADDER
<1> DEFINE rungs == {r \in DIMENSION_LADDER : r >= n}
           least == CHOOSE r \in rungs : \A s \in rungs : r <= s
<1>1. CASE n = 0 \/ ~ctx.ladder \/ rungs = {}
  BY <1>1 DEF Snap
<1>2. CASE ctx.ladder /\ n # 0 /\ rungs # {}
  <2>1. \E r \in rungs : \A s \in rungs : r <= s  BY <1>2, LeastRung
  <2>2. least \in rungs  BY <2>1
  <2>3. Snap(n, ctx) = least  BY <1>2 DEF Snap
  <2>4. \A r \in DIMENSION_LADDER : r \in Nat  BY DEF DIMENSION_LADDER
  <2>5. QED  BY <1>2, <2>2, <2>3, <2>4
<1>3. QED  BY <1>1, <1>2

\* A side that was not asked for stays so.
LEMMA SnapZero ==
  ASSUME NEW ctx  PROVE Snap(0, ctx) = 0
BY DEF Snap

\* The check by division bounds the product.
LEMMA WithinProduct ==
  ASSUME NEW w \in Nat, NEW h \in Nat, NEW budget \in Nat,
         ~MoreThan(w, h, budget)
  PROVE  w * h <= budget
<1>1. CASE w = 0
  BY <1>1
<1>2. CASE w > 0
  <2>1. h <= budget \div w /\ budget \div w \in Nat
    BY <1>2, DivisionBounds DEF MoreThan
  <2>2. w * h <= w * (budget \div w)  BY <2>1, TimesIsMonotone
  <2>3. w * (budget \div w) <= budget  BY <1>2, DivisionBounds
  <2>4. w * h \in Nat /\ w * (budget \div w) \in Nat  BY <2>1
  <2>5. QED  BY <2>2, <2>3, <2>4
<1>3. QED  BY <1>1, <1>2

\* Where the square of a ratio is rounded up, there is a pixel to give up.
LEMMA BudgetIsPositive ==
  ASSUME NEW d \in 5 .. 30
  PROVE  PixelBudget(d) \in Nat /\ (SquareRoundsUp(d) => PixelBudget(d) > 0)
<1>1. d * d \in Nat /\ d * d > 0  OBVIOUS
<1>2. PixelBudget(d) \in Nat
  <2> DEFINE s == d * d
             a == TRANSFORM_MAX_PIXELS \div s
             b == ((TRANSFORM_MAX_PIXELS % s) * 100) \div s
  <2>1. a \in Nat  BY <1>1, DivisionBounds DEF TRANSFORM_MAX_PIXELS
  <2>2. (TRANSFORM_MAX_PIXELS % s) * 100 \in Nat
    BY <1>1 DEF TRANSFORM_MAX_PIXELS
  <2>3. b \in Nat  BY <1>1, <2>2, DivisionBounds
  <2>4. QED  BY <2>1, <2>3 DEF PixelBudget
<1>3. PixelBudget(8) > 0 /\ PixelBudget(16) > 0
  BY DEF PixelBudget, TRANSFORM_MAX_PIXELS
<1>4. QED  BY <1>2, <1>3 DEF SquareRoundsUp

\* The ratio that formatDecimal writes is read back as the same.
LEMMA WrittenDpr ==
  ASSUME NEW d \in 5 .. 30
  PROVE  DprOf(FormattedDpr(d)) = d
BY DEF DprOf, FormattedDpr, Num, Tenths, Val

-----------------------------------------------------------------------------
\* Every value is valid, the sizes do not contradict each other, and the
\* pixels are within the budget.
PassesChecks(raw, ctx) ==
  /\ \A n \in DOMAIN raw : Valid(n, raw[n].value, ctx)
  /\ ~OverSpecified(raw) /\ ~OverBudget(raw, ctx)

\* An answer is the form of a request that passes every check.
LEMMA AcceptedForm ==
  ASSUME NEW q, NEW ctx, Canonicalize(q, ctx).verdict = "ok"
  PROVE  /\ PassesChecks(Raw(q), ctx)
         /\ Canonicalize(q, ctx).form = FormOf(Raw(q), ctx)
<1>1. Verdict(q, Raw(q), ctx) = "ok"
  BY DEF Canonicalize, Refusal
<1>2. PassesChecks(Raw(q), ctx)  BY <1>1 DEF Verdict, PassesChecks
<1>3. QED  BY <1>1, <1>2 DEF Canonicalize

\* A dimension that optionalInteger accepts.
LEMMA ValidDimension ==
  ASSUME NEW v, NEW ctx
  PROVE  /\ Valid("w", v, ctx) => IsNum(v, 1, TRANSFORM_MAX_DIMENSION_PX)
         /\ Valid("h", v, ctx) => IsNum(v, 1, TRANSFORM_MAX_DIMENSION_PX)
<1>1. Valid("w", v, ctx) <=> IsNum(v, 1, TRANSFORM_MAX_DIMENSION_PX)
  BY DEF Valid
<1>2. Valid("h", v, ctx) <=> IsNum(v, 1, TRANSFORM_MAX_DIMENSION_PX)
  BY DEF Valid
<1>3. QED  BY <1>1, <1>2

\* What the values of the sizes are.
LEMMA AcceptedValues ==
  ASSUME NEW raw, NEW ctx, PassesChecks(raw, ctx)
  PROVE  /\ \A n \in {"w", "h"} :
              /\ Nat0(raw, n) \in Nat
              /\ n \in DOMAIN raw <=> Nat0(raw, n) # 0
         /\ "ar" \in DOMAIN raw =>
              /\ raw["ar"].value.nums[1] \in Nat \ {0}
              /\ raw["ar"].value.nums[2] \in Nat \ {0}
              /\ "w" \in DOMAIN raw <=> "h" \notin DOMAIN raw
         /\ EffectiveDpr(raw) \in 5 .. 30
<1>1. ASSUME NEW n \in {"w", "h"}
      PROVE  /\ Nat0(raw, n) \in Nat
             /\ n \in DOMAIN raw <=> Nat0(raw, n) # 0
  <2>1. CASE n \in DOMAIN raw
    <3>1. Valid(n, raw[n].value, ctx)  BY <2>1 DEF PassesChecks
    <3>2. IsNum(raw[n].value, 1, TRANSFORM_MAX_DIMENSION_PX)
      BY <1>1, <3>1, ValidDimension, Zenon
    <3>3. raw[n].value.nums[1] \in 1 .. TRANSFORM_MAX_DIMENSION_PX
      BY <3>2, Zenon DEF IsNum
    <3>4. Nat0(raw, n) = raw[n].value.nums[1]  BY <2>1 DEF Nat0
    <3>5. Nat0(raw, n) \in 1 .. TRANSFORM_MAX_DIMENSION_PX
      BY <3>3, <3>4, Zenon
    <3>6. \A i \in 1 .. TRANSFORM_MAX_DIMENSION_PX : i \in Nat /\ i # 0
      BY DEF TRANSFORM_MAX_DIMENSION_PX
    <3>7. QED  BY <2>1, <3>5, <3>6, Zenon
  <2>2. CASE n \notin DOMAIN raw  BY <2>2 DEF Nat0
  <2>3. QED  BY <2>1, <2>2
<1>2. ASSUME "ar" \in DOMAIN raw
      PROVE  /\ raw["ar"].value.nums[1] \in Nat \ {0}
             /\ raw["ar"].value.nums[2] \in Nat \ {0}
             /\ "w" \in DOMAIN raw <=> "h" \notin DOMAIN raw
  <2>1. Valid("ar", raw["ar"].value, ctx)  BY <1>2 DEF PassesChecks
  <2>2. \A i \in 1..2 : raw["ar"].value.nums[i] \in 1..AR_PART_MAX
    BY <2>1 DEF Valid
  <2>3. "w" \in DOMAIN raw <=> "h" \notin DOMAIN raw
    BY <1>2 DEF PassesChecks, OverSpecified
  <2>4. \A i \in 1..AR_PART_MAX : i \in Nat \ {0}  BY DEF AR_PART_MAX
  <2>5. 1 \in 1..2 /\ 2 \in 1..2  OBVIOUS
  <2>6. QED  BY <2>2, <2>3, <2>4, <2>5, Zenon
<1>3. EffectiveDpr(raw) \in 5 .. 30
  <2>1. CASE "dpr" \in DOMAIN raw
    <3>1. Valid("dpr", raw["dpr"].value, ctx)  BY <2>1 DEF PassesChecks
    <3>2. DprOf(raw["dpr"].value) \in 5 .. 30  BY <3>1 DEF Valid
    <3>3. QED  BY <2>1, <3>2 DEF EffectiveDpr
  <2>2. CASE "dpr" \notin DOMAIN raw  BY <2>2 DEF EffectiveDpr
  <2>3. QED  BY <2>1, <2>2
<1>4. QED  BY <1>1, <1>2, <1>3

\* The sizes before snapping: those given, or the one that ar implies.
LEMMA SizeOfRequest ==
  ASSUME NEW raw, NEW ctx, PassesChecks(raw, ctx)
  PROVE  /\ \A n \in {"w", "h"} :
              /\ Size(raw)[n] \in Nat
              /\ n \in DOMAIN raw => Size(raw)[n] = Nat0(raw, n)
              /\ ~Resizing(raw) => Size(raw)[n] = 0
         /\ "ar" \in DOMAIN raw =>
              LET ratio == raw["ar"].value.nums
              IN IF "w" \in DOMAIN raw
                 THEN Size(raw)["h"] =
                        AtLeastOne(RoundedRatio(Nat0(raw, "w") * ratio[2],
                                                ratio[1]))
                 ELSE Size(raw)["w"] =
                        AtLeastOne(RoundedRatio(Nat0(raw, "h") * ratio[1],
                                                ratio[2]))
<1> DEFINE w == Nat0(raw, "w")
           h == Nat0(raw, "h")
           a == raw["ar"].value.nums[1]
           b == raw["ar"].value.nums[2]
<1>1. /\ w \in Nat /\ h \in Nat
      /\ "w" \in DOMAIN raw <=> w # 0
      /\ "h" \in DOMAIN raw <=> h # 0
      /\ "ar" \in DOMAIN raw =>
           /\ a \in Nat \ {0} /\ b \in Nat \ {0}
           /\ w # 0 <=> h = 0
  BY AcceptedValues
<1> HIDE DEF w, h, a, b
<1>2. CASE "ar" \notin DOMAIN raw
  <2>1. Size(raw) = [w |-> w, h |-> h]  BY <1>2 DEF Size, w, h
  <2>2. QED  BY <1>1, <1>2, <2>1 DEF Resizing, w, h
<1>3. CASE "ar" \in DOMAIN raw /\ w # 0
  <2>1. Size(raw) = [w |-> w, h |-> AtLeastOne(RoundedRatio(w * b, a))]
    BY <1>3 DEF Size, w, h, a, b
  <2>2. AtLeastOne(RoundedRatio(w * b, a)) \in Nat
    <3>1. a \in Nat \ {0} /\ b \in Nat \ {0}  BY <1>1, <1>3, Zenon
    <3>2. QED  BY <1>1, <3>1, RatioIsNat
  <2>3. "w" \in DOMAIN raw /\ "h" \notin DOMAIN raw  BY <1>1, <1>3, Zenon
  <2>4. /\ Size(raw)["w"] = w
        /\ Size(raw)["h"] = AtLeastOne(RoundedRatio(w * b, a))
    BY <2>1
  <2>5. /\ Size(raw)["w"] \in Nat /\ Size(raw)["h"] \in Nat
    BY <1>1, <2>2, <2>4, Zenon
  <2>6. QED  BY <1>3, <2>3, <2>4, <2>5 DEF Resizing, w, h, a, b
<1>4. CASE "ar" \in DOMAIN raw /\ w = 0
  <2>1. Size(raw) = [w |-> AtLeastOne(RoundedRatio(h * a, b)), h |-> h]
    BY <1>4 DEF Size, w, h, a, b
  <2>2. AtLeastOne(RoundedRatio(h * a, b)) \in Nat
    <3>1. a \in Nat \ {0} /\ b \in Nat \ {0}  BY <1>1, <1>4, Zenon
    <3>2. QED  BY <1>1, <3>1, RatioIsNat
  <2>3. "h" \in DOMAIN raw /\ "w" \notin DOMAIN raw  BY <1>1, <1>4, Zenon
  <2>4. /\ Size(raw)["h"] = h
        /\ Size(raw)["w"] = AtLeastOne(RoundedRatio(h * a, b))
    BY <2>1
  <2>5. /\ Size(raw)["w"] \in Nat /\ Size(raw)["h"] \in Nat
    BY <1>1, <2>2, <2>4, Zenon
  <2>6. QED  BY <1>4, <2>3, <2>4, <2>5 DEF Resizing, w, h, a, b
<1>5. QED  BY <1>2, <1>3, <1>4

\* A dimension of the form.
SideOf(form, n) == IF n \in DOMAIN form THEN form[n].nums[1] ELSE 0

\* The form writes the final sizes, and no others.
LEMMA SidesOfForm ==
  ASSUME NEW raw, NEW ctx, NEW n \in {"w", "h"}
  PROVE  SideOf(FormOf(raw, ctx), n) = FinalSize(raw, ctx)[n]
<1> DEFINE form == FormOf(raw, ctx)
<1>1. n \in FORM_PARAMS
  BY DEF FORM_PARAMS, CANONICAL_PARAMS, DELIVERY
<1>2. n \in DOMAIN form <=> FinalSize(raw, ctx)[n] # 0
  BY <1>1 DEF FormOf, InForm
<1>3. CASE n \in DOMAIN form
  <2>1. form[n] = ResolvedAs(n, raw, ctx)  BY <1>3 DEF FormOf
  <2>2. form[n] = Num(FinalSize(raw, ctx)[n])  BY <2>1 DEF ResolvedAs
  <2>3. \A k : Num(k).nums[1] = k  BY DEF Num, Val
  <2>4. form[n].nums[1] = FinalSize(raw, ctx)[n]  BY <2>2, <2>3, Zenon
  <2>5. QED  BY <1>3, <2>4, Zenon DEF SideOf
<1>4. CASE n \notin DOMAIN form  BY <1>2, <1>4 DEF SideOf
<1>5. QED  BY <1>3, <1>4

\* Each side is what Size makes of the request, snapped.
LEMMA SideIsSnapped ==
  ASSUME NEW raw, NEW ctx, PassesChecks(raw, ctx), NEW n \in {"w", "h"}
  PROVE  LET side == SideOf(FormOf(raw, ctx), n)
         IN /\ side \in Nat
            /\ \/ side = Size(raw)[n]
               \/ /\ ctx.ladder /\ side > Size(raw)[n]
                  /\ side \in DIMENSION_LADDER
            /\ side # 0 => Resizing(raw)
<1> DEFINE asked == Size(raw)[n]
           side == SideOf(FormOf(raw, ctx), n)
<1>1. asked \in Nat /\ (~Resizing(raw) => asked = 0)  BY SizeOfRequest
<1>2. FinalSize(raw, ctx)[n] = Snap(asked, ctx)  BY DEF FinalSize
<1>3. side = Snap(asked, ctx)  BY <1>2, SidesOfForm, Zenon
<1> HIDE DEF asked, side
<1>4. \/ side = asked
      \/ ctx.ladder /\ side > asked /\ side \in DIMENSION_LADDER
  BY <1>1, <1>3, Snapping
<1>5. side \in Nat
  <2>1. \A r \in DIMENSION_LADDER : r \in Nat  BY DEF DIMENSION_LADDER
  <2>2. QED  BY <1>1, <1>4, <2>1, Zenon
<1>6. side # 0 => Resizing(raw)  BY <1>1, <1>3, SnapZero
<1>7. QED  BY <1>4, <1>5, <1>6 DEF asked, side

\* The budget, for the two sides of a form that has both.
LEMMA WithinBudget ==
  ASSUME NEW raw, NEW ctx, PassesChecks(raw, ctx),
         SideOf(FormOf(raw, ctx), "w") # 0, SideOf(FormOf(raw, ctx), "h") # 0
  PROVE  SideOf(FormOf(raw, ctx), "w") * SideOf(FormOf(raw, ctx), "h")
           <= PixelBudget(DprOf(FormOf(raw, ctx)["dpr"]))
<1> DEFINE w == SideOf(FormOf(raw, ctx), "w")
           h == SideOf(FormOf(raw, ctx), "h")
           d == EffectiveDpr(raw)
           most == IF SquareRoundsUp(d) THEN PixelBudget(d) - 1
                   ELSE PixelBudget(d)
<1>1. /\ w \in Nat /\ h \in Nat /\ Resizing(raw)
  BY SideIsSnapped
<1>2. w = FinalSize(raw, ctx).w /\ h = FinalSize(raw, ctx).h
  BY SidesOfForm
<1>3. OutputSize(raw, ctx).w = w /\ OutputSize(raw, ctx).h = h
  BY <1>2 DEF OutputSize
<1>4. ~MoreThan(w, h, most)
  BY <1>1, <1>3 DEF PassesChecks, OverBudget
<1>5. d \in 5 .. 30  BY AcceptedValues
<1>6. most \in Nat /\ most <= PixelBudget(d) /\ PixelBudget(d) \in Nat
  BY <1>5, BudgetIsPositive
<1>7. DprOf(FormOf(raw, ctx)["dpr"]) = d
  <2>1. "dpr" \in FORM_PARAMS /\ InForm("dpr", raw, ctx)
    BY <1>1 DEF FORM_PARAMS, CANONICAL_PARAMS, DELIVERY, InForm
  <2>2. FormOf(raw, ctx)["dpr"] = FormattedDpr(d)
    BY <2>1 DEF FormOf, ResolvedAs
  <2>3. QED  BY <1>5, <2>2, WrittenDpr
<1> HIDE DEF w, h, d, most
<1>8. w * h <= most /\ w * h \in Nat  BY <1>1, <1>4, <1>6, WithinProduct
<1>9. w * h <= PixelBudget(d)  BY <1>6, <1>8
<1>10. QED  BY <1>7, <1>9 DEF w, h, d

\* What the property asks of a dimension that ar implies.
LEMMA RatioIsImplied ==
  ASSUME NEW n \in Nat, NEW num \in Nat \ {0}, NEW den \in Nat \ {0}
  PROVE  LET r == AtLeastOne(RoundedRatio(n * num, den))
         IN /\ r \in {1, (n * num) \div den, (n * num) \div den + 1}
            /\ \/ /\ 2 * r * den - den <= 2 * (n * num)
                  /\ 2 * (n * num) < 2 * r * den + den
               \/ r = 1 /\ 2 * (n * num) < den
<1> DEFINE m == n * num
           q == RoundedRatio(m, den)
<1>1. m \in Nat /\ den \in Nat /\ den > 0  OBVIOUS
<1> HIDE DEF m
<1>2. /\ q \in {m \div den, m \div den + 1} /\ q \in Nat
      /\ 2 * q * den - den <= 2 * m /\ 2 * m < 2 * q * den + den
  BY <1>1, Rounding
<1> HIDE DEF q
<1>3. CASE q >= 1
  <2>1. AtLeastOne(q) = q  BY <1>2, <1>3 DEF AtLeastOne
  <2>2. QED  BY <1>2, <2>1 DEF m, q
<1>4. CASE q < 1
  <2>1. q = 0 /\ AtLeastOne(q) = 1  BY <1>2, <1>4 DEF AtLeastOne
  <2>2. 2 * q * den = 0  BY <1>1, <2>1
  <2>3. 2 * m < den  BY <1>1, <1>2, <2>2
  <2>4. QED  BY <2>1, <2>3 DEF m, q
<1>5. QED  BY <1>2, <1>3, <1>4

-----------------------------------------------------------------------------
\* What canonicalize returned or threw is its result for this request.
TransformInv ==
  result = Pending \/ result = Canonicalize(query, context)

\* The request stays, and its answer is the value of the function.
LEMMA Answers == TransformSpec => []TransformInv
<1>1. TransformInit => TransformInv  BY DEF TransformInit, TransformInv
<1>2. TransformInv /\ [Answer]_transformVars => TransformInv'
  BY DEF TransformInv, Answer, transformVars, Pending, Refusal
<1>3. QED  BY <1>1, <1>2, PTL DEF TransformSpec

(***************************************************************************)
(* For every query and context: an accepted request gets the sizes that it *)
(* gave or that its ratio implies, taken up to the ladder and never down,  *)
(* and its pixels are within the budget at its device pixel ratio          *)
(* (canonicalize.ts, steps 8, 11 and 12).                                  *)
(***************************************************************************)
THEOREM HonestSizes == TransformSpec => []SizeIsAskedAndAffordable
<1>1. TransformInv => SizeIsAskedAndAffordable
  <2>1. SUFFICES ASSUME TransformInv, result.verdict = "ok"
                 PROVE  SizeIsAskedAndAffordable
    BY DEF SizeIsAskedAndAffordable
  <2> DEFINE raw == Raw(query)
             form == FormOf(raw, context)
             ratio == raw["ar"].value.nums
             side(n) == SideOf(form, n)
             meant(n, exact) ==
               \/ side(n) = exact
               \/ /\ context.ladder /\ side(n) > exact
                  /\ side(n) \in DIMENSION_LADDER
             implied(n, num, den) ==
               \E exact \in {1, num \div den, num \div den + 1} :
                 /\ \/ /\ 2 * exact * den - den <= 2 * num
                       /\ 2 * num < 2 * exact * den + den
                    \/ exact = 1 /\ 2 * num < den
                 /\ meant(n, exact)
  <2>2. result # Pending  BY <2>1 DEF Pending, Refusal
  <2>3. PassesChecks(raw, context) /\ result.form = form
    BY <2>1, <2>2, AcceptedForm DEF TransformInv
  <2>4. ASSUME NEW n \in {"w", "h"}  PROVE meant(n, Size(raw)[n])
    BY <2>3, SideIsSnapped
  <2> HIDE DEF raw, form, side, meant
  <2>5. ASSUME NEW n \in {"w", "h"}, n \in DOMAIN raw
        PROVE  meant(n, Nat0(raw, n))
    <3>1. Size(raw)[n] = Nat0(raw, n)  BY <2>3, <2>5, SizeOfRequest
    <3>2. QED  BY <2>4, <3>1
  <2>6. ASSUME "ar" \in DOMAIN raw
        PROVE  IF "w" \in DOMAIN raw
               THEN implied("h", Nat0(raw, "w") * ratio[2], ratio[1])
               ELSE implied("w", Nat0(raw, "h") * ratio[1], ratio[2])
    <3>1. /\ ratio[1] \in Nat \ {0} /\ ratio[2] \in Nat \ {0}
          /\ Nat0(raw, "w") \in Nat /\ Nat0(raw, "h") \in Nat
      BY <2>3, <2>6, AcceptedValues, Zenon
    <3>2. ASSUME NEW n \in {"w", "h"}, NEW m \in Nat,
                 NEW num \in Nat \ {0}, NEW den \in Nat \ {0},
                 Size(raw)[n] = AtLeastOne(RoundedRatio(m * num, den))
          PROVE  implied(n, m * num, den)
      <4>1. meant(n, AtLeastOne(RoundedRatio(m * num, den)))
        BY <2>4, <3>2
      <4>2. QED  BY <3>2, <4>1, RatioIsImplied
    <3>3. CASE "w" \in DOMAIN raw
      <4>1. Size(raw)["h"] =
              AtLeastOne(RoundedRatio(Nat0(raw, "w") * ratio[2], ratio[1]))
        BY <2>3, <2>6, <3>3, SizeOfRequest
      <4>2. QED  BY <3>1, <3>2, <3>3, <4>1, Zenon
    <3>4. CASE "w" \notin DOMAIN raw
      <4>1. Size(raw)["w"] =
              AtLeastOne(RoundedRatio(Nat0(raw, "h") * ratio[1], ratio[2]))
        BY <2>3, <2>6, <3>4, SizeOfRequest
      <4>2. QED  BY <3>1, <3>2, <3>4, <4>1, Zenon
    <3>5. QED  BY <3>3, <3>4
  <2>7. side("w") # 0 /\ side("h") # 0 =>
          side("w") * side("h") <= PixelBudget(DprOf(form["dpr"]))
    BY <2>3, WithinBudget DEF side, form
  <2>8. QED
    BY <2>3, <2>5, <2>6, <2>7, Zenon
       DEF SizeIsAskedAndAffordable, raw, side, meant, SideOf
<1>2. QED  BY <1>1, Answers, PTL

-----------------------------------------------------------------------------
(***************************************************************************)
(* The map raw of two queries put together.                                *)
(***************************************************************************)
\* A set of naturals has a least element.
LEMMA Least ==
  ASSUME NEW T, T \subseteq Nat, T # {}
  PROVE  \E x \in T : \A y \in T : x <= y
<1> DEFINE R == OpToRel(<, Nat)
<1>1. IsWellFoundedOn(R, Nat)
  BY NatLessThanWellFounded
<1>2. \A a, b \in Nat : a < b => <<a, b>> \in R
  BY DEF OpToRel
<1> HIDE DEF R
<1>3. PICK x \in T : \A y \in T : ~(<<y, x>> \in R)
  BY <1>1, WFMin
<1>4. ASSUME NEW y \in T PROVE x <= y
  <2>1. ~(y < x)
    BY <1>2, <1>3, Zenon
  <2>2. x \in Nat /\ y \in Nat
    OBVIOUS
  <2> QED BY <2>1, <2>2, SMT
<1> QED BY <1>4

\* The last of some places of a sequence: the one with the fewest after it.
LEMMA LastPlace ==
  ASSUME NEW n \in Nat, NEW S, S \subseteq 1..n, S # {}
  PROVE  Max(S) \in S /\ \A i \in S : i <= Max(S)
<1> DEFINE After == {n - i : i \in S}
<1>1. After \subseteq Nat /\ After # {}
  <2>1. PICK i \in S : TRUE
    OBVIOUS
  <2>2. n - i \in After
    OBVIOUS
  <2>3. \A j \in 1..n : n - j \in Nat
    OBVIOUS
  <2>4. After \subseteq Nat
    BY <2>3
  <2> QED BY <2>2, <2>4
<1>2. PICK k \in After : \A m \in After : k <= m
  <2> HIDE DEF After
  <2> QED BY <1>1, Least
<1>3. PICK i \in S : k = n - i
  OBVIOUS
<1>4. \A j \in S : i >= j
  <2> TAKE j \in S
  <2>1. n - i <= n - j
    BY <1>2, <1>3
  <2>2. i \in Nat /\ j \in Nat
    OBVIOUS
  <2> QED BY <2>1, <2>2
<1>5. \E x \in S : \A y \in S : x >= y
  BY <1>4
<1>6. Max(S) \in S /\ \A y \in S : Max(S) >= y
  BY <1>5 DEF Max
<1> QED BY <1>6

\* The pair that decides a parameter.
LEMMA Decider ==
  ASSUME NEW T, NEW q \in Seq(T), NEW n
  PROVE  /\ n \in DOMAIN Raw(q) <=> n \in CANONICAL_PARAMS /\ Givers(q, n) # {}
         /\ n \in DOMAIN Raw(q) => Raw(q)[n] = GivenBy(q[Max(Givers(q, n))], n)
         /\ Givers(q, n) # {} => /\ Max(Givers(q, n)) \in Givers(q, n)
                                 /\ \A i \in Givers(q, n) : i <= Max(Givers(q, n))
<1>1. Givers(q, n) \subseteq 1..Len(q) /\ Len(q) \in Nat
  BY LenProperties DEF Givers
<1>2. Givers(q, n) # {} => /\ Max(Givers(q, n)) \in Givers(q, n)
                           /\ \A i \in Givers(q, n) : i <= Max(Givers(q, n))
  BY <1>1, LastPlace
<1>3. /\ n \in DOMAIN Raw(q) <=> n \in CANONICAL_PARAMS /\ Givers(q, n) # {}
      /\ n \in DOMAIN Raw(q) => Raw(q)[n] = GivenBy(q[Max(Givers(q, n))], n)
  BY Zenon DEF Raw
<1> QED BY <1>2, <1>3

\* What comes later overrides what came before.
LEMMA RawOfBoth ==
  ASSUME NEW T, NEW a \in Seq(T), NEW b \in Seq(T), NEW n
  PROVE  /\ n \in DOMAIN Raw(a \o b) <=> n \in DOMAIN Raw(a) \/ n \in DOMAIN Raw(b)
         /\ n \in DOMAIN Raw(b) => Raw(a \o b)[n] = Raw(b)[n]
         /\ n \in DOMAIN Raw(a) /\ n \notin DOMAIN Raw(b) => Raw(a \o b)[n] = Raw(a)[n]
<1> DEFINE ab == a \o b
           A == Givers(a, n)
           B == Givers(b, n)
           AB == Givers(ab, n)
<1>1. /\ ab \in Seq(T) /\ Len(a) \in Nat /\ Len(b) \in Nat
      /\ DOMAIN a = 1..Len(a) /\ DOMAIN b = 1..Len(b) /\ DOMAIN ab = 1..(Len(a) + Len(b))
      /\ \A i \in 1..(Len(a) + Len(b)) : ab[i] = IF i <= Len(a) THEN a[i] ELSE b[i - Len(a)]
  <2>1. ab \in Seq(T) /\ Len(ab) = Len(a) + Len(b)
    BY ConcatProperties
  <2>2. DOMAIN ab = 1..(Len(a) + Len(b))
    BY <2>1, LenProperties
  <2>3. Len(a) \in Nat /\ Len(b) \in Nat /\ DOMAIN a = 1..Len(a) /\ DOMAIN b = 1..Len(b)
    BY LenProperties
  <2> QED BY <2>1, <2>2, <2>3, ConcatProperties
<1> HIDE DEF ab
<1>2. \A i \in 1..Len(a) : ab[i] = a[i] /\ (i \in AB <=> i \in A)
  <2> TAKE i \in 1..Len(a)
  <2>1. i \in 1..(Len(a) + Len(b)) /\ ab[i] = a[i]
    BY <1>1
  <2> QED BY <1>1, <2>1 DEF Givers
<1>3. \A i \in 1..Len(b) : ab[Len(a) + i] = b[i] /\ (Len(a) + i \in AB <=> i \in B)
  <2> TAKE i \in 1..Len(b)
  <2>1. /\ Len(a) + i \in 1..(Len(a) + Len(b))
        /\ ~(Len(a) + i <= Len(a)) /\ Len(a) + i - Len(a) = i
    BY <1>1
  <2>2. ab[Len(a) + i] = b[i]
    BY <1>1, <2>1
  <2> QED BY <1>1, <2>1, <2>2 DEF Givers
<1>4. A \subseteq 1..Len(a) /\ B \subseteq 1..Len(b)
  BY <1>1 DEF Givers
<1>5. \A i \in AB : i \in A \/ (i > Len(a) /\ i - Len(a) \in B)
  <2> TAKE i \in AB
  <2>1. i \in 1..(Len(a) + Len(b))
    BY <1>1 DEF Givers
  <2>2. CASE i <= Len(a)
    BY <1>1, <1>2, <2>1, <2>2
  <2>3. CASE i > Len(a)
    <3>1. i - Len(a) \in 1..Len(b) /\ Len(a) + (i - Len(a)) = i
      BY <1>1, <2>1, <2>3
    <3> QED BY <1>3, <2>3, <3>1
  <2> QED BY <1>1, <2>1, <2>2, <2>3
<1>6. AB # {} <=> A # {} \/ B # {}
  BY <1>2, <1>3, <1>4, <1>5
<1>7. /\ A # {} => Max(A) \in A /\ \A i \in A : i <= Max(A)
      /\ B # {} => Max(B) \in B /\ \A i \in B : i <= Max(B)
      /\ AB # {} => Max(AB) \in AB /\ \A i \in AB : i <= Max(AB)
  BY <1>1, Decider
<1> HIDE DEF A, B, AB
<1>8. ASSUME B # {} PROVE ab[Max(AB)] = b[Max(B)]
  <2>1. Len(a) + Max(B) \in AB /\ Max(B) \in 1..Len(b)
    BY <1>3, <1>4, <1>7, <1>8
  <2>2. Max(AB) >= Len(a) + Max(B) /\ Max(AB) \in AB
    BY <1>7, <2>1
  <2>3. Max(AB) \in 1..(Len(a) + Len(b))
    BY <1>1, <2>2 DEF AB, Givers
  <2>4. Max(AB) > Len(a) /\ Max(AB) - Len(a) \in B
    BY <1>1, <1>4, <1>5, <2>1, <2>2, <2>3
  <2>5. Max(AB) - Len(a) <= Max(B)
    BY <1>7, <2>4
  <2>6. Max(AB) = Len(a) + Max(B)
    <3>1. \A x, y, z \in Int : x >= z + y /\ x - z <= y => x = z + y
      OBVIOUS
    <3>2. Max(AB) \in Int /\ Max(B) \in Int /\ Len(a) \in Int
      BY <1>1, <2>1, <2>3
    <3> QED BY <2>2, <2>5, <3>1, <3>2
  <2> QED BY <1>3, <2>1, <2>6
<1>9. ASSUME B = {}, A # {} PROVE ab[Max(AB)] = a[Max(A)]
  <2>1. \A i \in AB : i \in A
    BY <1>5, <1>9
  <2>2. \A i \in A : i \in AB
    BY <1>2, <1>4
  <2>3. AB = A
    BY <2>1, <2>2
  <2> QED BY <1>2, <1>4, <1>7, <1>9, <2>3
<1>10. /\ n \in DOMAIN Raw(a) <=> n \in CANONICAL_PARAMS /\ A # {}
       /\ n \in DOMAIN Raw(a) => Raw(a)[n] = GivenBy(a[Max(A)], n)
       /\ n \in DOMAIN Raw(b) <=> n \in CANONICAL_PARAMS /\ B # {}
       /\ n \in DOMAIN Raw(b) => Raw(b)[n] = GivenBy(b[Max(B)], n)
       /\ n \in DOMAIN Raw(ab) <=> n \in CANONICAL_PARAMS /\ AB # {}
       /\ n \in DOMAIN Raw(ab) => Raw(ab)[n] = GivenBy(ab[Max(AB)], n)
  BY <1>1, Decider, Zenon DEF A, B, AB
<1>11. /\ n \in DOMAIN Raw(ab) <=> n \in DOMAIN Raw(a) \/ n \in DOMAIN Raw(b)
       /\ n \in DOMAIN Raw(b) => Raw(ab)[n] = Raw(b)[n]
       /\ n \in DOMAIN Raw(a) /\ n \notin DOMAIN Raw(b) => Raw(ab)[n] = Raw(a)[n]
  BY <1>6, <1>8, <1>9, <1>10, Zenon
<1> QED BY <1>11 DEF ab

-----------------------------------------------------------------------------
(***************************************************************************)
(* Equivalent requests.                                                    *)
(***************************************************************************)
\* Two values of a parameter that mean the same.
Alike(n, v, w) ==
  LET bothIn(words) == IsWord(v, words) /\ IsWord(w, words)
  IN \/ v = w
     \/ /\ n = "fit" /\ bothIn(FIT_VALUES \cup DOMAIN FIT_VALUE_ALIASES)
        /\ FitOf(v) = FitOf(w)
     \/ n = "g" /\ bothIn({"face", "faces"})
     \/ n = "bg" /\ bothIn(DOMAIN CSS_NAMED_COLORS) /\ ColorOf(v) = ColorOf(w)

\* Two maps of parameters that ask for the same image.
SameRequest(r, s, ctx) ==
  /\ DOMAIN r \subseteq CANONICAL_PARAMS /\ DOMAIN s \subseteq CANONICAL_PARAMS
  /\ \A n \in CANONICAL_PARAMS \ DELIVERY :
       /\ n \in DOMAIN r <=> n \in DOMAIN s
       /\ n \in DOMAIN r => Alike(n, r[n].value, s[n].value)
  /\ \A n \in DELIVERY :
       (n \in DOMAIN r => Valid(n, r[n].value, ctx))
         <=> (n \in DOMAIN s => Valid(n, s[n].value, ctx))

\* Values that mean the same are valid together.
LEMMA AlikeValid ==
  ASSUME NEW n, NEW v, NEW w, NEW ctx, Alike(n, v, w)
  PROVE  Valid(n, v, ctx) <=> Valid(n, w, ctx)
<1>1. CASE v = w
  BY <1>1
<1>2. CASE n = "fit" /\ v # w
  BY <1>2 DEF Alike, Valid
<1>3. CASE n = "g" /\ v # w
  <2>1. IsWord(v, {"face", "faces"}) /\ IsWord(w, {"face", "faces"})
    BY <1>3 DEF Alike
  <2> QED BY <1>3, <2>1 DEF Valid, IsWord
<1>4. CASE n = "bg" /\ v # w
  <2>1. IsWord(v, DOMAIN CSS_NAMED_COLORS) /\ IsWord(w, DOMAIN CSS_NAMED_COLORS)
    BY <1>4 DEF Alike
  <2> QED BY <1>4, <2>1 DEF Valid, IsWord
<1> QED BY <1>1, <1>2, <1>3, <1>4 DEF Alike

\* What the parameters other than fit, g and bg mean is their value.
LEMMA SameValues ==
  ASSUME NEW r, NEW s, NEW ctx, SameRequest(r, s, ctx),
         NEW n \in CANONICAL_PARAMS \ DELIVERY
  PROVE  /\ n \in DOMAIN r <=> n \in DOMAIN s
         /\ n \in DOMAIN r /\ n \notin {"fit", "g", "bg"} =>
              r[n].value = s[n].value
BY Zenon DEF SameRequest, Alike

\* Sizes, ratios, format, quality, rotation, effects and placement agree.
LEMMA SameMeaning ==
  ASSUME NEW r, NEW s, NEW ctx, SameRequest(r, s, ctx)
  PROVE  /\ \A n \in {"w", "h", "blur", "sharpen"} : Nat0(r, n) = Nat0(s, n)
         /\ Size(r) = Size(s) /\ FinalSize(r, ctx) = FinalSize(s, ctx)
         /\ OverSpecified(r) <=> OverSpecified(s)
         /\ Resizing(r) <=> Resizing(s)
         /\ EffectiveFit(r) = EffectiveFit(s)
         /\ EffectiveDpr(r) = EffectiveDpr(s)
         /\ FormatOf(r, ctx) = FormatOf(s, ctx)
         /\ QualityOf(r, ctx) = QualityOf(s, ctx)
         /\ RotationOf(r, ctx) = RotationOf(s, ctx)
         /\ GravityMode(r) = GravityMode(s)
         /\ GravityOf(r, ctx) = GravityOf(s, ctx)
         /\ OutputSize(r, ctx) = OutputSize(s, ctx)
<1>1. \A n \in {"w", "h", "ar", "dpr", "fit", "g", "rect", "f", "q", "bg",
                "blur", "sharpen", "rot", "flip"} :
        n \in CANONICAL_PARAMS \ DELIVERY
  BY DEF CANONICAL_PARAMS, DELIVERY
<1>2. \A n \in {"w", "h", "ar", "dpr", "fit", "g", "rect", "f", "q", "bg",
                "blur", "sharpen", "rot", "flip"} :
        /\ n \in DOMAIN r <=> n \in DOMAIN s
        /\ n \in DOMAIN r /\ n \notin {"fit", "g", "bg"} =>
             r[n].value = s[n].value
  BY <1>1, SameValues
<1>3. \A n \in {"w", "h", "blur", "sharpen"} : Nat0(r, n) = Nat0(s, n)
  BY <1>2 DEF Nat0
<1>4. Size(r) = Size(s)
  BY <1>2, <1>3 DEF Size
<1>5. FinalSize(r, ctx) = FinalSize(s, ctx)
  BY <1>4 DEF FinalSize
<1>6. /\ OverSpecified(r) <=> OverSpecified(s)
      /\ Resizing(r) <=> Resizing(s)
  BY <1>2 DEF OverSpecified, Resizing
<1>7. EffectiveFit(r) = EffectiveFit(s)
  <2>1. "fit" \in DOMAIN r => FitOf(r["fit"].value) = FitOf(s["fit"].value)
    BY <1>1, Zenon DEF SameRequest, Alike
  <2> QED BY <1>2, <2>1 DEF EffectiveFit
<1>8. EffectiveDpr(r) = EffectiveDpr(s)
  BY <1>2 DEF EffectiveDpr
<1>9. FormatOf(r, ctx) = FormatOf(s, ctx)
  BY <1>2 DEF FormatOf
<1>10. QualityOf(r, ctx) = QualityOf(s, ctx)
  BY <1>2, <1>9 DEF QualityOf
<1>11. RotationOf(r, ctx) = RotationOf(s, ctx)
  BY <1>2 DEF RotationOf
<1>12. /\ GravityMode(r) = GravityMode(s)
       /\ GravityOf(r, ctx) = GravityOf(s, ctx)
  <2>1. CASE "g" \notin DOMAIN r
    <3>1. "g" \notin DOMAIN s
      BY <1>2, <2>1
    <3> QED BY <2>1, <3>1 DEF GravityMode, GravityOf
  <2>2. CASE "g" \in DOMAIN r /\ r["g"].value = s["g"].value
    <3>1. "g" \in DOMAIN s
      BY <1>2, <2>2
    <3> QED BY <2>2, <3>1 DEF GravityMode, GravityOf
  <2>3. CASE "g" \in DOMAIN r /\ r["g"].value # s["g"].value
    <3>1. /\ "g" \in DOMAIN s
          /\ IsWord(r["g"].value, {"face", "faces"})
          /\ IsWord(s["g"].value, {"face", "faces"})
      BY <1>1, <1>2, <2>3 DEF SameRequest, Alike
    <3>2. ~IsWord(r["g"].value, {"auto"}) /\ ~IsWord(s["g"].value, {"auto"})
      BY <3>1 DEF IsWord
    <3>3. GravityMode(r) = "face" /\ GravityMode(s) = "face"
      BY <2>3, <3>1, <3>2 DEF GravityMode
    <3> QED BY <3>3 DEF GravityOf
  <2> QED BY <2>1, <2>2, <2>3
<1>13. OutputSize(r, ctx) = OutputSize(s, ctx)
  BY <1>2, <1>5 DEF OutputSize
<1> QED BY <1>3, <1>4, <1>5, <1>6, <1>7, <1>8, <1>9, <1>10, <1>11, <1>12, <1>13

\* A name the colour table only inherits has no other spelling.
LEMMA SameStray ==
  ASSUME NEW r, NEW s, NEW ctx, SameRequest(r, s, ctx)
  PROVE  /\ Stray(r) <=> Stray(s)
         /\ Stray(r) => r["bg"].value = s["bg"].value
<1>1. /\ "bg" \in DOMAIN r <=> "bg" \in DOMAIN s
      /\ "bg" \in DOMAIN r => Alike("bg", r["bg"].value, s["bg"].value)
  BY DEF SameRequest, CANONICAL_PARAMS, DELIVERY
<1>2. CASE "bg" \in DOMAIN r /\ r["bg"].value # s["bg"].value
  <2>1. /\ IsWord(r["bg"].value, DOMAIN CSS_NAMED_COLORS)
        /\ IsWord(s["bg"].value, DOMAIN CSS_NAMED_COLORS)
    BY <1>1, <1>2 DEF Alike
  <2>2. \A c \in DOMAIN CSS_NAMED_COLORS : c \notin INHERITED
    BY DEF CSS_NAMED_COLORS, INHERITED
  <2> QED BY <2>1, <2>2 DEF Stray, IsWord
<1>3. CASE "bg" \in DOMAIN r /\ r["bg"].value = s["bg"].value
  BY <1>1, <1>3 DEF Stray
<1>4. CASE "bg" \notin DOMAIN r
  BY <1>1, <1>4 DEF Stray
<1> QED BY <1>2, <1>3, <1>4

\* Two maps that ask for the same image get one form.
LEMMA SameForm ==
  ASSUME NEW r, NEW s, NEW ctx, SameRequest(r, s, ctx)
  PROVE  FormOf(r, ctx) = FormOf(s, ctx)
<1>1. "bg" \in DOMAIN r <=> "bg" \in DOMAIN s
  BY SameValues DEF CANONICAL_PARAMS, DELIVERY
<1>2. /\ Placed(r) <=> Placed(s)
      /\ Padded(r) <=> Padded(s)
      /\ HasBackground(r, ctx) <=> HasBackground(s, ctx)
  BY <1>1, SameMeaning DEF Placed, Padded, HasBackground
<1>3. BackgroundOf(r, ctx) = BackgroundOf(s, ctx)
  <2>1. "bg" \in CANONICAL_PARAMS \ DELIVERY
    BY DEF CANONICAL_PARAMS, DELIVERY
  <2>2. "bg" \in DOMAIN r => ColorOf(r["bg"].value) = ColorOf(s["bg"].value)
    BY <2>1, Zenon DEF SameRequest, Alike
  <2>3. FormatOf(r, ctx) = FormatOf(s, ctx)
    BY SameMeaning
  <2>4. CASE "bg" \in DOMAIN r
    BY <1>1, <1>2, <2>2, <2>4 DEF BackgroundOf
  <2>5. CASE "bg" \notin DOMAIN r
    BY <1>1, <2>3, <2>5 DEF BackgroundOf
  <2> QED BY <2>4, <2>5
<1>4. \A n \in {"blur", "sharpen"} : HasEffect(r, n) <=> HasEffect(s, n)
  BY SameMeaning DEF HasEffect
<1>5. \A n \in {"flip", "rect"} :
        /\ n \in DOMAIN r <=> n \in DOMAIN s
        /\ n \in DOMAIN r => r[n].value = s[n].value
  BY SameValues DEF CANONICAL_PARAMS, DELIVERY
<1>6. \A n \in {"blur", "sharpen"} : HasEffect(r, n) => r[n].value = s[n].value
  <2> TAKE n \in {"blur", "sharpen"}
  <2>1. HasEffect(r, n) => n \in DOMAIN r
    BY DEF HasEffect, Nat0
  <2> QED BY <2>1, SameValues DEF CANONICAL_PARAMS, DELIVERY
<1>7. ASSUME NEW n \in FORM_PARAMS
      PROVE  /\ InForm(n, r, ctx) <=> InForm(n, s, ctx)
             /\ InForm(n, r, ctx) => ResolvedAs(n, r, ctx) = ResolvedAs(n, s, ctx)
  <2>1. n \in {"w", "h", "dpr", "fit", "g", "rect", "f", "q", "bg", "blur",
               "sharpen", "rot", "flip"}
    BY DEF FORM_PARAMS, CANONICAL_PARAMS, DELIVERY
  <2>2. /\ FinalSize(r, ctx) = FinalSize(s, ctx) /\ (Resizing(r) <=> Resizing(s))
        /\ EffectiveFit(r) = EffectiveFit(s) /\ EffectiveDpr(r) = EffectiveDpr(s)
        /\ FormatOf(r, ctx) = FormatOf(s, ctx)
        /\ QualityOf(r, ctx) = QualityOf(s, ctx)
        /\ RotationOf(r, ctx) = RotationOf(s, ctx)
    BY SameMeaning
  <2>3. CASE n \in {"w", "h"}
    BY <2>2, <2>3 DEF InForm, ResolvedAs
  <2>4. CASE n \in {"dpr", "fit"}
    BY <2>2, <2>4 DEF InForm, ResolvedAs
  <2>5. CASE n \in {"f", "q", "rot"}
    BY <2>2, <2>5 DEF InForm, ResolvedAs
  <2>6. CASE n = "g"
    BY <1>2, <2>6, SameMeaning DEF InForm, ResolvedAs
  <2>7. CASE n = "bg"
    BY <1>2, <1>3, <2>7, SameStray DEF InForm, ResolvedAs
  <2>8. CASE n \in {"blur", "sharpen"}
    BY <1>4, <1>6, <2>8 DEF InForm, ResolvedAs
  <2>9. CASE n \in {"flip", "rect"}
    BY <1>5, <2>9 DEF InForm, ResolvedAs
  <2> QED BY <2>1, <2>3, <2>6, <2>7, <2>8, <2>9, <2>4, <2>5
<1>8. {n \in FORM_PARAMS : InForm(n, r, ctx)} = {n \in FORM_PARAMS : InForm(n, s, ctx)}
  BY <1>7
<1> QED BY <1>7, <1>8, Zenon DEF FormOf

\* Requests for the same image, of pairs that are accepted together, are both
\* refused or get one form.
LEMMA SameIdentity ==
  ASSUME NEW q, NEW p, NEW ctx, PairsAccepted(q, ctx) <=> PairsAccepted(p, ctx),
         PairsAccepted(q, ctx) => SameRequest(Raw(q), Raw(p), ctx)
  PROVE  Identity(q, ctx) = Identity(p, ctx)
<1> DEFINE r == Raw(q)
           s == Raw(p)
<1>1. Verdict(q, r, ctx) = "ok" <=> Verdict(p, s, ctx) = "ok"
  <2>1. CASE ~PairsAccepted(q, ctx)
    BY <2>1 DEF Verdict
  <2>2. CASE PairsAccepted(q, ctx)
    <3>1. SameRequest(r, s, ctx) /\ PairsAccepted(p, ctx)
      BY <2>2
    <3> HIDE DEF r, s
    <3>2. (\A n \in DOMAIN r : Valid(n, r[n].value, ctx))
            <=> (\A n \in DOMAIN s : Valid(n, s[n].value, ctx))
      <4>1. \A n \in CANONICAL_PARAMS \ DELIVERY :
              /\ n \in DOMAIN r <=> n \in DOMAIN s
              /\ n \in DOMAIN r =>
                   (Valid(n, r[n].value, ctx) <=> Valid(n, s[n].value, ctx))
        BY <3>1, AlikeValid, Zenon DEF SameRequest
      <4>2. /\ \A n \in DELIVERY :
                 (n \in DOMAIN r => Valid(n, r[n].value, ctx))
                   <=> (n \in DOMAIN s => Valid(n, s[n].value, ctx))
            /\ DOMAIN r \subseteq CANONICAL_PARAMS
            /\ DOMAIN s \subseteq CANONICAL_PARAMS
        BY <3>1 DEF SameRequest
      <4> QED BY <4>1, <4>2
    <3>3. /\ OverSpecified(r) <=> OverSpecified(s)
          /\ RatioTooLarge(r) <=> RatioTooLarge(s)
          /\ NoResolver(r, ctx) <=> NoResolver(s, ctx)
          /\ OverBudget(r, ctx) <=> OverBudget(s, ctx)
          /\ SlicesNoText(r, ctx) <=> SlicesNoText(s, ctx)
      BY <3>1, SameMeaning, SameStray
      DEF RatioTooLarge, NoResolver, Placed, OverBudget, SlicesNoText, Padded
    <3> QED BY <2>2, <3>1, <3>2, <3>3 DEF Verdict
  <2> QED BY <2>1, <2>2
<1>2. Verdict(q, r, ctx) = "ok" => FormOf(r, ctx) = FormOf(s, ctx)
  <2>1. Verdict(q, r, ctx) = "ok" => PairsAccepted(q, ctx)
    BY DEF Verdict
  <2> QED BY <2>1, SameForm
<1>3. ASSUME NEW x
      PROVE  /\ Canonicalize(x, ctx).verdict = "ok" <=> Verdict(x, Raw(x), ctx) = "ok"
             /\ Canonicalize(x, ctx).form =
                  IF Verdict(x, Raw(x), ctx) = "ok" THEN FormOf(Raw(x), ctx) ELSE <<>>
  <2>1. CASE Verdict(x, Raw(x), ctx) = "ok"
    BY <2>1 DEF Canonicalize
  <2>2. CASE Verdict(x, Raw(x), ctx) # "ok"
    BY <2>2 DEF Canonicalize, Refusal
  <2> QED BY <2>1, <2>2
<1>4. /\ Canonicalize(q, ctx).verdict = "ok" <=> Canonicalize(p, ctx).verdict = "ok"
      /\ Canonicalize(q, ctx).form = Canonicalize(p, ctx).form
  BY <1>1, <1>2, <1>3
<1> QED BY <1>4, Zenon DEF Identity

-----------------------------------------------------------------------------
\* Two queries that say the same of every parameter.
MeansTheSame(q, p) ==
  \A n \in CANONICAL_PARAMS :
    /\ n \in DOMAIN Raw(q) <=> n \in DOMAIN Raw(p)
    /\ n \in DOMAIN Raw(q) => Alike(n, Raw(q)[n].value, Raw(p)[n].value)

\* They are the same request.
LEMMA MeansSameRequest ==
  ASSUME NEW q, NEW p, NEW ctx, MeansTheSame(q, p)
  PROVE  SameRequest(Raw(q), Raw(p), ctx)
<1>1. \A x : DOMAIN Raw(x) \subseteq CANONICAL_PARAMS
  BY DEF Raw
<1>2. DELIVERY \subseteq CANONICAL_PARAMS
  BY DEF CANONICAL_PARAMS
<1>3. ASSUME NEW n \in DELIVERY
      PROVE  (n \in DOMAIN Raw(q) => Valid(n, Raw(q)[n].value, ctx))
               <=> (n \in DOMAIN Raw(p) => Valid(n, Raw(p)[n].value, ctx))
  <2>1. /\ n \in DOMAIN Raw(q) <=> n \in DOMAIN Raw(p)
        /\ n \in DOMAIN Raw(q) => Alike(n, Raw(q)[n].value, Raw(p)[n].value)
    BY <1>2 DEF MeansTheSame
  <2>2. CASE n \in DOMAIN Raw(q)
    <3>1. Alike(n, Raw(q)[n].value, Raw(p)[n].value)
      BY <2>1, <2>2
    <3>2. Valid(n, Raw(q)[n].value, ctx) <=> Valid(n, Raw(p)[n].value, ctx)
      BY <3>1, AlikeValid
    <3> QED BY <2>1, <3>2
  <2> QED BY <2>1, <2>2
<1> QED BY <1>1, <1>3, Zenon DEF SameRequest, MeansTheSame

\* What a pair requires of itself.
PairOk(p, ctx) ==
  /\ p.value.kind = "undecodable" => p.key \notin KNOWN_NAMES
  /\ p.key \in DOMAIN COMPATIBILITY_KEYS => Mapped(p)
  /\ Decodes(p) /\ p.key \notin KNOWN_NAMES => p.key \notin NearMisses /\ ~ctx.strict

\* Pairs are accepted one by one.
LEMMA PairByPair ==
  ASSUME NEW q, NEW ctx
  PROVE  PairsAccepted(q, ctx) <=> \A i \in DOMAIN q : PairOk(q[i], ctx)
<1>1. ToSet(q) = {q[i] : i \in DOMAIN q}
  BY DEF ToSet
<1>2. \A k : k \in Foreign(q) <=>
               \E i \in DOMAIN q : Decodes(q[i]) /\ q[i].key = k /\ k \notin KNOWN_NAMES
  BY <1>1 DEF Foreign
<1>3. Foreign(q) \cap NearMisses = {} <=>
        \A i \in DOMAIN q :
          Decodes(q[i]) /\ q[i].key \notin KNOWN_NAMES => q[i].key \notin NearMisses
  BY <1>2
<1>4. (ctx.strict => Foreign(q) = {}) <=>
        \A i \in DOMAIN q :
          Decodes(q[i]) /\ q[i].key \notin KNOWN_NAMES => ~ctx.strict
  BY <1>2
<1>5. (\A p \in ToSet(q) :
         /\ p.value.kind = "undecodable" => p.key \notin KNOWN_NAMES
         /\ p.key \in DOMAIN COMPATIBILITY_KEYS => Mapped(p))
      <=> \A i \in DOMAIN q :
            /\ q[i].value.kind = "undecodable" => q[i].key \notin KNOWN_NAMES
            /\ q[i].key \in DOMAIN COMPATIBILITY_KEYS => Mapped(q[i])
  BY <1>1
<1> QED BY <1>3, <1>4, <1>5, Zenon DEF PairsAccepted, PairOk

\* The places of two queries put together.
LEMMA PlacesOfBoth ==
  ASSUME NEW T, NEW a \in Seq(T), NEW b \in Seq(T)
  PROVE  /\ a \o b \in Seq(T)
         /\ \A i \in DOMAIN a : i \in DOMAIN (a \o b) /\ (a \o b)[i] = a[i]
         /\ \A i \in DOMAIN b : \E j \in DOMAIN (a \o b) : (a \o b)[j] = b[i]
         /\ \A j \in DOMAIN (a \o b) :
              \/ \E i \in DOMAIN a : (a \o b)[j] = a[i]
              \/ \E i \in DOMAIN b : (a \o b)[j] = b[i]
<1> DEFINE ab == a \o b
<1>1. /\ ab \in Seq(T) /\ Len(a) \in Nat /\ Len(b) \in Nat
      /\ DOMAIN a = 1..Len(a) /\ DOMAIN b = 1..Len(b) /\ DOMAIN ab = 1..(Len(a) + Len(b))
      /\ \A i \in 1..(Len(a) + Len(b)) : ab[i] = IF i <= Len(a) THEN a[i] ELSE b[i - Len(a)]
  <2>1. ab \in Seq(T) /\ Len(ab) = Len(a) + Len(b)
    BY ConcatProperties
  <2>2. DOMAIN ab = 1..(Len(a) + Len(b))
    BY <2>1, LenProperties
  <2>3. Len(a) \in Nat /\ Len(b) \in Nat /\ DOMAIN a = 1..Len(a) /\ DOMAIN b = 1..Len(b)
    BY LenProperties
  <2> QED BY <2>1, <2>2, <2>3, ConcatProperties
<1> HIDE DEF ab
<1>2. \A i \in DOMAIN a : i \in DOMAIN ab /\ ab[i] = a[i]
  BY <1>1
<1>3. ASSUME NEW i \in DOMAIN b PROVE \E j \in DOMAIN ab : ab[j] = b[i]
  <2>1. /\ Len(a) + i \in DOMAIN ab /\ ~(Len(a) + i <= Len(a))
        /\ Len(a) + i - Len(a) = i
    BY <1>1
  <2> QED BY <1>1, <2>1
<1>4. ASSUME NEW j \in DOMAIN ab
      PROVE  (\E i \in DOMAIN a : ab[j] = a[i]) \/ (\E i \in DOMAIN b : ab[j] = b[i])
  <2>1. CASE j <= Len(a)
    BY <1>1, <2>1
  <2>2. CASE ~(j <= Len(a))
    <3>1. j - Len(a) \in 1..Len(b)
      BY <1>1, <2>2
    <3> QED BY <1>1, <2>2, <3>1
  <2> QED BY <2>1, <2>2
<1> QED BY <1>1, <1>2, <1>3, <1>4 DEF ab

LEMMA PairsOfBoth ==
  ASSUME NEW T, NEW a \in Seq(T), NEW b \in Seq(T), NEW ctx
  PROVE  PairsAccepted(a \o b, ctx) <=> PairsAccepted(a, ctx) /\ PairsAccepted(b, ctx)
<1> DEFINE ab == a \o b
<1>1. \A i \in DOMAIN a : i \in DOMAIN ab /\ ab[i] = a[i]
  BY PlacesOfBoth
<1>2. \A i \in DOMAIN b : \E j \in DOMAIN ab : ab[j] = b[i]
  BY PlacesOfBoth
<1>3. \A j \in DOMAIN ab :
        (\E i \in DOMAIN a : ab[j] = a[i]) \/ (\E i \in DOMAIN b : ab[j] = b[i])
  BY PlacesOfBoth, SMTT(20)
<1> HIDE DEF ab
<1>4. (\A j \in DOMAIN ab : PairOk(ab[j], ctx)) <=>
        (\A i \in DOMAIN a : PairOk(a[i], ctx)) /\ (\A i \in DOMAIN b : PairOk(b[i], ctx))
  BY <1>1, <1>2, <1>3, Zenon
<1>5. PairsAccepted(ab, ctx) <=> PairsAccepted(a, ctx) /\ PairsAccepted(b, ctx)
  BY <1>4, PairByPair, Zenon
<1> QED BY <1>5 DEF ab

\* Parts that say the same may stand for each other.
LEMMA MeansInContext ==
  ASSUME NEW T, NEW a \in Seq(T), NEW b \in Seq(T), NEW m \in Seq(T), NEW s \in Seq(T),
         MeansTheSame(m, s)
  PROVE  MeansTheSame(a \o m \o b, a \o s \o b)
<1>1. \A x \in Seq(T) : a \o x \in Seq(T)
  BY ConcatProperties
<1>2. ASSUME NEW n \in CANONICAL_PARAMS
      PROVE  /\ n \in DOMAIN Raw(a \o m \o b) <=> n \in DOMAIN Raw(a \o s \o b)
             /\ n \in DOMAIN Raw(a \o m \o b) =>
                  Alike(n, Raw(a \o m \o b)[n].value, Raw(a \o s \o b)[n].value)
  <2>1. \A x \in Seq(T) :
          /\ n \in DOMAIN Raw(a \o x \o b) <=>
               n \in DOMAIN Raw(a \o x) \/ n \in DOMAIN Raw(b)
          /\ n \in DOMAIN Raw(b) => Raw(a \o x \o b)[n] = Raw(b)[n]
          /\ n \in DOMAIN Raw(a \o x) /\ n \notin DOMAIN Raw(b) =>
               Raw(a \o x \o b)[n] = Raw(a \o x)[n]
    BY <1>1, RawOfBoth
  <2>2. \A x \in Seq(T) :
          /\ n \in DOMAIN Raw(a \o x) <=> n \in DOMAIN Raw(a) \/ n \in DOMAIN Raw(x)
          /\ n \in DOMAIN Raw(x) => Raw(a \o x)[n] = Raw(x)[n]
          /\ n \in DOMAIN Raw(a) /\ n \notin DOMAIN Raw(x) =>
               Raw(a \o x)[n] = Raw(a)[n]
    BY RawOfBoth
  <2>3. /\ n \in DOMAIN Raw(m) <=> n \in DOMAIN Raw(s)
        /\ n \in DOMAIN Raw(m) => Alike(n, Raw(m)[n].value, Raw(s)[n].value)
    BY DEF MeansTheSame
  <2>4. \A v : Alike(n, v, v)
    BY DEF Alike
  <2>5. n \in DOMAIN Raw(a \o m \o b) <=> n \in DOMAIN Raw(a \o s \o b)
    BY <2>1, <2>2, <2>3, Zenon
  <2>6. CASE n \in DOMAIN Raw(b)
    <3>1. Raw(a \o m \o b)[n] = Raw(a \o s \o b)[n]
      BY <2>1, <2>6, Zenon
    <3> QED BY <2>4, <2>5, <3>1, Zenon
  <2>7. CASE n \notin DOMAIN Raw(b) /\ n \in DOMAIN Raw(m)
    <3>1. Raw(a \o m \o b)[n] = Raw(m)[n] /\ Raw(a \o s \o b)[n] = Raw(s)[n]
      BY <2>1, <2>2, <2>3, <2>7, Zenon
    <3> QED BY <2>3, <2>5, <2>7, <3>1, Zenon
  <2>8. CASE n \notin DOMAIN Raw(b) /\ n \notin DOMAIN Raw(m) /\ n \in DOMAIN Raw(a)
    <3>1. Raw(a \o m \o b)[n] = Raw(a)[n] /\ Raw(a \o s \o b)[n] = Raw(a)[n]
      BY <2>1, <2>2, <2>3, <2>8, Zenon
    <3> QED BY <2>4, <2>5, <3>1, Zenon
  <2>9. CASE n \notin DOMAIN Raw(b) /\ n \notin DOMAIN Raw(m) /\ n \notin DOMAIN Raw(a)
    BY <2>1, <2>2, <2>5, <2>9, Zenon
  <2> QED BY <2>5, <2>6, <2>7, <2>8, <2>9, Zenon
<1> QED BY <1>2, Zenon DEF MeansTheSame

\* A query is what comes before a pair, the pair, and what comes after.
LEMMA Split ==
  ASSUME NEW T, NEW q \in Seq(T), NEW i \in DOMAIN q
  PROVE  LET a == SubSeq(q, 1, i - 1)
             b == SubSeq(q, i + 1, Len(q))
         IN /\ a \in Seq(T) /\ b \in Seq(T) /\ <<q[i]>> \in Seq(T)
            /\ q = a \o <<q[i]>> \o b
            /\ \A j \in DOMAIN q : j > i => \E k \in DOMAIN b : b[k] = q[j]
<1> DEFINE a == SubSeq(q, 1, i - 1)
           b == SubSeq(q, i + 1, Len(q))
           x == <<q[i]>>
<1>1. /\ DOMAIN q = 1..Len(q) /\ Len(q) \in Nat /\ i \in 1..Len(q)
      /\ \A j \in 1..Len(q) : q[j] \in T
  BY LenProperties, ElementOfSeq
<1>2. a \in Seq(T)
  <2>1. 1 \in Int /\ i - 1 \in Int /\ \A j \in 1..(i - 1) : q[j] \in T
    BY <1>1
  <2> QED BY <2>1, SubSeqProperties
<1>3. /\ b \in Seq(T) /\ Len(b) = Len(q) - i
      /\ \A k \in 1..(Len(q) - i) : b[k] = q[i + k]
  <2>1. /\ i + 1 \in Int /\ Len(q) \in Int
        /\ \A j \in (i + 1)..Len(q) : q[j] \in T
    BY <1>1
  <2>2. /\ b \in Seq(T)
        /\ Len(b) = IF i + 1 <= Len(q) THEN Len(q) - (i + 1) + 1 ELSE 0
        /\ \A k \in 1..(Len(q) - (i + 1) + 1) : b[k] = q[i + 1 + k - 1]
    BY <2>1, SubSeqProperties
  <2>3. /\ Len(q) - (i + 1) + 1 = Len(q) - i
        /\ i + 1 <= Len(q) \/ Len(q) - i = 0
        /\ \A k \in 1..(Len(q) - i) : i + 1 + k - 1 = i + k
    BY <1>1
  <2> HIDE DEF b
  <2> QED BY <2>2, <2>3
<1>4. x \in Seq(T)
  BY <1>1
<1>5. a \o (x \o b) = q
  <2>1. SubSeq(q, i, Len(q)) = x \o b
    <3>1. Len(q) \in i..Len(q)
      BY <1>1
    <3> QED BY <1>1, <3>1, SubSeqRecursiveFirst
  <2>2. SubSeq(q, 1, i - 1) \o SubSeq(q, (i - 1) + 1, Len(q)) = SubSeq(q, 1, Len(q))
    <3>1. 1 \in 1..(Len(q) + 1) /\ i - 1 \in (1 - 1)..Len(q) /\ Len(q) \in (i - 1)..Len(q)
      BY <1>1
    <3> QED BY <3>1, ConcatAdjacentSubSeq
  <2>3. (i - 1) + 1 = i
    BY <1>1
  <2>4. SubSeq(q, 1, Len(q)) = q
    BY SubSeqFull
  <2> QED BY <2>1, <2>2, <2>3, <2>4
<1>6. q = a \o x \o b
  <2> HIDE DEF a, b, x
  <2>1. a \in Seq(T) /\ x \in Seq(T) /\ b \in Seq(T)
    BY <1>2, <1>3, <1>4, Zenon
  <2>2. (a \o x) \o b = a \o (x \o b)
    BY ONLY <2>1, ConcatAssociative
  <2> QED BY <1>5, <2>2, Zenon
<1>7. ASSUME NEW j \in DOMAIN q, j > i PROVE \E k \in DOMAIN b : b[k] = q[j]
  <2> HIDE DEF b
  <2>1. j - i \in 1..(Len(q) - i) /\ i + (j - i) = j
    BY <1>1, <1>7
  <2>2. DOMAIN b = 1..(Len(q) - i)
    BY <1>3, LenProperties
  <2> QED BY <1>3, <2>1, <2>2
<1> QED BY <1>2, <1>3, <1>4, <1>6, <1>7

\* A pair may be replaced by pairs that say the same.
LEMMA Replacing ==
  ASSUME NEW T, NEW q \in Seq(T), NEW i \in DOMAIN q, NEW s \in Seq(T), NEW ctx,
         PairsAccepted(<<q[i]>>, ctx) <=> PairsAccepted(s, ctx),
         PairsAccepted(s, ctx) => MeansTheSame(<<q[i]>>, s)
  PROVE  Identity(SubSeq(q, 1, i - 1) \o s \o SubSeq(q, i + 1, Len(q)), ctx)
           = Identity(q, ctx)
<1> DEFINE a == SubSeq(q, 1, i - 1)
           b == SubSeq(q, i + 1, Len(q))
           x == <<q[i]>>
<1>1. a \in Seq(T) /\ b \in Seq(T) /\ x \in Seq(T) /\ q = a \o x \o b
  BY Split
<1>2. /\ PairsAccepted(x, ctx) <=> PairsAccepted(s, ctx)
      /\ PairsAccepted(s, ctx) => MeansTheSame(x, s)
  OBVIOUS
<1> HIDE DEF a, b, x
<1>3. a \o x \in Seq(T) /\ a \o s \in Seq(T)
  BY <1>1, ConcatProperties
<1>4. \A m \in Seq(T) :
        a \o m \in Seq(T) =>
          (PairsAccepted(a \o m \o b, ctx) <=>
             /\ PairsAccepted(a, ctx) /\ PairsAccepted(m, ctx)
             /\ PairsAccepted(b, ctx))
  <2> TAKE m \in Seq(T)
  <2>1. PairsAccepted(a \o m, ctx) <=> PairsAccepted(a, ctx) /\ PairsAccepted(m, ctx)
    BY <1>1, PairsOfBoth
  <2> DEFINE am == a \o m
  <2>2. am \in Seq(T) =>
          (PairsAccepted(am \o b, ctx) <=> PairsAccepted(am, ctx) /\ PairsAccepted(b, ctx))
    <3> HIDE DEF am
    <3> QED BY <1>1, PairsOfBoth
  <2> QED BY <2>1, <2>2
<1>5. PairsAccepted(q, ctx) <=> PairsAccepted(a \o s \o b, ctx)
  BY <1>1, <1>3, <1>4, <1>2
<1>6. PairsAccepted(q, ctx) => PairsAccepted(s, ctx)
  BY <1>1, <1>3, <1>4, <1>2
<1>7. ASSUME PairsAccepted(q, ctx) PROVE SameRequest(Raw(q), Raw(a \o s \o b), ctx)
  <2>1. MeansTheSame(x, s)
    BY <1>6, <1>7, <1>2
  <2>2. MeansTheSame(q, a \o s \o b)
    BY <1>1, <2>1, MeansInContext
  <2> QED BY <2>2, MeansSameRequest
<1>8. Identity(q, ctx) = Identity(a \o s \o b, ctx)
  BY <1>5, <1>7, SameIdentity
<1> QED BY <1>8 DEF a, b

-----------------------------------------------------------------------------
\* Two sequences of one element each.
LEMMA OneAfterOne == \A u, v : <<u>> \o <<v>> = <<u, v>>
<1> TAKE u, v
<1>1. <<u>> \in Seq({u, v}) /\ <<v>> \in Seq({u, v}) /\ <<u, v>> \in Seq({u, v})
  OBVIOUS
<1>2. /\ Len(<<u>>) = 1 /\ Len(<<v>>) = 1 /\ Len(<<u, v>>) = 2
      /\ <<u>>[1] = u /\ <<v>>[1] = v /\ <<u, v>>[1] = u /\ <<u, v>>[2] = v
  OBVIOUS
<1> DEFINE a == <<u>>
           b == <<v>>
           c == <<u, v>>
<1> HIDE DEF a, b, c
<1>3. /\ a \o b \in Seq({u, v}) /\ Len(a \o b) = Len(a) + Len(b)
      /\ \A i \in 1..(Len(a) + Len(b)) :
           (a \o b)[i] = IF i <= Len(a) THEN a[i] ELSE b[i - Len(a)]
  BY <1>1, ConcatProperties DEF a, b
<1>4. /\ Len(a) = 1 /\ Len(b) = 1 /\ Len(c) = 2 /\ c \in Seq({u, v})
      /\ a[1] = u /\ b[1] = v /\ c[1] = u /\ c[2] = v
  BY <1>1, <1>2 DEF a, b, c
<1> DEFINE d == a \o b
<1>5. d \in Seq({u, v}) /\ Len(d) = 2 /\ d[1] = u /\ d[2] = v
  BY <1>3, <1>4
<1> HIDE DEF d
<1>6. \A i \in 1..2 : d[i] = c[i]
  BY <1>4, <1>5
<1>7. d = c
  BY <1>4, <1>5, <1>6, SeqEqual
<1> QED BY <1>7 DEF a, b, c, d

\* What one pair says.
LEMMA RawOfOne ==
  ASSUME NEW x, NEW n
  PROVE  /\ n \in DOMAIN Raw(<<x>>) <=>
              n \in CANONICAL_PARAMS /\ Decodes(x) /\ n \in DOMAIN Gives(x)
         /\ n \in DOMAIN Raw(<<x>>) => Raw(<<x>>)[n].value = Gives(x)[n]
<1>1. /\ <<x>> \in Seq({x}) /\ DOMAIN <<x>> = {1} /\ <<x>>[1] = x
  OBVIOUS
<1>2. Givers(<<x>>, n) = {i \in {1} : Decodes(x) /\ n \in DOMAIN Gives(x)}
  BY <1>1 DEF Givers
<1> DEFINE q == <<x>>
<1>3. q \in Seq({x}) /\ q[1] = x
  BY <1>1
<1>4. Givers(q, n) = {i \in {1} : Decodes(x) /\ n \in DOMAIN Gives(x)}
  BY <1>2
<1> HIDE DEF q
<1>5. /\ n \in DOMAIN Raw(q) <=> n \in CANONICAL_PARAMS /\ Givers(q, n) # {}
      /\ n \in DOMAIN Raw(q) => Raw(q)[n] = GivenBy(q[Max(Givers(q, n))], n)
      /\ Givers(q, n) # {} => Max(Givers(q, n)) \in Givers(q, n)
  BY <1>3, Decider
<1>6. n \in DOMAIN Raw(q) <=>
        n \in CANONICAL_PARAMS /\ Decodes(x) /\ n \in DOMAIN Gives(x)
  BY <1>4, <1>5
<1>7. ASSUME n \in DOMAIN Raw(q) PROVE Raw(q)[n].value = Gives(x)[n]
  <2>1. Max(Givers(q, n)) \in Givers(q, n)
    BY <1>5, <1>7
  <2>2. Max(Givers(q, n)) = 1
    BY <1>4, <2>1
  <2>3. Raw(q)[n] = GivenBy(x, n)
    BY <1>3, <1>5, <1>7, <2>2
  <2> QED BY <2>3 DEF GivenBy
<1> QED BY <1>6, <1>7 DEF q

LEMMA OnePair ==
  ASSUME NEW x, NEW ctx
  PROVE  PairsAccepted(<<x>>, ctx) <=> PairOk(x, ctx)
<1>1. DOMAIN <<x>> = {1} /\ <<x>>[1] = x
  OBVIOUS
<1>2. (\A i \in DOMAIN <<x>> : PairOk(<<x>>[i], ctx)) <=> PairOk(x, ctx)
  BY <1>1
<1> QED BY <1>2, PairByPair

\* Pairs that give the same say the same.
LEMMA SameGives ==
  ASSUME NEW x, NEW y, Decodes(x) <=> Decodes(y), DOMAIN Gives(x) = DOMAIN Gives(y),
         \A n \in DOMAIN Gives(x) : Alike(n, Gives(x)[n], Gives(y)[n])
  PROVE  MeansTheSame(<<x>>, <<y>>)
<1>1. ASSUME NEW n \in CANONICAL_PARAMS
      PROVE  /\ n \in DOMAIN Raw(<<x>>) <=> n \in DOMAIN Raw(<<y>>)
             /\ n \in DOMAIN Raw(<<x>>) =>
                  Alike(n, Raw(<<x>>)[n].value, Raw(<<y>>)[n].value)
  <2>1. n \in DOMAIN Raw(<<x>>) <=> n \in DOMAIN Raw(<<y>>)
    BY RawOfOne
  <2>2. ASSUME n \in DOMAIN Raw(<<x>>)
        PROVE  Alike(n, Raw(<<x>>)[n].value, Raw(<<y>>)[n].value)
    <3>1. /\ Raw(<<x>>)[n].value = Gives(x)[n] /\ Raw(<<y>>)[n].value = Gives(y)[n]
          /\ n \in DOMAIN Gives(x)
      BY <2>1, <2>2, RawOfOne
    <3> QED BY <3>1
  <2> QED BY <2>1, <2>2
<1> QED BY <1>1 DEF MeansTheSame

\* The names of the alias tables.
LEMMA NamesAreApart ==
  /\ \A n \in CANONICAL_PARAMS : n \notin DOMAIN NAME_ALIASES
  /\ \A n \in CANONICAL_PARAMS \cup DOMAIN NAME_ALIASES :
       n \notin DOMAIN COMPATIBILITY_KEYS
  /\ \A n \in DOMAIN NAME_ALIASES : NAME_ALIASES[n] \in CANONICAL_PARAMS
  /\ "%" \notin KNOWN_NAMES
  /\ \A m \in NameSynonyms :
       m[1] \in DOMAIN NAME_ALIASES /\ NAME_ALIASES[m[1]] = m[2]
BY DEF CANONICAL_PARAMS, DELIVERY, NAME_ALIASES, COMPATIBILITY_KEYS, KNOWN_NAMES,
       NameSynonyms

\* What a pair gives that a compatibility key or a parameter names.
LEMMA GivesOf ==
  ASSUME NEW x
  PROVE  /\ x.key \in DOMAIN COMPATIBILITY_KEYS /\ Mapped(x) =>
              Gives(x) = COMPATIBILITY_KEYS[x.key][x.value.word]
         /\ x.key \in CANONICAL_PARAMS =>
              Gives(x) = [n \in {x.key} |-> x.value]
<1>1. ASSUME x.key \in DOMAIN COMPATIBILITY_KEYS, Mapped(x)
      PROVE  Gives(x) = COMPATIBILITY_KEYS[x.key][x.value.word]
  <2>1. x.key \notin CANONICAL_PARAMS /\ x.key \notin DOMAIN NAME_ALIASES
    BY <1>1, NamesAreApart
  <2> QED BY <1>1, <2>1, Zenon DEF Gives
<1>2. ASSUME x.key \in CANONICAL_PARAMS
      PROVE  Gives(x) = [n \in {x.key} |-> x.value]
  <2>1. x.key \notin DOMAIN COMPATIBILITY_KEYS /\ x.key \notin DOMAIN NAME_ALIASES
    BY <1>2, NamesAreApart
  <2> QED BY <1>2, <2>1, Zenon DEF Gives
<1> QED BY <1>1, <1>2

\* A pair gives something only if it can be.
LEMMA GivesSomething ==
  ASSUME NEW x, DOMAIN Gives(x) # {}
  PROVE  /\ x.key \in KNOWN_NAMES
         /\ x.key \in DOMAIN COMPATIBILITY_KEYS => Mapped(x)
<1>1. DOMAIN <<>> = {}
  OBVIOUS
<1>2. CASE x.key \notin KNOWN_NAMES
  <2>1. Gives(x) = <<>>
    BY <1>2, Zenon DEF Gives, KNOWN_NAMES
  <2> QED BY <1>1, <2>1
<1>3. CASE x.key \in DOMAIN COMPATIBILITY_KEYS /\ ~Mapped(x)
  <2>1. x.key \notin CANONICAL_PARAMS /\ x.key \notin DOMAIN NAME_ALIASES
    BY <1>3, NamesAreApart
  <2>2. Gives(x) = <<>>
    BY <1>3, <2>1, Zenon DEF Gives
  <2> QED BY <1>1, <2>2
<1> QED BY <1>2, <1>3

\* A name for its alias.
LEMMA Renaming ==
  ASSUME NEW K, NEW V, NEW x \in [key : K, value : V], NEW m \in NameSynonyms,
         m[1] = x.key, NEW ctx
  PROVE  LET y == [x EXCEPT !.key = m[2]]
         IN /\ PairOk(x, ctx) <=> PairOk(y, ctx)
            /\ MeansTheSame(<<x>>, <<y>>)
<1> DEFINE y == [x EXCEPT !.key = m[2]]
<1>1. /\ y.key = m[2] /\ y.value = x.value
  OBVIOUS
<1> HIDE DEF y
<1>2. /\ x.key \in DOMAIN NAME_ALIASES /\ NAME_ALIASES[x.key] = y.key
      /\ y.key \in CANONICAL_PARAMS
      /\ y.key \notin DOMAIN NAME_ALIASES /\ x.key \notin CANONICAL_PARAMS
      /\ x.key \notin DOMAIN COMPATIBILITY_KEYS /\ y.key \notin DOMAIN COMPATIBILITY_KEYS
  BY <1>1, NamesAreApart
<1>3. /\ x.key \in KNOWN_NAMES /\ y.key \in KNOWN_NAMES
      /\ x.key # "%" /\ y.key # "%"
  BY <1>2, NamesAreApart DEF KNOWN_NAMES
<1>4. Decodes(x) <=> Decodes(y)
  BY <1>1, <1>3 DEF Decodes
<1>5. PairOk(x, ctx) <=> PairOk(y, ctx)
  BY <1>1, <1>2, <1>3 DEF PairOk
<1>6. Gives(x) = [n \in {y.key} |-> x.value] /\ Gives(y) = [n \in {y.key} |-> x.value]
  BY <1>1, <1>2, Zenon DEF Gives
<1>7. \A n, v : Alike(n, v, v)
  BY DEF Alike
<1>8. MeansTheSame(<<x>>, <<y>>)
  BY <1>4, <1>6, <1>7, SameGives
<1> QED BY <1>5, <1>8 DEF y

\* A word for its alias, under the same or another name.
LEMMA Rewording ==
  ASSUME NEW t \in ValueSynonyms, NEW ctx
  PROVE  /\ \E T : t[2] \in Seq(T)
         /\ PairsAccepted(<<t[1]>>, ctx) <=> PairsAccepted(t[2], ctx)
         /\ MeansTheSame(<<t[1]>>, t[2])
<1> DEFINE pair(k, v) == [key |-> k, value |-> Word(v)]
<1>1. \A k, v : pair(k, v).key = k /\ pair(k, v).value = Word(v)
  OBVIOUS
<1>2. \A v : Word(v).kind = "word" /\ Word(v).word = v
  BY DEF Word, Val
<1>3. \A k, v : k # "%" => Decodes(pair(k, v))
  BY <1>1, <1>2 DEF Decodes
<1>4. \A v, words : IsWord(Word(v), words) <=> v \in words
  BY <1>2 DEF IsWord
<1> HIDE DEF pair
<1>5. \A k \in CANONICAL_PARAMS : \A v :
        Gives(pair(k, v)) = [n \in {k} |-> Word(v)] /\ PairOk(pair(k, v), ctx)
  <2> TAKE k \in CANONICAL_PARAMS
  <2> TAKE v
  <2>1. k \notin DOMAIN COMPATIBILITY_KEYS /\ k \in KNOWN_NAMES
    BY NamesAreApart DEF KNOWN_NAMES
  <2>2. Gives(pair(k, v)) = [n \in {k} |-> Word(v)]
    BY <1>1, <2>1, GivesOf
  <2>3. PairOk(pair(k, v), ctx)
    BY <1>1, <1>2, <2>1 DEF PairOk
  <2> QED BY <2>2, <2>3
<1>6. \A k \in DOMAIN COMPATIBILITY_KEYS : \A v \in DOMAIN COMPATIBILITY_KEYS[k] :
        Gives(pair(k, v)) = COMPATIBILITY_KEYS[k][v] /\ PairOk(pair(k, v), ctx)
  <2> TAKE k \in DOMAIN COMPATIBILITY_KEYS
  <2> TAKE v \in DOMAIN COMPATIBILITY_KEYS[k]
  <2>1. k \in KNOWN_NAMES
    BY DEF KNOWN_NAMES
  <2>2. Mapped(pair(k, v))
    BY <1>1, <1>4 DEF Mapped
  <2>3. Gives(pair(k, v)) = COMPATIBILITY_KEYS[k][v]
    <3>1. pair(k, v).key = k /\ pair(k, v).value.word = v
      BY <1>1, <1>2
    <3>2. Gives(pair(k, v)) =
            COMPATIBILITY_KEYS[pair(k, v).key][pair(k, v).value.word]
      <4>1. pair(k, v).key \in DOMAIN COMPATIBILITY_KEYS
        BY <3>1
      <4> QED BY <2>2, <4>1, GivesOf
    <3> QED BY <3>1, <3>2
  <2>4. PairOk(pair(k, v), ctx)
    BY <1>1, <1>2, <2>1, <2>2 DEF PairOk
  <2> QED BY <2>3, <2>4
<1>7. ASSUME NEW k, NEW v, NEW l \in CANONICAL_PARAMS, NEW u,
             t = <<pair(k, v), <<pair(l, u)>>>>, k # "%",
             PairOk(pair(k, v), ctx), DOMAIN Gives(pair(k, v)) = {l},
             Alike(l, Gives(pair(k, v))[l], Word(u))
      PROVE  /\ \E T : t[2] \in Seq(T)
             /\ PairsAccepted(<<t[1]>>, ctx) <=> PairsAccepted(t[2], ctx)
             /\ MeansTheSame(<<t[1]>>, t[2])
  <2>1. t[1] = pair(k, v) /\ t[2] = <<pair(l, u)>>
    BY <1>7
  <2>2. l # "%"
    BY NamesAreApart DEF KNOWN_NAMES
  <2>3. Gives(pair(l, u)) = [n \in {l} |-> Word(u)] /\ PairOk(pair(l, u), ctx)
    BY <1>5
  <2>4. MeansTheSame(<<pair(k, v)>>, <<pair(l, u)>>)
    BY <1>3, <1>7, <2>2, <2>3, SameGives
  <2>5. PairsAccepted(<<pair(k, v)>>, ctx) /\ PairsAccepted(<<pair(l, u)>>, ctx)
    BY <1>7, <2>3, OnePair
  <2>6. \A y : <<y>> \in Seq({y})
    OBVIOUS
  <2> QED BY <2>1, <2>4, <2>5, <2>6
<1>8. \A n, v : Alike(n, v, v)
  BY DEF Alike
<1>9. \A n \in {"fit", "f", "q", "g", "bg"} : n \in CANONICAL_PARAMS /\ n # "%"
  BY DEF CANONICAL_PARAMS
<1>10. /\ "c" # "%" /\ "auto" # "%"
       /\ "c" \in DOMAIN COMPATIBILITY_KEYS /\ "auto" \in DOMAIN COMPATIBILITY_KEYS
       /\ DOMAIN COMPATIBILITY_KEYS["c"] = {"fill", "fit", "scale", "pad"}
       /\ COMPATIBILITY_KEYS["c"]["fill"] = [fit |-> Word("cover")]
       /\ COMPATIBILITY_KEYS["c"]["fit"] = [fit |-> Word("inside")]
       /\ COMPATIBILITY_KEYS["c"]["scale"] = [fit |-> Word("fill")]
       /\ COMPATIBILITY_KEYS["c"]["pad"] = [fit |-> Word("contain")]
  BY DEF COMPATIBILITY_KEYS
<1>11. /\ \A v \in {"format", "compress", "format,compress"} :
            v \in DOMAIN COMPATIBILITY_KEYS["auto"]
       /\ COMPATIBILITY_KEYS["auto"]["format"] = [f |-> Word("auto")]
       /\ COMPATIBILITY_KEYS["auto"]["compress"] = [q |-> Word("auto")]
       /\ COMPATIBILITY_KEYS["auto"]["format,compress"] =
            [f |-> Word("auto"), q |-> Word("auto")]
  BY DEF COMPATIBILITY_KEYS
<1>12. \/ \E s \in {<<"fill", "cover">>, <<"fit", "inside">>, <<"scale", "fill">>,
                     <<"pad", "contain">>} :
             t = <<pair("c", s[1]), <<pair("fit", s[2])>>>>
       \/ \E s \in {<<"format", "f">>, <<"compress", "q">>} :
             t = <<pair("auto", s[1]), <<pair(s[2], "auto")>>>>
       \/ t = <<pair("auto", "format,compress"), <<pair("f", "auto"), pair("q", "auto")>>>>
       \/ \E s \in {<<"crop", "cover">>, <<"clip", "inside">>, <<"squeeze", "fill">>,
                     <<"pad", "contain">>} :
             t = <<pair("fit", s[1]), <<pair("fit", s[2])>>>>
       \/ t = <<pair("g", "faces"), <<pair("g", "face")>>>>
       \/ \E s \in {<<"grey", "gray">>, <<"aqua", "cyan">>} :
             t = <<pair("bg", s[1]), <<pair("bg", s[2])>>>>
  BY DEF ValueSynonyms, pair
<1>13. ASSUME NEW s \in {<<"fill", "cover">>, <<"fit", "inside">>, <<"scale", "fill">>,
                         <<"pad", "contain">>},
              t = <<pair("c", s[1]), <<pair("fit", s[2])>>>>
       PROVE  /\ \E T : t[2] \in Seq(T)
              /\ PairsAccepted(<<t[1]>>, ctx) <=> PairsAccepted(t[2], ctx)
              /\ MeansTheSame(<<t[1]>>, t[2])
  <2>1. /\ s[1] \in DOMAIN COMPATIBILITY_KEYS["c"]
        /\ COMPATIBILITY_KEYS["c"][s[1]] = [fit |-> Word(s[2])]
    BY <1>10
  <2>2. /\ Gives(pair("c", s[1])) = [fit |-> Word(s[2])]
        /\ PairOk(pair("c", s[1]), ctx)
    BY <1>6, <1>10, <2>1
  <2>3. /\ DOMAIN Gives(pair("c", s[1])) = {"fit"}
        /\ Gives(pair("c", s[1]))["fit"] = Word(s[2])
    BY <2>2
  <2> QED BY <1>7, <1>8, <1>9, <1>10, <1>13, <2>2, <2>3
<1>14. ASSUME NEW s \in {<<"format", "f">>, <<"compress", "q">>},
              t = <<pair("auto", s[1]), <<pair(s[2], "auto")>>>>
       PROVE  /\ \E T : t[2] \in Seq(T)
              /\ PairsAccepted(<<t[1]>>, ctx) <=> PairsAccepted(t[2], ctx)
              /\ MeansTheSame(<<t[1]>>, t[2])
  <2>1. /\ s[1] \in DOMAIN COMPATIBILITY_KEYS["auto"] /\ s[2] \in {"f", "q"}
        /\ DOMAIN COMPATIBILITY_KEYS["auto"][s[1]] = {s[2]}
        /\ COMPATIBILITY_KEYS["auto"][s[1]][s[2]] = Word("auto")
    <3> DEFINE auto == COMPATIBILITY_KEYS["auto"]
    <3>1. /\ auto["format"] = [f |-> Word("auto")]
          /\ auto["compress"] = [q |-> Word("auto")]
          /\ "format" \in DOMAIN auto /\ "compress" \in DOMAIN auto
      BY <1>11
    <3> HIDE DEF auto
    <3>2. /\ DOMAIN auto["format"] = {"f"} /\ auto["format"]["f"] = Word("auto")
          /\ DOMAIN auto["compress"] = {"q"} /\ auto["compress"]["q"] = Word("auto")
      BY <3>1
    <3>3. \/ s[1] = "format" /\ s[2] = "f"
          \/ s[1] = "compress" /\ s[2] = "q"
      BY <1>14
    <3>4. /\ s[1] \in DOMAIN auto /\ s[2] \in {"f", "q"}
          /\ DOMAIN auto[s[1]] = {s[2]} /\ auto[s[1]][s[2]] = Word("auto")
      BY <3>1, <3>2, <3>3
    <3> QED BY <3>4 DEF auto
  <2>2. /\ Gives(pair("auto", s[1])) = COMPATIBILITY_KEYS["auto"][s[1]]
        /\ PairOk(pair("auto", s[1]), ctx)
    BY <1>6, <1>10, <2>1
  <2>3. Alike(s[2], Gives(pair("auto", s[1]))[s[2]], Word("auto"))
    BY <1>8, <2>1, <2>2
  <2> QED BY <1>7, <1>9, <1>10, <1>14, <2>1, <2>2, <2>3
<1>15. ASSUME t = <<pair("auto", "format,compress"),
                    <<pair("f", "auto"), pair("q", "auto")>>>>
       PROVE  /\ \E T : t[2] \in Seq(T)
              /\ PairsAccepted(<<t[1]>>, ctx) <=> PairsAccepted(t[2], ctx)
              /\ MeansTheSame(<<t[1]>>, t[2])
  <2> DEFINE x == pair("auto", "format,compress")
             y == pair("f", "auto")
             z == pair("q", "auto")
  <2>1. t[1] = x /\ t[2] = <<y>> \o <<z>>
    <3>1. \A u, v : <<u>> \o <<v>> = <<u, v>>
      BY OneAfterOne
    <3>2. t[1] = x /\ t[2] = <<y, z>>
      BY <1>15
    <3> QED BY <3>1, <3>2
  <2>2. /\ Gives(x) = [f |-> Word("auto"), q |-> Word("auto")] /\ PairOk(x, ctx)
        /\ Gives(y) = [n \in {"f"} |-> Word("auto")] /\ PairOk(y, ctx)
        /\ Gives(z) = [n \in {"q"} |-> Word("auto")] /\ PairOk(z, ctx)
        /\ Decodes(x) /\ Decodes(y) /\ Decodes(z)
    <3>1. Gives(x) = [f |-> Word("auto"), q |-> Word("auto")] /\ PairOk(x, ctx)
      <4>1. /\ Gives(x) = COMPATIBILITY_KEYS["auto"]["format,compress"]
            /\ PairOk(x, ctx)
        BY <1>6, <1>10, <1>11
      <4> QED BY <1>11, <4>1
    <3>2. /\ Gives(y) = [n \in {"f"} |-> Word("auto")] /\ PairOk(y, ctx)
          /\ Gives(z) = [n \in {"q"} |-> Word("auto")] /\ PairOk(z, ctx)
      BY <1>5, <1>9
    <3>3. Decodes(x) /\ Decodes(y) /\ Decodes(z)
      BY <1>3, <1>9, <1>10
    <3> QED BY <3>1, <3>2, <3>3
  <2> HIDE DEF x, y, z
  <2>3. <<y>> \in Seq({y, z}) /\ <<z>> \in Seq({y, z})
    OBVIOUS
  <2>4. PairsAccepted(<<x>>, ctx) /\ PairsAccepted(<<y>> \o <<z>>, ctx)
    BY <2>2, <2>3, OnePair, PairsOfBoth
  <2>5. /\ DOMAIN Gives(x) = {"f", "q"} /\ Gives(x)["f"] = Word("auto")
        /\ Gives(x)["q"] = Word("auto")
        /\ DOMAIN Gives(y) = {"f"} /\ Gives(y)["f"] = Word("auto")
        /\ DOMAIN Gives(z) = {"q"} /\ Gives(z)["q"] = Word("auto")
    BY <2>2
  <2>6. ASSUME NEW n \in CANONICAL_PARAMS
        PROVE  /\ n \in DOMAIN Raw(<<x>>) <=> n \in DOMAIN Raw(<<y>> \o <<z>>)
               /\ n \in DOMAIN Raw(<<x>>) =>
                    Raw(<<x>>)[n].value = Raw(<<y>> \o <<z>>)[n].value
    <3>1. /\ n \in DOMAIN Raw(<<x>>) <=> n \in {"f", "q"}
          /\ n \in DOMAIN Raw(<<x>>) => Raw(<<x>>)[n].value = Word("auto")
      BY <2>2, <2>5, RawOfOne
    <3>2. /\ n \in DOMAIN Raw(<<y>>) <=> n = "f"
          /\ n \in DOMAIN Raw(<<y>>) => Raw(<<y>>)[n].value = Word("auto")
      BY <2>2, <2>5, RawOfOne
    <3>3. /\ n \in DOMAIN Raw(<<z>>) <=> n = "q"
          /\ n \in DOMAIN Raw(<<z>>) => Raw(<<z>>)[n].value = Word("auto")
      BY <2>2, <2>5, RawOfOne
    <3>4. /\ n \in DOMAIN Raw(<<y>> \o <<z>>) <=>
               n \in DOMAIN Raw(<<y>>) \/ n \in DOMAIN Raw(<<z>>)
          /\ n \in DOMAIN Raw(<<z>>) => Raw(<<y>> \o <<z>>)[n] = Raw(<<z>>)[n]
          /\ n \in DOMAIN Raw(<<y>>) /\ n \notin DOMAIN Raw(<<z>>) =>
               Raw(<<y>> \o <<z>>)[n] = Raw(<<y>>)[n]
      BY <2>3, RawOfBoth
    <3> QED BY <3>1, <3>2, <3>3, <3>4
  <2>7. MeansTheSame(<<x>>, <<y>> \o <<z>>)
    BY <1>8, <2>6, Zenon DEF MeansTheSame
  <2>8. <<y>> \o <<z>> \in Seq({y, z})
    BY <2>3, ConcatProperties
  <2> QED BY <2>1, <2>4, <2>7, <2>8
<1>16. ASSUME NEW k \in {"fit", "g", "bg"}, NEW v, NEW u,
              t = <<pair(k, v), <<pair(k, u)>>>>, Alike(k, Word(v), Word(u))
       PROVE  /\ \E T : t[2] \in Seq(T)
              /\ PairsAccepted(<<t[1]>>, ctx) <=> PairsAccepted(t[2], ctx)
              /\ MeansTheSame(<<t[1]>>, t[2])
  <2>1. k \in CANONICAL_PARAMS /\ k # "%"
    BY <1>9
  <2>2. Gives(pair(k, v)) = [n \in {k} |-> Word(v)] /\ PairOk(pair(k, v), ctx)
    BY <1>5, <2>1
  <2>3. DOMAIN Gives(pair(k, v)) = {k} /\ Gives(pair(k, v))[k] = Word(v)
    BY <2>2
  <2> QED BY <1>7, <1>16, <2>1, <2>2, <2>3
<1>17. \A s \in {<<"crop", "cover">>, <<"clip", "inside">>, <<"squeeze", "fill">>,
                 <<"pad", "contain">>} : Alike("fit", Word(s[1]), Word(s[2]))
  <2>1. \A s \in {<<"crop", "cover">>, <<"clip", "inside">>, <<"squeeze", "fill">>,
                  <<"pad", "contain">>} :
          /\ s[1] \in DOMAIN FIT_VALUE_ALIASES /\ FIT_VALUE_ALIASES[s[1]] = s[2]
          /\ s[2] \in FIT_VALUES /\ s[2] \notin DOMAIN FIT_VALUE_ALIASES
    BY DEF FIT_VALUE_ALIASES, FIT_VALUES
  <2> QED BY <1>2, <1>4, <2>1 DEF Alike, FitOf
<1>18. Alike("g", Word("faces"), Word("face"))
  BY <1>4 DEF Alike
<1>19. \A s \in {<<"grey", "gray">>, <<"aqua", "cyan">>} :
         Alike("bg", Word(s[1]), Word(s[2]))
  <2>1. /\ \A c \in {"grey", "gray", "aqua", "cyan"} : c \in DOMAIN CSS_NAMED_COLORS
        /\ CSS_NAMED_COLORS["grey"] = CSS_NAMED_COLORS["gray"]
        /\ CSS_NAMED_COLORS["aqua"] = CSS_NAMED_COLORS["cyan"]
    BY DEF CSS_NAMED_COLORS
  <2>2. \A c : ColorOf(Word(c)) = CSS_NAMED_COLORS[c]
    BY <1>2 DEF ColorOf
  <2> QED BY <1>4, <2>1, <2>2 DEF Alike
<1> QED BY <1>12, <1>13, <1>14, <1>15, <1>16, <1>17, <1>18, <1>19

-----------------------------------------------------------------------------
\* The pairs of a query.
Pairs == [key : STRING, value : [kind : STRING, word : STRING, nums : Seq(Nat)]]

\* The other spellings of a pair.
LEMMA Respelling ==
  ASSUME NEW q \in Seq(Pairs), NEW i \in DOMAIN q, NEW s \in Respellings(q[i]), NEW ctx
  PROVE  Identity(SubSeq(q, 1, i - 1) \o s \o SubSeq(q, i + 1, Len(q)), ctx)
           = Identity(q, ctx)
<1>1. q[i] \in [key : STRING,
                 value : [kind : STRING, word : STRING, nums : Seq(Nat)]]
  <2>1. i \in 1..Len(q)
    BY LenProperties
  <2>2. q[i] \in Pairs
    BY <2>1, ElementOfSeq
  <2> QED BY <2>2 DEF Pairs
<1>2. /\ \E T : s \in Seq(T)
      /\ PairsAccepted(<<q[i]>>, ctx) <=> PairsAccepted(s, ctx)
      /\ MeansTheSame(<<q[i]>>, s)
  <2>1. CASE \E m \in NameSynonyms : m[1] = q[i].key /\ s = <<[q[i] EXCEPT !.key = m[2]]>>
    <3>1. PICK m \in NameSynonyms :
                 m[1] = q[i].key /\ s = <<[q[i] EXCEPT !.key = m[2]]>>
      BY <2>1
    <3> DEFINE x == q[i]
               y == [x EXCEPT !.key = m[2]]
    <3>2. /\ x \in [key : STRING,
                    value : [kind : STRING, word : STRING, nums : Seq(Nat)]]
          /\ m[1] = x.key /\ s = <<y>>
      BY <1>1, <3>1
    <3> HIDE DEF x
    <3>3. (PairOk(x, ctx) <=> PairOk(y, ctx)) /\ MeansTheSame(<<x>>, <<y>>)
      BY <3>2, Renaming
    <3> HIDE DEF y
    <3>4. PairsAccepted(<<x>>, ctx) <=> PairsAccepted(<<y>>, ctx)
      BY <3>3, OnePair
    <3>5. <<y>> \in Seq({y})
      OBVIOUS
    <3> QED BY <3>2, <3>3, <3>4, <3>5 DEF x
  <2>2. CASE \E t \in ValueSynonyms : t[1] = q[i] /\ s = t[2]
    BY <2>2, Rewording
  <2> QED BY <2>1, <2>2 DEF Respellings
<1>3. PICK T : s \in Seq(T)
  BY <1>2
<1>4. q \in Seq(Pairs \cup T) /\ s \in Seq(Pairs \cup T)
  BY <1>3, SeqMonotonic
<1> QED BY <1>2, <1>4, Replacing

\* A pair that a later one overrides may be left out.
LEMMA Overriding ==
  ASSUME NEW q \in Seq(Pairs), NEW i \in DOMAIN q, Overridden(q, i), NEW ctx
  PROVE  Identity(RemoveAt(q, i), ctx) = Identity(q, ctx)
<1> DEFINE a == SubSeq(q, 1, i - 1)
           b == SubSeq(q, i + 1, Len(q))
           x == q[i]
           xs == <<x>>
<1>1. /\ a \in Seq(Pairs) /\ b \in Seq(Pairs) /\ xs \in Seq(Pairs)
      /\ q = a \o xs \o b
      /\ \A j \in DOMAIN q : j > i => \E k \in DOMAIN b : b[k] = q[j]
  BY Split
<1>2. RemoveAt(q, i) = a \o b
  BY DEF RemoveAt
<1>3. PICK j \in DOMAIN q : j > i /\ DOMAIN Gives(x) \subseteq DOMAIN Gives(q[j])
  BY DEF Overridden
<1>4. PICK k \in DOMAIN b : b[k] = q[j]
  BY <1>1, <1>3
<1>5. Decodes(x) /\ DOMAIN Gives(x) # {} /\ DOMAIN Gives(x) \subseteq DOMAIN Gives(b[k])
  BY <1>3, <1>4 DEF Overridden
<1> HIDE DEF a, b, x
<1>6. a \o xs \in Seq(Pairs) /\ xs \o b \in Seq(Pairs) /\ a \o b \in Seq(Pairs)
  BY <1>1, ConcatProperties
<1>7. q = a \o (xs \o b)
  BY <1>1, ConcatAssociative
<1>8. PairOk(x, ctx)
  BY <1>5, GivesSomething DEF PairOk, Decodes
<1>9. PairsAccepted(q, ctx) <=> PairsAccepted(a \o b, ctx)
  <2>1. PairsAccepted(xs, ctx)
    BY <1>8, OnePair
  <2>2. PairsAccepted(xs \o b, ctx) <=> PairsAccepted(b, ctx)
    BY <1>1, <2>1, PairsOfBoth
  <2>3. PairsAccepted(q, ctx) <=> PairsAccepted(a, ctx) /\ PairsAccepted(xs \o b, ctx)
    <3> DEFINE xb == xs \o b
    <3>1. xb \in Seq(Pairs) /\ q = a \o xb
      BY <1>6, <1>7
    <3> HIDE DEF xb, xs
    <3>2. PairsAccepted(a \o xb, ctx) <=> PairsAccepted(a, ctx) /\ PairsAccepted(xb, ctx)
      BY <1>1, <3>1, PairsOfBoth
    <3> QED BY <3>1, <3>2 DEF xb
  <2>4. PairsAccepted(a \o b, ctx) <=> PairsAccepted(a, ctx) /\ PairsAccepted(b, ctx)
    BY <1>1, PairsOfBoth
  <2> QED BY <2>2, <2>3, <2>4
<1>10. ASSUME PairsAccepted(a \o b, ctx) PROVE MeansTheSame(a \o b, q)
  <2>1. PairOk(b[k], ctx)
    <3>1. PairsAccepted(b, ctx)
      BY <1>1, <1>10, PairsOfBoth
    <3> QED BY <3>1, PairByPair
  <2>2. Decodes(b[k])
    <3>1. b[k].key \in KNOWN_NAMES
      BY <1>5, GivesSomething
    <3> QED BY <2>1, <3>1, NamesAreApart DEF PairOk, Decodes
  <2>3. ASSUME NEW n \in CANONICAL_PARAMS, n \in DOMAIN Raw(xs)
        PROVE  n \in DOMAIN Raw(b)
    <3>1. n \in DOMAIN Gives(b[k])
      BY <1>5, <2>3, RawOfOne
    <3>2. k \in Givers(b, n)
      BY <2>2, <3>1 DEF Givers
    <3> QED BY <1>1, <3>2, Decider
  <2>4. ASSUME NEW n \in CANONICAL_PARAMS
        PROVE  /\ n \in DOMAIN Raw(b) <=> n \in DOMAIN Raw(xs \o b)
               /\ n \in DOMAIN Raw(b) => Alike(n, Raw(b)[n].value, Raw(xs \o b)[n].value)
    <3>1. /\ n \in DOMAIN Raw(xs \o b) <=> n \in DOMAIN Raw(xs) \/ n \in DOMAIN Raw(b)
          /\ n \in DOMAIN Raw(b) => Raw(xs \o b)[n] = Raw(b)[n]
      <4> HIDE DEF xs
      <4> QED BY <1>1, RawOfBoth
    <3> QED BY <2>3, <3>1 DEF Alike
  <2>5. MeansTheSame(b, xs \o b)
    BY <2>4, Zenon DEF MeansTheSame
  <2> DEFINE xb == xs \o b
  <2>6. xb \in Seq(Pairs) /\ q = a \o xb /\ MeansTheSame(b, xb)
    BY <1>6, <1>7, <2>5
  <2> HIDE DEF xb, xs
  <2>7. MeansTheSame(a \o b, a \o xb)
    <3>1. <<>> \in Seq(Pairs)
      BY EmptySeq
    <3>2. MeansTheSame(a \o b \o <<>>, a \o xb \o <<>>)
      BY <1>1, <2>6, <3>1, MeansInContext
    <3>3. a \o b \o <<>> = a \o b
      BY <1>6, ConcatEmptySeq
    <3>4. a \o xb \o <<>> = a \o xb
      <4>1. a \o xb \in Seq(Pairs)
        BY <1>1, <2>6, ConcatProperties
      <4> QED BY <4>1, ConcatEmptySeq
    <3> QED BY <3>2, <3>3, <3>4
  <2> QED BY <2>6, <2>7
<1>11. Identity(a \o b, ctx) = Identity(q, ctx)
  BY <1>9, <1>10, MeansSameRequest, SameIdentity
<1> QED BY <1>2, <1>11

\* Tracking and delivery parameters are no part of the identity.
LEMMA Adding ==
  ASSUME NEW q \in Seq(Pairs), NEW p \in Additions, NEW ctx, ~ctx.strict
  PROVE  Identity(<<p>> \o q, ctx) = Identity(q, ctx)
<1> DEFINE ps == <<p>>
           T == Pairs \cup {p}
<1>1. p.key \in {"utm_source", "dl", "exp"} /\ p.value.kind \in {"word", "num"}
  <2>1. \A v : Word(v).kind = "word" /\ Num(v).kind = "num"
    BY DEF Word, Num, Val
  <2> QED BY <2>1 DEF Additions
<1>2. ps \in Seq(T) /\ q \in Seq(T)
  BY SeqMonotonic
<1>3. /\ "utm_source" \notin KNOWN_NAMES /\ "dl" \in KNOWN_NAMES /\ "exp" \in KNOWN_NAMES
      /\ \A k \in {"utm_source", "dl", "exp"} : k \notin DOMAIN COMPATIBILITY_KEYS
  BY DEF KNOWN_NAMES, CANONICAL_PARAMS, DELIVERY, NAME_ALIASES, COMPATIBILITY_KEYS
<1>4. PairOk(p, ctx)
  BY <1>1, <1>3, NearMissesAssumption DEF PairOk, NearMissesAssumption
<1>5. PairsAccepted(ps \o q, ctx) <=> PairsAccepted(q, ctx)
  BY <1>2, <1>4, OnePair, PairsOfBoth
<1>6. \A n : n \in DOMAIN Gives(p) => n \in DELIVERY /\ Valid(n, Gives(p)[n], ctx)
  <2>1. CASE p.key = "utm_source"
    <3>1. DOMAIN Gives(p) = {}
      <4>1. Gives(p) = <<>>
        BY <1>3, <2>1, Zenon DEF Gives, KNOWN_NAMES
      <4> QED BY <4>1
    <3> QED BY <3>1
  <2>2. CASE p.key \in {"dl", "exp"}
    <3>1. p.key \in CANONICAL_PARAMS /\ p.key \in DELIVERY
      BY <2>2 DEF CANONICAL_PARAMS, DELIVERY
    <3>2. Gives(p) = [n \in {p.key} |-> p.value]
      BY <3>1, GivesOf
    <3>3. Valid("dl", p.value, ctx)
      BY <1>1 DEF Valid
    <3>4. Valid("exp", p.value, ctx)
      BY DEF Valid
    <3>5. Valid(p.key, p.value, ctx)
      BY <2>2, <3>3, <3>4, Zenon
    <3> QED BY <3>1, <3>2, <3>5
  <2> QED BY <1>1, <2>1, <2>2
<1>7. \A n : n \in DOMAIN Raw(ps) => n \in DELIVERY /\ Valid(n, Raw(ps)[n].value, ctx)
  BY <1>6, RawOfOne
<1> HIDE DEF ps, T
<1>8. \A n : /\ n \in DOMAIN Raw(ps \o q) <=> n \in DOMAIN Raw(ps) \/ n \in DOMAIN Raw(q)
             /\ n \in DOMAIN Raw(q) => Raw(ps \o q)[n] = Raw(q)[n]
             /\ n \in DOMAIN Raw(ps) /\ n \notin DOMAIN Raw(q) =>
                  Raw(ps \o q)[n] = Raw(ps)[n]
  BY <1>2, RawOfBoth
<1>9. SameRequest(Raw(ps \o q), Raw(q), ctx)
  <2>1. \A x : DOMAIN Raw(x) \subseteq CANONICAL_PARAMS
    BY DEF Raw
  <2>2. \A n \in CANONICAL_PARAMS \ DELIVERY :
          /\ n \in DOMAIN Raw(ps \o q) <=> n \in DOMAIN Raw(q)
          /\ n \in DOMAIN Raw(ps \o q) =>
               Alike(n, Raw(ps \o q)[n].value, Raw(q)[n].value)
    BY <1>7, <1>8 DEF Alike
  <2>3. \A n \in DELIVERY :
          (n \in DOMAIN Raw(ps \o q) => Valid(n, Raw(ps \o q)[n].value, ctx))
            <=> (n \in DOMAIN Raw(q) => Valid(n, Raw(q)[n].value, ctx))
    BY <1>7, <1>8
  <2> QED BY <2>1, <2>2, <2>3 DEF SameRequest
<1>10. Identity(ps \o q, ctx) = Identity(q, ctx)
  BY <1>5, <1>9, SameIdentity
<1> QED BY <1>10 DEF ps

\* The order of pairs that give different parameters is no part of it.
LEMMA Reordering ==
  ASSUME NEW q \in Seq(Pairs), ~GivenTwice(q), NEW ctx,
         NEW place \in Bijection(DOMAIN q, DOMAIN q)
  PROVE  Identity([i \in DOMAIN q |-> q[place[i]]], ctx) = Identity(q, ctx)
<1> DEFINE p == [i \in DOMAIN q |-> q[place[i]]]
<1>1. /\ \A i \in DOMAIN q : place[i] \in DOMAIN q
      /\ \A j \in DOMAIN q : \E i \in DOMAIN q : place[i] = j
  BY DEF Bijection, Injection, Surjection
<1>2. /\ DOMAIN q = 1..Len(q) /\ Len(q) \in Nat
      /\ \A i \in DOMAIN q : q[i] \in Pairs
  BY LenProperties, ElementOfSeq
<1>3. /\ DOMAIN p = DOMAIN q /\ p \in Seq(Pairs)
      /\ \A i \in DOMAIN q : p[i] = q[place[i]]
  BY <1>1, <1>2
<1> HIDE DEF p
<1>4. (\A i \in DOMAIN p : PairOk(p[i], ctx)) <=> (\A i \in DOMAIN q : PairOk(q[i], ctx))
  <2>1. ASSUME \A i \in DOMAIN p : PairOk(p[i], ctx), NEW j \in DOMAIN q
        PROVE  PairOk(q[j], ctx)
    <3>1. PICK i \in DOMAIN q : place[i] = j
      BY <1>1
    <3> QED BY <1>3, <2>1, <3>1
  <2>2. ASSUME \A i \in DOMAIN q : PairOk(q[i], ctx), NEW j \in DOMAIN p
        PROVE  PairOk(p[j], ctx)
    BY <1>1, <1>3, <2>2
  <2> QED BY <2>1, <2>2
<1>5. PairsAccepted(p, ctx) <=> PairsAccepted(q, ctx)
  BY <1>4, PairByPair
<1>6. ASSUME NEW n \in CANONICAL_PARAMS
      PROVE  /\ n \in DOMAIN Raw(p) <=> n \in DOMAIN Raw(q)
             /\ n \in DOMAIN Raw(p) => Raw(p)[n] = Raw(q)[n]
  <2>1. \A i \in Givers(p, n) : place[i] \in Givers(q, n) /\ p[i] = q[place[i]]
    BY <1>1, <1>3 DEF Givers
  <2>2. \A j \in Givers(q, n) : \E i \in Givers(p, n) : place[i] = j
    BY <1>1, <1>3 DEF Givers
  <2>3. \A i, j \in Givers(q, n) : i = j
    BY DEF GivenTwice, Givers
  <2>4. Givers(p, n) # {} <=> Givers(q, n) # {}
    BY <2>1, <2>2
  <2>5. ASSUME Givers(p, n) # {}
        PROVE  p[Max(Givers(p, n))] = q[Max(Givers(q, n))]
    <3>1. Max(Givers(p, n)) \in Givers(p, n) /\ Max(Givers(q, n)) \in Givers(q, n)
      BY <1>3, <2>4, <2>5, Decider
    <3> QED BY <2>1, <2>3, <3>1
  <2>6. /\ n \in DOMAIN Raw(p) <=> Givers(p, n) # {}
        /\ n \in DOMAIN Raw(p) => Raw(p)[n] = GivenBy(p[Max(Givers(p, n))], n)
        /\ n \in DOMAIN Raw(q) <=> Givers(q, n) # {}
        /\ n \in DOMAIN Raw(q) => Raw(q)[n] = GivenBy(q[Max(Givers(q, n))], n)
    BY <1>3, Decider
  <2> QED BY <2>4, <2>5, <2>6
<1>7. MeansTheSame(p, q)
  BY <1>6 DEF MeansTheSame, Alike
<1>8. Identity(p, ctx) = Identity(q, ctx)
  BY <1>5, <1>7, MeansSameRequest, SameIdentity
<1> QED BY <1>8 DEF p

-----------------------------------------------------------------------------
\* The request is one that clients send, in a context there is.
RequestInv == query \in Queries /\ context \in Contexts

LEMMA RequestStays == TransformSpec => []RequestInv
<1>1. TransformInit => RequestInv
  BY DEF TransformInit, RequestInv
<1>2. RequestInv /\ [Answer]_transformVars => RequestInv'
  BY DEF RequestInv, Answer, transformVars
<1> QED BY <1>1, <1>2, PTL DEF TransformSpec

(***************************************************************************)
(* For every query, whatever its pairs, and every context: two URLs of one *)
(* request are both refused or get one canonical form (canonicalize.ts,    *)
(* the equivalence guarantee of docs/IMAGE-DELIVERY-PROTOCOL/03).          *)
(***************************************************************************)
THEOREM EquivalentUrls == TransformSpec => []EquivalentUrlsAgree
<1>1. TransformInv /\ RequestInv => EquivalentUrlsAgree
  <2> SUFFICES ASSUME TransformInv, RequestInv, result # Pending
               PROVE  EquivalentUrlsAgree
    BY DEF EquivalentUrlsAgree
  <2> DEFINE identity == [accepted |-> result.verdict = "ok", form |-> result.form]
  <2>1. query \in Seq(Pairs)
    BY QueriesAssumption DEF RequestInv, QueriesAssumption, Pairs
  <2>2. identity = Identity(query, context)
    BY DEF TransformInv, Identity
  <2> HIDE DEF identity
  <2>3. ~GivenTwice(query) =>
          \A place \in Bijection(DOMAIN query, DOMAIN query) :
            Identity([i \in DOMAIN query |-> query[place[i]]], context) = identity
    BY <2>1, <2>2, Reordering
  <2>4. \A i \in DOMAIN query : \A s \in Respellings(query[i]) :
          Identity(SubSeq(query, 1, i - 1) \o s \o SubSeq(query, i + 1, Len(query)), context)
            = identity
    BY <2>1, <2>2, Respelling
  <2>5. \A i \in DOMAIN query : Overridden(query, i) =>
          Identity(RemoveAt(query, i), context) = identity
    BY <2>1, <2>2, Overriding
  <2>6. ~context.strict => \A p \in Additions : Identity(<<p>> \o query, context) = identity
    BY <2>1, <2>2, Adding
  <2> QED BY <2>3, <2>4, <2>5, <2>6, Zenon DEF EquivalentUrlsAgree, identity
<1> QED BY <1>1, Answers, RequestStays, PTL

-----------------------------------------------------------------------------
(***************************************************************************)
(* A form sent as a query.                                                 *)
(***************************************************************************)
\* What AsQuery says of one parameter.
Said(form, n) ==
  IF n \in DOMAIN form THEN <<[key |-> n, value |-> form[n]]>> ELSE <<>>

\* A query that says of some parameters what a form says of them.
SaysOnly(s, form, N, ctx) ==
  /\ s \in Seq({[key |-> n, value |-> form[n]] : n \in DOMAIN form})
  /\ PairsAccepted(s, ctx)
  /\ \A n : /\ n \in DOMAIN Raw(s) <=> n \in N /\ n \in DOMAIN form
            /\ n \in DOMAIN Raw(s) => Raw(s)[n].value = form[n]

LEMMA Saying ==
  ASSUME NEW form, NEW n \in FORM_PARAMS, NEW ctx,
         n \in DOMAIN form => form[n].kind # "undecodable"
  PROVE  SaysOnly(Said(form, n), form, {n}, ctx)
<1> DEFINE P == {[key |-> m, value |-> form[m]] : m \in DOMAIN form}
           p == [key |-> n, value |-> form[n]]
<1>1. CASE n \in DOMAIN form
  <2>1. p.key = n /\ p.value = form[n] /\ p \in P
    BY <1>1
  <2> HIDE DEF p
  <2>2. n \in CANONICAL_PARAMS
    BY DEF FORM_PARAMS
  <2>3. /\ n \in KNOWN_NAMES /\ n # "%" /\ n \notin DOMAIN COMPATIBILITY_KEYS
    BY <2>2, NamesAreApart DEF KNOWN_NAMES
  <2>4. Decodes(p) /\ Gives(p) = [m \in {n} |-> form[n]] /\ PairOk(p, ctx)
    <3>1. Gives(p) = [m \in {n} |-> form[n]]
      BY <2>1, <2>2, GivesOf
    <3>2. Decodes(p) /\ PairOk(p, ctx)
      BY <1>1, <2>1, <2>3 DEF Decodes, PairOk
    <3> QED BY <3>1, <3>2
  <2>5. Said(form, n) = <<p>>
    BY <1>1 DEF Said, p
  <2>6. PairsAccepted(<<p>>, ctx)
    BY <2>4, OnePair
  <2>7. \A m : /\ m \in DOMAIN Raw(<<p>>) <=> m = n
               /\ m \in DOMAIN Raw(<<p>>) => Raw(<<p>>)[m].value = form[m]
    <3>1. DOMAIN Gives(p) = {n} /\ Gives(p)[n] = form[n]
      BY <2>4
    <3> QED BY <2>2, <2>4, <3>1, RawOfOne
  <2>8. <<p>> \in Seq(P)
    BY <2>1
  <2> QED BY <1>1, <2>5, <2>6, <2>7, <2>8 DEF SaysOnly
<1>2. CASE n \notin DOMAIN form
  <2>1. Said(form, n) = <<>>
    BY <1>2 DEF Said
  <2>2. <<>> \in Seq(P) /\ DOMAIN <<>> = {}
    OBVIOUS
  <2>3. PairsAccepted(<<>>, ctx)
    BY <2>2, PairByPair
  <2>4. \A m : Givers(<<>>, m) = {}
    BY <2>2 DEF Givers
  <2>5. \A m : m \notin DOMAIN Raw(<<>>)
    BY <2>2, <2>4, Decider
  <2> QED BY <1>2, <2>1, <2>2, <2>3, <2>5 DEF SaysOnly
<1> QED BY <1>1, <1>2

LEMMA SayingMore ==
  ASSUME NEW form, NEW N, NEW n \in FORM_PARAMS, NEW ctx, NEW a,
         n \in DOMAIN form => form[n].kind # "undecodable",
         SaysOnly(a, form, N, ctx)
  PROVE  SaysOnly(a \o Said(form, n), form, N \cup {n}, ctx)
<1> DEFINE P == {[key |-> m, value |-> form[m]] : m \in DOMAIN form}
           b == Said(form, n)
<1>1. SaysOnly(b, form, {n}, ctx)
  BY Saying
<1> HIDE DEF b
<1>2. a \in Seq(P) /\ b \in Seq(P)
  BY <1>1 DEF SaysOnly
<1> HIDE DEF P
<1>3. a \o b \in Seq(P)
  BY <1>2, ConcatProperties
<1>4. PairsAccepted(a \o b, ctx)
  BY <1>1, <1>2, PairsOfBoth DEF SaysOnly
<1>5. ASSUME NEW m
      PROVE  /\ m \in DOMAIN Raw(a \o b) <=> m \in N \cup {n} /\ m \in DOMAIN form
             /\ m \in DOMAIN Raw(a \o b) => Raw(a \o b)[m].value = form[m]
  <2>1. /\ m \in DOMAIN Raw(a \o b) <=> m \in DOMAIN Raw(a) \/ m \in DOMAIN Raw(b)
        /\ m \in DOMAIN Raw(b) => Raw(a \o b)[m] = Raw(b)[m]
        /\ m \in DOMAIN Raw(a) /\ m \notin DOMAIN Raw(b) => Raw(a \o b)[m] = Raw(a)[m]
    BY <1>2, RawOfBoth
  <2>2. /\ m \in DOMAIN Raw(a) <=> m \in N /\ m \in DOMAIN form
        /\ m \in DOMAIN Raw(a) => Raw(a)[m].value = form[m]
        /\ m \in DOMAIN Raw(b) <=> m \in {n} /\ m \in DOMAIN form
        /\ m \in DOMAIN Raw(b) => Raw(b)[m].value = form[m]
    BY <1>1 DEF SaysOnly
  <2> QED BY <2>1, <2>2
<1> QED BY <1>3, <1>4, <1>5 DEF SaysOnly, P, b

\* The query says what the form says, and nothing else.
LEMMA FormAsQuery ==
  ASSUME NEW form, NEW ctx, DOMAIN form \subseteq FORM_PARAMS,
         \A n \in DOMAIN form : form[n].kind # "undecodable"
  PROVE  /\ PairsAccepted(AsQuery(form), ctx)
         /\ DOMAIN Raw(AsQuery(form)) = DOMAIN form
         /\ \A n \in DOMAIN form : Raw(AsQuery(form))[n].value = form[n]
<1> DEFINE s(n) == Said(form, n)
           says(a, N) == SaysOnly(a, form, N, ctx)
           q4 == s("bg") \o s("blur") \o s("dpr") \o s("f")
           N4 == {"bg"} \cup {"blur"} \cup {"dpr"} \cup {"f"}
           q7 == q4 \o s("fit") \o s("flip") \o s("g")
           N7 == N4 \cup {"fit"} \cup {"flip"} \cup {"g"}
           q10 == q7 \o s("h") \o s("q") \o s("rect")
           N10 == N7 \cup {"h"} \cup {"q"} \cup {"rect"}
           q13 == q10 \o s("rot") \o s("sharpen") \o s("w")
           N13 == N10 \cup {"rot"} \cup {"sharpen"} \cup {"w"}
<1>1. \A n \in {"bg", "blur", "dpr", "f", "fit", "flip", "g", "h", "q", "rect",
                "rot", "sharpen", "w"} : n \in FORM_PARAMS
  BY DEF FORM_PARAMS, CANONICAL_PARAMS, DELIVERY
<1>2. FORM_PARAMS \subseteq N13
  BY DEF FORM_PARAMS, CANONICAL_PARAMS, DELIVERY
<1>3. says(s("bg"), {"bg"})
  BY <1>1, Saying
<1>4. \A a, N : \A n \in FORM_PARAMS : says(a, N) => says(a \o s(n), N \cup {n})
  BY SayingMore
<1>5. AsQuery(form) = q13
  BY DEF AsQuery, Said
<1> HIDE DEF s, says
<1>6. says(q4, N4)
  BY <1>1, <1>3, <1>4
<1> HIDE DEF q4, N4
<1>7. says(q7, N7)
  BY <1>1, <1>4, <1>6
<1> HIDE DEF q7, N7
<1>8. says(q10, N10)
  BY <1>1, <1>4, <1>7
<1> HIDE DEF q10, N10
<1>9. says(q13, N13)
  BY <1>1, <1>4, <1>8
<1> HIDE DEF q13, N13
<1>10. /\ PairsAccepted(q13, ctx)
       /\ \A n : /\ n \in DOMAIN Raw(q13) <=> n \in DOMAIN form
                 /\ n \in DOMAIN Raw(q13) => Raw(q13)[n].value = form[n]
  BY <1>2, <1>9 DEF says, SaysOnly
<1> QED BY <1>5, <1>10

-----------------------------------------------------------------------------
\* A dimension on the ladder stays; so snapping a second time changes nothing.
LEMMA SnapTwice ==
  ASSUME NEW n \in Nat, NEW ctx, NEW c, c.ladder = ctx.ladder
  PROVE  Snap(Snap(n, ctx), c) = Snap(n, ctx)
<1> DEFINE m == Snap(n, ctx)
<1>1. \A x : Snap(x, c) = Snap(x, ctx)
  BY DEF Snap
<1>2. CASE m = n
  BY <1>1, <1>2
<1>3. CASE m \in DIMENSION_LADDER
  <2> HIDE DEF m
  <2> DEFINE rungs == {r \in DIMENSION_LADDER : r >= m}
             least == CHOOSE r \in rungs : \A s \in rungs : r <= s
  <2>1. \A r \in DIMENSION_LADDER : r \in Nat
    BY DEF DIMENSION_LADDER
  <2>2. m \in rungs /\ \A s \in rungs : m <= s
    BY <1>3, <2>1
  <2>3. least \in rungs /\ \A s \in rungs : least <= s
    BY <2>2
  <2>4. least = m
    BY <2>1, <2>2, <2>3
  <2>5. Snap(m, c) = m
    BY <2>4 DEF Snap
  <2> QED BY <2>5 DEF m
<1> QED BY <1>2, <1>3, Snapping

\* A dimension within the limit stays within it, and one that was asked for
\* does not vanish.
LEMMA SnapInRange ==
  ASSUME NEW n \in 0 .. TRANSFORM_MAX_DIMENSION_PX, NEW ctx
  PROVE  /\ Snap(n, ctx) \in 0 .. TRANSFORM_MAX_DIMENSION_PX
         /\ Snap(n, ctx) = 0 <=> n = 0
<1>1. n \in Nat
  BY DEF TRANSFORM_MAX_DIMENSION_PX
<1>2. \A r \in DIMENSION_LADDER : r \in 1 .. TRANSFORM_MAX_DIMENSION_PX
  BY DEF DIMENSION_LADDER, TRANSFORM_MAX_DIMENSION_PX
<1>3. CASE Snap(n, ctx) = n
  BY <1>3
<1>4. CASE Snap(n, ctx) > n /\ Snap(n, ctx) \in DIMENSION_LADDER
  <2>1. Snap(n, ctx) \in 1 .. TRANSFORM_MAX_DIMENSION_PX
    BY <1>2, <1>4
  <2>2. n # 0
    BY <1>4, <2>1, SnapZero
  <2>3. \A k \in 1 .. TRANSFORM_MAX_DIMENSION_PX :
          k \in 0 .. TRANSFORM_MAX_DIMENSION_PX /\ k # 0
    BY DEF TRANSFORM_MAX_DIMENSION_PX
  <2> QED BY <2>1, <2>2, <2>3, Zenon
<1> QED BY <1>1, <1>3, <1>4, Snapping

LEMMA WithinLimit ==
  /\ \A k \in Nat : ~(k > TRANSFORM_MAX_DIMENSION_PX) =>
                      k \in 0 .. TRANSFORM_MAX_DIMENSION_PX
  /\ \A k \in 0 .. TRANSFORM_MAX_DIMENSION_PX :
       /\ k \in Nat /\ ~(k > TRANSFORM_MAX_DIMENSION_PX)
       /\ k # 0 => k \in 1 .. TRANSFORM_MAX_DIMENSION_PX
<1>1. ASSUME NEW k \in Nat, ~(k > TRANSFORM_MAX_DIMENSION_PX)
      PROVE  k \in 0 .. TRANSFORM_MAX_DIMENSION_PX
  BY <1>1 DEF TRANSFORM_MAX_DIMENSION_PX
<1>2. ASSUME NEW k \in 0 .. TRANSFORM_MAX_DIMENSION_PX
      PROVE  k \in Nat /\ ~(k > TRANSFORM_MAX_DIMENSION_PX)
  BY DEF TRANSFORM_MAX_DIMENSION_PX
<1>3. ASSUME NEW k \in 0 .. TRANSFORM_MAX_DIMENSION_PX, k # 0
      PROVE  k \in 1 .. TRANSFORM_MAX_DIMENSION_PX
  BY <1>3 DEF TRANSFORM_MAX_DIMENSION_PX
<1> QED BY <1>1, <1>2, <1>3, Zenon

LEMMA NumSays ==
  \A k : Num(k).kind = "num" /\ Num(k).nums = <<k>> /\ Num(k).nums[1] = k
BY DEF Num, Val

\* The values of the effects, and of the parameters with a vocabulary.
LEMMA ValidWords ==
  ASSUME NEW v, NEW ctx
  PROVE  /\ Valid("blur", v, ctx) => IsNum(v, 0, EFFECT_MAX)
         /\ Valid("sharpen", v, ctx) => IsNum(v, 0, EFFECT_MAX)
         /\ Valid("fit", v, ctx) => IsWord(v, FIT_VALUES \cup DOMAIN FIT_VALUE_ALIASES)
         /\ Valid("f", v, ctx) => IsWord(v, {"auto", "avif", "webp", "jpeg", "png"})
         /\ Valid("flip", v, ctx) => IsWord(v, {"h", "v", "hv"})
         /\ Valid("g", v, ctx) =>
              \/ v.kind = "point"
              \/ IsWord(v, GRAVITY_KEYWORDS \cup {"auto", "face", "faces"})
         /\ Valid("bg", v, ctx) =>
              v.kind = "hex" \/ IsWord(v, DOMAIN CSS_NAMED_COLORS \cup INHERITED)
<1>1. Valid("blur", v, ctx) => IsNum(v, 0, EFFECT_MAX)
  BY DEF Valid
<1>2. Valid("sharpen", v, ctx) => IsNum(v, 0, EFFECT_MAX)
  BY DEF Valid
<1>3. Valid("fit", v, ctx) => IsWord(v, FIT_VALUES \cup DOMAIN FIT_VALUE_ALIASES)
  BY DEF Valid
<1>4. Valid("f", v, ctx) => IsWord(v, {"auto", "avif", "webp", "jpeg", "png"})
  BY DEF Valid
<1>5. Valid("flip", v, ctx) => IsWord(v, {"h", "v", "hv"})
  BY DEF Valid
<1>6. Valid("g", v, ctx) =>
        \/ v.kind = "point"
        \/ IsWord(v, GRAVITY_KEYWORDS \cup {"auto", "face", "faces"})
  BY DEF Valid
<1>7. Valid("bg", v, ctx) =>
        v.kind = "hex" \/ IsWord(v, DOMAIN CSS_NAMED_COLORS \cup INHERITED)
  BY DEF Valid
<1> QED BY <1>1, <1>2, <1>3, <1>4, <1>5, <1>6, <1>7

\* A value that is valid says something.
LEMMA ValidDecodes ==
  ASSUME NEW n \in CANONICAL_PARAMS \ DELIVERY, NEW v, NEW ctx, Valid(n, v, ctx)
  PROVE  v.kind # "undecodable"
<1>1. n \in {"w", "h", "ar", "dpr", "fit", "g", "rect", "f", "q", "bg", "blur",
             "sharpen", "rot", "flip"}
  BY DEF CANONICAL_PARAMS, DELIVERY
<1>2. CASE n \in {"w", "h", "blur", "sharpen"}
  BY <1>2, ValidDimension, ValidWords DEF IsNum
<1>3. CASE n \in {"fit", "f", "flip", "g", "bg"}
  BY <1>3, ValidWords DEF IsWord
<1>4. CASE n = "ar"
  BY <1>4 DEF Valid
<1>5. CASE n = "rect"
  BY <1>5 DEF Valid
<1>6. CASE n = "dpr"
  <2>1. v.kind = "tenths" \/ IsNum(v, 0, 9)
    BY <1>6 DEF Valid
  <2> QED BY <2>1 DEF IsNum
<1>7. CASE n = "q"
  BY <1>7 DEF Valid, IsWord, IsNum
<1>8. CASE n = "rot"
  BY <1>8 DEF Valid, IsWord, IsNum
<1> QED BY <1>1, <1>2, <1>3, <1>4, <1>5, <1>6, <1>7, <1>8

\* Two contexts that differ in the Accept header only.
SameSource(ctx, c) ==
  /\ c.width = ctx.width /\ c.height = ctx.height
  /\ c.orientation = ctx.orientation /\ c.ladder = ctx.ladder

\* An accepted request in a context, and what is read back from its form.
Accepted(raw, ctx) ==
  /\ PassesChecks(raw, ctx) /\ ~RatioTooLarge(raw)
  /\ ctx.orientation \in {0, 90, 180, 270}

Sayable(form, ctx) ==
  /\ "g" \in DOMAIN form => form["g"].kind # "region"
  /\ "bg" \in DOMAIN form => form["bg"].kind = "hex"
  /\ "rot" \in DOMAIN form \/ ctx.orientation = 0

ReadBack(back, raw, ctx) ==
  LET form == FormOf(raw, ctx)
  IN /\ DOMAIN back = DOMAIN form
     /\ \A n \in DOMAIN form : back[n].value = form[n]

\* What a form has, and as what.
LEMMA FormHas ==
  ASSUME NEW raw, NEW ctx, NEW n \in FORM_PARAMS
  PROVE  /\ n \in DOMAIN FormOf(raw, ctx) <=> InForm(n, raw, ctx)
         /\ n \in DOMAIN FormOf(raw, ctx) => FormOf(raw, ctx)[n] = ResolvedAs(n, raw, ctx)
BY DEF FormOf

LEMMA FormNames ==
  /\ FORM_PARAMS = {"w", "h", "dpr", "fit", "g", "rect", "f", "q", "bg", "blur",
                    "sharpen", "rot", "flip"}
  /\ \A n \in FORM_PARAMS : n \in CANONICAL_PARAMS \ DELIVERY
  /\ \A raw, ctx : DOMAIN FormOf(raw, ctx) \subseteq FORM_PARAMS
<1>1. FORM_PARAMS = {"w", "h", "dpr", "fit", "g", "rect", "f", "q", "bg", "blur",
                     "sharpen", "rot", "flip"}
  BY DEF FORM_PARAMS, CANONICAL_PARAMS, DELIVERY
<1>2. \A n \in FORM_PARAMS : n \in CANONICAL_PARAMS \ DELIVERY
  BY DEF FORM_PARAMS
<1>3. \A raw, ctx : DOMAIN FormOf(raw, ctx) \subseteq FORM_PARAMS
  BY DEF FormOf
<1> QED BY <1>1, <1>2, <1>3

\* The format.
LEMMA FormatBack ==
  ASSUME NEW raw, NEW ctx, Accepted(raw, ctx), NEW back, ReadBack(back, raw, ctx), NEW c
  PROVE  /\ FormatOf(raw, ctx) \in {"avif", "webp", "jpeg", "png"}
         /\ FormatOf(back, c) = FormatOf(raw, ctx)
         /\ Valid("f", back["f"].value, c)
<1> DEFINE form == FormOf(raw, ctx)
           f == FormatOf(raw, ctx)
<1>1. f \in {"avif", "webp", "jpeg", "png"}
  <2>1. BucketFromAccept(ctx.accept) \in {"avif", "webp", "jpeg"}
    BY DEF BucketFromAccept
  <2>2. ASSUME "f" \in DOMAIN raw, ~IsWord(raw["f"].value, {"auto"})
        PROVE  raw["f"].value.word \in {"avif", "webp", "jpeg", "png"}
    <3>1. Valid("f", raw["f"].value, ctx)
      BY <2>2 DEF Accepted, PassesChecks
    <3> QED BY <2>2, <3>1 DEF Valid, IsWord
  <2> QED BY <2>1, <2>2 DEF FormatOf
<1>2. "f" \in DOMAIN back /\ back["f"].value = Word(f)
  <2>1. "f" \in FORM_PARAMS /\ InForm("f", raw, ctx) /\ ResolvedAs("f", raw, ctx) = Word(f)
    BY FormNames DEF InForm, ResolvedAs
  <2> QED BY <2>1, FormHas DEF ReadBack
<1>3. Word(f).kind = "word" /\ Word(f).word = f
  BY DEF Word, Val
<1> HIDE DEF f
<1>4. FormatOf(back, c) = f
  BY <1>1, <1>2, <1>3 DEF FormatOf, IsWord
<1>5. Valid("f", back["f"].value, c)
  BY <1>1, <1>2, <1>3 DEF Valid, IsWord
<1> QED BY <1>1, <1>4, <1>5 DEF f

\* The quality.
LEMMA QualityBack ==
  ASSUME NEW raw, NEW ctx, Accepted(raw, ctx), NEW back, ReadBack(back, raw, ctx), NEW c
  PROVE  /\ InForm("q", back, c) <=> InForm("q", raw, ctx)
         /\ InForm("q", raw, ctx) =>
              /\ ResolvedAs("q", back, c) = ResolvedAs("q", raw, ctx)
              /\ Valid("q", back["q"].value, c)
<1> DEFINE v == QualityOf(raw, ctx)
<1>1. /\ InForm("q", back, c) <=> FormatOf(back, c) # "png"
      /\ InForm("q", raw, ctx) <=> FormatOf(raw, ctx) # "png"
      /\ ResolvedAs("q", back, c) = QualityOf(back, c)
      /\ ResolvedAs("q", raw, ctx) = v
  BY DEF InForm, ResolvedAs
<1>2. FormatOf(back, c) = FormatOf(raw, ctx)
      /\ FormatOf(raw, ctx) \in {"avif", "webp", "jpeg", "png"}
  BY FormatBack
<1>3. ASSUME FormatOf(raw, ctx) # "png"
      PROVE  QualityOf(back, c) = v /\ Valid("q", back["q"].value, c)
  <2>1. "q" \in DOMAIN back /\ back["q"].value = v
    BY <1>1, <1>3, FormNames, FormHas DEF ReadBack
  <2>2. v.kind = "num" /\ v.nums[1] \in 1..100
    <3>1. CASE "q" \in DOMAIN raw /\ raw["q"].value.kind = "num"
      <4>1. Valid("q", raw["q"].value, ctx)
        BY <3>1 DEF Accepted, PassesChecks
      <4> QED BY <3>1, <4>1 DEF QualityOf, Valid, IsNum, IsWord
    <3>2. CASE ~("q" \in DOMAIN raw /\ raw["q"].value.kind = "num")
      <4>1. v = Num(QUALITY_TABLE[FormatOf(raw, ctx)])
        BY <3>2 DEF QualityOf
      <4>2. QUALITY_TABLE[FormatOf(raw, ctx)] \in 1..100
        BY <1>2, <1>3 DEF QUALITY_TABLE
      <4> QED BY <4>1, <4>2, NumSays
    <3> QED BY <3>1, <3>2
  <2> HIDE DEF v
  <2>3. QualityOf(back, c) = v
    BY <2>1, <2>2 DEF QualityOf
  <2>4. Valid("q", back["q"].value, c)
    BY <2>1, <2>2 DEF Valid, IsNum
  <2> QED BY <2>3, <2>4
<1> QED BY <1>1, <1>2, <1>3
\* The dimensions.
LEMMA SizeBack ==
  ASSUME NEW raw, NEW ctx, Accepted(raw, ctx), NEW back, ReadBack(back, raw, ctx),
         NEW c, SameSource(ctx, c)
  PROVE  /\ Resizing(back) <=> Resizing(raw)
         /\ FinalSize(back, c) = FinalSize(raw, ctx)
         /\ ~OverSpecified(back) /\ ~RatioTooLarge(back)
         /\ \A n \in {"w", "h"} : n \in DOMAIN back => Valid(n, back[n].value, c)
<1> DEFINE final == FinalSize(raw, ctx)
           form == FormOf(raw, ctx)
<1>1. \A n \in {"w", "h"} :
        /\ Size(raw)[n] \in 0 .. TRANSFORM_MAX_DIMENSION_PX
        /\ n \in DOMAIN raw => Size(raw)[n] # 0
        /\ ~Resizing(raw) => Size(raw)[n] = 0
  <2> TAKE n \in {"w", "h"}
  <2>1. /\ Size(raw)[n] \in Nat /\ (n \in DOMAIN raw => Size(raw)[n] = Nat0(raw, n))
        /\ ~Resizing(raw) => Size(raw)[n] = 0
    BY SizeOfRequest DEF Accepted
  <2>2. n \in DOMAIN raw => Nat0(raw, n) # 0
    BY AcceptedValues DEF Accepted
  <2>3. ~(Size(raw)[n] > TRANSFORM_MAX_DIMENSION_PX)
    BY DEF Accepted, RatioTooLarge
  <2>4. Size(raw)[n] \in 0 .. TRANSFORM_MAX_DIMENSION_PX
    BY <2>1, <2>3, WithinLimit, Zenon
  <2> QED BY <2>1, <2>2, <2>4, Zenon
<1>2. \A n \in {"w", "h"} : final[n] = Snap(Size(raw)[n], ctx)
  BY DEF FinalSize
<1>3. /\ final = [w |-> final["w"], h |-> final["h"]]
  BY DEF FinalSize
<1> HIDE DEF final
<1>4. \A n \in {"w", "h"} :
        /\ final[n] \in 0 .. TRANSFORM_MAX_DIMENSION_PX
        /\ final[n] = 0 <=> Size(raw)[n] = 0
        /\ Snap(final[n], c) = final[n]
  <2> TAKE n \in {"w", "h"}
  <2>1. Size(raw)[n] \in Nat
    BY <1>1, WithinLimit, Zenon
  <2> QED BY <1>1, <1>2, <2>1, SnapInRange, SnapTwice DEF SameSource
<1>5. \A n \in {"w", "h"} :
        /\ n \in DOMAIN back <=> final[n] # 0
        /\ n \in DOMAIN back => back[n].value = Num(final[n])
  <2> TAKE n \in {"w", "h"}
  <2>1. n \in FORM_PARAMS /\ (InForm(n, raw, ctx) <=> final[n] # 0)
        /\ ResolvedAs(n, raw, ctx) = Num(final[n])
    BY FormNames DEF InForm, ResolvedAs, final
  <2> QED BY <2>1, FormHas DEF ReadBack
<1>6. \A n \in {"w", "h"} : Nat0(back, n) = final[n]
  BY <1>5, NumSays DEF Nat0
<1>7. "ar" \notin DOMAIN back
  <2>1. "ar" \notin FORM_PARAMS
    BY FormNames
  <2> QED BY <2>1, FormNames DEF ReadBack
<1>8. Size(back) = [w |-> final["w"], h |-> final["h"]]
  BY <1>6, <1>7 DEF Size
<1>9. FinalSize(back, c) = final
  <2>1. Size(back)["w"] = final["w"] /\ Size(back)["h"] = final["h"]
    BY <1>8
  <2>2. FinalSize(back, c) =
          [w |-> Snap(Size(back)["w"], c), h |-> Snap(Size(back)["h"], c)]
    BY DEF FinalSize
  <2> QED BY <1>3, <1>4, <2>1, <2>2
<1>10. Resizing(back) <=> Resizing(raw)
  BY <1>1, <1>4, <1>5 DEF Resizing
<1>11. ~OverSpecified(back)
  BY <1>7 DEF OverSpecified
<1>12. ~RatioTooLarge(back)
  <2>1. \A n \in {"w", "h"} : Size(back)[n] = final[n]
    BY <1>8
  <2>2. \A n \in {"w", "h"} : ~(final[n] > TRANSFORM_MAX_DIMENSION_PX)
    BY <1>4, WithinLimit, Zenon
  <2>3. \A n \in {"w", "h"} : ~(Size(back)[n] > TRANSFORM_MAX_DIMENSION_PX)
    BY <2>1, <2>2
  <2> QED BY <2>3, Zenon DEF RatioTooLarge
<1>13. ASSUME NEW n \in {"w", "h"}, n \in DOMAIN back PROVE Valid(n, back[n].value, c)
  <2>1. final[n] \in 1 .. TRANSFORM_MAX_DIMENSION_PX
    BY <1>4, <1>5, <1>13, WithinLimit, Zenon
  <2>2. IsNum(back[n].value, 1, TRANSFORM_MAX_DIMENSION_PX)
    BY <1>5, <1>13, <2>1, NumSays DEF IsNum
  <2> QED BY <2>2 DEF Valid
<1> QED BY <1>9, <1>10, <1>11, <1>12, <1>13 DEF final

\* The fit and the device pixel ratio, of a request that resizes.
LEMMA FitBack ==
  ASSUME NEW raw, NEW ctx, Accepted(raw, ctx), NEW back, ReadBack(back, raw, ctx), NEW c,
         Resizing(raw)
  PROVE  /\ "fit" \in DOMAIN back /\ Valid("fit", back["fit"].value, c)
         /\ EffectiveFit(back) = EffectiveFit(raw)
         /\ "dpr" \in DOMAIN back /\ Valid("dpr", back["dpr"].value, c)
         /\ EffectiveDpr(back) = EffectiveDpr(raw)
<1> DEFINE fit == EffectiveFit(raw)
           d == EffectiveDpr(raw)
<1>1. /\ "fit" \in DOMAIN back /\ back["fit"].value = Word(fit)
      /\ "dpr" \in DOMAIN back /\ back["dpr"].value = FormattedDpr(d)
  <2>1. \A n \in {"fit", "dpr"} : n \in FORM_PARAMS /\ InForm(n, raw, ctx)
    BY FormNames DEF InForm
  <2>2. /\ ResolvedAs("fit", raw, ctx) = Word(fit)
        /\ ResolvedAs("dpr", raw, ctx) = FormattedDpr(d)
    BY DEF ResolvedAs
  <2> HIDE DEF fit, d
  <2> QED BY <2>1, <2>2, FormHas DEF ReadBack
<1>2. fit \in FIT_VALUES
  <2>1. \A x \in DOMAIN FIT_VALUE_ALIASES : FIT_VALUE_ALIASES[x] \in FIT_VALUES
    BY DEF FIT_VALUE_ALIASES, FIT_VALUES
  <2>2. "scale-down" \in FIT_VALUES
    BY DEF FIT_VALUES
  <2>3. ASSUME "fit" \in DOMAIN raw PROVE FitOf(raw["fit"].value) \in FIT_VALUES
    <3>1. Valid("fit", raw["fit"].value, ctx)
      BY <2>3 DEF Accepted, PassesChecks
    <3>2. raw["fit"].value.word \in FIT_VALUES \cup DOMAIN FIT_VALUE_ALIASES
      BY <3>1 DEF Valid, IsWord
    <3> QED BY <2>1, <3>2 DEF FitOf
  <2> QED BY <2>2, <2>3 DEF EffectiveFit
<1>3. d \in 5 .. 30
  BY AcceptedValues DEF Accepted
<1> HIDE DEF fit, d
<1>4. Valid("fit", back["fit"].value, c) /\ EffectiveFit(back) = fit
  <2>1. Word(fit).kind = "word" /\ Word(fit).word = fit
    BY DEF Word, Val
  <2>2. fit \notin DOMAIN FIT_VALUE_ALIASES
    BY <1>2 DEF FIT_VALUES, FIT_VALUE_ALIASES
  <2>3. FitOf(Word(fit)) = fit
    BY <2>1, <2>2 DEF FitOf
  <2>4. EffectiveFit(back) = fit
    BY <1>1, <2>3 DEF EffectiveFit
  <2>5. IsWord(Word(fit), FIT_VALUES \cup DOMAIN FIT_VALUE_ALIASES)
    BY <1>2, <2>1 DEF IsWord
  <2> QED BY <1>1, <2>4, <2>5 DEF Valid
<1>5. Valid("dpr", back["dpr"].value, c) /\ EffectiveDpr(back) = d
  <2>1. DprOf(FormattedDpr(d)) = d
    BY <1>3, WrittenDpr
  <2>2. EffectiveDpr(back) = d
    BY <1>1, <2>1 DEF EffectiveDpr
  <2>3. FormattedDpr(d).kind = "tenths" \/ IsNum(FormattedDpr(d), 0, 9)
    <3>1. d % 10 = 0 => d \div 10 \in 0..9
      BY <1>3
    <3>2. \A k : Tenths(k).kind = "tenths"
      BY DEF Tenths, Val
    <3> QED BY <3>1, <3>2, NumSays DEF FormattedDpr, IsNum
  <2>4. Valid("dpr", FormattedDpr(d), c)
    BY <1>3, <2>1, <2>3 DEF Valid
  <2> QED BY <1>1, <2>2, <2>4
<1> QED BY <1>1, <1>4, <1>5 DEF fit, d

LEMMA PlacedBack ==
  ASSUME NEW raw, NEW ctx, Accepted(raw, ctx), NEW back, ReadBack(back, raw, ctx),
         NEW c, SameSource(ctx, c)
  PROVE  (Placed(back) <=> Placed(raw)) /\ (Padded(back) <=> Padded(raw))
<1>1. Resizing(back) <=> Resizing(raw)
  BY SizeBack
<1>2. Resizing(raw) => EffectiveFit(back) = EffectiveFit(raw)
  BY FitBack
<1> QED BY <1>1, <1>2 DEF Placed, Padded

\* The gravity, when it is not a resolved region.
LEMMA GravityBack ==
  ASSUME NEW raw, NEW ctx, Accepted(raw, ctx), NEW back, ReadBack(back, raw, ctx), NEW c,
         Sayable(FormOf(raw, ctx), ctx)
  PROVE  /\ GravityMode(back) = "none"
         /\ "g" \in DOMAIN back <=> Placed(raw)
         /\ Placed(raw) => /\ GravityOf(back, c) = GravityOf(raw, ctx)
                           /\ Valid("g", back["g"].value, c)
<1> DEFINE v == GravityOf(raw, ctx)
<1>1. /\ "g" \in DOMAIN back <=> Placed(raw)
      /\ Placed(raw) => back["g"].value = v /\ v.kind # "region"
  <2>1. /\ "g" \in FORM_PARAMS /\ (InForm("g", raw, ctx) <=> Placed(raw))
        /\ ResolvedAs("g", raw, ctx) = v
    BY FormNames DEF InForm, ResolvedAs
  <2> HIDE DEF v
  <2> QED BY <2>1, FormHas DEF ReadBack, Sayable
<1>2. ASSUME Placed(raw)
      PROVE  /\ Valid("g", v, c) /\ Valid("g", v, ctx)
             /\ ~IsWord(v, {"auto"}) /\ ~IsWord(v, {"face", "faces"})
  <2>1. GravityMode(raw) = "none"
    <3>1. GravityMode(raw) # "none" => v.kind = "region"
      BY DEF GravityOf, Val
    <3> QED BY <1>1, <1>2, <3>1
  <2>2. \A x : Valid("g", x, c) <=> Valid("g", x, ctx)
    BY DEF Valid
  <2>3. CASE "g" \in DOMAIN raw
    <3>1. v = raw["g"].value
      BY <2>1, <2>3 DEF GravityOf
    <3>2. Valid("g", v, ctx)
      BY <2>3, <3>1 DEF Accepted, PassesChecks
    <3>3. ~IsWord(v, {"auto"}) /\ ~IsWord(v, {"face", "faces"})
      BY <2>1, <2>3, <3>1 DEF GravityMode
    <3> QED BY <2>2, <3>2, <3>3
  <2>4. CASE "g" \notin DOMAIN raw
    <3>1. v = Word("center")
      BY <2>1, <2>4 DEF GravityOf
    <3>2. Word("center").kind = "word" /\ Word("center").word = "center"
      BY DEF Word, Val
    <3> HIDE DEF v
    <3>3. IsWord(v, GRAVITY_KEYWORDS \cup {"auto", "face", "faces"})
      BY <3>1, <3>2 DEF IsWord, GRAVITY_KEYWORDS
    <3>4. Valid("g", v, ctx)
      BY <3>3 DEF Valid
    <3> QED BY <2>2, <3>1, <3>2, <3>4 DEF IsWord
  <2> QED BY <2>3, <2>4
<1> HIDE DEF v
<1>3. GravityMode(back) = "none"
  BY <1>1, <1>2 DEF GravityMode
<1>4. Placed(raw) => GravityOf(back, c) = v
  BY <1>1, <1>3 DEF GravityOf
<1> QED BY <1>1, <1>2, <1>3, <1>4 DEF v

\* The rotation.
LEMMA RotationBack ==
  ASSUME NEW raw, NEW ctx, Accepted(raw, ctx), NEW back, ReadBack(back, raw, ctx),
         NEW c, SameSource(ctx, c), Sayable(FormOf(raw, ctx), ctx)
  PROVE  /\ RotationOf(back, c) = RotationOf(raw, ctx)
         /\ "rot" \in DOMAIN back => Valid("rot", back["rot"].value, c)
<1> DEFINE r == RotationOf(raw, ctx)
<1>1. r \in {0, 90, 180, 270}
  <2>1. CASE "rot" \in DOMAIN raw /\ raw["rot"].value.kind = "num"
    <3>1. Valid("rot", raw["rot"].value, ctx)
      BY <2>1 DEF Accepted, PassesChecks
    <3> QED BY <2>1, <3>1 DEF RotationOf, Valid, IsWord
  <2>2. CASE ~("rot" \in DOMAIN raw /\ raw["rot"].value.kind = "num")
    BY <2>2 DEF RotationOf, Accepted
  <2> QED BY <2>1, <2>2
<1>2. /\ "rot" \in DOMAIN back <=> r # 0
      /\ r # 0 => back["rot"].value = Num(r)
      /\ r = 0 => ctx.orientation = 0
  <2>1. /\ "rot" \in FORM_PARAMS /\ (InForm("rot", raw, ctx) <=> r # 0)
        /\ ResolvedAs("rot", raw, ctx) = Num(r)
    BY FormNames DEF InForm, ResolvedAs
  <2> HIDE DEF r
  <2> QED BY <2>1, FormHas DEF ReadBack, Sayable
<1> HIDE DEF r
<1>3. CASE r # 0
  <2>1. RotationOf(back, c) = r
    BY <1>2, <1>3, NumSays DEF RotationOf
  <2>2. Valid("rot", Num(r), c)
    BY <1>1, NumSays DEF Valid
  <2> QED BY <1>2, <1>3, <2>1, <2>2 DEF r
<1>4. CASE r = 0
  BY <1>2, <1>4 DEF RotationOf, SameSource, r
<1> QED BY <1>3, <1>4
\* The effects, the flip and the rectangle.
LEMMA OthersBack ==
  ASSUME NEW raw, NEW ctx, Accepted(raw, ctx), NEW back, ReadBack(back, raw, ctx),
         NEW c, SameSource(ctx, c), NEW n \in {"blur", "sharpen", "flip", "rect"}
  PROVE  /\ n \in DOMAIN back => /\ n \in DOMAIN raw /\ back[n].value = raw[n].value
                                 /\ Valid(n, back[n].value, c)
         /\ n \in {"flip", "rect"} => (n \in DOMAIN back <=> n \in DOMAIN raw)
         /\ n \in {"blur", "sharpen"} =>
              /\ n \in DOMAIN back <=> HasEffect(raw, n)
              /\ HasEffect(back, n) <=> HasEffect(raw, n)
<1>1. /\ n \in FORM_PARAMS /\ ResolvedAs(n, raw, ctx) = raw[n].value
      /\ n \in {"flip", "rect"} => (InForm(n, raw, ctx) <=> n \in DOMAIN raw)
      /\ n \in {"blur", "sharpen"} => (InForm(n, raw, ctx) <=> HasEffect(raw, n))
  BY FormNames DEF InForm, ResolvedAs
<1>2. /\ n \in DOMAIN back <=> InForm(n, raw, ctx)
      /\ n \in DOMAIN back => back[n].value = raw[n].value
  BY <1>1, FormHas DEF ReadBack
<1>3. \A x : ~HasEffect(x, n) \/ n \in DOMAIN x
  BY DEF HasEffect, Nat0
<1>4. n \in DOMAIN back => n \in DOMAIN raw
  BY <1>1, <1>2, <1>3
<1>5. ASSUME n \in DOMAIN back PROVE Valid(n, back[n].value, c)
  <2>1. Valid(n, raw[n].value, ctx)
    BY <1>4, <1>5 DEF Accepted, PassesChecks
  <2>2. \A x : Valid(n, x, c) <=> Valid(n, x, ctx)
    BY DEF Valid, Within, SameSource
  <2> QED BY <1>2, <1>5, <2>1, <2>2
<1>6. ASSUME n \in {"blur", "sharpen"} PROVE HasEffect(back, n) <=> HasEffect(raw, n)
  <2>1. CASE n \in DOMAIN back
    BY <1>2, <1>4, <2>1 DEF HasEffect, Nat0
  <2>2. CASE n \notin DOMAIN back
    BY <1>1, <1>2, <1>3, <1>6, <2>2
  <2> QED BY <2>1, <2>2
<1> QED BY <1>1, <1>2, <1>4, <1>5, <1>6

\* The background.
LEMMA BackgroundBack ==
  ASSUME NEW raw, NEW ctx, Accepted(raw, ctx), NEW back, ReadBack(back, raw, ctx),
         NEW c, SameSource(ctx, c), Sayable(FormOf(raw, ctx), ctx)
  PROVE  /\ HasBackground(back, c) <=> HasBackground(raw, ctx)
         /\ "bg" \in DOMAIN back <=> HasBackground(raw, ctx)
         /\ ~Stray(back) /\ (HasBackground(raw, ctx) => ~Stray(raw))
         /\ "bg" \in DOMAIN back => /\ BackgroundOf(back, c) = BackgroundOf(raw, ctx)
                                    /\ Valid("bg", back["bg"].value, c)
<1> DEFINE b == BackgroundOf(raw, ctx)
<1>0. HasBackground(raw, ctx) => ~Stray(raw)
  <2> SUFFICES ASSUME HasBackground(raw, ctx), Stray(raw) PROVE FALSE
    OBVIOUS
  <2>1. "bg" \in FORM_PARAMS /\ InForm("bg", raw, ctx)
    BY FormNames DEF InForm
  <2>2. ResolvedAs("bg", raw, ctx).kind = "hex"
    BY <2>1, FormHas DEF Sayable
  <2>3. ResolvedAs("bg", raw, ctx).kind = "junk"
    BY DEF ResolvedAs, Val
  <2> QED BY <2>2, <2>3
<1>1. /\ "bg" \in DOMAIN back <=> HasBackground(raw, ctx)
      /\ "bg" \in DOMAIN back => back["bg"].value = Val("hex", "", b)
  <2>1. "bg" \in FORM_PARAMS /\ (InForm("bg", raw, ctx) <=> HasBackground(raw, ctx))
    BY FormNames DEF InForm
  <2>2. HasBackground(raw, ctx) => ResolvedAs("bg", raw, ctx) = Val("hex", "", b)
    BY <1>0 DEF ResolvedAs
  <2> HIDE DEF b
  <2> QED BY <2>1, <2>2, FormHas DEF ReadBack
<1>2. (Padded(back) <=> Padded(raw)) /\ FormatOf(back, c) = FormatOf(raw, ctx)
  BY PlacedBack, FormatBack
<1>3. HasBackground(back, c) <=> HasBackground(raw, ctx)
  BY <1>1, <1>2 DEF HasBackground
<1>4. Val("hex", "", b).kind = "hex" /\ Val("hex", "", b).nums = b
  BY DEF Val
<1>5. ASSUME "bg" \in DOMAIN back PROVE BackgroundOf(back, c) = b
  <2>1. BackgroundOf(back, c) = IF Padded(raw) THEN b ELSE <<b[1]>>
    <3> HIDE DEF b
    <3>1. ColorOf(back["bg"].value) = b
      BY <1>1, <1>4, <1>5 DEF ColorOf
    <3> QED BY <1>2, <1>5, <3>1 DEF BackgroundOf
  <2>2. CASE Padded(raw)
    BY <2>1, <2>2
  <2>3. CASE ~Padded(raw)
    <3>1. "bg" \in DOMAIN raw
      BY <1>1, <1>5, <2>3 DEF HasBackground
    <3>2. b = <<ColorOf(raw["bg"].value)[1]>>
      BY <2>3, <3>1 DEF BackgroundOf
    <3>3. \A x : <<x>>[1] = x
      OBVIOUS
    <3> HIDE DEF b
    <3> QED BY <2>1, <2>3, <3>2, <3>3
  <2> QED BY <2>2, <2>3
<1>6. "bg" \in DOMAIN back => Valid("bg", back["bg"].value, c)
  BY <1>1, <1>4 DEF Valid
<1>7. ~Stray(back)
  BY <1>1, <1>4 DEF Stray, IsWord
<1> QED BY <1>0, <1>1, <1>3, <1>5, <1>6, <1>7

\* What is read back passes every check.
LEMMA ReadBackPasses ==
  ASSUME NEW raw, NEW ctx, Accepted(raw, ctx), NEW back, ReadBack(back, raw, ctx),
         NEW c, SameSource(ctx, c), Sayable(FormOf(raw, ctx), ctx)
  PROVE  /\ \A n \in DOMAIN back : Valid(n, back[n].value, c)
         /\ ~OverSpecified(back) /\ ~RatioTooLarge(back)
         /\ ~NoResolver(back, c) /\ ~SlicesNoText(back, c) /\ ~OverBudget(back, c)
<1>1. ASSUME NEW n \in DOMAIN back PROVE Valid(n, back[n].value, c)
  <2>1. n \in FORM_PARAMS
    BY FormNames DEF ReadBack
  <2>2. InForm(n, raw, ctx)
    BY <2>1, FormHas DEF ReadBack
  <2>3. CASE n \in {"w", "h"}
    BY <2>3, SizeBack
  <2>4. CASE n \in {"dpr", "fit"}
    <3>1. Resizing(raw)
      BY <2>2, <2>4 DEF InForm
    <3> QED BY <2>4, <3>1, FitBack
  <2>5. CASE n = "g"
    BY <2>5, GravityBack
  <2>6. CASE n = "f"
    BY <2>6, FormatBack
  <2>7. CASE n = "q"
    BY <2>2, <2>7, QualityBack
  <2>8. CASE n = "bg"
    BY <2>8, BackgroundBack
  <2>9. CASE n = "rot"
    BY <2>9, RotationBack
  <2>10. CASE n \in {"blur", "sharpen", "flip", "rect"}
    BY <2>10, OthersBack
  <2> QED BY <2>1, <2>3, <2>4, <2>5, <2>6, <2>7, <2>8, <2>9, <2>10, FormNames
<1>2. ~OverSpecified(back) /\ ~RatioTooLarge(back)
  BY SizeBack
<1>3. ~NoResolver(back, c)
  BY GravityBack DEF NoResolver
<1>4. ~OverBudget(back, c)
  <2>1. CASE ~Resizing(raw)
    BY <2>1, SizeBack DEF OverBudget
  <2>2. CASE Resizing(raw)
    <3>1. /\ FinalSize(back, c) = FinalSize(raw, ctx)
          /\ EffectiveDpr(back) = EffectiveDpr(raw)
      BY <2>2, SizeBack, FitBack
    <3>2. /\ "rect" \in DOMAIN back <=> "rect" \in DOMAIN raw
          /\ "rect" \in DOMAIN back => back["rect"].value = raw["rect"].value
      BY OthersBack
    <3>3. OutputSize(back, c) = OutputSize(raw, ctx)
      BY <3>1, <3>2 DEF OutputSize, SameSource
    <3>4. ~OverBudget(raw, ctx)
      BY DEF Accepted, PassesChecks
    <3> QED BY <2>2, <3>1, <3>3, <3>4 DEF OverBudget
  <2> QED BY <2>1, <2>2
<1>5. ~SlicesNoText(back, c)
  BY BackgroundBack DEF SlicesNoText
<1> QED BY <1>1, <1>2, <1>3, <1>4, <1>5

\* And has the same form.
LEMMA ReadBackForm ==
  ASSUME NEW raw, NEW ctx, Accepted(raw, ctx), NEW back, ReadBack(back, raw, ctx),
         NEW c, SameSource(ctx, c), Sayable(FormOf(raw, ctx), ctx)
  PROVE  FormOf(back, c) = FormOf(raw, ctx)
<1>1. ASSUME NEW n \in FORM_PARAMS
      PROVE  /\ InForm(n, back, c) <=> InForm(n, raw, ctx)
             /\ InForm(n, raw, ctx) => ResolvedAs(n, back, c) = ResolvedAs(n, raw, ctx)
  <2>1. CASE n \in {"w", "h"}
    <3>1. FinalSize(back, c) = FinalSize(raw, ctx)
      BY SizeBack
    <3> QED BY <2>1, <3>1 DEF InForm, ResolvedAs
  <2>2. CASE n \in {"dpr", "fit"}
    <3>1. Resizing(back) <=> Resizing(raw)
      BY SizeBack
    <3>2. Resizing(raw) => /\ EffectiveFit(back) = EffectiveFit(raw)
                           /\ EffectiveDpr(back) = EffectiveDpr(raw)
      BY FitBack
    <3> QED BY <2>2, <3>1, <3>2 DEF InForm, ResolvedAs
  <2>3. CASE n = "g"
    <3>1. /\ Placed(back) <=> Placed(raw)
          /\ Placed(raw) => GravityOf(back, c) = GravityOf(raw, ctx)
      BY PlacedBack, GravityBack
    <3> QED BY <2>3, <3>1 DEF InForm, ResolvedAs
  <2>4. CASE n = "f"
    BY <2>4, FormatBack DEF InForm, ResolvedAs
  <2>5. CASE n = "q"
    BY <2>5, QualityBack
  <2>6. CASE n = "bg"
    <3>1. /\ HasBackground(back, c) <=> HasBackground(raw, ctx)
          /\ HasBackground(raw, ctx) =>
               /\ BackgroundOf(back, c) = BackgroundOf(raw, ctx)
               /\ ~Stray(raw) /\ ~Stray(back)
      BY BackgroundBack
    <3> QED BY <2>6, <3>1 DEF InForm, ResolvedAs
  <2>7. CASE n = "rot"
    <3>1. RotationOf(back, c) = RotationOf(raw, ctx)
      BY RotationBack
    <3> QED BY <2>7, <3>1 DEF InForm, ResolvedAs
  <2>8. CASE n \in {"blur", "sharpen"}
    <3>1. /\ HasEffect(back, n) <=> HasEffect(raw, n)
          /\ HasEffect(raw, n) => back[n].value = raw[n].value
      BY <2>8, OthersBack
    <3> QED BY <2>8, <3>1 DEF InForm, ResolvedAs
  <2>9. CASE n \in {"flip", "rect"}
    <3>1. /\ n \in DOMAIN back <=> n \in DOMAIN raw
          /\ n \in DOMAIN raw => back[n].value = raw[n].value
      BY <2>9, OthersBack
    <3> QED BY <2>9, <3>1 DEF InForm, ResolvedAs
  <2> QED BY <2>1, <2>2, <2>3, <2>4, <2>5, <2>6, <2>7, <2>8, <2>9, FormNames
<1>2. {n \in FORM_PARAMS : InForm(n, back, c)} = {n \in FORM_PARAMS : InForm(n, raw, ctx)}
  BY <1>1
<1> QED BY <1>1, <1>2, Zenon DEF FormOf

-----------------------------------------------------------------------------
(***************************************************************************)
(* For every query and context: the canonical form of an accepted request, *)
(* sent as a query with any Accept header, is accepted and is its own      *)
(* canonical form (canonicalize.ts, step 9: nothing is left to resolve).   *)
(***************************************************************************)
THEOREM SelfContainedForms == TransformSpec => []FormIsSelfContained
<1>1. TransformInv /\ RequestInv => FormIsSelfContained
  <2> DEFINE raw == Raw(query)
             form == FormOf(raw, context)
  <2> SUFFICES ASSUME TransformInv, RequestInv, result.verdict = "ok",
                      Sayable(result.form, context), NEW a \in Contexts
               PROVE  Identity(AsQuery(result.form), [context EXCEPT !.accept = a.accept])
                        = [accepted |-> TRUE, form |-> result.form]
    BY DEF FormIsSelfContained, Sayable
  <2> DEFINE c == [context EXCEPT !.accept = a.accept]
             q == AsQuery(form)
             back == Raw(q)
  <2>1. result # Pending
    BY DEF Pending, Refusal
  <2>2. Canonicalize(query, context).verdict = "ok" /\ result.form = form
    BY <2>1, AcceptedForm DEF TransformInv
  <2>3. Accepted(raw, context)
    <3>1. PassesChecks(raw, context)
      BY <2>2, AcceptedForm
    <3>2. Verdict(query, raw, context) = "ok"
      BY <2>2 DEF Canonicalize, Refusal
    <3>3. ~RatioTooLarge(raw)
      BY <3>2 DEF Verdict
    <3> QED BY <3>1, <3>3, ContextsAssumption
            DEF Accepted, RequestInv, ContextsAssumption
  <2>4. SameSource(context, c)
    BY ContextsAssumption DEF SameSource, RequestInv, ContextsAssumption
  <2> HIDE DEF raw, c
  <2>5. \A n \in DOMAIN form : form[n].kind # "undecodable"
    <3> TAKE n \in DOMAIN form
    <3>1. \A s : s = [m \in DOMAIN form |-> [value |-> form[m]]] => ReadBack(s, raw, context)
      BY DEF ReadBack
    <3> DEFINE s == [m \in DOMAIN form |-> [value |-> form[m]]]
    <3>2. ReadBack(s, raw, context)
      BY <3>1
    <3>3. n \in DOMAIN s /\ s[n].value = form[n]
      OBVIOUS
    <3>4. Sayable(form, context)
      BY <2>2
    <3> HIDE DEF s, form
    <3>5. Valid(n, s[n].value, c)
      BY <2>3, <2>4, <3>2, <3>3, <3>4, ReadBackPasses DEF form
    <3>6. n \in CANONICAL_PARAMS \ DELIVERY
      BY FormNames DEF form
    <3> QED BY <3>3, <3>5, <3>6, ValidDecodes
  <2>6. PairsAccepted(q, c) /\ ReadBack(back, raw, context)
    <3>1. DOMAIN form \subseteq FORM_PARAMS
      BY FormNames
    <3> HIDE DEF form
    <3>2. /\ PairsAccepted(q, c) /\ DOMAIN back = DOMAIN form
          /\ \A n \in DOMAIN form : back[n].value = form[n]
      BY <2>5, <3>1, FormAsQuery
    <3> QED BY <3>2 DEF ReadBack, form
  <2>7. Sayable(form, context)
    BY <2>2
  <2> HIDE DEF back
  <2>8. /\ \A n \in DOMAIN back : Valid(n, back[n].value, c)
        /\ ~OverSpecified(back) /\ ~RatioTooLarge(back)
        /\ ~NoResolver(back, c) /\ ~SlicesNoText(back, c) /\ ~OverBudget(back, c)
        /\ FormOf(back, c) = form
    BY <2>3, <2>4, <2>6, <2>7, ReadBackPasses, ReadBackForm
  <2> HIDE DEF form, q
  <2>9. Verdict(q, back, c) = "ok"
    BY <2>6, <2>8 DEF Verdict
  <2>10. Canonicalize(q, c).verdict = "ok" /\ Canonicalize(q, c).form = form
    BY <2>8, <2>9 DEF Canonicalize, back
  <2>11. Identity(q, c) = [accepted |-> TRUE, form |-> form]
    BY <2>10 DEF Identity
  <2> QED BY <2>2, <2>11 DEF q, c
<1> QED BY <1>1, Answers, RequestStays, PTL

-----------------------------------------------------------------------------
(***************************************************************************)
(* Signed URLs.                                                            *)
(***************************************************************************)
\* A token is over before what presigning answered, and names its size.
Signed(i) ==
  /\ i.expiresAt \in Nat /\ i.token.e \in Nat
  /\ i.token.e * TicksPerSecond <= i.expiresAt
  /\ i.token.m = "PUT" => i.token.max \in Sizes \cup {NoLimit}

\* A body under way is within what a PUT URL allows that was valid when the
\* request began.
Promised(r) ==
  /\ r = [token |-> r.token, declared |-> r.declared, total |-> r.total,
          since |-> r.since]
  /\ r.token.m = "PUT" /\ r.token.max \in Sizes \cup {NoLimit}
  /\ r.total \in Nat /\ r.total <= Limit(r.token)
  /\ Limit(r.token) <= UploadMaxBytes
  /\ \E i \in issued : i.token = r.token /\ r.since < i.expiresAt

\* An object was a promised upload when it was put, a read a valid GET URL.
StoredAsPromised(k) ==
  stored[k] # Absent =>
    \E i \in issued :
      /\ i.token.m = "PUT" /\ i.token.k = k
      /\ i.token.ct = stored[k].type
      /\ i.token.max # NoLimit => stored[k].size <= i.token.max
      /\ stored[k].size <= UploadMaxBytes
      /\ stored[k].since < i.expiresAt

ServedAsPromised(s) ==
  \E i \in issued :
    i.token.m = "GET" /\ i.token.k = s.k /\ s.at < i.expiresAt

ProxyInv ==
  /\ tick \in Nat /\ DOMAIN upload = Uploads /\ DOMAIN stored = ObjectKeys
  /\ \A i \in issued : Signed(i)
  /\ \A u \in Uploads : upload[u] # NoUpload => Promised(upload[u])
  /\ \A k \in ObjectKeys : StoredAsPromised(k)
  /\ \A s \in served : ServedAsPromised(s)

\* Rounding an expiry down to seconds never lengthens it.
LEMMA SecondsRoundDown ==
  ASSUME NEW t \in Nat
  PROVE  Seconds(t) \in Nat /\ Seconds(t) * TicksPerSecond <= t
BY DEF Seconds, TicksPerSecond

\* What was promised by the tokens issued so far is promised by more tokens.
LEMMA IssueKeeps ==
  ASSUME ProxyInv, NEW token, NEW expiresAt, Issue(token, expiresAt),
         Signed([token |-> token, expiresAt |-> expiresAt])
  PROVE  ProxyInv'
<1>1. issued \subseteq issued'
  BY DEF Issue
<1>2. \A i \in issued' : Signed(i)'
  BY DEF Issue, ProxyInv, Signed
<1>3. ASSUME NEW u \in Uploads, upload'[u] # NoUpload
      PROVE  Promised(upload[u])'
  BY <1>1, <1>3 DEF Issue, ProxyInv, Promised, Limit
<1>4. \A k \in ObjectKeys : StoredAsPromised(k)'
  BY <1>1 DEF Issue, ProxyInv, StoredAsPromised
<1>5. \A s \in served' : ServedAsPromised(s)'
  BY <1>1 DEF Issue, ProxyInv, ServedAsPromised
<1> QED BY <1>2, <1>3, <1>4, <1>5 DEF Issue, ProxyInv

\* A request that ends without an object (a failure) leaves the others.
LEMMA UploadKeeps ==
  ASSUME ProxyInv, NEW u \in Uploads, NEW r,
         upload' = [upload EXCEPT ![u] = r],
         r # NoUpload => Promised(r),
         UNCHANGED <<tick, issued>>
  PROVE  /\ DOMAIN upload' = Uploads
         /\ \A v \in Uploads : upload'[v] # NoUpload => Promised(upload[v])'
<1> USE DEF ProxyInv
<1>1. DOMAIN upload' = Uploads
  OBVIOUS
<1>2. ASSUME NEW v \in Uploads, upload'[v] # NoUpload
      PROVE  Promised(upload[v])'
  <2>1. Promised(upload'[v])
    BY <1>2
  <2> QED BY <2>1 DEF Promised, Limit
<1> QED BY <1>1, <1>2

\* Every step of the proxy keeps its invariant.
LEMMA ProxyStep == ProxyInv /\ [ProxyNext]_proxyVars => ProxyInv'
<1> SUFFICES ASSUME ProxyInv, [ProxyNext]_proxyVars PROVE ProxyInv'
  OBVIOUS
<1> USE ProxyAssumption DEF ProxyAssumption
<1>1. ASSUME NEW k \in ObjectKeys, NEW l \in Lifetimes, PresignGet(k, l)
      PROVE  ProxyInv'
  <2> DEFINE expiresAt == tick + l * TicksPerSecond
             token == [k |-> k, m |-> "GET", e |-> Seconds(expiresAt)]
  <2>1. expiresAt \in Nat
    BY DEF ProxyInv, TicksPerSecond
  <2>2. Signed([token |-> token, expiresAt |-> expiresAt])
    BY <2>1, SecondsRoundDown DEF Signed
  <2>3. Issue(token, expiresAt)
    BY <1>1 DEF PresignGet
  <2> QED BY <2>2, <2>3, IssueKeeps
<1>2. ASSUME NEW k \in ObjectKeys, NEW l \in Lifetimes, NEW type \in Types,
             NEW max \in Sizes \cup {NoLimit}, PresignPut(k, type, max, l)
      PROVE  ProxyInv'
  <2> DEFINE expiresAt == tick + l * TicksPerSecond
             token == [k |-> k, m |-> "PUT", e |-> Seconds(expiresAt),
                       ct |-> type, max |-> max]
  <2>1. expiresAt \in Nat
    BY DEF ProxyInv, TicksPerSecond
  <2>2. Signed([token |-> token, expiresAt |-> expiresAt])
    BY <2>1, SecondsRoundDown DEF Signed
  <2>3. Issue(token, expiresAt)
    BY <1>2 DEF PresignPut
  <2> QED BY <2>2, <2>3, IssueKeeps
<1>3. ASSUME NEW u \in Uploads, NEW token \in Presented, NEW type \in Types,
             NEW declared \in Sizes \cup {NoLimit},
             PutBegins(u, token, type, declared)
      PROVE  ProxyInv'
  <2> DEFINE r == [token |-> token, declared |-> declared, total |-> 0,
                   since |-> tick]
  <2>1. PICK i \in issued : i.token = token
    BY DEF Presented
  <2>2. /\ token.m = "PUT" /\ token.e * TicksPerSecond > tick
        /\ token.max # NoLimit => token.max <= UploadMaxBytes
    BY <1>3 DEF PutBegins, Verified
  <2>3. Signed(i) /\ tick \in Nat
    BY DEF ProxyInv
  <2>4. tick < i.expiresAt
    BY <2>1, <2>2, <2>3 DEF Signed, TicksPerSecond
  <2>5. token.max \in Sizes \cup {NoLimit}
    BY <2>1, <2>2, <2>3 DEF Signed
  <2>6. 0 <= Limit(token) /\ Limit(token) <= UploadMaxBytes
    <3>1. CASE token.max = NoLimit
      <4>1. Limit(token) = UploadMaxBytes
        BY <3>1 DEF Limit
      <4> QED BY <4>1
    <3>2. CASE token.max # NoLimit
      <4>1. Limit(token) = token.max /\ token.max \in Nat
        BY <2>5, <3>2 DEF Limit
      <4> QED BY <2>2, <3>2, <4>1
    <3> QED BY <3>1, <3>2
  <2>7. Promised(r)
    BY <2>1, <2>2, <2>4, <2>5, <2>6 DEF Promised
  <2>8. /\ upload' = [upload EXCEPT ![u] = r]
        /\ UNCHANGED <<tick, issued, stored, served>>
    BY <1>3 DEF PutBegins
  <2>9. /\ DOMAIN upload' = Uploads
        /\ \A v \in Uploads : upload'[v] # NoUpload => Promised(upload[v])'
    BY <2>7, <2>8, UploadKeeps
  <2> QED BY <2>8, <2>9 DEF ProxyInv, Signed, StoredAsPromised, ServedAsPromised
<1>4. ASSUME NEW u \in Uploads, ReadChunk(u) PROVE ProxyInv'
  <2> DEFINE r == upload[u]
             longer == [r EXCEPT !.total = @ + 1]
             next == IF longer.total > Limit(r.token) THEN NoUpload ELSE longer
  <2>1. Promised(r)
    BY <1>4 DEF ReadChunk, ProxyInv
  <2>2. /\ upload' = [upload EXCEPT ![u] = next]
        /\ UNCHANGED <<tick, issued, stored, served>>
    BY <1>4 DEF ReadChunk
  <2>3. ASSUME next # NoUpload PROVE Promised(next)
    <3>1. next = longer /\ ~(longer.total > Limit(r.token))
      BY <2>3
    <3>2. r.total \in Nat /\ Limit(r.token) \in Nat
      BY <2>1 DEF Promised, Limit
    <3>3. /\ longer.token = r.token /\ longer.since = r.since
          /\ longer.total = r.total + 1
          /\ longer = [token |-> longer.token, declared |-> longer.declared,
                       total |-> longer.total, since |-> longer.since]
      BY <2>1 DEF Promised
    <3>4. longer.total \in Nat /\ longer.total <= Limit(longer.token)
      BY <2>1, <3>1, <3>2, <3>3 DEF Promised
    <3> QED BY <2>1, <3>1, <3>3, <3>4 DEF Promised
  <2>4. /\ DOMAIN upload' = Uploads
        /\ \A v \in Uploads : upload'[v] # NoUpload => Promised(upload[v])'
    BY <2>2, <2>3, UploadKeeps
  <2> QED BY <2>2, <2>4 DEF ProxyInv, Signed, StoredAsPromised, ServedAsPromised
<1>5. ASSUME NEW u \in Uploads, PutFails(u) PROVE ProxyInv'
  <2>1. /\ DOMAIN upload' = Uploads
        /\ \A v \in Uploads : upload'[v] # NoUpload => Promised(upload[v])'
    BY <1>5, UploadKeeps DEF PutFails
  <2> QED BY <1>5, <2>1
          DEF PutFails, ProxyInv, Signed, StoredAsPromised, ServedAsPromised
<1>6. ASSUME NEW u \in Uploads, PutEnds(u) PROVE ProxyInv'
  <2> DEFINE r == upload[u]
             object == [size |-> r.total, type |-> r.token.ct,
                        since |-> r.since]
  <2>1. Promised(r)
    BY <1>6 DEF PutEnds, ProxyInv
  <2>2. /\ stored' = [stored EXCEPT ![r.token.k] = object]
        /\ upload' = [upload EXCEPT ![u] = NoUpload]
        /\ UNCHANGED <<tick, issued, served>>
    BY <1>6 DEF PutEnds
  <2>3. /\ DOMAIN upload' = Uploads
        /\ \A v \in Uploads : upload'[v] # NoUpload => Promised(upload[v])'
    BY <2>2, UploadKeeps
  <2>4. PICK i \in issued : i.token = r.token /\ r.since < i.expiresAt
    BY <2>1 DEF Promised
  <2>5. /\ r.total <= UploadMaxBytes
        /\ r.token.max # NoLimit => r.total <= r.token.max
    <3>1. /\ r.total \in Nat /\ r.total <= Limit(r.token)
          /\ Limit(r.token) <= UploadMaxBytes
          /\ r.token.max \in Sizes \cup {NoLimit}
      BY <2>1 DEF Promised
    <3>2. Limit(r.token) \in Nat
      BY <3>1 DEF Limit
    <3>3. r.token.max # NoLimit => Limit(r.token) = r.token.max
      BY DEF Limit
    <3> QED BY <3>1, <3>2, <3>3
  <2>6. ASSUME NEW k \in ObjectKeys PROVE StoredAsPromised(k)'
    <3>1. CASE k = r.token.k
      <4>1. stored'[k] = object
        BY <2>2, <3>1 DEF ProxyInv
      <4>2. /\ i.token.m = "PUT" /\ i.token.k = k /\ i.token.ct = object.type
            /\ i.token.max # NoLimit => object.size <= i.token.max
            /\ object.size <= UploadMaxBytes /\ object.since < i.expiresAt
        BY <2>1, <2>4, <2>5, <3>1 DEF Promised
      <4> QED BY <2>2, <4>1, <4>2 DEF StoredAsPromised
    <3>2. CASE k # r.token.k
      BY <2>2, <3>2 DEF ProxyInv, StoredAsPromised
    <3> QED BY <3>1, <3>2
  <2>7. DOMAIN stored' = ObjectKeys
    BY <2>2 DEF ProxyInv
  <2> QED BY <2>2, <2>3, <2>6, <2>7 DEF ProxyInv, Signed, ServedAsPromised
<1>7. ASSUME NEW token \in Presented, Get(token) PROVE ProxyInv'
  <2>1. PICK i \in issued : i.token = token
    BY DEF Presented
  <2>2. /\ i.token.m = "GET" /\ i.token.e * TicksPerSecond > tick
        /\ Signed(i) /\ tick \in Nat
    BY <1>7, <2>1 DEF Get, Verified, ProxyInv
  <2>3. tick < i.expiresAt
    BY <2>2 DEF Signed, TicksPerSecond
  <2>4. ASSUME NEW s \in served' PROVE ServedAsPromised(s)'
    BY <1>7, <2>1, <2>2, <2>3 DEF Get, ProxyInv, ServedAsPromised
  <2> QED BY <1>7, <2>4
          DEF Get, ProxyInv, Signed, Promised, Limit, StoredAsPromised
<1>8. CASE PassTick
  BY <1>8 DEF PassTick, ProxyInv, Signed, Promised, Limit, StoredAsPromised,
              ServedAsPromised
<1>9. CASE UNCHANGED proxyVars
  BY <1>9 DEF proxyVars, ProxyInv, Signed, Promised, Limit, StoredAsPromised,
              ServedAsPromised
<1> QED
  BY <1>1, <1>2, <1>3, <1>4, <1>5, <1>6, <1>7, <1>8, <1>9 DEF ProxyNext

(***************************************************************************)
(* Whatever tokens are presented, to which method, how often and when,     *)
(* each object is stored and each read answered as a URL promised that was *)
(* valid when the request began (proxy-presign.ts verifyProxyToken,        *)
(* storage-proxy.routes.ts).                                               *)
(***************************************************************************)
THEOREM StoredAndServedAsPresigned == ProxySpec => []OnlyAsPresigned
<1>1. ProxyInit => ProxyInv
  BY DEF ProxyInit, ProxyInv, StoredAsPromised
<1>2. ProxyInv => OnlyAsPresigned
  BY DEF ProxyInv, StoredAsPromised, ServedAsPromised, OnlyAsPresigned
<1> QED BY <1>1, <1>2, ProxyStep, PTL DEF ProxySpec
================================================================================
