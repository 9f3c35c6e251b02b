-------------------------- MODULE TransformParams --------------------------
(***************************************************************************)
(* The canonicalization of transformation parameters: canonicalize and its *)
(* tables (packages/transform-params).  A query becomes one canonical form *)
(* or an error; the form is the identity of a derivative.                  *)
(*                                                                         *)
(* A query is a sequence of pairs of a key and a decoded value.  A value   *)
(* is a record that says what its text is: "num" (digits), "tenths" (d.d), *)
(* "ratio" (a:b), "point" (x,y within 0..1, in ten-thousandths), "rect",   *)
(* "hex" (6 or 8 digits, one or two numbers), "region" (what a gravity     *)
(* resolves to), "word", or "junk" that no parameter accepts.  Two texts   *)
(* of one number are one value, as they are one value in the form.         *)
(***************************************************************************)
EXTENDS Integers, Sequences, FiniteSets, SequencesExt, CssColors

CONSTANTS
  Queries,     \* the queries that clients send (a bound)
  Contexts,    \* source facts, project settings, Accept header (a bound)
  NearMisses   \* the foreign keys that isNearMiss takes for a slip

\* What every object of the language inherits, and a table with it.
ObjectPrototype ==
  {"constructor", "__proto__", "toString", "toLocaleString", "valueOf",
   "hasOwnProperty", "isPrototypeOf", "propertyIsEnumerable",
   "__defineGetter__", "__defineSetter__", "__lookupGetter__",
   "__lookupSetter__"}

\* No key is an inherited name: COMPATIBILITY_KEYS[key] would find a function.
ASSUME QueriesAssumption ==
  \A q \in Queries :
    /\ q \in Seq([key : STRING,
                  value : [kind : STRING, word : STRING, nums : Seq(Nat)]])
    /\ \A i \in DOMAIN q : q[i].key \notin ObjectPrototype
ASSUME ContextsAssumption ==
  \A c \in Contexts :
    /\ DOMAIN c = {"width", "height", "orientation", "accept", "ladder", "strict",
                   "regions"}
    /\ c.orientation \in {0, 90, 180, 270}
ASSUME NearMissesAssumption == "utm_source" \notin NearMisses

VARIABLES
  query,       \* the query of the request
  context,     \* its CanonicalizeContext
  result       \* what canonicalize returned or threw, Pending before

transformVars == <<query, context, result>>

-----------------------------------------------------------------------------
(***************************************************************************)
(* Values                                                                  *)
(***************************************************************************)
Val(kind, word, nums) == [kind |-> kind, word |-> word, nums |-> nums]
Word(s) == Val("word", s, <<>>)
Num(n) == Val("num", "", <<n>>)
Tenths(n) == Val("tenths", "", <<n>>)

IsNum(v, lo, hi) == v.kind = "num" /\ v.nums[1] \in lo..hi
IsWord(v, words) == v.kind = "word" /\ v.word \in words

-----------------------------------------------------------------------------
(***************************************************************************)
(* The vocabulary and the versioned tables                                 *)
(***************************************************************************)
DELIVERY == {"dl", "exp", "sig"}

CANONICAL_PARAMS == DELIVERY \cup {"w", "h", "ar", "dpr", "fit", "g", "rect",
  "f", "q", "bg", "blur", "sharpen", "rot", "flip"}

NAME_ALIASES ==
  [width |-> "w", height |-> "h", aspect |-> "ar", ratio |-> "ar",
   gravity |-> "g", position |-> "g", focus |-> "g", fo |-> "g", crop |-> "g",
   format |-> "f", fm |-> "f", quality |-> "q", background |-> "bg",
   bl |-> "blur", sharp |-> "sharpen", rotate |-> "rot", download |-> "dl",
   s |-> "sig"]

FIT_VALUES ==
  {"scale-down", "cover", "contain", "fill", "inside", "outside", "none"}

FIT_VALUE_ALIASES ==
  [max |-> "scale-down", crop |-> "cover", pad |-> "contain",
   squeeze |-> "fill", scale |-> "fill", clip |-> "inside", min |-> "outside"]

\* Cloudinary's c= and imgix's auto=: the value decides the parameters.
COMPATIBILITY_KEYS ==
  LET fit(v) == [fit |-> Word(v)]
      both == [f |-> Word("auto"), q |-> Word("auto")]
      list == {"format,compress", "compress,format"}
  IN [c |-> [fill |-> fit("cover"), fit |-> fit("inside"),
             scale |-> fit("fill"), pad |-> fit("contain")],
      auto |-> [v \in {"format", "compress"} \cup list |->
                  CASE v = "format"   -> [f |-> Word("auto")]
                    [] v = "compress" -> [q |-> Word("auto")]
                    [] v \in list     -> both]]

KNOWN_NAMES ==
  CANONICAL_PARAMS \cup DOMAIN NAME_ALIASES \cup DOMAIN COMPATIBILITY_KEYS

\* The inherited names that survive bg's toLowerCase: the look-up finds
\* something there which is no colour.
INHERITED == {"constructor", "__proto__"}

GRAVITY_KEYWORDS == {"center", "top", "bottom", "left", "right", "top-left",
  "top-right", "bottom-left", "bottom-right"}

TRANSFORM_MAX_DIMENSION_PX == 8192
TRANSFORM_MAX_PIXELS == 25000000
AR_PART_MAX == 1000
EFFECT_MAX == 100

DIMENSION_LADDER == {16, 32, 48, 64, 96, 128, 256, 384, 640, 750, 828, 1080,
  1200, 1920, 2048, 3840}

QUALITY_TABLE == [avif |-> 50, webp |-> 75, jpeg |-> 80]

-----------------------------------------------------------------------------
(***************************************************************************)
(* Steps 1-5: parse, partition, discard, alias.  "%" is a key that does    *)
(* not decode, and "undecodable" a value that does not.                    *)
(***************************************************************************)
Decodes(p) == p.key # "%" /\ p.value.kind # "undecodable"

\* c=constructor finds a function that cannot be iterated: refused as well, by
\* a TypeError.
Mapped(p) == IsWord(p.value, DOMAIN COMPATIBILITY_KEYS[p.key])

\* The canonical parameters a pair gives, with their values.
Gives(p) ==
  CASE p.key \in DOMAIN COMPATIBILITY_KEYS ->
         IF Mapped(p) THEN COMPATIBILITY_KEYS[p.key][p.value.word] ELSE <<>>
    [] p.key \in CANONICAL_PARAMS    -> [n \in {p.key} |-> p.value]
    [] p.key \in DOMAIN NAME_ALIASES -> [n \in {NAME_ALIASES[p.key]} |-> p.value]
    [] OTHER                         -> <<>>

\* The places of the pairs that give a parameter, and what one of them gives.
Givers(q, n) == {i \in DOMAIN q : Decodes(q[i]) /\ n \in DOMAIN Gives(q[i])}
GivenBy(p, n) == [value |-> Gives(p)[n], from |-> p.key]

\* A plausible slip: the first of two duplicates wins.
Raw_FirstWins(q) ==
  [n \in {m \in CANONICAL_PARAMS : Givers(q, m) # {}} |->
     GivenBy(q[Min(Givers(q, n))], n)]

\* The map raw: the last pair that gives a parameter decides it.
Raw(q) ==
  [n \in {m \in CANONICAL_PARAMS : Givers(q, m) # {}} |->
     GivenBy(q[Max(Givers(q, n))], n)]

Foreign(q) == {p.key : p \in {r \in ToSet(q) : Decodes(r)}} \ KNOWN_NAMES

PairsAccepted(q, ctx) ==
  /\ \A p \in ToSet(q) :
       /\ p.value.kind = "undecodable" => p.key \notin KNOWN_NAMES
       /\ p.key \in DOMAIN COMPATIBILITY_KEYS => Mapped(p)
  /\ Foreign(q) \cap NearMisses = {}
  /\ ctx.strict => Foreign(q) = {}

-----------------------------------------------------------------------------
(***************************************************************************)
(* Steps 6-7: coerce and validate.                                         *)
(***************************************************************************)
Within(r, ctx) ==
  /\ r[3] >= 1 /\ r[4] >= 1
  /\ r[1] + r[3] <= ctx.width /\ r[2] + r[4] <= ctx.height

FitOf(v) ==
  IF v.word \in DOMAIN FIT_VALUE_ALIASES THEN FIT_VALUE_ALIASES[v.word]
                                         ELSE v.word

ColorOf(v) == IF v.kind = "hex" THEN v.nums ELSE CSS_NAMED_COLORS[v.word]

\* dpr in tenths: one digit, or one digit, a point and one digit.
DprOf(v) == IF v.kind = "num" THEN 10 * v.nums[1] ELSE v.nums[1]

Valid(n, v, ctx) ==
  /\ n \in {"w", "h"} => IsNum(v, 1, TRANSFORM_MAX_DIMENSION_PX)
  /\ n = "ar" => v.kind = "ratio" /\ \A i \in 1..2 : v.nums[i] \in 1..AR_PART_MAX
  /\ n = "dpr" => (v.kind = "tenths" \/ IsNum(v, 0, 9)) /\ DprOf(v) \in 5..30
  /\ n = "fit" => IsWord(v, FIT_VALUES \cup DOMAIN FIT_VALUE_ALIASES)
  /\ n = "g" => \/ v.kind = "point" /\ \A i \in 1..2 : v.nums[i] \in 0..10000
                \/ IsWord(v, GRAVITY_KEYWORDS \cup {"auto", "face", "faces"})
  /\ n = "rect" => v.kind = "rect" /\ Within(v.nums, ctx)
  /\ n = "f" => IsWord(v, {"auto", "avif", "webp", "jpeg", "png"})
  /\ n = "q" => IsWord(v, {"auto"}) \/ IsNum(v, 1, 100)
  /\ n = "bg" => \/ v.kind = "hex"
                 \/ IsWord(v, DOMAIN CSS_NAMED_COLORS \cup INHERITED)
  /\ n \in {"blur", "sharpen"} => IsNum(v, 0, EFFECT_MAX)
  /\ n = "rot" => \/ v.kind = "num" /\ v.nums[1] \in {0, 90, 180, 270}
                  \/ IsWord(v, {"auto"})
  /\ n = "flip" => IsWord(v, {"h", "v", "hv"})
  /\ n = "dl" => v.kind # "junk"

-----------------------------------------------------------------------------
(***************************************************************************)
(* Step 8: combine.  0 stands for a dimension that is undefined.           *)
(***************************************************************************)
Nat0(raw, n) == IF n \in DOMAIN raw THEN raw[n].value.nums[1] ELSE 0

OverSpecified(raw) ==
  "ar" \in DOMAIN raw /\ ("w" \in DOMAIN raw <=> "h" \in DOMAIN raw)

\* Math.round(n / d): halves go up.
RoundedRatio(n, d) == (2 * n + d) \div (2 * d)
AtLeastOne(n) == IF n < 1 THEN 1 ELSE n

\* A plausible slip: the ratio is applied the same way to both dimensions.
Size_OneWay(raw) ==
  LET w == Nat0(raw, "w")
      h == Nat0(raw, "h")
      ar == raw["ar"].value.nums
  IN IF "ar" \notin DOMAIN raw THEN [w |-> w, h |-> h]
     ELSE IF w # 0 THEN [w |-> w, h |-> RoundedRatio(w * ar[2], ar[1])]
     ELSE [w |-> RoundedRatio(h * ar[2], ar[1]), h |-> h]

Size(raw) ==
  LET w == Nat0(raw, "w")
      h == Nat0(raw, "h")
      ar == raw["ar"].value.nums
  IN IF "ar" \notin DOMAIN raw THEN [w |-> w, h |-> h]
     ELSE IF w # 0
     THEN [w |-> w, h |-> AtLeastOne(RoundedRatio(w * ar[2], ar[1]))]
     ELSE [w |-> AtLeastOne(RoundedRatio(h * ar[1], ar[2])), h |-> h]

Resizing(raw) == "w" \in DOMAIN raw \/ "h" \in DOMAIN raw

-----------------------------------------------------------------------------
(***************************************************************************)
(* Steps 9-11: resolve what is deferred, default what is omitted, snap.    *)
(***************************************************************************)
BucketFromAccept(accept) ==
  LET types == {a.type : a \in {b \in accept : ~b.refused}}
  IN IF "image/avif" \in types THEN "avif"
     ELSE IF "image/webp" \in types THEN "webp" ELSE "jpeg"

FormatOf(raw, ctx) ==
  IF "f" \in DOMAIN raw /\ ~IsWord(raw["f"].value, {"auto"})
  THEN raw["f"].value.word
  ELSE BucketFromAccept(ctx.accept)

QualityOf(raw, ctx) ==
  IF "q" \in DOMAIN raw /\ raw["q"].value.kind = "num"
  THEN raw["q"].value
  ELSE Num(QUALITY_TABLE[FormatOf(raw, ctx)])

EffectiveFit(raw) ==
  IF "fit" \in DOMAIN raw THEN FitOf(raw["fit"].value) ELSE "scale-down"

EffectiveDpr(raw) ==
  IF "dpr" \in DOMAIN raw THEN DprOf(raw["dpr"].value) ELSE 10

\* formatDecimal: 1.0 is written 1.
FormattedDpr(d) == IF d % 10 = 0 THEN Num(d \div 10) ELSE Tenths(d)

Placed(raw) == Resizing(raw) /\ EffectiveFit(raw) \in {"cover", "contain"}
Padded(raw) == Resizing(raw) /\ EffectiveFit(raw) = "contain"

GravityMode(raw) ==
  IF "g" \notin DOMAIN raw THEN "none"
  ELSE IF IsWord(raw["g"].value, {"auto"}) THEN "auto"
  ELSE IF IsWord(raw["g"].value, {"face", "faces"}) THEN "face" ELSE "none"

GravityOf(raw, ctx) ==
  IF GravityMode(raw) # "none"
  THEN Val("region", "", ctx.regions[GravityMode(raw)])
  ELSE IF "g" \in DOMAIN raw THEN raw["g"].value ELSE Word("center")

RotationOf(raw, ctx) ==
  IF "rot" \in DOMAIN raw /\ raw["rot"].value.kind = "num"
  THEN raw["rot"].value.nums[1]
  ELSE ctx.orientation

\* bg is a name the colour table only inherits: not a colour, yet accepted.
Stray(raw) == "bg" \in DOMAIN raw /\ IsWord(raw["bg"].value, INHERITED)

BackgroundOf(raw, ctx) ==
  LET jpeg == FormatOf(raw, ctx) = "jpeg"
      given == ColorOf(raw["bg"].value)
  IN IF "bg" \in DOMAIN raw
     THEN IF Padded(raw) THEN given ELSE <<given[1]>>
     ELSE IF jpeg THEN <<\hFFFFFF>> ELSE <<\h000000, \h00>>

\* A plausible slip: down to the nearest rung, and not at all below the first.
Snap_Down(n, ctx) ==
  LET rungs == {r \in DIMENSION_LADDER : r < n}
  IN IF n = 0 \/ ~ctx.ladder \/ rungs = {} THEN n
     ELSE CHOOSE r \in rungs : \A s \in rungs : s <= r

\* Up to the nearest rung; above the top rung, unchanged.
Snap(n, ctx) ==
  LET rungs == {r \in DIMENSION_LADDER : r >= n}
  IN IF n = 0 \/ ~ctx.ladder \/ rungs = {} THEN n
     ELSE CHOOSE r \in rungs : \A s \in rungs : r <= s

FinalSize(raw, ctx) ==
  [w |-> Snap(Size(raw).w, ctx), h |-> Snap(Size(raw).h, ctx)]

HasEffect(raw, n) == Nat0(raw, n) > 0

\* bg pads, or flattens onto a format without transparency.
HasBackground(raw, ctx) ==
  Padded(raw) \/ ("bg" \in DOMAIN raw /\ FormatOf(raw, ctx) = "jpeg")

\* Steps 9 to 11: which parameters the form has, and as what.  A ratio has
\* become a size; delivery parameters are no part of it.
FORM_PARAMS == CANONICAL_PARAMS \ (DELIVERY \cup {"ar"})

InForm(n, raw, ctx) ==
  CASE n = "f" -> TRUE
    [] n = "q" -> FormatOf(raw, ctx) # "png"
    [] n \in {"fit", "dpr"} -> Resizing(raw)
    [] n = "g" -> Placed(raw)
    [] n = "rot" -> RotationOf(raw, ctx) # 0
    [] n \in {"blur", "sharpen"} -> HasEffect(raw, n)
    [] n \in {"flip", "rect"} -> n \in DOMAIN raw
    [] n = "bg" -> HasBackground(raw, ctx)
    [] n \in {"w", "h"} -> FinalSize(raw, ctx)[n] # 0

ResolvedAs(n, raw, ctx) ==
  CASE n = "f" -> Word(FormatOf(raw, ctx))
    [] n = "q" -> QualityOf(raw, ctx)
    [] n = "fit" -> Word(EffectiveFit(raw))
    [] n = "dpr" -> FormattedDpr(EffectiveDpr(raw))
    [] n = "g" -> GravityOf(raw, ctx)
    [] n = "rot" -> Num(RotationOf(raw, ctx))
    [] n \in {"blur", "sharpen", "flip", "rect"} -> raw[n].value
    [] n = "bg" -> IF Stray(raw) THEN Val("junk", raw["bg"].value.word, <<>>)
                   ELSE Val("hex", "", BackgroundOf(raw, ctx))
    [] n \in {"w", "h"} -> Num(FinalSize(raw, ctx)[n])

FormOf(raw, ctx) ==
  [n \in {m \in FORM_PARAMS : InForm(m, raw, ctx)} |->
     ResolvedAs(n, raw, ctx)]

\* What X-Image-Ignored-Params lists: foreign keys, and given parameters that
\* have nothing to act on.
IgnoredOf(q, raw, ctx) ==
  LET idle == {n \in DOMAIN raw :
                 \/ n \in {"dpr", "fit"} /\ ~Resizing(raw)
                 \/ n = "g" /\ ~Placed(raw)
                 \/ n = "q" /\ FormatOf(raw, ctx) = "png"
                 \/ n = "rot" /\ raw[n].value = Num(0)
                 \/ n \in {"blur", "sharpen"} /\ ~HasEffect(raw, n)
                 \/ n = "bg" /\ ~HasBackground(raw, ctx)}
  IN Foreign(q) \cup {raw[n].from : n \in idle}

-----------------------------------------------------------------------------
(***************************************************************************)
(* Step 12: the pixel budget.  (dpr ?? 1) ** 2 is a floating-point square, *)
(* and those of 0.8 and 1.6 come out just above the exact ones.            *)
(***************************************************************************)
PixelBudget(d) ==
  LET s == d * d
  IN (TRANSFORM_MAX_PIXELS \div s) * 100
     + ((TRANSFORM_MAX_PIXELS % s) * 100) \div s

SquareRoundsUp(d) == d \in {8, 16}

OutputSize(raw, ctx) ==
  LET size == FinalSize(raw, ctx)
      rect == raw["rect"].value.nums
      base == IF "rect" \in DOMAIN raw THEN [w |-> rect[3], h |-> rect[4]]
                                       ELSE [w |-> ctx.width, h |-> ctx.height]
      w == IF size.w # 0 THEN size.w ELSE RoundedRatio(size.h * base.w, base.h)
  IN [w |-> w,
      h |-> IF size.h # 0 THEN size.h ELSE RoundedRatio(w * base.h, base.w)]

\* More than budget pixels; written so that no product leaves 32 bits.
MoreThan(w, h, budget) == w > 0 /\ h > budget \div w

\* A plausible slip: the check forgets that the device pixel ratio is squared.
OverBudget_Linear(raw, ctx) ==
  LET d == EffectiveDpr(raw)
      out == OutputSize(raw, ctx)
  IN Resizing(raw) /\ MoreThan(out.w, out.h, (TRANSFORM_MAX_PIXELS \div d) * 10)

OverBudget(raw, ctx) ==
  LET d == EffectiveDpr(raw)
      out == OutputSize(raw, ctx)
      most == IF SquareRoundsUp(d) THEN PixelBudget(d) - 1 ELSE PixelBudget(d)
  IN Resizing(raw) /\ MoreThan(out.w, out.h, most)

-----------------------------------------------------------------------------
(***************************************************************************)
(* canonicalize: the first step that refuses decides the answer.           *)
(***************************************************************************)
Refusal(code) == [verdict |-> code, form |-> <<>>, ignored |-> {}]

RatioTooLarge(raw) ==
  \E n \in {"w", "h"} : Size(raw)[n] > TRANSFORM_MAX_DIMENSION_PX

NoResolver(raw, ctx) ==
  Placed(raw) /\ GravityMode(raw) \notin DOMAIN ctx.regions \cup {"none"}

\* Flattening takes the first six characters of what is not a text.
SlicesNoText(raw, ctx) ==
  Stray(raw) /\ ~Padded(raw) /\ FormatOf(raw, ctx) = "jpeg"

Verdict(q, raw, ctx) ==
  IF \/ ~PairsAccepted(q, ctx)
     \/ \E n \in DOMAIN raw : ~Valid(n, raw[n].value, ctx)
    THEN "invalid_transform_param"
  ELSE IF OverSpecified(raw) THEN "invalid_parameter_combination"
  ELSE IF RatioTooLarge(raw) THEN "invalid_transform_param"
  ELSE IF NoResolver(raw, ctx) \/ SlicesNoText(raw, ctx) THEN "internal"
  ELSE IF OverBudget(raw, ctx) THEN "invalid_transform_param"
  ELSE "ok"

Canonicalize(q, ctx) ==
  LET raw == Raw(q)
      verdict == Verdict(q, raw, ctx)
  IN IF verdict # "ok" THEN Refusal(verdict)
     ELSE [verdict |-> "ok",
           form |-> FormOf(raw, ctx),
           ignored |-> IgnoredOf(q, raw, ctx),
           delivery |-> [n \in DOMAIN raw \cap DELIVERY |-> raw[n].value]]

-----------------------------------------------------------------------------
Pending == Refusal("pending")

TransformInit ==
  /\ query \in Queries
  /\ context \in Contexts
  /\ result = Pending

Answer ==
  /\ result = Pending
  /\ result' = Canonicalize(query, context)
  /\ UNCHANGED <<query, context>>

TransformSpec == TransformInit /\ [][Answer]_transformVars

-----------------------------------------------------------------------------
(***************************************************************************)
(* Properties                                                              *)
(***************************************************************************)
\* What two equivalent requests have to agree on.
Identity(q, ctx) ==
  LET r == Canonicalize(q, ctx)
  IN [accepted |-> r.verdict = "ok", form |-> r.form]

\* The alias tables of docs/IMAGE-DELIVERY-PROTOCOL/04, names and values.
NameSynonyms ==
  {<<"width", "w">>, <<"height", "h">>, <<"aspect", "ar">>, <<"ratio", "ar">>,
   <<"gravity", "g">>, <<"position", "g">>, <<"crop", "g">>, <<"fo", "g">>,
   <<"format", "f">>, <<"fm", "f">>, <<"quality", "q">>, <<"background", "bg">>,
   <<"bl", "blur">>, <<"sharp", "sharpen">>, <<"rotate", "rot">>}

ValueSynonyms ==
  LET pair(k, v) == [key |-> k, value |-> Word(v)]
      same(k, v, l, u) == <<pair(k, v), <<pair(l, u)>>>>
  IN {same("c", "fill", "fit", "cover"), same("c", "fit", "fit", "inside"),
      same("c", "scale", "fit", "fill"), same("c", "pad", "fit", "contain"),
      same("fit", "crop", "fit", "cover"), same("fit", "clip", "fit", "inside"),
      same("fit", "squeeze", "fit", "fill"),
      same("fit", "pad", "fit", "contain"),
      same("auto", "format", "f", "auto"),
      same("auto", "compress", "q", "auto"),
      <<pair("auto", "format,compress"),
        <<pair("f", "auto"), pair("q", "auto")>>>>,
      same("g", "faces", "g", "face"), same("bg", "grey", "bg", "gray"),
      same("bg", "aqua", "bg", "cyan")}

Respellings(p) ==
  {<<[p EXCEPT !.key = n[2]]>> : n \in {m \in NameSynonyms : m[1] = p.key}}
  \cup {s[2] : s \in {t \in ValueSynonyms : t[1] = p}}

\* Parameters that are not part of a transformation.
Additions ==
  {[key |-> "utm_source", value |-> Word("newsletter")],
   [key |-> "dl", value |-> Word("cat")], [key |-> "exp", value |-> Num(9)]}

GivenTwice(q) ==
  \E i, j \in DOMAIN q :
    i # j /\ DOMAIN Gives(q[i]) \cap DOMAIN Gives(q[j]) # {}

Overridden(q, i) ==
  /\ Decodes(q[i]) /\ DOMAIN Gives(q[i]) # {}
  /\ \E j \in DOMAIN q :
       j > i /\ DOMAIN Gives(q[i]) \subseteq DOMAIN Gives(q[j])

(***************************************************************************)
(* The equivalence guarantee (docs/IMAGE-DELIVERY-PROTOCOL/03): two URLs   *)
(* of one request are both refused or get one canonical form, regardless   *)
(* of parameter order, alias choice, dialect, duplicate keys, tracking and *)
(* delivery parameters.                                                    *)
(***************************************************************************)
EquivalentUrlsAgree ==
  LET identity == [accepted |-> result.verdict = "ok", form |-> result.form]
      agree(q) == Identity(q, context) = identity
      replaced(i, s) == SubSeq(query, 1, i - 1) \o s
                        \o SubSeq(query, i + 1, Len(query))
  IN result # Pending =>
       /\ ~GivenTwice(query) =>
            \A place \in Bijection(DOMAIN query, DOMAIN query) :
              agree([i \in DOMAIN query |-> query[place[i]]])
       /\ \A i \in DOMAIN query :
            /\ \A s \in Respellings(query[i]) : agree(replaced(i, s))
            /\ Overridden(query, i) => agree(RemoveAt(query, i))
       /\ ~context.strict => \A p \in Additions : agree(<<p>> \o query)

\* A canonical form, written as a query.
AsQuery(form) ==
  LET said(n) == IF n \in DOMAIN form THEN <<[key |-> n, value |-> form[n]]>> ELSE <<>>
  IN said("bg") \o said("blur") \o said("dpr") \o said("f") \o said("fit")
     \o said("flip") \o said("g") \o said("h") \o said("q") \o said("rect")
     \o said("rot") \o said("sharpen") \o said("w")

(***************************************************************************)
(* "Every one of them must be resolved to a concrete value" (step 9): a    *)
(* form asks for nothing later.  Sent as a query, with any Accept header,  *)
(* it is its own canonical form.  Three things a query cannot say are left *)
(* out: a resolved region, that an oriented source stays unrotated, and a  *)
(* background that is no colour (AcceptedBackgroundIsAColour).             *)
(***************************************************************************)
FormIsSelfContained ==
  LET form == result.form
      sayable == /\ "g" \in DOMAIN form => form["g"].kind # "region"
                 /\ "bg" \in DOMAIN form => form["bg"].kind = "hex"
                 /\ "rot" \in DOMAIN form \/ context.orientation = 0
  IN result.verdict = "ok" /\ sayable =>
       \A c \in Contexts :
         Identity(AsQuery(form), [context EXCEPT !.accept = c.accept])
           = [accepted |-> TRUE, form |-> form]

(***************************************************************************)
(* "Resolved to canonical upper-case RRGGBB before hashing" (colors.ts):   *)
(* the background of an accepted form is a colour.                         *)
(***************************************************************************)
AcceptedBackgroundIsAColour ==
  result.verdict = "ok" /\ "bg" \in DOMAIN result.form =>
    result.form["bg"].kind = "hex"

(***************************************************************************)
(* "Not a silent clamp": an accepted form has the dimensions that were     *)
(* asked for, or that ar implies to half a pixel, or the next rung of the  *)
(* ladder, and its effective pixels fit the budget.                        *)
(***************************************************************************)
SizeIsAskedAndAffordable ==
  LET raw == Raw(query)
      ratio == raw["ar"].value.nums
      side(n) == IF n \in DOMAIN result.form THEN result.form[n].nums[1] ELSE 0
      meant(n, exact) ==
        \/ side(n) = exact
        \/ context.ladder /\ side(n) > exact /\ side(n) \in DIMENSION_LADDER
      implied(n, num, den) ==
        \E exact \in {1, num \div den, num \div den + 1} :
          /\ \/ /\ 2 * exact * den - den <= 2 * num
                /\ 2 * num < 2 * exact * den + den
             \/ exact = 1 /\ 2 * num < den
          /\ meant(n, exact)
  IN result.verdict = "ok" =>
       /\ \A n \in {"w", "h"} : n \in DOMAIN raw => meant(n, Nat0(raw, n))
       /\ "ar" \in DOMAIN raw =>
            IF "w" \in DOMAIN raw
            THEN implied("h", Nat0(raw, "w") * ratio[2], ratio[1])
            ELSE implied("w", Nat0(raw, "h") * ratio[1], ratio[2])
       /\ side("w") # 0 /\ side("h") # 0 =>
            side("w") * side("h") <= PixelBudget(DprOf(result.form["dpr"]))
=============================================================================
