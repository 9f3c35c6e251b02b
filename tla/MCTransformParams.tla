------------------------- MODULE MCTransformParams -------------------------
EXTENDS TransformParams

P(k, v) == [key |-> k, value |-> v]
W(k, s) == P(k, Word(s))
N(k, n) == P(k, Num(n))

\* The pairs whose effects interact: sizes at and around the limits, every
\* fit class, deferred values, what is dropped without a resize.
Core ==
  {N("w", 100), N("w", 3125), N("h", 3125), N("height", 40),
   P("ar", Val("ratio", "", <<16, 9>>)), P("dpr", Tenths(16)), N("dpr", 2),
   W("fit", "crop"), W("c", "pad"), W("g", "auto"),
   P("rect", Val("rect", "", <<10, 10, 60, 30>>)), W("f", "jpeg"),
   P("bg", Val("hex", "", <<\h336699, \h80>>))}

Others ==
  {N("w", 8192), N("w", 8193), N("width", 3126), N("h", 0), N("h", 8192),
   P("ratio", Val("ratio", "", <<1, 1000>>)), P("dpr", Tenths(8)),
   W("fit", "contain"), W("fit", "none"), W("c", "thumb"),
   W("gravity", "top"), W("crop", "faces"),
   P("g", Val("point", "", <<2500, 10000>>)),
   P("rect", Val("rect", "", <<0, 0, 100, 9000>>)),
   W("fm", "auto"), W("f", "png"), W("auto", "format,compress"),
   W("auto", "compress"), N("q", 80), N("quality", 101), W("bg", "aqua"),
   W("background", "grey"),
   W("bg", "constructor"), W("background", "__proto__"), N("blur", 0), N("bl", 7), N("sharp", 100),
   N("rot", 0), N("rotate", 90), W("flip", "hv"),
   P("dl", Val("junk", "", <<>>)),
   W("utm_source", "x"), N("Width", 4), W("%", "x"),
   P("w", Val("undecodable", "", <<>>)), P("v", Val("undecodable", "", <<>>))}

Pairs == Core \cup Others

\* Every query of up to two pairs, and of three when two are of the core.
BoundedQueries == {<<>>} \cup {<<p>> : p \in Pairs} \cup (Pairs \X Pairs)
                  \cup (Pairs \X Core \X Core)

Browser == {[type |-> "image/avif", refused |-> TRUE],
            [type |-> "image/webp", refused |-> FALSE]}

\* Sources with and without an orientation, the project settings, a gravity
\* resolver for both modes, for one and for none.
BoundedContexts ==
  {[accept |-> Browser, width |-> 4000, height |-> 3000, orientation |-> 0,
    ladder |-> FALSE, strict |-> FALSE,
    regions |-> [auto |-> <<5, 5, 50, 50>>]],
   [accept |-> {}, width |-> 300, height |-> 6000, orientation |-> 90,
    ladder |-> TRUE, strict |-> TRUE, regions |-> <<>>],
   [accept |-> {[type |-> "image/avif", refused |-> FALSE]},
    width |-> 200, height |-> 100, orientation |-> 270,
    ladder |-> TRUE, strict |-> FALSE,
    regions |-> [auto |-> <<0, 0, 9, 9>>, face |-> <<1, 1, 2, 2>>]]}

Slips == {"Width"}
=============================================================================
