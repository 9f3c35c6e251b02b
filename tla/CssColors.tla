----------------------------- MODULE CssColors -----------------------------
(***************************************************************************)
(* The CSS colour names that bg= accepts (packages/transform-params,       *)
(* colors.ts), each as the numbers its hexadecimal text stands for: RRGGBB *)
(* and, when the text has eight digits, the alpha channel after it.        *)
(***************************************************************************)
EXTENDS Integers

CSS_NAMED_COLORS ==
  [aliceblue |-> <<\hF0F8FF>>, antiquewhite |-> <<\hFAEBD7>>,
   aqua |-> <<\h00FFFF>>, aquamarine |-> <<\h7FFFD4>>, azure |-> <<\hF0FFFF>>,
   beige |-> <<\hF5F5DC>>, bisque |-> <<\hFFE4C4>>, black |-> <<\h000000>>,
   blanchedalmond |-> <<\hFFEBCD>>, blue |-> <<\h0000FF>>,
   blueviolet |-> <<\h8A2BE2>>, brown |-> <<\hA52A2A>>,
   burlywood |-> <<\hDEB887>>, cadetblue |-> <<\h5F9EA0>>,
   chartreuse |-> <<\h7FFF00>>, chocolate |-> <<\hD2691E>>,
   coral |-> <<\hFF7F50>>, cornflowerblue |-> <<\h6495ED>>,
   cornsilk |-> <<\hFFF8DC>>, crimson |-> <<\hDC143C>>, cyan |-> <<\h00FFFF>>,
   darkblue |-> <<\h00008B>>, darkcyan |-> <<\h008B8B>>,
   darkgoldenrod |-> <<\hB8860B>>, darkgray |-> <<\hA9A9A9>>,
   darkgreen |-> <<\h006400>>, darkgrey |-> <<\hA9A9A9>>,
   darkkhaki |-> <<\hBDB76B>>, darkmagenta |-> <<\h8B008B>>,
   darkolivegreen |-> <<\h556B2F>>, darkorange |-> <<\hFF8C00>>,
   darkorchid |-> <<\h9932CC>>, darkred |-> <<\h8B0000>>,
   darksalmon |-> <<\hE9967A>>, darkseagreen |-> <<\h8FBC8F>>,
   darkslateblue |-> <<\h483D8B>>, darkslategray |-> <<\h2F4F4F>>,
   darkslategrey |-> <<\h2F4F4F>>, darkturquoise |-> <<\h00CED1>>,
   darkviolet |-> <<\h9400D3>>, deeppink |-> <<\hFF1493>>,
   deepskyblue |-> <<\h00BFFF>>, dimgray |-> <<\h696969>>,
   dimgrey |-> <<\h696969>>, dodgerblue |-> <<\h1E90FF>>,
   firebrick |-> <<\hB22222>>, floralwhite |-> <<\hFFFAF0>>,
   forestgreen |-> <<\h228B22>>, fuchsia |-> <<\hFF00FF>>,
   gainsboro |-> <<\hDCDCDC>>, ghostwhite |-> <<\hF8F8FF>>,
   gold |-> <<\hFFD700>>, goldenrod |-> <<\hDAA520>>, gray |-> <<\h808080>>,
   green |-> <<\h008000>>, greenyellow |-> <<\hADFF2F>>, grey |-> <<\h808080>>,
   honeydew |-> <<\hF0FFF0>>, hotpink |-> <<\hFF69B4>>,
   indianred |-> <<\hCD5C5C>>, indigo |-> <<\h4B0082>>, ivory |-> <<\hFFFFF0>>,
   khaki |-> <<\hF0E68C>>, lavender |-> <<\hE6E6FA>>,
   lavenderblush |-> <<\hFFF0F5>>, lawngreen |-> <<\h7CFC00>>,
   lemonchiffon |-> <<\hFFFACD>>, lightblue |-> <<\hADD8E6>>,
   lightcoral |-> <<\hF08080>>, lightcyan |-> <<\hE0FFFF>>,
   lightgoldenrodyellow |-> <<\hFAFAD2>>, lightgray |-> <<\hD3D3D3>>,
   lightgreen |-> <<\h90EE90>>, lightgrey |-> <<\hD3D3D3>>,
   lightpink |-> <<\hFFB6C1>>, lightsalmon |-> <<\hFFA07A>>,
   lightseagreen |-> <<\h20B2AA>>, lightskyblue |-> <<\h87CEFA>>,
   lightslategray |-> <<\h778899>>, lightslategrey |-> <<\h778899>>,
   lightsteelblue |-> <<\hB0C4DE>>, lightyellow |-> <<\hFFFFE0>>,
   lime |-> <<\h00FF00>>, limegreen |-> <<\h32CD32>>, linen |-> <<\hFAF0E6>>,
   magenta |-> <<\hFF00FF>>, maroon |-> <<\h800000>>,
   mediumaquamarine |-> <<\h66CDAA>>, mediumblue |-> <<\h0000CD>>,
   mediumorchid |-> <<\hBA55D3>>, mediumpurple |-> <<\h9370DB>>,
   mediumseagreen |-> <<\h3CB371>>, mediumslateblue |-> <<\h7B68EE>>,
   mediumspringgreen |-> <<\h00FA9A>>, mediumturquoise |-> <<\h48D1CC>>,
   mediumvioletred |-> <<\hC71585>>, midnightblue |-> <<\h191970>>,
   mintcream |-> <<\hF5FFFA>>, mistyrose |-> <<\hFFE4E1>>,
   moccasin |-> <<\hFFE4B5>>, navajowhite |-> <<\hFFDEAD>>,
   navy |-> <<\h000080>>, oldlace |-> <<\hFDF5E6>>, olive |-> <<\h808000>>,
   olivedrab |-> <<\h6B8E23>>, orange |-> <<\hFFA500>>,
   orangered |-> <<\hFF4500>>, orchid |-> <<\hDA70D6>>,
   palegoldenrod |-> <<\hEEE8AA>>, palegreen |-> <<\h98FB98>>,
   paleturquoise |-> <<\hAFEEEE>>, palevioletred |-> <<\hDB7093>>,
   papayawhip |-> <<\hFFEFD5>>, peachpuff |-> <<\hFFDAB9>>,
   peru |-> <<\hCD853F>>, pink |-> <<\hFFC0CB>>, plum |-> <<\hDDA0DD>>,
   powderblue |-> <<\hB0E0E6>>, purple |-> <<\h800080>>,
   rebeccapurple |-> <<\h663399>>, red |-> <<\hFF0000>>,
   rosybrown |-> <<\hBC8F8F>>, royalblue |-> <<\h4169E1>>,
   saddlebrown |-> <<\h8B4513>>, salmon |-> <<\hFA8072>>,
   sandybrown |-> <<\hF4A460>>, seagreen |-> <<\h2E8B57>>,
   seashell |-> <<\hFFF5EE>>, sienna |-> <<\hA0522D>>, silver |-> <<\hC0C0C0>>,
   skyblue |-> <<\h87CEEB>>, slateblue |-> <<\h6A5ACD>>,
   slategray |-> <<\h708090>>, slategrey |-> <<\h708090>>,
   snow |-> <<\hFFFAFA>>, springgreen |-> <<\h00FF7F>>,
   steelblue |-> <<\h4682B4>>, tan |-> <<\hD2B48C>>, teal |-> <<\h008080>>,
   thistle |-> <<\hD8BFD8>>, tomato |-> <<\hFF6347>>,
   transparent |-> <<\h000000, \h00>>, turquoise |-> <<\h40E0D0>>,
   violet |-> <<\hEE82EE>>, wheat |-> <<\hF5DEB3>>, white |-> <<\hFFFFFF>>,
   whitesmoke |-> <<\hF5F5F5>>, yellow |-> <<\hFFFF00>>,
   yellowgreen |-> <<\h9ACD32>>]
=============================================================================
