--------------------------- MODULE MCStylesDiscover ---------------------------
(* StylesDiscover with the mishaps one of its runs allows.                 *)
EXTENDS StylesDiscover

Withstood == {"repeats", "throws", "unheard"}
==============================================================================
