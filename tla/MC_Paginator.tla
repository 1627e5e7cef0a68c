--------------------------- MODULE MC_Paginator ---------------------------
(* Every range of up to nine bytes with every page size from zero to four: *)
(* the empty range, the exact multiple, the short last page and the single *)
(* page all occur.                                                         *)
EXTENDS Paginator

MCRangeSizes == 0..9
MCPageSizes == 0..4
===========================================================================
