---------------------------- MODULE MCRangeCoder ----------------------------
(* The range coder with ternary bytes, so that a word has 81 values and    *)
(* the intervals in which range >> PROB_BITS is zero are met at once.      *)
EXTENDS RangeCoder
=============================================================================
