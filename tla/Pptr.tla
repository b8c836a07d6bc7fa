-------------------------------- MODULE Pptr --------------------------------
(***************************************************************************)
(* The words that stand for pointers in the heap's files.  A pptr holds    *)
(* the distance from itself to its target, shifted left over a bit         *)
(* pattern whose last bit is the sign: here a record of the three parts.   *)
(* A CrossPtr holds the distance from the start of the target's region.    *)
(* Addresses are natural numbers and distances fit the 48 bits the pattern *)
(* leaves them.                                                            *)
(***************************************************************************)
EXTENDS Integers

nullptr == 0

\* PPTR_PATTERN_POS with no distance: what is_null_pptr looks for.
NullOff == [pattern |-> TRUE, mag |-> 0, neg |-> FALSE]

\* A word without the pattern, as in a file nobody has written to.
RawOff == [pattern |-> FALSE, mag |-> 0, neg |-> FALSE]

\* to_pptr_off of the address v, in a word at address p.
To(v, p) ==
  IF v = nullptr THEN NullOff
  ELSE IF v > p THEN [pattern |-> TRUE, mag |-> v - p, neg |-> FALSE]
  ELSE [pattern |-> TRUE, mag |-> p - v, neg |-> TRUE]

\* from_pptr_off
From(off, p) ==
  IF ~off.pattern \/ off = NullOff THEN nullptr
  ELSE IF off.neg THEN p - off.mag ELSE p + off.mag

\* untranslate and translate of a region that starts at address a.  A CrossPtr
\* that is assigned a pointer is not told a null one apart.
Untranslate(v, a) == v - a
Translate(off, a) == IF off = 0 THEN nullptr ELSE a + off
=============================================================================
