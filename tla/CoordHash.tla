----------------------------- MODULE CoordHash -----------------------------
(***************************************************************************)
(* DrawableNameTags::coordHash (src/src/game_multiplayer_nametags.cpp):    *)
(* the key under which the nametags of one tile are stacked. The header    *)
(* promises a "perfect hash for coordinate pairs".                         *)
(***************************************************************************)
EXTENDS Integers

CONSTANT Word   \* 2^w, the number of values of the code's unsigned long

ASSUME WordAssumption == Word \in Nat \ {0}

\* "uniquely map integers to whole numbers": 0, -1, 1, -2, 2, ... -> 0, 1, 2, 3, 4, ...
Whole(n) == IF n < 0 THEN -2 * n - 1 ELSE 2 * n

\* The Cantor pairing, computed in unsigned arithmetic of width w: the product
\* wraps before it is halved, the sum wraps again.
coordHash(x, y) ==
    LET a == Whole(x)
        b == Whole(y)
    IN  ((((a + b) * (a + b + 1)) % Word) \div 2 + b) % Word

\* The two coordinates whose pairing no step of the computation wraps.
Fits(x, y) ==
    (Whole(x) + Whole(y) + 1) * (Whole(x) + Whole(y) + 2) < Word
=============================================================================
