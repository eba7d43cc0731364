-------------------------- MODULE MCIdempotentCall ---------------------------
EXTENDS IdempotentCall, TLC

CONSTANTS r1, r2, r3, r4, b1, b2

\* Three requests with one body, a fourth that reuses the key for another.
TwoBodies == r1 :> b1 @@ r2 :> b1 @@ r3 :> b1 @@ r4 :> b2

=============================================================================
