------------------------------ MODULE MCArena ------------------------------
(* The arena on three places for superblocks of eight units or more, and a *)
(* list layout with exact classes first and ranges after, as in the code.  *)
EXTENDS Arena

MCListMins == <<0, 1, 3, 9>>
=============================================================================
