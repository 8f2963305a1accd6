--------------------------- MODULE MC_Projectiles ---------------------------
(* Three shots, two places in the table, and no more markers than that, so *)
(* that the game uses them again while an entry still names them.          *)
EXTENDS Projectiles

CONSTANTS s1, s2, s3, m1, m2
=============================================================================
