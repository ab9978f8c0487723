--------------------------- MODULE MCMinecraftAuth ---------------------------
(* Small instances of MinecraftAuth for TLC. *)
EXTENDS MinecraftAuth, TLC

CONSTANTS alex, p1, p2
=============================================================================
