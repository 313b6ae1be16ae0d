----------------------------- MODULE MCService -----------------------------
(* Instances of Service for TLC: the one language of language.yml.         *)
EXTENDS Service, TLC

CONSTANTS r1, r2, en

MCRequests == {r1, r2}
MCLanguages == {en}
=============================================================================
