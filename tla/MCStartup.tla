------------------------------ MODULE MCStartup -----------------------------
(* The start of the server over a small database.                          *)
EXTENDS Startup, TLC

CONSTANTS admin, wg1, wg2, cp2, tm2, cc1, wg9

MCSeeds == [t \in Tables |-> CASE t = "users"      -> {admin}
                               [] t = "generators" -> {wg1, wg2}
                               [] t = "carriers"   -> {cp2}
                               [] t = "manifests"  -> {tm2}
                               [] OTHER            -> {cc1}]

\* A generator that a client creates.
MCExtra == [t \in Tables |-> IF t = "generators" THEN {wg9} ELSE {}]

MCLinks == [c \in {admin, wg1, wg2, cp2, tm2, cc1} |->
               CASE c = tm2 -> {wg1, cp2}
                 [] c = cc1 -> {tm2}
                 [] OTHER   -> {}]
=============================================================================
