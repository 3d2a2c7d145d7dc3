------------------------------- MODULE Rounding -------------------------------
(***************************************************************************)
(* Rounding as toFixed(2) and Math.round do it:                             *)
(*   src/src/modules/branch-logistics/branch-logistics.service.ts           *)
(*   src/src/modules/dispatch/dispatch.service.ts                           *)
(***************************************************************************)
EXTENDS Integers

\* c is a whole number nearest to x / d.
Rounds(x, d, c) == 2 * x - 2 * d * c \in -d..d

\* The binary fraction that stands for x / d decides a tie, either way.
Nearest(x, d) == {c \in (x \div d)..(x \div d + 1) : Rounds(x, d, c)}

===============================================================================
