---------------------------- MODULE MCHouseholds ----------------------------
(* A small instance of Households for TLC. *)
EXTENDS Households

CONSTANTS a1, a2, a3, a4

\* Four applications with every pair but one, which a detour joins, and one pair
\* that two fields link: households of one to four, merged through every order.
Edges == {<<{a1, a2}, "guardian_name">>, <<{a1, a2}, "phone">>, <<{a2, a3}, "guardian_name">>,
          <<{a3, a4}, "address">>, <<{a1, a4}, "address">>, <<{a1, a3}, "address">>}
=============================================================================
