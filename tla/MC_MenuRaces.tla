---------------------------- MODULE MC_MenuRaces ----------------------------
(* Instance of MenuRaces for TLC: the menu file holds a menu with a         *)
(* resource, and one below it.                                              *)
EXTENDS MenuRaces, TLC

CONSTANTS page

TheFile == << [code |-> page, parent |-> 0, status |-> "", resources |-> Resources],
              [code |-> page, parent |-> 1, status |-> "", resources |-> {}] >>

(* A bound: one menu at a time has its resource.                           *)
OneResource == \A x, y \in resources : x = y

=============================================================================
