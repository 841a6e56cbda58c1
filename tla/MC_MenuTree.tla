----------------------------- MODULE MC_MenuTree -----------------------------
(* Instances of MenuTree for TLC: the menu file holds a page, with the      *)
(* resources and no status, and a disabled menu below it.                   *)
EXTENDS MenuTree, TLC

CONSTANTS page, button

TheFile == << [code |-> page,   parent |-> 0, status |-> "", resources |-> Resources],
              [code |-> button, parent |-> 1, status |-> "disabled", resources |-> {}] >>

=============================================================================
