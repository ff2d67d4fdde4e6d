----------------------------- MODULE MCRegister -----------------------------
(* Instances of Register.  One behaviour uses the facilities of one habit; *)
(* the habits are the combinations whose steps interfere.                  *)
EXTENDS Register, TLC

MixedHabits ==
    {{"discount"}, {"line"}, {"again", "visit", "storage"},
     {"undo", "visit", "storage"}, {"again", "hold"}, {"promotion", "edit"},
     {"edit", "hold"}, {"hold", "visit"}}
DiscountHabit == {{"discount"}}
=============================================================================
