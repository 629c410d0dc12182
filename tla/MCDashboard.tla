----------------------------- MODULE MCDashboard -----------------------------
(* Instances of Dashboard for TLC: two steps and room for a third, and one   *)
(* part of the page in use at a time.                                        *)
EXTENDS Dashboard

UserMenus == {{"reorder", "addStep", "removeStep"}, {"save"}, {"setOn", "fire"},
              {"fire", "cancel"}}
AllTypes  == {"WEBHOOK", "SCHEDULED", "MANUAL"}
TwoSteps  == <<1, 2>>
=============================================================================
