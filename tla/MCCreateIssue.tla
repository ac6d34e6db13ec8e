--------------------------- MODULE MCCreateIssue ---------------------------
(* One user, two updates served at a time, and issue types with a          *)
(* required select field and an optional text field, one of them with a    *)
(* required field that the wizard does not ask for.                        *)
EXTENDS CreateIssue, TLC

CONSTANTS h1, h2, component, severity

Same == Permutations({h1, h2})
MCOrder == <<component, severity>>

MCIssueTypes == {
  [body |-> "",        epic |-> FALSE, tplf |-> TRUE,  unasked |-> FALSE],
  [body |-> "default", epic |-> TRUE,  tplf |-> FALSE, unasked |-> FALSE],
  [body |-> "",        epic |-> FALSE, tplf |-> FALSE, unasked |-> TRUE]}
=============================================================================
