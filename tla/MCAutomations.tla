---------------------------- MODULE MCAutomations ----------------------------
(* Instances of Automations for TLC. *)
EXTENDS Automations

\* Two days of one unit each: every unit; every other one, when that falls on
\* the first day.
MCRules == {[interval |-> 1, days |-> {0, 1}], [interval |-> 2, days |-> {0}]}
=============================================================================
