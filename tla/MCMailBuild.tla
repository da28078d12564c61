----------------------------- MODULE MCMailBuild -----------------------------
(* One template, which may be missing at first and have an output of an      *)
(* earlier run, and four edits, the second of which does not load.  Templates *)
(* have nothing in common but the number of edits.                           *)
EXTENDS MailBuild

CONSTANT t1

MCTemplates == {t1}
MCSlots == 1..4
MCBroken == {2}

===============================================================================
