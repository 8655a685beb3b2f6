--------------------------- MODULE MCSettingsControl ---------------------------
(* Instances of SettingsControl for TLC. *)
EXTENDS SettingsControl

CONSTANTS l1, l2, o1, o2, t1, t2, s1, s2, ticker, manual

MCFirst == [lists |-> l1, options |-> o1, startup |-> t1]
================================================================================
