----------------------------- MODULE MCMailTest -----------------------------
(* The instance of MailTest for TLC: the machines of "nachos -m 0 -o 1" and*)
(* "nachos -m 1 -o 0".  Other clients than MailTest send from both machines*)
(* to box 0 of machine 1.                                                  *)
EXTENDS MailTest

ToOneBox == {<<1, 0>>}
=============================================================================
