---------------------------- MODULE MCDispatcher ----------------------------
(* Two registered keys of which one event may continue another on a Stream. *)
EXTENDS Dispatcher

CONSTANTS z1, z2, ta, tb, current, other, s1, s2

TwoKeys == <<ta, tb>>
OneKey == <<ta>>
=============================================================================
