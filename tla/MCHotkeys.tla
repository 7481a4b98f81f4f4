------------------------------- MODULE MCHotkeys -------------------------------
(* Hot keys over four lists of specs: a key that two lists give different    *)
(* actions, a list that asks for one key twice, one with an unknown key, and   *)
(* one whose only modifier is a lock key.                                    *)
EXTENDS Hotkeys

KeyA == 458756   \* 0x0007_0004
Mute == 786658   \* 0x000c_00e2
LeftControl == 458976   \* 0x0007_00e0, of no use

HotKeySpec(id, key, modifiers) == [id |-> id, key |-> key, modifiers |-> modifiers]

MCSettings == {
  <<HotKeySpec(0, KeyA, {"Control"})>>,
  <<HotKeySpec(1, KeyA, {"Control"}), HotKeySpec(0, KeyA, {"Control"})>>,
  <<HotKeySpec(1, Mute, {"Meta"}), HotKeySpec(2, LeftControl, {"Alt"})>>,
  <<HotKeySpec(0, KeyA, {"CapsLock"})>>}
=============================================================================
