----------------------------- MODULE MonoSynth -----------------------------
(***************************************************************************)
(* What the piano promises to the player when he does not outrun it: a     *)
(* monophonic synthesiser that handles one key event at a time, whole.  A  *)
(* press sounds its key at once; the first key of a group is remembered,   *)
(* and its release silences the voice and ends the group.  The voice heard *)
(* (out) follows the voice decided (note).                                 *)
(*                                                                         *)
(* No registers, no interrupt, no shared context: Piano has those, and is  *)
(* checked to implement this specification.                                *)
(***************************************************************************)
EXTENDS Integers

CONSTANTS
  Codes,     \* the key bytes the events carry, a subset of Byte
  BootNote   \* the voice that sounds before any key is played, a Voice

Byte    == 0 .. 255
Voice   == [enable : {0, 1}, key : Byte]
Nothing == [kind |-> "none", code |-> 0]
Events  == [kind : {"on", "off"}, code : Codes]

VARIABLES
  pending,   \* the event played and not yet handled, or Nothing
  note,      \* the voice decided by the events handled so far
  first,     \* key byte of the first key of the group
  count,     \* presses in the group
  out        \* the voice that is heard

vars == <<pending, note, first, count, out>>

Init ==
  /\ pending = Nothing
  /\ note = BootNote
  /\ first \in Nat
  /\ count = 0
  /\ out = [enable |-> 0, key |-> 0]

Play ==
  /\ pending = Nothing
  /\ pending' \in Events
  /\ UNCHANGED <<note, first, count, out>>

Press ==
  /\ pending.kind = "on"
  /\ note' = [enable |-> 1, key |-> pending.code]
  /\ first' = IF count = 0 THEN pending.code ELSE first
  /\ count' = count + 1
  /\ pending' = Nothing
  /\ UNCHANGED out

Release ==
  /\ pending.kind = "off"
  /\ IF pending.code = first
     THEN note' = [note EXCEPT !.enable = 0] /\ count' = 0
     ELSE UNCHANGED <<note, count>>
  /\ pending' = Nothing
  /\ UNCHANGED <<first, out>>

Sound ==
  /\ out # note
  /\ out' = note
  /\ UNCHANGED <<pending, note, first, count>>

Reset ==
  /\ pending' = Nothing
  /\ note' = BootNote
  /\ first' \in Nat
  /\ count' = 0
  /\ out' = [enable |-> 0, key |-> 0]

Next == Play \/ Press \/ Release \/ Sound \/ Reset

Fairness == WF_vars(Press \/ Release) /\ WF_vars(Sound)

SafeSpec == Init /\ [][Next]_vars

Spec == SafeSpec /\ Fairness
=============================================================================
