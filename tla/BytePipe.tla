------------------------------ MODULE BytePipe ------------------------------
(***************************************************************************)
(* What either direction of the JTAG UART promises: a pipe.  The sender    *)
(* holds the bytes it still wants to send (todo); some of them, in order,  *)
(* enter the pipe; the receiver takes some from the other end (taken is    *)
(* what it took last).  Nothing is lost, repeated, changed or overtaken.   *)
(* The sender may give up the rest of its bytes and turn to others.        *)
(***************************************************************************)
EXTENDS Naturals, Sequences

CONSTANT Byte

VARIABLES todo, pipe, taken

vars == <<todo, pipe, taken>>

Take(s, n) == SubSeq(s, 1, n)
Drop(s, n) == SubSeq(s, n + 1, Len(s))

Init == /\ todo \in Seq(Byte)
        /\ pipe = <<>>
        /\ taken \in Seq(Byte)

Ask == /\ todo' \in Seq(Byte)
       /\ UNCHANGED <<pipe, taken>>

Put(n) == /\ pipe' = pipe \o Take(todo, n)
          /\ todo' = Drop(todo, n)
          /\ UNCHANGED taken

Get(n) == /\ taken' = Take(pipe, n)
          /\ pipe' = Drop(pipe, n)
          /\ UNCHANGED todo

Next == \/ Ask
        \/ \E n \in 1 .. Len(todo) : Put(n)
        \/ \E n \in 1 .. Len(pipe) : Get(n)

Spec == Init /\ [][Next]_vars
=============================================================================
