-------------------------------- MODULE Heap --------------------------------
(***************************************************************************)
(* alt_sbrk.c: the end of the heap, moved with interrupts off.  What malloc *)
(* was given, and has not given back, is kept in blocks.                   *)
(***************************************************************************)
EXTENDS Hal

VARIABLES
  heap_end,
  blocks             \* the blocks handed out, as [from, to)

heapVars == <<heap_end, blocks>>

HeapInit == heap_end = HeapStart /\ blocks = {}

(* Forms marked as mutations are faults a run must notice. *)

(* The next word boundary. *)
Aligned(p) == ((p + 3) \div 4) * 4

Exceeds_Unaligned(incr) == heap_end + incr > HeapLimit   \* mutation
Exceeds(incr) == Aligned(heap_end) + incr > HeapLimit

(* Memory given back: only what lies above every block, or in the last.    *)
Owned(incr) == \A b \in blocks : Aligned(heap_end) + incr >= b.from

Truncated(b, end) == [b EXCEPT !.to = IF @ > end THEN end ELSE @]

Sbrk(incr) ==
  LET prev == Aligned(heap_end)
  IN  /\ incr >= 0 \/ (Owned(incr) /\ prev + incr >= HeapStart)
      /\ IF Exceeds(incr)
         THEN heap_end' = prev /\ UNCHANGED blocks
         ELSE /\ heap_end' = prev + incr
              /\ blocks' = {Truncated(b, heap_end') : b \in blocks}
                           \cup {[from |-> prev, to |-> prev + incr] : i \in
                                   {i \in {incr} : i > 0}}

HeapNext == \E incr \in Increments : Sbrk(incr)

HeapSpec == HeapInit /\ [][HeapNext]_heapVars

-----------------------------------------------------------------------------
(* A block starts on a word, lies between the start of the heap and its    *)
(* limit, and shares nothing with another, whatever was asked for, refused *)
(* or given back before (alt_sbrk).                                        *)
BlocksApart ==
  /\ \A b \in blocks : /\ b.from % 4 = 0 /\ HeapStart <= b.from
                       /\ b.from <= b.to /\ b.to <= HeapLimit
  /\ \A b, c \in blocks : b = c \/ b.to <= c.from \/ c.to <= b.from
=============================================================================
