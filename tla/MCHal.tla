------------------------------- MODULE MCHal --------------------------------
(***************************************************************************)
(* The parts of the hardware abstraction layer, one at a time: they share  *)
(* no variable, and each of them runs while the others stay as they are    *)
(* after reset.                                                            *)
(***************************************************************************)
EXTENDS Interrupts, AlarmList, FileTable, Heap

CONSTANT Parts   \* the parts this run looks at

VARIABLE part

MCIncrements == {-5, -1, 0, 1, 4, 6}

MCInit == IrqInit /\ AlarmInit /\ FileInit /\ HeapInit /\ part \in Parts

MCNext ==
  /\ \/ /\ part = "interrupts" /\ IrqNext
        /\ UNCHANGED <<alarmVars, fileVars, heapVars>>
     \/ /\ part = "alarms" /\ AlarmNext
        /\ UNCHANGED <<irqVars, fileVars, heapVars>>
     \/ /\ part = "files" /\ FileNext
        /\ UNCHANGED <<irqVars, alarmVars, heapVars>>
     \/ /\ part = "heap" /\ HeapNext
        /\ UNCHANGED <<irqVars, alarmVars, fileVars>>
  /\ UNCHANGED part

(* What is fair of a part that does not run is not enabled. *)
MCSpec ==
  /\ MCInit /\ [][MCNext]_<<part, irqVars, alarmVars, fileVars, heapVars>>
  /\ IrqFairness /\ AlarmFairness
=============================================================================
