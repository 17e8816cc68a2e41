----------------------------- MODULE Interrupts -----------------------------
(***************************************************************************)
(* How the hardware abstraction layer dispatches interrupts on the Nios II *)
(* with its internal interrupt controller: alt_irq_handler.c, alt_iic.c,   *)
(* alt_iic_isr_register.c, sys/alt_irq.h and priv/alt_legacy_irq.h.        *)
(*                                                                         *)
(* The stack holds the program and above it one frame per exception taken, *)
(* with the place reached in alt_irq_handler or in the interrupt routine   *)
(* it called.  The routine on top runs, and before each of its steps the   *)
(* processor looks for an interrupt.  A line with a lower number has the   *)
(* higher priority.                                                        *)
(***************************************************************************)
EXTENDS Hal, Sequences, FiniteSets

VARIABLES
  pie,               \* the processor takes interrupts (status.PIE)
  ienable,           \* the lines it takes
  alt_irq_active,    \* the lines enabled by the program
  alt_priority_mask, \* the lines above the interrupt routine that opened
  alt_irq,           \* the lines with a handler
  request,           \* the lines the devices drive
  stack              \* the program and the exceptions taken

irqVars == <<pie, ienable, alt_irq_active, alt_priority_mask, alt_irq,
             request, stack>>

Line  == 0 .. ALT_NIRQ - 1
Frame(code) == [code |-> code, irq |-> ALT_NIRQ, active |-> {},
                sections |-> <<>>]

(* After altera_nios2_gen2_irq_init and alt_irq_cpu_enable_interrupts.     *)
IrqInit ==
  /\ pie = TRUE /\ ienable = {} /\ alt_irq_active = {}
  /\ alt_priority_mask = Line /\ alt_irq = {} /\ request = {}
  /\ stack = <<Frame("main")>>

top == stack[Len(stack)]
Top(frame) == stack' = [stack EXCEPT ![Len(stack)] = frame]
Push(section) == Top([top EXCEPT !.sections = Append(@, section)])

(* The section opened last. *)
last == top.sections[Len(top.sections)]
Pop == Top([top EXCEPT !.sections = SubSeq(@, 1, Len(@) - 1)])

alt_irq_pending == request \cap ienable

(* The routine on top takes its next step: no interrupt comes first. *)
Runs(codes) == top.code \in codes /\ ~(pie /\ alt_irq_pending # {})

(* Forms marked as mutations are faults a run must notice. *)

(* A device drives its line. *)
Raise(i) ==
  /\ request' = request \cup {i} /\ i \notin request
  /\ UNCHANGED <<pie, ienable, alt_irq_active, alt_priority_mask, alt_irq,
                 stack>>

(* The exception is taken: alt_exception, and on to alt_irq_handler. *)
Exception ==
  /\ pie /\ alt_irq_pending # {}
  /\ pie' = FALSE
  /\ stack' = Append(stack, Frame("enter"))
  /\ UNCHANGED <<ienable, alt_irq_active, alt_priority_mask, alt_irq, request>>

(* The pending lines are read, once on entry and after every handler; when *)
(* there are none left, eret.                                              *)
ReadPending ==
  /\ Runs({"enter", "again"})
  /\ IF top.code = "again" /\ alt_irq_pending = {}
     THEN stack' = SubSeq(stack, 1, Len(stack) - 1) /\ pie' = TRUE
     ELSE /\ Top([top EXCEPT !.code = "scan", !.active = alt_irq_pending])
          /\ UNCHANGED pie
  /\ UNCHANGED <<ienable, alt_irq_active, alt_priority_mask, alt_irq, request>>

First_Highest(lines) == CHOOSE i \in lines : \A j \in lines : j <= i \* mutation
First(lines) == CHOOSE i \in lines : \A j \in lines : i <= j

(* The first active line's handler is called.  Without one active the scan *)
(* would not end, without a handler the call would go to address 0.        *)
Dispatch ==
  /\ Runs({"scan"}) /\ top.active # {} /\ First(top.active) \in alt_irq
  /\ Top([top EXCEPT !.code = "call", !.irq = First(top.active)])
  /\ UNCHANGED <<pie, ienable, alt_irq_active, alt_priority_mask, alt_irq,
                 request>>

(* The handler satisfies its device, ... *)
Serve ==
  /\ Runs({"call"})
  /\ request' = request \ {top.irq}
  /\ Top([top EXCEPT !.code = "isr"])
  /\ UNCHANGED <<pie, ienable, alt_irq_active, alt_priority_mask, alt_irq>>

(* ... and returns. *)
HandlerReturn ==
  /\ Runs({"isr"}) /\ top.sections = <<>>
  /\ Top([top EXCEPT !.code = "again"])
  /\ UNCHANGED <<pie, ienable, alt_irq_active, alt_priority_mask, alt_irq,
                 request>>

(* alt_irq_disable_all: the old status is kept for alt_irq_enable_all. *)
DisableAll ==
  /\ Runs({"main", "isr"}) /\ Len(top.sections) < MaxSections
  /\ Push([kind |-> "off", pie |-> pie])
  /\ pie' = FALSE
  /\ UNCHANGED <<ienable, alt_irq_active, alt_priority_mask, alt_irq, request>>

Restored_On(context) == TRUE                       \* mutation
Restored(context) == context

EnableAll ==
  /\ Runs({"main", "isr"}) /\ top.sections # <<>> /\ last.kind = "off"
  /\ pie' = Restored(last.pie)
  /\ Pop
  /\ UNCHANGED <<ienable, alt_irq_active, alt_priority_mask, alt_irq, request>>

(* alt_irq_interruptible: the handler lets lines of higher priority in.    *)
Interruptible ==
  /\ Runs({"isr"}) /\ top.sections = <<>> /\ MaxSections > 0
  /\ Push([kind |-> "open", mask |-> alt_priority_mask])
  /\ alt_priority_mask' = 0 .. top.irq - 1
  /\ ienable' = alt_irq_active \cap alt_priority_mask'
  /\ pie' = TRUE
  /\ UNCHANGED <<alt_irq_active, alt_irq, request>>

NonInterruptible ==
  /\ Runs({"isr"}) /\ top.sections # <<>> /\ last.kind = "open"
  /\ pie' = FALSE
  /\ alt_priority_mask' = last.mask
  /\ ienable' = alt_irq_active \cap last.mask
  /\ Pop
  /\ UNCHANGED <<alt_irq_active, alt_irq, request>>

(* Calls that write ienable are made while no handler is interruptible:    *)
(* they do not respect alt_priority_mask.                                  *)
IrqCalls == Runs({"main", "isr"}) /\ alt_priority_mask = Line

alt_irq_enable(i) ==
  /\ alt_irq_active' = alt_irq_active \cup {i}
  /\ ienable' = alt_irq_active'

alt_irq_disable_Late(i) ==                         \* mutation
  alt_irq_active' = alt_irq_active \ {i} /\ UNCHANGED ienable
alt_irq_disable(i) ==
  /\ alt_irq_active' = alt_irq_active \ {i}
  /\ ienable' = alt_irq_active'

(* A line is enabled only with a handler. *)
Enable(i) ==
  /\ IrqCalls /\ i \in alt_irq
  /\ alt_irq_enable(i)
  /\ UNCHANGED <<pie, alt_priority_mask, alt_irq, request, stack>>

Disable(i) ==
  /\ IrqCalls
  /\ alt_irq_disable(i)
  /\ UNCHANGED <<pie, alt_priority_mask, alt_irq, request, stack>>

(* alt_ic_isr_register: with interrupts off, the handler is set and the    *)
(* line enabled, or disabled if there is none.                             *)
Register(i, handler) ==
  /\ IrqCalls
  /\ alt_irq' = IF handler THEN alt_irq \cup {i} ELSE alt_irq \ {i}
  /\ IF handler THEN alt_irq_enable(i) ELSE alt_irq_disable(i)
  /\ UNCHANGED <<pie, alt_priority_mask, request, stack>>

IrqNext ==
  \/ Exception \/ ReadPending \/ Dispatch \/ Serve \/ HandlerReturn
  \/ DisableAll \/ EnableAll \/ Interruptible \/ NonInterruptible
  \/ \E i \in Line : \/ Raise(i) \/ Enable(i) \/ Disable(i)
                     \/ \E handler \in BOOLEAN : Register(i, handler)

(* The processor runs; critical sections and handlers end, whatever        *)
(* they do before.                                                         *)
OutermostEnableAll == Len(top.sections) = 1 /\ EnableAll
IrqFairness == /\ WF_irqVars(Exception \/ ReadPending \/ Dispatch \/ Serve)
               /\ SF_irqVars(HandlerReturn) /\ SF_irqVars(NonInterruptible)
               /\ WF_irqVars(EnableAll) /\ SF_irqVars(OutermostEnableAll)

IrqSpec == IrqInit /\ [][IrqNext]_irqVars

-----------------------------------------------------------------------------
(* Every variable keeps its type. *)
Section == [kind : {"off"}, pie : BOOLEAN]
           \cup [kind : {"open"}, mask : SUBSET Line]
IrqTypeOK ==
  /\ pie \in BOOLEAN /\ ienable \subseteq Line /\ alt_irq_active \subseteq Line
  /\ alt_priority_mask \subseteq Line /\ alt_irq \subseteq Line
  /\ request \subseteq Line
  /\ stack \in Seq([code : {"main", "enter", "again", "scan", "call", "isr"},
                    irq : 0 .. ALT_NIRQ, active : SUBSET Line,
                    sections : Seq(Section)])
  /\ stack # <<>>

(* What is interrupted had interrupts on: the program outside any critical *)
(* section, a handler between alt_irq_interruptible and                    *)
(* alt_irq_non_interruptible, outside any critical section of its own, and *)
(* only by a line of higher priority.                                      *)
InterruptsNest ==
  \A k \in 1 .. Len(stack) - 1 :
    LET below == stack[k]
        above == stack[k + 1]
    IN  IF k = 1 THEN below.sections = <<>>
        ELSE /\ Len(below.sections) = 1 /\ below.sections[1].kind = "open"
             /\ above.active \subseteq 0 .. below.irq - 1
             /\ above.code \in {"call", "isr"} => above.irq < below.irq

(* alt_irq_handler always finds a line, and the line has a handler, in     *)
(* spite of handlers that are taken away or disabled.                      *)
AlwaysAHandler ==
  top.code = "scan" => top.active # {} /\ First(top.active) \in alt_irq

(* A request on the line of highest priority is served, or the line is     *)
(* disabled.                                                               *)
HighestServed == 0 \in request ~> 0 \notin request \/ 0 \notin alt_irq_active
=============================================================================
