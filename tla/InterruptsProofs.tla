-------------------------- MODULE InterruptsProofs --------------------------
(***************************************************************************)
(* Proofs about Interrupts, for any number of lines, any handlers and any  *)
(* depth of exceptions and critical sections.                              *)
(*                                                                         *)
(* The argument looks at one frame of the stack at a time, with the one    *)
(* below it: where it is, whether it had interrupts on after each section  *)
(* it opened, and which lines it lets in.                                  *)
(***************************************************************************)
EXTENDS Interrupts, SequenceTheorems, WellFoundedInduction, TLAPS

FrameType == [code : {"main", "enter", "again", "scan", "call", "isr"},
              irq : 0 .. ALT_NIRQ, active : SUBSET Line,
              sections : Seq(Section)]

(* The routine f, within the n-th section it opened, has interrupts on.    *)
On(f, n) ==
  \/ f.code = "main" /\ n = 0
  \/ f.code = "isr" /\ n = 1 /\ f.sections[1].kind = "open"

Opened(f) == f.sections # <<>> /\ f.sections[1].kind = "open"

(* A critical section keeps what interrupts were when it began, and only   *)
(* an interrupt routine outside any other section opens.                   *)
SectionsOK(f) ==
  /\ f.code \notin {"main", "isr"} => f.sections = <<>>
  /\ \A n \in 1 .. Len(f.sections) :
       /\ f.sections[n].kind = "open" => n = 1 /\ f.code = "isr"
       /\ f.sections[n].kind = "off" =>
            (f.sections[n].pie = TRUE <=> On(f, n - 1))

(* The lines let in by the frame b, below frame k.                         *)
Base(k, b) == IF k <= 2 THEN Line ELSE 0 .. b.irq - 1

FrameOK(k, f, b) ==
  /\ k = 1 <=> f.code = "main"
  /\ SectionsOK(f)
  /\ Opened(f) => f.sections[1].mask = Base(k, b)
  /\ k > 2 => /\ f.active \subseteq 0 .. b.irq - 1
              /\ f.code \in {"call", "isr"} => f.irq < b.irq

Below(s, k) == IF k = 1 THEN s[1] ELSE s[k - 1]

FramesInv ==
  /\ \A k \in 1 .. Len(stack) : FrameOK(k, stack[k], Below(stack, k))
  /\ \A k \in 1 .. Len(stack) - 1 : On(stack[k], Len(stack[k].sections))

PieInv == pie = TRUE <=> On(top, Len(top.sections))

Mask(k, f, b) == IF Opened(f) THEN 0 .. f.irq - 1 ELSE Base(k, b)

MaskInv ==
  /\ alt_priority_mask = Mask(Len(stack), top, Below(stack, Len(stack)))
  /\ ienable = alt_irq_active \cap alt_priority_mask

HandlerInv ==
  /\ alt_irq_active \subseteq alt_irq
  /\ top.code = "enter" => alt_irq_pending # {}
  /\ top.code = "scan" => top.active # {} /\ top.active \subseteq alt_irq

Inv == IrqTypeOK /\ FramesInv /\ PieInv /\ MaskInv /\ HandlerInv

-----------------------------------------------------------------------------
LEMMA FirstOfLines ==
  ASSUME NEW lines \in SUBSET Line, lines # {}
  PROVE  First(lines) \in lines
<1>1. lines \subseteq Nat /\ ALT_NIRQ \in Nat
  BY HalAssumption DEF Line
<1>2. PICK i \in lines : \A j \in lines : ~(<<j, i>> \in OpToRel(<, Nat))
  BY <1>1, WFMin, NatLessThanWellFounded
<1>3. \A j \in lines : ~(j < i)
  BY <1>1, <1>2 DEF OpToRel
<1>4. \A j \in lines : i <= j
  BY <1>1, <1>3
<1> QED
  BY <1>4 DEF First

(* A stack of frames of the right type, and its top.                       *)
LEMMA StackTop ==
  ASSUME IrqTypeOK
  PROVE  /\ stack \in Seq(FrameType) /\ Len(stack) \in Nat \ {0}
         /\ top \in FrameType /\ top = stack[Len(stack)]
         /\ \A k \in 1 .. Len(stack) : stack[k] \in FrameType
<1>1. stack \in Seq(FrameType) /\ stack # <<>>
  BY DEF IrqTypeOK, FrameType
<1>2. Len(stack) \in Nat \ {0}
  BY <1>1, EmptySeq
<1>3. \A k \in 1 .. Len(stack) : stack[k] \in FrameType
  BY <1>1, ElementOfSeq
<1> QED
  BY <1>1, <1>2, <1>3 DEF top

(* What is replaced is the top.                                            *)
LEMMA TopReplaced ==
  ASSUME IrqTypeOK, NEW f \in FrameType, Top(f)
  PROVE  /\ stack' \in Seq(FrameType) /\ Len(stack') = Len(stack)
         /\ stack' # <<>> /\ top' = f
         /\ \A k \in 1 .. Len(stack) - 1 : stack'[k] = stack[k]
         /\ stack'[Len(stack)] = f
<1>1. Len(stack) \in 1 .. Len(stack) /\ stack \in Seq(FrameType)
  BY StackTop
<1>2. /\ stack' \in Seq(FrameType) /\ Len(stack') = Len(stack)
      /\ \A k \in 1 .. Len(stack) :
           stack'[k] = IF k = Len(stack) THEN f ELSE stack[k]
  BY <1>1, ExceptSeq DEF Top
<1>3. stack' # <<>>
  BY <1>1, <1>2, EmptySeq
<1>4. stack'[Len(stack)] = f
  BY <1>1, <1>2
<1> QED
  BY <1>1, <1>2, <1>3, <1>4 DEF top

LEMMA FramesReplaced ==
  ASSUME IrqTypeOK, FramesInv, NEW f \in FrameType, Top(f),
         FrameOK(Len(stack), f, Below(stack, Len(stack)))
  PROVE  FramesInv' /\ (Len(stack) > 1 =>
           Below(stack, Len(stack))' = Below(stack, Len(stack)))
<1> DEFINE N == Len(stack)
<1>1. /\ N \in Nat /\ N >= 1 /\ Len(stack') = N
      /\ \A k \in 1 .. N - 1 : stack'[k] = stack[k]
      /\ stack'[N] = f
  BY StackTop, TopReplaced
<1> HIDE DEF N
<1>2. \A k \in 2 .. N : Below(stack', k) = Below(stack, k)
  BY <1>1 DEF Below
<1>3. ASSUME NEW k \in 1 .. N PROVE FrameOK(k, stack'[k], Below(stack', k))
  <2>1. CASE k = N /\ k = 1
    BY <1>1, <2>1 DEF FrameOK, Base, N
  <2>2. CASE k = N /\ k > 1
    BY <1>1, <1>2, <2>2 DEF N
  <2>3. CASE k < N /\ k = 1
    <3>1. FrameOK(k, stack[k], Below(stack, k))
      BY DEF FramesInv, N
    <3> QED
      BY <1>1, <2>3, <3>1 DEF FrameOK, Base
  <2>4. CASE k < N /\ k > 1
    <3>1. FrameOK(k, stack[k], Below(stack, k))
      BY DEF FramesInv, N
    <3> QED
      BY <1>1, <1>2, <2>4, <3>1
  <2> QED
    BY <1>1, <2>1, <2>2, <2>3, <2>4
<1>4. \A k \in 1 .. N - 1 : On(stack'[k], Len(stack'[k].sections))
  BY <1>1 DEF FramesInv, N
<1> QED
  BY <1>1, <1>2, <1>3, <1>4 DEF FramesInv, N

-----------------------------------------------------------------------------
(* The sections of one frame.                                              *)

LEMMA SectionTypes ==
  ASSUME NEW f \in FrameType
  PROVE  /\ f.sections \in Seq(Section) /\ Len(f.sections) \in Nat
         /\ (f.sections = <<>> <=> Len(f.sections) = 0)
         /\ \A n \in 1 .. Len(f.sections) :
              /\ f.sections[n] \in Section
              /\ f.sections[n].kind \in {"off", "open"}
<1>1. f.sections \in Seq(Section)
  BY DEF FrameType
<1>2. Len(f.sections) \in Nat /\ (f.sections # <<>> => Len(f.sections) # 0)
  BY <1>1, EmptySeq, LenProperties
<1>3. \A n \in 1 .. Len(f.sections) : f.sections[n] \in Section
  BY <1>1, ElementOfSeq
<1>4. \A n \in 1 .. Len(f.sections) : f.sections[n].kind \in {"off", "open"}
  BY <1>3 DEF Section
<1>5. f.sections = <<>> => Len(f.sections) = 0
  OBVIOUS
<1> QED
  BY <1>1, <1>2, <1>3, <1>4, <1>5

(* A frame with one section more, and with its innermost section closed.   *)
Pushed(f, s) == [f EXCEPT !.sections = Append(@, s)]
OffSection(b) == [kind |-> "off", pie |-> b]
Popped(f) == [f EXCEPT !.sections = SubSeq(@, 1, Len(@) - 1)]

(* A critical section begins, with interrupts as they are.                 *)
LEMMA PushOff ==
  ASSUME NEW f \in FrameType, SectionsOK(f), f.code \in {"main", "isr"},
         NEW b \in BOOLEAN, b = TRUE <=> On(f, Len(f.sections)),
         NEW g, g = Pushed(f, OffSection(b))
  PROVE  /\ g \in FrameType /\ SectionsOK(g) /\ g.code = f.code
         /\ g.irq = f.irq /\ g.active = f.active
         /\ ~On(g, Len(g.sections))
         /\ Opened(g) <=> Opened(f)
         /\ Opened(f) => g.sections[1] = f.sections[1]
<1> DEFINE s == OffSection(b)
           L == Len(f.sections)
<1>1. s \in Section /\ s.kind = "off" /\ s.pie = b
  BY DEF Section, OffSection
<1>2. f.sections \in Seq(Section) /\ L \in Nat /\ (f.sections = <<>> <=> L = 0)
  BY SectionTypes
<1>3. /\ g.sections = Append(f.sections, s) /\ g.code = f.code
      /\ g.irq = f.irq /\ g.active = f.active
  BY DEF FrameType, Pushed
<1>0. b = TRUE <=> On(f, L)
  OBVIOUS
<1> HIDE DEF s
<1>4. /\ g.sections \in Seq(Section) /\ g.sections # <<>>
      /\ Len(g.sections) = L + 1
      /\ \A n \in 1 .. L : g.sections[n] = f.sections[n]
      /\ g.sections[L + 1] = s
  <2>1. /\ Append(f.sections, s) \in Seq(Section)
        /\ Append(f.sections, s) # <<>>
        /\ Len(Append(f.sections, s)) = L + 1
        /\ \A n \in 1 .. L : Append(f.sections, s)[n] = f.sections[n]
        /\ Append(f.sections, s)[L + 1] = s
    BY <1>1, <1>2, AppendProperties
  <2> QED
    BY <1>3, <2>1
<1>5. g \in FrameType
  <2>1. g = [f EXCEPT !.sections = g.sections]
    BY DEF FrameType, Pushed
  <2> QED
    BY <2>1, <1>4 DEF FrameType
<1> HIDE DEF L
<1>6. \A n \in 0 .. L : On(g, n) <=> On(f, n)
  BY <1>2, <1>3, <1>4 DEF On
<1>7. Opened(g) <=> Opened(f)
  <2>1. CASE L = 0
    BY <1>1, <1>2, <1>4, <2>1 DEF Opened
  <2>2. CASE L > 0
    BY <1>2, <1>4, <2>2 DEF Opened
  <2> QED
    BY <1>2, <2>1, <2>2
<1>8. Opened(f) => g.sections[1] = f.sections[1]
  BY <1>2, <1>4 DEF Opened
<1>9. ~On(g, Len(g.sections))
  BY <1>1, <1>2, <1>4 DEF On
<1>10. SectionsOK(g)
  <2>1. g.code \in {"main", "isr"}
    BY <1>3
  <2> SUFFICES ASSUME NEW n \in 1 .. L + 1
               PROVE  /\ g.sections[n].kind = "open" => n = 1 /\ g.code = "isr"
                      /\ g.sections[n].kind = "off" =>
                           (g.sections[n].pie = TRUE <=> On(g, n - 1))
    BY <1>4, <2>1 DEF SectionsOK
  <2>2. CASE n = L + 1
    <3>1. g.sections[n] = s /\ n - 1 = L
      BY <1>2, <1>4, <2>2
    <3>2. L \in 0 .. L
      BY <1>2
    <3>3. b = TRUE <=> On(g, L)
      BY <1>0, <1>6, <3>2
    <3> QED
      BY <1>1, <3>1, <3>3
  <2>3. CASE n \in 1 .. L
    <3>1. /\ f.sections[n].kind = "open" => n = 1 /\ f.code = "isr"
          /\ f.sections[n].kind = "off" =>
               (f.sections[n].pie = TRUE <=> On(f, n - 1))
      BY <2>3 DEF SectionsOK, L
    <3>2. n - 1 \in 0 .. L
      BY <1>2, <2>3
    <3>3. On(g, n - 1) <=> On(f, n - 1)
      BY <1>6, <3>2
    <3> QED
      BY <1>3, <1>4, <2>3, <3>1, <3>3
  <2>4. n = L + 1 \/ n \in 1 .. L
    BY <1>2
  <2> QED
    BY <2>2, <2>3, <2>4
<1> QED
  BY <1>3, <1>5, <1>7, <1>8, <1>9, <1>10

(* A section ends: what is left is what was there before it.               *)
LEMMA PopSection ==
  ASSUME NEW f \in FrameType, SectionsOK(f), f.sections # <<>>,
         f.code \in {"main", "isr"},
         NEW g, g = Popped(f)
  PROVE  LET L == Len(f.sections)
         IN  /\ g \in FrameType /\ SectionsOK(g) /\ g.code = f.code
             /\ g.irq = f.irq /\ g.active = f.active
             /\ Len(g.sections) = L - 1 /\ L \in Nat /\ L > 0
             /\ \A n \in 0 .. L - 1 : On(g, n) <=> On(f, n)
             /\ \A n \in 1 .. L - 1 : g.sections[n] = f.sections[n]
             /\ f.sections[L].kind = "off" =>
                  /\ f.sections[L].pie = TRUE <=> On(g, L - 1)
                  /\ Opened(g) <=> Opened(f)
                  /\ Opened(f) => g.sections[1] = f.sections[1]
             /\ f.sections[L].kind = "open" =>
                  /\ L = 1 /\ f.code = "isr" /\ g.sections = <<>>
                  /\ ~Opened(g) /\ Opened(f) /\ ~On(g, Len(g.sections))
<1> DEFINE L == Len(f.sections)
<1>0. \A x \in Nat : x > 0 => /\ x \in 1 .. x /\ x - 1 \in 0 .. x - 1
                             /\ (x - 1 = 0 <=> x = 1) /\ (x = 1 \/ x > 1)
  OBVIOUS
<1>1. f.sections \in Seq(Section) /\ L \in Nat /\ L > 0
  BY SectionTypes
<1>2. /\ g.sections = SubSeq(f.sections, 1, L - 1) /\ g.code = f.code
      /\ g.irq = f.irq /\ g.active = f.active
  BY DEF FrameType, Popped
<1>3. /\ g.sections \in Seq(Section) /\ Len(g.sections) = L - 1
      /\ \A n \in 1 .. L - 1 : g.sections[n] = f.sections[n]
  <2>1. \A i \in 1 .. L - 1 : f.sections[i] \in Section
    BY <1>1, SectionTypes
  <2>2. /\ SubSeq(f.sections, 1, L - 1) \in Seq(Section)
        /\ Len(SubSeq(f.sections, 1, L - 1)) =
             IF 1 <= L - 1 THEN L - 1 - 1 + 1 ELSE 0
        /\ \A i \in 1 .. L - 1 - 1 + 1 :
             SubSeq(f.sections, 1, L - 1)[i] = f.sections[1 + i - 1]
    <3>1. L - 1 \in Int /\ 1 \in Int
      BY <1>1
    <3> HIDE DEF L
    <3> QED
      BY <2>1, <3>1, SubSeqProperties
  <2> HIDE DEF L
  <2> QED
    BY <1>1, <1>2, <2>2
<1>4. g \in FrameType
  <2>1. g = [f EXCEPT !.sections = g.sections]
    BY DEF FrameType, Popped
  <2> QED
    BY <2>1, <1>3 DEF FrameType
<1>5. \A n \in 0 .. L - 1 : On(g, n) <=> On(f, n)
  BY <1>1, <1>2, <1>3 DEF On
<1>6. SectionsOK(g)
  <2> SUFFICES ASSUME NEW n \in 1 .. L - 1
               PROVE  /\ g.sections[n].kind = "open" => n = 1 /\ g.code = "isr"
                      /\ g.sections[n].kind = "off" =>
                           (g.sections[n].pie = TRUE <=> On(g, n - 1))
    BY <1>2, <1>3 DEF SectionsOK
  <2>1. n \in 1 .. L
    BY <1>1
  <2>2. /\ f.sections[n].kind = "open" => n = 1 /\ f.code = "isr"
        /\ f.sections[n].kind = "off" =>
             (f.sections[n].pie = TRUE <=> On(f, n - 1))
    BY <2>1 DEF SectionsOK
  <2>3. n - 1 \in 0 .. L - 1
    BY <1>1
  <2>4. On(g, n - 1) <=> On(f, n - 1)
    BY <1>5, <2>3
  <2> QED
    BY <1>2, <1>3, <2>2, <2>4
<1>7. /\ f.sections[L].kind = "open" => L = 1 /\ f.code = "isr"
      /\ f.sections[L].kind = "off" => (f.sections[L].pie = TRUE <=> On(f, L - 1))
  <2>1. L \in 1 .. L
    BY <1>0, <1>1
  <2> QED
    BY <2>1 DEF SectionsOK
<1>8. g.sections = <<>> <=> L = 1
  <2>1. g.sections = <<>> <=> Len(g.sections) = 0
    BY <1>4, SectionTypes
  <2> QED
    BY <1>0, <1>1, <1>3, <2>1
<1>9. ASSUME f.sections[L].kind = "off"
      PROVE  /\ f.sections[L].pie = TRUE <=> On(g, L - 1)
             /\ Opened(g) <=> Opened(f)
             /\ Opened(f) => g.sections[1] = f.sections[1]
  <2>0. L - 1 \in 0 .. L - 1 /\ (L = 1 \/ L > 1)
    BY <1>0, <1>1
  <2>1. f.sections[L].pie = TRUE <=> On(g, L - 1)
    BY <1>5, <1>7, <1>9, <2>0
  <2>2. CASE L = 1
    BY <1>8, <1>9, <2>1, <2>2 DEF Opened
  <2>3. CASE L > 1
    BY <1>1, <1>3, <1>8, <2>1, <2>3 DEF Opened
  <2> QED
    BY <2>0, <2>2, <2>3
<1>10. ASSUME f.sections[L].kind = "open"
       PROVE  /\ L = 1 /\ f.code = "isr" /\ g.sections = <<>>
              /\ ~Opened(g) /\ Opened(f) /\ ~On(g, Len(g.sections))
  BY <1>2, <1>3, <1>7, <1>8, <1>10 DEF Opened, On
<1> QED
  BY <1>1, <1>2, <1>3, <1>4, <1>5, <1>6, <1>9, <1>10

(* alt_irq_interruptible.                                                  *)
LEMMA PushOpen ==
  ASSUME NEW f \in FrameType, f.code = "isr", f.sections = <<>>,
         NEW m \in SUBSET Line,
         NEW g, g = Pushed(f, [kind |-> "open", mask |-> m])
  PROVE  /\ g \in FrameType /\ SectionsOK(g) /\ g.code = "isr"
         /\ g.irq = f.irq /\ g.active = f.active
         /\ On(g, Len(g.sections)) /\ Opened(g) /\ g.sections[1].mask = m
<1> DEFINE s == [kind |-> "open", mask |-> m]
<1>1. s \in Section /\ s.kind = "open" /\ s.mask = m
  BY DEF Section
<1>2. f.sections \in Seq(Section) /\ Len(f.sections) = 0
  BY SectionTypes
<1>3. /\ g.sections = Append(f.sections, s) /\ g.code = "isr"
      /\ g.irq = f.irq /\ g.active = f.active
  BY DEF FrameType, Pushed
<1> HIDE DEF s
<1>4. /\ g.sections \in Seq(Section) /\ g.sections # <<>>
      /\ Len(g.sections) = 1 /\ g.sections[1] = s
  <2>1. /\ Append(f.sections, s) \in Seq(Section)
        /\ Append(f.sections, s) # <<>>
        /\ Len(Append(f.sections, s)) = Len(f.sections) + 1
        /\ Append(f.sections, s)[Len(f.sections) + 1] = s
    BY <1>1, <1>2, AppendProperties
  <2>2. Len(f.sections) + 1 = 1
    BY <1>2
  <2> QED
    BY <1>3, <2>1, <2>2
<1>5. g \in FrameType
  <2>1. g = [f EXCEPT !.sections = g.sections]
    BY DEF FrameType, Pushed
  <2> QED
    BY <2>1, <1>4 DEF FrameType
<1>6. SectionsOK(g) /\ On(g, Len(g.sections)) /\ Opened(g)
  BY <1>1, <1>3, <1>4 DEF SectionsOK, On, Opened
<1> QED
  BY <1>1, <1>3, <1>4, <1>5, <1>6

-----------------------------------------------------------------------------
(* What the invariant says of the frame on top.                            *)
LEMMA TopFacts ==
  ASSUME Inv
  PROVE  /\ FrameOK(Len(stack), top, Below(stack, Len(stack)))
         /\ SectionsOK(top)
         /\ Len(stack) = 1 <=> top.code = "main"
         /\ stack[1].code = "main"
<1>1. Len(stack) \in 1 .. Len(stack) /\ 1 \in 1 .. Len(stack)
  BY StackTop DEF Inv
<1>2. FrameOK(Len(stack), top, Below(stack, Len(stack)))
  BY <1>1, StackTop DEF Inv, FramesInv
<1>3. FrameOK(1, stack[1], Below(stack, 1))
  BY <1>1 DEF Inv, FramesInv
<1> QED
  BY <1>2, <1>3 DEF FrameOK

(* A step of the routine on top that keeps its place in the stack.         *)
LEMMA TopStep ==
  ASSUME Inv, NEW f \in FrameType, Top(f), SectionsOK(f),
         f.code = "main" <=> top.code = "main",
         Opened(f) => f.sections[1].mask
                        = Base(Len(stack), Below(stack, Len(stack))),
         Len(stack) > 2 =>
           /\ f.active \subseteq 0 .. Below(stack, Len(stack)).irq - 1
           /\ f.code \in {"call", "isr"} => f.irq < Below(stack, Len(stack)).irq
  PROVE  /\ FramesInv' /\ top' = f /\ Len(stack') = Len(stack)
         /\ stack' \in Seq(FrameType) /\ stack' # <<>>
         /\ (Opened(f) <=> Opened(top)) /\ f.irq = top.irq =>
              Mask(Len(stack), top, Below(stack, Len(stack)))'
                = Mask(Len(stack), top, Below(stack, Len(stack)))
         /\ ~Opened(f) => Mask(Len(stack), top, Below(stack, Len(stack)))'
                            = Base(Len(stack), Below(stack, Len(stack)))
         /\ Opened(f) => Mask(Len(stack), top, Below(stack, Len(stack)))'
                            = 0 .. f.irq - 1
<1> DEFINE N == Len(stack)
           B == Below(stack, N)
<1>1. IrqTypeOK /\ FramesInv
  BY DEF Inv
<1>2. N = 1 <=> f.code = "main"
  BY TopFacts
<1>3. FrameOK(N, f, B)
  BY <1>2 DEF FrameOK
<1>4. /\ stack' \in Seq(FrameType) /\ Len(stack') = N /\ stack' # <<>>
      /\ top' = f
  BY <1>1, TopReplaced
<1>5. FramesInv' /\ (N > 1 => B' = B)
  BY <1>1, <1>3, FramesReplaced
<1>6. Base(N, B)' = Base(N, B)
  <2>1. N \in Nat
    BY <1>1, StackTop
  <2> QED
    BY <1>4, <1>5, <2>1 DEF Base
<1>7. Mask(N, top, B)' = IF Opened(f) THEN 0 .. f.irq - 1 ELSE Base(N, B)
  BY <1>4, <1>6 DEF Mask, Opened
<1>8. Mask(N, top, B) = IF Opened(top) THEN 0 .. top.irq - 1 ELSE Base(N, B)
  BY DEF Mask
<1> HIDE DEF N, B
<1> QED
  BY <1>4, <1>5, <1>7, <1>8 DEF N, B

LEMMA StackTyped ==
  ASSUME Inv
  PROVE  /\ pie \in BOOLEAN /\ ienable \subseteq Line /\ alt_irq_active \subseteq Line
         /\ alt_priority_mask \subseteq Line /\ alt_irq \subseteq Line
         /\ request \subseteq Line /\ ienable \subseteq alt_irq_active
         /\ ienable \subseteq alt_priority_mask
BY DEF Inv, IrqTypeOK, MaskInv

LEMMA InterruptsInit == IrqInit => Inv
<1> SUFFICES ASSUME IrqInit PROVE Inv
  OBVIOUS
<1>1. ALT_NIRQ \in Nat
  BY HalAssumption
<1>2. Frame("main") \in FrameType
  BY <1>1 DEF Frame, FrameType
<1>3. stack = <<Frame("main")>> /\ Len(stack) = 1 /\ stack[1] = Frame("main")
  BY DEF IrqInit
<1>4. top = Frame("main") /\ top.code = "main" /\ top.sections = <<>>
  BY <1>3 DEF top, Frame
<1>5. stack \in Seq(FrameType) /\ stack # <<>>
  BY <1>2, <1>3
<1>6. IrqTypeOK
  BY <1>5 DEF IrqInit, IrqTypeOK, FrameType
<1>7. FrameOK(1, stack[1], Below(stack, 1))
  BY <1>3, <1>4 DEF FrameOK, SectionsOK, Opened, Base, Frame
<1>8. FramesInv
  BY <1>3, <1>7 DEF FramesInv
<1>9. PieInv
  BY <1>4 DEF PieInv, On, IrqInit
<1>10. MaskInv
  BY <1>3, <1>4 DEF MaskInv, Mask, Opened, Base, IrqInit
<1>11. HandlerInv
  BY <1>4 DEF HandlerInv, IrqInit
<1> QED
  BY <1>6, <1>8, <1>9, <1>10, <1>11 DEF Inv

LEMMA RaiseStep ==
  ASSUME Inv, NEW i \in Line, Raise(i)
  PROVE  Inv'
<1>1. /\ request' = request \cup {i}
      /\ UNCHANGED <<pie, ienable, alt_irq_active, alt_priority_mask, alt_irq,
                     stack>>
  BY DEF Raise
<1>2. top' = top
  BY <1>1 DEF top
<1>3. alt_irq_pending \subseteq alt_irq_pending'
  BY <1>1 DEF alt_irq_pending
<1>4. IrqTypeOK'
  BY <1>1 DEF Inv, IrqTypeOK
<1>5. FramesInv' /\ PieInv' /\ MaskInv'
  BY <1>1, <1>2 DEF Inv, FramesInv, PieInv, MaskInv
<1>6. HandlerInv'
  BY <1>1, <1>2, <1>3 DEF Inv, HandlerInv
<1> QED
  BY <1>4, <1>5, <1>6 DEF Inv

(* What was interrupted lets in the lines above it.                        *)
LEMMA OnLetsIn ==
  ASSUME NEW k \in Nat \ {0}, NEW f \in FrameType, NEW b,
         k = 1 <=> f.code = "main", On(f, Len(f.sections))
  PROVE  /\ Mask(k, f, b) = Base(k + 1, f)
         /\ f.code \in {"main", "isr"}
<1>1. f.sections = <<>> <=> Len(f.sections) = 0
  BY SectionTypes
<1>2. CASE k = 1
  BY <1>1, <1>2 DEF On, Mask, Opened, Base
<1>3. CASE k > 1
  <2>1. f.code = "isr" /\ f.sections[1].kind = "open" /\ f.sections # <<>>
    BY <1>1, <1>3 DEF On
  <2> QED
    BY <1>3, <2>1 DEF Mask, Opened, Base
<1> QED
  BY <1>2, <1>3

LEMMA ExceptionStep ==
  ASSUME Inv, Exception
  PROVE  Inv'
<1> DEFINE N == Len(stack)
           f == Frame("enter")
<1>1. /\ pie /\ alt_irq_pending # {} /\ pie' = FALSE
      /\ stack' = Append(stack, f)
      /\ UNCHANGED <<ienable, alt_irq_active, alt_priority_mask, alt_irq,
                     request>>
  BY DEF Exception
<1>2. f \in FrameType /\ f.code = "enter" /\ f.sections = <<>> /\ f.active = {}
  BY HalAssumption DEF Frame, FrameType
<1>3. stack \in Seq(FrameType) /\ N \in Nat \ {0} /\ top = stack[N]
      /\ top \in FrameType
  BY StackTop DEF Inv
<1> HIDE DEF f
<1>4. /\ stack' \in Seq(FrameType) /\ stack' # <<>> /\ Len(stack') = N + 1
      /\ \A k \in 1 .. N : stack'[k] = stack[k]
      /\ stack'[N + 1] = f
  BY <1>1, <1>2, <1>3, AppendProperties
<1>5. top' = f
  BY <1>4 DEF top
<1>6. On(top, Len(top.sections))
  BY <1>1 DEF Inv, PieInv
<1> HIDE DEF N
<1>7. \A k \in 1 .. N : Below(stack', k) = Below(stack, k)
  BY <1>3, <1>4 DEF Below
<1>8. FrameOK(N + 1, f, top)
  <2>1. N + 1 # 1
    BY <1>3
  <2> QED
    BY <1>2, <2>1 DEF FrameOK, SectionsOK, Opened
<1>9. Below(stack', N + 1) = top
  BY <1>3, <1>4 DEF Below
<1>10. FramesInv'
  <2>1. \A k \in 1 .. N + 1 : FrameOK(k, stack'[k], Below(stack', k))
    <3> SUFFICES ASSUME NEW k \in 1 .. N + 1
                 PROVE  FrameOK(k, stack'[k], Below(stack', k))
      OBVIOUS
    <3>1. CASE k = N + 1
      BY <1>4, <1>8, <1>9, <3>1
    <3>2. CASE k \in 1 .. N
      BY <1>4, <1>7, <3>2 DEF Inv, FramesInv, N
    <3>3. k = N + 1 \/ k \in 1 .. N
      BY <1>3
    <3> QED
      BY <3>1, <3>2, <3>3
  <2>2. \A k \in 1 .. N : On(stack'[k], Len(stack'[k].sections))
    <3> SUFFICES ASSUME NEW k \in 1 .. N
                 PROVE  On(stack[k], Len(stack[k].sections))
      BY <1>4
    <3>1. CASE k = N
      BY <1>3, <1>6, <3>1 DEF N
    <3>2. CASE k \in 1 .. N - 1
      BY <3>2 DEF Inv, FramesInv, N
    <3>3. k = N \/ k \in 1 .. N - 1
      BY <1>3
    <3> QED
      BY <3>1, <3>2, <3>3
  <2>3. Len(stack') = N + 1 /\ Len(stack') - 1 = N
    BY <1>3, <1>4
  <2>4. \A k \in 1 .. Len(stack') : FrameOK(k, stack'[k], Below(stack', k))
    BY <2>1, <2>3
  <2>5. \A k \in 1 .. Len(stack') - 1 : On(stack'[k], Len(stack'[k].sections))
    BY <2>2, <2>3
  <2> QED
    BY <2>4, <2>5 DEF FramesInv
<1>11. PieInv'
  BY <1>1, <1>2, <1>5 DEF PieInv, On
<1>12. MaskInv'
  <2>1. N = 1 <=> top.code = "main"
    BY TopFacts DEF N
  <2>2. Mask(N, top, Below(stack, N)) = Base(N + 1, top)
    BY <1>3, <1>6, <2>1, OnLetsIn
  <2>3. Mask(N + 1, f, top) = Base(N + 1, top)
    BY <1>2 DEF Mask, Opened
  <2> QED
    BY <1>1, <1>4, <1>5, <1>9, <2>2, <2>3 DEF Inv, MaskInv, N
<1>13. HandlerInv'
  <2>1. alt_irq_pending' = alt_irq_pending
    BY <1>1 DEF alt_irq_pending
  <2> QED
    BY <1>1, <1>2, <1>5, <2>1 DEF Inv, HandlerInv
<1>14. IrqTypeOK'
  BY <1>1, <1>4 DEF Inv, IrqTypeOK, FrameType
<1> QED
  BY <1>10, <1>11, <1>12, <1>13, <1>14 DEF Inv

(* eret, and the pending lines read.                                       *)
LEMMA ReadPendingStep ==
  ASSUME Inv, ReadPending
  PROVE  Inv'
<1> DEFINE N == Len(stack)
<1>1. top.code \in {"enter", "again"}
      /\ UNCHANGED <<ienable, alt_irq_active, alt_priority_mask, alt_irq,
                     request>>
  BY DEF ReadPending, Runs
<1>2. /\ stack \in Seq(FrameType) /\ N \in Nat \ {0} /\ top = stack[N]
      /\ top \in FrameType /\ N # 1
      /\ \A k \in 1 .. N : stack[k] \in FrameType
  BY <1>1, StackTop, TopFacts DEF Inv
<1>3. top.sections = <<>> /\ ~Opened(top)
  BY <1>1, TopFacts DEF SectionsOK, Opened
<1>4. alt_irq_pending' = alt_irq_pending
  BY <1>1 DEF alt_irq_pending
<1>5. alt_priority_mask = Base(N, Below(stack, N))
  BY <1>3 DEF Inv, MaskInv, Mask
<1>6. CASE top.code = "again" /\ alt_irq_pending = {}
  <2>1. stack' = SubSeq(stack, 1, N - 1) /\ pie' = TRUE
    BY <1>6 DEF ReadPending
  <2> HIDE DEF N
  <2>2. /\ stack' \in Seq(FrameType) /\ Len(stack') = N - 1
        /\ \A k \in 1 .. N - 1 : stack'[k] = stack[k]
    <3>1. \A i \in 1 .. N - 1 : stack[i] \in FrameType
      BY <1>2
    <3>2. N - 1 \in Int /\ N - 1 >= 1 /\ N - 1 - 1 + 1 = N - 1
          /\ \A i \in Int : 1 + i - 1 = i
      BY <1>2
    <3>3. /\ SubSeq(stack, 1, N - 1) \in Seq(FrameType)
          /\ Len(SubSeq(stack, 1, N - 1)) =
               IF 1 <= N - 1 THEN N - 1 - 1 + 1 ELSE 0
          /\ \A i \in 1 .. N - 1 - 1 + 1 :
               SubSeq(stack, 1, N - 1)[i] = stack[1 + i - 1]
      BY <3>1, <3>2, SubSeqProperties
    <3> QED
      BY <2>1, <3>2, <3>3
  <2>3. stack' # <<>>
    BY <1>2, <2>2, EmptySeq
  <2>4. top' = stack[N - 1] /\ stack[N - 1] \in FrameType
    BY <1>2, <2>2 DEF top
  <2>5. \A k \in 1 .. N - 1 : Below(stack', k) = Below(stack, k)
    BY <1>2, <2>2 DEF Below
  <2>6. FramesInv'
    <3>1. \A k \in 1 .. Len(stack') : FrameOK(k, stack'[k], Below(stack', k))
      BY <1>2, <2>2, <2>5 DEF Inv, FramesInv, N
    <3>2. \A k \in 1 .. Len(stack') - 1 : On(stack'[k], Len(stack'[k].sections))
      BY <1>2, <2>2 DEF Inv, FramesInv, N
    <3> QED
      BY <3>1, <3>2 DEF FramesInv
  <2>7. N - 1 \in 1 .. N - 1 /\ N - 1 \in 1 .. N
    BY <1>2
  <2>8. On(top', Len(top'.sections))
    BY <2>4, <2>7 DEF Inv, FramesInv, N
  <2>9. PieInv'
    BY <2>1, <2>8 DEF PieInv
  <2>10. N - 1 = 1 <=> top'.code = "main"
    BY <2>4, <2>7 DEF Inv, FramesInv, FrameOK, N
  <2>11. N - 1 \in Nat \ {0} /\ (N - 1) + 1 = N
    BY <1>2
  <2>12. /\ Mask(N - 1, top', Below(stack', N - 1)) = Base(N - 1 + 1, top')
         /\ top'.code \in {"main", "isr"}
    BY <2>4, <2>8, <2>10, <2>11, OnLetsIn
  <2>13. Below(stack, N) = top'
    BY <1>2, <2>4 DEF Below
  <2>14. MaskInv'
    BY <1>1, <1>5, <2>2, <2>11, <2>12, <2>13 DEF Inv, MaskInv
  <2>15. HandlerInv'
    BY <1>1, <2>12 DEF Inv, HandlerInv
  <2>16. IrqTypeOK'
    BY <1>1, <2>1, <2>2, <2>3 DEF Inv, IrqTypeOK, FrameType
  <2> QED
    BY <2>6, <2>9, <2>14, <2>15, <2>16 DEF Inv
<1>7. CASE ~(top.code = "again" /\ alt_irq_pending = {})
  <2> DEFINE f == [top EXCEPT !.code = "scan", !.active = alt_irq_pending]
  <2>1. Top(f) /\ pie' = pie
    BY <1>7 DEF ReadPending
  <2>2. alt_irq_pending \subseteq ienable /\ alt_irq_pending \subseteq Line
    BY StackTyped DEF alt_irq_pending
  <2>3. /\ f \in FrameType /\ f.code = "scan" /\ f.active = alt_irq_pending
        /\ f.sections = <<>> /\ f.irq = top.irq
    BY <1>2, <1>3, <2>2 DEF FrameType
  <2> HIDE DEF f
  <2>4. SectionsOK(f) /\ ~Opened(f)
    BY <2>3 DEF SectionsOK, Opened
  <2>5. N > 2 => f.active \subseteq 0 .. Below(stack, N).irq - 1
    <3>1. alt_irq_pending \subseteq Base(N, Below(stack, N))
      BY <1>5, <2>2, StackTyped
    <3> QED
      BY <1>2, <2>3, <3>1 DEF Base
  <2>6. f.code = "main" <=> top.code = "main"
    BY <1>1, <2>3
  <2>7. /\ FramesInv' /\ top' = f /\ Len(stack') = N
        /\ stack' \in Seq(FrameType) /\ stack' # <<>>
        /\ Mask(N, top, Below(stack, N))' = Base(N, Below(stack, N))
    BY <2>1, <2>3, <2>4, <2>5, <2>6, TopStep
  <2>8. PieInv'
    <3>1. pie # TRUE
      BY <1>1, <1>3 DEF Inv, PieInv, On
    <3> QED
      BY <2>1, <2>3, <2>7, <3>1 DEF PieInv, On
  <2>9. MaskInv'
    BY <1>1, <1>5, <2>7 DEF Inv, MaskInv
  <2>10. HandlerInv'
    <3>1. alt_irq_pending # {}
      BY <1>1, <1>7 DEF Inv, HandlerInv
    <3>2. alt_irq_pending \subseteq alt_irq
      BY <2>2, StackTyped DEF Inv, HandlerInv
    <3> QED
      BY <1>1, <2>3, <2>7, <3>1, <3>2 DEF Inv, HandlerInv
  <2>11. IrqTypeOK'
    BY <1>1, <2>1, <2>7 DEF Inv, IrqTypeOK, FrameType
  <2> QED
    BY <2>7, <2>8, <2>9, <2>10, <2>11 DEF Inv
<1> QED
  BY <1>6, <1>7

(* A step that moves the routine on top on, with no section opened.        *)
LEMMA CodeStep ==
  ASSUME Inv, NEW f \in FrameType, Top(f),
         top.code \notin {"main"}, top.sections = <<>>, f.sections = <<>>,
         f.code \in {"call", "isr", "again"},
         f.active = top.active,
         f.code \in {"call", "isr"} /\ Len(stack) > 2 =>
           f.irq < Below(stack, Len(stack)).irq,
         pie # TRUE,
         request' \subseteq Line,
         UNCHANGED <<pie, ienable, alt_irq_active, alt_priority_mask, alt_irq>>
  PROVE  Inv'
<1> DEFINE N == Len(stack)
           B == Below(stack, N)
<1>1. SectionsOK(f) /\ ~Opened(f) /\ ~Opened(top)
  BY DEF SectionsOK, Opened
<1>2. FrameOK(N, top, B)
  BY TopFacts
<1>3. N > 2 => f.active \subseteq 0 .. B.irq - 1
  BY <1>2 DEF FrameOK
<1>4. f.code # "main"
  OBVIOUS
<1>5. /\ FramesInv' /\ top' = f /\ Len(stack') = N
      /\ stack' \in Seq(FrameType) /\ stack' # <<>>
      /\ Mask(N, top, B)' = Base(N, B)
  BY <1>1, <1>3, <1>4, TopStep
<1>6. alt_priority_mask = Base(N, B)
  BY <1>1 DEF Inv, MaskInv, Mask
<1> HIDE DEF B
<1>7. MaskInv'
  BY <1>5, <1>6 DEF Inv, MaskInv, B
<1>8. PieInv'
  <2>1. Len(f.sections) = 0
    OBVIOUS
  <2>2. ~On(f, Len(f.sections))
    BY <1>4, <2>1 DEF On
  <2> QED
    BY <1>5, <2>2 DEF PieInv
<1>9. HandlerInv'
  BY <1>5 DEF Inv, HandlerInv
<1>10. IrqTypeOK'
  BY <1>5 DEF Inv, IrqTypeOK, FrameType
<1> QED
  BY <1>5, <1>7, <1>8, <1>9, <1>10 DEF Inv

LEMMA DispatchStep ==
  ASSUME Inv, Dispatch
  PROVE  Inv'
<1> DEFINE f == [top EXCEPT !.code = "call", !.irq = First(top.active)]
<1>1. /\ top.code = "scan" /\ top.active # {} /\ Top(f)
      /\ UNCHANGED <<pie, ienable, alt_irq_active, alt_priority_mask, alt_irq,
                     request>>
  BY DEF Dispatch, Runs
<1>2. top \in FrameType
  BY StackTop DEF Inv
<1>3. top.active \in SUBSET Line
  BY <1>2 DEF FrameType
<1>4. First(top.active) \in top.active
  BY <1>1, <1>3, FirstOfLines
<1>5. First(top.active) \in 0 .. ALT_NIRQ /\ ALT_NIRQ \in Nat
  BY <1>3, <1>4, HalAssumption DEF Line
<1>6. top.sections = <<>>
  BY <1>1, TopFacts DEF SectionsOK
<1>7. /\ f \in FrameType /\ f.code = "call" /\ f.active = top.active
      /\ f.sections = <<>> /\ f.irq = First(top.active)
  BY <1>2, <1>5, <1>6 DEF FrameType
<1> HIDE DEF f
<1>8. pie # TRUE
  BY <1>1, <1>6 DEF Inv, PieInv, On
<1>9. Len(stack) > 2 => f.irq < Below(stack, Len(stack)).irq
  <2> SUFFICES ASSUME Len(stack) > 2
               PROVE  f.irq < Below(stack, Len(stack)).irq
    OBVIOUS
  <2>1. top.active \subseteq 0 .. Below(stack, Len(stack)).irq - 1
    BY TopFacts DEF FrameOK
  <2>2. Below(stack, Len(stack)) \in FrameType
    <3>1. Below(stack, Len(stack)) = stack[Len(stack) - 1]
          /\ Len(stack) - 1 \in 1 .. Len(stack)
      BY StackTop DEF Below, Inv
    <3> QED
      BY <3>1, StackTop DEF Inv
  <2>3. Below(stack, Len(stack)).irq \in Int
    BY <1>5, <2>2 DEF FrameType
  <2> QED
    BY <1>4, <1>7, <2>1, <2>3
<1>10. request' \subseteq Line
  BY <1>1, StackTyped
<1> QED
  BY <1>1, <1>6, <1>7, <1>8, <1>9, <1>10, CodeStep

(* The handler satisfies its device, and returns.                          *)
LEMMA ServeStep ==
  ASSUME Inv, Serve
  PROVE  Inv'
<1> DEFINE f == [top EXCEPT !.code = "isr"]
<1>1. /\ top.code = "call" /\ Top(f) /\ request' = request \ {top.irq}
      /\ UNCHANGED <<pie, ienable, alt_irq_active, alt_priority_mask, alt_irq>>
  BY DEF Serve, Runs
<1>2. top \in FrameType
  BY StackTop DEF Inv
<1>3. top.sections = <<>>
  BY <1>1, TopFacts DEF SectionsOK
<1>4. /\ f \in FrameType /\ f.code = "isr" /\ f.active = top.active
      /\ f.sections = <<>> /\ f.irq = top.irq
  BY <1>2, <1>3 DEF FrameType
<1> HIDE DEF f
<1>5. pie # TRUE
  BY <1>1, <1>3 DEF Inv, PieInv, On
<1>6. Len(stack) > 2 => f.irq < Below(stack, Len(stack)).irq
  BY <1>1, <1>4, TopFacts DEF FrameOK
<1>7. request' \subseteq Line
  BY <1>1, StackTyped
<1> QED
  BY <1>1, <1>3, <1>4, <1>5, <1>6, <1>7, CodeStep

LEMMA HandlerReturnStep ==
  ASSUME Inv, HandlerReturn
  PROVE  Inv'
<1> DEFINE f == [top EXCEPT !.code = "again"]
<1>1. /\ top.code = "isr" /\ top.sections = <<>> /\ Top(f)
      /\ UNCHANGED <<pie, ienable, alt_irq_active, alt_priority_mask, alt_irq,
                     request>>
  BY DEF HandlerReturn, Runs
<1>2. top \in FrameType
  BY StackTop DEF Inv
<1>3. /\ f \in FrameType /\ f.code = "again" /\ f.active = top.active
      /\ f.sections = <<>> /\ f.irq = top.irq
  BY <1>1, <1>2 DEF FrameType
<1> HIDE DEF f
<1>4. pie # TRUE
  <2>1. Len(top.sections) = 0
    BY <1>1
  <2>2. ~On(top, Len(top.sections))
    BY <1>1, <2>1 DEF On
  <2> QED
    BY <2>2 DEF Inv, PieInv
<1>5. request' \subseteq Line
  BY <1>1, StackTyped
<1> QED
  BY <1>1, <1>3, <1>4, <1>5, CodeStep

-----------------------------------------------------------------------------
(* A section that does not open the routine: the lines let in stay.        *)
LEMMA OffStep ==
  ASSUME Inv, NEW f \in FrameType, Top(f), SectionsOK(f),
         top.code \in {"main", "isr"}, f.code = top.code,
         f.active = top.active, f.irq = top.irq,
         Opened(f) <=> Opened(top),
         Opened(top) => f.sections[1] = top.sections[1],
         pie' \in BOOLEAN, pie' = TRUE <=> On(f, Len(f.sections)),
         UNCHANGED <<ienable, alt_irq_active, alt_priority_mask, alt_irq, request>>
  PROVE  Inv'
<1> DEFINE N == Len(stack)
           B == Below(stack, N)
<1>1. FrameOK(N, top, B)
  BY TopFacts
<1>2. Opened(f) => f.sections[1].mask = Base(N, B)
  BY <1>1 DEF FrameOK
<1>3. N > 2 => /\ f.active \subseteq 0 .. B.irq - 1
               /\ f.code \in {"call", "isr"} => f.irq < B.irq
  BY <1>1 DEF FrameOK
<1>4. /\ FramesInv' /\ top' = f /\ Len(stack') = N
      /\ stack' \in Seq(FrameType) /\ stack' # <<>>
      /\ Mask(N, top, B)' = Mask(N, top, B)
  BY <1>2, <1>3, TopStep
<1> HIDE DEF B
<1>5. MaskInv'
  BY <1>4 DEF Inv, MaskInv, B
<1>6. PieInv'
  BY <1>4 DEF PieInv
<1>7. HandlerInv'
  BY <1>4 DEF Inv, HandlerInv
<1>8. IrqTypeOK'
  BY <1>4 DEF Inv, IrqTypeOK, FrameType
<1> QED
  BY <1>4, <1>5, <1>6, <1>7, <1>8 DEF Inv

LEMMA DisableAllStep ==
  ASSUME Inv, DisableAll
  PROVE  Inv'
<1> DEFINE f == [top EXCEPT !.sections = Append(@, [kind |-> "off", pie |-> pie])]
<1>1. /\ top.code \in {"main", "isr"} /\ Top(f) /\ pie' = FALSE
      /\ UNCHANGED <<ienable, alt_irq_active, alt_priority_mask, alt_irq, request>>
  BY DEF DisableAll, Push, Runs
<1>2. top \in FrameType /\ SectionsOK(top) /\ pie \in BOOLEAN
  BY StackTop, TopFacts, StackTyped DEF Inv
<1>3. pie = TRUE <=> On(top, Len(top.sections))
  BY DEF Inv, PieInv
<1>4. PICK g : g = Pushed(top, OffSection(pie))
  OBVIOUS
<1>5. /\ g \in FrameType /\ SectionsOK(g) /\ g.code = top.code
      /\ g.irq = top.irq /\ g.active = top.active
      /\ ~On(g, Len(g.sections))
      /\ Opened(g) <=> Opened(top)
      /\ Opened(top) => g.sections[1] = top.sections[1]
  BY <1>1, <1>2, <1>3, <1>4, PushOff
<1>6. Top(g)
  BY <1>1, <1>4 DEF Pushed, OffSection
<1> HIDE DEF f
<1>7. pie' \in BOOLEAN /\ (pie' = TRUE <=> On(g, Len(g.sections)))
  BY <1>1, <1>5
<1> QED
  BY <1>1, <1>5, <1>6, <1>7, OffStep

LEMMA EnableAllStep ==
  ASSUME Inv, EnableAll
  PROVE  Inv'
<1> DEFINE L == Len(top.sections)
           f == [top EXCEPT !.sections = SubSeq(@, 1, Len(@) - 1)]
<1>1. /\ top.code \in {"main", "isr"} /\ top.sections # <<>>
      /\ top.sections[L].kind = "off" /\ pie' = top.sections[L].pie /\ Top(f)
      /\ UNCHANGED <<ienable, alt_irq_active, alt_priority_mask, alt_irq, request>>
  BY DEF EnableAll, Pop, last, Runs, Restored
<1>2. top \in FrameType /\ SectionsOK(top)
  BY StackTop, TopFacts DEF Inv
<1>3. PICK g : g = Popped(top)
  OBVIOUS
<1>4. /\ g \in FrameType /\ SectionsOK(g) /\ g.code = top.code
      /\ g.irq = top.irq /\ g.active = top.active
      /\ Len(g.sections) = L - 1 /\ L \in Nat /\ L > 0
      /\ top.sections[L].pie = TRUE <=> On(g, L - 1)
      /\ Opened(g) <=> Opened(top)
      /\ Opened(top) => g.sections[1] = top.sections[1]
  BY <1>1, <1>2, <1>3, PopSection
<1>5. Top(g)
  BY <1>1, <1>3 DEF Popped
<1>6. top.sections[L].pie \in BOOLEAN
  <2>1. L \in 1 .. L
    BY <1>4
  <2>2. top.sections[L] \in Section
    BY <1>2, <2>1, SectionTypes
  <2> QED
    BY <1>1, <2>2 DEF Section
<1> HIDE DEF f
<1>7. pie' \in BOOLEAN /\ (pie' = TRUE <=> On(g, Len(g.sections)))
  BY <1>1, <1>4, <1>6
<1> QED
  BY <1>1, <1>4, <1>5, <1>7, OffStep

(* A routine opens for the lines above its own, and closes again.          *)
LEMMA InterruptibleStep ==
  ASSUME Inv, Interruptible
  PROVE  Inv'
<1> DEFINE N == Len(stack)
           B == Below(stack, N)
           f == [top EXCEPT !.sections =
                   Append(@, [kind |-> "open", mask |-> alt_priority_mask])]
<1>1. /\ top.code = "isr" /\ top.sections = <<>> /\ Top(f) /\ pie' = TRUE
      /\ alt_priority_mask' = 0 .. top.irq - 1
      /\ ienable' = alt_irq_active \cap alt_priority_mask'
      /\ UNCHANGED <<alt_irq_active, alt_irq, request>>
  BY DEF Interruptible, Push, Runs
<1>2. top \in FrameType /\ alt_priority_mask \in SUBSET Line
  BY StackTop, StackTyped DEF Inv
<1>3. PICK g : g = Pushed(top, [kind |-> "open", mask |-> alt_priority_mask])
  OBVIOUS
<1>4. /\ g \in FrameType /\ SectionsOK(g) /\ g.code = "isr"
      /\ g.irq = top.irq /\ g.active = top.active
      /\ On(g, Len(g.sections)) /\ Opened(g)
      /\ g.sections[1].mask = alt_priority_mask
  BY <1>1, <1>2, <1>3, PushOpen
<1>5. Top(g)
  BY <1>1, <1>3 DEF Pushed
<1> HIDE DEF f
<1>6. FrameOK(N, top, B)
  BY TopFacts
<1>7. ~Opened(top)
  BY <1>1 DEF Opened
<1>8. alt_priority_mask = Base(N, B)
  BY <1>7 DEF Inv, MaskInv, Mask
<1>9. N > 2 => /\ g.active \subseteq 0 .. B.irq - 1
               /\ g.code \in {"call", "isr"} => g.irq < B.irq
  BY <1>1, <1>4, <1>6 DEF FrameOK
<1>10. /\ FramesInv' /\ top' = g /\ Len(stack') = N
       /\ stack' \in Seq(FrameType) /\ stack' # <<>>
       /\ Mask(N, top, B)' = 0 .. g.irq - 1
  BY <1>1, <1>4, <1>5, <1>8, <1>9, TopStep
<1> HIDE DEF B
<1>11. MaskInv'
  BY <1>1, <1>4, <1>10 DEF MaskInv, B
<1>12. PieInv'
  BY <1>1, <1>4, <1>10 DEF PieInv
<1>13. HandlerInv'
  BY <1>1, <1>4, <1>10 DEF Inv, HandlerInv
<1>14. IrqTypeOK'
  <2>1. top.irq \in 0 .. ALT_NIRQ /\ ALT_NIRQ \in Nat
    BY <1>2, HalAssumption DEF FrameType
  <2>2. 0 .. top.irq - 1 \subseteq Line
    BY <2>1 DEF Line
  <2> QED
    BY <1>1, <1>10, <2>2 DEF Inv, IrqTypeOK, FrameType
<1> QED
  BY <1>10, <1>11, <1>12, <1>13, <1>14 DEF Inv

LEMMA NonInterruptibleStep ==
  ASSUME Inv, NonInterruptible
  PROVE  Inv'
<1> DEFINE N == Len(stack)
           B == Below(stack, N)
           L == Len(top.sections)
           f == [top EXCEPT !.sections = SubSeq(@, 1, Len(@) - 1)]
<1>1. /\ top.code = "isr" /\ top.sections # <<>>
      /\ top.sections[L].kind = "open" /\ pie' = FALSE /\ Top(f)
      /\ alt_priority_mask' = top.sections[L].mask
      /\ ienable' = alt_irq_active \cap top.sections[L].mask
      /\ UNCHANGED <<alt_irq_active, alt_irq, request>>
  BY DEF NonInterruptible, Pop, last, Runs
<1>2. top \in FrameType /\ SectionsOK(top)
  BY StackTop, TopFacts DEF Inv
<1>3. PICK g : g = Popped(top)
  OBVIOUS
<1>4. /\ g \in FrameType /\ SectionsOK(g) /\ g.code = top.code
      /\ g.irq = top.irq /\ g.active = top.active /\ L = 1
      /\ g.sections = <<>> /\ ~Opened(g) /\ Opened(top)
      /\ ~On(g, Len(g.sections))
  BY <1>1, <1>2, <1>3, PopSection
<1>5. Top(g)
  BY <1>1, <1>3 DEF Popped
<1> HIDE DEF f
<1>6. FrameOK(N, top, B)
  BY TopFacts
<1>7. top.sections[L].mask = Base(N, B)
  BY <1>4, <1>6 DEF FrameOK
<1>8. N > 2 => /\ g.active \subseteq 0 .. B.irq - 1
               /\ g.code \in {"call", "isr"} => g.irq < B.irq
  BY <1>1, <1>4, <1>6 DEF FrameOK
<1>9. /\ FramesInv' /\ top' = g /\ Len(stack') = N
      /\ stack' \in Seq(FrameType) /\ stack' # <<>>
      /\ Mask(N, top, B)' = Base(N, B)
  BY <1>1, <1>4, <1>5, <1>8, TopStep
<1> HIDE DEF B
<1>10. MaskInv'
  BY <1>1, <1>7, <1>9 DEF MaskInv, B
<1>11. PieInv'
  BY <1>1, <1>4, <1>9 DEF PieInv
<1>12. HandlerInv'
  BY <1>1, <1>4, <1>9 DEF Inv, HandlerInv
<1>13. IrqTypeOK'
  <2>1. L \in 1 .. L
    BY <1>4
  <2>2. top.sections[L] \in Section
    BY <1>2, <2>1, SectionTypes
  <2>3. top.sections[L].mask \subseteq Line
    BY <1>1, <2>2 DEF Section
  <2> QED
    BY <1>1, <1>9, <2>3 DEF Inv, IrqTypeOK, FrameType
<1> QED
  BY <1>9, <1>10, <1>11, <1>12, <1>13 DEF Inv

(* Lines are enabled and disabled with no routine open.                    *)
LEMMA LinesStep ==
  ASSUME Inv, IrqCalls,
         ienable' = alt_irq_active', alt_irq_active' \subseteq alt_irq',
         alt_irq' \subseteq Line,
         UNCHANGED <<pie, alt_priority_mask, request, stack>>
  PROVE  Inv'
<1>1. top' = top /\ top.code \in {"main", "isr"} /\ alt_priority_mask = Line
  BY DEF top, IrqCalls, Runs
<1>2. FramesInv' /\ PieInv'
  BY <1>1 DEF Inv, FramesInv, PieInv
<1>3. Mask(Len(stack), top, Below(stack, Len(stack)))'
        = Mask(Len(stack), top, Below(stack, Len(stack)))
  BY <1>1 DEF Mask, Opened
<1>4. MaskInv'
  BY <1>1, <1>3 DEF Inv, MaskInv
<1>5. HandlerInv'
  BY <1>1 DEF HandlerInv
<1>6. IrqTypeOK'
  BY DEF Inv, IrqTypeOK
<1> QED
  BY <1>2, <1>4, <1>5, <1>6 DEF Inv

LEMMA InterruptsStep == Inv /\ [IrqNext]_irqVars => Inv'
<1> SUFFICES ASSUME Inv, [IrqNext]_irqVars PROVE Inv'
  OBVIOUS
<1>1. CASE UNCHANGED irqVars
  <2>1. /\ pie' = pie /\ ienable' = ienable /\ alt_irq_active' = alt_irq_active
        /\ alt_priority_mask' = alt_priority_mask /\ alt_irq' = alt_irq
        /\ request' = request /\ stack' = stack
    BY <1>1 DEF irqVars
  <2>2. top' = top /\ alt_irq_pending' = alt_irq_pending
    BY <2>1 DEF top, alt_irq_pending
  <2> QED
    BY <2>1, <2>2
       DEF Inv, IrqTypeOK, FramesInv, PieInv, MaskInv, HandlerInv
<1>2. ASSUME NEW i \in Line, Enable(i) PROVE Inv'
  <2>1. /\ IrqCalls /\ i \in alt_irq
        /\ alt_irq_active' = alt_irq_active \cup {i} /\ ienable' = alt_irq_active'
        /\ UNCHANGED <<pie, alt_priority_mask, alt_irq, request, stack>>
    BY <1>2 DEF Enable, alt_irq_enable
  <2>2. alt_irq_active' \subseteq alt_irq' /\ alt_irq' \subseteq Line
    BY <2>1, StackTyped DEF Inv, HandlerInv
  <2> QED
    BY <2>1, <2>2, LinesStep
<1>3. ASSUME NEW i \in Line, Disable(i) PROVE Inv'
  <2>1. /\ IrqCalls
        /\ alt_irq_active' = alt_irq_active \ {i} /\ ienable' = alt_irq_active'
        /\ UNCHANGED <<pie, alt_priority_mask, alt_irq, request, stack>>
    BY <1>3 DEF Disable, alt_irq_disable
  <2>2. alt_irq_active' \subseteq alt_irq' /\ alt_irq' \subseteq Line
    BY <2>1, StackTyped DEF Inv, HandlerInv
  <2> QED
    BY <2>1, <2>2, LinesStep
<1>4. ASSUME NEW i \in Line, NEW handler \in BOOLEAN, Register(i, handler)
      PROVE  Inv'
  <2>1. /\ IrqCalls /\ ienable' = alt_irq_active'
        /\ UNCHANGED <<pie, alt_priority_mask, request, stack>>
    BY <1>4 DEF Register, alt_irq_enable, alt_irq_disable
  <2>2. alt_irq_active' \subseteq alt_irq' /\ alt_irq' \subseteq Line
    BY <1>4, StackTyped
       DEF Inv, HandlerInv, Register, alt_irq_enable, alt_irq_disable
  <2> QED
    BY <2>1, <2>2, LinesStep
<1> QED
  BY <1>1, <1>2, <1>3, <1>4, RaiseStep, ExceptionStep, ReadPendingStep,
     DispatchStep, ServeStep, HandlerReturnStep, DisableAllStep, EnableAllStep,
     InterruptibleStep, NonInterruptibleStep
     DEF IrqNext

THEOREM InterruptsInvariant == IrqSpec => []Inv
BY InterruptsInit, InterruptsStep, PTL DEF IrqSpec

(* Only the program outside its critical sections, and an interrupt        *)
(* routine that opened for the lines above its own, are ever interrupted,  *)
(* and by those lines only, at any depth.                                  *)
THEOREM InterruptsNested == IrqSpec => []InterruptsNest
<1>1. Inv => InterruptsNest
  <2> SUFFICES ASSUME Inv, NEW k \in 1 .. Len(stack) - 1
               PROVE  IF k = 1 THEN stack[k].sections = <<>>
                      ELSE /\ Len(stack[k].sections) = 1
                           /\ stack[k].sections[1].kind = "open"
                           /\ stack[k + 1].active \subseteq 0 .. stack[k].irq - 1
                           /\ stack[k + 1].code \in {"call", "isr"} =>
                                stack[k + 1].irq < stack[k].irq
    BY DEF InterruptsNest
  <2>1. /\ k \in 1 .. Len(stack) /\ k + 1 \in 1 .. Len(stack) /\ k \in Nat
        /\ Below(stack, k + 1) = stack[k] /\ k + 1 # 1
    BY StackTop DEF Inv, Below
  <2>2. /\ On(stack[k], Len(stack[k].sections))
        /\ FrameOK(k, stack[k], Below(stack, k))
        /\ FrameOK(k + 1, stack[k + 1], stack[k])
    BY <2>1 DEF Inv, FramesInv
  <2>3. stack[k] \in FrameType
    BY <2>1, StackTop DEF Inv
  <2>4. stack[k].sections = <<>> <=> Len(stack[k].sections) = 0
    BY <2>3, SectionTypes
  <2>5. CASE k = 1
    BY <2>2, <2>4, <2>5 DEF FrameOK, On
  <2>6. CASE k # 1
    <3>1. /\ Len(stack[k].sections) = 1
          /\ stack[k].sections[1].kind = "open"
      BY <2>2, <2>6 DEF FrameOK, On
    <3>2. k + 1 > 2
      BY <2>1, <2>6
    <3>3. /\ stack[k + 1].active \subseteq 0 .. stack[k].irq - 1
          /\ stack[k + 1].code \in {"call", "isr"} =>
               stack[k + 1].irq < stack[k].irq
      BY <2>2, <3>2 DEF FrameOK
    <3> QED
      BY <2>6, <3>1, <3>3
  <2> QED
    BY <2>5, <2>6
<1> QED
  BY <1>1, InterruptsInvariant, PTL

(* alt_irq_handler finds a line with a handler whenever it looks for one.  *)
THEOREM InterruptsHandled == IrqSpec => []AlwaysAHandler
<1>1. Inv => AlwaysAHandler
  <2> SUFFICES ASSUME Inv, top.code = "scan"
               PROVE  top.active # {} /\ First(top.active) \in alt_irq
    BY DEF AlwaysAHandler
  <2>1. top.active # {} /\ top.active \subseteq alt_irq
    BY DEF Inv, HandlerInv
  <2>2. top.active \in SUBSET Line
    BY StackTop DEF Inv, FrameType
  <2> QED
    BY <2>1, <2>2, FirstOfLines
<1> QED
  BY <1>1, InterruptsInvariant, PTL
=============================================================================
