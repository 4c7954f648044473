---------------------------- MODULE MCStepQueue ----------------------------
(* Two steppers that share fewer slots than they have moves. *)
EXTENDS StepQueue

IsHeap(mc) == \A i \in 2..Len(mc) : mc[i \div 2] <= mc[i]

SameElements(a, b) ==
    \A x \in 0..MAX_CLOCK : Len(SelectSeq(a, LAMBDA y : y = x)) = Len(SelectSeq(b, LAMBDA y : y = x))

\* heap_replace exchanges the least clock of a heap for another one and leaves a heap,
\* for the heaps of up to six slots over a few clocks.
ASSUME HeapReplaced ==
    \A n \in 1..6 : \A mc \in [1..n -> 0..2] : IsHeap(mc) =>
        \A clock \in 0..3 :
            LET new == heap_replace(mc, 1, clock)
            IN  IsHeap(new) /\ SameElements(Append(new, mc[1]), Append(mc, clock))
=============================================================================
