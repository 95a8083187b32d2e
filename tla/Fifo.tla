-------------------------------- MODULE Fifo --------------------------------
(***************************************************************************)
(* What a bounded queue promises to one producer and one consumer:         *)
(* elements leave in the order in which they entered, each once, and at    *)
(* most Capacity wait.  A consumer that has marked its place reads on      *)
(* without removing: it may go back to the mark as often as it likes, and  *)
(* gives up what it has read when it gives up the mark.  Discard is the    *)
(* loss that push_w_drop allows, of the oldest element of a full queue.    *)
(***************************************************************************)
EXTENDS Naturals, Sequences

CONSTANTS Elem, Capacity

VARIABLES queue,   \* the waiting elements, oldest first, read ones included
          out,     \* the element last given to the consumer
          marked,  \* whether the consumer has marked its place
          read     \* elements read since the mark, or since going back to it

vars == <<queue, out, marked, read>>

Init == queue = << >> /\ out \in Elem /\ marked = FALSE /\ read = 0

Put(x) ==
    /\ Len(queue) < Capacity
    /\ queue' = Append(queue, x)
    /\ UNCHANGED <<out, marked, read>>

Get ==
    /\ ~marked /\ queue # << >>
    /\ out' = Head(queue)
    /\ queue' = Tail(queue)
    /\ UNCHANGED <<marked, read>>

Discard ==
    /\ ~marked /\ Len(queue) = Capacity /\ queue # << >>
    /\ queue' = Tail(queue)
    /\ UNCHANGED <<out, marked, read>>

Mark ==
    /\ ~marked /\ marked' = TRUE
    /\ UNCHANGED <<queue, out, read>>

ReadOn ==
    /\ marked /\ read < Len(queue)
    /\ out' = queue[read + 1]
    /\ read' = read + 1
    /\ UNCHANGED <<queue, marked>>

GoBack ==
    /\ marked /\ read' = 0
    /\ UNCHANGED <<queue, out, marked>>

Unmark ==
    /\ marked /\ marked' = FALSE
    /\ queue' = SubSeq(queue, read + 1, Len(queue))
    /\ read' = 0
    /\ UNCHANGED out

Next == (\E x \in Elem : Put(x)) \/ Get \/ Discard \/ Mark \/ ReadOn \/ GoBack \/ Unmark

Spec == Init /\ [][Next]_vars
=============================================================================
