---------------------------- MODULE BoundedFifo ----------------------------
(***************************************************************************)
(* What small_fifo.v promises its users: a queue of at most MAX_DEPTH      *)
(* words whose read port hands out the oldest word one clock after rd_en.  *)
(* There are no pointers and no memory here; SmallFifo implements this.    *)
(***************************************************************************)
EXTENDS Integers, Sequences

CONSTANTS Word,       \* the values of the data port
          MAX_DEPTH   \* the number of words the memory holds

VARIABLES items,      \* the words written and not yet read, oldest first
          out         \* the word the last read returned

vars == <<items, out>>

Init == items = << >> /\ out \in Word

\* A reset empties the queue; the read port is not reset and may show anything.
Reset == items' = << >> /\ out' \in Word

Put(w) == /\ Len(items) < MAX_DEPTH
          /\ items' = Append(items, w)
          /\ UNCHANGED out

Get == /\ items # << >>
       /\ out' = Head(items)
       /\ items' = Tail(items)

\* Both ports in one clock: legal even when the queue is full.
PutGet(w) == /\ items # << >>
             /\ out' = Head(items)
             /\ items' = Append(Tail(items), w)

Next == Reset \/ Get \/ \E w \in Word : Put(w) \/ PutGet(w)

Spec == Init /\ [][Next]_vars
=============================================================================
