----------------------------- MODULE BlockPool -----------------------------
(***************************************************************************)
(* What malloc and free of small blocks promise: a block that is handed    *)
(* out is not in use, and overlaps none that is.  A block is the page block*)
(* it lies in, its index there, and its size class.  Two blocks of a page  *)
(* block that is cut for one class overlap only if they are the same; of   *)
(* blocks cut for different classes nothing can be said, so a page block   *)
(* never has blocks of two classes in use.                                 *)
(***************************************************************************)
EXTENDS Naturals

CONSTANTS
  Pb,           \* page blocks
  NUM_CLASSES,  \* size classes are 1 .. NUM_CLASSES
  Index         \* the numbers a block can have in its page block

VARIABLE held   \* the blocks in the hands of the program

Init == held = {}

Malloc(p, i, c) ==
  /\ \A b \in held : b[1] = p => b[3] = c /\ b[2] # i
  /\ held' = held \cup {<<p, i, c>>}

Free(b) == held' = held \ {b}

Next ==
  \/ \E p \in Pb, i \in Index, c \in 1 .. NUM_CLASSES : Malloc(p, i, c)
  \/ \E b \in held : Free(b)

Spec == Init /\ [][Next]_held
============================================================================
