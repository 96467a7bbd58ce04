------------------------------ MODULE MCPages ------------------------------
(* Pages and what is made of them, side by side: a behaviour is one of     *)
(* PageBlocks with a "long" superpage, whose page blocks join on both      *)
(* sides; of PageBlocks with two "short" ones, so that the lists hold page *)
(* blocks and superpages of each; of the tree of the pagemap; or of the    *)
(* size map.  PageBlocks_proof is PageBlocks and what is proved about it.   *)
EXTENDS PageMap, SizeMap, TLC

CONSTANTS
  One, Two,  \* a superpage, and two
  SmallLen, LargeLens, RemotePhases, LargeAtExit

VARIABLES
  part,
  owner, headers, pagemap, free_pb_list, pbh_list, sp_list, remote_pb_list,
  phase, run

heapVars == <<owner, headers, pagemap, free_pb_list, pbh_list, sp_list,
              remote_pb_list, phase, run>>

Long  == INSTANCE PageBlocks_proof
         WITH Superpage <- One, SUPERPAGE_LEN <- 4, mem <- headers
Short == INSTANCE PageBlocks_proof
         WITH Superpage <- Two, SUPERPAGE_LEN <- 2, mem <- headers,
              LargeLens <- {1}

\* The sizes at both ends of every entry of class_array, and around the limits
\* of the small, large and huge sizes.
KB         == 1024
Ends(S)    == S \cup {n + 1 : n \in S}
AllSizes   == Ends({8 * k : k \in 0 .. 128} \cup {128 * k : k \in 8 .. 256}
                   \cup {504 * KB, 508 * KB})
SomeSizes  == {0, 1, 3, 4, 8, 9, 16, 17, 33, KB, KB + 1, 1500, 2049, 16 * KB,
               32 * KB, 32 * KB + 1, 64 * KB, 504 * KB, 504 * KB + 1}
SomeAlignments ==
              {2 ^ k : k \in 0 .. 14} \cup {3, 24, 4100}

\* What the components take for granted of their constants.
ASSUME TreeConstants == ConstantsOK
ASSUME HeapConstants ==
         /\ Long!ConstantsOK /\ Short!ConstantsOK
         \* The rest is what the two findings about page blocks go without.
         /\ RemotePhases \subseteq {"exit"} /\ LargeAtExit = FALSE
ASSUME SizeConstants == SizesOK

MCInit ==
  /\ \/ part \in {"long", "size", "tree"} /\ Long!Init
     \/ part = "short" /\ Short!Init
  /\ SizeInit /\ Init

MCNext ==
  \/ part = "long"  /\ Long!Next  /\ UNCHANGED <<part, sizeVars, vars>>
  \/ part = "short" /\ Short!Next /\ UNCHANGED <<part, sizeVars, vars>>
  \/ part = "size"  /\ SizeNext   /\ UNCHANGED <<part, heapVars, vars>>
  \/ part = "tree"  /\ Next       /\ UNCHANGED <<part, heapVars, sizeVars>>

MCSpec == MCInit /\ [][MCNext]_<<part, vars, sizeVars, heapVars>>

----------------------------------------------------------------------------
(* What is checked of each.                                                *)

\* The headers tile the long superpage, and its pagemap entries are exact.
LongHeapOK == part = "long" => Long!HeapOK

\* The pages in use of the long superpage are one run each.
LongRunsIntact == part = "long" => Long!RunsIntact

\* The lists of page blocks, in both instances.
BothListsExact ==
  CASE part = "long" -> Long!ListsExact [] part = "short" -> Short!ListsExact
    [] OTHER -> TRUE

\* The lists of superpages, in both instances.
BothSuperpagesListed ==
  CASE part = "long" -> Long!SuperpagesListed
    [] part = "short" -> Short!SuperpagesListed
    [] OTHER -> TRUE

\* Threads are interchangeable, and so are the two superpages.
Symmetry == Permutations(Thread) \cup Permutations(Two)
=============================================================================
