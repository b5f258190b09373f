----------------------------- MODULE HashSpace -----------------------------
(***************************************************************************)
(* The metric every routing decision of a peer is made with.               *)
(*                                                                         *)
(* A peer is named by its public key, HASHSIZE bytes.  Two keys are        *)
(* compared with respect to a third one by the absolute differences of     *)
(* their bytes, the first position where the differences disagree          *)
(* deciding (src/src/storage/father.cpp, father_handler::cmp).  This is    *)
(* not a distance on keys: two different keys can be equally near, and     *)
(* cmp then answers 0.                                                     *)
(*                                                                         *)
(* Definitions ending in _Wrong are deliberate defects; each is put in the *)
(* place of the definition after it to see that a property notices.        *)
(***************************************************************************)
EXTENDS Integers, Sequences, SequencesExt

CONSTANTS
    HASHSIZE,   \* bytes of a key (32 in the code)
    BYTEMAX     \* the largest value of a byte (255 in the code)

ASSUME HashSpaceAssumption == HASHSIZE \in Nat \ {0} /\ BYTEMAX \in Nat

Byte == 0..BYTEMAX
Hash == [1..HASHSIZE -> Byte]

(* abs(main[i] - h[i]) of src/src/storage/father.cpp:14-15. *)
Gap(main, h, i) == IF main[i] < h[i] THEN h[i] - main[i] ELSE main[i] - h[i]

(* The positions where the two candidates are not equally far from main;   *)
(* the loop of cmp returns at the first of them.                           *)
Differ(main, h1, h2) ==
    {i \in 1..HASHSIZE : Gap(main, h1, i) # Gap(main, h2, i)}

(* 1: h1 is nearer to main, 2: h2 is, 0: the loop ran to its end.          *)
cmp_Wrong(main, h1, h2) ==
    IF \E i \in 1..HASHSIZE :
          /\ \A j \in Differ(main, h1, h2) : i <= j
          /\ Gap(main, h1, i) <= Gap(main, h2, i)
    THEN 1 ELSE 2
cmp(main, h1, h2) ==
    IF \E i \in Differ(main, h1, h2) :
          /\ \A j \in Differ(main, h1, h2) : i <= j
          /\ Gap(main, h1, i) < Gap(main, h2, i)
    THEN 1
    ELSE IF Differ(main, h1, h2) # {} THEN 2 ELSE 0

(* h1 is strictly nearer to main than h2: the only answer the callers of   *)
(* cmp in nodes_handler::nearest and clients_handler::nearest act on.      *)
Closer(main, h1, h2) == cmp(main, h1, h2) = 1

(* The keys of S that no other of them is nearer to main than.             *)
Nearest(main, S) == {h \in S : \A g \in S : ~Closer(main, g, h)}

(* What nodes_handler::nearest can return, whatever the order of the keys  *)
(* S in the vector: `head` is the first entry, read before the mutex.      *)
NearestFrom(main, head, S) ==
    IF \E g \in S : Closer(main, g, head) THEN Nearest(main, S) ELSE {head}

(* The scan itself, over the vector structs::nodes of the peer `me`: it    *)
(* starts from `head`, which was the first entry before the mutex was      *)
(* taken, whoever that is, and skips the peer's own key afterwards.        *)
nearest_Wrong(main, me, head, nodes) ==
    LET node[i \in 0..Len(nodes)] ==
            IF i = 0 THEN head
            ELSE IF Closer(main, nodes[i], node[i - 1]) THEN nodes[i]
            ELSE node[i - 1]
    IN  node[Len(nodes)]
nearest(main, me, head, nodes) ==
    LET node[i \in 0..Len(nodes)] ==
            IF i = 0 THEN head
            ELSE IF nodes[i] # me /\ Closer(main, nodes[i], node[i - 1]) THEN nodes[i]
            ELSE node[i - 1]
    IN  node[Len(nodes)]

(* byte_sum: the id by which nodes, ports and routes are sorted.           *)
byte_sum(h) ==
    LET sum[i \in 0..HASHSIZE] == IF i = 0 THEN 0 ELSE sum[i - 1] + h[i]
    IN  sum[HASHSIZE]

=============================================================================
