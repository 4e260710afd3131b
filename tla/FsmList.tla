------------------------------ MODULE FsmList ------------------------------
(***************************************************************************)
(* The list module: list records and list elements on the heap, linked by  *)
(* pointers, with a count in the record and an ordinal in every element.   *)
(* The rest of the program reads the three representations side by side:   *)
(* it iterates along "next", asks for the nth member by its ordinal, and   *)
(* takes the count for the number of members.                              *)
(*                                                                         *)
(* calloc may find the heap exhausted.  Operations given no destination    *)
(* return their source and change nothing, so they are no actions here.    *)
(***************************************************************************)
EXTENDS SequencesExt

CONSTANTS
  Lists, Elems,  \* the memory for list records and for list elements
  Members,       \* what lists hold
  NULL           \* the null pointer; also memory that is not allocated

ListRecords  == [count : Nat, head : Elems \union {NULL}, tail : Elems \union {NULL}]
ListElements == [mbr : Members, next : Elems \union {NULL}, ordinal : Nat]

(* There is so much memory and no more, and the null pointer is nothing    *)
(* else.                                                                   *)
ASSUME ListAssumption ==
  /\ IsFiniteSet(Elems)
  /\ NULL \notin Elems \union Members \union Seq(Members)
  /\ NULL \notin ListRecords \union ListElements

VARIABLE heap  \* heap.rec[l]: the list record at l; heap.elem[e]: the element

TypeOK ==
  heap \in [rec  : [Lists -> ListRecords \union {NULL}],
           elem : [Elems -> ListElements \union {NULL}]]

Init == heap = [rec |-> [l \in Lists |-> NULL], elem |-> [e \in Elems |-> NULL]]

Live(l) == heap.rec[l] # NULL

-----------------------------------------------------------------------------
(* The elements iterate_list visits, in order. *)
Visited(h, l) ==
  LET at[i \in 1..Cardinality(Elems)] ==
        IF i = 1 THEN h.rec[l].head
        ELSE IF at[i - 1] = NULL THEN NULL ELSE h.elem[at[i - 1]].next
      Reached == {i \in 1..Cardinality(Elems) : at[i] # NULL}
  IN  [i \in 1..Cardinality(Reached) |-> at[i]]

MembersOf(h, l) == [i \in DOMAIN Visited(h, l) |-> h.elem[Visited(h, l)[i]].mbr]

(* find_nth_list_member(l, target): the first visited with that ordinal *)
NthMember(h, l, target) ==
  LET v   == Visited(h, l)
      nth == {i \in DOMAIN v : h.elem[v[i]].ordinal = target}
  IN  IF nth = {} THEN NULL ELSE h.elem[v[Min(nth)]].mbr

-----------------------------------------------------------------------------
(* The heap after an operation. *)
Unused(h) == {e \in Elems : h.elem[e] = NULL}

EmptyRecord == [count |-> 0, head |-> NULL, tail |-> NULL]

WithRecord(h, l) == [rec |-> [h.rec EXCEPT ![l] = EmptyRecord], elem |-> h.elem]

Added(h, l, x) ==
  IF Unused(h) = {} THEN h
  ELSE
    LET new  == CHOOSE e \in Unused(h) : TRUE
        old  == h.rec[l]
        with == [h.elem EXCEPT ![new] =
                   [mbr |-> x, next |-> NULL, ordinal |-> old.count]]
    IN  IF old.head = NULL
        THEN [rec  |-> [h.rec EXCEPT ![l] = [count |-> 1, head |-> new, tail |-> new]],
              elem |-> with]
        ELSE [rec  |-> [h.rec EXCEPT ![l] = [count |-> old.count + 1, head |-> old.head,
                                             tail |-> new]],
              elem |-> [with EXCEPT ![old.tail].next = new]]

AddedUnique(h, l, x) ==
  IF Contains(MembersOf(h, l), x) THEN h ELSE Added(h, l, x)

(* a move that leaves the ordinals as they were *)
NotRenumbered(h, d, s) == h.elem

(* the ordinals of s, moved behind the count of d *)
Renumbered(h, d, s) ==
  [e \in Elems |-> IF e \in ToSet(Visited(h, s))
                   THEN [h.elem[e] EXCEPT !.ordinal = @ + h.rec[d].count]
                   ELSE h.elem[e]]

(* the elements of s in front of those of d *)
MovedInFront(h, d, s) ==
  LET dest == h.rec[d]
      src  == h.rec[s]
  IN  [rec  |-> [h.rec EXCEPT
                   ![d] = [count |-> dest.count + src.count, head |-> src.head,
                           tail |-> src.tail],
                   ![s] = EmptyRecord],
       elem |-> h.elem]

Moved(h, d, s) ==
  LET dest == h.rec[d]
      src  == h.rec[s]
      recs == [h.rec EXCEPT
                 ![d] = [count |-> dest.count + src.count,
                         head  |-> IF dest.tail = NULL THEN src.head ELSE dest.head,
                         tail  |-> src.tail],
                 ![s] = EmptyRecord]
  IN  IF dest.tail = NULL
      THEN [rec |-> recs, elem |-> h.elem]
      ELSE [rec |-> recs, elem |-> [Renumbered(h, d, s) EXCEPT ![dest.tail].next = src.head]]

(* the heap after each member of s was offered to d, one after the other;  *)
(* all are added, or those in Chosen that d does not have                  *)
Copied(h, d, s) ==
  LET q == MembersOf(h, s)
      after[n \in 0..Len(q)] ==
        IF n = 0 THEN h ELSE Added(after[n - 1], d, q[n])
  IN  after[Len(q)]

CopiedUnique(h, d, s, Chosen) ==
  LET q == MembersOf(h, s)
      after[n \in 0..Len(q)] ==
        IF n = 0 THEN h
        ELSE IF q[n] \in Chosen THEN AddedUnique(after[n - 1], d, q[n])
        ELSE after[n - 1]
  IN  after[Len(q)]

(* freeing the record without its elements *)
FreedRecord(h, l) == [h EXCEPT !.rec[l] = NULL]

Freed(h, l) ==
  [rec  |-> [h.rec EXCEPT ![l] = NULL],
   elem |-> [e \in Elems |-> IF e \in ToSet(Visited(h, l)) THEN NULL ELSE h.elem[e]]]

-----------------------------------------------------------------------------
InitList(l) == ~Live(l) /\ heap' = WithRecord(heap, l)
FreeList(l) == Live(l) /\ heap' = Freed(heap, l)

AddToList(l, x)       == Live(l) /\ heap' = Added(heap, l, x)
AddUniqueToList(l, x) == Live(l) /\ heap' = AddedUnique(heap, l, x)

Both(d, s) == d # s /\ Live(d) /\ Live(s)

(* The program moves only lists that have members: with an empty source    *)
(* the destination would lose its tail.                                    *)
MoveList(d, s) ==
  /\ Both(d, s) /\ heap.rec[s].head # NULL
  /\ heap' = Moved(heap, d, s)

CopyList(d, s) == Both(d, s) /\ heap' = Copied(heap, d, s)

CopyListUnique(d, s) == Both(d, s) /\ heap' = CopiedUnique(heap, d, s, Members)

(* a move in name only: the source keeps its members *)
MoveListUnique(d, s) == CopyListUnique(d, s)

CopyListUniqueWithException(d, s, x) ==
  Both(d, s) /\ heap' = CopiedUnique(heap, d, s, Members \ {x})

Next ==
  \/ \E l \in Lists : InitList(l) \/ FreeList(l)
  \/ \E l \in Lists, x \in Members : AddToList(l, x) \/ AddUniqueToList(l, x)
  \/ \E d, s \in Lists : MoveList(d, s) \/ CopyList(d, s)
  \/ \E d, s \in Lists : CopyListUnique(d, s) \/ MoveListUnique(d, s)
  \/ \E d, s \in Lists, x \in Members : CopyListUniqueWithException(d, s, x)

Spec == Init /\ [][Next]_heap

-----------------------------------------------------------------------------
(* The three representations of a list agree: the chain from its head ends *)
(* at its tail after count elements, numbered from 0.                      *)
ChainsAgree ==
  \A l \in {k \in Lists : Live(k)} :
    LET r == heap.rec[l]
        v == Visited(heap, l)
    IN  /\ Len(v) = r.count
        /\ r.tail = IF v = << >> THEN NULL ELSE Last(v)
        /\ \A i \in DOMAIN v : NthMember(heap, l, i - 1) = heap.elem[v[i]].mbr
        /\ NthMember(heap, l, Len(v)) = NULL

(* Every element that is allocated is in one list: none is reached from    *)
(* two records, where freeing one list would cut the other, and none is    *)
(* left behind when its list is freed.                                     *)
OneOwner ==
  \A e \in Elems \ Unused(heap) :
    \E l \in Lists : \A k \in Lists :
      (Live(k) /\ e \in ToSet(Visited(heap, k))) <=> k = l

(* "List integrity", which list.c asks its callers for and must leave      *)
(* behind, for each list and between lists.                                *)
Integrity == TypeOK /\ ChainsAgree /\ OneOwner

(* The linked lists implement sequences. *)
Sequences ==
  INSTANCE ListPromise WITH NoList <- NULL,
    content <- [l \in Lists |-> IF Live(l) THEN MembersOf(heap, l) ELSE NULL]

KeepsPromise == Sequences!Spec
=============================================================================
