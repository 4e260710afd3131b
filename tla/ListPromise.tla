---------------------------- MODULE ListPromise ----------------------------
(***************************************************************************)
(* What the list module promises: a list is a sequence of members, and     *)
(* every operation is an operation on sequences.  Memory may run out, and  *)
(* then the members of a copy that did not fit are missing at its end.     *)
(***************************************************************************)
EXTENDS SequencesExt

CONSTANTS
  Lists,    \* the list records there may be
  Members,  \* what lists hold
  NoList    \* a record that is not allocated

VARIABLE content  \* content[l]: the members of l in order, or NoList

Live == {l \in Lists : content[l] # NoList}

Init == content = [l \in Lists |-> NoList]

WithUnique(q, x) == IF Contains(q, x) THEN q ELSE Append(q, x)

(* q after the first n members of p were added to it, for every n: those    *)
(* in Chosen, and none of them twice                                       *)
ExtendedUnique(q, p, Chosen) ==
  LET after[n \in 0..Len(p)] ==
        IF n = 0 THEN q
        ELSE IF p[n] \in Chosen THEN WithUnique(after[n - 1], p[n])
        ELSE after[n - 1]
  IN  after

Set(l, q) == content' = [content EXCEPT ![l] = q]

New(l)  == content[l] = NoList /\ Set(l, << >>)
Free(l) == l \in Live /\ Set(l, NoList)

Add(l, x)       == l \in Live /\ Set(l, Append(content[l], x))
AddUnique(l, x) == l \in Live /\ Set(l, WithUnique(content[l], x))

Move(d, s) ==
  /\ {d, s} \subseteq Live /\ d # s
  /\ content' = [content EXCEPT ![d] = content[d] \o content[s], ![s] = << >>]

(* copies of the first members of s *)
Copy(d, s) ==
  /\ {d, s} \subseteq Live /\ d # s
  /\ \E n \in 0..Len(content[s]) : Set(d, content[d] \o SubSeq(content[s], 1, n))

CopyUnique(d, s, Chosen) ==
  /\ {d, s} \subseteq Live /\ d # s
  /\ \E n \in 0..Len(content[s]) :
       Set(d, ExtendedUnique(content[d], content[s], Chosen)[n])

Next ==
  \/ \E l \in Lists : New(l) \/ Free(l)
  \/ \E l \in Lists, x \in Members : Add(l, x) \/ AddUnique(l, x)
  \/ \E d, s \in Lists : Move(d, s) \/ Copy(d, s)
  \/ \E d, s \in Lists, C \in SUBSET Members : CopyUnique(d, s, C)

Spec == Init /\ [][Next]_content
=============================================================================
