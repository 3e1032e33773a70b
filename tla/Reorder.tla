------------------------------- MODULE Reorder ------------------------------
(***************************************************************************)
(* The article layout of src/src/reorder/mod.rs: a stream is split into    *)
(* page blocks, the blocks are put in another order, and a stable sort by  *)
(* the id inside each block restores them.  A stream is a sequence of the  *)
(* page tags, id elements and other text, each taken as one element.       *)
(***************************************************************************)
EXTENDS Integers, SequencesExt

CONSTANTS
  PageIds,  \* the number each id element holds
  MAX_ID    \* the key of a block without an id, u64::MAX in the code

ASSUME PageIdsAssumption == \A d \in DOMAIN PageIds : PageIds[d] \in Nat

PAGE_OPEN  == "open"
PAGE_CLOSE == "close"

\* The places of a tag, in order.
FindAll(s, tag) ==
  LET out[i \in 0 .. Len(s)] ==
        IF i = 0 THEN <<>>
        ELSE IF s[i] = tag THEN Append(out[i - 1], i) ELSE out[i - 1]
  IN  out[Len(s)]

\* Every page is closed, but for a last one, and the blocks touch.
IsPageStream(s) ==
  LET starts == FindAll(s, PAGE_OPEN)
      ends   == FindAll(s, PAGE_CLOSE)
  IN  /\ ends # <<>>
      /\ Len(starts) \in {Len(ends), Len(ends) + 1}
      /\ \A k \in DOMAIN ends : starts[k] < ends[k]
      /\ \A k \in 1 .. Len(starts) - 1 : ends[k] + 1 = starts[k + 1]

Split(s) ==
  LET starts == FindAll(s, PAGE_OPEN)
      ends   == FindAll(s, PAGE_CLOSE)
  IN  [header |-> SubSeq(s, 1, starts[1] - 1),
       pages  |-> [k \in DOMAIN ends |-> SubSeq(s, starts[k], ends[k])],
       tail   |-> SubSeq(s, ends[Len(ends)] + 1, Len(s))]

HasId(page) == \E i \in DOMAIN page : page[i] \in DOMAIN PageIds
\* The first id element of a block.
PageId(page) ==
  PageIds[page[CHOOSE i \in DOMAIN page :
                 /\ page[i] \in DOMAIN PageIds
                 /\ \A k \in 1 .. i - 1 : page[k] \notin DOMAIN PageIds]]

\* The ids need not differ.
AscendingOrEqual(pages) ==
  /\ \A k \in DOMAIN pages : HasId(pages[k])
  /\ \A k \in 1 .. Len(pages) - 1 : PageId(pages[k]) <= PageId(pages[k + 1])

\* Restoring is free: every block has an id, and they rise strictly.
AscendingIds(pages) ==
  /\ \A k \in DOMAIN pages : HasId(pages[k])
  /\ \A k \in 1 .. Len(pages) - 1 : PageId(pages[k]) < PageId(pages[k + 1])

Assemble(split, order) ==
  split.header \o FlattenSeq([k \in DOMAIN order |-> split.pages[order[k]]]) \o split.tail

\* The order of a stable sort by key.
SortedBy(key) ==
  [k \in DOMAIN key |->
     CHOOSE i \in DOMAIN key :
       Cardinality({j \in DOMAIN key : key[j] < key[i] \/ (key[j] = key[i] /\ j < i)}) = k - 1]

\* The decoder's side: sort, whatever order the encoder chose.
Restore(s) ==
  IF ~IsPageStream(s) THEN s
  ELSE LET key(p) == IF HasId(p) THEN PageId(p) ELSE MAX_ID
       IN  Assemble(Split(s), SortedBy([k \in DOMAIN Split(s).pages |-> key(Split(s).pages[k])]))
=============================================================================
