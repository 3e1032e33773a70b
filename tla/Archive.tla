------------------------------ MODULE Archive -------------------------------
(***************************************************************************)
(* The container of src/src/archive.rs, from a file to an archive, into a  *)
(* self-extracting image, out of it again and back to the file:            *)
(* encode_tuned(), append_sfx(), extract_sfx() and decode().  The byte     *)
(* transforms are layers on the text, which only the layer's own inverse   *)
(* takes off; a method says which layers it has, and whether and how it    *)
(* reorders the pages.                                                     *)
(***************************************************************************)
EXTENDS Reorder

CONSTANTS
  Methods,     \* name |-> [order, layers]
  Parent,      \* the method to fall back to: Sse3 in the code
  W,           \* the window of the greedy order, 64 in the code
  MAX_OUTPUT,  \* the longest output a decoder accepts
  Files,       \* the inputs
  Sizes,       \* how long archives may be
  Stubs        \* the executables an archive is appended to

Layers == <<"lzbe", "grammar", "stem", "hoist", "case", "token", "perm">>

ASSUME ParentAssumption == Methods[Parent].order = "none"
\* With a window of one page the walk would end after its first.
ASSUME WAssumption == W \in Nat /\ W >= 2
ASSUME SizesAssumption == Sizes \subseteq Nat
ASSUME StubsAssumption == Stubs \subseteq Seq([kind : {"byte", "marker", "len", "archive"}, val : Nat])
ASSUME FilesAssumption == Files \subseteq Seq(STRING)

VARIABLES
  stage,    \* what runs next
  file,     \* the input
  method,   \* the method in force; the archive's header records it
  data,     \* [text, layers]: the stream as it is now, the layers on it
  walk,     \* the greedy order so far, the window and the pages after it
  order,    \* history: the order the pages were written in
  at,       \* the layer that is next
  archive,  \* the header and the payload
  image     \* the executable

vars == <<stage, file, method, data, walk, order, at, archive, image>>

NoArchive ==
  [method |-> Parent, n |-> 0, payload |-> <<>>, layers |-> <<>>, model |-> <<>>, size |-> 0]
NoWalk    == [order |-> <<>>, window |-> <<>>, rest |-> <<>>]

-----------------------------------------------------------------------------
(* encode_tuned: the layout, the layers, the coder. *)

OrderOf(m) == Methods[m].order

\* The pages are written in the order idx.
Arrange(idx) ==
  /\ order' = idx
  /\ data' = [text |-> Assemble(Split(file), idx), layers |-> <<>>]
  /\ stage' = "layers"

\* Without the precondition the method becomes its parent, for good.
Downgrade ==
  /\ stage = "reorder" /\ OrderOf(method) # "none"
  /\ ~(IsPageStream(file) /\ AscendingIds(Split(file).pages))
  /\ method' = Parent
  /\ stage' = "layers"
  /\ UNCHANGED <<file, data, walk, order, at, archive, image>>

KeepOrder ==
  /\ stage = "reorder" /\ OrderOf(method) = "none"
  /\ stage' = "layers"
  /\ UNCHANGED <<file, method, data, walk, order, at, archive, image>>

\* A sort by some key of the pages' contents: any order may come of it.
SortPages ==
  /\ stage = "reorder" /\ OrderOf(method) = "key"
  /\ IsPageStream(file) /\ AscendingIds(Split(file).pages)
  /\ LET n == Len(Split(file).pages)
     IN  \E idx \in {f \in [1 .. n -> 1 .. n] : IsInjective(f)} : Arrange(idx)
  /\ UNCHANGED <<file, method, walk, at, archive, image>>

\* The greedy walk starts at the first of the pages sorted by signature and
\* looks at a window of those that follow.
StartWalk ==
  /\ stage = "reorder" /\ OrderOf(method) = "greedy"
  /\ IsPageStream(file) /\ AscendingIds(Split(file).pages)
  /\ LET n == Len(Split(file).pages)
     IN  \E s \in {f \in [1 .. n -> 1 .. n] : IsInjective(f)} :
           LET w == IF n < W THEN n ELSE W
           IN  walk' = [order  |-> <<s[1]>>,
                        window |-> SubSeq(s, 2, w),
                        rest   |-> SubSeq(s, w + 1, n)]
  /\ stage' = "walk"
  /\ UNCHANGED <<file, method, data, order, at, archive, image>>

\* The nearest of the window is next, and one page moves up.
WalkStep ==
  /\ stage = "walk" /\ walk.window # <<>>
  /\ \E k \in DOMAIN walk.window :
       walk' = [order  |-> Append(walk.order, walk.window[k]),
                window |-> RemoveAt(walk.window, k)
                             \o SubSeq(walk.rest, 1, IF walk.rest = <<>> THEN 0 ELSE 1),
                rest   |-> IF walk.rest = <<>> THEN <<>> ELSE Tail(walk.rest)]
  /\ UNCHANGED <<stage, file, method, data, order, at, archive, image>>

\* The walk ends when there is nothing left to move up.
EndWalkEarly ==
  /\ stage = "walk" /\ walk.rest = <<>>
  /\ Arrange(walk.order)
  /\ UNCHANGED <<file, method, walk, at, archive, image>>

EndWalk ==
  /\ stage = "walk" /\ walk.window = <<>>
  /\ Arrange(walk.order)
  /\ UNCHANGED <<file, method, walk, at, archive, image>>

ApplyLayer ==
  /\ stage = "layers" /\ at <= Len(Layers)
  /\ data' = IF Layers[at] \in Methods[method].layers
             THEN [data EXCEPT !.layers = Append(@, Layers[at])] ELSE data
  /\ at' = at + 1
  /\ UNCHANGED <<stage, file, method, walk, order, archive, image>>

\* The header says which model codes the payload; decoding needs the same.
\* How small the payload gets is up to the model.
Model(m, n) == <<m, n>>

WriteArchive ==
  /\ stage = "layers" /\ at > Len(Layers)
  /\ LET n == Len(data.text)
     IN  \E size \in Sizes :
           archive' = [method |-> method, n |-> n, payload |-> data.text,
                       layers |-> data.layers, model |-> Model(method, n),
                       size |-> size]
  /\ stage' = "pack"
  /\ UNCHANGED <<file, method, data, walk, order, at, image>>

-----------------------------------------------------------------------------
(* The image: bytes of the stub, the marker and a length, and the archive. *)

Unit(kind, val) == [kind |-> kind, val |-> val]

AppendSfx ==
  /\ stage = "pack"
  /\ image' = image \o <<Unit("marker", 0), Unit("len", archive.size)>>
                    \o [i \in 1 .. archive.size |-> Unit("archive", i)]
  /\ stage' = "extract"
  /\ UNCHANGED <<file, method, data, walk, order, at, archive>>

Markers == {p \in DOMAIN image : image[p].kind = "marker"}
FirstMarker == CHOOSE p \in Markers : \A q \in Markers : p <= q
LastMarker  == CHOOSE p \in Markers : \A q \in Markers : q <= p

\* What extract_sfx finds behind the marker at p, if it is all there.
Recovered(p) ==
  IF p + 1 > Len(image) \/ p + 1 + image[p + 1].val > Len(image) THEN <<>>
  ELSE SubSeq(image, p + 2, p + 1 + image[p + 1].val)

\* The marker furthest from the end.
FoundFirst == IF Markers = {} THEN <<>> ELSE Recovered(FirstMarker)
\* The last marker wins.
Found == IF Markers = {} THEN <<>> ELSE Recovered(LastMarker)

\* The archive that append_sfx put at the end.
Appended == SubSeq(image, Len(image) - archive.size + 1, Len(image))

-----------------------------------------------------------------------------
(* extract_sfx and decode. *)

\* What was found is decoded, if it is an archive of an acceptable length.
StartDecode ==
  /\ stage = "extract"
  /\ IF archive.n > MAX_OUTPUT \/ Found # Appended
     THEN stage' = "refused" /\ UNCHANGED <<method, data, at>>
     ELSE /\ method' = archive.method
          /\ data' = IF archive.model = Model(archive.method, archive.n)
                     THEN [text |-> archive.payload, layers |-> archive.layers]
                     ELSE [text |-> <<>>, layers |-> <<>>]
          /\ at' = Len(Layers)
          /\ stage' = "unlayer"
  /\ UNCHANGED <<file, walk, order, archive, image>>

\* A layer's inverse takes that layer off, and spoils any other stream.
RemoveLayer ==
  /\ stage = "unlayer" /\ at > 0
  /\ data' = IF Layers[at] \notin Methods[method].layers THEN data
             ELSE IF data.layers # <<>> /\ Last(data.layers) = Layers[at]
             THEN [data EXCEPT !.layers = Front(@)]
             ELSE [text |-> <<>>, layers |-> <<>>]
  /\ at' = at - 1
  /\ UNCHANGED <<stage, file, method, walk, order, archive, image>>

Unreorder ==
  /\ stage = "unlayer" /\ at = 0
  /\ data' = IF data.layers # <<>> THEN [text |-> <<>>, layers |-> <<>>]
             ELSE IF OrderOf(method) # "none" THEN [data EXCEPT !.text = Restore(@)]
             ELSE data
  /\ stage' = "done"
  /\ UNCHANGED <<file, method, walk, order, at, archive, image>>

-----------------------------------------------------------------------------
Init ==
  /\ stage = "reorder"
  /\ file \in Files
  /\ method \in DOMAIN Methods
  /\ data = [text |-> file, layers |-> <<>>]
  /\ walk = NoWalk /\ order = <<>> /\ at = 1
  /\ archive = NoArchive
  /\ image \in Stubs

Next ==
  \/ Downgrade \/ KeepOrder \/ SortPages \/ StartWalk \/ WalkStep \/ EndWalk
  \/ ApplyLayer \/ WriteArchive \/ AppendSfx
  \/ StartDecode \/ RemoveLayer \/ Unreorder

Spec == Init /\ [][Next]_vars

-----------------------------------------------------------------------------
(* Properties. *)

\* What was compressed is what comes out, whatever the method, the order of
\* the pages and the precondition made of them; only a file that is longer
\* than a decoder accepts is refused.
FileRestored == stage = "done" => data.text = file

\* Whatever the order, each page is written once: the walk that looks at a
\* window of the pages leaves none behind.
EveryPageOnce ==
  order # <<>> => /\ Len(order) = Len(Split(file).pages)
                  /\ IsInjective(order)

\* The archive that was appended is the one that is found, also when the
\* stub holds the marker itself or was packed before.
LastArchiveWins ==
  stage = "extract" => Found = Appended
=============================================================================
