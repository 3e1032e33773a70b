------------------------------ MODULE MCArchive -----------------------------
(* Three ids, one of them twice over in some files; every file of up to    *)
(* five elements, and files of two to four pages.                          *)
EXTENDS Archive

MCPageIds == [id1 |-> 1, id2 |-> 2, id3 |-> 3, id4 |-> 4]

MCMethods ==
  [raw      |-> [order |-> "none",   layers |-> {}],
   sse3     |-> [order |-> "none",   layers |-> {"hoist", "token"}],
   perm     |-> [order |-> "none",   layers |-> {"hoist", "case", "token", "perm"}],
   grammar  |-> [order |-> "none",   layers |-> {"lzbe", "grammar", "stem"}],
   residual |-> [order |-> "key",    layers |-> {"hoist", "token"}],
   greedy   |-> [order |-> "greedy", layers |-> {"hoist", "token"}]]

Short == UNION {[1 .. n -> {"open", "close", "id1", "id2", "text"}] : n \in 0 .. 5}

Pages(ids) ==
  FlattenSeq([k \in DOMAIN ids |-> <<"open", ids[k], IF k % 2 = 0 THEN "id2" ELSE "text", "close">>])
Long ==
  {h \o Pages(ids) \o t :
     h \in {<<>>, <<"text">>},
     t \in {<<>>, <<"text">>, <<"open">>, <<"open", "id1">>, <<"text", "open", "id1">>},
     ids \in {<<"id1", "id2">>, <<"id1", "id1">>, <<"id1", "id2", "id3">>, <<"id2", "id1", "id3">>,
              <<"id1", "id2", "id3", "id4">>}}

MCFiles == Short \cup Long

Byte(v) == Unit("byte", v)
MCStubs ==
  {<<Byte(0)>>,
   <<Byte(1), Unit("marker", 0), Byte(1), Byte(0)>>,
   <<Byte(0), Unit("marker", 0), Unit("len", 1), Unit("archive", 1)>>}
=============================================================================
