--------------------------- MODULE MCCodecSession ---------------------------
(* The builds of Cargo.toml, the length classes of for_size() and the      *)
(* longest output with its successor, and tune bytes at and past the last  *)
(* scale.                                                                  *)
EXTENDS CodecSession

Core == {"struct-hoist", "column-model", "word-token", "long-match", "sparse-match",
         "match-byte", "sse-3", "reorder", "learned", "mem-guard"}
AcceptedBuild == Core \cup {"tune-table"}
ScoredBuild   == AcceptedBuild \cup {"submission"}
ApmBuild      == Core \cup {"apm-tune"}
ResearchBuild == AcceptedBuild \cup MechanismFeatures
\* A build with hardly anything.
BareBuild == {"word-token2", "phrase"}

Between(e, d, ms) == [enc |-> e, dec |-> d, methods |-> ms]

\* Every method within a build; the accepted one between any two builds that
\* have its mechanisms.
MCSessions ==
  {Between(b, b, MethodNames) : b \in {ResearchBuild, AcceptedBuild, BareBuild}}
    \cup {Between(ApmBuild, ApmBuild, {ACCEPTED_METHOD, "Phase4", "Sse3Ctl"})}
    \cup {Between(e, d, {ACCEPTED_METHOD}) : e, d \in {ResearchBuild, AcceptedBuild, ScoredBuild}}

ResearchSessions == {Between(ResearchBuild, ResearchBuild, MethodNames)}

MCDecoders == {ResearchBuild, ScoredBuild}
MCTunes    == {0, ACCEPTED_TUNE, 127}
MCLengths  == {2000000, 20000000, 200000001, MAX_OUTPUT, MAX_OUTPUT + 1}
=============================================================================
