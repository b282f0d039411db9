--------------------------- MODULE MCOrchestrate ----------------------------
(* Small instances of Orchestrate for TLC. *)
EXTENDS Orchestrate

CONSTANTS a, b, d, v

Plain(e) == [entry |-> e, has |-> {}]

\* Two candidates; the second may be what the first becomes once revised.
MCRankings == {<<Plain(a), Plain(b)>>, <<Plain(a), [entry |-> a, has |-> {d}]>>}
MCUserEntries == {Plain(b)}
============================================================================
