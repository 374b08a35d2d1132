-------------------------- MODULE MCServiceCatalog --------------------------
(* An instance of ServiceCatalog for TLC: up to three records, two verdicts. *)
EXTENDS ServiceCatalog, TLC

Service(id, capability, selectors, tier) ==
    [id |-> id, capability |-> capability, selectors |-> selectors, tier |-> tier]
SomeServices == {Service(1, "db", {}, 1), Service(1, "db", {"store"}, 2),
                Service(2, "db", {"store"}, 1), Service(3, "log", {"store"}, 2)}

SomeCatalogs == UNION {[1 .. n -> SomeServices] : n \in 0 .. 3}
Verdict == [id : 1 .. 3, allow : BOOLEAN, score : 0 .. 1]
SomeRankings == UNION {[1 .. n -> Verdict] : n \in 0 .. 2}
SomeRequests == [capability : {"", " ", "db"}, intent : {{}, {"log"}, {"store", "other"}}]

=============================================================================
