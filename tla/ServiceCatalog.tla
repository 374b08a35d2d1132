--------------------------- MODULE ServiceCatalog ---------------------------
(***************************************************************************)
(* The discovery of sanctioned services (internal/catalog,                 *)
(* handleDiscoverService): which records of the catalogue a request        *)
(* matches, how the ranking policy's verdicts order them, and which one is *)
(* recommended.  Case and the text of an intent are left out: an intent is *)
(* the set of the words found in it; ids are numbered as they sort.        *)
(***************************************************************************)
EXTENDS Integers, Sequences, FiniteSets, SequencesExt

CONSTANTS
    Services,   \* records: a service's id, capability, selectors and tier
    Catalogs,   \* catalogues: sequences of records
    Rankings,   \* what the policy may answer: sequences of verdicts
    Requests    \* requests: a capability and an intent

ASSUME ServicesAssumption == \A svc \in Services : svc.id \in Nat \ {0} /\ svc.tier \in Int
ASSUME CatalogsAssumption == Catalogs \subseteq Seq(Services)
ASSUME RankingsAssumption == Rankings \subseteq Seq([id : Nat, allow : BOOLEAN, score : Int])

VARIABLES
    catalog,    \* the catalogue, in load order
    ranking,    \* the policy's answer
    request,    \* the request
    response    \* the answer to it

catalogVars == <<catalog, ranking, request, response>>

Unanswered == [status |-> "none"]
NoService == [id |-> 0]

-----------------------------------------------------------------------------
Blank(capability) == capability \in {"", " "}

\* Whether a record is a candidate: by its capability when one is asked for, otherwise by
\* the words of the intent.
Matches(svc, req) ==
    IF ~Blank(req.capability) THEN svc.capability = req.capability
    ELSE svc.capability \in req.intent \/ svc.selectors \cap req.intent # {}

\* The places of the candidates in the catalogue.
Retrieve(req) == {i \in DOMAIN catalog : Matches(catalog[i], req)}

\* Slip: what the policy is silent on is allowed.
VerdictOnOpen(svc) ==
    LET given == {i \in DOMAIN ranking : ranking[i].id = svc.id}
    IN IF given = {} THEN [id |-> svc.id, allow |-> TRUE, score |-> 0]
       ELSE ranking[CHOOSE i \in given : \A j \in given : j <= i]

\* The verdict on a service: the last one given, and no without any.
VerdictOn(svc) ==
    LET given == {i \in DOMAIN ranking : ranking[i].id = svc.id}
    IN IF given = {} THEN [id |-> svc.id, allow |-> FALSE, score |-> 0]
       ELSE ranking[CHOOSE i \in given : \A j \in given : j <= i]

\* Slip: the tier counts before the score.
PrecedesByTier(a, b) ==
    LET v == VerdictOn(a)
        w == VerdictOn(b)
    IN
    \/ v.allow /\ ~w.allow
    \/ v.allow = w.allow /\ a.tier < b.tier
    \/ v.allow = w.allow /\ a.tier = b.tier /\ v.score > w.score
    \/ v.allow = w.allow /\ v.score = w.score /\ a.tier = b.tier /\ a.id < b.id

\* Allowed before denied, then by score, tier and name.
Precedes(a, b) ==
    LET v == VerdictOn(a)
        w == VerdictOn(b)
    IN
    \/ v.allow /\ ~w.allow
    \/ v.allow = w.allow /\ v.score > w.score
    \/ v.allow = w.allow /\ v.score = w.score /\ a.tier < b.tier
    \/ v.allow = w.allow /\ v.score = w.score /\ a.tier = b.tier /\ a.id < b.id

\* Rank: the candidates sorted, those that tie left as they were.
ComesFirst(i, j) ==
    \/ Precedes(catalog[i], catalog[j])
    \/ ~Precedes(catalog[j], catalog[i]) /\ i < j
Sorted(candidates) ==
    CHOOSE order \in [1 .. Cardinality(candidates) -> candidates] :
        \A m, n \in DOMAIN order : m < n => ComesFirst(order[m], order[n])
Rank(candidates) == [k \in 1 .. Cardinality(candidates) |-> catalog[Sorted(candidates)[k]]]

\* Slip: the first of the sorted candidates is recommended, whatever the verdict.
PickFirst(ranked) == IF ranked = <<>> THEN 0 ELSE 1

Foremost(places) == CHOOSE i \in places : \A j \in places : i <= j

\* The place of the recommended service: the first that is allowed, or 0.
Pick(ranked) ==
    LET allowed == {i \in DOMAIN ranked : VerdictOn(ranked[i]).allow}
    IN IF allowed = {} THEN 0 ELSE Foremost(allowed)

\* What the answer says of a choice: the service, and the others in their order.  The
\* reasons of denial that go with them are left out.
Found(req, candidates, ranked) ==
    [status |-> IF Pick(ranked) = 0 THEN "NO_SERVICE_FOR_CAPABILITY" ELSE "SERVICE_FOUND",
     capability |-> IF req.capability = "" /\ candidates # {}
                    THEN catalog[Foremost(candidates)].capability ELSE req.capability,
     recommended |-> IF Pick(ranked) = 0 THEN NoService ELSE ranked[Pick(ranked)],
     alternatives |-> IF Pick(ranked) = 0 THEN ranked ELSE RemoveAt(ranked, Pick(ranked))]

CatalogInit ==
    /\ catalog \in Catalogs
    /\ ranking \in Rankings
    /\ request \in Requests
    /\ response = Unanswered

\* handleDiscoverService; the evaluation of the policy may fail.
DiscoverService ==
    /\ response = Unanswered
    /\ LET candidates == Retrieve(request) IN
       \/ /\ Blank(request.capability) /\ request.intent = {}
          /\ response' = [status |-> "400"]
       \/ /\ ~Blank(request.capability) \/ request.intent # {}
          /\ response' = Found(request, candidates, Rank(candidates))
       \/ /\ candidates # {}
          /\ response' = [status |-> "500"]
    /\ UNCHANGED <<catalog, ranking, request>>

CatalogSpec == CatalogInit /\ [][DiscoverService]_catalogVars

-----------------------------------------------------------------------------
(* Properties. *)

Answered == response.status \in {"SERVICE_FOUND", "NO_SERVICE_FOR_CAPABILITY"}
Candidates == Retrieve(request)

\* The recommended service is one the policy allows in so many words, and none that it
\* also allows for the request scores higher, or as high on a lower tier; there is one
\* whenever the policy allows any; and every other candidate is told as an alternative,
\* the allowed ones first.
Sanctioned ==
    Answered =>
        LET allows(svc) == \E v \in Range(ranking) : v.id = svc.id /\ v.allow
            score(svc) == VerdictOn(svc).score
            told == <<response.recommended>> \o response.alternatives
        IN
        /\ response.status = "SERVICE_FOUND" =>
              /\ allows(response.recommended)
              /\ \E i \in Candidates : catalog[i] = response.recommended
              /\ \A i \in Candidates : VerdictOn(catalog[i]).allow =>
                    \/ score(catalog[i]) < score(response.recommended)
                    \/ /\ score(catalog[i]) = score(response.recommended)
                       /\ response.recommended.tier <= catalog[i].tier
        /\ response.status # "SERVICE_FOUND" =>
              \A i \in Candidates : ~VerdictOn(catalog[i]).allow
        /\ \A svc \in Range(catalog) :
              Cardinality({i \in Candidates : catalog[i] = svc}) =
              Cardinality({i \in DOMAIN told : told[i] = svc})
        /\ \A i, j \in DOMAIN response.alternatives :
              i < j /\ VerdictOn(response.alternatives[j]).allow =>
                  VerdictOn(response.alternatives[i]).allow

=============================================================================
