------------------------------ MODULE MCParts ------------------------------
(***************************************************************************)
(* The parts that each work on one request and share no state: the check   *)
(* of a plan's structure, the guards, the linter's verdicts, the service   *)
(* catalogue and the report.  In a behaviour one of them is at work and    *)
(* the others stay as they are.                                            *)
(***************************************************************************)
EXTENDS MCDependencyCycle, MCGuardHook, MCVerdicts, MCServiceCatalog, MCReport

VARIABLE part

Parts == {"structure", "guard", "verdicts", "catalog", "report"}
partVars == <<part, vars, guardVars, lintVars, catalogVars, reportVars>>

Some(S) == CHOOSE v \in S : TRUE

StructureRests ==
    /\ plan = <<>> /\ at = "done" /\ verdict = "refused"
    /\ graph = [v \in {} |-> {}] /\ color = [v \in Ids |-> "white"]
    /\ stack = <<>> /\ left = [v \in Ids |-> {}]
GuardRests ==
    /\ adapter = Some(Adapters) /\ hook = Some(Hooks)
    /\ active = NoSession /\ tickets = [s \in Sessions |-> NoTicket]
    /\ GuardInit
VerdictsRest ==
    /\ corpus = Some(Policies) /\ published = LoadSkillCompanions(<<>>) /\ call = Some(Calls)
    /\ uploads = [s \in Owners |-> Nothing] /\ uploaded = 0
    /\ lintAt = "none" /\ rest = {} /\ input = "none" /\ found = {}
    /\ standing = Nothing /\ met = {}
CatalogRests ==
    /\ catalog = Some(Catalogs) /\ ranking = Some(Rankings) /\ request = Some(Requests)
    /\ CatalogInit
ReportRests == lines = <<>> /\ query = Some(Queries) /\ ReportInit

PartsInit ==
    /\ part \in Parts
    /\ IF part = "structure" THEN Init ELSE StructureRests
    /\ IF part = "guard" THEN GuardInit ELSE GuardRests
    /\ IF part = "verdicts" THEN VerdictInit ELSE VerdictsRest
    /\ IF part = "catalog" THEN CatalogInit ELSE CatalogRests
    /\ IF part = "report" THEN ReportInit ELSE ReportRests

StructureStep ==
    part = "structure" /\ Next
    /\ UNCHANGED <<part, guardVars, lintVars, catalogVars, reportVars>>

PartsNext ==
    \/ StructureStep
    \/ /\ part = "guard" /\ GuardNext
       /\ UNCHANGED <<part, vars, lintVars, catalogVars, reportVars>>
    \/ /\ part = "verdicts" /\ VerdictNext
       /\ UNCHANGED <<part, vars, guardVars, catalogVars, reportVars>>
    \/ /\ part = "catalog" /\ DiscoverService
       /\ UNCHANGED <<part, vars, guardVars, lintVars, reportVars>>
    \/ /\ part = "report" /\ ReportNext
       /\ UNCHANGED <<part, vars, guardVars, lintVars, catalogVars>>

PartsSpec == PartsInit /\ [][PartsNext]_partVars /\ WF_partVars(StructureStep)

=============================================================================
