------------------------------- MODULE Report -------------------------------
(***************************************************************************)
(* What `ppg report` makes of the events it has read (cmd/ppg/report.go):  *)
(* the filters, the sort by time, the fold over the events and the flags   *)
(* of each session, one step per event.  How the journal's files are read  *)
(* is the subject of Journal.  What only describes a row is left out: when *)
(* a session began and ended, the order of the sessions, the names of the  *)
(* events a policy was seen in, the number of the events, and the layout.  *)
(***************************************************************************)
EXTENDS Naturals, Sequences, FiniteSets, Functions

CONSTANTS
    Events,      \* events: time, session, name, reason code, outcome, policy ids
    MaxEvents,   \* bound on the events
    Reported     \* the sessions of the events; one may stand for "(no session)"

ASSUME EventsAssumption ==
    \A e \in Events : e.time \in Nat /\ e.session \in Reported /\ IsFiniteSet(e.policies)
ASSUME MaxEventsAssumption == MaxEvents \in Nat

Queries == [since : {0, 1}, session : {"any"} \cup Reported]

VARIABLES
    lines,      \* the events in the order of the journal
    query,      \* the flags -since, as a cut-off time, and -session
    pending,    \* the lines to be counted, in the order of time
    accounts,   \* accounts[s]: the report on session s
    reasons,    \* reasons[r]: blocks for reason r
    breaches,   \* breaches[p]: violations of policy p
    substitutions,  \* plans presented that were not the ticket's
    reportAt,   \* "reading", "folding" or "done"
    top         \* the policies, the most violated first

reportVars == <<lines, query, pending, accounts, reasons, breaches, substitutions,
                reportAt, top>>

-----------------------------------------------------------------------------
Reasons == {e.reason : e \in Events}
PolicyIds == UNION {e.policies : e \in Events}

\* The counters of a session, each with the events it counts.
Counted == [turns |-> {"plan.locked"}, intents |-> {"intent.declared"},
            rejected |-> {"plan.rejected"}, conflicts |-> {"plan.conflict"},
            blocks |-> {"guard.block"}, allows |-> {"guard.allow"},
            verifies |-> {"changeset.ok", "changeset.rejected", "verify.run"}]

Zero == [counts |-> [c \in DOMAIN Counted |-> 0], run |-> 0, longest |-> 0, flags |-> {}]
One(condition) == IF condition THEN 1 ELSE 0
If(condition, flag) == IF condition THEN {flag} ELSE {}

\* runReport's filters; that -session may be a prefix is left out.
Asked(e) == e.time >= query.since /\ query.session \in {"any", e.session}
Chosen == {i \in DOMAIN lines : Asked(lines[i])}

\* Slip: the events are taken in the order of the journal.
AsWritten(chosen) ==
    CHOOSE order \in [1 .. Cardinality(chosen) -> chosen] :
        \A m, n \in DOMAIN order : m < n => order[m] < order[n]

\* slices.SortStableFunc by time: events of the same time stay as they were.
Sooner(i, j) == lines[i].time < lines[j].time \/ (lines[i].time = lines[j].time /\ i < j)
InTime(chosen) ==
    CHOOSE order \in [1 .. Cardinality(chosen) -> chosen] :
        \A m, n \in DOMAIN order : m < n => Sooner(order[m], order[n])

\* The policies, the most violated first; the order of those that tie is left open.
MostViolated(ids) ==
    CHOOSE order \in Injection(1 .. Cardinality(ids), ids) :
        \A m, n \in DOMAIN order : m < n => breaches[order[m]] >= breaches[order[n]]

Bypass == {"session_mismatch", "ticket_rejected"}
Attributed == {"plan.rejected", "plan.conflict", "artifact.rejected", "changeset.rejected"}

\* The flags that one event shows by itself.
Shows(e) ==
    If(e.name = "plan.conflict", "conflict")
    \cup If(e.name = "plan.substitution", "substitution")
    \cup If(e.name = "guard.block" /\ e.reason \in Bypass, "bypass?")
    \cup If(e.name = "verify.run" /\ e.outcome = "error", "unverified-window")

\* One event on its session's report.
Account(a, e) ==
    LET run == IF e.name = "plan.locked" THEN 0 ELSE a.run + One(e.name = "plan.rejected")
    IN [counts |-> [c \in DOMAIN Counted |-> a.counts[c] + One(e.name \in Counted[c])],
        run |-> run,
        longest |-> IF run > a.longest THEN run ELSE a.longest,
        flags |-> a.flags \cup Shows(e)
            \cup If(e.name = "plan.locked" /\ a.counts.turns >= 1, "re-locked")]

ReportInit ==
    /\ \E n \in 0 .. MaxEvents : lines \in [1 .. n -> Events]
    /\ query \in Queries
    /\ pending = <<>>
    /\ accounts = [s \in Reported |-> Zero]
    /\ reasons = [r \in Reasons |-> 0]
    /\ breaches = [p \in PolicyIds |-> 0]
    /\ substitutions = 0
    /\ reportAt = "reading"
    /\ top = <<>>

\* runReport, up to the fold: the filters, then the sort.
ReadEvents ==
    /\ reportAt = "reading"
    /\ pending' = InTime(Chosen)
    /\ reportAt' = IF pending' = <<>> THEN "done" ELSE "folding"
    /\ UNCHANGED <<lines, query, accounts, reasons, breaches, substitutions, top>>

\* aggregate, one event.
CountEvent ==
    /\ reportAt = "folding"
    /\ pending # <<>>
    /\ LET e == lines[Head(pending)] IN
       /\ accounts' = [accounts EXCEPT ![e.session] = Account(@, e)]
       /\ reasons' = [r \in Reasons |->
                         reasons[r] + One(e.name = "guard.block" /\ e.reason = r)]
       /\ breaches' = [p \in PolicyIds |->
                          breaches[p] + One(e.name \in Attributed /\ p \in e.policies)]
       /\ substitutions' = substitutions + One(e.name = "plan.substitution")
    /\ pending' = Tail(pending)
    /\ UNCHANGED <<lines, query, reportAt, top>>

\* aggregate, after the last: the sessions asked twice, and the order of the policies.
Summarize ==
    /\ reportAt = "folding"
    /\ pending = <<>>
    /\ accounts' = [s \in Reported |->
                       [accounts[s] EXCEPT !.flags = @ \cup If(accounts[s].longest >= 2,
                                                               "asked-twice")]]
    /\ top' = MostViolated({p \in PolicyIds : breaches[p] > 0})
    /\ reportAt' = "done"
    /\ UNCHANGED <<lines, query, pending, reasons, breaches, substitutions>>

ReportNext == ReadEvents \/ CountEvent \/ Summarize

ReportSpec == ReportInit /\ [][ReportNext]_reportVars

-----------------------------------------------------------------------------
(* Properties. *)

\* The events of a session asked for.
Of(s) == {i \in Chosen : lines[i].session = s}
Numbered(s, names) == Cardinality({i \in Of(s) : lines[i].name \in names})

\* The rejections among some events of one session with no plan locked in between.
Runs(events) ==
    {R \in SUBSET {i \in events : lines[i].name = "plan.rejected"} :
        ~\E i, k \in R, j \in events :
            Sooner(i, j) /\ Sooner(j, k) /\ lines[j].name = "plan.locked"}
Streaks(s) == Runs(Of(s))

\* The report says what its header comment defines, whatever order the five writers'
\* lines came in: asked twice is two rejections of one session with no lock in between,
\* the longest run the greatest number of such, re-locked two locks; a session shows a
\* conflict, a substitution, a bypass or an unverified window when one of its events
\* does, and only then; each counter counts its events, all of them and once, and so do
\* the substitutions, the blocks of each reason (the guards' events) and the violations of
\* each policy (the server's).
ReportSays ==
    reportAt = "done" =>
        /\ \A s \in Reported :
              LET has == accounts[s] IN
              /\ has.counts.turns = Numbered(s, {"plan.locked"})
              /\ has.counts.intents = Numbered(s, {"intent.declared"})
              /\ has.counts.rejected = Numbered(s, {"plan.rejected"})
              /\ has.counts.conflicts = Numbered(s, {"plan.conflict"})
              /\ has.counts.blocks = Numbered(s, {"guard.block"})
              /\ has.counts.allows = Numbered(s, {"guard.allow"})
              /\ has.counts.verifies =
                    Numbered(s, {"changeset.ok", "changeset.rejected", "verify.run"})
              /\ \A R \in Streaks(s) : Cardinality(R) <= has.longest
              /\ has.longest \in {Cardinality(R) : R \in Streaks(s)}
              /\ "asked-twice" \in has.flags <=> \E R \in Streaks(s) : Cardinality(R) = 2
              /\ "re-locked" \in has.flags <=> Numbered(s, {"plan.locked"}) >= 2
              /\ "conflict" \in has.flags <=> \E i \in Of(s) : lines[i].name = "plan.conflict"
              /\ "substitution" \in has.flags <=>
                    \E i \in Of(s) : lines[i].name = "plan.substitution"
              /\ "bypass?" \in has.flags <=>
                    \E i \in Of(s) : lines[i].name = "guard.block" /\ lines[i].reason \in Bypass
              /\ "unverified-window" \in has.flags <=>
                    \E i \in Of(s) : lines[i].name = "verify.run" /\ lines[i].outcome = "error"
        /\ substitutions = Cardinality({i \in Chosen : lines[i].name = "plan.substitution"})
        /\ \A r \in Reasons :
              reasons[r] = Cardinality({i \in Chosen :
                  lines[i].name = "guard.block" /\ lines[i].reason = r})
        /\ \A p \in PolicyIds :
              breaches[p] = Cardinality({i \in Chosen :
                  lines[i].name \in Attributed /\ p \in lines[i].policies})
        /\ \A i, j \in DOMAIN top : i < j => breaches[top[i]] >= breaches[top[j]]

\* Why: the lines still to be counted are in the order of time, after all those counted;
Taken == Chosen \ {pending[k] : k \in DOMAIN pending}
TakenInTime ==
    /\ lines \in Seq(Events) /\ query \in Queries
    /\ reportAt \in {"reading", "folding", "done"}
    /\ reportAt # "reading" =>
          /\ pending \in Seq(Chosen)
          /\ \A m, n \in DOMAIN pending : m < n => Sooner(pending[m], pending[n])
          /\ \A i \in Taken, n \in DOMAIN pending : Sooner(i, pending[n])
    /\ reportAt = "done" => pending = <<>>

\* each account says of the lines counted what it will say of all of them, the run under
\* way being the rejections since the last lock;
TakenOf(s) == {i \in Taken : lines[i].session = s}
UnderWay(events) ==
    {i \in events : /\ lines[i].name = "plan.rejected"
                    /\ ~\E j \in events : Sooner(i, j) /\ lines[j].name = "plan.locked"}
AccountOf(has, events) ==
    /\ DOMAIN has = DOMAIN Zero /\ DOMAIN has.counts = DOMAIN Counted
    /\ \A c \in DOMAIN Counted :
          has.counts[c] = Cardinality({i \in events : lines[i].name \in Counted[c]})
    /\ has.run = Cardinality(UnderWay(events))
    /\ \A R \in Runs(events) : Cardinality(R) <= has.longest
    /\ \E R \in Runs(events) : Cardinality(R) = has.longest
    /\ "re-locked" \in has.flags <=> has.counts.turns >= 2
    /\ \A flag \in {"conflict", "substitution", "bypass?", "unverified-window"} :
          flag \in has.flags <=> \E i \in events : flag \in Shows(lines[i])
Breaching(p, events) == {i \in events : lines[i].name \in Attributed /\ p \in lines[i].policies}
Blocking(r, events) == {i \in events : lines[i].name = "guard.block" /\ lines[i].reason = r}
Substituting(events) == {i \in events : lines[i].name = "plan.substitution"}
Accounted ==
    /\ DOMAIN accounts = Reported /\ DOMAIN breaches = PolicyIds /\ DOMAIN reasons = Reasons
    /\ \A s \in Reported : "asked-twice" \in accounts[s].flags <=>
                             reportAt = "done" /\ accounts[s].longest >= 2
    /\ IF reportAt = "reading"
       THEN /\ \A s \in Reported : accounts[s] = Zero
            /\ \A p \in PolicyIds : breaches[p] = 0
            /\ \A r \in Reasons : reasons[r] = 0
            /\ substitutions = 0
            /\ top = <<>>
       ELSE /\ \A s \in Reported : AccountOf(accounts[s], TakenOf(s))
            /\ \A p \in PolicyIds : breaches[p] = Cardinality(Breaching(p, Taken))
            /\ \A r \in Reasons : reasons[r] = Cardinality(Blocking(r, Taken))
            /\ substitutions = Cardinality(Substituting(Taken))

\* and the policies come last.
MostViolatedFirst ==
    reportAt = "done" => \A i, j \in DOMAIN top : i < j => breaches[top[i]] >= breaches[top[j]]

ReportInv == TakenInTime /\ Accounted /\ MostViolatedFirst

=============================================================================
