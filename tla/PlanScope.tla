----------------------------- MODULE PlanScope -----------------------------
(***************************************************************************)
(* The scope of a plan: how it is derived from the targets of the steps    *)
(* (internal/ticket), how a target that would grant everything is refused  *)
(* when the plan is locked (internal/linter), and how a changed path is    *)
(* matched against the scope when it is used (internal/smarttools).        *)
(*                                                                         *)
(* A path is the sequence of its segments, split at every slash: an empty  *)
(* first segment of several is a leading slash, an empty last one a        *)
(* trailing slash.  Stars are kept apart from the name they end; white     *)
(* space around a target is left out.                                      *)
(***************************************************************************)
EXTENDS Naturals, Sequences, SequencesExt

\* Every ".." is a string, but to the provers.
Segments == [name : STRING \cup {".."}, stars : Nat]
Written == Seq(Segments) \ {<<>>}

Seg(name, stars) == [name |-> name, stars |-> stars]
Named(name) == Seg(name, 0)
Up == Named("..")

Rooted(path) == Len(path) > 1 /\ path[1] = Named("")

\* One more segment on a path that is clean already.
Descend(clean, seg, rooted) ==
    IF seg \in {Named(""), Named(".")} THEN clean
    ELSE IF seg # Up THEN Append(clean, seg)
    ELSE IF clean # <<>> /\ Last(clean) # Up THEN Front(clean)
    ELSE IF rooted THEN <<>> ELSE Append(clean, Up)

\* filepath.Clean: what is left of a path, segment by segment, once "", "." and ".." are
\* worked off; the path "." is no segments at all.
Walked(path, rooted) ==
    LET walked[i \in 0 .. Len(path)] ==
            IF i = 0 THEN <<>> ELSE Descend(walked[i - 1], path[i], rooted)
    IN walked

Clean(path) == [rooted |-> Rooted(path), segs |-> Walked(path, Rooted(path))[Len(path)]]

Dot == [rooted |-> FALSE, segs |-> <<>>]
Slash == [rooted |-> TRUE, segs |-> <<>>]

\* The target with its last segment's stars replaced.
WithStars(target, n) == [target EXCEPT ![Len(target)].stars = n]
Stars(target) == Last(target).stars

\* isWideTarget: with every trailing star gone, the target is nothing, the root, the
\* repository, or starts above it.
isWideTarget(target) ==
    LET clean == Clean(WithStars(target, 0)) IN
    \/ clean \in {Dot, Slash}
    \/ ~clean.rooted /\ clean.segs[1] = Up

\* DeriveScope: the targets of all steps, each once.
DeriveScope(steps) == UNION {steps[i] : i \in DOMAIN steps}

\* One entry of targetAllowed: it loses one trailing star, and then allows itself
\* and what lies under it.
Grants(entry, target) ==
    LET base == Clean(WithStars(entry, IF Stars(entry) > 0 THEN Stars(entry) - 1 ELSE 0))
        path == Clean(target)
    IN
    \/ base = Dot
    \/ base = path
    \/ base # Slash /\ base.rooted = path.rooted /\ IsStrictPrefix(base.segs, path.segs)

targetAllowed(target, allowed) == \E entry \in allowed : Grants(entry, target)

=============================================================================
