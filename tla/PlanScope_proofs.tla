-------------------------- MODULE PlanScope_proofs --------------------------
(***************************************************************************)
(* Lemmas about the scope of a plan: what cleaning a path does to it, and  *)
(* what an entry of a scope can grant.  They hold for paths of any length; *)
(* induction is by the least element of a set of naturals.                 *)
(***************************************************************************)
EXTENDS PlanScope, WellFoundedInduction, TLAPS

\* A set of naturals has a least element,
LEMMA Least ==
    ASSUME NEW S \in SUBSET Nat, S # {}
    PROVE  \E x \in S : \A y \in S : ~(y < x)
  <1>1. IsWellFoundedOn(OpToRel(<, Nat), Nat)
    BY NatLessThanWellFounded
  <1>2. PICK x \in S : \A y \in S : ~(<<y, x>> \in OpToRel(<, Nat))
    BY <1>1, WFMin
  <1>3. \A y \in S : y < x => <<y, x>> \in OpToRel(<, Nat)
    BY DEF OpToRel
  <1>. QED BY <1>2, <1>3

\* and so one that holds 0 and the successors of its elements holds them all.
LEMMA Induction ==
    ASSUME NEW S \in SUBSET Nat, 0 \in S, \A n \in S : n + 1 \in S
    PROVE  S = Nat
  <1>1. SUFFICES ASSUME Nat \ S # {} PROVE FALSE
    OBVIOUS
  <1>2. PICK x \in Nat \ S : \A y \in Nat \ S : ~(y < x)
    BY <1>1, Least
  <1>3. x - 1 \in Nat /\ x - 1 < x
    BY <1>2
  <1>4. x - 1 \in S
    BY <1>2, <1>3
  <1>. QED BY <1>2, <1>4

-----------------------------------------------------------------------------
\* The walk over a path is what its definition says of it.
LEMMA WalkIs ==
    ASSUME NEW path, Len(path) \in Nat, NEW rooted
    PROVE  /\ Walked(path, rooted)[0] = <<>>
           /\ \A i \in 1 .. Len(path) :
                 Walked(path, rooted)[i] = Descend(Walked(path, rooted)[i - 1], path[i], rooted)
  <1>. DEFINE Walks(f, n) ==
                f = [i \in 0 .. n |-> IF i = 0 THEN <<>> ELSE Descend(f[i - 1], path[i], rooted)]
              Long == {n \in Nat : \E f : Walks(f, n)}
  <1>1. 0 \in Long
    <2>1. Walks([i \in 0 .. 0 |-> <<>>], 0)
      OBVIOUS
    <2>. QED BY <2>1
  <1>2. ASSUME NEW n \in Long
        PROVE  n + 1 \in Long
    <2>1. PICK f : Walks(f, n)
      OBVIOUS
    <2>. DEFINE g == [i \in 0 .. n + 1 |-> IF i = n + 1 THEN Descend(f[n], path[i], rooted)
                                           ELSE f[i]]
    <2>2. ASSUME NEW i \in 0 .. n + 1
          PROVE  g[i] = IF i = 0 THEN <<>> ELSE Descend(g[i - 1], path[i], rooted)
      <3>1. CASE i = n + 1
        BY <3>1
      <3>2. CASE i = 0
        BY <2>1, <3>2
      <3>3. CASE i \in 1 .. n
        BY <2>1, <3>3
      <3>. QED BY <3>1, <3>2, <3>3
    <2>3. Walks(g, n + 1)
      BY <2>2
    <2>. HIDE DEF Walks, g
    <2>. QED BY <2>3
  <1>3. \E f : Walks(f, Len(path))
    <2>. HIDE DEF Walks
    <2>1. Long \in SUBSET Nat
      OBVIOUS
    <2>2. Long = Nat
      BY <1>1, <1>2, <2>1, Induction
    <2>. QED BY <2>2
  <1>4. Walks(Walked(path, rooted), Len(path))
    BY <1>3 DEF Walked
  <1>. QED BY <1>4

LEMMA DescendType ==
    ASSUME NEW clean \in Seq(Segments), NEW seg \in Segments, NEW rooted
    PROVE  Descend(clean, seg, rooted) \in Seq(Segments)
  <1>1. Up \in Segments
    BY DEF Up, Named, Seg, Segments
  <1>2. Append(clean, seg) \in Seq(Segments) /\ Append(clean, Up) \in Seq(Segments)
    BY <1>1
  <1>3. clean # <<>> => Front(clean) \in Seq(Segments)
    BY DEF Front
  <1>4. <<>> \in Seq(Segments)
    OBVIOUS
  <1>. QED BY <1>2, <1>3, <1>4 DEF Descend

LEMMA WalkType ==
    ASSUME NEW path \in Seq(Segments), NEW rooted, NEW n \in 0 .. Len(path)
    PROVE  Walked(path, rooted)[n] \in Seq(Segments)
  <1>. DEFINE Good == {i \in Nat : i <= Len(path) => Walked(path, rooted)[i] \in Seq(Segments)}
  <1>. Len(path) \in Nat
    OBVIOUS
  <1>1. 0 \in Good
    <2>1. Walked(path, rooted)[0] = <<>>
      BY WalkIs
    <2>2. Walked(path, rooted)[0] \in Seq(Segments)
      BY <2>1
    <2>. QED BY <2>2
  <1>2. ASSUME NEW i \in Good
        PROVE  i + 1 \in Good
    <2>1. CASE i + 1 <= Len(path)
      <3>1. Walked(path, rooted)[i] \in Seq(Segments) /\ path[i + 1] \in Segments
        BY <2>1
      <3>2. Walked(path, rooted)[i + 1] = Descend(Walked(path, rooted)[i], path[i + 1], rooted)
        BY <2>1, WalkIs
      <3>. QED BY <3>1, <3>2, DescendType
    <2>. QED BY <2>1
  <1>3. Good = Nat
    <2>1. Good \in SUBSET Nat
      OBVIOUS
    <2>. HIDE DEF Good
    <2>. QED BY <1>1, <1>2, <2>1, Induction
  <1>. QED BY <1>3

LEMMA CleanType ==
    ASSUME NEW path \in Seq(Segments)
    PROVE  Clean(path).segs \in Seq(Segments) /\ Clean(path).rooted = Rooted(path)
  <1>1. Walked(path, Rooted(path))[Len(path)] \in Seq(Segments)
    BY WalkType
  <1>. QED BY <1>1 DEF Clean

LEMMA WithStarsType ==
    ASSUME NEW t \in Written, NEW n \in Nat
    PROVE  /\ WithStars(t, n) \in Written
           /\ Len(WithStars(t, n)) = Len(t)
           /\ \A i \in 1 .. Len(t) - 1 : WithStars(t, n)[i] = t[i]
           /\ WithStars(t, n)[Len(t)] = Seg(t[Len(t)].name, n)
           /\ Stars(t) \in Nat
  <1>1. t \in Seq(Segments) /\ t # <<>>
    BY DEF Written
  <1>2. Len(t) \in 1 .. Len(t) /\ t[Len(t)] \in Segments
    BY <1>1
  <1>3. WithStars(t, n) = [t EXCEPT ![Len(t)] = Seg(t[Len(t)].name, n)]
    <2>1. [t[Len(t)] EXCEPT !.stars = n] = Seg(t[Len(t)].name, n)
      BY <1>2 DEF Seg, Segments
    <2>. QED BY <2>1 DEF WithStars
  <1>4. Seg(t[Len(t)].name, n) \in Segments
    BY <1>2 DEF Seg, Segments
  <1>5. [t EXCEPT ![Len(t)] = Seg(t[Len(t)].name, n)] \in Seq(Segments)
    BY <1>1, <1>4
  <1>6. Stars(t) \in Nat
    BY <1>2 DEF Stars, Last, Segments
  <1>. QED BY <1>1, <1>2, <1>3, <1>4, <1>5, <1>6 DEF Written

-----------------------------------------------------------------------------
(* What a target that is not wide can grant. *)

\* A segment with a star at its end is no special one: it is kept.
LEMMA StarredKept ==
    ASSUME NEW t \in Written, NEW n \in Nat \ {0}
    PROVE  /\ Clean(WithStars(t, n)).segs =
                Append(Walked(WithStars(t, n), Rooted(WithStars(t, n)))[Len(t) - 1],
                       Seg(t[Len(t)].name, n))
           /\ Clean(WithStars(t, n)).segs # <<>>
  <1>. DEFINE s == WithStars(t, n)
              before == Walked(s, Rooted(s))[Len(t) - 1]
              seg == Seg(t[Len(t)].name, n)
  <1>1. s \in Seq(Segments) /\ Len(s) = Len(t) /\ s[Len(t)] = seg /\ Len(t) \in Nat \ {0}
    BY WithStarsType DEF Written
  <1>2. Clean(s).segs = Descend(before, seg, Rooted(s))
    BY <1>1, WalkIs DEF Clean
  <1>3. seg # Up /\ seg \notin {Named(""), Named(".")}
    BY DEF Seg, Up, Named
  <1>4. Clean(s).segs = Append(before, seg)
    BY <1>2, <1>3 DEF Descend
  <1>5. before \in Seq(Segments)
    BY <1>1, WalkType
  <1>. QED BY <1>4, <1>5

\* The lock looks at a target without its stars, and the use at one with a star less.
\* None that passed the one is the whole repository to the other.
LEMMA NeverDot ==
    ASSUME NEW t \in Written, ~isWideTarget(t), NEW n \in Nat
    PROVE  Clean(WithStars(t, n)) # Dot
  <1>1. CASE n = 0
    BY <1>1 DEF isWideTarget
  <1>2. CASE n # 0
    BY <1>2, StarredKept DEF Dot
  <1>. QED BY <1>1, <1>2

\* A path of one segment is clean as it is, or nothing.
LEMMA TopClean ==
    ASSUME NEW p \in Written, Len(p) = 1
    PROVE  Clean(p).rooted = FALSE /\ Clean(p).segs \in Seq(Segments) /\ Len(Clean(p).segs) <= 1
  <1>1. p \in Seq(Segments) /\ p[1] \in Segments
    BY DEF Written
  <1>2. Rooted(p) = FALSE
    BY DEF Rooted
  <1>3. Clean(p).segs = Descend(<<>>, p[1], FALSE)
    <2>1. Len(p) \in Nat /\ 1 \in 1 .. Len(p)
      OBVIOUS
    <2>2. Walked(p, FALSE)[0] = <<>>
      BY <2>1, WalkIs
    <2>3. Walked(p, FALSE)[1] = Descend(Walked(p, FALSE)[1 - 1], p[1], FALSE)
      BY <2>1, WalkIs
    <2>4. Clean(p).segs = Walked(p, FALSE)[1]
      BY <1>2 DEF Clean
    <2>5. 1 - 1 = 0
      OBVIOUS
    <2>. QED BY <2>2, <2>3, <2>4, <2>5, Zenon
  <1>4. Descend(<<>>, p[1], FALSE) \in {<<>>, <<p[1]>>, <<Up>>}
    BY DEF Descend
  <1>5. Clean(p).segs \in Seq(Segments) /\ Clean(p).rooted = Rooted(p)
    BY <1>1, CleanType
  <1>6. Len(Clean(p).segs) <= 1
    <2>1. PICK c : c = Clean(p).segs /\ c \in {<<>>, <<p[1]>>, <<Up>>}
      BY <1>3, <1>4, Zenon
    <2>2. Len(<<>>) <= 1 /\ \A seg : Len(<<seg>>) <= 1
      OBVIOUS
    <2>. QED BY <2>1, <2>2, Zenon
  <1>. QED BY <1>2, <1>5, <1>6

\* So a target that is not wide grants a path of one segment only by naming it.
LEMMA GrantsTop ==
    ASSUME NEW t \in Written, ~isWideTarget(t), NEW p \in Written, Len(p) = 1, Grants(t, p)
    PROVE  \E n \in 0 .. Stars(t) : Clean(WithStars(t, n)) = Clean(p)
  <1>. DEFINE n == IF Stars(t) > 0 THEN Stars(t) - 1 ELSE 0
              base == Clean(WithStars(t, n))
  <1>1. Stars(t) \in Nat
    BY WithStarsType
  <1>2. n \in 0 .. Stars(t)
    BY <1>1
  <1>3. WithStars(t, n) \in Seq(Segments) /\ base # Dot
    BY <1>2, NeverDot, WithStarsType DEF Written
  <1>4. base.segs \in Seq(Segments) /\ base = [rooted |-> base.rooted, segs |-> base.segs]
    BY <1>3, CleanType DEF Clean
  <1>5. ~(base.rooted = Clean(p).rooted /\ IsStrictPrefix(base.segs, Clean(p).segs))
    <2>1. SUFFICES ASSUME base.rooted = FALSE, Len(base.segs) <= Len(Clean(p).segs),
                          SubSeq(base.segs, 1, Len(base.segs)) = SubSeq(Clean(p).segs, 1, Len(base.segs)),
                          base.segs # Clean(p).segs
                   PROVE  FALSE
      BY TopClean DEF IsStrictPrefix, IsPrefix
    <2>2. base.segs # <<>>
      BY <1>3, <1>4, <2>1 DEF Dot
    <2>3. PICK b \in Seq(Segments), c \in Seq(Segments) :
              /\ Len(b) <= Len(c) /\ SubSeq(b, 1, Len(b)) = SubSeq(c, 1, Len(b))
              /\ b # c /\ b # <<>> /\ Len(c) <= 1
      BY <1>4, <2>1, <2>2, TopClean
    <2>4. Len(b) = 1 /\ Len(c) = 1
      BY <2>3
    <2>. QED BY <2>3, <2>4
  <1>6. base = Clean(p)
    BY <1>3, <1>5 DEF Grants
  <1>. QED BY <1>2, <1>6

-----------------------------------------------------------------------------
(* Paths that climb: those that start with "..". *)

Climbs(segs) == segs # <<>> /\ segs[1] = Up

\* Two paths that start alike are walked alike.
LEMMA WalkAgrees ==
    ASSUME NEW p \in Seq(Segments), NEW q \in Seq(Segments), NEW rooted,
           NEW n \in Nat, n <= Len(p), n <= Len(q), \A i \in 1 .. n : p[i] = q[i]
    PROVE  Walked(p, rooted)[n] = Walked(q, rooted)[n]
  <1>. DEFINE Good == {i \in Nat : i <= n => Walked(p, rooted)[i] = Walked(q, rooted)[i]}
  <1>. Len(p) \in Nat /\ Len(q) \in Nat
    OBVIOUS
  <1>1. 0 \in Good
    <2>1. Walked(p, rooted)[0] = <<>> /\ Walked(q, rooted)[0] = <<>>
      BY WalkIs
    <2>. QED BY <2>1
  <1>2. ASSUME NEW i \in Good
        PROVE  i + 1 \in Good
    <2>1. CASE i + 1 <= n
      <3>1. Walked(p, rooted)[i] = Walked(q, rooted)[i] /\ p[i + 1] = q[i + 1]
        BY <2>1
      <3>2. /\ Walked(p, rooted)[i + 1] = Descend(Walked(p, rooted)[i], p[i + 1], rooted)
            /\ Walked(q, rooted)[i + 1] = Descend(Walked(q, rooted)[i], q[i + 1], rooted)
        BY <2>1, WalkIs
      <3>. QED BY <3>1, <3>2
    <2>. QED BY <2>1
  <1>3. Good = Nat
    <2>1. Good \in SUBSET Nat
      OBVIOUS
    <2>. HIDE DEF Good
    <2>. QED BY <1>1, <1>2, <2>1, Induction
  <1>. QED BY <1>3

\* What climbs out of where it starts never comes back.
LEMMA ClimbsOn ==
    ASSUME NEW clean \in Seq(Segments), NEW seg \in Segments, NEW rooted, ~rooted,
           clean # <<>>, clean[1] = Up, NEW next, next = Descend(clean, seg, rooted)
    PROVE  next # <<>> /\ next[1] = Up
  <1>1. Up \in Segments
    BY DEF Up, Named, Seg, Segments
  <1>2. \A s \in Segments : Append(clean, s) # <<>> /\ Append(clean, s)[1] = Up
    OBVIOUS
  <1>3. Last(clean) # Up => Front(clean) # <<>> /\ Front(clean)[1] = Up
    <2>1. SUFFICES ASSUME clean[Len(clean)] # Up
                   PROVE  /\ SubSeq(clean, 1, Len(clean) - 1) # <<>>
                          /\ SubSeq(clean, 1, Len(clean) - 1)[1] = Up
      BY DEF Last, Front
    <2>2. Len(clean) \in Nat /\ Len(clean) > 1
      BY <2>1
    <2>3. Len(SubSeq(clean, 1, Len(clean) - 1)) # 0
      BY <2>2
    <2>4. SubSeq(clean, 1, Len(clean) - 1)[1] = clean[1]
      BY <2>2
    <2>5. Len(<<>>) = 0
      OBVIOUS
    <2>. QED BY <2>3, <2>4, <2>5, Zenon
  <1>. QED BY <1>1, <1>2, <1>3 DEF Descend

\* So a path that starts with ".." climbs.
LEMMA ClimbingPath ==
    ASSUME NEW path \in Seq(Segments), path # <<>>, path[1] = Up
    PROVE  ~Rooted(path) /\ Climbs(Clean(path).segs)
  <1>1. ~Rooted(path)
    <2>1. Up # Named("")
      BY DEF Up, Named, Seg
    <2>. QED BY <2>1 DEF Rooted
  <1>2. SUFFICES ASSUME NEW rooted, ~rooted
                 PROVE  Walked(path, rooted)[Len(path)] # <<>> /\ Walked(path, rooted)[Len(path)][1] = Up
    BY <1>1, Zenon DEF Clean, Climbs
  <1>. DEFINE w == Walked(path, rooted)
              Good == {i \in Nat : i < Len(path) => w[i + 1] # <<>> /\ w[i + 1][1] = Up}
  <1>. Len(path) \in Nat /\ Len(path) > 0
    OBVIOUS
  <1>3. 0 \in Good
    <2>1. w[0] = <<>> /\ w[1] = Descend(w[1 - 1], path[1], rooted)
      BY WalkIs
    <2>2. w[1] = Descend(<<>>, Up, rooted)
      BY <2>1, 1 - 1 = 0, Zenon
    <2>3. Descend(<<>>, Up, rooted) = Append(<<>>, Up)
      <3>1. Up \notin {Named(""), Named(".")}
        BY DEF Up, Named, Seg
      <3>. QED BY <1>2, <3>1, Zenon DEF Descend
    <2>4. Append(<<>>, Up) # <<>> /\ Append(<<>>, Up)[1] = Up
      OBVIOUS
    <2>. QED BY <2>2, <2>3, <2>4
  <1>4. ASSUME NEW i \in Good
        PROVE  i + 1 \in Good
    <2>1. CASE i + 1 < Len(path)
      <3>1. w[i + 1] # <<>> /\ w[i + 1][1] = Up /\ path[i + 2] \in Segments
        BY <2>1
      <3>2. w[i + 1] \in Seq(Segments)
        BY <2>1, WalkType
      <3>3. w[i + 2] = Descend(w[i + 1], path[i + 2], rooted)
        BY <2>1, WalkIs
      <3>4. w[i + 2] # <<>> /\ w[i + 2][1] = Up
        BY <1>2, <3>1, <3>2, <3>3, ClimbsOn
      <3>. QED BY <3>4
    <2>. QED BY <2>1
  <1>5. Good = Nat
    <2>1. Good \in SUBSET Nat
      OBVIOUS
    <2>. HIDE DEF Good
    <2>. QED BY <1>3, <1>4, <2>1, Induction
  <1>. QED
    <2>1. Len(path) - 1 \in Good
      BY <1>5
    <2>. QED BY <2>1

\* A target that is not wide does not climb, whatever is left of its stars.
LEMMA NeverUp ==
    ASSUME NEW t \in Written, ~isWideTarget(t), NEW n \in Nat
    PROVE  ~(~Clean(WithStars(t, n)).rooted /\ Climbs(Clean(WithStars(t, n)).segs))
  <1>. DEFINE bare == WithStars(t, 0)
              s == WithStars(t, n)
  <1>1. ~(~Clean(bare).rooted /\ Climbs(Clean(bare).segs))
    BY DEF isWideTarget, Climbs
  <1>2. /\ bare \in Seq(Segments) /\ s \in Seq(Segments) /\ t \in Seq(Segments)
        /\ Len(bare) = Len(t) /\ Len(s) = Len(t) /\ Len(t) \in Nat /\ Len(t) > 0
        /\ \A i \in 1 .. Len(t) - 1 : bare[i] = s[i]
    BY WithStarsType DEF Written
  <1>3. Rooted(bare) = Rooted(s)
    <2>1. CASE Len(t) > 1
      <3>1. bare[1] = s[1]
        BY <1>2, <2>1
      <3>. QED BY <1>2, <3>1, Zenon DEF Rooted
    <2>2. CASE ~(Len(t) > 1)
      BY <1>2, <2>2, Zenon DEF Rooted
    <2>. QED BY <2>1, <2>2
  <1>4. ASSUME n # 0, ~Rooted(s), Clean(s).segs # <<>>, Clean(s).segs[1] = Up
        PROVE  FALSE
    <2>. DEFINE before == Walked(s, Rooted(s))[Len(t) - 1]
                seg == Seg(t[Len(t)].name, n)
    <2>1. Clean(s).segs = Append(before, seg)
      BY <1>4, StarredKept
    <2>2. before \in Seq(Segments)
      BY <1>2, WalkType
    <2>3. seg # Up
      BY <1>4 DEF Seg, Up, Named
    <2>4. before # <<>> /\ before[1] = Up
      <3>. HIDE DEF before, seg
      <3>. QED BY <1>4, <2>1, <2>2, <2>3
    <2>5. Walked(bare, Rooted(s))[Len(t) - 1] = before
      BY <1>2, WalkAgrees
    <2>6. Clean(bare).segs = Descend(before, bare[Len(t)], Rooted(s))
      BY <1>2, <1>3, <2>5, WalkIs DEF Clean
    <2>7. bare[Len(t)] \in Segments
      BY <1>2
    <2>8. Climbs(Clean(bare).segs)
      BY <1>4, <2>2, <2>4, <2>6, <2>7, ClimbsOn DEF Climbs
    <2>. QED BY <1>1, <1>3, <1>4, <2>8 DEF Clean
  <1>. QED BY <1>1, <1>4 DEF Climbs, Clean

\* So no such target grants what climbs.
LEMMA ClimbingRefused ==
    ASSUME NEW t \in Written, ~isWideTarget(t), NEW p \in Seq(Segments), Climbs(p)
    PROVE  ~Grants(t, p)
  <1>. DEFINE n == IF Stars(t) > 0 THEN Stars(t) - 1 ELSE 0
              base == Clean(WithStars(t, n))
              path == Clean(p)
  <1>1. n \in Nat
    BY WithStarsType
  <1>2. base # Dot /\ ~(~base.rooted /\ Climbs(base.segs))
    BY <1>1, NeverDot, NeverUp
  <1>3. base.segs \in Seq(Segments) /\ base = [rooted |-> base.rooted, segs |-> base.segs]
    BY <1>1, WithStarsType, CleanType DEF Clean, Written
  <1>4. /\ path.segs \in Seq(Segments) /\ path.rooted = FALSE
        /\ path.segs # <<>> /\ path.segs[1] = Up
    BY ClimbingPath, CleanType DEF Climbs, Rooted
  <1>5. ASSUME base.rooted = path.rooted, IsStrictPrefix(base.segs, path.segs)
        PROVE  FALSE
    <2>1. base.segs # <<>>
      BY <1>2, <1>3, <1>4, <1>5 DEF Dot
    <2>2. PICK b \in Seq(Segments), c \in Seq(Segments) :
              /\ b = base.segs /\ c = path.segs
              /\ Len(b) <= Len(c) /\ SubSeq(b, 1, Len(b)) = SubSeq(c, 1, Len(b))
              /\ b # <<>> /\ c[1] = Up
      BY <1>3, <1>4, <1>5, <2>1, Zenon DEF IsStrictPrefix, IsPrefix
    <2>3. Len(b) >= 1 /\ SubSeq(b, 1, Len(b))[1] = b[1] /\ SubSeq(c, 1, Len(b))[1] = c[1]
      BY <2>2
    <2>4. b[1] = Up
      BY <2>2, <2>3, Zenon
    <2>. QED BY <1>2, <1>4, <1>5, <2>2, <2>4, Zenon DEF Climbs
  <1>6. base # path
    BY <1>2, <1>4, Zenon DEF Climbs
  <1>. QED BY <1>2, <1>5, <1>6, Zenon DEF Grants

-----------------------------------------------------------------------------
(* A path taken from a directory. *)

NoneUp(segs) == \A k \in 1 .. Len(segs) : segs[k] # Up

\* Where ".." is left of a path, it is left at its start.
LEMMA UpsFirst ==
    ASSUME NEW clean \in Seq(Segments), NEW seg \in Segments, NEW rooted, NoneUp(clean),
           NEW next, next = Descend(clean, seg, rooted)
    PROVE  NoneUp(next) \/ (next # <<>> /\ next[1] = Up)
  <1>1. CASE seg # Up
    <2>1. NoneUp(Append(clean, seg))
      BY <1>1 DEF NoneUp
    <2>. QED BY <1>1, <2>1, Zenon DEF Descend
  <1>2. CASE seg = Up
    <2>1. seg \notin {Named(""), Named(".")}
      BY <1>2 DEF Up, Named, Seg
    <2>2. CASE clean # <<>>
      <3>1. Last(clean) # Up
        BY <2>2 DEF NoneUp, Last
      <3>2. NoneUp(Front(clean))
        BY <2>2 DEF NoneUp, Front
      <3>. QED BY <1>2, <2>1, <2>2, <3>1, <3>2, Zenon DEF Descend
    <2>3. CASE clean = <<>>
      <3>1. NoneUp(<<>>) /\ Append(<<>>, Up) # <<>> /\ Append(<<>>, Up)[1] = Up
        BY DEF NoneUp
      <3>. QED BY <1>2, <2>1, <2>3, <3>1, Zenon DEF Descend
    <2>. QED BY <2>2, <2>3
  <1>. QED BY <1>1, <1>2

\* Below a directory a path is walked as it is by itself, unless it climbs out of it.
LEMMA DescendsAlike ==
    ASSUME NEW dir \in Seq(Segments), NEW clean \in Seq(Segments), NEW seg \in Segments,
           NoneUp(clean), NEW here, NEW alone, Descend(<<>>, Up, alone) = <<Up>>,
           NEW next, next = Descend(clean, seg, alone), next = <<>> \/ next[1] # Up
    PROVE  Descend(dir \o clean, seg, here) = dir \o next
  <1>1. CASE seg # Up
    <2>1. Append(dir \o clean, seg) = dir \o Append(clean, seg)
      OBVIOUS
    <2>. QED BY <1>1, <2>1, Zenon DEF Descend
  <1>2. CASE seg = Up
    <2>1. seg \notin {Named(""), Named(".")}
      BY <1>2 DEF Up, Named, Seg
    <2>2. clean # <<>>
      <3>1. <<Up>> # <<>> /\ <<Up>>[1] = Up
        OBVIOUS
      <3>. QED BY <1>2, <3>1
    <2>3. Last(clean) # Up /\ Last(dir \o clean) = Last(clean) /\ dir \o clean # <<>>
      BY <2>2 DEF NoneUp, Last
    <2>4. Front(dir \o clean) = dir \o Front(clean)
      BY <2>2 DEF Front
    <2>. QED BY <1>2, <2>1, <2>2, <2>3, <2>4, Zenon DEF Descend
  <1>. QED BY <1>1, <1>2

\* A path is walked below a directory as it is alone, unless it climbs.
LiesBelow(dir, p, here, alone) ==
    \/ Walked(p, alone)[Len(p)] # <<>> /\ Walked(p, alone)[Len(p)][1] = Up
    \/ Walked(dir \o p, here)[Len(dir) + Len(p)] =
           Walked(dir, here)[Len(dir)] \o Walked(p, alone)[Len(p)]

LEMMA WalkedBelow ==
    ASSUME NEW dir \in Seq(Segments), NEW p \in Seq(Segments), NEW here,
           NEW alone, Descend(<<>>, Up, alone) = <<Up>>
    PROVE  LiesBelow(dir, p, here, alone)
  <1>. DEFINE w == Walked(p, alone)
              v == Walked(dir \o p, here)
              d == Walked(dir, here)[Len(dir)]
              m == Len(dir)
              l == Len(p)
  <1>1. /\ l \in Nat /\ m \in Nat /\ dir \o p \in Seq(Segments)
        /\ Len(dir \o p) = m + l
        /\ \A i \in 1 .. m : (dir \o p)[i] = dir[i]
        /\ \A i \in 1 .. l : (dir \o p)[m + i] = p[i]
    OBVIOUS
  <1>2. /\ w[0] = <<>>
        /\ \A i \in 0 .. l : w[i] \in Seq(Segments)
        /\ \A i \in 0 .. l - 1 : w[i + 1] = Descend(w[i], p[i + 1], alone)
    <2>1. w[0] = <<>> /\ \A j \in 1 .. l : w[j] = Descend(w[j - 1], p[j], alone)
      BY <1>1, WalkIs, Zenon
    <2>2. ASSUME NEW i \in 0 .. l - 1
          PROVE  w[i + 1] = Descend(w[i], p[i + 1], alone)
      <3>1. i + 1 \in 1 .. l /\ (i + 1) - 1 = i
        BY <1>1
      <3>. QED BY <2>1, <3>1, Zenon
    <2>3. \A i \in 0 .. l : w[i] \in Seq(Segments)
      BY WalkType
    <2>. QED BY <2>1, <2>2, <2>3, Zenon
  <1>3. v[m] = d /\ d \in Seq(Segments)
    <2>1. Walked(dir \o p, here)[m] = Walked(dir, here)[m]
      <3>1. m <= Len(dir \o p) /\ m <= Len(dir)
        BY <1>1
      <3>. QED BY <1>1, <3>1, WalkAgrees, Zenon
    <2>2. m \in 0 .. Len(dir)
      BY <1>1
    <2>. QED BY <2>1, <2>2, WalkType, Zenon
  <1>4. ASSUME NEW i \in 0 .. l - 1
        PROVE  v[m + (i + 1)] = Descend(v[m + i], p[i + 1], here)
    <2>1. m + (i + 1) \in 1 .. Len(dir \o p) /\ (m + (i + 1)) - 1 = m + i /\ i + 1 \in 1 .. l
      BY <1>1
    <2>2. v[m + (i + 1)] = Descend(v[(m + (i + 1)) - 1], (dir \o p)[m + (i + 1)], here)
      <3>1. Len(dir \o p) \in Nat
        OBVIOUS
      <3>. QED BY <2>1, <3>1, WalkIs, Zenon
    <2>. QED BY <1>1, <2>1, <2>2, Zenon
  <1>5. \A i \in 0 .. l - 1 : p[i + 1] \in Segments
    BY <1>1
  <1>. DEFINE Out == {i \in 0 .. l : w[i] # <<>> /\ w[i][1] = Up}
              In == {i \in 0 .. l : NoneUp(w[i]) /\ v[m + i] = d \o w[i]}
              Good == {i \in Nat : i <= l => i \in Out \cup In}
  <1>. HIDE DEF w, v, d, m, l
  <1>6. 0 \in In
    <2>1. d \o <<>> = d /\ m + 0 = m
      BY <1>1, <1>3
    <2>2. NoneUp(<<>>)
      BY DEF NoneUp
    <2>3. 0 \in 0 .. l
      BY <1>1
    <2>. QED BY <1>2, <1>3, <2>1, <2>2, <2>3, Zenon
  <1>7. ASSUME NEW i \in 0 .. l - 1, i \in Out
        PROVE  i + 1 \in Out
    <2>1. i + 1 \in 0 .. l /\ i \in 0 .. l
      BY <1>1
    <2>2. w[i + 1] = Descend(w[i], p[i + 1], alone) /\ w[i] \in Seq(Segments)
      BY <1>2, <2>1
    <2>3. w[i] # <<>> /\ w[i][1] = Up
      BY <1>7, Zenon
    <2>4. w[i + 1] # <<>> /\ w[i + 1][1] = Up
      <3>1. p[i + 1] \in Segments
        BY <1>5
      <3>2. ~alone
        <4>1. Up \notin {Named(""), Named(".")}
          BY DEF Up, Named, Seg
        <4>2. <<Up>> # <<>>
          OBVIOUS
        <4>. QED BY <4>1, <4>2, Zenon DEF Descend
      <3>. QED BY <2>2, <2>3, <3>1, <3>2, ClimbsOn, Zenon
    <2>. QED BY <2>1, <2>4, Zenon
  <1>8. ASSUME NEW i \in 0 .. l - 1, i \in In
        PROVE  i + 1 \in Out \cup In
    <2>1. i + 1 \in 0 .. l /\ i \in 0 .. l
      BY <1>1
    <2>2. w[i + 1] = Descend(w[i], p[i + 1], alone) /\ w[i] \in Seq(Segments)
      BY <1>2, <2>1
    <2>3. NoneUp(w[i]) /\ v[m + i] = d \o w[i]
      BY <1>8, Zenon
    <2>4. CASE w[i + 1] # <<>> /\ w[i + 1][1] = Up
      BY <2>1, <2>4, Zenon
    <2>5. CASE ~(w[i + 1] # <<>> /\ w[i + 1][1] = Up)
      <3>1. NoneUp(w[i + 1])
        <4>1. p[i + 1] \in Segments
          BY <1>5
        <4>. QED BY <2>2, <2>3, <2>5, <4>1, UpsFirst, Zenon
      <3>2. Descend(d \o w[i], p[i + 1], here) = d \o w[i + 1]
        <4>1. p[i + 1] \in Segments
          BY <1>5
        <4>5. PICK next : next = w[i + 1]
          OBVIOUS
        <4>2. PICK s \in Segments, c \in Seq(Segments) : s = p[i + 1] /\ c = w[i] /\ next = w[i + 1]
          BY <2>2, <4>1, <4>5, Zenon
        <4>3. NoneUp(c) /\ next = Descend(c, s, alone) /\ (next = <<>> \/ next[1] # Up)
          BY <2>2, <2>3, <2>5, <4>2, Zenon
        <4>4. Descend(d \o c, s, here) = d \o next
          BY <1>3, <4>3, DescendsAlike, SMT
        <4>. QED BY <4>2, <4>4, Zenon
      <3>3. v[m + (i + 1)] = d \o w[i + 1]
        BY <1>4, <2>2, <2>3, <3>2, Zenon
      <3>. QED BY <2>1, <3>1, <3>3, Zenon
    <2>. QED BY <2>4, <2>5
  <1>9. l \in Out \cup In
    <2>. HIDE DEF Out, In
    <2>1. ASSUME NEW i \in Good
          PROVE  i + 1 \in Good
      <3>1. CASE i + 1 <= l
        <4>1. i \in 0 .. l - 1 /\ i \in Out \cup In
          BY <1>1, <3>1
        <4>2. i + 1 \in Out \cup In
          BY <1>7, <1>8, <4>1
        <4>. QED BY <4>2
      <3>. QED BY <1>1, <3>1
    <2>2. 0 \in Good /\ Good \in SUBSET Nat
      BY <1>6
    <2>3. Good = Nat
      <3>. HIDE DEF Good
      <3>. QED BY <2>1, <2>2, Induction
    <2>. QED BY <1>1, <2>3
  <1>. QED BY <1>9, Zenon DEF LiesBelow, w, v, d, m, l

\* A relative path that does not climb lies, from a directory, below it.
LEMMA CleanBelow ==
    ASSUME NEW dir \in Seq(Segments), Rooted(dir), NEW p \in Seq(Segments), ~Rooted(p),
           ~Climbs(Clean(p).segs)
    PROVE  /\ Clean(dir \o p).rooted
           /\ Clean(dir \o p).segs = Clean(dir).segs \o Clean(p).segs
  <1>1. Len(dir) \in Nat /\ Len(p) \in Nat /\ Len(dir \o p) = Len(dir) + Len(p)
    OBVIOUS
  <1>2. Rooted(dir \o p)
    <2>1. Len(dir) > 1 /\ dir[1] = Named("")
      BY DEF Rooted
    <2>2. Len(dir \o p) > 1 /\ (dir \o p)[1] = dir[1]
      <3>1. Len(dir) > 1
        BY <2>1
      <3>. QED BY <3>1
    <2>. QED BY <2>1, <2>2, Zenon DEF Rooted
  <1>. DEFINE w == Walked(p, Rooted(p))[Len(p)]
  <1>3. Descend(<<>>, Up, Rooted(p)) = <<Up>>
    <2>1. Up \notin {Named(""), Named(".")}
      BY DEF Up, Named, Seg
    <2>2. Append(<<>>, Up) = <<Up>>
      OBVIOUS
    <2>. QED BY <2>1, <2>2, Zenon DEF Descend
  <1>4. Rooted(dir \o p) = Rooted(dir)
    BY <1>2, Zenon DEF Rooted
  <1>5. \/ w # <<>> /\ w[1] = Up
        \/ Walked(dir \o p, Rooted(dir))[Len(dir) + Len(p)] = Walked(dir, Rooted(dir))[Len(dir)] \o w
    <2>1. LiesBelow(dir, p, Rooted(dir), Rooted(p))
      BY <1>3, WalkedBelow, Zenon
    <2>. QED BY <2>1, Zenon DEF LiesBelow, w
  <1>. QED BY <1>1, <1>2, <1>4, <1>5, Zenon DEF Clean, Climbs

=============================================================================
