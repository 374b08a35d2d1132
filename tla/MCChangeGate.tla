---------------------------- MODULE MCChangeGate ----------------------------
(* Instances of ChangeGate for TLC: a file in a directory and one at the top. *)
EXTENDS ChangeGate, TLC

CONSTANTS fine, banned

InDir == <<Named("dir"), Named("file")>>
AtTop == <<Named("top")>>
TwoPaths == {InDir, AtTop}
SomeTops == {AtTop, <<Named("dir")>>, <<Named("elsewhere")>>}
TwoContents == {fine, banned}

\* The corpus denies one content anywhere, and the removal of the top file.
CorpusDenies == {<<InDir, banned>>, <<AtTop, banned>>, <<AtTop, Absent>>}

\* dir/*
Below == <<Named("dir"), Seg("", 1)>>

\* Ways to ask for everything: *, **, dir/..*, ./ and dir/../../top
WideTargets ==
    { <<Seg("", 1)>>,
      <<Seg("", 2)>>,
      <<Named("dir"), Seg("..", 1)>>,
      <<Named("."), Named("")>>,
      <<Named("dir"), Up, Up, Named("top")>> }

\* The directory; the directory and, by way of dir/../top, the top file; dir/** and
\* /dir, which match nothing here; and each way to ask for everything.
SomePlans ==
    { <<{Below}>>,
      <<{Below}, {Below, <<Named("dir"), Up, Named("top")>>}>>,
      <<{<<Named("dir"), Seg("", 2)>>}, {<<Named(""), Named("dir")>>}>> }
    \cup {<<{Below}, {t}>> : t \in WideTargets}

=============================================================================
