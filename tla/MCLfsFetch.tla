----------------------------- MODULE MCLfsFetch -----------------------------
EXTENDS LfsFetch

GitObjects == {"g1", "g2", "g3", "g4", "g5", "g6", "g7"}

\* Two commits, the second reached through a tag or a ref of its own; two trees, the
\* second within the first and perhaps the root of the second commit; two files that
\* may name one LFS object, or the second none.  At most one object cannot be read.
Small ==
    {[kind     |-> [o \in GitObjects |->
                      CASE o = "g1" -> "tag" [] o \in {"g2", "g3"} -> "commit"
                        [] o \in {"g4", "g5"} -> "tree" [] OTHER -> "blob"],
      tips     |-> tips,
      readable |-> GitObjects \ unreadable,
      target   |-> [o \in GitObjects |-> "g3"],
      tree     |-> [o \in GitObjects |-> IF o = "g3" THEN root ELSE "g4"],
      parents  |-> [o \in GitObjects |-> IF o = "g3" THEN {"g2"} ELSE {}],
      entries  |-> [o \in GitObjects |->
                      CASE o = "g4" -> {"g5", "g6", "g7"} [] o = "g5" -> {"g7"} [] OTHER -> {}],
      pointer  |-> [o \in GitObjects |->
                      CASE o = "g6" -> "l1" [] o = "g7" -> second [] OTHER -> NotPointer]] :
        tips \in {{"g1"}, {"g2", "g3"}}, root \in {"g4", "g5"}, second \in {"l1", "l2", NotPointer},
        unreadable \in {{}} \cup {{o} : o \in GitObjects}}

\* One commit and its tree, with as many files as the sweep needs.
Large ==
    [kind     |-> [o \in GitObjects |->
                     CASE o = "g1" -> "commit" [] o = "g2" -> "tree" [] OTHER -> "blob"],
     tips     |-> {"g1"},
     readable |-> GitObjects,
     target   |-> [o \in GitObjects |-> o],
     tree     |-> [o \in GitObjects |-> "g2"],
     parents  |-> [o \in GitObjects |-> {}],
     entries  |-> [o \in GitObjects |-> IF o = "g2" THEN {"g3", "g4", "g5", "g6"} ELSE {}],
     pointer  |-> [o \in GitObjects |->
                     CASE o = "g3" -> "l1" [] o = "g4" -> "l2" [] o = "g5" -> "l3"
                       [] o = "g6" -> "l4" [] OTHER -> NotPointer]]

Mirrors == Small \cup {Large}
FromEarlier == {{}, {"l1"}}
=============================================================================
