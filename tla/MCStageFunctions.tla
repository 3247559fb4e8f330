-------------------------- MODULE MCStageFunctions --------------------------
(***************************************************************************)
(* Instances of StageFunctions: numbers of steps from one to what the      *)
(* table of alphas can and cannot serve, texts of every kind of word and   *)
(* the merges that a training may have left.                               *)
(***************************************************************************)
EXTENDS StageFunctions, FiniteSets

MCStepCounts ==
  [s \in {"DpmSolverSDE", "DdimTrailing"} |->
     IF s = "DdimTrailing" THEN 1 .. 48 ELSE 1 .. 48 \cup {998, 999, 1000, 1001}]

\* Two letters, what makes contractions, a digit, an other one, a capital and a space.
MCKind == [c \in {"a", "b", "s", "A", "'", "1", "!", " "} |->
             CASE c = " " -> "space" [] c = "1" -> "digit"
               [] c \in {"!", "'"} -> "other" [] OTHER -> "letter"]
MCLower == [c \in DOMAIN MCKind |-> IF c = "A" THEN "a" ELSE c]
MCEndOfWord == [c \in DOMAIN MCKind |->
                  CASE c = "a" -> "a/" [] c = "b" -> "b/" [] c = "s" -> "s/" [] c = "'" -> "'/"
                    [] c = "1" -> "1/" [] c = "!" -> "!/" [] OTHER -> c]
MCContractions == {<<"'", "s">>}

Texts(chars, n) == UNION {[1 .. k -> chars] : k \in 0 .. n}

\* A training merges letters and what it has merged before, each pair once.
Parts(merges) ==
  {<<c>> : c \in {"a", "b", "a/", "b/"}} \cup {merges[r][1] \o merges[r][2] : r \in DOMAIN merges}
Trained(merges) ==
  {Append(merges, p) : p \in {q \in Parts(merges) \X Parts(merges) :
      /\ q[1][Len(q[1])] \in {"a", "b"}
      /\ \A r \in DOMAIN merges : merges[r] # q}}
Tables == LET once == Trained(<< >>) IN once \cup UNION {Trained(m) : m \in once}

MCInputs ==
  [text : Texts({"a", "b"}, 4), merges : Tables]
  \cup [text : Texts(DOMAIN MCKind, 3) \cup {<<"a", "'", "s", "b">>, <<"!", "'", "s", "1">>},
        merges : {<< << <<"a">>, <<"b/">> >>, << <<"a">>, <<"a/">> >> >>}]
=============================================================================
