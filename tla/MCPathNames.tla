---------------------------- MODULE MCPathNames ----------------------------
(* One thread tries all short paths while another one calls the functions  *)
(* too, over and over with the same path.                                  *)
EXTENDS PathNames, TLC

CONSTANTS t1, t2

MCCallers == {t1, t2}

MCPathChars == {"/", "a", "b", "."}

\* All strings of at most three characters over a slash and a letter, longer
\* ones that take different ways through both functions, the dots, a last
\* component that does not fit filename[] and a path that does not fit a buffer.
MCPaths ==
  BoundedSeq({"/", "a"}, 3)
    \cup {<<"/", "a", "/", "b">>, <<"a", "/", "/", "b">>, <<"a", "/", "b", "/">>,
          <<"/", "/", "a", "/", "/">>, <<"b", "/", "a", "/", "b">>,
          <<".">>, <<".", ".">>, <<"/", ".", ".">>, <<".", ".", "/", "a">>,
          <<"/", "a", "b", "a">>, <<"/", "a", "/", "a", "/", "b">>}

MCPathsOf == t1 :> MCPaths @@ t2 :> {<<"b", "/", "a", "/", "/">>}

\* The first thread finds characters behind filename, the other behind buf.
MCFileTails == t1 :> {<<>>, <<"b">>} @@ t2 :> {<<>>}
MCBufTails == t1 :> {<<>>} @@ t2 :> {<<>>, <<"b">>}

\* The reference leaves no choice: Joins() holds of one text only.
ASSUME MCJoinsIsUnique ==
  \A p \in {q \in MCPaths : Len(q) < PathSize}, d, e \in BoundedSeq({"/", "a"}, 4) :
    Joins(d, IsAbsolute(p), Components(p)) /\ Joins(e, IsAbsolute(p), Components(p))
      => d = e
=============================================================================
