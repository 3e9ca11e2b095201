--------------------------- MODULE MCShapesLoading ---------------------------
(* A small instance of ShapesLoading for TLC.                              *)
EXTENDS ShapesLoading_proofs, TLC

\* Path 2 is a file of its own or a link to path 1; path 3 exists or does not.
MCCanonical == {<<1, 2, 3>>, <<1, 1, 3>>, <<1, 2, Missing>>}

\* IRIs 1, 2 and 3 name paths 1, 2 and 3, or 3 is a remote document; 4 is remote.
\* The fourth may also be of a scheme the loader does not know.
MCScheme == {<<"file", "file", "file", "remote">>,
             <<"file", "file", "remote", "remote">>,
             <<"file", "file", "file", "other">>}

MCImports(a, b, c) ==
    [s \in Sources |->
        IF s.kind = "remote" THEN b
        ELSE IF s = Document(1) \/ s.at = 3 THEN c ELSE IF s.at = 1 THEN a ELSE b]

MCWorlds ==
    LET families == {{}, {1, 2}, {2, 3}, {1, 4}}
    IN  {[canonical |-> can, scheme |-> scheme, path |-> <<1, 2, 3, 1>>,
          imports |-> MCImports(a, b, c), broken |-> broken, remotes |-> remotes] :
            can \in MCCanonical, scheme \in MCScheme,
            a \in families, b \in families, c \in families,
            broken \in {{}, {File(2)}},
            remotes \in {"disabled", "no fetcher", "allowed"}}

MCArguments ==
    [files : {{}, {1}, {2, 3}}, documents : {<<>>, <<1>>, <<2, 1>>, <<2, 2>>}]
=============================================================================
