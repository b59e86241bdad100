----------------------------- MODULE MCArtifacts -----------------------------
(***************************************************************************)
(* Artifacts on requests TLC can explore.                                  *)
(***************************************************************************)
EXTENDS Artifacts

MCLimits == [inputFiles |-> 2, inputBytes |-> 3, inputFileBytes |-> 2,
             outputFiles |-> 2, outputBytes |-> 3, outputFileBytes |-> 2]

Request(i, o, l) == [inputs |-> i, outputs |-> o, limits |-> l]
UpTo2(S) == {<<>>} \cup {<<s>> : s \in S} \cup {<<s, t>> : s, t \in S}

\* A path is as long as it has parts, but "w" is wide in UTF-8.
MCUnits(p) == Len(p)
MCBytes(p) == Len(p) + (IF "w" \in {p[n] : n \in DOMAIN p} THEN 4 ELSE 0)

\* Paths that are equal, contain one another, are not normal, too long in units or in
\* bytes, or deep.
MCPaths == {<<"a">>, <<"b">>, <<"a", "b">>, <<"b", "a">>, <<"a", "">>, <<".", "">>,
            <<"..", "a">>, <<"w">>, <<"a", "b", "c">>, <<"a", "b", "c", "d", "e">>}

MCInputs == {Request(i, <<>>, MCLimits) :
                i \in UpTo2([target : MCPaths, kind : {"sourcePath"}]
                            \cup [target : {<<"a">>, <<"b", "a">>}, kind : {"chunks"}])}
MCOverlaps == {Request(<<>>, o, MCLimits) :
                o \in UpTo2([path : MCPaths, max : {1}, required : {TRUE}])}
Out(path) == [path : {path}, max : 0 .. 2, required : BOOLEAN]
MCOutputs == {Request(<<>>, o, l) :
                o \in {<<s>> : s \in Out(<<"a">>)}
                      \cup {<<s, t>> : s \in Out(<<"a">>), t \in Out(<<"b">>)},
                l \in {MCLimits, [MCLimits EXCEPT !.outputFiles = 1],
                       [MCLimits EXCEPT !.outputBytes = 2]}}

\* Limits that only the launcher refuses.
MCBeyond == {Request(<<>>, <<>>, l) :
                l \in {[MCLimits EXCEPT !.inputFiles = 3], [MCLimits EXCEPT !.outputFiles = 3],
                       [MCLimits EXCEPT !.inputBytes = 4], [MCLimits EXCEPT !.outputBytes = 4]}}
MCRequests == MCBeyond \cup MCInputs \cup MCOverlaps \cup MCOutputs
=============================================================================
