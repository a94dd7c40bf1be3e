----------------------------- MODULE MCCommandLine -----------------------------
(***************************************************************************)
(* Every vector of up to three of a few elements, and of up to six with    *)
(* words between the options; and the modes on three circuits.             *)
(***************************************************************************)
EXTENDS CommandLineProps

\* stod and stoul read as far as they can.  stoul takes a sign and wraps around:
\* MCWord stands for 2^64.
MCWord == 2147483647
MCDoubles ==
    "3" :> 300 @@ "20" :> 2000 @@ "-20" :> -2000 @@ ".5" :> 50 @@ ".03" :> 3 @@ ".2" :> 20
    @@ "1-9L" :> 100 @@ "9-1" :> 900
MCCounts ==
    "3" :> 3 @@ "20" :> 20 @@ "-20" :> MCWord - 20 @@ "1-9L" :> 1 @@ "9-1" :> 9 @@ "1e400" :> 1
MCOverflowing == {<<"stod", "1e400">>, <<"stoul", "99999999999999999999">>}
MCTexts == Short(<<>>, "20") :> "-20"
MCRanges == "1-9L" :> [start |-> 1, end |-> 9, log |-> TRUE]
            @@ "9-1" :> [start |-> 9, end |-> 1, log |-> FALSE]
MCAbbreviations == "mod" :> {"model", "mode"} @@ "inp" :> {"input-type"} @@ "he" :> {"help"}

Elements ==
    {Word("w"), Word("3"), Word(".5"), Quote,
     Short(<<"n">>, NoText), Short(<<"l", "c">>, NoText), Short(<<"c">>, "20"),
     Short(<<"s", "n">>, NoText), Short(<<>>, "20"), Short(<<"a">>, "1-9L"), Short(<<"n", "w">>, NoText),
     Long("omega", "1-9L"), Long("omegasteps", NoText), Long("mod", "code"),
     Long("inp", "madap"), Long("hz", "3"), Long("he", NoText), Long("HANG", NoText)}

Permuted ==
    {Word("w"), Word("3"), Quote, Short(<<"l", "c">>, NoText), Long("omega", "1-9L")}

Modes3 ==
    {<<Long("model", m), Long("mode", f), Short(<<"d">>, d)>> :
       m \in {"sweep", "flat", "single"}, f \in {"find-range", "export-ranges", "script", "export", "bad"},
       d \in {".03", ".2", "-20"}}

Further ==
    {<<>>, <<Short(<<"p">>, NoText)>>, <<Short(<<"z", "p">>, NoText), Long("save", "dir")>>,
     <<Short(<<"r", "e">>, NoText), Long("save", "dir")>>,
     <<Long("input-type", "relaxis")>>, <<Long("input-type", "madap")>>,
     <<Long("input-type", "other")>>, <<Short(<<"h">>, NoText), Short(<<"a">>, "1-9L")>>,
     <<Long("omega", "9-1")>>, <<Long("param", "1e400")>>,
     <<Long("omegasteps", "1e400")>>, <<Short(<<"c">>, "99999999999999999999")>>}

MCCommandLines ==
    UNION {[1..n -> Elements] : n \in 0..3}
    \cup UNION {[1..n -> Permuted] : n \in 4..6}
    \cup {mode \o further : mode \in Modes3, further \in Further}

MCTranslations == <<"madap", "sweep">> :> "single" @@ <<"madap", "default">> :> "flat"

\* Two omegas suffice for spectra that are pairwise apart without being in a line.
SweptPoint(spectrum, jumps, linear, first, second, impedances) ==
    [spectrum |-> spectrum, nan |-> FALSE, jumps |-> jumps, linear |-> linear,
     dull |-> linear, straight |-> jumps, values |-> <<first, second>>,
     impedances |-> impedances]
Infinite(point) == [point EXCEPT !.nan = TRUE]

At0(re, im) == <<<<re, im>>, <<0, 0>>>>
At1(re, im) == <<<<0, 0>>, <<re, im>>>>
Ohm(r) == <<r, 0>>
Farad(x) == <<0, -x>>

\* Nearer than .2 are that of index 1 and each of 2, 4 and 5, which are apart from each
\* other, and 5 and 8, which is apart from 1; 6 is the spectrum of 2 once more.
MCCircuits ==
    "sweep" :> [kind |-> "serial", hasCode |-> TRUE, points |-> <<
        SweptPoint(At0(0, 0), TRUE, FALSE, 1, 5, <<<<Ohm(1), Ohm(3)>>>>),
        SweptPoint(At0(0, 0), FALSE, FALSE, 8, 5,
                   <<<<Ohm(1), Ohm(300)>>, <<Ohm(2), Ohm(30)>>>>),
        SweptPoint(At0(28, 0), FALSE, FALSE, 2, 6,
                   <<<<Ohm(1), Ohm(300)>>, <<Ohm(2), Farad(300)>>>>),
        Infinite(SweptPoint(At0(0, 0), FALSE, FALSE, 6, 6,
                   <<<<Ohm(1), Farad(1)>>, <<Ohm(2), Farad(90)>>>>)),
        SweptPoint(At0(0, -28), FALSE, FALSE, 9, 5, <<<<Ohm(5), Ohm(5)>>, <<Ohm(2), Ohm(2)>>>>),
        SweptPoint(At1(20, 0), FALSE, FALSE, 3, 6, <<<<Ohm(0), Ohm(0)>>>>),
        SweptPoint(At0(28, 0), FALSE, FALSE, 4, 4, <<<<Ohm(5), Ohm(9)>>>>),
        SweptPoint(At0(50, 0), FALSE, TRUE, 7, 5, <<<<Ohm(5), Ohm(9)>>>>),
        SweptPoint(At1(20, 24), FALSE, FALSE, 3, 6, <<<<Ohm(5), Farad(5)>>>>)>>]
    @@ "flat" :> [kind |-> "parallel", hasCode |-> FALSE, points |-> <<
        SweptPoint(At0(4, 4), FALSE, FALSE, 0, 4, <<<<Ohm(1), Farad(300)>>>>),
        SweptPoint(At0(4, 4), FALSE, FALSE, 0, 4, <<<<Ohm(1), Farad(30)>>>>)>>]
    @@ "single" :> [kind |-> "leaf", hasCode |-> TRUE, points |-> <<
        Infinite(SweptPoint(At0(4, 4), FALSE, FALSE, 0, 4, <<<<Ohm(1)>>>>))>>]
    @@ "default" :> [kind |-> "serial", hasCode |-> TRUE, points |-> <<
        SweptPoint(At0(4, 4), FALSE, FALSE, 0, 4, <<<<Ohm(1), Ohm(2)>>>>)>>]
================================================================================
