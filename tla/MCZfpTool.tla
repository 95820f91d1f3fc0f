------------------------------ MODULE MCZfpTool ------------------------------
\* Small instances of ZfpTool.
EXTENDS ZfpTool

MCDimBits == <<12, 6, 4, 3>>
MCReadBits == <<8, 6, 4, 3>>

Flag(f) == [flag |-> f]
Type(t) == [flag |-> "type", type |-> t]
Dims(d, n) == [flag |-> "dims", dims |-> d, n |-> n]
Exec(x) == [flag |-> "exec", exec |-> x]
Mode(m) == [flag |-> "mode", mode |-> m]

Modes ==
  { [letter |-> "R"], [letter |-> "a", minexp |-> -3], [letter |-> "p", precision |-> 16],
    [letter |-> "r", bits |-> 7], [letter |-> "c", params |-> Parameters(0, 0, 0, 900)] }
BadMode == [letter |-> "c", params |-> Parameters(9, 8, 64, -1074)]
Arrays == { <<Type("float"), Dims(2, <<16, 11, 1, 1>>)>>, <<Type("int64"), Dims(1, <<9, 1, 1, 1>>)>>,
            <<Type("double"), Dims(4, <<3, 2, 1, 1>>)>> }
Paths == { <<Flag("i"), Flag("z")>>, <<Flag("i"), Flag("o")>>, <<Flag("i"), Flag("s")>> }
Headers == { <<>>, <<Flag("h")>> }

MakeCommands(modes, execs) ==
  { p \o a \o <<Mode(m), Exec(x)>> \o h :
      p \in Paths, a \in Arrays, m \in modes, x \in execs, h \in Headers }
ReadCommands(execs) ==
  { <<Flag("z"), Flag("o"), Exec(x), Flag("h")>> : x \in execs }
OtherCommands ==
  { <<Flag("?")>>, <<Flag("z")>>, <<Flag("z"), Type("float"), Mode([letter |-> "R"])>>,
    <<Flag("z"), Flag("h"), Type("float")>>,
    <<Flag("z"), Type("float"), Dims(2, <<5, 3, 1, 1>>), Mode([letter |-> "R"])>>,
    <<Flag("i"), Type("float"), Dims(1, <<0, 1, 1, 1>>), Mode(BadMode)>>,
    <<Flag("i"), Type("float"), Dims(1, <<4, 1, 1, 1>>), Mode(BadMode)>>,
    <<Flag("i"), Flag("h"), Flag("o"), Type("int32"), Dims(1, <<4097, 1, 1, 1>>), Mode([letter |-> "R"])>> }

\* On the host every mode; on a GPU the modes and the streams it supports.
MCCommands ==
  MakeCommands(Modes, {"serial", "omp"}) \cup ReadCommands({"serial", "omp"}) \cup OtherCommands
    \cup { p \o <<Type("float"), Dims(2, <<5, 3, 1, 1>>), Mode([letter |-> "r", bits |-> 64]), Exec("cuda")>> :
             p \in Paths }
=============================================================================
