---------------------------- MODULE MCProcesses ----------------------------
(* The lines TLC types. *)
EXTENDS CarefulProcesses

List(n) == [kind |-> "list", out |-> n]
Change == [kind |-> "change", out |-> 0]
Filter == [kind |-> "filter", out |-> 0]
Unknown == [kind |-> "unknown", out |-> 1]

Sources == {List(2), List(3), Change, Unknown}
LinesOf(form, commands) == {[form |-> form, cmds |-> cs] : cs \in commands}

MCLine ==
    LinesOf("plain", {<<List(1)>>, <<Change>>})
      \cup LinesOf("redirect", {<<c>> : c \in Sources})
      \cup LinesOf("background", {<<List(1)>>, <<Change>>})
      \cup LinesOf("pipe", Sources \X {Change, Filter})
      \cup LinesOf("pipes", {<<List(1), Filter, List(1)>>, <<List(1), List(1), List(1)>>})
=============================================================================
