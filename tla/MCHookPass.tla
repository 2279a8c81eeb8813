----------------------------- MODULE MCHookPass -----------------------------
(***************************************************************************)
(* Instances of HookPass: modules with the types of MCStructParser, where  *)
(* fields are called through, loaded and addressed, beside calls of other  *)
(* kinds.  In the first, counter finds its calls and struct-parser is told *)
(* every name; in the second all calls are direct, as call-hook needs, and *)
(* a volatile struct is addressed, about which struct-parser asks.         *)
(***************************************************************************)
EXTENDS HookPass, MCStructParser

MCTools == {"call-hook", "counter", "struct-parser"}

Access(op, t, k) ==
  [op |-> op, direct |-> FALSE, field |-> [type |-> t, index |-> k], hook |-> FALSE]

CallsOf(t) ==
  <<Access("call", t, 0)>>
  \o FlattenSeq([k \in DOMAIN MCFields[t] |->
                   IF MCFields[t][k] = "" THEN <<>> ELSE <<Access("call", t, k)>>])

Code(insts) == [dotted |-> FALSE, insts |-> insts]
Dotted(insts) == [dotted |-> TRUE, insts |-> insts]

MCModules ==
  {<<Code(CallsOf("leaf") \o CallsOf("node")),
     Dotted(<<Access("call", "leaf", 1)>>),
     Code(<<Plain("call", FALSE), Access("call", "leaf", 2), Access("load", "leaf", 1),
            Access("gep", "node", 3)>>)>>,
   <<Dotted(<<Plain("call", TRUE)>>), Code(<<>>),
     Code(<<Plain("call", TRUE), Access("load", "node", 2), Access("invoke", "node", 1),
            Access("gep", "regs", 1), Plain("call", TRUE)>>)>>}

(***************************************************************************)
(* The names rest on what the compiler says of the types in debug types:   *)
(* so it does here.                                                        *)
(***************************************************************************)
MCDescribed ==
  LET step[n \in 0 .. 8] ==
        IF n = 0 THEN {<<v.type, v.di>> : v \in {w \in Variables : ~w.expression}}
        ELSE LET R == step[n - 1] IN R \cup UNION {LeadsTo(p[1], p[2]) : p \in R}
  IN step[8]

ASSUME MCDescribedAssumption == Described(MCDescribed)
=============================================================================
