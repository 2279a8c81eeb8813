----------------------------- MODULE PlainBuild -----------------------------
(***************************************************************************)
(* What a wrapper promises to the build that runs it in place of the       *)
(* compiler: a build of the same commands by the compiler alone.  A job    *)
(* that its build may start ends once.  If it succeeds its output is made  *)
(* of its own inputs as they are and of the objects it names; if it fails  *)
(* it leaves its output as it was or removes it.                           *)
(***************************************************************************)
EXTENDS Sequences

CONSTANTS
  Jobs,      (* the commands of the build                                 *)
  Cmd,       (* the inputs, objects, output and predecessors of each      *)
  Makers,    (* whoever may have made something, the jobs among them      *)
  Inputs,    (* the inputs there are                                      *)
  Origin(_, _)  (* who makes what job j compiles of input s               *)

VARIABLES
  state,     (* pending, succeeded or failed, of each job                 *)
  artifact   (* the content of each output: source and maker of its parts *)

plainVars == <<state, artifact>>

None == {}

Outputs == {Cmd[j].out : j \in Jobs}

Content(s, j) == <<s, Origin(s, j)>>

Expected(j) ==
  {Content(Cmd[j].inputs[i], j) : i \in DOMAIN Cmd[j].inputs}
    \cup UNION {artifact[Cmd[j].objects[i]] : i \in DOMAIN Cmd[j].objects}

PlainInit ==
  /\ state = [j \in Jobs |-> "pending"]
  /\ artifact \in [Outputs -> SUBSET (Inputs \X Makers)]

Ready(j) == state[j] = "pending" /\ \A d \in Cmd[j].after : state[d] = "succeeded"

Succeed(j) ==
  /\ Ready(j)
  /\ state' = [state EXCEPT ![j] = "succeeded"]
  /\ artifact' = [artifact EXCEPT ![Cmd[j].out] = Expected(j)]

Fail(j) ==
  /\ Ready(j)
  /\ state' = [state EXCEPT ![j] = "failed"]
  /\ \E left \in {artifact[Cmd[j].out], None} :
       artifact' = [artifact EXCEPT ![Cmd[j].out] = left]

PlainNext == \E j \in Jobs : Succeed(j) \/ Fail(j)

PlainSpec == PlainInit /\ [][PlainNext]_plainVars
=============================================================================
