------------------------------ MODULE Executor ------------------------------
(***************************************************************************)
(* What the class Executor (src/common/executor.cc) reports about a child  *)
(* process.  Every child has one fate; the operators below give the set of *)
(* values that exec_fork() and exec_pclose() can return for that fate, as  *)
(* the code computes them from the wait status, so that a caller sees what *)
(* the code sees and not what happened.                                    *)
(***************************************************************************)
EXTENDS Integers

(***************************************************************************)
(* The fates of a child.                                                   *)
(*   succeeds  it exits with code 0                                        *)
(*   fails     it exits with a nonzero code (1 stands for all of them)     *)
(*   killed    a signal ends it, at any point of its work                  *)
(*   noexec    the program cannot be executed                              *)
(*   nofork    there is no child: fork() or popen() fails                  *)
(*   unwaited  it runs to its end, but the wait for it fails, as wait(2)   *)
(*             does in a process that inherited an ignored SIGCHLD         *)
(***************************************************************************)
AllFates == {"succeeds", "fails", "killed", "noexec", "nofork", "unwaited"}

(***************************************************************************)
(* exec_fork().  The high byte of the status of a child ended by a signal  *)
(* is 0, so WEXITSTATUS makes "killed" a 0.  The child whose execvp()      *)
(* fails calls exit(-1).  The result of wait() is not tested: when it      *)
(* fails, the local variable status is read uninitialized, and is either   *)
(* returned as it is (negative) or through WEXITSTATUS.                    *)
(***************************************************************************)
ForkReturn(fate) ==
  CASE fate = "succeeds" -> {0}
    [] fate = "fails"    -> {1}
    [] fate = "killed"   -> {0}
    [] fate = "noexec"   -> {255}
    [] fate = "nofork"   -> {-1}
    [] fate = "unwaited" -> {-1, 0, 1}

(***************************************************************************)
(* exec_pclose(), for a stream that popen() opened.  A shell that replaces *)
(* itself with its only command passes the signal on to pclose(), one that *)
(* does not exits with 128 and its number (9 stands for all); a command it *)
(* cannot execute makes it exit with 127; and when the wait in pclose()    *)
(* fails, pclose() returns -1 and WEXITSTATUS(-1) is 255.                  *)
(***************************************************************************)
PcloseReturn(fate) ==
  CASE fate = "succeeds" -> {0}
    [] fate = "fails"    -> {1}
    [] fate = "killed"   -> {0, 137}
    [] fate = "noexec"   -> {127}
    [] fate = "unwaited" -> {255}

(* The byte of main()'s return value that the parent of the wrapper sees. *)
ExitByte(code) == code % 256
=============================================================================
