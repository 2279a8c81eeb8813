------------------------------- MODULE Logger -------------------------------
(***************************************************************************)
(* The logs of wrappers that run side by side (common/logging.cc): each    *)
(* opens a file of its own, named by the time, gathers lines in a buffer,  *)
(* forks children that inherit the buffer (Executor::exec_fork() in        *)
(* common/executor.cc), and in the end closes the file and removes it if   *)
(* there is nothing in it.  Meanwhile scripts/log.sh purges the directory  *)
(* or removes it.  A line is longer than the 64 bytes below which a file   *)
(* counts as empty, so that the size of a file is its number of lines.     *)
(***************************************************************************)
EXTENDS Integers, SequencesExt

CONSTANTS
  Wrappers,  (* the wrappers that run side by side                         *)
  Levels,    (* the values of LOG_LEVEL                                    *)
  MaxCalls   (* a bound on the calls that log, for each wrapper            *)

INFO == 20
ERROR == 40
Severities == {INFO, ERROR}

ASSUME LoggerAssumption == Levels \subseteq Nat /\ MaxCalls \in [Wrappers -> Nat]

VARIABLES
  level,    (* the threshold of a wrapper                                  *)
  special,  (* LOG_PATH is no regular file: /dev/stderr, its default       *)
  opened,   (* it has opened its log                                       *)
  pc,       (* where it is                                                 *)
  child,    (* a child that could not start its program is at pc instead   *)
  calls,    (* the severity of each call, dumps of a module among them     *)
  buffer,   (* the lines not yet written, by the number of their call      *)
  disk,     (* the lines of its file, linked or not                        *)
  linked,   (* the file has its name in the directory                      *)
  failed,   (* after how many lines a child could not start its program    *)
  cut,      (* the script took the file away                               *)
  directory,  (* the directory of the logs exists                          *)
  script,   (* what scripts/log.sh does                                    *)
  found     (* the files it is about to remove                             *)

vars == <<level, special, opened, pc, child, calls, buffer, disk, linked, failed, cut,
          directory, script, found>>
dirVars == <<directory, script, found>>

DUMP == 100

Init ==
  /\ level \in [Wrappers -> Levels] /\ special \in [Wrappers -> BOOLEAN]
  /\ opened = [w \in Wrappers |-> FALSE] /\ pc = [w \in Wrappers |-> "start"]
  /\ child = [w \in Wrappers |-> FALSE] /\ calls = [w \in Wrappers |-> <<>>]
  /\ buffer = [w \in Wrappers |-> <<>>] /\ disk = [w \in Wrappers |-> <<>>]
  /\ linked = [w \in Wrappers |-> FALSE] /\ failed = [w \in Wrappers |-> {}]
  /\ cut = [w \in Wrappers |-> FALSE]
  /\ directory \in BOOLEAN /\ script = "idle" /\ found = {}

(* _logger_init(): without the directory there is no file, and no error is looked at. *)
Open(w) ==
  /\ pc[w] = "start"
  /\ opened' = [opened EXCEPT ![w] = directory \/ special[w]]
  /\ linked' = [linked EXCEPT ![w] = directory /\ ~special[w]]
  /\ pc' = [pc EXCEPT ![w] = "run"]
  /\ UNCHANGED <<level, special, child, calls, buffer, disk, failed, cut, dirVars>>

IsLogged(w, severity) == severity = DUMP \/ ~(level[w] > severity)

(* One more call, at step "next"; a buffer that is full is written first. *)
Call(w, severity, next) ==
  /\ Len(calls[w]) < MaxCalls[w]
  /\ calls' = [calls EXCEPT ![w] = Append(@, severity)]
  /\ IF ~(opened[w] /\ IsLogged(w, severity)) THEN UNCHANGED <<buffer, disk>>
     ELSE \E full \in BOOLEAN :
            /\ disk' = [disk EXCEPT ![w] = @ \o IF full THEN buffer[w] ELSE <<>>]
            /\ buffer' = [buffer EXCEPT ![w] = (IF full THEN <<>> ELSE @) \o <<Len(calls'[w])>>]
  /\ pc' = [pc EXCEPT ![w] = next]
  /\ UNCHANGED <<level, special, opened, child, linked, failed, cut, dirVars>>

Log(w) == pc[w] = "run" /\ \E severity \in Severities : Call(w, severity, "run")

(* write_module() dumps a module that is incorrect, whatever the level. *)
Dump(w) == pc[w] = "run" /\ Call(w, DUMP, "run")
-----------------------------------------------------------------------------
(***************************************************************************)
(* exec_fork(): the child has a copy of the buffer and shares the position *)
(* in the file; the parent waits.  A child that starts its program takes   *)
(* its copy with it; one that cannot calls exit(), which runs ~Logger().   *)
(***************************************************************************)
Fork(w) == pc[w] = "run" /\ Call(w, INFO, "forked")

ChildRuns(w) ==
  /\ pc[w] = "forked"
  /\ pc' = [pc EXCEPT ![w] = "waiting"]
  /\ UNCHANGED <<level, special, opened, child, calls, buffer, disk, linked, failed, cut, dirVars>>

Written(w) == ToSet(disk[w]) \cup ToSet(buffer[w])

ChildFails(w) ==
  /\ pc[w] = "forked"
  /\ child' = [child EXCEPT ![w] = TRUE]
  /\ failed' = [failed EXCEPT ![w] = @ \cup {Cardinality(Written(w))}]
  /\ pc' = [pc EXCEPT ![w] = "close"]
  /\ UNCHANGED <<level, special, opened, calls, buffer, disk, linked, cut, dirVars>>

Wait(w) == pc[w] = "waiting" /\ Call(w, INFO, "run")

Exit(w) ==
  /\ pc[w] = "run"
  /\ pc' = [pc EXCEPT ![w] = "close"]
  /\ UNCHANGED <<level, special, opened, child, calls, buffer, disk, linked, failed, cut, dirVars>>

(* An exception nobody catches, an assertion, a signal: what is in the buffer is lost. *)
Crash(w) ==
  /\ pc[w] = "run"
  /\ pc' = [pc EXCEPT ![w] = "crashed"]
  /\ UNCHANGED <<level, special, opened, child, calls, buffer, disk, linked, failed, cut, dirVars>>
-----------------------------------------------------------------------------
(***************************************************************************)
(* ~Logger(), of the wrapper or of its child: close(), exists(),           *)
(* file_size() and remove().  file_size() throws for a file that is gone   *)
(* and for one that is not regular, and a destructor lets no exception     *)
(* out.  A log that was never opened has an error, which ends the process  *)
(* with status 1.                                                          *)
(***************************************************************************)
Ends(w, how) ==
  /\ pc' = [pc EXCEPT ![w] = IF child[w] THEN "waiting" ELSE how]
  /\ child' = [child EXCEPT ![w] = FALSE]

(* A mutant of Close: the buffer is written when the destructor is over. *)
CloseLate(w) ==
  /\ pc[w] = "close"
  /\ pc' = [pc EXCEPT ![w] = "exists"]
  /\ UNCHANGED <<level, special, opened, child, calls, buffer, disk, linked, failed, cut, dirVars>>

Close(w) ==
  /\ pc[w] = "close"
  /\ disk' = [disk EXCEPT ![w] = @ \o buffer[w]]
  /\ buffer' = [buffer EXCEPT ![w] = IF child[w] THEN @ ELSE <<>>]
  /\ pc' = [pc EXCEPT ![w] = "exists"]
  /\ UNCHANGED <<level, special, opened, child, calls, linked, failed, cut, dirVars>>

(* A mutant of Exists: the size is asked for at once. *)
ExistsAlways(w) ==
  /\ pc[w] = "exists"
  /\ IF opened[w] THEN pc' = [pc EXCEPT ![w] = "size"] /\ UNCHANGED child
     ELSE Ends(w, "failed")
  /\ UNCHANGED <<level, special, opened, calls, buffer, disk, linked, failed, cut, dirVars>>

Exists(w) ==
  /\ pc[w] = "exists"
  /\ IF special[w] \/ linked[w] THEN pc' = [pc EXCEPT ![w] = "size"] /\ UNCHANGED child
     ELSE Ends(w, IF opened[w] THEN "exited" ELSE "failed")
  /\ UNCHANGED <<level, special, opened, calls, buffer, disk, linked, failed, cut, dirVars>>

Size(w) ==
  /\ pc[w] = "size"
  /\ IF special[w] \/ ~linked[w] THEN Ends(w, "aborted")
     ELSE IF disk[w] # <<>> THEN Ends(w, "exited")
     ELSE pc' = [pc EXCEPT ![w] = "remove"] /\ UNCHANGED child
  /\ UNCHANGED <<level, special, opened, calls, buffer, disk, linked, failed, cut, dirVars>>

RemoveLog(w) ==
  /\ pc[w] = "remove"
  /\ linked' = [linked EXCEPT ![w] = FALSE]
  /\ Ends(w, "exited")
  /\ UNCHANGED <<level, special, opened, calls, buffer, disk, failed, cut, dirVars>>
-----------------------------------------------------------------------------
(***************************************************************************)
(* scripts/log.sh.  "purge" looks for files that are empty and removes     *)
(* each; "remove" takes the files away, then the directory, which fails if *)
(* a wrapper has put a new file there, and makes the directory again.      *)
(***************************************************************************)
Unlink(files) ==
  /\ linked' = [w \in Wrappers |-> linked[w] /\ w \notin files]
  /\ cut' = [w \in Wrappers |-> cut[w] \/ (linked[w] /\ w \in files)]

ScriptStep(from, to) == script = from /\ script' = to
wrapperVars == <<level, special, opened, pc, child, calls, buffer, disk, failed>>

PurgeFind ==
  /\ ScriptStep("idle", "purge") /\ directory
  /\ found' = {w \in Wrappers : linked[w] /\ disk[w] = <<>>}
  /\ UNCHANGED <<wrapperVars, linked, cut, directory>>

PurgeOne(w) ==
  /\ ScriptStep("purge", "purge") /\ w \in found
  /\ Unlink({w})
  /\ found' = found \ {w}
  /\ UNCHANGED <<wrapperVars, directory>>

PurgeEnd ==
  /\ ScriptStep("purge", "idle") /\ found = {}
  /\ UNCHANGED <<wrapperVars, linked, cut, directory, found>>

RemoveFiles ==
  /\ ScriptStep("idle", "rmdir") /\ directory
  /\ Unlink(Wrappers)
  /\ UNCHANGED <<wrapperVars, directory, found>>

(* A mutant of RemoveDirectory: a file that is there does not stop it. *)
RemoveDirectoryForce ==
  /\ ScriptStep("rmdir", "mkdir")
  /\ directory' = FALSE
  /\ UNCHANGED <<wrapperVars, linked, cut, found>>

RemoveDirectory ==
  /\ ScriptStep("rmdir", IF \E w \in Wrappers : linked[w] THEN "idle" ELSE "mkdir")
  /\ directory' = \E w \in Wrappers : linked[w]
  /\ UNCHANGED <<wrapperVars, linked, cut, found>>

MakeDirectory ==
  /\ ScriptStep("mkdir", "idle")
  /\ directory' = TRUE
  /\ UNCHANGED <<wrapperVars, linked, cut, found>>

Next ==
  \/ \E w \in Wrappers :
       \/ Open(w) \/ Log(w) \/ Dump(w) \/ Fork(w) \/ ChildRuns(w) \/ ChildFails(w) \/ Wait(w)
       \/ Exit(w) \/ Crash(w)
       \/ Close(w) \/ Exists(w) \/ Size(w) \/ RemoveLog(w)
       \/ PurgeOne(w)
  \/ PurgeFind \/ PurgeEnd \/ RemoveFiles \/ RemoveDirectory \/ MakeDirectory

Spec == Init /\ [][Next]_vars
-----------------------------------------------------------------------------
(***************************************************************************)
(* Properties.                                                             *)
(***************************************************************************)
Stages == {"start", "run", "forked", "waiting", "close", "exists", "size", "remove",
           "exited", "failed", "aborted", "crashed"}

(* The variables have their types; a child is in the destructor or nowhere. *)
TypeOK ==
  /\ pc \in [Wrappers -> Stages]
  /\ opened \in [Wrappers -> BOOLEAN] /\ linked \in [Wrappers -> BOOLEAN]
  /\ child \in [Wrappers -> BOOLEAN] /\ cut \in [Wrappers -> BOOLEAN]
  /\ \A w \in Wrappers :
       /\ calls[w] \in Seq(Severities \cup {DUMP}) /\ Len(calls[w]) <= MaxCalls[w]
       /\ Written(w) \subseteq DOMAIN calls[w]
       /\ failed[w] \subseteq 0 .. MaxCalls[w]
       /\ child[w] => pc[w] \in {"close", "exists", "size", "remove"}
       /\ linked[w] => directory /\ opened[w] /\ ~special[w]
  /\ directory \in BOOLEAN /\ script \in {"idle", "purge", "rmdir", "mkdir"}
  /\ found \subseteq Wrappers

(* The calls of a wrapper that are at its level. *)
Enabled(w) == {k \in DOMAIN calls[w] : calls[w][k] >= level[w] \/ calls[w][k] = DUMP}

(* Before each line stand all lines that were logged before it. *)
Ordered(file) ==
  \A p \in DOMAIN file : \A k \in ToSet(file) : k < file[p] => \E q \in 1 .. p - 1 : file[q] = k

Increasing(file) == \A p, q \in DOMAIN file : p < q => file[p] < file[q]

(***************************************************************************)
(* A wrapper that has ended leaves its log: no file if it had nothing to   *)
(* say, else exactly the lines at its level, in their order and each once. *)
(* Children that could not start their program may repeat lines, and none  *)
(* adds or takes one; but one that failed before there was a line has      *)
(* removed the file, and so may the script have.                           *)
(***************************************************************************)
LogKept ==
  \A w \in Wrappers :
    pc[w] = "exited" /\ ~cut[w] =>
      /\ linked[w] <=> Enabled(w) # {} /\ 0 \notin failed[w]
      /\ ToSet(disk[w]) = Enabled(w) /\ Ordered(disk[w])
      /\ failed[w] = {} => Increasing(disk[w])

(***************************************************************************)
(* The status of a wrapper is its own, whatever becomes of its log: but it *)
(* ends with 1 if there was no directory for the log, and is aborted if    *)
(* the log is no regular file or was taken away by the script.             *)
(***************************************************************************)
StatusKept ==
  \A w \in Wrappers :
    /\ pc[w] = "failed" => ~opened[w]
    /\ pc[w] = "aborted" => special[w] \/ cut[w]
    /\ pc[w] = "exited" => opened[w] /\ ~special[w]
=============================================================================
