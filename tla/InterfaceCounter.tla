-------------------------- MODULE InterfaceCounter --------------------------
(***************************************************************************)
(* The runtime of the interface counter, linked into an instrumented       *)
(* program: runtime/jni/interface_counter/runtime.c with the functions it  *)
(* expands from runtime/common/dictionary.h.  All threads of the program   *)
(* call __before_interface_call(), which takes no lock: the table, the     *)
(* counter and the stream are shared, and a step is one access to them.    *)
(***************************************************************************)
EXTENDS Integers, Sequences, FiniteSets

CONSTANTS
  Threads,
  Main,          (* the thread that returns from main() or calls exit()     *)
  Names,         (* the interfaces                                          *)
  Uses,          (* Uses[t] are the interfaces thread t calls               *)
  Capacity,      (* the argument of Dict_new()                              *)
  Home,          (* Home[n] is Dict_hash(n) % Capacity                      *)
  SaveInterval,  (* SAVE_INTERVAL                                           *)
  Ten,           (* the least count that is printed with two digits         *)
  MaxCalls,      (* the bound on the calls of a thread                      *)
  Null,          (* a null bucket                                           *)
  NoName         (* the null key of an entry fresh from calloc()            *)

Slots == 0 .. Capacity - 1

ASSUME ThreadsAssumption == Main \in Threads /\ Uses \in [Threads -> SUBSET Names]
ASSUME FiniteAssumption == IsFiniteSet(Threads) /\ IsFiniteSet(Names)
ASSUME TableAssumption == Capacity \in Nat \ {0} /\ Home \in [Names -> Slots]
ASSUME BoundsAssumption ==
  SaveInterval \in Nat \ {0} /\ MaxCalls \in Nat \ {0} /\ Ten \in Nat
ASSUME NullAssumption == Null \notin Threads \X (1 .. MaxCalls) /\ NoName \notin Names

(* The calls; an entry of the table has the name of the call that made it. *)
Calls == Threads \X (1 .. MaxCalls)

Entry == [key : Names \cup {NoName}, value : Nat]
Line  == [name : Names \cup {NoName}, value : Nat]

(***************************************************************************)
(* A file that is rewound and written over: the lines written since then,  *)
(* the position behind them, and the length of the file, which a rewind    *)
(* does not change.  What is behind the position is a rest of older text.  *)
(***************************************************************************)
Text == [lines : Seq(Line), at : Nat, length : Nat]
Empty == [lines |-> <<>>, at |-> 0, length |-> 0]

VARIABLES
  buckets,   (* the entry each bucket points to, or Null                    *)
  entries,   (* the entries                                                 *)
  counter,   (* the static counter                                          *)
  joined,    (* whether the program waits for its threads before it exits   *)
  opened,    (* whether fopen() gave a stream                               *)
  stream,    (* what the stream has written                                 *)
  disk,      (* what of it has left its buffer: what a kill leaves          *)
  life,      (* running, exiting (in runtime_exit), exited or crashed       *)
  pc,        (* where each thread is                                        *)
  calls,     (* the names it has called, the last one its call of now       *)
  i,         (* the index of its probe or of its save                       *)
  ptr,       (* the entry it has a pointer to                               *)
  tmp,       (* what it has read of a value or of the counter               *)
  hits,      (* history: the calls that have stored into each entry         *)
  cause      (* history: why the program crashed, at which name             *)

table == <<buckets, entries, hits>>
fixed == <<joined, opened>>
file  == <<fixed, stream, disk>>
vars  == <<table, file, counter, life, pc, calls, i, ptr, tmp, cause>>

Call(t) == <<t, Len(calls[t])>>
Name(t) == calls[t][Len(calls[t])]

Fresh == [key |-> NoName, value |-> 0]

Init ==
  /\ buckets = [s \in Slots |-> Null]
  /\ entries = [e \in Calls |-> Fresh]
  /\ counter = 0
  /\ joined \in BOOLEAN
  /\ opened \in BOOLEAN /\ stream = Empty /\ disk = Empty
  /\ life = "running"
  /\ pc = [t \in Threads |-> "idle"]
  /\ calls = [t \in Threads |-> <<>>]
  /\ i = [t \in Threads |-> 0]
  /\ ptr = [t \in Threads |-> Null]
  /\ tmp = [t \in Threads |-> 0]
  /\ hits = [e \in Calls |-> {}]
  /\ cause = <<"none", NoName>>
-----------------------------------------------------------------------------
Alive == life \in {"running", "exiting"}
At(t, stage) == pc[t] = stage /\ Alive
Goto(t, stage) == pc' = [pc EXCEPT ![t] = stage]

Crash(why, n) == life' = "crashed" /\ cause' = <<why, n>>

(* Mutants of Succ: the probe stays at the last slot, or leaves the table. *)
SuccStays(s) == IF s + 1 = Capacity THEN s ELSE s + 1
SuccUnwrapped(s) == s + 1

Succ(s) == (s + 1) % Capacity

(* A thread calls an interface, and begins with the probe of Dict_get(). *)
BeforeInterfaceCall(t) ==
  /\ pc[t] = "idle"
  /\ \/ life = "running"
     \/ ~joined /\ t # Main /\ life \in {"exiting", "exited"}
  /\ Len(calls[t]) < MaxCalls
  /\ \E n \in Uses[t] :
       /\ calls' = [calls EXCEPT ![t] = Append(@, n)]
       /\ i' = [i EXCEPT ![t] = Home[n]]
  /\ Goto(t, "get")
  /\ UNCHANGED <<table, file, counter, life, ptr, tmp, cause>>

(***************************************************************************)
(* A turn of the loop of Dict_probe_for_hit().  A null bucket ends it as   *)
(* the name itself does.  strcmp() with the key of an entry that another   *)
(* thread has not filled yet reads from null.                              *)
(***************************************************************************)
ProbeForHit(t, probing, found) ==
  LET e == buckets[i[t]]
      key == IF e = Null THEN Name(t) ELSE entries[e].key
  IN /\ At(t, probing)
     /\ \/ /\ key \notin {Name(t), NoName}
           /\ i' = [i EXCEPT ![t] = Succ(@)]
           /\ UNCHANGED <<pc, life, cause>>
        \/ /\ key = Name(t)
           /\ Goto(t, found)
           /\ UNCHANGED <<i, life, cause>>
        \/ /\ key = NoName
           /\ Crash("half", Name(t))
           /\ UNCHANGED <<pc, i>>
     /\ UNCHANGED <<table, file, counter, calls, ptr, tmp>>

(***************************************************************************)
(* Dict_get() reads the bucket anew once the probe has ended: it may have  *)
(* an entry by now, of any name.  ++( *value) reads the count ...          *)
(***************************************************************************)
GetHit(t) ==
  LET e == buckets[i[t]]
  IN /\ At(t, "got") /\ e # Null
     /\ ptr' = [ptr EXCEPT ![t] = e]
     /\ tmp' = [tmp EXCEPT ![t] = entries[e].value]
     /\ Goto(t, "increment")
     /\ UNCHANGED <<table, file, counter, life, calls, i, cause>>

(* Call t stores count v into entry e. *)
Store(t, e, v) ==
  /\ entries' = [entries EXCEPT ![e].value = v]
  /\ hits' = [hits EXCEPT ![e] = @ \cup {Call(t)}]

(* ... and writes it back. *)
Increment(t) ==
  /\ At(t, "increment")
  /\ Store(t, ptr[t], tmp[t] + 1)
  /\ Goto(t, "count")
  /\ UNCHANGED <<buckets, file, counter, life, calls, i, ptr, tmp, cause>>

(* Dict_put() after a get() without result looks for the name again. *)
GetMiss(t) ==
  /\ At(t, "got") /\ buckets[i[t]] = Null
  /\ i' = [i EXCEPT ![t] = Home[Name(t)]]
  /\ Goto(t, "put")
  /\ UNCHANGED <<table, file, counter, life, calls, ptr, tmp, cause>>

(* Dict_put() finds an entry in the bucket now: it gets the count 1. *)
Overwrite(t) ==
  LET e == buckets[i[t]]
  IN /\ At(t, "found") /\ e # Null
     /\ Store(t, e, 1)
     /\ Goto(t, "count")
     /\ UNCHANGED <<buckets, file, counter, life, calls, i, ptr, tmp, cause>>

PutMiss(t) ==
  /\ At(t, "found") /\ buckets[i[t]] = Null
  /\ i' = [i EXCEPT ![t] = Home[Name(t)]]
  /\ Goto(t, "free")
  /\ UNCHANGED <<table, file, counter, life, calls, ptr, tmp, cause>>

(* A turn of the loop of Dict_probe_for_free(). *)
ProbeForFree(t) ==
  /\ At(t, "free")
  /\ IF buckets[i[t]] # Null
     THEN i' = [i EXCEPT ![t] = Succ(@)] /\ UNCHANGED pc
     ELSE Goto(t, "alloc") /\ UNCHANGED i
  /\ UNCHANGED <<table, file, counter, life, calls, ptr, tmp, cause>>

(* The bucket gets an entry fresh from calloc(), whatever is in it by now. *)
Alloc(t) ==
  /\ At(t, "alloc")
  /\ buckets' = [buckets EXCEPT ![i[t]] = Call(t)]
  /\ Goto(t, "key")
  /\ UNCHANGED <<entries, hits, file, counter, life, calls, i, ptr, tmp, cause>>

(***************************************************************************)
(* Key and value are stored through the bucket, read anew, or through the  *)
(* pointer that calloc() gave, as the compiler likes.                      *)
(***************************************************************************)
Target(t) == {Call(t), buckets[i[t]]}

(* A mutant of SetKey: the key is not copied. *)
SetKeyDropped(t) ==
  /\ At(t, "key")
  /\ Goto(t, "value")
  /\ UNCHANGED <<table, file, counter, life, calls, i, ptr, tmp, cause>>

SetKey(t) ==
  /\ At(t, "key")
  /\ \E e \in Target(t) : entries' = [entries EXCEPT ![e].key = Name(t)]
  /\ Goto(t, "value")
  /\ UNCHANGED <<buckets, hits, file, counter, life, calls, i, ptr, tmp, cause>>

(* A mutant of SetValue: the count starts with 0. *)
SetValueZero(t) ==
  /\ At(t, "value")
  /\ \E e \in Target(t) : Store(t, e, 0)
  /\ Goto(t, "count")
  /\ UNCHANGED <<buckets, file, counter, life, calls, i, ptr, tmp, cause>>

(* A mutant of SetValue: the call that was put is then looked up and counted. *)
SetValueThenGet(t) ==
  /\ At(t, "value")
  /\ \E e \in Target(t) : Store(t, e, 1)
  /\ Goto(t, "got")
  /\ UNCHANGED <<buckets, file, counter, life, calls, i, ptr, tmp, cause>>

SetValue(t) ==
  /\ At(t, "value")
  /\ \E e \in Target(t) : Store(t, e, 1)
  /\ Goto(t, "count")
  /\ UNCHANGED <<buckets, file, counter, life, calls, i, ptr, tmp, cause>>
-----------------------------------------------------------------------------
(* ++counter reads the counter ... *)
ReadCounter(t) ==
  /\ At(t, "count")
  /\ tmp' = [tmp EXCEPT ![t] = counter]
  /\ Goto(t, "bump")
  /\ UNCHANGED <<table, file, counter, life, calls, i, ptr, cause>>

(* ... writes it back and compares what it wrote. *)
Bump(t) ==
  /\ At(t, "bump")
  /\ counter' = tmp[t] + 1
  /\ Goto(t, IF tmp[t] + 1 >= SaveInterval THEN "rewind" ELSE "idle")
  /\ UNCHANGED <<table, file, life, calls, i, ptr, tmp, cause>>

(* The main thread returns: runtime_exit() begins with a save. *)
Exit ==
  /\ pc[Main] = "idle" /\ life = "running"
  /\ joined => \A t \in Threads : pc[t] = "idle"
  /\ life' = "exiting"
  /\ Goto(Main, "rewind")
  /\ UNCHANGED <<table, file, counter, calls, i, ptr, tmp, cause>>
-----------------------------------------------------------------------------
(***************************************************************************)
(* save_to_file().  rewind() writes out what is in the stream's buffer,    *)
(* and reads from null if there is no stream.                              *)
(***************************************************************************)
(* A mutant of Rewind: the stream goes on where it was. *)
RewindDropped(t) ==
  /\ At(t, "rewind")
  /\ IF opened
     THEN /\ i' = [i EXCEPT ![t] = 0]
          /\ Goto(t, "print")
          /\ UNCHANGED <<stream, disk, life, cause>>
     ELSE /\ Crash("stream", NoName)
          /\ UNCHANGED <<stream, disk, pc, i>>
  /\ UNCHANGED <<table, fixed, counter, calls, ptr, tmp>>

Rewind(t) ==
  /\ At(t, "rewind")
  /\ IF opened
     THEN /\ disk' = stream
          /\ stream' = [lines |-> <<>>, at |-> 0, length |-> stream.length]
          /\ i' = [i EXCEPT ![t] = 0]
          /\ Goto(t, "print")
          /\ UNCHANGED <<life, cause>>
     ELSE /\ Crash("stream", NoName)
          /\ UNCHANGED <<stream, disk, pc, i>>
  /\ UNCHANGED <<table, fixed, counter, calls, ptr, tmp>>

(* A line is a name, all of which are equally long, a blank, the count and *)
(* a newline.  A name that is null is printed as such.                     *)
Width(line) == IF line.value < Ten THEN 4 ELSE 5

(* The larger of two lengths. *)
Longer(a, b) == IF a > b THEN a ELSE b

Written(line) ==
  LET end == stream.at + Width(line)
  IN [lines |-> Append(stream.lines, line), at |-> end,
      length |-> Longer(end, stream.length)]

(***************************************************************************)
(* A turn of the loop over the buckets.  The buffer is written out when it *)
(* is full, after any line.                                                *)
(***************************************************************************)
PrintBucket(t) ==
  LET e == buckets[i[t]]
  IN /\ At(t, "print") /\ i[t] < Capacity
     /\ IF e = Null THEN UNCHANGED <<stream, disk>>
        ELSE /\ stream' = Written([name |-> entries[e].key, value |-> entries[e].value])
             /\ disk' \in {disk, stream'}
     /\ i' = [i EXCEPT ![t] = @ + 1]
     /\ UNCHANGED <<table, fixed, counter, life, pc, calls, ptr, tmp, cause>>

Flush(t) ==
  /\ At(t, "print") /\ i[t] = Capacity
  /\ disk' = stream
  /\ i' = [i EXCEPT ![t] = 0]
  /\ Goto(t, IF t = Main /\ life = "exiting" THEN "close" ELSE "reset")
  /\ UNCHANGED <<table, fixed, stream, counter, life, calls, ptr, tmp, cause>>

(* The caller of save_to_file() begins a new interval. *)
Reset(t) ==
  /\ At(t, "reset")
  /\ counter' = 0
  /\ Goto(t, "idle")
  /\ UNCHANGED <<table, file, life, calls, i, ptr, tmp, cause>>

(* runtime_exit() closes the stream, which writes its buffer out, deletes  *)
(* the table and forgets it.                                               *)
Close ==
  /\ At(Main, "close")
  /\ disk' = stream
  /\ life' = "exited"
  /\ Goto(Main, "idle")
  /\ UNCHANGED <<table, fixed, stream, counter, calls, i, ptr, tmp, cause>>

(* A thread that is still at work then uses what is gone. *)
UseAfterExit(t) ==
  /\ life = "exited" /\ pc[t] # "idle"
  /\ Crash("exit", NoName)
  /\ UNCHANGED <<table, file, counter, pc, calls, i, ptr, tmp>>
-----------------------------------------------------------------------------
(* The steps of a call that has begun, and of the save at the exit. *)
Work(t) ==
  \/ ProbeForHit(t, "get", "got") \/ GetHit(t) \/ Increment(t) \/ GetMiss(t)
  \/ ProbeForHit(t, "put", "found") \/ Overwrite(t) \/ PutMiss(t)
  \/ ProbeForFree(t) \/ Alloc(t) \/ SetKey(t) \/ SetValue(t)
  \/ ReadCounter(t) \/ Bump(t)
  \/ Rewind(t) \/ PrintBucket(t) \/ Flush(t) \/ Reset(t)
  \/ UseAfterExit(t)

Next ==
  \/ \E t \in Threads : BeforeInterfaceCall(t) \/ Work(t)
  \/ Exit \/ Close

Spec == Init /\ [][Next]_vars

(* The system runs every thread. *)
FairSpec == Spec /\ WF_vars(Close) /\ \A t \in Threads : WF_vars(Work(t))
-----------------------------------------------------------------------------
(***************************************************************************)
(* Properties.                                                             *)
(***************************************************************************)
Stages == {"idle", "get", "got", "increment", "put", "found", "free", "alloc", "key",
           "value", "count", "bump", "rewind", "print", "reset", "close"}

(* A probe is in the table, a thread that counts is in a call, a pointer    *)
(* that is used points to an entry, a bucket that was filled is not null.  *)
InPlace(t) ==
  /\ pc[t] \notin {"idle", "rewind", "print", "reset", "close"} =>
       Len(calls[t]) \in 1 .. MaxCalls
  /\ i[t] = Capacity => pc[t] = "print"
  /\ pc[t] = "increment" => ptr[t] \in Calls
  /\ pc[t] \in {"key", "value"} => buckets[i[t]] # Null

(* The variables have their types: a probe stays in the table, and a       *)
(* pointer that is used is one to an entry.                                *)
TypeOK ==
  /\ buckets \in [Slots -> Calls \cup {Null}]
  /\ entries \in [Calls -> Entry] /\ hits \in [Calls -> SUBSET Calls]
  /\ counter \in Nat
  /\ joined \in BOOLEAN /\ opened \in BOOLEAN
  /\ stream \in Text /\ disk \in Text
  /\ life \in {"running", "exiting", "exited", "crashed"}
  /\ pc \in [Threads -> Stages]
  /\ calls \in [Threads -> Seq(Names)]
  /\ i \in [Threads -> Slots \cup {Capacity}]
  /\ ptr \in [Threads -> Calls \cup {Null}]
  /\ tmp \in [Threads -> Nat]
  /\ cause \in {"none", "stream", "half", "exit"} \X (Names \cup {NoName})
  /\ \A t \in Threads : InPlace(t)

(* How often name n is in a sequence of calls. *)
Times(n, s) == Cardinality({k \in DOMAIN s : s[k] = n})

(* The slots a probe for n may come to: no more are in use than there are  *)
(* pairs of a thread and a name it calls.                                  *)
Pairs == {p \in Threads \X Names : p[2] \in Uses[p[1]]}
Reach(n) == {(Home[n] + d) % Capacity : d \in 0 .. Cardinality(Pairs) - 1}

(* No other thread calls n or a name that may collide with it. *)
Private(n, t) ==
  n \in Uses[t] /\ \A u \in Threads \ {t} : \A m \in Uses[u] : Reach(m) \cap Reach(n) = {}

Recorded(n) == {s \in Slots : buckets[s] # Null /\ entries[buckets[s]].key = n}

(* The races of the other threads cannot reach a name of one thread's own: *)
(* it is in one bucket with exactly as many calls as the thread has made.  *)
CountsExact ==
  \A t \in Threads, n \in Names : pc[t] = "idle" /\ Private(n, t) =>
    LET made == Times(n, calls[t])
    IN IF made = 0 THEN Recorded(n) = {}
       ELSE \E s \in Slots : Recorded(n) = {s} /\ entries[buckets[s]].value = made

(* Calls get lost in races but are never counted twice: each count is      *)
(* covered by calls of its own, whichever threads have written it.         *)
EachCallOnce ==
  /\ \A e \in Calls : entries[e].value <= Cardinality(hits[e])
  /\ \A e, f \in Calls : e # f => hits[e] \cap hits[f] = {}

(* The runtime takes the program down only in a race for one bucket, if it *)
(* has no file, or if a thread outlives main().                            *)
CrashExplained ==
  /\ cause[1] = "stream" => ~opened
  /\ cause[1] = "exit" => ~joined
  /\ cause[1] = "half" => \A t \in Threads : ~Private(cause[2], t)

(* At an orderly exit the text of the last save has the counts of such     *)
(* names, each in one line, whatever saves have overlapped before.  Behind *)
(* that text a rest of overlapping saves may be left.                      *)
FinalCountsExact ==
  life = "exited" /\ opened /\ joined =>
    \A t \in Threads, n \in Names : Private(n, t) =>
      LET made == Times(n, calls[t])
          where == {m \in DOMAIN disk.lines : disk.lines[m].name = n}
      IN IF made = 0 THEN where = {}
         ELSE \E m \in DOMAIN disk.lines : where = {m} /\ disk.lines[m].value = made

(***************************************************************************)
(* What a program with one thread has on its disk: exactly the first k of  *)
(* its calls, and no rest of an older, longer text.                        *)
(***************************************************************************)
OnDisk(k) ==
  LET saved == SubSeq(calls[Main], 1, k)
      names == {saved[m] : m \in DOMAIN saved}
  IN /\ disk.at = disk.length
     /\ Len(disk.lines) = Cardinality(names)
     /\ {disk.lines[m] : m \in DOMAIN disk.lines} =
          {[name |-> n, value |-> Times(n, saved)] : n \in names}

(* Whenever a program with one thread is killed other than in a save, the  *)
(* file has all but less than an interval of its calls; one that exits has *)
(* saved them all.                                                         *)
SavedUpToInterval ==
  opened /\ life # "crashed" /\ pc[Main] # "print" =>
    LET made == Len(calls[Main]) IN
    \E k \in 0 .. made :
      /\ OnDisk(k)
      /\ made - k <= IF pc[Main] = "idle" THEN SaveInterval - 1 ELSE SaveInterval
      /\ life = "exited" => k = made

(* Every call returns, unless the program ends. *)
CallReturns ==
  \A t \in Threads : pc[t] # "idle" ~> pc[t] = "idle" \/ life = "crashed"
=============================================================================
