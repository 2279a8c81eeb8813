----------------------------- MODULE Dictionary -----------------------------
(***************************************************************************)
(* The dictionary that DEFINE_DICTIONARY of runtime/common/dictionary.h    *)
(* generates: a table of a fixed capacity with linear probing, one of      *)
(* whose callers works on it at a time.  A call is as many steps as its    *)
(* probe has turns.  calloc() does not fail.                               *)
(***************************************************************************)
EXTENDS Integers, FiniteSets

CONSTANTS
  Keys, Values,
  Capacity,      (* _capacity, the argument of new                          *)
  Hash,          (* Hash[k] is what the user's hash function gives for k    *)
  NoEntry,       (* a null bucket                                           *)
  NoKey, NoValue

Slots == 0 .. Capacity - 1
NoSlot == -1
Entry == [key : Keys, value : Values]

ASSUME CapacityAssumption == Capacity \in Nat \ {0}
(* The hash functions of the repository clear the sign of what they give. *)
ASSUME HashAssumption == Hash \in [Keys -> Nat]
ASSUME NoEntryAssumption == NoEntry \notin Entry
ASSUME NoKeyAssumption == NoKey \notin Keys /\ NoValue \notin Values

VARIABLES
  buckets,   (* _buckets                                                    *)
  size,      (* _size                                                       *)
  pc,        (* the function the caller is in, idle, or deleted             *)
  key,       (* its argument key                                            *)
  value,     (* its argument value                                          *)
  i,         (* where its probe is                                          *)
  result,    (* the bucket whose value the last get points to, or NoSlot    *)
  held       (* history: the key of that get                                *)

vars == <<buckets, size, pc, key, value, i, result, held>>

Home(k) == Hash[k] % Capacity

(* Mutants of Succ: the probe stays at the last slot, or leaves the table. *)
SuccStays(s) == IF s + 1 = Capacity THEN s ELSE s + 1
SuccUnwrapped(s) == s + 1

Succ(s) == (s + 1) % Capacity

Occupied == {s \in Slots : buckets[s] # NoEntry}

Init ==
  /\ buckets = [s \in Slots |-> NoEntry]
  /\ size = 0
  /\ pc = "idle"
  /\ key \in Keys /\ value \in Values
  /\ i = 0
  /\ result = NoSlot /\ held = NoKey
-----------------------------------------------------------------------------
CallGet ==
  /\ pc = "idle"
  /\ \E k \in Keys : key' = k /\ i' = Home(k)
  /\ pc' = "get"
  /\ UNCHANGED <<buckets, size, value, result, held>>

CallPut ==
  /\ pc = "idle"
  /\ \E k \in Keys : key' = k /\ i' = Home(k)
  /\ value' \in Values
  /\ pc' = "put"
  /\ UNCHANGED <<buckets, size, result, held>>

(* A turn of the loop of probe_for_hit: a bucket with another key. *)
ProbeForHit ==
  /\ pc \in {"get", "put"}
  /\ buckets[i] # NoEntry /\ buckets[i].key # key
  /\ i' = Succ(i)
  /\ UNCHANGED <<buckets, size, pc, key, value, result, held>>

(* probe_for_hit returns a bucket that holds the key. *)
Hit == buckets[i] # NoEntry /\ buckets[i].key = key

GetHit ==
  /\ pc = "get" /\ Hit
  /\ result' = i /\ held' = key
  /\ pc' = "idle"
  /\ UNCHANGED <<buckets, size, key, value, i>>

GetMiss ==
  /\ pc = "get" /\ buckets[i] = NoEntry
  /\ result' = NoSlot /\ held' = NoKey
  /\ pc' = "idle"
  /\ UNCHANGED <<buckets, size, key, value, i>>

Overwrite ==
  /\ pc = "put" /\ Hit
  /\ buckets' = [buckets EXCEPT ![i].value = value]
  /\ pc' = "idle"
  /\ UNCHANGED <<size, key, value, i, result, held>>

(* A mutant of PutMiss: put does not look for its key. *)
PutMissAlways ==
  /\ pc = "put"
  /\ i' = Home(key)
  /\ pc' = "free"
  /\ UNCHANGED <<buckets, size, key, value, result, held>>

(* put starts anew in probe_for_free. *)
PutMiss ==
  /\ pc = "put" /\ buckets[i] = NoEntry
  /\ i' = Home(key)
  /\ pc' = "free"
  /\ UNCHANGED <<buckets, size, key, value, result, held>>

(* A mutant of ProbeForFree: it goes on by another stride than probe_for_hit. *)
ProbeForFreeStride ==
  /\ pc = "free" /\ buckets[i] # NoEntry
  /\ i' = Succ(Succ(i))
  /\ UNCHANGED <<buckets, size, pc, key, value, result, held>>

ProbeForFree ==
  /\ pc = "free" /\ buckets[i] # NoEntry
  /\ i' = Succ(i)
  /\ UNCHANGED <<buckets, size, pc, key, value, result, held>>

(* A mutant of Insert: whatever is in the bucket is overwritten. *)
InsertAnywhere ==
  /\ pc = "free"
  /\ buckets' = [buckets EXCEPT ![i] = [key |-> key, value |-> value]]
  /\ size' = size + 1
  /\ pc' = "idle"
  /\ UNCHANGED <<key, value, i, result, held>>

Insert ==
  /\ pc = "free" /\ buckets[i] = NoEntry
  /\ buckets' = [buckets EXCEPT ![i] = [key |-> key, value |-> value]]
  /\ size' = size + 1
  /\ pc' = "idle"
  /\ UNCHANGED <<key, value, i, result, held>>

(* The caller writes through the pointer it got, as ++( *value) does. *)
WriteThrough ==
  /\ pc = "idle" /\ result # NoSlot
  /\ \E v \in Values : buckets' = [buckets EXCEPT ![result].value = v]
  /\ UNCHANGED <<size, pc, key, value, i, result, held>>

Delete ==
  /\ pc = "idle"
  /\ pc' = "deleted"
  /\ UNCHANGED <<buckets, size, key, value, i, result, held>>

Work == ProbeForHit \/ GetHit \/ GetMiss \/ Overwrite \/ PutMiss \/ ProbeForFree \/ Insert

Next == CallGet \/ CallPut \/ Work \/ WriteThrough \/ Delete

Spec == Init /\ [][Next]_vars

(* A call that has begun goes on. *)
FairSpec == Spec /\ WF_vars(Work)
-----------------------------------------------------------------------------
(* The variables have their types. *)
TypeOK ==
  /\ buckets \in [Slots -> Entry \cup {NoEntry}]
  /\ size \in Nat
  /\ pc \in {"idle", "get", "put", "free", "deleted"}
  /\ key \in Keys /\ value \in Values
  /\ i \in Slots
  /\ result \in Slots \cup {NoSlot}
  /\ held \in Keys \cup {NoKey}

(* No key is in two buckets: put never adds what is there already, though  *)
(* it looks for the key and for a free bucket in two probes.               *)
UniqueKeys ==
  \A s, t \in Occupied : buckets[s].key = buckets[t].key => s = t

(* The slots a probe from h meets before it is at s. *)
Before(h, s) ==
  IF h <= s THEN h .. s - 1 ELSE {t \in Slots : t >= h \/ t < s}

(* Whatever is in the table is found: a probe for it meets no null bucket. *)
NoHoles == \A s \in Occupied : Before(Home(buckets[s].key), s) \subseteq Occupied

(* _size counts the buckets in use. *)
SizeCounts == size = Cardinality(Occupied)

(* The pointer a get returned goes on pointing to the value of its key. *)
PointerGood ==
  /\ result = NoSlot <=> held = NoKey
  /\ result # NoSlot => result \in Occupied /\ buckets[result].key = held

Stays == \A s \in Occupied : s \in Occupied' /\ buckets'[s].key = buckets[s].key

(* What is in a bucket stays in it, whatever is put afterwards: no call    *)
(* moves, drops or renames an entry, as the pointers that get() has        *)
(* returned rely on.                                                       *)
EntriesStay == [][Stays]_vars

(* The two probes of a put and the one of a get: they have only met other  *)
(* keys, and put looks for a free bucket only if the key is not there and  *)
(* a bucket is free.                                                       *)
ProbeState ==
  /\ pc \in {"get", "put"} =>
       \A s \in Before(Home(key), i) : s \in Occupied /\ buckets[s].key # key
  /\ pc = "free" =>
       /\ Before(Home(key), i) \subseteq Occupied
       /\ \A s \in Occupied : buckets[s].key # key
       /\ Occupied # Slots

GoesRound == Occupied = Slots /\ \A s \in Slots : buckets[s].key # key

(* A call ends unless the table is full and does not have its key: then    *)
(* the loop of probe_for_hit goes round for ever.                          *)
CallEnds == pc \in {"get", "put", "free"} ~> (pc = "idle" \/ GoesRound)
-----------------------------------------------------------------------------
(***************************************************************************)
(* The dictionary implements a map.                                        *)
(***************************************************************************)
SlotOf(k) == CHOOSE s \in Occupied : buckets[s].key = k

abstractMap ==
  [k \in Keys |-> IF \E s \in Occupied : buckets[s].key = k
                  THEN buckets[SlotOf(k)].value ELSE NoValue]

abstractCall ==
  CASE pc = "idle" -> <<"idle">>
    [] pc = "deleted" -> <<"deleted">>
    [] pc = "get" -> <<"get", key>>
    [] pc \in {"put", "free"} -> <<"put", key, value>>

Map == INSTANCE DictionaryMap WITH map <- abstractMap, call <- abstractCall

(* Each get and put does at once, at its last step, what a map does. *)
ImplementsMap == Map!MapSpec
=============================================================================
