--------------------------- MODULE DictionaryMap ----------------------------
(***************************************************************************)
(* What the dictionary of runtime/common/dictionary.h promises to its one  *)
(* caller: a map of at most Capacity keys.  A get gives a reference to the *)
(* value of its key, which stays good, and through which the caller may    *)
(* write, until the dictionary is deleted.                                 *)
(***************************************************************************)
EXTENDS Integers, FiniteSets

CONSTANTS Keys, Values, Capacity,
          NoValue,   (* the value of a key that is not in the map           *)
          NoKey      (* no key                                              *)

VARIABLES
  map,       (* the value of every key                                      *)
  call,      (* idle, the call that is on its way, or deleted               *)
  held       (* the key whose value the caller holds a reference to         *)

mapVars == <<map, call, held>>

Idle == <<"idle">>
Deleted == <<"deleted">>
Calls == {Idle, Deleted} \cup {<<"get", k>> : k \in Keys}
           \cup {<<"put", k, v>> : k \in Keys, v \in Values}

Present == {k \in Keys : map[k] # NoValue}

MapInit ==
  /\ map = [k \in Keys |-> NoValue]
  /\ call = Idle
  /\ held = NoKey

Call ==
  /\ call = Idle
  /\ \/ \E k \in Keys : call' = <<"get", k>>
     \/ \E k \in Keys, v \in Values : call' = <<"put", k, v>>
     \/ call' = Deleted
  /\ UNCHANGED <<map, held>>

Get ==
  \E k \in Keys :
    /\ call = <<"get", k>>
    /\ call' = Idle
    /\ held' = IF k \in Present THEN k ELSE NoKey
    /\ UNCHANGED map

Put ==
  \E k \in Keys, v \in Values :
    /\ call = <<"put", k, v>>
    /\ k \in Present \/ Cardinality(Present) < Capacity
    /\ call' = Idle
    /\ map' = [map EXCEPT ![k] = v]
    /\ UNCHANGED held

(* The caller writes through the reference it holds. *)
Write ==
  \E v \in Values :
    /\ call = Idle /\ held # NoKey
    /\ map' = [map EXCEPT ![held] = v]
    /\ UNCHANGED <<call, held>>

MapNext == Call \/ Get \/ Put \/ Write

MapSpec == MapInit /\ [][MapNext]_mapVars
=============================================================================
