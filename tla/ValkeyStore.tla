---------------------------- MODULE ValkeyStore -----------------------------
(***************************************************************************)
(* The store of creative records, one Valkey command at a time.            *)
(*                                                                         *)
(* Set and Delete keep a sorted set, the time index, beside the records.   *)
(* Neither is atomic, and nothing stops goroutines (or instances of the    *)
(* normalizer) from running them on one key together.  Module Pipeline     *)
(* treats Set and Delete as one step, which is what they are for the       *)
(* record; here it is the index that matters.  Module Paging adds List,    *)
(* which reads the index and then the records.                             *)
(***************************************************************************)
EXTENDS Naturals, FiniteSets

CONSTANTS
    Keys,          \* creative ids
    Clients,       \* goroutines that call the store
    NoKey,         \* the key of a client that is at work on none
    CommandsFail   \* may a Valkey command fail?

ASSUME StoreAssumption == CommandsFail \in BOOLEAN /\ NoKey \notin Keys

Setting  == {"set", "persist", "zadd"}
Deleting == {"del", "zrem"}

VARIABLES
    db,      \* Valkey: the keys that hold a record
    index,   \* Valkey: the members of the time index
    pc,      \* per client: the command it sends next, or "idle"
    key,     \* per client: the key it sets or deletes
    alone,   \* history, per client: no opposite operation has overlapped
    torn     \* history: keys last written by an operation that was cut
             \* short or overlapped an opposite one

valkeyVars  == <<db, index>>
clientVars  == <<pc, key>>
historyVars == <<alone, torn>>
vars == <<valkeyVars, clientVars, historyVars>>

TypeOK ==
    /\ db \in SUBSET Keys
    /\ index \in SUBSET Keys
    /\ pc \in [Clients -> {"idle"} \cup Setting \cup Deleting]
    /\ key \in [Clients -> Keys \cup {NoKey}]
    /\ \A p \in Clients : key[p] = NoKey <=> pc[p] = "idle"
    /\ alone \in [Clients -> BOOLEAN]
    /\ torn \in SUBSET Keys

Init ==
    /\ db = {}
    /\ index = {}
    /\ pc = [p \in Clients |-> "idle"]
    /\ key = [p \in Clients |-> NoKey]
    /\ alone = [p \in Clients |-> TRUE]
    /\ torn = {}

-----------------------------------------------------------------------------
(* Clients at work on k with an operation of the given kind.               *)
Working(k, kind) == {p \in Clients : pc[p] \in kind /\ key[p] = k}

(* Client p starts an operation on k; whoever is at the opposite operation *)
(* is no longer alone, nor is p.                                           *)
Start(p, k, command, opposite) ==
    /\ pc[p] = "idle"
    /\ pc' = [pc EXCEPT ![p] = command]
    /\ key' = [key EXCEPT ![p] = k]
    /\ alone' = [q \in Clients |->
                   IF q = p THEN Working(k, opposite) = {}
                   ELSE alone[q] /\ q \notin Working(k, opposite)]
    /\ UNCHANGED <<valkeyVars, torn>>

StartSet(p, k)    == Start(p, k, "set", Deleting)
StartDelete(p, k) == Start(p, k, "del", Setting)

(* The reply arrives and the operation goes on.                            *)
Continue(p, next) ==
    /\ pc' = [pc EXCEPT ![p] = next]
    /\ UNCHANGED <<key, historyVars>>

(* The operation is over.                                                  *)
Rest(p) ==
    /\ pc' = [pc EXCEPT ![p] = "idle"]
    /\ key' = [key EXCEPT ![p] = NoKey]
    /\ alone' = [alone EXCEPT ![p] = TRUE]

(* It is complete, and settles what it wrote if it was alone.              *)
Complete(p) ==
    /\ Rest(p)
    /\ torn' = IF alone[p] THEN torn \ {key[p]} ELSE torn \cup {key[p]}

(* A command fails, applied or not, or the client dies: the rest of the    *)
(* operation is not carried out.                                           *)
CutShort(p) ==
    /\ CommandsFail
    /\ Rest(p)
    /\ torn' = torn \cup {key[p]}

-----------------------------------------------------------------------------
(* Set: SET, then PERSIST, then ZADD on the time index.                    *)

(* Mutation: the record is given a TTL, which nothing else expects.        *)
SetRecordWithTtl(p) ==
    /\ pc[p] = "set"
    /\ db' = db \cup {key[p]}
    /\ Continue(p, "expire")
    /\ UNCHANGED index

SetRecord(p) ==
    /\ pc[p] = "set"
    /\ \/ db' = db \cup {key[p]} /\ Continue(p, "persist")
       \/ db' \in {db, db \cup {key[p]}} /\ CutShort(p)
    /\ UNCHANGED index

(* No record in use expires: PERSIST changes nothing.                      *)
Persist(p) ==
    /\ pc[p] = "persist"
    /\ Continue(p, "zadd") \/ CutShort(p)
    /\ UNCHANGED valkeyVars

UpdateTimeIndex(p) ==
    /\ pc[p] = "zadd"
    /\ \/ index' = index \cup {key[p]} /\ Complete(p)
       \/ index' \in {index, index \cup {key[p]}} /\ CutShort(p)
    /\ UNCHANGED db

(* Delete: DEL, then ZREM on the time index.                               *)

DeleteRecord(p) ==
    /\ pc[p] = "del"
    /\ \/ db' = db \ {key[p]} /\ Continue(p, "zrem")
       \/ db' \in {db, db \ {key[p]}} /\ CutShort(p)
    /\ UNCHANGED index

(* Mutation: Delete stops short of the time index.                         *)
DeleteFromNothing(p) ==
    /\ pc[p] = "zrem"
    /\ Complete(p) \/ CutShort(p)
    /\ UNCHANGED valkeyVars

DeleteFromTimeIndex(p) ==
    /\ pc[p] = "zrem"
    /\ \/ index' = index \ {key[p]} /\ Complete(p)
       \/ index' \in {index, index \ {key[p]}} /\ CutShort(p)
    /\ UNCHANGED db

-----------------------------------------------------------------------------
SetStep(p)    == SetRecord(p) \/ Persist(p) \/ UpdateTimeIndex(p)
DeleteStep(p) == DeleteRecord(p) \/ DeleteFromTimeIndex(p)

Next ==
    \E p \in Clients :
        \/ \E k \in Keys : StartSet(p, k) \/ StartDelete(p, k)
        \/ SetStep(p) \/ DeleteStep(p)

Spec == Init /\ [][Next]_vars

-----------------------------------------------------------------------------
(* Once nobody is at work on a key, it is in the time index exactly if it  *)
(* holds a record, unless the last writes of the key overlapped each other *)
(* in opposite directions or were cut short; and one undisturbed Set or    *)
(* Delete mends what those left behind.                                    *)
IndexMatchesRecords ==
    \A k \in Keys \ torn :
        Working(k, Setting \cup Deleting) = {} => (k \in index <=> k \in db)
=============================================================================
