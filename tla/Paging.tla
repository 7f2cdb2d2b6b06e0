------------------------------- MODULE Paging -------------------------------
(***************************************************************************)
(* The list of jobs: a client asks for a page and follows the next links,  *)
(* while others set and delete records.                                    *)
(*                                                                         *)
(* The list is the time index, newest first; a Set moves its key to the    *)
(* front, so that pages shift under the client.  Each page is read in      *)
(* three commands.  We take the clocks that score the index for one clock  *)
(* that never goes back, which is what one instance of the normalizer has. *)
(***************************************************************************)
EXTENDS ValkeyStore, Integers, SequencesExt

CONSTANTS
    MaxInt,       \* the largest int, 2^63 - 1 in the code
    Queries       \* the pages and sizes a client may begin with

ASSUME PagingAssumption ==
    /\ MaxInt \in Nat
    /\ IsFiniteSet(Keys) /\ 2 * Cardinality(Keys) < MaxInt
    /\ Queries \subseteq (0 .. MaxInt) \X (1 .. MaxInt)

VARIABLES
    order,        \* Valkey: the members of the time index, newest first
    at,           \* the client: what it waits for, or how its walk ended
    page, size,   \* the client: the page it asks for
    keys,         \* List: the keys of the page
    owed,         \* history: keys the walk has not shown although they were
                  \* listed from its first page on and left alone since
    gone          \* history: keys whose record may be missing since List
                  \* read the index

walkVars == <<at, page, size, keys, owed, gone>>
pagingVars == <<vars, order, walkVars>>

Reading == {"zrevrange", "mget"}
Ended   == {"none", "done", "error"}

PagingTypeOK ==
    /\ TypeOK
    /\ order \in Seq(Keys) /\ IsInjective(order) /\ ToSet(order) = index
    /\ at \in Reading \cup Ended
    /\ page \in -(MaxInt + 1) .. MaxInt /\ size \in 1 .. MaxInt
    /\ keys \in Seq(Keys)
    /\ owed \subseteq index \cap db
    /\ gone \subseteq Keys

PagingInit ==
    /\ Init
    /\ order = <<>>
    /\ at = "none"
    /\ page = 0 /\ size = 1
    /\ keys = <<>>
    /\ owed = {}
    /\ gone = {}

-----------------------------------------------------------------------------
(* The writers.                                                            *)

Without(k) ==
    IF k \in index THEN RemoveAt(order, CHOOSE i \in DOMAIN order : order[i] = k) ELSE order

(* ZADD gives a key the latest score, whether it is new or not.            *)
Zadd(p) ==
    /\ UpdateTimeIndex(p)
    /\ \/ key[p] \in index' /\ order' = <<key[p]>> \o Without(key[p])
       \/ CutShort(p) /\ index' = index /\ order' = order

Zrem(p) ==
    /\ DeleteFromTimeIndex(p)
    /\ order' = IF key[p] \in index' THEN order ELSE Without(key[p])

WriterStep(p) ==
    \/ /\ \/ \E k \in Keys : StartSet(p, k) \/ StartDelete(p, k)
          \/ SetRecord(p) \/ Persist(p) \/ DeleteRecord(p)
       /\ UNCHANGED order
    \/ Zadd(p)
    \/ Zrem(p)

(* A key that is written loses its place or its record, and an entry that  *)
(* leaves the index makes others move up a page: nothing is owed any more. *)
Watch(p) ==
    /\ owed' = IF index \subseteq index'
               THEN owed \ {k \in {key[p]} : pc[p] \in {"zadd", "del", "zrem"}}
               ELSE {}
    /\ gone' = IF pc[p] = "del" THEN gone \cup (ToSet(keys) \cap {key[p]}) ELSE gone

Write(p) ==
    /\ WriterStep(p)
    /\ Watch(p)
    /\ UNCHANGED <<at, page, size, keys>>

-----------------------------------------------------------------------------
(* The client and HandleJobList.                                           *)

(* int arithmetic wraps around.                                            *)
Wrap(n) == ((n + MaxInt + 1) % (2 * (MaxInt + 1))) - (MaxInt + 1)

(* ZREVRANGE: both ends included, counted from the end if negative.        *)
Zrevrange(s, start, stop) ==
    LET fromFront(i) == IF i < 0 THEN Len(s) + i ELSE i
    IN  SubSeq(s, Max({fromFront(start), 0}) + 1, Min({fromFront(stop) + 1, Len(s)}))

(* Mutation: pages are counted from one.                                   *)
PageOfFromOne(s, p, n) ==
    LET start == Wrap((p - 1) * n)
    IN  Zrevrange(s, start, Wrap(start + n - 1))

(* Page p of the list, if a page has n entries.                            *)
PageOf(s, p, n) ==
    LET start == Wrap(p * n)
    IN  Zrevrange(s, start, Wrap(start + n - 1))

(* The client asks for a first page with a query of its own; page and size *)
(* have passed the checks of HandleJobList.                                *)
BeginWalk(p, s) ==
    /\ at \in Ended
    /\ at' = "zrevrange"
    /\ page' = p /\ size' = s
    /\ keys' = <<>> /\ gone' = {}
    /\ owed' = {order[i] : i \in p * s + 1 .. Len(order)} \cap db
    /\ UNCHANGED <<vars, order>>

(* ZCARD follows, for the totalAmount of the answer only.                  *)
ReadIndex ==
    /\ at = "zrevrange"
    /\ at' = "mget"
    /\ keys' = PageOf(order, page, size)
    /\ gone' = ToSet(keys') \cap (torn \cup {key[p] : p \in {q \in Clients : pc[q] \in Deleting}})
    /\ UNCHANGED <<vars, order, page, size, owed>>

(* The places of the page whose record is there, which are the results.    *)
Found == {i \in DOMAIN keys : keys[i] \in db}

(* Mutation: the error of no key is passed over.                           *)
MGetFailsForAny == \E k \in ToSet(keys) : k \notin db

(* Reading a listed key without a record gives an error.  It is passed     *)
(* over, unless it is that of the last key.                                *)
MGetFails == keys # <<>> /\ Last(keys) \notin db

(* Mutation: there is a next link if more came than was asked for.         *)
HasNextOffByOne == Cardinality(Found) > size

(* There is a next link if the page came out full.                         *)
HasNext == Cardinality(Found) = size

(* The answer: 500, or the jobs found.                                     *)
GiveUp ==
    /\ at' = "error"
    /\ owed' = {}
    /\ UNCHANGED <<vars, order, page, size, keys, gone>>

Show(next) ==
    /\ at' = next
    /\ owed' = IF Found = DOMAIN keys THEN owed \ ToSet(keys) ELSE {}
    /\ keys' = <<>> /\ gone' = {}
    /\ UNCHANGED <<vars, order, size>>

(* The client follows the link, but a negative page is refused.            *)
ReadRecords ==
    /\ at = "mget"
    /\ \/ MGetFails /\ GiveUp
       \/ ~MGetFails /\ ~HasNext /\ Show("done") /\ UNCHANGED page
       \/ /\ ~MGetFails /\ HasNext
          /\ page' = Wrap(page + 1)
          /\ Show(IF page' < 0 THEN "none" ELSE "zrevrange")

(* A command fails, List returns its error, and the client gives up.       *)
ListFails ==
    /\ CommandsFail
    /\ at \in Reading
    /\ at' = "none"
    /\ owed' = {} /\ keys' = <<>> /\ gone' = {}
    /\ UNCHANGED <<vars, order, page, size>>

-----------------------------------------------------------------------------
ListStep == ReadIndex \/ ReadRecords \/ ListFails

PagingNext ==
    \/ \E p \in Clients : Write(p)
    \/ \E query \in Queries : BeginWalk(query[1], query[2])
    \/ ListStep

PagingSpec == PagingInit /\ [][PagingNext]_pagingVars

-----------------------------------------------------------------------------
(* Following the next links from a page to the end shows every job that    *)
(* was listed from that page on and has been left alone since, however the *)
(* pages shifted meanwhile, unless an entry left the index or one without  *)
(* a record was met (HandleJobList's links against updateTimeIndex): keys  *)
(* that are set move to the front, which can repeat a job but not hide one.*)
WalkComplete == at = "done" => owed = {}

(* "continue // Key does not exist" (valkeystore.go:330) means to pass     *)
(* over keys without a record.  While Valkey works, List gives up on a     *)
(* page only for a last key that was being deleted since the index was     *)
(* read, or whose last writes were cut short or met an opposite one.       *)
ListFailsOnlyForGone == at = "error" => Last(keys) \in gone

(* A page past the end shows nothing, as long as page*size is an int; past *)
(* that the page may be any (valkeystore.go:303).                          *)
FarPagesEmpty ==
    page * size \in Cardinality(Keys) .. MaxInt => keys = <<>>
=============================================================================
