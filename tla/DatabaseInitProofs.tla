-------------------------- MODULE DatabaseInitProofs --------------------------
(***************************************************************************)
(* Proofs about DatabaseInit, for all values of its constants: no message  *)
(* is lost or doubled by a rebuild, and codes stay unique and, once given  *)
(* to a customer, what they are.                                           *)
(*                                                                         *)
(* None of these is inductive.  InitInv adds what the process that holds   *)
(* the write lock may have in its uncommitted database, and that what a    *)
(* backfill still has to do names no code a customer was given.            *)
(***************************************************************************)
EXTENDS DatabaseInit, SequenceTheorems, WellFoundedInduction, TLAPS

Distinct(codes) ==
    \A i, j \in DOMAIN codes : i # j /\ codes[i] # NoCode => codes[i] # codes[j]

Once(db) == db.notifications.rows \cap db.notifications_old.rows = {}

\* The committed database.
DiskInv ==
    /\ Len(disk.codes) <= MaxReservations
    /\ Once(disk)
    /\ Distinct(disk.codes)
    /\ minted \subseteq DOMAIN disk.codes
    /\ \A i \in minted : disk.codes[i] # NoCode

\* What a backfill has still to do.
TodoInv(p) ==
    /\ todo[p].ids \subseteq DOMAIN disk.codes \ minted
    /\ todo[p].ids # {} => todo[p].tries # 0

\* What the holder of the write lock will commit: between the copy and the DROP
\* the queue is there twice, but only for itself.
TxnInv(p) ==
    /\ pc[p] \in {"drop", "codes", "backfill"}
    /\ Len(txn.db.codes) = Len(disk.codes)
    /\ \A i \in minted : txn.db.codes[i] = disk.codes[i]
    /\ Distinct(txn.db.codes)
    /\ Queued(disk) \subseteq Queued(txn.db)
    /\ IF pc[p] = "drop"
       THEN Queued(disk) \subseteq txn.db.notifications.rows
       ELSE Once(txn.db)

InitInv ==
    /\ TypeOK
    /\ DiskInv
    /\ \A p \in Processes :
          /\ TodoInv(p)
          /\ pc[p] = "drop" => InTxn(p)
          /\ InTxn(p) => TxnInv(p)

-----------------------------------------------------------------------------
(* The least number of a set                                               *)

LessThan == {ss \in Nat \X Nat : ss[1] < ss[2]}

LEMMA LessThanWellFounded == IsWellFoundedOn(LessThan, Nat)
BY NatLessThanWellFounded DEF OpToRel, LessThan

\* First is defined by a CHOOSE: a set of ids that is not empty has a least id.
LEMMA FirstInSet ==
    ASSUME NEW ids \in SUBSET Nat, ids # {}
    PROVE  First(ids) \in ids
<1>1. PICK i \in ids : \A j \in ids : ~(<<j, i>> \in LessThan)
  BY LessThanWellFounded, WFMin
<1>2. ASSUME NEW j \in ids PROVE i <= j
  <2>1. ~(<<j, i>> \in LessThan)
    BY <1>1
  <2>2. i \in Nat /\ j \in Nat
    OBVIOUS
  <2>3. ~(j < i)
    BY <2>1, <2>2 DEF LessThan
  <2> QED BY <2>2, <2>3
<1> QED BY <1>2 DEF First

-----------------------------------------------------------------------------
(* The codes of the reservations                                           *)

Maybe == Codes \cup {NoCode}

LEMMA CodesTyped ==
    ASSUME NEW db \in Database
    PROVE  /\ db.codes \in Seq(Maybe)
           /\ Len(db.codes) \in Nat
           /\ DOMAIN db.codes = 1..Len(db.codes)
           /\ \A i \in 1..Len(db.codes) : db.codes[i] \in Maybe
<1>1. db.codes \in Seq(Maybe)
  BY DEF Database, Maybe
<1> QED
  BY <1>1, LenProperties

\* The UPDATE of a backfill: a code that no row has keeps the codes distinct.
LEMMA CodeGiven ==
    ASSUME NEW codes \in Seq(Maybe), NEW i \in DOMAIN codes, NEW code \in Codes,
           Distinct(codes), \A j \in DOMAIN codes : codes[j] # code,
           NEW given, given = [codes EXCEPT ![i] = code]
    PROVE  /\ given \in Seq(Maybe)
           /\ Len(given) = Len(codes)
           /\ \A j \in DOMAIN codes : given[j] = IF j = i THEN code ELSE codes[j]
           /\ Distinct(given)
<1>1. DOMAIN codes = 1..Len(codes) /\ code \in Maybe
  BY LenProperties DEF Maybe
<1>2. /\ given \in Seq(Maybe)
      /\ Len(given) = Len(codes)
      /\ \A j \in 1..Len(codes) : given[j] = IF j = i THEN code ELSE codes[j]
  BY <1>1, ExceptSeq
<1>3. DOMAIN given = DOMAIN codes
  OBVIOUS
<1> QED
  BY <1>1, <1>2, <1>3 DEF Distinct

\* The INSERT of a reservation, with a code that no row has or with none.
LEMMA CodeAppended ==
    ASSUME NEW codes \in Seq(Maybe), NEW code \in Maybe,
           Distinct(codes), code = NoCode \/ \A j \in DOMAIN codes : codes[j] # code
    PROVE  /\ Append(codes, code) \in Seq(Maybe)
           /\ Len(Append(codes, code)) = Len(codes) + 1
           /\ DOMAIN Append(codes, code) = 1..(Len(codes) + 1)
           /\ \A j \in DOMAIN codes : Append(codes, code)[j] = codes[j]
           /\ Append(codes, code)[Len(codes) + 1] = code
           /\ Distinct(Append(codes, code))
<1> DEFINE longer == Append(codes, code)
<1>1. DOMAIN codes = 1..Len(codes) /\ Len(codes) \in Nat
  BY LenProperties
<1>2. /\ longer \in Seq(Maybe)
      /\ Len(longer) = Len(codes) + 1
      /\ \A j \in 1..Len(codes) : longer[j] = codes[j]
      /\ longer[Len(codes) + 1] = code
  BY <1>1, AppendProperties
<1> HIDE DEF longer
<1>3. DOMAIN longer = 1..(Len(codes) + 1)
  BY <1>2, LenProperties
<1>4. Distinct(longer)
  BY <1>1, <1>2, <1>3 DEF Distinct
<1> QED
  BY <1>1, <1>2, <1>3, <1>4 DEF longer

-----------------------------------------------------------------------------
(* Transactions                                                            *)

\* At most one process holds the write lock, on a whole database.
LEMMA TxnTyped ==
    ASSUME TypeOK, NEW p \in Processes
    PROVE  /\ txn = NoTxn => ~InTxn(p)
           /\ InTxn(p) => txn.db \in Database
           /\ InTxn(p) => txn # NoTxn
           /\ \A q \in Processes : InTxn(p) /\ InTxn(q) => p = q
<1>1. txn = NoTxn => ~InTxn(p)
  BY DEF NoTxn, InTxn
<1>2. InTxn(p) => txn.db \in Database
  BY <1>1 DEF TypeOK
<1> QED
  BY <1>1, <1>2 DEF InTxn

\* What a process reads has the codes that customers were given, whether it
\* reads its own uncommitted database or the committed one.
LEMMA DbRead ==
    ASSUME InitInv, NEW p \in Processes
    PROVE  /\ Db(p) \in Database
           /\ Len(Db(p).codes) = Len(disk.codes)
           /\ \A i \in minted : Db(p).codes[i] = disk.codes[i]
           /\ Distinct(Db(p).codes)
           /\ Queued(disk) \subseteq Queued(Db(p))
           /\ pc[p] # "drop" => Once(Db(p))
<1>1. CASE InTxn(p)
  <2>1. TxnInv(p) /\ txn.db \in Database
    BY <1>1, TxnTyped DEF InitInv
  <2> QED
    BY <1>1, <2>1 DEF TxnInv, Db
<1>2. CASE ~InTxn(p)
  BY <1>2 DEF Db, InitInv, DiskInv, TypeOK
<1> QED
  BY <1>1, <1>2

\* A process that changes nothing but its own place keeps the invariant, when
\* the place it goes to is one the write lock allows it.
LEMMA OnlyPlaces ==
    ASSUME InitInv, NEW p \in Processes, NEW s \in Steps,
           pc' = [pc EXCEPT ![p] = s],
           pc[p] # "drop", s # "drop",
           InTxn(p) => s \in {"codes", "backfill"},
           UNCHANGED <<disk, txn, todo, pick, minted>>
    PROVE  InitInv'
<1>1. TypeOK'
  BY DEF InitInv, TypeOK, Database, QueueTable
<1>2. DiskInv'
  BY DEF InitInv, DiskInv, Once, Distinct
<1>3. ASSUME NEW q \in Processes
      PROVE  /\ TodoInv(q)'
             /\ pc'[q] = "drop" => InTxn(q)'
             /\ InTxn(q)' => TxnInv(q)'
  <2>1. TodoInv(q)'
    BY DEF InitInv, TodoInv
  <2>2. pc'[q] = IF q = p THEN s ELSE pc[q]
    BY DEF InitInv, TypeOK
  <2>3. InTxn(q)' <=> InTxn(q)
    BY DEF InTxn
  <2>4. pc'[q] = "drop" => InTxn(q)'
    BY <2>2, <2>3 DEF InitInv
  <2>5. InTxn(q)' => TxnInv(q)'
    <3> SUFFICES ASSUME InTxn(q) PROVE TxnInv(q)'
      BY <2>3
    <3>1. TxnInv(q)
      BY DEF InitInv
    <3> QED
      BY <2>2, <3>1 DEF TxnInv, Distinct, Once, Queued
  <2> QED
    BY <2>1, <2>4, <2>5
<1> QED
  BY <1>1, <1>2, <1>3 DEF InitInv

\* A durable statement about the queue: nobody holds the write lock, the codes
\* stay, and no message is in both tables.
LEMMA OnlyQueue ==
    ASSUME InitInv, txn = NoTxn, UNCHANGED <<txn, todo, pick, minted>>,
           pc' \in [Processes -> Steps],
           \A q \in Processes : pc'[q] = "drop" => pc[q] = "drop",
           disk' \in Database, disk'.codes = disk.codes, Once(disk')
    PROVE  InitInv'
<1>1. TypeOK'
  BY DEF InitInv, TypeOK
<1>2. DiskInv'
  BY DEF InitInv, DiskInv, Once, Distinct
<1>3. ASSUME NEW q \in Processes
      PROVE  /\ TodoInv(q)'
             /\ pc'[q] = "drop" => InTxn(q)'
             /\ InTxn(q)' => TxnInv(q)'
  <2>1. TodoInv(q)'
    BY DEF InitInv, TodoInv
  <2>2. ~InTxn(q) /\ ~InTxn(q)'
    BY TxnTyped DEF InitInv, InTxn
  <2>3. pc[q] # "drop"
    BY <2>2 DEF InitInv
  <2> QED
    BY <2>1, <2>2, <2>3
<1> QED
  BY <1>1, <1>2, <1>3 DEF InitInv

\* A statement of the process that holds the write lock, or takes it.
LEMMA OnlyTxn ==
    ASSUME InitInv, NEW p \in Processes, NEW db \in Database, Uncommitted(p, db),
           UNCHANGED <<pick, minted>>,
           pc' \in [Processes -> Steps],
           \A q \in Processes \ {p} : pc'[q] = pc[q],
           todo' \in [Processes -> [ids : SUBSET (1..MaxReservations), tries : 0..MaxTries]],
           \A q \in Processes : TodoInv(q)',
           pc'[p] \in {"drop", "codes", "backfill"},
           Len(db.codes) = Len(disk.codes),
           \A i \in minted : db.codes[i] = disk.codes[i],
           Distinct(db.codes),
           Queued(disk) \subseteq Queued(db),
           IF pc'[p] = "drop" THEN Queued(disk) \subseteq db.notifications.rows ELSE Once(db)
    PROVE  InitInv'
<1>0. /\ disk' = disk
      /\ txn' = [owner |-> {p}, db |-> db]
      /\ txn = NoTxn \/ InTxn(p)
  BY DEF Uncommitted
<1>1. TypeOK'
  <2>1. txn' \in [owner : {{q} : q \in Processes}, db : Database]
    BY <1>0
  <2> QED
    BY <1>0, <2>1 DEF InitInv, TypeOK
<1>2. DiskInv'
  BY <1>0 DEF InitInv, DiskInv, Once, Distinct
<1>3. txn'.owner = {p} /\ txn'.db = db
  BY <1>0
<1>4. ASSUME NEW q \in Processes
      PROVE  /\ pc'[q] = "drop" => InTxn(q)'
             /\ InTxn(q)' => TxnInv(q)'
  <2>1. CASE q = p
    <3>1. InTxn(q)'
      BY <1>3, <2>1 DEF InTxn
    <3>2. TxnInv(q)'
      BY <1>0, <1>3, <2>1 DEF TxnInv, Distinct, Once, Queued
    <3> QED
      BY <3>1, <3>2
  <2>2. CASE q # p
    <3>1. ~InTxn(q)' /\ ~InTxn(q)
      BY <1>0, <1>3, <2>2, TxnTyped DEF InTxn, InitInv
    <3> QED
      BY <2>2, <3>1 DEF InitInv
  <2> QED
    BY <2>1, <2>2
<1> QED
  BY <1>1, <1>2, <1>4 DEF InitInv

\* The INSERT of a reservation; its code is the customer's if it has one.
LEMMA OneMore ==
    ASSUME InitInv, txn = NoTxn, UNCHANGED <<txn, pc, todo>>,
           pick' \in [Threads -> Codes \cup {NoCode}],
           NEW code \in Maybe, code = NoCode \/ ~Taken(disk, code),
           Len(disk.codes) < MaxReservations,
           disk' = [disk EXCEPT !.codes = Append(@, code)],
           minted' = IF code = NoCode THEN minted ELSE minted \cup {Len(disk.codes) + 1}
    PROVE  InitInv'
<1> DEFINE n == Len(disk.codes)
<1>0. disk \in Database /\ Distinct(disk.codes) /\ MaxReservations \in Nat
  BY InitAssumption DEF InitInv, TypeOK, DiskInv
<1>1. n \in Nat /\ DOMAIN disk.codes = 1..n
  BY <1>0, CodesTyped
<1>2. /\ disk' \in Database
      /\ Len(disk'.codes) = n + 1
      /\ DOMAIN disk'.codes = 1..(n + 1)
      /\ \A j \in 1..n : disk'.codes[j] = disk.codes[j]
      /\ disk'.codes[n + 1] = code
      /\ Distinct(disk'.codes)
      /\ disk'.notifications = disk.notifications
      /\ disk'.notifications_old = disk.notifications_old
  <2> DEFINE longer == Append(disk.codes, code)
  <2>0. /\ disk' = [disk EXCEPT !.codes = longer]
        /\ longer = Append(disk.codes, code)
    OBVIOUS
  <2>1. disk.codes \in Seq(Maybe) /\ (code = NoCode \/ \A j \in DOMAIN disk.codes : disk.codes[j] # code)
    BY <1>0, CodesTyped DEF Taken
  <2>3. /\ longer \in Seq(Maybe)
        /\ Len(longer) = Len(disk.codes) + 1
        /\ DOMAIN longer = 1..(Len(disk.codes) + 1)
        /\ \A j \in DOMAIN disk.codes : longer[j] = disk.codes[j]
        /\ longer[Len(disk.codes) + 1] = code
        /\ Distinct(longer)
    BY <1>0, <2>1, CodeAppended
  <2> HIDE DEF longer
  <2>4. /\ disk' \in Database /\ disk'.codes = longer
        /\ disk'.notifications = disk.notifications
        /\ disk'.notifications_old = disk.notifications_old
    BY <1>0, <2>0, <2>3 DEF Database, Maybe
  <2> HIDE DEF n
  <2>2. n = Len(disk.codes)
    BY DEF n
  <2> QED
    BY <1>1, <2>2, <2>3, <2>4
<1> HIDE DEF n
<1>3. n < MaxReservations
  BY DEF n
<1>4. minted \subseteq 1..n /\ \A i \in minted : disk.codes[i] # NoCode
  BY <1>1 DEF InitInv, DiskInv
<1>5. minted' \subseteq 1..(n + 1) /\ minted \subseteq minted' /\ minted' \ minted \subseteq {n + 1}
  BY <1>1, <1>4 DEF n
<1>6. code = NoCode => minted' = minted
  OBVIOUS
<1>7. TypeOK'
  BY <1>0, <1>1, <1>2, <1>3, <1>5 DEF InitInv, TypeOK
<1>8. DiskInv'
  <2>1. Len(disk'.codes) <= MaxReservations
    BY <1>0, <1>1, <1>2, <1>3
  <2>2. Once(disk')
    BY <1>2 DEF InitInv, DiskInv, Once
  <2>3. \A i \in minted' : disk'.codes[i] # NoCode
    BY <1>2, <1>4, <1>5, <1>6
  <2> QED
    BY <1>2, <1>5, <2>1, <2>2, <2>3 DEF DiskInv
<1>9. ASSUME NEW q \in Processes
      PROVE  /\ TodoInv(q)'
             /\ pc'[q] = "drop" => InTxn(q)'
             /\ InTxn(q)' => TxnInv(q)'
  <2>1. TodoInv(q)'
    <3>1. todo[q].ids \subseteq (1..n) \ minted
      BY <1>1 DEF InitInv, TodoInv
    <3>2. todo[q].ids \subseteq (1..(n + 1)) \ minted'
      BY <1>1, <1>5, <3>1
    <3> QED
      BY <1>2, <3>2 DEF InitInv, TodoInv
  <2>2. ~InTxn(q) /\ ~InTxn(q)'
    BY TxnTyped DEF InitInv, InTxn
  <2> QED
    BY <2>1, <2>2 DEF InitInv
<1> QED
  BY <1>7, <1>8, <1>9 DEF InitInv

-----------------------------------------------------------------------------
(* Every action keeps the invariant                                        *)

LEMMA InitHolds == Init => InitInv
<1> SUFFICES ASSUME Init PROVE InitInv
  OBVIOUS
<1>1. PICK rows \in SUBSET Messages, n \in 0..MaxReservations :
         disk = [notifications |-> [shape |-> "old", rows |-> rows],
                 notifications_old |-> NoTable,
                 codes |-> [i \in 1..n |-> NoCode]]
  BY DEF Init
<1>2. /\ disk.notifications = [shape |-> "old", rows |-> rows]
      /\ disk.notifications_old = NoTable
      /\ disk.codes = [i \in 1..n |-> NoCode]
  BY <1>1
<1>3. n \in Nat /\ MaxReservations \in Nat /\ MaxTries \in Nat /\ n <= MaxReservations
  BY InitAssumption
<1>4. disk.codes \in [1..n -> Maybe]
  BY <1>2 DEF Maybe
<1>5. disk.codes \in Seq(Maybe)
  BY <1>3, <1>4, SeqDef
<1>6. Len(disk.codes) = n /\ DOMAIN disk.codes = 1..n
  BY <1>2, <1>3, <1>5, LenProperties
<1>7. disk.notifications \in QueueTable /\ disk.notifications_old \in QueueTable
  BY <1>2 DEF QueueTable, NoTable
<1>8. disk \in Database
  BY <1>1, <1>2, <1>5, <1>7 DEF Database, Maybe
<1>9. TypeOK
  BY <1>3, <1>8 DEF Init, TypeOK, Steps
<1>10. DiskInv
  BY <1>2, <1>3, <1>6 DEF Init, DiskInv, Once, Distinct, NoTable
<1>11. ASSUME NEW p \in Processes
       PROVE  TodoInv(p) /\ pc[p] # "drop" /\ ~InTxn(p)
  BY <1>9, TxnTyped DEF Init, TodoInv
<1> QED
  BY <1>9, <1>10, <1>11 DEF InitInv

\* Start, the inspection of the table: the process only goes on.
LEMMA PlacesStep ==
    ASSUME InitInv, NEW p \in Processes, Start(p) \/ SkipRebuild(p) \/ InspectOld(p)
    PROVE  InitInv'
<1>1. UNCHANGED <<disk, txn, todo, pick, minted>>
  BY DEF Start, SkipRebuild, InspectOld
<1>2. PICK s \in {"schema", "codes", "rename"} :
         pc[p] \in {"down", "inspect"} /\ pc' = [pc EXCEPT ![p] = s]
  BY DEF Start, SkipRebuild, InspectOld, Go
<1>3. ~InTxn(p)
  BY <1>2 DEF InitInv, TxnInv
<1> QED
  BY <1>1, <1>2, <1>3, OnlyPlaces DEF Steps

\* The schema script and the two durable halves of the rebuild.
LEMMA SchemaStep ==
    ASSUME InitInv, NEW p \in Processes, Schema(p)
    PROVE  InitInv'
<1>1. pc[p] = "schema" /\ pc' = [pc EXCEPT ![p] = "inspect"] /\ UNCHANGED <<todo, pick, minted>>
  BY DEF Schema, Go
<1>2. CASE disk.notifications = NoTable
  <2>1. txn = NoTxn /\ txn' = txn /\ disk' = [disk EXCEPT !.notifications = EmptyTable]
    BY <1>2 DEF Schema, Durably
  <2>2. disk' \in Database /\ disk'.codes = disk.codes /\ Once(disk')
    BY <2>1 DEF InitInv, TypeOK, Database, QueueTable, EmptyTable, Once
  <2>3. pc' \in [Processes -> Steps] /\ \A q \in Processes : pc'[q] = "drop" => pc[q] = "drop"
    BY <1>1 DEF InitInv, TypeOK, Steps
  <2> QED
    BY <1>1, <2>1, <2>2, <2>3, OnlyQueue
<1>3. CASE disk.notifications # NoTable
  <2>1. ~InTxn(p)
    BY <1>1 DEF InitInv, TxnInv
  <2> QED
    BY <1>1, <1>3, <2>1, OnlyPlaces DEF Schema, Steps
<1> QED
  BY <1>2, <1>3

LEMMA RenameStep ==
    ASSUME InitInv, NEW p \in Processes, RenameOld(p)
    PROVE  InitInv'
<1>1. /\ pc' = [pc EXCEPT ![p] = "create"]
      /\ disk.notifications_old = NoTable /\ txn = NoTxn
      /\ disk' = [disk EXCEPT !.notifications_old = disk.notifications,
                              !.notifications = NoTable]
      /\ UNCHANGED <<txn, todo, pick, minted>>
  BY DEF RenameOld, Durably, Go
<1>2. disk' \in Database /\ disk'.codes = disk.codes /\ Once(disk')
  BY <1>1 DEF InitInv, TypeOK, Database, QueueTable, NoTable, Once
<1>3. pc' \in [Processes -> Steps] /\ \A q \in Processes : pc'[q] = "drop" => pc[q] = "drop"
  BY <1>1 DEF InitInv, TypeOK, Steps
<1> QED
  BY <1>1, <1>2, <1>3, OnlyQueue

LEMMA CreateStep ==
    ASSUME InitInv, NEW p \in Processes, CreateNew(p)
    PROVE  InitInv'
<1>1. /\ pc' = [pc EXCEPT ![p] = "copy"] /\ txn = NoTxn
      /\ disk' = [disk EXCEPT !.notifications = EmptyTable]
      /\ UNCHANGED <<txn, todo, pick, minted>>
  BY DEF CreateNew, Durably, Go
<1>2. disk' \in Database /\ disk'.codes = disk.codes /\ Once(disk')
  BY <1>1 DEF InitInv, TypeOK, Database, QueueTable, EmptyTable, Once
<1>3. pc' \in [Processes -> Steps] /\ \A q \in Processes : pc'[q] = "drop" => pc[q] = "drop"
  BY <1>1 DEF InitInv, TypeOK, Steps
<1> QED
  BY <1>1, <1>2, <1>3, OnlyQueue

\* The copy opens the transaction: until the DROP, both tables have the rows.
LEMMA CopyStep ==
    ASSUME InitInv, NEW p \in Processes, CopyRows(p)
    PROVE  InitInv'
<1> DEFINE db == [disk EXCEPT !.notifications.rows = @ \cup disk.notifications_old.rows]
<1>1. /\ pc[p] = "copy" /\ pc' = [pc EXCEPT ![p] = "drop"]
      /\ Uncommitted(p, db)
      /\ UNCHANGED <<todo, pick, minted>>
  BY DEF CopyRows, Go
<1>2. disk \in Database
  BY DEF InitInv, TypeOK
<1>3. /\ db \in Database /\ db.codes = disk.codes
      /\ db.notifications.rows = Queued(disk)
      /\ db.notifications_old = disk.notifications_old
  BY <1>2 DEF Database, QueueTable, Queued
<1>4. Queued(disk) \subseteq Queued(db)
  BY <1>3 DEF Queued
<1>5. /\ pc' \in [Processes -> Steps] /\ pc'[p] = "drop"
      /\ \A q \in Processes \ {p} : pc'[q] = pc[q]
  BY <1>1 DEF InitInv, TypeOK, Steps
<1>6. /\ todo' \in [Processes -> [ids : SUBSET (1..MaxReservations), tries : 0..MaxTries]]
      /\ \A q \in Processes : TodoInv(q)'
  <2>1. disk' = disk
    BY <1>1 DEF Uncommitted
  <2> QED
    BY <1>1, <2>1 DEF InitInv, TypeOK, TodoInv
<1> HIDE DEF db
<1> QED
  BY <1>1, <1>3, <1>4, <1>5, <1>6, OnlyTxn DEF InitInv, DiskInv

\* The DROP only comes after the copy of the same process, in its transaction.
LEMMA DropStep ==
    ASSUME InitInv, NEW p \in Processes, DropOld(p)
    PROVE  InitInv'
<1> DEFINE db == [Db(p) EXCEPT !.notifications_old = NoTable]
<1>1. /\ pc[p] = "drop" /\ pc' = [pc EXCEPT ![p] = "codes"]
      /\ Uncommitted(p, db)
      /\ UNCHANGED <<todo, pick, minted>>
  BY DEF DropOld, Go
<1>2. InTxn(p) /\ TxnInv(p)
  BY <1>1 DEF InitInv
<1>3. Db(p) \in Database /\ Db(p) = txn.db
  BY <1>2, DbRead DEF Db
<1>4. /\ db \in Database /\ db.codes = txn.db.codes
      /\ db.notifications = txn.db.notifications
      /\ db.notifications_old.rows = {}
  BY <1>3 DEF Database, QueueTable, NoTable
<1>5. Queued(disk) \subseteq Queued(db) /\ Once(db)
  BY <1>1, <1>2, <1>4 DEF TxnInv, Queued, Once
<1>6. /\ pc' \in [Processes -> Steps] /\ pc'[p] = "codes"
      /\ \A q \in Processes \ {p} : pc'[q] = pc[q]
  BY <1>1 DEF InitInv, TypeOK, Steps
<1>7. /\ todo' \in [Processes -> [ids : SUBSET (1..MaxReservations), tries : 0..MaxTries]]
      /\ \A q \in Processes : TodoInv(q)'
  <2>1. disk' = disk
    BY <1>1 DEF Uncommitted
  <2> QED
    BY <1>1, <2>1 DEF InitInv, TypeOK, TodoInv
<1> HIDE DEF db
<1> QED
  BY <1>1, <1>2, <1>4, <1>5, <1>6, <1>7, OnlyTxn DEF TxnInv

\* The backfill only takes reservations that have no code, and a reservation
\* that was given to a customer has one.
LEMMA ReadStep ==
    ASSUME InitInv, NEW p \in Processes, ReadUncoded(p)
    PROVE  InitInv'
<1> DEFINE ids == {i \in DOMAIN Db(p).codes : Db(p).codes[i] = NoCode}
           next == [ids |-> ids, tries |-> MaxTries]
<1>1. /\ pc[p] = "codes" /\ pc' = [pc EXCEPT ![p] = "backfill"]
      /\ todo' = [todo EXCEPT ![p] = next]
      /\ UNCHANGED <<disk, txn, pick, minted>>
  BY DEF ReadUncoded, Go
<1>2. /\ Db(p) \in Database /\ Len(Db(p).codes) = Len(disk.codes)
      /\ \A i \in minted : Db(p).codes[i] = disk.codes[i]
  BY DbRead
<1>3. disk \in Database /\ DiskInv /\ MaxTries \in Nat \ {0} /\ MaxReservations \in Nat
  BY InitAssumption DEF InitInv, TypeOK
<1>4. /\ DOMAIN disk.codes = 1..Len(disk.codes) /\ Len(disk.codes) \in Nat
      /\ DOMAIN Db(p).codes = DOMAIN disk.codes
  BY <1>2, <1>3, CodesTyped
<1>5. ids \subseteq DOMAIN disk.codes \ minted
  BY <1>2, <1>3, <1>4 DEF DiskInv
<1>6. ids \subseteq 1..MaxReservations
  BY <1>3, <1>4, <1>5 DEF DiskInv
<1> HIDE DEF ids
<1>7. next \in [ids : SUBSET (1..MaxReservations), tries : 0..MaxTries]
  BY <1>3, <1>6
<1>8. TypeOK'
  BY <1>1, <1>7 DEF InitInv, TypeOK, Steps
<1>9. DiskInv'
  BY <1>1 DEF InitInv, DiskInv, Once, Distinct
<1>10. ASSUME NEW q \in Processes
       PROVE  /\ TodoInv(q)'
              /\ pc'[q] = "drop" => InTxn(q)'
              /\ InTxn(q)' => TxnInv(q)'
  <2>1. TodoInv(q)'
    <3>1. todo'[q] = IF q = p THEN next ELSE todo[q]
      BY <1>1 DEF InitInv, TypeOK
    <3>2. todo'[q].ids = IF q = p THEN ids ELSE todo[q].ids
      BY <3>1
    <3>3. todo'[q].tries = IF q = p THEN MaxTries ELSE todo[q].tries
      BY <3>1
    <3> QED
      BY <1>1, <1>3, <1>5, <3>2, <3>3 DEF InitInv, TodoInv
  <2>2. pc'[q] = IF q = p THEN "backfill" ELSE pc[q]
    BY <1>1 DEF InitInv, TypeOK
  <2>3. InTxn(q)' <=> InTxn(q)
    BY <1>1 DEF InTxn
  <2>4. InTxn(q)' => TxnInv(q)'
    <3> SUFFICES ASSUME InTxn(q) PROVE TxnInv(q)'
      BY <2>3
    <3>1. TxnInv(q)
      BY DEF InitInv
    <3> QED
      BY <1>1, <2>2, <3>1 DEF TxnInv, Distinct, Once, Queued
  <2> QED
    BY <2>1, <2>2, <2>3, <2>4 DEF InitInv
<1> QED
  BY <1>8, <1>9, <1>10 DEF InitInv

\* The UPDATE names the row by its id; the row is none a customer knows, and the
\* unique index keeps the codes distinct.
LEMMA BackfillStep ==
    ASSUME InitInv, NEW p \in Processes, NEW code \in Codes, Backfill(p, code)
    PROVE  InitInv'
<1> DEFINE i == First(todo[p].ids)
           next == [ids |-> todo[p].ids \ {i}, tries |-> MaxTries]
           again == [todo[p] EXCEPT !.tries = @ - 1]
<1>1. pc[p] = "backfill" /\ todo[p].ids # {} /\ UNCHANGED <<pc, pick, minted>>
  BY DEF Backfill
<1>2. /\ Db(p) \in Database /\ Len(Db(p).codes) = Len(disk.codes)
      /\ \A j \in minted : Db(p).codes[j] = disk.codes[j]
      /\ Distinct(Db(p).codes)
      /\ Queued(disk) \subseteq Queued(Db(p))
      /\ Once(Db(p))
  BY <1>1, DbRead
<1>3. /\ disk \in Database /\ DiskInv /\ MaxTries \in Nat \ {0} /\ MaxReservations \in Nat
      /\ todo[p] \in [ids : SUBSET (1..MaxReservations), tries : 0..MaxTries]
      /\ TodoInv(p)
  BY InitAssumption DEF InitInv, TypeOK
<1>4. /\ DOMAIN disk.codes = 1..Len(disk.codes) /\ Len(disk.codes) \in Nat
      /\ DOMAIN Db(p).codes = DOMAIN disk.codes
      /\ Db(p).codes \in Seq(Maybe)
  BY <1>2, <1>3, CodesTyped
<1>5. i \in todo[p].ids
  <2>1. todo[p].ids \in SUBSET Nat
    BY <1>3
  <2> QED
    BY <1>1, <2>1, FirstInSet
<1>6. i \in DOMAIN disk.codes /\ i \notin minted
  BY <1>3, <1>5 DEF TodoInv
<1>7. \/ /\ Taken(Db(p), code)
         /\ Uncommitted(p, Db(p))
         /\ todo' = [todo EXCEPT ![p] = IF todo[p].tries = 1 THEN next ELSE again]
      \/ /\ ~Taken(Db(p), code)
         /\ Uncommitted(p, [Db(p) EXCEPT !.codes[i] = code])
         /\ todo' = [todo EXCEPT ![p] = next]
  BY DEF Backfill
<1> HIDE DEF i
<1>8. /\ todo' \in [Processes -> [ids : SUBSET (1..MaxReservations), tries : 0..MaxTries]]
      /\ \A q \in Processes : TodoInv(q)'
  <2>1. disk' = disk /\ minted' = minted
    BY <1>1, <1>7 DEF Uncommitted
  <2>2. /\ next \in [ids : SUBSET (1..MaxReservations), tries : 0..MaxTries]
        /\ next.ids \subseteq todo[p].ids /\ next.tries # 0
    BY <1>3
  <2>3. ASSUME todo[p].tries # 1
        PROVE  /\ again \in [ids : SUBSET (1..MaxReservations), tries : 0..MaxTries]
               /\ again.ids = todo[p].ids /\ again.tries # 0
    BY <1>1, <1>3, <2>3 DEF TodoInv
  <2>4. PICK t \in [ids : SUBSET (1..MaxReservations), tries : 0..MaxTries] :
           todo' = [todo EXCEPT ![p] = t] /\ t.ids \subseteq todo[p].ids /\ t.tries # 0
    BY <1>7, <2>2, <2>3
  <2>5. todo' \in [Processes -> [ids : SUBSET (1..MaxReservations), tries : 0..MaxTries]]
    BY <2>4 DEF InitInv, TypeOK
  <2>6. ASSUME NEW q \in Processes PROVE TodoInv(q)'
    <3>1. todo'[q] = IF q = p THEN t ELSE todo[q]
      BY <2>4 DEF InitInv, TypeOK
    <3>2. TodoInv(q)
      BY DEF InitInv
    <3> QED
      BY <1>3, <2>1, <2>4, <3>1, <3>2 DEF TodoInv
  <2> QED
    BY <2>5, <2>6
<1> HIDE DEF next, again
<1>9. pc' \in [Processes -> Steps] /\ pc'[p] = "backfill"
  BY <1>1 DEF InitInv, TypeOK
<1>10. CASE Uncommitted(p, Db(p))
  BY <1>1, <1>2, <1>8, <1>9, <1>10, OnlyTxn
<1>11. CASE ~Taken(Db(p), code) /\ Uncommitted(p, [Db(p) EXCEPT !.codes[i] = code])
  <2> DEFINE given == [Db(p).codes EXCEPT ![i] = code]
             db == [Db(p) EXCEPT !.codes = given]
  <2>1. \A j \in DOMAIN Db(p).codes : Db(p).codes[j] # code
    BY <1>11 DEF Taken
  <2>2. /\ given \in Seq(Maybe) /\ Len(given) = Len(Db(p).codes)
        /\ \A j \in DOMAIN Db(p).codes : given[j] = IF j = i THEN code ELSE Db(p).codes[j]
        /\ Distinct(given)
    BY <1>2, <1>4, <1>6, <2>1, CodeGiven
  <2>3. [Db(p) EXCEPT !.codes[i] = code] = db
    BY <1>2 DEF Database
  <2> HIDE DEF given
  <2>4. /\ db \in Database /\ db.codes = given
        /\ db.notifications = Db(p).notifications
        /\ db.notifications_old = Db(p).notifications_old
    BY <1>2, <2>2 DEF Database, Maybe
  <2> HIDE DEF db
  <2>5. Queued(disk) \subseteq Queued(db) /\ Once(db)
    BY <1>2, <2>4 DEF Queued, Once
  <2>6. \A j \in minted : db.codes[j] = disk.codes[j]
    BY <1>2, <1>3, <1>4, <1>6, <2>2, <2>4 DEF DiskInv
  <2> QED
    BY <1>1, <1>2, <1>8, <1>9, <1>11, <2>2, <2>3, <2>4, <2>5, <2>6, OnlyTxn
<1> QED
  BY <1>7, <1>10, <1>11

\* The commit makes durable what the holder of the write lock has done.
LEMMA CommitStep ==
    ASSUME InitInv, NEW p \in Processes, Commit(p)
    PROVE  InitInv'
<1>1. /\ pc[p] = "backfill" /\ pc' = [pc EXCEPT ![p] = "up"]
      /\ disk' = Db(p)
      /\ txn' = IF InTxn(p) THEN NoTxn ELSE txn
      /\ UNCHANGED <<todo, pick, minted>>
  BY DEF Commit, Go
<1>2. CASE ~InTxn(p)
  BY <1>1, <1>2, OnlyPlaces DEF Db, Steps
<1>3. CASE InTxn(p)
  <2>1. /\ disk' \in Database /\ Len(disk'.codes) = Len(disk.codes)
        /\ \A i \in minted : disk'.codes[i] = disk.codes[i]
        /\ Distinct(disk'.codes) /\ Once(disk')
    BY <1>1, DbRead
  <2>2. DOMAIN disk'.codes = DOMAIN disk.codes
    BY <2>1, CodesTyped DEF InitInv, TypeOK
  <2>3. TypeOK'
    BY <1>1, <1>3, <2>1 DEF InitInv, TypeOK, Steps
  <2>4. DiskInv'
    BY <1>1, <2>1, <2>2 DEF InitInv, DiskInv
  <2>5. ASSUME NEW q \in Processes
        PROVE  TodoInv(q)' /\ ~InTxn(q)' /\ pc'[q] # "drop"
    <3>1. TodoInv(q)'
      BY <1>1, <2>2 DEF InitInv, TodoInv
    <3>2. ~InTxn(q)'
      BY <1>1, <1>3 DEF InTxn, NoTxn
    <3>3. pc'[q] # "drop"
      <4>1. q # p => ~InTxn(q)
        BY <1>3, TxnTyped DEF InitInv
      <4> QED
        BY <1>1, <4>1 DEF InitInv, TypeOK
    <3> QED
      BY <3>1, <3>2, <3>3
  <2> QED
    BY <2>3, <2>4, <2>5 DEF InitInv
<1> QED
  BY <1>2, <1>3

\* A process that is killed leaves the committed database as it is.
LEMMA DownStep ==
    ASSUME InitInv, NEW p \in Processes, Down(p)
    PROVE  InitInv'
<1>1. /\ pc' = [pc EXCEPT ![p] = "down"]
      /\ txn' = IF InTxn(p) THEN NoTxn ELSE txn
      /\ todo' = [todo EXCEPT ![p] = [ids |-> {}, tries |-> 0]]
      /\ UNCHANGED <<disk, pick, minted>>
  BY DEF Down
<1>2. TypeOK'
  BY <1>1, InitAssumption DEF InitInv, TypeOK, Steps
<1>3. DiskInv'
  BY <1>1 DEF InitInv, DiskInv, Once, Distinct
<1>4. ASSUME NEW q \in Processes
      PROVE  /\ TodoInv(q)'
             /\ pc'[q] = "drop" => InTxn(q)'
             /\ InTxn(q)' => TxnInv(q)'
  <2>1. TodoInv(q)'
    <3>1. todo'[q] = IF q = p THEN [ids |-> {}, tries |-> 0] ELSE todo[q]
      BY <1>1 DEF InitInv, TypeOK
    <3> QED
      BY <1>1, <3>1 DEF InitInv, TodoInv
  <2>2. pc'[q] = IF q = p THEN "down" ELSE pc[q]
    BY <1>1 DEF InitInv, TypeOK
  <2>3. CASE q = p
    <3>1. ~InTxn(q)'
      BY <1>1, <2>3 DEF InTxn, NoTxn
    <3> QED
      BY <2>1, <2>2, <2>3, <3>1
  <2>4. CASE q # p
    <3>1. InTxn(q) => ~InTxn(p)
      BY <2>4, TxnTyped DEF InitInv
    <3>2. InTxn(q) => txn' = txn
      BY <1>1, <3>1
    <3>3. InTxn(q)' <=> InTxn(q)
      <4>1. CASE InTxn(p)
        BY <1>1, <3>1, <4>1 DEF InTxn, NoTxn
      <4>2. CASE ~InTxn(p)
        BY <1>1, <4>2 DEF InTxn
      <4> QED
        BY <4>1, <4>2
    <3>4. InTxn(q)' => TxnInv(q)'
      <4> SUFFICES ASSUME InTxn(q) PROVE TxnInv(q)'
        BY <3>3
      <4>1. TxnInv(q)
        BY DEF InitInv
      <4> QED
        BY <1>1, <2>2, <2>4, <3>2, <4>1 DEF TxnInv, Distinct, Once, Queued
    <3> QED
      BY <2>1, <2>2, <2>4, <3>3, <3>4 DEF InitInv
  <2> QED
    BY <2>3, <2>4
<1> QED
  BY <1>2, <1>3, <1>4 DEF InitInv

\* The API's own INSERT into the queue.
LEMMA EnqueueStep ==
    ASSUME InitInv, NEW m \in Messages, Enqueue(m)
    PROVE  InitInv'
<1>1. /\ txn = NoTxn /\ UNCHANGED <<txn, pc, todo, pick, minted>>
      /\ m \notin disk.notifications.rows \cup disk.notifications_old.rows
      /\ disk' = [disk EXCEPT !.notifications.rows = @ \cup {m}]
  BY DEF Enqueue
<1>2. disk' \in Database /\ disk'.codes = disk.codes
  BY <1>1 DEF InitInv, TypeOK, Database, QueueTable
<1>3. Once(disk')
  <2>1. /\ disk'.notifications.rows = disk.notifications.rows \cup {m}
        /\ disk'.notifications_old = disk.notifications_old
    BY <1>1 DEF InitInv, TypeOK, Database, QueueTable
  <2> QED
    BY <1>1, <2>1 DEF InitInv, DiskInv, Once
<1>4. pc' \in [Processes -> Steps]
  BY <1>1 DEF InitInv, TypeOK
<1> QED
  BY <1>1, <1>2, <1>3, <1>4, OnlyQueue

\* Between the check of the generator and the INSERT anything may happen; only
\* the pick of the request's thread changes.
LEMMA PickStep ==
    ASSUME InitInv, NEW th \in Threads,
           (\E code \in Codes : GenerateUniqueCode(th, code)) \/ RequestFails(th)
    PROVE  InitInv'
<1>1. UNCHANGED <<disk, txn, pc, todo, minted>>
  BY DEF GenerateUniqueCode, RequestFails
<1>2. pick' \in [Threads -> Codes \cup {NoCode}]
  BY DEF GenerateUniqueCode, RequestFails, InitInv, TypeOK
<1> QED
  BY <1>1, <1>2 DEF InitInv, TypeOK, DiskInv, Once, Distinct, TodoInv, InTxn, TxnInv, Queued

LEMMA InsertStep ==
    ASSUME InitInv, NEW th \in Threads, Insert(th)
    PROVE  InitInv'
<1>1. /\ txn = NoTxn /\ UNCHANGED <<txn, pc, todo>>
      /\ pick[th] # NoCode
      /\ Len(disk.codes) < MaxReservations
      /\ ~Taken(disk, pick[th])
      /\ disk' = [disk EXCEPT !.codes = Append(@, pick[th])]
      /\ minted' = minted \cup {Len(disk.codes) + 1}
      /\ pick' = [pick EXCEPT ![th] = NoCode]
  BY DEF Insert
<1>2. pick[th] \in Maybe /\ pick' \in [Threads -> Codes \cup {NoCode}]
  BY <1>1 DEF InitInv, TypeOK, Maybe
<1> QED
  BY <1>1, <1>2, OneMore

LEMMA SeedStep ==
    ASSUME InitInv, Seed
    PROVE  InitInv'
<1>1. NoCode \in Maybe /\ pick' \in [Threads -> Codes \cup {NoCode}]
  BY DEF Seed, Maybe, InitInv, TypeOK
<1> QED
  BY <1>1, OneMore DEF Seed

LEMMA InitInvStep ==
    ASSUME InitInv, [Next]_vars
    PROVE  InitInv'
<1>1. ASSUME NEW p \in Processes, InitDb(p) PROVE InitInv'
  BY <1>1, PlacesStep, SchemaStep, RenameStep, CreateStep, CopyStep, DropStep, ReadStep,
     BackfillStep, CommitStep, DownStep DEF InitDb
<1>2. ASSUME NEW th \in Threads, Request(th) PROVE InitInv'
  BY <1>2, PickStep, InsertStep DEF Request
<1>3. CASE UNCHANGED vars
  BY <1>3 DEF vars, InitInv, TypeOK, DiskInv, Once, Distinct, TodoInv, InTxn, TxnInv, Queued
<1> QED
  BY <1>1, <1>2, <1>3, EnqueueStep, SeedStep DEF Next

LEMMA InitInvHolds == Spec => []InitInv
BY InitHolds, InitInvStep, PTL DEF Spec

-----------------------------------------------------------------------------
(* Theorems                                                                *)

\* The type invariant: among others, the write lock has at most one holder, and
\* a backfill never counts its tries below 0.
THEOREM InitTypeCorrect == Spec => []TypeOK
<1>1. InitInv => TypeOK
  BY DEF InitInv
<1> QED
  BY <1>1, InitInvHolds, PTL

\* No row of the queue is in both tables of the committed database, whenever a
\* rebuild is killed, so no message is sent twice because of one.
THEOREM EachMessageOnce == Spec => []MessagesOnce
<1>1. InitInv => MessagesOnce
  BY DEF InitInv, DiskInv, Once, MessagesOnce
<1> QED
  BY <1>1, InitInvHolds, PTL

\* No two reservations have the same code.
THEOREM CodesNeverShared == Spec => []CodesUnique
<1>1. InitInv => CodesUnique
  BY DEF InitInv, DiskInv, Distinct, CodesUnique
<1> QED
  BY <1>1, InitInvHolds, PTL

-----------------------------------------------------------------------------
(* What a step may do to the disk                                          *)

\* The CREATEs and the RENAME write the empty table only where there is none.
LEMMA QueueMoves ==
    ASSUME InitInv, NEW p \in Processes, Schema(p) \/ RenameOld(p) \/ CreateNew(p)
    PROVE  Queued(disk) \subseteq Queued(disk') /\ disk'.codes = disk.codes
<1>1. disk \in Database
  BY DEF InitInv, TypeOK
<1>2. CASE Schema(p)
  BY <1>1, <1>2 DEF Schema, Durably, Database, QueueTable, EmptyTable, NoTable, Queued
<1>3. CASE RenameOld(p)
  BY <1>1, <1>3 DEF RenameOld, Durably, Database, QueueTable, NoTable, Queued
<1>4. CASE CreateNew(p)
  BY <1>1, <1>4 DEF CreateNew, Durably, Database, QueueTable, EmptyTable, NoTable, Queued
<1> QED
  BY <1>2, <1>3, <1>4

\* An INSERT of a reservation writes behind the last one.
LEMMA OneMoreKeeps ==
    ASSUME InitInv, NEW code \in Maybe,
           disk' = [disk EXCEPT !.codes = Append(@, code)]
    PROVE  /\ Queued(disk) \subseteq Queued(disk')
           /\ \A i \in minted : disk'.codes[i] = disk.codes[i]
<1>1. disk \in Database /\ DOMAIN disk.codes = 1..Len(disk.codes)
      /\ disk.codes \in Seq(Maybe) /\ minted \subseteq DOMAIN disk.codes
  BY CodesTyped DEF InitInv, TypeOK, DiskInv
<1> DEFINE longer == Append(disk.codes, code)
<1>2. \A i \in 1..Len(disk.codes) : longer[i] = disk.codes[i]
  BY <1>1, AppendProperties
<1>3. disk' = [disk EXCEPT !.codes = longer]
  OBVIOUS
<1> HIDE DEF longer
<1>4. /\ disk'.codes = longer /\ disk'.notifications = disk.notifications
      /\ disk'.notifications_old = disk.notifications_old
  BY <1>1, <1>3 DEF Database
<1> QED
  BY <1>1, <1>2, <1>4 DEF Queued

LEMMA DiskKept ==
    ASSUME InitInv, [Next]_vars
    PROVE  /\ Queued(disk) \subseteq Queued(disk')
           /\ \A i \in minted : disk'.codes[i] = disk.codes[i]
<1> DEFINE Kept == /\ Queued(disk) \subseteq Queued(disk')
                   /\ \A i \in minted : disk'.codes[i] = disk.codes[i]
<1>1. ASSUME NEW p \in Processes, InitDb(p) PROVE Kept
  <2>1. CASE disk' = disk
    BY <2>1
  <2>2. CASE Schema(p) \/ RenameOld(p) \/ CreateNew(p)
    BY <2>2, QueueMoves
  <2>3. CASE Commit(p)
    BY <2>3, DbRead DEF Commit
  <2> QED
    BY <1>1, <2>1, <2>2, <2>3 DEF InitDb, Start, SkipRebuild, InspectOld, CopyRows, DropOld,
       ReadUncoded, Backfill, Down, Uncommitted
<1>2. ASSUME NEW th \in Threads, Request(th) PROVE Kept
  <2>1. CASE Insert(th)
    <3>1. pick[th] \in Maybe
      BY <2>1 DEF InitInv, TypeOK, Maybe
    <3> QED
      BY <2>1, <3>1, OneMoreKeeps DEF Insert
  <2>2. CASE disk' = disk
    BY <2>2
  <2> QED
    BY <1>2, <2>1, <2>2 DEF Request, GenerateUniqueCode, RequestFails
<1>3. ASSUME NEW m \in Messages, Enqueue(m) PROVE Kept
  BY <1>3 DEF Enqueue, InitInv, TypeOK, Database, QueueTable, Queued
<1>4. CASE Seed
  <2>1. NoCode \in Maybe
    BY DEF Maybe
  <2> QED
    BY <1>4, <2>1, OneMoreKeeps DEF Seed
<1>5. CASE UNCHANGED vars
  BY <1>5 DEF vars
<1> QED
  BY <1>1, <1>2, <1>3, <1>4, <1>5 DEF Next

\* No step of a rebuild, of a kill or of two rebuilds at once takes a message
\* off the disk: the DROP becomes durable only with the copy.
THEOREM NoMessageLost == Spec => MessagesKept
<1>1. InitInv /\ [Next]_vars => [Queued(disk) \subseteq Queued(disk')]_vars
  BY DiskKept
<1> QED
  BY <1>1, InitInvHolds, PTL DEF Spec, MessagesKept

\* A code that a customer was given stays: a backfill has only ever read rows
\* without a code, and a row that POST inserts has its code from the start.
THEOREM CodesStayGiven == Spec => MintedCodesStay
<1>1. InitInv /\ [Next]_vars => [\A i \in minted : disk'.codes[i] = disk.codes[i]]_vars
  BY DiskKept
<1> QED
  BY <1>1, InitInvHolds, PTL DEF Spec, MintedCodesStay
=============================================================================
