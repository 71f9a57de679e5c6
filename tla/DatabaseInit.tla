----------------------------- MODULE DatabaseInit -----------------------------
(***************************************************************************)
(* init_db of app/db.py, which the API and every script run when they      *)
(* start: the schema, the rebuild of a notifications table of the old      *)
(* shape, and the backfill of confirmation codes (app/codes.py).           *)
(*                                                                         *)
(* DDL commits at once unless a transaction is open, and Python's sqlite3  *)
(* opens one at the first INSERT or UPDATE.  So the rebuild is a RENAME    *)
(* and a CREATE that are each durable, and a copy, a DROP and a backfill   *)
(* that become durable with the last commit.  A process can be killed      *)
(* between any two steps, and two processes can be in init_db together.    *)
(*                                                                         *)
(* A step that raises (a table that exists, a locked database) ends the    *)
(* process; only the API's own later writes are modelled besides.          *)
(***************************************************************************)
EXTENDS Integers, Sequences, FiniteSets

CONSTANTS
    Processes,        \* the API and the scripts
    Threads,          \* request threads of the API
    Messages,         \* rows of the notifications queue
    Codes,            \* what generate_code can return
    NoCode,           \* confirmation_code NULL
    MaxTries,         \* attempts of the two retry loops
    MaxReservations   \* bound: reservations ever inserted

ASSUME InitAssumption ==
    /\ MaxTries \in Nat \ {0}
    /\ MaxReservations \in Nat
    /\ NoCode \notin Codes

VARIABLES
    disk,   \* the committed database
    txn,    \* the uncommitted database of the process that holds the write lock
    pc,     \* where each process is in init_db
    todo,   \* reservations it still has to give a code, and tries left for the first
    pick,   \* the code each request thread has found free
    minted  \* reservations whose code was returned to the customer by POST

vars == <<disk, txn, pc, todo, pick, minted>>

\* A table of queue rows: it may not exist, and the old shape lacks 'custom'.
QueueTable == [shape : {"absent", "old", "new"}, rows : SUBSET Messages]

NoTable == [shape |-> "absent", rows |-> {}]
EmptyTable == [shape |-> "new", rows |-> {}]

\* codes[i] is the confirmation_code of reservation i.
Database == [notifications : QueueTable, notifications_old : QueueTable,
             codes : Seq(Codes \cup {NoCode})]

NoTxn == [owner |-> {}]

Steps == {"down", "schema", "inspect", "rename", "create", "copy", "drop", "codes",
          "backfill", "up"}

TypeOK ==
    /\ disk \in Database
    /\ txn = NoTxn \/ txn \in [owner : {{p} : p \in Processes}, db : Database]
    /\ pc \in [Processes -> Steps]
    /\ todo \in [Processes -> [ids : SUBSET (1..MaxReservations), tries : 0..MaxTries]]
    /\ pick \in [Threads -> Codes \cup {NoCode}]
    /\ minted \subseteq 1..MaxReservations

\* A database left by an older version, its queue in the old shape.
Init ==
    /\ \E rows \in SUBSET Messages, n \in 0..MaxReservations :
          disk = [notifications |-> [shape |-> "old", rows |-> rows],
                  notifications_old |-> NoTable,
                  codes |-> [i \in 1..n |-> NoCode]]
    /\ txn = NoTxn
    /\ pc = [p \in Processes |-> "down"]
    /\ todo = [p \in Processes |-> [ids |-> {}, tries |-> 0]]
    /\ pick = [th \in Threads |-> NoCode]
    /\ minted = {}

-----------------------------------------------------------------------------
(* Transactions                                                            *)

InTxn(p) == txn.owner = {p}

\* What process p reads.
Db(p) == IF InTxn(p) THEN txn.db ELSE disk

\* A statement outside of a transaction is durable at once.
Durably(p, db) ==
    /\ txn = NoTxn
    /\ disk' = db
    /\ UNCHANGED txn

\* An INSERT, an UPDATE, or whatever follows one, takes the write lock and
\* waits for the commit.
Uncommitted(p, db) ==
    /\ txn = NoTxn \/ InTxn(p)
    /\ txn' = [owner |-> {p}, db |-> db]
    /\ UNCHANGED disk

Go(p, from, to) ==
    /\ pc[p] = from
    /\ pc' = [pc EXCEPT ![p] = to]

-----------------------------------------------------------------------------
(* init_db                                                                 *)

Start(p) ==
    /\ Go(p, "down", "schema")
    /\ UNCHANGED <<disk, txn, todo, pick, minted>>

\* The schema script: CREATE TABLE IF NOT EXISTS notifications, which needs no
\* lock where the table exists.
Schema(p) ==
    /\ Go(p, "schema", "inspect")
    /\ IF disk.notifications = NoTable
       THEN Durably(p, [disk EXCEPT !.notifications = EmptyTable])
       ELSE UNCHANGED <<disk, txn>>
    /\ UNCHANGED <<todo, pick, minted>>

\* The stored CREATE statement contains 'custom', or the table is missing.
SkipRebuild(p) ==
    /\ Go(p, "inspect", "codes")
    /\ disk.notifications.shape # "old"
    /\ UNCHANGED <<disk, txn, todo, pick, minted>>

InspectOld(p) ==
    /\ Go(p, "inspect", "rename")
    /\ disk.notifications.shape = "old"
    /\ UNCHANGED <<disk, txn, todo, pick, minted>>

\* Fault: what is left of an interrupted rebuild is dropped first.
RenameOldDropping(p) ==
    /\ Go(p, "rename", "create")
    /\ disk.notifications # NoTable
    /\ Durably(p, [disk EXCEPT !.notifications_old = disk.notifications,
                               !.notifications = NoTable])
    /\ UNCHANGED <<todo, pick, minted>>

\* ALTER TABLE notifications RENAME TO _notifications_old
RenameOld(p) ==
    /\ Go(p, "rename", "create")
    /\ disk.notifications # NoTable
    /\ disk.notifications_old = NoTable
    /\ Durably(p, [disk EXCEPT !.notifications_old = disk.notifications,
                               !.notifications = NoTable])
    /\ UNCHANGED <<todo, pick, minted>>

\* CREATE TABLE notifications
CreateNew(p) ==
    /\ Go(p, "create", "copy")
    /\ disk.notifications = NoTable
    /\ Durably(p, [disk EXCEPT !.notifications = EmptyTable])
    /\ UNCHANGED <<todo, pick, minted>>

\* Fault: the copy is committed on its own.
CopyRowsDurably(p) ==
    /\ Go(p, "copy", "drop")
    /\ Durably(p, [disk EXCEPT !.notifications.rows = disk.notifications_old.rows])
    /\ UNCHANGED <<todo, pick, minted>>

\* INSERT INTO notifications SELECT ... FROM _notifications_old, ids included:
\* it raises when another process has already queued rows, whose ids collide.
CopyRows(p) ==
    /\ Go(p, "copy", "drop")
    /\ disk.notifications_old # NoTable
    /\ {} \in {disk.notifications.rows, disk.notifications_old.rows}
    /\ Uncommitted(p, [disk EXCEPT
            !.notifications.rows = @ \cup disk.notifications_old.rows])
    /\ UNCHANGED <<todo, pick, minted>>

\* DROP TABLE _notifications_old
DropOld(p) ==
    /\ Go(p, "drop", "codes")
    /\ Uncommitted(p, [Db(p) EXCEPT !.notifications_old = NoTable])
    /\ UNCHANGED <<todo, pick, minted>>

\* Fault: the backfill renews the code of every reservation.
ReadAll(p) ==
    /\ Go(p, "codes", "backfill")
    /\ todo' = [todo EXCEPT ![p] = [ids |-> DOMAIN Db(p).codes, tries |-> MaxTries]]
    /\ UNCHANGED <<disk, txn, pick, minted>>

\* _backfill_confirmation_codes: the reservations without a code.
ReadUncoded(p) ==
    /\ Go(p, "codes", "backfill")
    /\ todo' = [todo EXCEPT ![p] =
                   [ids |-> {i \in DOMAIN Db(p).codes : Db(p).codes[i] = NoCode},
                    tries |-> MaxTries]]
    /\ UNCHANGED <<disk, txn, pick, minted>>

Taken(db, code) == \E i \in DOMAIN db.codes : db.codes[i] = code

First(ids) == CHOOSE i \in ids : \A j \in ids : i <= j

\* Fault: the retries have no end.
BackfillEndless(p, code) ==
    /\ pc[p] = "backfill" /\ todo[p].ids # {}
    /\ LET i == First(todo[p].ids)
           next == [ids |-> todo[p].ids \ {i}, tries |-> MaxTries]
       IN  IF Taken(Db(p), code)
           THEN /\ Uncommitted(p, Db(p))
                /\ todo' = [todo EXCEPT ![p].tries = @ - 1]
           ELSE /\ Uncommitted(p, [Db(p) EXCEPT !.codes[i] = code])
                /\ todo' = [todo EXCEPT ![p] = next]
    /\ UNCHANGED <<pc, pick, minted>>

\* The UPDATE that gives the next reservation a code: the unique index refuses
\* a code that is taken, and after MaxTries refusals the row is left as it is.
\* The UPDATE names the row by its id, whatever its code is by now.
Backfill(p, code) ==
    /\ pc[p] = "backfill" /\ todo[p].ids # {}
    /\ LET i == First(todo[p].ids)
           next == [ids |-> todo[p].ids \ {i}, tries |-> MaxTries]
           again == [todo[p] EXCEPT !.tries = @ - 1]
       IN  IF Taken(Db(p), code)
           THEN /\ Uncommitted(p, Db(p))
                /\ todo' = [todo EXCEPT ![p] =
                               IF todo[p].tries = 1 THEN next ELSE again]
           ELSE /\ Uncommitted(p, [Db(p) EXCEPT !.codes[i] = code])
                /\ todo' = [todo EXCEPT ![p] = next]
    /\ UNCHANGED <<pc, pick, minted>>

\* conn.commit() at the end of init_db.
Commit(p) ==
    /\ Go(p, "backfill", "up")
    /\ todo[p].ids = {}
    /\ disk' = Db(p)
    /\ txn' = IF InTxn(p) THEN NoTxn ELSE txn
    /\ UNCHANGED <<todo, pick, minted>>

\* The process is killed, a statement raises, or a script is done: what was
\* not committed is rolled back.
Down(p) ==
    /\ pc[p] # "down"
    /\ pc' = [pc EXCEPT ![p] = "down"]
    /\ txn' = IF InTxn(p) THEN NoTxn ELSE txn
    /\ todo' = [todo EXCEPT ![p] = [ids |-> {}, tries |-> 0]]
    /\ UNCHANGED <<disk, pick, minted>>

-----------------------------------------------------------------------------
(* What running processes write                                            *)

Serving == \E p \in Processes : pc[p] = "up"

\* queue.enqueue; while the table is renamed away the INSERT raises.
Enqueue(m) ==
    /\ Serving
    /\ m \notin disk.notifications.rows \cup disk.notifications_old.rows
    /\ disk.notifications # NoTable
    /\ txn = NoTxn
    /\ disk' = [disk EXCEPT !.notifications.rows = @ \cup {m}]
    /\ UNCHANGED <<txn, pc, todo, pick, minted>>

\* _generate_unique_code: a code that no reservation has at this moment.
GenerateUniqueCode(th, code) ==
    /\ Serving
    /\ pick[th] = NoCode
    /\ ~Taken(disk, code)
    /\ pick' = [pick EXCEPT ![th] = code]
    /\ UNCHANGED <<disk, txn, pc, todo, minted>>

\* Fault: there is no unique index, the check of the generator must do.
InsertUnindexed(th) ==
    /\ pick[th] # NoCode
    /\ Len(disk.codes) < MaxReservations
    /\ txn = NoTxn
    /\ disk' = [disk EXCEPT !.codes = Append(@, pick[th])]
    /\ minted' = minted \cup {Len(disk.codes) + 1}
    /\ pick' = [pick EXCEPT ![th] = NoCode]
    /\ UNCHANGED <<txn, pc, todo>>

\* The INSERT of create_reservation: the unique index has the last word.
Insert(th) ==
    /\ pick[th] # NoCode
    /\ Len(disk.codes) < MaxReservations
    /\ txn = NoTxn
    /\ ~Taken(disk, pick[th])
    /\ disk' = [disk EXCEPT !.codes = Append(@, pick[th])]
    /\ minted' = minted \cup {Len(disk.codes) + 1}
    /\ pick' = [pick EXCEPT ![th] = NoCode]
    /\ UNCHANGED <<txn, pc, todo>>

\* The INSERT raises (the code is taken, the database is locked), or the
\* process is gone: the request fails.
RequestFails(th) ==
    /\ pick[th] # NoCode
    /\ pick' = [pick EXCEPT ![th] = NoCode]
    /\ UNCHANGED <<disk, txn, pc, todo, minted>>

\* scripts/seed.py inserts reservations without a code.
Seed ==
    /\ Serving
    /\ Len(disk.codes) < MaxReservations
    /\ txn = NoTxn
    /\ disk' = [disk EXCEPT !.codes = Append(@, NoCode)]
    /\ UNCHANGED <<txn, pc, todo, pick, minted>>

-----------------------------------------------------------------------------

InitDb(p) ==
    \/ Start(p)
    \/ Schema(p)
    \/ SkipRebuild(p)
    \/ InspectOld(p)
    \/ RenameOld(p)
    \/ CreateNew(p)
    \/ CopyRows(p)
    \/ DropOld(p)
    \/ ReadUncoded(p)
    \/ \E code \in Codes : Backfill(p, code)
    \/ Commit(p)
    \/ Down(p)

Request(th) ==
    \/ \E code \in Codes : GenerateUniqueCode(th, code)
    \/ Insert(th)
    \/ RequestFails(th)

Next ==
    \/ \E p \in Processes : InitDb(p)
    \/ \E th \in Threads : Request(th)
    \/ \E m \in Messages : Enqueue(m)
    \/ Seed

Spec == Init /\ [][Next]_vars

-----------------------------------------------------------------------------
(* Properties                                                              *)

Queued(db) == db.notifications.rows \cup db.notifications_old.rows

\* No message ever leaves the disk, wherever a rebuild is killed and whichever
\* two processes rebuild at once.
MessagesKept ==
    [][Queued(disk) \subseteq Queued(disk')]_vars

\* And none is there twice, to be sent twice: the copy and the DROP are durable
\* together.
MessagesOnce == disk.notifications.rows \cap disk.notifications_old.rows = {}

\* Two reservations never share a code, whatever the generator returns, and
\* although its check is not part of the transaction that inserts the code.
CodesUnique ==
    \A i, j \in DOMAIN disk.codes :
        i # j /\ disk.codes[i] # NoCode => disk.codes[i] # disk.codes[j]

\* A code that POST /reservations returned is never replaced, by no backfill of
\* any later or overlapping init_db.
MintedCodesStay ==
    [][\A i \in minted : disk'.codes[i] = disk.codes[i]]_vars

\* db.py: the rebuild is "Idempotent", so a start that completes leaves a
\* complete queue, also when an earlier start was interrupted.
NothingLeftBehind ==
    \A p \in Processes : pc[p] = "up" => disk.notifications_old.rows = {}
=============================================================================
